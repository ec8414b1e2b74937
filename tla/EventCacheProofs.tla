-------------------------- MODULE EventCacheProofs --------------------------
(***************************************************************************)
(* The event cache for any number of threads, queues and buffers, any      *)
(* sizes and any limits: the control of a call, the locks, the counters,   *)
(* who owns a buffer, what the memory monitor is charged for it, the       *)
(* budget, and the abstract cache that all this implements.                *)
(***************************************************************************)
EXTENDS EventCache, TLAPS

(***************************************************************************)
(* What a thread's control point says about the call it runs and the call  *)
(* it has suspended to log.                                                *)
(***************************************************************************)
Refused == {"exceeded", "exception"}

BufferPresent(t) ==
    /\ pc[t] = "idle" => cur[t] = NoFrame
    /\ pc[t] \in PushLocs \cup {"pop.release"} => cur[t].buf \in Buffers
    /\ pc[t] \in {"pop.lock", "pop.take"} => cur[t].buf = NoBuf

ResultKnown(t) ==
    /\ pc[t] \in {"push.lock", "push.consume", "push.check", "push.link"} =>
          cur[t].res = "ok"
    /\ pc[t] \in {"push.log", "push.drop", "push.undo"} => cur[t].res \in Refused

Suspended(t) ==
    outer[t] # NoFrame =>
        /\ pc[t] \in PushLocs
        /\ cur[t].queue = DiagnosticQueue
        /\ outer[t].queue # DiagnosticQueue
        /\ outer[t].buf \in Buffers
        /\ outer[t].res \in Refused

MemoryLockHeld(t) == memoryLock = t <=> pc[t] = "push.check"

Control ==
    \A t \in Threads :
        BufferPresent(t) /\ ResultKnown(t) /\ Suspended(t) /\ MemoryLockHeld(t)

ControlInv == TypeOK /\ Control

-----------------------------------------------------------------------------
(***************************************************************************)
(* The sizes the monitor is charged are natural numbers.                   *)
(***************************************************************************)
LEMMA ItemSizeType == \A b \in Buffers : ItemSize(b) \in Nat
  BY BytesAssumption DEF ItemSize

(***************************************************************************)
(* What assigning one field of a frame, or counting one event, leaves.     *)
(***************************************************************************)
LEMMA SetRes ==
  ASSUME TypeOK, NEW t \in Threads, NEW r \in Results, cur' = [cur EXCEPT ![t].res = r]
  PROVE  /\ cur' \in [Threads -> Frame]
         /\ cur'[t].res = r /\ cur'[t].buf = cur[t].buf /\ cur'[t].queue = cur[t].queue
         /\ \A u \in Threads \ {t} : cur'[u] = cur[u]
<1> DEFINE g == [cur[t] EXCEPT !.res = r]
<1>1. cur[t] \in Frame
  BY DEF TypeOK
<1>2. g \in Frame /\ g.res = r /\ g.buf = cur[t].buf /\ g.queue = cur[t].queue
  BY <1>1 DEF Frame
<1>3. cur' = [cur EXCEPT ![t] = g]
  OBVIOUS
<1> HIDE DEF g
<1> QED
  BY <1>2, <1>3 DEF TypeOK

(***************************************************************************)
(* The same for the data pointer of a frame.                               *)
(***************************************************************************)
LEMMA SetBuf ==
  ASSUME TypeOK, NEW t \in Threads, NEW b \in Buffers, cur' = [cur EXCEPT ![t].buf = b]
  PROVE  /\ cur' \in [Threads -> Frame]
         /\ cur'[t].buf = b /\ cur'[t].res = cur[t].res /\ cur'[t].queue = cur[t].queue
         /\ \A u \in Threads \ {t} : cur'[u] = cur[u]
<1> DEFINE g == [cur[t] EXCEPT !.buf = b]
<1>1. cur[t] \in Frame
  BY DEF TypeOK
<1>2. g \in Frame /\ g.buf = b /\ g.res = cur[t].res /\ g.queue = cur[t].queue
  BY <1>1 DEF Frame
<1>3. cur' = [cur EXCEPT ![t] = g]
  OBVIOUS
<1> HIDE DEF g
<1> QED
  BY <1>2, <1>3 DEF TypeOK

Tally == [collected : Nat, dropped : Nat]
Outcomes == [ok : Nat, exceeded : Nat, exception : Nat]

(***************************************************************************)
(* The queue a call works on exists, and its state has its type.           *)
(***************************************************************************)
LEMMA CurrentQueue ==
  ASSUME TypeOK, NEW t \in Threads
  PROVE  /\ cur[t].queue \in Queues
         /\ items[cur[t].queue] \in Seq(Buffers)
         /\ counter[cur[t].queue] \in Tally
         /\ outcome[cur[t].queue] \in Outcomes
<1>1. cur[t].queue \in Queues
  BY DEF TypeOK, Frame
<1> QED
  BY <1>1 DEF TypeOK, Tally, Outcomes

(***************************************************************************)
(* An outcome recorded for the current queue keeps its type.               *)
(***************************************************************************)
LEMMA SetOutcome ==
  ASSUME TypeOK, NEW t \in Threads, NEW r \in {"ok", "exceeded", "exception"},
         outcome' = [outcome EXCEPT ![cur[t].queue][r] = @ + 1]
  PROVE  outcome' \in [Queues -> Outcomes]
<1> DEFINE o == [outcome[cur[t].queue] EXCEPT ![r] = @ + 1]
<1>1. o \in Outcomes
  BY CurrentQueue DEF Outcomes
<1>2. outcome' = [outcome EXCEPT ![cur[t].queue] = o]
  OBVIOUS
<1> HIDE DEF o
<1> QED
  BY <1>1, <1>2, CurrentQueue DEF TypeOK, Outcomes

(***************************************************************************)
(* The control invariant holds initially.                                  *)
(***************************************************************************)
LEMMA InitControl == Init => ControlInv
<1> SUFFICES ASSUME Init PROVE ControlInv
  OBVIOUS
<1>1. NoFrame \in Frame
  BY QueueAssumption DEF NoFrame, Frame, Results
<1>2. TypeOK
  <2>1. [collected |-> 0, dropped |-> 0] \in [collected : Nat, dropped : Nat]
    OBVIOUS
  <2>2. [ok |-> 0, exceeded |-> 0, exception |-> 0]
          \in [ok : Nat, exceeded : Nat, exception : Nat]
    OBVIOUS
  <2>3. << >> \in Seq(Buffers)
    OBVIOUS
  <2> QED
    BY <1>1, <2>1, <2>2, <2>3, QueueAssumption, SizeAssumption DEF Init, TypeOK
<1>3. Control
  BY QueueAssumption DEF Init, Control, BufferPresent, ResultKnown, Suspended,
     MemoryLockHeld, PushLocs, NoFrame
<1> QED
  BY <1>2, <1>3 DEF ControlInv

(***************************************************************************)
(* A step of one thread that leaves the monitor's lock alone need only be  *)
(* looked at in that thread.                                               *)
(***************************************************************************)
LEMMA OneThreadControl ==
  ASSUME Control, NEW t \in Threads, memoryLock' = memoryLock,
         \A u \in Threads \ {t} :
            pc'[u] = pc[u] /\ cur'[u] = cur[u] /\ outer'[u] = outer[u],
         BufferPresent(t)', ResultKnown(t)', Suspended(t)', MemoryLockHeld(t)'
  PROVE  Control'
<1> SUFFICES ASSUME NEW u \in Threads
             PROVE  (/\ BufferPresent(u) /\ ResultKnown(u)
                     /\ Suspended(u) /\ MemoryLockHeld(u))'
  BY DEF Control
<1>1. CASE u = t
  BY <1>1
<1>2. CASE u # t
  <2>1. BufferPresent(u) /\ ResultKnown(u) /\ Suspended(u) /\ MemoryLockHeld(u)
    BY DEF Control
  <2>2. pc'[u] = pc[u] /\ cur'[u] = cur[u] /\ outer'[u] = outer[u]
    BY <1>2
  <2> QED
    BY <2>1, <2>2 DEF BufferPresent, ResultKnown, Suspended, MemoryLockHeld
<1> QED
  BY <1>1, <1>2

(***************************************************************************)
(* Every step keeps the control invariant: one case per action.            *)
(***************************************************************************)
LEMMA NextControl == ControlInv /\ [Next]_vars => ControlInv'
<1> SUFFICES ASSUME ControlInv, [Next]_vars PROVE ControlInv'
  OBVIOUS
<1> USE QueueAssumption, SizeAssumption
    DEF ControlInv, At, Goto, queueVars, memoryVars, twinVars, threadVars, history
<1>0. NoFrame \in Frame /\ NoFrame.buf = NoBuf /\ NoFrame.queue = DiagnosticQueue
  BY DEF NoFrame, Frame, Results
<1>1. ASSUME NEW t \in Threads, NEW q \in Queues, PushBack(t, q) PROVE ControlInv'
  <2>1. PICK b \in Free : cur' = [cur EXCEPT ![t] = NewFrame(q, b)]
    BY <1>1 DEF PushBack
  <2>2. b \in Buffers /\ NewFrame(q, b) \in Frame
    BY <2>1 DEF Free, NewFrame, Frame, Results
  <2>3. TypeOK'
    BY <1>1, <2>1, <2>2 DEF PushBack, TypeOK, PushLocs
  <2>4. Control'
    <3>1. /\ pc[t] = "idle" /\ pc'[t] = "push.lock" /\ memoryLock' = memoryLock
          /\ cur'[t] = NewFrame(q, b) /\ outer'[t] = outer[t]
          /\ \A u \in Threads \ {t} :
              pc'[u] = pc[u] /\ cur'[u] = cur[u] /\ outer'[u] = outer[u]
      BY <1>1, <2>1, <2>2 DEF PushBack, TypeOK
    <3>2. BufferPresent(t) /\ ResultKnown(t) /\ Suspended(t) /\ MemoryLockHeld(t)
      BY DEF Control
    <3>3. (/\ BufferPresent(t) /\ ResultKnown(t) /\ Suspended(t) /\ MemoryLockHeld(t))'
      BY <1>1, <2>1, <2>2, <3>1, <3>2 DEF BufferPresent, ResultKnown, Suspended,
         MemoryLockHeld, PushLocs, NewFrame
    <3> QED
      BY <3>1, <3>3, OneThreadControl
  <2> QED
    BY <2>3, <2>4
<1>2. ASSUME NEW t \in Threads, PushBackLock(t) PROVE ControlInv'
  <2>1. TypeOK'
    BY <1>2 DEF PushBackLock, AcquireLock, TypeOK, PushLocs, Frame
  <2>2. Control'
    BY <1>2 DEF PushBackLock, AcquireLock, TypeOK, Control, BufferPresent, ResultKnown,
       Suspended, MemoryLockHeld, PushLocs
  <2> QED
    BY <2>1, <2>2
<1>3. ASSUME NEW t \in Threads, ConsumeLock(t) PROVE ControlInv'
  <2>1. TypeOK'
    BY <1>3 DEF ConsumeLock, TypeOK, PushLocs
  <2>2. Control'
    BY <1>3 DEF ConsumeLock, TypeOK, Control, BufferPresent, ResultKnown,
       Suspended, MemoryLockHeld, PushLocs
  <2> QED
    BY <2>1, <2>2
<1>4. ASSUME NEW t \in Threads, Consume(t) PROVE ControlInv'
  <2> DEFINE f == cur[t]
             size == ItemSize(f.buf)
  <2>1. f \in Frame /\ f.buf \in Buffers /\ size \in Nat
    BY <1>4, ItemSizeType DEF Consume, TypeOK, Control, BufferPresent, PushLocs
  <2>2. (currentConsumption + size) % UintMod \in Nat
    BY <2>1 DEF TypeOK
  <2>3. CASE /\ currentConsumption' = (currentConsumption + size) % UintMod
             /\ pc' = [pc EXCEPT ![t] = "push.link"]
             /\ UNCHANGED <<cur, outcome>>
    <3>1. TypeOK'
      BY <1>4, <2>2, <2>3 DEF Consume, TypeOK, PushLocs
    <3>2. Control'
      BY <1>4, <2>3 DEF Consume, TypeOK, Control, BufferPresent, ResultKnown,
         Suspended, MemoryLockHeld, PushLocs
    <3> QED
      BY <3>1, <3>2
  <2>4. ASSUME NEW r \in Refused,
               cur' = [cur EXCEPT ![t].res = r],
               outcome' = [outcome EXCEPT ![f.queue][r] = @ + 1],
               pc' = [pc EXCEPT ![t] = "push.log"],
               UNCHANGED currentConsumption
        PROVE  ControlInv'
    <3>1. outcome' \in [Queues -> Outcomes]
      BY <2>4, SetOutcome DEF Refused
    <3>2. /\ cur' \in [Threads -> Frame]
          /\ cur'[t].res = r /\ cur'[t].buf = f.buf /\ cur'[t].queue = f.queue
          /\ \A u \in Threads \ {t} : cur'[u] = cur[u]
      BY <2>4, SetRes DEF Refused, Results
    <3>3. TypeOK'
      BY <1>4, <2>4, <3>1, <3>2 DEF Consume, TypeOK, PushLocs, Outcomes
    <3>4. Control'
      BY <1>4, <2>1, <2>4, <3>2 DEF Consume, TypeOK, Control, BufferPresent,
         ResultKnown, Suspended, MemoryLockHeld, PushLocs
    <3> QED
      BY <3>3, <3>4
  <2> QED
    BY <1>4, <2>3, <2>4 DEF Consume, Refused
<1>5. ASSUME NEW t \in Threads, LinkItem(t) PROVE ControlInv'
  <2>0. /\ outcome' \in [Queues -> Outcomes]
        /\ items' \in [Queues -> Seq(Buffers)]
    <3>1. cur[t].buf \in Buffers
      BY <1>5 DEF LinkItem, Control, BufferPresent, PushLocs
    <3>2. Append(items[cur[t].queue], cur[t].buf) \in Seq(Buffers)
      BY <3>1, CurrentQueue
    <3>3. items' \in [Queues -> Seq(Buffers)]
      BY <1>5, <3>2, CurrentQueue DEF LinkItem, TypeOK
    <3>4. outcome' = [outcome EXCEPT ![cur[t].queue]["ok"] = @ + 1]
      BY <1>5 DEF LinkItem
    <3> QED
      BY <3>3, <3>4, SetOutcome
  <2>1. TypeOK'
    BY <1>5, <2>0 DEF LinkItem, TypeOK, PushLocs, Outcomes
  <2>2. Control'
    BY <1>5 DEF LinkItem, TypeOK, Control, BufferPresent, ResultKnown,
       Suspended, MemoryLockHeld, PushLocs
  <2> QED
    BY <2>1, <2>2
<1>6. ASSUME NEW t \in Threads, LinkFails(t) PROVE ControlInv'
  <2>1. /\ cur' \in [Threads -> Frame]
        /\ cur'[t].res = "exception" /\ cur'[t].buf = cur[t].buf
        /\ cur'[t].queue = cur[t].queue
        /\ \A u \in Threads \ {t} : cur'[u] = cur[u]
    BY <1>6, SetRes DEF LinkFails, Results
  <2>2. TypeOK'
    <3>1. outcome' = [outcome EXCEPT ![cur[t].queue]["exception"] = @ + 1]
      BY <1>6 DEF LinkFails
    <3>2. outcome' \in [Queues -> Outcomes]
      BY <3>1, SetOutcome
    <3> QED
      BY <1>6, <2>1, <3>2 DEF LinkFails, TypeOK, PushLocs, Outcomes
  <2>3. Control'
    BY <1>6, <2>1 DEF LinkFails, TypeOK, Control, BufferPresent, ResultKnown,
       Suspended, MemoryLockHeld, PushLocs, Refused
  <2> QED
    BY <2>2, <2>3
<1>7. ASSUME NEW t \in Threads, UndoConsume(t) PROVE ControlInv'
  <2>1. ItemSize(cur[t].buf) \in Nat
    BY <1>7, ItemSizeType DEF UndoConsume, TypeOK, Control, BufferPresent, PushLocs
  <2>2. currentConsumption' \in Nat
    BY <1>7, <2>1 DEF UndoConsume, Release, TypeOK
  <2>3. TypeOK'
    BY <1>7, <2>2 DEF UndoConsume, Release, TypeOK, PushLocs
  <2>4. Control'
    BY <1>7 DEF UndoConsume, Release, TypeOK, Control, BufferPresent, ResultKnown,
       Suspended, MemoryLockHeld, PushLocs
  <2> QED
    BY <2>3, <2>4
<1>8. ASSUME NEW t \in Threads, LogRefusal(t) PROVE ControlInv'
  <2>1. PICK b \in Free : cur' = [cur EXCEPT ![t] = NewFrame(DiagnosticQueue, b)]
    BY <1>8 DEF LogRefusal
  <2>2. b \in Buffers /\ NewFrame(DiagnosticQueue, b) \in Frame
    BY <2>1 DEF Free, NewFrame, Frame, Results
  <2>3. TypeOK'
    BY <1>8, <2>1, <2>2 DEF LogRefusal, TypeOK, PushLocs
  <2>4. cur[t].queue # DiagnosticQueue /\ cur[t].buf \in Buffers /\ cur[t].res \in Refused
    BY <1>8 DEF LogRefusal, Logs, ShouldSendLogs, Control, BufferPresent, ResultKnown, PushLocs
  <2>5. Control'
    BY <1>8, <2>1, <2>2, <2>4 DEF LogRefusal, TypeOK, Control, BufferPresent, ResultKnown,
       Suspended, MemoryLockHeld, PushLocs, NewFrame
  <2> QED
    BY <2>3, <2>5
<1>9. ASSUME NEW t \in Threads, SkipLog(t) PROVE ControlInv'
  <2>1. TypeOK'
    BY <1>9 DEF SkipLog, TypeOK, PushLocs, AfterLog
  <2>2. Control'
    BY <1>9 DEF SkipLog, TypeOK, Control, BufferPresent, ResultKnown,
       Suspended, MemoryLockHeld, PushLocs, AfterLog, Refused
  <2> QED
    BY <2>1, <2>2
<1>10. ASSUME NEW t \in Threads, CountDropped(t) PROVE ControlInv'
  <2>0. counter' \in [Queues -> Tally]
    <3> DEFINE c == [counter[cur[t].queue] EXCEPT !.dropped = @ + 1]
    <3>1. c \in Tally
      BY CurrentQueue DEF Tally
    <3>2. counter' = [counter EXCEPT ![cur[t].queue] = c]
      BY <1>10 DEF CountDropped
    <3> HIDE DEF c
    <3> QED
      BY <3>1, <3>2, CurrentQueue DEF TypeOK, Tally
  <2>1. TypeOK'
    BY <1>10, <2>0 DEF CountDropped, TypeOK, PushLocs, Tally
  <2>2. Control'
    BY <1>10 DEF CountDropped, TypeOK, Control, BufferPresent, ResultKnown,
       Suspended, MemoryLockHeld, PushLocs
  <2> QED
    BY <2>1, <2>2
<1>11. ASSUME NEW t \in Threads, CountCollected(t) PROVE ControlInv'
  <2>0. counter' \in [Queues -> Tally]
    <3> DEFINE c == [counter[cur[t].queue] EXCEPT !.collected = @ + 1]
    <3>1. c \in Tally
      BY CurrentQueue DEF Tally
    <3>2. counter' = [counter EXCEPT ![cur[t].queue] = c]
      BY <1>11 DEF CountCollected
    <3> HIDE DEF c
    <3> QED
      BY <3>1, <3>2, CurrentQueue DEF TypeOK, Tally
  <2>1. TypeOK'
    BY <1>11, <2>0 DEF CountCollected, TypeOK, PushLocs, Tally
  <2>2. Control'
    BY <1>11 DEF CountCollected, TypeOK, Control, BufferPresent, ResultKnown,
       Suspended, MemoryLockHeld, PushLocs
  <2> QED
    BY <2>1, <2>2
<1>12. ASSUME NEW t \in Threads, PushBackUnlock(t) PROVE ControlInv'
  <2>1. TypeOK'
    BY <1>0, <1>12 DEF PushBackUnlock, AfterLog, TypeOK, PushLocs
  <2>2. Control'
    <3>1. /\ pc[t] = "push.unlock" /\ pc'[t] = (IF outer[t] = NoFrame THEN "idle" ELSE AfterLog(outer[t])) /\ memoryLock' = memoryLock
          /\ cur'[t] = outer[t] /\ outer'[t] = NoFrame
          /\ \A u \in Threads \ {t} :
              pc'[u] = pc[u] /\ cur'[u] = cur[u] /\ outer'[u] = outer[u]
      BY <1>0, <1>12 DEF PushBackUnlock, TypeOK
    <3>2. BufferPresent(t) /\ ResultKnown(t) /\ Suspended(t) /\ MemoryLockHeld(t)
      BY DEF Control
    <3>3. (/\ BufferPresent(t) /\ ResultKnown(t) /\ Suspended(t) /\ MemoryLockHeld(t))'
      BY <1>0, <1>12, <3>1, <3>2 DEF BufferPresent, ResultKnown, Suspended,
         MemoryLockHeld, PushLocs, AfterLog, Refused
    <3> QED
      BY <3>1, <3>3, OneThreadControl
  <2> QED
    BY <2>1, <2>2
<1>13. ASSUME NEW t \in Threads, NEW q \in Queues, PopFront(t, q) PROVE ControlInv'
  <2>1. NewFrame(q, NoBuf) \in Frame /\ NewFrame(q, NoBuf).buf = NoBuf
    BY DEF NewFrame, Frame, Results
  <2>2. TypeOK'
    BY <1>13, <2>1 DEF PopFront, TypeOK, PopLocs
  <2>3. Control'
    <3>1. /\ pc[t] = "idle" /\ pc'[t] = "pop.lock" /\ memoryLock' = memoryLock
          /\ cur'[t] = NewFrame(q, NoBuf) /\ outer'[t] = outer[t]
          /\ \A u \in Threads \ {t} :
              pc'[u] = pc[u] /\ cur'[u] = cur[u] /\ outer'[u] = outer[u]
      BY <1>13, <2>1 DEF PopFront, TypeOK
    <3>2. BufferPresent(t) /\ ResultKnown(t) /\ Suspended(t) /\ MemoryLockHeld(t)
      BY DEF Control
    <3>3. (/\ BufferPresent(t) /\ ResultKnown(t) /\ Suspended(t) /\ MemoryLockHeld(t))'
      BY <1>13, <2>1, <3>1, <3>2 DEF BufferPresent, ResultKnown, Suspended,
         MemoryLockHeld, PushLocs
    <3> QED
      BY <3>1, <3>3, OneThreadControl
  <2> QED
    BY <2>2, <2>3
<1>14. ASSUME NEW t \in Threads, PopFrontLock(t) PROVE ControlInv'
  <2>1. TypeOK'
    BY <1>14 DEF PopFrontLock, AcquireLock, TypeOK, PopLocs, Frame
  <2>2. Control'
    <3>1. /\ pc[t] = "pop.lock" /\ pc'[t] = "pop.take" /\ memoryLock' = memoryLock
          /\ cur'[t] = cur[t] /\ outer'[t] = outer[t]
          /\ \A u \in Threads \ {t} :
              pc'[u] = pc[u] /\ cur'[u] = cur[u] /\ outer'[u] = outer[u]
      BY <1>14 DEF PopFrontLock, AcquireLock, TypeOK
    <3>2. BufferPresent(t) /\ ResultKnown(t) /\ Suspended(t) /\ MemoryLockHeld(t)
      BY DEF Control
    <3>3. (/\ BufferPresent(t) /\ ResultKnown(t) /\ Suspended(t) /\ MemoryLockHeld(t))'
      BY <3>1, <3>2 DEF BufferPresent, ResultKnown, Suspended,
         MemoryLockHeld, PushLocs
    <3> QED
      BY <3>1, <3>3, OneThreadControl
  <2> QED
    BY <2>1, <2>2
<1>15. ASSUME NEW t \in Threads, PopNothing(t) PROVE ControlInv'
  <2>1. /\ cur' \in [Threads -> Frame] /\ cur'[t].buf = cur[t].buf
        /\ \A u \in Threads \ {t} : cur'[u] = cur[u]
    BY <1>15, SetRes DEF PopNothing, Results
  <2>2. TypeOK'
    BY <1>15, <2>1 DEF PopNothing, TypeOK, PopLocs
  <2>3. Control'
    BY <1>15, <2>1 DEF PopNothing, TypeOK, Control, BufferPresent, ResultKnown,
       Suspended, MemoryLockHeld, PushLocs
  <2> QED
    BY <2>2, <2>3
<1>16. ASSUME NEW t \in Threads, UnlinkItem(t) PROVE ControlInv'
  <2>1. cur[t].queue \in Queues /\ items[cur[t].queue] \in Seq(Buffers)
    BY CurrentQueue
  <2>2. /\ Head(items[cur[t].queue]) \in Buffers
        /\ Tail(items[cur[t].queue]) \in Seq(Buffers)
    BY <1>16, <2>1 DEF UnlinkItem
  <2>3. /\ cur' \in [Threads -> Frame] /\ cur'[t].buf \in Buffers
        /\ \A u \in Threads \ {t} : cur'[u] = cur[u]
    <3>1. cur' = [cur EXCEPT ![t].buf = Head(items[cur[t].queue])]
      BY <1>16 DEF UnlinkItem
    <3> QED
      BY <2>2, <3>1, SetBuf
  <2>4. TypeOK'
    BY <1>16, <2>1, <2>2, <2>3 DEF UnlinkItem, TypeOK, PopLocs
  <2>5. Control'
    <3>1. /\ pc[t] = "pop.take" /\ pc'[t] = "pop.release" /\ memoryLock' = memoryLock
          /\ cur'[t].buf \in Buffers /\ outer'[t] = outer[t]
          /\ \A u \in Threads \ {t} :
              pc'[u] = pc[u] /\ cur'[u] = cur[u] /\ outer'[u] = outer[u]
      BY <1>16, <2>3 DEF UnlinkItem, TypeOK
    <3>2. BufferPresent(t) /\ ResultKnown(t) /\ Suspended(t) /\ MemoryLockHeld(t)
      BY DEF Control
    <3>3. (/\ BufferPresent(t) /\ ResultKnown(t) /\ Suspended(t) /\ MemoryLockHeld(t))'
      BY <1>16, <2>3, <3>1, <3>2 DEF BufferPresent, ResultKnown, Suspended,
         MemoryLockHeld, PushLocs
    <3> QED
      BY <3>1, <3>3, OneThreadControl
  <2> QED
    BY <2>4, <2>5
<1>17. ASSUME NEW t \in Threads, ReleaseItem(t) PROVE ControlInv'
  <2>1. ItemSize(cur[t].buf) \in Nat
    BY <1>17, ItemSizeType DEF ReleaseItem, TypeOK, Control, BufferPresent
  <2>2. currentConsumption' \in Nat
    BY <1>17, <2>1 DEF ReleaseItem, Release, TypeOK
  <2>3. TypeOK'
    BY <1>17, <2>2 DEF ReleaseItem, Release, TypeOK, PopLocs
  <2>4. Control'
    BY <1>17 DEF ReleaseItem, Release, TypeOK, Control, BufferPresent, ResultKnown,
       Suspended, MemoryLockHeld, PushLocs
  <2> QED
    BY <2>3, <2>4
<1>18. ASSUME NEW t \in Threads, PopFrontUnlock(t) PROVE ControlInv'
  <2>1. TypeOK'
    BY <1>0, <1>18 DEF PopFrontUnlock, TypeOK
  <2>2. Control'
    BY <1>0, <1>18 DEF PopFrontUnlock, TypeOK, Control, BufferPresent, ResultKnown,
       Suspended, MemoryLockHeld, PushLocs
  <2> QED
    BY <2>1, <2>2
<1>19. ASSUME NEW t \in Threads, NEW q \in Queues, SnapshotAndReset(t, q) PROVE ControlInv'
  <2> DEFINE r == [collected |-> reported[q].collected + counter[q].collected,
                   dropped |-> reported[q].dropped + counter[q].dropped]
  <2>3. r \in Tally /\ [collected |-> 0, dropped |-> 0] \in Tally
    <3>1. reported[q] \in Tally /\ counter[q] \in Tally
      BY DEF TypeOK, Tally
    <3>2. /\ reported[q].collected \in Nat /\ reported[q].dropped \in Nat
          /\ counter[q].collected \in Nat /\ counter[q].dropped \in Nat
      BY <3>1 DEF Tally
    <3> QED
      BY <3>2 DEF Tally
  <2>4. reported' = [reported EXCEPT ![q] = r]
    BY <1>19 DEF SnapshotAndReset
  <2> HIDE DEF r
  <2>1. TypeOK'
    <3>0. counter \in [Queues -> Tally] /\ reported \in [Queues -> Tally]
      BY DEF TypeOK, Tally
    <3>1. counter' \in [Queues -> Tally] /\ reported' \in [Queues -> Tally]
      BY <1>19, <2>3, <2>4, <3>0 DEF SnapshotAndReset
    <3> QED
      BY <1>19, <3>1 DEF SnapshotAndReset, TypeOK, Tally
  <2>2. Control'
    BY <1>19 DEF SnapshotAndReset, Control, BufferPresent, ResultKnown,
       Suspended, MemoryLockHeld
  <2> QED
    BY <2>1, <2>2
<1>20. CASE TwinLock \/ TwinEnds \/ TwinOutOfMemory
  <2>1. TypeOK'
    BY <1>20 DEF TwinLock, TwinEnds, TwinUpdate, TwinOutOfMemory, TypeOK
  <2>2. Control'
    BY <1>20 DEF TwinLock, TwinEnds, TwinUpdate, TwinOutOfMemory, Control, BufferPresent,
       ResultKnown, Suspended, MemoryLockHeld
  <2> QED
    BY <2>1, <2>2
<1>21. CASE UNCHANGED vars
  BY <1>21 DEF vars, TypeOK, Control, BufferPresent, ResultKnown, Suspended, MemoryLockHeld
<1> QED
  BY <1>1, <1>2, <1>3, <1>4, <1>5, <1>6, <1>7, <1>8, <1>9, <1>10, <1>11, <1>12, <1>13,
     <1>14, <1>15, <1>16, <1>17, <1>18, <1>19, <1>20, <1>21
     DEF Next, Step, PushStep, PopStep

(***************************************************************************)
(* Type correctness: counters, consumption and limits are numbers, queues  *)
(* hold buffers, frames name queues, in every reachable state.             *)
(***************************************************************************)
THEOREM TypeCorrect == Spec => []TypeOK
<1>1. ControlInv => TypeOK
  BY DEF ControlInv
<1> QED
  BY InitControl, NextControl, <1>1, PTL DEF Spec

-----------------------------------------------------------------------------
(***************************************************************************)
(* The queues' locks.                                                      *)
(***************************************************************************)
LEMMA InitLocks == Init => QueueLockProtects
  BY QueueAssumption DEF Init, QueueLockProtects, Uses, InSection

(***************************************************************************)
(* A step that leaves a thread alone leaves the lists it uses; a step      *)
(* inside a section leaves them too.                                       *)
(***************************************************************************)
LEMMA SameUses ==
  ASSUME NEW u \in Threads, pc'[u] = pc[u], cur'[u] = cur[u], outer'[u] = outer[u]
  PROVE  \A q : Uses(u, q)' <=> Uses(u, q)
  BY DEF Uses, InSection

(***************************************************************************)
(* A step inside the critical section uses the queues it used before.      *)
(***************************************************************************)
LEMMA SectionUses ==
  ASSUME NEW t \in Threads, InSection(t), InSection(t)', cur'[t].queue = cur[t].queue,
         outer'[t] = outer[t]
  PROVE  \A q : Uses(t, q)' <=> Uses(t, q)
  BY DEF Uses

(***************************************************************************)
(* Every step keeps the lock invariant: only AcquireLock and the two       *)
(* unlocks change who uses a queue, and they change its lock with it.      *)
(***************************************************************************)
LEMMA NextLocks ==
  ControlInv /\ QueueLockProtects /\ [Next]_vars => QueueLockProtects'
<1> SUFFICES ASSUME ControlInv, QueueLockProtects, [Next]_vars PROVE QueueLockProtects'
  OBVIOUS
<1> USE QueueAssumption DEF ControlInv, At, Goto, queueVars, memoryVars, twinVars,
        threadVars, history
<1>0. NoFrame.buf = NoBuf /\ NoFrame.queue = DiagnosticQueue
  BY DEF NoFrame
<1>1. ASSUME NEW t \in Threads, NEW q \in Queues, PushBack(t, q) \/ PopFront(t, q)
      PROVE  QueueLockProtects'
  <2>1. /\ ~InSection(t) /\ ~InSection(t)' /\ UNCHANGED <<lock, outer>>
        /\ \A u \in Threads \ {t} : pc'[u] = pc[u] /\ cur'[u] = cur[u] /\ outer'[u] = outer[u]
    BY <1>1 DEF PushBack, PopFront, TypeOK, InSection
  <2>2. outer[t] = NoFrame
    BY <1>1 DEF PushBack, PopFront, Control, Suspended, PushLocs
  <2>3. \A p : ~Uses(t, p) /\ ~Uses(t, p)'
    BY <2>1, <2>2 DEF Uses
  <2> QED
    BY <2>1, <2>3, SameUses DEF QueueLockProtects
<1>2. ASSUME NEW t \in Threads, PushBackLock(t) \/ PopFrontLock(t) PROVE QueueLockProtects'
  <2>1. /\ pc[t] \in {"push.lock", "pop.lock"} /\ cur[t].queue \in Queues
        /\ lock[cur[t].queue] = NoThread
        /\ lock' = [lock EXCEPT ![cur[t].queue] = t]
        /\ pc'[t] \in {"push.consume", "pop.take"}
        /\ \A u \in Threads \ {t} : pc'[u] = pc[u]
        /\ UNCHANGED <<cur, outer>>
    BY <1>2, CurrentQueue DEF PushBackLock, PopFrontLock, AcquireLock, TypeOK
  <2>2. \A q : Uses(t, q)' <=> Uses(t, q) \/ q = cur[t].queue
    BY <2>1 DEF Uses, InSection
  <2>3. \A u \in Threads \ {t} : \A q : Uses(u, q)' <=> Uses(u, q)
    BY <2>1, SameUses
  <2>4. \A q \in Queues : lock'[q] = IF q = cur[t].queue THEN t ELSE lock[q]
    BY <2>1 DEF TypeOK
  <2> QED
    BY <2>1, <2>2, <2>3, <2>4 DEF QueueLockProtects
<1>3. ASSUME NEW t \in Threads,
             \/ ConsumeLock(t) \/ LinkItem(t) \/ UndoConsume(t) \/ SkipLog(t)
             \/ CountDropped(t) \/ CountCollected(t) \/ ReleaseItem(t)
      PROVE  QueueLockProtects'
  <2>1. /\ InSection(t) /\ InSection(t)' /\ UNCHANGED <<lock, cur, outer>>
        /\ \A u \in Threads \ {t} : pc'[u] = pc[u]
    BY <1>3 DEF ConsumeLock, LinkItem, UndoConsume, SkipLog, AfterLog, CountDropped,
       CountCollected, ReleaseItem, InSection, TypeOK
  <2> QED
    BY <2>1, SameUses, SectionUses DEF QueueLockProtects
<1>4. ASSUME NEW t \in Threads,
             Consume(t) \/ LinkFails(t) \/ PopNothing(t) \/ UnlinkItem(t)
      PROVE  QueueLockProtects'
  <2>1. InSection(t) /\ InSection(t)'
    BY <1>4 DEF Consume, LinkFails, PopNothing, UnlinkItem, InSection, TypeOK
  <2>2. /\ cur'[t].queue = cur[t].queue
        /\ \A u \in Threads \ {t} : cur'[u] = cur[u]
    <3>1. CASE UNCHANGED cur
      BY <3>1
    <3>2. ASSUME NEW r \in Results, cur' = [cur EXCEPT ![t].res = r]
          PROVE  /\ cur'[t].queue = cur[t].queue
                 /\ \A u \in Threads \ {t} : cur'[u] = cur[u]
      BY <3>2, SetRes
    <3>3. CASE UnlinkItem(t)
      <4>1. Head(items[cur[t].queue]) \in Buffers
        BY <3>3, CurrentQueue DEF UnlinkItem
      <4> QED
        BY <3>3, <4>1, SetBuf DEF UnlinkItem
    <3> QED
      BY <1>4, <3>1, <3>2, <3>3 DEF Consume, LinkFails, PopNothing, Results
  <2>3. UNCHANGED <<lock, outer>> /\ \A u \in Threads \ {t} : pc'[u] = pc[u]
    BY <1>4 DEF Consume, LinkFails, PopNothing, UnlinkItem, TypeOK
  <2> QED
    BY <2>1, <2>2, <2>3, SameUses, SectionUses DEF QueueLockProtects
<1>5. ASSUME NEW t \in Threads, LogRefusal(t) PROVE QueueLockProtects'
  <2>1. /\ cur[t].queue # DiagnosticQueue /\ outer[t] = NoFrame /\ cur[t] # NoFrame
        /\ InSection(t)
    BY <1>0, <1>5 DEF LogRefusal, Logs, ShouldSendLogs, Control, Suspended, InSection
  <2>2. /\ outer'[t] = cur[t] /\ ~InSection(t)' /\ UNCHANGED lock
        /\ \A u \in Threads \ {t} : pc'[u] = pc[u] /\ cur'[u] = cur[u] /\ outer'[u] = outer[u]
    BY <1>5 DEF LogRefusal, InSection, TypeOK
  <2>3. \A q : Uses(t, q)' <=> Uses(t, q)
    BY <2>1, <2>2 DEF Uses
  <2> QED
    BY <2>2, <2>3, SameUses DEF QueueLockProtects
<1>6. ASSUME NEW t \in Threads, PushBackUnlock(t) PROVE QueueLockProtects'
  <2>1. /\ cur'[t] = outer[t] /\ outer'[t] = NoFrame
        /\ pc'[t] = (IF outer[t] = NoFrame THEN "idle" ELSE AfterLog(outer[t]))
        /\ lock' = [lock EXCEPT ![cur[t].queue] = NoThread]
        /\ \A u \in Threads \ {t} : pc'[u] = pc[u] /\ cur'[u] = cur[u] /\ outer'[u] = outer[u]
    BY <1>6 DEF PushBackUnlock, TypeOK
  <2>2. InSection(t)' <=> outer[t] # NoFrame
    BY <2>1 DEF InSection, AfterLog
  <2>3. InSection(t) /\ cur[t].queue \in Queues
    BY <1>6, CurrentQueue DEF PushBackUnlock, InSection
  <2>4. outer[t] # NoFrame => outer[t].queue # cur[t].queue
    BY DEF Control, Suspended
  <2>5. \A q : Uses(t, q)' <=> Uses(t, q) /\ q # cur[t].queue
    BY <2>1, <2>2, <2>3, <2>4 DEF Uses
  <2>6. \A u \in Threads \ {t} : \A q : Uses(u, q)' <=> Uses(u, q)
    BY <2>1, SameUses
  <2>7. \A q \in Queues : lock'[q] = IF q = cur[t].queue THEN NoThread ELSE lock[q]
    BY <2>1 DEF TypeOK
  <2>8. lock[cur[t].queue] = t
    BY <2>3 DEF QueueLockProtects, Uses
  <2> QED
    BY <2>5, <2>6, <2>7, <2>8 DEF QueueLockProtects
<1>7. ASSUME NEW t \in Threads, PopFrontUnlock(t) PROVE QueueLockProtects'
  <2>1. /\ pc'[t] = "idle" /\ UNCHANGED outer
        /\ lock' = [lock EXCEPT ![cur[t].queue] = NoThread]
        /\ \A u \in Threads \ {t} : pc'[u] = pc[u] /\ cur'[u] = cur[u]
    BY <1>7 DEF PopFrontUnlock, TypeOK
  <2>2. outer[t] = NoFrame /\ InSection(t) /\ cur[t].queue \in Queues
    BY <1>7, CurrentQueue DEF PopFrontUnlock, InSection, Control, Suspended, PushLocs
  <2>3. \A q : Uses(t, q)' <=> Uses(t, q) /\ q # cur[t].queue
    BY <2>1, <2>2 DEF Uses, InSection
  <2>4. \A u \in Threads \ {t} : \A q : Uses(u, q)' <=> Uses(u, q)
    BY <2>1, SameUses
  <2>5. \A q \in Queues : lock'[q] = IF q = cur[t].queue THEN NoThread ELSE lock[q]
    BY <2>1 DEF TypeOK
  <2>6. lock[cur[t].queue] = t
    BY <2>2 DEF QueueLockProtects, Uses
  <2> QED
    BY <2>3, <2>4, <2>5, <2>6 DEF QueueLockProtects
<1>8. CASE \/ TwinLock \/ TwinEnds \/ TwinOutOfMemory \/ UNCHANGED vars
           \/ \E t \in Threads, q \in Queues : SnapshotAndReset(t, q)
  <2>1. UNCHANGED <<lock, pc, cur, outer>>
    BY <1>8 DEF TwinLock, TwinEnds, TwinUpdate, TwinOutOfMemory, vars, SnapshotAndReset
  <2> QED
    BY <2>1, SameUses DEF QueueLockProtects
<1> QED
  BY <1>1, <1>2, <1>3, <1>4, <1>5, <1>6, <1>7, <1>8 DEF Next, Step, PushStep, PopStep

(***************************************************************************)
(* Mutual exclusion on the lists: a thread that is inside PushBack or      *)
(* PopFront of a queue, or away logging from inside it, and only such a    *)
(* thread, holds the lock of SyncQueue.                                    *)
(***************************************************************************)
THEOREM LocksCorrect == Spec => []QueueLockProtects
<1> DEFINE I == ControlInv /\ QueueLockProtects
<1>1. Init => I
  BY InitControl, InitLocks
<1>2. I /\ [Next]_vars => I'
  BY NextControl, NextLocks
<1> QED
  BY <1>1, <1>2, PTL DEF Spec

-----------------------------------------------------------------------------
(***************************************************************************)
(* The counters.  Between the end of a push and its increments the counter *)
(* of the queue is behind: a thread owes it one, also while it is away     *)
(* logging.  The queue's lock lets only one thread owe at a time.          *)
(***************************************************************************)
OwesCollected(t, q) ==
    \/ /\ cur[t].queue = q
       /\ pc[t] \in {"push.log", "push.undo", "push.drop", "push.collected"}
    \/ outer[t] # NoFrame /\ outer[t].queue = q

OwesDropped(t, q) ==
    \/ /\ cur[t].queue = q
       /\ pc[t] = "push.drop" \/ (pc[t] = "push.log" /\ cur[t].res = "exceeded")
    \/ outer[t] # NoFrame /\ outer[t].queue = q /\ outer[t].res = "exceeded"

CollectedOwed(q) == IF \E t \in Threads : OwesCollected(t, q) THEN 1 ELSE 0
DroppedOwed(q) == IF \E t \in Threads : OwesDropped(t, q) THEN 1 ELSE 0

CountersExact ==
    \A q \in Queues :
        /\ reported[q].collected + counter[q].collected + CollectedOwed(q) = Finished(q)
        /\ reported[q].dropped + counter[q].dropped + DroppedOwed(q)
             = outcome[q].exceeded

CountersInv == ControlInv /\ QueueLockProtects /\ CountersExact

(***************************************************************************)
(* The numbers of a queue's counters.                                      *)
(***************************************************************************)
LEMMA CounterTypes ==
  ASSUME TypeOK, NEW q \in Queues
  PROVE  /\ reported[q].collected \in Nat /\ reported[q].dropped \in Nat
         /\ counter[q].collected \in Nat /\ counter[q].dropped \in Nat
         /\ outcome[q].ok \in Nat /\ outcome[q].exceeded \in Nat
         /\ outcome[q].exception \in Nat
BY DEF TypeOK

(***************************************************************************)
(* Who owes a counter something holds the lock of its queue, so a thread   *)
(* inside a queue is the only one that can.                                *)
(***************************************************************************)
LEMMA OnlyUserOwes ==
  ASSUME QueueLockProtects, NEW t \in Threads, NEW q \in Queues, Uses(t, q)
  PROVE  \A u \in Threads \ {t} : ~OwesCollected(u, q) /\ ~OwesDropped(u, q)
BY DEF QueueLockProtects, Uses, InSection, OwesCollected, OwesDropped

(***************************************************************************)
(* A step of one thread leaves what the others owe.                        *)
(***************************************************************************)
LEMMA SameOwed ==
  ASSUME NEW u \in Threads, pc'[u] = pc[u], cur'[u] = cur[u], outer'[u] = outer[u]
  PROVE  \A q : /\ OwesCollected(u, q)' <=> OwesCollected(u, q)
                /\ OwesDropped(u, q)' <=> OwesDropped(u, q)
BY DEF OwesCollected, OwesDropped

(***************************************************************************)
(* A step that changes neither a counter nor what is owed.                 *)
(***************************************************************************)
LEMMA CountersKept ==
  ASSUME CountersExact, UNCHANGED <<counter, outcome, reported>>,
         \A u \in Threads, q \in Queues :
            /\ OwesCollected(u, q)' <=> OwesCollected(u, q)
            /\ OwesDropped(u, q)' <=> OwesDropped(u, q)
  PROVE  CountersExact'
<1> SUFFICES ASSUME NEW q \in Queues
             PROVE  /\ CollectedOwed(q)' = CollectedOwed(q)
                    /\ DroppedOwed(q)' = DroppedOwed(q)
  BY DEF CountersExact, Finished
<1> QED
  BY DEF CollectedOwed, DroppedOwed

(***************************************************************************)
(* A step inside a queue by the thread that holds its lock: what is owed   *)
(* to that queue is what the thread owes, before and after.                *)
(***************************************************************************)
LEMMA UserOwes ==
  ASSUME QueueLockProtects, NEW t \in Threads, NEW q \in Queues, Uses(t, q),
         \A u \in Threads \ {t} : pc'[u] = pc[u] /\ cur'[u] = cur[u] /\ outer'[u] = outer[u]
  PROVE  /\ CollectedOwed(q) = IF OwesCollected(t, q) THEN 1 ELSE 0
         /\ DroppedOwed(q) = IF OwesDropped(t, q) THEN 1 ELSE 0
         /\ CollectedOwed(q)' = IF OwesCollected(t, q)' THEN 1 ELSE 0
         /\ DroppedOwed(q)' = IF OwesDropped(t, q)' THEN 1 ELSE 0
<1>1. \A u \in Threads \ {t} : ~OwesCollected(u, q) /\ ~OwesDropped(u, q)
  BY OnlyUserOwes
<1>2. \A u \in Threads \ {t} : ~OwesCollected(u, q)' /\ ~OwesDropped(u, q)'
  BY <1>1, SameOwed
<1> QED
  BY <1>1, <1>2 DEF CollectedOwed, DroppedOwed

(***************************************************************************)
(* A step inside a queue that changes only this queue's counters, and      *)
(* changes them by what the thread's debt changes.                         *)
(***************************************************************************)
LEMMA CountersSettled ==
  ASSUME CountersInv, NEW t \in Threads, NEW c, c = cur[t].queue, c \in Queues,
         Uses(t, c),
         \A u \in Threads \ {t} : pc'[u] = pc[u] /\ cur'[u] = cur[u] /\ outer'[u] = outer[u],
         outer' = outer, cur'[t].queue = c, outer[t] = NoFrame \/ outer[t].queue # c,
         \A q \in Queues \ {c} : /\ counter'[q] = counter[q] /\ outcome'[q] = outcome[q]
                                 /\ reported'[q] = reported[q],
         LET owe(P) == IF P THEN 1 ELSE 0
         IN  /\ reported'[c].collected + counter'[c].collected
                  + owe(OwesCollected(t, c)') = Finished(c)'
             /\ reported'[c].dropped + counter'[c].dropped
                  + owe(OwesDropped(t, c)') = outcome'[c].exceeded
  PROVE  CountersExact'
<1>1. QueueLockProtects /\ CountersExact
  BY DEF CountersInv
<1>2. /\ CollectedOwed(c)' = IF OwesCollected(t, c)' THEN 1 ELSE 0
      /\ DroppedOwed(c)' = IF OwesDropped(t, c)' THEN 1 ELSE 0
  BY <1>1, UserOwes
<1>3. ASSUME NEW q \in Queues, q # c
      PROVE  CollectedOwed(q)' = CollectedOwed(q) /\ DroppedOwed(q)' = DroppedOwed(q)
  <2>1. /\ OwesCollected(t, q)' <=> OwesCollected(t, q)
        /\ OwesDropped(t, q)' <=> OwesDropped(t, q)
    BY <1>3 DEF OwesCollected, OwesDropped
  <2> QED
    BY <2>1, SameOwed DEF CollectedOwed, DroppedOwed
<1> QED
  BY <1>1, <1>2, <1>3 DEF CountersExact, Finished

(***************************************************************************)
(* A push that ends, with the result res: its outcome is recorded, and the *)
(* thread owes the counter of the queue one, two if it was refused for     *)
(* lack of memory.                                                         *)
(***************************************************************************)
LEMMA PushEnds ==
  ASSUME CountersInv, NEW t \in Threads, NEW res \in {"ok", "exceeded", "exception"},
         outcome' = [outcome EXCEPT ![cur[t].queue][res] = @ + 1],
         UNCHANGED <<counter, reported, outer>>,
         cur'[t].queue = cur[t].queue,
         pc[t] \in {"push.check", "push.link"},
         \/ pc'[t] \in {"push.undo", "push.collected"} /\ res # "exceeded"
         \/ pc'[t] = "push.log" /\ cur'[t].res = res,
         \A u \in Threads \ {t} : pc'[u] = pc[u] /\ cur'[u] = cur[u]
  PROVE  CountersExact'
<1> DEFINE c == cur[t].queue
<1>0. TypeOK /\ Control /\ QueueLockProtects /\ CountersExact
  BY DEF CountersInv, ControlInv
<1>1. c \in Queues /\ outcome[c] \in Outcomes
  BY <1>0, CurrentQueue
<1>2. outcome' = [outcome EXCEPT ![c] = [outcome[c] EXCEPT ![res] = @ + 1]]
  OBVIOUS
<1> HIDE DEF c
<1>3. /\ \A q \in Queues \ {c} : outcome'[q] = outcome[q]
      /\ outcome'[c] = [outcome[c] EXCEPT ![res] = @ + 1]
  BY <1>0, <1>1, <1>2 DEF TypeOK
<1>4. /\ outcome'[c].exceeded = outcome[c].exceeded + (IF res = "exceeded" THEN 1 ELSE 0)
      /\ outcome'[c].ok + outcome'[c].exceeded + outcome'[c].exception
           = outcome[c].ok + outcome[c].exceeded + outcome[c].exception + 1
  BY <1>1, <1>3 DEF Outcomes
<1>5. InSection(t) /\ Uses(t, c) /\ (outer[t] = NoFrame \/ outer[t].queue # c)
  BY <1>0 DEF InSection, Uses, Control, Suspended, c
<1>6. /\ ~OwesCollected(t, c) /\ ~OwesDropped(t, c)
      /\ OwesCollected(t, c)' /\ (OwesDropped(t, c)' <=> res = "exceeded")
  BY <1>5 DEF OwesCollected, OwesDropped, c
<1>7. CollectedOwed(c) = 0 /\ DroppedOwed(c) = 0
  BY <1>0, <1>1, <1>5, <1>6, UserOwes
<1>8. /\ reported[c].collected + counter[c].collected = Finished(c)
      /\ reported[c].dropped + counter[c].dropped = outcome[c].exceeded
  BY <1>0, <1>1, <1>7, CounterTypes DEF CountersExact
<1>9. Finished(c)' = Finished(c) + 1
  BY <1>1, <1>4 DEF Finished, c
<1> QED
  BY <1>0, <1>1, <1>3, <1>4, <1>5, <1>6, <1>8, <1>9, CountersSettled, CounterTypes DEF c

(***************************************************************************)
(* Every step keeps the counters exact.                                    *)
(***************************************************************************)
LEMMA NextCounters == CountersInv /\ [Next]_vars => CountersExact'
<1> SUFFICES ASSUME CountersInv, [Next]_vars PROVE CountersExact'
  OBVIOUS
<1> USE QueueAssumption DEF At, Goto, queueVars, memoryVars, twinVars, threadVars, history
<1>0. TypeOK /\ Control /\ QueueLockProtects /\ CountersExact
  BY DEF CountersInv, ControlInv
<1>a. NoFrame.buf = NoBuf /\ NoFrame.queue = DiagnosticQueue
  BY DEF NoFrame
<1>1. ASSUME NEW t \in Threads, NEW q \in Queues, PushBack(t, q) \/ PopFront(t, q)
      PROVE  CountersExact'
  <2>1. /\ UNCHANGED <<outer, counter, outcome, reported>>
        /\ pc[t] = "idle" /\ pc'[t] \in {"push.lock", "pop.lock"}
        /\ \A u \in Threads \ {t} : pc'[u] = pc[u] /\ cur'[u] = cur[u]
    BY <1>0, <1>1 DEF PushBack, PopFront, TypeOK
  <2>2. \A p : /\ OwesCollected(t, p)' <=> OwesCollected(t, p)
               /\ OwesDropped(t, p)' <=> OwesDropped(t, p)
    BY <1>0, <2>1 DEF OwesCollected, OwesDropped, Control, Suspended, PushLocs
  <2> QED
    BY <1>0, <2>1, <2>2, SameOwed, CountersKept
<1>2. ASSUME NEW t \in Threads,
             \/ PushBackLock(t) \/ PopFrontLock(t) \/ ConsumeLock(t) \/ UndoConsume(t)
             \/ SkipLog(t) \/ ReleaseItem(t)
      PROVE  CountersExact'
  <2>1. /\ UNCHANGED <<cur, outer, counter, outcome, reported>>
        /\ \A u \in Threads \ {t} : pc'[u] = pc[u]
    BY <1>0, <1>2 DEF PushBackLock, PopFrontLock, AcquireLock, ConsumeLock, UndoConsume,
       SkipLog, ReleaseItem, TypeOK
  <2>2. \/ /\ pc[t] \in {"push.lock", "pop.lock", "push.consume", "pop.release"}
           /\ pc'[t] \in {"push.consume", "pop.take", "push.check", "pop.unlock"}
        \/ pc[t] = "push.undo" /\ pc'[t] = "push.collected"
        \/ pc[t] = "push.log" /\ pc'[t] = AfterLog(cur[t])
    BY <1>0, <1>2 DEF PushBackLock, PopFrontLock, AcquireLock, ConsumeLock, UndoConsume,
       SkipLog, ReleaseItem, TypeOK
  <2>3. \A p : /\ OwesCollected(t, p)' <=> OwesCollected(t, p)
               /\ OwesDropped(t, p)' <=> OwesDropped(t, p)
    BY <2>1, <2>2 DEF OwesCollected, OwesDropped, AfterLog
  <2> QED
    BY <1>0, <2>1, <2>3, SameOwed, CountersKept
<1>3. ASSUME NEW t \in Threads, PopNothing(t) \/ UnlinkItem(t) \/ PopFrontUnlock(t)
      PROVE  CountersExact'
  <2>1. /\ UNCHANGED <<outer, counter, outcome, reported>>
        /\ pc[t] \in PopLocs /\ pc'[t] \in {"pop.release", "pop.unlock", "idle"}
        /\ \A u \in Threads \ {t} : pc'[u] = pc[u] /\ cur'[u] = cur[u]
    BY <1>0, <1>3 DEF PopNothing, UnlinkItem, PopFrontUnlock, TypeOK, PopLocs
  <2>2. \A p : /\ OwesCollected(t, p)' <=> OwesCollected(t, p)
               /\ OwesDropped(t, p)' <=> OwesDropped(t, p)
    BY <1>0, <2>1 DEF OwesCollected, OwesDropped, Control, Suspended, PushLocs, PopLocs
  <2> QED
    BY <1>0, <2>1, <2>2, SameOwed, CountersKept
<1>4. ASSUME NEW t \in Threads, LogRefusal(t) PROVE CountersExact'
  <2>1. /\ cur[t].queue # DiagnosticQueue /\ outer[t] = NoFrame /\ cur[t] # NoFrame
        /\ pc[t] = "push.log"
    BY <1>0, <1>a, <1>4 DEF LogRefusal, Logs, ShouldSendLogs, Control, Suspended
  <2>2. /\ outer'[t] = cur[t] /\ pc'[t] = "push.lock"
        /\ UNCHANGED <<counter, outcome, reported>>
        /\ \A u \in Threads \ {t} : pc'[u] = pc[u] /\ cur'[u] = cur[u] /\ outer'[u] = outer[u]
    BY <1>0, <1>4 DEF LogRefusal, TypeOK
  <2>3. \A p : /\ OwesCollected(t, p)' <=> OwesCollected(t, p)
               /\ OwesDropped(t, p)' <=> OwesDropped(t, p)
    BY <2>1, <2>2 DEF OwesCollected, OwesDropped
  <2> QED
    BY <1>0, <2>2, <2>3, SameOwed, CountersKept
<1>5. ASSUME NEW t \in Threads, PushBackUnlock(t) PROVE CountersExact'
  <2>1. /\ cur'[t] = outer[t] /\ outer'[t] = NoFrame /\ pc[t] = "push.unlock"
        /\ pc'[t] = (IF outer[t] = NoFrame THEN "idle" ELSE AfterLog(outer[t]))
        /\ UNCHANGED <<counter, outcome, reported>>
        /\ \A u \in Threads \ {t} : pc'[u] = pc[u] /\ cur'[u] = cur[u] /\ outer'[u] = outer[u]
    BY <1>0, <1>5 DEF PushBackUnlock, TypeOK
  <2>2. \A p : /\ OwesCollected(t, p)' <=> OwesCollected(t, p)
               /\ OwesDropped(t, p)' <=> OwesDropped(t, p)
    BY <2>1 DEF OwesCollected, OwesDropped, AfterLog
  <2> QED
    BY <1>0, <2>1, <2>2, SameOwed, CountersKept
<1>6. ASSUME NEW t \in Threads, NEW c \in Queues, c = cur[t].queue
      PROVE  /\ InSection(t) => Uses(t, c)
             /\ outer[t] = NoFrame \/ outer[t].queue # c
             /\ CountersExact /\ QueueLockProtects
             /\ reported[c].collected \in Nat /\ reported[c].dropped \in Nat
             /\ counter[c].collected \in Nat /\ counter[c].dropped \in Nat
             /\ outcome[c] \in Outcomes
  BY <1>0, <1>6, CounterTypes, CurrentQueue DEF Uses, Control, Suspended
<1>7. ASSUME NEW t \in Threads, CountDropped(t) PROVE CountersExact'
  <2> DEFINE c == cur[t].queue
  <2>0. c \in Queues /\ counter[c] \in Tally
    BY <1>0, CurrentQueue
  <2>1. /\ UNCHANGED <<cur, outer, outcome, reported>>
        /\ pc[t] = "push.drop" /\ pc'[t] = "push.collected"
        /\ \A u \in Threads \ {t} : pc'[u] = pc[u]
    BY <1>0, <1>7 DEF CountDropped, TypeOK
  <2>2. counter' = [counter EXCEPT ![c] = [counter[c] EXCEPT !.dropped = @ + 1]]
    BY <1>7 DEF CountDropped
  <2> HIDE DEF c
  <2>3. /\ counter'[c].dropped = counter[c].dropped + 1
        /\ counter'[c].collected = counter[c].collected
        /\ \A q \in Queues \ {c} : counter'[q] = counter[q]
    BY <1>0, <2>0, <2>2 DEF TypeOK, Tally
  <2>4. InSection(t) /\ Uses(t, c) /\ (outer[t] = NoFrame \/ outer[t].queue # c)
    BY <1>6, <2>0, <2>1 DEF InSection, c
  <2>5. /\ OwesCollected(t, c) /\ OwesDropped(t, c)
        /\ OwesCollected(t, c)' /\ ~OwesDropped(t, c)'
    BY <2>1, <2>4 DEF OwesCollected, OwesDropped, c
  <2>6. CollectedOwed(c) = 1 /\ DroppedOwed(c) = 1
    BY <1>0, <2>0, <2>1, <2>4, <2>5, UserOwes
  <2>7. /\ reported[c].collected + counter[c].collected + 1 = Finished(c)
        /\ reported[c].dropped + counter[c].dropped + 1 = outcome[c].exceeded
    BY <1>0, <2>0, <2>6 DEF CountersExact
  <2>8. Finished(c)' = Finished(c)
    BY <2>1 DEF Finished, c
  <2> QED
    BY <2>0, <2>1, <2>3, <2>4, <2>5, <2>7, <2>8, CountersSettled, CounterTypes, <1>0
       DEF c
<1>8. ASSUME NEW t \in Threads, CountCollected(t) PROVE CountersExact'
  <2> DEFINE c == cur[t].queue
  <2>0. c \in Queues /\ counter[c] \in Tally
    BY <1>0, CurrentQueue
  <2>1. /\ UNCHANGED <<cur, outer, outcome, reported>>
        /\ pc[t] = "push.collected" /\ pc'[t] = "push.unlock"
        /\ \A u \in Threads \ {t} : pc'[u] = pc[u]
    BY <1>0, <1>8 DEF CountCollected, TypeOK
  <2>2. counter' = [counter EXCEPT ![c] = [counter[c] EXCEPT !.collected = @ + 1]]
    BY <1>8 DEF CountCollected
  <2> HIDE DEF c
  <2>3. /\ counter'[c].collected = counter[c].collected + 1
        /\ counter'[c].dropped = counter[c].dropped
        /\ \A q \in Queues \ {c} : counter'[q] = counter[q]
    BY <1>0, <2>0, <2>2 DEF TypeOK, Tally
  <2>4. InSection(t) /\ Uses(t, c) /\ (outer[t] = NoFrame \/ outer[t].queue # c)
    BY <1>6, <2>0, <2>1 DEF InSection, c
  <2>5. /\ OwesCollected(t, c) /\ ~OwesDropped(t, c)
        /\ ~OwesCollected(t, c)' /\ ~OwesDropped(t, c)'
    BY <2>1, <2>4 DEF OwesCollected, OwesDropped, c
  <2>6. CollectedOwed(c) = 1 /\ DroppedOwed(c) = 0
    BY <1>0, <2>0, <2>1, <2>4, <2>5, UserOwes
  <2>7. /\ reported[c].collected + counter[c].collected + 1 = Finished(c)
        /\ reported[c].dropped + counter[c].dropped + 0 = outcome[c].exceeded
    BY <1>0, <2>0, <2>6 DEF CountersExact
  <2>8. Finished(c)' = Finished(c)
    BY <2>1 DEF Finished, c
  <2> QED
    BY <2>0, <2>1, <2>3, <2>4, <2>5, <2>7, <2>8, CountersSettled, CounterTypes, <1>0
       DEF c
<1>9. ASSUME NEW t \in Threads, LinkItem(t) PROVE CountersExact'
  <2>1. /\ UNCHANGED <<cur, outer, counter, reported>>
        /\ pc[t] = "push.link" /\ pc'[t] = "push.collected"
        /\ \A u \in Threads \ {t} : pc'[u] = pc[u]
    BY <1>0, <1>9 DEF LinkItem, TypeOK
  <2>2. outcome' = [outcome EXCEPT ![cur[t].queue]["ok"] = @ + 1]
    BY <1>9 DEF LinkItem
  <2> QED
    BY <2>1, <2>2, PushEnds
<1>10. ASSUME NEW t \in Threads, LinkFails(t) PROVE CountersExact'
  <2>1. /\ UNCHANGED <<outer, counter, reported>>
        /\ pc[t] = "push.link" /\ pc'[t] = "push.undo"
        /\ \A u \in Threads \ {t} : pc'[u] = pc[u]
    BY <1>0, <1>10 DEF LinkFails, TypeOK
  <2>2. outcome' = [outcome EXCEPT ![cur[t].queue]["exception"] = @ + 1]
    BY <1>10 DEF LinkFails
  <2>3. cur'[t].queue = cur[t].queue /\ \A u \in Threads \ {t} : cur'[u] = cur[u]
    BY <1>0, <1>10, SetRes DEF LinkFails, Results
  <2> QED
    BY <2>1, <2>2, <2>3, PushEnds
<1>11. ASSUME NEW t \in Threads, Consume(t) PROVE CountersExact'
  <2>1. /\ UNCHANGED <<outer, counter, reported>> /\ pc[t] = "push.check"
        /\ \A u \in Threads \ {t} : pc'[u] = pc[u]
    BY <1>0, <1>11 DEF Consume, TypeOK
  <2>2. ASSUME NEW res \in {"exceeded", "exception"},
               cur' = [cur EXCEPT ![t].res = res],
               outcome' = [outcome EXCEPT ![cur[t].queue][res] = @ + 1],
               pc' = [pc EXCEPT ![t] = "push.log"]
        PROVE  CountersExact'
    <3>1. /\ cur'[t].queue = cur[t].queue /\ cur'[t].res = res
          /\ \A u \in Threads \ {t} : cur'[u] = cur[u]
      BY <1>0, <2>2, SetRes DEF Results
    <3>2. pc'[t] = "push.log"
      BY <1>0, <2>2 DEF TypeOK
    <3> QED
      BY <2>1, <2>2, <3>1, <3>2, PushEnds
  <2>3. CASE UNCHANGED <<cur, outcome>> /\ pc' = [pc EXCEPT ![t] = "push.link"]
    <3>1. pc'[t] = "push.link"
      BY <1>0, <2>3 DEF TypeOK
    <3>2. \A p : /\ OwesCollected(t, p)' <=> OwesCollected(t, p)
                 /\ OwesDropped(t, p)' <=> OwesDropped(t, p)
      BY <2>1, <2>3, <3>1 DEF OwesCollected, OwesDropped
    <3> QED
      BY <1>0, <2>1, <2>3, <3>2, SameOwed, CountersKept
  <2> QED
    BY <1>11, <2>2, <2>3 DEF Consume
<1>12. ASSUME NEW t \in Threads, NEW q \in Queues, SnapshotAndReset(t, q)
       PROVE  CountersExact'
  <2>1. /\ UNCHANGED <<pc, cur, outer, outcome>>
        /\ reported'[q].collected = reported[q].collected + counter[q].collected
        /\ reported'[q].dropped = reported[q].dropped + counter[q].dropped
        /\ counter'[q].collected = 0 /\ counter'[q].dropped = 0
        /\ \A p \in Queues \ {q} : reported'[p] = reported[p] /\ counter'[p] = counter[p]
    BY <1>0, <1>12 DEF SnapshotAndReset, TypeOK
  <2>2. \A p \in Queues : /\ CollectedOwed(p)' = CollectedOwed(p)
                          /\ DroppedOwed(p)' = DroppedOwed(p)
    BY <2>1, SameOwed DEF CollectedOwed, DroppedOwed
  <2>3. \A p \in Queues : Finished(p)' = Finished(p)
    BY <2>1 DEF Finished
  <2> QED
    BY <1>0, <2>1, <2>2, <2>3, CounterTypes DEF CountersExact
<1>13. CASE TwinLock \/ TwinEnds \/ TwinOutOfMemory \/ UNCHANGED vars
  <2>1. UNCHANGED <<pc, cur, outer, counter, outcome, reported>>
    BY <1>13 DEF TwinLock, TwinEnds, TwinUpdate, TwinOutOfMemory, vars
  <2> QED
    BY <1>0, <2>1, SameOwed, CountersKept
<1> QED
  BY <1>1, <1>2, <1>3, <1>4, <1>5, <1>7, <1>8, <1>9, <1>10, <1>11, <1>12, <1>13
     DEF Next, Step, PushStep, PopStep

(***************************************************************************)
(* AgentTelemetryCounter: whatever the threads, the snapshots and the log  *)
(* lines in between, a queue on which no push is running has counted every *)
(* push once, and every one that was refused for lack of memory as dropped.*)
(***************************************************************************)
THEOREM CountersCorrect == Spec => []CountersComplete
<1>1. Init => CountersInv
  <2> SUFFICES ASSUME Init PROVE CountersExact
    BY InitControl, InitLocks DEF CountersInv
  <2>1. \A q \in Queues : CollectedOwed(q) = 0 /\ DroppedOwed(q) = 0
    BY DEF Init, CollectedOwed, DroppedOwed, OwesCollected, OwesDropped
  <2> QED
    BY <2>1 DEF Init, CountersExact, Finished
<1>2. CountersInv /\ [Next]_vars => CountersInv'
  BY NextControl, NextLocks, NextCounters DEF CountersInv
<1>3. CountersInv => CountersComplete
  <2> SUFFICES ASSUME CountersInv, NEW q \in Queues, ~Pushing(q)
               PROVE  /\ reported[q].collected + counter[q].collected = Finished(q)
                      /\ reported[q].dropped + counter[q].dropped = outcome[q].exceeded
    BY DEF CountersComplete
  <2>1. CollectedOwed(q) = 0 /\ DroppedOwed(q) = 0
    BY DEF CollectedOwed, DroppedOwed, OwesCollected, OwesDropped, Pushing, PushLocs
  <2> QED
    BY <2>1, CounterTypes DEF CountersInv, ControlInv, CountersExact
<1> QED
  BY <1>1, <1>2, <1>3, PTL DEF Spec

-----------------------------------------------------------------------------
(***************************************************************************)
(* Lists: what appending and removing the head do to the elements.         *)
(***************************************************************************)
Distinct(s) == \A i, j \in 1 .. Len(s) : s[i] = s[j] => i = j

(***************************************************************************)
(* Queue_PushBack: an appended item is a new last element, and a list      *)
(* without repetitions keeps none if the item is new.                      *)
(***************************************************************************)
LEMMA AppendElements ==
  ASSUME NEW S, NEW s \in Seq(S), NEW b \in S
  PROVE  /\ Elements(Append(s, b)) = Elements(s) \cup {b}
         /\ Distinct(s) /\ b \notin Elements(s) => Distinct(Append(s, b))
<1> DEFINE a == Append(s, b)
<1>1. /\ Len(a) = Len(s) + 1 /\ a[Len(s) + 1] = b /\ Len(s) \in Nat
      /\ \A i \in 1 .. Len(s) : a[i] = s[i]
  OBVIOUS
<1> HIDE DEF a
<1>2. Elements(a) = Elements(s) \cup {b}
  <2>1. ASSUME NEW i \in 1 .. Len(a) PROVE a[i] \in Elements(s) \cup {b}
    <3>1. i \in 1 .. Len(s) \/ i = Len(s) + 1
      BY <1>1
    <3> QED
      BY <1>1, <3>1 DEF Elements
  <2>2. ASSUME NEW i \in 1 .. Len(s) PROVE s[i] \in Elements(a)
    BY <1>1 DEF Elements
  <2>3. b \in Elements(a)
    BY <1>1 DEF Elements
  <2> QED
    BY <2>1, <2>2, <2>3 DEF Elements
<1>3. ASSUME Distinct(s), b \notin Elements(s) PROVE Distinct(a)
  <2> SUFFICES ASSUME NEW i \in 1 .. Len(a), NEW j \in 1 .. Len(a), a[i] = a[j] PROVE i = j
    BY DEF Distinct
  <2>1. /\ i \in 1 .. Len(s) \/ i = Len(s) + 1
        /\ j \in 1 .. Len(s) \/ j = Len(s) + 1
    BY <1>1
  <2> QED
    BY <1>1, <1>3, <2>1 DEF Distinct, Elements
<1> QED
  BY <1>2, <1>3 DEF a

(***************************************************************************)
(* Queue_PopFront: removing the head of a list without repetitions removes *)
(* exactly that element.                                                   *)
(***************************************************************************)
LEMMA TailElements ==
  ASSUME NEW S, NEW s \in Seq(S), s # << >>, Distinct(s)
  PROVE  /\ Elements(Tail(s)) = Elements(s) \ {Head(s)}
         /\ Head(s) \in Elements(s)
         /\ Distinct(Tail(s))
<1> DEFINE a == Tail(s)
<1>1. /\ Len(s) \in Nat /\ Len(s) > 0 /\ Len(a) = Len(s) - 1 /\ Head(s) = s[1]
      /\ \A i \in 1 .. Len(a) : a[i] = s[i + 1]
  OBVIOUS
<1> HIDE DEF a
<1>2. Elements(a) = Elements(s) \ {s[1]}
  <2>1. ASSUME NEW i \in 1 .. Len(a) PROVE a[i] \in Elements(s) \ {s[1]}
    <3>1. i + 1 \in 1 .. Len(s) /\ 1 \in 1 .. Len(s) /\ i + 1 # 1
      BY <1>1
    <3> QED
      BY <1>1, <3>1 DEF Elements, Distinct
  <2>2. ASSUME NEW i \in 1 .. Len(s), s[i] # s[1] PROVE s[i] \in Elements(a)
    <3>1. i # 1
      BY <2>2
    <3>2. i - 1 \in 1 .. Len(a) /\ i - 1 + 1 = i
      BY <1>1, <3>1
    <3> QED
      BY <1>1, <3>2 DEF Elements
  <2> QED
    BY <2>1, <2>2 DEF Elements
<1>3. Distinct(a)
  <2> SUFFICES ASSUME NEW i \in 1 .. Len(a), NEW j \in 1 .. Len(a), a[i] = a[j] PROVE i = j
    BY DEF Distinct
  <2>1. i + 1 \in 1 .. Len(s) /\ j + 1 \in 1 .. Len(s)
    BY <1>1
  <2>2. i + 1 = j + 1
    BY <1>1, <2>1 DEF Distinct
  <2> QED
    BY <2>2, <1>1
<1>4. s[1] \in Elements(s)
  BY <1>1 DEF Elements
<1> QED
  BY <1>1, <1>2, <1>3, <1>4 DEF a

-----------------------------------------------------------------------------
(***************************************************************************)
(* Ownership.  The invariant adds to BuffersOwnedOnce that the event a     *)
(* suspended push keeps is not the one its log line is made of.            *)
(***************************************************************************)
QueuesSeparate ==
    /\ \A q \in Queues : Distinct(items[q])
    /\ \A p, q \in Queues : p # q => Elements(items[p]) \cap Elements(items[q]) = {}

FramesSeparate(t) ==
    ~GaveAway(t) /\ outer[t].buf # NoBuf => cur[t].buf # outer[t].buf

Ownership ==
    /\ QueuesSeparate
    /\ \A t \in Threads : Owned(t) \cap Queued = {} /\ FramesSeparate(t)
    /\ \A t, u \in Threads : t # u => Owned(t) \cap Owned(u) = {}

(***************************************************************************)
(* The strengthened ownership implies the property.                        *)
(***************************************************************************)
LEMMA OwnershipSuffices == Ownership => BuffersOwnedOnce
<1> SUFFICES ASSUME QueuesSeparate PROVE QueuesDisjoint
  BY DEF Ownership, BuffersOwnedOnce
<1> SUFFICES ASSUME NEW p \in Queues, NEW q \in Queues,
                    NEW i \in 1 .. Len(items[p]), NEW j \in 1 .. Len(items[q]),
                    items[p][i] = items[q][j]
             PROVE  p = q /\ i = j
  BY DEF QueuesDisjoint
<1>1. items[p][i] \in Elements(items[p]) /\ items[p][i] \in Elements(items[q])
  BY DEF Elements
<1>2. p = q
  BY <1>1 DEF QueuesSeparate
<1> QED
  BY <1>2 DEF QueuesSeparate, Distinct

(***************************************************************************)
(* No buffer is owned when the queues are created.                         *)
(***************************************************************************)
LEMMA InitOwnership == Init => Ownership
<1> SUFFICES ASSUME Init PROVE Ownership
  OBVIOUS
<1>1. \A q \in Queues : Elements(items[q]) = {} /\ Distinct(items[q])
  BY DEF Init, Elements, Distinct
<1>2. \A t \in Threads : Owned(t) = {} /\ FramesSeparate(t)
  BY DEF Init, Owned, FramesSeparate, NoFrame, GaveAway
<1> QED
  BY <1>1, <1>2 DEF Ownership, QueuesSeparate, Queued

(***************************************************************************)
(* A step of thread t that moves no item keeps the invariant if t owns     *)
(* afterwards only what it owned, or a buffer that was free.               *)
(***************************************************************************)
LEMMA SameOwner ==
  ASSUME NEW u \in Threads, pc'[u] = pc[u], cur'[u] = cur[u], outer'[u] = outer[u]
  PROVE  /\ Owned(u)' = Owned(u) /\ FramesSeparate(u)' = FramesSeparate(u)
  BY DEF Owned, FramesSeparate, GaveAway

(***************************************************************************)
(* A buffer that malloc may return is in no queue and in no call.          *)
(***************************************************************************)
LEMMA FreeUnowned ==
  ASSUME NEW b \in Free
  PROVE  /\ b \in Buffers /\ b \notin Queued
         /\ \A u \in Threads : b \notin Owned(u) /\ b \notin Held(u)
<1>1. \A u \in Threads : b \notin Held(u)
  BY DEF Free
<1>2. \A u \in Threads : Owned(u) \subseteq Held(u)
  BY DEF Owned, Held
<1> QED
  BY <1>1, <1>2 DEF Free

(***************************************************************************)
(* A step of one thread that leaves the lists alone keeps ownership if the *)
(* thread only gives buffers up or takes free ones.                        *)
(***************************************************************************)
LEMMA OwnerStep ==
  ASSUME Ownership, NEW t \in Threads, UNCHANGED items, FramesSeparate(t)',
         \A u \in Threads \ {t} : pc'[u] = pc[u] /\ cur'[u] = cur[u] /\ outer'[u] = outer[u],
         \A b \in Owned(t)' : b \in Owned(t) \/ b \in Free
  PROVE  Ownership'
<1>1. \A u \in Threads \ {t} : Owned(u)' = Owned(u) /\ FramesSeparate(u)' = FramesSeparate(u)
  BY SameOwner
<1>2. QueuesSeparate' /\ Queued' = Queued
  BY DEF Ownership, QueuesSeparate, Queued
<1>3. Owned(t)' \cap Queued = {}
  BY FreeUnowned DEF Ownership
<1>4. \A u \in Threads \ {t} : Owned(t)' \cap Owned(u) = {}
  BY FreeUnowned DEF Ownership
<1> QED
  BY <1>1, <1>2, <1>3, <1>4 DEF Ownership

(***************************************************************************)
(* The items after a push and after a pop.                                 *)
(***************************************************************************)
LEMMA LinkedItems ==
  ASSUME ControlInv, Ownership, NEW t \in Threads, LinkItem(t)
  PROVE  /\ cur[t].buf \in Buffers /\ cur[t].buf \in Owned(t) /\ cur[t].buf \notin Queued
         /\ Queued' = Queued \cup {cur[t].buf}
         /\ QueuesSeparate'
<1> DEFINE k == cur[t].queue
           b == cur[t].buf
<1>1. /\ k \in Queues /\ items[k] \in Seq(Buffers) /\ items \in [Queues -> Seq(Buffers)]
  BY CurrentQueue DEF ControlInv, TypeOK
<1>2. b \in Buffers /\ b \in Owned(t)
  BY QueueAssumption DEF LinkItem, At, ControlInv, Control, BufferPresent, PushLocs,
     Owned, GaveAway
<1>3. b \notin Queued
  BY <1>2 DEF Ownership
<1>4. \A q \in Queues : b \notin Elements(items[q]) /\ Distinct(items[q])
  BY <1>3 DEF Queued, Ownership, QueuesSeparate
<1>5. \A q \in Queues : items'[q] = IF q = k THEN Append(items[k], b) ELSE items[q]
  BY <1>1 DEF LinkItem
<1>6. Elements(Append(items[k], b)) = Elements(items[k]) \cup {b} /\ Distinct(Append(items[k], b))
  BY <1>1, <1>2, <1>4, AppendElements
<1> HIDE DEF k, b
<1>7. \A q \in Queues : /\ Distinct(items'[q])
                        /\ Elements(items'[q]) = IF q = k THEN Elements(items[q]) \cup {b}
                                                 ELSE Elements(items[q])
  BY <1>4, <1>5, <1>6
<1>8. QueuesSeparate'
  BY <1>4, <1>7 DEF Ownership, QueuesSeparate
<1>9. Queued' = Queued \cup {b}
  BY <1>1, <1>7 DEF Queued
<1> QED
  BY <1>2, <1>3, <1>8, <1>9 DEF b

(***************************************************************************)
(* Queue_PopFront takes the head out of the queued buffers.                *)
(***************************************************************************)
LEMMA UnlinkedItems ==
  ASSUME ControlInv, Ownership, NEW t \in Threads, UnlinkItem(t)
  PROVE  LET b == Head(items[cur[t].queue])
         IN  /\ b \in Buffers /\ b \in Queued
             /\ Queued' = Queued \ {b}
             /\ QueuesSeparate'
<1> DEFINE k == cur[t].queue
           b == Head(items[k])
<1>1. /\ k \in Queues /\ items[k] \in Seq(Buffers) /\ items \in [Queues -> Seq(Buffers)]
      /\ items[k] # << >>
  BY CurrentQueue DEF ControlInv, TypeOK, UnlinkItem
<1>2. b \in Buffers
  BY <1>1
<1>3. \A q \in Queues : Distinct(items[q])
  BY DEF Ownership, QueuesSeparate
<1>4. /\ Elements(Tail(items[k])) = Elements(items[k]) \ {b}
      /\ b \in Elements(items[k]) /\ Distinct(Tail(items[k]))
  BY <1>1, <1>3, TailElements
<1>5. \A q \in Queues : items'[q] = IF q = k THEN Tail(items[k]) ELSE items[q]
  BY <1>1 DEF UnlinkItem
<1> HIDE DEF k, b
<1>6. \A q \in Queues : q # k => b \notin Elements(items[q])
  BY <1>1, <1>4 DEF Ownership, QueuesSeparate
<1>7. \A q \in Queues : /\ Distinct(items'[q])
                        /\ Elements(items'[q]) = Elements(items[q]) \ {b}
  BY <1>3, <1>4, <1>5, <1>6
<1>8. QueuesSeparate'
  BY <1>7 DEF Ownership, QueuesSeparate
<1>9. Queued' = Queued \ {b} /\ b \in Queued
  <2>1. \A x : x \in Queued <=> \E q \in Queues : x \in Elements(items[q])
    BY DEF Queued
  <2>2. \A x : x \in Queued' <=> \E q \in Queues : x \in Elements(items'[q])
    BY DEF Queued
  <2>3. b \in Queued
    BY <1>1, <1>4, <2>1
  <2>4. ASSUME NEW x PROVE x \in Queued' <=> x \in Queued /\ x # b
    <3>1. \A q \in Queues : x \in Elements(items'[q]) <=> x \in Elements(items[q]) /\ x # b
      BY <1>7
    <3> QED
      BY <2>1, <2>2, <3>1
  <2> QED
    BY <2>3, <2>4
<1> QED
  BY <1>2, <1>8, <1>9 DEF b, k

(***************************************************************************)
(* No step gives a buffer a second owner.                                  *)
(***************************************************************************)
LEMMA NextOwnership == ControlInv /\ Ownership /\ [Next]_vars => Ownership'
<1> SUFFICES ASSUME ControlInv, Ownership, [Next]_vars PROVE Ownership'
  OBVIOUS
<1> USE QueueAssumption DEF At, Goto, queueVars, memoryVars, twinVars, threadVars, history
<1>0. /\ TypeOK /\ NoFrame.buf = NoBuf /\ NoFrame.queue = DiagnosticQueue
      /\ \A t \in Threads :
            BufferPresent(t) /\ ResultKnown(t) /\ Suspended(t)
  BY DEF NoFrame, ControlInv, Control
<1>1. ASSUME NEW t \in Threads, NEW q \in Queues, PushBack(t, q) PROVE Ownership'
  <2>1. PICK b \in Free : cur' = [cur EXCEPT ![t] = NewFrame(q, b)]
    BY <1>1 DEF PushBack
  <2>2. cur'[t].buf = b /\ outer'[t] = NoFrame /\ pc'[t] = "push.lock"
    BY <1>0, <1>1, <2>1 DEF PushBack, TypeOK, NewFrame, Suspended, PushLocs
  <2>3. Owned(t)' \subseteq {b} /\ FramesSeparate(t)'
    BY <1>0, <2>2 DEF Owned, FramesSeparate, GaveAway
  <2>4. /\ UNCHANGED items
        /\ \A u \in Threads \ {t} : pc'[u] = pc[u] /\ cur'[u] = cur[u] /\ outer'[u] = outer[u]
    BY <1>0, <1>1, <2>1 DEF PushBack, TypeOK
  <2> QED
    BY <2>3, <2>4, OwnerStep
<1>2. ASSUME NEW t \in Threads, LogRefusal(t) PROVE Ownership'
  <2>1. PICK b \in Free : cur' = [cur EXCEPT ![t] = NewFrame(DiagnosticQueue, b)]
    BY <1>2 DEF LogRefusal
  <2>2. cur'[t].buf = b /\ outer'[t] = cur[t] /\ pc'[t] = "push.lock" /\ pc[t] = "push.log"
    BY <1>0, <1>2, <2>1 DEF LogRefusal, TypeOK, NewFrame
  <2>3. cur[t].buf \in Owned(t) \/ cur[t].buf = NoBuf
    BY <2>2 DEF Owned, GaveAway
  <2>4. b # cur[t].buf /\ b # NoBuf
    BY FreeUnowned DEF Held
  <2>5. Owned(t)' \subseteq {b} \cup Owned(t) /\ FramesSeparate(t)'
    BY <2>2, <2>3, <2>4 DEF Owned, FramesSeparate, GaveAway
  <2>6. /\ UNCHANGED items
        /\ \A u \in Threads \ {t} : pc'[u] = pc[u] /\ cur'[u] = cur[u] /\ outer'[u] = outer[u]
    BY <1>0, <1>2, <2>1 DEF LogRefusal, TypeOK
  <2> QED
    BY <2>5, <2>6, OwnerStep
<1>3. ASSUME NEW t \in Threads,
             \/ PushBackLock(t) \/ ConsumeLock(t) \/ UndoConsume(t) \/ SkipLog(t)
             \/ CountDropped(t) \/ CountCollected(t) \/ PopFrontLock(t) \/ ReleaseItem(t)
      PROVE  Ownership'
  <2>1. /\ UNCHANGED <<items, cur, outer>>
        /\ \A u \in Threads \ {t} : pc'[u] = pc[u]
    BY <1>0, <1>3 DEF PushBackLock, ConsumeLock, UndoConsume, SkipLog, CountDropped,
       CountCollected, PopFrontLock, AcquireLock, ReleaseItem, TypeOK
  <2>2. GaveAway(t)' <=> GaveAway(t)
    BY <1>0, <1>3, <2>1 DEF PushBackLock, ConsumeLock, UndoConsume, SkipLog, AfterLog,
       CountDropped, CountCollected, PopFrontLock, AcquireLock, ReleaseItem, TypeOK,
       GaveAway, ResultKnown, Refused
  <2>3. Owned(t)' = Owned(t) /\ FramesSeparate(t)'
    BY <2>1, <2>2 DEF Owned, FramesSeparate, Ownership
  <2> QED
    BY <2>1, <2>3, OwnerStep
<1>4. ASSUME NEW t \in Threads, Consume(t) \/ LinkFails(t) \/ PopNothing(t) PROVE Ownership'
  <2>1. \/ UNCHANGED cur
        \/ \E r \in Results \ {"ok"} : cur' = [cur EXCEPT ![t].res = r]
    BY <1>4 DEF Consume, LinkFails, PopNothing, Results
  <2>2. /\ cur'[t].buf = cur[t].buf
        /\ \A u \in Threads \ {t} : cur'[u] = cur[u]
    BY <1>0, <2>1, SetRes
  <2>3. /\ UNCHANGED <<items, outer>>
        /\ \A u \in Threads \ {t} : pc'[u] = pc[u]
        /\ pc[t] \in {"push.check", "push.link", "pop.take"}
        /\ pc'[t] \in {"push.log", "push.link", "push.undo", "pop.unlock"}
    BY <1>0, <1>4 DEF Consume, LinkFails, PopNothing, TypeOK
  <2>4. ~GaveAway(t) /\ ~GaveAway(t)'
    BY <2>3 DEF GaveAway
  <2>5. Owned(t)' = Owned(t) /\ FramesSeparate(t)'
    BY <2>2, <2>3, <2>4 DEF Owned, FramesSeparate, Ownership
  <2> QED
    BY <2>2, <2>3, <2>5, OwnerStep
<1>5. ASSUME NEW t \in Threads, LinkItem(t) PROVE Ownership'
  <2> DEFINE b == cur[t].buf
  <2>1. /\ b \in Buffers /\ b \in Owned(t) /\ b \notin Queued
        /\ Queued' = Queued \cup {b} /\ QueuesSeparate'
    BY <1>5, LinkedItems
  <2>2. /\ UNCHANGED <<cur, outer>> /\ pc[t] = "push.link" /\ pc'[t] = "push.collected"
        /\ \A u \in Threads \ {t} : pc'[u] = pc[u]
    BY <1>0, <1>5 DEF LinkItem, TypeOK
  <2>3. GaveAway(t)' /\ ~GaveAway(t)
    BY <1>0, <2>2 DEF GaveAway, ResultKnown
  <2>4. Owned(t)' = Owned(t) \ {b}
    BY <2>1, <2>2, <2>3 DEF Owned, Ownership, FramesSeparate
  <2>5. FramesSeparate(t)'
    BY <2>3 DEF FramesSeparate
  <2>6. \A u \in Threads \ {t} : Owned(u)' = Owned(u) /\ FramesSeparate(u)'
    BY <2>2, SameOwner DEF Ownership
  <2>7. \A u \in Threads \ {t} : b \notin Owned(u)
    BY <2>1 DEF Ownership
  <2> QED
    BY <2>1, <2>4, <2>5, <2>6, <2>7 DEF Ownership
<1>6. ASSUME NEW t \in Threads, UnlinkItem(t) PROVE Ownership'
  <2> DEFINE b == Head(items[cur[t].queue])
  <2>1. /\ b \in Buffers /\ b \in Queued
        /\ Queued' = Queued \ {b} /\ QueuesSeparate'
    BY <1>6, UnlinkedItems
  <2>2. /\ cur'[t].buf = b /\ \A u \in Threads \ {t} : cur'[u] = cur[u]
    BY <1>0, <1>6, <2>1, SetBuf DEF UnlinkItem
  <2> HIDE DEF b
  <2>3. /\ UNCHANGED outer /\ pc[t] = "pop.take" /\ pc'[t] = "pop.release"
        /\ \A u \in Threads \ {t} : pc'[u] = pc[u]
    BY <1>0, <1>6 DEF UnlinkItem, TypeOK
  <2>4. outer[t] = NoFrame
    BY <1>0, <2>3 DEF Suspended, PushLocs
  <2>5. Owned(t)' \subseteq {b} /\ FramesSeparate(t)'
    BY <1>0, <2>2, <2>3, <2>4 DEF Owned, FramesSeparate
  <2>6. \A u \in Threads \ {t} : Owned(u)' = Owned(u) /\ FramesSeparate(u)' /\ b \notin Owned(u)
    BY <2>1, <2>2, <2>3, SameOwner DEF Ownership
  <2> QED
    BY <2>1, <2>5, <2>6 DEF Ownership
<1>7. ASSUME NEW t \in Threads, PushBackUnlock(t) PROVE Ownership'
  <2>1. /\ UNCHANGED items /\ cur'[t] = outer[t] /\ outer'[t] = NoFrame
        /\ \A u \in Threads \ {t} : pc'[u] = pc[u] /\ cur'[u] = cur[u] /\ outer'[u] = outer[u]
    BY <1>0, <1>7 DEF PushBackUnlock, TypeOK
  <2>2. Owned(t)' \subseteq Owned(t) /\ FramesSeparate(t)'
    BY <1>0, <2>1 DEF Owned, FramesSeparate
  <2> QED
    BY <2>1, <2>2, OwnerStep
<1>8. ASSUME NEW t \in Threads,
             PopFrontUnlock(t) \/ \E q \in Queues : PopFront(t, q)
      PROVE  Ownership'
  <2>1. /\ UNCHANGED <<items, outer>> /\ cur'[t].buf = NoBuf
        /\ \A u \in Threads \ {t} : pc'[u] = pc[u] /\ cur'[u] = cur[u] /\ outer'[u] = outer[u]
    <3>1. CASE PopFrontUnlock(t)
      BY <1>0, <3>1 DEF PopFrontUnlock, TypeOK
    <3>2. ASSUME NEW q \in Queues, PopFront(t, q)
          PROVE  /\ UNCHANGED <<items, outer>> /\ cur'[t].buf = NoBuf
                 /\ \A u \in Threads \ {t} : /\ pc'[u] = pc[u] /\ cur'[u] = cur[u]
                                            /\ outer'[u] = outer[u]
      BY <1>0, <3>2 DEF PopFront, NewFrame, TypeOK
    <3> QED
      BY <1>8, <3>1, <3>2
  <2>2. Owned(t)' \subseteq Owned(t) /\ FramesSeparate(t)'
    BY <1>0, <2>1 DEF Owned, FramesSeparate
  <2> QED
    BY <2>1, <2>2, OwnerStep
<1>9. CASE \/ TwinLock \/ TwinEnds \/ TwinOutOfMemory \/ UNCHANGED vars
           \/ \E t \in Threads, q \in Queues : SnapshotAndReset(t, q)
  <2>1. UNCHANGED <<items, pc, cur, outer>>
    BY <1>9 DEF TwinLock, TwinEnds, TwinUpdate, TwinOutOfMemory, vars, SnapshotAndReset
  <2>2. Queued' = Queued /\ QueuesSeparate'
    BY <2>1 DEF Queued, Ownership, QueuesSeparate
  <2> QED
    BY <2>1, <2>2, SameOwner DEF Ownership
<1> QED
  BY <1>1, <1>2, <1>3, <1>4, <1>5, <1>6, <1>7, <1>8, <1>9 DEF Next, Step, PushStep, PopStep

(***************************************************************************)
(* Buffer ownership: no event buffer is ever in two places, so none is     *)
(* freed twice.                                                            *)
(***************************************************************************)
THEOREM OwnershipCorrect == Spec => []BuffersOwnedOnce
<1> DEFINE I == ControlInv /\ Ownership
<1>1. Init => I
  BY InitControl, InitOwnership
<1>2. I /\ [Next]_vars => I'
  BY NextControl, NextOwnership
<1>3. I => BuffersOwnedOnce
  BY OwnershipSuffices
<1> QED
  BY <1>1, <1>2, <1>3, PTL DEF Spec

-----------------------------------------------------------------------------
(***************************************************************************)
(* The memory monitor.  MemoryExact is kept together with the bound that   *)
(* makes it so: consumption, and every limit a Consume may still be about  *)
(* to use, are within the largest limit, so that, by NoWrap, the sum that  *)
(* Consume compares does not pass 2^32.                                    *)
(***************************************************************************)
WithinPeak ==
    /\ currentConsumption <= peakLimit
    /\ maxLocalCacheSize <= peakLimit
    /\ \A t \in Threads : limitArg[t] <= peakLimit

MemoryInv == MemoryExact /\ WithinPeak

CacheInv == ControlInv /\ Ownership /\ MemoryInv

(***************************************************************************)
(* A limit is a natural number.                                            *)
(***************************************************************************)
LEMMA LimitsType == Limits \subseteq Nat
  BY SizeAssumption

(***************************************************************************)
(* Nothing is charged when the monitor is initialised.                     *)
(***************************************************************************)
LEMMA InitMemory == Init => MemoryInv
<1> SUFFICES ASSUME Init PROVE MemoryInv
  OBVIOUS
<1>1. Queued = {}
  BY DEF Init, Queued, Elements
<1>2. Charged = {}
  BY <1>1 DEF Init, Charged, ChargedLocs
<1>3. DefaultLimit \in Nat
  BY SizeAssumption, LimitsType
<1> QED
  BY <1>2, <1>3, BytesAssumption DEF Init, MemoryInv, MemoryExact, WithinPeak

(***************************************************************************)
(* What is charged is a set of buffers; a thread that has charged a buffer *)
(* and not linked it owns it.                                              *)
(***************************************************************************)
LEMMA ChargedType == TypeOK => Queued \subseteq Charged /\ Charged \subseteq Buffers
<1> SUFFICES ASSUME TypeOK PROVE Queued \subseteq Buffers
  BY DEF Charged
<1>1. ASSUME NEW q \in Queues, NEW i \in 1 .. Len(items[q]) PROVE items[q][i] \in Buffers
  <2>1. items[q] \in Seq(Buffers)
    BY DEF TypeOK
  <2> QED
    BY <2>1
<1> QED
  BY <1>1 DEF Queued, Elements

(***************************************************************************)
(* A buffer that is charged and not linked is owned by the call that       *)
(* charged it.                                                             *)
(***************************************************************************)
LEMMA ChargedOwned ==
  ASSUME ControlInv, NEW u \in Threads, pc[u] \in ChargedLocs
  PROVE  cur[u].buf \in Buffers /\ cur[u].buf \in Owned(u)
  BY QueueAssumption DEF ControlInv, Control, BufferPresent, ChargedLocs, PushLocs, Owned,
     GaveAway

(***************************************************************************)
(* A step that neither links, unlinks, charges nor releases leaves the     *)
(* charged buffers alone.                                                  *)
(***************************************************************************)
LEMMA SameCharged ==
  ASSUME NEW t \in Threads, UNCHANGED items,
         \A u \in Threads \ {t} : pc'[u] = pc[u] /\ cur'[u] = cur[u],
         pc'[t] \in ChargedLocs <=> pc[t] \in ChargedLocs,
         pc[t] \in ChargedLocs => cur'[t].buf = cur[t].buf
  PROVE  Charged' = Charged
<1>1. Queued' = Queued
  BY DEF Queued
<1>2. \A u \in Threads : (pc'[u] \in ChargedLocs <=> pc[u] \in ChargedLocs)
                         /\ (pc[u] \in ChargedLocs => cur'[u].buf = cur[u].buf)
  OBVIOUS
<1> QED
  BY <1>1, <1>2 DEF Charged

(***************************************************************************)
(* A release takes exactly what was charged for the buffer.                *)
(***************************************************************************)
LEMMA ReleaseExact ==
  ASSUME ControlInv, Ownership, MemoryInv, NEW t \in Threads,
         pc[t] \in {"push.undo", "pop.release"}, pc'[t] \notin ChargedLocs,
         \A u \in Threads \ {t} : pc'[u] = pc[u],
         UNCHANGED <<items, cur>>, Release(ItemSize(cur[t].buf))
  PROVE  MemoryExact' /\ currentConsumption' <= currentConsumption
<1> DEFINE b == cur[t].buf
<1>1. pc[t] \in ChargedLocs
  BY DEF ChargedLocs
<1>2. b \in Buffers /\ b \in Owned(t) /\ b \notin Queued
  BY <1>1, ChargedOwned DEF Ownership
<1>3. \A u \in Threads \ {t} : pc[u] \in ChargedLocs => cur[u].buf # b
  BY <1>2, ChargedOwned DEF Ownership
<1>4. Queued' = Queued
  BY DEF Queued
<1>5. Charged' = Charged \ {b} /\ b \in Charged
  BY <1>1, <1>2, <1>3, <1>4 DEF Charged
<1> HIDE DEF b
<1>6. Charged \ {b} \in SUBSET Buffers /\ (Charged \ {b}) \cup {b} = Charged
  BY <1>5, ChargedType DEF ControlInv
<1>7. Bytes[Charged] = Bytes[Charged \ {b}] + Bytes[{b}]
  BY <1>2, <1>6, BytesAssumption
<1>8. Bytes[Charged \ {b}] \in Nat /\ Bytes[{b}] \in Nat
  BY <1>2, <1>6, BytesAssumption
<1>9. currentConsumption = Bytes[Charged \ {b}] + ItemSize(b)
  BY <1>7 DEF MemoryInv, MemoryExact, ItemSize
<1>10. currentConsumption' = Bytes[Charged \ {b}]
  BY <1>8, <1>9 DEF Release, ItemSize, b
<1> QED
  BY <1>5, <1>8, <1>9, <1>10 DEF MemoryExact, ItemSize

(***************************************************************************)
(* Every step keeps the monitor exact and within the largest limit.        *)
(***************************************************************************)
LEMMA NextMemory ==
  ASSUME NoWrap
  PROVE  CacheInv /\ [Next]_vars => MemoryInv'
<1> SUFFICES ASSUME ControlInv, Ownership, MemoryInv, [Next]_vars PROVE MemoryInv'
  BY DEF CacheInv
<1> USE QueueAssumption, SizeAssumption
    DEF At, Goto, queueVars, memoryVars, twinVars, threadVars, history
<1>0. TypeOK /\ Limits \subseteq Nat /\ peakLimit \in Nat /\ currentConsumption \in Nat
      /\ maxLocalCacheSize \in Nat
  BY LimitsType DEF ControlInv, TypeOK
<1>l. \A t \in Threads : limitArg[t] \in Nat
  <2>1. limitArg \in [Threads -> Limits \cup {0}]
    BY <1>0 DEF TypeOK
  <2>2. Limits \cup {0} \subseteq Nat
    BY <1>0
  <2> QED
    BY <2>1, <2>2
<1>1. ASSUME NEW t \in Threads,
             \/ \E q \in Queues : PushBack(t, q) \/ PopFront(t, q)
             \/ PushBackLock(t) \/ PopFrontLock(t) \/ LogRefusal(t) \/ SkipLog(t)
             \/ CountDropped(t) \/ CountCollected(t) \/ PushBackUnlock(t) \/ PopFrontUnlock(t)
             \/ PopNothing(t)
      PROVE  MemoryInv'
  <2>1. /\ UNCHANGED <<items, currentConsumption, maxLocalCacheSize, peakLimit, limitArg>>
        /\ \A u \in Threads \ {t} : pc'[u] = pc[u] /\ cur'[u] = cur[u]
    BY <1>0, <1>1 DEF PushBack, PopFront, PushBackLock, PopFrontLock, AcquireLock, LogRefusal,
       SkipLog, CountDropped, CountCollected, PushBackUnlock, PopFrontUnlock, PopNothing, TypeOK
  <2>2. pc[t] \notin ChargedLocs /\ pc'[t] \notin ChargedLocs
    BY <1>0, <1>1 DEF PushBack, PopFront, PushBackLock, PopFrontLock, AcquireLock, LogRefusal,
       SkipLog, CountDropped, CountCollected, PushBackUnlock, PopFrontUnlock, PopNothing,
       TypeOK, ChargedLocs, AfterLog
  <2>3. Charged' = Charged
    BY <2>1, <2>2, SameCharged
  <2> QED
    BY <2>1, <2>3 DEF MemoryInv, MemoryExact, WithinPeak
<1>2. ASSUME NEW t \in Threads, ConsumeLock(t) PROVE MemoryInv'
  <2>1. /\ UNCHANGED <<items, cur, currentConsumption, maxLocalCacheSize, peakLimit>>
        /\ \A u \in Threads \ {t} : pc'[u] = pc[u] /\ limitArg'[u] = limitArg[u]
        /\ limitArg'[t] = maxLocalCacheSize
        /\ pc[t] \notin ChargedLocs /\ pc'[t] \notin ChargedLocs
    BY <1>0, <1>2 DEF ConsumeLock, TypeOK, ChargedLocs
  <2>2. Charged' = Charged
    BY <2>1, SameCharged
  <2> QED
    BY <2>1, <2>2 DEF MemoryInv, MemoryExact, WithinPeak
<1>3. ASSUME NEW t \in Threads, LinkFails(t) PROVE MemoryInv'
  <2>1. cur'[t].buf = cur[t].buf /\ \A u \in Threads \ {t} : cur'[u] = cur[u]
    BY <1>0, <1>3, SetRes DEF LinkFails, Results
  <2>2. /\ UNCHANGED <<items, currentConsumption, maxLocalCacheSize, peakLimit, limitArg>>
        /\ \A u \in Threads \ {t} : pc'[u] = pc[u]
        /\ pc[t] \in ChargedLocs /\ pc'[t] \in ChargedLocs
    BY <1>0, <1>3 DEF LinkFails, TypeOK, ChargedLocs
  <2>3. Charged' = Charged
    BY <2>1, <2>2, SameCharged
  <2> QED
    BY <2>2, <2>3 DEF MemoryInv, MemoryExact, WithinPeak
<1>4. ASSUME NEW t \in Threads, UndoConsume(t) \/ ReleaseItem(t) PROVE MemoryInv'
  <2>1. /\ UNCHANGED <<items, cur, maxLocalCacheSize, peakLimit, limitArg>>
        /\ \A u \in Threads \ {t} : pc'[u] = pc[u]
        /\ pc[t] \in {"push.undo", "pop.release"} /\ pc'[t] \notin ChargedLocs
        /\ Release(ItemSize(cur[t].buf))
    BY <1>0, <1>4 DEF UndoConsume, ReleaseItem, TypeOK, ChargedLocs
  <2>2. MemoryExact' /\ currentConsumption' <= currentConsumption
    BY <2>1, ReleaseExact
  <2>3. currentConsumption' \in Nat
    BY NextControl DEF ControlInv, TypeOK
  <2> QED
    BY <1>0, <2>1, <2>2, <2>3 DEF MemoryInv, WithinPeak
<1>5. ASSUME NEW t \in Threads, LinkItem(t) PROVE MemoryInv'
  <2> DEFINE b == cur[t].buf
  <2>1. b \in Buffers /\ Queued' = Queued \cup {b}
    BY <1>5, LinkedItems
  <2>2. /\ UNCHANGED <<cur, currentConsumption, maxLocalCacheSize, peakLimit, limitArg>>
        /\ \A u \in Threads \ {t} : pc'[u] = pc[u]
        /\ pc[t] \in ChargedLocs /\ pc'[t] \notin ChargedLocs
    BY <1>0, <1>5 DEF LinkItem, TypeOK, ChargedLocs
  <2>3. Charged' = Charged
    BY <2>1, <2>2 DEF Charged
  <2> QED
    BY <2>2, <2>3 DEF MemoryInv, MemoryExact, WithinPeak
<1>6. ASSUME NEW t \in Threads, UnlinkItem(t) PROVE MemoryInv'
  <2> DEFINE b == Head(items[cur[t].queue])
  <2>1. b \in Buffers /\ b \in Queued /\ Queued' = Queued \ {b}
    BY <1>6, UnlinkedItems
  <2>2. cur'[t].buf = b /\ \A u \in Threads \ {t} : cur'[u] = cur[u]
    BY <1>0, <1>6, <2>1, SetBuf DEF UnlinkItem
  <2>3. /\ UNCHANGED <<currentConsumption, maxLocalCacheSize, peakLimit, limitArg>>
        /\ \A u \in Threads \ {t} : pc'[u] = pc[u]
        /\ pc[t] \notin ChargedLocs /\ pc'[t] \in ChargedLocs
    BY <1>0, <1>6 DEF UnlinkItem, TypeOK, ChargedLocs
  <2> HIDE DEF b
  <2>4. Charged' = Charged
    BY <2>1, <2>2, <2>3 DEF Charged
  <2> QED
    BY <2>3, <2>4 DEF MemoryInv, MemoryExact, WithinPeak
<1>7. ASSUME NEW t \in Threads, Consume(t) PROVE MemoryInv'
  <2> DEFINE b == cur[t].buf
  <2>1. /\ UNCHANGED <<items, maxLocalCacheSize, peakLimit>>
        /\ \A u \in Threads \ {t} : pc'[u] = pc[u] /\ limitArg'[u] = limitArg[u]
        /\ limitArg'[t] = 0 /\ pc[t] = "push.check"
    BY <1>0, <1>7 DEF Consume, TypeOK
  <2>2. CASE UNCHANGED currentConsumption /\ \E r \in Results : cur' = [cur EXCEPT ![t].res = r]
             /\ pc' = [pc EXCEPT ![t] = "push.log"]
    <3>1. \A u \in Threads \ {t} : cur'[u] = cur[u]
      BY <1>0, <2>2, SetRes
    <3>2. pc[t] \notin ChargedLocs /\ pc'[t] \notin ChargedLocs
      BY <1>0, <2>1, <2>2 DEF ChargedLocs, TypeOK
    <3>3. Charged' = Charged
      BY <2>1, <3>1, <3>2, SameCharged
    <3> QED
      BY <1>0, <2>1, <2>2, <3>3 DEF MemoryInv, MemoryExact, WithinPeak
  <2>3. CASE /\ Fits(ItemSize(b), limitArg[t]) /\ UNCHANGED cur
             /\ currentConsumption' = (currentConsumption + ItemSize(b)) % UintMod
             /\ pc' = [pc EXCEPT ![t] = "push.link"]
    <3>1. b \in Buffers /\ b \in Owned(t) /\ b \notin Queued /\ ItemSize(b) \in Nat
      BY <2>1, ItemSizeType DEF ControlInv, Control, BufferPresent, PushLocs, Owned,
         GaveAway, Ownership
    <3>2. \A u \in Threads \ {t} : pc[u] \in ChargedLocs => cur[u].buf # b
      BY <3>1, ChargedOwned DEF Ownership
    <3>3. pc[t] \notin ChargedLocs /\ pc'[t] \in ChargedLocs
      BY <1>0, <2>1, <2>3 DEF ChargedLocs, TypeOK
    <3>4. Queued' = Queued
      BY <2>1 DEF Queued
    <3>5. Charged' = Charged \cup {b} /\ b \notin Charged
      BY <2>1, <2>3, <3>1, <3>2, <3>3, <3>4 DEF Charged
    <3>6. Charged \in SUBSET Buffers
      BY <1>0, ChargedType
    <3>7. Bytes[Charged \cup {b}] = Bytes[Charged] + ItemSize(b)
      BY <3>1, <3>5, <3>6, BytesAssumption DEF ItemSize
    <3>8. currentConsumption + ItemSize(b) < UintMod
      <4>1. peakLimit + ItemSize(b) < UintMod
        BY <1>0, <3>1 DEF NoWrap, TypeOK
      <4> QED
        BY <1>0, <3>1, <4>1 DEF MemoryInv, WithinPeak
    <3>9. (currentConsumption + ItemSize(b)) % UintMod = currentConsumption + ItemSize(b)
      BY <1>0, <3>1, <3>8
    <3>10. currentConsumption' <= peakLimit
      <4>1. limitArg[t] \in Nat /\ limitArg[t] <= peakLimit
        BY <1>l DEF MemoryInv, WithinPeak
      <4>2. currentConsumption' <= limitArg[t]
        BY <2>3 DEF Fits
      <4>3. currentConsumption' \in Nat
        BY <1>0, <2>3, <3>1, <3>9
      <4> QED
        BY <1>0, <4>1, <4>2, <4>3
    <3> QED
      BY <1>0, <2>1, <2>3, <3>5, <3>7, <3>9, <3>10 DEF MemoryInv, MemoryExact, WithinPeak
  <2> QED
    BY <1>7, <2>2, <2>3 DEF Consume, Results
<1>8. CASE TwinEnds
  <2>1. PICK l \in Limits : TwinUpdate(l)
    BY <1>8 DEF TwinEnds
  <2>2. /\ UNCHANGED <<items, pc, cur, currentConsumption, limitArg>>
        /\ l \in Nat /\ maxLocalCacheSize' = l /\ l <= peakLimit' /\ peakLimit <= peakLimit'
        /\ peakLimit' \in Nat
    <3>1. l \in Nat
      BY <1>0
    <3>2. l <= peakLimit' /\ peakLimit <= peakLimit' /\ peakLimit' \in Nat
      BY <1>0, <2>1, <3>1 DEF TwinUpdate
    <3> QED
      BY <2>1, <3>1, <3>2 DEF TwinUpdate
  <2>3. Charged' = Charged
    BY <2>2 DEF Charged, Queued
  <2> QED
    BY <1>0, <1>l, <2>2, <2>3 DEF MemoryInv, MemoryExact, WithinPeak
<1>9. CASE \/ TwinLock \/ TwinOutOfMemory \/ UNCHANGED vars
           \/ \E t \in Threads, q \in Queues : SnapshotAndReset(t, q)
  <2>1. UNCHANGED <<items, pc, cur, currentConsumption, maxLocalCacheSize, peakLimit, limitArg>>
    BY <1>9 DEF TwinLock, TwinOutOfMemory, vars, SnapshotAndReset
  <2>2. Charged' = Charged
    BY <2>1 DEF Charged, Queued
  <2> QED
    BY <2>1, <2>2 DEF MemoryInv, MemoryExact, WithinPeak
<1> QED
  BY <1>1, <1>2, <1>3, <1>4, <1>5, <1>6, <1>7, <1>8, <1>9 DEF Next, Step, PushStep, PopStep

(***************************************************************************)
(* The invariant of the cache, as long as no sum passes 2^32.              *)
(***************************************************************************)
LEMMA CacheInvariant ==
  ASSUME NoWrap
  PROVE  Spec => []CacheInv
<1>1. Init => CacheInv
  BY InitControl, InitOwnership, InitMemory DEF CacheInv
<1>2. CacheInv /\ [Next]_vars => CacheInv'
  BY NextControl, NextOwnership, NextMemory DEF CacheInv
<1> QED
  BY <1>1, <1>2, PTL DEF Spec

(***************************************************************************)
(* Memory accounting: currentConsumptionInBytes is at every step of every  *)
(* thread the size of what is linked or in transit.                        *)
(***************************************************************************)
THEOREM MemoryCorrect ==
  ASSUME NoWrap
  PROVE  Spec => []MemoryExact
<1>1. CacheInv => MemoryExact
  BY DEF CacheInv, MemoryInv
<1> QED
  BY CacheInvariant, <1>1, PTL

(***************************************************************************)
(* Budget: the cached events never exceed the largest limit the twin has   *)
(* configured.                                                             *)
(***************************************************************************)
LEMMA BudgetFollows == CacheInv => BudgetRespected
<1> SUFFICES ASSUME CacheInv PROVE BudgetRespected
  OBVIOUS
<1>1. TypeOK /\ currentConsumption = Bytes[Charged] /\ currentConsumption <= peakLimit
  BY DEF CacheInv, ControlInv, MemoryInv, MemoryExact, WithinPeak
<1>2. Queued \subseteq Charged /\ Charged \subseteq Buffers
  BY <1>1, ChargedType
<1>3. Bytes[Queued] <= Bytes[Charged] /\ Bytes[Queued] \in Nat /\ Bytes[Charged] \in Nat
  BY <1>2, BytesAssumption
<1>4. peakLimit \in Nat
  BY <1>1, LimitsType DEF TypeOK
<1> QED
  BY <1>1, <1>3, <1>4 DEF BudgetRespected

(***************************************************************************)
(* InternalMemoryMonitor_Consume keeps what is cached within the largest   *)
(* limit the twin has ever configured, while its sum cannot wrap.          *)
(***************************************************************************)
THEOREM BudgetCorrect ==
  ASSUME NoWrap
  PROVE  Spec => []BudgetRespected
  BY CacheInvariant, BudgetFollows, PTL

-----------------------------------------------------------------------------
(***************************************************************************)
(* Refinement: linking an item is Enqueue, unlinking one is Dequeue, a     *)
(* larger limit raises the budget, and every other step is a stutter.      *)
(***************************************************************************)
LEMMA RefinementInit == Init => Cache!Init
  BY DEF Init, Cache!Init

(***************************************************************************)
(* Every step of the cache is a step of BoundedCache or a stutter: a link  *)
(* is Enqueue, an unlink Dequeue, a higher limit RaiseBudget.              *)
(***************************************************************************)
LEMMA RefinementStep ==
  ASSUME CacheInv, [Next]_vars
  PROVE  [Cache!Next]_<<items, peakLimit>>
<1> USE DEF queueVars, memoryVars, twinVars, threadVars, history
<1>0. ControlInv /\ Ownership /\ TypeOK /\ currentConsumption = Bytes[Charged]
      /\ currentConsumption <= peakLimit /\ Cache!Cached(items) = Queued
  BY DEF CacheInv, ControlInv, MemoryInv, MemoryExact, WithinPeak, Cache!Cached, Queued,
     Elements
<1>1. ASSUME NEW t \in Threads, LinkItem(t) PROVE Cache!Next
  <2> DEFINE b == cur[t].buf
  <2>1. b \in Buffers /\ b \notin Queued
    BY <1>0, <1>1, LinkedItems
  <2>2. b \in Charged
    BY <1>1, <2>1 DEF LinkItem, At, Charged, ChargedLocs
  <2>3. Queued \cup {b} \subseteq Charged /\ Charged \subseteq Buffers
    BY <1>0, <2>2, ChargedType
  <2>4. Bytes[Queued \cup {b}] <= Bytes[Charged] /\ Bytes[Queued \cup {b}] \in Nat
        /\ Bytes[Charged] \in Nat
    BY <2>3, BytesAssumption
  <2>5. Bytes[Queued \cup {b}] <= peakLimit
    BY <1>0, <2>4, LimitsType DEF TypeOK
  <2>6. cur[t].queue \in Queues
    BY <1>0, CurrentQueue
  <2>7. Cache!Enqueue(cur[t].queue, b)
    BY <1>0, <1>1, <2>1, <2>5 DEF LinkItem, Cache!Enqueue
  <2> QED
    BY <2>1, <2>6, <2>7 DEF Cache!Next
<1>2. ASSUME NEW t \in Threads, UnlinkItem(t) PROVE Cache!Next
  <2>1. cur[t].queue \in Queues
    BY <1>0, CurrentQueue
  <2>2. Cache!Dequeue(cur[t].queue)
    BY <1>2 DEF UnlinkItem, Cache!Dequeue
  <2> QED
    BY <2>1, <2>2 DEF Cache!Next
<1>3. ASSUME NEW l \in Limits, TwinUpdate(l) PROVE Cache!Next \/ UNCHANGED <<items, peakLimit>>
  BY <1>3 DEF TwinUpdate, Cache!Next, Cache!RaiseBudget
<1>4. ASSUME NEW t \in Threads,
             \/ PushBackLock(t) \/ ConsumeLock(t) \/ Consume(t) \/ LinkFails(t)
             \/ UndoConsume(t) \/ LogRefusal(t) \/ SkipLog(t) \/ CountDropped(t)
             \/ CountCollected(t) \/ PushBackUnlock(t) \/ PopFrontLock(t) \/ PopNothing(t)
             \/ ReleaseItem(t) \/ PopFrontUnlock(t)
             \/ \E q \in Queues : PushBack(t, q) \/ PopFront(t, q) \/ SnapshotAndReset(t, q)
      PROVE  UNCHANGED <<items, peakLimit>>
  BY <1>4 DEF PushBackLock, PopFrontLock, AcquireLock, ConsumeLock, Consume, LinkFails,
     UndoConsume, LogRefusal, SkipLog, CountDropped, CountCollected, PushBackUnlock,
     PopNothing, ReleaseItem, PopFrontUnlock, PushBack, PopFront, SnapshotAndReset
<1>5. CASE TwinLock \/ TwinOutOfMemory \/ UNCHANGED vars
  BY <1>5 DEF TwinLock, TwinOutOfMemory, vars
<1> QED
  BY <1>1, <1>2, <1>3, <1>4, <1>5 DEF Next, Step, PushStep, PopStep, TwinEnds

(***************************************************************************)
(* The synchronised queues, their shared monitor and the logger's pushes   *)
(* implement FIFO queues with one budget.                                  *)
(***************************************************************************)
THEOREM RefinementCorrect ==
  ASSUME NoWrap
  PROVE  Spec => ImplementsBoundedCache
<1>1. CacheInv /\ [Next]_vars => [Cache!Next]_<<items, peakLimit>>
  BY RefinementStep
<1> QED
  BY CacheInvariant, RefinementInit, <1>1, PTL DEF Spec, ImplementsBoundedCache, Cache!Spec

=============================================================================
