----------------------------- MODULE EventCache -----------------------------
(***************************************************************************)
(* The agent's event cache: the synchronised queues (queue.c,              *)
(* synchronized_queue.c), the memory monitor they all charge               *)
(* (internal_memory_monitor.c, synchronized_memory_monitor.c), the counter *)
(* each of them carries (agent_telemetry_counters.c) and the logger, which *)
(* is called with a queue's lock held and pushes on the diagnostic queue.  *)
(*                                                                         *)
(* A thread runs one SyncQueue call at a time; each of its steps is the    *)
(* code between two points where it may block or be overtaken.  A push     *)
(* that is refused logs, so it may suspend itself (frame outer[t]) under a *)
(* push on the diagnostic queue (frame cur[t]).                            *)
(***************************************************************************)
EXTENDS Naturals, Sequences

CONSTANTS
    Threads,               \* the scheduler threads and the SDK's callback thread
    Queues,                \* the SyncQueues of SecurityAgentQueues
    DiagnosticQueue,       \* the one created with shouldSendLogs = false
    Buffers,               \* the allocations that can hold an event
    NoBuf,                 \* the NULL data pointer
    NoThread,              \* the owner of a free lock
    Bytes,                 \* Bytes[S]: what Queue_CalculateItemSize charges for S
    Limits,                \* the values maxLocalCacheSize may be given by the twin
    DefaultLimit,          \* DEFAULT_MAX_LOCAL_CACHE_SIZE
    UintMod,               \* 2^32
    DiagnosticSeverities,  \* severities >= diagnosticEventMinimumSeverity
    MayPush, MayPop,       \* which thread uses which queue, and how
    MaySnapshot,           \* which thread reports which queue's counter
    MaxPushes              \* bound: pushes per queue that threads start

ASSUME QueueAssumption ==
    /\ DiagnosticQueue \in Queues
    /\ NoBuf \notin Buffers
    /\ NoThread \notin Threads
    /\ MayPush \subseteq Threads \X Queues
    /\ MayPop \subseteq Threads \X Queues
    /\ MaySnapshot \subseteq Threads \X Queues
    /\ DiagnosticSeverities \subseteq {"information", "error"}

ASSUME SizeAssumption ==
    /\ UintMod \in Nat \ {0}
    /\ MaxPushes \in Nat
    /\ Limits \subseteq 0 .. UintMod - 1
    /\ DefaultLimit \in Limits

(***************************************************************************)
(* The size of a set of items is additive and monotonic, as a sum is.      *)
(***************************************************************************)
ASSUME BytesAssumption ==
    /\ Bytes \in [SUBSET Buffers -> Nat]
    /\ Bytes[{}] = 0
    /\ \A S \in SUBSET Buffers : \A b \in Buffers \ S :
          Bytes[S \cup {b}] = Bytes[S] + Bytes[{b}]
    /\ \A S, T \in SUBSET Buffers : S \subseteq T => Bytes[S] <= Bytes[T]

VARIABLES
    items,              \* items[q]: the linked list of queue q
    lock,               \* lock[q]: the thread that holds q's lock
    counter,            \* counter[q]: the QueueCounter of q
    currentConsumption, \* currentConsumptionInBytes
    memoryLock,         \* the holder of memoryMonitorLock
    maxLocalCacheSize,  \* the field of the twin configuration
    twinLocked,         \* twinConfiguration.lock is held (by the twin thread)
    twinReady,          \* twinConfiguration.lock is not NULL
    pc, cur, outer,     \* per thread: control, running call, suspended call
    limitArg,           \* per thread: the limit evaluated for GetFieldInteger
    peakLimit,          \* history: the largest limit published so far
    outcome,            \* history: how the pushes on q ended
    reported            \* history: sum of the snapshots taken of counter[q]

queueVars == <<items, lock, counter>>
memoryVars == <<currentConsumption, memoryLock>>
twinVars == <<maxLocalCacheSize, twinLocked, twinReady, peakLimit>>
threadVars == <<pc, cur, outer, limitArg>>
history == <<outcome, reported>>
vars == <<queueVars, memoryVars, twinVars, threadVars, history>>

ItemSize(b) == Bytes[{b}]

(* Mutant: the diagnostic queue logs about itself too.                     *)
ShouldSendLogsAlways(q) == TRUE

ShouldSendLogs(q) == q # DiagnosticQueue

Results == {"ok", "exceeded", "exception", "empty", "condition"}
Frame == [queue : Queues, buf : Buffers \cup {NoBuf}, res : Results]
NoFrame == [queue |-> DiagnosticQueue, buf |-> NoBuf, res |-> "ok"]
NewFrame(q, b) == [queue |-> q, buf |-> b, res |-> "ok"]

PushLocs == {"push.lock", "push.consume", "push.check", "push.log", "push.link",
             "push.undo", "push.drop", "push.collected", "push.unlock"}
PopLocs == {"pop.lock", "pop.take", "pop.release", "pop.unlock"}

Elements(s) == {s[i] : i \in 1 .. Len(s)}
Queued == UNION {Elements(items[q]) : q \in Queues}
Held(t) == {cur[t].buf, outer[t].buf} \ {NoBuf}
Free == Buffers \ (Queued \cup UNION {Held(t) : t \in Threads})

Goto(t, l) == pc' = [pc EXCEPT ![t] = l]
At(t, l) == pc[t] = l

Init ==
    /\ items = [q \in Queues |-> << >>]
    /\ lock = [q \in Queues |-> NoThread]
    /\ counter = [q \in Queues |-> [collected |-> 0, dropped |-> 0]]
    /\ currentConsumption = 0
    /\ memoryLock = NoThread
    /\ maxLocalCacheSize = DefaultLimit
    /\ twinLocked = FALSE
    /\ twinReady = TRUE
    /\ pc = [t \in Threads |-> "idle"]
    /\ cur = [t \in Threads |-> NoFrame]
    /\ outer = [t \in Threads |-> NoFrame]
    /\ limitArg = [t \in Threads |-> 0]
    /\ peakLimit = DefaultLimit
    /\ outcome = [q \in Queues |-> [ok |-> 0, exceeded |-> 0, exception |-> 0]]
    /\ reported = [q \in Queues |-> [collected |-> 0, dropped |-> 0]]

Finished(q) == outcome[q].ok + outcome[q].exceeded + outcome[q].exception

-----------------------------------------------------------------------------
(* Mutant: a release counts one byte more than the consume did, unchecked. *)
ReleaseUnchecked(size) ==
    /\ memoryLock = NoThread
    /\ currentConsumption' = currentConsumption - (size + 1)
    /\ UNCHANGED memoryLock

(* MemoryMonitor_Release: rejected when more is released than is consumed. *)
Release(size) ==
    /\ memoryLock = NoThread
    /\ currentConsumption' = IF size > currentConsumption
                             THEN currentConsumption
                             ELSE currentConsumption - size
    /\ UNCHANGED memoryLock

(* A caller with an event of its own calls SyncQueue_PushBack.             *)
PushBack(t, q) ==
    /\ At(t, "idle")
    /\ <<t, q>> \in MayPush
    /\ Finished(q) < MaxPushes
    /\ \E b \in Free : cur' = [cur EXCEPT ![t] = NewFrame(q, b)]
    /\ Goto(t, "push.lock")
    /\ UNCHANGED <<queueVars, memoryVars, twinVars, outer, limitArg, history>>

(* Mutant: the result of Lock is not looked at.                            *)
AcquireLockUnchecked(t, from, to) ==
    /\ At(t, from)
    /\ lock' = [lock EXCEPT ![cur[t].queue] = t]
    /\ Goto(t, to)
    /\ UNCHANGED <<items, counter, memoryVars, twinVars, cur, outer, limitArg, history>>

(* Lock(syncQueue->lock), of a push and of a pop.                          *)
AcquireLock(t, from, to) ==
    /\ At(t, from)
    /\ lock[cur[t].queue] = NoThread
    /\ lock' = [lock EXCEPT ![cur[t].queue] = t]
    /\ Goto(t, to)
    /\ UNCHANGED <<items, counter, memoryVars, twinVars, cur, outer, limitArg, history>>

PushBackLock(t) == AcquireLock(t, "push.lock", "push.consume")

(* MemoryMonitor_Consume takes its lock; the limit is read as the argument *)
(* of TwinConfiguration_GetFieldInteger, before the twin's lock is taken.  *)
ConsumeLock(t) ==
    /\ At(t, "push.consume")
    /\ memoryLock = NoThread
    /\ memoryLock' = t
    /\ limitArg' = [limitArg EXCEPT ![t] = maxLocalCacheSize]
    /\ Goto(t, "push.check")
    /\ UNCHANGED <<queueVars, currentConsumption, twinVars, cur, outer, history>>

(* Mutant: the size of the new item is not part of the comparison.         *)
FitsBeforeAdding(size, limit) == currentConsumption <= limit

(* The 32-bit comparison of InternalMemoryMonitor_Consume.                 *)
Fits(size, limit) == (currentConsumption + size) % UintMod <= limit

(* InternalMemoryMonitor_Consume once it has the twin's lock, or finds it  *)
(* gone; the three results of MemoryMonitor_Consume as the push sees them. *)
Consume(t) ==
    LET f == cur[t]
        size == ItemSize(f.buf)
        Return(res) ==
            /\ cur' = [cur EXCEPT ![t].res = res]
            /\ outcome' = [outcome EXCEPT ![f.queue][res] = @ + 1]
            /\ Goto(t, "push.log")
            /\ UNCHANGED currentConsumption
    IN  /\ At(t, "push.check")
        /\ ~twinLocked
        /\ \/ /\ ~twinReady
              /\ Return("exception")
           \/ /\ twinReady
              /\ ~Fits(size, limitArg[t])
              /\ Return("exceeded")
           \/ /\ twinReady
              /\ Fits(size, limitArg[t])
              /\ currentConsumption' = (currentConsumption + size) % UintMod
              /\ Goto(t, "push.link")
              /\ UNCHANGED <<cur, outcome>>
        /\ memoryLock' = NoThread
        /\ limitArg' = [limitArg EXCEPT ![t] = 0]
        /\ UNCHANGED <<queueVars, twinVars, outer, reported>>

(* Mutant: the item becomes the first one of the list.                     *)
LinkItemFirst(t) ==
    /\ At(t, "push.link")
    /\ items' = [items EXCEPT ![cur[t].queue] = <<cur[t].buf>> \o @]
    /\ outcome' = [outcome EXCEPT ![cur[t].queue].ok = @ + 1]
    /\ Goto(t, "push.collected")
    /\ UNCHANGED <<lock, counter, memoryVars, twinVars, cur, outer, limitArg, reported>>

(* malloc of the QueueItem succeeds and the item becomes the last one ...  *)
LinkItem(t) ==
    /\ At(t, "push.link")
    /\ items' = [items EXCEPT ![cur[t].queue] = Append(@, cur[t].buf)]
    /\ outcome' = [outcome EXCEPT ![cur[t].queue].ok = @ + 1]
    /\ Goto(t, "push.collected")
    /\ UNCHANGED <<lock, counter, memoryVars, twinVars, cur, outer, limitArg, reported>>

(* Mutant: the cleanup forgets the bytes.                                  *)
LinkFailsCharged(t) ==
    /\ At(t, "push.link")
    /\ cur' = [cur EXCEPT ![t].res = "exception"]
    /\ outcome' = [outcome EXCEPT ![cur[t].queue].exception = @ + 1]
    /\ Goto(t, "push.collected")
    /\ UNCHANGED <<queueVars, memoryVars, twinVars, outer, limitArg, reported>>

(* ... or fails, and the cleanup gives the consumed bytes back.            *)
LinkFails(t) ==
    /\ At(t, "push.link")
    /\ cur' = [cur EXCEPT ![t].res = "exception"]
    /\ outcome' = [outcome EXCEPT ![cur[t].queue].exception = @ + 1]
    /\ Goto(t, "push.undo")
    /\ UNCHANGED <<queueVars, memoryVars, twinVars, outer, limitArg, reported>>

UndoConsume(t) ==
    /\ At(t, "push.undo")
    /\ Release(ItemSize(cur[t].buf))
    /\ Goto(t, "push.collected")
    /\ UNCHANGED <<queueVars, twinVars, cur, outer, limitArg, history>>

(* Where a refused push goes on after its log line.                        *)
AfterLog(f) == IF f.res = "exceeded" THEN "push.drop" ELSE "push.collected"
Severity(f) == IF f.res = "exceeded" THEN "information" ELSE "error"
Logs(f) == ShouldSendLogs(f.queue) /\ Severity(f) \in DiagnosticSeverities

(* Logger_Information("Max cache size exceeded") or Logger_Error: with the *)
(* queue's lock held, DiagnosticEventCollector_AddEvent pushes a new event *)
(* on the diagnostic queue ...                                             *)
LogRefusal(t) ==
    /\ At(t, "push.log")
    /\ Logs(cur[t])
    /\ \E b \in Free : cur' = [cur EXCEPT ![t] = NewFrame(DiagnosticQueue, b)]
    /\ outer' = [outer EXCEPT ![t] = cur[t]]
    /\ Goto(t, "push.lock")
    /\ UNCHANGED <<queueVars, memoryVars, twinVars, limitArg, history>>

(* ... or does not: no logs wanted, or its malloc fails.                   *)
SkipLog(t) ==
    /\ At(t, "push.log")
    /\ Goto(t, AfterLog(cur[t]))
    /\ UNCHANGED <<queueVars, memoryVars, twinVars, cur, outer, limitArg, history>>

(* Mutant: a dropped event is not counted as collected.                    *)
CountDroppedOnly(t) ==
    /\ At(t, "push.drop")
    /\ counter' = [counter EXCEPT ![cur[t].queue].dropped = @ + 1]
    /\ Goto(t, "push.unlock")
    /\ UNCHANGED <<items, lock, memoryVars, twinVars, cur, outer, limitArg, history>>

(* AgentTelemetryCounter_IncreaseBy: nothing blocks under a counter's lock *)
CountDropped(t) ==
    /\ At(t, "push.drop")
    /\ counter' = [counter EXCEPT ![cur[t].queue].dropped = @ + 1]
    /\ Goto(t, "push.collected")
    /\ UNCHANGED <<items, lock, memoryVars, twinVars, cur, outer, limitArg, history>>

CountCollected(t) ==
    /\ At(t, "push.collected")
    /\ counter' = [counter EXCEPT ![cur[t].queue].collected = @ + 1]
    /\ Goto(t, "push.unlock")
    /\ UNCHANGED <<items, lock, memoryVars, twinVars, cur, outer, limitArg, history>>

(* Unlock(syncQueue->lock).  The caller of a refused push frees its event; *)
(* a push made by the logger returns into the push that was logging.       *)
PushBackUnlock(t) ==
    /\ At(t, "push.unlock")
    /\ lock' = [lock EXCEPT ![cur[t].queue] = NoThread]
    /\ cur' = [cur EXCEPT ![t] = outer[t]]
    /\ outer' = [outer EXCEPT ![t] = NoFrame]
    /\ Goto(t, IF outer[t] = NoFrame THEN "idle" ELSE AfterLog(outer[t]))
    /\ UNCHANGED <<items, counter, memoryVars, twinVars, limitArg, history>>

-----------------------------------------------------------------------------
PopFront(t, q) ==
    /\ At(t, "idle")
    /\ <<t, q>> \in MayPop
    /\ cur' = [cur EXCEPT ![t] = NewFrame(q, NoBuf)]
    /\ Goto(t, "pop.lock")
    /\ UNCHANGED <<queueVars, memoryVars, twinVars, outer, limitArg, history>>

PopFrontLock(t) == AcquireLock(t, "pop.lock", "pop.take")

(* QUEUE_IS_EMPTY, or QUEUE_CONDITION_FAILED for SyncQueue_PopFrontIf.     *)
PopNothing(t) ==
    /\ At(t, "pop.take")
    /\ \E res \in {"empty", "condition"} :
          /\ (res = "empty") <=> (items[cur[t].queue] = << >>)
          /\ cur' = [cur EXCEPT ![t].res = res]
    /\ Goto(t, "pop.unlock")
    /\ UNCHANGED <<queueVars, memoryVars, twinVars, outer, limitArg, history>>

(* Mutant: the data is handed out and its item stays in the list.          *)
UnlinkItemNot(t) ==
    /\ At(t, "pop.take")
    /\ items[cur[t].queue] # << >>
    /\ cur' = [cur EXCEPT ![t].buf = Head(items[cur[t].queue])]
    /\ Goto(t, "pop.release")
    /\ UNCHANGED <<items, lock, counter, memoryVars, twinVars, outer, limitArg, history>>

UnlinkItem(t) ==
    /\ At(t, "pop.take")
    /\ items[cur[t].queue] # << >>
    /\ cur' = [cur EXCEPT ![t].buf = Head(items[cur[t].queue])]
    /\ items' = [items EXCEPT ![cur[t].queue] = Tail(@)]
    /\ Goto(t, "pop.release")
    /\ UNCHANGED <<lock, counter, memoryVars, twinVars, outer, limitArg, history>>

ReleaseItem(t) ==
    /\ At(t, "pop.release")
    /\ Release(ItemSize(cur[t].buf))
    /\ Goto(t, "pop.unlock")
    /\ UNCHANGED <<queueVars, twinVars, cur, outer, limitArg, history>>

(* The caller frees the data it was given.                                 *)
PopFrontUnlock(t) ==
    /\ At(t, "pop.unlock")
    /\ lock' = [lock EXCEPT ![cur[t].queue] = NoThread]
    /\ cur' = [cur EXCEPT ![t] = NoFrame]
    /\ Goto(t, "idle")
    /\ UNCHANGED <<items, counter, memoryVars, twinVars, outer, limitArg, history>>

-----------------------------------------------------------------------------
(* AgentTelemetryCounter_SnapshotAndReset, for the telemetry collector.    *)
SnapshotAndReset(t, q) ==
    /\ At(t, "idle")
    /\ <<t, q>> \in MaySnapshot
    /\ counter[q] # [collected |-> 0, dropped |-> 0]
    /\ reported' = [reported EXCEPT
                      ![q] = [collected |-> @.collected + counter[q].collected,
                              dropped |-> @.dropped + counter[q].dropped]]
    /\ counter' = [counter EXCEPT ![q] = [collected |-> 0, dropped |-> 0]]
    /\ UNCHANGED <<items, lock, memoryVars, twinVars, threadVars, outcome>>

(* TwinConfiguration_Update holds the twin's lock while it applies a new   *)
(* configuration, and ends with the limit that configuration gives.        *)
TwinLock ==
    /\ ~twinLocked /\ twinReady
    /\ twinLocked' = TRUE
    /\ UNCHANGED <<queueVars, memoryVars, maxLocalCacheSize, twinReady, peakLimit,
                   threadVars, history>>

TwinUpdate(l) ==
    /\ twinLocked
    /\ twinLocked' = FALSE
    /\ maxLocalCacheSize' = l
    /\ peakLimit' = IF l > peakLimit THEN l ELSE peakLimit
    /\ UNCHANGED <<queueVars, memoryVars, twinReady, threadVars, history>>

(* TWIN_MEMORY_EXCEPTION, before the lock is taken or after it is released *)
(* (a failed TwinConfiguration_DeepCopy is TwinUpdate and then this step): *)
(* TwinConfiguration_Deinit destroys the lock of the running agent.        *)
TwinOutOfMemory ==
    /\ ~twinLocked /\ twinReady
    /\ twinReady' = FALSE
    /\ UNCHANGED <<queueVars, memoryVars, maxLocalCacheSize, twinLocked, peakLimit,
                   threadVars, history>>

-----------------------------------------------------------------------------
PushStep(t) ==
    \/ PushBackLock(t) \/ ConsumeLock(t) \/ Consume(t) \/ LinkItem(t)
    \/ LinkFails(t) \/ UndoConsume(t) \/ LogRefusal(t) \/ SkipLog(t)
    \/ CountDropped(t) \/ CountCollected(t) \/ PushBackUnlock(t)

PopStep(t) ==
    \/ PopFrontLock(t) \/ PopNothing(t) \/ UnlinkItem(t) \/ ReleaseItem(t)
    \/ PopFrontUnlock(t)

Step(t) == PushStep(t) \/ PopStep(t)

TwinEnds == \E l \in Limits : TwinUpdate(l)

Next ==
    \/ \E t \in Threads : Step(t)
    \/ \E t \in Threads, q \in Queues : 
          PushBack(t, q) \/ PopFront(t, q) \/ SnapshotAndReset(t, q)
    \/ TwinLock
    \/ TwinEnds
    \/ TwinOutOfMemory

Spec == Init /\ [][Next]_vars

(***************************************************************************)
(* A thread inside a call keeps running, a lock it waits for and that is   *)
(* free again and again is granted in the end (the scheduler threads sleep *)
(* SCHEDULER_INTERVAL between tasks), and the twin thread ends its update. *)
(***************************************************************************)
FairSpec == Spec /\ (\A t \in Threads : SF_vars(Step(t))) /\ WF_vars(TwinEnds)

-----------------------------------------------------------------------------
(***************************************************************************)
(* Type invariant.                                                         *)
(***************************************************************************)
TypeOK ==
    /\ items \in [Queues -> Seq(Buffers)]
    /\ lock \in [Queues -> Threads \cup {NoThread}]
    /\ counter \in [Queues -> [collected : Nat, dropped : Nat]]
    /\ currentConsumption \in Nat
    /\ memoryLock \in Threads \cup {NoThread}
    /\ maxLocalCacheSize \in Limits
    /\ twinLocked \in BOOLEAN
    /\ twinReady \in BOOLEAN
    /\ pc \in [Threads -> {"idle"} \cup PushLocs \cup PopLocs]
    /\ cur \in [Threads -> Frame]
    /\ outer \in [Threads -> Frame]
    /\ limitArg \in [Threads -> Limits \cup {0}]
    /\ peakLimit \in Limits
    /\ outcome \in [Queues -> [ok : Nat, exceeded : Nat, exception : Nat]]
    /\ reported \in [Queues -> [collected : Nat, dropped : Nat]]

(***************************************************************************)
(* Buffer ownership: an event buffer is in one queue once, or in the hands *)
(* of one call, never in two places.  Pushes hand the pointer over to the  *)
(* queue on QUEUE_OK and leave it with the caller otherwise; a pointer     *)
(* with two owners would be freed twice.                                   *)
(***************************************************************************)
QueuesDisjoint ==
    \A p, q \in Queues : \A i \in 1 .. Len(items[p]), j \in 1 .. Len(items[q]) :
        items[p][i] = items[q][j] => p = q /\ i = j

(* A push that has linked its item still names it until it returns.        *)
GaveAway(t) == cur[t].res = "ok" /\ pc[t] \in {"push.collected", "push.unlock"}
Owned(t) == {outer[t].buf, IF GaveAway(t) THEN NoBuf ELSE cur[t].buf} \ {NoBuf}

BuffersOwnedOnce ==
    /\ QueuesDisjoint
    /\ \A t \in Threads : Owned(t) \cap Queued = {}
    /\ \A t, u \in Threads : t # u => Owned(t) \cap Owned(u) = {}

(***************************************************************************)
(* Memory accounting: the monitor's counter is, at every step of every     *)
(* thread, the size of the items that are linked, about to be linked, or   *)
(* unlinked and not yet released.  Holds while currentConsumption + size   *)
(* cannot pass 2^32.                                                       *)
(***************************************************************************)
ChargedLocs == {"push.link", "push.undo", "pop.release"}
Charged == Queued \cup {b \in Buffers : \E t \in Threads :
                                         pc[t] \in ChargedLocs /\ cur[t].buf = b}

NoWrap == \A l \in Limits, b \in Buffers : l + ItemSize(b) < UintMod

MemoryExact == currentConsumption = Bytes[Charged]

(***************************************************************************)
(* Budget: whatever order the twin's limit is read, changed and applied    *)
(* in, the cache never holds more than the largest limit ever configured.  *)
(* (It may hold more than the current one, when the twin lowers it.)       *)
(***************************************************************************)
BudgetRespected == Bytes[Queued] <= peakLimit

(***************************************************************************)
(* Locking: a queue's list is only in use by the thread that holds its     *)
(* lock, also while that thread is away logging.                           *)
(***************************************************************************)
InSection(t) == pc[t] \notin {"idle", "push.lock", "pop.lock"}
Uses(t, q) == \/ InSection(t) /\ cur[t].queue = q
              \/ outer[t] # NoFrame /\ outer[t].queue = q

QueueLockProtects == \A t \in Threads, q \in Queues : Uses(t, q) <=> lock[q] = t

(***************************************************************************)
(* Telemetry: when no push is running on a queue, every push that was made *)
(* was counted as collected exactly once, and as dropped exactly when it   *)
(* was refused for lack of memory - in the live counter or in a snapshot.  *)
(***************************************************************************)
Pushing(q) == \E t \in Threads : \/ pc[t] \in PushLocs /\ cur[t].queue = q
                                 \/ outer[t] # NoFrame /\ outer[t].queue = q

CountersComplete == \A q \in Queues : ~Pushing(q) =>
    /\ reported[q].collected + counter[q].collected = Finished(q)
    /\ reported[q].dropped + counter[q].dropped = outcome[q].exceeded

(***************************************************************************)
(* Contents: the queues behave as FIFO queues with a shared budget.        *)
(***************************************************************************)
Cache == INSTANCE BoundedCache WITH contents <- items, budget <- peakLimit
ImplementsBoundedCache == Cache!Spec

(***************************************************************************)
(* Progress: every SyncQueue call returns.  The lock order is queue,       *)
(* diagnostic queue, memory monitor, twin; the diagnostic queue must not   *)
(* log about itself.                                                       *)
(***************************************************************************)
CallsReturn == \A t \in Threads : pc[t] # "idle" ~> pc[t] = "idle"

=============================================================================
