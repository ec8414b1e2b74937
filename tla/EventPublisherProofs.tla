------------------------ MODULE EventPublisherProofs ------------------------
(***************************************************************************)
(* The publisher for any events, payload sizes, limits and frequencies:    *)
(* how full a message gets, and how many messages a pass sends.            *)
(***************************************************************************)
EXTENDS EventPublisher, TLAPS

-----------------------------------------------------------------------------
(***************************************************************************)
(* An event is in one place: once in one queue, or once in the message.    *)
(* Only then is the size of a message the sum over the set of its events.  *)
(***************************************************************************)
Distinct(s) == \A i, j \in 1 .. Len(s) : s[i] = s[j] => i = j

Separate ==
    /\ \A q \in QueueNames :
          Distinct(queue[q]) /\ Elements(queue[q]) \cap Elements(message) = {}
    /\ \A p, q \in QueueNames :
          p # q => Elements(queue[p]) \cap Elements(queue[q]) = {}

(***************************************************************************)
(* There is no message outside SendEvents.                                 *)
(***************************************************************************)
Between == pc # "fill" => NoMessage

(***************************************************************************)
(* A stage sends once, after the stages before it; once the memory stage   *)
(* has sent, the high priority stage is not due.                           *)
(***************************************************************************)
Before(s) == IF s = "memory" THEN {}
             ELSE IF s = "high" THEN {"memory"} ELSE {"memory", "high"}

Pass ==
    /\ pc # "idle" => sentBy \subseteq Before(stage)
    /\ pc # "idle" /\ stage = "high" /\ "memory" \in sentBy => highDiff = 0
    /\ pc = "fill" => Due
    /\ OneHighMessagePerPass

Inv == TypeOK /\ Separate /\ Between /\ MessageAccounted /\ Pass

-----------------------------------------------------------------------------
(***************************************************************************)
(* What an event appended to a queue or to the message adds to its events. *)
(***************************************************************************)
LEMMA AppendElements ==
  ASSUME NEW S, NEW s \in Seq(S), NEW b \in S
  PROVE  /\ Elements(Append(s, b)) = Elements(s) \cup {b}
         /\ Distinct(s) /\ b \notin Elements(s) => Distinct(Append(s, b))
<1> DEFINE a == Append(s, b)
<1>1. /\ Len(a) = Len(s) + 1 /\ a[Len(s) + 1] = b /\ Len(s) \in Nat
      /\ \A i \in 1 .. Len(s) : a[i] = s[i]
  OBVIOUS
<1> HIDE DEF a
<1>2. Elements(a) = Elements(s) \cup {b}
  <2>1. ASSUME NEW i \in 1 .. Len(a) PROVE a[i] \in Elements(s) \cup {b}
    <3>1. i \in 1 .. Len(s) \/ i = Len(s) + 1
      BY <1>1
    <3> QED
      BY <1>1, <3>1 DEF Elements
  <2>2. ASSUME NEW i \in 1 .. Len(s) PROVE s[i] \in Elements(a)
    BY <1>1 DEF Elements
  <2>3. b \in Elements(a)
    BY <1>1 DEF Elements
  <2> QED
    BY <2>1, <2>2, <2>3 DEF Elements
<1>3. ASSUME Distinct(s), b \notin Elements(s) PROVE Distinct(a)
  <2> SUFFICES ASSUME NEW i \in 1 .. Len(a), NEW j \in 1 .. Len(a), a[i] = a[j] PROVE i = j
    BY DEF Distinct
  <2>1. /\ i \in 1 .. Len(s) \/ i = Len(s) + 1
        /\ j \in 1 .. Len(s) \/ j = Len(s) + 1
    BY <1>1
  <2> QED
    BY <1>1, <1>3, <2>1 DEF Distinct, Elements
<1> QED
  BY <1>2, <1>3 DEF a

(***************************************************************************)
(* The event popped from the front of a queue without repetitions is the   *)
(* only one that leaves it.                                                *)
(***************************************************************************)
LEMMA TailElements ==
  ASSUME NEW S, NEW s \in Seq(S), s # << >>, Distinct(s)
  PROVE  /\ Elements(Tail(s)) = Elements(s) \ {Head(s)}
         /\ Head(s) \in Elements(s)
         /\ Distinct(Tail(s))
<1> DEFINE a == Tail(s)
<1>1. /\ Len(s) \in Nat /\ Len(s) > 0 /\ Len(a) = Len(s) - 1 /\ Head(s) = s[1]
      /\ \A i \in 1 .. Len(a) : a[i] = s[i + 1]
  OBVIOUS
<1> HIDE DEF a
<1>2. Elements(a) = Elements(s) \ {s[1]}
  <2>1. ASSUME NEW i \in 1 .. Len(a) PROVE a[i] \in Elements(s) \ {s[1]}
    <3>1. i + 1 \in 1 .. Len(s) /\ 1 \in 1 .. Len(s) /\ i + 1 # 1
      BY <1>1
    <3> QED
      BY <1>1, <3>1 DEF Elements, Distinct
  <2>2. ASSUME NEW i \in 1 .. Len(s), s[i] # s[1] PROVE s[i] \in Elements(a)
    <3>1. i # 1
      BY <2>2
    <3>2. i - 1 \in 1 .. Len(a) /\ i - 1 + 1 = i
      BY <1>1, <3>1
    <3> QED
      BY <1>1, <3>2 DEF Elements
  <2> QED
    BY <2>1, <2>2 DEF Elements
<1>3. Distinct(a)
  <2> SUFFICES ASSUME NEW i \in 1 .. Len(a), NEW j \in 1 .. Len(a), a[i] = a[j] PROVE i = j
    BY DEF Distinct
  <2>1. i + 1 \in 1 .. Len(s) /\ j + 1 \in 1 .. Len(s)
    BY <1>1
  <2>2. i + 1 = j + 1
    BY <1>1, <2>1 DEF Distinct
  <2> QED
    BY <2>2, <1>1
<1>4. s[1] \in Elements(s)
  BY <1>1 DEF Elements
<1> QED
  BY <1>1, <1>2, <1>3, <1>4 DEF a

(***************************************************************************)
(* The fronts of the queues: what PopHead takes was in its queue and       *)
(* nowhere else, and what it leaves stays where it was.                    *)
(***************************************************************************)
LEMMA Popped ==
  ASSUME TypeOK, Separate, NEW q \in QueueNames, queue[q] # << >>, PopHead(q)
  PROVE  /\ Head(queue[q]) \in Events \ Elements(message)
         /\ queue' \in [QueueNames -> Seq(Events)]
         /\ \A p \in QueueNames :
               /\ Elements(queue'[p]) \subseteq Elements(queue[p]) \ {Head(queue[q])}
               /\ Distinct(queue'[p])
<1>1. queue \in [QueueNames -> Seq(Events)] /\ queue[q] \in Seq(Events)
  BY DEF TypeOK
<1>2. /\ Elements(Tail(queue[q])) = Elements(queue[q]) \ {Head(queue[q])}
      /\ Head(queue[q]) \in Elements(queue[q])
      /\ Distinct(Tail(queue[q]))
  BY <1>1, TailElements DEF Separate
<1>3. Head(queue[q]) \in Events /\ Tail(queue[q]) \in Seq(Events)
  BY <1>1
<1>4. queue' \in [QueueNames -> Seq(Events)]
  BY <1>1, <1>3 DEF PopHead
<1>5. ASSUME NEW p \in QueueNames
      PROVE  /\ Elements(queue'[p]) \subseteq Elements(queue[p]) \ {Head(queue[q])}
             /\ Distinct(queue'[p])
  <2>1. CASE p = q
    <3>1. queue'[p] = Tail(queue[q])
      BY <1>1, <2>1 DEF PopHead
    <3> QED
      BY <1>2, <2>1, <3>1
  <2>2. CASE p # q
    <3>1. queue'[p] = queue[p]
      BY <1>1, <2>2 DEF PopHead
    <3>2. Distinct(queue[p]) /\ Elements(queue[p]) \cap Elements(queue[q]) = {}
      BY <2>2 DEF Separate
    <3> QED
      BY <1>2, <3>1, <3>2
  <2> QED
    BY <2>1, <2>2
<1> QED
  BY <1>2, <1>3, <1>4, <1>5 DEF Separate

(***************************************************************************)
(* The payload of a message grows by the size of a new event.              *)
(***************************************************************************)
LEMMA PayloadGrows ==
  ASSUME NEW s \in Seq(Events), NEW e \in Events \ Elements(s)
  PROVE  /\ Payload[Elements(s)] \in Nat /\ SizeOf(e) \in Nat \ {0}
         /\ Payload[Elements(Append(s, e))] = Payload[Elements(s)] + SizeOf(e)
<1>1. Elements(s) \in SUBSET Events
  BY DEF Elements
<1>2. Elements(Append(s, e)) = Elements(s) \cup {e}
  BY AppendElements
<1>3. Payload[{e}] \in Nat /\ Payload[Elements(s)] \in Nat
  <2>1. {e} \in SUBSET Events /\ Payload \in [SUBSET Events -> Nat]
    BY PayloadAssumption
  <2> QED
    BY <1>1, <2>1
<1>4. Payload[{e}] > 0
  BY PayloadAssumption
<1>5. Payload[Elements(s) \cup {e}] = Payload[Elements(s)] + Payload[{e}]
  BY <1>1, PayloadAssumption
<1> QED
  BY <1>2, <1>3, <1>4, <1>5 DEF SizeOf

(***************************************************************************)
(* The empty message.                                                      *)
(***************************************************************************)
LEMMA EmptyMessage == Elements(<< >>) = {} /\ Payload[Elements(<< >>)] = 0
<1>1. Elements(<< >>) = {}
  BY DEF Elements
<1> QED
  BY <1>1, PayloadAssumption

(***************************************************************************)
(* The end of a stage: what is remembered, and where the pass goes on.     *)
(***************************************************************************)
LEMMA StageEnds ==
  ASSUME TypeOK, NextStage
  PROVE  /\ stage' \in Stages /\ pc' \in {"idle", "stage"}
         /\ Remember(stage) =>
               /\ ageHigh' \in 0 .. MaxAge /\ ageLow' \in 0 .. MaxAge
               /\ ageNow' \in 0 .. MaxAge
               /\ highDiff' \in 0 .. MaxAge /\ lowDiff' \in 0 .. MaxAge
               /\ stage = "memory" => highDiff' = 0
<1>1. 0 \in 0 .. MaxAge
  BY PublisherAssumption
<1>2. stage' \in Stages /\ pc' \in {"idle", "stage"}
  BY DEF NextStage, Stages
<1>3. ASSUME Remember(stage), Main(stage) = "high"
      PROVE  /\ ageHigh' = ageNow /\ highDiff' = 0
             /\ UNCHANGED <<ageLow, lowDiff, ageNow>>
  BY <1>3 DEF Remember
<1>4. ASSUME Remember(stage), Main(stage) # "high"
      PROVE  /\ ageLow' = ageNow /\ lowDiff' = 0 /\ stage # "memory"
             /\ UNCHANGED <<ageHigh, highDiff, ageNow>>
  BY <1>4 DEF Remember, Main
<1> QED
  BY <1>1, <1>2, <1>3, <1>4 DEF TypeOK

(***************************************************************************)
(* The task starts with empty queues and no message.                       *)
(***************************************************************************)
LEMMA InitInv == Init => Inv
<1> SUFFICES ASSUME Init PROVE Inv
  OBVIOUS
<1>1. TypeOK
  <2>1. 0 \in 0 .. MaxAge
    BY PublisherAssumption
  <2>2. queue \in [QueueNames -> Seq(Events)]
    BY DEF Init
  <2>3. todo \in Seq(QueueNames) /\ message \in Seq(Events)
    BY DEF Init, NoMessage
  <2> QED
    BY <2>1, <2>2, <2>3 DEF Init, NoMessage, TypeOK, Stages
<1>2. Separate
  <2>1. \A q \in QueueNames : Elements(queue[q]) = {} /\ Distinct(queue[q])
    BY EmptyMessage DEF Init, Distinct
  <2> QED
    BY <2>1 DEF Separate
<1>3. Between /\ Pass /\ MessageAccounted
  BY EmptyMessage DEF Init, NoMessage, Between, Pass, OneHighMessagePerPass,
     MessageAccounted
<1> QED
  BY <1>1, <1>2, <1>3 DEF Inv

(***************************************************************************)
(* Every step stores values of the fields' types.                          *)
(***************************************************************************)
LEMMA TypeStep == Inv /\ [Next]_vars => TypeOK'
<1> SUFFICES ASSUME Inv, [Next]_vars PROVE TypeOK'
  OBVIOUS
<1> USE DEF Inv, TypeOK, Stages, taskVars, messageVars, passVars
<1>1. CASE Execute
  BY <1>1, PublisherAssumption DEF Execute
<1>2. CASE SkipStage
  BY <1>2, StageEnds DEF SkipStage
<1>3. CASE MainQueueEmpty
  BY <1>3, StageEnds DEF MainQueueEmpty
<1>4. CASE StartMessage
  BY <1>4, PublisherAssumption DEF StartMessage, QueuesOrder, Main, Padding, QueueNames
<1>5. CASE CannotStart
  BY <1>5, StageEnds DEF CannotStart
<1>6. CASE AddEvent
  <2> DEFINE q == Head(todo)
  <2>1. q \in QueueNames /\ queue[q] # << >> /\ PopHead(q)
    BY <1>6 DEF AddEvent
  <2>2. queue' \in [QueueNames -> Seq(Events)] /\ Head(queue[q]) \in Events \ Elements(message)
    BY <2>1, Popped
  <2>3. SizeOf(Head(queue[q])) \in Nat
    BY <2>2, PayloadGrows
  <2>4. message' \in Seq(Events) /\ size' \in Nat /\ length' \in Nat
    <3>1. /\ message' = Append(message, Head(queue[q])) /\ size' = size + SizeOf(Head(queue[q]))
          /\ length' = length + SizeOf(Head(queue[q])) + (IF message = << >> THEN 0 ELSE 1)
      BY <1>6 DEF AddEvent
    <3>2. message \in Seq(Events) /\ size \in Nat /\ length \in Nat
      OBVIOUS
    <3> HIDE DEF q, Inv, TypeOK
    <3> QED
      BY <2>2, <2>3, <3>1, <3>2
  <2> QED
    BY <1>6, <2>2, <2>4 DEF AddEvent
<1>7. CASE LoseEvent
  <2> DEFINE q == Head(todo)
  <2>1. q \in QueueNames /\ queue[q] # << >> /\ PopHead(q)
    BY <1>7 DEF LoseEvent
  <2>2. queue' \in [QueueNames -> Seq(Events)]
    BY <2>1, Popped
  <2> QED
    BY <1>7, <2>2 DEF LoseEvent
<1>8. CASE NextQueue
  BY <1>8 DEF NextQueue
<1>9. CASE FinishMessage
  <2>1. /\ limit' \in MessageSizes \cup {0} /\ size' \in Nat /\ length' \in Nat
        /\ message' \in Seq(Events)
    BY <1>9 DEF FinishMessage
  <2>2. sentBy' \subseteq Stages
    BY <1>9 DEF FinishMessage
  <2> QED
    BY <1>9, <2>1, <2>2, StageEnds DEF FinishMessage
<1>10. ASSUME NEW q \in QueueNames, NEW e \in Events, Collect(q, e) PROVE TypeOK'
  BY <1>10 DEF Collect
<1>11. ASSUME NEW m \in MessageSizes, SetMaxMessageSize(m) PROVE TypeOK'
  BY <1>11 DEF SetMaxMessageSize
<1>12. CASE Tick
  BY <1>12, PublisherAssumption DEF Tick, Older
<1>13. CASE UNCHANGED vars
  BY <1>13 DEF vars
<1> QED
  BY <1>1, <1>2, <1>3, <1>4, <1>5, <1>6, <1>7, <1>8, <1>9, <1>10, <1>11,
     <1>12, <1>13 DEF Next, Publish

(***************************************************************************)
(* An event moves from the collector to one queue, and from there to the   *)
(* message or away.                                                        *)
(***************************************************************************)
LEMMA SeparateStep == Inv /\ [Next]_vars => Separate'
<1> SUFFICES ASSUME Inv, [Next]_vars PROVE Separate'
  OBVIOUS
<1> USE DEF Inv, TypeOK, taskVars, messageVars, passVars
<1>1. CASE Execute
  BY <1>1 DEF Execute, Separate
<1>2. CASE SkipStage
  BY <1>2 DEF SkipStage, Separate
<1>3. CASE MainQueueEmpty
  BY <1>3 DEF MainQueueEmpty, Separate
<1>4. CASE StartMessage
  BY <1>4 DEF StartMessage, Separate
<1>5. CASE CannotStart
  BY <1>5 DEF CannotStart, Separate
<1>6. CASE AddEvent
  <2> DEFINE q == Head(todo)
             e == Head(queue[q])
  <2>1. q \in QueueNames /\ queue[q] # << >> /\ PopHead(q) /\ message' = Append(message, e)
    BY <1>6 DEF AddEvent
  <2>2. /\ e \in Events
        /\ \A p \in QueueNames :
              Elements(queue'[p]) \subseteq Elements(queue[p]) \ {e} /\ Distinct(queue'[p])
    BY <2>1, Popped
  <2>3. Elements(message') = Elements(message) \cup {e}
    BY <2>1, <2>2, AppendElements
  <2> QED
    BY <2>2, <2>3 DEF Separate
<1>7. CASE LoseEvent
  <2> DEFINE q == Head(todo)
  <2>1. q \in QueueNames /\ queue[q] # << >> /\ PopHead(q) /\ message' = message
    BY <1>7 DEF LoseEvent
  <2>2. \A p \in QueueNames :
           Elements(queue'[p]) \subseteq Elements(queue[p]) /\ Distinct(queue'[p])
    BY <2>1, Popped
  <2> QED
    BY <2>1, <2>2 DEF Separate
<1>8. CASE NextQueue
  BY <1>8 DEF NextQueue, Separate
<1>9. CASE FinishMessage
  <2>1. Elements(message') = {}
    BY <1>9, EmptyMessage DEF FinishMessage
  <2> QED
    BY <1>9, <2>1 DEF FinishMessage, Separate
<1>10. ASSUME NEW q \in QueueNames, NEW e \in Events, Collect(q, e) PROVE Separate'
  <2>1. /\ queue' = [queue EXCEPT ![q] = Append(queue[q], e)] /\ message' = message
        /\ e \notin Elements(message)
        /\ \A p \in QueueNames : e \notin Elements(queue[p])
    BY <1>10 DEF Collect, Cached
  <2>2. /\ Elements(queue'[q]) = Elements(queue[q]) \cup {e} /\ Distinct(queue'[q])
    <3>1. queue'[q] = Append(queue[q], e) /\ queue[q] \in Seq(Events)
      BY <2>1
    <3> QED
      BY <2>1, <3>1, AppendElements DEF Separate
  <2>3. \A p \in QueueNames \ {q} : queue'[p] = queue[p]
    BY <2>1
  <2> QED
    BY <2>1, <2>2, <2>3 DEF Separate
<1>11. ASSUME NEW m \in MessageSizes, SetMaxMessageSize(m) PROVE Separate'
  BY <1>11 DEF SetMaxMessageSize, Separate
<1>12. CASE Tick
  BY <1>12 DEF Tick, Separate
<1>13. CASE UNCHANGED vars
  BY <1>13 DEF vars, Separate
<1> QED
  BY <1>1, <1>2, <1>3, <1>4, <1>5, <1>6, <1>7, <1>8, <1>9, <1>10, <1>11,
     <1>12, <1>13 DEF Next, Publish

(***************************************************************************)
(* A message is made and given up within SendEvents.                       *)
(***************************************************************************)
LEMMA BetweenStep == Inv /\ [Next]_vars => Between'
<1> SUFFICES ASSUME Inv, [Next]_vars PROVE Between'
  OBVIOUS
<1> USE DEF Inv, Between, NoMessage, taskVars, messageVars, passVars
<1>1. CASE Execute
  BY <1>1 DEF Execute
<1>2. CASE SkipStage
  BY <1>2 DEF SkipStage, NextStage
<1>3. CASE MainQueueEmpty
  BY <1>3 DEF MainQueueEmpty, Remember, NextStage, Main
<1>4. CASE StartMessage
  BY <1>4 DEF StartMessage
<1>5. CASE CannotStart
  BY <1>5 DEF CannotStart, Remember, NextStage, Main
<1>6. CASE AddEvent
  BY <1>6 DEF AddEvent
<1>7. CASE LoseEvent
  BY <1>7 DEF LoseEvent
<1>8. CASE NextQueue
  BY <1>8 DEF NextQueue
<1>9. CASE FinishMessage
  BY <1>9 DEF FinishMessage, Remember, NextStage, Main
<1>10. ASSUME NEW q \in QueueNames, NEW e \in Events, Collect(q, e) PROVE Between'
  BY <1>10 DEF Collect
<1>11. ASSUME NEW m \in MessageSizes, SetMaxMessageSize(m) PROVE Between'
  BY <1>11 DEF SetMaxMessageSize
<1>12. CASE Tick
  BY <1>12 DEF Tick
<1>13. CASE UNCHANGED vars
  BY <1>13 DEF vars
<1> QED
  BY <1>1, <1>2, <1>3, <1>4, <1>5, <1>6, <1>7, <1>8, <1>9, <1>10, <1>11,
     <1>12, <1>13 DEF Next, Publish

(***************************************************************************)
(* The message grows by events that fit.                                   *)
(***************************************************************************)
LEMMA MessageStep == Inv /\ [Next]_vars => MessageAccounted'
<1> SUFFICES ASSUME Inv, [Next]_vars PROVE MessageAccounted'
  OBVIOUS
<1> USE DEF Inv, MessageAccounted, taskVars, messageVars, passVars
<1>1. CASE Execute
  BY <1>1 DEF Execute
<1>2. CASE SkipStage
  BY <1>2 DEF SkipStage, NextStage
<1>3. CASE MainQueueEmpty
  BY <1>3 DEF MainQueueEmpty, NextStage
<1>4. CASE StartMessage
  <2>1. message = << >> /\ size = 0
    BY <1>4 DEF StartMessage, Between, NoMessage
  <2> QED
    BY <1>4, <2>1, PublisherAssumption DEF StartMessage, Separators
<1>5. CASE CannotStart
  BY <1>5 DEF CannotStart, NextStage
<1>6. CASE AddEvent
  <2> DEFINE q == Head(todo)
             e == Head(queue[q])
  <2>1. /\ q \in QueueNames /\ queue[q] # << >> /\ PopHead(q)
        /\ message' = Append(message, e) /\ size' = size + SizeOf(e)
        /\ HeadFits(q) /\ limit' = limit /\ message \in Seq(Events)
    BY <1>6 DEF AddEvent, TypeOK
  <2>2. e \in Events \ Elements(message)
    BY <2>1, Popped
  <2>3. size \in Nat /\ SizeOf(e) \in Nat /\ size' = Payload[Elements(message')]
    BY <2>1, <2>2, PayloadGrows
  <2>4. size' < limit'
    BY <2>1 DEF HeadFits
  <2>5. length' = Envelope + size' + Separators(message')
    <3>1. /\ length = Envelope + size + Separators(message)
          /\ length' = length + SizeOf(e) + (IF message = << >> THEN 0 ELSE 1)
      BY <1>6 DEF AddEvent
    <3>2. Separators(message') = Separators(message) + (IF message = << >> THEN 0 ELSE 1)
      <4> HIDE DEF e, q
      <4>1. message' # << >> /\ Len(message') = Len(message) + 1 /\ Len(message) \in Nat
        BY <2>1, <2>2
      <4>2. message = << >> => Len(message) = 0
        OBVIOUS
      <4> QED
        BY <4>1, <4>2 DEF Separators
    <3>3. Separators(message) \in Nat
      <4>1. Len(message) \in Nat /\ (message # << >> => Len(message) > 0)
        BY <2>1
      <4> QED
        BY <4>1 DEF Separators
    <3>4. size' = size + SizeOf(e) /\ size \in Nat /\ SizeOf(e) \in Nat /\ Envelope \in Nat
      BY <2>1, <2>3, PublisherAssumption
    <3> HIDE DEF e, q, Inv, MessageAccounted
    <3>5. CASE message = << >>
      BY <3>1, <3>2, <3>3, <3>4, <3>5
    <3>6. CASE message # << >>
      BY <3>1, <3>2, <3>3, <3>4, <3>6
    <3> QED
      BY <3>5, <3>6
  <2> QED
    BY <2>3, <2>4, <2>5
<1>7. CASE LoseEvent
  BY <1>7 DEF LoseEvent
<1>8. CASE NextQueue
  BY <1>8 DEF NextQueue
<1>9. CASE FinishMessage
  BY <1>9, EmptyMessage DEF FinishMessage, NextStage
<1>10. ASSUME NEW q \in QueueNames, NEW e \in Events, Collect(q, e) PROVE MessageAccounted'
  BY <1>10 DEF Collect
<1>11. ASSUME NEW m \in MessageSizes, SetMaxMessageSize(m) PROVE MessageAccounted'
  BY <1>11 DEF SetMaxMessageSize
<1>12. CASE Tick
  BY <1>12 DEF Tick
<1>13. CASE UNCHANGED vars
  BY <1>13 DEF vars
<1> QED
  BY <1>1, <1>2, <1>3, <1>4, <1>5, <1>6, <1>7, <1>8, <1>9, <1>10, <1>11,
     <1>12, <1>13 DEF Next, Publish

(***************************************************************************)
(* The stages of a pass send in order, and the high priority stage only if *)
(* the memory stage has not sent.                                          *)
(***************************************************************************)
LEMMA PassStep == Inv /\ [Next]_vars => Pass'
<1> SUFFICES ASSUME Inv, [Next]_vars PROVE Pass'
  OBVIOUS
<1> USE PublisherAssumption DEF Inv, TypeOK, Pass, OneHighMessagePerPass,
   Before, Stages, Due, taskVars, messageVars, passVars
<1>1. CASE Execute
  BY <1>1 DEF Execute
<1>2. CASE SkipStage
  BY <1>2 DEF SkipStage, NextStage
<1>3. CASE MainQueueEmpty
  BY <1>3 DEF MainQueueEmpty, Remember, NextStage, Main
<1>4. CASE StartMessage
  BY <1>4 DEF StartMessage
<1>5. CASE CannotStart
  BY <1>5 DEF CannotStart, Remember, NextStage, Main
<1>6. CASE AddEvent
  BY <1>6 DEF AddEvent
<1>7. CASE LoseEvent
  BY <1>7 DEF LoseEvent
<1>8. CASE NextQueue
  BY <1>8 DEF NextQueue
<1>9. CASE FinishMessage
  <2>1. sentBy' \subseteq sentBy \cup {stage}
    BY <1>9 DEF FinishMessage
  <2>2. stage = "high" => "memory" \notin sentBy
    BY <1>9 DEF FinishMessage
  <2>3. sentBy \subseteq Before(stage)
    BY <1>9 DEF FinishMessage
  <2>4. NextStage /\ Remember(stage)
    BY <1>9 DEF FinishMessage
  <2>5. CASE stage = "memory"
    BY <2>1, <2>3, <2>4, <2>5, StageEnds DEF NextStage
  <2>6. CASE stage = "high"
    BY <2>1, <2>2, <2>3, <2>4, <2>6 DEF NextStage
  <2>7. CASE stage = "low"
    BY <2>1, <2>3, <2>4, <2>7 DEF NextStage
  <2> QED
    BY <2>5, <2>6, <2>7
<1>10. ASSUME NEW q \in QueueNames, NEW e \in Events, Collect(q, e) PROVE Pass'
  BY <1>10 DEF Collect
<1>11. ASSUME NEW m \in MessageSizes, SetMaxMessageSize(m) PROVE Pass'
  BY <1>11 DEF SetMaxMessageSize
<1>12. CASE Tick
  BY <1>12 DEF Tick
<1>13. CASE UNCHANGED vars
  BY <1>13 DEF vars
<1> QED
  BY <1>1, <1>2, <1>3, <1>4, <1>5, <1>6, <1>7, <1>8, <1>9, <1>10, <1>11,
     <1>12, <1>13 DEF Next, Publish

-----------------------------------------------------------------------------
(***************************************************************************)
(* The invariant of the publisher holds in every state.                    *)
(***************************************************************************)
LEMMA InvCorrect == Spec => []Inv
<1>1. Inv /\ [Next]_vars => Inv'
  BY TypeStep, SeparateStep, BetweenStep, MessageStep, PassStep DEF Inv
<1> QED
  BY InitInv, <1>1, PTL DEF Spec

(***************************************************************************)
(* The publisher's variables keep their types whatever is pushed or        *)
(* configured during a pass.                                               *)
(***************************************************************************)
THEOREM TypeCorrect == Spec => []TypeOK
<1>1. Inv => TypeOK
  BY DEF Inv
<1> QED
  BY InvCorrect, <1>1, PTL

(***************************************************************************)
(* A message is accounted exactly and stays below the size the serializer  *)
(* read, however the twin changes it while three queues are emptied.       *)
(***************************************************************************)
THEOREM LimitCorrect == Spec => []MessageAccounted
<1>1. Inv => MessageAccounted
  BY DEF Inv
<1> QED
  BY InvCorrect, <1>1, PTL

(***************************************************************************)
(* A pass never sends both because of memory and because high priority     *)
(* events are due.                                                         *)
(***************************************************************************)
THEOREM PassCorrect == Spec => []OneHighMessagePerPass
<1>1. Inv => OneHighMessagePerPass
  BY DEF Inv, Pass
<1> QED
  BY InvCorrect, <1>1, PTL

=============================================================================
