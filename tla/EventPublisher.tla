--------------------------- MODULE EventPublisher ---------------------------
(***************************************************************************)
(* The publisher task (event_publisher_task.c) and the serializer it       *)
(* builds messages with (message_serializer.c), running beside the monitor *)
(* thread, which keeps pushing events, and the twin thread, which may      *)
(* change the maximum message size at any moment.                          *)
(*                                                                         *)
(* EventPublisherTask_Execute is a pass through three stages: send because *)
(* too much is cached, send because high priority events are due, send     *)
(* because low priority events are due.  Each stage makes at most one      *)
(* message, from the operational queue, its main queue and its padding     *)
(* queue, one queue operation at a time.  Clock readings are ages, in      *)
(* ticks, of the times the task remembers.                                 *)
(***************************************************************************)
EXTENDS Naturals, Sequences

CONSTANTS
    Events,           \* the events that can be cached
    Payload,          \* Payload[S]: sum of the data sizes of the events in S
    Overhead,         \* what Queue_CalculateItemSize adds to each data size
    Envelope,         \* length of the text of a message without events
    OtherBytes,       \* what the other queues may have charged to the monitor
    MessageSizes,     \* the values maxMessageSize may be given by the twin
    HighFrequency,    \* highPriorityMessageFrequency
    LowFrequency,     \* lowPriorityMessageFrequency
    MaxAge            \* bound: ages are not told apart beyond it

ASSUME PublisherAssumption ==
    /\ Overhead \in Nat /\ Envelope \in Nat
    /\ OtherBytes \subseteq Nat
    /\ MessageSizes \subseteq Nat
    /\ HighFrequency \in Nat /\ LowFrequency \in Nat /\ MaxAge \in Nat
    /\ HighFrequency < MaxAge /\ LowFrequency < MaxAge

(***************************************************************************)
(* Payload is additive, and no event is empty.                             *)
(***************************************************************************)
ASSUME PayloadAssumption ==
    /\ Payload \in [SUBSET Events -> Nat]
    /\ Payload[{}] = 0
    /\ \A e \in Events : Payload[{e}] > 0
    /\ \A S \in SUBSET Events : \A e \in Events \ S :
          Payload[S \cup {e}] = Payload[S] + Payload[{e}]

VARIABLES
    queue,            \* queue[q]: the events cached in queue q
    maxMessageSize,   \* the field of the twin configuration
    ageHigh, ageLow,  \* time since high-/lowPriorityQueueLastExecution
    ageNow,           \* time since Execute read the clock
    highDiff, lowDiff,\* high-/lowPriorityQueueTimeDiff, as of that reading
    pc,               \* "idle", "stage" or "fill"
    stage,            \* the stage of the pass
    memoryDue,        \* currentMemoryConsumption > maxMessageSize
    todo,             \* the queues GenerateEventList has yet to read
    message, size,    \* the events of the message and currentMessageSize
    length,           \* the length of the text the message serializes to
    limit,            \* maxMessageSize as the serializer read it
    sentBy            \* history: the stages of this pass that sent a message

taskVars == <<ageHigh, ageLow, ageNow, highDiff, lowDiff>>
messageVars == <<todo, message, size, length, limit>>
passVars == <<pc, stage, memoryDue, messageVars, sentBy>>
vars == <<queue, maxMessageSize, taskVars, passVars>>

QueueNames == {"operational", "high", "low"}
Stages == {"memory", "high", "low"}

Elements(s) == {s[i] : i \in 1 .. Len(s)}
Cached == UNION {Elements(queue[q]) : q \in QueueNames}

SizeOf(e) == Payload[{e}]
Charge == Payload[Cached]
          + Overhead * (Len(queue["operational"]) + Len(queue["high"]) + Len(queue["low"]))

(* The main and the padding queue of SendEvents in each stage.             *)
Main(s) == IF s = "low" THEN "low" ELSE "high"
Padding(s) == IF s = "low" THEN "high" ELSE "low"

(* Mutant: operational events are left out of the message.                 *)
QueuesOrderPlain(s) == <<Main(s), Padding(s)>>

QueuesOrder(s) == <<"operational", Main(s), Padding(s)>>

(* Mutant: sending because of memory is not a high priority execution.     *)
RememberNotMemory(s) ==
    /\ IF s = "high"
       THEN ageHigh' = ageNow /\ highDiff' = 0
       ELSE UNCHANGED <<ageHigh, highDiff>>
    /\ IF s = "low"
       THEN ageLow' = ageNow /\ lowDiff' = 0
       ELSE UNCHANGED <<ageLow, lowDiff>>
    /\ UNCHANGED ageNow

(* What ends a stage: the task remembers the time Execute started at ...   *)
Remember(s) ==
    /\ IF Main(s) = "high"
       THEN ageHigh' = ageNow /\ highDiff' = 0 /\ UNCHANGED <<ageLow, lowDiff>>
       ELSE ageLow' = ageNow /\ lowDiff' = 0 /\ UNCHANGED <<ageHigh, highDiff>>
    /\ UNCHANGED ageNow

(* ... and the pass goes on to the next stage, or returns.                 *)
NextStage ==
    /\ stage' = IF stage = "memory" THEN "high" ELSE "low"
    /\ pc' = IF stage = "low" THEN "idle" ELSE "stage"

NoMessage ==
    /\ todo = << >> /\ message = << >> /\ size = 0 /\ length = 0 /\ limit = 0

Init ==
    /\ queue = [q \in QueueNames |-> << >>]
    /\ maxMessageSize \in MessageSizes
    /\ ageHigh = 0 /\ ageLow = 0 /\ ageNow = 0
    /\ highDiff = 0 /\ lowDiff = 0
    /\ pc = "idle"
    /\ stage = "memory"
    /\ memoryDue = FALSE
    /\ NoMessage
    /\ sentBy = {}

-----------------------------------------------------------------------------
(* The environment: a collector pushes an event, the twin changes the      *)
(* maximum message size, time passes.                                      *)
Collect(q, e) ==
    /\ e \notin Cached \cup Elements(message)
    /\ queue' = [queue EXCEPT ![q] = Append(@, e)]
    /\ UNCHANGED <<maxMessageSize, taskVars, passVars>>

SetMaxMessageSize(m) ==
    /\ maxMessageSize' = m
    /\ UNCHANGED <<queue, taskVars, passVars>>

Older(age) == IF age < MaxAge THEN age + 1 ELSE age

Tick ==
    /\ ageHigh' = Older(ageHigh)
    /\ ageLow' = Older(ageLow)
    /\ ageNow' = Older(ageNow)
    /\ UNCHANGED <<queue, maxMessageSize, highDiff, lowDiff, passVars>>

-----------------------------------------------------------------------------
(* EventPublisherTask_Execute reads the configuration, the monitor's       *)
(* consumption and the clock.                                              *)
Execute ==
    /\ pc = "idle"
    /\ \E other \in OtherBytes : memoryDue' = (Charge + other > maxMessageSize)
    /\ ageNow' = 0 /\ highDiff' = ageHigh /\ lowDiff' = ageLow
    /\ stage' = "memory"
    /\ pc' = "stage"
    /\ sentBy' = {}
    /\ UNCHANGED <<queue, maxMessageSize, ageHigh, ageLow, messageVars>>

Due ==
    \/ stage = "memory" /\ memoryDue
    \/ stage = "high" /\ highDiff > HighFrequency
    \/ stage = "low" /\ lowDiff > LowFrequency

SkipStage ==
    /\ pc = "stage"
    /\ ~Due
    /\ NextStage
    /\ UNCHANGED <<queue, maxMessageSize, taskVars, memoryDue, messageVars, sentBy>>

(* SendEvents returns at once when the main queue is empty ...             *)
MainQueueEmpty ==
    /\ pc = "stage"
    /\ Due
    /\ queue[Main(stage)] = << >>
    /\ Remember(stage)
    /\ NextStage
    /\ UNCHANGED <<queue, maxMessageSize, memoryDue, messageVars, sentBy>>

(* ... or starts a message: the agent's version and id, the schema version *)
(* and an empty list of events, which currentMessageSize does not count;   *)
(* the serializer reads the maximum size anew.                             *)
StartMessage ==
    /\ pc = "stage"
    /\ Due
    /\ queue[Main(stage)] # << >>
    /\ todo' = QueuesOrder(stage)
    /\ length' = Envelope
    /\ limit' = maxMessageSize
    /\ pc' = "fill"
    /\ UNCHANGED <<queue, maxMessageSize, taskVars, stage, memoryDue, message, size, sentBy>>

(* ... or fails before it has popped anything: its writers cannot be made, *)
(* or the maximum size cannot be read.                                     *)
CannotStart ==
    /\ pc = "stage"
    /\ Due
    /\ queue[Main(stage)] # << >>
    /\ Remember(stage)
    /\ NextStage
    /\ UNCHANGED <<queue, maxMessageSize, memoryDue, messageVars, sentBy>>

(* Mutants: the message may reach the maximum; a byte is kept back.        *)
HeadReaches(q) == size + SizeOf(Head(queue[q])) <= limit
HeadFitsTightly(q) == size + SizeOf(Head(queue[q])) + 1 < limit

(* sizeLimitationCondition, asked of the first event of a queue.           *)
HeadFits(q) == size + SizeOf(Head(queue[q])) < limit

PopHead(q) == queue' = [queue EXCEPT ![q] = Tail(@)]

(* AddSingleEvent: an event leaves its queue for the message, whose text   *)
(* grows by the event and the comma after the event before it ...          *)
AddEvent ==
    /\ pc = "fill" /\ todo # << >>
    /\ LET q == Head(todo)
       IN  /\ queue[q] # << >>
           /\ HeadFits(q)
           /\ message' = Append(message, Head(queue[q]))
           /\ size' = size + SizeOf(Head(queue[q]))
           /\ length' = length + SizeOf(Head(queue[q])) + (IF message = << >> THEN 0 ELSE 1)
           /\ PopHead(q)
    /\ UNCHANGED <<maxMessageSize, taskVars, pc, stage, memoryDue, todo, limit, sentBy>>

(* ... or is lost because its data does not parse; its queue is left.      *)
LoseEvent ==
    /\ pc = "fill" /\ todo # << >>
    /\ LET q == Head(todo)
       IN  /\ queue[q] # << >>
           /\ HeadFits(q)
           /\ PopHead(q)
    /\ todo' = Tail(todo)
    /\ UNCHANGED <<maxMessageSize, taskVars, pc, stage, memoryDue, message, size, length,
                   limit, sentBy>>

(* AddEventsFromQueue ends: the queue is empty or its first event does not *)
(* fit; the last queue ends the message.                                   *)
NextQueue ==
    /\ pc = "fill" /\ todo # << >>
    /\ queue[Head(todo)] # << >> => ~HeadFits(Head(todo))
    /\ todo' = Tail(todo)
    /\ UNCHANGED <<queue, maxMessageSize, taskVars, pc, stage, memoryDue, message, size,
                   length, limit, sentBy>>

(* SendEvents returns: with nothing (MESSAGE_SERIALIZER_EMPTY), with the   *)
(* message handed to IoTHubAdapter_SendMessageAsync, or without it because *)
(* serializing or sending failed.  The popped events are gone either way.  *)
FinishMessage ==
    /\ pc = "fill" /\ todo = << >>
    /\ \/ UNCHANGED sentBy
       \/ size > 0 /\ sentBy' = sentBy \cup {stage}
    /\ message' = << >> /\ size' = 0 /\ length' = 0 /\ limit' = 0 /\ UNCHANGED todo
    /\ Remember(stage)
    /\ NextStage
    /\ UNCHANGED <<queue, maxMessageSize, memoryDue>>

-----------------------------------------------------------------------------
Publish ==
    \/ Execute \/ SkipStage \/ MainQueueEmpty \/ StartMessage
    \/ CannotStart \/ AddEvent \/ LoseEvent \/ NextQueue \/ FinishMessage

Next ==
    \/ Publish
    \/ \E q \in QueueNames, e \in Events : Collect(q, e)
    \/ \E m \in MessageSizes : SetMaxMessageSize(m)
    \/ Tick

Spec == Init /\ [][Next]_vars

(***************************************************************************)
(* The publisher thread keeps running, the clock keeps advancing, and no   *)
(* stage fails for ever to start the message it wants to send.             *)
(***************************************************************************)
FairSpec ==
    /\ Spec
    /\ WF_vars(Publish)
    /\ WF_vars(Tick)
    /\ \A s \in Stages : SF_vars(StartMessage /\ stage = s)

-----------------------------------------------------------------------------
(***************************************************************************)
(* Type invariant.                                                         *)
(***************************************************************************)
TypeOK ==
    /\ queue \in [QueueNames -> Seq(Events)]
    /\ maxMessageSize \in MessageSizes
    /\ ageHigh \in 0 .. MaxAge /\ ageLow \in 0 .. MaxAge /\ ageNow \in 0 .. MaxAge
    /\ highDiff \in 0 .. MaxAge /\ lowDiff \in 0 .. MaxAge
    /\ pc \in {"idle", "stage", "fill"}
    /\ stage \in Stages
    /\ memoryDue \in BOOLEAN
    /\ todo \in Seq(QueueNames)
    /\ message \in Seq(Events)
    /\ size \in Nat /\ length \in Nat
    /\ limit \in MessageSizes \cup {0}
    /\ sentBy \subseteq Stages

(* The commas between the events of a message.                             *)
Separators(m) == IF m = << >> THEN 0 ELSE Len(m) - 1

(***************************************************************************)
(* The serializer limits the data of the events, not the message: the data *)
(* never reaches the maximum it read, whatever is pushed or configured     *)
(* while three queues are emptied, and the text that is sent is longer by  *)
(* exactly its envelope and one separator for each further event.          *)
(***************************************************************************)
MessageAccounted ==
    /\ size = Payload[Elements(message)]
    /\ pc = "fill" => length = Envelope + size + Separators(message)
    /\ message # << >> => size < limit

(***************************************************************************)
(* Not so: the message stays below maxMessageSize.  It may exceed it by    *)
(* its envelope and separators.                                            *)
(***************************************************************************)
MessageWithinLimit == length <= limit

(***************************************************************************)
(* One pass sends at most one message with the high priority queue as main *)
(* queue: the memory stage counts as a high priority execution.            *)
(***************************************************************************)
OneHighMessagePerPass == ~({"memory", "high"} \subseteq sentBy)

(***************************************************************************)
(* "If we got to the max message size in the queue, we are sending the     *)
(* message as high priority even if there weren't any actual high priority *)
(* events": a memory stage that is due, with low priority events cached    *)
(* and no high priority ones, does not end without starting a message.     *)
(***************************************************************************)
OnlyLowCached == queue["high"] = << >> /\ queue["low"] # << >>

MemoryStageSends ==
    [][pc = "stage" /\ stage = "memory" /\ memoryDue /\ OnlyLowCached
          => stage' = "memory"]_vars

(***************************************************************************)
(* "Dequeue all the events in the queue and send them to the hub": once    *)
(* operational events stop coming, every high or low priority event leaves *)
(* its queue.                                                              *)
(***************************************************************************)
EventsDequeued ==
    <>[](queue["operational"] = << >>) =>
        \A e \in Events, q \in {"high", "low"} :
            e \in Elements(queue[q]) ~> e \notin Elements(queue[q])

(***************************************************************************)
(* Operational events ride along with others: if high and low priority     *)
(* events keep being cached, no operational event stays for ever.          *)
(***************************************************************************)
OperationalDequeued ==
    []<>(queue["high"] # << >> /\ queue["low"] # << >>) =>
        \A e \in Events :
            e \in Elements(queue["operational"]) ~> e \notin Elements(queue["operational"])

=============================================================================
