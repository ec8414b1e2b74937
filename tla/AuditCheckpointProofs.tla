----------------------- MODULE AuditCheckpointProofs -----------------------
(***************************************************************************)
(* The checkpoint of an audit collector for any records, any resolution of *)
(* the clock and any number of failures and kills: no record is passed     *)
(* over, none is repeated for another reason than the second, and the      *)
(* aggregator's list is exact.                                             *)
(***************************************************************************)
EXTENDS AuditCheckpoint, TLAPS

-----------------------------------------------------------------------------
Searching == {"enabled", "next"}
FileHoldsTime == file \notin {Missing, Empty}

(***************************************************************************)
(* A record is written to the log once, and nothing is known of one that   *)
(* is not in the log.                                                      *)
(***************************************************************************)
Logged ==
    /\ \A i, j \in 1..Len(log) : log[i] = log[j] => i = j
    /\ \A r \in Records : fate[r] # "none" => r \in Written
    /\ \A i \in DOMAIN list : list[i].records \subseteq Written

(***************************************************************************)
(* The searches go forward in time: the file and the records taken are of  *)
(* the last search or of an earlier one.                                   *)
(***************************************************************************)
Forward ==
    /\ search.time <= Seconds(clock)
    /\ pc # "idle" => search.time # -1
    /\ FileHoldsTime => file <= search.time
    /\ \A r \in Records : takenAt[r] <= search.time

(***************************************************************************)
(* During a search: it began at the checkpoint in the file or at the       *)
(* beginning of the log, and nothing that it stepped over was to be taken. *)
(***************************************************************************)
Stepped ==
    pc \in Searching =>
        /\ search.from # Beginning => FileHoldsTime /\ search.from = file
        /\ \A i \in 1..Len(log) :
              i < search.next /\ fate[log[i]] = "logged"
              => happened[log[i]].time <= search.from

(***************************************************************************)
(* After the records: none that the new checkpoint will pass is left,      *)
(* except the late ones and those of an aborted cycle.                     *)
(***************************************************************************)
Passed ==
    pc \in {"checkpoint", "write"} =>
        \A r \in Written :
            fate[r] = "logged" /\ happened[r].time <= search.time
            => r \in late \cup aborted

(***************************************************************************)
(* A good file has the time of the last search; a search that started from *)
(* it is after whatever was taken before, by whichever cycle.              *)
(***************************************************************************)
GoodFile ==
    /\ good /\ pc = "idle" => FileHoldsTime /\ file = search.time
    /\ good /\ pc \in Searching =>
          /\ FileHoldsTime /\ search.from = file
          /\ \A r \in Records :
                \/ takenAt[r] <= search.from
                \/ \E i \in 1..Len(log) : i < search.next /\ log[i] = r

RepeatedKnown ==
    \A x \in repeated : x \in (DOMAIN happened) \X Int /\ happened[x[1]].time > x[2]

Inv ==
    /\ TypeOK /\ Logged /\ Forward /\ Stepped /\ Passed /\ NothingSkipped
    /\ GoodFile /\ RepeatedKnown /\ AggregationExact

-----------------------------------------------------------------------------
(***************************************************************************)
(* time_t: the whole seconds of a time are not after it, and a later time  *)
(* does not have fewer of them.                                            *)
(***************************************************************************)
LEMMA WholeSeconds ==
  ASSUME NEW t \in Nat
  PROVE  /\ t \div TicksPerSecond \in Nat
         /\ (t \div TicksPerSecond) * TicksPerSecond <= t
         /\ t < (t \div TicksPerSecond) * TicksPerSecond + TicksPerSecond
<1> DEFINE q == t \div TicksPerSecond
           m == t % TicksPerSecond
<1> USE AuditAssumption
<1>1. q \in Int /\ m \in 0..TicksPerSecond - 1
  OBVIOUS
<1>2. t = TicksPerSecond * q + m
  OBVIOUS
<1>3. q >= 0
  OBVIOUS
<1> QED
  BY <1>1, <1>2, <1>3

(***************************************************************************)
(* Multiplying by the ticks of a second keeps the order.                   *)
(***************************************************************************)
LEMMA TicksMonotone ==
  ASSUME NEW a \in Nat, NEW b \in Nat, a <= b
  PROVE  a * TicksPerSecond <= b * TicksPerSecond
BY AuditAssumption

(***************************************************************************)
(* Seconds gives a time that is not later.                                 *)
(***************************************************************************)
LEMMA SecondsType ==
  ASSUME NEW t \in Nat
  PROVE  Seconds(t) \in Nat /\ Seconds(t) <= t
<1> DEFINE q == t \div TicksPerSecond
<1>1. q \in Nat /\ q * TicksPerSecond <= t
  BY WholeSeconds
<1> HIDE DEF q
<1>2. q * TicksPerSecond \in Nat
  BY <1>1, AuditAssumption
<1> QED
  BY <1>1, <1>2 DEF Seconds, q

(***************************************************************************)
(* Seconds is monotone.                                                    *)
(***************************************************************************)
LEMMA SecondsMonotone ==
  ASSUME NEW t \in Nat, NEW u \in Nat, u <= t
  PROVE  Seconds(u) <= Seconds(t)
<1> DEFINE p == u \div TicksPerSecond
           q == t \div TicksPerSecond
<1>1. /\ p \in Nat /\ q \in Nat
      /\ p * TicksPerSecond <= u /\ t < q * TicksPerSecond + TicksPerSecond
  BY WholeSeconds
<1> HIDE DEF p, q
<1>2. p <= q
  <2> SUFFICES ASSUME q + 1 <= p PROVE FALSE
    BY <1>1
  <2>1. (q + 1) * TicksPerSecond <= p * TicksPerSecond
    BY <1>1, TicksMonotone
  <2>2. (q + 1) * TicksPerSecond = q * TicksPerSecond + TicksPerSecond
    BY <1>1, AuditAssumption
  <2>3. p * TicksPerSecond \in Int /\ q * TicksPerSecond \in Int
    BY <1>1, AuditAssumption
  <2> QED
    BY <1>1, <2>1, <2>2, <2>3, AuditAssumption
<1>3. p * TicksPerSecond <= q * TicksPerSecond
  BY <1>1, <1>2, TicksMonotone
<1> QED
  BY <1>3 DEF Seconds, p, q

(***************************************************************************)
(* The records written are those at the positions of the log.              *)
(***************************************************************************)
LEMMA LogPositions ==
  ASSUME TypeOK
  PROVE  /\ Len(log) \in Nat
         /\ \A i \in 1..Len(log) : log[i] \in Written /\ log[i] \in Records
         /\ \A r \in Written : r \in Records /\ \E i \in 1..Len(log) : log[i] = r
<1>1. log \in Seq(Records)
  BY DEF TypeOK
<1>2. DOMAIN log = 1..Len(log) /\ Len(log) \in Nat /\ \A i \in DOMAIN log : log[i] \in Records
  BY <1>1
<1>3. Written = {log[i] : i \in DOMAIN log}
  BY DEF Written, Range
<1> QED
  BY <1>2, <1>3

(***************************************************************************)
(* What auditd's write does to the log.                                    *)
(***************************************************************************)
LEMMA LogGrows ==
  ASSUME TypeOK, NEW r \in Records, WriteRecord(r)
  PROVE  /\ log' \in Seq(Records) /\ Len(log)' = Len(log) + 1
         /\ log'[Len(log) + 1] = r
         /\ \A i \in 1..Len(log) : log'[i] = log[i]
         /\ Written' = Written \cup {r}
<1>1. log \in Seq(Records) /\ log' = Append(log, r)
  BY DEF TypeOK, WriteRecord
<1>2. /\ log' \in Seq(Records) /\ Len(log)' = Len(log) + 1
      /\ log'[Len(log) + 1] = r
      /\ \A i \in 1..Len(log) : log'[i] = log[i]
  BY <1>1
<1>3. DOMAIN log = 1..Len(log) /\ DOMAIN log' = 1..Len(log) + 1 /\ Len(log) \in Nat
  BY <1>1, <1>2
<1>4. DOMAIN log' = DOMAIN log \cup {Len(log) + 1}
  BY <1>3
<1>5. Written' = {log'[i] : i \in DOMAIN log'}
  BY DEF Written, Range
<1>6. Written = {log[i] : i \in DOMAIN log}
  BY DEF Written, Range
<1>7. Written' = Written \cup {r}
  <2>1. ASSUME NEW x \in Written' PROVE x \in Written \cup {r}
    <3>1. PICK i \in DOMAIN log' : x = log'[i]
      BY <2>1, <1>5
    <3>2. CASE i = Len(log) + 1
      BY <3>1, <3>2, <1>2
    <3>3. CASE i \in DOMAIN log
      BY <3>1, <3>3, <1>2, <1>3, <1>6
    <3> QED
      BY <3>1, <3>2, <3>3, <1>4
  <2>2. ASSUME NEW x \in Written PROVE x \in Written'
    <3>1. PICK i \in DOMAIN log : x = log[i]
      BY <2>2, <1>6
    <3> QED
      BY <3>1, <1>2, <1>3, <1>4, <1>5
  <2>3. r \in Written'
    BY <1>2, <1>4, <1>5
  <2> QED
    BY <2>1, <2>2, <2>3
<1> QED
  BY <1>2, <1>7

(***************************************************************************)
(* The end of a cycle's records keeps the searchTime and nothing else.     *)
(***************************************************************************)
LEMMA SearchEnds ==
  ASSUME TypeOK, SearchOver
  PROVE  /\ search'.from = Beginning /\ search'.time = search.time /\ search'.next = 1
         /\ search' \in [from : Nat \cup {Beginning}, time : Nat \cup {-1}, next : {1}]
         /\ aggregating' = FALSE
BY DEF TypeOK, SearchOver, NoSearch, Beginning

(***************************************************************************)
(* The record that GetNext found: it is later than the checkpoint, and     *)
(* those between the last one and it are not.                              *)
(***************************************************************************)
LEMMA AtFound ==
  ASSUME TypeOK, NEW i \in 1..Len(log), AtRecord(i)
  PROVE  /\ pc = "next" /\ search.next <= i
         /\ log[i] \in Records /\ log[i] \in Written /\ log[i] \in DOMAIN happened
         /\ happened[log[i]].time > search.from
         /\ \A j \in 1..Len(log) :
               search.next <= j /\ j < i => happened[log[j]].time <= search.from
<1>1. log[i] \in Records /\ log[i] \in Written /\ log[i] \in DOMAIN happened
  BY LogPositions DEF TypeOK
<1>2. pc = "next" /\ i \in Unread /\ \A j \in Unread : i <= j
  BY DEF AtRecord, Found
<1>3. search.next \in Nat /\ search.next >= 1 /\ Len(log) \in Nat /\ search.from \in Int
  BY LogPositions DEF TypeOK, Beginning
<1>4. search.next <= i /\ happened[log[i]].time > search.from
  BY <1>2, <1>3 DEF Unread, Matches
<1>5. ASSUME NEW j \in 1..Len(log), search.next <= j, j < i
      PROVE  happened[log[j]].time <= search.from
  <2>1. j \notin Unread
    BY <1>2, <1>5, <1>3
  <2>2. j \in search.next..Len(log)
    BY <1>5, <1>3
  <2>3. ~(happened[log[j]].time > search.from)
    BY <2>1, <2>2 DEF Unread, Matches
  <2>4. happened[log[j]].time \in Int
    BY LogPositions DEF TypeOK
  <2> QED
    BY <2>3, <2>4, <1>3
<1> QED
  BY <1>1, <1>2, <1>4, <1>5

(***************************************************************************)
(* Taking that record.                                                     *)
(***************************************************************************)
LEMMA Taking ==
  ASSUME TypeOK, NEW i \in 1..Len(log), NEW what \in Fates, Take(i, what),
         log[i] \in Records
  PROVE  /\ search'.from = search.from /\ search'.time = search.time
         /\ search'.next = i + 1
         /\ search' \in [from : Nat \cup {Beginning}, time : Nat \cup {-1},
                         next : 1..Len(log) + 1]
         /\ fate' \in [Records -> Fates] /\ takenAt' \in [Records -> Nat \cup {-1}]
         /\ fate'[log[i]] = what /\ takenAt'[log[i]] = search.time
         /\ \A r \in Records \ {log[i]} :
               fate'[r] = fate[r] /\ takenAt'[r] = takenAt[r]
         /\ late' = late \ {log[i]} /\ aborted' = aborted \ {log[i]}
         /\ repeated' = IF Again(log[i]) THEN {<<log[i], takenAt[log[i]]>>}
                        ELSE repeated
<1>0. Len(log) \in Nat
  BY LogPositions
<1>1. /\ search'.from = search.from /\ search'.time = search.time
      /\ search'.next = i + 1
      /\ search' \in [from : Nat \cup {Beginning}, time : Nat \cup {-1},
                      next : 1..Len(log) + 1]
  <2> DEFINE n == i + 1
  <2>1. n \in 1..Len(log) + 1
    BY <1>0
  <2>2. search' = [search EXCEPT !.next = n]
    BY DEF Take
  <2> HIDE DEF n
  <2>3. /\ search'.from = search.from /\ search'.time = search.time
        /\ search'.next = n
        /\ search' \in [from : Nat \cup {Beginning}, time : Nat \cup {-1},
                        next : 1..Len(log) + 1]
    BY <2>1, <2>2 DEF TypeOK
  <2> QED
    BY <2>3 DEF n
<1> QED
  BY <1>1 DEF TypeOK, Take

(***************************************************************************)
(* CreateSingleEvent and CreateEventForAggregation, as the invariants see  *)
(* them.                                                                   *)
(***************************************************************************)
LEMMA RecordTaken ==
  ASSUME TypeOK, NEW i \in 1..Len(log),
         CreateSingleEvent(i) \/ CreateEventForAggregation(i)
  PROVE  /\ AtRecord(i)
         /\ \E what \in {"queued", "dropped", "aggregated"} : Take(i, what)
         /\ UNCHANGED <<clock, happened, log, file, enabled, pc, aggregating, flushed,
                        good, crashes>>
         /\ faults' \in 0..MaxFaults
<1>1. CASE CreateSingleEvent(i)
  BY <1>1, AuditAssumption, SMTT(20) DEF CreateSingleEvent, TypeOK, Fault, NoFault, memory
<1>2. CASE CreateEventForAggregation(i)
  BY <1>2, AuditAssumption, SMTT(20)
     DEF CreateEventForAggregation, TypeOK, Fault, NoFault
<1> QED
  BY <1>1, <1>2

(***************************************************************************)
(* What taking a record does to the search and to the history.             *)
(***************************************************************************)
LEMMA RecordTakenFacts ==
  ASSUME TypeOK, NEW i \in 1..Len(log),
         CreateSingleEvent(i) \/ CreateEventForAggregation(i)
  PROVE  /\ search'.from = search.from /\ search'.time = search.time
         /\ search'.next = i + 1
         /\ search' \in [from : Nat \cup {Beginning}, time : Nat \cup {-1},
                         next : 1..Len(log) + 1]
         /\ fate' \in [Records -> Fates] /\ takenAt' \in [Records -> Nat \cup {-1}]
         /\ fate'[log[i]] \notin {"none", "logged"} /\ takenAt'[log[i]] = search.time
         /\ \A r \in Records \ {log[i]} :
               fate'[r] = fate[r] /\ takenAt'[r] = takenAt[r]
         /\ late' = late \ {log[i]} /\ aborted' = aborted \ {log[i]}
         /\ repeated' = IF Again(log[i]) THEN {<<log[i], takenAt[log[i]]>>}
                        ELSE repeated
<1>1. log[i] \in Records
  BY LogPositions
<1>2. PICK what \in {"queued", "dropped", "aggregated"} : Take(i, what)
  BY RecordTaken
<1>3. what \in Fates
  BY DEF Fates
<1> QED
  BY <1>1, <1>2, <1>3, Taking

(***************************************************************************)
(* The type invariant in parts, one for each group of variables.           *)
(***************************************************************************)
WorldType ==
    /\ clock \in 1..MaxTime
    /\ DOMAIN happened \subseteq Records
    /\ happened \in [DOMAIN happened -> [time : Nat \ {0}, payload : Payloads]]
    /\ log \in Seq(Records)
    /\ Written \subseteq DOMAIN happened
    /\ file \in {Missing, Empty} \cup 0..clock

TaskType ==
    /\ pc \in {"idle", "enabled", "next", "checkpoint", "write"}
    /\ search \in [from : Nat \cup {Beginning}, time : Nat \cup {-1},
                   next : 1..Len(log) + 1]

FlagsType == enabled \in BOOLEAN /\ aggregating \in BOOLEAN /\ good \in BOOLEAN

ListType ==
    /\ list \in Seq([payload : Payloads, records : SUBSET Records])
    /\ flushed \in 1..clock

HistoryType ==
    /\ fate \in [Records -> Fates]
    /\ takenAt \in [Records -> Nat \cup {-1}]
    /\ late \subseteq Records /\ aborted \subseteq Records

BoundsType == faults \in 0..MaxFaults /\ crashes \in 0..MaxCrashes

(***************************************************************************)
(* The type invariant in six parts.                                        *)
(***************************************************************************)
LEMMA TypeParts ==
  TypeOK <=> /\ WorldType /\ TaskType /\ FlagsType
             /\ ListType /\ HistoryType /\ BoundsType
BY DEF TypeOK, WorldType, TaskType, FlagsType, ListType, HistoryType, BoundsType

(***************************************************************************)
(* The records, the log and the checkpoint file keep their types.          *)
(***************************************************************************)
LEMMA WorldTypeStep == Inv /\ [Next]_vars => WorldType'
<1> SUFFICES ASSUME Inv, [Next]_vars PROVE WorldType'
  OBVIOUS
<1> USE AuditAssumption, TypeParts DEF Inv, WorldType, Missing, Empty,
   Beginning, Written, task, memory, history, bounds
<1>1. CASE Tick
  BY <1>1 DEF Tick
<1>2. ASSUME NEW r \in Records, NEW p \in Payloads, Happen(r, p)
      PROVE  WorldType'
  BY <1>2 DEF Happen
<1>3. ASSUME NEW r \in Records, WriteRecord(r)
      PROVE  WorldType'
  <2>1. log' \in Seq(Records) /\ Range(log') = Range(log) \cup {r}
    BY <1>3, LogGrows DEF Written
  <2>2. /\ r \in DOMAIN happened
        /\ clock' = clock /\ happened' = happened /\ file' = file
    BY <1>3 DEF WriteRecord
  <2> QED
    BY <2>1, <2>2
<1>4. CASE TwinUpdate
  BY <1>4 DEF TwinUpdate
<1>5. CASE Crash
  BY <1>5 DEF Crash
<1>6. CASE AuditSearch_Init
  BY <1>6 DEF AuditSearch_Init
<1>7. CASE IsAggregationEnabled
  BY <1>7 DEF IsAggregationEnabled
<1>8. ASSUME NEW i \in 1..Len(log), CreateSingleEvent(i)
      PROVE  WorldType'
  BY <1>8, RecordTaken, RecordTakenFacts, AtFound, LogPositions
<1>9. ASSUME NEW i \in 1..Len(log), CreateEventForAggregation(i)
      PROVE  WorldType'
  BY <1>9, RecordTaken, RecordTakenFacts, AtFound, LogPositions
<1>10. ASSUME NEW i \in 1..Len(log), RecordFails(i)
      PROVE  WorldType'
  BY <1>10 DEF RecordFails
<1>11. CASE NothingToAggregate
  BY <1>11 DEF NothingToAggregate
<1>12. CASE GetAggregatedEvents
  BY <1>12 DEF GetAggregatedEvents
<1>13. CASE OpenFile
  BY <1>13 DEF OpenFile
<1>14. CASE WriteFile
  <2>1. search.time \in Nat /\ search.time <= clock
    BY <1>14, SecondsType DEF WriteFile, Forward, TaskType
  <2> QED
    BY <1>14, <2>1 DEF WriteFile, Checkpoint
<1>15. CASE AuditSearch_InitFails
  BY <1>15 DEF AuditSearch_InitFails
<1>16. CASE SearchFails
  BY <1>16 DEF SearchFails
<1>17. CASE WriteFails
  BY <1>17 DEF WriteFails
<1>18. CASE UNCHANGED vars
  BY <1>18 DEF vars
<1> QED
  BY <1>1, <1>2, <1>3, <1>4, <1>5, <1>6, <1>7, <1>8, <1>9, <1>10, <1>11,
     <1>12, <1>13, <1>14, <1>15, <1>16, <1>17, <1>18 DEF Next, Cycle

(***************************************************************************)
(* So do the control point and the search.                                 *)
(***************************************************************************)
LEMMA TaskTypeStep == Inv /\ [Next]_vars => TaskType'
<1> SUFFICES ASSUME Inv, [Next]_vars PROVE TaskType'
  OBVIOUS
<1> USE AuditAssumption, TypeParts DEF Inv, TaskType, WorldType, Missing,
   Empty, Beginning, Written, task, memory, history, bounds
<1>1. CASE Tick
  BY <1>1 DEF Tick
<1>2. ASSUME NEW r \in Records, NEW p \in Payloads, Happen(r, p)
      PROVE  TaskType'
  BY <1>2 DEF Happen
<1>3. ASSUME NEW r \in Records, WriteRecord(r)
      PROVE  TaskType'
  BY <1>3, LogGrows DEF WriteRecord
<1>4. CASE TwinUpdate
  BY <1>4 DEF TwinUpdate
<1>5. CASE Crash
  BY <1>5, SearchEnds DEF Crash
<1>6. CASE AuditSearch_Init
  BY <1>6, SecondsType, LogPositions DEF AuditSearch_Init, CheckpointRead
<1>7. CASE IsAggregationEnabled
  BY <1>7 DEF IsAggregationEnabled
<1>8. ASSUME NEW i \in 1..Len(log), CreateSingleEvent(i)
      PROVE  TaskType'
  BY <1>8, RecordTaken, RecordTakenFacts, AtFound, LogPositions
<1>9. ASSUME NEW i \in 1..Len(log), CreateEventForAggregation(i)
      PROVE  TaskType'
  BY <1>9, RecordTaken, RecordTakenFacts, AtFound, LogPositions
<1>10. ASSUME NEW i \in 1..Len(log), RecordFails(i)
      PROVE  TaskType'
  BY <1>10, SearchEnds DEF RecordFails
<1>11. CASE NothingToAggregate
  BY <1>11, SearchEnds DEF NothingToAggregate
<1>12. CASE GetAggregatedEvents
  BY <1>12, SearchEnds DEF GetAggregatedEvents
<1>13. CASE OpenFile
  BY <1>13 DEF OpenFile
<1>14. CASE WriteFile
  BY <1>14 DEF WriteFile
<1>15. CASE AuditSearch_InitFails
  BY <1>15 DEF AuditSearch_InitFails
<1>16. CASE SearchFails
  BY <1>16, SearchEnds DEF SearchFails
<1>17. CASE WriteFails
  BY <1>17 DEF WriteFails
<1>18. CASE UNCHANGED vars
  BY <1>18 DEF vars
<1> QED
  BY <1>1, <1>2, <1>3, <1>4, <1>5, <1>6, <1>7, <1>8, <1>9, <1>10, <1>11,
     <1>12, <1>13, <1>14, <1>15, <1>16, <1>17, <1>18 DEF Next, Cycle

(***************************************************************************)
(* The Boolean flags.                                                      *)
(***************************************************************************)
LEMMA FlagsTypeStep == Inv /\ [Next]_vars => FlagsType'
<1> SUFFICES ASSUME Inv, [Next]_vars PROVE FlagsType'
  OBVIOUS
<1> USE AuditAssumption, TypeParts DEF Inv, FlagsType, task, memory, history,
   bounds
<1>1. CASE Tick
  BY <1>1 DEF Tick
<1>2. ASSUME NEW r \in Records, NEW p \in Payloads, Happen(r, p)
      PROVE  FlagsType'
  BY <1>2 DEF Happen
<1>3. ASSUME NEW r \in Records, WriteRecord(r)
      PROVE  FlagsType'
  BY <1>3 DEF WriteRecord
<1>4. CASE TwinUpdate
  BY <1>4 DEF TwinUpdate
<1>5. CASE Crash
  BY <1>5, SearchEnds DEF Crash
<1>6. CASE AuditSearch_Init
  BY <1>6 DEF AuditSearch_Init
<1>7. CASE IsAggregationEnabled
  BY <1>7 DEF IsAggregationEnabled
<1>8. ASSUME NEW i \in 1..Len(log), CreateSingleEvent(i)
      PROVE  FlagsType'
  BY <1>8, RecordTaken, RecordTakenFacts, AtFound, LogPositions
<1>9. ASSUME NEW i \in 1..Len(log), CreateEventForAggregation(i)
      PROVE  FlagsType'
  BY <1>9, RecordTaken, RecordTakenFacts, AtFound, LogPositions
<1>10. ASSUME NEW i \in 1..Len(log), RecordFails(i)
      PROVE  FlagsType'
  BY <1>10, SearchEnds DEF RecordFails
<1>11. CASE NothingToAggregate
  BY <1>11, SearchEnds DEF NothingToAggregate
<1>12. CASE GetAggregatedEvents
  BY <1>12, SearchEnds DEF GetAggregatedEvents
<1>13. CASE OpenFile
  BY <1>13 DEF OpenFile
<1>14. CASE WriteFile
  BY <1>14 DEF WriteFile
<1>15. CASE AuditSearch_InitFails
  BY <1>15 DEF AuditSearch_InitFails
<1>16. CASE SearchFails
  BY <1>16, SearchEnds DEF SearchFails
<1>17. CASE WriteFails
  BY <1>17 DEF WriteFails
<1>18. CASE UNCHANGED vars
  BY <1>18 DEF vars
<1> QED
  BY <1>1, <1>2, <1>3, <1>4, <1>5, <1>6, <1>7, <1>8, <1>9, <1>10, <1>11,
     <1>12, <1>13, <1>14, <1>15, <1>16, <1>17, <1>18 DEF Next, Cycle

(***************************************************************************)
(* EventAggregator_AggregateEvent keeps the payloads and adds the record   *)
(* to the item of its payload, which it makes when there is none.          *)
(***************************************************************************)
LEMMA AggregatedList ==
  ASSUME TypeOK, NEW r \in DOMAIN happened
  PROVE  LET new == Aggregated(r)
             p == happened[r].payload
         IN  /\ new \in Seq([payload : Payloads, records : SUBSET Records])
             /\ \A i \in DOMAIN list :
                   /\ i \in DOMAIN new /\ new[i].payload = list[i].payload
                   /\ list[i].records \subseteq new[i].records
             /\ \A i \in DOMAIN new : \A q \in new[i].records :
                   q = r \/ (i \in DOMAIN list /\ q \in list[i].records)
             /\ \E i \in DOMAIN new : r \in new[i].records /\ new[i].payload = p
             /\ \A i \in DOMAIN new \ DOMAIN list :
                   /\ new[i].payload = p
                   /\ \A j \in DOMAIN list : list[j].payload # p
                   /\ \A j \in DOMAIN new \ DOMAIN list : j = i
<1> DEFINE Item == [payload : Payloads, records : SUBSET Records]
           p == happened[r].payload
           found == SearchEvent(p)
           with == [i \in DOMAIN list |->
                       IF i \in found THEN [list[i] EXCEPT !.records = @ \cup {r}]
                       ELSE list[i]]
<1>1. /\ list \in Seq(Item) /\ Len(list) \in Nat /\ DOMAIN list = 1..Len(list)
      /\ \A i \in DOMAIN list : list[i] \in Item
      /\ p \in Payloads /\ r \in Records
  <2>1. list \in Seq(Item)
    BY DEF TypeOK
  <2>2. p \in Payloads /\ r \in Records
    BY DEF TypeOK
  <2> HIDE DEF Item
  <2> QED
    BY <2>1, <2>2
<1>2. found = {i \in DOMAIN list : list[i].payload = p}
  BY DEF SearchEvent
<1>3. CASE found = {}
  <2> DEFINE item == [payload |-> p, records |-> {r}]
             new == Append(list, item)
  <2>1. Aggregated(r) = new
    BY <1>3 DEF Aggregated
  <2>2. item \in Item /\ item.payload = p /\ item.records = {r}
    BY <1>1
  <2> HIDE DEF item, Item
  <2>3. /\ new \in Seq(Item) /\ DOMAIN new = 1..Len(list) + 1
        /\ new[Len(list) + 1] = item
        /\ \A i \in DOMAIN list : new[i] = list[i]
    BY <1>1, <2>2
  <2>4. DOMAIN new = DOMAIN list \cup {Len(list) + 1}
    BY <1>1, <2>3
  <2>5. \A j \in DOMAIN list : list[j].payload # p
    BY <1>2, <1>3
  <2> HIDE DEF new, p
  <2> QED
    BY <2>1, <2>2, <2>3, <2>4, <2>5 DEF Item, p
<1>4. CASE found # {}
  <2>1. Aggregated(r) = with
    BY <1>4 DEF Aggregated
  <2>2. ASSUME NEW i \in DOMAIN list
        PROVE  /\ with[i] \in Item /\ with[i].payload = list[i].payload
               /\ list[i].records \subseteq with[i].records
               /\ with[i].records \subseteq list[i].records \cup {r}
               /\ i \in found => r \in with[i].records
    BY <1>1
  <2>3. DOMAIN with = DOMAIN list
    OBVIOUS
  <2> HIDE DEF with, Item
  <2>4. with \in [1..Len(list) -> Item]
    BY <1>1, <2>2, <2>3 DEF with
  <2>5. with \in Seq(Item)
    BY <1>1, <2>4
  <2>6. PICK k \in DOMAIN list : k \in found /\ list[k].payload = p
    BY <1>2, <1>4
  <2>7. r \in with[k].records /\ with[k].payload = p
    BY <2>2, <2>6
  <2> HIDE DEF p, found
  <2> QED
    BY <2>1, <2>2, <2>3, <2>5, <2>6, <2>7 DEF Item, p
<1> QED
  BY <1>3, <1>4

(***************************************************************************)
(* The list of the aggregator.                                             *)
(***************************************************************************)
LEMMA ListTypeStep == Inv /\ [Next]_vars => ListType'
<1> SUFFICES ASSUME Inv, [Next]_vars PROVE ListType'
  OBVIOUS
<1> USE AuditAssumption, TypeParts DEF Inv, ListType, WorldType, task, memory,
   history, bounds
<1>1. CASE Tick
  BY <1>1 DEF Tick
<1>2. ASSUME NEW r \in Records, NEW p \in Payloads, Happen(r, p)
      PROVE  ListType'
  BY <1>2 DEF Happen
<1>3. ASSUME NEW r \in Records, WriteRecord(r)
      PROVE  ListType'
  BY <1>3 DEF WriteRecord
<1>4. CASE TwinUpdate
  BY <1>4 DEF TwinUpdate
<1>5. CASE Crash
  BY <1>5 DEF Crash
<1>6. CASE AuditSearch_Init
  BY <1>6 DEF AuditSearch_Init
<1>7. CASE IsAggregationEnabled
  BY <1>7 DEF IsAggregationEnabled
<1>8. ASSUME NEW i \in 1..Len(log), CreateSingleEvent(i)
      PROVE  ListType'
  BY <1>8 DEF CreateSingleEvent
<1>9. ASSUME NEW i \in 1..Len(log), CreateEventForAggregation(i)
      PROVE  ListType'
  <2>1. log[i] \in Records /\ log[i] \in DOMAIN happened
    BY LogPositions
  <2>2. list' \in Seq([payload : Payloads, records : SUBSET Records])
    <3>1. list' = list \/ list' = Aggregated(log[i])
      BY <1>9 DEF CreateEventForAggregation
    <3>2. list \in Seq([payload : Payloads, records : SUBSET Records])
      BY DEF TypeOK
    <3>3. CASE list' = Aggregated(log[i])
      BY <2>1, <3>3, AggregatedList
    <3> QED
      BY <3>1, <3>2, <3>3
  <2> QED
    BY <1>9, <2>2 DEF CreateEventForAggregation
<1>10. ASSUME NEW i \in 1..Len(log), RecordFails(i)
      PROVE  ListType'
  BY <1>10 DEF RecordFails
<1>11. CASE NothingToAggregate
  BY <1>11 DEF NothingToAggregate
<1>12. CASE GetAggregatedEvents
  BY <1>12 DEF GetAggregatedEvents
<1>13. CASE OpenFile
  BY <1>13 DEF OpenFile
<1>14. CASE WriteFile
  BY <1>14 DEF WriteFile
<1>15. CASE AuditSearch_InitFails
  BY <1>15 DEF AuditSearch_InitFails
<1>16. CASE SearchFails
  BY <1>16 DEF SearchFails
<1>17. CASE WriteFails
  BY <1>17 DEF WriteFails
<1>18. CASE UNCHANGED vars
  BY <1>18 DEF vars
<1> QED
  BY <1>1, <1>2, <1>3, <1>4, <1>5, <1>6, <1>7, <1>8, <1>9, <1>10, <1>11,
     <1>12, <1>13, <1>14, <1>15, <1>16, <1>17, <1>18 DEF Next, Cycle

(***************************************************************************)
(* The history variables.                                                  *)
(***************************************************************************)
LEMMA HistoryTypeStep == Inv /\ [Next]_vars => HistoryType'
<1> SUFFICES ASSUME Inv, [Next]_vars PROVE HistoryType'
  OBVIOUS
<1> USE AuditAssumption, TypeParts DEF Inv, HistoryType, Fates, task, memory,
   history, bounds
<1>1. CASE Tick
  BY <1>1 DEF Tick
<1>2. ASSUME NEW r \in Records, NEW p \in Payloads, Happen(r, p)
      PROVE  HistoryType'
  BY <1>2 DEF Happen
<1>3. ASSUME NEW r \in Records, WriteRecord(r)
      PROVE  HistoryType'
  BY <1>3 DEF WriteRecord
<1>4. CASE TwinUpdate
  BY <1>4 DEF TwinUpdate
<1>5. CASE Crash
  BY <1>5 DEF Crash
<1>6. CASE AuditSearch_Init
  BY <1>6 DEF AuditSearch_Init
<1>7. CASE IsAggregationEnabled
  BY <1>7 DEF IsAggregationEnabled
<1>8. ASSUME NEW i \in 1..Len(log), CreateSingleEvent(i)
      PROVE  HistoryType'
  BY <1>8, RecordTaken, RecordTakenFacts, AtFound, LogPositions
<1>9. ASSUME NEW i \in 1..Len(log), CreateEventForAggregation(i)
      PROVE  HistoryType'
  BY <1>9, RecordTaken, RecordTakenFacts, AtFound, LogPositions
<1>10. ASSUME NEW i \in 1..Len(log), RecordFails(i)
      PROVE  HistoryType'
  BY <1>10, LogPositions DEF RecordFails, Abort
<1>11. CASE NothingToAggregate
  BY <1>11 DEF NothingToAggregate
<1>12. CASE GetAggregatedEvents
  BY <1>12 DEF GetAggregatedEvents
<1>13. CASE OpenFile
  BY <1>13 DEF OpenFile
<1>14. CASE WriteFile
  BY <1>14 DEF WriteFile
<1>15. CASE AuditSearch_InitFails
  BY <1>15 DEF AuditSearch_InitFails
<1>16. CASE SearchFails
  BY <1>16, LogPositions DEF SearchFails, Abort
<1>17. CASE WriteFails
  BY <1>17 DEF WriteFails
<1>18. CASE UNCHANGED vars
  BY <1>18 DEF vars
<1> QED
  BY <1>1, <1>2, <1>3, <1>4, <1>5, <1>6, <1>7, <1>8, <1>9, <1>10, <1>11,
     <1>12, <1>13, <1>14, <1>15, <1>16, <1>17, <1>18 DEF Next, Cycle

(***************************************************************************)
(* The bounds of the failures and of the kills.                            *)
(***************************************************************************)
LEMMA BoundsTypeStep == Inv /\ [Next]_vars => BoundsType'
<1> SUFFICES ASSUME Inv, [Next]_vars PROVE BoundsType'
  OBVIOUS
<1> USE AuditAssumption, TypeParts DEF Inv, BoundsType, Fault, NoFault, task,
   memory, history, bounds
<1>1. CASE Tick
  BY <1>1 DEF Tick
<1>2. ASSUME NEW r \in Records, NEW p \in Payloads, Happen(r, p)
      PROVE  BoundsType'
  BY <1>2 DEF Happen
<1>3. ASSUME NEW r \in Records, WriteRecord(r)
      PROVE  BoundsType'
  BY <1>3 DEF WriteRecord
<1>4. CASE TwinUpdate
  BY <1>4 DEF TwinUpdate
<1>5. CASE Crash
  BY <1>5 DEF Crash
<1>6. CASE AuditSearch_Init
  BY <1>6 DEF AuditSearch_Init
<1>7. CASE IsAggregationEnabled
  BY <1>7 DEF IsAggregationEnabled
<1>8. ASSUME NEW i \in 1..Len(log), CreateSingleEvent(i)
      PROVE  BoundsType'
  BY <1>8 DEF CreateSingleEvent
<1>9. ASSUME NEW i \in 1..Len(log), CreateEventForAggregation(i)
      PROVE  BoundsType'
  BY <1>9 DEF CreateEventForAggregation
<1>10. ASSUME NEW i \in 1..Len(log), RecordFails(i)
      PROVE  BoundsType'
  BY <1>10 DEF RecordFails
<1>11. CASE NothingToAggregate
  BY <1>11 DEF NothingToAggregate
<1>12. CASE GetAggregatedEvents
  BY <1>12 DEF GetAggregatedEvents
<1>13. CASE OpenFile
  BY <1>13 DEF OpenFile
<1>14. CASE WriteFile
  BY <1>14 DEF WriteFile
<1>15. CASE AuditSearch_InitFails
  BY <1>15 DEF AuditSearch_InitFails
<1>16. CASE SearchFails
  BY <1>16 DEF SearchFails
<1>17. CASE WriteFails
  BY <1>17 DEF WriteFails
<1>18. CASE UNCHANGED vars
  BY <1>18 DEF vars
<1> QED
  BY <1>1, <1>2, <1>3, <1>4, <1>5, <1>6, <1>7, <1>8, <1>9, <1>10, <1>11,
     <1>12, <1>13, <1>14, <1>15, <1>16, <1>17, <1>18 DEF Next, Cycle

(***************************************************************************)
(* Types hold at first and are kept by every step.                         *)
(***************************************************************************)
LEMMA TypeStep == Inv /\ [Next]_vars => TypeOK'
<1>1. Inv /\ [Next]_vars => /\ WorldType' /\ TaskType' /\ FlagsType'
                            /\ ListType' /\ HistoryType' /\ BoundsType'
  BY WorldTypeStep, TaskTypeStep, FlagsTypeStep, ListTypeStep, HistoryTypeStep,
     BoundsTypeStep
<1> QED
  BY <1>1 DEF TypeOK, WorldType, TaskType, FlagsType, ListType, HistoryType, BoundsType

(***************************************************************************)
(* No record is written twice.                                             *)
(***************************************************************************)
LEMMA LoggedStep == Inv /\ [Next]_vars => Logged'
<1> SUFFICES ASSUME Inv, [Next]_vars PROVE Logged'
  OBVIOUS
<1> USE DEF Inv, Logged, Written, task, memory, history, bounds
<1>1. CASE Tick
  BY <1>1 DEF Tick
<1>2. ASSUME NEW r \in Records, NEW p \in Payloads, Happen(r, p)
      PROVE  Logged'
  BY <1>2 DEF Happen
<1>3. ASSUME NEW r \in Records, WriteRecord(r)
      PROVE  Logged'
  <2>1. Len(log) \in Nat /\ r \notin Written
    BY <1>3, LogPositions DEF WriteRecord
  <2>2. fate' = [fate EXCEPT ![r] = "logged"] /\ fate \in [Records -> Fates]
    BY <1>3 DEF WriteRecord, TypeOK
  <2>3. \A q \in Records : fate'[q] # "none" => q \in Written'
    BY <1>3, <2>2, LogGrows
  <2>4. \A i, j \in 1..Len(log) + 1 : log'[i] = log'[j] => i = j
    BY <1>3, <2>1, LogGrows, LogPositions
  <2> QED
    BY <1>3, <2>3, <2>4, LogGrows DEF WriteRecord
<1>4. CASE TwinUpdate
  BY <1>4 DEF TwinUpdate
<1>5. CASE Crash
  <2>1. log' = log /\ list' = << >>
    BY <1>5 DEF Crash
  <2>2. ASSUME NEW r \in Records, fate'[r] # "none" PROVE r \in Written
    BY <1>5, <2>2 DEF Crash
  <2> QED
    BY <2>1, <2>2
<1>6. CASE AuditSearch_Init
  BY <1>6 DEF AuditSearch_Init
<1>7. CASE IsAggregationEnabled
  BY <1>7 DEF IsAggregationEnabled
<1>8. ASSUME NEW i \in 1..Len(log), CreateSingleEvent(i)
      PROVE  Logged'
  BY <1>8, RecordTaken, RecordTakenFacts, AtFound, LogPositions DEF CreateSingleEvent
<1>9. ASSUME NEW i \in 1..Len(log), CreateEventForAggregation(i)
      PROVE  Logged'
  <2>1. log[i] \in DOMAIN happened /\ log[i] \in Written
    BY <1>9, RecordTaken, AtFound
  <2>2. (list' = list \/ list' = Aggregated(log[i])) /\ log' = log
    BY <1>9 DEF CreateEventForAggregation
  <2>3. \A k \in DOMAIN list' : list'[k].records \subseteq Written'
    BY <2>1, <2>2, AggregatedList
  <2> QED
    BY <1>9, <2>1, <2>2, <2>3, RecordTakenFacts
<1>10. ASSUME NEW i \in 1..Len(log), RecordFails(i)
      PROVE  Logged'
  BY <1>10 DEF RecordFails
<1>11. CASE NothingToAggregate
  BY <1>11 DEF NothingToAggregate
<1>12. CASE GetAggregatedEvents
  <2>1. ASSUME NEW r \in Records, fate'[r] # "none" PROVE r \in Written
    BY <1>12, <2>1 DEF GetAggregatedEvents, Items
  <2> QED
    BY <1>12, <2>1 DEF GetAggregatedEvents
<1>13. CASE OpenFile
  BY <1>13 DEF OpenFile
<1>14. CASE WriteFile
  BY <1>14 DEF WriteFile
<1>15. CASE AuditSearch_InitFails
  BY <1>15 DEF AuditSearch_InitFails
<1>16. CASE SearchFails
  BY <1>16 DEF SearchFails
<1>17. CASE WriteFails
  BY <1>17 DEF WriteFails
<1>18. CASE UNCHANGED vars
  BY <1>18 DEF vars
<1> QED
  BY <1>1, <1>2, <1>3, <1>4, <1>5, <1>6, <1>7, <1>8, <1>9, <1>10, <1>11,
     <1>12, <1>13, <1>14, <1>15, <1>16, <1>17, <1>18 DEF Next, Cycle

(***************************************************************************)
(* The two actions that take a record, for Forward and for Stepped.        *)
(***************************************************************************)
LEMMA ForwardTaken ==
  ASSUME Inv, NEW i \in 1..Len(log),
         CreateSingleEvent(i) \/ CreateEventForAggregation(i)
  PROVE  Forward'
<1>1. TypeOK /\ Forward
  BY DEF Inv
<1>2. clock' = clock /\ file' = file /\ pc' = pc
  BY <1>1, RecordTaken
<1>3. /\ search'.time = search.time /\ takenAt'[log[i]] = search.time
      /\ \A r \in Records \ {log[i]} : takenAt'[r] = takenAt[r]
  BY <1>1, RecordTakenFacts
<1>4. Seconds(clock)' = Seconds(clock)
  BY <1>2 DEF Seconds
<1>5. search.time \in Int
  BY <1>1 DEF TypeOK
<1> QED
  BY <1>1, <1>2, <1>3, <1>4, <1>5 DEF Forward, FileHoldsTime

(***************************************************************************)
(* A record that is taken moves the search one step on.                    *)
(***************************************************************************)
LEMMA SteppedTaken ==
  ASSUME Inv, NEW i \in 1..Len(log),
         CreateSingleEvent(i) \/ CreateEventForAggregation(i)
  PROVE  Stepped'
<1>0. TypeOK /\ Stepped
  BY DEF Inv
<1>1. /\ pc' = pc /\ file' = file /\ happened' = happened /\ log' = log
      /\ AtRecord(i)
  BY <1>0, RecordTaken
<1>2. /\ search'.from = search.from /\ search'.next = i + 1
      /\ fate'[log[i]] # "logged"
      /\ \A r \in Records \ {log[i]} : fate'[r] = fate[r]
  BY <1>0, RecordTakenFacts
<1>3. /\ pc = "next" /\ search.next \in Nat /\ Len(log) \in Nat
      /\ \A j \in 1..Len(log) : log[j] \in Records
      /\ \A j \in 1..Len(log) :
            search.next <= j /\ j < i => happened[log[j]].time <= search.from
  BY <1>0, <1>1, AtFound, LogPositions DEF TypeOK
<1>4. ASSUME NEW j \in 1..Len(log), j < i + 1, fate'[log[j]] = "logged"
      PROVE  happened[log[j]].time <= search.from
  <2>1. log[j] # log[i] /\ j < i
    BY <1>2, <1>4, <1>3
  <2>2. fate[log[j]] = "logged"
    BY <1>2, <1>3, <1>4, <2>1
  <2>3. CASE j < search.next
    BY <1>0, <1>3, <2>2, <2>3 DEF Stepped, Searching
  <2> QED
    BY <1>3, <2>1, <2>3
<1> QED
  BY <1>0, <1>1, <1>2, <1>3, <1>4 DEF Stepped, Searching, FileHoldsTime

(***************************************************************************)
(* The numbers that Forward compares.                                      *)
(***************************************************************************)
LEMMA ForwardTypes ==
  ASSUME TypeOK
  PROVE  /\ clock \in Nat /\ Seconds(clock) \in Nat /\ search.time \in Nat \cup {-1}
         /\ file \in Nat \cup {Missing, Empty}
         /\ \A r \in Records : takenAt[r] \in Nat \cup {-1}
<1>1. clock \in Nat
  BY AuditAssumption DEF TypeOK
<1> QED
  BY <1>1, SecondsType DEF TypeOK

(***************************************************************************)
(* A step that starts no search and does not write the file, and in which  *)
(* no time passes.                                                         *)
(***************************************************************************)
LEMMA ForwardKept ==
  ASSUME Forward, clock' = clock, takenAt' = takenAt, search'.time = search.time,
         file' = file \/ file' \in {Missing, Empty}, pc' # "idle" => pc # "idle"
  PROVE  Forward'
<1>1. Seconds(clock)' = Seconds(clock)
  BY DEF Seconds
<1> QED
  BY <1>1 DEF Forward, FileHoldsTime

(***************************************************************************)
(* The searches go forward in time.                                        *)
(***************************************************************************)
LEMMA ForwardStep == Inv /\ [Next]_vars => Forward'
<1> SUFFICES ASSUME Inv, [Next]_vars PROVE Forward'
  OBVIOUS
<1>0. TypeOK /\ Forward
  BY DEF Inv
<1> USE <1>0 DEF task, memory, history, bounds
<1>1. CASE Tick
  <2>1. clock' \in Nat /\ clock <= clock' /\ UNCHANGED <<search, file, takenAt, pc>>
    BY <1>1, ForwardTypes DEF Tick
  <2>2. Seconds(clock) <= Seconds(clock)' /\ Seconds(clock)' \in Nat
    BY <2>1, SecondsMonotone, SecondsType, ForwardTypes
  <2>3. search.time <= Seconds(clock)'
    BY <2>2, ForwardTypes DEF Forward
  <2> QED
    BY <2>1, <2>3 DEF Forward, FileHoldsTime
<1>2. ASSUME NEW r \in Records, NEW p \in Payloads, Happen(r, p)
      PROVE  Forward'
  BY <1>2, ForwardKept DEF Happen
<1>3. ASSUME NEW r \in Records, WriteRecord(r)
      PROVE  Forward'
  BY <1>3, ForwardKept DEF WriteRecord
<1>4. CASE TwinUpdate
  BY <1>4, ForwardKept DEF TwinUpdate
<1>5. CASE Crash
  BY <1>5, ForwardKept, SearchEnds DEF Crash
<1>6. CASE AuditSearch_Init
  <2>1. /\ search'.time = Seconds(clock) /\ clock' = clock /\ file' = file
        /\ takenAt' = takenAt
    BY <1>6 DEF AuditSearch_Init
  <2>2. Seconds(clock)' = Seconds(clock)
    BY <2>1 DEF Seconds
  <2>3. FileHoldsTime => file <= Seconds(clock)
    BY ForwardTypes DEF Forward, FileHoldsTime
  <2>4. \A r \in Records : takenAt[r] <= Seconds(clock)
    BY ForwardTypes DEF Forward
  <2>5. Seconds(clock) <= Seconds(clock) /\ Seconds(clock) # -1
    BY ForwardTypes
  <2> QED
    BY <2>1, <2>2, <2>3, <2>4, <2>5 DEF Forward, FileHoldsTime
<1>7. CASE IsAggregationEnabled
  BY <1>7, ForwardKept DEF IsAggregationEnabled
<1>8. ASSUME NEW i \in 1..Len(log), CreateSingleEvent(i)
      PROVE  Forward'
  BY <1>8, ForwardTaken
<1>9. ASSUME NEW i \in 1..Len(log), CreateEventForAggregation(i)
      PROVE  Forward'
  BY <1>9, ForwardTaken
<1>10. ASSUME NEW i \in 1..Len(log), RecordFails(i)
      PROVE  Forward'
  BY <1>10, ForwardKept, SearchEnds DEF RecordFails, AtRecord
<1>11. CASE NothingToAggregate
  BY <1>11, ForwardKept, SearchEnds DEF NothingToAggregate, AfterRecords
<1>12. CASE GetAggregatedEvents
  BY <1>12, ForwardKept, SearchEnds DEF GetAggregatedEvents, AfterRecords
<1>13. CASE OpenFile
  BY <1>13, ForwardKept DEF OpenFile
<1>14. CASE WriteFile
  <2>1. /\ file' = search.time /\ UNCHANGED <<clock, takenAt, search>>
        /\ pc' = "idle"
    BY <1>14 DEF WriteFile, Checkpoint
  <2>2. Seconds(clock)' = Seconds(clock) /\ search.time <= search.time
    BY <2>1, ForwardTypes DEF Seconds
  <2> QED
    BY <2>1, <2>2 DEF Forward, FileHoldsTime
<1>15. CASE AuditSearch_InitFails
  BY <1>15, ForwardKept DEF AuditSearch_InitFails
<1>16. CASE SearchFails
  BY <1>16, ForwardKept, SearchEnds DEF SearchFails
<1>17. CASE WriteFails
  BY <1>17, ForwardKept DEF WriteFails
<1>18. CASE UNCHANGED vars
  BY <1>18, ForwardKept DEF vars
<1> QED
  BY <1>1, <1>2, <1>3, <1>4, <1>5, <1>6, <1>7, <1>8, <1>9, <1>10, <1>11,
     <1>12, <1>13, <1>14, <1>15, <1>16, <1>17, <1>18 DEF Next, Cycle

(***************************************************************************)
(* A record that auditd adds is behind the position of the search.         *)
(***************************************************************************)
LEMMA SteppedWritten ==
  ASSUME TypeOK, Stepped, NEW r \in Records, WriteRecord(r)
  PROVE  Stepped'
<1>1. /\ UNCHANGED <<pc, file, happened, search>> /\ r \notin Written
      /\ fate' = [fate EXCEPT ![r] = "logged"]
  BY DEF WriteRecord, task
<1>2. search.next \in 1..Len(log) + 1 /\ Len(log) \in Nat
  BY LogPositions DEF TypeOK
<1>3. ASSUME NEW i \in 1..Len(log)', i < search.next, fate'[log'[i]] = "logged",
             pc \in Searching
      PROVE  happened[log'[i]].time <= search.from
  <2>1. i \in 1..Len(log)
    BY <1>2, <1>3, LogGrows
  <2>2. log'[i] = log[i] /\ log[i] \in Written
    BY <2>1, LogGrows, LogPositions
  <2>3. fate'[log[i]] = fate[log[i]]
    BY <1>1, <2>2
  <2> QED
    BY <1>3, <2>1, <2>2, <2>3 DEF Stepped
<1> QED
  BY <1>1, <1>3 DEF Stepped, FileHoldsTime

(***************************************************************************)
(* What a search stepped over was not to be taken.                         *)
(***************************************************************************)
LEMMA SteppedStep == Inv /\ [Next]_vars => Stepped'
<1> SUFFICES ASSUME Inv, [Next]_vars PROVE Stepped'
  OBVIOUS
<1> USE AuditAssumption DEF Inv, Stepped, Searching, FileHoldsTime, TypeOK,
   Missing, Empty, Beginning, task, memory, history, bounds
<1>1. CASE Tick
  BY <1>1 DEF Tick
<1>2. ASSUME NEW r \in Records, NEW p \in Payloads, Happen(r, p)
      PROVE  Stepped'
  BY <1>2, LogPositions DEF Happen
<1>3. ASSUME NEW r \in Records, WriteRecord(r)
      PROVE  Stepped'
  BY <1>3, SteppedWritten
<1>4. CASE TwinUpdate
  BY <1>4 DEF TwinUpdate
<1>5. CASE Crash
  BY <1>5, SearchEnds DEF Crash
<1>6. CASE AuditSearch_Init
  BY <1>6, SecondsType DEF AuditSearch_Init, CheckpointRead
<1>7. CASE IsAggregationEnabled
  BY <1>7 DEF IsAggregationEnabled
<1>8. ASSUME NEW i \in 1..Len(log), CreateSingleEvent(i)
      PROVE  Stepped'
  BY <1>8, SteppedTaken
<1>9. ASSUME NEW i \in 1..Len(log), CreateEventForAggregation(i)
      PROVE  Stepped'
  BY <1>9, SteppedTaken
<1>10. ASSUME NEW i \in 1..Len(log), RecordFails(i)
      PROVE  Stepped'
  BY <1>10, SearchEnds DEF RecordFails
<1>11. CASE NothingToAggregate
  BY <1>11, SearchEnds DEF NothingToAggregate
<1>12. CASE GetAggregatedEvents
  BY <1>12, SearchEnds DEF GetAggregatedEvents
<1>13. CASE OpenFile
  BY <1>13 DEF OpenFile
<1>14. CASE WriteFile
  BY <1>14 DEF WriteFile
<1>15. CASE AuditSearch_InitFails
  BY <1>15 DEF AuditSearch_InitFails
<1>16. CASE SearchFails
  BY <1>16, SearchEnds DEF SearchFails
<1>17. CASE WriteFails
  BY <1>17 DEF WriteFails
<1>18. CASE UNCHANGED vars
  BY <1>18 DEF vars
<1> QED
  BY <1>1, <1>2, <1>3, <1>4, <1>5, <1>6, <1>7, <1>8, <1>9, <1>10, <1>11,
     <1>12, <1>13, <1>14, <1>15, <1>16, <1>17, <1>18 DEF Next, Cycle

(***************************************************************************)
(* The end of the log: what a search did not take is not after the         *)
(* checkpoint it began at, and so was excused before.                      *)
(***************************************************************************)
LEMMA NoneLeft ==
  ASSUME Inv, AfterRecords, NEW r \in Written, fate[r] = "logged"
  PROVE  r \in late \cup aborted
<1> USE DEF Inv, Missing, Empty, Beginning
<1>1. PICK i \in 1..Len(log) : log[i] = r
  BY LogPositions
<1>2. /\ pc \in Searching /\ Unread = {}
      /\ search.from \in Int /\ search.next \in Nat /\ Len(log) \in Nat
  BY LogPositions DEF AfterRecords, Searching, TypeOK
<1>3. happened[r].time \in Nat \ {0}
  BY LogPositions DEF TypeOK
<1>4. happened[r].time <= search.from
  <2>1. CASE i < search.next
    BY <1>1, <1>2, <2>1 DEF Stepped
  <2>2. CASE search.next <= i
    <3>1. i \in search.next..Len(log)
      BY <1>1, <1>2, <2>2
    <3>2. ~(happened[r].time > search.from)
      BY <1>1, <1>2, <3>1 DEF Unread, Matches
    <3> QED
      BY <1>2, <1>3, <3>2
  <2> QED
    BY <1>1, <1>2, <2>1, <2>2
<1>5. FileHoldsTime /\ search.from = file
  BY <1>2, <1>3, <1>4 DEF Stepped
<1> QED
  BY <1>4, <1>5 DEF NothingSkipped, FileHoldsTime

(***************************************************************************)
(* Nothing is left that the new checkpoint passes.                         *)
(***************************************************************************)
LEMMA PassedStep == Inv /\ [Next]_vars => Passed'
<1> SUFFICES ASSUME Inv, [Next]_vars PROVE Passed'
  OBVIOUS
<1> USE AuditAssumption DEF Inv, Passed, Written, TypeOK, Missing, Empty,
   Beginning, task, memory, history, bounds
<1>1. CASE Tick
  BY <1>1 DEF Tick
<1>2. ASSUME NEW r \in Records, NEW p \in Payloads, Happen(r, p)
      PROVE  Passed'
  BY <1>2, LogPositions DEF Happen
<1>3. ASSUME NEW r \in Records, WriteRecord(r)
      PROVE  Passed'
  <2>1. /\ Range(log)' = Range(log) \cup {r}
        /\ happened' = happened /\ search' = search /\ pc' = pc /\ aborted' = aborted
        /\ fate' = [fate EXCEPT ![r] = "logged"]
        /\ late' = IF happened[r].time <= search.time THEN late \cup {r} ELSE late
    BY <1>3, LogGrows DEF WriteRecord
  <2> QED
    BY <2>1, LogPositions
<1>4. CASE TwinUpdate
  BY <1>4 DEF TwinUpdate
<1>5. CASE Crash
  BY <1>5, SearchEnds DEF Crash
<1>6. CASE AuditSearch_Init
  BY <1>6 DEF AuditSearch_Init
<1>7. CASE IsAggregationEnabled
  BY <1>7 DEF IsAggregationEnabled
<1>8. ASSUME NEW i \in 1..Len(log), CreateSingleEvent(i)
      PROVE  Passed'
  BY <1>8, RecordTaken, RecordTakenFacts, AtFound, LogPositions
<1>9. ASSUME NEW i \in 1..Len(log), CreateEventForAggregation(i)
      PROVE  Passed'
  BY <1>9, RecordTaken, RecordTakenFacts, AtFound, LogPositions
<1>10. ASSUME NEW i \in 1..Len(log), RecordFails(i)
      PROVE  Passed'
  BY <1>10, SearchEnds DEF RecordFails, Abort
<1>11. CASE NothingToAggregate
  BY <1>11, SearchEnds, NoneLeft DEF NothingToAggregate
<1>12. CASE GetAggregatedEvents
  <2>1. ASSUME NEW r \in Records, fate'[r] = "logged" PROVE fate[r] = "logged"
    BY <1>12, <2>1 DEF GetAggregatedEvents
  <2> QED
    BY <1>12, <2>1, NoneLeft, LogPositions DEF GetAggregatedEvents
<1>13. CASE OpenFile
  BY <1>13 DEF OpenFile
<1>14. CASE WriteFile
  BY <1>14 DEF WriteFile
<1>15. CASE AuditSearch_InitFails
  BY <1>15 DEF AuditSearch_InitFails
<1>16. CASE SearchFails
  BY <1>16, SearchEnds DEF SearchFails, Abort
<1>17. CASE WriteFails
  BY <1>17 DEF WriteFails
<1>18. CASE UNCHANGED vars
  BY <1>18 DEF vars
<1> QED
  BY <1>1, <1>2, <1>3, <1>4, <1>5, <1>6, <1>7, <1>8, <1>9, <1>10, <1>11,
     <1>12, <1>13, <1>14, <1>15, <1>16, <1>17, <1>18 DEF Next, Cycle

(***************************************************************************)
(* No step makes the checkpoint pass over a record.                        *)
(***************************************************************************)
LEMMA SkippedStep == Inv /\ [Next]_vars => NothingSkipped'
<1> SUFFICES ASSUME Inv, [Next]_vars PROVE NothingSkipped'
  OBVIOUS
<1> USE DEF Inv, NothingSkipped, Written, Missing, Empty, task, memory,
   history, bounds
<1>1. CASE Tick
  BY <1>1 DEF Tick
<1>2. ASSUME NEW r \in Records, NEW p \in Payloads, Happen(r, p)
      PROVE  NothingSkipped'
  <2>1. Written \subseteq DOMAIN happened
    BY DEF TypeOK
  <2> QED
    BY <1>2, <2>1 DEF Happen
<1>3. ASSUME NEW r \in Records, WriteRecord(r)
      PROVE  NothingSkipped'
  <2>1. /\ Range(log)' = Range(log) \cup {r}
        /\ happened' = happened /\ aborted' = aborted /\ file' = file
        /\ fate' = [fate EXCEPT ![r] = "logged"]
        /\ late' = IF happened[r].time <= search.time THEN late \cup {r} ELSE late
    BY <1>3, LogGrows DEF WriteRecord
  <2>2. \A q \in Written : q \in Records
    BY LogPositions
  <2>3. /\ fate \in [Records -> Fates] /\ search.time \in Int
        /\ file \in Int /\ happened[r].time \in Int
    BY <1>3 DEF TypeOK, WriteRecord
  <2>4. FileHoldsTime /\ happened[r].time <= file => happened[r].time <= search.time
    BY <2>3 DEF Forward
  <2> QED
    BY <2>1, <2>2, <2>3, <2>4 DEF FileHoldsTime
<1>4. CASE TwinUpdate
  BY <1>4 DEF TwinUpdate
<1>5. CASE Crash
  <2>1. ASSUME NEW r \in Records, fate'[r] = "logged" PROVE fate[r] = "logged"
    BY <1>5, <2>1 DEF Crash
  <2> QED
    BY <1>5, <2>1, LogPositions DEF Crash
<1>6. CASE AuditSearch_Init
  BY <1>6 DEF AuditSearch_Init
<1>7. CASE IsAggregationEnabled
  BY <1>7 DEF IsAggregationEnabled
<1>8. ASSUME NEW i \in 1..Len(log), CreateSingleEvent(i)
      PROVE  NothingSkipped'
  <2>1. log' = log /\ file' = file /\ happened' = happened
    BY <1>8, RecordTaken
  <2>2. /\ fate'[log[i]] # "logged"
        /\ late' = late \ {log[i]} /\ aborted' = aborted \ {log[i]}
        /\ \A r \in Records \ {log[i]} : fate'[r] = fate[r]
    BY <1>8, RecordTakenFacts
  <2> QED
    BY <2>1, <2>2, LogPositions DEF NothingSkipped, Written
<1>9. ASSUME NEW i \in 1..Len(log), CreateEventForAggregation(i)
      PROVE  NothingSkipped'
  <2>1. log' = log /\ file' = file /\ happened' = happened
    BY <1>9, RecordTaken
  <2>2. /\ fate'[log[i]] # "logged"
        /\ late' = late \ {log[i]} /\ aborted' = aborted \ {log[i]}
        /\ \A r \in Records \ {log[i]} : fate'[r] = fate[r]
    BY <1>9, RecordTakenFacts
  <2> QED
    BY <2>1, <2>2, LogPositions DEF NothingSkipped, Written
<1>10. ASSUME NEW i \in 1..Len(log), RecordFails(i)
      PROVE  NothingSkipped'
  BY <1>10 DEF RecordFails, Abort
<1>11. CASE NothingToAggregate
  BY <1>11 DEF NothingToAggregate
<1>12. CASE GetAggregatedEvents
  <2>1. ASSUME NEW r \in Records, fate'[r] = "logged" PROVE fate[r] = "logged"
    BY <1>12, <2>1 DEF GetAggregatedEvents
  <2> QED
    BY <1>12, <2>1, LogPositions DEF GetAggregatedEvents
<1>13. CASE OpenFile
  BY <1>13 DEF OpenFile
<1>14. CASE WriteFile
  <2>1. /\ log' = log /\ happened' = happened /\ fate' = fate
        /\ late' = late /\ aborted' = aborted /\ file' = search.time /\ pc = "write"
    BY <1>14 DEF WriteFile, Checkpoint
  <2> QED
    BY <2>1 DEF Passed
<1>15. CASE AuditSearch_InitFails
  BY <1>15 DEF AuditSearch_InitFails
<1>16. CASE SearchFails
  BY <1>16 DEF SearchFails, Abort
<1>17. CASE WriteFails
  BY <1>17 DEF WriteFails
<1>18. CASE UNCHANGED vars
  BY <1>18 DEF vars
<1> QED
  BY <1>1, <1>2, <1>3, <1>4, <1>5, <1>6, <1>7, <1>8, <1>9, <1>10, <1>11,
     <1>12, <1>13, <1>14, <1>15, <1>16, <1>17, <1>18 DEF Next, Cycle

(***************************************************************************)
(* Taking a record leaves the file and the checkpoint alone.               *)
(***************************************************************************)
LEMMA GoodFileTaken ==
  ASSUME Inv, NEW i \in 1..Len(log),
         CreateSingleEvent(i) \/ CreateEventForAggregation(i)
  PROVE  GoodFile'
<1>0. TypeOK /\ GoodFile
  BY DEF Inv
<1>1. /\ pc' = pc /\ file' = file /\ log' = log /\ good' = good
      /\ AtRecord(i)
  BY <1>0, RecordTaken
<1>2. /\ search'.from = search.from /\ search'.next = i + 1
      /\ \A r \in Records \ {log[i]} : takenAt'[r] = takenAt[r]
  BY <1>0, RecordTakenFacts
<1>3. pc = "next" /\ search.next \in Nat /\ search.next <= i /\ i \in Nat
  BY <1>0, <1>1, AtFound DEF TypeOK
<1>4. ASSUME good, NEW r \in Records
      PROVE  \/ takenAt'[r] <= search.from
             \/ \E j \in 1..Len(log) : j < i + 1 /\ log[j] = r
  <2>1. CASE r = log[i]
    BY <1>3, <2>1
  <2>2. CASE r # log[i] /\ takenAt[r] <= search.from
    BY <1>2, <2>2
  <2>3. CASE \E j \in 1..Len(log) : j < search.next /\ log[j] = r
    BY <1>3, <2>3
  <2> QED
    BY <1>0, <1>3, <1>4, <2>1, <2>2, <2>3 DEF GoodFile, Searching
<1> QED
  BY <1>0, <1>1, <1>2, <1>3, <1>4 DEF GoodFile, Searching, FileHoldsTime

(***************************************************************************)
(* A good file is the time of the last search.                             *)
(***************************************************************************)
LEMMA GoodFileStep == Inv /\ [Next]_vars => GoodFile'
<1> SUFFICES ASSUME Inv, [Next]_vars PROVE GoodFile'
  OBVIOUS
<1> USE DEF Inv, GoodFile, Searching, FileHoldsTime, TypeOK, Missing, Empty,
   Beginning, task, memory, history, bounds
<1>1. CASE Tick
  BY <1>1 DEF Tick
<1>2. ASSUME NEW r \in Records, NEW p \in Payloads, Happen(r, p)
      PROVE  GoodFile'
  BY <1>2 DEF Happen
<1>3. ASSUME NEW r \in Records, WriteRecord(r)
      PROVE  GoodFile'
  <2>1. Len(log) \in Nat /\ Len(log)' = Len(log) + 1
    BY <1>3, LogGrows, LogPositions
  <2>2. \A i \in 1..Len(log) : log'[i] = log[i] /\ i \in 1..Len(log)'
    BY <1>3, <2>1, LogGrows
  <2> QED
    BY <1>3, <2>2 DEF WriteRecord
<1>4. CASE TwinUpdate
  BY <1>4 DEF TwinUpdate
<1>5. CASE Crash
  BY <1>5, SearchEnds DEF Crash
<1>6. CASE AuditSearch_Init
  <2>1. /\ pc = "idle" /\ pc' = "enabled" /\ file' = file /\ takenAt' = takenAt
        /\ good' => good /\ search'.from = CheckpointRead
    <3>1. /\ pc = "idle" /\ pc' = "enabled" /\ file' = file /\ takenAt' = takenAt
      BY <1>6 DEF AuditSearch_Init
    <3>2. PICK unreadable \in BOOLEAN :
             /\ search' = [from |-> IF unreadable THEN Beginning ELSE CheckpointRead,
                            time |-> Seconds(clock), next |-> 1]
             /\ good' = (good /\ ~unreadable)
      BY <1>6, Zenon DEF AuditSearch_Init
    <3>3. search'.from = IF unreadable THEN Beginning ELSE CheckpointRead
      BY <3>2
    <3>4. good' => good /\ ~unreadable
      BY <3>2, Zenon
    <3> QED
      BY <3>1, <3>3, <3>4
  <2>2. good' => FileHoldsTime /\ file = search.time /\ search'.from = file
    BY <2>1 DEF CheckpointRead
  <2> QED
    BY <2>1, <2>2 DEF Forward
<1>7. CASE IsAggregationEnabled
  BY <1>7 DEF IsAggregationEnabled
<1>8. ASSUME NEW i \in 1..Len(log), CreateSingleEvent(i)
      PROVE  GoodFile'
  BY <1>8, GoodFileTaken
<1>9. ASSUME NEW i \in 1..Len(log), CreateEventForAggregation(i)
      PROVE  GoodFile'
  BY <1>9, GoodFileTaken
<1>10. ASSUME NEW i \in 1..Len(log), RecordFails(i)
      PROVE  GoodFile'
  BY <1>10, SearchEnds DEF RecordFails
<1>11. CASE NothingToAggregate
  BY <1>11, SearchEnds DEF NothingToAggregate
<1>12. CASE GetAggregatedEvents
  BY <1>12, SearchEnds DEF GetAggregatedEvents
<1>13. CASE OpenFile
  BY <1>13 DEF OpenFile
<1>14. CASE WriteFile
  BY <1>14 DEF WriteFile, Checkpoint, Forward
<1>15. CASE AuditSearch_InitFails
  BY <1>15 DEF AuditSearch_InitFails
<1>16. CASE SearchFails
  BY <1>16, SearchEnds DEF SearchFails
<1>17. CASE WriteFails
  BY <1>17 DEF WriteFails
<1>18. CASE UNCHANGED vars
  BY <1>18 DEF vars
<1> QED
  BY <1>1, <1>2, <1>3, <1>4, <1>5, <1>6, <1>7, <1>8, <1>9, <1>10, <1>11,
     <1>12, <1>13, <1>14, <1>15, <1>16, <1>17, <1>18 DEF Next, Cycle

(***************************************************************************)
(* A record taken again is one the last searches had found.                *)
(***************************************************************************)
LEMMA RepeatedTaken ==
  ASSUME Inv, NEW i \in 1..Len(log),
         CreateSingleEvent(i) \/ CreateEventForAggregation(i)
  PROVE  RepeatedKnown'
<1>0. TypeOK /\ Logged /\ GoodFile /\ RepeatedKnown
  BY DEF Inv
<1>1. happened' = happened /\ AtRecord(i)
  BY <1>0, RecordTaken
<1>2. repeated' = IF Again(log[i]) THEN {<<log[i], takenAt[log[i]]>>} ELSE repeated
  BY <1>0, RecordTakenFacts
<1>3. /\ pc = "next" /\ search.next <= i /\ happened[log[i]].time > search.from
      /\ log[i] \in DOMAIN happened /\ log[i] \in Records
  BY <1>0, <1>1, AtFound
<1>4. /\ search.from \in Int /\ takenAt[log[i]] \in Int /\ happened[log[i]].time \in Int
      /\ search.next \in Int /\ i \in Int
  BY <1>0, <1>3 DEF TypeOK, Beginning
<1>5. CASE Again(log[i])
  <2>1. good
    BY <1>5 DEF Again
  <2>2. ~ \E j \in 1..Len(log) : j < search.next /\ log[j] = log[i]
    BY <1>0, <1>3, <1>4 DEF Logged
  <2>3. takenAt[log[i]] <= search.from
    BY <1>0, <1>3, <2>1, <2>2 DEF GoodFile, Searching
  <2>4. happened[log[i]].time > takenAt[log[i]]
    BY <1>3, <1>4, <2>3
  <2> QED
    BY <1>1, <1>2, <1>3, <1>4, <1>5, <2>4 DEF RepeatedKnown
<1>6. CASE ~Again(log[i])
  BY <1>0, <1>1, <1>2, <1>6 DEF RepeatedKnown
<1> QED
  BY <1>5, <1>6

(***************************************************************************)
(* Nothing is taken twice for another reason.                              *)
(***************************************************************************)
LEMMA RepeatedStep == Inv /\ [Next]_vars => RepeatedKnown'
<1> SUFFICES ASSUME Inv, [Next]_vars PROVE RepeatedKnown'
  OBVIOUS
<1> USE DEF Inv, RepeatedKnown, task, memory, history, bounds
<1>1. CASE Tick
  BY <1>1 DEF Tick
<1>2. ASSUME NEW r \in Records, NEW p \in Payloads, Happen(r, p)
      PROVE  RepeatedKnown'
  BY <1>2 DEF Happen
<1>3. ASSUME NEW r \in Records, WriteRecord(r)
      PROVE  RepeatedKnown'
  BY <1>3 DEF WriteRecord
<1>4. CASE TwinUpdate
  BY <1>4 DEF TwinUpdate
<1>5. CASE Crash
  BY <1>5 DEF Crash
<1>6. CASE AuditSearch_Init
  BY <1>6 DEF AuditSearch_Init
<1>7. CASE IsAggregationEnabled
  BY <1>7 DEF IsAggregationEnabled
<1>8. ASSUME NEW i \in 1..Len(log), CreateSingleEvent(i)
      PROVE  RepeatedKnown'
  BY <1>8, RepeatedTaken
<1>9. ASSUME NEW i \in 1..Len(log), CreateEventForAggregation(i)
      PROVE  RepeatedKnown'
  BY <1>9, RepeatedTaken
<1>10. ASSUME NEW i \in 1..Len(log), RecordFails(i)
      PROVE  RepeatedKnown'
  BY <1>10 DEF RecordFails
<1>11. CASE NothingToAggregate
  BY <1>11 DEF NothingToAggregate
<1>12. CASE GetAggregatedEvents
  BY <1>12 DEF GetAggregatedEvents
<1>13. CASE OpenFile
  BY <1>13 DEF OpenFile
<1>14. CASE WriteFile
  BY <1>14 DEF WriteFile
<1>15. CASE AuditSearch_InitFails
  BY <1>15 DEF AuditSearch_InitFails
<1>16. CASE SearchFails
  BY <1>16 DEF SearchFails
<1>17. CASE WriteFails
  BY <1>17 DEF WriteFails
<1>18. CASE UNCHANGED vars
  BY <1>18 DEF vars
<1> QED
  BY <1>1, <1>2, <1>3, <1>4, <1>5, <1>6, <1>7, <1>8, <1>9, <1>10, <1>11,
     <1>12, <1>13, <1>14, <1>15, <1>16, <1>17, <1>18 DEF Next, Cycle

(***************************************************************************)
(* The list of the aggregator stays exact.                                 *)
(***************************************************************************)
LEMMA AggregationStep == Inv /\ [Next]_vars => AggregationExact'
<1> SUFFICES ASSUME Inv, [Next]_vars PROVE AggregationExact'
  OBVIOUS
<1> USE DEF Inv, AggregationExact, task, memory, history, bounds
<1>1. CASE Tick
  BY <1>1 DEF Tick
<1>2. ASSUME NEW r \in Records, NEW p \in Payloads, Happen(r, p)
      PROVE  AggregationExact'
  <2>1. \A q \in Records : fate[q] = "aggregated" => q \in DOMAIN happened
    BY DEF Logged, TypeOK
  <2> QED
    BY <1>2, <2>1 DEF Happen
<1>3. ASSUME NEW r \in Records, WriteRecord(r)
      PROVE  AggregationExact'
  <2>1. \A q \in Records : fate'[q] = "aggregated" => fate[q] = "aggregated"
    BY <1>3 DEF WriteRecord, TypeOK
  <2> QED
    BY <1>3, <2>1 DEF WriteRecord
<1>4. CASE TwinUpdate
  BY <1>4 DEF TwinUpdate
<1>5. CASE Crash
  BY <1>5 DEF Crash
<1>6. CASE AuditSearch_Init
  BY <1>6 DEF AuditSearch_Init
<1>7. CASE IsAggregationEnabled
  BY <1>7 DEF IsAggregationEnabled
<1>8. ASSUME NEW i \in 1..Len(log), CreateSingleEvent(i)
      PROVE  AggregationExact'
  <2>1. list' = list /\ happened' = happened
    BY <1>8 DEF CreateSingleEvent
  <2>2. \A q \in Records \ {log[i]} : fate'[q] = fate[q]
    BY <1>8, RecordTakenFacts
  <2>3. fate'[log[i]] # "aggregated"
    BY <1>8, LogPositions DEF CreateSingleEvent, Take, TypeOK
  <2> QED
    BY <2>1, <2>2, <2>3
<1>9. ASSUME NEW i \in 1..Len(log), CreateEventForAggregation(i)
      PROVE  AggregationExact'
  <2> DEFINE r == log[i]
  <2>1. happened' = happened /\ r \in DOMAIN happened
    BY <1>9, LogPositions DEF CreateEventForAggregation, TypeOK
  <2>2. \A q \in Records \ {r} : fate'[q] = fate[q]
    BY <1>9, RecordTakenFacts
  <2>3. \/ list' = Aggregated(r)
        \/ list' = list /\ fate'[r] = "dropped"
    BY <1>9, LogPositions DEF CreateEventForAggregation, Take, TypeOK
  <2> HIDE DEF r
  <2>4. CASE list' = Aggregated(r)
    <3>1. \A k, j \in DOMAIN list' : k # j => list'[k].payload # list'[j].payload
      BY <2>1, <2>4, AggregatedList
    <3>2. ASSUME NEW q \in Records, fate'[q] = "aggregated"
          PROVE  \E k \in DOMAIN list' : /\ q \in list'[k].records
                                         /\ list'[k].payload = happened[q].payload
      <4>1. CASE q = r
        BY <2>1, <2>4, <4>1, AggregatedList
      <4>2. CASE q # r
        <5>1. PICK k \in DOMAIN list : /\ q \in list[k].records
                                       /\ list[k].payload = happened[q].payload
          BY <2>2, <3>2, <4>2
        <5> QED
          BY <2>1, <2>4, <5>1, AggregatedList
      <4> QED
        BY <4>1, <4>2
    <3> QED
      BY <2>1, <3>1, <3>2
  <2>5. CASE list' = list /\ fate'[r] = "dropped"
    BY <2>1, <2>2, <2>5
  <2> QED
    BY <2>3, <2>4, <2>5
<1>10. ASSUME NEW i \in 1..Len(log), RecordFails(i)
      PROVE  AggregationExact'
  BY <1>10 DEF RecordFails
<1>11. CASE NothingToAggregate
  BY <1>11 DEF NothingToAggregate
<1>12. CASE GetAggregatedEvents
  BY <1>12 DEF GetAggregatedEvents, Items
<1>13. CASE OpenFile
  BY <1>13 DEF OpenFile
<1>14. CASE WriteFile
  BY <1>14 DEF WriteFile
<1>15. CASE AuditSearch_InitFails
  BY <1>15 DEF AuditSearch_InitFails
<1>16. CASE SearchFails
  BY <1>16 DEF SearchFails
<1>17. CASE WriteFails
  BY <1>17 DEF WriteFails
<1>18. CASE UNCHANGED vars
  BY <1>18 DEF vars
<1> QED
  BY <1>1, <1>2, <1>3, <1>4, <1>5, <1>6, <1>7, <1>8, <1>9, <1>10, <1>11,
     <1>12, <1>13, <1>14, <1>15, <1>16, <1>17, <1>18 DEF Next, Cycle

-----------------------------------------------------------------------------
(***************************************************************************)
(* The invariant holds at the start.                                       *)
(***************************************************************************)
LEMMA InvInit == Init => Inv
<1> SUFFICES ASSUME Init PROVE Inv
  OBVIOUS
<1> USE AuditAssumption DEF Init, NoSearch, Missing, Empty, Beginning
<1>1. Written = {}
  BY DEF Written, Range
<1>2. TypeOK
  <2>1. DOMAIN happened = {} /\ Len(log) = 0
    OBVIOUS
  <2>2. WorldType
    BY <1>1, <2>1 DEF WorldType
  <2>3. TaskType
    BY <2>1 DEF TaskType
  <2>4. FlagsType
    BY DEF FlagsType
  <2>5. ListType
    BY DEF ListType
  <2>6. HistoryType /\ BoundsType
    BY DEF HistoryType, BoundsType, Fates
  <2> QED
    BY <2>2, <2>3, <2>4, <2>5, <2>6, TypeParts
<1>3. Logged /\ Stepped /\ Passed /\ GoodFile
  BY <1>1 DEF Logged, Stepped, Passed, GoodFile, Searching
<1>4. Forward
  BY SecondsType DEF Forward, FileHoldsTime
<1>5. NothingSkipped /\ RepeatedKnown /\ AggregationExact
  BY <1>1 DEF NothingSkipped, RepeatedKnown, AggregationExact
<1> QED
  BY <1>2, <1>3, <1>4, <1>5 DEF Inv

(***************************************************************************)
(* Every step of the collector, the log, the twin and a kill preserves it. *)
(***************************************************************************)
LEMMA InvStep == Inv /\ [Next]_vars => Inv'
BY TypeStep, LoggedStep, ForwardStep, SteppedStep, PassedStep, SkippedStep,
   GoodFileStep, RepeatedStep, AggregationStep DEF Inv

(***************************************************************************)
(* It holds in every reachable state.                                      *)
(***************************************************************************)
LEMMA InvAlways == Spec => []Inv
BY InvInit, InvStep, PTL DEF Spec

(***************************************************************************)
(* Types: the file holds no time after the clock, whatever was killed.     *)
(***************************************************************************)
THEOREM TypeCorrect == Spec => []TypeOK
BY InvAlways, PTL DEF Inv

(***************************************************************************)
(* AuditSearch_SetCheckpoint never passes over a record that was neither   *)
(* taken nor excused, in any run of searches, failures and kills.          *)
(***************************************************************************)
THEOREM CheckpointCorrect == Spec => []NothingSkipped
BY InvAlways, PTL DEF Inv

(***************************************************************************)
(* With a written and readable checkpoint, AuditSearch_GetNext gives a     *)
(* record again only when it is later than the search that took it.        *)
(***************************************************************************)
THEOREM RepeatCorrect == Spec => []RepeatedOnlyAfterSearch
<1>1. Inv => RepeatedOnlyAfterSearch
  BY DEF Inv, RepeatedKnown, RepeatedOnlyAfterSearch
<1> QED
  BY InvAlways, <1>1, PTL

(***************************************************************************)
(* EventAggregator_AggregateEvent keeps one item per payload, and no       *)
(* record that counts as aggregated is missing from it.                    *)
(***************************************************************************)
THEOREM AggregationCorrect == Spec => []AggregationExact
BY InvAlways, PTL DEF Inv

=============================================================================
