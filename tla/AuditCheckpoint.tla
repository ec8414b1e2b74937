--------------------------- MODULE AuditCheckpoint ---------------------------
(***************************************************************************)
(* What an audit collector (process creation, connection creation, user    *)
(* login) makes of the records of the audit log, over many cycles, with    *)
(* the process killed and started again between any two steps.             *)
(*                                                                         *)
(* A cycle searches the log for the records after the checkpoint in its    *)
(* file, puts each into the queue or into the aggregator's list, flushes   *)
(* the list when it is due, and writes the time of its search into the     *)
(* file, whatever happened.  Records have the log's resolution (ticks); a  *)
(* checkpoint has that of time_t (seconds).                                *)
(***************************************************************************)
EXTENDS Integers, Sequences, Functions

CONSTANTS
    Records,          \* audit records, each written once
    Payloads,         \* what a record says; equal payloads are aggregated
    TicksPerSecond,
    MaxTime,          \* bound of the clock, in ticks
    MaxFaults,        \* bound of the failing calls
    MaxCrashes,       \* bound of the kills
    Aggregates,       \* the collector has an aggregator (not: user login)
    Interval          \* aggregation interval, in ticks

ASSUME AuditAssumption ==
    /\ TicksPerSecond \in Nat \ {0}
    /\ MaxTime \in Nat \ {0} /\ MaxFaults \in Nat /\ MaxCrashes \in Nat
    /\ Aggregates \in BOOLEAN
    /\ Interval \in Nat

VARIABLES
    clock,
    happened,    \* record -> [time, payload] of what happened
    log,         \* the audit log: records in the order they were written
    file,        \* checkpoint file: Missing, Empty or a whole second
    enabled,     \* aggregation is enabled in the twin configuration
    pc,
    search,      \* [from, time, next]: checkpoint, searchTime, log position
    aggregating, \* aggregaionEnabled of this cycle
    list,        \* aggregatedEvents: items [payload, records]
    flushed,     \* lastAggregationTime
    fate,        \* history: what became of a record
    takenAt,     \* history: searchTime of the search that took the record
    late,        \* history: written after a search that passed its time
    aborted,     \* history: still in the log when a cycle was aborted
    repeated,    \* history: the last record taken twice, the file being good
    good,        \* history: file has the searchTime of the last search
    faults,
    crashes

task == <<pc, search, aggregating>>
memory == <<list, flushed>>
history == <<fate, takenAt, late, aborted, repeated, good>>
bounds == <<faults, crashes>>
vars == <<clock, happened, log, file, enabled, task, memory, history, bounds>>

(* time_t: a time in ticks cut to the second.                              *)
Seconds(t) == (t \div TicksPerSecond) * TicksPerSecond
Written == Range(log)
Missing == -3
Empty == -2
Beginning == -1
NoSearch == [from |-> Beginning, time |-> -1, next |-> 1]

Init ==
    /\ clock = 1
    /\ happened = [r \in {} |-> 0]
    /\ log = << >>
    /\ file = Missing
    /\ enabled \in BOOLEAN
    /\ pc = "idle"
    /\ search = NoSearch
    /\ aggregating = FALSE
    /\ list = << >>
    /\ flushed = 1
    /\ fate = [r \in Records |-> "none"]
    /\ takenAt = [r \in Records |-> -1]
    /\ late = {}
    /\ aborted = {}
    /\ repeated = {}
    /\ good = FALSE
    /\ faults = 0
    /\ crashes = 0

(* The records of the cycle are done with; its searchTime is not.          *)
SearchOver ==
    /\ search' = [NoSearch EXCEPT !.time = search.time]
    /\ aggregating' = FALSE

---------------------------------------------------------------------------
(* The system being watched.                                               *)

Tick ==
    /\ clock < MaxTime
    /\ clock' = clock + 1
    /\ UNCHANGED <<happened, log, file, enabled, task, memory, history,
                   bounds>>

(* The kernel stamps a record; auditd writes records in that order, later. *)
Happen(r, p) ==
    /\ r \notin DOMAIN happened
    /\ happened' = [q \in DOMAIN happened \cup {r} |->
                       IF q = r THEN [time |-> clock, payload |-> p]
                                ELSE happened[q]]
    /\ UNCHANGED <<clock, log, file, enabled, task, memory, history, bounds>>

WriteRecord(r) ==
    /\ r \in DOMAIN happened \ Written
    /\ \A q \in DOMAIN happened \ Written :
          happened[r].time <= happened[q].time
    /\ log' = Append(log, r)
    /\ fate' = [fate EXCEPT ![r] = "logged"]
    /\ late' = IF happened[r].time <= search.time THEN late \cup {r}
                                                  ELSE late
    /\ UNCHANGED <<clock, happened, file, enabled, task, memory, takenAt,
                   aborted, repeated, good, bounds>>

(* A twin update changes the collector's setting.                          *)
TwinUpdate ==
    /\ Aggregates
    /\ enabled' = ~enabled
    /\ UNCHANGED <<clock, happened, log, file, task, memory, history, bounds>>

(* The process is killed: what it has in memory is gone, and the time      *)
(* since the last aggregation starts again.                                *)
Crash ==
    /\ crashes < MaxCrashes
    /\ crashes' = crashes + 1
    /\ pc' = "idle"
    /\ SearchOver
    /\ list' = << >>
    /\ flushed' = clock
    /\ fate' = [r \in Records |->
                   IF \E i \in DOMAIN list : r \in list[i].records
                   THEN "killed" ELSE fate[r]]
    /\ good' = (good /\ pc = "idle")
    /\ UNCHANGED <<clock, happened, log, file, enabled, takenAt, late,
                   aborted, repeated, faults>>

---------------------------------------------------------------------------
(* The search.                                                             *)

Fault == faults < MaxFaults /\ faults' = faults + 1
NoFault == faults' = faults

(* AuditSearch_AddCheckpointToSearch: a file that is not there, not        *)
(* readable or too short means a search from the beginning.                *)
CheckpointRead == IF file \in {Missing, Empty} THEN Beginning
                  ELSE file

(* AuditSearch_InitMultipleSearchCriteria.                                 *)
AuditSearch_Init ==
    /\ pc = "idle"
    /\ pc' = "enabled"
    /\ \E unreadable \in BOOLEAN :
          /\ IF unreadable THEN Fault ELSE NoFault
          /\ search' = [from |-> IF unreadable THEN Beginning
                                 ELSE CheckpointRead,
                        time |-> Seconds(clock), next |-> 1]
          /\ good' = (good /\ ~unreadable)
    /\ aggregating' = FALSE
    /\ UNCHANGED <<clock, happened, log, file, enabled, memory, fate, takenAt,
                   late, aborted, repeated, crashes>>

(* A search that cannot be started leaves the checkpoint alone.            *)
AuditSearch_InitFails ==
    /\ pc = "idle"
    /\ Fault
    /\ UNCHANGED <<clock, happened, log, file, enabled, task, memory,
                   history, crashes>>

(* EventAggregator_IsAggregationEnabled, once, before the records; it is   *)
(* taken for disabled when it cannot be read.                              *)
IsAggregationEnabled ==
    /\ pc = "enabled"
    /\ pc' = "next"
    /\ \/ aggregating' = (Aggregates /\ enabled) /\ NoFault
       \/ Aggregates /\ enabled /\ aggregating' = FALSE /\ Fault
    /\ UNCHANGED <<clock, happened, log, file, enabled, search, memory,
                   history, crashes>>

(* Mutant: the checkpoint is compared with >= instead of >.                *)
MatchesFrom(r) == happened[r].time >= search.from

(* The search's condition: "time > checkpoint", in ticks.                  *)
Matches(r) == happened[r].time > search.from

(* Mutant: the first search steps over an event as the others do.          *)
UnreadNotFirst == {i \in search.next + 1..Len(log) : Matches(log[i])}

(* AuditSearch_GetNext: the next record that matches.                      *)
Unread == {i \in search.next..Len(log) : Matches(log[i])}
Found(i) == i \in Unread /\ \A j \in Unread : i <= j
Abort == aborted' = aborted \cup {r \in Written : fate[r] = "logged"}

(* Taking a record that an earlier cycle, whose checkpoint the search      *)
(* used, had taken.                                                        *)
Again(r) == good /\ takenAt[r] # -1
Take(i, what) ==
    /\ fate' = [fate EXCEPT ![log[i]] = what]
    /\ takenAt' = [takenAt EXCEPT ![log[i]] = search.time]
    /\ repeated' = IF Again(log[i]) THEN {<<log[i], takenAt[log[i]]>>}
                   ELSE repeated
    /\ late' = late \ {log[i]}
    /\ aborted' = aborted \ {log[i]}
    /\ search' = [search EXCEPT !.next = i + 1]

---------------------------------------------------------------------------
(* One record.                                                             *)

AtRecord(i) == pc = "next" /\ Found(i)

(* CreateSingleEvent: the queue takes the event; or it is full, or the     *)
(* record has errors, and the next record follows.                         *)
CreateSingleEvent(i) ==
    /\ AtRecord(i)
    /\ ~aggregating
    /\ \/ NoFault /\ Take(i, "queued")
       \/ Fault /\ Take(i, "dropped")
    /\ UNCHANGED <<clock, happened, log, file, enabled, pc, aggregating,
                   memory, good, crashes>>

(* Mutant: an event in the list is put into it once more.                  *)
SearchEventNot(p) == {}

(* EventAggregator_SearchEvent: the item with an equal payload.            *)
SearchEvent(p) == {i \in DOMAIN list : list[i].payload = p}

Aggregated(r) ==
    LET p == happened[r].payload
    IN  IF SearchEvent(p) = {}
        THEN Append(list, [payload |-> p, records |-> {r}])
        ELSE [i \in DOMAIN list |->
                 IF i \in SearchEvent(p)
                 THEN [list[i] EXCEPT !.records = @ \cup {r}]
                 ELSE list[i]]

(* EventAggregator_AggregateEvent, which reads the setting again; a record *)
(* that has errors or is filtered never gets there, and the next follows.  *)
CreateEventForAggregation(i) ==
    /\ AtRecord(i)
    /\ aggregating
    /\ \/ enabled /\ NoFault /\ Take(i, "aggregated") /\ list' = Aggregated(log[i])
       \/ Fault /\ Take(i, "dropped") /\ UNCHANGED list
    /\ UNCHANGED <<clock, happened, log, file, enabled, pc, aggregating,
                   flushed, good, crashes>>

(* A call failed, or the aggregation was turned off since the cycle began. *)
RecordFails(i) ==
    /\ AtRecord(i)
    /\ IF aggregating /\ ~enabled THEN NoFault ELSE Fault
    /\ Abort
    /\ pc' = "checkpoint"
    /\ SearchOver
    /\ UNCHANGED <<clock, happened, log, file, enabled, memory, fate, takenAt,
                   late, repeated, good, crashes>>

---------------------------------------------------------------------------
(* After the last record.                                                  *)

AfterRecords == pc = "next" /\ Unread = {}

(* Mutant: the list waits for its interval when the aggregation is off.    *)
FlushDueInterval == clock - flushed > Interval

FlushDue == ~enabled \/ clock - flushed > Interval

NothingToAggregate ==
    /\ AfterRecords
    /\ ~Aggregates \/ ~FlushDue
    /\ pc' = "checkpoint"
    /\ SearchOver
    /\ NoFault
    /\ UNCHANGED <<clock, happened, log, file, enabled, memory, history,
                   crashes>>

Items(is) == UNION {list[i].records : i \in is}

(* EventAggregator_GetAggregatedEvents and CreateAggregatedEvents: the     *)
(* list is cleared of the items that failed as well.                       *)
GetAggregatedEvents ==
    /\ AfterRecords
    /\ Aggregates
    /\ FlushDue
    /\ \E failed \in SUBSET DOMAIN list :
          /\ IF failed = {} THEN NoFault ELSE Fault
          /\ fate' = [r \in Records |->
                         IF r \in Items(failed) THEN "dropped"
                         ELSE IF r \in Items(DOMAIN list) THEN "queued"
                         ELSE fate[r]]
    /\ list' = << >>
    /\ flushed' = clock
    /\ pc' = "checkpoint"
    /\ SearchOver
    /\ UNCHANGED <<clock, happened, log, file, enabled, takenAt, late,
                   aborted, repeated, good, crashes>>

(* GetNext or the aggregator's settings failed.                            *)
SearchFails ==
    /\ pc = "next"
    /\ Fault
    /\ Abort
    /\ pc' = "checkpoint"
    /\ SearchOver
    /\ UNCHANGED <<clock, happened, log, file, enabled, memory, fate, takenAt,
                   late, repeated, good, crashes>>

---------------------------------------------------------------------------
(* AuditSearch_SetCheckpoint: FileUtils_WriteToFile truncates the file,    *)
(* then writes it.                                                         *)

OpenFile ==
    /\ pc = "checkpoint"
    /\ file' = Empty
    /\ pc' = "write"
    /\ NoFault
    /\ UNCHANGED <<clock, happened, log, enabled, search, aggregating, memory,
                   history, crashes>>

(* Mutant: the time of the write, not of the search.                       *)
CheckpointNow == Seconds(clock)

Checkpoint == search.time

WriteFile ==
    /\ pc = "write"
    /\ file' = Checkpoint
    /\ good' = TRUE
    /\ pc' = "idle"
    /\ NoFault
    /\ UNCHANGED <<clock, happened, log, enabled, search, aggregating, memory,
                   fate, takenAt, late, aborted, repeated, crashes>>

WriteFails ==
    /\ pc \in {"checkpoint", "write"}
    /\ Fault
    /\ good' = FALSE
    /\ pc' = "idle"
    /\ UNCHANGED <<clock, happened, log, file, enabled, search, aggregating,
                   memory, fate, takenAt, late, aborted, repeated, crashes>>

---------------------------------------------------------------------------
Cycle ==
    \/ AuditSearch_Init
    \/ IsAggregationEnabled
    \/ \E i \in 1..Len(log) :
          CreateSingleEvent(i) \/ CreateEventForAggregation(i) \/ RecordFails(i)
    \/ NothingToAggregate
    \/ GetAggregatedEvents
    \/ OpenFile
    \/ WriteFile

Next ==
    \/ Tick
    \/ \E r \in Records, p \in Payloads : Happen(r, p)
    \/ \E r \in Records : WriteRecord(r)
    \/ TwinUpdate
    \/ Crash
    \/ Cycle
    \/ AuditSearch_InitFails
    \/ SearchFails
    \/ WriteFails

Spec == Init /\ [][Next]_vars

(* The monitor task runs a cycle every second (scheduler_thread.c).        *)
FairSpec == Spec /\ WF_vars(Cycle)

---------------------------------------------------------------------------
(* Properties.                                                             *)

Fates == {"none", "logged", "queued", "aggregated", "dropped", "killed"}

(***************************************************************************)
(* Types.  The checkpoint file never holds a time later than the clock.    *)
(***************************************************************************)
TypeOK ==
    /\ clock \in 1..MaxTime
    /\ DOMAIN happened \subseteq Records
    /\ happened \in [DOMAIN happened -> [time : Nat \ {0}, payload : Payloads]]
    /\ log \in Seq(Records)
    /\ Written \subseteq DOMAIN happened
    /\ file \in {Missing, Empty} \cup 0..clock
    /\ enabled \in BOOLEAN /\ aggregating \in BOOLEAN /\ good \in BOOLEAN
    /\ pc \in {"idle", "enabled", "next", "checkpoint", "write"}
    /\ search \in [from : Nat \cup {Beginning}, time : Nat \cup {-1},
                   next : 1..Len(log) + 1]
    /\ list \in Seq([payload : Payloads, records : SUBSET Records])
    /\ flushed \in 1..clock
    /\ fate \in [Records -> Fates]
    /\ takenAt \in [Records -> Nat \cup {-1}]
    /\ late \subseteq Records /\ aborted \subseteq Records
    /\ faults \in 0..MaxFaults /\ crashes \in 0..MaxCrashes

(***************************************************************************)
(* Writing a checkpoint never passes over a record: every record in the    *)
(* log that is not after the checkpoint was queued, aggregated or counted  *)
(* as dropped - unless auditd wrote it after a search that had passed its  *)
(* time, or a cycle was aborted before it and set its checkpoint all the   *)
(* same.  Over any number of cycles, kills and failing file operations.    *)
(***************************************************************************)
NothingSkipped ==
    \A r \in Written :
        fate[r] = "logged" /\ file \notin {Missing, Empty}
        /\ happened[r].time <= file
        => r \in late \cup aborted

(***************************************************************************)
(* A record is taken a second time, although the checkpoint of the search  *)
(* that took it first was written and read, only when it is later than     *)
(* that search's time cut to the second: the searches overlap by less than *)
(* a second and the length of the first one.                               *)
(***************************************************************************)
RepeatedOnlyAfterSearch ==
    \A x \in repeated : happened[x[1]].time > x[2]

(***************************************************************************)
(* The aggregator keeps one item per payload, and a record that was        *)
(* aggregated and neither flushed nor lost is in the item of its payload.  *)
(***************************************************************************)
AggregationExact ==
    /\ \A i, j \in DOMAIN list :
          i # j => list[i].payload # list[j].payload
    /\ \A r \in Records : fate[r] = "aggregated" =>
          \E i \in DOMAIN list : /\ r \in list[i].records
                                 /\ list[i].payload = happened[r].payload

(***************************************************************************)
(* Every record in the log is taken in the end: kills and failures that    *)
(* stop some time do not hide it from the searches after them.             *)
(***************************************************************************)
EveryRecordTaken ==
    \A r \in Records :
        fate[r] = "logged" ~> fate[r] # "logged" \/ r \in late \cup aborted

(***************************************************************************)
(* event_aggregator.h: GetAggregatedEvents flushes the events "if event    *)
(* aggregation is disabled".  Once the aggregation stays off, no record    *)
(* stays in the list.                                                      *)
(***************************************************************************)
FlushedWhenOff ==
    <>[](~enabled) => <>[](\A r \in Records : fate[r] # "aggregated")

(***************************************************************************)
(* process_creation_collector.h: GetEvents is about "all the processes      *)
(* created since the last time this function was called".  Violated: one of*)
(* the second in which a search starts is found by the next search too.    *)
(***************************************************************************)
CollectedOnce == repeated = {}

(***************************************************************************)
(* process_creation_collector.h: "create a message for each process".      *)
(* Violated without any call failing: a twin update that turns the         *)
(* aggregation off during a cycle aborts the cycle, and the checkpoint     *)
(* passes over the records that were left.                                 *)
(***************************************************************************)
NoneLostByUpdate == aborted = {}

=============================================================================
