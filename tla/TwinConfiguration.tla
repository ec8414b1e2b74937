------------------------- MODULE TwinConfiguration -------------------------
(***************************************************************************)
(* The twin configuration and the threads that share it: the twin task     *)
(* (update_twin_task.c) pops one queued update per execution, applies it   *)
(* (twin_configuration.c) and reports the result to the hub; the monitor   *)
(* reads the configuration in the configuration error collector and in     *)
(* the baseline collector.  The collectors' part of the configuration is a *)
(* value here; module TwinCollectors has its own lock.                     *)
(*                                                                         *)
(* An update is a record: its form, and per key a value, Absent or         *)
(* Mismatch.  The numeric keys are the ones the error collector compares;  *)
(* "path" stands for the two strings of the baseline custom checks, and    *)
(* the keys of the collectors for the priorities that come before the      *)
(* operational one in SetValues, that one, and the aggregation keys after. *)
(***************************************************************************)
EXTENDS Integers, Sequences, FiniteSets

CONSTANTS
    Updates,          \* the updates the hub may send
    DefaultNumbers,   \* DEFAULT_...: per numeric key, its default
    DefaultCollectors,\* per key of the collectors, its default
    BillingMultiple,  \* MESSAGE_BILLING_MULTIPLE
    AllocationFails,  \* whether malloc may fail
    MaxUpdates,       \* bound on updates sent
    MaxTime           \* bound on the clock, in seconds

NumericKeys == {"cache", "message", "high", "low"}
CollectorKeys == {"priorities", "operational", "aggregation"}
Operational == 0      \* EVENT_PRIORITY_OPERATIONAL
Off == 3              \* EVENT_PRIORITY_OFF
Absent == -1
Mismatch == -2
Dangling == -3
NULL == 0
Forms == {"bad", "noDesired", "notObject", "absent", "object"}

ASSUME TwinConfigurationAssumption ==
    /\ \A u \in Updates :
          /\ u.form \in Forms
          /\ \A k \in NumericKeys \cup CollectorKeys \cup {"path"} :
                u[k] \in Nat \cup {Absent, Mismatch}
    /\ DefaultNumbers \in [NumericKeys -> Nat]
    /\ DefaultCollectors \in [CollectorKeys -> Nat]
    /\ BillingMultiple \in Nat \ {0}
    /\ AllocationFails \in BOOLEAN
    /\ MaxUpdates \in Nat
    /\ MaxTime \in Nat \ {0}

VARIABLES
    queue,        \* twin updates waiting; NoItem where malloc failed
    numbers,      \* the numeric fields of twinConfiguration
    path,         \* baselineCustomChecksFilePath: a pointer or NULL
    heap,         \* live strings: pointer -> contents
    collectors,   \* the event collectors' settings
    lock,         \* the holder of twinConfiguration.lock
    lockExists,
    updateResult, \* status (the mismatched keys), result, time
    clock,        \* TimeUtils_GetCurrentTime
    reported,     \* the configuration the hub was told last
    reportFailed, \* ... the last attempt to tell it failed
    upc, update, ret, status,   \* the twin task: control and locals
    mpc, data, seen, held,      \* the monitor: control and locals
    lastEvent,    \* lastEvent of the error collector
    events,       \* history: the error payloads pushed
    overtaken,    \* history: an update ran while the monitor was reading
    installed,    \* history: the update in force, or the defaults
    current,      \* history: the update popped last
    taken,        \* history: ... and whether it was applied to the end
    rewritten,    \* history: a rejected update changed the one in force
    configurations, \* history: every configuration that was in force
    results,      \* history: every update result that was recorded
    sent, strings \* history: updates sent, strings allocated

settings == <<numbers, path, heap, collectors>>
locks == <<lock, lockExists>>
report == <<reported, reportFailed>>
updater == <<upc, update, ret, status>>
reader == <<mpc, data, seen, held, lastEvent, events>>
monitor == <<reader, overtaken>>
progress == <<installed, taken, rewritten>>
history == <<progress, current, configurations, results, sent, strings>>
vars == <<queue, settings, locks, updateResult, clock, report, updater,
          monitor, history>>

NoThread == "none"
NoItem == [form |-> "none"]
Defaults == [form |-> "absent"]
Nothing == [result |-> "none", time |-> 0, status |-> {}]

(* SetSingle...ValueFromJsonOrDefault: what an update says, or the default *)
(* for every key it does not have.  A missing object is an empty one.      *)
Numbers(u) ==
    [k \in NumericKeys |-> IF u.form = "object" /\ u[k] # Absent THEN u[k]
                           ELSE DefaultNumbers[k]]
PathOf(u) == IF u.form = "object" THEN u.path ELSE Absent
CollectorsOf(u) ==
    [k \in CollectorKeys |-> IF u.form = "object" /\ u[k] # Absent THEN u[k]
                             ELSE DefaultCollectors[k]]

(* ExtractConfiguration goes on after a key of the wrong type.             *)
Mismatches(u) ==
    IF u.form = "object"
    THEN {k \in NumericKeys \cup {"path"} : u[k] = Mismatch} ELSE {}

(* TwinConfiguration_Init.                                                 *)
Init ==
    /\ queue = <<>>
    /\ numbers = DefaultNumbers
    /\ path = NULL
    /\ heap = <<>>
    /\ collectors = DefaultCollectors
    /\ lock = NoThread
    /\ lockExists = TRUE
    /\ updateResult = Nothing
    /\ clock = 1
    /\ reported = Defaults
    /\ reportFailed = TRUE
    /\ upc = "idle" /\ update = NoItem /\ ret = "OK" /\ status = {}
    /\ mpc = "idle" /\ data = Nothing /\ seen = <<>> /\ held = NULL
    /\ lastEvent = 0
    /\ events = {}
    /\ overtaken = FALSE
    /\ installed = Defaults
    /\ current = Defaults
    /\ taken = FALSE /\ rewritten = FALSE
    /\ configurations = {DefaultNumbers}
    /\ results = {Nothing}
    /\ sent = 0 /\ strings = 0

(* History: the reads of the monitor are cut in two by a step of an update.*)
Overtakes == overtaken' = (overtaken \/ mpc # "idle")

(* ... or begin with an update half written.                               *)
ReadsBegin ==
    overtaken' = (upc \in {"copy", "copyString", "result", "time", "deinit"})

-----------------------------------------------------------------------------
Tick ==
    /\ clock < MaxTime
    /\ clock' = clock + 1
    /\ UNCHANGED <<queue, settings, locks, updateResult, report, updater,
                   monitor, history>>

(* IoTHubAdapter_DeviceTwinCallback queues what InitUpdateTwinTaskItem     *)
(* left, a failed allocation included.                                     *)
DeviceTwinCallback ==
    /\ sent < MaxUpdates
    /\ upc \notin {"done", "crashed"}
    /\ sent' = sent + 1
    /\ \E u \in Updates \cup (IF AllocationFails THEN {NoItem} ELSE {}) :
          queue' = Append(queue, u)
    /\ UNCHANGED <<settings, locks, updateResult, clock, report, updater,
                   monitor, progress, current, configurations, results,
                   strings>>

(* UpdateTwinTask_Execute: one update; the missing item is dereferenced.   *)
Execute ==
    /\ upc = "idle"
    /\ queue # <<>>
    /\ queue' = Tail(queue)
    /\ update' = Head(queue)
    /\ status' = {}
    /\ IF Head(queue) = NoItem
       THEN upc' = "crashed" /\ UNCHANGED <<current, taken>>
       ELSE upc' = "parse" /\ current' = Head(queue) /\ taken' = FALSE
    /\ UNCHANGED <<settings, locks, updateResult, clock, report, ret, monitor,
                   installed, rewritten, configurations, results, sent, strings>>

(* UpdateTwinTask_Deinit hands the item where a pointer to it is expected: *)
(* an item left in the queue is freed through its own first bytes.         *)
Deinit ==
    /\ upc = "idle"
    /\ upc' = IF queue = <<>> THEN "done" ELSE "crashed"
    /\ UNCHANGED <<queue, settings, locks, updateResult, clock, report,
                   update, ret, status, monitor, history>>

(* TwinConfiguration_Update, up to the lock.                               *)
Parse ==
    /\ upc = "parse"
    /\ status' = Mismatches(update)
    /\ ret' = IF update.form = "bad" THEN "EXCEPTION"
              ELSE IF \/ update.form \in {"noDesired", "notObject"}
                      \/ Mismatches(update) # {} THEN "PARSE"
              ELSE "OK"
    /\ upc' = IF ret' = "OK" THEN "lock" ELSE "status"
    /\ UNCHANGED <<queue, settings, locks, updateResult, clock, report,
                   update, monitor, history>>

Lock ==
    /\ upc = "lock"
    /\ \/ /\ lockExists
          /\ lock = NoThread
          /\ lock' = "updater"
          /\ upc' = "collectors"
          /\ UNCHANGED ret
       \/ /\ ~lockExists
          /\ ret' = "LOCK"
          /\ upc' = "status"
          /\ UNCHANGED lock
    /\ UNCHANGED <<queue, settings, lockExists, updateResult, clock, report,
                   update, status, monitor, history>>

(* Mutant: the strings are freed before the collectors are updated.        *)
FreedFirst == path' = NULL /\ heap' = [p \in {} |-> NULL]

FreedLater == UNCHANGED <<path, heap>>

(* The keys of the collectors that are of the wrong type.                  *)
Wrong(u) == {k \in CollectorKeys : CollectorsOf(u)[k] = Mismatch}

(* "Operational events can be off/operational prio".                       *)
Normalised(c) ==
    [c EXCEPT !["operational"] = IF @ = Off THEN Off ELSE Operational]

(* TwinConfigurationEventCollectors_Update, whose own lock may be          *)
(* contended.  SetValues stops at the first key of the wrong type; once it *)
(* is past the priorities it normalises the operational priority, not of   *)
(* the new settings but of those in force.                                 *)
UpdateCollectors ==
    /\ upc = "collectors"
    /\ FreedLater
    /\ \/ /\ Wrong(update) = {}
          /\ collectors' = CollectorsOf(update)
          /\ upc' = "free"
          /\ UNCHANGED <<ret, status, rewritten>>
       \/ /\ Wrong(update) # {}
          /\ IF Wrong(update) = {"aggregation"}
             THEN collectors' = Normalised(collectors) /\ rewritten' = TRUE
             ELSE UNCHANGED <<collectors, rewritten>>
          /\ ret' = "PARSE"
          /\ status' = status \cup {"collectors"}
          /\ upc' = "status"
       \/ /\ ret' = "LOCK"
          /\ upc' = "status"
          /\ UNCHANGED <<collectors, status, rewritten>>
    /\ UNCHANGED <<queue, numbers, locks, updateResult, clock, report,
                   update, monitor, installed, taken, current, configurations,
                   results, sent, strings>>

Live(p) == p \in DOMAIN heap

Freed(p) == [q \in DOMAIN heap \ {p} |-> heap[q]]

(* Mutant: the pointer to the freed string is kept.                        *)
ClearedNot == UNCHANGED path

Cleared == path' = NULL

(* TwinConfiguration_SafeDeinit.                                           *)
SafeDeinit ==
    /\ upc = "free"
    /\ heap' = Freed(path)
    /\ Cleared
    /\ upc' = "copy"
    /\ Overtakes
    /\ UNCHANGED <<queue, numbers, collectors, locks, updateResult, clock,
                   report, update, ret, status, reader, history>>

Copied(u) == Numbers(u)

(* TwinConfiguration_DeepCopy: the numbers, then the strings.              *)
DeepCopyNumbers ==
    /\ upc = "copy"
    /\ numbers' = Copied(update)
    /\ upc' = "copyString"
    /\ configurations' = configurations \cup {numbers'}
    /\ Overtakes
    /\ UNCHANGED <<queue, path, heap, collectors, locks, updateResult, clock,
                   report, update, ret, status, reader, progress, current,
                   results, sent, strings>>

(* History: the update is in force.                                        *)
Install == installed' = update /\ taken' = TRUE /\ rewritten' = FALSE

DeepCopyString ==
    /\ upc = "copyString"
    /\ upc' = "status"
    /\ \/ /\ PathOf(update) = Absent
          /\ Install
          /\ UNCHANGED <<path, heap, ret, strings>>
       \/ /\ PathOf(update) # Absent
          /\ strings' = strings + 1
          /\ path' = strings + 1
          /\ heap' = [q \in DOMAIN heap \cup {strings + 1} |->
                        IF q = strings + 1 THEN update.path ELSE heap[q]]
          /\ Install
          /\ UNCHANGED ret
       \/ /\ PathOf(update) # Absent
          /\ AllocationFails
          /\ ret' = "MEMORY"
          /\ UNCHANGED <<path, heap, progress, strings>>
    /\ Overtakes
    /\ UNCHANGED <<queue, numbers, collectors, locks, updateResult, clock,
                   report, update, status, reader, current, configurations,
                   results, sent>>

(* The clean-up writes the result field by field, with or without the lock.*)
WriteStatus ==
    /\ upc = "status"
    /\ updateResult' = [updateResult EXCEPT !.status = status]
    /\ upc' = "result"
    /\ Overtakes
    /\ UNCHANGED <<queue, settings, locks, clock, report, update, ret, status,
                   reader, history>>

(* Mutant: the result of a parse error is not written.                     *)
RecordedUnlessParse == IF ret = "PARSE" THEN updateResult.result ELSE ret

Recorded == ret

WriteResult ==
    /\ upc = "result"
    /\ updateResult' = [updateResult EXCEPT !.result = Recorded]
    /\ upc' = "time"
    /\ Overtakes
    /\ UNCHANGED <<queue, settings, locks, clock, report, update, ret, status,
                   reader, history>>

WriteTime ==
    /\ upc = "time"
    /\ updateResult' = [updateResult EXCEPT !.time = clock]
    /\ results' = results \cup {updateResult'}
    /\ upc' = "unlock"
    /\ Overtakes
    /\ UNCHANGED <<queue, settings, locks, clock, report, update, ret, status,
                   reader, progress, current, configurations, sent, strings>>

(* Mutant: the test of the result is inverted.                             *)
IsReportedInverted(r) == r = "PARSE"

(* Execute reports the configuration after a success and a parse error.    *)
IsReported(r) == r \in {"OK", "PARSE"}

(* Out of memory, everything is deinitialised, the lock included.          *)
Unlock ==
    /\ upc = "unlock"
    /\ lock' = IF lock = "updater" THEN NoThread ELSE lock
    /\ upc' = IF IsReported(ret) THEN "reportLock"
              ELSE IF ret = "MEMORY" THEN "deinit"
              ELSE "idle"
    /\ UNCHANGED <<queue, settings, lockExists, updateResult, clock, report,
                   update, ret, status, monitor, history>>

TwinConfigurationDeinit ==
    /\ upc = "deinit"
    /\ heap' = Freed(path)
    /\ path' = NULL
    /\ lockExists' = FALSE
    /\ upc' = "idle"
    /\ Overtakes
    /\ UNCHANGED <<queue, numbers, collectors, lock, updateResult, clock,
                   report, update, ret, status, reader, history>>

(* UpdateTwinReportedProperties: GetSerializedTwinConfiguration under the  *)
(* lock, then the hub.  Serialising fails when the collectors' lock is     *)
(* contended, sending when there is no connection.                         *)
ReportLock ==
    /\ upc = "reportLock"
    /\ \/ /\ lockExists
          /\ lock = NoThread
          /\ lock' = "updater"
          /\ upc' = "report"
          /\ UNCHANGED reportFailed
       \/ /\ ~lockExists
          /\ reportFailed' = TRUE
          /\ upc' = "idle"
          /\ UNCHANGED lock
    /\ UNCHANGED <<queue, settings, lockExists, updateResult, clock, reported,
                   update, ret, status, monitor, history>>

(* What a string reads as; one that was freed is told apart from them all. *)
Contents(p) ==
    IF p = NULL THEN Absent ELSE IF Live(p) THEN heap[p] ELSE Dangling

Serialized ==
    [form |-> "object", numbers |-> numbers, collectors |-> collectors,
     path |-> Contents(path)]

Report ==
    /\ upc = "report"
    /\ lock' = NoThread
    /\ upc' = "idle"
    /\ \/ reported' = Serialized /\ reportFailed' = FALSE
       \/ reportFailed' = TRUE /\ UNCHANGED reported
    /\ UNCHANGED <<queue, settings, lockExists, updateResult, clock, update,
                   ret, status, monitor, history>>

-----------------------------------------------------------------------------
(* AgentConfigurationErrorCollector_GetEvents on the monitor's thread:     *)
(* GetLastTwinUpdateData copies the result, the time and the status, in    *)
(* this order and without the lock.                                        *)
others == <<queue, settings, lockExists, updateResult, clock, report, updater,
            history>>

GetLastResult ==
    /\ mpc = "idle"
    /\ data' = [Nothing EXCEPT !.result = updateResult.result]
    /\ mpc' = "getTime"
    /\ ReadsBegin
    /\ UNCHANGED <<others, lock, seen, held, lastEvent, events>>

GetLastTime ==
    /\ mpc = "getTime"
    /\ data' = [data EXCEPT !.time = updateResult.time]
    /\ mpc' = "getStatus"
    /\ UNCHANGED <<others, lock, overtaken, seen, held, lastEvent, events>>

(* The same second as the last event: nothing new.                         *)
GetLastStatus ==
    /\ mpc = "getStatus"
    /\ data' = [data EXCEPT !.status = updateResult.status]
    /\ mpc' = IF data.time = lastEvent THEN "cleanup"
              ELSE IF data.result = "OK" THEN "validate"
              ELSE IF data.result = "PARSE" THEN "mismatch"
              ELSE "push"
    /\ UNCHANGED <<others, lock, overtaken, seen, held, lastEvent, events>>

(* The three validations read one field after the other; each getter reads *)
(* the field first and takes the lock then.                                *)
Reads == <<"cache", "message", "message", "high", "low">>

ReadField ==
    /\ mpc = "validate"
    /\ seen' = Append(seen, numbers[Reads[Len(seen) + 1]])
    /\ mpc' = "getter"
    /\ UNCHANGED <<others, lock, overtaken, data, held, lastEvent, events>>

GetField ==
    /\ mpc = "getter"
    /\ \/ /\ lockExists /\ lock = NoThread
          /\ mpc' = IF Len(seen) = Len(Reads) THEN "push" ELSE "validate"
       \/ /\ ~lockExists
          /\ mpc' = "cleanup"
    /\ UNCHANGED <<others, lock, overtaken, data, seen, held, lastEvent, events>>

(* CreateTypeMismatchPayload serialises the configuration.                 *)
SerializeMismatch ==
    /\ mpc = "mismatch"
    /\ \/ lockExists /\ lock = NoThread /\ mpc' \in {"push", "cleanup"}
       \/ ~lockExists /\ mpc' = "cleanup"
    /\ UNCHANGED <<others, lock, overtaken, data, seen, held, lastEvent, events>>

(* GenerateTypeMismatchMessage knows no key of the custom checks.          *)
Payload ==
    IF data.result = "PARSE"
    THEN {[error |-> "TypeMismatch", keys |-> data.status \ {"path"}]}
    ELSE IF data.result = "OK"
    THEN (IF seen[1] < seen[2]
          THEN {[error |-> "Conflict", keys |-> {"cache"}]} ELSE {})
         \cup (IF seen[3] % BillingMultiple # 0
          THEN {[error |-> "NotOptimal", keys |-> {"message"}]} ELSE {})
         \cup (IF seen[4] > seen[5]
          THEN {[error |-> "Conflict", keys |-> {"high"}]} ELSE {})
    ELSE {}

PushEvent ==
    /\ mpc = "push"
    /\ \/ events' = events \cup Payload
       \/ UNCHANGED events
    /\ mpc' = "cleanup"
    /\ UNCHANGED <<others, lock, overtaken, data, seen, held, lastEvent>>

(* The time is remembered whether or not the event was pushed.             *)
GetEventsCleanup ==
    /\ mpc = "cleanup"
    /\ lastEvent' = data.time
    /\ seen' = <<>>
    /\ data' = Nothing
    /\ mpc' = "idle"
    /\ UNCHANGED <<others, lock, overtaken, held, events>>

(* BaselineCollector_GetEvents: the getter of a string hands out the       *)
(* configuration's own pointer, which the collector then reads.            *)
ReadPath ==
    /\ mpc = "idle"
    /\ held' = path
    /\ mpc' = "getPath"
    /\ ReadsBegin
    /\ UNCHANGED <<others, lock, data, seen, lastEvent, events>>

GetPath ==
    /\ mpc = "getPath"
    /\ \/ lockExists /\ lock = NoThread /\ mpc' = "usePath" /\ UNCHANGED held
       \/ ~lockExists /\ mpc' = "idle" /\ held' = NULL
    /\ UNCHANGED <<others, lock, overtaken, data, seen, lastEvent, events>>

UsePath ==
    /\ mpc = "usePath"
    /\ held' = NULL
    /\ mpc' = "idle"
    /\ UNCHANGED <<others, lock, overtaken, data, seen, lastEvent, events>>

Terminated == upc \in {"done", "crashed"} /\ UNCHANGED vars

Next ==
    \/ Tick \/ DeviceTwinCallback \/ Execute \/ Deinit
    \/ Parse \/ Lock \/ UpdateCollectors \/ SafeDeinit
    \/ DeepCopyNumbers \/ DeepCopyString
    \/ WriteStatus \/ WriteResult \/ WriteTime \/ Unlock
    \/ TwinConfigurationDeinit \/ ReportLock \/ Report
    \/ GetLastResult \/ GetLastTime \/ GetLastStatus
    \/ ReadField \/ GetField \/ SerializeMismatch \/ PushEvent
    \/ GetEventsCleanup
    \/ ReadPath \/ GetPath \/ UsePath
    \/ Terminated

Spec == Init /\ [][Next]_vars

-----------------------------------------------------------------------------
Keys == NumericKeys \cup {"path", "collectors"}
Results == {"none", "OK", "PARSE", "EXCEPTION", "LOCK", "MEMORY"}
Data == [result : Results, time : 0 .. MaxTime, status : SUBSET Keys]

(* The fields hold what the code stores in them; the only string alive is  *)
(* the one the configuration points to, so none is leaked or freed twice.  *)
TypeOK ==
    /\ queue \in Seq(Updates \cup {NoItem})
    /\ numbers \in [NumericKeys -> Nat]
    /\ DOMAIN heap = {path} \ {NULL}
    /\ collectors \in [CollectorKeys -> Nat]
    /\ lock \in {NoThread, "updater"}
    /\ lockExists \in BOOLEAN /\ reportFailed \in BOOLEAN
    /\ updateResult \in Data /\ data \in Data
    /\ clock \in 0 .. MaxTime /\ lastEvent \in 0 .. MaxTime
    /\ upc \in {"idle", "parse", "lock", "collectors", "free", "copy",
                "copyString", "status", "result", "time", "unlock", "deinit",
                "reportLock", "report", "done", "crashed"}
    /\ mpc \in {"idle", "getTime", "getStatus", "validate", "getter",
                "mismatch", "push", "cleanup", "getPath", "usePath"}
    /\ seen \in Seq(Nat)
    /\ strings \in Nat
    /\ taken \in BOOLEAN /\ rewritten \in BOOLEAN
    /\ held \in 0 .. strings /\ path \in 0 .. strings

Configuration(u) ==
    [form |-> "object", numbers |-> Numbers(u), collectors |-> CollectorsOf(u),
     path |-> PathOf(u)]

(* What a rejected update leaves of the update in force.                   *)
InForce == IF rewritten
           THEN [Configuration(installed) EXCEPT !.collectors = Normalised(@)]
           ELSE Configuration(installed)

(* The configuration is never a mixture: whoever gets the lock finds the   *)
(* numbers, the strings and the collectors' settings of one update, though *)
(* a mismatch, a contended lock or a failed allocation may stop an update  *)
(* after any of them; all that a rejected update ever changes is the       *)
(* operational priority, which one that fails at an aggregation key        *)
(* normalises; and no string of an earlier update stays allocated.         *)
ConfigurationWhole ==
    (lock = NoThread /\ lockExists /\ upc # "deinit") =>
        /\ DOMAIN heap = {path} \ {NULL}
        /\ Serialized = InForce

(* An update that is rejected changes nothing.                             *)
RejectedChangesNothing ==
    (lock = NoThread /\ lockExists /\ upc # "deinit") =>
        Serialized = Configuration(installed)

(* The recorded result tells the truth about the update handled last: OK   *)
(* if and only if it was applied to the end and is in force; EXCEPTION if  *)
(* and only if it could not be read; a parse error if and only if an       *)
(* object is missing or a key is of the wrong type, and the keys named are *)
(* such keys; out of memory only if the lock is gone, and a lock error     *)
(* only for an update without any error.                                   *)
ResultTruthful ==
    (upc = "idle" /\ updateResult # Nothing) =>
        /\ updateResult.result = "OK" <=> taken
        /\ taken => installed = current
        /\ updateResult.result = "EXCEPTION" <=> current.form = "bad"
        /\ updateResult.result = "PARSE" <=>
              \/ current.form \in {"noDesired", "notObject"}
              \/ updateResult.status # {}
        /\ updateResult.status # {} =>
              \/ updateResult.status = Mismatches(current)
              \/ updateResult.status = {"collectors"} /\ Wrong(current) # {}
        /\ updateResult.result = "MEMORY" => ~lockExists
        /\ updateResult.result \in {"OK", "LOCK", "MEMORY"} =>
              Mismatches(current) = {}

(* Though failed updates are not all reported, the hub knows the           *)
(* configuration in force whenever the last report went out.               *)
HubViewCurrent ==
    (upc = "idle" /\ ~reportFailed /\ lockExists) => reported = Serialized

(* The getters hold no lock over several fields, or over the string they   *)
(* hand out, so an update in between spoils what the monitor reads.  Only  *)
(* that does: undisturbed, and after whatever updates that failed half     *)
(* way, the string is alive, the update data are those of one update, and  *)
(* the fields compared are those of one configuration.                     *)
ReadsSpoiltOnlyByUpdate ==
    ~overtaken =>
        /\ mpc = "usePath" /\ held # NULL => Live(held)
        /\ mpc \in {"validate", "getter", "mismatch", "push"} =>
              data \in results
        /\ \E c \in configurations :
              \A i \in DOMAIN seen : seen[i] = c[Reads[i]]

(* A string a thread got from a getter, "thread safe" by its description,  *)
(* is still allocated when the thread uses it.                             *)
StringStillAllocated == (mpc = "usePath" /\ held # NULL) => Live(held)

(* GetLastTwinUpdateData "gets the result of the last twin update": of     *)
(* one update, not the result of one and the time of another.              *)
UpdateDataWhole ==
    mpc \in {"validate", "getter", "mismatch", "push"} => data \in results

(* A conflict that is reported was in a configuration.                     *)
ConflictReal ==
    [error |-> "Conflict", keys |-> {"cache"}] \in events =>
        \E c \in configurations : c["cache"] < c["message"]

(* Deinitialising the task releases the updates left in its queue.         *)
DeinitReturns == upc # "crashed"

=============================================================================
