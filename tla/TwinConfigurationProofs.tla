----------------------- MODULE TwinConfigurationProofs ----------------------
(***************************************************************************)
(* The twin configuration for any updates, defaults and bounds: what the   *)
(* lock protects, what is recorded and reported of an update, and what the *)
(* monitor reads beside it.  The second half is about the durations the    *)
(* configuration is written in, for any texts: the parser against its      *)
(* reference, and the report against the parser.                           *)
(***************************************************************************)
EXTENDS TwinConfiguration, Durations, WellFoundedInduction, TLAPS

-----------------------------------------------------------------------------
(* The steps of an update, by what they have done: nothing yet, with the   *)
(* lock; replaced settings; written the result.                            *)
Applying == {"lock", "collectors", "free", "copy", "copyString"}
Replacing == {"free", "copy", "copyString"}
Recording == {"status", "result", "time", "unlock"}
Reporting == {"reportLock", "report"}

(***************************************************************************)
(* What the twin task's control point says about its locals and the lock.  *)
(***************************************************************************)
Control ==
    /\ upc \notin {"idle", "done", "crashed"} =>
          update = current /\ update \in Updates
    /\ upc \in Applying =>
          /\ ret = "OK" /\ status = {} /\ Mismatches(update) = {}
          /\ update.form \notin {"bad", "noDesired", "notObject"}
    /\ upc = "collectors" \/ upc \in Replacing \/ upc = "report" =>
          lock = "updater"
    /\ lock = "updater" =>
          /\ lockExists
          /\ upc \in {"collectors", "report"} \cup Replacing \cup Recording
    /\ upc \in Recording /\ ret \in {"OK", "MEMORY"} => lock = "updater"
    /\ upc \in Recording => ret \in Results
    /\ upc = "deinit" => ret = "MEMORY" /\ lockExists
    /\ status \subseteq Keys

(***************************************************************************)
(* What an update that ended tells of itself.                              *)
(***************************************************************************)
Tells(res, mismatched) ==
    /\ res = "OK" <=> taken
    /\ taken => installed = current
    /\ res = "EXCEPTION" <=> current.form = "bad"
    /\ res = "PARSE" <=>
          current.form \in {"noDesired", "notObject"} \/ mismatched # {}
    /\ mismatched # {} =>
          \/ mismatched = Mismatches(current)
          \/ mismatched = {"collectors"} /\ Wrong(current) # {}
    /\ res \in {"OK", "LOCK", "MEMORY"} => Mismatches(current) = {}

Truth ==
    /\ upc = "parse" \/ upc \in Applying => ~taken
    /\ upc \in Recording => Tells(ret, status)
    /\ upc \in {"result", "time", "unlock"} => updateResult.status = status
    /\ upc \in {"time", "unlock"} => updateResult.result = ret
    /\ upc \in {"idle", "deinit"} \cup Reporting =>
          Tells(updateResult.result, updateResult.status)
    /\ upc \in {"idle"} \cup Reporting =>
          (updateResult.result = "MEMORY" => ~lockExists)

(***************************************************************************)
(* Where the settings are those of the update in force: everywhere but     *)
(* between the first and the last setting that an update replaces, and     *)
(* after one that ran out of memory.  Normalising is idempotent, so it     *)
(* does not matter how many rejected updates did it.                       *)
(***************************************************************************)
Settled ==
    /\ lockExists
    /\ upc \notin Replacing \cup {"deinit"}
    /\ upc \in Recording => ret # "MEMORY"

Settings ==
    /\ Settled => Serialized = InForce
    /\ upc \in Replacing => collectors = CollectorsOf(update)
    /\ upc \in {"copy", "copyString"} => path = NULL
    /\ upc = "copyString" => numbers = Numbers(update)

(***************************************************************************)
(* The hub was told the settings, unless it is about to be told.           *)
(***************************************************************************)
Told ==
    (/\ Settled /\ ~reportFailed
     /\ upc \notin Reporting
     /\ upc \in Recording => ret \notin {"OK", "PARSE"})
    => reported = Serialized

(***************************************************************************)
(* What the monitor has read so far.                                       *)
(***************************************************************************)
Undisturbed == mpc # "idle" /\ ~overtaken

Reading ==
    /\ numbers \in configurations
    /\ upc \notin {"result", "time"} => updateResult \in results
    /\ mpc \in {"idle", "getTime", "getStatus", "getPath", "usePath"} =>
          seen = << >>
    /\ mpc = "validate" => Len(seen) < Len(Reads)
    /\ mpc = "getter" => Len(seen) <= Len(Reads)
    /\ Undisturbed => upc \notin {"copy", "copyString", "result", "time"}
    /\ Undisturbed /\ mpc \in {"getPath", "usePath"} =>
          held = NULL \/ Live(held)
    /\ Undisturbed /\ mpc \in {"getTime", "getStatus"} =>
          data.result = updateResult.result
    /\ Undisturbed /\ mpc = "getStatus" => data.time = updateResult.time
    /\ Undisturbed /\ mpc \in {"validate", "getter", "mismatch", "push"} =>
          data \in results
    /\ Undisturbed => \A i \in DOMAIN seen : seen[i] = numbers[Reads[i]]

Inv == TypeOK /\ Control /\ Truth /\ Settings /\ Told /\ Reading

-----------------------------------------------------------------------------
(* The steps of the monitor, which change nothing that others read.        *)
MonitorStep ==
    \/ GetLastResult \/ GetLastTime \/ GetLastStatus
    \/ ReadField \/ GetField \/ SerializeMismatch \/ PushEvent
    \/ GetEventsCleanup \/ ReadPath \/ GetPath \/ UsePath

(***************************************************************************)
(* The monitor's steps leave the configuration and the twin task alone.    *)
(***************************************************************************)
LEMMA MonitorFrame == MonitorStep => UNCHANGED <<others, lock>>
BY DEF MonitorStep, GetLastResult, GetLastTime, GetLastStatus, ReadField, GetField, SerializeMismatch, PushEvent, GetEventsCleanup, ReadPath, GetPath, UsePath, others, settings, report, updater, progress, history

(***************************************************************************)
(* An update has a form, and per key a number or one of the two marks.     *)
(***************************************************************************)
LEMMA UpdateType ==
  ASSUME NEW u \in Updates
  PROVE  /\ u.form \in Forms /\ u # NoItem
         /\ u.path \in Nat \cup {Absent, Mismatch}
         /\ \A k \in NumericKeys \cup CollectorKeys : u[k] \in Nat \cup {Absent, Mismatch}
<1>1. u.form \in Forms /\ \A k \in NumericKeys \cup CollectorKeys \cup {"path"} :
        u[k] \in Nat \cup {Absent, Mismatch}
  BY TwinConfigurationAssumption
<1>2. NoItem.form \notin Forms
  BY DEF NoItem, Forms
<1> QED
  BY <1>1, <1>2

(***************************************************************************)
(* Without a mismatch the numbers of an update are natural numbers.        *)
(***************************************************************************)
LEMMA NumbersType ==
  ASSUME NEW u \in Updates, Mismatches(u) = {}
  PROVE  Numbers(u) \in [NumericKeys -> Nat]
BY UpdateType, TwinConfigurationAssumption DEF Numbers, Mismatches

(***************************************************************************)
(* Without a key of the wrong type the collectors' settings are natural    *)
(* numbers.                                                                *)
(***************************************************************************)
LEMMA CollectorsType ==
  ASSUME NEW u \in Updates, Wrong(u) = {}
  PROVE  CollectorsOf(u) \in [CollectorKeys -> Nat]
<1> SUFFICES ASSUME NEW k \in CollectorKeys PROVE CollectorsOf(u)[k] \in Nat
  BY DEF CollectorsOf
<1>1. CollectorsOf(u)[k] # Mismatch
  BY DEF Wrong
<1> QED
  BY <1>1, UpdateType, TwinConfigurationAssumption DEF CollectorsOf

(***************************************************************************)
(* Normalising keeps the settings' type.                                   *)
(***************************************************************************)
LEMMA NormalisedType ==
  ASSUME NEW c \in [CollectorKeys -> Nat]
  PROVE  Normalised(c) \in [CollectorKeys -> Nat]
BY DEF Normalised, CollectorKeys, Operational, Off

(***************************************************************************)
(* Normalising the settings of an update twice is doing it once.           *)
(***************************************************************************)
LEMMA NormalisedTwice ==
  ASSUME NEW u
  PROVE  Normalised(Normalised(CollectorsOf(u))) = Normalised(CollectorsOf(u))
BY DEF Normalised, CollectorsOf, CollectorKeys, Operational, Off

(***************************************************************************)
(* The settings in force, field by field.                                  *)
(***************************************************************************)
LEMMA InForceIs ==
  /\ rewritten => InForce =
        [form |-> "object", numbers |-> Numbers(installed),
         collectors |-> Normalised(CollectorsOf(installed)), path |-> PathOf(installed)]
  /\ ~rewritten => InForce =
        [form |-> "object", numbers |-> Numbers(installed),
         collectors |-> CollectorsOf(installed), path |-> PathOf(installed)]
BY DEF InForce, Configuration

(***************************************************************************)
(* The error collector reads five numeric fields.                          *)
(***************************************************************************)
LEMMA ReadsType == Len(Reads) = 5 /\ \A i \in 1 .. 5 : Reads[i] \in NumericKeys
<1>1. Len(Reads) = 5
  BY DEF Reads
<1>2. /\ Reads[1] \in NumericKeys /\ Reads[2] \in NumericKeys
      /\ Reads[3] \in NumericKeys /\ Reads[4] \in NumericKeys
      /\ Reads[5] \in NumericKeys
  BY DEF Reads, NumericKeys
<1>3. 1 .. 5 = {1, 2, 3, 4, 5}
  OBVIOUS
<1> QED
  BY <1>1, <1>2, <1>3

(***************************************************************************)
(* One more field is left to read, or all five were read.                  *)
(***************************************************************************)
LEMMA ReadsBound ==
  ASSUME NEW n \in Nat
  PROVE  /\ n < Len(Reads) => n + 1 \in 1 .. 5 /\ n + 1 <= Len(Reads)
         /\ n <= Len(Reads) /\ n # Len(Reads) => n < Len(Reads)
<1>1. Len(Reads) = 5
  BY ReadsType
<1> QED
  BY <1>1

(***************************************************************************)
(* A reader has read nothing when it begins.                               *)
(***************************************************************************)
LEMMA NothingType == Nothing \in Data
BY TwinConfigurationAssumption DEF Nothing, Data, Results

(***************************************************************************)
(* The defaults are the configuration before any update.                   *)
(***************************************************************************)
LEMMA InitInv == Init => Inv
<1> SUFFICES ASSUME Init PROVE Inv
  OBVIOUS
<1> USE TwinConfigurationAssumption
<1>1. TypeOK
  <2>1. taken \in BOOLEAN /\ rewritten \in BOOLEAN
    BY Zenon DEF Init
  <2> QED
    BY <2>1 DEF Init, TypeOK, Data, Results, Nothing, NULL, NoThread
<1>2. Control
  BY DEF Init, Control, Applying, Replacing, Recording, NoThread
<1>3. Truth
  BY DEF Init, Truth, Tells, Applying, Recording, Reporting, Nothing, Defaults
<1>4. Settings
  <2>1. Numbers(Defaults) = DefaultNumbers
    BY DEF Numbers, Defaults
  <2> QED
    BY <2>1 DEF Init, Settings, Settled, Serialized, Contents, Configuration, CollectorsOf,
       InForce, PathOf, Defaults, Replacing, Recording, NULL
<1>5. Told
  BY DEF Init, Told
<1>6. Reading
  BY DEF Init, Reading, Undisturbed, Reads
<1> QED
  BY <1>1, <1>2, <1>3, <1>4, <1>5, <1>6 DEF Inv

(***************************************************************************)
(* The lock and the locals follow the control point.                       *)
(***************************************************************************)
LEMMA ControlStep == Inv /\ [Next]_vars => Control'
<1> SUFFICES ASSUME Inv, [Next]_vars PROVE Control'
  OBVIOUS
<1> USE DEF Inv, Control, Applying, Replacing, Recording, Results, NoThread,
   Keys, settings, locks, report, updater, reader, monitor, progress, history, others
<1>1. CASE Tick
  BY <1>1 DEF Tick
<1>2. CASE DeviceTwinCallback
  BY <1>2 DEF DeviceTwinCallback
<1>3. CASE Execute
  BY <1>3 DEF Execute, TypeOK
<1>4. CASE Deinit
  BY <1>4 DEF Deinit
<1>5. CASE Parse
  BY <1>5 DEF Parse, Mismatches
<1>6. CASE Lock
  BY <1>6 DEF Lock
<1>7. CASE UpdateCollectors
  BY <1>7 DEF UpdateCollectors, FreedLater
<1>8. CASE SafeDeinit
  BY <1>8 DEF SafeDeinit, Cleared, Freed
<1>9. CASE DeepCopyNumbers
  BY <1>9 DEF DeepCopyNumbers
<1>10. CASE DeepCopyString
  BY <1>10 DEF DeepCopyString, Install, PathOf
<1>11. CASE WriteStatus
  BY <1>11 DEF WriteStatus
<1>12. CASE WriteResult
  BY <1>12 DEF WriteResult
<1>13. CASE WriteTime
  BY <1>13 DEF WriteTime
<1>14. CASE Unlock
  BY <1>14 DEF Unlock, IsReported
<1>15. CASE TwinConfigurationDeinit
  BY <1>15 DEF TwinConfigurationDeinit
<1>16. CASE ReportLock
  BY <1>16 DEF ReportLock
<1>17. CASE Report
  BY <1>17 DEF Report
<1>18. CASE MonitorStep
  BY <1>18, MonitorFrame
<1>19. CASE UNCHANGED vars
  BY <1>19 DEF vars
<1> QED
  BY <1>1, <1>2, <1>3, <1>4, <1>5, <1>6, <1>7, <1>8, <1>9, <1>10, <1>11,
     <1>12, <1>13, <1>14, <1>15, <1>16, <1>17, <1>18, <1>19 DEF Next,
     MonitorStep, Terminated

(***************************************************************************)
(* What is recorded of an update is true of it.                            *)
(***************************************************************************)
LEMMA TruthStep == Inv /\ [Next]_vars => Truth'
<1> SUFFICES ASSUME Inv, [Next]_vars PROVE Truth'
  OBVIOUS
<1> USE DEF Inv, Control, Truth, Tells, Applying, Replacing, Recording,
   Reporting, settings, locks, report, updater, reader, monitor, progress,
   history, others
<1>1. CASE Tick
  BY <1>1 DEF Tick
<1>2. CASE DeviceTwinCallback
  BY <1>2 DEF DeviceTwinCallback
<1>3. CASE Execute
  BY <1>3 DEF Execute, TypeOK
<1>4. CASE Deinit
  BY <1>4 DEF Deinit
<1>5. CASE Parse
  BY <1>5 DEF Parse, Mismatches
<1>6. CASE Lock
  BY <1>6 DEF Lock
<1>7. CASE UpdateCollectors
  BY <1>7 DEF UpdateCollectors, FreedLater
<1>8. CASE SafeDeinit
  BY <1>8 DEF SafeDeinit
<1>9. CASE DeepCopyNumbers
  BY <1>9 DEF DeepCopyNumbers
<1>10. CASE DeepCopyString
  BY <1>10 DEF DeepCopyString, Install
<1>11. CASE WriteStatus
  BY <1>11 DEF WriteStatus, TypeOK, Data
<1>12. CASE WriteResult
  BY <1>12 DEF WriteResult, TypeOK, Data, Recorded
<1>13. CASE WriteTime
  BY <1>13 DEF WriteTime, TypeOK, Data
<1>14. CASE Unlock
  BY <1>14 DEF Unlock, IsReported
<1>15. CASE TwinConfigurationDeinit
  BY <1>15 DEF TwinConfigurationDeinit
<1>16. CASE ReportLock
  BY <1>16 DEF ReportLock
<1>17. CASE Report
  BY <1>17 DEF Report
<1>18. CASE MonitorStep
  BY <1>18, MonitorFrame
<1>19. CASE UNCHANGED vars
  BY <1>19 DEF vars
<1> QED
  BY <1>1, <1>2, <1>3, <1>4, <1>5, <1>6, <1>7, <1>8, <1>9, <1>10, <1>11,
     <1>12, <1>13, <1>14, <1>15, <1>16, <1>17, <1>18, <1>19 DEF Next,
     MonitorStep, Terminated

(***************************************************************************)
(* Taking the lock for the report and sending the report keep the types.   *)
(***************************************************************************)
LEMMA ReportType == TypeOK /\ (ReportLock \/ Report) => TypeOK'
<1> SUFFICES ASSUME TypeOK, ReportLock \/ Report PROVE TypeOK'
  OBVIOUS
<1>1. /\ UNCHANGED <<queue, numbers, heap, path, collectors, lockExists,
                    updateResult, data, clock, lastEvent, mpc, seen, strings,
                    held, taken, rewritten>>
      /\ upc' \in {"idle", "report"} /\ lock' \in {lock, NoThread, "updater"}
  BY DEF ReportLock, Report, settings, locks, reader, monitor, progress, history
<1>2. reportFailed' \in BOOLEAN
  <2>1. reportFailed' \in {reportFailed, TRUE, FALSE}
    BY DEF ReportLock, Report
  <2> QED
    BY <2>1 DEF TypeOK
<1> QED
  BY <1>1, <1>2 DEF TypeOK

(***************************************************************************)
(* So do the three copies of GetLastTwinUpdateData.                        *)
(***************************************************************************)
LEMMA LastDataType ==
  TypeOK /\ (GetLastResult \/ GetLastTime \/ GetLastStatus) => TypeOK'
<1> SUFFICES ASSUME TypeOK, GetLastResult \/ GetLastTime \/ GetLastStatus
             PROVE  TypeOK'
  OBVIOUS
<1>1. UNCHANGED <<queue, numbers, heap, path, collectors, lock, lockExists,
                  reportFailed, updateResult, clock, lastEvent, upc, seen,
                  strings, held, taken, rewritten>>
  BY DEF GetLastResult, GetLastTime, GetLastStatus, others, settings, report,
     updater, progress, history
<1>2. mpc' \in {"getTime", "getStatus", "cleanup", "validate", "mismatch", "push"}
  BY DEF GetLastResult, GetLastTime, GetLastStatus
<1>3. updateResult \in Data /\ data \in Data
  BY DEF TypeOK
<1>4. data' \in Data
  <2>1. CASE GetLastResult
    BY <1>3, <2>1, NothingType DEF GetLastResult, Data
  <2>2. CASE GetLastTime
    BY <1>3, <2>2 DEF GetLastTime, Data
  <2>3. CASE GetLastStatus
    BY <1>3, <2>3 DEF GetLastStatus, Data
  <2> QED
    BY <2>1, <2>2, <2>3
<1> QED
  BY <1>1, <1>2, <1>4 DEF TypeOK

(***************************************************************************)
(* Every step stores values of the fields' types, and the one string alive *)
(* is the one the configuration points to.                                 *)
(***************************************************************************)
LEMMA TypeStep == Inv /\ [Next]_vars => TypeOK'
<1> SUFFICES ASSUME Inv, [Next]_vars PROVE TypeOK'
  OBVIOUS
<1> USE DEF Inv, TypeOK, Data, Results, NoThread, NULL, settings, locks,
   report, updater, reader, monitor, progress, history, others
<1>1. CASE Tick
  BY <1>1, TwinConfigurationAssumption DEF Tick
<1>2. CASE DeviceTwinCallback
  BY <1>2 DEF DeviceTwinCallback, NoItem
<1>3. CASE Execute
  <2>1. taken' \in BOOLEAN
    BY <1>3, Zenon DEF Execute
  <2> QED
    BY <1>3, <2>1 DEF Execute, NoItem
<1>4. CASE Deinit
  BY <1>4 DEF Deinit
<1>5. CASE Parse
  BY <1>5 DEF Parse, Mismatches
<1>6. CASE Lock
  BY <1>6 DEF Lock
<1>7. CASE UpdateCollectors
  <2>1. /\ UNCHANGED <<path, heap, numbers, queue, lock, lockExists, updateResult,
                     clock, reportFailed, data, mpc, seen, held, lastEvent,
                     strings, taken>>
        /\ upc' \in {"free", "status"} /\ rewritten' \in {rewritten, TRUE}
    BY <1>7 DEF UpdateCollectors, FreedLater
  <2>2. collectors' \in [CollectorKeys -> Nat]
    <3>1. \/ Wrong(update) = {} /\ collectors' = CollectorsOf(update)
          \/ collectors' = Normalised(collectors)
          \/ collectors' = collectors
      BY <1>7 DEF UpdateCollectors
    <3>2. update \in Updates
      BY <1>7 DEF UpdateCollectors, Control
    <3> QED
      BY <3>1, <3>2, CollectorsType, NormalisedType
  <2>3. rewritten' \in BOOLEAN
    BY <2>1
  <2> QED
    BY <2>1, <2>2, <2>3
<1>8. CASE SafeDeinit
  BY <1>8 DEF SafeDeinit, Cleared, Freed
<1>9. CASE DeepCopyNumbers
  BY <1>9, NumbersType DEF DeepCopyNumbers, Control, Applying, Copied
<1>10. CASE DeepCopyString
  <2>0. taken' \in BOOLEAN /\ rewritten' \in BOOLEAN
    BY <1>10, Zenon DEF DeepCopyString, Install
  <2>1. CASE strings' = strings /\ UNCHANGED <<path, heap>>
    BY <1>10, <2>0, <2>1 DEF DeepCopyString
  <2>2. CASE /\ strings' = strings + 1 /\ path' = strings + 1
             /\ DOMAIN heap' = DOMAIN heap \cup {strings + 1}
    <3>1. DOMAIN heap = {}
      BY <1>10 DEF DeepCopyString, Install, Settings
    <3> QED
      BY <1>10, <2>0, <2>2, <3>1 DEF DeepCopyString
  <2> QED
    BY <1>10, <2>1, <2>2 DEF DeepCopyString
<1>11. CASE WriteStatus
  <2>1. taken' \in BOOLEAN /\ rewritten' \in BOOLEAN
    BY <1>11, Zenon DEF WriteStatus
  <2> QED
    BY <1>11, <2>1 DEF WriteStatus, Control
<1>12. CASE WriteResult
  <2>1. taken' \in BOOLEAN /\ rewritten' \in BOOLEAN
    BY <1>12, Zenon DEF WriteResult
  <2>2. updateResult' \in Data
    BY <1>12 DEF WriteResult, Control, Recording, Recorded
  <2> QED
    BY <1>12, <2>1, <2>2 DEF WriteResult
<1>13. CASE WriteTime
  <2>1. taken' \in BOOLEAN /\ rewritten' \in BOOLEAN
    BY <1>13, Zenon DEF WriteTime
  <2>2. updateResult' \in Data
    BY <1>13, TwinConfigurationAssumption DEF WriteTime
  <2> QED
    BY <1>13, <2>1, <2>2 DEF WriteTime
<1>14. CASE Unlock
  BY <1>14 DEF Unlock
<1>15. CASE TwinConfigurationDeinit
  <2>1. /\ path' = 0 /\ held' = held /\ strings' = strings /\ lockExists' = FALSE
        /\ DOMAIN heap' = {}
    BY <1>15 DEF TwinConfigurationDeinit, Freed
  <2>2. DOMAIN heap' = {path'} \ {0} /\ path' \in 0 .. strings'
    BY <1>15, <2>1
  <2>3. lockExists' \in BOOLEAN /\ reportFailed' \in BOOLEAN
    BY <1>15, <2>1 DEF TwinConfigurationDeinit
  <2> QED
    BY <1>15, <2>1, <2>2, <2>3 DEF TwinConfigurationDeinit
<1>16. CASE ReportLock
  <2> HIDE DEF TypeOK
  <2> QED
    BY <1>16, ReportType
<1>17. CASE Report
  <2> HIDE DEF TypeOK
  <2> QED
    BY <1>17, ReportType
<1>18. CASE MonitorStep
  <2>1. CASE GetLastResult \/ GetLastTime \/ GetLastStatus
    <3> HIDE DEF TypeOK
    <3> QED
      BY <2>1, LastDataType
  <2>2. CASE ReadField
    <3>1. Len(seen) + 1 \in 1 .. 5
      <4>1. Len(seen) < Len(Reads)
        BY <2>2 DEF ReadField, Reading
      <4>2. Len(seen) \in Nat
        OBVIOUS
      <4> QED
        BY <4>1, <4>2, ReadsBound
    <3>2. numbers[Reads[Len(seen) + 1]] \in Nat
      BY <3>1, ReadsType
    <3> QED
      BY <2>2, <3>2 DEF ReadField
  <2>3. CASE GetField
    BY <2>3 DEF GetField
  <2>4. CASE SerializeMismatch
    BY <2>4 DEF SerializeMismatch
  <2>5. CASE PushEvent
    BY <2>5 DEF PushEvent
  <2>6. CASE GetEventsCleanup
    BY <2>6, NothingType DEF GetEventsCleanup
  <2>7. CASE ReadPath
    BY <2>7 DEF ReadPath
  <2>8. CASE GetPath
    BY <2>8 DEF GetPath
  <2>9. CASE UsePath
    BY <2>9 DEF UsePath
  <2> QED
    BY <1>18, <2>1, <2>2, <2>3, <2>4, <2>5, <2>6, <2>7, <2>8, <2>9
       DEF MonitorStep
<1>19. CASE UNCHANGED vars
  BY <1>19 DEF vars
<1> QED
  BY <1>1, <1>2, <1>3, <1>4, <1>5, <1>6, <1>7, <1>8, <1>9, <1>10, <1>11,
     <1>12, <1>13, <1>14, <1>15, <1>16, <1>17, <1>18, <1>19 DEF Next,
     MonitorStep, Terminated

(***************************************************************************)
(* The settings are those of the update in force wherever they are settled. *)
(***************************************************************************)
LEMMA SettingsStep == Inv /\ [Next]_vars => Settings'
<1> SUFFICES ASSUME Inv, [Next]_vars PROVE Settings'
  OBVIOUS
<1> USE DEF Inv, Control, Settings, Settled, Serialized, InForce, Contents, Live,
   Applying, Replacing, Recording, Results, NULL, settings, locks, report,
   updater, reader, monitor, progress, history, others
<1>1. CASE Tick
  BY <1>1 DEF Tick
<1>2. CASE DeviceTwinCallback
  BY <1>2 DEF DeviceTwinCallback
<1>3. CASE Execute
  BY <1>3 DEF Execute
<1>4. CASE Deinit
  BY <1>4 DEF Deinit
<1>5. CASE Parse
  BY <1>5 DEF Parse
<1>6. CASE Lock
  BY <1>6 DEF Lock
<1>7. CASE UpdateCollectors
  <2>1. /\ UNCHANGED <<numbers, path, heap, lockExists, installed, update>>
        /\ Settled /\ Serialized = InForce
    BY <1>7 DEF UpdateCollectors, FreedLater
  <2>2. CASE upc' = "free"
    BY <1>7, <2>2 DEF UpdateCollectors
  <2>3. CASE collectors' = Normalised(collectors) /\ rewritten' = TRUE /\ upc' = "status"
    <3>1. collectors' = Normalised(CollectorsOf(installed))
      BY <2>1, <2>3, InForceIs, NormalisedTwice
    <3>2. numbers = Numbers(installed) /\ Contents(path) = PathOf(installed)
      BY <2>1, InForceIs
    <3>3. InForce' = [form |-> "object", numbers |-> Numbers(installed),
              collectors |-> Normalised(CollectorsOf(installed)),
              path |-> PathOf(installed)]
      BY <2>1, <2>3 DEF Configuration
    <3> HIDE DEF InForce
    <3>4. Serialized' = InForce'
      BY <2>1, <3>1, <3>2, <3>3
    <3> QED
      BY <2>3, <3>4
  <2>4. CASE UNCHANGED <<collectors, rewritten>> /\ upc' = "status"
    BY <2>1, <2>4
  <2> QED
    BY <1>7, <2>2, <2>3, <2>4 DEF UpdateCollectors
<1>8. CASE SafeDeinit
  BY <1>8 DEF SafeDeinit, Cleared, Freed
<1>9. CASE DeepCopyNumbers
  BY <1>9 DEF DeepCopyNumbers, Copied
<1>10. CASE DeepCopyString
  BY <1>10 DEF DeepCopyString, Install, Configuration, TypeOK, PathOf, Absent
<1>11. CASE WriteStatus
  BY <1>11 DEF WriteStatus
<1>12. CASE WriteResult
  BY <1>12 DEF WriteResult
<1>13. CASE WriteTime
  BY <1>13 DEF WriteTime
<1>14. CASE Unlock
  BY <1>14 DEF Unlock, IsReported
<1>15. CASE TwinConfigurationDeinit
  BY <1>15 DEF TwinConfigurationDeinit, Freed
<1>16. CASE ReportLock
  BY <1>16 DEF ReportLock
<1>17. CASE Report
  BY <1>17 DEF Report
<1>18. CASE MonitorStep
  BY <1>18, MonitorFrame
<1>19. CASE UNCHANGED vars
  BY <1>19 DEF vars
<1> QED
  BY <1>1, <1>2, <1>3, <1>4, <1>5, <1>6, <1>7, <1>8, <1>9, <1>10, <1>11,
     <1>12, <1>13, <1>14, <1>15, <1>16, <1>17, <1>18, <1>19 DEF Next,
     MonitorStep, Terminated

(***************************************************************************)
(* The hub was told the settings wherever they are settled.                *)
(***************************************************************************)
LEMMA ToldStep == Inv /\ [Next]_vars => Told'
<1> SUFFICES ASSUME Inv, [Next]_vars PROVE Told'
  OBVIOUS
<1> USE DEF Inv, Control, Told, Settled, Serialized, Contents, Live, Applying,
   Replacing, Recording, Reporting, Results, TypeOK, NULL, settings, locks,
   report, updater, reader, monitor, progress, history, others
<1>1. CASE Tick
  BY <1>1 DEF Tick
<1>2. CASE DeviceTwinCallback
  BY <1>2 DEF DeviceTwinCallback
<1>3. CASE Execute
  BY <1>3 DEF Execute
<1>4. CASE Deinit
  BY <1>4 DEF Deinit
<1>5. CASE Parse
  BY <1>5 DEF Parse
<1>6. CASE Lock
  BY <1>6 DEF Lock
<1>7. CASE UpdateCollectors
  BY <1>7 DEF UpdateCollectors, FreedLater
<1>8. CASE SafeDeinit
  BY <1>8 DEF SafeDeinit, Cleared, Freed
<1>9. CASE DeepCopyNumbers
  BY <1>9 DEF DeepCopyNumbers, Copied
<1>10. CASE DeepCopyString
  BY <1>10 DEF DeepCopyString, Install, Configuration, PathOf
<1>11. CASE WriteStatus
  BY <1>11 DEF WriteStatus
<1>12. CASE WriteResult
  BY <1>12 DEF WriteResult
<1>13. CASE WriteTime
  BY <1>13 DEF WriteTime
<1>14. CASE Unlock
  BY <1>14 DEF Unlock, IsReported
<1>15. CASE TwinConfigurationDeinit
  BY <1>15 DEF TwinConfigurationDeinit, Freed
<1>16. CASE ReportLock
  BY <1>16 DEF ReportLock
<1>17. CASE Report
  BY <1>17 DEF Report
<1>18. CASE MonitorStep
  BY <1>18, MonitorFrame
<1>19. CASE UNCHANGED vars
  BY <1>19 DEF vars
<1> QED
  BY <1>1, <1>2, <1>3, <1>4, <1>5, <1>6, <1>7, <1>8, <1>9, <1>10, <1>11,
     <1>12, <1>13, <1>14, <1>15, <1>16, <1>17, <1>18, <1>19 DEF Next,
     MonitorStep, Terminated

(***************************************************************************)
(* What the monitor has read is spoilt by a step of an update and by nothing *)
(* else.                                                                   *)
(***************************************************************************)
LEMMA ReadingStep == Inv /\ [Next]_vars => Reading'
<1> SUFFICES ASSUME Inv, [Next]_vars PROVE Reading'
  OBVIOUS
<1> USE DEF Inv, Control, Reading, Undisturbed, Live, TypeOK, Overtakes, NULL,
   Applying, Replacing, Recording, settings, locks, report, updater, reader,
   monitor, progress, history, others
<1>1. CASE Tick
  BY <1>1 DEF Tick
<1>2. CASE DeviceTwinCallback
  BY <1>2 DEF DeviceTwinCallback
<1>3. CASE Execute
  BY <1>3 DEF Execute
<1>4. CASE Deinit
  BY <1>4 DEF Deinit
<1>5. CASE Parse
  BY <1>5 DEF Parse
<1>6. CASE Lock
  BY <1>6 DEF Lock
<1>7. CASE UpdateCollectors
  BY <1>7 DEF UpdateCollectors, FreedLater
<1>8. CASE SafeDeinit
  BY <1>8 DEF SafeDeinit, Cleared, Freed
<1>9. CASE DeepCopyNumbers
  BY <1>9 DEF DeepCopyNumbers, Copied
<1>10. CASE DeepCopyString
  BY <1>10 DEF DeepCopyString, Install, PathOf
<1>11. CASE WriteStatus
  BY <1>11 DEF WriteStatus
<1>12. CASE WriteResult
  BY <1>12 DEF WriteResult
<1>13. CASE WriteTime
  BY <1>13 DEF WriteTime
<1>14. CASE Unlock
  BY <1>14 DEF Unlock, IsReported
<1>15. CASE TwinConfigurationDeinit
  BY <1>15 DEF TwinConfigurationDeinit, Freed
<1>16. CASE ReportLock
  BY <1>16 DEF ReportLock
<1>17. CASE Report
  BY <1>17 DEF Report
<1>18. CASE MonitorStep
  <2>1. CASE GetLastResult
    <3>1. ~overtaken' =>
            upc \notin {"copy", "copyString", "result", "time", "deinit"}
      BY <2>1 DEF GetLastResult, ReadsBegin
    <3>2. data'.result = updateResult.result
      BY <2>1, NothingType DEF GetLastResult, Data
    <3> QED
      BY <2>1, <3>1, <3>2 DEF GetLastResult
  <2>2. CASE GetLastTime
    BY <2>2 DEF GetLastTime, Data, Results
  <2>3. CASE GetLastStatus
    <3>1. /\ data'.result = data.result /\ data'.time = data.time
          /\ data'.status = updateResult.status /\ data' \in Data
      BY <2>3 DEF GetLastStatus, Data
    <3>2. ASSUME Undisturbed PROVE data' \in results
      <4>1. data' = updateResult
        BY <2>3, <3>1, <3>2 DEF GetLastStatus, Data
      <4> QED
        BY <2>3, <3>2, <4>1 DEF GetLastStatus
    <3> QED
      BY <2>3, <3>2, ReadsType DEF GetLastStatus
  <2>4. CASE ReadField
    <3>1. Len(seen) + 1 \in 1 .. 5
      <4>1. Len(seen) < Len(Reads)
        BY <2>4 DEF ReadField
      <4>2. Len(seen) \in Nat
        OBVIOUS
      <4> QED
        BY <4>1, <4>2, ReadsBound
    <3>2. numbers[Reads[Len(seen) + 1]] \in Nat
      BY <3>1, ReadsType
    <3>3. /\ Len(seen') = Len(seen) + 1 /\ DOMAIN seen' = 1 .. Len(seen) + 1
          /\ seen'[Len(seen) + 1] = numbers[Reads[Len(seen) + 1]]
          /\ \A i \in 1 .. Len(seen) : seen'[i] = seen[i]
      BY <2>4, <3>2 DEF ReadField
    <3>4. DOMAIN seen = 1 .. Len(seen) /\ Len(seen) \in Nat
      OBVIOUS
    <3>5. Undisturbed => \A i \in DOMAIN seen' : seen'[i] = numbers[Reads[i]]
      BY <3>3, <3>4
    <3> QED
      BY <2>4, <3>1, <3>3, <3>5, ReadsBound, SMTT(40) DEF ReadField
  <2>5. CASE GetField
    <3>1. Len(seen) \in Nat /\ Len(seen) <= Len(Reads)
      BY <2>5 DEF GetField
    <3>2. mpc' = "validate" => Len(seen) # Len(Reads)
      BY <2>5 DEF GetField
    <3>3. mpc' = "validate" => Len(seen) < Len(Reads)
      BY <3>1, <3>2, ReadsBound
    <3> QED
      BY <2>5, <3>3 DEF GetField
  <2>6. CASE SerializeMismatch
    BY <2>6 DEF SerializeMismatch
  <2>7. CASE PushEvent
    BY <2>7 DEF PushEvent
  <2>8. CASE GetEventsCleanup
    BY <2>8 DEF GetEventsCleanup
  <2>9. CASE ReadPath
    <3>1. ~overtaken' =>
            upc \notin {"copy", "copyString", "result", "time", "deinit"}
      BY <2>9 DEF ReadPath, ReadsBegin
    <3>2. held' = 0 \/ held' \in DOMAIN heap
      BY <2>9 DEF ReadPath
    <3> QED
      BY <2>9, <3>1, <3>2 DEF ReadPath
  <2>10. CASE GetPath
    BY <2>10 DEF GetPath
  <2>11. CASE UsePath
    BY <2>11 DEF UsePath
  <2> QED
    BY <1>18, <2>1, <2>2, <2>3, <2>4, <2>5, <2>6, <2>7, <2>8, <2>9, <2>10, <2>11
       DEF MonitorStep
<1>19. CASE UNCHANGED vars
  BY <1>19 DEF vars
<1> QED
  BY <1>1, <1>2, <1>3, <1>4, <1>5, <1>6, <1>7, <1>8, <1>9, <1>10, <1>11,
     <1>12, <1>13, <1>14, <1>15, <1>16, <1>17, <1>18, <1>19 DEF Next,
     MonitorStep, Terminated

-----------------------------------------------------------------------------
(***************************************************************************)
(* The invariant of the twin configuration holds in every state.           *)
(***************************************************************************)
LEMMA InvCorrect == Spec => []Inv
<1>1. Inv /\ [Next]_vars => Inv'
  BY TypeStep, ControlStep, TruthStep, SettingsStep, ToldStep, ReadingStep
     DEF Inv
<1> QED
  BY InitInv, <1>1, PTL DEF Spec

(***************************************************************************)
(* Whatever updates arrive and wherever they fail, the fields keep their   *)
(* types, no string is leaked and none is freed twice.                     *)
(***************************************************************************)
THEOREM TypeCorrect == Spec => []TypeOK
<1>1. Inv => TypeOK
  BY DEF Inv
<1> QED
  BY InvCorrect, <1>1, PTL

(***************************************************************************)
(* Whoever gets the configuration's lock finds the settings of one update: *)
(* the thread that replaces them holds the lock until the last one is      *)
(* written, and one that runs out of memory takes the lock down with it.   *)
(***************************************************************************)
THEOREM ConfigurationCorrect == Spec => []ConfigurationWhole
<1>1. Inv => ConfigurationWhole
  <2> SUFFICES ASSUME Inv, lock = NoThread, lockExists, upc # "deinit"
               PROVE  /\ DOMAIN heap = {path} \ {NULL}
                      /\ Serialized = InForce
    BY DEF ConfigurationWhole
  <2>1. Settled
    BY DEF Inv, Control, Settled, Replacing, Recording, NoThread
  <2> QED
    BY <2>1 DEF Inv, TypeOK, Settings
<1> QED
  BY InvCorrect, <1>1, PTL

(***************************************************************************)
(* The recorded result is true of the update that was handled last.        *)
(***************************************************************************)
THEOREM ResultCorrect == Spec => []ResultTruthful
<1>1. Inv => ResultTruthful
  BY DEF Inv, Truth, Tells, ResultTruthful
<1> QED
  BY InvCorrect, <1>1, PTL

(***************************************************************************)
(* The hub knows the configuration in force after every report that went   *)
(* out: an update that is not reported has changed nothing, or has taken   *)
(* the lock down.                                                          *)
(***************************************************************************)
THEOREM HubViewCorrect == Spec => []HubViewCurrent
<1>1. Inv => HubViewCurrent
  BY DEF Inv, Told, Settled, Replacing, Recording, Reporting, HubViewCurrent
<1> QED
  BY InvCorrect, <1>1, PTL

(***************************************************************************)
(* The monitor's reads, which hold no lock over several fields, are spoilt *)
(* by a step of an update between them and by nothing else.                *)
(***************************************************************************)
THEOREM ReadsCorrect == Spec => []ReadsSpoiltOnlyByUpdate
<1>1. Inv => ReadsSpoiltOnlyByUpdate
  <2> SUFFICES ASSUME Inv, ~overtaken
               PROVE  /\ mpc = "usePath" /\ held # NULL => Live(held)
                      /\ mpc \in {"validate", "getter", "mismatch", "push"} =>
                            data \in results
                      /\ \E c \in configurations :
                            \A i \in DOMAIN seen : seen[i] = c[Reads[i]]
    BY DEF ReadsSpoiltOnlyByUpdate
  <2>1. numbers \in configurations
    BY DEF Inv, Reading
  <2>2. \A i \in DOMAIN seen : seen[i] = numbers[Reads[i]]
    <3>1. CASE mpc = "idle"
      BY <3>1 DEF Inv, Reading
    <3>2. CASE mpc # "idle"
      BY <3>2 DEF Inv, Reading, Undisturbed
    <3> QED
      BY <3>1, <3>2
  <2> QED
    BY <2>1, <2>2 DEF Inv, Reading, Undisturbed
<1> QED
  BY InvCorrect, <1>1, PTL

-----------------------------------------------------------------------------
(* Durations.                                                              *)

(***************************************************************************)
(* Induction over the natural numbers, for a set: it follows from their    *)
(* order being well founded.                                               *)
(***************************************************************************)
LEMMA SetInduction ==
  ASSUME NEW S, 0 \in S, \A n \in Nat : n \in S => n + 1 \in S
  PROVE  \A n \in Nat : n \in S
<1> DEFINE R == {ss \in Nat \X Nat : ss[1] < ss[2]}
           T == Nat \ S
<1>1. IsWellFoundedOn(R, Nat)
  BY NatLessThanWellFounded DEF OpToRel
<1>2. ASSUME T # {} PROVE FALSE
  <2>1. PICK x \in T : \A y \in T : <<y, x>> \notin R
    <3> HIDE DEF R
    <3> QED
      BY <1>1, <1>2, WFMin
  <2>2. x \in Nat /\ x # 0
    OBVIOUS
  <2>3. x - 1 \in Nat /\ <<x - 1, x>> \in R
    BY <2>2
  <2>4. x - 1 \in S
    BY <2>1, <2>3
  <2> QED
    BY <2>2, <2>3, <2>4
<1> QED
  BY <1>2

(* The units of a part: where a letter stands among them.                  *)
Parts == {"date", "time"}

Position(p, l) ==
    IF p = "date"
    THEN IF l = "Y" THEN 1 ELSE IF l = "M" THEN 2 ELSE
         IF l = "W" THEN 3 ELSE IF l = "D" THEN 4 ELSE 0
    ELSE IF l = "H" THEN 1 ELSE IF l = "M" THEN 2 ELSE
         IF l = "S" THEN 3 ELSE 0

(***************************************************************************)
(* Position is the index in the list of units.                             *)
(***************************************************************************)
LEMMA PositionIs ==
  ASSUME NEW p \in Parts
  PROVE  /\ Len(Units(p)) = IF p = "date" THEN 4 ELSE 3
         /\ \A l : Position(p, l) \in 0..Len(Units(p))
         /\ \A l : \A i \in 1..Len(Units(p)) :
               Units(p)[i] = l <=> Position(p, l) = i
<1>1. Len(DateUnits) = 4 /\ Len(TimeUnits) = 3
  BY DEF DateUnits, TimeUnits
<1>2. CASE p = "date"
  BY <1>1, <1>2 DEF Units, DateUnits, Position
<1>3. CASE p = "time"
  BY <1>1, <1>3 DEF Units, TimeUnits, Position
<1> QED
  BY <1>2, <1>3 DEF Parts

(***************************************************************************)
(* The seconds of the units.                                               *)
(***************************************************************************)
LEMMA UnitIs ==
  /\ Unit("date", "Y") = 31536000 /\ Unit("date", "M") = 2592000
  /\ Unit("date", "W") = 604800 /\ Unit("date", "D") = 86400
  /\ Unit("time", "H") = 3600 /\ Unit("time", "M") = 60
  /\ Unit("time", "S") = 1
  BY DEF Unit, Seconds

(***************************************************************************)
(* A known letter is one of the seven units.                               *)
(***************************************************************************)
LEMMA KnownLetter ==
  ASSUME NEW p \in Parts, NEW l, Position(p, l) # 0
  PROVE  \/ p = "date" /\ l \in {"Y", "M", "W", "D"}
         \/ p = "time" /\ l \in {"H", "M", "S"}
  BY DEF Position, Parts

(***************************************************************************)
(* The guard of a number: it is within the unit's limit exactly when its   *)
(* seconds are within 32 bits of milliseconds.                             *)
(***************************************************************************)
LEMMA LimitIs ==
  ASSUME NEW p \in Parts, NEW l, NEW n \in Nat, Position(p, l) # 0
  PROVE  /\ n * Unit(p, l) \in Nat
         /\ n <= MaxInUInt32(p, l) <=> n * Unit(p, l) <= UInt32Max
<1> USE UnitIs DEF MaxInUInt32, UInt32Max
<1>1. CASE p = "date" /\ l = "Y"
  BY <1>1
<1>2. CASE p = "date" /\ l = "M"
  BY <1>2
<1>3. CASE p = "date" /\ l = "W"
  BY <1>3
<1>4. CASE p = "date" /\ l = "D"
  BY <1>4
<1>5. CASE p = "time" /\ l = "H"
  BY <1>5
<1>6. CASE p = "time" /\ l = "M"
  BY <1>6
<1>7. CASE p = "time" /\ l = "S"
  BY <1>7
<1> QED
  BY <1>1, <1>2, <1>3, <1>4, <1>5, <1>6, <1>7, KnownLetter

(* What a field adds, and the equation of the reference's sums.            *)
Worth(p, f) == f.n * Unit(p, f.letter)
AreSums(g, p, fs, n) ==
    g = [i \in 0..n |-> IF i = 0 THEN 0 ELSE g[i - 1] + Worth(p, fs[i])]

(***************************************************************************)
(* The sums of the reference are well defined: by induction, a function    *)
(* satisfies their equation.                                               *)
(***************************************************************************)
LEMMA SumsExist ==
  ASSUME NEW p, NEW fs, NEW n \in Nat
  PROVE  \E g : AreSums(g, p, fs, n)
<1> DEFINE S == {m \in Nat : \E g : AreSums(g, p, fs, m)}
<1>1. 0 \in S
  <2>1. AreSums([i \in 0..0 |-> 0], p, fs, 0)
    BY DEF AreSums
  <2> QED
    BY <2>1
<1>2. ASSUME NEW m \in Nat, m \in S PROVE m + 1 \in S
  <2>1. PICK g : AreSums(g, p, fs, m)
    BY <1>2
  <2> DEFINE h == [i \in 0..m + 1 |-> IF i = m + 1 THEN g[m] + Worth(p, fs[m + 1])
                                                   ELSE g[i]]
  <2>2. \A i \in 0..m : g[i] = IF i = 0 THEN 0 ELSE g[i - 1] + Worth(p, fs[i])
    BY <2>1 DEF AreSums
  <2>3. \A i \in 0..m + 1 : h[i] = IF i = 0 THEN 0 ELSE h[i - 1] + Worth(p, fs[i])
    BY <2>2
  <2>4. AreSums(h, p, fs, m + 1)
    BY <2>3 DEF AreSums
  <2> QED
    BY <2>4
<1> HIDE DEF S
<1>3. \A m \in Nat : m \in S
  BY <1>1, <1>2, SetInduction
<1> QED
  BY <1>3 DEF S

(***************************************************************************)
(* Hence the recursion equation of Sums.                                   *)
(***************************************************************************)
LEMMA SumsStep ==
  ASSUME NEW p, NEW fs \in FieldSeqs
  PROVE  /\ DOMAIN Sums(p, fs) = 0..Len(fs)
         /\ Sums(p, fs)[0] = 0
         /\ \A k \in 0..Len(fs) : k # Len(fs) =>
               Sums(p, fs)[k + 1] = Sums(p, fs)[k] + Worth(p, fs[k + 1])
<1>1. Len(fs) \in Nat
  BY DEF FieldSeqs
<1>2. Sums(p, fs) = CHOOSE g : g = [i \in 0..Len(fs) |->
          IF i = 0 THEN 0 ELSE g[i - 1] + fs[i].n * Unit(p, fs[i].letter)]
  BY Zenon DEF Sums
<1>3. Sums(p, fs) = CHOOSE g : AreSums(g, p, fs, Len(fs))
  BY <1>2, Zenon DEF AreSums, Worth
<1>4. AreSums(Sums(p, fs), p, fs, Len(fs))
  BY <1>1, <1>3, SumsExist
<1>5. \A i \in 0..Len(fs) :
        Sums(p, fs)[i] = IF i = 0 THEN 0 ELSE Sums(p, fs)[i - 1] + Worth(p, fs[i])
  BY <1>4 DEF AreSums
<1>6. DOMAIN Sums(p, fs) = 0..Len(fs)
  BY <1>4 DEF AreSums
<1>7. ASSUME NEW k \in 0..Len(fs), k # Len(fs)
      PROVE  Sums(p, fs)[k + 1] = Sums(p, fs)[k] + Worth(p, fs[k + 1])
  <2>1. k + 1 \in 0..Len(fs) /\ k + 1 # 0 /\ (k + 1) - 1 = k
    BY <1>1, <1>7
  <2>2. Sums(p, fs)[k + 1] = Sums(p, fs)[(k + 1) - 1] + Worth(p, fs[k + 1])
    BY <1>5, <2>1
  <2> QED
    BY <2>1, <2>2
<1>8. Sums(p, fs)[0] = 0
  BY <1>1, <1>5
<1> QED
  BY <1>6, <1>7, <1>8

(* The first k fields are of units that the part has.                      *)
Known(p, fs, k) == \A i \in 1..k : Position(p, fs[i].letter) # 0

(***************************************************************************)
(* Fields of known units are worth a natural number of seconds.            *)
(***************************************************************************)
LEMMA WorthType ==
  ASSUME NEW p \in Parts, NEW fs \in FieldSeqs, NEW i \in 1..Len(fs),
         Position(p, fs[i].letter) # 0
  PROVE  Worth(p, fs[i]) \in Nat
<1>1. fs[i] \in Fields
  BY DEF FieldSeqs
<1>2. fs[i].n \in Nat
  BY <1>1 DEF Fields
<1> QED
  BY <1>2, LimitIs DEF Worth

(***************************************************************************)
(* The sums of known units are natural numbers.                            *)
(***************************************************************************)
LEMMA SumsType ==
  ASSUME NEW p \in Parts, NEW fs \in FieldSeqs, NEW k \in 0..Len(fs), Known(p, fs, k)
  PROVE  Sums(p, fs)[k] \in Nat
<1> DEFINE S == {m \in Nat : m <= k => Sums(p, fs)[m] \in Nat}
<1>0. Len(fs) \in Nat
  BY DEF FieldSeqs
<1>1. 0 \in S
  BY SumsStep
<1>2. ASSUME NEW m \in Nat, m \in S PROVE m + 1 \in S
  <2> SUFFICES ASSUME m + 1 <= k PROVE Sums(p, fs)[m + 1] \in Nat
    OBVIOUS
  <2>1. Sums(p, fs)[m] \in Nat
    BY <1>2
  <2>2. m \in 0..Len(fs) /\ m # Len(fs) /\ m + 1 \in 1..Len(fs) /\ m + 1 \in 1..k
    BY <1>0
  <2>3. Worth(p, fs[m + 1]) \in Nat
    BY <2>2, WorthType DEF Known
  <2>4. Sums(p, fs)[m + 1] = Sums(p, fs)[m] + Worth(p, fs[m + 1])
    BY <2>2, SumsStep
  <2> QED
    BY <2>1, <2>3, <2>4
<1> HIDE DEF S
<1>3. \A m \in Nat : m \in S
  BY <1>1, <1>2, SetInduction
<1>4. k \in S /\ k \in Nat
  BY <1>0, <1>3
<1> QED
  BY <1>4 DEF S

(***************************************************************************)
(* They grow with every field.                                             *)
(***************************************************************************)
LEMMA SumsGrow ==
  ASSUME NEW p \in Parts, NEW fs \in FieldSeqs, Known(p, fs, Len(fs)),
         NEW k \in 0..Len(fs)
  PROVE  Sums(p, fs)[k] <= Total(p, fs)
<1> DEFINE S == {m \in Nat : k + m <= Len(fs) => Sums(p, fs)[k] <= Sums(p, fs)[k + m]}
<1>0. Len(fs) \in Nat /\ k \in Nat
  BY DEF FieldSeqs
<1>a. ASSUME NEW m \in 0..Len(fs) PROVE Sums(p, fs)[m] \in Nat
  <2>1. Known(p, fs, m)
    BY <1>0 DEF Known
  <2> QED
    BY <2>1, SumsType
<1>1. 0 \in S
  <2>1. k + 0 = k
    BY <1>0
  <2> QED
    BY <1>a, <2>1
<1>2. ASSUME NEW m \in Nat, m \in S PROVE m + 1 \in S
  <2> SUFFICES ASSUME k + (m + 1) <= Len(fs)
               PROVE  Sums(p, fs)[k] <= Sums(p, fs)[k + (m + 1)]
    OBVIOUS
  <2>1. Sums(p, fs)[k] <= Sums(p, fs)[k + m]
    BY <1>0, <1>2
  <2>2. /\ k + m \in 0..Len(fs) /\ k + m # Len(fs) /\ (k + m) + 1 \in 1..Len(fs)
        /\ (k + m) + 1 = k + (m + 1)
    BY <1>0
  <2>3. Worth(p, fs[(k + m) + 1]) \in Nat
    BY <2>2, WorthType DEF Known
  <2>4. Sums(p, fs)[(k + m) + 1] = Sums(p, fs)[k + m] + Worth(p, fs[(k + m) + 1])
    BY <2>2, SumsStep
  <2>5. Sums(p, fs)[k] \in Nat /\ Sums(p, fs)[k + m] \in Nat
    BY <1>a, <2>2
  <2> QED
    BY <2>1, <2>2, <2>3, <2>4, <2>5
<1> HIDE DEF S
<1>3. \A m \in Nat : m \in S
  BY <1>1, <1>2, SetInduction
<1>4. Len(fs) - k \in S /\ k + (Len(fs) - k) = Len(fs)
  BY <1>0, <1>3
<1> QED
  BY <1>0, <1>4 DEF S, Total

(***************************************************************************)
(* One more field adds its worth to the total.                             *)
(***************************************************************************)
LEMMA TotalAppend ==
  ASSUME NEW p \in Parts, NEW fs \in FieldSeqs, NEW f \in Fields
  PROVE  Append(fs, f) \in FieldSeqs /\ Total(p, Append(fs, f)) = Total(p, fs) + Worth(p, f)
<1> DEFINE gs == Append(fs, f)
           S == {m \in Nat : m <= Len(fs) => Sums(p, gs)[m] = Sums(p, fs)[m]}
<1>0. /\ gs \in FieldSeqs /\ Len(fs) \in Nat /\ Len(gs) = Len(fs) + 1
      /\ gs[Len(fs) + 1] = f /\ \A i \in 1..Len(fs) : gs[i] = fs[i]
  BY DEF FieldSeqs, Fields
<1> HIDE DEF gs
<1>1. 0 \in S
  BY <1>0, SumsStep
<1>2. ASSUME NEW m \in Nat, m \in S PROVE m + 1 \in S
  <2> SUFFICES ASSUME m + 1 <= Len(fs) PROVE Sums(p, gs)[m + 1] = Sums(p, fs)[m + 1]
    OBVIOUS
  <2>1. Sums(p, gs)[m] = Sums(p, fs)[m]
    BY <1>0, <1>2
  <2>2. /\ m \in 0..Len(fs) /\ m # Len(fs) /\ m \in 0..Len(gs) /\ m # Len(gs)
        /\ gs[m + 1] = fs[m + 1]
    BY <1>0
  <2>3. /\ Sums(p, gs)[m + 1] = Sums(p, gs)[m] + Worth(p, gs[m + 1])
        /\ Sums(p, fs)[m + 1] = Sums(p, fs)[m] + Worth(p, fs[m + 1])
    BY <1>0, <2>2, SumsStep
  <2> QED
    BY <2>1, <2>2, <2>3
<1> HIDE DEF S
<1>3. \A m \in Nat : m \in S
  BY <1>1, <1>2, SetInduction
<1>4. Sums(p, gs)[Len(fs)] = Sums(p, fs)[Len(fs)]
  BY <1>0, <1>3 DEF S
<1>5. Len(fs) \in 0..Len(gs) /\ Len(fs) # Len(gs)
  BY <1>0
<1>6. Sums(p, gs)[Len(fs) + 1] = Sums(p, gs)[Len(fs)] + Worth(p, f)
  BY <1>0, <1>5, SumsStep
<1>7. Total(p, gs) = Total(p, fs) + Worth(p, f)
  BY <1>0, <1>4, <1>6 DEF Total
<1> QED
  BY <1>0, <1>7 DEF gs

(* The first k fields are of known units, in order.                        *)
Ordered(p, fs, k) ==
    /\ Known(p, fs, k)
    /\ \A i, j \in 1..k :
          i < j => Position(p, fs[i].letter) < Position(p, fs[j].letter)

(***************************************************************************)
(* That is the order of the reference.                                     *)
(***************************************************************************)
LEMMA InOrderIs ==
  ASSUME NEW p \in Parts, NEW fs \in FieldSeqs
  PROVE  InOrder(p, fs) <=> Ordered(p, fs, Len(fs))
<1>0. Len(fs) \in Nat
  BY DEF FieldSeqs
<1>1. ASSUME InOrder(p, fs) PROVE Ordered(p, fs, Len(fs))
  <2>1. PICK place \in [1..Len(fs) -> 1..Len(Units(p))] :
          /\ \A i \in 1..Len(fs) : fs[i].letter = Units(p)[place[i]]
          /\ \A i, j \in 1..Len(fs) : i < j => place[i] < place[j]
    BY <1>1 DEF InOrder
  <2>2. \A i \in 1..Len(fs) : Position(p, fs[i].letter) = place[i] /\ place[i] # 0
    BY <2>1, PositionIs
  <2> QED
    BY <2>1, <2>2 DEF Ordered, Known
<1>2. ASSUME Ordered(p, fs, Len(fs)) PROVE InOrder(p, fs)
  <2> DEFINE place == [i \in 1..Len(fs) |-> Position(p, fs[i].letter)]
  <2>1. \A i \in 1..Len(fs) : place[i] \in 1..Len(Units(p))
    BY <1>2, PositionIs DEF Ordered, Known
  <2>2. \A i \in 1..Len(fs) : fs[i].letter = Units(p)[place[i]]
    BY <2>1, PositionIs
  <2>3. \A i, j \in 1..Len(fs) : i < j => place[i] < place[j]
    BY <1>2 DEF Ordered
  <2>4. place \in [1..Len(fs) -> 1..Len(Units(p))]
    BY <2>1
  <2> HIDE DEF place
  <2> QED
    BY <2>2, <2>3, <2>4 DEF InOrder
<1> QED
  BY <1>1, <1>2

-----------------------------------------------------------------------------
(***************************************************************************)
(* The inductive invariant.  Source is the part being parsed, Taken counts *)
(* its fields that are consumed.                                           *)
(***************************************************************************)
Source == text[part]
Taken == Len(Source) - Len(rest)
ShortText == Short(text.date) /\ Short(text.time)

Shapes ==
    /\ DurationTypeOK
    /\ text \in AllTexts /\ (~text.t => text.time = << >>)
    /\ rest \in FieldSeqs
    /\ fields \in [date : FieldSeqs, time : FieldSeqs]
    /\ used \in Nat
    /\ first # << >> => first[2] \in 1..UInt32Max

(* The rest is the end of the source, and its units were tested in order.  *)
Consumed ==
    /\ Len(rest) <= Len(Source) /\ Source # << >>
    /\ \A i \in 1..Len(rest) : rest[i] = Source[Taken + i]
    /\ pc = "units" <=> rest # << >>
    /\ at <= Len(Units(part)) + 1
    /\ Ordered(part, Source, Taken)
    /\ \A i \in 1..Taken : Position(part, Source[i].letter) < at
    /\ pc = "units" /\ Ordered(part, Source, Len(Source))
          => Position(part, rest[1].letter) >= at

(* What was added up is the value of what was consumed.                    *)
Added ==
    /\ ShortText => result = Sums(part, Source)[Taken]
    /\ part = "date" => dateResult = 0
    /\ part = "time" =>
          /\ text.t /\ Ordered("date", text.date, Len(text.date))
          /\ ShortText => dateResult = Total("date", text.date)

Parsing == pc \in {"units", "sum"} => text.p /\ Consumed /\ Added

Parsed ==
    pc = "end" =>
        /\ answer \in {"true", "false"}
        /\ answer = "false" => ~Accepted(text)
        /\ answer = "true" =>
              /\ milisec > 0
              /\ ShortText => Accepted(text) /\ milisec = Value(text)

(* The writer: what is written and what is left make up the value; what is *)
(* left is less than the unit written last, so a field has few digits.     *)
Left(i) == <<4294968, 2592000, 604800, 86400, 3600, 60, 1>>[i]
Room(i) == <<18, 16, 14, 12, 9, 6, 3>>[i]

Writing ==
    pc = "write" =>
        /\ first # << >>
        /\ milisec < Left(at) /\ len >= Room(at)
        /\ used + len <= IF at <= 4 THEN 19 ELSE 20
        /\ \A p \in Parts : Ordered(p, fields[p], Len(fields[p])) /\ Short(fields[p])
        /\ \A i \in 1..Len(fields.date) :
              Position("date", fields.date[i].letter) <= at
        /\ \A i \in 1..Len(fields.time) :
              Position("time", fields.time[i].letter) <= at - 4
        /\ at <= 4 => fields.time = << >>
        /\ Total("date", fields.date) + Total("time", fields.time) + milisec
             = first[2]

Rereading ==
    /\ pc \in {"parse", "units", "sum", "end"} /\ first # << >>
          => Accepted(text) /\ Value(text) = first[2]
    /\ pc # "write" => used <= 17
    /\ pc # "unreported"

DurationInv == Shapes /\ Parsing /\ Parsed /\ Writing /\ Rereading

(***************************************************************************)
(* The part being parsed is a sequence of fields.                          *)
(***************************************************************************)
LEMMA SourceIs ==
  ASSUME Shapes
  PROVE  /\ part \in Parts /\ text.date \in FieldSeqs /\ text.time \in FieldSeqs
         /\ Source = IF part = "date" THEN text.date ELSE text.time
         /\ Source \in FieldSeqs /\ Len(Source) \in Nat /\ Len(rest) \in Nat
<1>1. part \in Parts /\ text \in AllTexts
  BY DEF Shapes, DurationTypeOK, Parts
<1>2. text.date \in FieldSeqs /\ text.time \in FieldSeqs
  BY <1>1 DEF AllTexts
<1>3. Source = IF part = "date" THEN text.date ELSE text.time
  BY <1>1 DEF Source, AllTexts, Parts
<1>4. Source \in FieldSeqs
  BY <1>2, <1>3
<1>5. Len(Source) \in Nat /\ Len(rest) \in Nat
  BY <1>4 DEF FieldSeqs, Shapes
<1> QED
  BY <1>1, <1>2, <1>3, <1>4, <1>5

(***************************************************************************)
(* The next field while units are tested.                                  *)
(***************************************************************************)
LEMMA NextField ==
  ASSUME Shapes, Parsing, pc = "units"
  PROVE  /\ Taken \in 0..Len(Source) /\ Taken # Len(Source)
         /\ Taken + 1 \in 1..Len(Source) /\ Len(rest) \in Nat \ {0}
         /\ rest[1] = Head(rest) /\ Head(rest) = Source[Taken + 1]
         /\ Head(rest) \in Fields /\ Head(rest).n \in Nat
<1>1. Consumed
  BY DEF Parsing
<1>2. rest \in FieldSeqs /\ rest # << >> /\ Len(rest) \in Nat /\ Len(Source) \in Nat
  BY <1>1, SourceIs DEF Consumed, Shapes
<1>3. Len(rest) # 0 /\ rest[1] = Head(rest)
  BY <1>2 DEF FieldSeqs
<1>4. Head(rest) \in Fields
  BY <1>2 DEF FieldSeqs
<1>5. Head(rest).n \in Nat
  BY <1>4 DEF Fields
<1>6. 1 \in 1..Len(rest) /\ Len(rest) <= Len(Source)
  BY <1>1, <1>2, <1>3 DEF Consumed
<1>7. rest[1] = Source[Taken + 1]
  BY <1>1, <1>6 DEF Consumed
<1>8. Taken \in 0..Len(Source) /\ Taken # Len(Source) /\ Taken + 1 \in 1..Len(Source)
  BY <1>2, <1>6 DEF Taken
<1> QED
  BY <1>2, <1>3, <1>4, <1>5, <1>7, <1>8

(***************************************************************************)
(* The largest time is a number; its value is not needed otherwise.        *)
(***************************************************************************)
LEMMA WordIs == UInt32Max \in Nat /\ UInt32Max < 4294968
  BY DEF UInt32Max

(***************************************************************************)
(* Neither part of a sum within the limit exceeds it.                      *)
(***************************************************************************)
LEMMA EachWithinSum ==
  ASSUME NEW a \in Nat, NEW b \in Nat, a + b \in 1..UInt32Max
  PROVE  a <= UInt32Max /\ b <= UInt32Max
  BY WordIs

(***************************************************************************)
(* An accepted text in terms of positions and sums: neither part is worth  *)
(* more than the whole.                                                    *)
(***************************************************************************)
LEMMA AcceptedIs ==
  ASSUME Shapes
  PROVE  /\ Accepted(text) =>
              /\ ShortText /\ text.p
              /\ text.t => text.time # << >>
              /\ ~text.t => text.date # << >>
              /\ Ordered(part, Source, Len(Source))
              /\ Ordered("date", text.date, Len(text.date))
              /\ Ordered("time", text.time, Len(text.time))
              /\ Total("date", text.date) \in Nat /\ Total("time", text.time) \in Nat
              /\ Total(part, Source) \in Nat /\ Total(part, Source) <= UInt32Max
              /\ Total("date", text.date) + Total("time", text.time) \in 1..UInt32Max
         /\ (/\ ShortText /\ text.p
             /\ text.t => text.time # << >>
             /\ ~text.t => text.date # << >>
             /\ Ordered("date", text.date, Len(text.date))
             /\ Ordered("time", text.time, Len(text.time))
             /\ Total("date", text.date) + Total("time", text.time) \in 1..UInt32Max)
            => Accepted(text)
<1> USE SourceIs
<1>1. /\ InOrder("date", text.date) <=> Ordered("date", text.date, Len(text.date))
      /\ InOrder("time", text.time) <=> Ordered("time", text.time, Len(text.time))
  BY InOrderIs DEF Parts
<1>2. ASSUME NEW p \in Parts, NEW fs \in FieldSeqs, Ordered(p, fs, Len(fs))
      PROVE  Total(p, fs) \in Nat
  <2>1. Len(fs) \in 0..Len(fs)
    BY DEF FieldSeqs
  <2> QED
    BY <1>2, <2>1, SumsType DEF Total, Ordered
<1>3. Accepted(text) <=>
        /\ ShortText /\ text.p
        /\ text.t => text.time # << >>
        /\ ~text.t => text.date # << >>
        /\ Ordered("date", text.date, Len(text.date))
        /\ Ordered("time", text.time, Len(text.time))
        /\ Total("date", text.date) + Total("time", text.time) \in 1..UInt32Max
  BY <1>1, SMT DEF Accepted, WellFormed, Value, ShortText
<1>4. ASSUME Accepted(text)
      PROVE  /\ Total("date", text.date) \in Nat /\ Total("time", text.time) \in Nat
             /\ Ordered(part, Source, Len(Source))
             /\ Total(part, Source) \in Nat /\ Total(part, Source) <= UInt32Max
  <2>1. Total("date", text.date) \in Nat /\ Total("time", text.time) \in Nat
    BY <1>2, <1>3, <1>4 DEF Parts
  <2>2. /\ Total("date", text.date) <= UInt32Max
        /\ Total("time", text.time) <= UInt32Max
    BY <1>3, <1>4, <2>1, EachWithinSum
  <2>3. CASE part = "date"
    BY <1>3, <1>4, <2>1, <2>2, <2>3
  <2>4. CASE part = "time"
    BY <1>3, <1>4, <2>1, <2>2, <2>4
  <2> QED
    BY <2>3, <2>4 DEF Parts
<1> QED
  BY <1>3, <1>4

(***************************************************************************)
(* A text is refused only if the reference refuses it: no P, or a part     *)
(* without a field.                                                        *)
(***************************************************************************)
LEMMA RefusedAtStart ==
  ASSUME DurationInv, ParseFails
  PROVE  ~Accepted(text)
<1>1. Shapes /\ text \in AllTexts
  BY DEF DurationInv, Shapes
<1>2. Start(text).rest = IF text.date = << >> /\ text.t THEN text.time ELSE text.date
  BY DEF Start
<1> QED
  BY <1>1, <1>2, AcceptedIs DEF ParseFails

(***************************************************************************)
(* ... the number or the sum of a field exceeds 32 bits, and so does the   *)
(* whole, which is not less ...                                            *)
(***************************************************************************)
LEMMA RefusedByOverflow ==
  ASSUME DurationInv, UnitOverflows
  PROVE  ~Accepted(text)
<1> SUFFICES ASSUME Accepted(text) PROVE FALSE
  OBVIOUS
<1> DEFINE f == Source[Taken + 1]
           w == Worth(part, f)
<1>1. Shapes /\ Parsing /\ pc = "units" /\ Matches
  BY DEF DurationInv, UnitOverflows
<1>2. /\ ShortText /\ Ordered(part, Source, Len(Source))
      /\ Total(part, Source) \in Nat /\ Total(part, Source) <= UInt32Max
  BY <1>1, AcceptedIs
<1>3. /\ Head(rest) = f /\ f \in Fields /\ f.n \in Nat
      /\ Taken \in 0..Len(Source) /\ Taken # Len(Source) /\ Taken + 1 \in 1..Len(Source)
      /\ Taken + 1 \in 0..Len(Source)
  BY <1>1, NextField, SourceIs
<1>4. part \in Parts /\ Source \in FieldSeqs
  BY <1>1, SourceIs
<1>5. at \in 1..Len(Units(part)) /\ f.letter = Tested
  BY <1>1, <1>3 DEF Matches, Shapes, DurationTypeOK
<1>6. Position(part, f.letter) = at /\ Position(part, f.letter) # 0
  <2>1. \A i \in 1..Len(Units(part)) :
          Units(part)[i] = f.letter <=> Position(part, f.letter) = i
    BY <1>4, PositionIs, Zenon
  <2>2. Position(part, f.letter) = at
    BY <1>5, <2>1, Zenon DEF Tested
  <2>3. at # 0
    BY <1>1 DEF Shapes, DurationTypeOK
  <2> QED
    BY <2>2, <2>3
<1>7. f.wraps = 0
  BY <1>2, <1>3, <1>4, SourceIs, <1>1 DEF ShortText, Short
<1>8. Scanned(Head(rest)) = {f.n}
  BY <1>3, <1>7 DEF Scanned
<1>9. f.n <= MaxInUInt32(part, f.letter) => ~(result <= UInt32Max - w)
  BY <1>1, <1>5, <1>8 DEF UnitOverflows, AddWithOverflowCheck, Worth
<1>10. w \in Nat /\ (f.n <= MaxInUInt32(part, f.letter) <=> w <= UInt32Max)
  BY <1>3, <1>4, <1>6, LimitIs DEF Worth
<1>11. result = Sums(part, Source)[Taken] /\ result \in Nat
  BY <1>1, <1>2, WordIs DEF Parsing, Added, Shapes, DurationTypeOK
<1>12. Sums(part, Source)[Taken + 1] = result + w
  BY <1>3, <1>4, <1>11, SumsStep
<1>13. result + w <= Total(part, Source)
  BY <1>2, <1>3, <1>4, <1>12, SumsGrow DEF Ordered
<1> HIDE DEF w, f
<1> QED
  BY <1>2, <1>9, <1>10, <1>11, <1>13, WordIs

(***************************************************************************)
(* ... the units are out of order, repeated or unknown ...                 *)
(***************************************************************************)
LEMMA RefusedByUnits ==
  ASSUME DurationInv, UnitsEnd
  PROVE  ~Accepted(text)
<1> SUFFICES ASSUME Accepted(text) PROVE FALSE
  OBVIOUS
<1>1. Shapes /\ Parsing /\ pc = "units" /\ at > Len(Units(part)) /\ at \in Nat
  BY DEF DurationInv, UnitsEnd, Shapes, DurationTypeOK
<1>2. Ordered(part, Source, Len(Source))
  BY <1>1, AcceptedIs
<1>3. Position(part, rest[1].letter) >= at
  BY <1>1, <1>2 DEF Parsing, Consumed
<1>4. Position(part, rest[1].letter) \in 0..Len(Units(part)) /\ Len(Units(part)) \in Nat
  BY <1>1, SourceIs, PositionIs
<1> QED
  BY <1>1, <1>3, <1>4

(***************************************************************************)
(* A refusal keeps the invariant.                                          *)
(***************************************************************************)
LEMMA RejectKeeps ==
  ASSUME DurationInv, Reject, pc \in {"parse", "units", "sum"}, ~Accepted(text)
  PROVE  DurationInv'
<1>1. Shapes'
  BY DEF DurationInv, Reject, Answer, Shapes, DurationTypeOK
<1>2. Parsing'
  BY DEF Reject, Answer, Parsing
<1>3. Parsed'
  BY DEF Reject, Answer, Parsed
<1>4. Writing'
  BY DEF Reject, Answer, Writing
<1>5. Rereading'
  BY DEF DurationInv, Reject, Answer, Rereading
<1> QED
  BY <1>1, <1>2, <1>3, <1>4, <1>5 DEF DurationInv

(***************************************************************************)
(* The unit that is tested next.                                           *)
(***************************************************************************)
LEMMA NextUnit ==
  ASSUME Shapes
  PROVE  /\ at \in Nat /\ at >= 1 /\ part \in Parts
         /\ Len(Units(part)) \in Nat /\ Len(Units(part)) <= 4
         /\ \A l : Position(part, l) \in Nat
<1>1. at \in 1..Len(WriteUnits) + 1 /\ Len(WriteUnits) = 6
  BY DEF Shapes, DurationTypeOK, WriteUnits
<1>2. part \in Parts
  BY SourceIs
<1>3. Len(Units(part)) = 3 \/ Len(Units(part)) = 4
  BY <1>2, PositionIs
<1>4. \A l : Position(part, l) \in Nat
  BY <1>2, <1>3, PositionIs
<1>5. at \in Nat /\ at >= 1
  BY <1>1
<1>6. Len(Units(part)) \in Nat /\ Len(Units(part)) <= 4
  <2>1. \A k : k = 3 \/ k = 4 => k \in Nat /\ k <= 4
    OBVIOUS
  <2> QED
    BY <1>3, <2>1, Zenon
<1> QED
  BY <1>2, <1>4, <1>5, <1>6

(***************************************************************************)
(* The parse of the first part begins.                                     *)
(***************************************************************************)
LEMMA ParsePartKeeps ==
  ASSUME DurationInv, ParsePart
  PROVE  DurationInv'
<1>0. Shapes /\ text \in AllTexts /\ Rereading
  BY DEF DurationInv, Shapes
<1>1. /\ part' \in Parts /\ text' = text /\ pc' = "units" /\ at' = 1
      /\ part' = "time" => text.t /\ text.date = << >>
      /\ rest' = IF part' = "date" THEN text.date ELSE text.time
      /\ rest' # << >> /\ text.p
  BY DEF ParsePart, Start, Parts
<1>2. rest' = Source' /\ rest' \in FieldSeqs /\ Len(rest') \in Nat /\ Len(rest') # 0
  <2>1. rest' = Source'
    BY <1>0, <1>1 DEF Source, AllTexts, Parts
  <2>2. rest' \in FieldSeqs
    BY <1>0, <1>1, SourceIs
  <2> QED
    BY <1>1, <2>1, <2>2 DEF FieldSeqs
<1>3. Shapes'
  <2>1. DurationTypeOK'
    BY <1>0, <1>1, WordIs DEF ParsePart, Shapes, DurationTypeOK, Parts
  <2> QED
    BY <1>0, <1>2, <2>1 DEF ParsePart, Shapes
<1>4. Taken' = 0
  BY <1>2 DEF Taken
<1>5. Len(Units(part)') \in Nat /\ \A l : Position(part', l) \in Nat
  BY <1>1, PositionIs
<1>6. Consumed'
  <2>1. Ordered(part', Source', 0)
    BY DEF Ordered, Known
  <2>2. Ordered(part', Source', Len(Source')) => Position(part', rest'[1].letter) >= 1
    BY <1>2, <1>5 DEF Ordered, Known
  <2>3. \A i \in 1..Len(rest') : rest'[i] = Source'[0 + i]
    BY <1>2
  <2> QED
    BY <1>1, <1>2, <1>4, <1>5, <2>1, <2>2, <2>3 DEF Consumed
<1>7. Added'
  <2>1. Sums(part', Source')[0] = 0
    BY <1>2, SumsStep
  <2>2. ASSUME part' = "time"
        PROVE  /\ text.t /\ Ordered("date", text.date, Len(text.date))
               /\ Total("date", text.date) = 0
    <3>1. Len(text.date) = 0 /\ text.date \in FieldSeqs
      BY <1>0, <1>1, <2>2, SourceIs
    <3> QED
      BY <1>1, <2>2, <3>1, SumsStep DEF Ordered, Known, Total
  <2> QED
    BY <1>1, <1>4, <2>1, <2>2 DEF ParsePart, Added, ShortText
<1>8. Parsing'
  BY <1>1, <1>6, <1>7 DEF Parsing
<1>9. Parsed' /\ Writing' /\ Rereading'
  BY <1>0, <1>1 DEF ParsePart, Parsed, Writing, Rereading
<1> QED
  BY <1>3, <1>8, <1>9 DEF DurationInv

(***************************************************************************)
(* A unit that does not match is behind.                                   *)
(***************************************************************************)
LEMMA SkipUnitKeeps ==
  ASSUME DurationInv, SkipUnit
  PROVE  DurationInv'
<1>0. Shapes /\ Parsing /\ Rereading /\ pc = "units"
  BY DEF DurationInv, SkipUnit
<1>1. UNCHANGED <<pc, text, part, rest, result, dateResult, answer, milisec,
                  fields, len, used, first>> /\ at' = at + 1
  BY DEF SkipUnit
<1>2. at \in Nat /\ at >= 1 /\ at <= Len(Units(part)) /\ part \in Parts
      /\ Len(Units(part)) \in Nat /\ Len(Units(part)) <= 4
  BY <1>0, NextUnit DEF SkipUnit
<1>3. Shapes'
  <2>1. at' \in 1..Len(WriteUnits) + 1
    BY <1>1, <1>2 DEF WriteUnits
  <2> QED
    BY <1>0, <1>1, <2>1 DEF Shapes, DurationTypeOK
<1>4. Source' = Source /\ Taken' = Taken
  BY <1>1 DEF Source, Taken
<1>5. Position(part, rest[1].letter) # at
  <2>1. Head(rest).letter # Units(part)[at]
    BY <1>2 DEF SkipUnit, Matches, Tested
  <2>2. at \in 1..Len(Units(part))
    BY <1>2
  <2> QED
    BY <1>0, <1>2, <2>1, <2>2, NextField, PositionIs
<1>6. Consumed'
  <2>1. Consumed /\ \A l : Position(part, l) \in Nat
    BY <1>0, <1>2, PositionIs DEF Parsing
  <2>2. Ordered(part, Source, Len(Source)) => Position(part, rest[1].letter) >= at + 1
    BY <1>0, <1>2, <1>5, <2>1 DEF Consumed
  <2>3. \A i \in 1..Taken : Position(part, Source[i].letter) < at + 1
    BY <1>2, <2>1 DEF Consumed
  <2> QED
    BY <1>0, <1>1, <1>2, <1>4, <2>1, <2>2, <2>3 DEF Consumed
<1>7. Added'
  BY <1>0, <1>1, <1>4 DEF Parsing, Added, ShortText
<1>8. Parsing'
  BY <1>0, <1>1, <1>6, <1>7 DEF Parsing
<1>9. Parsed' /\ Writing' /\ Rereading'
  BY <1>0, <1>1 DEF Parsed, Writing, Rereading
<1> QED
  BY <1>3, <1>8, <1>9 DEF DurationInv

(***************************************************************************)
(* A field is taken: it follows the ones before it, and adds its worth.    *)
(***************************************************************************)
LEMMA TakeUnitKeeps ==
  ASSUME DurationInv, TakeUnit
  PROVE  DurationInv'
<1> DEFINE f == Source[Taken + 1]
<1>0. Shapes /\ Parsing /\ Rereading /\ pc = "units" /\ Matches
  BY DEF DurationInv, TakeUnit
<1>1. /\ UNCHANGED <<text, part, dateResult, answer, milisec, fields, len, used, first>>
      /\ at' = at + 1 /\ rest' = Tail(rest) /\ Source' = Source
      /\ pc' = IF Tail(rest) = << >> THEN "sum" ELSE "units"
  BY DEF TakeUnit, Source
<1>2. /\ at \in Nat /\ at >= 1 /\ at <= Len(Units(part)) /\ at \in 1..Len(Units(part))
      /\ Len(Units(part)) \in Nat /\ Len(Units(part)) <= 4
      /\ \A l : Position(part, l) \in Nat
  BY <1>0, NextUnit DEF Matches
<1>3. /\ part \in Parts /\ Source \in FieldSeqs /\ Len(Source) \in Nat
      /\ Taken \in 0..Len(Source) /\ Taken # Len(Source) /\ Taken + 1 \in 1..Len(Source)
      /\ Head(rest) = f /\ f \in Fields /\ f.n \in Nat
  BY <1>0, NextField, SourceIs
<1>4. f.letter = Tested /\ Position(part, f.letter) = at
  BY <1>0, <1>2, <1>3, PositionIs DEF Matches, Tested
<1>5. /\ rest' \in FieldSeqs /\ Len(rest') = Len(rest) - 1 /\ Len(rest) \in Nat \ {0}
      /\ \A i \in 1..Len(rest') : rest'[i] = rest[i + 1]
  BY <1>0, <1>1, NextField DEF FieldSeqs, Shapes
<1>6. Taken' = Taken + 1
  BY <1>1, <1>3, <1>5 DEF Taken
<1>7. PICK n \in Scanned(Head(rest)) :
        /\ n <= MaxInUInt32(part, Tested)
        /\ AddWithOverflowCheck(result, n * Unit(part, Tested))
        /\ result' = result + n * Unit(part, Tested)
  BY DEF TakeUnit
<1>8. n \in Nat
  BY <1>3, <1>7, WordIs DEF Scanned
<1>9. n * Unit(part, Tested) \in Nat /\ result \in Nat /\ result' \in 0..UInt32Max
  <2>1. n * Unit(part, Tested) \in Nat
    BY <1>2, <1>3, <1>4, <1>8, LimitIs
  <2>2. result \in Nat
    BY <1>0, WordIs DEF Shapes, DurationTypeOK
  <2>3. result <= UInt32Max - n * Unit(part, Tested)
    BY <1>7 DEF AddWithOverflowCheck
  <2> QED
    BY <1>7, <2>1, <2>2, <2>3, WordIs
<1>10. Shapes'
  <2>1. at' \in 1..Len(WriteUnits) + 1
    BY <1>1, <1>2 DEF WriteUnits
  <2>2. DurationTypeOK'
    BY <1>0, <1>1, <1>9, <2>1 DEF Shapes, DurationTypeOK
  <2> QED
    BY <1>0, <1>1, <1>5, <2>2 DEF Shapes
<1>11. Consumed'
  <2>0. Consumed /\ Len(rest) <= Len(Source)
    BY <1>0 DEF Parsing, Consumed
  <2>1. \A i \in 1..Len(rest') : rest'[i] = Source[(Taken + 1) + i]
    <3> SUFFICES ASSUME NEW i \in 1..Len(rest') PROVE rest'[i] = Source[(Taken + 1) + i]
      OBVIOUS
    <3>1. i + 1 \in 1..Len(rest)
      BY <1>5
    <3>2. Taken \in Nat /\ i \in Nat
      BY <1>3, <1>5
    <3>3. Taken + (i + 1) = (Taken + 1) + i
      BY <3>2
    <3> QED
      BY <1>5, <2>0, <3>1, <3>3 DEF Consumed
  <2>2. pc' = "units" <=> rest' # << >>
    BY <1>1
  <2>3. \A i \in 1..Taken : Position(part, Source[i].letter) < at
                            /\ Position(part, Source[i].letter) # 0
    BY <2>0 DEF Consumed, Ordered, Known
  <2>4. \A i \in 1..(Taken + 1) : i \in 1..Taken \/ i = Taken + 1
    BY <1>3
  <2>5. Ordered(part, Source, Taken + 1)
    <3>1. Known(part, Source, Taken + 1)
      BY <1>2, <1>4, <2>3, <2>4 DEF Known
    <3>2. ASSUME NEW i \in 1..(Taken + 1), NEW j \in 1..(Taken + 1), i < j
          PROVE  Position(part, Source[i].letter) < Position(part, Source[j].letter)
      <4>1. i \in 1..Taken
        BY <1>3, <3>2
      <4>2. CASE j = Taken + 1
        BY <1>4, <2>3, <4>1, <4>2
      <4>3. CASE j \in 1..Taken
        BY <2>0, <3>2, <4>1, <4>3 DEF Consumed, Ordered
      <4> QED
        BY <2>4, <4>2, <4>3
    <3> QED
      BY <3>1, <3>2 DEF Ordered
  <2>6. \A i \in 1..(Taken + 1) : Position(part, Source[i].letter) < at + 1
    BY <1>2, <1>4, <2>3, <2>4
  <2>7. ASSUME pc' = "units", Ordered(part, Source, Len(Source))
        PROVE  Position(part, rest'[1].letter) >= at + 1
    <3>1. Len(rest') \in Nat /\ Len(rest') # 0
      BY <1>5, <2>2, <2>7 DEF FieldSeqs
    <3>2. rest'[1] = Source[(Taken + 1) + 1] /\ (Taken + 1) + 1 \in 1..Len(Source)
          /\ Taken + 1 < (Taken + 1) + 1
      BY <1>3, <1>5, <2>0, <2>1, <3>1 DEF Taken
    <3>3. Position(part, f.letter) < Position(part, Source[(Taken + 1) + 1].letter)
      BY <1>3, <2>7, <3>2 DEF Ordered
    <3> QED
      BY <1>2, <1>4, <3>2, <3>3
  <2>8. Len(rest') <= Len(Source) /\ Source # << >>
    BY <1>3, <1>5, <2>0 DEF Consumed
  <2>9. part' = part /\ at + 1 <= Len(Units(part)) + 1
    BY <1>1, <1>2
  <2> QED
    BY <1>1, <1>6, <2>1, <2>2, <2>5, <2>6, <2>7, <2>8, <2>9, Zenon DEF Consumed
<1>12. Added'
  <2>1. ASSUME ShortText PROVE result' = Sums(part, Source)[Taken + 1]
    <3>1. f.wraps = 0
      BY <1>0, <1>3, <2>1, SourceIs DEF ShortText, Short
    <3>2. n = f.n
      BY <1>3, <1>7, <3>1 DEF Scanned
    <3>3. Sums(part, Source)[Taken + 1] = Sums(part, Source)[Taken] + Worth(part, f)
      BY <1>3, SumsStep
    <3>4. result = Sums(part, Source)[Taken]
      BY <1>0, <2>1 DEF Parsing, Added
    <3> QED
      BY <1>4, <1>7, <3>2, <3>3, <3>4 DEF Worth
  <2> QED
    BY <1>0, <1>1, <1>6, <2>1 DEF Parsing, Added, ShortText
<1>13. Parsing'
  BY <1>0, <1>1, <1>11, <1>12 DEF Parsing
<1>14. Parsed' /\ Writing' /\ Rereading'
  BY <1>0, <1>1 DEF Parsed, Writing, Rereading
<1> QED
  BY <1>10, <1>13, <1>14 DEF DurationInv

(***************************************************************************)
(* A part that is consumed.                                                *)
(***************************************************************************)
LEMMA PartConsumed ==
  ASSUME Shapes, Parsing, pc = "sum"
  PROVE  /\ text.p /\ Source # << >> /\ Taken = Len(Source)
         /\ Ordered(part, Source, Len(Source))
         /\ ShortText => result = Total(part, Source)
<1>1. text.p /\ Consumed /\ Added
  BY DEF Parsing
<1>2. rest = << >> /\ Len(Source) \in Nat
  BY <1>1, SourceIs DEF Consumed
<1>3. Taken = Len(Source)
  BY <1>2 DEF Taken
<1> QED
  BY <1>1, <1>3 DEF Consumed, Added, Total

(***************************************************************************)
(* An empty part is in order and worth nothing.                            *)
(***************************************************************************)
LEMMA EmptyPart ==
  ASSUME NEW p
  PROVE  << >> \in FieldSeqs /\ Ordered(p, << >>, Len(<< >>)) /\ Total(p, << >>) = 0
         /\ Short(<< >>)
<1>1. << >> \in FieldSeqs /\ Len(<< >>) = 0
  BY DEF FieldSeqs
<1> QED
  BY <1>1, SumsStep DEF Ordered, Known, Total, Short

(***************************************************************************)
(* The parse of the time begins.                                           *)
(***************************************************************************)
LEMMA DateDoneKeeps ==
  ASSUME DurationInv, DateDone
  PROVE  DurationInv'
<1>0. Shapes /\ Parsing /\ Rereading /\ pc = "sum" /\ part = "date"
  BY DEF DurationInv, DateDone
<1>1. /\ text' = text /\ part' = "time" /\ rest' = text.time /\ at' = 1 /\ result' = 0
      /\ dateResult' = result /\ pc' = "units" /\ text.t /\ text.time # << >>
      /\ UNCHANGED <<answer, milisec, fields, len, used, first>>
  BY DEF DateDone
<1>2. /\ Source = text.date /\ Source' = text.time /\ text.time \in FieldSeqs
      /\ Len(text.time) \in Nat /\ Len(text.time) # 0
  BY <1>0, <1>1, SourceIs DEF Source, FieldSeqs
<1>3. Shapes'
  <2>1. DurationTypeOK'
    BY <1>0, <1>1, WordIs DEF Shapes, DurationTypeOK
  <2> QED
    BY <1>0, <1>1, <1>2, <2>1 DEF Shapes
<1>4. Taken' = 0
  BY <1>1, <1>2 DEF Taken
<1>5. Len(Units("time")) \in Nat /\ \A l : Position("time", l) \in Nat
  BY PositionIs DEF Parts
<1>6. Consumed'
  <2>1. Ordered("time", text.time, 0)
    BY DEF Ordered, Known
  <2>2. Ordered("time", text.time, Len(text.time))
          => Position("time", text.time[1].letter) >= 1
    BY <1>2, <1>5 DEF Ordered, Known
  <2>3. \A i \in 1..Len(text.time) : text.time[i] = text.time[0 + i]
    BY <1>2
  <2> QED
    BY <1>1, <1>2, <1>4, <1>5, <2>1, <2>2, <2>3 DEF Consumed
<1>7. Added'
  <2>1. Sums("time", text.time)[0] = 0
    BY <1>2, SumsStep
  <2>2. /\ Ordered("date", text.date, Len(text.date))
        /\ ShortText => result = Total("date", text.date)
    BY <1>0, <1>2, PartConsumed
  <2> QED
    BY <1>1, <1>2, <1>4, <2>1, <2>2 DEF Added, ShortText
<1>8. Parsing'
  BY <1>0, <1>1, <1>6, <1>7, PartConsumed DEF Parsing
<1>9. Parsed' /\ Writing' /\ Rereading'
  BY <1>0, <1>1 DEF Parsed, Writing, Rereading
<1> QED
  BY <1>3, <1>8, <1>9 DEF DurationInv

(***************************************************************************)
(* The sum of both parts: the reference's value, when every number is one  *)
(* of 32 bits.                                                             *)
(***************************************************************************)
LEMMA SumIsValue ==
  ASSUME DurationInv, Add
  PROVE  /\ text.p /\ (text.t => text.time # << >>) /\ (~text.t => text.date # << >>)
         /\ Ordered("date", text.date, Len(text.date))
         /\ Ordered("time", text.time, Len(text.time))
         /\ ShortText => dateResult + result
                           = Total("date", text.date) + Total("time", text.time)
<1>0. Shapes /\ Parsing /\ pc = "sum" /\ (part = "time" \/ ~text.t) /\ Added
  BY DEF DurationInv, Add, Parsing
<1>1. CASE part = "time"
  BY <1>0, <1>1, SourceIs, PartConsumed DEF Added
<1>2. CASE part = "date"
  <2>1. ~text.t /\ text.time = << >> /\ Source = text.date /\ dateResult = 0
    BY <1>0, <1>2, SourceIs DEF Shapes, Added
  <2>2. Ordered("time", text.time, Len(text.time)) /\ Total("time", text.time) = 0
    BY <2>1, EmptyPart
  <2>3. ShortText => dateResult + result = result + Total("time", text.time)
    BY <1>0, <2>1, <2>2, WordIs DEF Shapes, DurationTypeOK
  <2> QED
    BY <1>0, <1>2, <2>1, <2>2, <2>3, PartConsumed
<1> QED
  BY <1>0, <1>1, <1>2, SourceIs DEF Parts

(***************************************************************************)
(* ... or the sum of both parts is zero or exceeds 32 bits; and a text     *)
(* that is accepted has the reference's value.                             *)
(***************************************************************************)
LEMMA AddKeeps ==
  ASSUME DurationInv, Add
  PROVE  DurationInv'
<1> DEFINE sum == dateResult + result
           good == AddWithOverflowCheck(dateResult, result) /\ sum # 0
<1>0. Shapes /\ Rereading /\ pc = "sum"
  BY DEF DurationInv, Add
<1>1. /\ UNCHANGED <<text, part, rest, at, result, dateResult, fields, len, used, first>>
      /\ pc' = "end" /\ answer' = IF good THEN "true" ELSE "false"
      /\ milisec' = IF good THEN sum ELSE milisec
  BY DEF Add, Answer
<1>2. dateResult \in Nat /\ result \in Nat /\ sum \in Nat
  BY <1>0, WordIs DEF Shapes, DurationTypeOK
<1>3. good <=> sum \in 1..UInt32Max
  BY <1>2, WordIs DEF AddWithOverflowCheck
<1>4. Accepted(text) => ShortText /\ sum \in 1..UInt32Max
  BY <1>0, SumIsValue, AcceptedIs
<1>5. ShortText /\ sum \in 1..UInt32Max => Accepted(text)
  BY <1>0, SumIsValue, AcceptedIs
<1>6. ShortText => sum = Value(text)
  BY SumIsValue DEF Value
<1> HIDE DEF sum, good
<1>7. Shapes'
  <2>1. milisec' \in 0..UInt32Max
    BY <1>0, <1>1, <1>3, WordIs DEF Shapes, DurationTypeOK
  <2>2. DurationTypeOK'
    BY <1>0, <1>1, <2>1 DEF Shapes, DurationTypeOK
  <2> QED
    BY <1>0, <1>1, <2>2 DEF Shapes
<1>8. Parsed'
  <2>1. CASE good
    BY <1>1, <1>3, <1>5, <1>6, <2>1 DEF Parsed, ShortText
  <2>2. CASE ~good
    BY <1>1, <1>3, <1>4, <2>2 DEF Parsed
  <2> QED
    BY <2>1, <2>2
<1>9. Parsing' /\ Writing' /\ Rereading'
  BY <1>0, <1>1 DEF Parsing, Writing, Rereading
<1> QED
  BY <1>7, <1>8, <1>9 DEF DurationInv

(***************************************************************************)
(* ... or the text has a T and no time.                                    *)
(***************************************************************************)
LEMMA RefusedWithoutTime ==
  ASSUME DurationInv, DateWithoutTime
  PROVE  ~Accepted(text)
  BY AcceptedIs DEF DurationInv, DateWithoutTime

(***************************************************************************)
(* The report begins with everything left to write.                        *)
(***************************************************************************)
LEMMA StartReportKeeps ==
  ASSUME DurationInv, StartReport
  PROVE  DurationInv'
<1>0. Shapes /\ Parsed /\ pc = "end" /\ answer = "true"
  BY DEF DurationInv, StartReport
<1>1. /\ UNCHANGED <<text, part, rest, result, dateResult, answer, milisec>>
      /\ first' = <<text, milisec>> /\ first'[2] = milisec /\ first' # << >>
      /\ pc' = "write" /\ at' = 1
      /\ fields' = Blank /\ len' = 18 /\ used' = 1
  BY DEF StartReport, DurationMaxLength
<1>2. milisec \in 1..UInt32Max /\ milisec \in Nat /\ milisec < 4294968
  BY <1>0, WordIs DEF Shapes, DurationTypeOK, Parsed
<1>3. fields'.date = << >> /\ fields'.time = << >> /\ \A p \in Parts : fields'[p] = << >>
  BY <1>1 DEF Blank, Parts
<1>4. Shapes'
  <2>1. DurationTypeOK'
    BY <1>0, <1>1 DEF Shapes, DurationTypeOK, DurationMaxLength, WriteUnits
  <2>2. fields' \in [date : FieldSeqs, time : FieldSeqs]
    BY <1>1, EmptyPart DEF Blank
  <2> QED
    BY <1>0, <1>1, <1>2, <2>1, <2>2 DEF Shapes
<1>5. Writing'
  <2>1. \A p \in Parts :
          Ordered(p, fields'[p], Len(fields'[p])) /\ Short(fields'[p])
    BY <1>3, EmptyPart
  <2>2. Total("date", fields'.date) = 0 /\ Total("time", fields'.time) = 0
    BY <1>3, EmptyPart
  <2>3. milisec < Left(1) /\ 18 >= Room(1)
    BY <1>2 DEF Left, Room
  <2> QED
    BY <1>1, <1>2, <1>3, <2>1, <2>2, <2>3 DEF Writing
<1>6. Parsing' /\ Parsed' /\ Rereading'
  BY <1>1 DEF Parsing, Parsed, Rereading
<1> QED
  BY <1>4, <1>5, <1>6 DEF DurationInv

(* The seconds of the writer's units, and the longest field of each.       *)
WriterUnit(i) == Unit(WritePart(i), WriteUnits[i])
Width(i) == IF i <= 3 THEN 2 ELSE 3

(***************************************************************************)
(* The units of the writer, in seconds, and what may be left before each.  *)
(***************************************************************************)
LEMMA WriterTable ==
  /\ WritePart(1) = "date" /\ WriteUnits[1] = "M" /\ WriterUnit(1) = 2592000
  /\ WritePart(2) = "date" /\ WriteUnits[2] = "W" /\ WriterUnit(2) = 604800
  /\ WritePart(3) = "date" /\ WriteUnits[3] = "D" /\ WriterUnit(3) = 86400
  /\ WritePart(4) = "time" /\ WriteUnits[4] = "H" /\ WriterUnit(4) = 3600
  /\ WritePart(5) = "time" /\ WriteUnits[5] = "M" /\ WriterUnit(5) = 60
  /\ WritePart(6) = "time" /\ WriteUnits[6] = "S" /\ WriterUnit(6) = 1
  /\ Left(1) = 4294968 /\ Left(2) = 2592000 /\ Left(3) = 604800 /\ Left(4) = 86400
  /\ Left(5) = 3600 /\ Left(6) = 60 /\ Left(7) = 1
<1>1. /\ WritePart(1) = "date" /\ WritePart(2) = "date" /\ WritePart(3) = "date"
      /\ WritePart(4) = "time" /\ WritePart(5) = "time" /\ WritePart(6) = "time"
  BY DEF WritePart
<1>2. /\ WriteUnits[1] = "M" /\ WriteUnits[2] = "W" /\ WriteUnits[3] = "D"
      /\ WriteUnits[4] = "H" /\ WriteUnits[5] = "M" /\ WriteUnits[6] = "S"
  BY DEF WriteUnits
<1>3. /\ Left(1) = 4294968 /\ Left(2) = 2592000 /\ Left(3) = 604800 /\ Left(4) = 86400
      /\ Left(5) = 3600 /\ Left(6) = 60 /\ Left(7) = 1
  BY SMT DEF Left
<1>4. /\ WriterUnit(1) = 2592000 /\ WriterUnit(2) = 604800 /\ WriterUnit(3) = 86400
      /\ WriterUnit(4) = 3600 /\ WriterUnit(5) = 60 /\ WriterUnit(6) = 1
  BY <1>1, <1>2, UnitIs, SMT DEF WriterUnit
<1> QED
  BY <1>1, <1>2, <1>3, <1>4, SMT

(***************************************************************************)
(* A quotient by a unit, when so much is left that it has few digits.      *)
(***************************************************************************)
LEMMA Quotient ==
  ASSUME NEW m \in Nat, NEW u \in Nat \ {0}
  PROVE  /\ m \div u \in Nat /\ m % u \in Nat /\ m % u < u /\ m % u <= m
         /\ m = (m \div u) * u + (m % u)
         /\ m < 10 * u => m \div u < 10
         /\ m < 100 * u => m \div u < 100
<1>1. m \div u \in Nat /\ m % u \in Nat /\ m % u < u /\ m = u * (m \div u) + (m % u)
  BY SMT
<1> QED
  BY <1>1, SMT

(***************************************************************************)
(* One unit of the writer: its place among the units of its part, and the  *)
(* digits it takes.                                                        *)
(***************************************************************************)
LEMMA OneUnit ==
  ASSUME NEW i \in 1..6, NEW m \in Nat, m < Left(i)
  PROVE  /\ WritePart(i) = IF i <= 3 THEN "date" ELSE "time"
         /\ Position(WritePart(i), WriteUnits[i]) = IF i <= 3 THEN i + 1 ELSE i - 3
         /\ WriterUnit(i) \in Nat \ {0} /\ WriterUnit(i) = Left(i + 1)
         /\ Digits(m \div WriterUnit(i)) \in Nat
         /\ Digits(m \div WriterUnit(i)) + 1 <= Width(i)
<1>1. CASE i = 1
  <2>1. m \div WriterUnit(1) < 10 /\ m \div WriterUnit(1) \in Nat
    BY <1>1, WriterTable, Quotient, SMT
  <2>2. Position("date", "M") = 2
    BY DEF Position
  <2> QED
    BY <1>1, <2>1, <2>2, WriterTable, SMT DEF Digits, Width
<1>2. CASE i = 2
  <2>1. m \div WriterUnit(2) < 10 /\ m \div WriterUnit(2) \in Nat
    BY <1>2, WriterTable, Quotient, SMT
  <2>2. Position("date", "W") = 3
    BY DEF Position
  <2> QED
    BY <1>2, <2>1, <2>2, WriterTable, SMT DEF Digits, Width
<1>3. CASE i = 3
  <2>1. m \div WriterUnit(3) < 10 /\ m \div WriterUnit(3) \in Nat
    BY <1>3, WriterTable, Quotient, SMT
  <2>2. Position("date", "D") = 4
    BY DEF Position
  <2> QED
    BY <1>3, <2>1, <2>2, WriterTable, SMT DEF Digits, Width
<1>4. CASE i = 4
  <2>1. m \div WriterUnit(4) < 100 /\ m \div WriterUnit(4) \in Nat
    BY <1>4, WriterTable, Quotient, SMT
  <2>2. Position("time", "H") = 1
    BY DEF Position
  <2> QED
    BY <1>4, <2>1, <2>2, WriterTable, SMT DEF Digits, Width
<1>5. CASE i = 5
  <2>1. m \div WriterUnit(5) < 100 /\ m \div WriterUnit(5) \in Nat
    BY <1>5, WriterTable, Quotient, SMT
  <2>2. Position("time", "M") = 2
    BY DEF Position
  <2> QED
    BY <1>5, <2>1, <2>2, WriterTable, SMT DEF Digits, Width
<1>6. CASE i = 6
  <2>1. m \div WriterUnit(6) < 100 /\ m \div WriterUnit(6) \in Nat
    BY <1>6, WriterTable, Quotient, SMT
  <2>2. Position("time", "S") = 3
    BY DEF Position
  <2> QED
    BY <1>6, <2>1, <2>2, WriterTable, SMT DEF Digits, Width
<1> QED
  BY <1>1, <1>2, <1>3, <1>4, <1>5, <1>6

(***************************************************************************)
(* The room that is kept for the units that are left.                      *)
(***************************************************************************)
LEMMA RoomIs ==
  ASSUME NEW i \in 1..6
  PROVE  /\ Room(i) \in Nat /\ Room(i + 1) \in Nat
         /\ Room(i) - Width(i) >= Room(i + 1) /\ Room(i + 1) > 0
<1> USE DEF Room, Width
<1>1. CASE i = 1
  BY <1>1
<1>2. CASE i = 2
  BY <1>2
<1>3. CASE i = 3
  BY <1>3
<1>4. CASE i = 4
  BY <1>4
<1>5. CASE i = 5
  BY <1>5
<1>6. CASE i = 6
  BY <1>6
<1> QED
  BY <1>1, <1>2, <1>3, <1>4, <1>5, <1>6

(***************************************************************************)
(* A field of a later unit may follow.                                     *)
(***************************************************************************)
LEMMA OrderedAppend ==
  ASSUME NEW p \in Parts, NEW fs \in FieldSeqs, NEW f \in Fields,
         Ordered(p, fs, Len(fs)), Short(fs), f.wraps = 0,
         Position(p, f.letter) # 0,
         \A i \in 1..Len(fs) : Position(p, fs[i].letter) < Position(p, f.letter)
  PROVE  LET gs == Append(fs, f)
         IN  /\ Ordered(p, gs, Len(gs)) /\ Short(gs)
             /\ \A i \in 1..Len(gs) : Position(p, gs[i].letter) <= Position(p, f.letter)
<1> DEFINE gs == Append(fs, f)
<1>1. /\ Len(fs) \in Nat /\ Len(gs) = Len(fs) + 1 /\ gs[Len(fs) + 1] = f
      /\ \A i \in 1..Len(fs) : gs[i] = fs[i]
  BY DEF FieldSeqs, Fields
<1> HIDE DEF gs
<1>2. \A l : Position(p, l) \in Nat
  BY PositionIs
<1>3. \A i \in 1..Len(gs) : i \in 1..Len(fs) \/ i = Len(fs) + 1
  BY <1>1
<1>4. Known(p, gs, Len(gs))
  BY <1>1, <1>3 DEF Known, Ordered
<1>5. \A i \in 1..Len(gs) : Position(p, gs[i].letter) <= Position(p, f.letter)
  BY <1>1, <1>2, <1>3
<1>6. ASSUME NEW i \in 1..Len(gs), NEW j \in 1..Len(gs), i < j
      PROVE  Position(p, gs[i].letter) < Position(p, gs[j].letter)
  <2>1. i \in 1..Len(fs)
    BY <1>1, <1>6
  <2>2. CASE j = Len(fs) + 1
    BY <1>1, <2>1, <2>2
  <2>3. CASE j \in 1..Len(fs)
    BY <1>1, <1>6, <2>1, <2>3 DEF Ordered
  <2> QED
    BY <1>3, <2>2, <2>3
<1>7. Short(gs)
  BY <1>1, <1>3 DEF Short
<1> QED
  BY <1>4, <1>5, <1>6, <1>7 DEF Ordered, gs

(***************************************************************************)
(* A unit is written: it fits, it follows the ones before it, and its      *)
(* seconds are taken off what is left.                                     *)
(***************************************************************************)
LEMMA WriteUnitKeeps ==
  ASSUME DurationInv, WriteUnit
  PROVE  DurationInv'
<1> DEFINE i == at
           p == WritePart(i)
           u == WriterUnit(i)
           n == milisec \div u
           f == Field(n, WriteUnits[i], 0)
           size == IF n > 0 THEN Digits(n) + 1 ELSE 0
           t == IF i = 4 /\ milisec > 0 THEN 1 ELSE 0
<1>0. Shapes /\ Writing /\ pc = "write" /\ at <= Len(WriteUnits)
  BY DEF DurationInv, WriteUnit
<1>1. i \in 1..6 /\ i \in Nat
  BY <1>0 DEF Shapes, DurationTypeOK, WriteUnits
<1>2. milisec \in Nat /\ milisec < Left(i) /\ milisec <= UInt32Max
  BY <1>0, WordIs DEF Shapes, DurationTypeOK, Writing
<1>3. /\ p \in Parts /\ p = IF i <= 3 THEN "date" ELSE "time"
      /\ Position(p, WriteUnits[i]) = IF i <= 3 THEN i + 1 ELSE i - 3
      /\ u \in Nat \ {0} /\ u = Left(i + 1)
      /\ Digits(n) \in Nat /\ Digits(n) + 1 <= Width(i)
  BY <1>1, <1>2, OneUnit DEF Parts
<1>4. /\ n \in Nat /\ milisec % u \in Nat /\ milisec % u < u /\ milisec % u <= milisec
      /\ milisec = n * u + (milisec % u)
  BY <1>2, <1>3, Quotient
<1>5. /\ len \in Nat /\ len >= Room(i) /\ used \in Nat /\ len <= DurationMaxLength
      /\ used + len <= IF i <= 4 THEN 19 ELSE 20
  BY <1>0 DEF Shapes, DurationTypeOK, Writing, DurationMaxLength
<1>6. Room(i) \in Nat /\ Room(i + 1) \in Nat /\ Room(i) - Width(i) >= Room(i + 1)
      /\ Room(i + 1) > 0 /\ Width(i) \in Nat
  BY <1>1, RoomIs DEF Width
<1>7. Concatenates(Digits(n) + 1)
  BY <1>3, <1>5, <1>6 DEF Concatenates
<1>8. size \in Nat /\ size <= Width(i) /\ (size > 0 <=> n > 0) /\ t \in {0, 1}
  BY <1>3, <1>4, <1>6
<1>9. /\ UNCHANGED <<text, part, rest, result, dateResult, answer, first>>
      /\ pc' = "write" /\ at' = i + 1 /\ milisec' = milisec % u
      /\ fields' = IF n > 0 THEN [fields EXCEPT ![p] = Append(@, f)] ELSE fields
      /\ len' = len - size /\ used' = used + size + t
  <2>1. UNCHANGED <<text, part, rest, result, dateResult, answer, first>> /\ at' = i + 1
    BY DEF WriteUnit
  <2>2. /\ pc' = IF n > 0 => Concatenates(Digits(n) + 1) THEN "write" ELSE "unreported"
        /\ milisec' = milisec % u
    BY Zenon DEF WriteUnit, LeftAfter, WriterUnit
  <2> DEFINE s == IF n > 0 /\ (n > 0 => Concatenates(Digits(n) + 1)) THEN Digits(n) + 1 ELSE 0
  <2>3. /\ fields' = IF s > 0 THEN [fields EXCEPT ![p] = Append(@, f)] ELSE fields
        /\ len' = len - s
        /\ used' = used + s + t
    BY Zenon DEF WriteUnit, WriterUnit
  <2>4. s = size
    BY <1>7
  <2> HIDE DEF n, u, p, f, size, t, s
  <2> QED
    BY <1>7, <1>8, <2>1, <2>2, <2>3, <2>4
<1> HIDE DEF n, u, p, f, size, t
<1>10. p = "date" \/ p = "time"
  BY <1>3 DEF Parts
<1>11. /\ fields \in [date : FieldSeqs, time : FieldSeqs] /\ fields[p] \in FieldSeqs
       /\ f \in Fields /\ f.letter = WriteUnits[i] /\ f.wraps = 0 /\ f.n = n
  <2>1. WriteUnits[i] \in Letters
    <3>1. i = 1 \/ i = 2 \/ i = 3 \/ i = 4 \/ i = 5 \/ i = 6
      BY <1>1
    <3> QED
      BY <3>1, WriterTable, SMT DEF Letters
  <2>2. fields \in [date : FieldSeqs, time : FieldSeqs]
    BY <1>0 DEF Shapes
  <2> QED
    BY <1>4, <1>10, <2>1, <2>2 DEF f, Field, Fields
<1>12. /\ fields' \in [date : FieldSeqs, time : FieldSeqs]
       /\ n > 0 => fields'[p] = Append(fields[p], f)
       /\ n = 0 => fields'[p] = fields[p]
       /\ \A q \in Parts : q # p => fields'[q] = fields[q]
  <2>1. Append(fields[p], f) \in FieldSeqs
    BY <1>3, <1>11, TotalAppend
  <2>2. CASE n = 0
    BY <1>9, <1>11, <2>2
  <2>3. CASE n > 0
    <3>1. fields' = [fields EXCEPT ![p] = Append(fields[p], f)]
      BY <1>9, <2>3
    <3>2. CASE p = "date"
      <4> DEFINE g == Append(fields.date, f)
      <4>1. fields' = [fields EXCEPT !["date"] = g] /\ g \in FieldSeqs
        BY <2>1, <3>1, <3>2
      <4> HIDE DEF g
      <4>2. /\ fields' \in [date : FieldSeqs, time : FieldSeqs]
            /\ fields'.date = g /\ fields'.time = fields.time
        BY <1>11, <4>1, SMT
      <4> QED
        BY <1>4, <2>3, <3>2, <4>2 DEF Parts, g
    <3>3. CASE p = "time"
      <4> DEFINE g == Append(fields.time, f)
      <4>1. fields' = [fields EXCEPT !["time"] = g] /\ g \in FieldSeqs
        BY <2>1, <3>1, <3>3
      <4> HIDE DEF g
      <4>2. /\ fields' \in [date : FieldSeqs, time : FieldSeqs]
            /\ fields'.time = g /\ fields'.date = fields.date
        BY <1>11, <4>1, SMT
      <4> QED
        BY <1>4, <2>3, <3>3, <4>2 DEF Parts, g
    <3> QED
      BY <1>10, <3>2, <3>3
  <2> QED
    BY <1>4, <2>2, <2>3
<1>13. Shapes'
  <2>1. len' \in 0..DurationMaxLength /\ used' \in Nat
    BY <1>5, <1>6, <1>8, <1>9 DEF DurationMaxLength
  <2>2. milisec' \in 0..UInt32Max
    BY <1>2, <1>4, <1>9, WordIs
  <2>3. at' \in 1..(Len(WriteUnits) + 1)
    BY <1>1, <1>9 DEF WriteUnits
  <2>4. DurationTypeOK'
    BY <1>0, <1>9, <2>1, <2>2, <2>3 DEF Shapes, DurationTypeOK
  <2> QED
    BY <1>0, <1>9, <1>12, <2>1, <2>4 DEF Shapes
<1>14. Writing'
  <2>0. /\ first # << >>
        /\ \A q \in Parts : Ordered(q, fields[q], Len(fields[q])) /\ Short(fields[q])
        /\ \A j \in 1..Len(fields.date) : Position("date", fields.date[j].letter) <= i
        /\ \A j \in 1..Len(fields.time) : Position("time", fields.time[j].letter) <= i - 4
        /\ i <= 4 => fields.time = << >>
        /\ Total("date", fields.date) + Total("time", fields.time) + milisec = first[2]
    BY <1>0 DEF Writing
  <2>1. milisec' < Left(i + 1) /\ len' >= Room(i + 1)
    <3>1. milisec' < Left(i + 1)
      BY <1>3, <1>4, <1>9, Zenon
    <3>2. len' >= Room(i + 1)
      BY <1>5, <1>6, <1>8, <1>9
    <3> QED
      BY <3>1, <3>2
  <2>2. used' + len' <= IF i + 1 <= 4 THEN 19 ELSE 20
    <3>1. used' + len' = (used + len) + t
      BY <1>5, <1>8, <1>9
    <3>2. i # 4 => t = 0
      BY DEF t
    <3> QED
      BY <1>1, <1>5, <1>8, <3>1, <3>2
  <2>3. \A q \in Parts : \A l : Position(q, l) \in Nat
    BY PositionIs
  <2>4. \A j \in 1..Len(fields[p]) :
          Position(p, fields[p][j].letter) < Position(p, f.letter)
    <3>1. CASE i <= 3
      <4>1. p = "date" /\ Position(p, f.letter) = i + 1
        BY <1>3, <1>11, <3>1
      <4>2. \A j \in 1..Len(fields.date) :
              Position("date", fields.date[j].letter) < i + 1
        BY <1>1, <2>0, <2>3 DEF Parts
      <4> QED
        BY <4>1, <4>2
    <3>2. CASE ~(i <= 3)
      <4>1. p = "time" /\ Position(p, f.letter) = i - 3
        BY <1>3, <1>11, <3>2
      <4>2. \A j \in 1..Len(fields.time) :
              Position("time", fields.time[j].letter) < i - 3
        BY <1>1, <2>0, <2>3 DEF Parts
      <4> QED
        BY <4>1, <4>2
    <3> QED
      BY <3>1, <3>2
  <2>5. /\ Ordered(p, fields'[p], Len(fields'[p])) /\ Short(fields'[p])
        /\ \A j \in 1..Len(fields'[p]) :
              Position(p, fields'[p][j].letter) <= Position(p, f.letter)
    <3>1. p \in Parts /\ Position(p, f.letter) # 0
      BY <1>1, <1>3, <1>11
    <3>2. Ordered(p, fields[p], Len(fields[p])) /\ Short(fields[p])
      BY <2>0, <3>1
    <3>3. \A j \in 1..Len(fields[p]) :
            Position(p, fields[p][j].letter) <= Position(p, f.letter)
      BY <2>3, <2>4, <3>1
    <3>4. CASE n = 0
      BY <1>12, <3>2, <3>3, <3>4, Zenon
    <3>5. CASE n > 0
      <4>1. fields'[p] = Append(fields[p], f) /\ fields[p] \in FieldSeqs
            /\ f \in Fields /\ f.wraps = 0
        BY <1>11, <1>12, <3>5
      <4> QED
        BY <2>4, <3>1, <3>2, <4>1, OrderedAppend, Zenon
    <3> QED
      BY <1>4, <3>4, <3>5
  <2>6. \A q \in Parts : Total(q, fields[q]) \in Nat
    <3> SUFFICES ASSUME NEW q \in Parts PROVE Total(q, fields[q]) \in Nat
      OBVIOUS
    <3>1. fields[q] \in FieldSeqs
      BY <1>11 DEF Parts
    <3>2. Len(fields[q]) \in 0..Len(fields[q])
      BY <3>1 DEF FieldSeqs
    <3> QED
      BY <2>0, <3>1, <3>2, SumsType DEF Total, Ordered
  <2>7. Total(p, fields'[p]) = Total(p, fields[p]) + n * u /\ n * u \in Nat
    <3>1. n * u \in Nat
      BY <1>3, <1>4
    <3>2. Worth(p, f) = n * u
      BY <1>11 DEF Worth, u, p, WriterUnit
    <3>3. CASE n = 0
      BY <1>3, <1>12, <2>6, <3>3
    <3>4. CASE n > 0
      <4>1. p \in Parts /\ fields'[p] = Append(fields[p], f) /\ fields[p] \in FieldSeqs
            /\ f \in Fields
        BY <1>3, <1>11, <1>12, <3>4
      <4> QED
        BY <3>1, <3>2, <4>1, TotalAppend, Zenon
    <3> QED
      BY <1>4, <3>1, <3>3, <3>4
  <2>8. /\ \A q \in Parts : Ordered(q, fields'[q], Len(fields'[q])) /\ Short(fields'[q])
        /\ \A j \in 1..Len(fields'.date) : Position("date", fields'.date[j].letter) <= i + 1
        /\ \A j \in 1..Len(fields'.time) :
              Position("time", fields'.time[j].letter) <= (i + 1) - 4
        /\ i + 1 <= 4 => fields'.time = << >>
        /\ Total("date", fields'.date) + Total("time", fields'.time) + (milisec % u)
             = first[2]
    <3>1. CASE i <= 3
      <4>1. p = "date" /\ fields'.time = fields.time /\ fields.time = << >>
        BY <1>1, <1>3, <1>12, <2>0, <3>1 DEF Parts
      <4>2. Total("date", fields'.date) + Total("time", fields'.time) + (milisec % u)
              = first[2]
        BY <1>4, <2>0, <2>6, <2>7, <4>1 DEF Parts
      <4>3. \A j \in 1..Len(fields'.date) :
              Position("date", fields'.date[j].letter) <= i + 1
        BY <1>3, <1>11, <2>5, <3>1, <4>1
      <4> QED
        BY <1>1, <2>0, <2>5, <4>1, <4>2, <4>3 DEF Parts
    <3>2. CASE ~(i <= 3)
      <4>1. p = "time" /\ fields'.date = fields.date
        BY <1>1, <1>3, <1>12, <3>2 DEF Parts
      <4>2. Total("date", fields'.date) + Total("time", fields'.time) + (milisec % u)
              = first[2]
        BY <1>4, <2>0, <2>6, <2>7, <4>1 DEF Parts
      <4>3. \A j \in 1..Len(fields'.time) :
              Position("time", fields'.time[j].letter) <= (i + 1) - 4
        BY <1>1, <1>3, <1>11, <2>5, <3>2, <4>1
      <4>4. \A j \in 1..Len(fields.date) : Position("date", fields.date[j].letter) <= i + 1
        BY <1>1, <2>0, <2>3 DEF Parts
      <4> QED
        BY <1>1, <2>0, <2>5, <3>2, <4>1, <4>2, <4>3, <4>4 DEF Parts
    <3> QED
      BY <3>1, <3>2
  <2> QED
    BY <1>9, <2>0, <2>1, <2>2, <2>8 DEF Writing
<1>15. Parsing' /\ Parsed' /\ Rereading'
  BY <1>9 DEF Parsing, Parsed, Rereading
<1> QED
  BY <1>13, <1>14, <1>15 DEF DurationInv

(***************************************************************************)
(* The report is complete: nothing is left to write, so it is an accepted  *)
(* text of the value that was written.                                     *)
(***************************************************************************)
LEMMA DesireReportKeeps ==
  ASSUME DurationInv, DesireReport
  PROVE  DurationInv'
<1>0. Shapes /\ Writing /\ pc = "write" /\ at > Len(WriteUnits)
  BY DEF DurationInv, DesireReport
<1>1. /\ text' = [p |-> TRUE, date |-> fields.date,
                  t |-> fields.time # << >>, time |-> fields.time]
      /\ pc' = "parse" /\ answer' = "none" /\ milisec' = 0
      /\ UNCHANGED <<part, rest, at, result, dateResult, fields, len, used, first>>
  BY DEF DesireReport
<1>2. at = 7
  BY <1>0 DEF Shapes, DurationTypeOK, WriteUnits
<1>3. milisec = 0
  <2>1. milisec < 1
    BY <1>0, <1>2, WriterTable DEF Writing
  <2> QED
    BY <1>0, <2>1, WordIs DEF Shapes, DurationTypeOK
<1>4. len \in Nat /\ len >= 3 /\ used \in Nat /\ used + len <= 20
  <2>1. len \in Nat /\ used \in Nat
    BY <1>0 DEF Shapes, DurationTypeOK, DurationMaxLength
  <2>2. Room(7) = 3
    BY DEF Room
  <2>3. len >= Room(7) /\ used + len <= IF 7 <= 4 THEN 19 ELSE 20
    BY <1>0, <1>2, Zenon DEF Writing
  <2> QED
    BY <2>1, <2>2, <2>3
<1>5. fields.date \in FieldSeqs /\ fields.time \in FieldSeqs
  BY <1>0 DEF Shapes
<1>6. /\ first # << >> /\ first[2] \in 1..UInt32Max
      /\ Ordered("date", fields.date, Len(fields.date)) /\ Short(fields.date)
      /\ Ordered("time", fields.time, Len(fields.time)) /\ Short(fields.time)
      /\ Total("date", fields.date) + Total("time", fields.time) + 0 = first[2]
  BY <1>0, <1>3 DEF Shapes, Writing, Parts
<1>7. Total("date", fields.date) + Total("time", fields.time) = first[2]
  <2>1. \A p \in Parts : \A fs \in FieldSeqs : Ordered(p, fs, Len(fs)) => Total(p, fs) \in Nat
    <3> SUFFICES ASSUME NEW p \in Parts, NEW fs \in FieldSeqs, Ordered(p, fs, Len(fs))
                 PROVE  Total(p, fs) \in Nat
      OBVIOUS
    <3>1. Len(fs) \in 0..Len(fs)
      BY DEF FieldSeqs
    <3> QED
      BY <3>1, SumsType DEF Total, Ordered
  <2>2. Total("date", fields.date) \in Nat /\ Total("time", fields.time) \in Nat
    BY <1>5, <1>6, <2>1 DEF Parts
  <2> QED
    BY <1>6, <2>2
<1>8. ~(fields.date = << >> /\ fields.time = << >>)
  <2>1. ASSUME fields.date = << >>, fields.time = << >> PROVE FALSE
    <3>1. first[2] = 0 + 0
      BY <1>7, <2>1, EmptyPart
    <3> QED
      BY <1>6, <3>1, WordIs
  <2> QED
    BY <2>1
<1>9. /\ text'.p /\ text'.date = fields.date /\ text'.time = fields.time
      /\ text'.t <=> fields.time # << >>
      /\ text' \in AllTexts
  BY <1>1, <1>5 DEF AllTexts
<1>10. Shapes'
  <2>1. DurationTypeOK'
    BY <1>0, <1>1, WordIs DEF Shapes, DurationTypeOK
  <2> QED
    BY <1>0, <1>1, <1>9, <2>1 DEF Shapes
<1>11. Accepted(text') /\ Value(text') = first[2]
  <2>1. Value(text') = first[2]
    BY <1>7, <1>9 DEF Value
  <2>2. InOrder("date", fields.date) /\ InOrder("time", fields.time)
    BY <1>5, <1>6, InOrderIs DEF Parts
  <2>3. WellFormed(text')
    BY <1>6, <1>8, <1>9, <2>2 DEF WellFormed
  <2> QED
    BY <1>6, <2>1, <2>3 DEF Accepted
<1>12. Rereading'
  BY <1>1, <1>4, <1>11 DEF Rereading
<1>13. Parsing' /\ Parsed' /\ Writing'
  BY <1>1 DEF Parsing, Parsed, Writing
<1> QED
  BY <1>10, <1>12, <1>13 DEF DurationInv

(***************************************************************************)
(* The invariant holds initially and every step keeps it.                  *)
(***************************************************************************)
LEMMA DurationInvInit ==
  ASSUME DurationInit
  PROVE  DurationInv
<1>1. text \in AllTexts /\ (~text.t => text.time = << >>)
  BY DurationsAssumption DEF DurationInit
<1>2. DurationTypeOK
  BY WordIs DEF DurationInit, DurationTypeOK, WriteUnits, DurationMaxLength
<1>3. fields \in [date : FieldSeqs, time : FieldSeqs] /\ rest \in FieldSeqs
  BY EmptyPart DEF DurationInit, Blank
<1>4. Shapes
  BY <1>1, <1>2, <1>3 DEF DurationInit, Shapes
<1>5. Parsing /\ Parsed /\ Writing /\ Rereading
  BY DEF DurationInit, Parsing, Parsed, Writing, Rereading
<1> QED
  BY <1>4, <1>5 DEF DurationInv

(***************************************************************************)
(* Every step of the parser and of the writer keeps the invariant.         *)
(***************************************************************************)
LEMMA DurationInvNext ==
  ASSUME DurationInv, [DurationNext]_durationVars
  PROVE  DurationInv'
<1>1. CASE ParseFails
  BY <1>1, RefusedAtStart, RejectKeeps DEF ParseFails
<1>2. CASE UnitOverflows
  BY <1>2, RefusedByOverflow, RejectKeeps DEF UnitOverflows
<1>3. CASE UnitsEnd
  BY <1>3, RefusedByUnits, RejectKeeps DEF UnitsEnd
<1>4. CASE DateWithoutTime
  BY <1>4, RefusedWithoutTime, RejectKeeps DEF DateWithoutTime
<1>5. CASE UNCHANGED durationVars
  <2>1. UNCHANGED <<Source, Taken, ShortText>>
    BY <1>5 DEF durationVars, Source, Taken, ShortText
  <2>2. Shapes' /\ Parsed' /\ Writing' /\ Rereading'
    BY <1>5 DEF durationVars, DurationInv, Shapes, DurationTypeOK, Parsed, ShortText,
                Writing, Rereading
  <2>3. Parsing'
    BY <1>5, <2>1 DEF durationVars, DurationInv, Parsing, Consumed, Added
  <2> QED
    BY <2>2, <2>3 DEF DurationInv
<1> QED
  BY <1>1, <1>2, <1>3, <1>4, <1>5, ParsePartKeeps, SkipUnitKeeps, TakeUnitKeeps,
     DateDoneKeeps, AddKeeps, StartReportKeeps, WriteUnitKeeps, DesireReportKeeps
     DEF DurationNext

(***************************************************************************)
(* DurationInv is an invariant of the parser and the writer.               *)
(***************************************************************************)
THEOREM DurationInvariant == DurationSpec => []DurationInv
  BY DurationInvInit, DurationInvNext, PTL DEF DurationSpec

(***************************************************************************)
(* No time exceeds 32 bits of milliseconds while a duration is parsed, and *)
(* the writer's count of its room never wraps below zero.                  *)
(***************************************************************************)
THEOREM DurationTypeCorrect == DurationSpec => []DurationTypeOK
<1>1. DurationInv => DurationTypeOK
  BY DEF DurationInv, Shapes
<1> QED
  BY <1>1, DurationInvariant, PTL

(***************************************************************************)
(* TimeUtils_ISO8601DurationStringToMilliseconds accepts exactly the       *)
(* durations of the reference and returns their value, for every text of   *)
(* numbers that sscanf does not wrap.                                      *)
(***************************************************************************)
THEOREM ParsedCorrect ==
  ASSUME \A d \in Texts : Short(d.date) /\ Short(d.time)
  PROVE  DurationSpec => []ParsedIsValue
<1>1. DurationInit => ShortText
  BY DEF DurationInit, ShortText
<1>2. DurationInv /\ ShortText /\ [DurationNext]_durationVars => ShortText'
  <2> SUFFICES ASSUME DurationInv, ShortText, [DurationNext]_durationVars PROVE ShortText'
    OBVIOUS
  <2>1. CASE DesireReport
    <3>1. text'.date = fields.date /\ text'.time = fields.time
      BY <2>1 DEF DesireReport
    <3>2. Short(fields["date"]) /\ Short(fields["time"])
      BY <2>1 DEF DurationInv, Writing, DesireReport, Parts
    <3> QED
      BY <3>1, <3>2 DEF ShortText
  <2>2. CASE ~DesireReport
    <3>1. text' = text
      BY <2>2 DEF DurationNext, durationVars, ParseFails, ParsePart, SkipUnit,
                  UnitOverflows, TakeUnit, UnitsEnd, DateDone, DateWithoutTime, Add,
                  StartReport, WriteUnit, Reject
    <3> QED
      BY <3>1 DEF ShortText
  <2> QED
    BY <2>1, <2>2
<1>3. DurationInv /\ ShortText => ParsedIsValue
  BY DEF DurationInv, Parsed, ParsedIsValue
<1> QED
  BY <1>1, <1>2, <1>3, DurationInvariant, PTL DEF DurationSpec

(***************************************************************************)
(* TimeUtils_MillisecondsToISO8601DurationString: every accepted duration  *)
(* is reported within the buffer, and the report, parsed again, gives the  *)
(* value that was reported, whatever the texts.                            *)
(***************************************************************************)
THEOREM ReportFaithfulCorrect == DurationSpec => []ReportFaithful
<1>1. DurationInv => ReportFaithful
  <2> SUFFICES ASSUME DurationInv PROVE ReportFaithful
    OBVIOUS
  <2>1. ASSUME pc = "end", first # << >> PROVE answer = "true" /\ milisec = first[2]
    <3>1. Accepted(text) /\ Value(text) = first[2]
      BY <2>1 DEF DurationInv, Rereading
    <3>2. answer = "true" /\ ShortText
      BY <2>1, <3>1, AcceptedIs DEF DurationInv, Parsed
    <3> QED
      BY <2>1, <3>1, <3>2 DEF DurationInv, Parsed
  <2>2. used + 1 <= DurationMaxLength
    <3>1. used \in Nat /\ len \in Nat /\ at \in 1..7
      BY DEF DurationInv, Shapes, DurationTypeOK, DurationMaxLength, WriteUnits
    <3>2. CASE pc # "write"
      BY <3>1, <3>2 DEF DurationInv, Rereading, DurationMaxLength
    <3>3. CASE pc = "write"
      <4>1. len >= Room(at) /\ used + len <= 20
        BY <3>1, <3>3 DEF DurationInv, Writing
      <4>2. Room(at) \in Nat /\ Room(at) >= 3
        BY <3>1 DEF Room
      <4> QED
        BY <3>1, <4>1, <4>2 DEF DurationMaxLength
    <3> QED
      BY <3>2, <3>3
  <2> QED
    BY <2>1, <2>2 DEF DurationInv, Rereading, ReportFaithful
<1> QED
  BY <1>1, DurationInvariant, PTL

=============================================================================
