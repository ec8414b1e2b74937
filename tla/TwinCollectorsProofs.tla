------------------------ MODULE TwinCollectorsProofs ------------------------
(***************************************************************************)
(* For any number of threads, the reported configuration is that of one    *)
(* update: the lock of twin_configuration.c protects Update and the JSON   *)
(* from each other even where the collectors' own lock does not.  The last *)
(* section is about the monitor task, the reader of that lock.             *)
(***************************************************************************)
EXTENDS TwinCollectors, MonitorTask, TLAPS

(***************************************************************************)
(* The inductive invariant: what is run under the twin's lock, that the    *)
(* fields hold one configuration except half way through the memcpy, and   *)
(* that a JSON half way read agrees with the fields.                       *)
(***************************************************************************)
LocationsMatchOperation ==
    \A t \in Threads :
        /\ pc[t] \in {"twin.lock", "twin.unlock"} => op[t] # "GetPriority"
        /\ pc[t] \in {"parse", "copy.flag", "copy.first", "copy.second"} => op[t] = "Update"
        /\ pc[t] \in {"first", "second"} => op[t] # "Update"
        /\ pc[t] = "second" => op[t] = "GetPrioritiesJson"

InTwinSection(t) == pc[t] \notin {"idle", "twin.lock"} /\ op[t] # "GetPriority"

TwinLockHeld == \A t \in Threads : InTwinSection(t) => twinLock = t

UpdatesWhole ==
    \A t \in Threads : pc[t] # "idle" /\ op[t] = "Update" => Whole(new[t])

FieldsWhole ==
    \/ Whole(eventPriorities)
    \/ \E t \in Threads : pc[t] = "copy.second"

CopyHalfDone ==
    \A t \in Threads :
        pc[t] = "copy.second" => eventPriorities.first = new[t].first

ReadHalfDone ==
    \A t \in Threads :
        pc[t] = "second" => read[t].first = eventPriorities.first

IInv ==
    /\ TypeOK
    /\ LocationsMatchOperation
    /\ TwinLockHeld
    /\ UpdatesWhole
    /\ FieldsWhole
    /\ CopyHalfDone
    /\ ReadHalfDone
    /\ ReportIsOneConfiguration

(***************************************************************************)
(* The placeholder of an idle call's locals is a configuration.            *)
(***************************************************************************)
LEMMA AnyConfigType == AnyConfig \in Config
<1>1. PICK v : v \in Values
  BY ThreadAssumption
<1>2. Settings(v, "operational") \in Config
  BY <1>1 DEF Config, Settings, Priorities
<1> QED
  BY <1>2 DEF AnyConfig

(***************************************************************************)
(* IInv is inductive: every start of a call and every step of one keeps    *)
(* the twin lock's section, the fields and the readers consistent.         *)
(***************************************************************************)
LEMMA InitIInv == Init => IInv
<1> SUFFICES ASSUME Init PROVE IInv
  OBVIOUS
<1>0. eventPriorities \in Config
  BY DEF Init, Config, Settings, Priorities
<1>1. TypeOK
  BY <1>0, AnyConfigType DEF Init, TypeOK, Operations, Locations
<1>2. Whole(eventPriorities)
  BY DEF Init, Whole, Settings
<1> QED
  BY <1>1, <1>2 DEF Init, IInv, LocationsMatchOperation, TwinLockHeld, InTwinSection,
     UpdatesWhole, FieldsWhole, CopyHalfDone, ReadHalfDone, ReportIsOneConfiguration

(***************************************************************************)
(* Every step keeps the inductive invariant: one case per action.          *)
(***************************************************************************)
LEMMA NextIInv == IInv /\ [Next]_vars => IInv'
<1> SUFFICES ASSUME IInv, [Next]_vars PROVE IInv'
  OBVIOUS
<1> USE DEF At, Goto
<1> DEFINE Parts == /\ LocationsMatchOperation' /\ TwinLockHeld' /\ UpdatesWhole'
                    /\ FieldsWhole' /\ CopyHalfDone' /\ ReadHalfDone'
                    /\ ReportIsOneConfiguration'
<1>1. ASSUME NEW t \in Threads, NEW o \in Operations, Call(t, o) PROVE IInv'
  <2>1. \A v \in Values, p \in Priorities : Settings(v, p) \in Config /\ Whole(Settings(v, p))
    BY DEF Settings, Config, Whole
  <2>2. new' \in [Threads -> Config]
    BY <1>1, <2>1 DEF Call, IInv, TypeOK
  <2>3. pc' \in [Threads -> Locations] /\ op' \in [Threads -> Operations]
    BY <1>1 DEF Call, IInv, TypeOK, Locations
  <2>4. TypeOK'
    BY <1>1, <2>2, <2>3 DEF Call, IInv, TypeOK, twinVars
  <2>5. UpdatesWhole'
    BY <1>1, <2>1 DEF Call, IInv, TypeOK, UpdatesWhole, twinVars
  <2>6. Parts
    BY <1>1, <2>5 DEF Call, IInv, TypeOK, LocationsMatchOperation, TwinLockHeld, InTwinSection,
       FieldsWhole, CopyHalfDone, ReadHalfDone, ReportIsOneConfiguration, twinVars
  <2> QED
    BY <2>4, <2>6 DEF IInv
<1>2. ASSUME NEW t \in Threads, TwinConfigurationLock(t) PROVE IInv'
  <2>1. TypeOK'
    BY <1>2 DEF TwinConfigurationLock, IInv, TypeOK, Locations, localVars
  <2>2. Parts
    BY <1>2, ThreadAssumption DEF TwinConfigurationLock, IInv, TypeOK,
       LocationsMatchOperation, TwinLockHeld, InTwinSection, UpdatesWhole, FieldsWhole,
       CopyHalfDone, ReadHalfDone, ReportIsOneConfiguration, localVars
  <2> QED
    BY <2>1, <2>2 DEF IInv
<1>3. ASSUME NEW t \in Threads, TestIsLocked(t) PROVE IInv'
  <2>1. TypeOK'
    BY <1>3 DEF TestIsLocked, IInv, TypeOK, Locations, twinVars
  <2>2. Parts
    BY <1>3 DEF TestIsLocked, IInv, TypeOK,
       LocationsMatchOperation, TwinLockHeld, InTwinSection, UpdatesWhole, FieldsWhole,
       CopyHalfDone, ReadHalfDone, ReportIsOneConfiguration, twinVars
  <2> QED
    BY <2>1, <2>2 DEF IInv
<1>4. ASSUME NEW t \in Threads, LockMutex(t) PROVE IInv'
  <2>1. TypeOK'
    BY <1>4 DEF LockMutex, IInv, TypeOK, Locations, localVars
  <2>2. Parts
    BY <1>4 DEF LockMutex, IInv, TypeOK,
       LocationsMatchOperation, TwinLockHeld, InTwinSection, UpdatesWhole, FieldsWhole,
       CopyHalfDone, ReadHalfDone, ReportIsOneConfiguration, localVars
  <2> QED
    BY <2>1, <2>2 DEF IInv
<1>5. ASSUME NEW t \in Threads, SetIsLocked(t) PROVE IInv'
  <2>1. TypeOK'
    BY <1>5 DEF SetIsLocked, IInv, TypeOK, Locations, localVars
  <2>2. Parts
    BY <1>5 DEF SetIsLocked, IInv, TypeOK,
       LocationsMatchOperation, TwinLockHeld, InTwinSection, UpdatesWhole, FieldsWhole,
       CopyHalfDone, ReadHalfDone, ReportIsOneConfiguration, localVars
  <2> QED
    BY <2>1, <2>2 DEF IInv
<1>6. ASSUME NEW t \in Threads, ReadFirst(t) PROVE IInv'
  <2>1. read'[t].first = eventPriorities.first
    BY <1>6 DEF ReadFirst, ReadField, IInv, TypeOK, Config
  <2>2. TypeOK'
    BY <1>6 DEF ReadFirst, ReadField, IInv, TypeOK, Config, Locations, twinVars
  <2>3. Parts
    BY <1>6, <2>1 DEF ReadFirst, ReadField, IInv, TypeOK, Operations,
       LocationsMatchOperation, TwinLockHeld, InTwinSection, UpdatesWhole, FieldsWhole,
       CopyHalfDone, ReadHalfDone, ReportIsOneConfiguration, twinVars
  <2> QED
    BY <2>2, <2>3 DEF IInv
<1>7. ASSUME NEW t \in Threads, ReadSecond(t) PROVE IInv'
  <2>1. /\ read'[t].second = eventPriorities.second
        /\ read'[t].first = read[t].first
    BY <1>7 DEF ReadSecond, ReadField, IInv, TypeOK, Config
  <2>2. TypeOK'
    BY <1>7 DEF ReadSecond, ReadField, IInv, TypeOK, Config, Locations, twinVars
  <2>3. Whole(eventPriorities)
    BY <1>7 DEF ReadSecond, ReadField, IInv, FieldsWhole, LocationsMatchOperation,
       TwinLockHeld, InTwinSection
  <2>4. Whole(read'[t])
    BY <1>7, <2>1, <2>3 DEF Whole, ReadSecond, ReadField, IInv, ReadHalfDone
  <2>5. Parts
    BY <1>7, <2>4 DEF ReadSecond, ReadField, IInv, TypeOK,
       LocationsMatchOperation, TwinLockHeld, InTwinSection, UpdatesWhole, FieldsWhole,
       CopyHalfDone, ReadHalfDone, ReportIsOneConfiguration, twinVars
  <2> QED
    BY <2>2, <2>5 DEF IInv
<1>8. ASSUME NEW t \in Threads, SaveFlag(t) PROVE IInv'
  <2>1. TypeOK'
    BY <1>8 DEF SaveFlag, IInv, TypeOK, Locations, twinVars
  <2>2. Parts
    BY <1>8 DEF SaveFlag, IInv, TypeOK,
       LocationsMatchOperation, TwinLockHeld, InTwinSection, UpdatesWhole, FieldsWhole,
       CopyHalfDone, ReadHalfDone, ReportIsOneConfiguration, twinVars
  <2> QED
    BY <2>1, <2>2 DEF IInv
<1>9. ASSUME NEW t \in Threads, RejectValues(t) PROVE IInv'
  <2>1. TypeOK'
    BY <1>9 DEF RejectValues, IInv, TypeOK, Locations, twinVars, localVars
  <2>2. Parts
    BY <1>9 DEF RejectValues, IInv, TypeOK,
       LocationsMatchOperation, TwinLockHeld, InTwinSection, UpdatesWhole, FieldsWhole,
       CopyHalfDone, ReadHalfDone, ReportIsOneConfiguration, twinVars, localVars
  <2> QED
    BY <2>1, <2>2 DEF IInv
<1>10. ASSUME NEW t \in Threads, CopyFirst(t) PROVE IInv'
  <2>1. TypeOK'
    BY <1>10 DEF CopyFirst, IInv, TypeOK, Config, Locations, localVars
  <2>2. eventPriorities'.first = new[t].first
    BY <1>10 DEF CopyFirst, IInv, TypeOK, Config
  <2>3. \A u \in Threads : u # t => pc[u] \notin {"second", "copy.second"}
    BY <1>10 DEF CopyFirst, IInv, TwinLockHeld, InTwinSection, LocationsMatchOperation
  <2>4. Parts
    BY <1>10, <2>2, <2>3 DEF CopyFirst, IInv, TypeOK,
       LocationsMatchOperation, TwinLockHeld, InTwinSection, UpdatesWhole, FieldsWhole,
       CopyHalfDone, ReadHalfDone, ReportIsOneConfiguration, localVars
  <2> QED
    BY <2>1, <2>4 DEF IInv
<1>11. ASSUME NEW t \in Threads, CopySecond(t) PROVE IInv'
  <2>1. TypeOK'
    BY <1>11 DEF CopySecond, IInv, TypeOK, Config, Locations, localVars
  <2>2. /\ eventPriorities'.second = new[t].second
        /\ eventPriorities'.first = eventPriorities.first
    BY <1>11 DEF CopySecond, IInv, TypeOK, Config
  <2>3. Whole(eventPriorities')
    BY <1>11, <2>2 DEF CopySecond, IInv, Whole, CopyHalfDone, UpdatesWhole,
       LocationsMatchOperation
  <2>4. Parts
    BY <1>11, <2>2, <2>3 DEF CopySecond, IInv, TypeOK,
       LocationsMatchOperation, TwinLockHeld, InTwinSection, UpdatesWhole, FieldsWhole,
       CopyHalfDone, ReadHalfDone, ReportIsOneConfiguration, localVars
  <2> QED
    BY <2>1, <2>4 DEF IInv
<1>12. ASSUME NEW t \in Threads, TestUnlock(t) PROVE IInv'
  <2>1. TypeOK'
    BY <1>12 DEF TestUnlock, IInv, TypeOK, Locations, twinVars, localVars
  <2>2. Parts
    BY <1>12 DEF TestUnlock, IInv, TypeOK,
       LocationsMatchOperation, TwinLockHeld, InTwinSection, UpdatesWhole, FieldsWhole,
       CopyHalfDone, ReadHalfDone, ReportIsOneConfiguration, twinVars, localVars
  <2> QED
    BY <2>1, <2>2 DEF IInv
<1>13. ASSUME NEW t \in Threads, UnlockMutex(t) PROVE IInv'
  <2>1. TypeOK'
    BY <1>13 DEF UnlockMutex, IInv, TypeOK, Locations, localVars
  <2>2. Parts
    BY <1>13 DEF UnlockMutex, IInv, TypeOK,
       LocationsMatchOperation, TwinLockHeld, InTwinSection, UpdatesWhole, FieldsWhole,
       CopyHalfDone, ReadHalfDone, ReportIsOneConfiguration, localVars
  <2> QED
    BY <2>1, <2>2 DEF IInv
<1>14. ASSUME NEW t \in Threads, ClearIsLocked(t) PROVE IInv'
  <2>1. TypeOK'
    BY <1>14, AnyConfigType DEF ClearIsLocked, Return, IInv, TypeOK, Locations
  <2>2. Parts
    BY <1>14 DEF ClearIsLocked, Return, UnderTwinLock, IInv, TypeOK,
       LocationsMatchOperation, TwinLockHeld, InTwinSection, UpdatesWhole, FieldsWhole,
       CopyHalfDone, ReadHalfDone, ReportIsOneConfiguration
  <2> QED
    BY <2>1, <2>2 DEF IInv
<1>15. ASSUME NEW t \in Threads, TwinConfigurationUnlock(t) PROVE IInv'
  <2>1. TypeOK'
    BY <1>15, AnyConfigType DEF TwinConfigurationUnlock, Return, IInv, TypeOK, Locations
  <2>2. Parts
    BY <1>15 DEF TwinConfigurationUnlock, Return, IInv, TypeOK,
       LocationsMatchOperation, TwinLockHeld, InTwinSection, UpdatesWhole, FieldsWhole,
       CopyHalfDone, ReadHalfDone, ReportIsOneConfiguration
  <2> QED
    BY <2>1, <2>2 DEF IInv
<1>16. ASSUME NEW t \in Threads, ClampOperational(t) PROVE IInv'
  <2>1. /\ eventPriorities' \in Config
        /\ eventPriorities'.first = eventPriorities.first
        /\ eventPriorities'.second = eventPriorities.second
    BY <1>16 DEF ClampOperational, IInv, TypeOK, Config, Priorities
  <2>2. TypeOK'
    BY <1>16, <2>1 DEF ClampOperational, IInv, TypeOK, Locations, localVars
  <2>3. Whole(eventPriorities) => Whole(eventPriorities')
    BY <2>1 DEF Whole
  <2>4. Parts
    BY <1>16, <2>1, <2>3 DEF ClampOperational, IInv, TypeOK,
       LocationsMatchOperation, TwinLockHeld, InTwinSection, UpdatesWhole, FieldsWhole,
       CopyHalfDone, ReadHalfDone, ReportIsOneConfiguration, localVars
  <2> QED
    BY <2>2, <2>4 DEF IInv
<1>17. CASE UNCHANGED vars
  BY <1>17 DEF vars, twinVars, localVars, IInv, TypeOK, LocationsMatchOperation,
     TwinLockHeld, InTwinSection, UpdatesWhole, FieldsWhole, CopyHalfDone, ReadHalfDone,
     ReportIsOneConfiguration, Whole
<1> QED
  BY <1>1, <1>2, <1>3, <1>4, <1>5, <1>6, <1>7, <1>8, <1>9, <1>10, <1>11, <1>12, <1>13,
     <1>14, <1>15, <1>16, <1>17 DEF Next, Step

(***************************************************************************)
(* Type correctness, and the property of the reported properties: in every *)
(* reachable state the JSON a thread has read is whole.                    *)
(***************************************************************************)
THEOREM TypeCorrect == Spec => []TypeOK
<1>1. IInv => TypeOK
  BY DEF IInv
<1> QED
  BY InitIInv, NextIInv, <1>1, PTL DEF Spec

(***************************************************************************)
(* The JSON of the event priorities never mixes the configurations of two  *)
(* updates, for any number of threads.                                     *)
(***************************************************************************)
THEOREM ReportCorrect == Spec => []ReportIsOneConfiguration
<1>1. IInv => ReportIsOneConfiguration
  BY DEF IInv
<1> QED
  BY InitIInv, NextIInv, <1>1, PTL DEF Spec

-----------------------------------------------------------------------------
(* The event monitor task, whose cycles end early when GetPriority finds   *)
(* the lock above taken: a cycle is never due before its period.           *)

(***************************************************************************)
(* The clock goes back a tick at a time.                                   *)
(***************************************************************************)
SetBackBounds ==
    /\ \A c \in Cycles : age[c] >= -setBacks
    /\ lag >= -setBacks

(***************************************************************************)
(* A remembered reading of the clock, and the one in currentTime, are as   *)
(* old as the time that passed, unless the clock was set back.             *)
(***************************************************************************)
AgesTrue ==
    /\ \A c \in Cycles : ~moved[c] => age[c] = elapsed[c]
    /\ Executing /\ ~moved["now"] => lag = elapsed["now"]

(***************************************************************************)
(* What the task takes for the difference never exceeds the time passed.   *)
(***************************************************************************)
DifferenceBounded == \A c \in Cycles : timeDiff[c] <= waited[c]

MonitorInv == MonitorTypeOK /\ SetBackBounds /\ AgesTrue /\ DifferenceBounded

(***************************************************************************)
(* The signed range is half of the unsigned one.                           *)
(***************************************************************************)
LEMMA WordHalves ==
  /\ Word \in Nat /\ Half \in Nat /\ Half >= 1
  /\ Word = 2 * Half /\ MaxSetBacks \in Nat
  /\ MaxAge = Half + MaxSetBacks
BY MonitorAssumption DEF Half, MaxAge

(***************************************************************************)
(* TimeUtils_GetTimeDiff, converted to int32_t and used as unsigned: a     *)
(* word, and for a time that really passed no more than that time, whether *)
(* it fits or not.                                                         *)
(***************************************************************************)
LEMMA DifferenceOfAge ==
  ASSUME NEW a \in Int, NEW d \in GetTimeDiff(a)
  PROVE  /\ AsUInt32(d) \in 0..(Word - 1)
         /\ a >= 0 => AsUInt32(d) <= a
<1> DEFINE H == Half
<1>1. Word \in Nat /\ H \in Nat /\ H >= 1 /\ Word = 2 * H
  BY WordHalves
<1>2. d \in Int /\ (-H <= d /\ d <= H - 1)
  BY <1>1 DEF GetTimeDiff
<1>3. a >= 0 => (d = a /\ d >= 0) \/ (a >= H)
  BY <1>1, <1>2 DEF GetTimeDiff
<1>4. a >= 0 => d = a \/ d = -H \/ d = H - 1
  BY <1>1 DEF GetTimeDiff
<1> HIDE DEF H
<1>5. CASE d >= 0
  <2>1. d \in 0..(Word - 1)
    BY <1>1, <1>2, <1>5
  <2>2. d % Word = d
    BY <1>1, <2>1
  <2> QED
    BY <1>1, <1>2, <1>3, <2>1, <2>2 DEF AsUInt32
<1>6. CASE d < 0
  <2>1. d + Word \in 0..(Word - 1)
    BY <1>1, <1>2, <1>6
  <2>2. d % Word = d + Word
    BY <1>1, <1>2, <2>1
  <2>3. a >= 0 => d = -H /\ a >= H
    BY <1>1, <1>3, <1>4, <1>6
  <2> QED
    BY <1>1, <2>1, <2>2, <2>3 DEF AsUInt32
<1> QED
  BY <1>1, <1>2, <1>5, <1>6

(***************************************************************************)
(* The lists of the two cycles are not empty.                              *)
(***************************************************************************)
LEMMA CollectorsLength ==
  /\ Len(Collectors("periodic")) = 7
  /\ Len(Collectors("triggered")) = 5
BY DEF Collectors

(***************************************************************************)
(* Time goes on: an age below the bound grows by one.                      *)
(***************************************************************************)
LEMMA OlderType ==
  /\ \A a \in Ages : Older(a) \in Ages /\ Older(a) >= a
  /\ \A a \in 0..MaxAge : Older(a) \in 0..MaxAge
BY WordHalves DEF Older, Ages

(***************************************************************************)
(* The position of the task.                                               *)
(***************************************************************************)
Position ==
    /\ cycle \in {"idle", "blocked", "periodic", "triggered"}
    /\ cycle \in {"idle", "blocked"} => at = 0
    /\ cycle = "periodic" => at \in 0..7
    /\ cycle = "triggered" => at \in 0..5

Locals ==
    /\ timeDiff \in [Cycles -> 0..(Word - 1)] /\ waited \in [Cycles -> Nat]
    /\ periodicFrequency \in Frequencies \cup {0} /\ frequency \in Frequencies

Clock ==
    /\ age \in [Cycles -> Ages] /\ lag \in Ages
    /\ setBacks \in 0..MaxSetBacks
    /\ elapsed \in [Cycles \cup {"now"} -> 0..MaxAge]
    /\ moved \in [Cycles \cup {"now"} -> BOOLEAN]

(***************************************************************************)
(* The type invariant in three parts.                                      *)
(***************************************************************************)
LEMMA MonitorTypeParts == MonitorTypeOK <=> Position /\ Locals /\ Clock
<1>1. Position <=> /\ cycle \in {"idle", "blocked"} \cup Cycles
                   /\ at \in 0..(IF Executing THEN Len(Collectors(cycle))
                                 ELSE 0)
  <2> USE DEF Executing
  <2>1. CASE cycle \in {"idle", "blocked"}
    BY <2>1 DEF Position, Cycles
  <2>2. CASE cycle = "periodic"
    BY <2>2, CollectorsLength DEF Position, Cycles
  <2>3. CASE cycle = "triggered"
    BY <2>3, CollectorsLength DEF Position, Cycles
  <2>4. CASE cycle \notin {"idle", "blocked", "periodic", "triggered"}
    BY <2>4 DEF Position, Cycles
  <2> QED
    BY <2>1, <2>2, <2>3, <2>4
<1> QED
  BY <1>1 DEF MonitorTypeOK, Locals, Clock, Cycles

(***************************************************************************)
(* A step of the task goes to the next test, collector or cycle.           *)
(***************************************************************************)
LEMMA PositionStep ==
  ASSUME MonitorInv, [MonitorNext]_monitorVars
  PROVE  Position'
<1> USE MonitorTypeParts DEF MonitorInv, Position, After
<1>1. CASE Tick
  BY <1>1 DEF Tick
<1>2. CASE SetClockBack
  BY <1>2 DEF SetClockBack
<1>3. CASE SetFrequency
  BY <1>3 DEF SetFrequency
<1>4. CASE Execute
  BY <1>4 DEF Execute
<1>5. ASSUME NEW c \in Cycles, NotDue(c) PROVE Position'
  BY <1>5 DEF NotDue, Cycles
<1>6. ASSUME NEW c \in Cycles, Begin(c) PROVE Position'
  BY <1>6 DEF Begin, Cycles
<1>7. ASSUME NEW c \in Cycles, PriorityFails(c) PROVE Position'
  BY <1>7 DEF PriorityFails, End, Cycles
<1>8. ASSUME NEW c \in Cycles, NEW i \in 1..Len(Collectors(c)),
             Collect(c, i)
      PROVE  Position'
  <2>1. cycle = c /\ at = i
    BY <1>8 DEF Collect
  <2>2. CASE i = Len(Collectors(c))
    BY <1>8, <2>1, <2>2 DEF Collect, End, Cycles
  <2>3. CASE i # Len(Collectors(c))
    <3>1. cycle' = cycle /\ at' = i + 1 /\ i < Len(Collectors(c))
      BY <1>8, <2>1, <2>3, CollectorsLength DEF Collect, Cycles
    <3>2. i \in Nat /\ i >= 1
      BY CollectorsLength DEF Cycles
    <3>3. i + 1 \in 0..Len(Collectors(c))
      BY <3>1, <3>2, CollectorsLength DEF Cycles
    <3> QED
      BY <2>1, <3>1, <3>3, CollectorsLength DEF Cycles
  <2> QED
    BY <2>2, <2>3
<1>9. CASE UNCHANGED monitorVars
  BY <1>9 DEF monitorVars
<1>10. ASSUME NEW c \in Cycles, PriorityBlocks(c) PROVE Position'
  BY <1>10 DEF PriorityBlocks
<1> QED
  BY <1>1, <1>2, <1>3, <1>4, <1>5, <1>6, <1>7, <1>8, <1>9, <1>10
     DEF MonitorNext, Task, Cycles

(***************************************************************************)
(* What the task computed from the clock stays a word.                     *)
(***************************************************************************)
LEMMA LocalsStep ==
  ASSUME MonitorInv, [MonitorNext]_monitorVars
  PROVE  Locals'
<1> USE MonitorTypeParts DEF MonitorInv, Locals, Tested
<1>1. CASE Tick
  BY <1>1 DEF Tick
<1>2. CASE SetClockBack
  BY <1>2 DEF SetClockBack
<1>3. CASE SetFrequency
  BY <1>3 DEF SetFrequency
<1>4. CASE Execute
  <2>1. PICK p \in GetTimeDiff(age["periodic"]),
             t \in GetTimeDiff(age["triggered"]) :
          timeDiff' = [periodic |-> AsUInt32(p), triggered |-> AsUInt32(t)]
    BY <1>4 DEF Execute
  <2>2. age["periodic"] \in Int /\ age["triggered"] \in Int
    BY WordHalves DEF Clock, Cycles, Ages
  <2>3. AsUInt32(p) \in 0..(Word - 1) /\ AsUInt32(t) \in 0..(Word - 1)
    BY <2>2, DifferenceOfAge
  <2>4. timeDiff' \in [Cycles -> 0..(Word - 1)]
    BY <2>1, <2>3 DEF Cycles
  <2>5. \A c \in Cycles : elapsed[c] \in Nat
    BY WordHalves DEF Clock
  <2>6. waited' \in [Cycles -> Nat]
    BY <1>4, <2>5, WordHalves DEF Execute, Cycles
  <2> QED
    BY <1>4, <2>4, <2>6 DEF Execute
<1>5. ASSUME NEW c \in Cycles, NotDue(c) PROVE Locals'
  BY <1>5, WordHalves DEF NotDue
<1>6. ASSUME NEW c \in Cycles, Begin(c) PROVE Locals'
  BY <1>6, WordHalves DEF Begin
<1>7. ASSUME NEW c \in Cycles, PriorityFails(c) PROVE Locals'
  BY <1>7 DEF PriorityFails
<1>8. ASSUME NEW c \in Cycles, NEW i \in 1..Len(Collectors(c)),
             Collect(c, i)
      PROVE  Locals'
  BY <1>8 DEF Collect
<1>9. CASE UNCHANGED monitorVars
  BY <1>9 DEF monitorVars
<1>10. ASSUME NEW c \in Cycles, PriorityBlocks(c) PROVE Locals'
  BY <1>10 DEF PriorityBlocks
<1> QED
  BY <1>1, <1>2, <1>3, <1>4, <1>5, <1>6, <1>7, <1>8, <1>9, <1>10
     DEF MonitorNext, Task, Cycles

(***************************************************************************)
(* Ages stay where they are told apart.                                    *)
(***************************************************************************)
LEMMA ClockStep ==
  ASSUME MonitorInv, [MonitorNext]_monitorVars
  PROVE  (Clock /\ SetBackBounds)'
<1> USE MonitorTypeParts DEF MonitorInv, Clock, SetBackBounds
<1>1. CASE Tick
  <2>1. \A c \in Cycles : age'[c] = Older(age[c])
    BY <1>1 DEF Tick, Cycles
  <2>2. age' \in [Cycles -> Ages]
    BY <1>1, OlderType DEF Tick, Cycles
  <2>3. 0 \in Ages /\ 0 \in 0..MaxAge
    BY WordHalves DEF Ages
  <2>4. lag' \in Ages /\ lag' >= -setBacks
    BY <1>1, <2>3, OlderType, WordHalves DEF Tick, Ages
  <2>5. elapsed' \in [Cycles \cup {"now"} -> 0..MaxAge]
    BY <1>1, <2>3, OlderType DEF Tick
  <2>6. \A c \in Cycles : age'[c] >= -setBacks
    BY <2>1, <2>2, OlderType, WordHalves DEF Ages
  <2> QED
    BY <1>1, <2>2, <2>4, <2>5, <2>6 DEF Tick
<1>2. CASE SetClockBack
  <2>1. setBacks' \in 0..MaxSetBacks /\ setBacks' = setBacks + 1
    BY <1>2, WordHalves DEF SetClockBack
  <2>2. age' = [c \in Cycles |-> age[c] - 1]
    BY <1>2 DEF SetClockBack, Cycles
  <2>3. \A c \in Cycles : age[c] - 1 \in Ages /\ age[c] - 1 >= -(setBacks + 1)
    BY <2>1, WordHalves DEF Ages
  <2>4. lag' \in Ages /\ lag' >= -(setBacks + 1)
    BY <1>2, <2>1, WordHalves DEF SetClockBack, Ages
  <2>5. moved' \in [Cycles \cup {"now"} -> BOOLEAN]
    BY <1>2, Zenon DEF SetClockBack
  <2>6. elapsed' = elapsed
    BY <1>2 DEF SetClockBack
  <2> QED
    BY <2>1, <2>2, <2>3, <2>4, <2>5, <2>6
<1>3. CASE SetFrequency
  BY <1>3 DEF SetFrequency
<1>4. CASE Execute
  <2>1. 0 \in Ages /\ 0 \in 0..MaxAge /\ 0 >= -setBacks
    BY WordHalves DEF Ages
  <2> QED
    BY <1>4, <2>1 DEF Execute
<1>5. ASSUME NEW c \in Cycles, NotDue(c) PROVE (Clock /\ SetBackBounds)'
  <2>1. 0 \in Ages /\ 0 >= -setBacks
    BY WordHalves DEF Ages
  <2> QED
    BY <1>5, <2>1 DEF NotDue
<1>6. ASSUME NEW c \in Cycles, Begin(c) PROVE (Clock /\ SetBackBounds)'
  BY <1>6 DEF Begin, Remembered, Cycles
<1>7. ASSUME NEW c \in Cycles, PriorityFails(c) PROVE (Clock /\ SetBackBounds)'
  <2>1. 0 \in Ages /\ 0 >= -setBacks
    BY WordHalves DEF Ages
  <2> QED
    BY <1>7, <2>1 DEF PriorityFails, End
<1>8. ASSUME NEW c \in Cycles, NEW i \in 1..Len(Collectors(c)),
             Collect(c, i)
      PROVE  (Clock /\ SetBackBounds)'
  <2>1. 0 \in Ages /\ 0 >= -setBacks
    BY WordHalves DEF Ages
  <2>2. lag' \in {lag, 0}
    BY <1>8 DEF Collect, End
  <2> QED
    BY <1>8, <2>1, <2>2 DEF Collect
<1>9. CASE UNCHANGED monitorVars
  BY <1>9 DEF monitorVars
<1>10. ASSUME NEW c \in Cycles, PriorityBlocks(c) PROVE (Clock /\ SetBackBounds)'
  <2>1. 0 \in Ages /\ 0 >= -setBacks
    BY WordHalves DEF Ages
  <2> QED
    BY <1>10, <2>1 DEF PriorityBlocks
<1> QED
  BY <1>1, <1>2, <1>3, <1>4, <1>5, <1>6, <1>7, <1>8, <1>9, <1>10
     DEF MonitorNext, Task, Cycles

(***************************************************************************)
(* Ages and the time that passed grow together.                            *)
(***************************************************************************)
LEMMA AgesTrueStep ==
  ASSUME MonitorInv, [MonitorNext]_monitorVars
  PROVE  AgesTrue'
<1> USE MonitorTypeParts DEF MonitorInv, AgesTrue, Clock, Executing
<1>1. CASE Tick
  <2>1. \A c \in Cycles : age'[c] = Older(age[c])
    BY <1>1 DEF Tick, Cycles
  <2>2. \A c \in Cycles : elapsed'[c] = Older(elapsed[c])
    BY <1>1 DEF Tick, Cycles
  <2>3. /\ Executing => lag' = Older(lag)
        /\ Executing => elapsed'["now"] = Older(elapsed["now"])
    BY <1>1 DEF Tick
  <2> QED
    BY <1>1, <2>1, <2>2, <2>3 DEF Tick
<1>2. CASE SetClockBack
  <2>1. \A c \in Cycles : moved'[c] = TRUE
    BY <1>2 DEF SetClockBack, Cycles
  <2>2. Executing => moved'["now"] = TRUE
    BY <1>2 DEF SetClockBack
  <2> QED
    BY <1>2, <2>1, <2>2 DEF SetClockBack
<1>3. CASE SetFrequency
  BY <1>3 DEF SetFrequency
<1>4. CASE Execute
  <2>1. lag' = 0 /\ elapsed'["now"] = 0 /\ age' = age
    BY <1>4 DEF Execute
  <2>2. \A c \in Cycles : elapsed'[c] = elapsed[c] /\ moved'[c] = moved[c]
    BY <1>4 DEF Execute, Cycles
  <2> QED
    BY <2>1, <2>2
<1>5. ASSUME NEW c \in Cycles, NotDue(c) PROVE AgesTrue'
  BY <1>5 DEF NotDue, After, Cycles
<1>6. ASSUME NEW c \in Cycles, Begin(c) PROVE AgesTrue'
  <2>1. cycle = c /\ cycle' = c /\ lag' = lag
    BY <1>6 DEF Begin, Cycles
  <2>2. age'[c] = lag /\ elapsed'[c] = elapsed["now"] /\ moved'[c] = moved["now"]
    BY <1>6 DEF Begin, Remembered, Cycles
  <2>3. /\ elapsed'["now"] = elapsed["now"] /\ moved'["now"] = moved["now"]
        /\ \A d \in Cycles \ {c} :
              age'[d] = age[d] /\ elapsed'[d] = elapsed[d] /\ moved'[d] = moved[d]
    BY <1>6 DEF Begin, Remembered, Cycles
  <2> QED
    BY <2>1, <2>2, <2>3
<1>7. ASSUME NEW c \in Cycles, PriorityFails(c) PROVE AgesTrue'
  BY <1>7 DEF PriorityFails, End, After, Cycles
<1>8. ASSUME NEW c \in Cycles, NEW i \in 1..Len(Collectors(c)),
             Collect(c, i)
      PROVE  AgesTrue'
  BY <1>8 DEF Collect, End, After, Cycles
<1>9. CASE UNCHANGED monitorVars
  BY <1>9 DEF monitorVars
<1>10. ASSUME NEW c \in Cycles, PriorityBlocks(c) PROVE AgesTrue'
  BY <1>10 DEF PriorityBlocks, Cycles
<1> QED
  BY <1>1, <1>2, <1>3, <1>4, <1>5, <1>6, <1>7, <1>8, <1>9, <1>10
     DEF MonitorNext, Task, Cycles

(***************************************************************************)
(* The difference is bounded where it is computed, and only used up then.  *)
(***************************************************************************)
LEMMA DifferenceStep ==
  ASSUME MonitorInv, [MonitorNext]_monitorVars
  PROVE  DifferenceBounded'
<1> USE MonitorTypeParts DEF MonitorInv, DifferenceBounded, Tested
<1>1. CASE Tick
  BY <1>1 DEF Tick
<1>2. CASE SetClockBack
  BY <1>2 DEF SetClockBack
<1>3. CASE SetFrequency
  BY <1>3 DEF SetFrequency
<1>4. CASE Execute
  <2>1. PICK p \in GetTimeDiff(age["periodic"]),
             t \in GetTimeDiff(age["triggered"]) :
          timeDiff' = [periodic |-> AsUInt32(p), triggered |-> AsUInt32(t)]
    BY <1>4 DEF Execute
  <2>2. \A c \in Cycles : age[c] \in Int /\ elapsed[c] \in Nat
    BY WordHalves DEF Clock, Cycles, Ages
  <2>3. \A c \in Cycles : waited'[c] = IF moved[c] THEN Word ELSE elapsed[c]
    BY <1>4 DEF Execute, Cycles
  <2>4. ASSUME NEW c \in Cycles, NEW d \in GetTimeDiff(age[c])
        PROVE  AsUInt32(d) <= waited'[c]
    <3>1. CASE moved[c]
      BY <2>2, <2>3, <2>4, <3>1, DifferenceOfAge, WordHalves
    <3>2. CASE ~moved[c]
      <4>1. age[c] = elapsed[c] /\ waited'[c] = elapsed[c]
        BY <2>3, <3>2 DEF AgesTrue
      <4> QED
        BY <2>2, <2>4, <4>1, DifferenceOfAge
    <3> QED
      BY <3>1, <3>2
  <2>5. timeDiff'["periodic"] = AsUInt32(p) /\ timeDiff'["triggered"] = AsUInt32(t)
    BY <2>1
  <2> QED
    BY <2>4, <2>5 DEF Cycles
<1>5. ASSUME NEW c \in Cycles, NotDue(c) PROVE DifferenceBounded'
  BY <1>5 DEF NotDue, Locals
<1>6. ASSUME NEW c \in Cycles, Begin(c) PROVE DifferenceBounded'
  BY <1>6 DEF Begin, Locals
<1>7. ASSUME NEW c \in Cycles, PriorityFails(c) PROVE DifferenceBounded'
  BY <1>7 DEF PriorityFails
<1>8. ASSUME NEW c \in Cycles, NEW i \in 1..Len(Collectors(c)),
             Collect(c, i)
      PROVE  DifferenceBounded'
  BY <1>8 DEF Collect
<1>9. CASE UNCHANGED monitorVars
  BY <1>9 DEF monitorVars
<1>10. ASSUME NEW c \in Cycles, PriorityBlocks(c) PROVE DifferenceBounded'
  BY <1>10 DEF PriorityBlocks
<1> QED
  BY <1>1, <1>2, <1>3, <1>4, <1>5, <1>6, <1>7, <1>8, <1>9, <1>10
     DEF MonitorNext, Task, Cycles

(***************************************************************************)
(* The task's invariant is inductive.                                      *)
(***************************************************************************)
LEMMA MonitorInvInit ==
  ASSUME MonitorInit PROVE MonitorInv
<1> USE DEF MonitorInit, Cycles
<1>1. /\ MaxAge \in Ages /\ 0 \in Ages
      /\ 0 \in 0..MaxAge /\ MaxAge \in 0..MaxAge
      /\ MaxAge >= 0
  BY WordHalves DEF Ages
<1>2. Position
  BY DEF Position
<1>3. Locals
  BY WordHalves DEF Locals
<1>4. moved \in [Cycles \cup {"now"} -> BOOLEAN]
  OBVIOUS
<1>5. Clock
  BY <1>1, <1>4, WordHalves DEF Clock
<1>6. \A c \in Cycles : age[c] = elapsed[c] /\ age[c] >= 0 /\ timeDiff[c] <= waited[c]
  BY <1>1
<1> QED
  BY <1>2, <1>3, <1>5, <1>6, MonitorTypeParts
     DEF MonitorInv, SetBackBounds, AgesTrue, DifferenceBounded, Executing

(***************************************************************************)
(* Every step of the task, of the clock and of the twin preserves it.      *)
(***************************************************************************)
LEMMA MonitorInvStep ==
  ASSUME MonitorInv, [MonitorNext]_monitorVars
  PROVE  MonitorInv'
<1>1. MonitorTypeOK' <=> Position' /\ Locals' /\ Clock'
  BY MonitorTypeParts, PTL
<1> QED
  BY <1>1, PositionStep, LocalsStep, ClockStep, AgesTrueStep, DifferenceStep
     DEF MonitorInv

(***************************************************************************)
(* EventMonitorTask: the times, differences and positions of the task keep *)
(* their types, for every word size, frequency and amount by which the     *)
(* clock is set back.                                                      *)
(***************************************************************************)
THEOREM MonitorTypeCorrect == MonitorSpec => []MonitorTypeOK
<1>1. MonitorInv => MonitorTypeOK
  BY DEF MonitorInv
<1> QED
  BY <1>1, MonitorInvInit, MonitorInvStep, PTL DEF MonitorSpec

(***************************************************************************)
(* EventMonitorTask_Execute starts no cycle before its period has really   *)
(* passed since the reading that started it last, although the difference  *)
(* is squeezed into 32 bits and the frequency may change: only a clock     *)
(* that was set back can make it early.                                    *)
(***************************************************************************)
THEOREM NotEarlyCorrect == MonitorSpec => NotEarly
<1>1. ASSUME MonitorInv, NEW c \in Cycles, Begin(c)
      PROVE  waited[c] >= Period(c)
  <2>1. timeDiff[c] >= Period(c)
    BY <1>1 DEF Begin, Due
  <2>2. timeDiff[c] <= waited[c] /\ timeDiff[c] \in Nat /\ waited[c] \in Nat
    BY <1>1, MonitorTypeParts, WordHalves
       DEF MonitorInv, DifferenceBounded, Locals, Cycles
  <2>3. periodicFrequency \in Frequencies \cup {0}
    BY <1>1, MonitorTypeParts DEF MonitorInv, Locals
  <2>4. Period(c) \in Int
    BY <2>3, MonitorAssumption DEF Period
  <2> QED
    BY <2>1, <2>2, <2>4
<1>2. MonitorInv /\ [MonitorNext]_monitorVars =>
        [\A c \in Cycles : Begin(c) => waited[c] >= Period(c)]_monitorVars
  BY <1>1
<1> QED
  BY <1>2, MonitorInvInit, MonitorInvStep, PTL DEF MonitorSpec, NotEarly

=============================================================================
