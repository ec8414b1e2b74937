--------------------------- MODULE TwinCollectors ---------------------------
(***************************************************************************)
(* The lock of the event collectors' part of the twin configuration        *)
(* (twin_configuration_event_collectors.c): a mutex, and a flag isLocked   *)
(* that TwinConfigurationEventCollectors_Lock tests before it takes the    *)
(* mutex and _Unlock tests before it releases it.  The flag is read and    *)
(* written outside the mutex, by the monitor thread (GetPriority,          *)
(* GetAggregation*, and the JSON of the configuration) and by the twin     *)
(* thread (Update, and the same JSON for the reported properties).  Update *)
(* and the JSON run under the lock of twin_configuration.c as well.        *)
(*                                                                         *)
(* The configuration is two fields, enough to see a reader catch a memcpy  *)
(* half way, and the priority of operational events, which SetValues also  *)
(* writes before it has parsed every value.                                *)
(***************************************************************************)
EXTENDS Naturals

CONSTANTS
    Threads,    \* the monitor thread and the twin thread
    NoThread,
    MayCall,    \* MayCall[t]: the operations thread t calls
    Values      \* what a field of the configuration may be

Operations == {"GetPriority", "GetPrioritiesJson", "Update"}
Priorities == {"off", "low", "high", "operational"}

ASSUME ThreadAssumption ==
    /\ NoThread \notin Threads
    /\ Values # {}
    /\ MayCall \in [Threads -> SUBSET Operations]

VARIABLES
    eventPriorities, \* the fields of the static struct
    isLocked,        \* ... its flag
    mutex,           \* ... and its lock: the mutex is taken
    twinLock,        \* the holder of twinConfiguration.lock
    pc, op,          \* per thread: control and the running operation
    result,          \* per thread: TWIN_OK or TWIN_LOCK_EXCEPTION
    savedFlag,       \* per thread: newPriorities.isLocked
    new,             \* per thread: newPriorities
    read             \* per thread: what a reader found in the fields

twinVars == <<eventPriorities, isLocked, mutex, twinLock>>
localVars == <<op, result, savedFlag, new, read>>
vars == <<twinVars, pc, localVars>>

Config == [first : Values, second : Values, operational : Priorities]
Settings(v, p) == [first |-> v, second |-> v, operational |-> p]
AnyConfig == CHOOSE c \in Config : TRUE
Locations == {"idle", "twin.lock", "lock.test", "lock.mutex", "lock.set",
              "first", "second", "parse", "copy.flag", "copy.first",
              "copy.second", "unlock.test", "unlock.mutex", "unlock.clear",
              "twin.unlock"}

Init ==
    /\ \E v \in Values : eventPriorities = Settings(v, "operational")
    /\ isLocked = FALSE
    /\ mutex = FALSE
    /\ twinLock = NoThread
    /\ pc = [t \in Threads |-> "idle"]
    /\ op = [t \in Threads |-> "GetPriority"]
    /\ result = [t \in Threads |-> "TWIN_OK"]
    /\ savedFlag = [t \in Threads |-> FALSE]
    /\ new = [t \in Threads |-> AnyConfig]
    /\ read = [t \in Threads |-> AnyConfig]

At(t, l) == pc[t] = l
Goto(t, l) == pc' = [pc EXCEPT ![t] = l]
UnderTwinLock(t) == op[t] # "GetPriority"

-----------------------------------------------------------------------------
(* The start of a call; an update brings a configuration, in which the     *)
(* operational priority is off, low, high or left to its default.          *)
Call(t, o) ==
    /\ At(t, "idle")
    /\ o \in MayCall[t]
    /\ op' = [op EXCEPT ![t] = o]
    /\ result' = [result EXCEPT ![t] = "TWIN_OK"]
    /\ IF o = "Update"
       THEN \E v \in Values, p \in Priorities :
               new' = [new EXCEPT ![t] = Settings(v, p)]
       ELSE UNCHANGED new
    /\ Goto(t, IF o = "GetPriority" THEN "lock.test" ELSE "twin.lock")
    /\ UNCHANGED <<twinVars, savedFlag, read>>

(* Mutant: the result of Lock is not looked at.                            *)
TwinConfigurationLockUnchecked(t) ==
    /\ At(t, "twin.lock")
    /\ twinLock' = t
    /\ Goto(t, "lock.test")
    /\ UNCHANGED <<eventPriorities, isLocked, mutex, localVars>>

TwinConfigurationLock(t) ==
    /\ At(t, "twin.lock")
    /\ twinLock = NoThread
    /\ twinLock' = t
    /\ Goto(t, "lock.test")
    /\ UNCHANGED <<eventPriorities, isLocked, mutex, localVars>>

(* TwinConfigurationEventCollectors_Lock: a set flag is a failure, after   *)
(* which every caller goes to its cleanup and calls _Unlock all the same.  *)
TestIsLocked(t) ==
    /\ At(t, "lock.test")
    /\ \/ /\ isLocked
          /\ result' = [result EXCEPT ![t] = "TWIN_LOCK_EXCEPTION"]
          /\ Goto(t, "unlock.test")
       \/ /\ ~isLocked
          /\ Goto(t, "lock.mutex")
          /\ UNCHANGED result
    /\ UNCHANGED <<twinVars, op, savedFlag, new, read>>

LockMutex(t) ==
    /\ At(t, "lock.mutex")
    /\ ~mutex
    /\ mutex' = TRUE
    /\ Goto(t, "lock.set")
    /\ UNCHANGED <<eventPriorities, isLocked, twinLock, localVars>>

SetIsLocked(t) ==
    /\ At(t, "lock.set")
    /\ isLocked' = TRUE
    /\ Goto(t, IF op[t] = "Update" THEN "parse" ELSE "first")
    /\ UNCHANGED <<eventPriorities, mutex, twinLock, localVars>>

(* SafeGetPriority reads one field, SafeGetPrioritiesJson all of them.     *)
ReadField(t, from, f, to) ==
    /\ At(t, from)
    /\ read' = [read EXCEPT ![t][f] = eventPriorities[f]]
    /\ Goto(t, to)
    /\ UNCHANGED <<twinVars, op, result, savedFlag, new>>

ReadFirst(t) ==
    ReadField(t, "first", "first",
              IF op[t] = "GetPriority" THEN "unlock.test" ELSE "second")

ReadSecond(t) == ReadField(t, "second", "second", "unlock.test")

(* SetValues clamps the operational priority half way through its parsing: *)
(* the one in force, not the new one.                                      *)
ClampOperational(t) ==
    /\ At(t, "parse")
    /\ eventPriorities' = [eventPriorities EXCEPT
                             !.operational = IF @ = "off" THEN "off" ELSE "operational"]
    /\ Goto(t, "copy.flag")
    /\ UNCHANGED <<isLocked, mutex, twinLock, localVars>>

(* SetValues, its values parsed: isLocked is saved, and then copied back   *)
(* with the fields by the memcpy.                                          *)
SaveFlag(t) ==
    /\ At(t, "copy.flag")
    /\ savedFlag' = [savedFlag EXCEPT ![t] = isLocked]
    /\ Goto(t, "copy.first")
    /\ UNCHANGED <<twinVars, op, result, new, read>>

(* A value of the wrong type, before or after that: nothing is copied.     *)
RejectValues(t) ==
    /\ pc[t] \in {"parse", "copy.flag"}
    /\ Goto(t, "unlock.test")
    /\ UNCHANGED <<twinVars, localVars>>

CopyFirst(t) ==
    /\ At(t, "copy.first")
    /\ eventPriorities' = [eventPriorities EXCEPT !.first = new[t].first]
    /\ Goto(t, "copy.second")
    /\ UNCHANGED <<isLocked, mutex, twinLock, localVars>>

CopySecond(t) ==
    /\ At(t, "copy.second")
    /\ eventPriorities' = [eventPriorities EXCEPT
                             !.second = new[t].second,
                             !.operational = new[t].operational]
    /\ isLocked' = savedFlag[t]
    /\ Goto(t, "unlock.test")
    /\ UNCHANGED <<mutex, twinLock, localVars>>

(* TwinConfigurationEventCollectors_Unlock.                                *)
TestUnlock(t) ==
    /\ At(t, "unlock.test")
    /\ Goto(t, IF isLocked THEN "unlock.mutex" ELSE "unlock.clear")
    /\ UNCHANGED <<twinVars, localVars>>

(* A pthread mutex of the default kind is released whoever calls unlock.   *)
UnlockMutex(t) ==
    /\ At(t, "unlock.mutex")
    /\ mutex' = FALSE
    /\ Goto(t, "unlock.clear")
    /\ UNCHANGED <<eventPriorities, isLocked, twinLock, localVars>>

(* The end of a call: its local variables are gone.                        *)
Return(t) ==
    /\ savedFlag' = [savedFlag EXCEPT ![t] = FALSE]
    /\ new' = [new EXCEPT ![t] = AnyConfig]
    /\ Goto(t, "idle")

ClearIsLocked(t) ==
    /\ At(t, "unlock.clear")
    /\ isLocked' = FALSE
    /\ IF UnderTwinLock(t)
       THEN Goto(t, "twin.unlock") /\ UNCHANGED <<savedFlag, new>>
       ELSE Return(t)
    /\ UNCHANGED <<eventPriorities, mutex, twinLock, op, result, read>>

TwinConfigurationUnlock(t) ==
    /\ At(t, "twin.unlock")
    /\ twinLock' = NoThread
    /\ Return(t)
    /\ UNCHANGED <<eventPriorities, isLocked, mutex, op, result, read>>

-----------------------------------------------------------------------------
Step(t) ==
    \/ TwinConfigurationLock(t) \/ TestIsLocked(t) \/ LockMutex(t)
    \/ SetIsLocked(t) \/ ReadFirst(t) \/ ReadSecond(t) \/ ClampOperational(t)
    \/ SaveFlag(t) \/ RejectValues(t) \/ CopyFirst(t) \/ CopySecond(t) \/ TestUnlock(t)
    \/ UnlockMutex(t) \/ ClearIsLocked(t) \/ TwinConfigurationUnlock(t)

Next == \E t \in Threads : Step(t) \/ \E o \in Operations : Call(t, o)

Spec == Init /\ [][Next]_vars

(***************************************************************************)
(* A thread inside a call keeps running and is granted a lock that is free *)
(* again and again.                                                        *)
(***************************************************************************)
FairSpec == Spec /\ \A t \in Threads : SF_vars(Step(t))

-----------------------------------------------------------------------------
(***************************************************************************)
(* Type invariant.                                                         *)
(***************************************************************************)
TypeOK ==
    /\ eventPriorities \in Config
    /\ isLocked \in BOOLEAN
    /\ mutex \in BOOLEAN
    /\ twinLock \in Threads \cup {NoThread}
    /\ pc \in [Threads -> Locations]
    /\ op \in [Threads -> Operations]
    /\ result \in [Threads -> {"TWIN_OK", "TWIN_LOCK_EXCEPTION"}]
    /\ savedFlag \in [Threads -> BOOLEAN]
    /\ new \in [Threads -> Config]
    /\ read \in [Threads -> Config]

(***************************************************************************)
(* The code between _Lock and _Unlock runs in one thread at a time ("This  *)
(* function should be called only after the config lock is locked").       *)
(***************************************************************************)
InSection(t) == pc[t] \in {"first", "second", "parse", "copy.flag", "copy.first", "copy.second"}

SectionExclusive == \A t, u \in Threads : InSection(t) /\ InSection(u) => t = u

(***************************************************************************)
(* The reported configuration is one configuration: no JSON mixes the      *)
(* priorities of two updates, although the collectors' own lock does not   *)
(* exclude them: the lock of twin_configuration.c does.                    *)
(***************************************************************************)
Whole(c) == c.first = c.second

ReportIsOneConfiguration ==
    \A t \in Threads :
        pc[t] \in {"unlock.test", "unlock.mutex", "unlock.clear", "twin.unlock"}
        /\ op[t] = "GetPrioritiesJson" /\ result[t] = "TWIN_OK" => Whole(read[t])

(***************************************************************************)
(* "Operational events can be off/operational prio": whatever the twin     *)
(* asks for, operational events are never given another queue's priority.  *)
(***************************************************************************)
OperationalClamped == eventPriorities.operational \in {"off", "operational"}

(***************************************************************************)
(* Every operation returns TWIN_OK or an error code: none waits for ever.  *)
(***************************************************************************)
OperationsReturn == \A t \in Threads : pc[t] # "idle" ~> pc[t] = "idle"

=============================================================================
