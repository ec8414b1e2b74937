----------------------------- MODULE Collectors -----------------------------
(***************************************************************************)
(* Execution of the collectors' programs (module CollectorPrograms) by the *)
(* monitor thread: a stack of calls, the objects that are allocated, and   *)
(* the privileges of the process.  Every call that can fail may fail.      *)
(*                                                                         *)
(* A JSON writer frees its value unless the value was attached to another  *)
(* one (shouldFree); the change to root is undone by the record that made  *)
(* it (wasSet).  Both are the field "owns" of a held object.               *)
(***************************************************************************)
EXTENDS CollectorPrograms, Integers, FiniteSets, TLC

CONSTANT Monitored        \* the collectors this run executes

ASSUME CollectorsAssumption == Monitored \subseteq AllCollectors

VARIABLES
    collector,  \* the collector under execution
    phase,      \* where the collector is between its Init and its Deinit
    stack,      \* frames, the innermost last
    held,       \* the objects pointed to: name -> [owns, attached]
    foreign,    \* pointers that are set but not owned: given away, freed, wild
    root,       \* whether the effective user is root
    lost,       \* history: objects nobody points to any more
    faults,     \* history: pointers freed or used without being owned
    pushed,     \* history: functions whose last call handed something over
    result      \* what the last function called by the task returned

memory == <<held, foreign, root>>
history == <<lost, faults, pushed>>
vars == <<collector, phase, stack, memory, history, result>>

Fresh == [owns |-> TRUE, attached |-> FALSE]
Frame(f) == [fn |-> f, pc |-> 1, result |-> "OK"]
top == stack[Len(stack)]
Body(f) == Program[f].body
Running == stack # << >>
AtCleanup == Running /\ top.pc = 0
Instruction == Body(top.fn)[top.pc]
At(op) == Running /\ top.pc # 0 /\ Instruction.op = op

(* pc 0 is the cleanup label, which follows the last instruction.          *)
NextPC(frame) ==
    IF frame.pc = Len(Body(frame.fn)) THEN 0 ELSE frame.pc + 1
WithTop(frame) == [stack EXCEPT ![Len(stack)] = frame]
GoOn == stack' = WithTop([top EXCEPT !.pc = NextPC(top)])
Leave(res) == stack' = WithTop([top EXCEPT !.pc = 0, !.result = res])
Invoke(f) == stack' = Append(stack, Frame(f))

(* The pointers a function sets or gives away: its locals.                 *)
Pointers(f) ==
    UNION {CASE Body(f)[i].op = "acquire" -> {Body(f)[i].r}
             [] Body(f)[i].op = "handOver" -> Body(f)[i].rs
             [] OTHER -> {} : i \in DOMAIN Body(f)}

---------------------------------------------------------------------------
Init ==
    /\ collector \in Monitored
    /\ phase = IF collector.init = NoFunction THEN "ready" ELSE "new"
    /\ stack = << >>
    /\ held = << >>
    /\ foreign = {}
    /\ root = FALSE
    /\ lost = {}
    /\ faults = {}
    /\ pushed = {}
    /\ result = "OK"

(* The task calls the collector's functions: Init, GetEvents, Deinit.      *)
Start(f) ==
    /\ ~Running
    /\ f # NoFunction
    /\ Invoke(f)
    /\ pushed' = {}
    /\ UNCHANGED <<collector, memory, lost, faults, result>>

InitCollector ==
    /\ phase = "new"
    /\ Start(collector.init)
    /\ phase' = "init"

(* The result of the last cycle is not looked at.                          *)
GetEvents ==
    /\ phase = "ready"
    /\ Start(collector.events)
    /\ phase' = phase

Deinit ==
    /\ phase = "ready"
    /\ Start(collector.deinit)
    /\ phase' = "done"

---------------------------------------------------------------------------
(* Instructions.                                                           *)

(* Overwriting the only pointer to an object loses the object.             *)
Overwritten(r) == IF r \in DOMAIN held THEN {r} ELSE {}

AcquireOK ==
    /\ At("acquire")
    /\ held' = (Instruction.r :> Fresh) @@ held
    /\ foreign' = (foreign \ {Instruction.r}) \cup Instruction.fields
    /\ lost' = lost \cup Overwritten(Instruction.r)
    /\ GoOn
    /\ UNCHANGED <<collector, phase, root, faults, pushed, result>>

AcquireFails ==
    /\ At("acquire")
    /\ \E how \in Instruction.failing :
          foreign' = IF how = "dangling" THEN foreign \cup {Instruction.r}
                                         ELSE foreign \ {Instruction.r}
    /\ Leave("EXCEPTION")
    /\ lost' = lost \cup Overwritten(Instruction.r)
    /\ held' = [r \in DOMAIN held \ {Instruction.r} |-> held[r]]
    /\ UNCHANGED <<collector, phase, root, faults, pushed, result>>

(* The pointer of the last call is used as it is: NULL ends the process.   *)
UsePointer ==
    /\ At("use")
    /\ Instruction.r \in DOMAIN held
    /\ GoOn
    /\ UNCHANGED <<collector, phase, memory, history, result>>

Crash ==
    /\ \/ At("use") /\ Instruction.r \notin DOMAIN held
       \/ At("acquire") /\ Instruction.failing = {}
    /\ phase' = "crashed"
    /\ stack' = << >>
    /\ faults' = faults \cup {Instruction.r}
    /\ UNCHANGED <<collector, memory, lost, pushed, result>>

CheckOK ==
    /\ At("check")
    /\ GoOn
    /\ UNCHANGED <<collector, phase, memory, history, result>>

CheckFails ==
    /\ At("check")
    /\ \E res \in Instruction.results : Leave(res)
    /\ UNCHANGED <<collector, phase, memory, history, result>>

(* processInfo->wasSet: not when the user is root already.                 *)
WasSet == ~root

ChangeToRootOK ==
    /\ At("root")
    /\ held' = (Instruction.r :> [Fresh EXCEPT !.owns = WasSet]) @@ held
    /\ root' = TRUE
    /\ GoOn
    /\ UNCHANGED <<collector, phase, foreign, history, result>>

ChangeToRootFails ==
    /\ At("root")
    /\ ~root
    /\ Leave("EXCEPTION")
    /\ UNCHANGED <<collector, phase, memory, history, result>>

(* json_object_set_value, json_array_append_value; shouldFree = false.     *)
Attached(h) == [owns |-> FALSE, attached |-> TRUE]

AttachOK ==
    /\ At("attach")
    /\ held' = [held EXCEPT ![Instruction.r] = Attached(@)]
    /\ GoOn
    /\ UNCHANGED <<collector, phase, foreign, root, history, result>>

AttachFails ==
    /\ At("attach")
    /\ Leave("EXCEPTION")
    /\ UNCHANGED <<collector, phase, memory, history, result>>

HandOverOK ==
    /\ At("handOver")
    /\ held' = [r \in DOMAIN held \ Instruction.rs |-> held[r]]
    /\ foreign' = foreign \cup Instruction.rs
    /\ pushed' = pushed \cup {top.fn}
    /\ GoOn
    /\ UNCHANGED <<collector, phase, root, lost, faults, result>>

HandOverFails ==
    /\ At("handOver")
    /\ \E res \in Instruction.results : Leave(res)
    /\ UNCHANGED <<collector, phase, memory, history, result>>

---------------------------------------------------------------------------
(* Releasing.                                                              *)

(* seteuid: a record that made the change to root undoes it.               *)
IsProcessInfo(r) ==
    r \in {"firewallProcessInfo", "baselineProcessInfo", "searchProcessInfo",
           "controlProcessInfo"}

(* The pointers rs are released: a value that is neither owned by its      *)
(* writer nor attached is lost, one that is both is freed twice.           *)
Release(rs) ==
    LET mine == rs \cap DOMAIN held
        infos == {r \in mine : IsProcessInfo(r)}
    IN  /\ held' = [r \in DOMAIN held \ rs |-> held[r]]
        /\ root' = (root /\ ~\E r \in infos : held[r].owns)
        /\ faults' = faults \cup (rs \cap foreign)
                     \cup {r \in mine : held[r].owns /\ held[r].attached}
        /\ lost' = lost \cup {r \in mine \ infos :
                                 ~held[r].owns /\ ~held[r].attached}

FreeNow ==
    /\ At("free")
    /\ Release({Instruction.r})
    /\ foreign' = foreign
    /\ GoOn
    /\ UNCHANGED <<collector, phase, pushed, result>>

---------------------------------------------------------------------------
(* Calls and returns.                                                      *)

CallFunction ==
    /\ At("call") \/ At("each")
    /\ \E f \in Instruction.fs : Invoke(f) /\ pushed' = pushed \ {f}
    /\ UNCHANGED <<collector, phase, memory, lost, faults, result>>

EndLoop ==
    /\ At("each")
    /\ GoOn
    /\ UNCHANGED <<collector, phase, memory, history, result>>

IteratorFails ==
    /\ At("each")
    /\ \E res \in Instruction.results : Leave(res)
    /\ UNCHANGED <<collector, phase, memory, history, result>>

(* What the caller does with a result: a loop stays where it is.           *)
Returned(caller, res) ==
    LET call == Body(caller.fn)[caller.pc]
    IN  CASE res \in call.kept -> [caller EXCEPT !.result = res]
          [] res \notin call.kept \cup call.tolerated \cup {"OK"} ->
                [caller EXCEPT !.pc = 0, !.result = res]
          [] call.op = "each" /\ res \in call.tolerated \cup {"OK"} -> caller
          [] OTHER -> [caller EXCEPT !.pc = NextPC(caller)]

(* EventMonitorTask_Init fails with the collector, and is not repeated.    *)
PhaseAfter(res) ==
    CASE phase = "init" /\ res = "OK" -> "ready"
      [] phase = "init" /\ res # "OK" -> "failed"
      [] OTHER -> phase

(* The cleanup label and the return, with the locals out of scope.         *)
Cleanup ==
    /\ AtCleanup
    /\ \E res \in {top.result}
                  \cup (IF Program[top.fn].mayFail THEN Failure ELSE {}) :
          /\ Release(Program[top.fn].releases
                     \cup IF res # "OK" THEN Program[top.fn].onFailure
                                        ELSE {})
          /\ foreign' = foreign \ Pointers(top.fn)
          /\ IF Len(stack) = 1
             THEN /\ stack' = << >>
                  /\ result' = res
                  /\ phase' = PhaseAfter(res)
             ELSE /\ stack' = [SubSeq(stack, 1, Len(stack) - 1) EXCEPT
                                  ![Len(stack) - 1] = Returned(@, res)]
                  /\ UNCHANGED <<phase, result>>
    /\ UNCHANGED <<collector, pushed>>

Next ==
    \/ InitCollector \/ GetEvents \/ Deinit
    \/ AcquireOK \/ AcquireFails \/ UsePointer \/ Crash
    \/ CheckOK \/ CheckFails
    \/ ChangeToRootOK \/ ChangeToRootFails
    \/ AttachOK \/ AttachFails
    \/ HandOverOK \/ HandOverFails
    \/ FreeNow
    \/ CallFunction \/ EndLoop \/ IteratorFails
    \/ Cleanup

Spec == Init /\ [][Next]_vars

---------------------------------------------------------------------------
(* Properties.                                                             *)

(***************************************************************************)
(* Types.  A stack of frames of known functions, and at most one record    *)
(* that made the change to root while the process is root.                 *)
(***************************************************************************)
TypeOK ==
    /\ collector \in Monitored
    /\ phase \in {"new", "init", "ready", "failed", "done", "crashed"}
    /\ \A i \in DOMAIN stack :
          /\ stack[i].fn \in DOMAIN Program
          /\ stack[i].pc \in 0..Len(Body(stack[i].fn))
          /\ stack[i].result \in Results
    /\ \A r \in DOMAIN held : held[r] \in [owns : BOOLEAN, attached : BOOLEAN]
    /\ root \in BOOLEAN
    /\ result \in Results
    /\ root <=> \E r \in DOMAIN held : IsProcessInfo(r) /\ held[r].owns

(***************************************************************************)
(* Whatever fails in a collector that raised its privileges (firewall,     *)
(* baseline, the audit search and the audit control), the process is no    *)
(* longer root when the collector's function has returned.                 *)
(***************************************************************************)
PrivilegesGivenBack == ~Running /\ phase # "crashed" => ~root

(* What a collector keeps between two calls, and the allocations that are  *)
(* known to be abandoned: the copy of the executable's hash, of the system *)
(* call's name, an aggregated event the queue had no room for, and the     *)
(* configuration serialised for the report of a type mismatch.             *)
Kept == IF phase \in {"ready", "failed"}
        THEN Aggregator \cup {"executableHashMap"} ELSE {}
Abandoned == {"Hash", "msgTypeCopy", "aggregatedOutput",
              "currentConfiguration"}

(* Iterators that were freed by a failing Init and are freed again by the  *)
(* caller, a string of a diagnostic event freed before it is set, and the  *)
(* two pointers used without a check.                                      *)
KnownFaults == {"groupsIterator", "portsIterator", "correlationId",
                "rule", "aggregatorObj"}

(***************************************************************************)
(* Between two calls a collector holds its aggregator and its map of       *)
(* hashes and nothing else: every path through its functions, whichever of *)
(* the calls failed, released the writers, buffers, iterators, streams and *)
(* the audit handles it had, or handed them over, except for Abandoned.    *)
(* And nothing is released by two owners: not the writer of an object      *)
(* attached to an array and the array, not the queue and the function that *)
(* pushed a buffer, not a caller and a failed callee, except for           *)
(* KnownFaults.                                                            *)
(***************************************************************************)
ReleasedExactlyOnce ==
    /\ ~Running /\ phase # "crashed" => DOMAIN held \subseteq Kept \cup Abandoned
    /\ lost \subseteq Abandoned
    /\ faults \subseteq KnownFaults

HandsOver(f) == \E i \in DOMAIN Body(f) : Body(f)[i].op = "handOver"

(***************************************************************************)
(* A function whose work is to hand an event over reports success only     *)
(* when it did: OK is not what remains of an earlier step's result, of a   *)
(* full queue or of an empty one.  The aggregator reports OK for an event  *)
(* dropped by a full queue, and ConnectionsQueued is about the other.      *)
(***************************************************************************)
OkMeansHandedOver ==
    AtCleanup /\ top.result = "OK" /\ HandsOver(top.fn)
    /\ top.fn \notin {"EventAggregator_CreateSingleAggregatedEvent",
                      "ConnectionCreateEventCollector_CreateSingleEvent"}
    => top.fn \in pushed

(***************************************************************************)
(* connection_create_collector.h: GetEvents creates "a message for each    *)
(* connection creation" and inserts it into the queue, or fails.  Violated:*)
(* an event that cannot be serialised counts as a success.                 *)
(***************************************************************************)
ConnectionsQueued ==
    AtCleanup /\ top.result = "OK"
    /\ top.fn = "ConnectionCreateEventCollector_CreateSingleEvent"
    => top.fn \in pushed

(***************************************************************************)
(* connection_create_collector.h: Init "initializes the connection event   *)
(* collector" and returns OK on success, EXCEPTION otherwise.  Violated:   *)
(* it returns OK when the aggregator could not be created, and the next    *)
(* GetEvents dereferences NULL.                                            *)
(***************************************************************************)
InitMeansUsable ==
    phase = "ready" /\ collector.init # NoFunction
    => "aggregatorObj" \in DOMAIN held

=============================================================================
