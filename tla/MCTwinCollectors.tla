-------------------------- MODULE MCTwinCollectors --------------------------
(***************************************************************************)
(* Instance: the two threads of the agent that use the collectors' lock,   *)
(* each with the operations it really calls.                               *)
(***************************************************************************)
EXTENDS TwinCollectors, TLC

CONSTANTS monitor, twinUpdater

ThreadsDef == {monitor, twinUpdater}
MayCallDef == monitor :> {"GetPriority", "GetPrioritiesJson"}
              @@ twinUpdater :> {"Update", "GetPrioritiesJson"}

=============================================================================
