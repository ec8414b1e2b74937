-------------------------- MODULE MCEventPublisher --------------------------
(***************************************************************************)
(* Instance: three events, e3 larger than the others.                      *)
(***************************************************************************)
EXTENDS EventPublisher, FiniteSetsExt, TLC

CONSTANTS e1, e2, e3

EventsDef == {e1, e2, e3}
DataSize == e1 :> 1 @@ e2 :> 1 @@ e3 :> 2
PayloadDef == [S \in SUBSET EventsDef |-> MapThenSumSet(LAMBDA e : DataSize[e], S)]

=============================================================================
