---------------------------- MODULE MCEventCache ----------------------------
(***************************************************************************)
(* Instance: the monitor thread pushes on the high priority queue, drains  *)
(* the diagnostic queue and logs; the publisher pops the high priority     *)
(* queue and logs.                                                         *)
(***************************************************************************)
EXTENDS EventCache, FiniteSetsExt, TLC

CONSTANTS monitor, publisher, high, diag, b1, b2, b3

ThreadsDef == {monitor, publisher}
QueuesDef == {high, diag}
BuffersDef == {b1, b2, b3}
SizeOf == b1 :> 2 @@ b2 :> 3 @@ b3 :> 3
BytesDef == [S \in SUBSET BuffersDef |-> MapThenSumSet(LAMBDA b : SizeOf[b], S)]
MayPushDef == {<<monitor, high>>, <<publisher, diag>>}
MaySnapshotDef == {<<monitor, high>>}
MayPopDef == {<<publisher, high>>, <<monitor, diag>>}

=============================================================================
