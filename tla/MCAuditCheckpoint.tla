------------------------- MODULE MCAuditCheckpoint -------------------------
(***************************************************************************)
(* Two ticks to a second, so that a checkpoint is less exact than a record;*)
(* two records whose payloads may be equal or not.                         *)
(***************************************************************************)
EXTENDS AuditCheckpoint

CONSTANTS r1, r2, p1, p2

TwoRecords == {r1, r2}
TwoPayloads == {p1, p2}

=============================================================================
