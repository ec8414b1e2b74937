--------------------------- MODULE MCMonitorTask ----------------------------
(***************************************************************************)
(* A word of 8 ticks, so that the signed difference ends at 3: a snapshot  *)
(* frequency of 3 is the longest that comes due.                           *)
(***************************************************************************)
EXTENDS MonitorTask

=============================================================================
