---------------------------- MODULE MCHubAdapter ----------------------------
(* HubAdapter with DPS, and clients enough for a renewal that succeeds or  *)
(* fails half way, and the report on an earlier client's handle.           *)
EXTENDS HubAdapter

=============================================================================
