---------------------------- MODULE MCCollectors ----------------------------
(***************************************************************************)
(* All the collectors.                                                     *)
(***************************************************************************)
EXTENDS Collectors

Everything == AllCollectors

=============================================================================
