-------------------------- MODULE MCAuthentication --------------------------
(* Authentication with two hubs and two devices, so that a re-provisioning *)
(* can change either name or both.                                         *)
EXTENDS Authentication

CONSTANTS hubA, hubB, deviceA, deviceB

MCHubs == {hubA, hubB}
MCDevices == {deviceA, deviceB}

=============================================================================
