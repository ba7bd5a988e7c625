--------------------------- MODULE MCRelayManager ---------------------------
(* Small instances of the relay manager for TLC.                           *)
EXTENDS RelayManager

CONSTANTS r1, r2, r3
Two   == <<r1, r2>>
Three == <<r2, r1, r3>>
=============================================================================
