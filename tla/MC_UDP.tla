-------------------------------- MODULE MC_UDP --------------------------------
(* Small instances of UDP for TLC.                                          *)
EXTENDS UDPProps
=============================================================================
