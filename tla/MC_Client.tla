------------------------------ MODULE MC_Client ------------------------------
(* A small instance of ClientTCP for TLC, with an int of 3 bits, a size_t   *)
(* of 5 and every frame a PakSize of 5 bits can announce.                   *)
EXTENDS ClientTCPProps

MCFrames == Lengths
=============================================================================
