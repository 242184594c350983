------------------------------ MODULE MC_Server ------------------------------
(* Small instances of ServerTCP for TLC.  Sessions are interchangeable, and *)
(* so are the threads of either kind.                                       *)
EXTENDS ServerTCPProps, TLC

Symmetry ==
  Permutations(Sessions) \cup Permutations(IoThreads) \cup Permutations(UserThreads)
=============================================================================
