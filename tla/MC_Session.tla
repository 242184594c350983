------------------------------ MODULE MC_Session ------------------------------
(* Small instances of Session for TLC.  User threads, and io threads other  *)
(* than the one that starts the session, are interchangeable.               *)
EXTENDS SessionInv, TLC

Symmetry == Permutations(UserThreads) \cup Permutations(IoThreads \ {Starter})
=============================================================================
