------------------------------ MODULE IoContext ------------------------------
(***************************************************************************)
(* asio::io_context as the framework uses it: a count of outstanding work  *)
(* and a stop flag.  An operation is one piece of work from its start to   *)
(* the return of its handler.  Nothing in the framework calls restart(), so *)
(* a context that has stopped stays stopped.                               *)
(***************************************************************************)
EXTENDS Naturals

Contexts == [work : Nat, stopped : BOOLEAN]

NewContext == [work |-> 0, stopped |-> FALSE]

Halt(c) == [c EXCEPT !.stopped = TRUE]
WorkUncounted(c) == c                   \* an operation posted without its work
WorkStarted(c) == [c EXCEPT !.work = @ + 1]
WorkFinished(c) == [work |-> c.work - 1, stopped |-> c.stopped \/ c.work = 1]

(* run() and run_one() stop a context that has no work, and return.        *)
RunEntered(c) == IF c.work = 0 THEN Halt(c) ELSE c
=============================================================================
