----------------------------- MODULE SessionLink -----------------------------
(***************************************************************************)
(* What a Session looks like to the object that owns it, ClientTCP or      *)
(* ServerTCP: whether it reads and writes, and whether it was stopped.     *)
(* Module Session is shown to implement this, and the owners' modules are  *)
(* built on it.  The owner calls start() once.                             *)
(***************************************************************************)

VARIABLES
  reading,   \* off, armed (read going), busy (in read_callback), failed or ended
  writing,   \* off, armed (write going), failed or ended
  stopped    \* stop() has taken effect

linkVars == <<reading, writing, stopped>>

Init == reading = "off" /\ writing = "off" /\ stopped = FALSE

Read(from, to) == reading = from /\ reading' = to /\ UNCHANGED <<writing, stopped>>
WriteGoes(from, to) == writing = from /\ writing' = to /\ UNCHANGED <<reading, stopped>>

(* Calls of the owner.  A write() whose checks went before, or missed, a   *)
(* stop() of another thread still begins.                                  *)
Start == Read("off", "armed")
Write == WriteGoes("off", "armed")
Stop == stopped' = TRUE /\ UNCHANGED <<reading, writing>>

(* read_callback is entered and returns; error_callback is entered.        *)
Arrive == Read("armed", "busy")
Return == Read("busy", "armed")
ReadFails == Read("armed", "failed")
WriteFails == WriteGoes("armed", "failed")

(* All that was written is sent.                                           *)
Written == WriteGoes("armed", "off")

(* A handler that finds the session stopped ends its chain unseen.         *)
ReadEnds == stopped /\ Read("armed", "ended")
WriteEnds == stopped /\ WriteGoes("armed", "ended")

Next ==
  \/ Start \/ Write \/ Stop
  \/ Arrive \/ Return \/ ReadFails \/ WriteFails \/ Written
  \/ ReadEnds \/ WriteEnds

Spec == Init /\ [][Next]_linkVars
=============================================================================
