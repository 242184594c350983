----------------------------- MODULE Connections -----------------------------
(***************************************************************************)
(* What a ServerTCP promises its user about the connections of it: each is *)
(* shown to onConnect once, one after the other; its messages come one at  *)
(* a time, the first when onConnect has returned and none after its read   *)
(* has failed; onDisconnect is called once at most, whenever the server or *)
(* the user drops it.  Dropped is not dead: what the session reads is      *)
(* shown all the same.  Once an accept has failed nobody comes any more.   *)
(***************************************************************************)
EXTENDS Naturals

CONSTANTS Conns

VARIABLES
  phase,    \* per connection: unknown, arrived, greeting (in onConnect), met,
            \*   talking (in onMessage) or lost (its read has failed)
  drops,    \* per connection: the calls of onDisconnect
  refusing  \* an accept has failed

connVars == <<phase, drops, refusing>>

Init ==
  /\ phase = [c \in Conns |-> "unknown"]
  /\ drops = [c \in Conns |-> 0]
  /\ refusing = FALSE

(* The connection goes on from one phase to the next.                      *)
Goes(c, from, to) ==
  /\ phase[c] = from
  /\ phase' = [phase EXCEPT ![c] = to]
  /\ UNCHANGED <<drops, refusing>>

Welcoming == \E c \in Conns : phase[c] \in {"arrived", "greeting"}

Arrive(c) == ~Welcoming /\ ~refusing /\ Goes(c, "unknown", "arrived")
Greet(c) == Goes(c, "arrived", "greeting")
Greeted(c) == Goes(c, "greeting", "met")
Hear(c) == Goes(c, "met", "talking")
Answer(c) == Goes(c, "talking", "met")
Lose(c) == Goes(c, "met", "lost")

Drop(c) ==
  /\ phase[c] # "unknown" /\ drops[c] = 0
  /\ drops' = [drops EXCEPT ![c] = 1]
  /\ UNCHANGED <<phase, refusing>>

Refuse ==
  /\ ~Welcoming
  /\ refusing' = TRUE
  /\ UNCHANGED <<phase, drops>>

Next ==
  \/ Refuse
  \/ \E c \in Conns :
       \/ Arrive(c) \/ Greet(c) \/ Greeted(c)
       \/ Hear(c) \/ Answer(c) \/ Lose(c) \/ Drop(c)

Spec == Init /\ [][Next]_connVars
=============================================================================
