---------------------------- MODULE MessageStream ----------------------------
(***************************************************************************)
(* What a Session promises its user about one direction of a connection:   *)
(* read_callback gets the peer's messages, whole, in order, each once.     *)
(* Those the peer had not got rid of when the connection ended are lost,   *)
(* and what is lost is always the end of the stream, never its middle.     *)
(***************************************************************************)
EXTENDS Naturals, Sequences

CONSTANTS Messages   \* what a message is told by: here its length

VARIABLES sent,      \* the messages that reach, or have reached, this side
          got,       \* the messages handed to the user
          open       \* the peer may still send

streamVars == <<sent, got, open>>

Init == sent = <<>> /\ got = <<>> /\ open = TRUE

Send(m) == open /\ sent' = Append(sent, m) /\ UNCHANGED <<got, open>>

Deliver ==
  /\ Len(got) < Len(sent)
  /\ got' = Append(got, sent[Len(got) + 1])
  /\ UNCHANGED <<sent, open>>

(* The connection ends: only the first k messages get through.             *)
Cut(k) ==
  /\ open
  /\ k \in Len(got) .. Len(sent)
  /\ sent' = SubSeq(sent, 1, k)
  /\ open' = FALSE
  /\ UNCHANGED got

Next ==
  \/ \E m \in Messages : Send(m)
  \/ Deliver
  \/ \E k \in Len(got) .. Len(sent) : Cut(k)

Spec == Init /\ [][Next]_streamVars
=============================================================================
