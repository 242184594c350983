---------------------------- MODULE ClientTCPProps ----------------------------
(***************************************************************************)
(* What a ClientTCP promises, stated over the steps of module ClientTCP.   *)
(***************************************************************************)
EXTENDS ClientTCP

TypeOK ==
  /\ connecting \in {"waiting", "accepted", "refused", "aborted", "done"}
  /\ connected \in BOOLEAN /\ alive \in BOOLEAN /\ stopped \in BOOLEAN
  /\ reading \in {"off", "armed", "busy", "failed", "ended"}
  /\ writing \in {"off", "armed", "failed", "ended"}
  /\ ctx \in Contexts
  /\ at \in [Threads -> Places]
  /\ message \in [Threads -> Message]
  /\ disconnects \in Nat /\ writeCalls \in 0 .. MaxWrites

(* run() blocks (client_tcp.h:14): when it may return, in whichever thread, *)
(* all is over.  The connect has been answered and no callback runs in any *)
(* thread, the one of a message included; and on a connection that stood   *)
(* reading has ended, by an error or by close(), whatever comes of the     *)
(* writes (client_tcp.cpp:26-35, 87-90).                                   *)
RunBlocks ==
  ctx.stopped => /\ connecting = "done"
                 /\ \A t \in Threads : at[t] \notin Callbacks
                 /\ connected => reading \in {"failed", "ended"}

(* onDisconnect is called once for each direction that failed, so up to    *)
(* twice for a client, after the onError that tells of it                  *)
(* (client_tcp.cpp:18-25).                                                 *)
InError == {t \in Threads : at[t] \in {"onReadError", "onWriteError"}}
Failures == {dir \in {"read", "write"} :
               IF dir = "read" THEN reading = "failed" ELSE writing = "failed"}
DisconnectPerFailure == disconnects + Cardinality(InError) = Cardinality(Failures)

(* onMessage gets the length the peer's write() was called with if an int  *)
(* holds it.  Up to twice that a wrong length is told to onError first;    *)
(* longer frames may be shown shorter than they are, and nobody is told    *)
(* (client_tcp.cpp:10-17).                                                 *)
MessageLength ==
  \A t \in Threads : at[t] = "onMessage" =>
    LET m == message[t]
        length == m.frame - HdLen
    IN /\ length \in 0 .. IntHalf - 1 => m.shown = length /\ ~m.told
       /\ length < 2 * IntHalf /\ m.shown # length => m.told

-----------------------------------------------------------------------------
(***************************************************************************)
(* Fairness.  Callbacks return, threads leave run() when they may, and     *)
(* what has finished is handled: the queue is first in, first out.  When   *)
(* the peer answers, and whether anybody calls run(), is left open.        *)
(***************************************************************************)
FairSpec ==
  /\ Spec
  /\ \A t \in Threads :
       WF_vars(alive /\ Resume(t)) /\ WF_vars(alive /\ LeaveRun(t))
  /\ SF_vars(alive /\ \E t \in Threads : TakeConnected(t) \/ TakeRefused(t))
  /\ SF_vars(alive /\ \E t \in Threads : TakeStoppedRead(t))
  /\ SF_vars(alive /\ stopped /\ \E t \in Threads : TakeWritten(t))

(* close() ends run(): whatever was outstanding, a connect included, is    *)
(* handled and the context runs out of work (client_tcp.cpp:87-91).        *)
CloseEndsRun ==
  \A t \in Threads : stopped /\ at[t] # "out" ~> at[t] = "out" \/ ~alive

(* A connection lost ends run() too, without a close(): when reading has   *)
(* failed, by the peer's end or an error, and no write is under way, there *)
(* is no work left, whichever thread ran the error's callbacks             *)
(* (client_tcp.cpp:18-25, 87-90).                                          *)
LossEndsRun ==
  \A t \in Threads :
    reading = "failed" /\ at[t] # "out" ~>
      at[t] = "out" \/ writing = "armed" \/ ~alive
=============================================================================
