------------------------------- MODULE UDPProps -------------------------------
(***************************************************************************)
(* What ClientUDP and ServerUDP promise, stated over the steps of UDP.     *)
(***************************************************************************)
EXTENDS UDP

TypeOK ==
  /\ ctx \in [Sides -> Contexts] /\ halted \subseteq Sides
  /\ mode \in [Threads -> Modes] /\ at \in [Threads -> Places]
  /\ arg \in [Threads -> Datagrams \cup Blocks \cup {None}]
  /\ heap \in [Blocks -> Datagrams \cup {None}]
  /\ written \subseteq Datagrams /\ sends \in [Sides -> Seq(Send)]
  /\ wire \subseteq written /\ arrived \in Seq(written)
  /\ receive \in {"off", "waiting", "done", "failed"}
  /\ receiveBuf \in written \cup {None}
  /\ sentOK \in BOOLEAN

(* A block is allocated exactly as long as a send that uses it is          *)
(* outstanding or its handler runs, whether the send succeeds or fails,    *)
(* and no two use the same (client_udp.cpp:34-53, server_udp.cpp:48-65).   *)
Outstanding == UNION {{[side |-> side, i |-> i] : i \in DOMAIN sends[side]} : side \in Sides}
BlockOf(o) == sends[o.side][o.i].block
BufferAccounted ==
  /\ \A o, p \in Outstanding : BlockOf(o) = BlockOf(p) => o = p
  /\ {b \in Blocks : heap[b] # None} =
       {BlockOf(o) : o \in Outstanding}
         \cup {arg[t] : t \in {u \in Threads : at[u] = "onError"}}

(* The kernel sends the bytes write() was given, however long the send     *)
(* waits and whatever is allocated meanwhile (client_udp.cpp:45-53).       *)
DatagramIntact == sentOK

(* While onMessage looks at receive_buf it holds the datagram onMessage    *)
(* was called with, which somebody wrote and which has bytes after its     *)
(* head: the next is not received before it returns, nor shown to another  *)
(* thread (server_udp.cpp:68-80).                                          *)
MessageIntact ==
  \A t \in Threads : at[t] = "onMessage" =>
    /\ receiveBuf = arg[t] /\ receive = "off"
    /\ receiveBuf \in written \ Empty
    /\ \A u \in Threads : at[u] = "onMessage" => u = t

(* ServerUDP::run() blocks (server_udp.h:20) until stop(): errors and      *)
(* empty datagrams do not break the chain of receives                      *)
(* (server_udp.cpp:33-43, 78).                                             *)
ServerRunBlocks == ctx["server"].stopped => "server" \in halted
-----------------------------------------------------------------------------
(* ClientUDP::run() blocks (client_udp.h:13) as io_context::run() does:    *)
(* until all work has finished or the context has been stopped.            *)
ClientRunBlocks ==
  [][\A t \in ClientThreads :
       mode[t] = "work" /\ mode'[t] = "out" =>
         "client" \in halted \/ sends["client"] = <<>>]_vars
-----------------------------------------------------------------------------
(***************************************************************************)
(* Fairness.  The server's threads call run() and run its handlers, its    *)
(* callbacks return, and the kernel does not fail a receive for ever.      *)
(***************************************************************************)
FairSpec ==
  /\ Spec
  /\ \A t \in ServerThreads : WF_vars(EnterContext(t, "run")) /\ WF_vars(Rearm(t))
                                /\ WF_vars(ReturnError(t))
  /\ SF_vars(PerformReceive)
  /\ SF_vars(\E t \in ServerThreads : TakeReceive(t))

(* What has arrived is shown to onMessage, unless the server is stopped or *)
(* nothing follows the head.                                               *)
InSocket(d) == \E i \in DOMAIN arrived : arrived[i] = d
Received ==
  \A d \in Datagrams \ Empty :
    InSocket(d) ~> \/ "server" \in halted
                   \/ \E t \in Threads : at[t] = "onMessage" /\ arg[t] = d
=============================================================================
