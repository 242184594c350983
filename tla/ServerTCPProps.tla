---------------------------- MODULE ServerTCPProps ----------------------------
(***************************************************************************)
(* What a ServerTCP promises, stated over the steps of module ServerTCP.   *)
(***************************************************************************)
EXTENDS ServerTCP

TypeOK ==
  /\ acceptor \in {"open", "closed"}
  /\ accepting \in {"off", "waiting", "accepted"} /\ acceptFailed \in BOOLEAN
  /\ pool \subseteq registered /\ registered \subseteq Sessions
  /\ hooked \subseteq registered /\ connected \cup told \subseteq hooked
  /\ poolMtx \in Threads \cup {NoThread}
  /\ stack \in [Threads -> Seq(Frame)]
  /\ reading \in [Sessions -> {"off", "armed", "busy", "failed"}]
  /\ writing \in [Sessions -> {"off", "armed", "failed"}]
  /\ disconnects \in [Sessions -> Nat]
  /\ crashed \in BOOLEAN

(* onDisconnect is called once for a session, and no session leaves the    *)
(* pool without it, also when an error, a close() and a closeAll() of      *)
(* several threads meet (server_tcp.cpp:71-84).                            *)
DisconnectedOnce ==
  \A s \in Sessions :
    /\ disconnects[s] <= 1
    /\ s \in registered \ pool => disconnects[s] = 1
    /\ s \in pool /\ disconnects[s] = 1 => poolMtx # NoThread

(* A session is there for as long as an operation of it is outstanding:    *)
(* the handlers of Session capture a bare this, and only the shared_ptrs   *)
(* of pool, callbacks and stacks keep it valid (server_tcp.cpp:88-109).    *)
SessionOutlivesHandlers ==
  \A s \in Sessions :
    reading[s] \in {"armed", "busy"} \/ writing[s] = "armed" => Held(s)

(* No message of a session is shown to the user before onConnect has       *)
(* returned for it, whatever thread runs the handlers                      *)
(* (server_tcp.cpp:110-111).                                               *)
ConnectBeforeMessage ==
  \A s \in Sessions :
    OnStack(s, Shows) => s \in connected /\ ~OnStack(s, {"onConnect"})

Accepting(t) ==
  \E i \in DOMAIN stack[t] : stack[t][i].at \in AcceptPlaces

(* Until an accept has failed the server goes on accepting, one connection *)
(* at a time: the accept is outstanding or one thread is in its handler,   *)
(* and never both (server_tcp.cpp:85-117).                                 *)
AcceptChain ==
  /\ ~acceptFailed => accepting # "off" \/ \E t \in Threads : Accepting(t)
  /\ (\E t \in Threads : Accepting(t)) => accepting = "off" /\ ~acceptFailed
  /\ \A t, u \in Threads : Accepting(t) /\ Accepting(u) => t = u

(* Of each session the server makes no use but what SessionLink allows:    *)
(* start() is called once, before its first callback, and a session whose  *)
(* chain has ended is not brought back (server_tcp.cpp:88-117).            *)
LinkOf(s) == INSTANCE SessionLink WITH
  reading <- reading[s], writing <- writing[s], stopped <- FALSE

UsesSessions ==
  [][\A s \in Sessions : [LinkOf(s)!Next]_<<reading[s], writing[s]>>]_vars
-----------------------------------------------------------------------------
(* To its user the server is what module Connections says: introductions   *)
(* one by one, messages between them and the loss of a connection, one     *)
(* onDisconnect at most, however handlers, close(), closeAll() and stop()  *)
(* of several threads meet (server_tcp.cpp:67-117).                        *)
Phase(s) ==
  IF s \notin registered THEN "unknown"
  ELSE IF s \notin connected THEN "arrived"
  ELSE IF OnStack(s, {"onConnect"}) THEN "greeting"
  ELSE IF reading[s] = "busy" THEN "talking"
  ELSE IF reading[s] = "failed" THEN "lost"
  ELSE "met"

Shown == INSTANCE Connections WITH
  Conns <- Sessions, phase <- [s \in Sessions |-> Phase(s)],
  drops <- disconnects, refusing <- acceptFailed

ImplementsConnections == Shown!Spec
-----------------------------------------------------------------------------
(* close() closes the connection (server_tcp.h:31): once nobody uses a     *)
(* session that was removed, it is destroyed and its socket with it.       *)
CloseCloses ==
  \A s \in registered \ pool : ~OnStack(s, Places) => ~Held(s)

(* A connection may be closed inside a callback (README.md:27): no thread  *)
(* waits for sess_pool_mtx while it holds it.                              *)
Locking == {"register", "write", "broadcast", "close", "closeAll"}
CallbackMayClose ==
  \A t \in Threads : stack[t] # <<>> /\ Head(stack[t]).at \in Locking => poolMtx # t

(* closeAll() closes all connections (server_tcp.h:33) and does not bring  *)
(* the program down.                                                       *)
CloseAllSurvives == ~crashed
-----------------------------------------------------------------------------
(***************************************************************************)
(* Fairness.  Threads run, a free mutex is given to one that waits for it  *)
(* again and again, and callbacks return.  Whether io threads take what    *)
(* has finished is left open.                                              *)
(***************************************************************************)
FairSpec ==
  /\ Spec
  /\ \A t \in Threads :
       /\ WF_vars(~crashed /\ (AcceptStep(t) \/ CallStep(t)))
       /\ SF_vars(~crashed /\ LockStep(t)) /\ SF_vars(~crashed /\ Resume(t))

(* A session whose read failed leaves the pool: its error is followed by   *)
(* a close() that gets the mutex (server_tcp.cpp:93-99).  A read that has  *)
(* failed stays so, and this is reading[s] = "failed" ~> s \notin pool in a *)
(* form TLC checks in less time.                                           *)
FailedLeaves ==
  \A s \in Sessions : []<>(reading[s] = "failed" => s \notin pool \/ crashed)

(* A thread that entered the server, or a handler of it, comes out again,  *)
(* whatever it waits for and whoever calls the server from a callback.     *)
ServerReturns ==
  \A t \in Threads : []<>(stack[t] = <<>> \/ crashed)
=============================================================================
