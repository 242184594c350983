----------------------------- MODULE ServerTCPInv -----------------------------
(***************************************************************************)
(* The invariants of ServerTCP that are inductive: what has to be known of *)
(* the stacks, beside what ServerTCPProps promises, for every step to keep *)
(* it.                                                                     *)
(***************************************************************************)
EXTENDS ServerTCPProps

(* The frame i deep on t's stack is at one of the places.                  *)
AtIn(t, i, places) == stack[t][i].at \in places

(* Whom a frame is about: a session that was registered, once its accept   *)
(* handler has done so, and hooked before the user hears of it.            *)
GoodFrame(f) ==
  /\ f.s \in Sessions \/ f.at \in {"onError", "broadcast", "closeAll", "stop"}
  /\ f.s \in Sessions => (f.at = "register" <=> f.s \notin registered)
  /\ f.at \in {"connect", "onConnect", "start", "rearm"} => f.s \in hooked

FrameInv == \A t \in Threads : \A i \in DOMAIN stack[t] : GoodFrame(stack[t][i])

(* A session reads when it was shown to the user and writes when it is     *)
(* registered; a registered one has its callbacks or is about to get them. *)
LinkInv ==
  \A s \in Sessions :
    /\ reading[s] # "off" => s \in connected
    /\ writing[s] # "off" \/ disconnects[s] > 0 => s \in registered
    /\ s \in registered => s \in hooked \/ OnStack(s, {"hook"})

(* The accept handler is the outermost function of its thread, or is       *)
(* suspended there by the onConnect it calls.                              *)
AcceptInv ==
  /\ AcceptChain
  /\ acceptFailed => accepting = "off"
  /\ \A t \in Threads : \A i \in DOMAIN stack[t] :
       AtIn(t, i, AcceptPlaces) =>
         IF AtIn(t, i, {"onConnect"})
         THEN /\ i + 1 = Len(stack[t])
              /\ stack[t][i + 1] = [at |-> "start", s |-> stack[t][i].s]
         ELSE i = Len(stack[t])

(* A session reads only when its accept handler has come past start(), and *)
(* its messages are shown in the one thread that has its read.             *)
Unstarted == {"register", "hook", "connect", "onConnect", "start"}

ConnectInv ==
  \A t \in Threads : \A i \in DOMAIN stack[t] :
    LET s == stack[t][i].s
    IN  /\ AtIn(t, i, Unstarted) => reading[s] = "off"
        /\ AtIn(t, i, {"onConnect", "start"}) => s \in connected
        /\ AtIn(t, i, Shows) =>
             /\ i = Len(stack[t]) /\ reading[s] = "busy"
             /\ \A u \in Threads : \A j \in DOMAIN stack[u] :
                  AtIn(u, j, Shows) /\ stack[u][j].s = s => u = t

(* Whoever is in the part of close() or closeAll() that the mutex guards   *)
(* holds it, and is there once; the session it is about is in the pool.    *)
Guarded == {"closing", "sweep", "sweeping", "advance"}

MutexInv ==
  \A t \in Threads : \A i \in DOMAIN stack[t] :
    AtIn(t, i, Guarded) =>
      /\ poolMtx = t
      /\ \A j \in DOMAIN stack[t] : AtIn(t, j, Guarded) => j = i
      /\ ~AtIn(t, i, {"advance"}) => stack[t][i].s \in pool

(* The mutex is never left locked: its owner is in a guarded part.          *)
HolderInv ==
  \A t \in Threads : poolMtx = t => \E i \in DOMAIN stack[t] : AtIn(t, i, Guarded)

(* Where onDisconnect does not call the server, a guarded part is the       *)
(* innermost function of its thread or has called onDisconnect just now.    *)
InnerInv ==
  \A t \in Threads : \A i \in DOMAIN stack[t] :
    AtIn(t, i, Guarded) => i = 1 \/ (i = 2 /\ AtIn(t, 1, {"onDisconnect"}))

(* onDisconnect was called for the sessions that have left the pool, and   *)
(* for one that is about to.                                               *)
Leaving(s) == OnStack(s, {"closing", "sweeping"})

DisconnectInv ==
  \A s \in Sessions :
    disconnects[s] = IF s \in registered /\ (s \notin pool \/ Leaving(s)) THEN 1 ELSE 0

(* A connection the user does not know yet is the one the accept handler   *)
(* is about to show.                                                       *)
WelcomeInv ==
  /\ \A s \in registered \ connected : OnStack(s, {"hook", "connect"})
  /\ \A s \in connected : ~OnStack(s, {"hook", "connect"})

ServerInv ==
  TypeOK /\ FrameInv /\ LinkInv /\ AcceptInv /\ ConnectInv /\ MutexInv /\ DisconnectInv
=============================================================================
