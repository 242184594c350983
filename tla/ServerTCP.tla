------------------------------ MODULE ServerTCP ------------------------------
(***************************************************************************)
(* class ServerTCP (include/server_tcp.h, src/server_tcp.cpp): an acceptor *)
(* and the pool of the sessions it made.  Of a session only what the       *)
(* server sees is kept: whether a read or a write of it is outstanding,    *)
(* and the calls of its two callbacks; module Session has the rest.        *)
(*                                                                         *)
(* Threads.  IoThreads run the io_context and so the handlers; UserThreads *)
(* only call the server.  A thread's stack holds the functions it is in:   *)
(* handlers, calls of the server, and the user's callbacks, from which the *)
(* server may be called again.  sess_pool_mtx is not recursive: a thread   *)
(* that locks it twice waits for itself.                                   *)
(*                                                                         *)
(* A session lives as long as a shared_ptr to it does.  One is in the      *)
(* pool, some are on stacks, and two are captured by error_callback and    *)
(* read_callback, which the session itself owns.                           *)
(***************************************************************************)
EXTENDS Naturals, Sequences

CONSTANTS
  IoThreads, UserThreads,
  Sessions,         \* bound: the connections there can be
  Calls,            \* what the user calls: of write, broadcast, close, closeAll, stop
  CallingCallbacks, \* the callbacks that do so
  NoSession,        \* no session: the null Session* an accept error is told with
  NoThread          \* the owner of a free mutex

Threads == IoThreads \cup UserThreads

ASSUME ServerAssumption ==
  /\ IoThreads \cap UserThreads = {}
  /\ NoSession \notin Sessions /\ NoThread \notin Threads
  /\ Calls \subseteq {"write", "broadcast", "close", "closeAll", "stop"}
  /\ CallingCallbacks \subseteq {"onConnect", "onMessage", "onError", "onDisconnect"}

VARIABLES
  acceptor,     \* acc: open or closed
  accepting,    \* async_accept: off, waiting, or accepted a connection
  acceptFailed, \* history: the accept handler was told an error
  pool,         \* session_pool
  poolMtx,      \* who holds sess_pool_mtx
  stack,        \* what each thread is in, innermost first
  registered,   \* history: sessions that were put in the pool
  hooked,       \* sessions whose callbacks are set
  connected,    \* history: sessions onConnect was called with
  told,         \* history: sessions onError was called with for a write
  reading,      \* per session: off, armed, busy (in read_callback) or failed
  writing,      \* per session: off, armed or failed
  disconnects,  \* history: how often onDisconnect was called with each session
  crashed       \* the process is gone

acceptVars == <<acceptor, accepting, acceptFailed>>
poolVars == <<pool, poolMtx, registered, disconnects>>
linkVars == <<hooked, connected, told, reading, writing>>
vars == <<acceptVars, poolVars, linkVars, stack, crashed>>

Shows == {"onShort", "onMessage"}       \* of read_callback; onShort is an onError
Callbacks == {"onConnect", "onError", "onDisconnect"} \cup Shows
AcceptPlaces == {"register", "hook", "connect", "onConnect", "start", "rearm"}
Places == Callbacks \cup AcceptPlaces \cup
  {"write", "send", "broadcast", "close", "closing", "closeAll", "sweep",
   "sweeping", "advance", "stop"}
Frame == [at : Places, s : Sessions \cup {NoSession}]

Init ==
  /\ acceptor = "open" /\ accepting = "waiting" /\ acceptFailed = FALSE
  /\ pool = {} /\ poolMtx = NoThread /\ registered = {} /\ hooked = {}
  /\ connected = {} /\ told = {} /\ crashed = FALSE
  /\ stack = [t \in Threads |-> <<>>]
  /\ reading = [s \in Sessions |-> "off"] /\ writing = [s \in Sessions |-> "off"]
  /\ disconnects = [s \in Sessions |-> 0]
-----------------------------------------------------------------------------
In(t, place) == stack[t] # <<>> /\ Head(stack[t]).at = place
Its(t) == Head(stack[t]).s      \* the session the innermost function is about

Enter(t, place, s) == stack' = [stack EXCEPT ![t] = <<[at |-> place, s |-> s]>> \o @]
Leave(t) == stack' = [stack EXCEPT ![t] = Tail(@)]
Goto(t, place) == stack' = [stack EXCEPT ![t] = <<[at |-> place, s |-> Its(t)]>> \o Tail(@)]
(* On to place, from which callback is called first.                       *)
CallBack(t, place, callback, s) ==
  stack' = [stack EXCEPT ![t] =
    <<[at |-> callback, s |-> s], [at |-> place, s |-> s]>> \o Tail(@)]

Free == poolMtx = NoThread

OnStack(s, places) ==
  \E t \in Threads : \E i \in DOMAIN stack[t] :
    stack[t][i].s = s /\ stack[t][i].at \in places

(* A shared_ptr to s exists.  The callbacks own s and s owns them.         *)
HeldWeakly(s) ==                        \* callbacks that capture a weak_ptr
  s \in pool \/ OnStack(s, AcceptPlaces \cup {"send"})
Held(s) == s \in pool \/ s \in hooked \/ OnStack(s, AcceptPlaces \cup {"send"})
-----------------------------------------------------------------------------
(* The kernel has a connection for the acceptor.                           *)
Accepted ==
  /\ accepting = "waiting" /\ acceptor = "open"
  /\ accepting' = "accepted"
  /\ UNCHANGED <<acceptor, acceptFailed, poolVars, linkVars, stack, crashed>>

(* doAccept()'s handler: a session is made, put in the pool, given its     *)
(* callbacks, shown to the user, started, and the next accept begun.       *)
TakeAccept(t, s) ==
  /\ t \in IoThreads /\ stack[t] = <<>>
  /\ accepting = "accepted"
  /\ s \notin registered /\ ~OnStack(s, {"register"})
  /\ accepting' = "off"
  /\ Enter(t, "register", s)
  /\ UNCHANGED <<acceptor, acceptFailed, poolVars, linkVars, crashed>>

ConnectFirst == "connect"               \* onConnect before the callbacks are set
AfterRegister == "hook"

Register(t) ==
  /\ In(t, "register") /\ Free
  /\ pool' = pool \cup {Its(t)}
  /\ registered' = registered \cup {Its(t)}
  /\ Goto(t, AfterRegister)
  /\ UNCHANGED <<acceptVars, poolMtx, disconnects, linkVars, crashed>>

Hook(t) ==
  /\ In(t, "hook")
  /\ hooked' = hooked \cup {Its(t)}
  /\ Goto(t, "connect")
  /\ UNCHANGED <<acceptVars, poolVars, connected, told, reading, writing, crashed>>

StartedFirst(s) == reading' = [reading EXCEPT ![s] = "armed"]  \* start() first
NotStarted(s) == UNCHANGED reading

Connect(t) ==
  /\ In(t, "connect")
  /\ connected' = connected \cup {Its(t)}
  /\ NotStarted(Its(t))
  /\ CallBack(t, "start", "onConnect", Its(t))
  /\ UNCHANGED <<acceptVars, poolVars, hooked, told, writing, crashed>>

Start(t) ==
  /\ In(t, "start")
  /\ reading' = [reading EXCEPT ![Its(t)] = "armed"]
  /\ Goto(t, "rearm")
  /\ UNCHANGED <<acceptVars, poolVars, hooked, connected, told, writing, crashed>>

StaysIdle == UNCHANGED accepting        \* no doAccept() at the handler's end
Accepts == accepting' = "waiting"

Rearm(t) ==
  /\ In(t, "rearm")
  /\ Accepts
  /\ Leave(t)
  /\ UNCHANGED <<acceptor, acceptFailed, poolVars, linkVars, crashed>>

(* The handler is told an error, of the kernel or because the acceptor is  *)
(* closed, and tells the user: it does not accept again.                   *)
TakeAcceptError(t) ==
  /\ t \in IoThreads /\ stack[t] = <<>>
  /\ accepting = "waiting"
  /\ accepting' = "off"
  /\ acceptFailed' = TRUE
  /\ Enter(t, "onError", NoSession)
  /\ UNCHANGED <<acceptor, poolVars, linkVars, crashed>>
-----------------------------------------------------------------------------
(* read_callback and error_callback, called by the handlers of a session.  *)
(* Of a message too short for its head the user is told first; it is shown *)
(* like any other after that.                                              *)
TakeMessage(t, s, show) ==
  /\ t \in IoThreads /\ stack[t] = <<>>
  /\ reading[s] = "armed"
  /\ reading' = [reading EXCEPT ![s] = "busy"]
  /\ Enter(t, show, s)
  /\ UNCHANGED <<acceptVars, poolVars, hooked, connected, told, writing, crashed>>

(* An eof is not told to onError; either way the session is closed.        *)
Ends == {"onError", "close"}

TakeReadError(t, s, end) ==
  /\ t \in IoThreads /\ stack[t] = <<>>
  /\ reading[s] = "armed"
  /\ reading' = [reading EXCEPT ![s] = "failed"]
  /\ Enter(t, end, s)
  /\ UNCHANGED <<acceptVars, poolVars, hooked, connected, told, writing, crashed>>

(* A write may fail before the callbacks are set: nobody is told.          *)
TakeWriteError(t, s) ==
  /\ t \in IoThreads /\ stack[t] = <<>>
  /\ writing[s] = "armed"
  /\ writing' = [writing EXCEPT ![s] = "failed"]
  /\ IF s \in hooked
     THEN Enter(t, "onError", s) /\ told' = told \cup {s}
     ELSE UNCHANGED <<stack, told>>
  /\ UNCHANGED <<acceptVars, poolVars, hooked, connected, reading, crashed>>

TakeWritten(t, s) ==
  /\ t \in IoThreads /\ stack[t] = <<>>
  /\ writing[s] = "armed"
  /\ writing' = [writing EXCEPT ![s] = "off"]
  /\ UNCHANGED <<acceptVars, poolVars, hooked, connected, told, reading, stack, crashed>>

(* The user's callback returns: a session reads on after onMessage, and is *)
(* closed after onError, but not for a message that was too short.         *)
AfterErrorNothing(t) == Leave(t)        \* error_callback without its close()
AfterError(t) == IF Its(t) = NoSession THEN Leave(t) ELSE Goto(t, "close")

ReturnShort(t) ==
  /\ In(t, "onShort")
  /\ Goto(t, "onMessage")
  /\ UNCHANGED <<acceptVars, poolVars, linkVars, crashed>>

ReturnMessage(t) ==
  /\ In(t, "onMessage")
  /\ reading' = [reading EXCEPT ![Its(t)] = "armed"]
  /\ Leave(t)
  /\ UNCHANGED <<acceptVars, poolVars, hooked, connected, told, writing, crashed>>

ReturnError(t) ==
  /\ In(t, "onError")
  /\ AfterError(t)
  /\ UNCHANGED <<acceptVars, poolVars, linkVars, crashed>>

ReturnPlain(t) ==
  /\ In(t, "onConnect") \/ In(t, "onDisconnect")
  /\ Leave(t)
  /\ UNCHANGED <<acceptVars, poolVars, linkVars, crashed>>
-----------------------------------------------------------------------------
(* Calls, by a user thread or inside a callback.                           *)
MayCall(t) ==
  \/ stack[t] = <<>> /\ t \in UserThreads
  \/ \E callback \in CallingCallbacks : In(t, callback)
  \/ "onError" \in CallingCallbacks /\ In(t, "onShort")

(* A session the user was given in a callback: of closeAll() or a failed   *)
(* broadcast() it may be before onConnect.                                 *)
Known(s) == s \in connected \/ s \in told \/ disconnects[s] > 0

Call(t, call, s) ==
  /\ MayCall(t)
  /\ call \in Calls
  /\ IF call \in {"write", "close"} THEN s \in Sessions /\ Known(s)
                                   ELSE s = NoSession
  /\ Enter(t, call, s)
  /\ UNCHANGED <<acceptVars, poolVars, linkVars, crashed>>

(* Session::write(): nothing further while a write is outstanding, nor     *)
(* after one has failed.                                                   *)
Written(s) == IF writing[s] = "off" THEN "armed" ELSE writing[s]

(* write(): the session is looked up under the mutex, written to after.    *)
WriteFind(t) ==
  /\ In(t, "write") /\ Free
  /\ IF Its(t) \in pool THEN Goto(t, "send") ELSE Leave(t)
  /\ UNCHANGED <<acceptVars, poolVars, linkVars, crashed>>

WriteSend(t) ==
  /\ In(t, "send")
  /\ writing' = [writing EXCEPT ![Its(t)] = Written(Its(t))]
  /\ Leave(t)
  /\ UNCHANGED <<acceptVars, poolVars, hooked, connected, told, reading, crashed>>

Broadcast(t) ==
  /\ In(t, "broadcast") /\ Free
  /\ writing' = [s \in Sessions |-> IF s \in pool THEN Written(s) ELSE writing[s]]
  /\ Leave(t)
  /\ UNCHANGED <<acceptVars, poolVars, hooked, connected, told, reading, crashed>>

(* close() and closeAll() call onDisconnect with sess_pool_mtx locked.     *)
Unlocks(t) == UNCHANGED poolMtx         \* the callback moved out of the lock
Locks(t) == poolMtx' = t

Disconnect(t, s, place) ==
  /\ Locks(t)
  /\ disconnects' = [disconnects EXCEPT ![s] = @ + 1]
  /\ CallBack(t, place, "onDisconnect", s)

CloseFind(t) ==
  /\ In(t, "close") /\ Free
  /\ IF Its(t) \in pool
     THEN Disconnect(t, Its(t), "closing")
     ELSE Leave(t) /\ UNCHANGED <<poolMtx, disconnects>>
  /\ UNCHANGED <<acceptVars, pool, registered, linkVars, crashed>>

StaysLocked == UNCHANGED poolMtx        \* a lock() without its guard
EndGuard == poolMtx' = NoThread

CloseErase(t) ==
  /\ In(t, "closing")
  /\ pool' = pool \ {Its(t)}
  /\ EndGuard
  /\ Leave(t)
  /\ UNCHANGED <<acceptVars, registered, disconnects, linkVars, crashed>>

(* closeAll()'s loop over the pool, from the element it comes to next.     *)
SweepFrom(t, left) ==
  IF left = {} THEN Leave(t) /\ poolMtx' = NoThread
  ELSE \E s \in left :
         /\ stack' = [stack EXCEPT ![t] = <<[at |-> "sweep", s |-> s]>> \o Tail(@)]
         /\ poolMtx' = t

CloseAllLock(t) ==
  /\ In(t, "closeAll") /\ Free
  /\ SweepFrom(t, pool)
  /\ UNCHANGED <<acceptVars, pool, registered, disconnects, linkVars, crashed>>

Sweep(t) ==
  /\ In(t, "sweep")
  /\ Disconnect(t, Its(t), "sweeping")
  /\ UNCHANGED <<acceptVars, pool, registered, linkVars, crashed>>

SweepErase(t) ==
  /\ In(t, "sweeping")
  /\ pool' = pool \ {Its(t)}
  /\ Goto(t, "advance")
  /\ UNCHANGED <<acceptVars, poolMtx, registered, disconnects, linkVars, crashed>>

(* The loop increments the iterator of the element it has erased, which is *)
(* undefined: the node is read after it was freed.  Either it still holds  *)
(* what it held, and the loop goes on, or the process crashes.             *)
SweepAdvance(t) ==
  /\ In(t, "advance")
  /\ SweepFrom(t, pool)
  /\ UNCHANGED <<acceptVars, pool, registered, disconnects, linkVars, crashed>>

SweepCrash(t) ==
  /\ In(t, "advance")
  /\ crashed' = TRUE
  /\ UNCHANGED <<acceptVars, poolVars, linkVars, stack>>

Stop(t) ==
  /\ In(t, "stop")
  /\ acceptor' = "closed"
  /\ Goto(t, "closeAll")
  /\ UNCHANGED <<accepting, acceptFailed, poolVars, linkVars, crashed>>
-----------------------------------------------------------------------------
AcceptStep(t) == Hook(t) \/ Connect(t) \/ Start(t) \/ Rearm(t)
CallStep(t) ==
  \/ WriteSend(t) \/ CloseErase(t) \/ Stop(t)
  \/ Sweep(t) \/ SweepErase(t) \/ SweepAdvance(t) \/ SweepCrash(t)
LockStep(t) == Register(t) \/ WriteFind(t) \/ Broadcast(t) \/ CloseFind(t) \/ CloseAllLock(t)
Resume(t) == ReturnShort(t) \/ ReturnMessage(t) \/ ReturnError(t) \/ ReturnPlain(t)

Take(t) ==
  \/ TakeAcceptError(t)
  \/ \E s \in Sessions :
       \/ TakeAccept(t, s) \/ TakeWriteError(t, s) \/ TakeWritten(t, s)
       \/ \E show \in Shows : TakeMessage(t, s, show)
       \/ \E end \in Ends : TakeReadError(t, s, end)

CallSome(t) == \E call \in Calls, s \in Sessions \cup {NoSession} : Call(t, call, s)

Step(t) == AcceptStep(t) \/ CallStep(t) \/ LockStep(t) \/ Resume(t) \/ Take(t) \/ CallSome(t)

Next == ~crashed /\ (Accepted \/ \E t \in Threads : Step(t))

Spec == Init /\ [][Next]_vars
=============================================================================
