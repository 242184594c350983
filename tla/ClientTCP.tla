------------------------------ MODULE ClientTCP ------------------------------
(***************************************************************************)
(* class ClientTCP (include/client_tcp.h, src/client_tcp.cpp) with a       *)
(* context of its own: one session, connected by the constructor.  The     *)
(* session is what SessionLink says of it, the context what IoContext says. *)
(*                                                                         *)
(* Threads.  IoThreads call run() and run the handlers while they are in   *)
(* it; those and UserThreads call write() and close(), from outside run()  *)
(* or inside a callback.  Neither call comes back to the client, so each   *)
(* is one step.                                                            *)
(***************************************************************************)
EXTENDS PakLength, IoContext, FiniteSets

CONSTANTS
  IoThreads, UserThreads,
  Frames,      \* the PakSize a packet of the peer may have
  MaxWrites    \* bound: calls of write()

Threads == IoThreads \cup UserThreads

ASSUME ClientAssumption ==
  /\ IoThreads \cap UserThreads = {}
  /\ Frames \subseteq Lengths /\ MaxWrites \in Nat

VARIABLES
  connecting,   \* async_connect: waiting, accepted, refused, aborted or done
  connected,    \* history: the connect handler ran without an error
  reading, writing, stopped,   \* the session
  ctx,          \* *io_ctx
  at,           \* where each thread is: out of run(), in its loop, in a callback
  message,      \* what each thread's onMessage is called with
  disconnects,  \* history: calls of onDisconnect
  alive,        \* the destructor has not run
  writeCalls    \* calls of write() so far

Session == INSTANCE SessionLink

sessionVars == <<reading, writing, stopped>>
connectVars == <<connecting, connected>>
vars == <<connectVars, sessionVars, ctx, at, message, disconnects, alive, writeCalls>>

Callbacks == {"onConnect", "onRefused", "onShort", "onMessage", "onReadError",
              "onWriteError", "onDisconnect"}
Places == {"out", "loop"} \cup Callbacks
Message == [frame : Lengths, shown : Lengths, told : BOOLEAN]
NoMessage == [frame |-> 0, shown |-> 0, told |-> FALSE]

WithGuard == WorkStarted(WorkStarted(NewContext))   \* a work guard kept as a member
WithConnect == WorkStarted(NewContext)

(* The constructor makes the session and begins to connect.                *)
Init ==
  /\ connecting = "waiting" /\ connected = FALSE
  /\ Session!Init
  /\ ctx = WithConnect
  /\ at = [t \in Threads |-> "out"]
  /\ message = [t \in Threads |-> NoMessage]
  /\ disconnects = 0 /\ alive = TRUE /\ writeCalls = 0
-----------------------------------------------------------------------------
Move(t, place) == at' = [at EXCEPT ![t] = place]
Idle(t) == at[t] = "loop" /\ ~ctx.stopped

EnterRun(t) ==
  /\ t \in IoThreads /\ at[t] = "out"
  /\ ctx' = RunEntered(ctx)
  /\ IF ctx'.stopped THEN UNCHANGED at ELSE Move(t, "loop")
  /\ UNCHANGED <<connectVars, sessionVars, message, disconnects, alive, writeCalls>>

LeaveRun(t) ==
  /\ at[t] = "loop" /\ ctx.stopped
  /\ Move(t, "out")
  /\ UNCHANGED <<connectVars, sessionVars, ctx, message, disconnects, alive, writeCalls>>
-----------------------------------------------------------------------------
(* The kernel, or the peer, answers.                                       *)
Answer(result) ==
  /\ connecting = "waiting"
  /\ connecting' = result
  /\ UNCHANGED <<connected, sessionVars, ctx, at, message, disconnects, alive, writeCalls>>

(* The connect handler: start(), whose read is work for the context, and   *)
(* onConnect; a message may come, in another thread, before that returns.  *)
StartsNothing == UNCHANGED <<sessionVars, ctx>>     \* start() forgotten
StartsSession == Session!Start /\ ctx' = WorkStarted(ctx)

TakeConnected(t) ==
  /\ Idle(t) /\ connecting = "accepted"
  /\ connecting' = "done" /\ connected' = TRUE
  /\ StartsSession
  /\ Move(t, "onConnect")
  /\ UNCHANGED <<message, disconnects, alive, writeCalls>>

TakeRefused(t) ==
  /\ Idle(t) /\ connecting \in {"refused", "aborted"}
  /\ connecting' = "done"
  /\ Move(t, "onRefused")
  /\ UNCHANGED <<connected, sessionVars, ctx, message, disconnects, alive, writeCalls>>
-----------------------------------------------------------------------------
(* read_callback.  A frame that is too short is told to onError, and then  *)
(* shown to onMessage all the same.                                        *)
TakeMessage(t, frame) ==
  /\ Idle(t)
  /\ Session!Arrive
  /\ message' = [message EXCEPT ![t] =
       [frame |-> frame, shown |-> ShownLength(frame), told |-> TooShort(frame)]]
  /\ Move(t, IF TooShort(frame) THEN "onShort" ELSE "onMessage")
  /\ UNCHANGED <<connectVars, ctx, disconnects, alive, writeCalls>>

(* error_callback: onError unless the peer has just ended its stream, and  *)
(* onDisconnect in either case.                                            *)
Told(t) == Move(t, "onDisconnect") /\ disconnects' = disconnects + 1

EndsSilently(t) ==                         \* eof returns at once
  at[t] = "loop" /\ at' = at /\ UNCHANGED disconnects
Ends(t) == Told(t)

TakeReadEnd(t) ==
  /\ Idle(t)
  /\ Session!ReadFails
  /\ Ends(t)
  /\ UNCHANGED <<connectVars, ctx, message, alive, writeCalls>>

TakeReadError(t) ==
  /\ Idle(t)
  /\ Session!ReadFails
  /\ Move(t, "onReadError")
  /\ UNCHANGED <<connectVars, ctx, message, disconnects, alive, writeCalls>>

(* A write begun before the connection stands is queued behind the connect *)
(* and fails, or is sent, when that is over.                               *)
TakeWriteError(t) ==
  /\ Idle(t) /\ connecting = "done"
  /\ Session!WriteFails
  /\ Move(t, "onWriteError")
  /\ UNCHANGED <<connectVars, ctx, message, disconnects, alive, writeCalls>>

(* Handlers that call nothing of the client.                               *)
TakeWritten(t) ==
  /\ Idle(t) /\ connecting = "done"
  /\ Session!Written \/ Session!WriteEnds
  /\ ctx' = WorkFinished(ctx)
  /\ UNCHANGED <<connectVars, at, message, disconnects, alive, writeCalls>>

TakeStoppedRead(t) ==
  /\ Idle(t)
  /\ Session!ReadEnds
  /\ ctx' = WorkFinished(ctx)
  /\ UNCHANGED <<connectVars, at, message, disconnects, alive, writeCalls>>
-----------------------------------------------------------------------------
(* The user's callback returns.                                            *)
ReturnShort(t) ==
  /\ at[t] = "onShort"
  /\ Move(t, "onMessage")
  /\ UNCHANGED <<connectVars, sessionVars, ctx, message, disconnects, alive, writeCalls>>

ReturnMessage(t) ==
  /\ at[t] = "onMessage"
  /\ Session!Return
  /\ Move(t, "loop")
  /\ message' = [message EXCEPT ![t] = NoMessage]
  /\ UNCHANGED <<connectVars, ctx, disconnects, alive, writeCalls>>

ReturnError(t) ==
  /\ at[t] \in {"onReadError", "onWriteError"}
  /\ Told(t)
  /\ UNCHANGED <<connectVars, sessionVars, ctx, message, alive, writeCalls>>

(* The handler ends with the callback, and its work with it.               *)
ReturnLast(t) ==
  /\ at[t] \in {"onConnect", "onRefused", "onDisconnect"}
  /\ ctx' = WorkFinished(ctx)
  /\ Move(t, "loop")
  /\ UNCHANGED <<connectVars, sessionVars, message, disconnects, alive, writeCalls>>
-----------------------------------------------------------------------------
MayCall(t) == at[t] \in Callbacks \cup {"out"}

(* A session that is stopped, or is sending, begins no further write; one  *)
(* whose write failed never does again.                                    *)
CallWrite(t) ==
  /\ MayCall(t) /\ writeCalls < MaxWrites
  /\ writeCalls' = writeCalls + 1
  /\ IF stopped \/ writing # "off"
     THEN UNCHANGED <<sessionVars, ctx>>
     ELSE Session!Write /\ ctx' = WorkStarted(ctx)
  /\ UNCHANGED <<connectVars, at, message, disconnects, alive>>

(* close() stops the session, which closes the socket under the connect.   *)
LeftAlone == connecting                    \* the connect goes on
Cancelled == IF connecting = "waiting" THEN "aborted" ELSE connecting

CallClose(t) ==
  /\ MayCall(t)
  /\ Session!Stop
  /\ connecting' = Cancelled
  /\ UNCHANGED <<connected, ctx, at, message, disconnects, alive, writeCalls>>

(* ~ClientTCP(), when nobody is inside: the session is stopped, and with   *)
(* io_ctx go the operations nobody has handled.                            *)
DropsOps(op) == IF op \in {"armed", "busy"} THEN "ended" ELSE op

Destroy ==
  /\ \A t \in Threads : at[t] = "out"
  /\ stopped' = TRUE
  /\ reading' = DropsOps(reading) /\ writing' = DropsOps(writing)
  /\ connecting' = "done"
  /\ alive' = FALSE
  /\ UNCHANGED <<connected, ctx, at, message, disconnects, writeCalls>>
-----------------------------------------------------------------------------
Take(t) ==
  \/ TakeConnected(t) \/ TakeRefused(t)
  \/ \E frame \in Frames : TakeMessage(t, frame)
  \/ TakeReadEnd(t) \/ TakeReadError(t) \/ TakeStoppedRead(t)
  \/ TakeWriteError(t) \/ TakeWritten(t)

Resume(t) == ReturnShort(t) \/ ReturnMessage(t) \/ ReturnError(t) \/ ReturnLast(t)

Next ==
  /\ alive
  /\ \/ \E result \in {"accepted", "refused"} : Answer(result)
     \/ \E t \in Threads :
          \/ EnterRun(t) \/ LeaveRun(t) \/ Take(t) \/ Resume(t)
          \/ CallWrite(t) \/ CallClose(t)
     \/ Destroy

Spec == Init /\ [][Next]_vars
=============================================================================
