--------------------------------- MODULE UDP ---------------------------------
(***************************************************************************)
(* classes ClientUDP and ServerUDP (src/client_udp.cpp, src/server_udp.cpp) *)
(* with contexts of their own, and a network between them that may lose,   *)
(* repeat and reorder.  Both sides send in the same way, only the server   *)
(* receives.                                                               *)
(*                                                                         *)
(* A datagram is named, and carries some bytes after its PakHeadData or    *)
(* none (Empty).  The heap says which datagram each block that new[] gave  *)
(* out holds; a block that was freed may be given out again.               *)
(*                                                                         *)
(* Threads.  Each belongs to a side and calls its run(), run_once(),       *)
(* write() and stop(), the last two also inside a callback.                *)
(***************************************************************************)
EXTENDS IoContext, Sequences, FiniteSets

CONSTANTS
  ClientThreads, ServerThreads,
  Datagrams,   \* bound: the datagrams that are written, each once
  Empty,       \* those of them with no bytes after the head
  Blocks,      \* bound: the blocks that can be in use at once
  MaxArrived,  \* bound: what the server's socket holds
  None         \* no datagram

Threads == ClientThreads \cup ServerThreads
Sides == {"client", "server"}
Side(t) == IF t \in ClientThreads THEN "client" ELSE "server"

ASSUME UDPAssumption ==
  /\ ClientThreads \cap ServerThreads = {}
  /\ Empty \subseteq Datagrams /\ None \notin Datagrams
  /\ MaxArrived \in Nat

VARIABLES
  ctx,        \* *io_ctx of each side
  halted,     \* history: sides whose stop() was called
  mode,       \* where each thread is: out, or in run() or run_once()
  at,         \* what it does there: idle, or the callback or step it is in
  arg,        \* what the callback is about: a datagram, or the block of a send
  heap,       \* what each block holds
  written,    \* datagrams write() was called with
  sends,      \* per side: sends started and not yet handled, oldest first
  wire,       \* datagrams the network has copies of
  arrived,    \* datagrams in the server's socket, oldest first
  receive,    \* async_receive_from: off, waiting, done or failed
  receiveBuf, \* receive_buf
  sentOK      \* history: what the kernel took was what had been written

contextVars == <<ctx, halted>>
threadVars == <<mode, at, arg>>
sendVars == <<heap, written, sends, sentOK>>
receiveVars == <<receive, receiveBuf>>
netVars == <<wire, arrived>>
vars == <<contextVars, threadVars, sendVars, receiveVars, netVars>>

Modes == {"out", "run", "once", "work"}
Places == {"idle", "onMessage", "onError", "rearm"}
Outcomes == {"queued", "sent", "failed"}
Send == [block : Blocks, of : Datagrams, st : Outcomes]

(* ServerUDP's constructor begins to receive.                              *)
Init ==
  /\ ctx = [client |-> NewContext, server |-> WorkStarted(NewContext)]
  /\ halted = {}
  /\ mode = [t \in Threads |-> "out"] /\ at = [t \in Threads |-> "idle"]
  /\ arg = [t \in Threads |-> None]
  /\ heap = [b \in Blocks |-> None]
  /\ written = {} /\ sends = [side \in Sides |-> <<>>] /\ sentOK = TRUE
  /\ wire = {} /\ arrived = <<>>
  /\ receive = "waiting" /\ receiveBuf = None
-----------------------------------------------------------------------------
SetContext(t, c) == ctx' = [ctx EXCEPT ![Side(t)] = c]
Mine(t) == ctx[Side(t)]
Idle(t) == mode[t] \in {"run", "once"} /\ at[t] = "idle" /\ ~Mine(t).stopped

(* A handler returns: its work is finished, and run_once() with it.        *)
EndHandler(t) ==
  /\ at' = [at EXCEPT ![t] = "idle"]
  /\ arg' = [arg EXCEPT ![t] = None]
  /\ mode' = [mode EXCEPT ![t] = IF @ = "once" THEN "out" ELSE @]

(* ServerUDP::run() is io_context::run(), ClientUDP::run_once() run_one(). *)
EnterContext(t, how) ==
  /\ mode[t] = "out"
  /\ IF t \in ServerThreads THEN how = "run" ELSE how = "once"
  /\ SetContext(t, RunEntered(Mine(t)))
  /\ mode' = [mode EXCEPT ![t] = IF RunEntered(Mine(t)).stopped THEN "out" ELSE how]
  /\ UNCHANGED <<halted, at, arg, sendVars, receiveVars, netVars>>

LeaveContext(t) ==
  /\ mode[t] \in {"run", "once"} /\ at[t] = "idle" /\ Mine(t).stopped
  /\ mode' = [mode EXCEPT ![t] = "out"]
  /\ UNCHANGED <<contextVars, at, arg, sendVars, receiveVars, netVars>>

(* ClientUDP::run() makes a work object, which its block destroys again.   *)
EnterClientRun(t) ==
  /\ t \in ClientThreads /\ mode[t] = "out"
  /\ SetContext(t, WorkStarted(Mine(t)))
  /\ mode' = [mode EXCEPT ![t] = "work"]
  /\ UNCHANGED <<halted, at, arg, sendVars, receiveVars, netVars>>

LeaveClientRun(t) ==
  /\ mode[t] = "work"
  /\ SetContext(t, WorkFinished(Mine(t)))
  /\ mode' = [mode EXCEPT ![t] = "out"]
  /\ UNCHANGED <<halted, at, arg, sendVars, receiveVars, netVars>>

MayCall(t) == mode[t] = "out" \/ at[t] \in {"onMessage", "onError"}

Stop(t) ==
  /\ MayCall(t)
  /\ SetContext(t, Halt(Mine(t)))
  /\ halted' = halted \cup {Side(t)}
  /\ UNCHANGED <<threadVars, sendVars, receiveVars, netVars>>
-----------------------------------------------------------------------------
(* write() copies the datagram to a block of its own and begins to send,   *)
(* which may be done at once if nothing waits ahead of it.  What the client *)
(* sends goes to the server.                                               *)
FreedAtOnce(b, d) == heap' = [heap EXCEPT ![b] = None]   \* delete[] in write()
Filled(b, d) == heap' = [heap EXCEPT ![b] = d]

OnWire(side, d) == IF side = "client" THEN wire \cup {d} ELSE wire

Write(t, d, b, st) ==
  /\ MayCall(t)
  /\ d \notin written /\ heap[b] = None
  /\ st # "queued" => \A i \in DOMAIN sends[Side(t)] : sends[Side(t)][i].st # "queued"
  /\ written' = written \cup {d}
  /\ Filled(b, d)
  /\ sends' = [sends EXCEPT ![Side(t)] = Append(@, [block |-> b, of |-> d, st |-> st])]
  /\ wire' = IF st = "sent" THEN OnWire(Side(t), d) ELSE wire
  /\ SetContext(t, WorkStarted(Mine(t)))
  /\ UNCHANGED <<halted, threadVars, sentOK, receiveVars, arrived>>

(* A send that waits is performed in its turn, by a thread in run() or     *)
(* run_once(): the kernel reads the block.                                 *)
FirstQueued(side, i) ==
  /\ \E t \in Threads : Side(t) = side /\ mode[t] \in {"run", "once"}
  /\ i \in DOMAIN sends[side] /\ sends[side][i].st = "queued"
  /\ \A j \in 1 .. i - 1 : sends[side][j].st # "queued"

PerformSend(side, i) ==
  /\ FirstQueued(side, i)
  /\ sends' = [sends EXCEPT ![side][i].st = "sent"]
  /\ sentOK' = (sentOK /\ heap[sends[side][i].block] = sends[side][i].of)
  /\ wire' = OnWire(side, sends[side][i].of)
  /\ UNCHANGED <<contextVars, threadVars, heap, written, receiveVars, arrived>>

FailSend(side, i) ==
  /\ FirstQueued(side, i)
  /\ sends' = [sends EXCEPT ![side][i].st = "failed"]
  /\ UNCHANGED <<contextVars, threadVars, heap, written, sentOK, receiveVars, netVars>>

(* The handler frees the block, after onError if it was told an error.     *)
Leaks(b) == UNCHANGED heap                          \* return before delete[]
Frees(b) == heap' = [heap EXCEPT ![b] = None]

NextSend(t) == Head(sends[Side(t)])
TakeFinished(t, st) ==
  /\ Idle(t)
  /\ sends[Side(t)] # <<>> /\ NextSend(t).st = st
  /\ sends' = [sends EXCEPT ![Side(t)] = Tail(@)]

TakeSent(t) ==
  /\ TakeFinished(t, "sent")
  /\ Frees(NextSend(t).block)
  /\ SetContext(t, WorkFinished(Mine(t)))
  /\ EndHandler(t)
  /\ UNCHANGED <<halted, written, sentOK, receiveVars, netVars>>

TakeSendError(t) ==
  /\ TakeFinished(t, "failed")
  /\ at' = [at EXCEPT ![t] = "onError"]
  /\ arg' = [arg EXCEPT ![t] = NextSend(t).block]
  /\ UNCHANGED <<contextVars, mode, heap, written, sentOK, receiveVars, netVars>>

ReturnError(t) ==
  /\ at[t] = "onError"
  /\ Frees(arg[t])
  /\ SetContext(t, WorkFinished(Mine(t)))
  /\ EndHandler(t)
  /\ UNCHANGED <<halted, written, sends, sentOK, receiveVars, netVars>>
-----------------------------------------------------------------------------
(* do_receive().  The kernel fills receive_buf, or tells an error.         *)
PerformReceive ==
  /\ receive = "waiting" /\ arrived # <<>>
  /\ \E t \in ServerThreads : mode[t] = "run"
  /\ receive' = "done"
  /\ receiveBuf' = Head(arrived)
  /\ arrived' = Tail(arrived)
  /\ UNCHANGED <<contextVars, threadVars, sendVars, wire>>

FailReceive ==
  /\ receive = "waiting"
  /\ \E t \in ServerThreads : mode[t] = "run"
  /\ receive' = "failed"
  /\ UNCHANGED <<contextVars, threadVars, sendVars, receiveBuf, netVars>>

(* The handler shows what it received unless there is nothing after the    *)
(* head, and receives again whatever has happened.                         *)
ReceivesFirst == "waiting"                \* do_receive() before onMessage
ReceivesLast == "off"

TakeReceive(t) ==
  /\ Idle(t) /\ t \in ServerThreads
  /\ receive \in {"done", "failed"}
  /\ receive' = ReceivesLast
  /\ IF receive = "done" /\ receiveBuf \notin Empty
     THEN at' = [at EXCEPT ![t] = "onMessage"] /\ arg' = [arg EXCEPT ![t] = receiveBuf]
     ELSE at' = [at EXCEPT ![t] = "rearm"] /\ UNCHANGED arg
  /\ UNCHANGED <<contextVars, mode, sendVars, receiveBuf, netVars>>

AfterMessageOnly(t) == at[t] = "onMessage"    \* do_receive() in the if
Always(t) == TRUE

Rearm(t) ==
  /\ at[t] \in {"onMessage", "rearm"}
  /\ receive' = IF Always(t) THEN "waiting" ELSE receive
  /\ SetContext(t, IF Always(t) THEN Mine(t) ELSE WorkFinished(Mine(t)))
  /\ EndHandler(t)
  /\ UNCHANGED <<halted, sendVars, receiveBuf, netVars>>
-----------------------------------------------------------------------------
(* The network delivers a copy, keeping another or not, or loses it.       *)
Arrive(d) ==
  /\ d \in wire /\ Len(arrived) < MaxArrived
  /\ arrived' = Append(arrived, d)
  /\ \/ UNCHANGED wire
     \/ wire' = wire \ {d}
  /\ UNCHANGED <<contextVars, threadVars, sendVars, receiveVars>>

Lose(d) ==
  /\ d \in wire
  /\ wire' = wire \ {d}
  /\ UNCHANGED <<contextVars, threadVars, sendVars, receiveVars, arrived>>
-----------------------------------------------------------------------------
Call(t) ==
  \/ \E how \in {"run", "once"} : EnterContext(t, how)
  \/ EnterClientRun(t) \/ LeaveClientRun(t) \/ LeaveContext(t) \/ Stop(t)
  \/ \E d \in Datagrams, b \in Blocks, st \in Outcomes : Write(t, d, b, st)

Handle(t) ==
  \/ TakeSent(t) \/ TakeSendError(t) \/ ReturnError(t)
  \/ TakeReceive(t) \/ Rearm(t)

PerformSome ==
  \/ \E side \in Sides : \E i \in DOMAIN sends[side] :
       PerformSend(side, i) \/ FailSend(side, i)
  \/ PerformReceive \/ FailReceive

Next ==
  \/ \E t \in Threads : Call(t) \/ Handle(t)
  \/ PerformSome
  \/ \E d \in Datagrams : Arrive(d) \/ Lose(d)

Spec == Init /\ [][Next]_vars
=============================================================================
