------------------------------- MODULE Session -------------------------------
(***************************************************************************)
(* class Session (include/session.h, src/session.cpp): one connected       *)
(* socket, cut into packets.  A packet is a PakSize length followed by     *)
(* that many bytes; write() appends packets to send_buf and keeps at most  *)
(* one async_write_some going, doRead() keeps one async_read_some going    *)
(* and cuts what arrives into packets for read_callback.                   *)
(*                                                                         *)
(* Threads.  IoThreads run the io_context: each takes a finished operation *)
(* and runs its handler.  UserThreads are the others that hold the         *)
(* session.  Both call write() and stop(), an io thread from inside a      *)
(* callback.  A step is what a thread does between two points where        *)
(* another can interfere: a mutex, the stop flag, a socket call, a         *)
(* callback.                                                               *)
(*                                                                         *)
(* Bytes are left out: a byte is its offset in the stream its sender       *)
(* writes.  What the peer sends is inLog, the packets with their offsets.  *)
(*                                                                         *)
(* A definition with a comment at its end that stands just above another   *)
(* of the same shape is a slip the code might have had: the mutation       *)
(* checks put it in the other's place, and a property must notice.         *)
(***************************************************************************)
EXTENDS Streambuf, Sequences

CONSTANTS
  IoThreads,    \* threads inside io_context::run()
  UserThreads,  \* other threads that use the session
  Starter,      \* the io thread whose accept or connect handler starts it
  HLen,         \* sizeof(PakSize), 8
  SizeTLen,     \* sizeof(size_t), which doRead() compares against
  RecvMax,      \* recv_ones_bytenum, 1024
  BufDelta,     \* what a fresh streambuf reserves, 128
  InSizes,      \* lengths a packet of the peer may have
  OutSizes,     \* lengths write() may be called with
  MaxIn,        \* bound: packets the peer sends
  MaxWrites     \* bound: calls of write()

Threads == IoThreads \cup UserThreads

ASSUME SessionAssumption ==
  /\ Starter \in IoThreads
  /\ IoThreads \cap UserThreads = {}
  /\ HLen \in Nat \ {0} /\ SizeTLen \in Nat \ {0}
  /\ RecvMax \in Nat \ {0} /\ BufDelta \in Nat
  /\ InSizes \subseteq Nat /\ OutSizes \subseteq Nat
  /\ MaxIn \in Nat /\ MaxWrites \in Nat

VARIABLES
  stopMtx,    \* stop_mtx is locked: locked by the constructor, it says "not stopped"
  window,     \* threads between try_lock() and unlock() of a stop_mtx they found free
  stopped,    \* history: some stop() has unlocked stop_mtx
  sock,       \* the socket: open, shut (for sending) or closed
  reads,      \* the reads started and not yet handled, oldest first
  writes,     \* the writes started and not yet handled, oldest first
  sendMtx,    \* send_mtx is locked
  isWriting,  \* is_writing
  sendBuf,    \* send_buf
  outGet,     \* offset, in the stream this side writes, of send_buf's first byte
  wirePos,    \* how many bytes the kernel has taken
  wireOK,     \* history: byte i it took was byte i of the stream, for every i
  isReadingHead, bodylen, \* is_reading_head, bodylen
  recvGet, recvPut,       \* offsets in the peer's stream of recv_buf's ends
  delivered,  \* history: the bodies read_callback was called with
  errs,       \* history: the calls of error_callback
  inLog,      \* the packets the peer wrote
  inEnd,      \* how many bytes of them reach this side
  inTaken,    \* how many of those were read from the kernel
  peer,       \* the peer's end: open, fin or reset
  pc,         \* where each thread is
  ret,        \* where each thread goes on when the call it is in returns
  compl,      \* the finished operation whose handler each thread runs
  started,    \* start() was called
  writeCalls  \* calls of write() so far

flagVars == <<stopMtx, window, stopped>>
opVars == <<sock, reads, writes>>
sendVars == <<sendMtx, isWriting, sendBuf, outGet>>
wireVars == <<wirePos, wireOK>>
recvVars == <<isReadingHead, bodylen, recvGet, recvPut, delivered>>
peerVars == <<inLog, inEnd, inTaken, peer>>
callVars == <<started, writeCalls>>
vars == <<flagVars, opVars, sendVars, wireVars, recvVars, errs, peerVars,
          pc, ret, compl, callVars>>
-----------------------------------------------------------------------------
Codes == {"ok", "eof", "error", "aborted"}
Callbacks == {"onConnect", "onPacket", "onReadError", "onWriteError"}
(* Where a thread may call the session.                                    *)
Calling == Callbacks \cup {"user"}
(* Where try_lock() on stop_mtx decides between going on and returning.    *)
Probes == {"write", "doWrite", "writeDone", "doRead", "readDone", "stop"}
Places == Calling \cup Probes \cup
  {"idle", "append", "startWrite", "writeBody", "startRead", "readBody",
   "parse", "unlock", "shutdown", "close"}

Op == [st : {"queued", "done"}, ec : Codes, len : Nat, at : Nat, view : Views]
Packet == [at : Nat, len : Nat]
PacketEnd(p) == p.at + HLen + p.len

OutEnd == outGet + Size(sendBuf)
Readable == recvPut - recvGet

Init ==
  /\ stopMtx = TRUE /\ window = {} /\ stopped = FALSE
  /\ sock = "open" /\ reads = <<>> /\ writes = <<>>
  /\ sendMtx = FALSE /\ isWriting = FALSE
  /\ sendBuf = NewStreambuf(BufDelta) /\ outGet = 0
  /\ wirePos = 0 /\ wireOK = TRUE
  /\ isReadingHead = TRUE /\ bodylen = 0 /\ recvGet = 0 /\ recvPut = 0
  /\ delivered = <<>> /\ errs = <<>>
  /\ inLog = <<>> /\ inEnd = 0 /\ inTaken = 0 /\ peer = "open"
  /\ pc = [t \in Threads |-> IF t = Starter THEN "onConnect"
                             ELSE IF t \in IoThreads THEN "idle" ELSE "user"]
  /\ ret = [t \in Threads |-> "idle"]
  /\ compl = [t \in Threads |-> [ec |-> "ok", len |-> 0]]
  /\ started = FALSE /\ writeCalls = 0
-----------------------------------------------------------------------------
Goto(t, place) == pc' = [pc EXCEPT ![t] = place]
Return(t) == Goto(t, ret[t])
Call(t, place) == Goto(t, place) /\ ret' = [ret EXCEPT ![t] = pc[t]]

(***************************************************************************)
(* "if (stop_mtx.try_lock()) { stop_mtx.unlock(); return; }" opens every   *)
(* function and handler.  A thread that finds the mutex free holds it for  *)
(* a moment; one that finds it locked takes the session for running, also  *)
(* when only such a moment of another thread locked it.                    *)
(***************************************************************************)
FindStopped(t) ==
  /\ pc[t] \in Probes /\ t \notin window
  /\ ~stopMtx
  /\ stopMtx' = TRUE
  /\ window' = window \cup {t}
  /\ UNCHANGED <<stopped, opVars, sendVars, wireVars, recvVars, errs,
                 peerVars, pc, ret, compl, callVars>>

KeepLocked(t) == window' = window \ {t} /\ UNCHANGED stopMtx  \* no unlock()
Unlock(t) == window' = window \ {t} /\ stopMtx' = FALSE

(* A return from doWrite() ends a lock_guard on send_mtx.                  *)
EndGuard(t) == sendMtx' = (sendMtx /\ pc[t] # "doWrite")

EarlyReturn(t) ==
  /\ t \in window
  /\ Unlock(t)
  /\ EndGuard(t)
  /\ Return(t)
  /\ UNCHANGED <<stopped, opVars, isWriting, sendBuf, outGet, wireVars,
                 recvVars, errs, peerVars, ret, compl, callVars>>

NeverAsks(t, place) == pc[t] = place /\ t \notin window  \* no check at all
FindsRunning(t, place) == pc[t] = place /\ t \notin window /\ stopMtx

(* What a thread goes on to when it finds the session running.             *)
Onward == [write |-> "append", writeDone |-> "writeBody",
           doRead |-> "startRead", readDone |-> "readBody", stop |-> "unlock"]

FindRunning(t) ==
  /\ \E place \in DOMAIN Onward :
        FindsRunning(t, place) /\ Goto(t, Onward[place])
  /\ UNCHANGED <<flagVars, opVars, sendVars, wireVars, recvVars, errs,
                 peerVars, ret, compl, callVars>>
-----------------------------------------------------------------------------
(* write() checks the flag, then appends the packet and, if no write is    *)
(* going, starts one, under send_mtx.                                      *)
CallWrite(t) ==
  /\ pc[t] \in Calling
  /\ writeCalls < MaxWrites
  /\ writeCalls' = writeCalls + 1
  /\ Call(t, "write")
  /\ UNCHANGED <<flagVars, opVars, sendVars, wireVars, recvVars, errs,
                 peerVars, compl, started>>

(* prepare() may move the buffer under the views writes in flight hold.    *)
WriteAppend(t, n) ==
  /\ pc[t] = "append"
  /\ ~sendMtx
  /\ sendBuf' = Commit(Prepare(sendBuf, n + HLen), n + HLen)
  /\ writes' = [i \in DOMAIN writes |->
       [writes[i] EXCEPT !.view = Outlive(@, sendBuf, n + HLen)]]
  /\ IF isWriting THEN Return(t) /\ UNCHANGED sendMtx
                  ELSE Goto(t, "doWrite") /\ sendMtx' = TRUE
  /\ UNCHANGED <<flagVars, sock, reads, isWriting, outGet, wireVars, recvVars,
                 errs, peerVars, ret, compl, callVars>>

NeverSet == FALSE       \* is_writing = true forgotten
NeverCleared == TRUE    \* is_writing = false forgotten
StillWriting == Size(sendBuf) # 0

(* doWrite(), entered with send_mtx held, by write() or the write handler. *)
DoWrite(t) ==
  /\ FindsRunning(t, "doWrite")
  /\ isWriting' = StillWriting
  /\ IF Size(sendBuf) = 0 THEN Return(t) /\ sendMtx' = FALSE
                          ELSE Goto(t, "startWrite") /\ UNCHANGED sendMtx
  /\ UNCHANGED <<flagVars, opVars, sendBuf, outGet, wireVars, recvVars, errs,
                 peerVars, ret, compl, callVars>>

(* An operation as async_read_some or async_write_some leaves it: waiting  *)
(* for the reactor, or finished at once when the socket is closed.         *)
NewOp(at, view) ==
  IF sock = "closed"
  THEN [st |-> "done", ec |-> "error", len |-> 0, at |-> at, view |-> view]
  ELSE [st |-> "queued", ec |-> "ok", len |-> 0, at |-> at, view |-> view]

(* async_write_some(send_buf.data(), ...), and the end of the lock_guard.  *)
StartWrite(t) ==
  /\ pc[t] = "startWrite"
  /\ writes' = Append(writes, NewOp(outGet, Data(sendBuf)))
  /\ sendMtx' = FALSE
  /\ Return(t)
  /\ UNCHANGED <<flagVars, sock, reads, isWriting, sendBuf, outGet, wireVars,
                 recvVars, errs, peerVars, ret, compl, callVars>>
-----------------------------------------------------------------------------
(* The handler of a write.                                                 *)
TakeWrite(t) ==
  /\ pc[t] = "idle"
  /\ writes # <<>> /\ Head(writes).st = "done"
  /\ compl' = [compl EXCEPT
       ![t] = [ec |-> Head(writes).ec, len |-> Head(writes).len]]
  /\ writes' = Tail(writes)
  /\ Goto(t, "writeDone")
  /\ ret' = [ret EXCEPT ![t] = "idle"]
  /\ UNCHANGED <<flagVars, sock, reads, sendVars, wireVars, recvVars, errs,
                 peerVars, callVars>>

GuardTooWide == ~sendMtx /\ sendMtx' = TRUE   \* lock_guard above the if
GuardInBranch == UNCHANGED sendMtx

WriteFailed(t) ==
  /\ pc[t] = "writeBody" /\ compl[t].ec # "ok"
  /\ GuardInBranch
  /\ errs' = Append(errs, [dir |-> "write", ec |-> compl[t].ec])
  /\ Goto(t, "onWriteError")
  /\ UNCHANGED <<flagVars, opVars, isWriting, sendBuf, outGet, wireVars, recvVars, peerVars,
                 ret, compl, callVars>>

WriteConsume(t) ==
  /\ pc[t] = "writeBody" /\ compl[t].ec = "ok"
  /\ ~sendMtx
  /\ sendMtx' = TRUE
  /\ sendBuf' = Consume(sendBuf, compl[t].len)
  /\ outGet' = outGet + Size(sendBuf) - Size(sendBuf')
  /\ Goto(t, "doWrite")
  /\ UNCHANGED <<flagVars, opVars, isWriting, wireVars, recvVars, errs,
                 peerVars, ret, compl, callVars>>
-----------------------------------------------------------------------------
(* start() and doRead().                                                   *)
StartsAgain(t) == pc[t] = "onConnect"          \* start() called twice
Starts(t) == pc[t] = "onConnect" /\ ~started

CallStart(t) ==
  /\ Starts(t)
  /\ started' = TRUE
  /\ Call(t, "doRead")
  /\ UNCHANGED <<flagVars, opVars, sendVars, wireVars, recvVars, errs,
                 peerVars, compl, writeCalls>>

StartRead(t) ==
  /\ pc[t] = "startRead"
  /\ reads' = Append(reads, NewOp(0, [pos |-> 0, len |-> RecvMax, lost |-> FALSE]))
  /\ Return(t)
  /\ UNCHANGED <<flagVars, sock, writes, sendVars, wireVars, recvVars, errs,
                 peerVars, ret, compl, callVars>>

(* The handler of a read.                                                  *)
TakeRead(t) ==
  /\ pc[t] = "idle"
  /\ reads # <<>> /\ Head(reads).st = "done"
  /\ compl' = [compl EXCEPT
       ![t] = [ec |-> Head(reads).ec, len |-> Head(reads).len]]
  /\ reads' = Tail(reads)
  /\ Goto(t, "readDone")
  /\ ret' = [ret EXCEPT ![t] = "idle"]
  /\ UNCHANGED <<flagVars, sock, writes, sendVars, wireVars, recvVars, errs,
                 peerVars, callVars>>

ReadFailed(t) ==
  /\ pc[t] = "readBody" /\ compl[t].ec # "ok"
  /\ errs' = Append(errs, [dir |-> "read", ec |-> compl[t].ec])
  /\ Goto(t, "onReadError")
  /\ UNCHANGED <<flagVars, opVars, sendVars, wireVars, recvVars, peerVars,
                 ret, compl, callVars>>

ReadCommit(t) ==
  /\ pc[t] = "readBody" /\ compl[t].ec = "ok"
  /\ recvPut' = recvPut + compl[t].len
  /\ Goto(t, "parse")
  /\ UNCHANGED <<flagVars, opVars, sendVars, wireVars, isReadingHead, bodylen,
                 recvGet, delivered, errs, peerVars, ret, compl, callVars>>

(* The value the HLen bytes at offset p hold when avail of them are there: *)
(* a packet's length if p is where one begins, and anything otherwise.     *)
HeaderAt(p, avail) ==
  IF avail >= HLen /\ \E k \in DOMAIN inLog : inLog[k].at = p
  THEN {inLog[k].len : k \in {j \in DOMAIN inLog : inLog[j].at = p}}
  ELSE InSizes

(* The two branches of the loop that cut packets, and its end.             *)
HasSomeHeader == isReadingHead /\ Readable > 0     \* header not waited for
HasHeader == isReadingHead /\ Readable >= SizeTLen

HasSomeBody == ~isReadingHead                      \* body not waited for
HasMoreThanBody == ~isReadingHead /\ Readable > bodylen
HasBody == ~isReadingHead /\ Readable >= bodylen

ParseHeader(t) ==
  /\ pc[t] = "parse" /\ HasHeader
  /\ isReadingHead' = FALSE
  /\ bodylen' \in HeaderAt(recvGet, Readable)
  /\ recvGet' = recvGet + LesserOf(HLen, Readable)
  /\ UNCHANGED <<flagVars, opVars, sendVars, wireVars, recvPut, delivered,
                 errs, peerVars, pc, ret, compl, callVars>>

DeliverPacket(t) ==
  /\ pc[t] = "parse" /\ HasBody
  /\ isReadingHead' = TRUE
  /\ delivered' = Append(delivered, [at |-> recvGet, len |-> bodylen])
  /\ Goto(t, "onPacket")
  /\ UNCHANGED <<flagVars, opVars, sendVars, wireVars, bodylen, recvGet,
                 recvPut, errs, peerVars, ret, compl, callVars>>

(* read_callback returns.                                                  *)
PacketReturn(t) ==
  /\ pc[t] = "onPacket"
  /\ recvGet' = recvGet + LesserOf(bodylen, Readable)
  /\ Goto(t, "parse")
  /\ UNCHANGED <<flagVars, opVars, sendVars, wireVars, isReadingHead, bodylen,
                 recvPut, delivered, errs, peerVars, ret, compl, callVars>>

ReadOn(t) ==
  /\ pc[t] = "parse" /\ ~HasHeader /\ ~HasBody
  /\ Goto(t, "doRead")
  /\ ret' = [ret EXCEPT ![t] = "idle"]
  /\ UNCHANGED <<flagVars, opVars, sendVars, wireVars, recvVars, errs,
                 peerVars, compl, callVars>>

(* A failed read followed by another read.                                 *)
CallbackRetries(t) ==
  /\ \/ pc[t] = "onReadError" /\ Goto(t, "doRead")
     \/ pc[t] = "onConnect" /\ started /\ Goto(t, "idle")
  /\ UNCHANGED <<flagVars, opVars, sendVars, wireVars, recvVars, errs,
                 peerVars, ret, compl, callVars>>

(* error_callback, or the accept or connect handler, returns.              *)
CallbackReturn(t) ==
  /\ \/ pc[t] \in {"onReadError", "onWriteError"}
     \/ pc[t] = "onConnect" /\ started
  /\ Goto(t, "idle")
  /\ UNCHANGED <<flagVars, opVars, sendVars, wireVars, recvVars, errs,
                 peerVars, ret, compl, callVars>>
-----------------------------------------------------------------------------
(* stop(): a free mutex means stopped already; otherwise it is unlocked,   *)
(* and the socket shut down and closed.                                    *)
CallStop(t) ==
  /\ pc[t] \in Calling
  /\ Call(t, "stop")
  /\ UNCHANGED <<flagVars, opVars, sendVars, wireVars, recvVars, errs,
                 peerVars, compl, callVars>>

StopUnlock(t) ==
  /\ pc[t] = "unlock"
  /\ stopMtx' = FALSE
  /\ stopped' = TRUE
  /\ Goto(t, "shutdown")
  /\ UNCHANGED <<window, opVars, sendVars, wireVars, recvVars, errs,
                 peerVars, ret, compl, callVars>>

(* On a socket another stop() has closed, shutdown() throws, which stop()  *)
(* catches, and close() does nothing.                                      *)
StopShutdown(t) ==
  /\ pc[t] = "shutdown"
  /\ sock' = IF sock = "open" THEN "shut" ELSE sock
  /\ Goto(t, "close")
  /\ UNCHANGED <<flagVars, reads, writes, sendVars, wireVars, recvVars, errs,
                 peerVars, ret, compl, callVars>>

Finish(op, ec, n) == [op EXCEPT !.st = "done", !.ec = ec, !.len = n]
StillQueued(ops) == ops                 \* close() leaves them to the reactor
Aborted(ops) ==
  [i \in DOMAIN ops |->
     IF ops[i].st = "queued" THEN Finish(ops[i], "aborted", 0) ELSE ops[i]]

StopClose(t) ==
  /\ pc[t] = "close"
  /\ sock' = "closed"
  /\ reads' = Aborted(reads)
  /\ writes' = Aborted(writes)
  /\ Return(t)
  /\ UNCHANGED <<flagVars, sendVars, wireVars, recvVars, errs, peerVars, ret,
                 compl, callVars>>
-----------------------------------------------------------------------------
(* The reactor and the kernel: an operation is performed when its turn     *)
(* comes in the descriptor's queue.  A read takes any part of what has     *)
(* arrived, up to RecvMax; a write hands over any part of its view.        *)
Next1st(ops, i) ==
  /\ i \in DOMAIN ops
  /\ ops[i].st = "queued"
  /\ \A j \in 1 .. i - 1 : ops[j].st = "done"

PerformRead(i, n) ==
  /\ Next1st(reads, i)
  /\ n <= RecvMax /\ n <= inEnd - inTaken
  /\ reads' = [reads EXCEPT ![i] = Finish(@, "ok", n)]
  /\ inTaken' = inTaken + n
  /\ UNCHANGED <<flagVars, sock, writes, sendVars, wireVars, recvVars, errs,
                 inLog, inEnd, peer, pc, ret, compl, callVars>>

FailRead(i, ec) ==
  /\ Next1st(reads, i)
  /\ \/ ec = "eof" /\ peer = "fin" /\ inTaken = inEnd
     \/ ec = "error" /\ peer = "reset"
  /\ reads' = [reads EXCEPT ![i] = Finish(@, ec, 0)]
  /\ UNCHANGED <<flagVars, sock, writes, sendVars, wireVars, recvVars, errs,
                 peerVars, pc, ret, compl, callVars>>

PerformWrite(i, n) ==
  /\ Next1st(writes, i)
  /\ n <= writes[i].view.len
  /\ sock = "open" /\ peer # "reset"
  /\ writes' = [writes EXCEPT ![i] = Finish(@, "ok", n)]
  /\ wirePos' = wirePos + n
  /\ wireOK' = (wireOK /\ writes[i].at = wirePos
                       /\ Intact(writes[i].view, sendBuf))
  /\ UNCHANGED <<flagVars, sock, reads, sendVars, recvVars, errs, peerVars,
                 pc, ret, compl, callVars>>

FailWrite(i) ==
  /\ Next1st(writes, i)
  /\ sock = "shut" \/ peer = "reset"
  /\ writes' = [writes EXCEPT ![i] = Finish(@, "error", 0)]
  /\ UNCHANGED <<flagVars, sock, reads, sendVars, wireVars, recvVars, errs,
                 peerVars, pc, ret, compl, callVars>>

(* The peer writes a packet, ends its stream, losing what it had not sent  *)
(* (its own stop() does that), or resets the connection.                   *)
PeerWrite(n) ==
  /\ peer = "open" /\ Len(inLog) < MaxIn
  /\ inLog' = Append(inLog, [at |-> inEnd, len |-> n])
  /\ inEnd' = inEnd + HLen + n
  /\ UNCHANGED <<flagVars, opVars, sendVars, wireVars, recvVars, errs,
                 inTaken, peer, pc, ret, compl, callVars>>

PeerClose(n) ==
  /\ peer = "open" /\ n \in inTaken .. inEnd
  /\ peer' = "fin"
  /\ inEnd' = n
  /\ UNCHANGED <<flagVars, opVars, sendVars, wireVars, recvVars, errs,
                 inLog, inTaken, pc, ret, compl, callVars>>

PeerReset ==
  /\ peer # "reset"
  /\ peer' = "reset"
  /\ UNCHANGED <<flagVars, opVars, sendVars, wireVars, recvVars, errs,
                 inLog, inEnd, inTaken, pc, ret, compl, callVars>>
-----------------------------------------------------------------------------
Calls(t) == CallWrite(t) \/ CallStart(t) \/ CallStop(t)

WriteStep(t) ==
  \/ \E n \in OutSizes : WriteAppend(t, n)
  \/ DoWrite(t) \/ StartWrite(t) \/ WriteFailed(t) \/ WriteConsume(t)

ReadStep(t) ==
  \/ StartRead(t) \/ ReadFailed(t) \/ ReadCommit(t)
  \/ ParseHeader(t) \/ DeliverPacket(t) \/ ReadOn(t)

StopStep(t) ==
  \/ FindStopped(t) \/ EarlyReturn(t) \/ FindRunning(t)
  \/ StopUnlock(t) \/ StopShutdown(t) \/ StopClose(t)

Step(t) == WriteStep(t) \/ ReadStep(t) \/ StopStep(t)
Resume(t) == PacketReturn(t) \/ CallbackReturn(t)
Take(t) == TakeRead(t) \/ TakeWrite(t)

PerformSomeRead ==
  \E i \in DOMAIN reads :
    \/ \E n \in 1 .. RecvMax : PerformRead(i, n)
    \/ \E ec \in {"eof", "error"} : FailRead(i, ec)

PerformSomeWrite ==
  \E i \in DOMAIN writes :
    \/ \E n \in 1 .. writes[i].view.len : PerformWrite(i, n)
    \/ FailWrite(i)

Peer == (\E n \in InSizes : PeerWrite(n)) \/ (\E n \in 0 .. inEnd : PeerClose(n))
          \/ PeerReset

Next ==
  \/ \E t \in Threads : Calls(t) \/ Step(t) \/ Resume(t) \/ Take(t)
  \/ PerformSomeRead \/ PerformSomeWrite
  \/ Peer

Spec == Init /\ [][Next]_vars
=============================================================================
