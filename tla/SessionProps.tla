----------------------------- MODULE SessionProps -----------------------------
(***************************************************************************)
(* What a Session promises, stated over the steps of module Session.       *)
(***************************************************************************)
EXTENDS Session

(* Where a thread is while it runs a call a callback or user code made.    *)
InCall == {"write", "append", "doWrite", "startWrite", "stop", "unlock",
           "shutdown", "close", "doRead", "startRead"}

(* Threads that run the read handler, the callback it makes, or doRead().  *)
ReadOwner(t) ==
  \/ pc[t] \in {"doRead", "startRead", "readDone", "readBody", "parse", "onPacket"}
  \/ pc[t] \in InCall /\ ret[t] = "onPacket"

(* Threads that run the write handler or doWrite().                        *)
WriteOwner(t) == pc[t] \in {"writeDone", "writeBody", "doWrite", "startWrite"}

Failed(dir) == \E i \in DOMAIN errs : errs[i].dir = dir

TypeOK ==
  /\ stopMtx \in BOOLEAN /\ window \subseteq Threads /\ stopped \in BOOLEAN
  /\ sock \in {"open", "shut", "closed"}
  /\ reads \in Seq(Op) /\ writes \in Seq(Op)
  /\ sendMtx \in BOOLEAN /\ isWriting \in BOOLEAN
  /\ sendBuf \in Streambufs /\ WellFormed(sendBuf)
  /\ outGet \in Nat /\ wirePos \in Nat /\ wireOK \in BOOLEAN
  /\ isReadingHead \in BOOLEAN /\ bodylen \in Nat
  /\ recvGet \in Nat /\ recvPut \in Nat /\ recvGet <= recvPut
  /\ delivered \in Seq(Packet)
  /\ errs \in Seq([dir : {"read", "write"}, ec : Codes])
  /\ inLog \in Seq(Packet) /\ inEnd \in Nat /\ inTaken \in 0 .. inEnd
  /\ peer \in {"open", "fin", "reset"}
  /\ pc \in [Threads -> Places] /\ ret \in [Threads -> Places]
  /\ compl \in [Threads -> [ec : Codes, len : Nat]]
  /\ started \in BOOLEAN /\ writeCalls \in 0 .. MaxWrites
-----------------------------------------------------------------------------
(* A mutex used as a flag: once a stop() has unlocked stop_mtx it is only  *)
(* ever locked again for the moment of another thread's check, so no       *)
(* thread can bring a stopped session back for good (session.cpp:15-19).   *)
StopSticks == stopped /\ stopMtx => window # {}

(* At most one read is in flight or being handled, whatever threads run    *)
(* the io_context: recv_buf has one user at a time, and the bytes handed   *)
(* to read_callback stay put while it runs (session.cpp:64-90).            *)
SingleReader ==
  /\ Len(reads) <= 1
  /\ \A t, u \in Threads : ReadOwner(t) /\ ReadOwner(u) => t = u
  /\ (\E t \in Threads : ReadOwner(t)) => reads = <<>>

(* is_writing does its work: at most one write is in flight or being       *)
(* handled, and none when is_writing is false, also when several threads   *)
(* write while a handler runs; and send_mtx is left locked on no path, the *)
(* early return of doWrite() included (session.cpp:34-43, 94-105).         *)
SingleWriter ==
  /\ Len(writes) <= 1
  /\ \A t, u \in Threads : WriteOwner(t) /\ WriteOwner(u) => t = u
  /\ (\E t \in Threads : WriteOwner(t)) => writes = <<>>
  /\ ~isWriting => /\ writes = <<>>
                   /\ \A t \in Threads : WriteOwner(t) => pc[t] = "doWrite"
  /\ sendMtx => \E t \in Threads : pc[t] \in {"doWrite", "startWrite"}

(* read_callback gets the bodies of the peer's packets, whole, in order,   *)
(* each once, however the kernel cuts the stream (session.cpp:65-89).      *)
InOrderDelivery ==
  /\ Len(delivered) <= Len(inLog)
  /\ \A k \in DOMAIN delivered :
       delivered[k] = [at |-> inLog[k].at + HLen, len |-> inLog[k].len]

(* While a read waits nothing is held back: each packet that has been      *)
(* received whole has been handed to read_callback, so no message has to   *)
(* wait for the peer to send another (session.cpp:65-90).                  *)
NothingHeldBack ==
  reads # <<>> =>
    \A k \in DOMAIN inLog : PacketEnd(inLog[k]) <= recvPut => k <= Len(delivered)

(* A packet left in send_buf has a write under way: the check of           *)
(* is_writing in write() and the refill in the write handler cannot both   *)
(* leave it to the other (session.cpp:41-43, 116-118).                     *)
NoStrandedPacket ==
  Size(sendBuf) > 0 /\ ~sendMtx /\ ~stopped /\ ~Failed("write") =>
    writes # <<>> \/ \E t \in Threads : pc[t] \in {"writeDone", "writeBody"}

(* Every byte is sent from its place in the stream and consumed once: a    *)
(* waiting write starts where the kernel stopped, and send_buf never drops *)
(* a byte the kernel has not taken (session.cpp:105, 117).                 *)
SendAccounting ==
  /\ outGet <= wirePos /\ wirePos <= OutEnd
  /\ \A i \in DOMAIN writes : writes[i].st = "queued" => writes[i].at = wirePos
  /\ ~isWriting => outGet = wirePos

(* error_callback is called at most once for each direction: a chain of    *)
(* reads or writes ends with its first failure (session.cpp:60-62,         *)
(* 112-114).  FailureIsFinal says more.                                    *)
ErrorOnce ==
  \A i, j \in DOMAIN errs : errs[i].dir = errs[j].dir => i = j

(* A write in flight still shows the bytes it was started for: the buffer  *)
(* given to async_write_some remains valid until the write has been        *)
(* performed (asio/basic_stream_socket.hpp:910-912).                       *)
ViewStaysValid ==
  \A i \in DOMAIN writes :
    writes[i].st = "queued" => Intact(writes[i].view, sendBuf)

(* What the kernel takes is the stream that was written, byte for byte     *)
(* (session.cpp:27-44, 94-120).  Like ViewStaysValid it does not hold as   *)
(* it stands: OnlyMovesSpoil says what it takes to break them.             *)
WireIsStream == wireOK
-----------------------------------------------------------------------------
(* A packet appended while a write waits to be performed, and either there *)
(* is no room for it behind the put pointer, so that prepare() moves the   *)
(* bytes waiting or frees their block, or such a packet came before it.    *)
Crowds(t, n) ==
  /\ WriteAppend(t, n)
  /\ \E i \in DOMAIN writes :
       /\ writes[i].st = "queued"
       /\ \/ sendBuf.put + n + HLen > sendBuf.end
          \/ writes[i].view.pos # sendBuf.get

(* Whatever the threads do, only such a packet takes its bytes from a      *)
(* write in flight, and only a write that has lost them sends anything but *)
(* the next bytes of the stream: no consume(), no second write and no      *)
(* write that is started behind a partial one does (session.cpp:35, 105,   *)
(* 117).                                                                   *)
OnlyMovesSpoil ==
  [][/\ ViewStaysValid /\ ~ViewStaysValid' =>
          \E t \in Threads : \E n \in OutSizes : Crowds(t, n)
     /\ wireOK /\ ~wireOK' => ~ViewStaysValid]_vars

(* With one thread, stop() is final: after it no read or write is started, *)
(* nothing more is received and no callback reports an error, though       *)
(* handlers of the aborted operations still run (session.cpp:56-59).       *)
StopSilences ==
  [][stopped => /\ Len(reads') <= Len(reads) /\ Len(writes') <= Len(writes)
                /\ recvPut' = recvPut /\ errs' = errs]_vars

(* A failure ends its direction for good, although nobody has stopped the  *)
(* session: after a read has failed nothing is received or delivered, and  *)
(* after a write has failed nothing is sent or dropped from send_buf, since *)
(* is_writing stays set and write() only adds to it; nor does the user     *)
(* hear of it again (session.cpp:41-43, 60-62, 112-114).                   *)
FailureIsFinal ==
  [][/\ Failed("read") => /\ reads' = <<>>
                          /\ UNCHANGED <<recvPut, delivered>>
     /\ Failed("write") => /\ writes' = <<>>
                           /\ UNCHANGED <<wirePos, outGet>>
     /\ \A i \in DOMAIN errs' : i \in DOMAIN errs \/ ~Failed(errs'[i].dir)]_vars
-----------------------------------------------------------------------------
(* A session implements a stream of messages: those of the peer's packets  *)
(* that reach this side whole are the messages sent.                       *)
Arriving == {k \in DOMAIN inLog : PacketEnd(inLog[k]) <= inEnd}

Stream == INSTANCE MessageStream WITH
  Messages <- InSizes,
  sent <- [k \in Arriving |-> inLog[k].len],
  got <- [k \in DOMAIN delivered |-> delivered[k].len],
  open <- (peer = "open")

(* Whatever the threads, the kernel and the peer do, read_callback sees    *)
(* what MessageStream allows (session.cpp:55-92).                          *)
ImplementsStream == Stream!Spec
-----------------------------------------------------------------------------
(* What the owner of a session sees of it.                                 *)
InPacket(t) == pc[t] = "onPacket" \/ (pc[t] \in InCall /\ ret[t] = "onPacket")

LinkReading ==
  IF \E t \in Threads : InPacket(t) THEN "busy"
  ELSE IF Failed("read") THEN "failed"
  ELSE IF reads # <<>> \/ \E t \in Threads : ReadOwner(t) THEN "armed"
  ELSE IF started THEN "ended" ELSE "off"

LinkWriting ==
  IF Failed("write") THEN "failed"
  ELSE IF writes # <<>> \/ \E t \in Threads : WriteOwner(t) THEN "armed"
  ELSE IF isWriting THEN "ended" ELSE "off"

Link == INSTANCE SessionLink WITH reading <- LinkReading, writing <- LinkWriting

(* The owner of a session may rely on SessionLink: callbacks come one at a *)
(* time, none after a failure of its direction, and a chain of reads or    *)
(* writes ends without a callback only once stop() was called              *)
(* (session.cpp:56-63, 107-115).                                           *)
ImplementsLink == Link!Spec
-----------------------------------------------------------------------------
(***************************************************************************)
(* Fairness.  Threads run; callbacks return and the accept or connect      *)
(* handler calls start(); the scheduler's queue is first in, first out, so *)
(* no finished operation is passed over for ever; the reactor performs     *)
(* what can be performed, which for writes means that the peer reads.      *)
(***************************************************************************)
FairSpec ==
  /\ Spec
  /\ \A t \in Threads : WF_vars(Step(t)) /\ SF_vars(Resume(t))
  /\ SF_vars(CallStart(Starter))
  /\ SF_vars(\E t \in IoThreads : TakeRead(t))
  /\ SF_vars(\E t \in IoThreads : TakeWrite(t))
  /\ WF_vars(PerformSomeRead) /\ WF_vars(PerformSomeWrite)

(* Every packet written goes out, unless the session is stopped or the     *)
(* peer resets the connection.                                             *)
EventuallySent == wirePos < OutEnd ~> (wirePos = OutEnd \/ stopped \/ peer = "reset")

(* Every packet that arrives whole is delivered, unless the session is     *)
(* stopped or the peer goes away.                                          *)
EventuallyDelivered ==
  Len(delivered) < Len(inLog) ~>
    (Len(delivered) = Len(inLog) \/ stopped \/ peer # "open")

(* After stop() a session comes to rest: the read it aborts is handled and *)
(* none follows, though another thread's check may make a handler take the *)
(* session for running once more (session.cpp:14-26, 56-59).               *)
StopEnds == stopped ~> LinkReading \notin {"armed", "busy"}

(* Every call of write() or stop() returns: no thread waits for ever for   *)
(* send_mtx or stop_mtx, also when the call is made inside a callback.     *)
CallsReturn ==
  \A t \in Threads : pc[t] \in InCall ~> pc[t] \notin InCall
=============================================================================
