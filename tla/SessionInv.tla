------------------------------ MODULE SessionInv ------------------------------
(***************************************************************************)
(* The invariants of Session that are inductive: what has to be known of a *)
(* state, beside what SessionProps promises, for every step to keep it.    *)
(***************************************************************************)
EXTENDS SessionProps

(* stop_mtx as a flag: until a stop() unlocks it nobody finds it free, and *)
(* then only threads in the window of their check lock it.                 *)
FlagInv ==
  /\ ~stopped => stopMtx /\ window = {}
  /\ stopped /\ stopMtx => window # {}

(* A call returns to a callback or to user code, or ends a handler; start  *)
(* is called by the accept or connect handler, and handlers are entered    *)
(* from the scheduler.                                                     *)
ReturnInv ==
  \A t \in Threads :
    /\ t \in window => pc[t] \in Probes
    /\ ret[t] \in Calling \cup {"idle"}
    /\ pc[t] \in {"doRead", "startRead"} => ret[t] \in {"idle", "onConnect"}
    /\ pc[t] \in {"readDone", "readBody", "writeDone", "writeBody"} =>
         ret[t] = "idle"

(* A read in flight and a thread that handles reads exclude each other,    *)
(* and there is neither before start().                                    *)
ReaderInv ==
  /\ SingleReader
  /\ ~started => reads = <<>> /\ \A t \in Threads : ~ReadOwner(t)

(* Every byte in recv_buf, or on its way there, was taken from the kernel. *)
ReadBytesInv ==
  /\ recvPut <= inTaken
  /\ \A i \in DOMAIN reads : recvPut + reads[i].len <= inTaken
  /\ \A t \in Threads :
       pc[t] \in {"readDone", "readBody"} => recvPut + compl[t].len <= inTaken

(* Where packet k of the peer begins, or would if it were the next.        *)
FrameAt(k) == IF k = 1 THEN 0 ELSE PacketEnd(inLog[k - 1])

(* The peer's packets lie one behind the other in its stream.              *)
LogInv ==
  /\ \A k \in DOMAIN inLog : inLog[k].at = FrameAt(k)
  /\ \A j, k \in DOMAIN inLog : j < k => PacketEnd(inLog[j]) <= inLog[k].at
  /\ inEnd <= FrameAt(Len(inLog) + 1)
  /\ peer = "open" => inEnd = FrameAt(Len(inLog) + 1)

(* recv_buf begins with a packet's header when is_reading_head says so,    *)
(* and otherwise, and while read_callback runs, with the body of a packet  *)
(* that bodylen fits.                                                      *)
FrameInv ==
  /\ InOrderDelivery
  /\ IF \E t \in Threads : InPacket(t)
     THEN /\ isReadingHead /\ delivered # <<>>
          /\ recvGet = inLog[Len(delivered)].at + HLen
          /\ bodylen = inLog[Len(delivered)].len
          /\ bodylen <= Readable
     ELSE IF isReadingHead
     THEN recvGet = FrameAt(Len(delivered) + 1)
     ELSE /\ Len(delivered) < Len(inLog)
          /\ recvGet = inLog[Len(delivered) + 1].at + HLen
          /\ bodylen = inLog[Len(delivered) + 1].len

(* A read is only begun when recv_buf has no whole header or body left.    *)
HoldInv ==
  /\ ~started => isReadingHead /\ Readable = 0
  /\ (reads # <<>> \/ \E t \in Threads : pc[t] \in {"doRead", "startRead"}) =>
       ~HasHeader /\ ~HasBody
-----------------------------------------------------------------------------
(* Whoever runs doWrite() holds send_mtx.                                  *)
WriterInv ==
  /\ SingleWriter
  /\ \A t \in Threads : pc[t] \in {"doWrite", "startWrite"} => sendMtx

(* Where the kernel is in the stream: at the first byte of send_buf when a *)
(* write is to be started, and as far beyond it as the write has got until *)
(* consume() follows.                                                      *)
SendInv ==
  /\ outGet <= wirePos /\ wirePos <= OutEnd
  /\ ~isWriting => wirePos = outGet
  /\ \A t \in Threads :
       /\ pc[t] \in {"doWrite", "startWrite"} => wirePos = outGet
       /\ pc[t] \in {"writeDone", "writeBody"} => wirePos = outGet + compl[t].len
  /\ \A i \in DOMAIN writes :
       /\ writes[i].at = outGet
       /\ writes[i].view.len <= Size(sendBuf)
       /\ wirePos = outGet + writes[i].len
       /\ writes[i].st = "queued" => writes[i].len = 0

(* While is_writing is set somebody writes, unless the session was stopped *)
(* or a write failed; while it is clear and nobody is about to set it,     *)
(* there is nothing to write.                                              *)
RefillInv ==
  ~stopped =>
    /\ isWriting /\ ~Failed("write") =>
         writes # <<>> \/ \E t \in Threads : WriteOwner(t)
    /\ ~isWriting /\ ~sendMtx => Size(sendBuf) = 0

(* A failure ends its direction: no read, or write, is going or handled    *)
(* after it, and none can be started.                                      *)
FailInv ==
  /\ ErrorOnce
  /\ Failed("write") =>
       isWriting /\ writes = <<>> /\ \A t \in Threads : ~WriteOwner(t)
  /\ Failed("read") =>
       started /\ reads = <<>> /\ \A t \in Threads : ~ReadOwner(t)
=============================================================================
