---------------------------- MODULE SessionProofs ----------------------------
(***************************************************************************)
(* What is proved of a Session as a whole and of its receiving side, for   *)
(* any number of threads and any bounds: types, the stop flag, one reader  *)
(* at a time, packets in order, the stream of messages of MessageStream.   *)
(***************************************************************************)
EXTENDS SessionInv, StreambufProofs, SequenceTheorems, FiniteSetTheorems

(* The steps of Next, one disjunct for each action.                        *)
LEMMA NextCases ==
  ASSUME Next
  PROVE  \/ \E t \in Threads :
              \/ CallWrite(t) \/ CallStart(t) \/ CallStop(t)
              \/ \E n \in OutSizes : WriteAppend(t, n)
              \/ DoWrite(t) \/ StartWrite(t) \/ WriteFailed(t) \/ WriteConsume(t)
              \/ StartRead(t) \/ ReadFailed(t) \/ ReadCommit(t)
              \/ ParseHeader(t) \/ DeliverPacket(t) \/ ReadOn(t)
              \/ FindStopped(t) \/ EarlyReturn(t) \/ FindRunning(t)
              \/ StopUnlock(t) \/ StopShutdown(t) \/ StopClose(t)
              \/ PacketReturn(t) \/ CallbackReturn(t)
              \/ TakeRead(t) \/ TakeWrite(t)
         \/ \E i \in DOMAIN reads : \E n \in 1 .. RecvMax : PerformRead(i, n)
         \/ \E i \in DOMAIN reads : \E ec \in {"eof", "error"} : FailRead(i, ec)
         \/ \E i \in DOMAIN writes :
              \E n \in 1 .. writes[i].view.len : PerformWrite(i, n)
         \/ \E i \in DOMAIN writes : FailWrite(i)
         \/ \E n \in InSizes : PeerWrite(n)
         \/ \E n \in 0 .. inEnd : PeerClose(n)
         \/ PeerReset
BY DEF Next, Calls, Step, WriteStep, ReadStep, StopStep, Resume, Take,
       PerformSomeRead, PerformSomeWrite, Peer
-----------------------------------------------------------------------------
(* Marking operations of a queue, here by f, leaves a queue of as many.    *)
LEMMA OpsMapped ==
  ASSUME NEW ops \in Seq(Op), NEW f, DOMAIN f = DOMAIN ops,
         \A i \in DOMAIN ops : f[i] \in Op, f = [i \in DOMAIN ops |-> f[i]]
  PROVE  f \in Seq(Op) /\ Len(f) = Len(ops)
<1>1. Len(ops) \in Nat /\ DOMAIN ops = 1 .. Len(ops)
  BY LenProperties
<1>2. f \in [1 .. Len(ops) -> Op]
  BY <1>1
<1>3. f \in Seq(Op)
  BY <1>1, <1>2, SeqDef
<1>. QED
  BY <1>1, <1>2, <1>3, LenProperties

LEMMA OpFinished ==
  ASSUME NEW ops \in Seq(Op), NEW i \in DOMAIN ops, NEW ec \in Codes, NEW n \in Nat
  PROVE  LET f == [ops EXCEPT ![i] = Finish(@, ec, n)]
         IN  /\ f \in Seq(Op) /\ Len(f) = Len(ops)
             /\ f[i].len = n /\ f[i].ec = ec /\ f[i].st = "done"
             /\ \A j \in DOMAIN ops \ {i} : f[j] = ops[j]
<1>1. ops[i] \in Op /\ i \in 1 .. Len(ops)
  BY LenProperties
<1>2. Finish(ops[i], ec, n) \in Op
  BY <1>1 DEF Finish, Op
<1>3. /\ Finish(ops[i], ec, n).len = n /\ Finish(ops[i], ec, n).ec = ec
      /\ Finish(ops[i], ec, n).st = "done"
  BY <1>1 DEF Finish, Op
<1>. QED
  BY <1>1, <1>2, <1>3, ExceptSeq, LenProperties

(* The operations on the queues of operations keep them queues of such.    *)
LEMMA OpTypes ==
  ASSUME TypeOK
  PROVE  /\ \A at \in Nat, v \in Views : NewOp(at, v) \in Op
         /\ \A op \in Op, ec \in Codes, n \in Nat : Finish(op, ec, n) \in Op
         /\ Data(sendBuf) \in Views
<1>1. ASSUME NEW at \in Nat, NEW v \in Views
      PROVE  NewOp(at, v) \in Op
  BY <1>1 DEF NewOp, Op, Codes
<1>2. ASSUME NEW op \in Op, NEW ec \in Codes, NEW n \in Nat
      PROVE  Finish(op, ec, n) \in Op
  BY <1>2 DEF Finish, Op
<1>3. Data(sendBuf) \in Views
  BY DEF TypeOK, Data, Views, Streambufs, WellFormed, Size
<1>. QED
  BY <1>1, <1>2, <1>3

LEMMA AbortedTypes ==
  ASSUME NEW ops \in Seq(Op)
  PROVE  /\ Aborted(ops) \in Seq(Op)
         /\ Len(Aborted(ops)) = Len(ops)
         /\ \A i \in DOMAIN ops :
              /\ Aborted(ops)[i].st = "done"
              /\ Aborted(ops)[i].len \in {0, ops[i].len}
              /\ Aborted(ops)[i].ec \in {"aborted", ops[i].ec}
<1>1. DOMAIN Aborted(ops) = DOMAIN ops
  BY DEF Aborted
<1>2. ASSUME NEW i \in DOMAIN ops
      PROVE  Aborted(ops)[i] \in Op
  <2>1. ops[i] \in Op
    BY LenProperties
  <2>2. Finish(ops[i], "aborted", 0) \in Op
    BY <2>1 DEF Finish, Op, Codes
  <2>. QED
    BY <2>1, <2>2 DEF Aborted
<1>3. Aborted(ops) = [i \in DOMAIN ops |-> Aborted(ops)[i]]
  BY DEF Aborted
<1>4. Aborted(ops) \in Seq(Op) /\ Len(Aborted(ops)) = Len(ops)
  BY <1>1, <1>2, <1>3, OpsMapped
<1>5. ASSUME NEW i \in DOMAIN ops
      PROVE  /\ Aborted(ops)[i].st = "done"
             /\ Aborted(ops)[i].len \in {0, ops[i].len}
             /\ Aborted(ops)[i].ec \in {"aborted", ops[i].ec}
  <2>1. ops[i] \in Op
    BY LenProperties
  <2>. QED
    BY <2>1 DEF Aborted, Finish, Op
<1>. QED
  BY <1>4, <1>5
-----------------------------------------------------------------------------
LEMMA TypeInit == Init => TypeOK
<1>. SUFFICES ASSUME Init  PROVE TypeOK
  OBVIOUS
<1>. USE SessionAssumption
<1>1. NewStreambuf(BufDelta) \in Streambufs /\ WellFormed(NewStreambuf(BufDelta))
  BY DEF NewStreambuf, Streambufs, WellFormed
<1>2. pc \in [Threads -> Places] /\ ret \in [Threads -> Places]
  BY DEF Init, Places, Calling, Callbacks
<1>3. compl \in [Threads -> [ec : Codes, len : Nat]]
  BY DEF Init, Codes
<1>. QED
  <2>1. <<>> \in Seq(Op) /\ <<>> \in Seq(Packet)
        /\ <<>> \in Seq([dir : {"read", "write"}, ec : Codes])
    BY EmptySeq
  <2>2. window \subseteq Threads /\ inTaken \in 0 .. inEnd
        /\ writeCalls \in 0 .. MaxWrites
    BY DEF Init
  <2>. QED
    <3>1. stopMtx \in BOOLEAN /\ stopped \in BOOLEAN /\ sendMtx \in BOOLEAN
          /\ isWriting \in BOOLEAN /\ wireOK \in BOOLEAN
          /\ isReadingHead \in BOOLEAN /\ started \in BOOLEAN
      BY DEF Init
    <3>2. reads \in Seq(Op) /\ writes \in Seq(Op) /\ delivered \in Seq(Packet)
      /\ inLog \in Seq(Packet) /\ errs \in Seq([dir : {"read", "write"}, ec : Codes])
      BY <2>1 DEF Init
    <3>3. sendBuf \in Streambufs /\ WellFormed(sendBuf)
      BY <1>1 DEF Init
    <3>4. /\ outGet \in Nat /\ wirePos \in Nat /\ bodylen \in Nat /\ inEnd \in Nat
          /\ recvGet \in Nat /\ recvPut \in Nat /\ recvGet <= recvPut
          /\ sock \in {"open", "shut", "closed"} /\ peer \in {"open", "fin", "reset"}
      BY DEF Init
    <3>. QED
      BY <1>2, <1>3, <2>2, <3>1, <3>2, <3>3, <3>4 DEF TypeOK

LEMMA TypeNext == TypeOK /\ [Next]_vars => TypeOK'
<1>. SUFFICES ASSUME TypeOK, [Next]_vars  PROVE TypeOK'
  OBVIOUS
<1>. USE SessionAssumption DEF flagVars, opVars, sendVars, wireVars, recvVars,
         peerVars, callVars
<1>1. ASSUME NEW t \in Threads, CallWrite(t)  PROVE TypeOK'
  BY <1>1 DEF TypeOK, CallWrite, Goto, Return, Call, Places, Calling,
      Callbacks, Probes, Codes
<1>2. ASSUME NEW t \in Threads, CallStart(t)  PROVE TypeOK'
  BY <1>2 DEF TypeOK, CallStart, Goto, Return, Call, Places, Calling,
      Callbacks, Probes, Codes
<1>3. ASSUME NEW t \in Threads, CallStop(t)  PROVE TypeOK'
  BY <1>3 DEF TypeOK, CallStop, Goto, Return, Call, Places, Calling,
      Callbacks, Probes, Codes
<1>4. ASSUME NEW t \in Threads, DoWrite(t)  PROVE TypeOK'
  BY <1>4, ZenonT(60) DEF TypeOK, DoWrite, FindsRunning, StillWriting, Goto, Return, Places, Calling, Callbacks, Probes
<1>5. ASSUME NEW t \in Threads, StartWrite(t)  PROVE TypeOK'
  <2>1. writes' \in Seq(Op)
    BY <1>5, OpTypes DEF TypeOK, StartWrite
  <2>. QED
    BY <1>5, <2>1, ZenonT(60) DEF TypeOK, StartWrite, Goto, Return, Places, Calling, Callbacks, Probes
<1>6. ASSUME NEW t \in Threads, WriteFailed(t)  PROVE TypeOK'
  BY <1>6 DEF TypeOK, WriteFailed, GuardInBranch, Goto, Return, Call, Places, Calling,
      Callbacks, Probes, Codes
<1>7. ASSUME NEW t \in Threads, WriteConsume(t)  PROVE TypeOK'
  <2>1. compl[t].len \in Nat
    BY DEF TypeOK
  <2>2. sendBuf' \in Streambufs /\ WellFormed(sendBuf')
    BY <1>7, <2>1, ConsumeDrops DEF TypeOK, WriteConsume
  <2>3. Size(sendBuf) \in Nat
    BY DEF TypeOK, Streambufs, WellFormed, Size
  <2>4. Size(sendBuf') = Size(sendBuf) - LesserOf(compl[t].len, Size(sendBuf))
    BY <1>7, <2>1, ConsumeDrops DEF TypeOK, WriteConsume
  <2>5. outGet' = outGet + Size(sendBuf) - Size(sendBuf')
    BY <1>7 DEF WriteConsume
  <2>6. LesserOf(compl[t].len, Size(sendBuf)) \in Nat
    BY <2>1, <2>3 DEF LesserOf
  <2>7. outGet \in Nat
    BY DEF TypeOK
  <2>8. outGet' \in Nat
    BY <2>3, <2>4, <2>5, <2>6, <2>7
  <2>. QED
    BY <1>7, <2>2, <2>8 DEF TypeOK, WriteConsume, Goto, Places, Calling, Callbacks, Probes
<1>8. ASSUME NEW t \in Threads, StartRead(t)  PROVE TypeOK'
  <2>1. [pos |-> 0, len |-> RecvMax, lost |-> FALSE] \in Views
    BY DEF Views
  <2>2. reads' \in Seq(Op)
    BY <1>8, <2>1, OpTypes DEF TypeOK, StartRead
  <2>. QED
    BY <1>8, <2>2 DEF TypeOK, StartRead, Goto, Return, Places, Calling, Callbacks, Probes
<1>9. ASSUME NEW t \in Threads, ReadFailed(t)  PROVE TypeOK'
  BY <1>9 DEF TypeOK, ReadFailed, Goto, Return, Call, Places, Calling,
      Callbacks, Probes, Codes
<1>10. ASSUME NEW t \in Threads, ReadCommit(t)  PROVE TypeOK'
  BY <1>10 DEF TypeOK, ReadCommit, Goto, Return, Call, Places, Calling,
      Callbacks, Probes, Codes
<1>11. ASSUME NEW t \in Threads, ParseHeader(t)  PROVE TypeOK'
  <2>1. HeaderAt(recvGet, Readable) \subseteq Nat
    <3>1. \A k \in DOMAIN inLog : inLog[k].len \in Nat
      <4>1. inLog \in Seq(Packet)
        BY DEF TypeOK
      <4>2. inLog \in [1 .. Len(inLog) -> Packet]
        BY <4>1, LenProperties
      <4>. QED
        BY <4>2 DEF Packet
    <3>. QED
      BY <3>1 DEF HeaderAt
  <2>2. bodylen' \in Nat
    BY <1>11, <2>1 DEF ParseHeader
  <2>3. recvGet' \in Nat /\ recvGet' <= recvPut
    BY <1>11 DEF TypeOK, ParseHeader, Readable, LesserOf
  <2>. QED
    BY <1>11, <2>2, <2>3, ZenonT(60) DEF TypeOK, ParseHeader
<1>12. ASSUME NEW t \in Threads, DeliverPacket(t)  PROVE TypeOK'
  <2>1. [at |-> recvGet, len |-> bodylen] \in Packet
    BY DEF TypeOK, Packet
  <2>2. delivered' \in Seq(Packet)
    BY <1>12, <2>1 DEF TypeOK, DeliverPacket
  <2>. QED
    BY <1>12, <2>2 DEF TypeOK, DeliverPacket, Goto, Places, Calling, Callbacks, Probes
<1>13. ASSUME NEW t \in Threads, ReadOn(t)  PROVE TypeOK'
  BY <1>13 DEF TypeOK, ReadOn, Goto, Return, Call, Places, Calling,
      Callbacks, Probes, Codes
<1>14. ASSUME NEW t \in Threads, FindStopped(t)  PROVE TypeOK'
  BY <1>14 DEF TypeOK, FindStopped, Goto, Return, Call, Places, Calling,
      Callbacks, Probes, Codes
<1>15. ASSUME NEW t \in Threads, EarlyReturn(t)  PROVE TypeOK'
  BY <1>15, ZenonT(60) DEF TypeOK, EarlyReturn, Unlock, EndGuard, Goto, Return, Places, Calling, Callbacks, Probes
<1>16. ASSUME NEW t \in Threads, FindRunning(t)  PROVE TypeOK'
  <2>1. PICK place \in DOMAIN Onward : Goto(t, Onward[place])
    BY <1>16 DEF FindRunning
  <2>2. Onward[place] \in Places
    BY DEF Onward, Places, Calling, Callbacks, Probes
  <2>. QED
    BY <1>16, <2>1, <2>2 DEF TypeOK, FindRunning, Goto
<1>17. ASSUME NEW t \in Threads, StopUnlock(t)  PROVE TypeOK'
  BY <1>17, ZenonT(60) DEF TypeOK, StopUnlock, Goto, Return, Call, Places, Calling,
      Callbacks, Probes, Codes
<1>18. ASSUME NEW t \in Threads, StopShutdown(t)  PROVE TypeOK'
  BY <1>18 DEF TypeOK, StopShutdown, Goto, Return, Call, Places, Calling,
      Callbacks, Probes, Codes
<1>19. ASSUME NEW t \in Threads, StopClose(t)  PROVE TypeOK'
  BY <1>19, AbortedTypes DEF TypeOK, StopClose, Goto, Return, Places, Calling, Callbacks, Probes
<1>20. ASSUME NEW t \in Threads, PacketReturn(t)  PROVE TypeOK'
  <2>1. recvGet' \in Nat /\ recvGet' <= recvPut
    BY <1>20 DEF TypeOK, PacketReturn, Readable, LesserOf
  <2>. QED
    BY <1>20, <2>1 DEF TypeOK, PacketReturn, Goto, Places, Calling, Callbacks, Probes
<1>21. ASSUME NEW t \in Threads, CallbackReturn(t)  PROVE TypeOK'
  BY <1>21 DEF TypeOK, CallbackReturn, Goto, Return, Call, Places, Calling,
      Callbacks, Probes, Codes
<1>22. ASSUME NEW t \in Threads, TakeRead(t)  PROVE TypeOK'
  <2>1. Head(reads) \in Op /\ reads' \in Seq(Op)
    BY <1>22 DEF TypeOK, TakeRead
  <2>2. [ec |-> Head(reads).ec, len |-> Head(reads).len] \in [ec : Codes, len : Nat]
    BY <2>1 DEF Op
  <2>. QED
    BY <1>22, <2>1, <2>2 DEF TypeOK, TakeRead, Goto, Places, Calling, Callbacks, Probes
<1>23. ASSUME NEW t \in Threads, TakeWrite(t)  PROVE TypeOK'
  <2>1. Head(writes) \in Op /\ writes' \in Seq(Op)
    BY <1>23 DEF TypeOK, TakeWrite
  <2>2. [ec |-> Head(writes).ec, len |-> Head(writes).len] \in [ec : Codes, len : Nat]
    BY <2>1 DEF Op
  <2>. QED
    BY <1>23, <2>1, <2>2 DEF TypeOK, TakeWrite, Goto, Places, Calling, Callbacks, Probes
<1>24. ASSUME NEW t \in Threads, NEW n \in OutSizes, WriteAppend(t, n)  PROVE TypeOK'
  <2>1. n + HLen \in Nat
    BY DEF TypeOK
  <2>2. sendBuf' \in Streambufs /\ WellFormed(sendBuf')
    BY <1>24, <2>1, CommitAppends DEF TypeOK, WriteAppend
  <2>3. writes' \in Seq(Op)
    <3>1. ASSUME NEW i \in DOMAIN writes  PROVE writes'[i] \in Op
      <4>1. writes[i] \in Op
        BY LenProperties DEF TypeOK
      <4>2. Outlive(writes[i].view, sendBuf, n + HLen) \in Views
        BY <4>1 DEF Op, Views, Outlive, Reallocates
      <4>. QED
        BY <1>24, <4>1, <4>2 DEF WriteAppend, Op
    <3>2. DOMAIN writes' = DOMAIN writes
          /\ writes' = [i \in DOMAIN writes |-> writes'[i]]
      BY <1>24 DEF WriteAppend
    <3>. QED
      BY <3>1, <3>2, OpsMapped DEF TypeOK
  <2>. QED
    BY <1>24, <2>2, <2>3, ZenonT(60) DEF TypeOK, WriteAppend, Goto, Return, Places, Calling, Callbacks, Probes
<1>25. ASSUME NEW i \in DOMAIN reads, NEW n \in 1 .. RecvMax,
             PerformRead(i, n)  PROVE TypeOK'
  <2>0. n \in Nat
    OBVIOUS
  <2>a. n <= inEnd - inTaken /\ inTaken' = inTaken + n /\ inEnd' = inEnd
    BY <1>25 DEF PerformRead
  <2>1. n \in Nat /\ inTaken' \in 0 .. inEnd'
    BY <2>0, <2>a DEF TypeOK
  <2>4. reads' \in Seq(Op)
    BY <1>25, <2>1, OpFinished DEF TypeOK, PerformRead, Codes
  <2>. QED
    BY <1>25, <2>1, <2>4, ZenonT(60) DEF TypeOK, PerformRead
<1>26. ASSUME NEW i \in DOMAIN reads, NEW ec \in {"eof", "error"},
             FailRead(i, ec)  PROVE TypeOK'
  <2>4. reads' \in Seq(Op)
    BY <1>26, OpFinished, ZenonT(60) DEF TypeOK, FailRead, Codes
  <2>. QED
    BY <1>26, <2>4, ZenonT(60) DEF TypeOK, FailRead
<1>27. ASSUME NEW i \in DOMAIN writes, NEW n \in 1 .. writes[i].view.len,
             PerformWrite(i, n)  PROVE TypeOK'
  <2>1. writes[i] \in Op
    BY LenProperties DEF TypeOK
  <2>2. n \in Nat
    BY <2>1 DEF Op, Views
  <2>3. wireOK' \in BOOLEAN
    BY <1>27, Zenon DEF PerformWrite
  <2>4. writes' \in Seq(Op)
    BY <1>27, <2>2, OpFinished DEF TypeOK, PerformWrite, Codes
  <2>. QED
    <3>1. wirePos' = wirePos + n
      BY <1>27, Zenon DEF PerformWrite
    <3>2. wirePos' \in Nat
      BY <2>2, <3>1 DEF TypeOK
    <3>. QED
      BY <1>27, <2>3, <2>4, <3>2 DEF TypeOK, PerformWrite
<1>28. ASSUME NEW i \in DOMAIN writes, FailWrite(i)  PROVE TypeOK'
  <2>4. writes' \in Seq(Op)
    BY <1>28, OpFinished DEF TypeOK, FailWrite, Codes
  <2>. QED
    BY <1>28, <2>4, ZenonT(60) DEF TypeOK, FailWrite
<1>29. ASSUME NEW n \in InSizes, PeerWrite(n)  PROVE TypeOK'
  <2>1. [at |-> inEnd, len |-> n] \in Packet
    BY DEF TypeOK, Packet
  <2>2. inLog' \in Seq(Packet)
    BY <1>29, <2>1 DEF TypeOK, PeerWrite
  <2>. QED
    BY <1>29, <2>2 DEF TypeOK, PeerWrite
<1>30. ASSUME NEW n \in 0 .. inEnd, PeerClose(n)  PROVE TypeOK'
  BY <1>30 DEF TypeOK, PeerClose, Goto, Return, Places, Calling, Callbacks,
      Probes, Codes
<1>31. ASSUME PeerReset  PROVE TypeOK'
  BY <1>31 DEF TypeOK, PeerReset, Goto, Return, Places, Calling, Callbacks,
      Probes, Codes
<1>32. ASSUME UNCHANGED vars  PROVE TypeOK'
  BY <1>32 DEF TypeOK, vars, Goto, Return, Places, Calling, Callbacks,
      Probes, Codes
<1>. QED
  BY <1>1, <1>2, <1>3, <1>4, <1>5, <1>6, <1>7, <1>8, <1>9, <1>10, <1>11, <1>12, <1>13, <1>14, <1>15, <1>16, <1>17, <1>18, <1>19, <1>20, <1>21, <1>22, <1>23, <1>24, <1>25, <1>26, <1>27, <1>28, <1>29, <1>30, <1>31, <1>32, NextCases
(* Every variable keeps its type, for all constants: streambufs stay in    *)
(* order, no length is negative, no thread leaves the places of the code.  *)
THEOREM TypesKept == Spec => []TypeOK
<1>1. Init => TypeOK
  BY TypeInit
<1>2. TypeOK /\ [Next]_vars => TypeOK'
  BY TypeNext
<1>. QED
  BY <1>1, <1>2, PTL DEF Spec
-----------------------------------------------------------------------------
LEMMA FlagNext == FlagInv /\ [Next]_vars => FlagInv'
<1>. SUFFICES ASSUME FlagInv, [Next]_vars  PROVE FlagInv'
  OBVIOUS
<1>1. CASE UNCHANGED flagVars
  BY <1>1 DEF FlagInv, flagVars
<1>2. ASSUME NEW t \in Threads, FindStopped(t)  PROVE FlagInv'
  BY <1>2 DEF FlagInv, FindStopped
<1>3. ASSUME NEW t \in Threads, EarlyReturn(t)  PROVE FlagInv'
  BY <1>3 DEF FlagInv, EarlyReturn, Unlock
<1>4. ASSUME NEW t \in Threads, StopUnlock(t)  PROVE FlagInv'
  BY <1>4 DEF FlagInv, StopUnlock
<1>5. ASSUME Next  PROVE \/ UNCHANGED flagVars
                        \/ \E t \in Threads :
                             FindStopped(t) \/ EarlyReturn(t) \/ StopUnlock(t)
  BY <1>5, NextCases, ZenonT(60)
     DEF CallWrite, CallStart, CallStop, WriteAppend, DoWrite, StartWrite,
         WriteFailed, GuardInBranch, WriteConsume, StartRead, ReadFailed, ReadCommit,
         ParseHeader, DeliverPacket, ReadOn, FindRunning, StopShutdown,
         StopClose, PacketReturn, CallbackReturn, TakeRead, TakeWrite,
         PerformRead, FailRead, PerformWrite, FailWrite, PeerWrite,
         PeerClose, PeerReset
<1>6. UNCHANGED vars => UNCHANGED flagVars
  BY DEF vars
<1>. QED
  BY <1>1, <1>2, <1>3, <1>4, <1>5, <1>6

(* A stopped session stays stopped, with any number of threads checking    *)
(* and stopping it at once.                                                *)
THEOREM StopIsFinal == Spec => []StopSticks
<1>1. Init => FlagInv
  BY DEF Init, FlagInv
<1>2. FlagInv /\ [Next]_vars => FlagInv'
  BY FlagNext
<1>3. FlagInv => StopSticks
  BY DEF FlagInv, StopSticks
<1>. QED
  BY <1>1, <1>2, <1>3, PTL DEF Spec
-----------------------------------------------------------------------------
(* The steps that move no thread.                                          *)
LEMMA MoversOrStill ==
  ASSUME [Next]_vars
  PROVE  \/ UNCHANGED <<pc, ret, window, compl>>
         \/ \E t \in Threads :
              \/ CallWrite(t) \/ CallStart(t) \/ CallStop(t)
              \/ \E n \in OutSizes : WriteAppend(t, n)
              \/ DoWrite(t) \/ StartWrite(t) \/ WriteFailed(t) \/ WriteConsume(t)
              \/ StartRead(t) \/ ReadFailed(t) \/ ReadCommit(t)
              \/ DeliverPacket(t) \/ ReadOn(t)
              \/ FindStopped(t) \/ EarlyReturn(t) \/ FindRunning(t)
              \/ StopUnlock(t) \/ StopShutdown(t) \/ StopClose(t)
              \/ PacketReturn(t) \/ CallbackReturn(t)
              \/ TakeRead(t) \/ TakeWrite(t)
<1>1. CASE Next
  BY <1>1, NextCases, ZenonT(60) DEF ParseHeader, PerformRead, FailRead, flagVars,
     PerformWrite, FailWrite, PeerWrite, PeerClose, PeerReset
<1>2. CASE UNCHANGED vars
  BY <1>2 DEF vars, flagVars
<1>. QED
  BY <1>1, <1>2

LEMMA ReturnNext == TypeOK /\ ReturnInv /\ [Next]_vars => ReturnInv'
<1>. SUFFICES ASSUME TypeOK, ReturnInv, [Next]_vars  PROVE ReturnInv'
  OBVIOUS
<1>. USE DEF Calling, Callbacks, Probes, flagVars
<1>0. pc \in [Threads -> Places] /\ ret \in [Threads -> Places]
  BY DEF TypeOK
<1>1. CASE UNCHANGED <<pc, ret, window, compl>>
  BY <1>1 DEF ReturnInv
<1>2. ASSUME NEW t \in Threads, NEW n \in OutSizes, WriteAppend(t, n)
      PROVE  ReturnInv'
  BY <1>0, <1>2 DEF ReturnInv, WriteAppend, Goto, Return
<1>3. ASSUME NEW t \in Threads, CallWrite(t)  PROVE ReturnInv'
  BY <1>0, <1>3 DEF ReturnInv, CallWrite, Call, Goto
<1>4. ASSUME NEW t \in Threads, CallStart(t)  PROVE ReturnInv'
  BY <1>0, <1>4 DEF ReturnInv, CallStart, Starts, Call, Goto
<1>5. ASSUME NEW t \in Threads, CallStop(t)  PROVE ReturnInv'
  BY <1>0, <1>5 DEF ReturnInv, CallStop, Call, Goto
<1>6. ASSUME NEW t \in Threads, DoWrite(t)  PROVE ReturnInv'
  BY <1>0, <1>6 DEF ReturnInv, DoWrite, FindsRunning, Goto, Return
<1>7. ASSUME NEW t \in Threads, StartWrite(t)  PROVE ReturnInv'
  BY <1>0, <1>7 DEF ReturnInv, StartWrite, Goto, Return
<1>8. ASSUME NEW t \in Threads, WriteFailed(t)  PROVE ReturnInv'
  BY <1>0, <1>8 DEF ReturnInv, WriteFailed, GuardInBranch, Goto
<1>9. ASSUME NEW t \in Threads, WriteConsume(t)  PROVE ReturnInv'
  BY <1>0, <1>9 DEF ReturnInv, WriteConsume, Goto
<1>10. ASSUME NEW t \in Threads, StartRead(t)  PROVE ReturnInv'
  BY <1>0, <1>10 DEF ReturnInv, StartRead, Goto, Return
<1>11. ASSUME NEW t \in Threads, ReadFailed(t)  PROVE ReturnInv'
  BY <1>0, <1>11 DEF ReturnInv, ReadFailed, Goto
<1>12. ASSUME NEW t \in Threads, ReadCommit(t)  PROVE ReturnInv'
  BY <1>0, <1>12 DEF ReturnInv, ReadCommit, Goto
<1>13. ASSUME NEW t \in Threads, DeliverPacket(t)  PROVE ReturnInv'
  BY <1>0, <1>13 DEF ReturnInv, DeliverPacket, Goto
<1>14. ASSUME NEW t \in Threads, ReadOn(t)  PROVE ReturnInv'
  BY <1>0, <1>14 DEF ReturnInv, ReadOn, Goto
<1>15. ASSUME NEW t \in Threads, EarlyReturn(t)  PROVE ReturnInv'
  BY <1>0, <1>15 DEF ReturnInv, EarlyReturn, Unlock, Goto, Return
<1>16. ASSUME NEW t \in Threads, FindRunning(t)  PROVE ReturnInv'
  BY <1>0, <1>16 DEF ReturnInv, FindRunning, FindsRunning, Onward, Goto
<1>17. ASSUME NEW t \in Threads, StopUnlock(t)  PROVE ReturnInv'
  BY <1>0, <1>17 DEF ReturnInv, StopUnlock, Goto
<1>18. ASSUME NEW t \in Threads, StopShutdown(t)  PROVE ReturnInv'
  BY <1>0, <1>18 DEF ReturnInv, StopShutdown, Goto
<1>19. ASSUME NEW t \in Threads, StopClose(t)  PROVE ReturnInv'
  BY <1>0, <1>19 DEF ReturnInv, StopClose, Goto, Return
<1>20. ASSUME NEW t \in Threads, PacketReturn(t)  PROVE ReturnInv'
  BY <1>0, <1>20 DEF ReturnInv, PacketReturn, Goto
<1>21. ASSUME NEW t \in Threads, CallbackReturn(t)  PROVE ReturnInv'
  BY <1>0, <1>21 DEF ReturnInv, CallbackReturn, Goto
<1>22. ASSUME NEW t \in Threads, TakeRead(t)  PROVE ReturnInv'
  BY <1>0, <1>22 DEF ReturnInv, TakeRead, Goto
<1>23. ASSUME NEW t \in Threads, TakeWrite(t)  PROVE ReturnInv'
  BY <1>0, <1>23 DEF ReturnInv, TakeWrite, Goto
<1>24. ASSUME NEW t \in Threads, FindStopped(t)  PROVE ReturnInv'
  BY <1>0, <1>24 DEF ReturnInv, FindStopped
<1>. QED
  BY MoversOrStill, <1>1, <1>2, <1>3, <1>4, <1>5, <1>6, <1>7, <1>8, <1>9, <1>10, <1>11, <1>12, <1>13, <1>14, <1>15, <1>16, <1>17, <1>18, <1>19, <1>20, <1>21, <1>22, <1>23, <1>24
-----------------------------------------------------------------------------
(* Only start() and a finished read make a thread the one that reads.      *)
LEMMA ReadersKept ==
  ASSUME TypeOK, ReturnInv, [Next]_vars,
         ~ \E t \in Threads : CallStart(t) \/ TakeRead(t),
         NEW u \in Threads, ReadOwner(u)'
  PROVE  ReadOwner(u)
<1>. USE DEF ReadOwner, InCall, Calling, Callbacks, Probes
<1>0. pc \in [Threads -> Places] /\ ret \in [Threads -> Places]
  BY DEF TypeOK
<1>1. CASE UNCHANGED <<pc, ret, window, compl>>
  BY <1>1
<1>2. ASSUME NEW t \in Threads, NEW n \in OutSizes, WriteAppend(t, n)
      PROVE  ReadOwner(u)
  BY <1>0, <1>2 DEF ReturnInv, WriteAppend, Goto, Return
<1>3. ASSUME NEW t \in Threads, CallWrite(t)  PROVE ReadOwner(u)
  BY <1>0, <1>3 DEF ReturnInv, CallWrite, Call, Goto
<1>4. ASSUME NEW t \in Threads, CallStop(t)  PROVE ReadOwner(u)
  BY <1>0, <1>4 DEF ReturnInv, CallStop, Call, Goto
<1>5. ASSUME NEW t \in Threads, DoWrite(t)  PROVE ReadOwner(u)
  BY <1>0, <1>5 DEF ReturnInv, DoWrite, FindsRunning, Goto, Return
<1>6. ASSUME NEW t \in Threads, StartWrite(t)  PROVE ReadOwner(u)
  BY <1>0, <1>6 DEF ReturnInv, StartWrite, Goto, Return
<1>7. ASSUME NEW t \in Threads, WriteFailed(t)  PROVE ReadOwner(u)
  BY <1>0, <1>7 DEF ReturnInv, WriteFailed, GuardInBranch, Goto
<1>8. ASSUME NEW t \in Threads, WriteConsume(t)  PROVE ReadOwner(u)
  BY <1>0, <1>8 DEF ReturnInv, WriteConsume, Goto
<1>9. ASSUME NEW t \in Threads, StartRead(t)  PROVE ReadOwner(u)
  BY <1>0, <1>9 DEF ReturnInv, StartRead, Goto, Return
<1>10. ASSUME NEW t \in Threads, ReadFailed(t)  PROVE ReadOwner(u)
  BY <1>0, <1>10 DEF ReturnInv, ReadFailed, Goto
<1>11. ASSUME NEW t \in Threads, ReadCommit(t)  PROVE ReadOwner(u)
  BY <1>0, <1>11 DEF ReturnInv, ReadCommit, Goto
<1>12. ASSUME NEW t \in Threads, DeliverPacket(t)  PROVE ReadOwner(u)
  BY <1>0, <1>12 DEF ReturnInv, DeliverPacket, Goto
<1>13. ASSUME NEW t \in Threads, ReadOn(t)  PROVE ReadOwner(u)
  BY <1>0, <1>13 DEF ReturnInv, ReadOn, Goto
<1>14. ASSUME NEW t \in Threads, EarlyReturn(t)  PROVE ReadOwner(u)
  BY <1>0, <1>14 DEF ReturnInv, EarlyReturn, Goto, Return
<1>15. ASSUME NEW t \in Threads, FindRunning(t)  PROVE ReadOwner(u)
  BY <1>0, <1>15 DEF ReturnInv, FindRunning, FindsRunning, Onward, Goto
<1>16. ASSUME NEW t \in Threads, StopUnlock(t)  PROVE ReadOwner(u)
  BY <1>0, <1>16 DEF ReturnInv, StopUnlock, Goto
<1>17. ASSUME NEW t \in Threads, StopShutdown(t)  PROVE ReadOwner(u)
  BY <1>0, <1>17 DEF ReturnInv, StopShutdown, Goto
<1>18. ASSUME NEW t \in Threads, StopClose(t)  PROVE ReadOwner(u)
  BY <1>0, <1>18 DEF ReturnInv, StopClose, Goto, Return
<1>19. ASSUME NEW t \in Threads, PacketReturn(t)  PROVE ReadOwner(u)
  BY <1>0, <1>19 DEF ReturnInv, PacketReturn, Goto
<1>20. ASSUME NEW t \in Threads, CallbackReturn(t)  PROVE ReadOwner(u)
  BY <1>0, <1>20 DEF ReturnInv, CallbackReturn, Goto
<1>21. ASSUME NEW t \in Threads, TakeWrite(t)  PROVE ReadOwner(u)
  BY <1>0, <1>21 DEF ReturnInv, TakeWrite, Goto
<1>22. ASSUME NEW t \in Threads, FindStopped(t)  PROVE ReadOwner(u)
  BY <1>22 DEF FindStopped
<1>. QED
  BY MoversOrStill, <1>1, <1>2, <1>3, <1>4, <1>5, <1>6, <1>7, <1>8, <1>9, <1>10, <1>11, <1>12, <1>13, <1>14, <1>15, <1>16, <1>17, <1>18, <1>19, <1>20, <1>21, <1>22

(* Only delivering a packet and the return of read_callback change which   *)
(* threads are inside it.                                                  *)
LEMMA InPacketKept ==
  ASSUME TypeOK, ReturnInv, [Next]_vars,
         ~ \E t \in Threads : DeliverPacket(t) \/ PacketReturn(t),
         NEW u \in Threads
  PROVE  InPacket(u)' <=> InPacket(u)
<1>. USE DEF InPacket, InCall, Calling, Callbacks, Probes
<1>0. pc \in [Threads -> Places] /\ ret \in [Threads -> Places]
  BY DEF TypeOK
<1>1. CASE UNCHANGED <<pc, ret, window, compl>>
  BY <1>1
<1>2. ASSUME NEW t \in Threads, NEW n \in OutSizes, WriteAppend(t, n)
      PROVE  InPacket(u)' <=> InPacket(u)
  BY <1>0, <1>2 DEF ReturnInv, WriteAppend, Goto, Return
<1>3. ASSUME NEW t \in Threads, CallWrite(t)
      PROVE  InPacket(u)' <=> InPacket(u)
  BY <1>0, <1>3 DEF ReturnInv, CallWrite, Call, Goto
<1>4. ASSUME NEW t \in Threads, CallStop(t)
      PROVE  InPacket(u)' <=> InPacket(u)
  BY <1>0, <1>4 DEF ReturnInv, CallStop, Call, Goto
<1>5. ASSUME NEW t \in Threads, DoWrite(t)
      PROVE  InPacket(u)' <=> InPacket(u)
  BY <1>0, <1>5 DEF ReturnInv, DoWrite, FindsRunning, Goto, Return
<1>6. ASSUME NEW t \in Threads, StartWrite(t)
      PROVE  InPacket(u)' <=> InPacket(u)
  BY <1>0, <1>6 DEF ReturnInv, StartWrite, Goto, Return
<1>7. ASSUME NEW t \in Threads, WriteFailed(t)
      PROVE  InPacket(u)' <=> InPacket(u)
  BY <1>0, <1>7 DEF ReturnInv, WriteFailed, GuardInBranch, Goto
<1>8. ASSUME NEW t \in Threads, WriteConsume(t)
      PROVE  InPacket(u)' <=> InPacket(u)
  BY <1>0, <1>8 DEF ReturnInv, WriteConsume, Goto
<1>9. ASSUME NEW t \in Threads, StartRead(t)
      PROVE  InPacket(u)' <=> InPacket(u)
  BY <1>0, <1>9 DEF ReturnInv, StartRead, Goto, Return
<1>10. ASSUME NEW t \in Threads, ReadFailed(t)
      PROVE  InPacket(u)' <=> InPacket(u)
  BY <1>0, <1>10 DEF ReturnInv, ReadFailed, Goto
<1>11. ASSUME NEW t \in Threads, ReadCommit(t)
      PROVE  InPacket(u)' <=> InPacket(u)
  BY <1>0, <1>11 DEF ReturnInv, ReadCommit, Goto
<1>12. ASSUME NEW t \in Threads, ReadOn(t)
      PROVE  InPacket(u)' <=> InPacket(u)
  BY <1>0, <1>12 DEF ReturnInv, ReadOn, Goto
<1>13. ASSUME NEW t \in Threads, EarlyReturn(t)
      PROVE  InPacket(u)' <=> InPacket(u)
  BY <1>0, <1>13 DEF ReturnInv, EarlyReturn, Goto, Return
<1>14. ASSUME NEW t \in Threads, FindRunning(t)
      PROVE  InPacket(u)' <=> InPacket(u)
  BY <1>0, <1>14 DEF ReturnInv, FindRunning, FindsRunning, Onward, Goto
<1>15. ASSUME NEW t \in Threads, StopUnlock(t)
      PROVE  InPacket(u)' <=> InPacket(u)
  BY <1>0, <1>15 DEF ReturnInv, StopUnlock, Goto
<1>16. ASSUME NEW t \in Threads, StopShutdown(t)
      PROVE  InPacket(u)' <=> InPacket(u)
  BY <1>0, <1>16 DEF ReturnInv, StopShutdown, Goto
<1>17. ASSUME NEW t \in Threads, StopClose(t)
      PROVE  InPacket(u)' <=> InPacket(u)
  BY <1>0, <1>17 DEF ReturnInv, StopClose, Goto, Return
<1>18. ASSUME NEW t \in Threads, CallbackReturn(t)
      PROVE  InPacket(u)' <=> InPacket(u)
  BY <1>0, <1>18 DEF ReturnInv, CallbackReturn, Goto
<1>19. ASSUME NEW t \in Threads, TakeWrite(t)
      PROVE  InPacket(u)' <=> InPacket(u)
  BY <1>0, <1>19 DEF ReturnInv, TakeWrite, Goto
<1>20. ASSUME NEW t \in Threads, CallStart(t)
      PROVE  InPacket(u)' <=> InPacket(u)
  BY <1>0, <1>20 DEF ReturnInv, CallStart, Starts, Call, Goto
<1>21. ASSUME NEW t \in Threads, TakeRead(t)
      PROVE  InPacket(u)' <=> InPacket(u)
  BY <1>0, <1>21 DEF ReturnInv, TakeRead, Goto
<1>22. ASSUME NEW t \in Threads, FindStopped(t)
      PROVE  InPacket(u)' <=> InPacket(u)
  BY <1>22 DEF FindStopped
<1>. QED
  BY MoversOrStill, <1>1, <1>2, <1>3, <1>4, <1>5, <1>6, <1>7, <1>8, <1>9, <1>10, <1>11, <1>12, <1>13, <1>14, <1>15, <1>16, <1>17, <1>18, <1>19, <1>20, <1>21, <1>22

(* Only StartRead adds a read to the queue, only TakeRead removes one.     *)
LEMMA ReadsKept ==
  ASSUME TypeOK, [Next]_vars,
         ~ \E t \in Threads : StartRead(t) \/ TakeRead(t)
  PROVE  Len(reads') = Len(reads)
<1>1. CASE UNCHANGED reads
  BY <1>1
<1>2. ASSUME NEW t \in Threads, StopClose(t)  PROVE Len(reads') = Len(reads)
  BY <1>2, AbortedTypes DEF TypeOK, StopClose
<1>3. ASSUME NEW i \in DOMAIN reads, NEW n \in 1 .. RecvMax, PerformRead(i, n)
      PROVE  Len(reads') = Len(reads)
  <2>1. n \in Nat
    BY SessionAssumption
  <2>. QED
    BY <1>3, <2>1, OpFinished DEF TypeOK, PerformRead, Codes
<1>4. ASSUME NEW i \in DOMAIN reads, NEW ec \in {"eof", "error"}, FailRead(i, ec)
      PROVE  Len(reads') = Len(reads)
  BY <1>4, OpFinished DEF TypeOK, FailRead, Codes
<1>5. CASE UNCHANGED vars
  BY <1>5 DEF vars, opVars
<1>6. CASE Next
  BY <1>1, <1>2, <1>3, <1>4, <1>6, NextCases, ZenonT(60)
     DEF opVars, CallWrite, CallStart, CallStop, WriteAppend, DoWrite,
         StartWrite, WriteFailed, GuardInBranch, WriteConsume, ReadFailed, ReadCommit,
         ParseHeader, DeliverPacket, ReadOn, FindStopped, EarlyReturn,
         FindRunning, StopUnlock, StopShutdown, PacketReturn, CallbackReturn,
         TakeWrite, PerformWrite, FailWrite, PeerWrite, PeerClose, PeerReset
<1>. QED
  BY <1>5, <1>6
-----------------------------------------------------------------------------
LEMMA ReaderNext ==
  TypeOK /\ TypeOK' /\ ReturnInv /\ ReaderInv /\ [Next]_vars => ReaderInv'
<1>. SUFFICES ASSUME TypeOK, TypeOK', ReturnInv, ReaderInv, [Next]_vars
              PROVE  ReaderInv'
  OBVIOUS
<1>0. /\ pc \in [Threads -> Places] /\ ret \in [Threads -> Places]
      /\ reads \in Seq(Op) /\ reads' \in Seq(Op)
      /\ Len(reads) \in Nat /\ Len(reads') \in Nat
      /\ (reads = <<>> <=> Len(reads) = 0) /\ (reads' = <<>> <=> Len(reads') = 0)
  BY LenProperties, EmptySeq DEF TypeOK
<1>1. ASSUME NEW t \in Threads, CallStart(t)  PROVE ReaderInv'
  <2>1. ~started /\ started' /\ reads' = reads
    BY <1>1 DEF CallStart, Starts, opVars
  <2>2. ASSUME NEW u \in Threads, ReadOwner(u)'  PROVE u = t
    BY <1>0, <1>1, <2>1, <2>2
       DEF ReaderInv, CallStart, Starts, Call, Goto, ReadOwner, InCall
  <2>. QED
    BY <1>0, <2>1, <2>2 DEF ReaderInv, SingleReader
<1>2. ASSUME NEW t \in Threads, TakeRead(t)  PROVE ReaderInv'
  <2>1. reads # <<>> /\ reads' = Tail(reads) /\ started' = started
    BY <1>2 DEF TakeRead, callVars
  <2>2. Len(reads) = 1 /\ reads' = <<>> /\ started
    BY <1>0, <2>1 DEF ReaderInv, SingleReader
  <2>3. ASSUME NEW u \in Threads, ReadOwner(u)'  PROVE u = t
    BY <1>0, <1>2, <2>1, <2>3
       DEF ReaderInv, SingleReader, TakeRead, Goto, ReadOwner, InCall
  <2>. QED
    BY <1>0, <2>1, <2>2, <2>3, SMTT(60) DEF ReaderInv, SingleReader
<1>3. ASSUME NEW t \in Threads, StartRead(t)  PROVE ReaderInv'
  <2>1. ReadOwner(t) /\ started' = started
    BY <1>3 DEF StartRead, ReadOwner, callVars
  <2>2. reads = <<>> /\ Len(reads') = 1 /\ started
    BY <1>0, <1>3, <2>1 DEF ReaderInv, SingleReader, StartRead
  <2>3. \A u \in Threads : ~ReadOwner(u)'
    BY <1>0, <1>3, <2>1 DEF ReaderInv, SingleReader, ReturnInv, StartRead, Goto,
       Return, ReadOwner, InCall
  <2>. QED
    BY <2>1, <2>2, <2>3 DEF ReaderInv, SingleReader
<1>4. ASSUME ~ \E t \in Threads : CallStart(t) \/ TakeRead(t) \/ StartRead(t)
      PROVE  ReaderInv'
  <2>1. Len(reads') = Len(reads)
    BY <1>4, ReadsKept
  <2>2. \A u \in Threads : ReadOwner(u)' => ReadOwner(u)
    BY <1>4, ReadersKept
  <2>3. started' = started
    BY <1>4, NextCases, ZenonT(60)
       DEF vars, callVars, CallWrite, CallStop, WriteAppend, DoWrite, StartWrite,
         WriteFailed, GuardInBranch, WriteConsume, ReadFailed, ReadCommit, ParseHeader,
         DeliverPacket, ReadOn, FindStopped, EarlyReturn, FindRunning,
         StopUnlock, StopShutdown, StopClose, PacketReturn, CallbackReturn,
         TakeWrite, PerformRead, FailRead, PerformWrite, FailWrite, PeerWrite,
         PeerClose, PeerReset
  <2>. QED
    BY <1>0, <2>1, <2>2, <2>3 DEF ReaderInv, SingleReader
<1>. QED
  BY <1>1, <1>2, <1>3, <1>4

(* Only one read is ever in flight or handled, however many threads run    *)
(* the io_context: recv_buf needs no lock of its own.                      *)
THEOREM OneReader == Spec => []SingleReader
<1>1. Init => ReturnInv /\ ReaderInv
  BY EmptySeq DEF Init, ReturnInv, ReaderInv, SingleReader, ReadOwner, InCall,
     Calling, Callbacks, Probes
<1>2. TypeOK /\ TypeOK' /\ ReturnInv /\ ReaderInv /\ [Next]_vars
        => ReturnInv' /\ ReaderInv'
  BY ReturnNext, ReaderNext
<1>3. ReaderInv => SingleReader
  BY DEF ReaderInv
<1>. QED
  BY <1>1, <1>2, <1>3, TypesKept, PTL DEF Spec
-----------------------------------------------------------------------------
(* Only a finished read makes a thread the one that handles it.            *)
LEMMA HandlersKept ==
  ASSUME TypeOK, ReturnInv, [Next]_vars, ~ \E t \in Threads : TakeRead(t),
         NEW u \in Threads, pc'[u] \in {"readDone", "readBody"}
  PROVE  pc[u] \in {"readDone", "readBody"} /\ compl'[u] = compl[u]
<1>. USE DEF Calling, Callbacks, Probes
<1>0. /\ pc \in [Threads -> Places] /\ ret \in [Threads -> Places]
      /\ compl \in [Threads -> [ec : Codes, len : Nat]]
  BY DEF TypeOK
<1>. DEFINE Same == pc[u] \in {"readDone", "readBody"} /\ compl'[u] = compl[u]
<1>1. CASE UNCHANGED <<pc, ret, window, compl>>
  BY <1>1
<1>2. ASSUME NEW t \in Threads, NEW n \in OutSizes, WriteAppend(t, n)
      PROVE  Same
  BY <1>0, <1>2 DEF ReturnInv, WriteAppend, Goto, Return
<1>3. ASSUME NEW t \in Threads, CallWrite(t)  PROVE Same
  BY <1>0, <1>3 DEF ReturnInv, CallWrite, Call, Goto
<1>4. ASSUME NEW t \in Threads, CallStart(t)  PROVE Same
  BY <1>0, <1>4 DEF ReturnInv, CallStart, Starts, Call, Goto
<1>5. ASSUME NEW t \in Threads, CallStop(t)  PROVE Same
  BY <1>0, <1>5 DEF ReturnInv, CallStop, Call, Goto
<1>6. ASSUME NEW t \in Threads, DoWrite(t)  PROVE Same
  BY <1>0, <1>6 DEF ReturnInv, DoWrite, FindsRunning, Goto, Return
<1>7. ASSUME NEW t \in Threads, StartWrite(t)  PROVE Same
  BY <1>0, <1>7 DEF ReturnInv, StartWrite, Goto, Return
<1>8. ASSUME NEW t \in Threads, WriteFailed(t)  PROVE Same
  BY <1>0, <1>8 DEF ReturnInv, WriteFailed, GuardInBranch, Goto
<1>9. ASSUME NEW t \in Threads, WriteConsume(t)  PROVE Same
  BY <1>0, <1>9 DEF ReturnInv, WriteConsume, Goto
<1>10. ASSUME NEW t \in Threads, StartRead(t)  PROVE Same
  BY <1>0, <1>10 DEF ReturnInv, StartRead, Goto, Return
<1>11. ASSUME NEW t \in Threads, ReadFailed(t)  PROVE Same
  BY <1>0, <1>11 DEF ReturnInv, ReadFailed, Goto
<1>12. ASSUME NEW t \in Threads, ReadCommit(t)  PROVE Same
  BY <1>0, <1>12 DEF ReturnInv, ReadCommit, Goto
<1>13. ASSUME NEW t \in Threads, DeliverPacket(t)  PROVE Same
  BY <1>0, <1>13 DEF ReturnInv, DeliverPacket, Goto
<1>14. ASSUME NEW t \in Threads, ReadOn(t)  PROVE Same
  BY <1>0, <1>14 DEF ReturnInv, ReadOn, Goto
<1>15. ASSUME NEW t \in Threads, FindStopped(t)  PROVE Same
  BY <1>0, <1>15 DEF ReturnInv, FindStopped, Goto
<1>16. ASSUME NEW t \in Threads, EarlyReturn(t)  PROVE Same
  BY <1>0, <1>16 DEF ReturnInv, EarlyReturn, Goto, Return
<1>17. ASSUME NEW t \in Threads, FindRunning(t)  PROVE Same
  BY <1>0, <1>17 DEF ReturnInv, FindRunning, FindsRunning, Onward, Goto
<1>18. ASSUME NEW t \in Threads, StopUnlock(t)  PROVE Same
  BY <1>0, <1>18 DEF ReturnInv, StopUnlock, Goto
<1>19. ASSUME NEW t \in Threads, StopShutdown(t)  PROVE Same
  BY <1>0, <1>19 DEF ReturnInv, StopShutdown, Goto
<1>20. ASSUME NEW t \in Threads, StopClose(t)  PROVE Same
  BY <1>0, <1>20 DEF ReturnInv, StopClose, Goto, Return
<1>21. ASSUME NEW t \in Threads, PacketReturn(t)  PROVE Same
  BY <1>0, <1>21 DEF ReturnInv, PacketReturn, Goto
<1>22. ASSUME NEW t \in Threads, CallbackReturn(t)  PROVE Same
  BY <1>0, <1>22 DEF ReturnInv, CallbackReturn, Goto
<1>23. ASSUME NEW t \in Threads, TakeWrite(t)  PROVE Same
  BY <1>0, <1>23 DEF ReturnInv, TakeWrite, Goto
<1>. QED
  BY MoversOrStill, <1>1, <1>2, <1>3, <1>4, <1>5, <1>6, <1>7, <1>8, <1>9, <1>10, <1>11, <1>12, <1>13, <1>14, <1>15, <1>16, <1>17, <1>18, <1>19, <1>20, <1>21, <1>22, <1>23

(* The steps that touch neither the reads nor what they brought.           *)
LEMMA ReadsOrNot ==
  ASSUME [Next]_vars
  PROVE  \/ UNCHANGED <<reads, recvPut, inTaken>>
         \/ \E t \in Threads :
              StartRead(t) \/ TakeRead(t) \/ ReadCommit(t) \/ StopClose(t)
         \/ \E i \in DOMAIN reads : \E n \in 1 .. RecvMax : PerformRead(i, n)
         \/ \E i \in DOMAIN reads : \E ec \in {"eof", "error"} : FailRead(i, ec)
<1>. USE DEF opVars, recvVars, peerVars
<1>1. CASE Next
  <2>1. ASSUME NEW t \in Threads,
               \/ CallWrite(t) \/ CallStart(t) \/ CallStop(t)
               \/ \E n \in OutSizes : WriteAppend(t, n)
               \/ DoWrite(t) \/ StartWrite(t) \/ WriteFailed(t) \/ WriteConsume(t)
               \/ TakeWrite(t)
        PROVE  UNCHANGED <<reads, recvPut, inTaken>>
    BY <2>1 DEF CallWrite, CallStart, CallStop, WriteAppend, DoWrite, StartWrite,
       WriteFailed, GuardInBranch, WriteConsume, TakeWrite
  <2>2. ASSUME NEW t \in Threads,
               \/ ReadFailed(t) \/ ParseHeader(t) \/ DeliverPacket(t) \/ ReadOn(t)
               \/ FindStopped(t) \/ EarlyReturn(t) \/ FindRunning(t)
               \/ StopUnlock(t) \/ StopShutdown(t)
               \/ PacketReturn(t) \/ CallbackReturn(t)
        PROVE  UNCHANGED <<reads, recvPut, inTaken>>
    BY <2>2 DEF ReadFailed, ParseHeader, DeliverPacket, ReadOn, FindStopped,
       EarlyReturn, FindRunning, StopUnlock, StopShutdown, PacketReturn,
       CallbackReturn
  <2>3. ASSUME \/ \E i \in DOMAIN writes :
                    \E n \in 1 .. writes[i].view.len : PerformWrite(i, n)
               \/ \E i \in DOMAIN writes : FailWrite(i)
               \/ \E n \in InSizes : PeerWrite(n)
               \/ \E n \in 0 .. inEnd : PeerClose(n)
               \/ PeerReset
        PROVE  UNCHANGED <<reads, recvPut, inTaken>>
    BY <2>3, Zenon DEF PerformWrite, FailWrite, PeerWrite, PeerClose, PeerReset
  <2>. QED
    BY <1>1, <2>1, <2>2, <2>3, NextCases
<1>2. CASE UNCHANGED vars
  BY <1>2 DEF vars, opVars, recvVars, peerVars
<1>. QED
  BY <1>1, <1>2

LEMMA ReadBytesNext ==
  /\ TypeOK /\ TypeOK' /\ ReturnInv /\ ReaderInv /\ ReadBytesInv /\ [Next]_vars
  => ReadBytesInv'
<1>. SUFFICES ASSUME TypeOK, TypeOK', ReturnInv, ReaderInv, ReadBytesInv, [Next]_vars
              PROVE  ReadBytesInv'
  OBVIOUS
<1>0. /\ pc \in [Threads -> Places] /\ compl \in [Threads -> [ec : Codes, len : Nat]]
      /\ recvPut \in Nat /\ inTaken \in Nat /\ inEnd \in Nat
      /\ reads \in Seq(Op) /\ reads' \in Seq(Op)
      /\ DOMAIN reads = 1 .. Len(reads) /\ DOMAIN reads' = 1 .. Len(reads')
  <2>1. reads \in Seq(Op) /\ reads' \in Seq(Op)
    BY DEF TypeOK
  <2>2. DOMAIN reads = 1 .. Len(reads) /\ DOMAIN reads' = 1 .. Len(reads')
    BY <2>1, LenProperties
  <2>3. /\ pc \in [Threads -> Places] /\ recvPut \in Nat
        /\ compl \in [Threads -> [ec : Codes, len : Nat]]
        /\ inTaken \in 0 .. inEnd /\ inEnd \in Nat
    BY DEF TypeOK
  <2>. QED
    BY <2>1, <2>2, <2>3
<1>a. ASSUME ~ \E t \in Threads : TakeRead(t), NEW u \in Threads,
             pc'[u] \in {"readDone", "readBody"}
      PROVE  pc[u] \in {"readDone", "readBody"} /\ compl'[u] = compl[u]
  BY <1>a, HandlersKept
<1>1. ASSUME NEW t \in Threads, StartRead(t)  PROVE ReadBytesInv'
  <2>1. ReadOwner(t) /\ reads = <<>>
    BY <1>1 DEF StartRead, ReadOwner, ReaderInv, SingleReader
  <2>2. PICK op : reads' = <<op>> /\ op.len = 0
    BY <1>1, <2>1 DEF StartRead, NewOp
  <2>3. \A i \in DOMAIN reads' : reads'[i].len = 0
    BY <2>2
  <2>4. recvPut' = recvPut /\ inTaken' = inTaken
    BY <1>1 DEF StartRead, recvVars, peerVars
  <2>5. ~ \E u \in Threads : TakeRead(u)
    BY <2>1 DEF TakeRead
  <2>. QED
    BY <1>0, <1>a, <2>3, <2>4, <2>5 DEF ReadBytesInv
<1>2. ASSUME NEW t \in Threads, TakeRead(t)  PROVE ReadBytesInv'
  <2>1. reads # <<>> /\ Len(reads) = 1
    BY <1>0, <1>2, EmptySeq DEF TakeRead, ReaderInv, SingleReader
  <2>2. reads' = <<>> /\ Head(reads) = reads[1]
    BY <1>0, <1>2, <2>1 DEF TakeRead
  <2>3. recvPut + compl'[t].len <= inTaken
    BY <1>0, <1>2, <2>1, <2>2 DEF ReadBytesInv, TakeRead
  <2>. QED
    BY <1>0, <1>2, <2>2, <2>3 DEF ReadBytesInv, TakeRead, Goto, recvVars, peerVars
<1>3. ASSUME NEW t \in Threads, ReadCommit(t)  PROVE ReadBytesInv'
  <2>1. ReadOwner(t) /\ reads = <<>> /\ reads' = <<>>
    BY <1>3 DEF ReadCommit, ReadOwner, ReaderInv, SingleReader, opVars
  <2>2. \A u \in Threads : pc[u] \in {"readDone", "readBody"} => u = t
    BY <2>1 DEF ReaderInv, SingleReader, ReadOwner
  <2>. QED
    BY <1>0, <1>3, <2>1, <2>2 DEF ReadBytesInv, ReadCommit, Goto, peerVars
<1>4. ASSUME NEW i \in DOMAIN reads, NEW n \in 1 .. RecvMax, PerformRead(i, n)
      PROVE  ReadBytesInv'
  <2>1. n \in Nat
    BY SessionAssumption
  <2>2. Len(reads') = Len(reads) /\ reads'[i].len = n
    BY <1>0, <1>4, <2>1, OpFinished DEF PerformRead, Codes
  <2>3. Len(reads) = 1 /\ i = 1
    BY <1>0, EmptySeq DEF ReaderInv, SingleReader
  <2>4. \A u \in Threads : pc[u] \notin {"readDone", "readBody"}
    BY <2>3, EmptySeq DEF ReaderInv, SingleReader, ReadOwner
  <2>5. inTaken' = inTaken + n /\ recvPut' = recvPut /\ pc' = pc
    BY <1>4 DEF PerformRead, recvVars
  <2>. QED
    BY <1>0, <2>1, <2>2, <2>3, <2>4, <2>5 DEF ReadBytesInv
<1>5. ASSUME NEW i \in DOMAIN reads, NEW ec \in {"eof", "error"}, FailRead(i, ec)
      PROVE  ReadBytesInv'
  <2>1. Len(reads') = Len(reads) /\ reads'[i].len = 0
    BY <1>0, <1>5, OpFinished DEF FailRead, Codes
  <2>2. Len(reads) = 1 /\ i = 1
    BY <1>0, EmptySeq DEF ReaderInv, SingleReader
  <2>. QED
    BY <1>0, <1>5, <2>1, <2>2 DEF ReadBytesInv, FailRead, recvVars, peerVars
<1>6. ASSUME NEW t \in Threads, StopClose(t)  PROVE ReadBytesInv'
  <2>1. reads' = Aborted(reads) /\ recvPut' = recvPut /\ inTaken' = inTaken
    BY <1>6 DEF StopClose, recvVars, peerVars
  <2>2. Len(reads') = Len(reads)
        /\ \A i \in DOMAIN reads :
             reads'[i].len = 0 \/ reads'[i].len = reads[i].len
    BY <1>0, <2>1, AbortedTypes
  <2>4. \A i \in DOMAIN reads' : recvPut + reads'[i].len <= inTaken
    BY <1>0, <2>2, SMTT(60) DEF ReadBytesInv
  <2>3. ASSUME NEW u \in Threads, pc'[u] \in {"readDone", "readBody"}
        PROVE  pc[u] \in {"readDone", "readBody"} /\ compl'[u] = compl[u]
    BY <1>0, <1>6, <2>3 DEF ReturnInv, StopClose, Goto, Return, Calling, Callbacks
  <2>. QED
    BY <1>0, <2>1, <2>3, <2>4 DEF ReadBytesInv
<1>7. CASE UNCHANGED <<reads, recvPut, inTaken>> /\ ~ \E t \in Threads : TakeRead(t)
  BY <1>0, <1>7, <1>a DEF ReadBytesInv
<1>. QED
  BY <1>1, <1>2, <1>3, <1>4, <1>5, <1>6, <1>7, ReadsOrNot
-----------------------------------------------------------------------------
(* The steps that touch neither the frames nor how far they are read.      *)
LEMMA FramesOrNot ==
  ASSUME [Next]_vars
  PROVE  \/ UNCHANGED <<inLog, delivered, isReadingHead, bodylen, recvGet, recvPut>>
         \/ \E t \in Threads :
              ReadCommit(t) \/ ParseHeader(t) \/ DeliverPacket(t) \/ PacketReturn(t)
         \/ \E n \in InSizes : PeerWrite(n)
<1>. DEFINE Still ==
       UNCHANGED <<inLog, delivered, isReadingHead, bodylen, recvGet, recvPut>>
<1>. USE DEF recvVars, peerVars
<1>1. CASE Next
  <2>1. ASSUME NEW t \in Threads,
               \/ CallWrite(t) \/ CallStart(t) \/ CallStop(t)
               \/ \E n \in OutSizes : WriteAppend(t, n)
               \/ DoWrite(t) \/ StartWrite(t) \/ WriteFailed(t) \/ WriteConsume(t)
               \/ TakeWrite(t)
        PROVE  Still
    BY <2>1 DEF CallWrite, CallStart, CallStop, WriteAppend, DoWrite, StartWrite,
       WriteFailed, GuardInBranch, WriteConsume, TakeWrite
  <2>2. ASSUME NEW t \in Threads,
               \/ StartRead(t) \/ TakeRead(t) \/ ReadFailed(t) \/ ReadOn(t)
               \/ FindStopped(t) \/ EarlyReturn(t) \/ FindRunning(t)
               \/ StopUnlock(t) \/ StopShutdown(t) \/ StopClose(t)
               \/ CallbackReturn(t)
        PROVE  Still
    BY <2>2 DEF StartRead, TakeRead, ReadFailed, ReadOn, FindStopped, EarlyReturn,
       FindRunning, StopUnlock, StopShutdown, StopClose, CallbackReturn
  <2>3. ASSUME \/ \E i \in DOMAIN writes :
                    \E n \in 1 .. writes[i].view.len : PerformWrite(i, n)
               \/ \E i \in DOMAIN writes : FailWrite(i)
               \/ \E i \in DOMAIN reads : \E n \in 1 .. RecvMax : PerformRead(i, n)
               \/ \E i \in DOMAIN reads :
                    \E ec \in {"eof", "error"} : FailRead(i, ec)
               \/ \E n \in 0 .. inEnd : PeerClose(n)
               \/ PeerReset
        PROVE  Still
    BY <2>3, Zenon DEF PerformWrite, FailWrite, PerformRead, FailRead, PeerClose,
       PeerReset
  <2>. QED
    BY <1>1, <2>1, <2>2, <2>3, NextCases
<1>2. CASE UNCHANGED vars
  BY <1>2 DEF vars
<1>. QED
  BY <1>1, <1>2

LEMMA LogAppended ==
  ASSUME TypeOK, NEW n \in InSizes, PeerWrite(n)
  PROVE  /\ Len(inLog) \in Nat /\ DOMAIN inLog = 1 .. Len(inLog)
         /\ Len(inLog') = Len(inLog) + 1 /\ DOMAIN inLog' = 1 .. Len(inLog')
         /\ \A k \in DOMAIN inLog : inLog'[k] = inLog[k]
         /\ inLog'[Len(inLog')] = [at |-> inEnd, len |-> n]
<1>1. inLog \in Seq(Packet)
  BY DEF TypeOK
<1>2. inLog' = Append(inLog, [at |-> inEnd, len |-> n])
  BY DEF PeerWrite
<1>3. [at |-> inEnd, len |-> n] \in Packet
  BY SessionAssumption DEF TypeOK, Packet
<1>. QED
  BY <1>1, <1>2, <1>3, LenProperties

LEMMA LogTypes ==
  ASSUME TypeOK
  PROVE  /\ Len(inLog) \in Nat /\ DOMAIN inLog = 1 .. Len(inLog)
         /\ \A k \in DOMAIN inLog : inLog[k].at \in Nat /\ inLog[k].len \in Nat
<1>1. inLog \in Seq(Packet)
  BY DEF TypeOK
<1>2. Len(inLog) \in Nat /\ DOMAIN inLog = 1 .. Len(inLog)
      /\ inLog \in [1 .. Len(inLog) -> Packet]
  BY <1>1, LenProperties
<1>. QED
  BY <1>2 DEF Packet

(* Only the peer changes what it sends.                                    *)
LEMMA LogKept ==
  ASSUME [Next]_vars, ~Peer
  PROVE  UNCHANGED <<inLog, inEnd, peer>>
<1>1. ASSUME Next  PROVE UNCHANGED <<inLog, inEnd, peer>>
  <2>. USE DEF peerVars
  <2>1. ASSUME NEW t \in Threads,
               \/ CallWrite(t) \/ CallStart(t) \/ CallStop(t)
               \/ \E n \in OutSizes : WriteAppend(t, n)
               \/ DoWrite(t) \/ StartWrite(t) \/ WriteFailed(t) \/ WriteConsume(t)
               \/ TakeWrite(t)
        PROVE  UNCHANGED <<inLog, inEnd, peer>>
    BY <2>1 DEF CallWrite, CallStart, CallStop, WriteAppend, DoWrite, StartWrite,
       WriteFailed, GuardInBranch, WriteConsume, TakeWrite
  <2>2. ASSUME NEW t \in Threads,
               \/ StartRead(t) \/ TakeRead(t) \/ ReadFailed(t) \/ ReadCommit(t)
               \/ ParseHeader(t) \/ DeliverPacket(t) \/ PacketReturn(t) \/ ReadOn(t)
               \/ FindStopped(t) \/ EarlyReturn(t) \/ FindRunning(t)
               \/ StopUnlock(t) \/ StopShutdown(t) \/ StopClose(t)
               \/ CallbackReturn(t)
        PROVE  UNCHANGED <<inLog, inEnd, peer>>
    BY <2>2 DEF StartRead, TakeRead, ReadFailed, ReadCommit, ParseHeader,
       DeliverPacket, PacketReturn, ReadOn, FindStopped, EarlyReturn,
       FindRunning, StopUnlock, StopShutdown, StopClose, CallbackReturn
  <2>3. ASSUME \/ \E i \in DOMAIN writes :
                    \E n \in 1 .. writes[i].view.len : PerformWrite(i, n)
               \/ \E i \in DOMAIN writes : FailWrite(i)
               \/ \E i \in DOMAIN reads : \E n \in 1 .. RecvMax : PerformRead(i, n)
               \/ \E i \in DOMAIN reads :
                    \E ec \in {"eof", "error"} : FailRead(i, ec)
        PROVE  UNCHANGED <<inLog, inEnd, peer>>
    BY <2>3, Zenon DEF PerformWrite, FailWrite, PerformRead, FailRead
  <2>. QED
    BY <1>1, <2>1, <2>2, <2>3, NextCases DEF Peer
<1>2. UNCHANGED vars => UNCHANGED <<inLog, inEnd, peer>>
  BY DEF vars, peerVars
<1>. QED
  BY <1>1, <1>2

LEMMA LogNext == TypeOK /\ LogInv /\ [Next]_vars => LogInv'
<1>. SUFFICES ASSUME TypeOK, LogInv, [Next]_vars  PROVE LogInv'
  OBVIOUS
<1>. USE SessionAssumption
<1>1. ASSUME NEW n \in InSizes, PeerWrite(n)  PROVE LogInv'
  <2>. DEFINE L == Len(inLog)
  <2>0. n \in Nat /\ inEnd \in Nat
    BY DEF TypeOK
  <2>1. peer = "open" /\ inEnd' = inEnd + HLen + n
    BY <1>1 DEF PeerWrite
  <2>2. /\ L \in Nat /\ DOMAIN inLog = 1 .. L
        /\ Len(inLog') = L + 1 /\ DOMAIN inLog' = 1 .. L + 1
        /\ \A k \in 1 .. L : inLog'[k] = inLog[k]
        /\ inLog'[L + 1] = [at |-> inEnd, len |-> n]
    BY <1>1, LogAppended
  <2>3. \A k \in 1 .. L : inLog[k].at \in Nat /\ inLog[k].len \in Nat
    BY <2>2, LogTypes
  <2>. HIDE DEF L
  <2>4. \A k \in 1 .. L + 1 : FrameAt(k)' = FrameAt(k)
    BY <2>2 DEF FrameAt, PacketEnd
  <2>5. inEnd = FrameAt(L + 1)
    BY <2>1 DEF LogInv, L
  <2>6. inLog'[L + 1].at = inEnd /\ PacketEnd(inLog'[L + 1]) = inEnd'
    BY <2>0, <2>1, <2>2 DEF PacketEnd
  <2>7. \A k \in 1 .. L + 1 : inLog'[k].at = FrameAt(k)'
    BY <2>2, <2>4, <2>5, <2>6 DEF LogInv
  <2>8. \A j \in 1 .. L : PacketEnd(inLog[j]) <= inEnd
    <3>. SUFFICES ASSUME NEW j \in 1 .. L  PROVE PacketEnd(inLog[j]) <= inEnd
      OBVIOUS
    <3>1. inEnd = PacketEnd(inLog[L])
      BY <2>2, <2>5 DEF FrameAt
    <3>2. CASE j < L
      <4>1. PacketEnd(inLog[j]) <= inLog[L].at
        BY <2>2, <3>2 DEF LogInv
      <4>. QED
        BY <2>2, <2>3, <3>1, <4>1, SMTT(60) DEF PacketEnd
    <3>3. CASE j = L
      BY <2>0, <3>1, <3>3
    <3>. QED
      BY <2>2, <3>2, <3>3
  <2>9. ASSUME NEW j \in 1 .. L + 1, NEW k \in 1 .. L + 1, j < k
        PROVE  PacketEnd(inLog'[j]) <= inLog'[k].at
    <3>1. j \in 1 .. L /\ inLog'[j] = inLog[j]
      BY <2>2, <2>9
    <3>2. CASE k = L + 1
      BY <2>6, <2>8, <3>1, <3>2
    <3>3. CASE k \in 1 .. L
      BY <2>2, <2>9, <3>1, <3>3 DEF LogInv
    <3>. QED
      BY <2>2, <3>2, <3>3
  <2>10. FrameAt(Len(inLog) + 1)' = inEnd'
    BY <2>2, <2>6 DEF FrameAt
  <2>11. inEnd' \in Nat
    BY <2>0, <2>1
  <2>. QED
    BY <2>2, <2>7, <2>9, <2>10, <2>11 DEF LogInv, PacketEnd
<1>2. ASSUME NEW n \in 0 .. inEnd, PeerClose(n)  PROVE LogInv'
  <2>1. inEnd' <= inEnd /\ inEnd' \in Nat /\ peer' # "open" /\ inLog' = inLog
    BY <1>2 DEF PeerClose, TypeOK
  <2>2. FrameAt(Len(inLog) + 1) \in Nat
    BY LogTypes DEF FrameAt, PacketEnd
  <2>. QED
    BY <2>1, <2>2 DEF LogInv, FrameAt, TypeOK
<1>3. CASE PeerReset
  BY <1>3 DEF LogInv, FrameAt, PeerReset
<1>4. CASE UNCHANGED <<inLog, inEnd, peer>>
  BY <1>4 DEF LogInv, FrameAt
<1>5. CASE Peer
  BY <1>1, <1>2, <1>3, <1>5 DEF Peer
<1>. QED
  BY <1>4, <1>5, LogKept
-----------------------------------------------------------------------------
(* What the header at the front of recv_buf says: a whole header there is  *)
(* that of the next packet, which then is in the log.                      *)
LEMMA HeaderOfNext ==
  ASSUME HLen <= SizeTLen, TypeOK, LogInv, ReadBytesInv,
         Len(delivered) <= Len(inLog), recvGet = FrameAt(Len(delivered) + 1),
         Readable >= SizeTLen
  PROVE  /\ Len(delivered) < Len(inLog)
         /\ recvGet = inLog[Len(delivered) + 1].at
         /\ HeaderAt(recvGet, Readable) = {inLog[Len(delivered) + 1].len}
<1>. DEFINE L == Len(inLog)
            d == Len(delivered)
<1>. USE SessionAssumption
<1>1. /\ recvGet \in Nat /\ recvPut \in Nat /\ inTaken \in Nat /\ inEnd \in Nat
      /\ inTaken <= inEnd /\ delivered \in Seq(Packet)
  BY DEF TypeOK
<1>2. d \in Nat
  BY <1>1, LenProperties
<1>3. /\ L \in Nat /\ DOMAIN inLog = 1 .. L
      /\ \A k \in 1 .. L : inLog[k].at \in Nat /\ inLog[k].len \in Nat
  BY LogTypes
<1>4. recvPut <= inEnd /\ inEnd <= FrameAt(L + 1)
  BY <1>1 DEF ReadBytesInv, LogInv
<1>5. recvGet + HLen <= recvPut
  BY <1>1 DEF Readable
<1>6. d # L
  <2>1. SUFFICES ASSUME d = L  PROVE FALSE
    OBVIOUS
  <2>2. FrameAt(L + 1) = recvGet
    BY <2>1
  <2>. QED
    BY <1>1, <1>4, <1>5, <2>2
<1>7. d < L /\ d + 1 \in 1 .. L
  BY <1>2, <1>3, <1>6
<1>8. recvGet = inLog[d + 1].at
  BY <1>3, <1>7 DEF LogInv
<1>9. ASSUME NEW k \in 1 .. L, inLog[k].at = recvGet  PROVE k = d + 1
  <2>1. CASE k < d + 1
    <3>1. PacketEnd(inLog[k]) <= inLog[d + 1].at
      BY <1>3, <1>7, <2>1 DEF LogInv
    <3>. QED
      BY <1>1, <1>3, <1>8, <1>9, <3>1, SMTT(60) DEF PacketEnd
  <2>2. CASE d + 1 < k
    <3>1. PacketEnd(inLog[d + 1]) <= inLog[k].at
      BY <1>3, <1>7, <2>2 DEF LogInv
    <3>. QED
      BY <1>1, <1>3, <1>7, <1>8, <1>9, <3>1 DEF PacketEnd
  <2>. QED
    BY <1>3, <1>7, <2>1, <2>2
<1>10. Readable >= HLen
  BY <1>1 DEF Readable
<1>11. {j \in DOMAIN inLog : inLog[j].at = recvGet} = {d + 1}
  BY <1>3, <1>7, <1>8, <1>9
<1>12. HeaderAt(recvGet, Readable) =
         {inLog[k].len : k \in {j \in DOMAIN inLog : inLog[j].at = recvGet}}
  BY <1>3, <1>7, <1>8, <1>10 DEF HeaderAt
<1>. QED
  BY <1>7, <1>8, <1>11, <1>12

LEMMA FrameNext ==
  ASSUME HLen <= SizeTLen
  PROVE  /\ TypeOK /\ ReturnInv /\ ReaderInv /\ ReadBytesInv /\ LogInv /\ FrameInv
         /\ [Next]_vars
         => FrameInv'
<1>. SUFFICES ASSUME TypeOK, ReturnInv, ReaderInv, ReadBytesInv, LogInv, FrameInv,
                     [Next]_vars
              PROVE  FrameInv'
  OBVIOUS
<1>. USE SessionAssumption
<1>. DEFINE L == Len(inLog)
            d == Len(delivered)
<1>1. /\ recvGet \in Nat /\ recvPut \in Nat /\ recvGet <= recvPut
      /\ bodylen \in Nat /\ delivered \in Seq(Packet)
      /\ pc \in [Threads -> Places] /\ ret \in [Threads -> Places]
  BY DEF TypeOK
<1>2. d \in Nat /\ DOMAIN delivered = 1 .. d /\ (delivered = <<>> <=> d = 0)
  BY <1>1, LenProperties, EmptySeq
<1>3. /\ L \in Nat /\ DOMAIN inLog = 1 .. L
      /\ \A k \in 1 .. L : inLog[k].at \in Nat /\ inLog[k].len \in Nat
  BY LogTypes
<1>4. d <= L
  BY DEF FrameInv, InOrderDelivery
<1>5. ASSUME NEW t \in Threads, pc[t] = "parse"
      PROVE  ~ \E u \in Threads : InPacket(u)
  BY <1>5 DEF ReaderInv, SingleReader, ReadOwner, InPacket, InCall
<1>6. ASSUME NEW t \in Threads, ParseHeader(t)  PROVE FrameInv'
  <2>1. /\ pc[t] = "parse" /\ isReadingHead /\ Readable >= SizeTLen
        /\ isReadingHead' = FALSE /\ bodylen' \in HeaderAt(recvGet, Readable)
        /\ recvGet' = recvGet + LesserOf(HLen, Readable)
        /\ recvPut' = recvPut /\ delivered' = delivered /\ inLog' = inLog
        /\ pc' = pc /\ ret' = ret
    BY <1>6 DEF ParseHeader, HasHeader, peerVars
  <2>2. ~ \E u \in Threads : InPacket(u)
    BY <1>5, <2>1
  <2>3. recvGet = FrameAt(d + 1)
    BY <2>1, <2>2 DEF FrameInv
  <2>4. d < L /\ recvGet = inLog[d + 1].at /\ bodylen' = inLog[d + 1].len
    BY <1>4, <2>1, <2>3, HeaderOfNext
  <2>5. recvGet' = recvGet + HLen
    BY <1>1, <2>1 DEF LesserOf, Readable
  <2>6. ~ \E u \in Threads : InPacket(u)'
    BY <2>1, <2>2 DEF InPacket
  <2>. QED
    BY <2>1, <2>4, <2>5, <2>6 DEF FrameInv, InOrderDelivery
<1>7. ASSUME NEW t \in Threads, DeliverPacket(t)  PROVE FrameInv'
  <2>1. /\ pc[t] = "parse" /\ ~isReadingHead /\ Readable >= bodylen
        /\ isReadingHead' = TRUE
        /\ delivered' = Append(delivered, [at |-> recvGet, len |-> bodylen])
        /\ bodylen' = bodylen /\ recvGet' = recvGet /\ recvPut' = recvPut
        /\ inLog' = inLog /\ pc'[t] = "onPacket"
    BY <1>1, <1>7 DEF DeliverPacket, HasBody, Goto, peerVars
  <2>2. ~ \E u \in Threads : InPacket(u)
    BY <1>5, <2>1
  <2>3. d < L /\ recvGet = inLog[d + 1].at + HLen /\ bodylen = inLog[d + 1].len
    BY <2>1, <2>2 DEF FrameInv
  <2>4. [at |-> recvGet, len |-> bodylen] \in Packet
    BY <1>1 DEF Packet
  <2>5. /\ Len(delivered') = d + 1 /\ DOMAIN delivered' = 1 .. d + 1
        /\ delivered'[d + 1] = [at |-> recvGet, len |-> bodylen]
        /\ \A k \in 1 .. d : delivered'[k] = delivered[k]
        /\ delivered' # <<>>
    BY <1>1, <1>2, <2>1, <2>4, EmptySeq, LenProperties
  <2>6. InOrderDelivery'
    BY <1>2, <1>3, <2>1, <2>3, <2>5, SMTT(60) DEF FrameInv, InOrderDelivery
  <2>7. InPacket(t)'
    BY <2>1 DEF InPacket
  <2>8. bodylen <= Readable'
    BY <1>1, <2>1 DEF Readable
  <2>. QED
    BY <2>1, <2>3, <2>5, <2>6, <2>7, <2>8 DEF FrameInv
<1>8. ASSUME NEW t \in Threads, PacketReturn(t)  PROVE FrameInv'
  <2>1. /\ pc[t] = "onPacket" /\ recvGet' = recvGet + LesserOf(bodylen, Readable)
        /\ pc' = [pc EXCEPT ![t] = "parse"] /\ ret' = ret
        /\ isReadingHead' = isReadingHead /\ delivered' = delivered
        /\ inLog' = inLog
    BY <1>8 DEF PacketReturn, Goto, peerVars
  <2>2. InPacket(t)
    BY <2>1 DEF InPacket
  <2>3. \A u \in Threads : InPacket(u) => u = t
    BY <2>2 DEF ReaderInv, SingleReader, InPacket, ReadOwner
  <2>4. \A u \in Threads : ~ InPacket(u)'
    BY <1>1, <2>1, <2>3 DEF InPacket, InCall
  <2>5. /\ isReadingHead /\ delivered # <<>> /\ recvGet = inLog[d].at + HLen
        /\ bodylen = inLog[d].len /\ bodylen <= Readable
    BY <2>2 DEF FrameInv
  <2>6. recvGet' = PacketEnd(inLog[d])
    BY <1>1, <2>1, <2>5 DEF LesserOf, Readable, PacketEnd
  <2>7. FrameAt(d + 1) = PacketEnd(inLog[d])
    BY <1>2, <2>5 DEF FrameAt
  <2>8. FrameAt(Len(delivered) + 1)' = FrameAt(d + 1)
    BY <2>1 DEF FrameAt, PacketEnd
  <2>. QED
    BY <2>1, <2>4, <2>5, <2>6, <2>7, <2>8 DEF FrameInv, InOrderDelivery
<1>9. ASSUME ~ \E t \in Threads : DeliverPacket(t) \/ PacketReturn(t)
      PROVE  (\E u \in Threads : InPacket(u)') <=> \E u \in Threads : InPacket(u)
  BY <1>9, InPacketKept
<1>10. ASSUME NEW t \in Threads, ReadCommit(t)  PROVE FrameInv'
  <2>1. /\ pc[t] = "readBody" /\ recvPut' = recvPut + compl[t].len
        /\ pc' = [pc EXCEPT ![t] = "parse"] /\ ret' = ret
        /\ UNCHANGED <<isReadingHead, bodylen, recvGet, delivered, inLog>>
    BY <1>10 DEF ReadCommit, Goto, peerVars
  <2>2. \A u \in Threads : ~InPacket(u)
    BY <2>1 DEF ReaderInv, SingleReader, InPacket, ReadOwner, InCall
  <2>3. \A u \in Threads : ~InPacket(u)'
    BY <1>1, <2>1, <2>2 DEF InPacket, InCall
  <2>4. FrameAt(Len(delivered) + 1)' = FrameAt(d + 1)
    BY <2>1 DEF FrameAt, PacketEnd
  <2>. QED
    BY <2>1, <2>2, <2>3, <2>4 DEF FrameInv, InOrderDelivery
<1>11. ASSUME NEW n \in InSizes, PeerWrite(n)  PROVE FrameInv'
  <2>1. UNCHANGED <<isReadingHead, bodylen, recvGet, recvPut, delivered, pc, ret>>
    BY <1>11 DEF PeerWrite, recvVars
  <2>2. Len(inLog') = L + 1 /\ \A k \in 1 .. L : inLog'[k] = inLog[k]
    BY <1>11, LogAppended
  <2>3. \A u \in Threads : InPacket(u)' <=> InPacket(u)
    BY <2>1 DEF InPacket
  <2>4. FrameAt(Len(delivered) + 1)' = FrameAt(d + 1)
    BY <1>2, <1>3, <1>4, <2>1, <2>2 DEF FrameAt, PacketEnd
  <2>5. InOrderDelivery'
    BY <1>2, <1>3, <1>4, <2>1, <2>2, SMTT(60) DEF FrameInv, InOrderDelivery
  <2>6. Readable' = Readable
    BY <2>1 DEF Readable
  <2>. QED
    BY <1>2, <1>3, <1>4, <2>1, <2>2, <2>3, <2>4, <2>5, <2>6 DEF FrameInv
<1>12. CASE /\ UNCHANGED <<inLog, delivered, isReadingHead, bodylen, recvGet, recvPut>>
            /\ ~ \E t \in Threads : DeliverPacket(t) \/ PacketReturn(t)
  <2>1. FrameAt(Len(delivered) + 1)' = FrameAt(d + 1) /\ Readable' = Readable
    BY <1>12 DEF FrameAt, PacketEnd, Readable
  <2>. QED
    BY <1>9, <1>12, <2>1 DEF FrameInv, InOrderDelivery
<1>. QED
  BY <1>6, <1>7, <1>8, <1>10, <1>11, <1>12, FramesOrNot

(* What it takes for a session to cut the stream of the peer well.         *)
ReadInv ==
  ReturnInv /\ ReaderInv /\ ReadBytesInv /\ LogInv /\ FrameInv

LEMMA ReadsWell ==
  ASSUME HLen <= SizeTLen
  PROVE  Spec => []ReadInv
<1>1. Init => ReadInv
  <2>. SUFFICES ASSUME Init  PROVE ReadInv
    OBVIOUS
  <2>1. ReturnInv /\ ReaderInv
    BY EmptySeq DEF Init, ReturnInv, ReaderInv, SingleReader, ReadOwner, InCall,
       Calling, Callbacks, Probes
  <2>2. ReadBytesInv
    BY DEF Init, ReadBytesInv
  <2>3. LogInv
    BY EmptySeq DEF Init, LogInv, FrameAt
  <2>4. \A t \in Threads : ~InPacket(t)
    BY DEF Init, InPacket, InCall
  <2>5. FrameInv
    BY <2>4, EmptySeq DEF Init, FrameInv, InOrderDelivery, FrameAt
  <2>. QED
    BY <2>1, <2>2, <2>3, <2>5 DEF ReadInv
<1>2. TypeOK /\ TypeOK' /\ ReadInv /\ [Next]_vars => ReadInv'
  BY ReturnNext, ReaderNext, ReadBytesNext, LogNext, FrameNext DEF ReadInv
<1>. QED
  BY <1>1, <1>2, TypesKept, PTL DEF Spec

(* read_callback gets the peer's packets, whole, in order and each once,   *)
(* however many threads run the io_context, however the kernel cuts the    *)
(* stream, whatever is stopped or fails and whenever - provided a size_t   *)
(* is no shorter than a PakSize, which doRead() takes for granted.         *)
THEOREM DeliveryInOrder ==
  ASSUME HLen <= SizeTLen
  PROVE  Spec => []InOrderDelivery
<1>1. ReadInv => InOrderDelivery
  BY DEF ReadInv, FrameInv
<1>. QED
  BY <1>1, ReadsWell, PTL
-----------------------------------------------------------------------------
(* Only start() and the end of the loop lead to the next read.             *)
LEMMA NextReadersKept ==
  ASSUME TypeOK, ReturnInv, [Next]_vars,
         ~ \E t \in Threads : CallStart(t) \/ ReadOn(t),
         NEW u \in Threads, pc'[u] \in {"doRead", "startRead"}
  PROVE  pc[u] \in {"doRead", "startRead"}
<1>. USE DEF Calling, Callbacks, Probes
<1>0. /\ pc \in [Threads -> Places] /\ ret \in [Threads -> Places]
  BY DEF TypeOK
<1>1. CASE UNCHANGED <<pc, ret, window, compl>>
  BY <1>1
<1>2. ASSUME NEW t \in Threads,
             \/ CallWrite(t) \/ CallStop(t) \/ \E n \in OutSizes : WriteAppend(t, n)
             \/ DoWrite(t) \/ StartWrite(t)
      PROVE  pc[u] \in {"doRead", "startRead"}
  BY <1>0, <1>2 DEF ReturnInv, CallWrite, CallStop, WriteAppend, DoWrite, FindsRunning,
     StartWrite, Call, Goto, Return
<1>3. ASSUME NEW t \in Threads,
             \/ WriteFailed(t) \/ WriteConsume(t) \/ StartRead(t) \/ ReadFailed(t)
             \/ ReadCommit(t) \/ DeliverPacket(t)
      PROVE  pc[u] \in {"doRead", "startRead"}
  BY <1>0, <1>3 DEF ReturnInv, WriteFailed, WriteConsume, StartRead, ReadFailed,
     ReadCommit, DeliverPacket, Goto, Return
<1>4. ASSUME NEW t \in Threads, FindStopped(t) \/ EarlyReturn(t)
      PROVE  pc[u] \in {"doRead", "startRead"}
  BY <1>0, <1>4 DEF ReturnInv, FindStopped, EarlyReturn, Goto, Return
<1>5. ASSUME NEW t \in Threads, FindRunning(t)
      PROVE  pc[u] \in {"doRead", "startRead"}
  BY <1>0, <1>5 DEF FindRunning, FindsRunning, Onward, Goto
<1>6. ASSUME NEW t \in Threads,
             \/ StopUnlock(t) \/ StopShutdown(t) \/ StopClose(t)
             \/ PacketReturn(t) \/ CallbackReturn(t)
             \/ TakeRead(t) \/ TakeWrite(t)
      PROVE  pc[u] \in {"doRead", "startRead"}
  BY <1>0, <1>6 DEF ReturnInv, StopUnlock, StopShutdown, StopClose, PacketReturn,
     CallbackReturn, TakeRead, TakeWrite, Goto, Return
<1>. QED
  BY MoversOrStill, <1>1, <1>2, <1>3, <1>4, <1>5, <1>6

(* A read begins where the loop has ended, so nothing whole is left.       *)
LEMMA HoldNext ==
  TypeOK /\ TypeOK' /\ ReturnInv /\ ReaderInv /\ HoldInv /\ [Next]_vars => HoldInv'
<1>. SUFFICES ASSUME TypeOK, TypeOK', ReturnInv, ReaderInv, HoldInv, [Next]_vars
              PROVE  HoldInv'
  OBVIOUS
<1>. DEFINE Buffer == <<isReadingHead, bodylen, recvGet, recvPut>>
            Coming == reads # <<>> \/ \E t \in Threads : pc[t] \in {"doRead", "startRead"}
            Still == ~HasHeader /\ ~HasBody
<1>0. /\ SizeTLen \in Nat /\ SizeTLen > 0 /\ recvGet \in Nat /\ recvPut \in Nat
      /\ (reads = <<>> <=> Len(reads) = 0) /\ (reads' = <<>> <=> Len(reads') = 0)
  BY SessionAssumption, LenProperties, EmptySeq DEF TypeOK
<1>1. started' = started \/ \E t \in Threads : CallStart(t)
  BY NextCases, ZenonT(60)
     DEF vars, callVars, CallWrite, CallStop, WriteAppend, DoWrite, StartWrite,
       WriteFailed, WriteConsume, StartRead, ReadFailed, ReadCommit, ParseHeader,
       DeliverPacket, ReadOn, FindStopped, EarlyReturn, FindRunning,
       StopUnlock, StopShutdown, StopClose, PacketReturn, CallbackReturn,
       TakeRead, TakeWrite, PerformRead, FailRead, PerformWrite, FailWrite, PeerWrite,
       PeerClose, PeerReset
<1>2. UNCHANGED Buffer => (HasHeader' <=> HasHeader) /\ (HasBody' <=> HasBody)
                          /\ Readable' = Readable
  BY DEF HasHeader, HasBody, Readable
<1>3. ASSUME NEW t \in Threads, CallStart(t)  PROVE HoldInv'
  <2>1. ~started /\ started' /\ UNCHANGED Buffer
    BY <1>3 DEF CallStart, Starts, recvVars
  <2>2. Still
    BY <1>0, <2>1 DEF HoldInv, HasHeader, HasBody, Readable
  <2>. QED
    BY <1>2, <2>1, <2>2 DEF HoldInv
<1>4. ASSUME NEW t \in Threads, ReadOn(t)  PROVE HoldInv'
  <2>1. ReadOwner(t) /\ UNCHANGED Buffer /\ UNCHANGED started /\ Still
    BY <1>4 DEF ReadOn, ReadOwner, recvVars, callVars
  <2>2. started
    BY <2>1 DEF ReaderInv
  <2>. QED
    BY <1>2, <2>1, <2>2 DEF HoldInv
<1>5. ASSUME NEW t \in Threads,
             ReadCommit(t) \/ ParseHeader(t) \/ DeliverPacket(t) \/ PacketReturn(t)
      PROVE  HoldInv'
  <2>1. ReadOwner(t) /\ UNCHANGED <<reads, started>>
        /\ ~ \E u \in Threads : CallStart(u) \/ ReadOn(u)
    <3>1. ReadOwner(t) /\ UNCHANGED <<reads, started>>
      BY <1>5 DEF ReadCommit, ParseHeader, DeliverPacket, PacketReturn, ReadOwner,
         opVars, callVars
    <3>2. ASSUME NEW u \in Threads, CallStart(u)  PROVE FALSE
      BY <3>1, <3>2 DEF CallStart, Starts
    <3>3. ASSUME NEW u \in Threads, ReadOn(u)  PROVE FALSE
      <4>1. u = t
        BY <3>1, <3>3 DEF ReadOn, ReadOwner, ReaderInv, SingleReader
      <4>. QED
        BY <1>5, <3>3, <4>1 DEF ReadCommit, ParseHeader, DeliverPacket, PacketReturn,
           ReadOn, Goto, TypeOK
    <3>. QED
      BY <3>1, <3>2, <3>3
  <2>2. started /\ reads = <<>>
    BY <2>1 DEF ReaderInv, SingleReader
  <2>3. ASSUME NEW u \in Threads, pc'[u] \in {"doRead", "startRead"}  PROVE FALSE
    <3>1. pc[u] \in {"doRead", "startRead"}
      BY <2>1, <2>3, NextReadersKept
    <3>2. u = t
      BY <2>1, <3>1 DEF ReadOwner, ReaderInv, SingleReader
    <3>. QED
      BY <1>5, <3>1, <3>2 DEF ReadCommit, ParseHeader, DeliverPacket, PacketReturn
  <2>. QED
    BY <2>1, <2>2, <2>3 DEF HoldInv
<1>6. CASE UNCHANGED Buffer /\ ~ \E t \in Threads : CallStart(t) \/ ReadOn(t)
  <2>1. started' = started
    BY <1>1, <1>6
  <2>2. Coming' => Coming
    <3>1. ASSUME NEW u \in Threads, pc'[u] \in {"doRead", "startRead"}  PROVE Coming
      BY <1>6, <3>1, NextReadersKept
    <3>2. ASSUME reads' # <<>>  PROVE Coming
      <4>1. CASE \E t \in Threads : StartRead(t)
        BY <4>1 DEF StartRead
      <4>2. CASE \E t \in Threads : TakeRead(t)
        BY <4>2 DEF TakeRead
      <4>3. CASE ~ \E t \in Threads : StartRead(t) \/ TakeRead(t)
        BY <1>0, <3>2, <4>3, ReadsKept
      <4>. QED
        BY <4>1, <4>2, <4>3
    <3>. QED
      BY <3>1, <3>2
  <2>. QED
    BY <1>2, <1>6, <2>1, <2>2 DEF HoldInv
<1>7. UNCHANGED Buffer
      \/ \E t \in Threads :
           ReadCommit(t) \/ ParseHeader(t) \/ DeliverPacket(t) \/ PacketReturn(t)
  <2>1. ASSUME NEW n \in InSizes, PeerWrite(n)  PROVE UNCHANGED Buffer
    BY <2>1 DEF PeerWrite, recvVars
  <2>. QED
    BY <2>1, FramesOrNot
<1>. QED
  BY <1>3, <1>4, <1>5, <1>6, <1>7

(* No message is held back until the peer sends another: while a read      *)
(* waits, what has been received whole has been delivered, provided the    *)
(* header that doRead() waits for, a size_t, is the header there is.       *)
THEOREM NothingWaits ==
  ASSUME HLen = SizeTLen
  PROVE  Spec => []NothingHeldBack
<1>1. Init => HoldInv
  BY SessionAssumption DEF Init, HoldInv, Readable, Probes, Calling
<1>2. TypeOK /\ TypeOK' /\ ReadInv /\ HoldInv /\ [Next]_vars => HoldInv'
  BY HoldNext DEF ReadInv
<1>3. TypeOK /\ ReadInv /\ HoldInv => NothingHeldBack
  <2>. SUFFICES ASSUME TypeOK, ReadInv, HoldInv, reads # <<>>,
                       NEW k \in DOMAIN inLog, PacketEnd(inLog[k]) <= recvPut,
                       k > Len(delivered)
                PROVE  FALSE
    BY LogTypes, LenProperties DEF NothingHeldBack, TypeOK
  <2>. DEFINE d == Len(delivered) + 1
  <2>1. /\ DOMAIN inLog = 1 .. Len(inLog) /\ Len(inLog) \in Nat
        /\ \A j \in DOMAIN inLog : inLog[j].at \in Nat /\ inLog[j].len \in Nat
        /\ recvGet \in Nat /\ recvPut \in Nat /\ HLen \in Nat
        /\ Len(delivered) \in Nat /\ isReadingHead \in BOOLEAN
    BY LogTypes, LenProperties, SessionAssumption DEF TypeOK
  <2>2. /\ d \in DOMAIN inLog /\ d <= k
        /\ inLog[d].at \in Nat /\ inLog[d].len \in Nat
        /\ inLog[k].at \in Nat /\ inLog[k].len \in Nat
    BY <2>1
  <2>3. PacketEnd(inLog[d]) <= recvPut
    <3>. HIDE DEF d
    <3>1. CASE d = k
      BY <3>1
    <3>2. CASE d < k
      <4>1. PacketEnd(inLog[d]) <= inLog[k].at
        BY <2>2, <3>2 DEF ReadInv, LogInv
      <4>. QED
        BY <2>1, <4>1, <2>2, SMTT(60) DEF PacketEnd
    <3>. QED
      BY <2>1, <2>2, <3>1, <3>2
  <2>4. ~HasHeader /\ ~HasBody
    BY DEF HoldInv
  <2>5. \A t \in Threads : ~InPacket(t)
    BY DEF ReadInv, ReaderInv, SingleReader, ReadOwner, InPacket
  <2>6. CASE isReadingHead
    <3>1. recvGet = inLog[d].at
      BY <2>2, <2>5, <2>6 DEF ReadInv, FrameInv, LogInv
    <3>2. Readable >= HLen
      <4>. HIDE DEF d
      <4>. QED
        BY <2>1, <2>2, <2>3, <3>1 DEF Readable, PacketEnd
    <3>. QED
      BY <2>4, <2>6, <3>2 DEF HasHeader
  <2>7. CASE ~isReadingHead
    <3>1. recvGet = inLog[d].at + HLen /\ bodylen = inLog[d].len
      BY <2>5, <2>7 DEF ReadInv, FrameInv
    <3>2. Readable >= bodylen
      <4>. HIDE DEF d
      <4>. QED
        BY <2>1, <2>2, <2>3, <3>1, SMTT(60) DEF Readable, PacketEnd
    <3>. QED
      BY <2>4, <2>7, <3>2 DEF HasBody
  <2>. QED
    BY <2>1, <2>6, <2>7
<1>4. HLen <= SizeTLen
  BY SessionAssumption
<1>5. Spec => []ReadInv
  BY <1>4, ReadsWell
<1>. QED
  BY <1>1, <1>2, <1>3, <1>5, TypesKept, PTL DEF Spec
-----------------------------------------------------------------------------
(* Numbers up to L, none left out below another, are the first k of them.  *)
LEMMA InitialSegment ==
  ASSUME NEW L \in Nat, NEW S \in SUBSET (1 .. L),
         \A k \in S : \A j \in 1 .. k : j \in S
  PROVE  \E k \in 0 .. L : S = 1 .. k
<1>. DEFINE Covers == {X \in SUBSET (1 .. L) :
                         \E k \in 0 .. L : X = 1 .. k /\ S \subseteq X}
<1>1. 1 .. L \in Covers
  OBVIOUS
<1>2. IsWellFoundedOn(StrictSubsetOrdering(1 .. L), FiniteSubsetsOf(1 .. L))
  BY FS_StrictSubsetOrderingWellFounded
<1>3. FiniteSubsetsOf(1 .. L) = SUBSET (1 .. L)
  <2>1. 1 \in Int /\ L \in Int
    OBVIOUS
  <2>2. IsFiniteSet(1 .. L)
    BY <2>1, FS_Interval
  <2>. QED
    BY <2>2, FS_FiniteSubsetsOfFinite
<1>4. Covers \subseteq FiniteSubsetsOf(1 .. L) /\ Covers # {}
  BY <1>1, <1>3
<1>. HIDE DEF Covers
<1>5. PICK X \in Covers :
        \A Y \in Covers : ~(<<Y, X>> \in StrictSubsetOrdering(1 .. L))
  BY <1>2, <1>4, WFMin
<1>6. PICK k \in 0 .. L : X = 1 .. k /\ S \subseteq X
  BY <1>5 DEF Covers
<1>7. ASSUME k # 0  PROVE k \in S
  <2>1. SUFFICES ASSUME k \notin S  PROVE FALSE
    OBVIOUS
  <2>2. S \subseteq 1 .. k - 1 /\ k - 1 \in 0 .. L
    BY <1>6, <1>7, <2>1
  <2>3. 1 .. k - 1 \in Covers
    BY <2>2 DEF Covers
  <2>4. <<1 .. k - 1, X>> \in StrictSubsetOrdering(1 .. L)
    BY <1>6, <1>7 DEF StrictSubsetOrdering
  <2>. QED
    BY <1>5, <2>3, <2>4
<1>8. 1 .. k \subseteq S
  <2>1. CASE k = 0
    BY <2>1
  <2>2. CASE k # 0
    BY <1>7, <2>2
  <2>. QED
    BY <2>1, <2>2
<1>9. S = 1 .. k
  BY <1>6, <1>8
<1>. QED
  BY <1>9
-----------------------------------------------------------------------------
(* What a session delivered had arrived: all of it was in recv_buf.        *)
LEMMA DeliveredArrived ==
  ASSUME TypeOK, ReadInv
  PROVE  delivered # <<>> => PacketEnd(inLog[Len(delivered)]) <= inTaken
<1>. SUFFICES ASSUME delivered # <<>>
              PROVE  PacketEnd(inLog[Len(delivered)]) <= inTaken
  OBVIOUS
<1>. DEFINE d == Len(delivered)
<1>1. delivered \in Seq(Packet)
  BY DEF TypeOK
<1>2. d \in Nat \ {0} /\ DOMAIN delivered = 1 .. d
  BY <1>1, EmptySeq, LenProperties
<1>3. /\ Len(inLog) \in Nat /\ DOMAIN inLog = 1 .. Len(inLog)
      /\ \A k \in DOMAIN inLog : inLog[k].at \in Nat /\ inLog[k].len \in Nat
  BY LogTypes
<1>4. d <= Len(inLog) /\ d \in DOMAIN inLog
  BY <1>2, <1>3 DEF ReadInv, FrameInv, InOrderDelivery
<1>5. /\ recvGet \in Nat /\ recvPut \in Nat /\ recvGet <= recvPut
      /\ inTaken \in Nat /\ recvPut <= inTaken
  <2>1. inTaken \in 0 .. inEnd /\ inEnd \in Nat
    BY DEF TypeOK
  <2>. QED
    BY <2>1 DEF TypeOK, ReadInv, ReadBytesInv
<1>. HIDE DEF d
<1>6. CASE \E t \in Threads : InPacket(t)
  BY <1>3, <1>4, <1>5, <1>6, SessionAssumption, SMTT(60)
     DEF ReadInv, FrameInv, Readable, PacketEnd, d
<1>7. CASE ~(\E t \in Threads : InPacket(t)) /\ isReadingHead
  <2>1. recvGet = FrameAt(d + 1)
    BY <1>7 DEF ReadInv, FrameInv, d
  <2>2. recvGet = PacketEnd(inLog[d])
    BY <1>2, <2>1 DEF FrameAt
  <2>. QED
    BY <1>5, <2>2 DEF d
<1>8. CASE ~(\E t \in Threads : InPacket(t)) /\ ~isReadingHead
  <2>1. d + 1 \in DOMAIN inLog /\ recvGet = inLog[d + 1].at + HLen
    BY <1>2, <1>3, <1>8 DEF ReadInv, FrameInv, d
  <2>2. PacketEnd(inLog[d]) <= inLog[d + 1].at
    BY <1>2, <1>4, <2>1 DEF ReadInv, LogInv
  <2>3. inLog[d].at \in Nat /\ inLog[d].len \in Nat
        /\ inLog[d + 1].at \in Nat /\ HLen \in Nat
    BY <1>3, <1>4, <2>1, SessionAssumption
  <2>. QED
    BY <1>5, <2>1, <2>2, <2>3, SMTT(60) DEF PacketEnd, d
<1>. QED
  BY <1>6, <1>7, <1>8

(* The packets that arrive are the first of the log, the delivered ones    *)
(* among them, and all of the log until the peer ends the connection.      *)
LEMMA ArrivingFirst ==
  ASSUME TypeOK, ReadInv
  PROVE  \E K \in 0 .. Len(inLog) :
           /\ Arriving = 1 .. K /\ Len(delivered) <= K
           /\ peer = "open" => K = Len(inLog)
<1>. DEFINE L == Len(inLog)
            d == Len(delivered)
<1>1. /\ L \in Nat /\ DOMAIN inLog = 1 .. L
      /\ \A k \in DOMAIN inLog : inLog[k].at \in Nat /\ inLog[k].len \in Nat
  BY LogTypes
<1>2. inEnd \in Nat /\ inTaken \in 0 .. inEnd /\ delivered \in Seq(Packet)
  BY DEF TypeOK
<1>3. d \in Nat /\ (d = 0 <=> delivered = <<>>) /\ d <= L
  <2>1. d \in Nat /\ (d = 0 <=> delivered = <<>>)
    BY <1>2, EmptySeq, LenProperties
  <2>. QED
    BY <2>1 DEF ReadInv, FrameInv, InOrderDelivery
<1>. HIDE DEF d, L
<1>4. ASSUME NEW j \in 1 .. L, NEW k \in 1 .. L, j < k
      PROVE  PacketEnd(inLog[j]) <= PacketEnd(inLog[k])
  <2>1. PacketEnd(inLog[j]) <= inLog[k].at
    BY <1>1, <1>4 DEF ReadInv, LogInv
  <2>2. inLog[j].at \in Nat /\ inLog[j].len \in Nat
        /\ inLog[k].at \in Nat /\ inLog[k].len \in Nat /\ HLen \in Nat
    BY <1>1, SessionAssumption
  <2>. QED
    BY <2>1, <2>2 DEF PacketEnd
<1>5. \A k \in 1 .. L : PacketEnd(inLog[k]) \in Nat
  BY <1>1, SessionAssumption DEF PacketEnd
<1>6. Arriving \in SUBSET (1 .. L)
  BY <1>1 DEF Arriving
<1>7. \A k \in Arriving : \A j \in 1 .. k : j \in Arriving
  <2>. SUFFICES ASSUME NEW k \in Arriving, NEW j \in 1 .. k  PROVE j \in Arriving
    OBVIOUS
  <2>1. k \in 1 .. L /\ PacketEnd(inLog[k]) <= inEnd /\ j \in 1 .. L
    BY <1>1, <1>6 DEF Arriving
  <2>2. PacketEnd(inLog[j]) <= PacketEnd(inLog[k])
    <3>1. CASE j = k
      BY <1>5, <2>1, <3>1
    <3>2. CASE j < k
      BY <1>4, <2>1, <3>2
    <3>. QED
      BY <2>1, <3>1, <3>2
  <2>. QED
    BY <1>1, <1>2, <1>5, <2>1, <2>2 DEF Arriving
<1>8. PICK K \in 0 .. L : Arriving = 1 .. K
  BY <1>1, <1>6, <1>7, InitialSegment
<1>9. d <= K
  <2>1. CASE d = 0
    BY <1>8, <2>1
  <2>2. CASE d # 0
    <3>1. PacketEnd(inLog[d]) <= inTaken
      BY <1>3, <2>2, DeliveredArrived DEF d
    <3>2. d \in 1 .. L
      BY <1>1, <1>3, <2>2
    <3>3. d \in Arriving
      BY <1>1, <1>2, <1>5, <3>1, <3>2 DEF Arriving
    <3>. QED
      BY <1>8, <3>3
  <2>. QED
    BY <2>1, <2>2
<1>10. ASSUME peer = "open"  PROVE K = L
  <2>1. CASE L = 0
    BY <1>8, <2>1
  <2>2. CASE L # 0
    <3>1. inEnd = FrameAt(L + 1)
      BY <1>10 DEF ReadInv, LogInv, L
    <3>2. inEnd = PacketEnd(inLog[L])
      BY <1>1, <2>2, <3>1 DEF FrameAt
    <3>3. L \in Arriving
      BY <1>1, <1>2, <2>2, <3>2 DEF Arriving
    <3>. QED
      BY <1>1, <1>8, <3>3
  <2>. QED
    BY <2>1, <2>2
<1>. QED
  BY <1>8, <1>9, <1>10 DEF d, L
-----------------------------------------------------------------------------
(* The state of the stream that a state of the session is.                 *)
Sent == [k \in Arriving |-> inLog[k].len]
Got == [k \in DOMAIN delivered |-> delivered[k].len]

LEMMA NumberSeq ==
  ASSUME NEW K \in Nat, NEW f, f = [k \in 1 .. K |-> f[k]],
         \A k \in 1 .. K : f[k] \in Nat
  PROVE  f \in Seq(Nat) /\ Len(f) = K
<1>1. f \in [1 .. K -> Nat]
  OBVIOUS
<1>2. f \in Seq(Nat)
  BY <1>1, SeqDef
<1>. QED
  BY <1>1, <1>2, LenProperties

LEMMA StreamState ==
  ASSUME TypeOK, ReadInv, NEW K \in 0 .. Len(inLog), Arriving = 1 .. K
  PROVE  /\ Sent \in Seq(Nat) /\ Len(Sent) = K
         /\ \A k \in 1 .. K : Sent[k] = inLog[k].len
         /\ Got \in Seq(Nat) /\ Len(Got) = Len(delivered)
         /\ \A k \in 1 .. Len(delivered) : Got[k] = inLog[k].len
<1>1. /\ Len(inLog) \in Nat /\ DOMAIN inLog = 1 .. Len(inLog)
      /\ \A k \in DOMAIN inLog : inLog[k].len \in Nat
  BY LogTypes
<1>2. Len(delivered) \in Nat /\ DOMAIN delivered = 1 .. Len(delivered)
  BY LenProperties DEF TypeOK
<1>3. \A k \in 1 .. Len(delivered) :
        delivered[k].len = inLog[k].len /\ inLog[k].len \in Nat
  BY <1>1, <1>2 DEF ReadInv, FrameInv, InOrderDelivery
<1>4. Sent = [k \in 1 .. K |-> Sent[k]] /\ \A k \in 1 .. K : Sent[k] = inLog[k].len
  BY DEF Sent
<1>5. Got = [k \in 1 .. Len(delivered) |-> Got[k]]
      /\ \A k \in 1 .. Len(delivered) : Got[k] = inLog[k].len
  BY <1>2, <1>3 DEF Got
<1>6. Sent \in Seq(Nat) /\ Len(Sent) = K
  <2>1. K \in Nat /\ \A k \in 1 .. K : Sent[k] \in Nat
    BY <1>1, <1>4
  <2>. QED
    BY <1>4, <2>1, NumberSeq
<1>7. Got \in Seq(Nat) /\ Len(Got) = Len(delivered)
  BY <1>2, <1>3, <1>5, NumberSeq
<1>. QED
  BY <1>4, <1>5, <1>6, <1>7

(* The stream's two sequences, told by the log of the peer's packets.      *)
StreamInv ==
  \E K \in 0 .. Len(inLog) :
    /\ peer = "open" => K = Len(inLog)
    /\ Sent \in Seq(Nat) /\ Len(Sent) = K
    /\ \A k \in 1 .. K : Sent[k] = inLog[k].len
    /\ Got \in Seq(Nat) /\ Len(Got) = Len(delivered) /\ Len(Got) <= K
    /\ \A k \in 1 .. Len(Got) : Got[k] = inLog[k].len

LEMMA StreamHolds == TypeOK /\ ReadInv => StreamInv
<1>. SUFFICES ASSUME TypeOK, ReadInv  PROVE StreamInv
  OBVIOUS
<1>1. PICK K \in 0 .. Len(inLog) :
        /\ Arriving = 1 .. K /\ Len(delivered) <= K
        /\ peer = "open" => K = Len(inLog)
  BY ArrivingFirst
<1>. QED
  BY <1>1, StreamState DEF StreamInv

(* A longer sequence that agrees is the shorter one with its end appended. *)
LEMMA OneMore ==
  ASSUME NEW s \in Seq(Nat), NEW t \in Seq(Nat), Len(t) = Len(s) + 1,
         \A k \in 1 .. Len(s) : t[k] = s[k]
  PROVE  t = Append(s, t[Len(s) + 1])
<1>. DEFINE e == t[Len(s) + 1]
<1>1. Len(s) \in Nat /\ Len(s) + 1 \in 1 .. Len(t)
  BY LenProperties
<1>2. e \in Nat
  BY <1>1, LenProperties
<1>. HIDE DEF e
<1>3. /\ Append(s, e) \in Seq(Nat) /\ Len(Append(s, e)) = Len(s) + 1
      /\ \A k \in 1 .. Len(s) : Append(s, e)[k] = s[k]
      /\ Append(s, e)[Len(s) + 1] = e
  BY <1>2, AppendProperties
<1>4. \A k \in 1 .. Len(t) : Append(s, e)[k] = t[k]
  BY <1>1, <1>3 DEF e
<1>5. t = Append(s, e)
  BY <1>3, <1>4, SeqEqual
<1>. QED
  BY <1>5 DEF e

(* A shorter sequence that agrees is the beginning of the longer one.      *)
LEMMA Beginning ==
  ASSUME NEW s \in Seq(Nat), NEW t \in Seq(Nat), Len(t) <= Len(s),
         \A k \in 1 .. Len(t) : t[k] = s[k]
  PROVE  t = SubSeq(s, 1, Len(t))
<1>. DEFINE u == SubSeq(s, 1, Len(t))
<1>1. Len(s) \in Nat /\ Len(t) \in Nat /\ \A i \in 1 .. Len(s) : s[i] \in Nat
  BY LenProperties
<1>2. \A i \in 1 .. Len(t) : s[i] \in Nat
  BY <1>1
<1>3. /\ u \in Seq(Nat) /\ Len(u) = Len(t)
      /\ \A i \in 1 .. Len(t) : u[i] = s[i]
  <2>1. 1 \in Int /\ Len(t) \in Int
    BY <1>1
  <2>2. /\ u \in Seq(Nat)
        /\ Len(u) = IF 1 <= Len(t) THEN Len(t) - 1 + 1 ELSE 0
        /\ \A i \in 1 .. Len(t) - 1 + 1 : u[i] = s[1 + i - 1]
    BY <1>2, <2>1, SubSeqProperties
  <2>. QED
    BY <1>1, <2>2
<1>. HIDE DEF u
<1>4. t = u
  BY <1>3, SeqEqual
<1>. QED
  BY <1>4 DEF u
-----------------------------------------------------------------------------
LEMMA PeerSends ==
  ASSUME TypeOK, StreamInv, StreamInv', NEW n \in InSizes, PeerWrite(n)
  PROVE  peer = "open" /\ Sent' = Append(Sent, n) /\ Got' = Got /\ peer' = peer
<1>1. peer = "open" /\ peer' = peer /\ delivered' = delivered
  BY DEF PeerWrite, recvVars
<1>2. /\ Len(inLog) \in Nat /\ DOMAIN inLog = 1 .. Len(inLog)
      /\ Len(inLog') = Len(inLog) + 1
      /\ \A k \in DOMAIN inLog : inLog'[k] = inLog[k]
      /\ inLog'[Len(inLog')] = [at |-> inEnd, len |-> n]
  BY LogAppended
<1>3. /\ Sent \in Seq(Nat) /\ Len(Sent) = Len(inLog)
      /\ \A k \in 1 .. Len(inLog) : Sent[k] = inLog[k].len
  BY <1>1 DEF StreamInv
<1>4. /\ Sent' \in Seq(Nat) /\ Len(Sent') = Len(inLog')
      /\ \A k \in 1 .. Len(inLog') : Sent'[k] = inLog'[k].len
  BY <1>1 DEF StreamInv
<1>5. Sent'[Len(inLog) + 1] = n
  BY <1>2, <1>4
<1>6. Len(Sent') = Len(Sent) + 1 /\ \A k \in 1 .. Len(Sent) : Sent'[k] = Sent[k]
  <2>. SUFFICES ASSUME NEW k \in 1 .. Len(inLog)  PROVE Sent'[k] = Sent[k]
    BY <1>2, <1>3, <1>4
  <2>1. Sent[k] = inLog[k].len /\ inLog'[k] = inLog[k] /\ k \in 1 .. Len(inLog')
    BY <1>2, <1>3
  <2>. QED
    BY <1>4, <2>1
<1>7. Sent' = Append(Sent, n)
  BY <1>3, <1>4, <1>5, <1>6, OneMore
<1>. QED
  BY <1>1, <1>7 DEF Got

LEMMA SessionDelivers ==
  ASSUME TypeOK, StreamInv, StreamInv', NEW t \in Threads, DeliverPacket(t)
  PROVE  /\ Len(Got) < Len(Sent) /\ Got' = Append(Got, Sent[Len(Got) + 1])
         /\ Sent' = Sent /\ peer' = peer
<1>1. /\ UNCHANGED <<inLog, inEnd, peer>>
      /\ delivered' = Append(delivered, [at |-> recvGet, len |-> bodylen])
  BY DEF DeliverPacket, peerVars
<1>2. Sent' = Sent
  BY <1>1 DEF Sent, Arriving, PacketEnd
<1>3. Len(delivered') = Len(delivered) + 1 /\ Len(delivered) \in Nat
  <2>1. [at |-> recvGet, len |-> bodylen] \in Packet /\ delivered \in Seq(Packet)
    BY DEF TypeOK, Packet
  <2>. QED
    BY <1>1, <2>1, LenProperties
<1>4. PICK K \in 0 .. Len(inLog) :
        /\ Sent \in Seq(Nat) /\ Len(Sent) = K
        /\ \A k \in 1 .. K : Sent[k] = inLog[k].len
        /\ Got \in Seq(Nat) /\ Len(Got) = Len(delivered) /\ Len(Got) <= K
        /\ \A k \in 1 .. Len(Got) : Got[k] = inLog[k].len
  BY DEF StreamInv
<1>5. /\ Got' \in Seq(Nat) /\ Len(Got') = Len(delivered') /\ Len(Got') <= Len(Sent')
      /\ \A k \in 1 .. Len(Got') : Got'[k] = inLog'[k].len
  BY DEF StreamInv
<1>6. Len(Got') = Len(Got) + 1 /\ Len(Got) < Len(Sent) /\ Len(Got) \in Nat
      /\ Len(Sent) \in Nat
  BY <1>2, <1>3, <1>4, <1>5, LenProperties
<1>7. /\ \A k \in 1 .. Len(Got) : Got'[k] = Got[k]
      /\ Got'[Len(Got) + 1] = Sent[Len(Got) + 1]
  <2>1. \A k \in 1 .. Len(Got) + 1 : Got'[k] = inLog[k].len
    BY <1>1, <1>5, <1>6
  <2>2. ASSUME NEW k \in 1 .. Len(Got)  PROVE Got'[k] = Got[k]
    <3>1. k \in 1 .. Len(Got) + 1
      BY <1>6
    <3>2. Got[k] = inLog[k].len
      BY <1>4
    <3>. QED
      BY <2>1, <3>1, <3>2
  <2>3. Len(Got) + 1 \in 1 .. K
    BY <1>4, <1>6
  <2>4. Sent[Len(Got) + 1] = inLog[Len(Got) + 1].len
    BY <1>4, <2>3
  <2>. QED
    BY <1>6, <2>1, <2>2, <2>4
<1>8. Got' = Append(Got, Sent[Len(Got) + 1])
  BY <1>4, <1>5, <1>6, <1>7, OneMore
<1>. QED
  BY <1>1, <1>2, <1>6, <1>8

(* The peer ends the connection, and with it what is still to arrive.      *)
LEMMA PeerEnds ==
  ASSUME TypeOK, StreamInv, StreamInv', peer = "open", peer' # "open",
         UNCHANGED <<inLog, delivered>>
  PROVE  /\ Len(Sent') \in Len(Got) .. Len(Sent)
         /\ Sent' = SubSeq(Sent, 1, Len(Sent')) /\ Got' = Got
<1>1. Len(inLog) \in Nat
  BY LogTypes
<1>2. /\ Sent \in Seq(Nat) /\ Len(Sent) = Len(inLog)
      /\ \A k \in 1 .. Len(inLog) : Sent[k] = inLog[k].len
      /\ Got \in Seq(Nat)
  BY DEF StreamInv
<1>3. PICK M \in 0 .. Len(inLog) :
        /\ Sent' \in Seq(Nat) /\ Len(Sent') = M /\ Len(Got') <= M
        /\ \A k \in 1 .. M : Sent'[k] = inLog[k].len
  BY DEF StreamInv
<1>4. Got' = Got
  BY DEF Got
<1>5. Len(Sent') \in Len(Got) .. Len(Sent)
  BY <1>1, <1>2, <1>3, <1>4, LenProperties
<1>6. Sent' = SubSeq(Sent, 1, Len(Sent'))
  <2>1. ASSUME NEW k \in 1 .. M  PROVE Sent'[k] = Sent[k]
    <3>1. k \in 1 .. Len(inLog)
      BY <1>1
    <3>. QED
      BY <1>2, <1>3, <3>1
  <2>2. Len(Sent') <= Len(Sent)
    BY <1>1, <1>2, <1>3
  <2>. QED
    BY <1>2, <1>3, <2>1, <2>2, Beginning
<1>. QED
  BY <1>4, <1>5, <1>6

LEMMA StreamStep ==
  TypeOK /\ StreamInv /\ StreamInv' /\ [Next]_vars
  => [Stream!Next]_Stream!streamVars
<1>. SUFFICES ASSUME TypeOK, StreamInv, StreamInv', [Next]_vars
              PROVE  [Stream!Next]_Stream!streamVars
  OBVIOUS
<1>. DEFINE Still == Sent' = Sent /\ Got' = Got /\ (peer' = "open" <=> peer = "open")
<1>0. ASSUME Still  PROVE [Stream!Next]_Stream!streamVars
  BY <1>0 DEF Stream!streamVars, Sent, Got
<1>1. ASSUME NEW n \in InSizes, PeerWrite(n)  PROVE Stream!Next
  BY <1>1, PeerSends DEF Stream!Next, Stream!Send, Sent, Got
<1>2. ASSUME NEW t \in Threads, DeliverPacket(t)  PROVE Stream!Next
  BY <1>2, SessionDelivers DEF Stream!Next, Stream!Deliver, Sent, Got
<1>3. ASSUME peer = "open", peer' # "open", UNCHANGED <<inLog, delivered>>
      PROVE  Stream!Next
  BY <1>3, PeerEnds DEF Stream!Next, Stream!Cut, Sent, Got
<1>4. ASSUME NEW n \in 0 .. inEnd, PeerClose(n)
      PROVE  peer = "open" /\ peer' # "open" /\ UNCHANGED <<inLog, delivered>>
  BY <1>4 DEF PeerClose, recvVars
<1>5. ASSUME PeerReset
      PROVE  Still \/ (peer = "open" /\ peer' # "open" /\ UNCHANGED <<inLog, delivered>>)
  BY <1>5 DEF PeerReset, recvVars, Sent, Got, Arriving, PacketEnd
<1>6. ASSUME UNCHANGED <<inLog, inEnd, peer, delivered>>  PROVE Still
  BY <1>6 DEF Sent, Got, Arriving, PacketEnd
<1>7. ASSUME NEW t \in Threads, ReadCommit(t) \/ ParseHeader(t) \/ PacketReturn(t)
      PROVE  UNCHANGED <<inLog, inEnd, peer, delivered>>
  BY <1>7 DEF ReadCommit, ParseHeader, PacketReturn, peerVars
<1>8. CASE Peer
  BY <1>0, <1>1, <1>3, <1>4, <1>5, <1>8 DEF Peer
<1>9. CASE ~Peer
  BY <1>0, <1>2, <1>6, <1>7, <1>9, LogKept, FramesOrNot DEF Peer
<1>. QED
  BY <1>8, <1>9

(* A session implements the stream of messages of MessageStream.  Packets  *)
(* lost to the end of a connection are the last ones, none before one that *)
(* is delivered; again as long as a size_t is no shorter than a PakSize.   *)
THEOREM SessionIsStream ==
  ASSUME HLen <= SizeTLen
  PROVE  Spec => ImplementsStream
<1>1. Init => Stream!Init
  <2>. SUFFICES ASSUME Init  PROVE Stream!Init
    OBVIOUS
  <2>1. inLog = <<>> /\ delivered = <<>> /\ peer = "open"
    BY DEF Init
  <2>2. DOMAIN inLog = {} /\ DOMAIN delivered = {}
    BY <2>1
  <2>3. Sent = <<>> /\ Got = <<>>
    BY <2>2 DEF Sent, Got, Arriving
  <2>. QED
    BY <2>1, <2>3 DEF Stream!Init, Sent, Got
<1>2. TypeOK /\ StreamInv /\ StreamInv' /\ [Next]_vars
      => [Stream!Next]_Stream!streamVars
  BY StreamStep
<1>3. Spec => []ReadInv
  BY ReadsWell
<1>. QED
  BY <1>1, <1>2, <1>3, StreamHolds, TypesKept, PTL DEF Spec, ImplementsStream, Stream!Spec
=============================================================================
