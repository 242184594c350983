-------------------------- MODULE SessionWriteProofs --------------------------
(***************************************************************************)
(* What is proved of the sending side of a Session, for any number of      *)
(* threads and any bounds: one writer at a time, no packet forgotten, one  *)
(* error, what the owner sees of both sides, stop(), the bytes sent.       *)
(***************************************************************************)
EXTENDS SessionProofs

(* A step that takes no thread into, through or out of the code that sends. *)
WritersStill ==
  \A u \in Threads :
    /\ pc'[u] = "doWrite" <=> pc[u] = "doWrite"
    /\ pc'[u] = "startWrite" <=> pc[u] = "startWrite"
    /\ pc'[u] \in {"writeDone", "writeBody"} <=> pc[u] \in {"writeDone", "writeBody"}
    /\ pc'[u] \in {"writeDone", "writeBody"} => compl'[u] = compl[u]

(* Only these steps are not of that kind.                                  *)
LEMMA WritersMoved ==
  ASSUME TypeOK, ReturnInv, [Next]_vars,
         ~ \E t \in Threads :
             \/ \E n \in OutSizes : WriteAppend(t, n)
             \/ DoWrite(t) \/ StartWrite(t) \/ WriteFailed(t) \/ WriteConsume(t)
             \/ EarlyReturn(t) \/ TakeWrite(t)
  PROVE  WritersStill
<1>. USE DEF WritersStill, Calling, Callbacks, Probes
<1>0. /\ pc \in [Threads -> Places] /\ ret \in [Threads -> Places]
      /\ compl \in [Threads -> [ec : Codes, len : Nat]]
  BY DEF TypeOK
<1>1. CASE UNCHANGED <<pc, ret, window, compl>>
  BY <1>1
<1>2. ASSUME NEW t \in Threads, CallWrite(t)  PROVE WritersStill
  BY <1>0, <1>2 DEF CallWrite, Call, Goto
<1>3. ASSUME NEW t \in Threads, CallStart(t)  PROVE WritersStill
  BY <1>0, <1>3 DEF CallStart, Starts, Call, Goto
<1>4. ASSUME NEW t \in Threads, CallStop(t)  PROVE WritersStill
  BY <1>0, <1>4 DEF CallStop, Call, Goto
<1>5. ASSUME NEW t \in Threads, StartRead(t)  PROVE WritersStill
  BY <1>0, <1>5 DEF ReturnInv, StartRead, Goto, Return
<1>6. ASSUME NEW t \in Threads, ReadFailed(t)  PROVE WritersStill
  BY <1>0, <1>6 DEF ReadFailed, Goto
<1>7. ASSUME NEW t \in Threads, ReadCommit(t)  PROVE WritersStill
  BY <1>0, <1>7 DEF ReadCommit, Goto
<1>8. ASSUME NEW t \in Threads, DeliverPacket(t)  PROVE WritersStill
  BY <1>0, <1>8 DEF DeliverPacket, Goto
<1>9. ASSUME NEW t \in Threads, ReadOn(t)  PROVE WritersStill
  BY <1>0, <1>9 DEF ReadOn, Goto
<1>10. ASSUME NEW t \in Threads, FindStopped(t)  PROVE WritersStill
  BY <1>0, <1>10 DEF FindStopped
<1>11. ASSUME NEW t \in Threads, FindRunning(t)  PROVE WritersStill
  BY <1>0, <1>11 DEF FindRunning, FindsRunning, Onward, Goto
<1>12. ASSUME NEW t \in Threads, StopUnlock(t)  PROVE WritersStill
  BY <1>0, <1>12 DEF StopUnlock, Goto
<1>13. ASSUME NEW t \in Threads, StopShutdown(t)  PROVE WritersStill
  BY <1>0, <1>13 DEF StopShutdown, Goto
<1>14. ASSUME NEW t \in Threads, StopClose(t)  PROVE WritersStill
  BY <1>0, <1>14 DEF ReturnInv, StopClose, Goto, Return
<1>15. ASSUME NEW t \in Threads, PacketReturn(t)  PROVE WritersStill
  BY <1>0, <1>15 DEF PacketReturn, Goto
<1>16. ASSUME NEW t \in Threads, CallbackReturn(t)  PROVE WritersStill
  BY <1>0, <1>16 DEF CallbackReturn, Goto
<1>17. ASSUME NEW t \in Threads, TakeRead(t)  PROVE WritersStill
  BY <1>0, <1>17 DEF TakeRead, Goto
<1>. QED
  BY MoversOrStill, <1>1, <1>2, <1>3, <1>4, <1>5, <1>6, <1>7, <1>8, <1>9, <1>10,
     <1>11, <1>12, <1>13, <1>14, <1>15, <1>16, <1>17

(* Nor do others touch what is sent, but for the operations in flight.     *)
LEMMA SendOrNot ==
  ASSUME [Next]_vars,
         ~ \E t \in Threads :
             \/ \E n \in OutSizes : WriteAppend(t, n)
             \/ DoWrite(t) \/ StartWrite(t) \/ WriteFailed(t) \/ WriteConsume(t)
             \/ EarlyReturn(t) \/ TakeWrite(t)
  PROVE  /\ UNCHANGED <<sendMtx, isWriting, sendBuf, outGet>>
         /\ errs' = errs \/ \E t \in Threads : ReadFailed(t)
         /\ \/ UNCHANGED <<writes, wirePos>>
            \/ \E t \in Threads : StopClose(t)
            \/ \E i \in DOMAIN writes :
                 \E n \in 1 .. writes[i].view.len : PerformWrite(i, n)
            \/ \E i \in DOMAIN writes : FailWrite(i)
<1>. USE DEF opVars, sendVars, wireVars
<1>1. CASE UNCHANGED vars
  BY <1>1 DEF vars
<1>2. CASE Next
  BY <1>2, NextCases, ZenonT(60)
     DEF CallWrite, CallStart, CallStop, StartRead, ReadFailed, ReadCommit,
         ParseHeader, DeliverPacket, ReadOn, FindStopped, FindRunning,
         StopUnlock, StopShutdown, StopClose, PacketReturn, CallbackReturn,
         TakeRead, PerformRead, FailRead, PerformWrite, FailWrite, PeerWrite,
         PeerClose, PeerReset
<1>. QED
  BY <1>1, <1>2

(* Of the operations in flight only their results change.                  *)
LEMMA WritesKept ==
  ASSUME TypeOK, [Next]_vars,
         ~ \E t \in Threads : StartWrite(t) \/ TakeWrite(t)
  PROVE  Len(writes') = Len(writes)
<1>1. CASE UNCHANGED writes
  BY <1>1
<1>2. ASSUME NEW t \in Threads, StopClose(t)  PROVE Len(writes') = Len(writes)
  BY <1>2, AbortedTypes DEF TypeOK, StopClose
<1>3. ASSUME NEW i \in DOMAIN writes, NEW n \in 1 .. writes[i].view.len,
             PerformWrite(i, n)
      PROVE  Len(writes') = Len(writes)
  <2>1. n \in Nat
    BY LenProperties DEF TypeOK, Op, Views
  <2>. QED
    BY <1>3, <2>1, OpFinished DEF TypeOK, PerformWrite, Codes
<1>4. ASSUME NEW i \in DOMAIN writes, FailWrite(i)  PROVE Len(writes') = Len(writes)
  BY <1>4, OpFinished DEF TypeOK, FailWrite, Codes
<1>5. ASSUME NEW t \in Threads, NEW n \in OutSizes, WriteAppend(t, n)
      PROVE  Len(writes') = Len(writes)
  BY <1>5, LenProperties DEF TypeOK, WriteAppend
<1>6. ASSUME NEW t \in Threads,
             DoWrite(t) \/ WriteFailed(t) \/ WriteConsume(t) \/ EarlyReturn(t)
      PROVE  Len(writes') = Len(writes)
  BY <1>6 DEF DoWrite, WriteFailed, WriteConsume, EarlyReturn, opVars
<1>. QED
  BY <1>1, <1>2, <1>3, <1>4, <1>5, <1>6, SendOrNot
-----------------------------------------------------------------------------
LEMMA WriterNext ==
  TypeOK /\ TypeOK' /\ ReturnInv /\ WriterInv /\ [Next]_vars => WriterInv'
<1>. SUFFICES ASSUME TypeOK, TypeOK', ReturnInv, WriterInv, [Next]_vars
              PROVE  WriterInv'
  OBVIOUS
<1>. USE DEF WriterInv, SingleWriter, WriteOwner
<1>0. /\ pc \in [Threads -> Places] /\ ret \in [Threads -> Places]
      /\ sendMtx \in BOOLEAN /\ isWriting \in BOOLEAN
      /\ Len(writes) \in Nat /\ Len(writes') \in Nat
      /\ (writes = <<>> <=> Len(writes) = 0) /\ (writes' = <<>> <=> Len(writes') = 0)
  BY LenProperties, EmptySeq DEF TypeOK
<1>1. ASSUME NEW t \in Threads, NEW n \in OutSizes, WriteAppend(t, n)
      PROVE  WriterInv'
  <2>1. Len(writes') = Len(writes)
    BY <1>1, WritesKept DEF WriteAppend, StartWrite, TakeWrite
  <2>2. /\ ~sendMtx /\ isWriting' = isWriting /\ pc[t] = "append"
        /\ \A u \in Threads \ {t} : pc'[u] = pc[u]
    BY <1>0, <1>1 DEF WriteAppend, Goto, Return
  <2>3. CASE isWriting
    <3>1. pc'[t] = ret[t] /\ sendMtx' = sendMtx
      BY <1>0, <1>1, <2>3 DEF WriteAppend, Return, Goto
    <3>. QED
      BY <1>0, <2>1, <2>2, <2>3, <3>1 DEF ReturnInv, Calling, Callbacks
  <2>4. CASE ~isWriting
    <3>1. pc'[t] = "doWrite" /\ sendMtx'
      BY <1>0, <1>1, <2>4 DEF WriteAppend, Goto
    <3>2. writes = <<>> /\ \A u \in Threads : ~WriteOwner(u)
      BY <2>2, <2>4
    <3>. QED
      BY <1>0, <2>1, <2>2, <2>4, <3>1, <3>2
  <2>. QED
    BY <2>3, <2>4
<1>2. ASSUME NEW t \in Threads, DoWrite(t)  PROVE WriterInv'
  <2>1. /\ pc[t] = "doWrite" /\ sendMtx /\ writes' = writes
        /\ \A u \in Threads \ {t} : pc'[u] = pc[u] /\ ~WriteOwner(u)
    BY <1>0, <1>2 DEF DoWrite, FindsRunning, Goto, Return, opVars
  <2>2. CASE Size(sendBuf) = 0
    <3>1. pc'[t] = ret[t] /\ ~sendMtx' /\ ~isWriting'
      BY <1>0, <1>2, <2>2 DEF DoWrite, StillWriting, Return, Goto
    <3>. QED
      BY <1>0, <2>1, <3>1 DEF ReturnInv, Calling, Callbacks
  <2>3. CASE Size(sendBuf) # 0
    <3>1. pc'[t] = "startWrite" /\ sendMtx' /\ isWriting'
      BY <1>0, <1>2, <2>1, <2>3 DEF DoWrite, StillWriting, Goto
    <3>. QED
      BY <1>0, <2>1, <3>1
  <2>. QED
    BY <2>2, <2>3
<1>3. ASSUME NEW t \in Threads, StartWrite(t)  PROVE WriterInv'
  <2>1. /\ pc[t] = "startWrite" /\ pc'[t] = ret[t] /\ ~sendMtx'
        /\ isWriting' = isWriting
        /\ \A u \in Threads \ {t} : pc'[u] = pc[u] /\ ~WriteOwner(u)
    BY <1>0, <1>3 DEF StartWrite, Return, Goto
  <2>2. writes = <<>> /\ isWriting /\ Len(writes') = 1
    BY <1>0, <1>3, <2>1 DEF StartWrite
  <2>. QED
    BY <1>0, <2>1, <2>2 DEF ReturnInv, Calling, Callbacks
<1>4. ASSUME NEW t \in Threads, WriteFailed(t)  PROVE WriterInv'
  <2>1. /\ pc'[t] = "onWriteError" /\ UNCHANGED <<writes, sendMtx, isWriting>>
        /\ \A u \in Threads \ {t} : pc'[u] = pc[u]
        /\ pc[t] = "writeBody"
    BY <1>0, <1>4 DEF WriteFailed, GuardInBranch, Goto, opVars
  <2>. QED
    BY <1>0, <2>1
<1>5. ASSUME NEW t \in Threads, WriteConsume(t)  PROVE WriterInv'
  <2>1. /\ pc[t] = "writeBody" /\ pc'[t] = "doWrite" /\ sendMtx'
        /\ UNCHANGED <<writes, isWriting>>
        /\ \A u \in Threads \ {t} : pc'[u] = pc[u]
    BY <1>0, <1>5 DEF WriteConsume, Goto, opVars
  <2>. QED
    BY <1>0, <2>1
<1>6. ASSUME NEW t \in Threads, EarlyReturn(t)  PROVE WriterInv'
  <2>1. /\ pc'[t] = ret[t] /\ UNCHANGED <<writes, isWriting>>
        /\ sendMtx' = (sendMtx /\ pc[t] # "doWrite")
        /\ \A u \in Threads \ {t} : pc'[u] = pc[u]
        /\ t \in window
    BY <1>0, <1>6 DEF EarlyReturn, EndGuard, Goto, Return, opVars
  <2>2. pc[t] \notin {"startWrite", "writeBody"}
    BY <2>1 DEF ReturnInv, Probes
  <2>. QED
    BY <1>0, <2>1, <2>2, ZenonT(60) DEF ReturnInv, Calling, Callbacks
<1>7. ASSUME NEW t \in Threads, TakeWrite(t)  PROVE WriterInv'
  <2>1. /\ pc'[t] = "writeDone" /\ UNCHANGED <<sendMtx, isWriting>>
        /\ \A u \in Threads \ {t} : pc'[u] = pc[u]
        /\ pc[t] = "idle" /\ writes # <<>> /\ writes' = Tail(writes)
    BY <1>0, <1>7 DEF TakeWrite, Goto, sendVars
  <2>2. Len(writes) = 1
    BY <1>0, <2>1
  <2>3. writes' = <<>>
    <3>1. writes \in Seq(Op)
      BY DEF TypeOK
    <3>2. Len(Tail(writes)) = Len(writes) - 1
      BY <2>1, <3>1, HeadTailProperties
    <3>. QED
      BY <1>0, <2>1, <2>2, <3>2
  <2>. QED
    BY <1>0, <2>1, <2>2, <2>3
<1>8. ASSUME ~ \E t \in Threads :
             \/ \E n \in OutSizes : WriteAppend(t, n)
             \/ DoWrite(t) \/ StartWrite(t) \/ WriteFailed(t) \/ WriteConsume(t)
             \/ EarlyReturn(t) \/ TakeWrite(t)
      PROVE  WriterInv'
  <2>1. WritersStill
    BY <1>8, WritersMoved
  <2>2. UNCHANGED <<sendMtx, isWriting>>
    BY <1>8, SendOrNot
  <2>3. Len(writes') = Len(writes)
    BY <1>8, WritesKept
  <2>. QED
    BY <1>0, <2>1, <2>2, <2>3 DEF WritersStill
<1>. QED
  BY <1>1, <1>2, <1>3, <1>4, <1>5, <1>6, <1>7, <1>8

LEMMA WriterInit == Init => ReturnInv /\ WriterInv
BY EmptySeq DEF Init, ReturnInv, WriterInv, SingleWriter, WriteOwner, Calling,
   Callbacks, Probes

(* However many threads call write() while handlers run, only one write is *)
(* ever in flight or handled, and send_mtx is left locked on no path.      *)
THEOREM OneWriter == Spec => []SingleWriter
<1>1. TypeOK /\ TypeOK' /\ ReturnInv /\ WriterInv /\ [Next]_vars
        => ReturnInv' /\ WriterInv'
  BY ReturnNext, WriterNext
<1>2. WriterInv => SingleWriter
  BY DEF WriterInv
<1>. QED
  BY WriterInit, <1>1, <1>2, TypesKept, PTL DEF Spec
-----------------------------------------------------------------------------
(* What happens to the operations in flight, each by itself.               *)
LEMMA OpsAborted ==
  ASSUME NEW ops \in Seq(Op), NEW i \in DOMAIN ops
  PROVE  /\ DOMAIN Aborted(ops) = DOMAIN ops
         /\ Aborted(ops)[i].at = ops[i].at
         /\ Aborted(ops)[i].view = ops[i].view
         /\ Aborted(ops)[i].st = "done"
         /\ Aborted(ops)[i].len = IF ops[i].st = "queued" THEN 0 ELSE ops[i].len
<1>1. ops[i] \in Op
  BY LenProperties
<1>. QED
  BY <1>1 DEF Aborted, Finish, Op

LEMMA OpsFinished ==
  ASSUME NEW ops \in Seq(Op), NEW i \in DOMAIN ops, NEW ec \in Codes, NEW n \in Nat
  PROVE  LET f == [ops EXCEPT ![i] = Finish(@, ec, n)]
         IN  /\ f[i].at = ops[i].at /\ f[i].view = ops[i].view
             /\ f[i].st = "done" /\ f[i].len = n
             /\ DOMAIN f = DOMAIN ops
<1>1. ops[i] \in Op
  BY LenProperties
<1>. QED
  BY <1>1 DEF Finish, Op

LEMMA OpsOutlive ==
  ASSUME NEW t \in Threads, NEW n \in OutSizes, TypeOK, WriteAppend(t, n),
         NEW i \in DOMAIN writes
  PROVE  /\ DOMAIN writes' = DOMAIN writes
         /\ writes'[i].at = writes[i].at /\ writes'[i].len = writes[i].len
         /\ writes'[i].st = writes[i].st
         /\ writes'[i].view.len = writes[i].view.len
<1>1. writes[i] \in Op
  BY LenProperties DEF TypeOK
<1>2. /\ DOMAIN writes' = DOMAIN writes
      /\ writes'[i] = [writes[i] EXCEPT
                         !.view = Outlive(writes[i].view, sendBuf, n + HLen)]
  BY <1>1 DEF WriteAppend
<1>3. Outlive(writes[i].view, sendBuf, n + HLen).len = writes[i].view.len
  BY <1>1 DEF Op, Views, Outlive
<1>. QED
  BY <1>1, <1>2, <1>3 DEF Op

LEMMA SendTypes ==
  ASSUME TypeOK
  PROVE  /\ Size(sendBuf) \in Nat /\ outGet \in Nat /\ wirePos \in Nat
         /\ isWriting \in BOOLEAN
         /\ pc \in [Threads -> Places] /\ ret \in [Threads -> Places]
         /\ compl \in [Threads -> [ec : Codes, len : Nat]]
         /\ writes \in Seq(Op) /\ Len(writes) \in Nat
         /\ DOMAIN writes = 1 .. Len(writes)
         /\ (writes = <<>> <=> Len(writes) = 0)
         /\ \A i \in DOMAIN writes :
              /\ writes[i] \in Op
              /\ writes[i].at \in Nat /\ writes[i].len \in Nat
              /\ writes[i].view.len \in Nat
<1>1. Size(sendBuf) \in Nat
  BY DEF TypeOK, Streambufs, WellFormed, Size
<1>2. writes \in Seq(Op)
  BY DEF TypeOK
<1>3. \A i \in DOMAIN writes : writes[i] \in Op
  BY <1>2, LenProperties
<1>. QED
  BY <1>1, <1>2, <1>3, LenProperties, EmptySeq DEF TypeOK, Op, Views
-----------------------------------------------------------------------------
LEMMA SendNext ==
  TypeOK /\ TypeOK' /\ ReturnInv /\ WriterInv /\ SendInv /\ [Next]_vars => SendInv'
<1>. SUFFICES ASSUME TypeOK, TypeOK', ReturnInv, WriterInv, SendInv, [Next]_vars
              PROVE  SendInv'
  OBVIOUS
<1>0. Size(sendBuf) \in Nat /\ outGet \in Nat /\ wirePos \in Nat
  BY SendTypes
<1>1. ASSUME NEW t \in Threads, NEW n \in OutSizes, WriteAppend(t, n)
      PROVE  SendInv'
  <2>1. UNCHANGED <<outGet, wirePos, isWriting, compl>>
    BY <1>1 DEF WriteAppend, wireVars
  <2>2. Size(sendBuf)' = Size(sendBuf) + n + HLen /\ n + HLen \in Nat
    <3>1. n + HLen \in Nat /\ n \in Nat /\ HLen \in Nat
      BY SessionAssumption
    <3>2. Size(sendBuf') = Size(sendBuf) + (n + HLen)
      BY <1>1, <3>1, CommitAppends DEF TypeOK, WriteAppend
    <3>. QED
      BY <1>0, <3>1, <3>2
  <2>3. \A i \in DOMAIN writes' :
          /\ i \in DOMAIN writes
          /\ writes'[i].at = writes[i].at /\ writes'[i].len = writes[i].len
          /\ writes'[i].st = writes[i].st
          /\ writes'[i].view.len = writes[i].view.len
    <3>1. DOMAIN writes' = DOMAIN writes
      BY <1>1 DEF WriteAppend
    <3>. QED
      BY <1>1, <3>1, OpsOutlive
  <2>4. \A u \in Threads :
          /\ pc'[u] \in {"writeDone", "writeBody"} => pc'[u] = pc[u]
          /\ pc'[u] \in {"doWrite", "startWrite"} => pc'[u] = pc[u] \/ ~isWriting
    BY <1>1, SendTypes DEF WriteAppend, Goto, Return, ReturnInv, Calling, Callbacks
  <2>5. outGet <= wirePos /\ wirePos <= OutEnd'
    <3>1. n \in Nat /\ HLen \in Nat
      BY SessionAssumption
    <3>2. outGet <= wirePos /\ wirePos <= outGet + Size(sendBuf)
      BY DEF SendInv, OutEnd
    <3>3. OutEnd' = outGet + Size(sendBuf)'
      BY <2>1 DEF OutEnd
    <3>. QED
      BY <1>0, <2>2, <3>1, <3>2, <3>3
  <2>6. \A u \in Threads :
          /\ pc'[u] \in {"doWrite", "startWrite"} => wirePos = outGet
          /\ pc'[u] \in {"writeDone", "writeBody"} => wirePos = outGet + compl[u].len
    BY <2>4 DEF SendInv
  <2>7. ASSUME NEW i \in DOMAIN writes'
        PROVE  /\ writes'[i].at = outGet
               /\ writes'[i].view.len <= Size(sendBuf)'
               /\ wirePos = outGet + writes'[i].len
               /\ writes'[i].st = "queued" => writes'[i].len = 0
    <3>1. writes'[i].view.len \in Nat /\ writes'[i].view.len <= Size(sendBuf)
      BY <2>3, SendTypes DEF SendInv
    <3>2. n \in Nat /\ HLen \in Nat
      BY SessionAssumption
    <3>. QED
      BY <1>0, <2>2, <2>3, <3>1, <3>2 DEF SendInv
  <2>. QED
    BY <2>1, <2>5, <2>6, <2>7 DEF SendInv
<1>2. ASSUME NEW t \in Threads, DoWrite(t)  PROVE SendInv'
  <2>1. /\ UNCHANGED <<outGet, wirePos, compl, writes, sendBuf>>
        /\ wirePos = outGet
        /\ \A u \in Threads : pc'[u] \in {"writeDone", "writeBody"} => pc'[u] = pc[u]
    BY <1>2, SendTypes DEF DoWrite, FindsRunning, wireVars, opVars, SendInv, Goto,
       Return, ReturnInv, Calling, Callbacks
  <2>. QED
    BY <1>0, <2>1 DEF SendInv, OutEnd
<1>3. ASSUME NEW t \in Threads, StartWrite(t)  PROVE SendInv'
  <2>1. /\ UNCHANGED <<outGet, wirePos, compl, sendBuf, isWriting>>
        /\ wirePos = outGet /\ writes = <<>>
        /\ \A u \in Threads :
             /\ pc'[u] \in {"writeDone", "writeBody"} => pc'[u] = pc[u]
    BY <1>3, SendTypes DEF StartWrite, wireVars, SendInv, Goto, Return,
       ReturnInv, Calling, Callbacks, WriterInv, SingleWriter, WriteOwner
  <2>2. writes' = <<NewOp(outGet, Data(sendBuf))>>
    BY <1>3, <2>1 DEF StartWrite
  <2>3. /\ writes'[1].at = outGet /\ writes'[1].len = 0
        /\ writes'[1].view.len = Size(sendBuf)
        /\ DOMAIN writes' = {1}
    BY <2>2 DEF NewOp, Data
  <2>. QED
    BY <1>0, <2>1, <2>3 DEF SendInv, OutEnd
<1>4. ASSUME NEW t \in Threads, WriteFailed(t)  PROVE SendInv'
  <2>1. /\ UNCHANGED <<outGet, wirePos, compl, writes, sendBuf, isWriting>>
        /\ \A u \in Threads : u # t => pc'[u] = pc[u]
        /\ pc'[t] = "onWriteError"
    BY <1>4, SendTypes DEF WriteFailed, wireVars, opVars, Goto
  <2>. QED
    BY <1>0, <2>1 DEF SendInv, OutEnd
<1>5. ASSUME NEW t \in Threads, WriteConsume(t)  PROVE SendInv'
  <2>1. /\ UNCHANGED <<wirePos, compl, writes, isWriting>>
        /\ \A u \in Threads : u # t => pc'[u] = pc[u]
        /\ pc[t] = "writeBody" /\ pc'[t] = "doWrite"
    BY <1>5, SendTypes DEF WriteConsume, wireVars, opVars, Goto
  <2>2. compl[t].len \in Nat /\ wirePos = outGet + compl[t].len
        /\ compl[t].len <= Size(sendBuf)
    BY <1>0, <2>1, SendTypes DEF SendInv, OutEnd
  <2>3. Size(sendBuf') = Size(sendBuf) - compl[t].len
    BY <1>0, <1>5, <2>2, ConsumeDrops DEF TypeOK, WriteConsume, LesserOf
  <2>4. outGet' = outGet + Size(sendBuf) - Size(sendBuf')
    BY <1>5 DEF WriteConsume
  <2>5. outGet' = wirePos /\ OutEnd' = OutEnd
    BY <1>0, <2>2, <2>3, <2>4 DEF OutEnd
  <2>6. writes = <<>> /\ \A u \in Threads : u # t => ~WriteOwner(u)
    BY <2>1 DEF WriterInv, SingleWriter, WriteOwner
  <2>. QED
    BY <1>0, <2>1, <2>5, <2>6, SendTypes, SMTT(60) DEF SendInv, WriteOwner, OutEnd
<1>6. ASSUME NEW t \in Threads, EarlyReturn(t)  PROVE SendInv'
  <2>1. /\ UNCHANGED <<outGet, wirePos, compl, writes, sendBuf, isWriting>>
        /\ \A u \in Threads : u # t => pc'[u] = pc[u]
        /\ pc'[t] \in Calling \cup {"idle"}
    BY <1>6, SendTypes DEF EarlyReturn, wireVars, opVars, Goto, Return, ReturnInv
  <2>. QED
    BY <1>0, <2>1 DEF SendInv, OutEnd, Calling, Callbacks
<1>7. ASSUME NEW t \in Threads, TakeWrite(t)  PROVE SendInv'
  <2>1. /\ UNCHANGED <<outGet, wirePos, sendBuf, isWriting>>
        /\ \A u \in Threads : u # t => pc'[u] = pc[u] /\ compl'[u] = compl[u]
        /\ pc'[t] = "writeDone" /\ compl'[t].len = writes[1].len
    BY <1>7, SendTypes DEF TakeWrite, wireVars, sendVars, Goto
  <2>2. writes # <<>> /\ writes' = Tail(writes)
    BY <1>7 DEF TakeWrite
  <2>3. Len(writes) = 1 /\ 1 \in DOMAIN writes /\ DOMAIN writes' = {}
    <3>1. Len(writes) = 1 /\ 1 \in DOMAIN writes
      BY <2>2, SendTypes DEF WriterInv, SingleWriter
    <3>2. Len(Tail(writes)) = 0 /\ Tail(writes) \in Seq(Op)
      BY <2>2, <3>1, SendTypes, HeadTailProperties
    <3>. QED
      BY <2>2, <3>1, <3>2, LenProperties
  <2>. QED
    BY <1>0, <2>1, <2>3 DEF SendInv, OutEnd
<1>8. ASSUME ~ \E t \in Threads :
             \/ \E n \in OutSizes : WriteAppend(t, n)
             \/ DoWrite(t) \/ StartWrite(t) \/ WriteFailed(t) \/ WriteConsume(t)
             \/ EarlyReturn(t) \/ TakeWrite(t)
      PROVE  SendInv'
  <2>1. WritersStill
    BY <1>8, WritersMoved
  <2>2. UNCHANGED <<isWriting, sendBuf, outGet>>
    BY <1>8, SendOrNot
  <2>3. CASE UNCHANGED <<writes, wirePos>>
    BY <1>0, <2>1, <2>2, <2>3 DEF SendInv, OutEnd, WritersStill
  <2>4. ASSUME NEW t \in Threads, StopClose(t)  PROVE SendInv'
    <3>1. wirePos' = wirePos /\ writes' = Aborted(writes)
      BY <2>4 DEF StopClose, wireVars
    <3>2. \A i \in DOMAIN writes' :
            /\ i \in DOMAIN writes
            /\ writes'[i].at = writes[i].at /\ writes'[i].view = writes[i].view
            /\ writes'[i].st = "done" /\ writes'[i].len = writes[i].len
      <4>1. DOMAIN writes' = DOMAIN writes
        BY <3>1 DEF Aborted
      <4>2. ASSUME NEW i \in DOMAIN writes
            PROVE  /\ writes'[i].at = writes[i].at /\ writes'[i].view = writes[i].view
                   /\ writes'[i].st = "done" /\ writes'[i].len = writes[i].len
        <5>1. writes \in Seq(Op) /\ (writes[i].st = "queued" => writes[i].len = 0)
          BY SendTypes DEF SendInv
        <5>. QED
          BY <3>1, <5>1, OpsAborted
      <4>. QED
        BY <4>1, <4>2
    <3>. QED
      BY <1>0, <2>1, <2>2, <3>1, <3>2 DEF SendInv, OutEnd, WritersStill
  <2>5. ASSUME NEW i \in DOMAIN writes, NEW n \in 1 .. writes[i].view.len,
               PerformWrite(i, n)
        PROVE  SendInv'
    <3>0. n \in Nat /\ writes[i].view.len \in Nat /\ n <= writes[i].view.len
      BY SendTypes
    <3>1. /\ wirePos' = wirePos + n /\ writes[i].st = "queued"
          /\ writes' = [writes EXCEPT ![i] = Finish(@, "ok", n)]
      BY <2>5, Zenon DEF PerformWrite, Next1st
    <3>2. /\ writes'[i].at = writes[i].at /\ writes'[i].view = writes[i].view
          /\ writes'[i].st = "done" /\ writes'[i].len = n
          /\ DOMAIN writes' = DOMAIN writes
      BY <3>0, <3>1, OpsFinished, SendTypes, SMTT(60) DEF Codes
    <3>3. writes # <<>> /\ \A j \in DOMAIN writes : j = i
      BY SendTypes DEF WriterInv, SingleWriter
    <3>4. isWriting /\ \A u \in Threads : ~WriteOwner(u)
      BY <3>3 DEF WriterInv, SingleWriter
    <3>5. \A u \in Threads : ~WriteOwner(u)'
      BY <2>1, <3>4 DEF WritersStill, WriteOwner
    <3>6. wirePos = outGet /\ n <= Size(sendBuf)
      BY <1>0, <3>0, <3>1 DEF SendInv
    <3>. QED
      BY <1>0, <2>2, <3>0, <3>1, <3>2, <3>3, <3>4, <3>5, <3>6
         DEF SendInv, OutEnd, WriteOwner
  <2>6. ASSUME NEW i \in DOMAIN writes, FailWrite(i)  PROVE SendInv'
    <3>1. /\ wirePos' = wirePos /\ writes[i].st = "queued"
          /\ writes' = [writes EXCEPT ![i] = Finish(@, "error", 0)]
      BY <2>6, Zenon DEF FailWrite, Next1st, wireVars
    <3>2. /\ writes'[i].at = writes[i].at /\ writes'[i].view = writes[i].view
          /\ writes'[i].st = "done" /\ writes'[i].len = 0
          /\ DOMAIN writes' = DOMAIN writes
      <4>1. writes \in Seq(Op) /\ "error" \in Codes /\ 0 \in Nat
        BY SendTypes DEF Codes
      <4>. QED
        BY <3>1, <4>1, OpsFinished
    <3>3. \A j \in DOMAIN writes : j = i
      BY SendTypes DEF WriterInv, SingleWriter
    <3>. QED
      BY <1>0, <2>1, <2>2, <3>1, <3>2, <3>3 DEF SendInv, OutEnd, WritersStill
  <2>. QED
    BY <1>8, <2>3, <2>4, <2>5, <2>6, SendOrNot
<1>. QED
  BY <1>1, <1>2, <1>3, <1>4, <1>5, <1>6, <1>7, <1>8

LEMMA SendInit == Init => SendInv
BY SessionAssumption DEF Init, SendInv, OutEnd, Size, NewStreambuf

(* Every byte is sent from its place in the stream and consumed once, and  *)
(* send_buf drops none the kernel has not taken.                           *)
THEOREM NothingLostOrRepeated == Spec => []SendAccounting
<1>1. Init => SendInv
  BY SendInit
<1>2. TypeOK /\ TypeOK' /\ ReturnInv /\ WriterInv /\ SendInv /\ [Next]_vars
        => ReturnInv' /\ WriterInv' /\ SendInv'
  BY ReturnNext, WriterNext, SendNext
<1>3. TypeOK /\ SendInv => SendAccounting
  <2>. SUFFICES ASSUME TypeOK, SendInv  PROVE SendAccounting
    OBVIOUS
  <2>1. outGet \in Nat /\ wirePos \in Nat
    BY SendTypes
  <2>2. \A i \in DOMAIN writes : writes[i].st = "queued" => writes[i].at = wirePos
    BY <2>1 DEF SendInv
  <2>. QED
    BY <2>1, <2>2 DEF SendInv, SendAccounting
<1>. QED
  BY WriterInit, <1>1, <1>2, <1>3, TypesKept, PTL DEF Spec
-----------------------------------------------------------------------------
(* A call of error_callback is a failure of its direction and no other.    *)
LEMMA FailureAdded ==
  ASSUME TypeOK, NEW d \in {"read", "write"}, NEW ec \in Codes,
         errs' = Append(errs, [dir |-> d, ec |-> ec])
  PROVE  /\ Failed(d)'
         /\ \A e \in {"read", "write"} : e # d => (Failed(e)' <=> Failed(e))
         /\ ~Failed(d) /\ ErrorOnce => ErrorOnce'
<1>. DEFINE L == Len(errs)
<1>1. /\ L \in Nat /\ Len(errs') = L + 1 /\ DOMAIN errs = 1 .. L
      /\ DOMAIN errs' = 1 .. L + 1
      /\ errs'[L + 1] = [dir |-> d, ec |-> ec]
      /\ \A i \in 1 .. L : errs'[i] = errs[i]
  BY LenProperties, AppendProperties DEF TypeOK
<1>. HIDE DEF L
<1>2. errs'[L + 1].dir = d
  BY <1>1
<1>3. Failed(d)'
  BY <1>1, <1>2 DEF Failed
<1>4. ASSUME NEW e \in {"read", "write"}, e # d  PROVE Failed(e)' <=> Failed(e)
  BY <1>1, <1>2, <1>4 DEF Failed
<1>5. ASSUME ~Failed(d), ErrorOnce  PROVE ErrorOnce'
  BY <1>1, <1>2, <1>5 DEF ErrorOnce, Failed
<1>. QED
  BY <1>3, <1>4, <1>5

LEMMA OtherErrs ==
  ASSUME [Next]_vars, ~ \E t \in Threads : WriteFailed(t) \/ ReadFailed(t)
  PROVE  errs' = errs
<1>1. ASSUME NEW t \in Threads, NEW n \in OutSizes, WriteAppend(t, n)
      PROVE  errs' = errs
  BY <1>1 DEF WriteAppend
<1>2. ASSUME NEW t \in Threads,
             \/ DoWrite(t) \/ StartWrite(t) \/ WriteConsume(t)
             \/ EarlyReturn(t) \/ TakeWrite(t)
      PROVE  errs' = errs
  BY <1>2 DEF DoWrite, StartWrite, WriteConsume, EarlyReturn, TakeWrite
<1>. QED
  BY <1>1, <1>2, SendOrNot
-----------------------------------------------------------------------------
(* Until stop() is called nobody is turned away by stop_mtx.               *)
LEMMA RunningKept ==
  ASSUME FlagInv, [Next]_vars, ~stopped'
  PROVE  ~stopped /\ ~ \E t \in Threads : EarlyReturn(t)
<1>1. ASSUME NEW t \in Threads, StopUnlock(t)  PROVE FALSE
  BY <1>1 DEF StopUnlock
<1>2. UNCHANGED vars => stopped' = stopped
  BY DEF vars, flagVars
<1>3. CASE Next
  BY <1>1, <1>3, NextCases, ZenonT(60)
     DEF flagVars, CallWrite, CallStart, CallStop, WriteAppend, DoWrite,
         StartWrite, WriteFailed, GuardInBranch, WriteConsume, StartRead,
         ReadFailed, ReadCommit, ParseHeader, DeliverPacket, ReadOn,
         FindStopped, EarlyReturn, FindRunning, StopShutdown, StopClose,
         PacketReturn, CallbackReturn, TakeRead, TakeWrite, PerformRead,
         FailRead, PerformWrite, FailWrite, PeerWrite, PeerClose, PeerReset,
         FlagInv
<1>4. CASE UNCHANGED vars
  <2>1. ~stopped /\ window = {}
    BY <1>2, <1>4 DEF FlagInv
  <2>. QED
    BY <2>1 DEF EarlyReturn
<1>. QED
  BY <1>3, <1>4

LEMMA RefillNext ==
  TypeOK /\ TypeOK' /\ FlagInv /\ ReturnInv /\ WriterInv /\ RefillInv /\ [Next]_vars
    => RefillInv'
<1>. SUFFICES ASSUME TypeOK, TypeOK', FlagInv, ReturnInv, WriterInv, RefillInv,
                     [Next]_vars, ~stopped'
              PROVE  RefillInv'
  BY DEF RefillInv
<1>0. ~stopped /\ ~ \E t \in Threads : EarlyReturn(t)
  BY RunningKept
<1>a. /\ pc \in [Threads -> Places] /\ Len(writes) \in Nat /\ Len(writes') \in Nat
      /\ (writes = <<>> <=> Len(writes) = 0) /\ (writes' = <<>> <=> Len(writes') = 0)
  BY SendTypes, LenProperties, EmptySeq DEF TypeOK
<1>b. /\ isWriting /\ ~Failed("write") =>
           writes # <<>> \/ \E t \in Threads : WriteOwner(t)
      /\ ~isWriting /\ ~sendMtx => Size(sendBuf) = 0
  BY <1>0 DEF RefillInv
<1>1. ASSUME NEW t \in Threads, NEW n \in OutSizes, WriteAppend(t, n)
      PROVE  RefillInv'
  <2>1. isWriting' = isWriting /\ errs' = errs /\ Len(writes') = Len(writes)
    BY <1>1, WritesKept DEF WriteAppend, StartWrite, TakeWrite
  <2>2. pc[t] = "append" /\ \A u \in Threads : u # t => pc'[u] = pc[u]
    BY <1>a, <1>1 DEF WriteAppend, Goto, Return
  <2>3. ~isWriting => sendMtx'
    BY <1>1 DEF WriteAppend
  <2>. QED
    BY <1>a, <1>b, <2>1, <2>2, <2>3 DEF RefillInv, WriteOwner, Failed
<1>2. ASSUME NEW t \in Threads, DoWrite(t)  PROVE RefillInv'
  <2>1. CASE Size(sendBuf) = 0
    BY <1>2, <2>1 DEF DoWrite, StillWriting, RefillInv
  <2>2. CASE Size(sendBuf) # 0
    BY <1>a, <1>2, <2>2 DEF DoWrite, StillWriting, Goto, RefillInv, WriteOwner
  <2>. QED
    BY <2>1, <2>2
<1>3. ASSUME NEW t \in Threads, StartWrite(t)  PROVE RefillInv'
  <2>1. pc[t] = "startWrite" /\ isWriting' = isWriting
        /\ writes' = Append(writes, NewOp(outGet, Data(sendBuf)))
    BY <1>3 DEF StartWrite
  <2>2. isWriting
    BY <2>1 DEF WriterInv, SingleWriter, WriteOwner
  <2>3. writes = <<>>
    BY <2>1 DEF WriterInv, SingleWriter, WriteOwner
  <2>4. writes' # <<>>
    BY <2>1, <2>3
  <2>. QED
    BY <2>1, <2>2, <2>4 DEF RefillInv
<1>4. ASSUME NEW t \in Threads, WriteFailed(t)  PROVE RefillInv'
  <2>1. /\ pc[t] = "writeBody" /\ isWriting' = isWriting
        /\ errs' = Append(errs, [dir |-> "write", ec |-> compl[t].ec])
    BY <1>4 DEF WriteFailed
  <2>2. isWriting
    BY <2>1 DEF WriterInv, SingleWriter, WriteOwner
  <2>3. compl[t].ec \in Codes
    BY DEF TypeOK
  <2>4. Failed("write")'
    BY <2>1, <2>3, FailureAdded
  <2>. QED
    BY <2>1, <2>2, <2>4 DEF RefillInv
<1>5. ASSUME NEW t \in Threads, WriteConsume(t)  PROVE RefillInv'
  BY <1>a, <1>5 DEF WriteConsume, Goto, RefillInv, WriteOwner
<1>6. ASSUME NEW t \in Threads, TakeWrite(t)  PROVE RefillInv'
  <2>1. isWriting' = isWriting /\ writes # <<>> /\ pc'[t] = "writeDone"
    BY <1>a, <1>6 DEF TakeWrite, sendVars, Goto
  <2>2. isWriting
    BY <2>1 DEF WriterInv, SingleWriter
  <2>. QED
    BY <2>1, <2>2 DEF RefillInv, WriteOwner
<1>7. ASSUME ~ \E t \in Threads :
             \/ \E n \in OutSizes : WriteAppend(t, n)
             \/ DoWrite(t) \/ StartWrite(t) \/ WriteFailed(t) \/ WriteConsume(t)
             \/ EarlyReturn(t) \/ TakeWrite(t)
      PROVE  RefillInv'
  <2>1. WritersStill
    BY <1>7, WritersMoved
  <2>2. UNCHANGED <<sendMtx, isWriting, sendBuf>>
    BY <1>7, SendOrNot
  <2>3. Len(writes') = Len(writes)
    BY <1>7, WritesKept
  <2>4. Failed("write") => Failed("write")'
    <3>1. CASE errs' = errs
      BY <3>1 DEF Failed
    <3>2. ASSUME NEW t \in Threads, ReadFailed(t)
          PROVE  Failed("write") => Failed("write")'
      <4>1. /\ compl[t].ec \in Codes
            /\ errs' = Append(errs, [dir |-> "read", ec |-> compl[t].ec])
        BY <3>2 DEF TypeOK, ReadFailed
      <4>. QED
        BY <4>1, FailureAdded
    <3>. QED
      BY <1>7, <3>1, <3>2, OtherErrs
  <2>5. \A u \in Threads : WriteOwner(u)' <=> WriteOwner(u)
    BY <2>1 DEF WritersStill, WriteOwner
  <2>. QED
    BY <1>a, <1>b, <2>2, <2>3, <2>4, <2>5 DEF RefillInv
<1>. QED
  BY <1>0, <1>1, <1>2, <1>3, <1>4, <1>5, <1>6, <1>7

(* A packet in send_buf is somebody's to send: between the check of        *)
(* is_writing in write() and the refill in the handler none is forgotten.  *)
THEOREM NothingStranded == Spec => []NoStrandedPacket
<1>1. Init => FlagInv /\ RefillInv
  BY DEF Init, FlagInv, RefillInv, Size, NewStreambuf
<1>2. /\ TypeOK /\ TypeOK' /\ FlagInv /\ ReturnInv /\ WriterInv /\ RefillInv
      /\ [Next]_vars
      => FlagInv' /\ ReturnInv' /\ WriterInv' /\ RefillInv'
  BY FlagNext, ReturnNext, WriterNext, RefillNext
<1>3. TypeOK /\ WriterInv /\ RefillInv => NoStrandedPacket
  <2>. SUFFICES ASSUME TypeOK, WriterInv, RefillInv, Size(sendBuf) > 0, ~sendMtx,
                       ~stopped, ~Failed("write"), writes = <<>>
                PROVE  \E t \in Threads : pc[t] \in {"writeDone", "writeBody"}
    BY DEF NoStrandedPacket
  <2>1. Size(sendBuf) # 0
    BY SendTypes
  <2>2. isWriting
    BY <2>1 DEF RefillInv
  <2>3. PICK t \in Threads : WriteOwner(t)
    BY <2>2 DEF RefillInv
  <2>4. pc[t] \notin {"doWrite", "startWrite"}
    BY DEF WriterInv
  <2>. QED
    BY <2>3, <2>4 DEF WriteOwner
<1>. QED
  BY WriterInit, <1>1, <1>2, <1>3, TypesKept, PTL DEF Spec
-----------------------------------------------------------------------------
(* After a failed write nothing makes a thread send again.                 *)
LEMMA WriteStaysFailed ==
  ASSUME TypeOK, TypeOK', ReturnInv, WriterInv, [Next]_vars,
         isWriting, writes = <<>>, \A u \in Threads : ~WriteOwner(u)
  PROVE  isWriting' /\ writes' = <<>> /\ \A u \in Threads : ~WriteOwner(u)'
<1>0. /\ pc \in [Threads -> Places] /\ ret \in [Threads -> Places]
      /\ Len(writes) = 0 /\ (writes' = <<>> <=> Len(writes') = 0)
  BY SendTypes, LenProperties, EmptySeq DEF TypeOK
<1>1. ASSUME NEW t \in Threads, NEW n \in OutSizes, WriteAppend(t, n)
      PROVE  isWriting' /\ writes' = <<>> /\ \A u \in Threads : ~WriteOwner(u)'
  <2>1. isWriting' = isWriting /\ Len(writes') = Len(writes)
    BY <1>1, WritesKept DEF WriteAppend, StartWrite, TakeWrite
  <2>2. \A u \in Threads : pc'[u] \in {pc[u], ret[u]}
    BY <1>0, <1>1 DEF WriteAppend, Goto, Return
  <2>. QED
    BY <1>0, <2>1, <2>2 DEF WriteOwner, ReturnInv, Calling, Callbacks
<1>2. ASSUME NEW t \in Threads, EarlyReturn(t)
      PROVE  isWriting' /\ writes' = <<>> /\ \A u \in Threads : ~WriteOwner(u)'
  <2>1. isWriting' = isWriting /\ writes' = writes
    BY <1>2 DEF EarlyReturn, opVars
  <2>2. \A u \in Threads : pc'[u] \in {pc[u], ret[u]}
    BY <1>0, <1>2 DEF EarlyReturn, Goto, Return
  <2>. QED
    BY <1>0, <2>1, <2>2 DEF WriteOwner, ReturnInv, Calling, Callbacks
<1>3. ASSUME NEW t \in Threads,
             \/ DoWrite(t) \/ StartWrite(t) \/ WriteFailed(t) \/ WriteConsume(t)
             \/ TakeWrite(t)
      PROVE  FALSE
  BY <1>3 DEF DoWrite, FindsRunning, StartWrite, WriteFailed, WriteConsume,
     TakeWrite, WriteOwner
<1>4. ASSUME ~ \E t \in Threads :
             \/ \E n \in OutSizes : WriteAppend(t, n)
             \/ DoWrite(t) \/ StartWrite(t) \/ WriteFailed(t) \/ WriteConsume(t)
             \/ EarlyReturn(t) \/ TakeWrite(t)
      PROVE  isWriting' /\ writes' = <<>> /\ \A u \in Threads : ~WriteOwner(u)'
  <2>1. WritersStill
    BY <1>4, WritersMoved
  <2>2. isWriting' = isWriting /\ Len(writes') = Len(writes)
    BY <1>4, SendOrNot, WritesKept
  <2>. QED
    BY <1>0, <2>1, <2>2 DEF WritersStill, WriteOwner
<1>. QED
  BY <1>1, <1>2, <1>3, <1>4

(* After a failed read nothing makes a thread read again.                  *)
LEMMA ReadStaysFailed ==
  ASSUME TypeOK, TypeOK', ReturnInv, ReaderInv, [Next]_vars,
         started, reads = <<>>, \A u \in Threads : ~ReadOwner(u)
  PROVE  started' /\ reads' = <<>> /\ \A u \in Threads : ~ReadOwner(u)'
<1>0. Len(reads) = 0 /\ (reads' = <<>> <=> Len(reads') = 0)
  BY LenProperties, EmptySeq DEF TypeOK
<1>1. ~ \E t \in Threads : CallStart(t) \/ TakeRead(t) \/ StartRead(t)
  BY DEF CallStart, Starts, TakeRead, StartRead, ReadOwner
<1>2. \A u \in Threads : ~ReadOwner(u)'
  BY <1>1, ReadersKept
<1>3. Len(reads') = Len(reads)
  BY <1>1, ReadsKept
<1>4. started'
  <2>1. ReaderInv'
    BY ReaderNext
  <2>2. started' = started
    BY <1>1, NextCases, ZenonT(60)
       DEF vars, callVars, CallWrite, CallStop, WriteAppend, DoWrite, StartWrite,
         WriteFailed, GuardInBranch, WriteConsume, ReadFailed, ReadCommit, ParseHeader,
         DeliverPacket, ReadOn, FindStopped, EarlyReturn, FindRunning,
         StopUnlock, StopShutdown, StopClose, PacketReturn, CallbackReturn,
         TakeWrite, PerformRead, FailRead, PerformWrite, FailWrite, PeerWrite,
         PeerClose, PeerReset
  <2>. QED
    BY <2>2
<1>. QED
  BY <1>0, <1>2, <1>3, <1>4

LEMMA FailNext ==
  TypeOK /\ TypeOK' /\ ReturnInv /\ ReaderInv /\ WriterInv /\ FailInv /\ [Next]_vars
    => FailInv'
<1>. SUFFICES ASSUME TypeOK, TypeOK', ReturnInv, ReaderInv, WriterInv, FailInv,
                     [Next]_vars
              PROVE  FailInv'
  OBVIOUS
<1>0. pc \in [Threads -> Places] /\ \A t \in Threads : compl[t].ec \in Codes
  BY DEF TypeOK
<1>1. Failed("write") =>
        isWriting' /\ writes' = <<>> /\ \A u \in Threads : ~WriteOwner(u)'
  BY WriteStaysFailed DEF FailInv
<1>2. Failed("read") =>
        started' /\ reads' = <<>> /\ \A u \in Threads : ~ReadOwner(u)'
  BY ReadStaysFailed DEF FailInv
<1>3. ASSUME NEW t \in Threads, WriteFailed(t)  PROVE FailInv'
  <2>1. /\ pc[t] = "writeBody" /\ pc'[t] = "onWriteError"
        /\ \A u \in Threads : u # t => pc'[u] = pc[u]
        /\ UNCHANGED <<isWriting, writes>>
        /\ errs' = Append(errs, [dir |-> "write", ec |-> compl[t].ec])
    BY <1>0, <1>3 DEF WriteFailed, Goto, opVars
  <2>2. ~Failed("write") /\ ErrorOnce
    BY <2>1 DEF FailInv, WriteOwner
  <2>3. ErrorOnce' /\ (Failed("read")' <=> Failed("read"))
    BY <1>0, <2>1, <2>2, FailureAdded
  <2>4. isWriting /\ writes = <<>> /\ \A u \in Threads : u # t => ~WriteOwner(u)
    BY <2>1 DEF WriterInv, SingleWriter, WriteOwner
  <2>5. \A u \in Threads : ~WriteOwner(u)'
    BY <2>1, <2>4 DEF WriteOwner
  <2>. QED
    BY <1>2, <2>1, <2>3, <2>4, <2>5 DEF FailInv
<1>4. ASSUME NEW t \in Threads, ReadFailed(t)  PROVE FailInv'
  <2>1. /\ pc[t] = "readBody" /\ pc'[t] = "onReadError"
        /\ \A u \in Threads : u # t => pc'[u] = pc[u] /\ ret'[u] = ret[u]
        /\ UNCHANGED <<started, reads>>
        /\ errs' = Append(errs, [dir |-> "read", ec |-> compl[t].ec])
    BY <1>0, <1>4 DEF ReadFailed, Goto, opVars, callVars
  <2>2. ~Failed("read") /\ ErrorOnce
    BY <2>1 DEF FailInv, ReadOwner
  <2>3. ErrorOnce' /\ (Failed("write")' <=> Failed("write"))
    BY <1>0, <2>1, <2>2, FailureAdded
  <2>4. started /\ reads = <<>> /\ \A u \in Threads : u # t => ~ReadOwner(u)
    BY <2>1 DEF ReaderInv, SingleReader, ReadOwner
  <2>5. \A u \in Threads : ~ReadOwner(u)'
    BY <2>1, <2>4 DEF ReadOwner, InCall
  <2>. QED
    BY <1>1, <2>1, <2>3, <2>4, <2>5 DEF FailInv
<1>5. ASSUME ~ \E t \in Threads : WriteFailed(t) \/ ReadFailed(t)
      PROVE  FailInv'
  <2>1. errs' = errs
    BY <1>5, OtherErrs
  <2>2. ErrorOnce' /\ \A d \in {"read", "write"} : Failed(d)' <=> Failed(d)
    BY <2>1 DEF FailInv, ErrorOnce, Failed
  <2>. QED
    BY <1>1, <1>2, <2>2 DEF FailInv
<1>. QED
  BY <1>3, <1>4, <1>5

LEMMA ReaderInit == Init => ReturnInv /\ ReaderInv
BY EmptySeq DEF Init, ReturnInv, ReaderInv, SingleReader, ReadOwner, InCall,
   Calling, Callbacks, Probes

LEMMA FailInit == Init => FailInv
BY DEF Init, FailInv, ErrorOnce, Failed

(* error_callback is called at most once for reads and once for writes:    *)
(* what ServerTCP and ClientTCP count on when they end a connection in it. *)
THEOREM OneError == Spec => []ErrorOnce
<1>1. TypeOK /\ TypeOK' /\ ReturnInv /\ ReaderInv /\ WriterInv /\ FailInv
      /\ [Next]_vars
      => ReturnInv' /\ ReaderInv' /\ WriterInv' /\ FailInv'
  BY ReturnNext, ReaderNext, WriterNext, FailNext
<1>2. FailInv => ErrorOnce
  BY DEF FailInv
<1>. QED
  BY WriterInit, ReaderInit, FailInit, <1>1, <1>2, TypesKept, PTL DEF Spec

LEMMA FailStep ==
  ASSUME TypeOK, TypeOK', ReturnInv, ReaderInv, WriterInv, FailInv, [Next]_vars
  PROVE  /\ Failed("read") => /\ reads' = <<>>
                              /\ UNCHANGED <<recvPut, delivered>>
         /\ Failed("write") => /\ writes' = <<>>
                               /\ UNCHANGED <<wirePos, outGet>>
         /\ \A i \in DOMAIN errs' : i \in DOMAIN errs \/ ~Failed(errs'[i].dir)
<1>1. ASSUME Failed("read")
      PROVE  reads' = <<>> /\ UNCHANGED <<recvPut, delivered>>
  <2>0. started /\ reads = <<>> /\ \A t \in Threads : ~ReadOwner(t)
    BY <1>1 DEF FailInv
  <2>1. reads' = <<>>
    BY <2>0, ReadStaysFailed
  <2>2. ~ \E t \in Threads : ReadCommit(t) \/ DeliverPacket(t)
    BY <2>0 DEF ReadCommit, DeliverPacket, ReadOwner
  <2>3. recvPut' = recvPut
    <3>1. ASSUME NEW t \in Threads, StartRead(t) \/ TakeRead(t) \/ StopClose(t)
          PROVE  recvPut' = recvPut
      BY <3>1 DEF StartRead, TakeRead, StopClose, recvVars
    <3>2. DOMAIN reads = {}
      BY <2>0, LenProperties DEF TypeOK
    <3>. QED
      BY <2>2, <3>1, <3>2, ReadsOrNot
  <2>4. delivered' = delivered
    <3>1. ASSUME NEW t \in Threads, ParseHeader(t) \/ PacketReturn(t)
          PROVE  delivered' = delivered
      BY <3>1 DEF ParseHeader, PacketReturn
    <3>2. ASSUME NEW n \in InSizes, PeerWrite(n)  PROVE delivered' = delivered
      BY <3>2 DEF PeerWrite, recvVars
    <3>. QED
      BY <2>2, <3>1, <3>2, FramesOrNot
  <2>. QED
    BY <2>1, <2>3, <2>4
<1>2. ASSUME Failed("write")
      PROVE  writes' = <<>> /\ UNCHANGED <<wirePos, outGet>>
  <2>0. isWriting /\ writes = <<>> /\ \A t \in Threads : ~WriteOwner(t)
    BY <1>2 DEF FailInv
  <2>1. writes' = <<>>
    BY <2>0, WriteStaysFailed
  <2>2. ASSUME NEW t \in Threads, NEW n \in OutSizes, WriteAppend(t, n)
        PROVE  UNCHANGED <<wirePos, outGet>>
    BY <2>2 DEF WriteAppend, wireVars
  <2>3. ASSUME NEW t \in Threads, EarlyReturn(t)  PROVE UNCHANGED <<wirePos, outGet>>
    BY <2>3 DEF EarlyReturn, wireVars
  <2>4. ~ \E t \in Threads :
           \/ DoWrite(t) \/ StartWrite(t) \/ WriteFailed(t) \/ WriteConsume(t)
           \/ TakeWrite(t)
    BY <2>0 DEF DoWrite, FindsRunning, StartWrite, WriteFailed, WriteConsume,
       TakeWrite, WriteOwner
  <2>5. ASSUME NEW t \in Threads, StopClose(t)  PROVE wirePos' = wirePos
    BY <2>5 DEF StopClose, wireVars
  <2>6. DOMAIN writes = {}
    BY <2>0, SendTypes
  <2>. QED
    BY <2>1, <2>2, <2>3, <2>4, <2>5, <2>6, SendOrNot
<1>3. \A i \in DOMAIN errs' : i \in DOMAIN errs \/ ~Failed(errs'[i].dir)
  <2>1. ASSUME NEW d \in {"read", "write"}, NEW ec \in Codes, ~Failed(d),
               errs' = Append(errs, [dir |-> d, ec |-> ec]), NEW i \in DOMAIN errs'
        PROVE  i \in DOMAIN errs \/ ~Failed(errs'[i].dir)
    <3>1. /\ Len(errs) \in Nat /\ DOMAIN errs = 1 .. Len(errs)
          /\ DOMAIN errs' = 1 .. Len(errs) + 1
          /\ errs'[Len(errs) + 1] = [dir |-> d, ec |-> ec]
      BY <2>1, LenProperties, AppendProperties, SMTT(60) DEF TypeOK
    <3>2. i \in DOMAIN errs \/ errs'[i].dir = d
      BY <3>1
    <3>. QED
      BY <2>1, <3>2
  <2>2. ASSUME NEW t \in Threads, ReadFailed(t)
        PROVE  /\ ~Failed("read") /\ compl[t].ec \in Codes
               /\ errs' = Append(errs, [dir |-> "read", ec |-> compl[t].ec])
    BY <2>2 DEF ReadFailed, FailInv, ReadOwner, TypeOK
  <2>3. ASSUME NEW t \in Threads, WriteFailed(t)
        PROVE  /\ ~Failed("write") /\ compl[t].ec \in Codes
               /\ errs' = Append(errs, [dir |-> "write", ec |-> compl[t].ec])
    BY <2>3 DEF WriteFailed, FailInv, WriteOwner, TypeOK
  <2>4. CASE errs' = errs
    BY <2>4
  <2>. QED
    BY <2>1, <2>2, <2>3, <2>4, OtherErrs
<1>. QED
  BY <1>1, <1>2, <1>3

(* A failure is the end of its direction, whoever writes or stops besides. *)
THEOREM FailuresAreFinal == Spec => FailureIsFinal
<1>1. TypeOK /\ TypeOK' /\ ReturnInv /\ ReaderInv /\ WriterInv /\ FailInv
      /\ [Next]_vars
      => ReturnInv' /\ ReaderInv' /\ WriterInv' /\ FailInv'
  BY ReturnNext, ReaderNext, WriterNext, FailNext
<1>2. TypeOK /\ TypeOK' /\ ReturnInv /\ ReaderInv /\ WriterInv /\ FailInv
      /\ [Next]_vars
      => [/\ Failed("read") => /\ reads' = <<>>
                               /\ UNCHANGED <<recvPut, delivered>>
          /\ Failed("write") => /\ writes' = <<>>
                                /\ UNCHANGED <<wirePos, outGet>>
          /\ \A i \in DOMAIN errs' : i \in DOMAIN errs \/ ~Failed(errs'[i].dir)]_vars
  BY FailStep
<1>. QED
  BY WriterInit, ReaderInit, FailInit, <1>1, <1>2, TypesKept, PTL
     DEF Spec, FailureIsFinal
-----------------------------------------------------------------------------
(* The owner's view.  First, who reads goes on doing so, except in these   *)
(* steps.                                                                  *)
LEMMA ReadersStay ==
  ASSUME TypeOK, ReturnInv, [Next]_vars,
         ~ \E t \in Threads :
             \/ StartRead(t) \/ ReadFailed(t)
             \/ EarlyReturn(t) /\ pc[t] \in {"doRead", "readDone"},
         NEW u \in Threads, ReadOwner(u)
  PROVE  ReadOwner(u)'
<1>. USE DEF ReadOwner, InCall, Calling, Callbacks, Probes
<1>0. pc \in [Threads -> Places] /\ ret \in [Threads -> Places]
  BY DEF TypeOK
<1>1. CASE UNCHANGED <<pc, ret, window, compl>>
  BY <1>1
<1>2. ASSUME NEW t \in Threads, NEW n \in OutSizes, WriteAppend(t, n)
      PROVE  ReadOwner(u)'
  BY <1>0, <1>2 DEF WriteAppend, Goto, Return
<1>3. ASSUME NEW t \in Threads, CallWrite(t)  PROVE ReadOwner(u)'
  BY <1>0, <1>3 DEF CallWrite, Call, Goto
<1>4. ASSUME NEW t \in Threads, CallStart(t)  PROVE ReadOwner(u)'
  BY <1>0, <1>4 DEF CallStart, Starts, Call, Goto
<1>5. ASSUME NEW t \in Threads, CallStop(t)  PROVE ReadOwner(u)'
  BY <1>0, <1>5 DEF CallStop, Call, Goto
<1>6. ASSUME NEW t \in Threads, DoWrite(t)  PROVE ReadOwner(u)'
  BY <1>0, <1>6 DEF DoWrite, FindsRunning, Goto, Return
<1>7. ASSUME NEW t \in Threads, StartWrite(t)  PROVE ReadOwner(u)'
  BY <1>0, <1>7 DEF StartWrite, Goto, Return
<1>8. ASSUME NEW t \in Threads, WriteFailed(t)  PROVE ReadOwner(u)'
  BY <1>0, <1>8 DEF WriteFailed, Goto
<1>9. ASSUME NEW t \in Threads, WriteConsume(t)  PROVE ReadOwner(u)'
  BY <1>0, <1>9 DEF WriteConsume, Goto
<1>10. ASSUME NEW t \in Threads, ReadCommit(t)  PROVE ReadOwner(u)'
  BY <1>0, <1>10 DEF ReadCommit, Goto
<1>11. ASSUME NEW t \in Threads, DeliverPacket(t)  PROVE ReadOwner(u)'
  BY <1>0, <1>11 DEF DeliverPacket, Goto
<1>12. ASSUME NEW t \in Threads, ReadOn(t)  PROVE ReadOwner(u)'
  BY <1>0, <1>12 DEF ReadOn, Goto
<1>13. ASSUME NEW t \in Threads, FindStopped(t)  PROVE ReadOwner(u)'
  BY <1>0, <1>13 DEF FindStopped
<1>14. ASSUME NEW t \in Threads, EarlyReturn(t)  PROVE ReadOwner(u)'
  <2>1. /\ \A v \in Threads : v # t => pc'[v] = pc[v]
        /\ ret' = ret /\ pc'[t] = ret[t] /\ t \in window
    BY <1>0, <1>14 DEF EarlyReturn, Goto, Return
  <2>2. pc[t] \in Probes /\ pc[t] \notin {"doRead", "readDone"}
    BY <1>14, <2>1 DEF ReturnInv
  <2>. QED
    BY <2>1, <2>2
<1>15. ASSUME NEW t \in Threads, FindRunning(t)  PROVE ReadOwner(u)'
  BY <1>0, <1>15 DEF FindRunning, FindsRunning, Onward, Goto
<1>16. ASSUME NEW t \in Threads, StopUnlock(t)  PROVE ReadOwner(u)'
  BY <1>0, <1>16 DEF StopUnlock, Goto
<1>17. ASSUME NEW t \in Threads, StopShutdown(t)  PROVE ReadOwner(u)'
  BY <1>0, <1>17 DEF StopShutdown, Goto
<1>18. ASSUME NEW t \in Threads, StopClose(t)  PROVE ReadOwner(u)'
  BY <1>0, <1>18 DEF StopClose, Goto, Return
<1>19. ASSUME NEW t \in Threads, PacketReturn(t)  PROVE ReadOwner(u)'
  BY <1>0, <1>19 DEF PacketReturn, Goto
<1>20. ASSUME NEW t \in Threads, CallbackReturn(t)  PROVE ReadOwner(u)'
  BY <1>0, <1>20 DEF CallbackReturn, Goto
<1>21. ASSUME NEW t \in Threads, TakeRead(t)  PROVE ReadOwner(u)'
  BY <1>0, <1>21 DEF TakeRead, Goto
<1>22. ASSUME NEW t \in Threads, TakeWrite(t)  PROVE ReadOwner(u)'
  BY <1>0, <1>22 DEF TakeWrite, Goto
<1>. QED
  BY MoversOrStill, <1>1, <1>2, <1>3, <1>4, <1>5, <1>6, <1>7, <1>8, <1>9, <1>10,
     <1>11, <1>12, <1>13, <1>14, <1>15, <1>16, <1>17, <1>18, <1>19, <1>20, <1>21, <1>22

LEMMA StartedKept ==
  ASSUME [Next]_vars, ~ \E t \in Threads : CallStart(t)
  PROVE  started' = started
BY NextCases, ZenonT(60)
   DEF vars, callVars, CallWrite, CallStop, WriteAppend, DoWrite, StartWrite,
     WriteFailed, GuardInBranch, WriteConsume, StartRead, ReadFailed, ReadCommit,
     ParseHeader, DeliverPacket, ReadOn, FindStopped, EarlyReturn, FindRunning,
     StopUnlock, StopShutdown, StopClose, PacketReturn, CallbackReturn, TakeRead,
     TakeWrite, PerformRead, FailRead, PerformWrite, FailWrite, PeerWrite,
     PeerClose, PeerReset

LEMMA StoppedKept ==
  ASSUME [Next]_vars, ~ \E t \in Threads : StopUnlock(t)
  PROVE  stopped' = stopped
BY NextCases, ZenonT(60)
   DEF vars, flagVars, CallWrite, CallStart, CallStop, WriteAppend, DoWrite,
     StartWrite, WriteFailed, GuardInBranch, WriteConsume, StartRead, ReadFailed,
     ReadCommit, ParseHeader, DeliverPacket, ReadOn, FindStopped, EarlyReturn,
     FindRunning, StopShutdown, StopClose, PacketReturn, CallbackReturn, TakeRead,
     TakeWrite, PerformRead, FailRead, PerformWrite, FailWrite, PeerWrite,
     PeerClose, PeerReset

(* Of the failures only the one in the step at hand is new.                *)
LEMMA FailuresKept ==
  ASSUME TypeOK, [Next]_vars
  PROVE  /\ (~ \E t \in Threads : ReadFailed(t)) => (Failed("read")' <=> Failed("read"))
         /\ (~ \E t \in Threads : WriteFailed(t)) =>
              (Failed("write")' <=> Failed("write"))
<1>0. \A t \in Threads : compl[t].ec \in Codes
  BY DEF TypeOK
<1>1. ASSUME NEW t \in Threads, ReadFailed(t)
      PROVE  Failed("write")' <=> Failed("write")
  BY <1>0, <1>1, FailureAdded DEF ReadFailed
<1>2. ASSUME NEW t \in Threads, WriteFailed(t)
      PROVE  Failed("read")' <=> Failed("read")
  BY <1>0, <1>2, FailureAdded DEF WriteFailed
<1>3. CASE errs' = errs
  BY <1>3 DEF Failed
<1>. QED
  BY <1>1, <1>2, <1>3, OtherErrs
-----------------------------------------------------------------------------
(* What the refinement rests on.                                           *)
LinkInv == TypeOK /\ FlagInv /\ ReturnInv /\ ReaderInv /\ WriterInv /\ FailInv

(* The steps an owner can tell apart.                                      *)
SeenReading(t) ==
  \/ CallStart(t) \/ DeliverPacket(t) \/ PacketReturn(t) \/ ReadFailed(t)
  \/ EarlyReturn(t) /\ pc[t] \in {"doRead", "readDone"}

SeenWriting(t) ==
  \/ \E n \in OutSizes : WriteAppend(t, n)
  \/ DoWrite(t) \/ WriteFailed(t)
  \/ EarlyReturn(t) /\ pc[t] \in {"doWrite", "writeDone"}

(* Each step is one thread's.                                              *)
LEMMA OneActor ==
  ASSUME TypeOK, ReturnInv, NEW t \in Threads, NEW u \in Threads
  PROVE  /\ ~(SeenReading(t) /\ SeenWriting(u))
         /\ ~(StopUnlock(t) /\ SeenReading(u))
         /\ ~(StopUnlock(t) /\ SeenWriting(u))
<1>0. pc \in [Threads -> Places] /\ ret \in [Threads -> Places]
  BY DEF TypeOK
<1>1. SeenReading(t) =>
        /\ pc[t] \in {"onConnect", "parse", "onPacket", "readBody", "doRead", "readDone"}
        /\ \A v \in Threads : v # t => pc'[v] = pc[v]
  BY <1>0 DEF SeenReading, CallStart, Starts, DeliverPacket, PacketReturn,
     ReadFailed, EarlyReturn, Call, Goto, Return
<1>2. SeenWriting(u) =>
        /\ pc[u] \in {"append", "doWrite", "writeBody", "writeDone"}
        /\ pc'[u] # pc[u]
  BY <1>0 DEF SeenWriting, WriteAppend, DoWrite, FindsRunning, WriteFailed,
     EarlyReturn, Goto, Return, ReturnInv, Calling, Callbacks
<1>3. StopUnlock(t) =>
        pc[t] = "unlock" /\ \A v \in Threads : v # t => pc'[v] = pc[v]
  BY <1>0 DEF StopUnlock, Goto
<1>4. SeenReading(u) => pc[u] # "unlock" /\ pc'[u] # pc[u]
  BY <1>0 DEF SeenReading, CallStart, Starts, DeliverPacket, PacketReturn,
     ReadFailed, EarlyReturn, Call, Goto, Return, ReturnInv, Calling, Callbacks
<1>. QED
  BY <1>1, <1>2, <1>3, <1>4

(* Who reads, or what is to be read, when the owner looks.                 *)
ReadersSeen ==
  /\ \A u \in Threads : InPacket(u) => ReadOwner(u)
  /\ \A u \in Threads : ReadOwner(u) =>
       /\ ~Failed("read") /\ reads = <<>> /\ started
       /\ \A v \in Threads : ReadOwner(v) => v = u
  /\ reads # <<>> =>
       ~Failed("read") /\ started /\ \A u \in Threads : ~ReadOwner(u)

LEMMA ReadersLookedAt == LinkInv => ReadersSeen
BY DEF LinkInv, ReadersSeen, ReaderInv, SingleReader, FailInv, InPacket, ReadOwner

LEMMA LinkReadingSame ==
  ASSUME LinkInv, LinkInv', [Next]_vars, ReadersSeen, ReadersSeen',
         ~ \E t \in Threads : SeenReading(t)
  PROVE  LinkReading' = LinkReading
<1>0. /\ TypeOK /\ TypeOK' /\ ReturnInv /\ ReaderInv
      /\ (reads = <<>> <=> Len(reads) = 0) /\ (reads' = <<>> <=> Len(reads') = 0)
      /\ pc \in [Threads -> Places] /\ reads \in Seq(Op)
  BY LenProperties, EmptySeq DEF LinkInv, TypeOK
<1>1. /\ started' = started
      /\ Failed("read")' <=> Failed("read")
      /\ \A u \in Threads : InPacket(u)' <=> InPacket(u)
  BY <1>0, StartedKept, FailuresKept, InPacketKept DEF SeenReading
<1>2. ASSUME NEW t \in Threads, StartRead(t)  PROVE LinkReading' = LinkReading
  <2>1. ReadOwner(t) /\ pc[t] = "startRead"
    BY <1>2 DEF StartRead, ReadOwner
  <2>2. reads' # <<>>
    BY <1>0, <1>2 DEF StartRead
  <2>3. ~Failed("read") /\ \A u \in Threads : ~InPacket(u)
    <3>1. ~InPacket(t)
      BY <2>1 DEF InPacket, InCall, ReturnInv, LinkInv
    <3>. QED
      BY <2>1, <3>1 DEF ReadersSeen
  <2>. QED
    BY <1>1, <2>1, <2>2, <2>3 DEF LinkReading
<1>3. ASSUME NEW t \in Threads, TakeRead(t)  PROVE LinkReading' = LinkReading
  <2>1. ReadOwner(t)' /\ reads # <<>>
    BY <1>0, <1>3 DEF TakeRead, Goto, ReadOwner
  <2>2. ~Failed("read") /\ \A u \in Threads : ~InPacket(u)
    BY <2>1 DEF ReadersSeen
  <2>. QED
    BY <1>1, <2>1, <2>2 DEF LinkReading
<1>4. ASSUME ~ \E t \in Threads : StartRead(t) \/ TakeRead(t)
      PROVE  LinkReading' = LinkReading
  <2>1. Len(reads') = Len(reads)
    BY <1>0, <1>4, ReadsKept
  <2>2. \A u \in Threads : ReadOwner(u)' <=> ReadOwner(u)
    BY <1>0, <1>4, ReadersKept, ReadersStay DEF SeenReading
  <2>. QED
    BY <1>0, <1>1, <2>1, <2>2 DEF LinkReading
<1>. QED
  BY <1>2, <1>3, <1>4

LEMMA LinkReadingNext ==
  ASSUME LinkInv, LinkInv', [Next]_vars, ReadersSeen, ReadersSeen',
         NEW t \in Threads, SeenReading(t)
  PROVE  \/ LinkReading = "off" /\ LinkReading' = "armed"
         \/ LinkReading = "armed" /\ LinkReading' \in {"busy", "failed"}
         \/ LinkReading = "busy" /\ LinkReading' = "armed"
         \/ stopped /\ LinkReading = "armed" /\ LinkReading' = "ended"
<1>0. /\ TypeOK /\ TypeOK' /\ ReturnInv
      /\ pc \in [Threads -> Places] /\ ret \in [Threads -> Places]
  BY DEF LinkInv, TypeOK
<1>1. CASE CallStart(t)
  <2>1. /\ ~started /\ pc'[t] = "doRead"
        /\ ReadOwner(t)'
    BY <1>0, <1>1 DEF CallStart, Starts, Call, Goto, ReadOwner
  <2>2. /\ ~Failed("read") /\ reads = <<>>
        /\ \A u \in Threads : ~ReadOwner(u) /\ ~InPacket(u)
    BY <2>1 DEF ReadersSeen, FailInv, LinkInv
  <2>3. ~InPacket(t)'
    BY <2>1 DEF InPacket, InCall, ReturnInv, LinkInv
  <2>4. ~Failed("read")' /\ \A u \in Threads : ~InPacket(u)'
    BY <2>1, <2>3 DEF ReadersSeen
  <2>. QED
    BY <2>1, <2>2, <2>4 DEF LinkReading
<1>2. CASE DeliverPacket(t)
  <2>1. pc[t] = "parse" /\ pc'[t] = "onPacket"
    BY <1>0, <1>2 DEF DeliverPacket, Goto
  <2>2. ReadOwner(t) /\ ~InPacket(t) /\ InPacket(t)'
    BY <2>1 DEF InPacket, ReadOwner, InCall
  <2>3. ~Failed("read") /\ \A u \in Threads : ~InPacket(u)
    BY <2>2 DEF ReadersSeen
  <2>4. LinkReading = "armed"
    BY <2>2, <2>3 DEF LinkReading
  <2>5. LinkReading' = "busy"
    BY <2>2 DEF LinkReading
  <2>. QED
    BY <2>4, <2>5
<1>3. CASE PacketReturn(t)
  <2>1. pc[t] = "onPacket" /\ pc'[t] = "parse"
    BY <1>0, <1>3 DEF PacketReturn, Goto
  <2>2. InPacket(t) /\ ReadOwner(t)' /\ ~InPacket(t)'
    BY <2>1 DEF InPacket, ReadOwner, InCall
  <2>3. ~Failed("read")' /\ \A u \in Threads : ~InPacket(u)'
    BY <2>2 DEF ReadersSeen
  <2>4. LinkReading = "busy"
    BY <2>2 DEF LinkReading
  <2>5. LinkReading' = "armed"
    BY <2>2, <2>3 DEF LinkReading
  <2>. QED
    BY <2>4, <2>5
<1>4. CASE ReadFailed(t)
  <2>1. /\ pc[t] = "readBody" /\ compl[t].ec \in Codes
        /\ errs' = Append(errs, [dir |-> "read", ec |-> compl[t].ec])
    BY <1>0, <1>4 DEF ReadFailed, TypeOK
  <2>2. ReadOwner(t) /\ ~InPacket(t)
    BY <2>1 DEF InPacket, ReadOwner, InCall
  <2>3. ~Failed("read") /\ \A u \in Threads : ~InPacket(u)
    BY <2>2 DEF ReadersSeen
  <2>4. Failed("read")'
    BY <1>0, <2>1, FailureAdded
  <2>5. \A u \in Threads : ~InPacket(u)'
    BY <2>4 DEF ReadersSeen
  <2>6. LinkReading = "armed"
    BY <2>2, <2>3 DEF LinkReading
  <2>7. LinkReading' = "failed"
    BY <2>4, <2>5 DEF LinkReading
  <2>. QED
    BY <2>6, <2>7
<1>5. CASE EarlyReturn(t) /\ pc[t] \in {"doRead", "readDone"}
  <2>1. /\ started' = started /\ reads' = reads
        /\ errs' = errs
        /\ pc'[t] = ret[t] /\ ret' = ret
        /\ \A u \in Threads : u # t => pc'[u] = pc[u]
        /\ t \in window
    BY <1>0, <1>5 DEF EarlyReturn, Goto, Return, callVars, opVars
  <2>2. stopped
    BY <2>1 DEF LinkInv, FlagInv
  <2>3. ReadOwner(t) /\ ~InPacket(t)
    <3>1. ReadOwner(t)
      BY <1>5 DEF ReadOwner
    <3>2. ret[t] # "onPacket"
      BY <1>0, <1>5 DEF ReturnInv
    <3>. QED
      BY <1>5, <3>1, <3>2 DEF InPacket
  <2>4. /\ ~Failed("read") /\ reads = <<>> /\ started
        /\ \A u \in Threads : ~InPacket(u) /\ (u # t => ~ReadOwner(u))
    BY <2>3 DEF ReadersSeen
  <2>5. pc'[t] \in {"idle", "onConnect"}
    BY <1>0, <1>5, <2>1 DEF ReturnInv
  <2>6. ~ReadOwner(t)'
    BY <2>5 DEF ReadOwner, InCall
  <2>7. \A u \in Threads : ~ReadOwner(u)'
    BY <2>1, <2>4, <2>6 DEF ReadOwner
  <2>8. ~Failed("read")' /\ reads' = <<>> /\ started'
    BY <2>1, <2>4 DEF Failed
  <2>9. \A u \in Threads : ~InPacket(u)'
    BY <2>7 DEF ReadersSeen
  <2>10. LinkReading = "armed"
    BY <2>3, <2>4 DEF LinkReading
  <2>11. LinkReading' = "ended"
    BY <2>7, <2>8, <2>9 DEF LinkReading
  <2>. QED
    BY <2>2, <2>10, <2>11
<1>. QED
  BY <1>1, <1>2, <1>3, <1>4, <1>5 DEF SeenReading
-----------------------------------------------------------------------------
(* Who writes, or what is to be written, when the owner looks.             *)
WritersSeen ==
  /\ \A u \in Threads : WriteOwner(u) =>
       /\ ~Failed("write") /\ writes = <<>>
       /\ \A v \in Threads : WriteOwner(v) => v = u
  /\ writes # <<>> =>
       ~Failed("write") /\ isWriting /\ \A u \in Threads : ~WriteOwner(u)
  /\ Failed("write") => isWriting

LEMMA WritersLookedAt == LinkInv => WritersSeen
BY DEF LinkInv, WritersSeen, WriterInv, SingleWriter, FailInv

LEMMA LinkWritingSame ==
  ASSUME LinkInv, LinkInv', [Next]_vars, WritersSeen, WritersSeen',
         ~ \E t \in Threads : SeenWriting(t)
  PROVE  LinkWriting' = LinkWriting
<1>0. /\ TypeOK /\ TypeOK' /\ ReturnInv
      /\ (writes = <<>> <=> Len(writes) = 0) /\ (writes' = <<>> <=> Len(writes') = 0)
      /\ pc \in [Threads -> Places] /\ ret \in [Threads -> Places]
      /\ writes \in Seq(Op)
  BY LenProperties, EmptySeq DEF LinkInv, TypeOK
<1>1. Failed("write")' <=> Failed("write")
  BY <1>0, FailuresKept DEF SeenWriting
<1>2. ASSUME NEW t \in Threads, StartWrite(t)  PROVE LinkWriting' = LinkWriting
  <2>1. WriteOwner(t)
    BY <1>2 DEF StartWrite, WriteOwner
  <2>2. writes' # <<>>
    BY <1>0, <1>2 DEF StartWrite
  <2>. QED
    BY <1>1, <2>1, <2>2 DEF LinkWriting, WritersSeen
<1>3. ASSUME NEW t \in Threads, TakeWrite(t)  PROVE LinkWriting' = LinkWriting
  <2>1. WriteOwner(t)' /\ writes # <<>>
    BY <1>0, <1>3 DEF TakeWrite, Goto, WriteOwner
  <2>. QED
    BY <1>1, <2>1 DEF LinkWriting, WritersSeen
<1>4. ASSUME NEW t \in Threads, WriteConsume(t)  PROVE LinkWriting' = LinkWriting
  <2>1. WriteOwner(t) /\ WriteOwner(t)'
    BY <1>0, <1>4 DEF WriteConsume, Goto, WriteOwner
  <2>. QED
    BY <1>1, <2>1 DEF LinkWriting, WritersSeen
<1>5. ASSUME NEW t \in Threads, EarlyReturn(t)  PROVE LinkWriting' = LinkWriting
  <2>1. /\ writes' = writes /\ isWriting' = isWriting
        /\ pc'[t] = ret[t] /\ t \in window
        /\ \A u \in Threads : u # t => pc'[u] = pc[u]
    BY <1>0, <1>5 DEF EarlyReturn, Goto, Return, opVars
  <2>2. pc[t] \in Probes /\ pc[t] \notin {"doWrite", "writeDone"}
    BY <1>0, <1>5, <2>1 DEF ReturnInv, SeenWriting
  <2>3. ~WriteOwner(t) /\ ~WriteOwner(t)'
    BY <1>0, <2>1, <2>2 DEF WriteOwner, Probes, ReturnInv, Calling, Callbacks
  <2>4. \A u \in Threads : WriteOwner(u)' <=> WriteOwner(u)
    BY <2>1, <2>3 DEF WriteOwner
  <2>. QED
    BY <1>1, <2>1, <2>4 DEF LinkWriting
<1>6. ASSUME ~ \E t \in Threads :
               StartWrite(t) \/ TakeWrite(t) \/ WriteConsume(t) \/ EarlyReturn(t)
      PROVE  LinkWriting' = LinkWriting
  <2>1. Len(writes') = Len(writes)
    BY <1>0, <1>6, WritesKept
  <2>2. WritersStill /\ isWriting' = isWriting
    BY <1>0, <1>6, WritersMoved, SendOrNot DEF SeenWriting
  <2>3. \A u \in Threads : WriteOwner(u)' <=> WriteOwner(u)
    BY <2>2 DEF WritersStill, WriteOwner
  <2>. QED
    BY <1>0, <1>1, <2>1, <2>2, <2>3 DEF LinkWriting
<1>. QED
  BY <1>2, <1>3, <1>4, <1>5, <1>6

LEMMA LinkWritingNext ==
  ASSUME LinkInv, LinkInv', [Next]_vars, WritersSeen, WritersSeen',
         NEW t \in Threads, SeenWriting(t)
  PROVE  \/ LinkWriting' = LinkWriting
         \/ LinkWriting = "off" /\ LinkWriting' = "armed"
         \/ LinkWriting = "armed" /\ LinkWriting' \in {"off", "failed"}
         \/ stopped /\ LinkWriting = "armed" /\ LinkWriting' = "ended"
<1>0. /\ TypeOK /\ TypeOK' /\ ReturnInv
      /\ (writes = <<>> <=> Len(writes) = 0) /\ (writes' = <<>> <=> Len(writes') = 0)
      /\ pc \in [Threads -> Places] /\ ret \in [Threads -> Places]
  BY SendTypes, LenProperties, EmptySeq DEF LinkInv, TypeOK
<1>1. ASSUME NEW n \in OutSizes, WriteAppend(t, n)
      PROVE  \/ LinkWriting' = LinkWriting
             \/ LinkWriting = "off" /\ LinkWriting' = "armed"
  <2>1. Len(writes') = Len(writes)
    BY <1>0, <1>1, WritesKept DEF WriteAppend, StartWrite, TakeWrite
  <2>2. /\ isWriting' = isWriting /\ pc[t] = "append" /\ ~sendMtx
        /\ errs' = errs
        /\ \A u \in Threads : u # t => pc'[u] = pc[u]
    BY <1>0, <1>1 DEF WriteAppend, Goto, Return
  <2>3. Failed("write")' <=> Failed("write")
    BY <2>2 DEF Failed
  <2>4. CASE isWriting
    <3>1. pc'[t] = ret[t]
      BY <1>0, <1>1, <2>4 DEF WriteAppend, Goto, Return
    <3>2. ~WriteOwner(t) /\ ~WriteOwner(t)'
      BY <1>0, <2>2, <3>1 DEF WriteOwner, ReturnInv, Calling, Callbacks
    <3>3. \A u \in Threads : WriteOwner(u)' <=> WriteOwner(u)
      BY <2>2, <3>2 DEF WriteOwner
    <3>. QED
      BY <1>0, <2>1, <2>2, <2>3, <3>3 DEF LinkWriting
  <2>5. CASE ~isWriting
    <3>1. WriteOwner(t)'
      BY <1>0, <1>1, <2>5 DEF WriteAppend, Goto, WriteOwner
    <3>2. /\ ~Failed("write") /\ writes = <<>>
          /\ \A u \in Threads : ~WriteOwner(u)
      BY <2>2, <2>5 DEF WritersSeen, WriterInv, SingleWriter, LinkInv
    <3>3. LinkWriting = "off"
      BY <2>5, <3>2 DEF LinkWriting
    <3>4. LinkWriting' = "armed"
      BY <2>3, <3>1, <3>2 DEF LinkWriting
    <3>. QED
      BY <3>3, <3>4
  <2>. QED
    BY <2>4, <2>5
<1>2. CASE DoWrite(t)
  <2>1. /\ WriteOwner(t) /\ writes' = writes /\ errs' = errs
        /\ \A u \in Threads : u # t => pc'[u] = pc[u]
    BY <1>0, <1>2 DEF DoWrite, FindsRunning, Goto, Return, WriteOwner, opVars
  <2>2. /\ ~Failed("write") /\ writes = <<>>
        /\ \A u \in Threads : u # t => ~WriteOwner(u)
    BY <2>1 DEF WritersSeen
  <2>3. ~Failed("write")'
    BY <2>1, <2>2 DEF Failed
  <2>4. LinkWriting = "armed"
    BY <2>1, <2>2 DEF LinkWriting
  <2>5. CASE Size(sendBuf) = 0
    <3>1. pc'[t] = ret[t] /\ ~isWriting'
      BY <1>0, <1>2, <2>5 DEF DoWrite, StillWriting, Goto, Return
    <3>2. ~WriteOwner(t)'
      BY <1>0, <3>1 DEF WriteOwner, ReturnInv, Calling, Callbacks
    <3>3. \A u \in Threads : ~WriteOwner(u)'
      BY <2>1, <2>2, <3>2 DEF WriteOwner
    <3>4. LinkWriting' = "off"
      BY <2>1, <2>2, <2>3, <3>1, <3>3 DEF LinkWriting
    <3>. QED
      BY <2>4, <3>4
  <2>6. CASE Size(sendBuf) # 0
    <3>1. WriteOwner(t)'
      BY <1>0, <1>2, <2>6 DEF DoWrite, Goto, WriteOwner
    <3>2. LinkWriting' = "armed"
      BY <2>3, <3>1 DEF LinkWriting
    <3>. QED
      BY <2>4, <3>2
  <2>. QED
    BY <2>5, <2>6
<1>3. CASE WriteFailed(t)
  <2>1. /\ WriteOwner(t) /\ compl[t].ec \in Codes
        /\ errs' = Append(errs, [dir |-> "write", ec |-> compl[t].ec])
    BY <1>0, <1>3 DEF WriteFailed, WriteOwner, TypeOK
  <2>2. LinkWriting = "armed"
    BY <2>1 DEF LinkWriting, WritersSeen
  <2>3. Failed("write")'
    BY <1>0, <2>1, FailureAdded
  <2>4. LinkWriting' = "failed"
    BY <2>3 DEF LinkWriting
  <2>. QED
    BY <2>2, <2>4
<1>4. CASE EarlyReturn(t) /\ pc[t] \in {"doWrite", "writeDone"}
  <2>1. /\ writes' = writes /\ errs' = errs
        /\ pc'[t] = ret[t] /\ t \in window
        /\ \A u \in Threads : u # t => pc'[u] = pc[u]
    BY <1>0, <1>4 DEF EarlyReturn, Goto, Return, opVars
  <2>2. stopped
    BY <2>1 DEF LinkInv, FlagInv
  <2>3. WriteOwner(t)
    BY <1>4 DEF WriteOwner
  <2>4. /\ ~Failed("write") /\ writes = <<>>
        /\ \A u \in Threads : u # t => ~WriteOwner(u)
    BY <2>3 DEF WritersSeen
  <2>5. ~WriteOwner(t)'
    BY <1>0, <2>1 DEF WriteOwner, ReturnInv, Calling, Callbacks
  <2>6. ~Failed("write")' /\ \A u \in Threads : ~WriteOwner(u)'
    BY <2>1, <2>4, <2>5 DEF Failed, WriteOwner
  <2>7. LinkWriting = "armed"
    BY <2>3, <2>4 DEF LinkWriting
  <2>8. LinkWriting' \in {"off", "ended"}
    BY <2>1, <2>4, <2>6 DEF LinkWriting
  <2>. QED
    BY <2>2, <2>7, <2>8
<1>. QED
  BY <1>1, <1>2, <1>3, <1>4 DEF SeenWriting
-----------------------------------------------------------------------------
LEMMA LinkStep ==
  LinkInv /\ LinkInv' /\ ReadersSeen /\ ReadersSeen' /\ WritersSeen /\ WritersSeen'
  /\ [Next]_vars => [Link!Next]_(Link!linkVars)
<1>. SUFFICES ASSUME LinkInv, LinkInv', ReadersSeen, ReadersSeen',
                     WritersSeen, WritersSeen', [Next]_vars
              PROVE  [Link!Next]_(Link!linkVars)
  OBVIOUS
<1>. USE DEF Link!Next, Link!linkVars, Link!Read, Link!WriteGoes
<1>0. TypeOK /\ ReturnInv
  BY DEF LinkInv
<1>1. ASSUME NEW t \in Threads, SeenReading(t)  PROVE Link!Next
  <2>1. LinkWriting' = LinkWriting
    BY <1>0, <1>1, OneActor, LinkWritingSame
  <2>2. stopped' = stopped
    BY <1>0, <1>1, OneActor, StoppedKept
  <2>. QED
    BY <1>1, <2>1, <2>2, LinkReadingNext
       DEF Link!Start, Link!Arrive, Link!ReadFails, Link!Return, Link!ReadEnds
<1>2. ASSUME NEW t \in Threads, SeenWriting(t)
      PROVE  Link!Next \/ UNCHANGED Link!linkVars
  <2>1. LinkReading' = LinkReading
    BY <1>0, <1>2, OneActor, LinkReadingSame
  <2>2. stopped' = stopped
    BY <1>0, <1>2, OneActor, StoppedKept
  <2>. QED
    BY <1>2, <2>1, <2>2, LinkWritingNext
       DEF Link!Write, Link!Written, Link!WriteFails, Link!WriteEnds
<1>3. ASSUME ~ \E t \in Threads : SeenReading(t) \/ SeenWriting(t)
      PROVE  Link!Next \/ UNCHANGED Link!linkVars
  <2>1. LinkReading' = LinkReading /\ LinkWriting' = LinkWriting
    BY <1>3, LinkReadingSame, LinkWritingSame
  <2>2. stopped' = stopped \/ stopped'
    BY StoppedKept DEF StopUnlock
  <2>. QED
    BY <2>1, <2>2 DEF Link!Stop
<1>. QED
  BY <1>1, <1>2, <1>3

(* The owner of a session may rely on SessionLink, whatever the number of  *)
(* threads: callbacks for packets come one at a time, none after a failure *)
(* of its direction, and only a stop() ends a chain of reads or writes     *)
(* without telling.                                                        *)
THEOREM SessionIsLink == Spec => ImplementsLink
<1>1. Init => Link!Init
  BY EmptySeq DEF Init, Link!Init, LinkReading, LinkWriting, InPacket, InCall,
     Failed, ReadOwner, WriteOwner
<1>2. Init => FlagInv
  BY DEF Init, FlagInv
<1>3. TypeOK /\ TypeOK' /\ LinkInv /\ [Next]_vars => LinkInv'
  BY FlagNext, ReturnNext, ReaderNext, WriterNext, FailNext DEF LinkInv
<1>4. Init /\ TypeOK => LinkInv
  BY <1>2, WriterInit, ReaderInit, FailInit DEF LinkInv
<1>5. LinkInv => ReadersSeen /\ WritersSeen
  BY ReadersLookedAt, WritersLookedAt
<1>6. LinkInv /\ LinkInv' /\ ReadersSeen /\ ReadersSeen' /\ WritersSeen
      /\ WritersSeen' /\ [Next]_vars => [Link!Next]_(Link!linkVars)
  BY LinkStep
<1>. QED
  BY <1>1, <1>3, <1>4, <1>5, <1>6, TypesKept, PTL
     DEF Spec, ImplementsLink, Link!Spec
-----------------------------------------------------------------------------
(* With one thread, a stopped session is in no code that a check should    *)
(* have kept it out of: the thread that checks is the one that stopped it. *)
Beyond == {"append", "startWrite", "writeBody", "startRead", "readBody", "unlock"}
SoloInv == stopped => pc[Starter] \notin Beyond

LEMMA SoloNext ==
  ASSUME \A t \in Threads : t = Starter, TypeOK, FlagInv, ReturnInv, SoloInv, [Next]_vars
  PROVE  SoloInv'
<1>. USE DEF Calling, Callbacks, Probes, Beyond
<1>0. /\ pc \in [Threads -> Places] /\ ret \in [Threads -> Places]
      /\ Starter \in Threads /\ window \subseteq {Starter}
  BY SessionAssumption DEF TypeOK, Threads
<1>1. stopped /\ stopMtx => Starter \in window
  BY <1>0 DEF FlagInv
<1>2. ASSUME NEW t \in Threads, StopUnlock(t)  PROVE SoloInv'
  BY <1>0, <1>2 DEF StopUnlock, Goto, SoloInv
<1>3. ASSUME ~ \E t \in Threads : StopUnlock(t), UNCHANGED pc
      PROVE  SoloInv'
  BY <1>3, StoppedKept DEF SoloInv
<1>4. ASSUME stopped' = stopped, pc'[Starter] \notin Beyond  PROVE SoloInv'
  BY <1>4 DEF SoloInv
<1>5. ASSUME NEW t \in Threads,
             \/ \E n \in OutSizes : WriteAppend(t, n)
             \/ StartWrite(t) \/ WriteFailed(t) \/ WriteConsume(t)
             \/ StartRead(t) \/ ReadFailed(t) \/ ReadCommit(t)
      PROVE  pc'[Starter] \notin Beyond
  BY <1>0, <1>5 DEF WriteAppend, StartWrite, WriteFailed, WriteConsume, StartRead,
     ReadFailed, ReadCommit, Goto, Return, ReturnInv
<1>6. ASSUME NEW t \in Threads,
             \/ CallWrite(t) \/ CallStart(t) \/ CallStop(t)
             \/ DeliverPacket(t) \/ ReadOn(t) \/ EarlyReturn(t)
             \/ StopShutdown(t) \/ StopClose(t)
             \/ PacketReturn(t) \/ CallbackReturn(t)
             \/ TakeRead(t) \/ TakeWrite(t)
      PROVE  pc'[Starter] \notin Beyond
  BY <1>0, <1>6 DEF CallWrite, CallStart, CallStop, DeliverPacket, ReadOn,
     EarlyReturn, StopShutdown, StopClose, PacketReturn, CallbackReturn, TakeRead,
     TakeWrite, Call, Goto, Return, ReturnInv
<1>7. ASSUME NEW t \in Threads, DoWrite(t) \/ FindRunning(t)
      PROVE  ~stopped /\ stopped' = stopped
  BY <1>0, <1>1, <1>7 DEF DoWrite, FindRunning, FindsRunning, flagVars
<1>8. ASSUME NEW t \in Threads, FindStopped(t)  PROVE pc' = pc
  BY <1>8 DEF FindStopped
<1>. QED
  BY <1>2, <1>3, <1>4, <1>5, <1>6, <1>7, <1>8, MoversOrStill, StoppedKept DEF SoloInv

LEMMA SoloStep ==
  ASSUME \A t \in Threads : t = Starter, TypeOK, SoloInv, [Next]_vars, stopped
  PROVE  /\ Len(reads') <= Len(reads) /\ Len(writes') <= Len(writes)
         /\ recvPut' = recvPut /\ errs' = errs
<1>. USE DEF Beyond
<1>0. /\ pc[Starter] \notin Beyond
      /\ Len(reads) \in Nat /\ Len(writes) \in Nat
      /\ reads \in Seq(Op) /\ writes \in Seq(Op)
  <2>1. reads \in Seq(Op) /\ writes \in Seq(Op)
    BY DEF TypeOK
  <2>. QED
    BY <2>1, LenProperties DEF SoloInv
<1>1. ~ \E t \in Threads :
          \/ StartRead(t) \/ ReadCommit(t) \/ ReadFailed(t)
          \/ \E n \in OutSizes : WriteAppend(t, n)
          \/ StartWrite(t) \/ WriteFailed(t) \/ WriteConsume(t)
  BY <1>0 DEF StartRead, ReadCommit, ReadFailed, WriteAppend, StartWrite, WriteFailed,
     WriteConsume
<1>2. ASSUME NEW t \in Threads, TakeRead(t)
      PROVE  /\ Len(reads') <= Len(reads) /\ writes' = writes
             /\ recvPut' = recvPut /\ errs' = errs
  <2>1. /\ reads # <<>> /\ reads' = Tail(reads) /\ writes' = writes
        /\ recvPut' = recvPut /\ errs' = errs
    BY <1>2 DEF TakeRead, recvVars
  <2>2. Len(Tail(reads)) = Len(reads) - 1
    BY <1>0, <2>1, HeadTailProperties
  <2>. QED
    BY <1>0, <2>1, <2>2
<1>3. ASSUME NEW t \in Threads, TakeWrite(t)
      PROVE  /\ reads' = reads /\ Len(writes') <= Len(writes)
             /\ recvPut' = recvPut /\ errs' = errs
  <2>1. /\ writes # <<>> /\ writes' = Tail(writes) /\ reads' = reads
        /\ recvPut' = recvPut /\ errs' = errs
    BY <1>3 DEF TakeWrite, recvVars
  <2>2. Len(Tail(writes)) = Len(writes) - 1
    BY <1>0, <2>1, HeadTailProperties
  <2>. QED
    BY <1>0, <2>1, <2>2
<1>4. ASSUME ~ \E t \in Threads : TakeRead(t) \/ TakeWrite(t)
      PROVE  /\ Len(reads') = Len(reads) /\ Len(writes') = Len(writes)
             /\ recvPut' = recvPut
    BY <1>1, <1>4, ReadsKept, WritesKept, ReadsOrNot
       DEF StopClose, recvVars, PerformRead, FailRead
<1>5. ASSUME ~ \E t \in Threads : TakeRead(t) \/ TakeWrite(t)
      PROVE  errs' = errs
  <2>1. ASSUME NEW t \in Threads, DoWrite(t) \/ EarlyReturn(t)  PROVE errs' = errs
    BY <2>1 DEF DoWrite, EarlyReturn
  <2>. QED
    BY <1>1, <1>5, <2>1, SendOrNot
<1>. QED
  BY <1>0, <1>2, <1>3, <1>4, <1>5

(* With one thread stop() is final: nothing further is started, received   *)
(* or reported after it.                                                   *)
THEOREM StopIsSilent ==
  ASSUME \A t \in Threads : t = Starter
  PROVE  Spec => StopSilences
<1>1. Init => FlagInv /\ ReturnInv /\ SoloInv
  <2>1. Init => ReturnInv
    BY WriterInit
  <2>2. Init => FlagInv /\ SoloInv
    BY DEF Init, FlagInv, SoloInv
  <2>. QED
    BY <2>1, <2>2
<1>2. TypeOK /\ FlagInv /\ ReturnInv /\ SoloInv /\ [Next]_vars
        => FlagInv' /\ ReturnInv' /\ SoloInv'
  BY FlagNext, ReturnNext, SoloNext
<1>3. TypeOK /\ SoloInv /\ [Next]_vars
        => [stopped => /\ Len(reads') <= Len(reads) /\ Len(writes') <= Len(writes)
                       /\ recvPut' = recvPut /\ errs' = errs]_vars
  BY SoloStep
<1>. QED
  BY <1>1, <1>2, <1>3, TypesKept, PTL DEF Spec, StopSilences
-----------------------------------------------------------------------------
(* Only the kernel's taking a part of a view tells what is sent.           *)
LEMMA WireKept ==
  ASSUME [Next]_vars
  PROVE  \/ wireOK' = wireOK
         \/ \E i \in DOMAIN writes :
              \E n \in 1 .. writes[i].view.len : PerformWrite(i, n)
BY NextCases, ZenonT(60)
   DEF vars, wireVars, CallWrite, CallStart, CallStop, WriteAppend, DoWrite, StartWrite,
     WriteFailed, WriteConsume, StartRead, ReadFailed, ReadCommit, ParseHeader,
     DeliverPacket, ReadOn, FindStopped, EarlyReturn, FindRunning, StopUnlock,
     StopShutdown, StopClose, PacketReturn, CallbackReturn, TakeRead, TakeWrite,
     PerformRead, FailRead, FailWrite, PeerWrite, PeerClose, PeerReset

(* A write that waits has waited before, and its view with it, unless it   *)
(* was started just now; meanwhile only write() touches send_buf.          *)
LEMMA QueuedNext ==
  ASSUME TypeOK, ReturnInv, WriterInv, [Next]_vars,
         NEW i \in DOMAIN writes', writes'[i].st = "queued"
  PROVE  \/ /\ i \in DOMAIN writes /\ writes[i].st = "queued"
            /\ writes'[i].view = writes[i].view /\ sendBuf' = sendBuf
         \/ /\ \E t \in Threads : StartWrite(t)
            /\ writes'[i].view = Data(sendBuf) /\ sendBuf' = sendBuf
         \/ \E t \in Threads : \E n \in OutSizes :
              /\ WriteAppend(t, n)
              /\ i \in DOMAIN writes /\ writes[i].st = "queued"
              /\ writes'[i].view = Outlive(writes[i].view, sendBuf, n + HLen)
<1>. DEFINE Waited == /\ i \in DOMAIN writes /\ writes[i].st = "queued"
                      /\ writes'[i].view = writes[i].view /\ sendBuf' = sendBuf
<1>0. /\ writes \in Seq(Op) /\ Len(writes) \in Nat /\ DOMAIN writes = 1 .. Len(writes)
      /\ \A j \in DOMAIN writes : writes[j] \in Op /\ writes[j].view.len \in Nat
  BY SendTypes
<1>1. \A j, k \in DOMAIN writes : j = k
  BY <1>0 DEF WriterInv, SingleWriter
<1>2. ASSUME NEW t \in Threads, NEW n \in OutSizes, WriteAppend(t, n)
      PROVE  /\ i \in DOMAIN writes /\ writes[i].st = "queued"
             /\ writes'[i].view = Outlive(writes[i].view, sendBuf, n + HLen)
  <2>1. i \in DOMAIN writes
    BY <1>2 DEF WriteAppend
  <2>2. writes'[i] = [writes[i] EXCEPT
                        !.view = Outlive(writes[i].view, sendBuf, n + HLen)]
    BY <1>2, <2>1 DEF WriteAppend
  <2>. QED
    BY <1>0, <2>1, <2>2 DEF Op
<1>3. ASSUME NEW t \in Threads, StartWrite(t)
      PROVE  writes'[i].view = Data(sendBuf) /\ sendBuf' = sendBuf
  <2>1. sendBuf' = sendBuf /\ writes' = Append(writes, NewOp(outGet, Data(sendBuf)))
    BY <1>3 DEF StartWrite
  <2>2. writes = <<>>
    BY <1>3 DEF StartWrite, WriterInv, SingleWriter, WriteOwner
  <2>3. writes' = <<NewOp(outGet, Data(sendBuf))>>
    BY <2>1, <2>2
  <2>4. DOMAIN writes' = {1} /\ writes'[1].view = Data(sendBuf)
    BY <2>3 DEF NewOp
  <2>. QED
    BY <2>1, <2>4
<1>4. ASSUME NEW t \in Threads, WriteConsume(t)  PROVE FALSE
  <2>1. writes' = writes
    BY <1>4 DEF WriteConsume, opVars
  <2>2. writes = <<>>
    BY <1>4 DEF WriteConsume, WriterInv, SingleWriter, WriteOwner
  <2>. QED
    BY <1>0, <2>1, <2>2
<1>5. ASSUME NEW t \in Threads, TakeWrite(t)  PROVE FALSE
  <2>1. writes # <<>> /\ writes' = Tail(writes)
    BY <1>5 DEF TakeWrite
  <2>2. Len(writes) <= 1 /\ Len(Tail(writes)) = Len(writes) - 1
        /\ Tail(writes) \in Seq(Op)
    BY <1>0, <2>1, HeadTailProperties DEF WriterInv, SingleWriter
  <2>3. DOMAIN writes' = {}
    BY <1>0, <2>1, <2>2, LenProperties
  <2>. QED
    BY <2>3
<1>6. ASSUME NEW t \in Threads, DoWrite(t) \/ WriteFailed(t) \/ EarlyReturn(t)
      PROVE  Waited
  BY <1>6 DEF DoWrite, WriteFailed, EarlyReturn, opVars
<1>7. ASSUME ~ \E t \in Threads :
             \/ \E n \in OutSizes : WriteAppend(t, n)
             \/ DoWrite(t) \/ StartWrite(t) \/ WriteFailed(t) \/ WriteConsume(t)
             \/ EarlyReturn(t) \/ TakeWrite(t)
      PROVE  Waited
  <2>1. sendBuf' = sendBuf
    BY <1>7, SendOrNot
  <2>2. CASE UNCHANGED writes
    BY <2>1, <2>2
  <2>3. ASSUME NEW t \in Threads, StopClose(t)  PROVE Waited
    <3>1. writes' = Aborted(writes) /\ DOMAIN writes' = DOMAIN writes
      BY <2>3 DEF StopClose, Aborted
    <3>. QED
      BY <1>0, <3>1, OpsAborted
  <2>4. ASSUME NEW j \in DOMAIN writes, NEW n \in 1 .. writes[j].view.len,
               PerformWrite(j, n)
        PROVE  Waited
    <3>1. writes' = [writes EXCEPT ![j] = Finish(@, "ok", n)]
      BY <2>4, Zenon DEF PerformWrite
    <3>2. n \in Nat /\ "ok" \in Codes
      BY <1>0 DEF Codes
    <3>. QED
      BY <1>0, <1>1, <3>1, <3>2, OpsFinished
  <2>5. ASSUME NEW j \in DOMAIN writes, FailWrite(j)  PROVE Waited
    <3>1. writes' = [writes EXCEPT ![j] = Finish(@, "error", 0)]
      BY <2>5, Zenon DEF FailWrite
    <3>2. 0 \in Nat /\ "error" \in Codes
      BY DEF Codes
    <3>. QED
      BY <1>0, <1>1, <3>1, <3>2, OpsFinished
  <2>. QED
    BY <1>7, <2>2, <2>3, <2>4, <2>5, SendOrNot
<1>. QED
  BY <1>2, <1>3, <1>4, <1>5, <1>6, <1>7

(* A view that begins with send_buf goes on doing so through an append     *)
(* that finds room.                                                        *)
LEMMA AppendFits ==
  ASSUME TypeOK, NEW t \in Threads, NEW n \in OutSizes, WriteAppend(t, n),
         sendBuf.put + n + HLen <= sendBuf.end, NEW v \in Views
  PROVE  /\ sendBuf'.get = sendBuf.get
         /\ Outlive(v, sendBuf, n + HLen) = v
<1>. DEFINE k == n + HLen
<1>1. /\ sendBuf \in Streambufs /\ sendBuf.put \in Nat /\ sendBuf.end \in Nat
      /\ n \in Nat /\ HLen \in Nat
  BY SessionAssumption DEF TypeOK, Streambufs
<1>2. Fits(sendBuf, k)
  BY <1>1 DEF Fits
<1>3. Prepare(sendBuf, k) = sendBuf /\ ~Reallocates(sendBuf, k)
  BY <1>2 DEF Prepare, Reallocates
<1>4. sendBuf' = Commit(sendBuf, k)
  BY <1>3 DEF WriteAppend
<1>5. sendBuf'.get = sendBuf.get
  BY <1>1, <1>4 DEF Commit, Streambufs
<1>6. Outlive(v, sendBuf, k) = v
  BY <1>3 DEF Outlive, Views
<1>. QED
  BY <1>5, <1>6

(* What spoils a view, and what spoils the stream.                         *)
LEMMA SpoilStep ==
  ASSUME TypeOK, ReturnInv, WriterInv, SendInv, [Next]_vars
  PROVE  /\ ViewStaysValid /\ ~ViewStaysValid' =>
              \E t \in Threads : \E n \in OutSizes : Crowds(t, n)
         /\ wireOK /\ ~wireOK' => ~ViewStaysValid
<1>1. ASSUME ViewStaysValid, ~ViewStaysValid',
             ~ \E t \in Threads : \E n \in OutSizes : Crowds(t, n)
      PROVE  FALSE
  <2>1. PICK i \in DOMAIN writes' :
          writes'[i].st = "queued" /\ ~Intact(writes'[i].view, sendBuf')
    BY <1>1 DEF ViewStaysValid
  <2>2. CASE i \in DOMAIN writes /\ writes[i].st = "queued"
             /\ writes'[i].view = writes[i].view /\ sendBuf' = sendBuf
    BY <1>1, <2>1, <2>2 DEF ViewStaysValid
  <2>3. CASE writes'[i].view = Data(sendBuf) /\ sendBuf' = sendBuf
    BY <2>1, <2>3 DEF Data, Intact
  <2>4. ASSUME NEW t \in Threads, NEW n \in OutSizes, WriteAppend(t, n),
               i \in DOMAIN writes, writes[i].st = "queued",
               writes'[i].view = Outlive(writes[i].view, sendBuf, n + HLen)
        PROVE  FALSE
    <3>1. /\ ~(sendBuf.put + n + HLen > sendBuf.end)
          /\ writes[i].view.pos = sendBuf.get
      BY <1>1, <2>4 DEF Crowds
    <3>2. sendBuf.put + n + HLen <= sendBuf.end
      BY <3>1, SessionAssumption DEF TypeOK, Streambufs
    <3>3. writes[i].view \in Views
      BY <2>4, SendTypes DEF Op
    <3>4. sendBuf'.get = sendBuf.get /\ writes'[i].view = writes[i].view
      BY <2>4, <3>2, <3>3, AppendFits
    <3>5. ~writes[i].view.lost
      BY <1>1, <2>4 DEF ViewStaysValid, Intact
    <3>. QED
      BY <2>1, <3>1, <3>4, <3>5 DEF Intact
  <2>. QED
    BY <2>1, <2>2, <2>3, <2>4, QueuedNext
<1>2. ASSUME wireOK, ~wireOK', ViewStaysValid  PROVE FALSE
  <2>1. PICK i \in DOMAIN writes :
          \E n \in 1 .. writes[i].view.len : PerformWrite(i, n)
    BY <1>2, WireKept
  <2>2. writes[i].st = "queued" /\ ~(writes[i].at = wirePos /\ Intact(writes[i].view, sendBuf))
    BY <1>2, <2>1, Zenon DEF PerformWrite, Next1st
  <2>3. Intact(writes[i].view, sendBuf)
    BY <1>2, <2>2 DEF ViewStaysValid
  <2>4. /\ writes[i].at = outGet /\ wirePos = outGet + writes[i].len
        /\ writes[i].len = 0 /\ outGet \in Nat
    BY <2>2, SendTypes DEF SendInv
  <2>. QED
    BY <2>2, <2>3, <2>4
<1>. QED
  BY <1>1, <1>2

(* For any number of threads, only a packet appended while a write waits   *)
(* takes that write's bytes from it, and only when it, or one before it,   *)
(* found no room; and nothing else spoils the stream that is sent.         *)
THEOREM CrowdingSpoils == Spec => OnlyMovesSpoil
<1>1. TypeOK /\ TypeOK' /\ ReturnInv /\ WriterInv /\ SendInv /\ [Next]_vars
        => ReturnInv' /\ WriterInv' /\ SendInv'
  BY ReturnNext, WriterNext, SendNext
<1>2. TypeOK /\ ReturnInv /\ WriterInv /\ SendInv /\ [Next]_vars =>
        [/\ ViewStaysValid /\ ~ViewStaysValid' =>
              \E t \in Threads : \E n \in OutSizes : Crowds(t, n)
         /\ wireOK /\ ~wireOK' => ~ViewStaysValid]_vars
  BY SpoilStep
<1>. QED
  BY WriterInit, SendInit, <1>1, <1>2, TypesKept, PTL DEF Spec, OnlyMovesSpoil
-----------------------------------------------------------------------------
(* A packet is appended only when the kernel has taken all before it: the  *)
(* program asks, and does not ask again before it is answered.             *)
SettledFirst ==
  \A t \in Threads, n \in OutSizes : WriteAppend(t, n) => wirePos = OutEnd

(* A write that waits has something to send, and one is only started when  *)
(* there is something.                                                     *)
StartInv ==
  /\ \A t \in Threads : pc[t] = "startWrite" => Size(sendBuf) > 0
  /\ \A i \in DOMAIN writes : writes[i].st = "queued" => writes[i].view.len > 0

LEMMA StartNext ==
  ASSUME TypeOK, ReturnInv, WriterInv, StartInv, [Next]_vars
  PROVE  StartInv'
<1>0. /\ pc \in [Threads -> Places] /\ Size(sendBuf) \in Nat
      /\ \A t \in Threads : pc[t] = "startWrite" => Size(sendBuf) > 0
  BY SendTypes DEF StartInv
<1>1. ASSUME NEW i \in DOMAIN writes', writes'[i].st = "queued"
      PROVE  writes'[i].view.len > 0
  <2>1. CASE i \in DOMAIN writes /\ writes[i].st = "queued"
             /\ writes'[i].view = writes[i].view
    BY <2>1 DEF StartInv
  <2>2. CASE (\E t \in Threads : StartWrite(t)) /\ writes'[i].view = Data(sendBuf)
    BY <1>0, <2>2 DEF StartWrite, Data
  <2>3. ASSUME NEW t \in Threads, NEW n \in OutSizes, WriteAppend(t, n),
               i \in DOMAIN writes, writes[i].st = "queued"
        PROVE  writes'[i].view.len > 0
    BY <2>3, OpsOutlive DEF StartInv
  <2>. QED
    BY <1>1, <2>1, <2>2, <2>3, QueuedNext
<1>2. ASSUME NEW t \in Threads, NEW n \in OutSizes, WriteAppend(t, n)
      PROVE  \A u \in Threads : pc'[u] # "startWrite"
  <2>1. \A u \in Threads : pc[u] # "startWrite"
    BY <1>2 DEF WriteAppend, WriterInv
  <2>. QED
    BY <1>0, <1>2, <2>1 DEF WriteAppend, Goto, Return, ReturnInv, Calling, Callbacks
<1>3. ASSUME NEW t \in Threads, DoWrite(t)
      PROVE  \A u \in Threads : pc'[u] = "startWrite" => Size(sendBuf)' > 0
  <2>1. Size(sendBuf)' = Size(sendBuf)
    BY <1>3 DEF DoWrite, Size
  <2>2. \A u \in Threads : pc'[u] = "startWrite" => pc[u] = "startWrite" \/ Size(sendBuf) # 0
    BY <1>0, <1>3 DEF DoWrite, FindsRunning, Goto, Return, ReturnInv, Calling, Callbacks
  <2>. QED
    BY <1>0, <2>1, <2>2
<1>4. ASSUME NEW t \in Threads, WriteConsume(t)
      PROVE  \A u \in Threads : pc'[u] # "startWrite"
  <2>1. \A u \in Threads : pc[u] # "startWrite"
    BY <1>4 DEF WriteConsume, WriterInv
  <2>. QED
    BY <1>0, <1>4, <2>1 DEF WriteConsume, Goto
<1>5. ASSUME NEW t \in Threads,
             StartWrite(t) \/ WriteFailed(t) \/ EarlyReturn(t) \/ TakeWrite(t)
      PROVE  \A u \in Threads : pc'[u] = "startWrite" => Size(sendBuf)' > 0
  <2>1. Size(sendBuf)' = Size(sendBuf)
    BY <1>5 DEF StartWrite, WriteFailed, EarlyReturn, TakeWrite, sendVars, Size
  <2>2. \A u \in Threads : pc'[u] = "startWrite" => pc[u] = "startWrite"
    BY <1>0, <1>5 DEF StartWrite, WriteFailed, EarlyReturn, TakeWrite, Goto, Return,
       ReturnInv, Calling, Callbacks
  <2>. QED
    BY <1>0, <2>1, <2>2
<1>6. ASSUME ~ \E t \in Threads :
             \/ \E n \in OutSizes : WriteAppend(t, n)
             \/ DoWrite(t) \/ StartWrite(t) \/ WriteFailed(t) \/ WriteConsume(t)
             \/ EarlyReturn(t) \/ TakeWrite(t)
      PROVE  \A u \in Threads : pc'[u] = "startWrite" => Size(sendBuf)' > 0
  BY <1>0, <1>6, WritersMoved, SendOrNot DEF WritersStill, Size
<1>. QED
  BY <1>1, <1>2, <1>3, <1>4, <1>5, <1>6 DEF StartInv

(* While nothing is crowded a write that waits sees the first byte of      *)
(* send_buf.                                                               *)
Uncrowded == \A t \in Threads : \A n \in OutSizes : ~Crowds(t, n)

PlacedInv ==
  /\ wireOK
  /\ \A i \in DOMAIN writes : writes[i].st = "queued" =>
       ~writes[i].view.lost /\ writes[i].view.pos = sendBuf.get

LEMMA PlacedNext ==
  ASSUME TypeOK, ReturnInv, WriterInv, SendInv, PlacedInv, [Next]_vars, [Uncrowded]_vars
  PROVE  PlacedInv'
<1>1. ViewStaysValid
  BY DEF PlacedInv, ViewStaysValid, Intact
<1>2. wireOK'
  BY <1>1, SpoilStep DEF PlacedInv
<1>3. ASSUME NEW i \in DOMAIN writes', writes'[i].st = "queued"
      PROVE  ~writes'[i].view.lost /\ writes'[i].view.pos = sendBuf'.get
  <2>1. CASE i \in DOMAIN writes /\ writes[i].st = "queued"
             /\ writes'[i].view = writes[i].view /\ sendBuf' = sendBuf
    BY <2>1 DEF PlacedInv
  <2>2. CASE writes'[i].view = Data(sendBuf) /\ sendBuf' = sendBuf
    BY <2>2 DEF Data
  <2>3. ASSUME NEW t \in Threads, NEW n \in OutSizes, WriteAppend(t, n),
               i \in DOMAIN writes, writes[i].st = "queued",
               writes'[i].view = Outlive(writes[i].view, sendBuf, n + HLen)
        PROVE  ~writes'[i].view.lost /\ writes'[i].view.pos = sendBuf'.get
    <3>1. CASE UNCHANGED vars
      BY <2>3, <3>1 DEF vars, opVars, sendVars, PlacedInv
    <3>2. CASE Uncrowded
      <4>1. sendBuf.put + n + HLen <= sendBuf.end
        <5>1. ~(sendBuf.put + n + HLen > sendBuf.end)
          BY <2>3, <3>2 DEF Uncrowded, Crowds
        <5>. QED
          BY <5>1, SessionAssumption DEF TypeOK, Streambufs
      <4>2. writes[i].view \in Views
        BY <2>3, SendTypes DEF Op
      <4>. QED
        BY <2>3, <4>1, <4>2, AppendFits DEF PlacedInv
    <3>. QED
      BY <3>1, <3>2
  <2>. QED
    BY <1>3, <2>1, <2>2, <2>3, QueuedNext
<1>. QED
  BY <1>2, <1>3 DEF PlacedInv

(* A program that waits for its answer before it writes again sends its    *)
(* stream whole, however small the first block of send_buf, and its writes *)
(* in flight see their bytes to the end.                                   *)
THEOREM AnsweredWritesAreWhole ==
  Spec /\ [][SettledFirst]_vars => [](WireIsStream /\ ViewStaysValid)
<1>1. Init => StartInv /\ PlacedInv
  BY DEF Init, StartInv, PlacedInv
<1>2. TypeOK /\ SendInv /\ StartInv /\ [SettledFirst]_vars => [Uncrowded]_vars
  <2>. SUFFICES ASSUME TypeOK, SendInv, StartInv, SettledFirst,
                       NEW t \in Threads, NEW n \in OutSizes, Crowds(t, n)
                PROVE  FALSE
    BY DEF Uncrowded
  <2>1. PICK i \in DOMAIN writes : writes[i].st = "queued"
    BY DEF Crowds
  <2>2. /\ writes[i].view.len > 0 /\ writes[i].view.len <= Size(sendBuf)
        /\ wirePos = outGet + 0 /\ wirePos = outGet + Size(sendBuf)
    BY <2>1 DEF SendInv, StartInv, SettledFirst, Crowds, OutEnd
  <2>. QED
    BY <2>1, <2>2, SendTypes
<1>3. /\ TypeOK /\ TypeOK' /\ ReturnInv /\ WriterInv /\ SendInv /\ StartInv /\ PlacedInv
      /\ [Next]_vars /\ [SettledFirst]_vars
      => ReturnInv' /\ WriterInv' /\ SendInv' /\ StartInv' /\ PlacedInv'
  BY <1>2, ReturnNext, WriterNext, SendNext, StartNext, PlacedNext
<1>4. PlacedInv => WireIsStream /\ ViewStaysValid
  BY DEF PlacedInv, WireIsStream, ViewStaysValid, Intact
<1>. QED
  BY WriterInit, SendInit, <1>1, <1>3, <1>4, TypesKept, PTL DEF Spec
=============================================================================
