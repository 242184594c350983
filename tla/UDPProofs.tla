------------------------------ MODULE UDPProofs ------------------------------
(***************************************************************************)
(* Proofs about UDP, for every number of threads, datagrams and blocks.    *)
(***************************************************************************)
EXTENDS UDPProps, FiniteSetTheorems, TLAPS

(* The types of all but the contexts, whose work must be counted; what is  *)
(* sent has been written.                                                  *)
SendOf(set) == [block : Blocks, of : set, st : Outcomes]

OthersTyped ==
  /\ halted \subseteq Sides
  /\ mode \in [Threads -> Modes] /\ at \in [Threads -> Places]
  /\ arg \in [Threads -> Datagrams \cup Blocks \cup {None}]
  /\ heap \in [Blocks -> Datagrams \cup {None}]
  /\ written \subseteq Datagrams /\ sends \in [Sides -> Seq(SendOf(written))]
  /\ wire \subseteq written /\ arrived \in Seq(written)
  /\ receive \in {"off", "waiting", "done", "failed"}
  /\ receiveBuf \in written \cup {None}
  /\ sentOK \in BOOLEAN

ThreadsOf(side) == {t \in Threads : Side(t) = side}

LEMMA SideOf == \A t : Side(t) \in Sides
BY DEF Side, Sides

(* What the steps of the sends make of them.                               *)
LEMMA Appended ==
  ASSUME NEW S, NEW s \in Seq(S), NEW e \in S
  PROVE  /\ Append(s, e) \in Seq(S) /\ Len(Append(s, e)) = Len(s) + 1
         /\ \A i \in 1 .. Len(s) : Append(s, e)[i] = s[i]
         /\ Append(s, e)[Len(s) + 1] = e
OBVIOUS

LEMMA Taken ==
  ASSUME NEW S, NEW s \in Seq(S), s # <<>>
  PROVE  /\ Tail(s) \in Seq(S) /\ Len(Tail(s)) = Len(s) - 1 /\ Len(s) >= 1
         /\ \A i \in 1 .. Len(s) - 1 : Tail(s)[i] = s[i + 1]
         /\ Head(s) = s[1] /\ Head(s) \in S
OBVIOUS

LEMMA LargerSeq ==
  ASSUME NEW S, NEW T, S \subseteq T, NEW s \in Seq(S)
  PROVE  s \in Seq(T)
OBVIOUS

(* Every step but those of the callbacks keeps the callbacks' places.      *)
LEMMA OthersNext == OthersTyped /\ [Next]_vars => OthersTyped'
<1>. SUFFICES ASSUME OthersTyped, [Next]_vars  PROVE OthersTyped'
  OBVIOUS
<1>. USE SideOf DEF OthersTyped
<1>1. ASSUME NEW t \in Threads, Call(t)  PROVE OthersTyped'
  <2>1. CASE \E how \in {"run", "once"} : EnterContext(t, how)
    BY <2>1 DEF EnterContext, sendVars, receiveVars, netVars, Modes
  <2>2. CASE EnterClientRun(t) \/ LeaveClientRun(t) \/ LeaveContext(t)
    BY <2>2 DEF EnterClientRun, LeaveClientRun, LeaveContext, contextVars, sendVars,
       receiveVars, netVars, Modes
  <2>3. CASE Stop(t)
    BY <2>3 DEF Stop, threadVars, sendVars, receiveVars, netVars
  <2>4. ASSUME NEW d \in Datagrams, NEW b \in Blocks, NEW st \in Outcomes,
               Write(t, d, b, st)
        PROVE  OthersTyped'
    <3>1. [block |-> b, of |-> d, st |-> st] \in SendOf(written')
          /\ SendOf(written) \subseteq SendOf(written')
      BY <2>4 DEF Write, SendOf
    <3>0. sends \in [Sides -> Seq(SendOf(written'))]
      BY <3>1, LargerSeq
    <3>2. sends' \in [Sides -> Seq(SendOf(written'))]
      <4>1. Append(sends[Side(t)], [block |-> b, of |-> d, st |-> st])
              \in Seq(SendOf(written'))
        BY <3>0, <3>1, Appended
      <4>. QED
        BY <2>4, <3>0, <4>1 DEF Write
    <3>3. arrived' \in Seq(written')
      BY <2>4, LargerSeq DEF Write
    <3>4. heap' \in [Blocks -> Datagrams \cup {None}] /\ written' \subseteq Datagrams
      BY <2>4 DEF Write, Filled
    <3>5. wire' \subseteq written' /\ written \subseteq written'
      BY <2>4 DEF Write, OnWire
    <3>. QED
      BY <2>4, <3>2, <3>3, <3>4, <3>5 DEF Write, threadVars, receiveVars
  <2>. QED
    BY <1>1, <2>1, <2>2, <2>3, <2>4 DEF Call
<1>2. ASSUME NEW t \in Threads, Handle(t)  PROVE OthersTyped'
  <2>0. ASSUME EndHandler(t)
        PROVE  /\ mode' \in [Threads -> Modes] /\ at' \in [Threads -> Places]
               /\ arg' \in [Threads -> Datagrams \cup Blocks \cup {None}]
    BY <2>0 DEF EndHandler, Modes, Places
  <2>1. CASE TakeSent(t)
    <3>1. sends' \in [Sides -> Seq(SendOf(written))]
      BY <2>1, Taken DEF TakeSent, TakeFinished
    <3>2. heap' \in [Blocks -> Datagrams \cup {None}]
      BY <2>1 DEF TakeSent, Frees
    <3>. QED
      BY <2>0, <2>1, <3>1, <3>2 DEF TakeSent, receiveVars, netVars
  <2>2. CASE TakeSendError(t)
    <3>1. sends' \in [Sides -> Seq(SendOf(written))]
      BY <2>2, Taken DEF TakeSendError, TakeFinished
    <3>2. NextSend(t) \in SendOf(written)
      BY <2>2, Taken DEF TakeSendError, TakeFinished, NextSend
    <3>3. NextSend(t).block \in Blocks
      BY <3>2 DEF SendOf
    <3>4. at' \in [Threads -> Places]
      BY <2>2 DEF TakeSendError, Places
    <3>5. arg' \in [Threads -> Datagrams \cup Blocks \cup {None}]
      BY <2>2, <3>3 DEF TakeSendError
    <3>. QED
      BY <2>2, <3>1, <3>4, <3>5 DEF TakeSendError, contextVars, receiveVars, netVars
  <2>3. CASE ReturnError(t)
    BY <2>0, <2>3 DEF ReturnError, Frees, receiveVars, netVars
  <2>4. CASE TakeReceive(t)
    <3>1. at' \in [Threads -> Places]
      BY <2>4 DEF TakeReceive, Places
    <3>2. arg' \in [Threads -> Datagrams \cup Blocks \cup {None}]
      BY <2>4 DEF TakeReceive
    <3>. QED
      BY <2>4, <3>1, <3>2 DEF TakeReceive, ReceivesLast, contextVars, sendVars,
         netVars
  <2>5. CASE Rearm(t)
    BY <2>0, <2>5 DEF Rearm, Always, sendVars, netVars
  <2>. QED
    BY <1>2, <2>1, <2>2, <2>3, <2>4, <2>5 DEF Handle
<1>3. ASSUME NEW side \in Sides, NEW i \in DOMAIN sends[side],
             PerformSend(side, i) \/ FailSend(side, i)
      PROVE  OthersTyped'
  <2>1. sends' \in [Sides -> Seq(SendOf(written))]
    <3>1. PICK st \in {"sent", "failed"} : sends' = [sends EXCEPT ![side][i].st = st]
      BY <1>3 DEF PerformSend, FailSend
    <3>2. sends[side] \in Seq(SendOf(written)) /\ sends[side][i] \in SendOf(written)
      OBVIOUS
    <3>3. [sends[side][i] EXCEPT !.st = st] \in SendOf(written)
      BY <3>2 DEF SendOf, Outcomes
    <3>4. [sends[side] EXCEPT ![i].st = st] \in Seq(SendOf(written))
      BY <3>2, <3>3
    <3>. QED
      BY <3>1, <3>4
  <2>2. wire' \subseteq written'
    <3>0. sends[side][i] \in SendOf(written)
      OBVIOUS
    <3>1. sends[side][i].of \in written
      BY <3>0 DEF SendOf
    <3>. QED
      BY <1>3, <3>1 DEF PerformSend, FailSend, OnWire, netVars
  <2>. QED
    BY <1>3, <2>1, <2>2 DEF PerformSend, FailSend, threadVars, receiveVars, netVars,
       contextVars
<1>4. CASE PerformReceive \/ FailReceive
  <2>1. CASE PerformReceive
    <3>1. Head(arrived) \in written /\ Tail(arrived) \in Seq(written)
      BY <2>1, Taken DEF PerformReceive
    <3>. QED
      BY <2>1, <3>1 DEF PerformReceive, contextVars, threadVars, sendVars
  <2>2. CASE FailReceive
    BY <2>2 DEF FailReceive, contextVars, threadVars, sendVars, netVars
  <2>. QED
    BY <1>4, <2>1, <2>2
<1>5. ASSUME NEW d \in Datagrams, Arrive(d) \/ Lose(d)  PROVE OthersTyped'
  <2>1. UNCHANGED <<contextVars, threadVars, sendVars, receiveVars>>
        /\ wire' \subseteq wire
    BY <1>5 DEF Arrive, Lose
  <2>2. arrived' \in Seq(written)
    <3>1. CASE Arrive(d)
      <4>1. d \in written /\ arrived' = Append(arrived, d)
        BY <3>1 DEF Arrive
      <4>. QED
        BY <4>1, Appended
    <3>2. CASE Lose(d)
      BY <3>2 DEF Lose
    <3>. QED
      BY <1>5, <3>1, <3>2
  <2>. QED
    BY <2>1, <2>2 DEF contextVars, threadVars, sendVars, receiveVars
<1>6. CASE UNCHANGED vars
  BY <1>6 DEF vars, contextVars, threadVars, sendVars, receiveVars, netVars
<1>. QED
  BY <1>1, <1>2, <1>3, <1>4, <1>5, <1>6 DEF Next, PerformSome
-----------------------------------------------------------------------------
(* One thread at a time is in the handler of a receive, and while it is    *)
(* nothing is received.                                                    *)
InReceive(t) == at[t] \in {"onMessage", "rearm"}
ReceiveInv ==
  /\ \A t \in Threads : InReceive(t) => receive = "off"
  /\ \A t, u \in Threads : InReceive(t) /\ InReceive(u) => t = u
  /\ \A t \in Threads : at[t] = "onMessage" =>
       receiveBuf = arg[t] /\ receiveBuf \notin Empty /\ receiveBuf # None
  /\ receive = "done" => receiveBuf # None

LEMMA ReceiveNext == OthersTyped /\ ReceiveInv /\ [Next]_vars => ReceiveInv'
<1>. SUFFICES ASSUME OthersTyped, ReceiveInv, [Next]_vars  PROVE ReceiveInv'
  OBVIOUS
<1>. USE DEF ReceiveInv, InReceive
<1>0. at \in [Threads -> Places] /\ arg \in [Threads -> Datagrams \cup Blocks \cup {None}]
  BY DEF OthersTyped
<1>1. CASE UNCHANGED <<at, arg, receive, receiveBuf>>
  BY <1>1
<1>2. ASSUME NEW t \in Threads, TakeSent(t)  PROVE ReceiveInv'
  BY <1>0, <1>2 DEF TakeSent, TakeFinished, Idle, EndHandler, receiveVars
<1>3. ASSUME NEW t \in Threads, TakeSendError(t)  PROVE ReceiveInv'
  BY <1>0, <1>3 DEF TakeSendError, TakeFinished, Idle, receiveVars
<1>4. ASSUME NEW t \in Threads, ReturnError(t)  PROVE ReceiveInv'
  BY <1>0, <1>4 DEF ReturnError, EndHandler, receiveVars
<1>5. ASSUME NEW t \in Threads, TakeReceive(t)  PROVE ReceiveInv'
  BY <1>0, <1>5 DEF TakeReceive, ReceivesLast, Idle
<1>6. ASSUME NEW t \in Threads, Rearm(t)  PROVE ReceiveInv'
  BY <1>0, <1>6 DEF Rearm, EndHandler
<1>7. CASE PerformReceive \/ FailReceive
  <2>1. ASSUME PerformReceive  PROVE receiveBuf' # None
    <3>1. arrived \in Seq(written) /\ arrived # <<>> /\ receiveBuf' = Head(arrived)
      BY <2>1 DEF PerformReceive, OthersTyped
    <3>2. Head(arrived) \in written
      BY <3>1, Taken
    <3>. QED
      BY <3>1, <3>2, UDPAssumption DEF OthersTyped
  <2>. QED
    BY <1>7, <2>1 DEF PerformReceive, FailReceive, threadVars
<1>8. CASE \E t \in Threads : Call(t)
  BY <1>1, <1>8, ZenonT(60) DEF Call, EnterContext, EnterClientRun, LeaveClientRun, LeaveContext,
     Stop, Write, threadVars, receiveVars
<1>9. CASE \E side \in Sides : \E i \in DOMAIN sends[side] :
             PerformSend(side, i) \/ FailSend(side, i)
  BY <1>1, <1>9 DEF PerformSend, FailSend, threadVars, receiveVars
<1>10. CASE \E d \in Datagrams : Arrive(d) \/ Lose(d)
  BY <1>1, <1>10 DEF Arrive, Lose, threadVars, receiveVars
<1>11. CASE UNCHANGED vars
  BY <1>1, <1>11 DEF vars, threadVars, receiveVars
<1>. QED
  BY <1>2, <1>3, <1>4, <1>5, <1>6, <1>7, <1>8, <1>9, <1>10, <1>11
     DEF Next, Handle, PerformSome
-----------------------------------------------------------------------------
(* The work of a context: the receive, the sends, the onErrors that run    *)
(* and the work objects of ClientUDP::run().                               *)
ReceiveWork(side) == IF side = "server" THEN 1 ELSE 0
InError(side) == {t \in Threads : Side(t) = side /\ at[t] = "onError"}
InWork(side) == {t \in Threads : Side(t) = side /\ mode[t] = "work"}
Pending(side) == Len(sends[side])
Failing(side) == Cardinality(InError(side))
Working(side) == Cardinality(InWork(side))
Work(side) == ReceiveWork(side) + Pending(side) + Failing(side) + Working(side)

CountInv ==
  /\ ctx \in [Sides -> Contexts]
  /\ \A side \in Sides :
       /\ IsFiniteSet(InError(side)) /\ IsFiniteSet(InWork(side))
       /\ ctx[side].work = Work(side)
  /\ ServerRunBlocks

(* One thread more, or one less, in a set.                                 *)
LEMMA OneMore ==
  ASSUME NEW S, NEW T, NEW t, IsFiniteSet(S), t \notin S, T = S \cup {t}
  PROVE  /\ IsFiniteSet(T) /\ Cardinality(S) \in Nat
         /\ Cardinality(T) = Cardinality(S) + 1
BY FS_AddElement, FS_CardinalityType

LEMMA OneLess ==
  ASSUME NEW S, NEW T, NEW t, IsFiniteSet(S), t \in S, T = S \ {t}
  PROVE  /\ IsFiniteSet(T) /\ Cardinality(T) \in Nat
         /\ Cardinality(S) = Cardinality(T) + 1
BY FS_RemoveElement, FS_CardinalityType, SMTT(60)

(* What the steps of a context make of it.                                 *)
LEMMA ContextMade ==
  ASSUME NEW c \in Contexts
  PROVE  /\ Halt(c) \in Contexts /\ Halt(c).work = c.work
         /\ WorkStarted(c) \in Contexts /\ WorkStarted(c).work = c.work + 1
         /\ WorkStarted(c).stopped = c.stopped
         /\ RunEntered(c) \in Contexts /\ RunEntered(c).work = c.work
         /\ c.work # 0 => RunEntered(c) = c
         /\ c.work # 0 => WorkFinished(c) \in Contexts
         /\ WorkFinished(c).work = c.work - 1
         /\ c.work # 1 => WorkFinished(c).stopped = c.stopped
<1>1. Halt(c) \in Contexts /\ Halt(c).work = c.work
  BY DEF Halt, Contexts
<1>2. /\ WorkStarted(c) \in Contexts /\ WorkStarted(c).work = c.work + 1
      /\ WorkStarted(c).stopped = c.stopped
  BY DEF WorkStarted, Contexts
<1>3. /\ RunEntered(c) \in Contexts /\ RunEntered(c).work = c.work
      /\ c.work # 0 => RunEntered(c) = c
  BY <1>1 DEF RunEntered
<1>4. /\ c.work # 0 => WorkFinished(c) \in Contexts
      /\ WorkFinished(c).work = c.work - 1
      /\ c.work # 1 => WorkFinished(c).stopped = c.stopped
  BY DEF WorkFinished, Contexts
<1>. QED
  BY <1>1, <1>2, <1>3, <1>4

(* A step of t that counts its work in the context of its side.            *)
Counts(t, s) ==
  \/ Work(s)' = Work(s) /\ SetContext(t, Mine(t))
  \/ Work(s)' = Work(s) /\ SetContext(t, RunEntered(Mine(t)))
  \/ Work(s)' = Work(s) /\ SetContext(t, Halt(Mine(t))) /\ s \in halted'
  \/ Work(s)' = Work(s) + 1 /\ SetContext(t, WorkStarted(Mine(t)))
  \/ Work(s) = Work(s)' + 1 /\ SetContext(t, WorkFinished(Mine(t)))

SetsFinite == \A side \in Sides : IsFiniteSet(InError(side)) /\ IsFiniteSet(InWork(side))

LEMMA WorkType ==
  OthersTyped /\ SetsFinite =>
    \A side \in Sides : Work(side) \in Nat /\ (side = "server" => Work(side) >= 1)
<1>. SUFFICES ASSUME OthersTyped, SetsFinite, NEW side \in Sides
              PROVE  Work(side) \in Nat /\ (side = "server" => Work(side) >= 1)
  OBVIOUS
<1>1. Len(sends[side]) \in Nat
  BY DEF OthersTyped
<1>2. Cardinality(InError(side)) \in Nat /\ Cardinality(InWork(side)) \in Nat
  BY FS_CardinalityType DEF SetsFinite
<1>3. ReceiveWork(side) \in {0, 1} /\ (side = "server" => ReceiveWork(side) = 1)
  BY DEF ReceiveWork
<1>. QED
  BY <1>1, <1>2, <1>3, SMTT(60) DEF Work, Pending, Failing, Working

LEMMA ContextSteps ==
  ASSUME OthersTyped, OthersTyped', CountInv, NEW s \in Sides,
         NEW t \in ThreadsOf(s), Counts(t, s), halted \subseteq halted', SetsFinite',
         \A side \in Sides \ {s} : Work(side)' = Work(side)
  PROVE  CountInv'
<1>0. s \in Sides /\ s = Side(t) /\ s \in {"client", "server"}
  BY DEF Sides, ThreadsOf
<1>1. \A side \in Sides : /\ Work(side) \in Nat /\ (side = "server" => Work(side) >= 1)
                          /\ Work(side)' \in Nat
                          /\ (side = "server" => Work(side)' >= 1)
  <2>1. SetsFinite
    BY DEF CountInv, SetsFinite
  <2>2. (OthersTyped /\ SetsFinite =>
           \A side \in Sides :
             Work(side) \in Nat /\ (side = "server" => Work(side) >= 1))'
    BY WorkType, PTL
  <2>3. \A side \in Sides : Work(side)' \in Nat /\ (side = "server" => Work(side)' >= 1)
    BY <2>2
  <2>. QED
    BY <2>1, <2>3, WorkType
<1>2. /\ Mine(t) \in Contexts /\ Mine(t).work = Work(s)
      /\ (s = "server" /\ Mine(t).stopped => "server" \in halted)
  BY <1>0 DEF CountInv, ServerRunBlocks, Mine
<1>3. /\ Mine(t).work \in Nat /\ Work(s)' \in Nat
      /\ (s = "server" => Mine(t).work >= 1 /\ Work(s)' >= 1)
  BY <1>0, <1>1, <1>2
<1>. DEFINE Good(c) == /\ c \in Contexts /\ c.work = Work(s)'
                       /\ (s = "server" /\ c.stopped => "server" \in halted')
<1>5. PICK c : SetContext(t, c) /\ Good(c)
  <2>1. CASE Work(s)' = Work(s) /\ SetContext(t, Mine(t))
    BY <1>2, <1>3, <2>1
  <2>2. CASE Work(s)' = Work(s) /\ SetContext(t, RunEntered(Mine(t)))
    BY <1>2, <1>3, <2>2, ContextMade
  <2>3. CASE /\ Work(s)' = Work(s) /\ s \in halted'
            /\ SetContext(t, Halt(Mine(t)))
    BY <1>2, <1>3, <2>3, ContextMade
  <2>4. CASE Work(s)' = Work(s) + 1 /\ SetContext(t, WorkStarted(Mine(t)))
    BY <1>2, <1>3, <2>4, ContextMade
  <2>5. CASE Work(s) = Work(s)' + 1 /\ SetContext(t, WorkFinished(Mine(t)))
    <3>1. Mine(t).work # 0 /\ (s = "server" => Mine(t).work # 1)
          /\ Mine(t).work = Work(s)' + 1 /\ Mine(t).work - 1 = Work(s)'
      BY <1>2, <1>3, <2>5
    <3>. QED
      BY <1>2, <2>5, <3>1, ContextMade
  <2>. QED
    BY <2>1, <2>2, <2>3, <2>4, <2>5 DEF Counts
<1>6. ctx' \in [Sides -> Contexts] /\ ctx'[s] = c
      /\ \A side \in Sides \ {s} : ctx'[side] = ctx[side]
  BY <1>0, <1>5 DEF CountInv, SetContext
<1>. QED
  BY <1>0, <1>5, <1>6 DEF CountInv, SetsFinite, ServerRunBlocks, Sides

(* The parts of a side's work that a step leaves alone.                    *)
LEMMA SameWork ==
  ASSUME CountInv, NEW side \in Sides, InError(side)' = InError(side),
         InWork(side)' = InWork(side), Len(sends'[side]) = Len(sends[side])
  PROVE  /\ Work(side)' = Work(side)
         /\ IsFiniteSet(InError(side)') /\ IsFiniteSet(InWork(side)')
BY DEF CountInv, Work, Pending, Failing, Working

LEMMA CountOf ==
  ASSUME OthersTyped, CountInv, NEW side \in Sides
  PROVE  /\ IsFiniteSet(InError(side)) /\ IsFiniteSet(InWork(side))
         /\ Cardinality(InError(side)) \in Nat /\ Cardinality(InWork(side)) \in Nat
         /\ Len(sends[side]) \in Nat /\ sends[side] \in Seq(SendOf(written))
         /\ ReceiveWork(side) \in Nat
<1>1. ReceiveWork(side) \in Nat
  BY DEF ReceiveWork
<1>. QED
  BY <1>1, FS_CardinalityType DEF CountInv, OthersTyped

(* Calls, from outside a context or inside a callback.                     *)
LEMMA CountCalls ==
  ASSUME OthersTyped, OthersTyped', CountInv, NEW s \in Sides,
         NEW t \in ThreadsOf(s), Call(t)
  PROVE  CountInv'
<1>0. /\ t \in Threads /\ s = Side(t)
      /\ mode \in [Threads -> Modes] /\ at \in [Threads -> Places]
  BY DEF ThreadsOf, OthersTyped
<1>9. /\ Failing(s) \in Nat /\ Working(s) \in Nat
      /\ Pending(s) \in Nat /\ ReceiveWork(s) \in Nat
      /\ IsFiniteSet(InError(s)) /\ IsFiniteSet(InWork(s))
  BY CountOf DEF Failing, Working, Pending
<1>1. CASE \/ \E how \in {"run", "once"} : EnterContext(t, how)
           \/ LeaveContext(t) \/ Stop(t)
  <2>1. ASSUME NEW side \in Sides
        PROVE  /\ InError(side)' = InError(side) /\ InWork(side)' = InWork(side)
               /\ Len(sends'[side]) = Len(sends[side])
    BY <1>0, <1>1 DEF EnterContext, LeaveContext, Stop, InError, InWork, sendVars,
       threadVars
  <2>2. SetsFinite' /\ \A side \in Sides : Work(side)' = Work(side)
    BY <2>1, SameWork DEF SetsFinite
  <2>3. CASE LeaveContext(t)
    BY <2>2, <2>3 DEF LeaveContext, contextVars, CountInv, SetsFinite, ServerRunBlocks
  <2>4. CASE ~LeaveContext(t)
    <3>1. Work(s)' = Work(s)
      BY <1>0, <2>2
    <3>2. Counts(t, s) /\ halted \subseteq halted'
      BY <1>0, <1>1, <2>4, <3>1 DEF EnterContext, Stop, Counts
    <3>. QED
      BY <2>2, <3>2, ContextSteps
  <2>. QED
    BY <2>3, <2>4
<1>2. CASE EnterClientRun(t) \/ LeaveClientRun(t)
  <2>1. ASSUME NEW side \in Sides
        PROVE  InError(side)' = InError(side) /\ Len(sends'[side]) = Len(sends[side])
    BY <1>2 DEF EnterClientRun, LeaveClientRun, InError, sendVars
  <2>2. ASSUME NEW side \in Sides, side # s
        PROVE  InWork(side)' = InWork(side)
    BY <1>0, <1>2, <2>2 DEF EnterClientRun, LeaveClientRun, InWork
  <2>3. ASSUME NEW side \in Sides, side # s
        PROVE  /\ Work(side)' = Work(side)
               /\ IsFiniteSet(InError(side)') /\ IsFiniteSet(InWork(side)')
    BY <2>1, <2>2, <2>3, SameWork
  <2>4. halted \subseteq halted'
    BY <1>2 DEF EnterClientRun, LeaveClientRun
  <2>5. CASE EnterClientRun(t)
    <3>1. InWork(s)' = InWork(s) \cup {t} /\ t \notin InWork(s)
      BY <1>0, <2>5 DEF EnterClientRun, InWork, Modes
    <3>2. /\ IsFiniteSet(InWork(s)')
          /\ Working(s)' = Working(s) + 1
      BY <1>9, <3>1, OneMore DEF Working
    <3>a. Failing(s)' = Failing(s) /\ Pending(s)' = Pending(s) /\ IsFiniteSet(InError(s)')
      BY <1>9, <2>1 DEF Failing, Pending
    <3>3. Work(s)' = Work(s) + 1 /\ IsFiniteSet(InError(s)')
      BY <1>9, <3>2, <3>a DEF Work
    <3>4. SetsFinite' /\ Counts(t, s)
      BY <2>3, <2>5, <3>2, <3>3 DEF SetsFinite, EnterClientRun, Counts
    <3>. QED
      BY <2>3, <2>4, <3>3, <3>4, ContextSteps
  <2>6. CASE LeaveClientRun(t)
    <3>1. InWork(s)' = InWork(s) \ {t} /\ t \in InWork(s)
      BY <1>0, <2>6 DEF LeaveClientRun, InWork, Modes
    <3>2. /\ IsFiniteSet(InWork(s)')
          /\ Working(s)' \in Nat /\ Working(s) = Working(s)' + 1
      BY <1>9, <3>1, OneLess DEF Working
    <3>a. Failing(s)' = Failing(s) /\ Pending(s)' = Pending(s) /\ IsFiniteSet(InError(s)')
      BY <1>9, <2>1 DEF Failing, Pending
    <3>3. Work(s) = Work(s)' + 1 /\ IsFiniteSet(InError(s)')
      BY <1>9, <3>2, <3>a DEF Work
    <3>4. SetsFinite' /\ Counts(t, s)
      BY <2>3, <2>6, <3>2, <3>3 DEF SetsFinite, LeaveClientRun, Counts
    <3>. QED
      BY <2>3, <2>4, <3>3, <3>4, ContextSteps
  <2>. QED
    BY <1>2, <2>5, <2>6
<1>3. ASSUME NEW d \in Datagrams, NEW b \in Blocks, NEW st \in Outcomes,
             Write(t, d, b, st)
      PROVE  CountInv'
  <2>1. ASSUME NEW side \in Sides
        PROVE  InError(side)' = InError(side) /\ InWork(side)' = InWork(side)
    BY <1>3 DEF Write, InError, InWork, threadVars
  <2>2. ASSUME NEW side \in Sides, side # s
        PROVE  Len(sends'[side]) = Len(sends[side])
    BY <1>0, <1>3, <2>2 DEF Write, OthersTyped
  <2>3. Pending(s)' = Pending(s) + 1 /\ Failing(s)' = Failing(s) /\ Working(s)' = Working(s)
    BY <1>0, <1>3, <2>1, CountOf DEF Write, OthersTyped, Pending, Failing, Working
  <2>4. \A side \in Sides \ {s} : Work(side)' = Work(side)
    BY <2>1, <2>2, SameWork
  <2>5. Work(s)' = Work(s) + 1
    BY <1>9, <2>3 DEF Work
  <2>6. SetsFinite' /\ Counts(t, s) /\ halted \subseteq halted'
    BY <1>3, <2>1, <2>5, CountOf DEF SetsFinite, Write, Counts
  <2>. QED
    BY <2>4, <2>5, <2>6, ContextSteps
<1>. QED
  BY <1>1, <1>2, <1>3 DEF Call

(* Handlers, and the callbacks in them.                                    *)
LEMMA CountHandles ==
  ASSUME OthersTyped, OthersTyped', CountInv, NEW s \in Sides,
         NEW t \in ThreadsOf(s), Handle(t)
  PROVE  CountInv'
<1>0. /\ t \in Threads /\ s = Side(t)
      /\ mode \in [Threads -> Modes] /\ at \in [Threads -> Places]
  BY DEF ThreadsOf, OthersTyped
<1>9. /\ Failing(s) \in Nat /\ Working(s) \in Nat
      /\ Pending(s) \in Nat /\ ReceiveWork(s) \in Nat
      /\ IsFiniteSet(InError(s)) /\ IsFiniteSet(InWork(s))
  BY CountOf DEF Failing, Working, Pending
<1>1. halted \subseteq halted' /\ \A side \in Sides : InWork(side)' = InWork(side)
  BY <1>0 DEF Handle, TakeSent, TakeSendError, ReturnError, TakeReceive, Rearm,
     EndHandler, InWork, contextVars
<1>2. ASSUME NEW st, TakeFinished(t, st)
      PROVE  /\ \A side \in Sides \ {s} : Len(sends'[side]) = Len(sends[side])
             /\ Pending(s) = Pending(s)' + 1 /\ Pending(s)' \in Nat
             /\ at[t] = "idle"
  BY <1>0, <1>2, CountOf, Taken DEF TakeFinished, Idle, OthersTyped, Pending
<1>3. ASSUME UNCHANGED ctx  PROVE SetContext(t, Mine(t))
  BY <1>0, <1>3 DEF CountInv, SetContext, Mine
<1>4. CASE TakeSent(t)
  <2>1. /\ Pending(s) = Pending(s)' + 1 /\ Pending(s)' \in Nat /\ at[t] = "idle"
        /\ \A side \in Sides \ {s} : Len(sends'[side]) = Len(sends[side])
    BY <1>2, <1>4 DEF TakeSent
  <2>2. \A side \in Sides : InError(side)' = InError(side)
    BY <1>0, <1>4, <2>1 DEF TakeSent, EndHandler, InError
  <2>3. \A side \in Sides \ {s} : Work(side)' = Work(side)
    BY <1>1, <2>1, <2>2, SameWork
  <2>a. Failing(s)' = Failing(s) /\ Working(s)' = Working(s)
    BY <1>1, <2>2 DEF Failing, Working
  <2>4. Work(s) = Work(s)' + 1
    BY <1>9, <2>1, <2>a DEF Work
  <2>5. SetsFinite' /\ Counts(t, s)
    BY <1>1, <1>4, <2>2, <2>4, CountOf DEF SetsFinite, TakeSent, Counts
  <2>. QED
    BY <1>1, <2>3, <2>4, <2>5, ContextSteps
<1>5. CASE TakeSendError(t)
  <2>1. /\ Pending(s) = Pending(s)' + 1 /\ Pending(s)' \in Nat /\ at[t] = "idle"
        /\ \A side \in Sides \ {s} : Len(sends'[side]) = Len(sends[side])
    BY <1>2, <1>5 DEF TakeSendError
  <2>2. /\ \A side \in Sides \ {s} : InError(side)' = InError(side)
        /\ InError(s)' = InError(s) \cup {t} /\ t \notin InError(s)
    BY <1>0, <1>5, <2>1 DEF TakeSendError, InError
  <2>3. /\ IsFiniteSet(InError(s)')
        /\ Failing(s)' = Failing(s) + 1 /\ Working(s)' = Working(s)
    BY <1>1, <1>9, <2>2, OneMore DEF Failing, Working
  <2>4. \A side \in Sides \ {s} : Work(side)' = Work(side)
    BY <1>1, <2>1, <2>2, SameWork
  <2>5. Work(s)' = Work(s)
    BY <1>9, <2>1, <2>3 DEF Work
  <2>6. SetsFinite' /\ Counts(t, s)
    BY <1>1, <1>3, <1>5, <2>2, <2>3, <2>5, CountOf
       DEF SetsFinite, TakeSendError, Counts, contextVars
  <2>. QED
    BY <1>1, <2>4, <2>5, <2>6, ContextSteps
<1>6. CASE ReturnError(t)
  <2>1. /\ \A side \in Sides \ {s} : InError(side)' = InError(side)
        /\ InError(s)' = InError(s) \ {t} /\ t \in InError(s)
    BY <1>0, <1>6 DEF ReturnError, EndHandler, InError
  <2>2. /\ IsFiniteSet(InError(s)')
        /\ Failing(s)' \in Nat /\ Failing(s) = Failing(s)' + 1 /\ Working(s)' = Working(s)
    BY <1>1, <1>9, <2>1, OneLess DEF Failing, Working
  <2>3. \A side \in Sides : Len(sends'[side]) = Len(sends[side])
    BY <1>6 DEF ReturnError
  <2>4. \A side \in Sides \ {s} : Work(side)' = Work(side)
    BY <1>1, <2>1, <2>3, SameWork
  <2>a. Pending(s)' = Pending(s)
    BY <2>3 DEF Pending
  <2>5. Work(s) = Work(s)' + 1
    BY <1>9, <2>2, <2>a DEF Work
  <2>6. SetsFinite' /\ Counts(t, s)
    BY <1>1, <1>6, <2>1, <2>2, <2>5, CountOf DEF SetsFinite, ReturnError, Counts
  <2>. QED
    BY <1>1, <2>4, <2>5, <2>6, ContextSteps
<1>7. CASE TakeReceive(t) \/ Rearm(t)
  <2>1. \A side \in Sides : InError(side)' = InError(side)
    BY <1>0, <1>7 DEF TakeReceive, Idle, Rearm, EndHandler, InError
  <2>2. \A side \in Sides : Len(sends'[side]) = Len(sends[side])
    BY <1>7 DEF TakeReceive, Rearm, sendVars
  <2>3. \A side \in Sides : Work(side)' = Work(side)
    BY <1>1, <2>1, <2>2, SameWork
  <2>4. Work(s)' = Work(s)
    BY <1>0, <2>3, <1>9 DEF Work
  <2>5. SetsFinite'
    BY <1>1, <2>1, CountOf DEF SetsFinite
  <2>6. Counts(t, s)
    BY <1>3, <1>7, <2>4 DEF TakeReceive, Rearm, Always, Counts, contextVars
  <2>. QED
    BY <1>1, <2>3, <2>4, <2>5, <2>6, ContextSteps
<1>. QED
  BY <1>4, <1>5, <1>6, <1>7 DEF Handle

LEMMA CountNext == OthersTyped /\ OthersTyped' /\ CountInv /\ [Next]_vars => CountInv'
<1>. SUFFICES ASSUME OthersTyped, OthersTyped', CountInv, [Next]_vars  PROVE CountInv'
  OBVIOUS
<1>1. ASSUME UNCHANGED <<contextVars, threadVars>>,
             \A side \in Sides : Len(sends'[side]) = Len(sends[side])
      PROVE  CountInv'
  <2>1. ASSUME NEW side \in Sides
        PROVE  InError(side)' = InError(side) /\ InWork(side)' = InWork(side)
    BY <1>1 DEF InError, InWork, threadVars
  <2>2. ASSUME NEW side \in Sides
        PROVE  /\ Work(side)' = Work(side)
               /\ IsFiniteSet(InError(side)') /\ IsFiniteSet(InWork(side)')
    BY <1>1, <2>1, SameWork
  <2>. QED
    BY <1>1, <2>2 DEF CountInv, ServerRunBlocks, contextVars
<1>2. ASSUME NEW side \in Sides, NEW i \in DOMAIN sends[side],
             PerformSend(side, i) \/ FailSend(side, i)
      PROVE  CountInv'
  <2>1. \A r \in Sides : Len(sends'[r]) = Len(sends[r])
    <3>1. PICK st : sends' = [sends EXCEPT ![side][i].st = st]
      BY <1>2 DEF PerformSend, FailSend
    <3>2. sends \in [Sides -> Seq(SendOf(written))]
      BY DEF OthersTyped
    <3>3. \A r \in Sides : sends'[r] = IF r = side THEN [sends[side] EXCEPT ![i].st = st]
                                      ELSE sends[r]
      BY <3>1, <3>2
    <3>. QED
      BY <3>2, <3>3
  <2>. QED
    BY <1>1, <1>2, <2>1 DEF PerformSend, FailSend
<1>3. CASE UNCHANGED vars \/ PerformReceive \/ FailReceive
           \/ \E d \in Datagrams : Arrive(d) \/ Lose(d)
  BY <1>1, <1>3 DEF vars, PerformReceive, FailReceive, Arrive, Lose, sendVars
<1>. QED
  BY <1>2, <1>3, SideOf, CountCalls, CountHandles DEF Next, ThreadsOf, PerformSome
-----------------------------------------------------------------------------
(* Each block that is allocated belongs to one send, which it is the bytes *)
(* of, or to one handler in onError.                                       *)
Uses(side, i, b) == i \in DOMAIN sends[side] /\ sends[side][i].block = b
Holds(t, b) == at[t] = "onError" /\ arg[t] = b

OneUser ==
  /\ \A r, q \in Sides, i, j \in Nat, b \in Blocks :
       Uses(r, i, b) /\ Uses(q, j, b) => r = q /\ i = j
  /\ \A t, u \in Threads, b \in Blocks : Holds(t, b) /\ Holds(u, b) => t = u
  /\ \A t \in Threads, r \in Sides, i \in Nat, b \in Blocks :
       ~(Holds(t, b) /\ Uses(r, i, b))

Allocated ==
  /\ \A r \in Sides, i \in Nat, b \in Blocks :
       Uses(r, i, b) => heap[b] = sends[r][i].of
  /\ \A t \in Threads : at[t] = "onError" => arg[t] \in Blocks /\ heap[arg[t]] # None

NoLeak ==
  \A b \in Blocks : heap[b] # None =>
    \/ \E r \in Sides, i \in Nat : Uses(r, i, b)
    \/ \E t \in Threads : Holds(t, b)

BlockInv == OneUser /\ Allocated /\ NoLeak /\ sentOK

LEMMA SendType ==
  ASSUME OthersTyped, NEW r \in Sides, NEW i \in DOMAIN sends[r]
  PROVE  /\ i \in Nat /\ sends[r][i].block \in Blocks
         /\ sends[r][i].of \in written /\ sends[r][i].of # None
<1>1. i \in Nat /\ sends[r][i] \in SendOf(written)
  BY DEF OthersTyped
<1>. QED
  BY <1>1, UDPAssumption DEF OthersTyped, SendOf

(* The sends of the other side, and of this one, after its oldest is taken. *)
LEMMA AfterTake ==
  ASSUME OthersTyped, NEW s \in Sides, NEW t \in ThreadsOf(s), NEW st, TakeFinished(t, st)
  PROVE  /\ 1 \in DOMAIN sends[s] /\ NextSend(t) = sends[s][1]
         /\ \A r \in Sides, i \in Nat, b \in Blocks :
              Uses(r, i, b)' => LET j == IF r = s THEN i + 1 ELSE i
                                IN  /\ j \in Nat /\ Uses(r, j, b)
                                    /\ (r = s => j # 1)
                                    /\ sends'[r][i] = sends[r][j]
         /\ \A r \in Sides, i \in Nat, b \in Blocks :
              Uses(r, i, b) => \/ r = s /\ i = 1
                               \/ \E j \in Nat : Uses(r, j, b)'
<1>1. /\ s = Side(t) /\ sends \in [Sides -> Seq(SendOf(written))]
      /\ sends[s] # <<>> /\ sends' = [sends EXCEPT ![s] = Tail(@)]
  BY DEF ThreadsOf, OthersTyped, TakeFinished
<1>2. /\ 1 \in DOMAIN sends[s] /\ NextSend(t) = sends[s][1]
      /\ DOMAIN sends'[s] = 1 .. Len(sends[s]) - 1
      /\ DOMAIN sends[s] = 1 .. Len(sends[s]) /\ Len(sends[s]) \in Nat
      /\ \A i \in 1 .. Len(sends[s]) - 1 : sends'[s][i] = sends[s][i + 1]
      /\ \A r \in Sides \ {s} : sends'[r] = sends[r]
  <2>1. /\ Len(Tail(sends[s])) = Len(sends[s]) - 1 /\ Len(sends[s]) >= 1
        /\ Tail(sends[s]) \in Seq(SendOf(written))
        /\ \A i \in 1 .. Len(sends[s]) - 1 : Tail(sends[s])[i] = sends[s][i + 1]
        /\ Head(sends[s]) = sends[s][1]
    BY <1>1, Taken
  <2>. QED
    BY <1>1, <2>1 DEF NextSend
<1>3. ASSUME NEW r \in Sides, NEW i \in Nat, NEW b \in Blocks, Uses(r, i, b)'
      PROVE  LET j == IF r = s THEN i + 1 ELSE i
             IN  j \in Nat /\ Uses(r, j, b) /\ (r = s => j # 1) /\ sends'[r][i] = sends[r][j]
  <2>1. CASE r = s
    BY <1>2, <1>3, <2>1, SMTT(60) DEF Uses
  <2>2. CASE r # s
    BY <1>2, <1>3, <2>2 DEF Uses
  <2>. QED
    BY <2>1, <2>2
<1>4. ASSUME NEW r \in Sides, NEW i \in Nat, NEW b \in Blocks, Uses(r, i, b),
             ~(r = s /\ i = 1)
      PROVE  \E j \in Nat : Uses(r, j, b)'
  <2>1. CASE r = s
    <3>1. i - 1 \in Nat /\ i - 1 \in 1 .. Len(sends[s]) - 1 /\ (i - 1) + 1 = i
      BY <1>2, <1>4, <2>1 DEF Uses
    <3>2. Uses(r, i - 1, b)'
      BY <1>2, <1>4, <2>1, <3>1 DEF Uses
    <3>. QED
      BY <3>1, <3>2
  <2>2. CASE r # s
    BY <1>2, <1>4, <2>2 DEF Uses
  <2>. QED
    BY <2>1, <2>2
<1>. QED
  BY <1>2, <1>3, <1>4

(* write() takes a block nobody uses.                                      *)
LEMMA BlocksWrite ==
  ASSUME OthersTyped, BlockInv, NEW s \in Sides, NEW t \in ThreadsOf(s),
         NEW d \in Datagrams, NEW b \in Blocks, NEW st \in Outcomes, Write(t, d, b, st)
  PROVE  BlockInv'
<1>. DEFINE last == Len(sends[s]) + 1
<1>1. /\ s = Side(t) /\ sends[s] \in Seq(SendOf(written)) /\ sends \in [Sides -> Seq(SendOf(written))]
      /\ heap \in [Blocks -> Datagrams \cup {None}] /\ d # None
  BY UDPAssumption DEF ThreadsOf, OthersTyped
<1>2. /\ last \in Nat /\ DOMAIN sends[s] = 1 .. last - 1 /\ DOMAIN sends'[s] = 1 .. last
      /\ \A i \in 1 .. last - 1 : sends'[s][i] = sends[s][i]
      /\ sends'[s][last] = [block |-> b, of |-> d, st |-> st]
      /\ \A r \in Sides \ {s} : sends'[r] = sends[r]
  BY <1>1 DEF Write
<1>3. UNCHANGED <<at, arg, sentOK>> /\ heap[b] = None /\ heap'[b] = d
      /\ \A c \in Blocks \ {b} : heap'[c] = heap[c]
  BY <1>1 DEF Write, threadVars, Filled
<1>4. \A r \in Sides, i \in Nat, c \in Blocks :
        Uses(r, i, c)' <=> \/ Uses(r, i, c)
                           \/ r = s /\ i = last /\ c = b
  BY <1>2 DEF Uses
<1>5. \A r \in Sides, i \in Nat, c \in Blocks :
        Uses(r, i, c) => c # b /\ sends'[r][i] = sends[r][i]
  <2>. SUFFICES ASSUME NEW r \in Sides, NEW i \in Nat, NEW c \in Blocks, Uses(r, i, c)
                PROVE  c # b /\ sends'[r][i] = sends[r][i]
    OBVIOUS
  <2>1. i \in DOMAIN sends[r] /\ heap[c] = sends[r][i].of
    BY DEF Uses, BlockInv, Allocated
  <2>. QED
    BY <1>2, <1>3, <2>1, SendType
<1>6. \A u \in Threads, c \in Blocks : /\ Holds(u, c)' <=> Holds(u, c)
                                       /\ Holds(u, c) => c # b
  BY <1>3 DEF Holds, BlockInv, Allocated
<1>7. OneUser'
  <2>1. \A r, q \in Sides, i, j \in Nat, c \in Blocks :
          Uses(r, i, c)' /\ Uses(q, j, c)' => r = q /\ i = j
    <3>. SUFFICES ASSUME NEW r \in Sides, NEW q \in Sides, NEW i \in Nat, NEW j \in Nat,
                         NEW c \in Blocks, Uses(r, i, c)', Uses(q, j, c)'
                  PROVE  r = q /\ i = j
      OBVIOUS
    <3>0. ~Uses(r, i, b) /\ ~Uses(q, j, b)
      BY <1>5
    <3>1. CASE c = b
      BY <1>4, <3>0, <3>1
    <3>2. CASE c # b
      <4>1. Uses(r, i, c) /\ Uses(q, j, c)
        BY <1>4, <3>2
      <4>. QED
        BY <4>1 DEF OneUser, BlockInv
    <3>. QED
      BY <3>1, <3>2
  <2>2. \A u, v \in Threads, c \in Blocks : Holds(u, c)' /\ Holds(v, c)' => u = v
    BY <1>6 DEF OneUser, BlockInv
  <2>3. \A u \in Threads, r \in Sides, i \in Nat, c \in Blocks :
          ~(Holds(u, c)' /\ Uses(r, i, c)')
    BY <1>4, <1>6 DEF OneUser, BlockInv
  <2>. QED
    BY <2>1, <2>2, <2>3 DEF OneUser
<1>8. Allocated'
  <2>1. \A r \in Sides, i \in Nat, c \in Blocks :
          Uses(r, i, c)' => heap'[c] = sends'[r][i].of
    BY <1>2, <1>3, <1>4, <1>5 DEF Allocated, BlockInv
  <2>2. \A u \in Threads : at'[u] = "onError" =>
          arg'[u] \in Blocks /\ heap'[arg'[u]] # None
    BY <1>1, <1>3 DEF Allocated, BlockInv
  <2>. QED
    BY <2>1, <2>2 DEF Allocated
<1>9. NoLeak'
  BY <1>2, <1>3, <1>4, <1>6 DEF NoLeak, BlockInv
<1>. QED
  BY <1>3, <1>7, <1>8, <1>9 DEF BlockInv

(* The kernel reads the block of the send it performs.                     *)
LEMMA BlocksPerform ==
  ASSUME OthersTyped, BlockInv, NEW s \in Sides, NEW k \in DOMAIN sends[s],
         PerformSend(s, k) \/ FailSend(s, k)
  PROVE  BlockInv'
<1>1. PICK st : sends' = [sends EXCEPT ![s][k].st = st]
  BY DEF PerformSend, FailSend
<1>2. sends \in [Sides -> Seq(SendOf(written))]
  BY DEF OthersTyped
<1>3. \A r \in Sides : /\ DOMAIN sends'[r] = DOMAIN sends[r]
                       /\ \A i \in DOMAIN sends[r] :
                            /\ sends'[r][i].block = sends[r][i].block
                            /\ sends'[r][i].of = sends[r][i].of
  <2>1. ASSUME NEW r \in Sides
        PROVE  sends'[r] = IF r = s THEN [sends[s] EXCEPT ![k].st = st] ELSE sends[r]
    BY <1>1, <1>2
  <2>2. sends[s] \in Seq(SendOf(written))
        /\ \A i \in DOMAIN sends[s] : sends[s][i] \in SendOf(written)
    BY <1>2
  <2>3. \A i \in DOMAIN sends[s] :
          /\ [sends[s] EXCEPT ![k].st = st][i].block = sends[s][i].block
          /\ [sends[s] EXCEPT ![k].st = st][i].of = sends[s][i].of
    BY <2>2 DEF SendOf
  <2>. QED
    BY <2>1, <2>2, <2>3
<1>4. /\ UNCHANGED <<at, arg, heap>>
      /\ sentOK' = sentOK \/ sentOK' = (sentOK /\ heap[sends[s][k].block] = sends[s][k].of)
  BY DEF PerformSend, FailSend, threadVars
<1>5. Uses(s, k, sends[s][k].block) /\ sends[s][k].block \in Blocks /\ k \in Nat
  BY SendType DEF Uses
<1>6. sentOK'
  BY <1>4, <1>5 DEF BlockInv, Allocated
<1>7. \A r \in Sides, i \in Nat, c \in Blocks :
        /\ Uses(r, i, c)' <=> Uses(r, i, c)
        /\ Uses(r, i, c) => sends'[r][i].of = sends[r][i].of
  BY <1>3 DEF Uses
<1>8. \A u \in Threads, c \in Blocks : Holds(u, c)' <=> Holds(u, c)
  BY <1>4 DEF Holds
<1>9. OneUser'
  BY <1>7, <1>8 DEF OneUser, BlockInv
<1>10. Allocated'
  BY <1>4, <1>7 DEF Allocated, BlockInv
<1>11. NoLeak'
  BY <1>4, <1>7, <1>8 DEF NoLeak, BlockInv
<1>. QED
  BY <1>6, <1>9, <1>10, <1>11 DEF BlockInv

(* A handler takes its send, whose block no other uses, and frees it, at   *)
(* once or after onError.                                                  *)
LEMMA TakenAlone ==
  ASSUME OthersTyped, BlockInv, NEW s \in Sides, NEW t \in ThreadsOf(s), NEW st,
         TakeFinished(t, st), NEW b, b = sends[s][1].block
  PROVE  /\ 1 \in DOMAIN sends[s] /\ NextSend(t) = sends[s][1] /\ Uses(s, 1, b)
         /\ b \in Blocks /\ heap[b] # None
         /\ \A r, q \in Sides, i, j \in Nat, c \in Blocks :
              Uses(r, i, c)' /\ Uses(q, j, c)' => r = q /\ i = j
         /\ \A r \in Sides, i \in Nat : ~Uses(r, i, b)'
         /\ \A u \in Threads : ~Holds(u, b)
         /\ \A u \in Threads, r \in Sides, i \in Nat, c \in Blocks :
              Holds(u, c) => ~Uses(r, i, c)'
         /\ \A r \in Sides, i \in Nat, c \in Blocks :
              Uses(r, i, c)' => heap[c] = sends'[r][i].of
<1>. DEFINE Was(r, i) == IF r = s THEN i + 1 ELSE i
<1>1. /\ 1 \in DOMAIN sends[s] /\ NextSend(t) = sends[s][1] /\ Uses(s, 1, b)
      /\ b \in Blocks /\ sends[s][1].of # None
  BY AfterTake, SendType DEF Uses
<1>2. \A r \in Sides, i \in Nat, c \in Blocks :
        Uses(r, i, c)' => /\ Was(r, i) \in Nat /\ Uses(r, Was(r, i), c)
                          /\ (r = s => Was(r, i) # 1)
                          /\ sends'[r][i] = sends[r][Was(r, i)]
  BY AfterTake
<1>3. \A r, q \in Sides, i, j \in Nat, c \in Blocks :
        Uses(r, i, c)' /\ Uses(q, j, c)' => r = q /\ i = j
  <2>. SUFFICES ASSUME NEW r \in Sides, NEW q \in Sides, NEW i \in Nat, NEW j \in Nat,
                       NEW c \in Blocks, Uses(r, i, c)', Uses(q, j, c)'
                PROVE  r = q /\ i = j
    OBVIOUS
  <2>1. r = q /\ Was(r, i) = Was(q, j)
    <3>1. /\ Was(r, i) \in Nat /\ Uses(r, Was(r, i), c)
          /\ Was(q, j) \in Nat /\ Uses(q, Was(q, j), c)
      BY <1>2
    <3>. QED
      BY <3>1 DEF OneUser, BlockInv
  <2>. QED
    BY <2>1
<1>4. \A r \in Sides, i \in Nat : ~Uses(r, i, b)'
  <2>. SUFFICES ASSUME NEW r \in Sides, NEW i \in Nat, Uses(r, i, b)'
                PROVE  FALSE
    OBVIOUS
  <2>1. Was(r, i) \in Nat /\ Uses(r, Was(r, i), b) /\ (r = s => Was(r, i) # 1)
    BY <1>1, <1>2
  <2>2. r = s /\ Was(r, i) = 1
    BY <1>1, <2>1 DEF OneUser, BlockInv
  <2>. QED
    BY <2>1, <2>2
<1>5. \A u \in Threads : ~Holds(u, b)
  BY <1>1 DEF OneUser, BlockInv
<1>6. \A u \in Threads, r \in Sides, i \in Nat, c \in Blocks :
        Holds(u, c) => ~Uses(r, i, c)'
  <2>. SUFFICES ASSUME NEW u \in Threads, NEW r \in Sides, NEW i \in Nat,
                       NEW c \in Blocks, Holds(u, c), Uses(r, i, c)'
                PROVE  FALSE
    OBVIOUS
  <2>1. Was(r, i) \in Nat /\ Uses(r, Was(r, i), c)
    BY <1>2
  <2>. QED
    BY <2>1 DEF OneUser, BlockInv
<1>7. \A r \in Sides, i \in Nat, c \in Blocks :
        Uses(r, i, c)' => heap[c] = sends'[r][i].of
  <2>. SUFFICES ASSUME NEW r \in Sides, NEW i \in Nat, NEW c \in Blocks, Uses(r, i, c)'
                PROVE  heap[c] = sends'[r][i].of
    OBVIOUS
  <2>1. /\ Was(r, i) \in Nat /\ Uses(r, Was(r, i), c)
        /\ sends'[r][i] = sends[r][Was(r, i)]
    BY <1>2
  <2>. QED
    BY <2>1 DEF Allocated, BlockInv
<1>8. heap[b] # None
  BY <1>1 DEF Allocated, BlockInv
<1>. QED
  BY <1>1, <1>3, <1>4, <1>5, <1>6, <1>7, <1>8

LEMMA BlocksSent ==
  ASSUME OthersTyped, BlockInv, NEW s \in Sides, NEW t \in ThreadsOf(s), TakeSent(t)
  PROVE  BlockInv'
<1>a. PICK b : b = sends[s][1].block
  OBVIOUS
<1>0. TakeFinished(t, "sent")
  BY DEF TakeSent
<1>1. /\ NextSend(t) = sends[s][1] /\ Uses(s, 1, b) /\ b \in Blocks /\ heap[b] # None
      /\ \A u \in Threads : ~Holds(u, b)
      /\ \A r \in Sides, i \in Nat : ~Uses(r, i, b)'
  BY <1>0, <1>a, TakenAlone
<1>2. /\ \A r, q \in Sides, i, j \in Nat, c \in Blocks :
           Uses(r, i, c)' /\ Uses(q, j, c)' => r = q /\ i = j
      /\ \A u \in Threads, r \in Sides, i \in Nat, c \in Blocks :
           Holds(u, c) => ~Uses(r, i, c)'
      /\ \A r \in Sides, i \in Nat, c \in Blocks :
           Uses(r, i, c)' => heap[c] = sends'[r][i].of
  BY <1>0, <1>a, TakenAlone
<1>3. \A r \in Sides, i \in Nat, c \in Blocks :
        Uses(r, i, c) => (r = s /\ i = 1) \/ \E j \in Nat : Uses(r, j, c)'
  BY <1>0, AfterTake
<1>4. /\ t \in Threads /\ at[t] = "idle" /\ at \in [Threads -> Places]
      /\ heap \in [Blocks -> Datagrams \cup {None}]
      /\ arg \in [Threads -> Datagrams \cup Blocks \cup {None}]
  BY <1>0 DEF TakeFinished, Idle, ThreadsOf, OthersTyped
<1>5. /\ \A c \in Blocks \ {b} : heap'[c] = heap[c]
      /\ heap'[b] = None /\ sentOK' = sentOK
  BY <1>1, <1>4, <1>a DEF TakeSent, Frees
<1>6. \A u \in Threads : /\ at'[u] = "onError" <=> at[u] = "onError"
                         /\ at[u] = "onError" => arg'[u] = arg[u]
  BY <1>4 DEF TakeSent, EndHandler
<1>7. \A u \in Threads, c \in Blocks : Holds(u, c)' <=> Holds(u, c)
  BY <1>6 DEF Holds
<1>8. OneUser'
  BY <1>2, <1>7 DEF OneUser, BlockInv
<1>11. Allocated'
  <2>1. \A r \in Sides, i \in Nat, c \in Blocks :
          Uses(r, i, c)' => heap'[c] = sends'[r][i].of
    <3>. SUFFICES ASSUME NEW r \in Sides, NEW i \in Nat, NEW c \in Blocks, Uses(r, i, c)'
                  PROVE  heap'[c] = sends'[r][i].of
      OBVIOUS
    <3>1. c # b
      BY <1>1
    <3>. QED
      BY <1>2, <1>5, <3>1
  <2>2. \A u \in Threads : at'[u] = "onError" =>
          arg'[u] \in Blocks /\ heap'[arg'[u]] # None
    BY <1>1, <1>5, <1>6 DEF Allocated, BlockInv, Holds
  <2>. QED
    BY <2>1, <2>2 DEF Allocated
<1>12. NoLeak'
  <2>. SUFFICES ASSUME NEW c \in Blocks, heap'[c] # None
                PROVE  \/ \E r \in Sides, i \in Nat : Uses(r, i, c)'
                       \/ \E u \in Threads : Holds(u, c)'
    BY DEF NoLeak
  <2>1. c # b /\ heap[c] # None
    BY <1>5
  <2>2. CASE \E r \in Sides, i \in Nat : Uses(r, i, c)
    <3>1. PICK r \in Sides, i \in Nat : Uses(r, i, c)
      BY <2>2
    <3>2. ~(r = s /\ i = 1)
      BY <1>a, <2>1, <3>1 DEF Uses
    <3>. QED
      BY <1>3, <3>1, <3>2
  <2>. QED
    BY <1>7, <2>1, <2>2 DEF NoLeak, BlockInv
<1>. QED
  BY <1>5, <1>8, <1>11, <1>12 DEF BlockInv

LEMMA BlocksSendError ==
  ASSUME OthersTyped, BlockInv, NEW s \in Sides, NEW t \in ThreadsOf(s), TakeSendError(t)
  PROVE  BlockInv'
<1>a. PICK b : b = sends[s][1].block
  OBVIOUS
<1>0. TakeFinished(t, "failed")
  BY DEF TakeSendError
<1>1. /\ NextSend(t) = sends[s][1] /\ Uses(s, 1, b) /\ b \in Blocks /\ heap[b] # None
      /\ \A u \in Threads : ~Holds(u, b)
      /\ \A r \in Sides, i \in Nat : ~Uses(r, i, b)'
  BY <1>0, <1>a, TakenAlone
<1>2. /\ \A r, q \in Sides, i, j \in Nat, c \in Blocks :
           Uses(r, i, c)' /\ Uses(q, j, c)' => r = q /\ i = j
      /\ \A u \in Threads, r \in Sides, i \in Nat, c \in Blocks :
           Holds(u, c) => ~Uses(r, i, c)'
      /\ \A r \in Sides, i \in Nat, c \in Blocks :
           Uses(r, i, c)' => heap[c] = sends'[r][i].of
  BY <1>0, <1>a, TakenAlone
<1>3. \A r \in Sides, i \in Nat, c \in Blocks :
        Uses(r, i, c) => (r = s /\ i = 1) \/ \E j \in Nat : Uses(r, j, c)'
  BY <1>0, AfterTake
<1>4. /\ t \in Threads /\ at[t] = "idle" /\ at \in [Threads -> Places]
      /\ arg \in [Threads -> Datagrams \cup Blocks \cup {None}]
  BY <1>0 DEF TakeFinished, Idle, ThreadsOf, OthersTyped
<1>5. UNCHANGED <<heap, sentOK>> /\ heap[b] # None
  BY <1>1 DEF TakeSendError
<1>6. /\ at'[t] = "onError" /\ arg'[t] = b
      /\ \A u \in Threads \ {t} : at'[u] = at[u] /\ arg'[u] = arg[u]
  BY <1>1, <1>4, <1>a DEF TakeSendError
<1>7. \A u \in Threads, c \in Blocks :
        Holds(u, c)' <=> Holds(u, c) \/ (u = t /\ c = b)
  BY <1>4, <1>6 DEF Holds
<1>8. OneUser'
  <2>2. \A u, v \in Threads, c \in Blocks : Holds(u, c)' /\ Holds(v, c)' => u = v
    <3>. SUFFICES ASSUME NEW u \in Threads, NEW v \in Threads, NEW c \in Blocks,
                         Holds(u, c)', Holds(v, c)'
                  PROVE  u = v
      OBVIOUS
    <3>1. CASE c = b
      BY <1>1, <1>7, <3>1
    <3>2. CASE c # b
      BY <1>7, <3>2 DEF OneUser, BlockInv
    <3>. QED
      BY <3>1, <3>2
  <2>3. \A u \in Threads, r \in Sides, i \in Nat, c \in Blocks :
          ~(Holds(u, c)' /\ Uses(r, i, c)')
    <3>. SUFFICES ASSUME NEW u \in Threads, NEW r \in Sides, NEW i \in Nat,
                         NEW c \in Blocks, Holds(u, c)', Uses(r, i, c)'
                  PROVE  FALSE
      OBVIOUS
    <3>1. c # b
      BY <1>1
    <3>. QED
      BY <1>2, <1>7, <3>1
  <2>. QED
    BY <1>2, <2>2, <2>3 DEF OneUser
<1>11. Allocated'
  <2>1. \A r \in Sides, i \in Nat, c \in Blocks :
          Uses(r, i, c)' => heap'[c] = sends'[r][i].of
    BY <1>2, <1>5
  <2>2. \A u \in Threads : at'[u] = "onError" =>
          arg'[u] \in Blocks /\ heap'[arg'[u]] # None
    BY <1>1, <1>5, <1>6 DEF Allocated, BlockInv
  <2>. QED
    BY <2>1, <2>2 DEF Allocated
<1>12. NoLeak'
  <2>. SUFFICES ASSUME NEW c \in Blocks, heap'[c] # None
                PROVE  \/ \E r \in Sides, i \in Nat : Uses(r, i, c)'
                       \/ \E u \in Threads : Holds(u, c)'
    BY DEF NoLeak
  <2>1. heap[c] # None
    BY <1>5
  <2>2. CASE \E r \in Sides, i \in Nat : Uses(r, i, c)
    <3>1. PICK r \in Sides, i \in Nat : Uses(r, i, c)
      BY <2>2
    <3>2. CASE r = s /\ i = 1
      <4>1. c = b
        BY <1>a, <3>1, <3>2 DEF Uses
      <4>. QED
        BY <1>4, <1>7, <4>1
    <3>3. CASE ~(r = s /\ i = 1)
      BY <1>3, <3>1, <3>3
    <3>. QED
      BY <3>2, <3>3
  <2>. QED
    BY <1>7, <2>1, <2>2 DEF NoLeak, BlockInv
<1>. QED
  BY <1>5, <1>8, <1>11, <1>12 DEF BlockInv

LEMMA BlocksReturn ==
  ASSUME OthersTyped, BlockInv, NEW t \in Threads, ReturnError(t)
  PROVE  BlockInv'
<1>a. PICK b : b = arg[t]
  OBVIOUS
<1>1. /\ at[t] = "onError" /\ Holds(t, b) /\ b \in Blocks
      /\ at \in [Threads -> Places] /\ heap \in [Blocks -> Datagrams \cup {None}]
      /\ arg \in [Threads -> Datagrams \cup Blocks \cup {None}]
  BY <1>a DEF ReturnError, Holds, Allocated, BlockInv, OthersTyped
<1>2. /\ \A c \in Blocks \ {b} : heap'[c] = heap[c]
      /\ heap'[b] = None /\ UNCHANGED <<sentOK, sends>>
  BY <1>1, <1>a DEF ReturnError, Frees
<1>3. /\ at'[t] = "idle"
      /\ \A u \in Threads \ {t} : at'[u] = at[u] /\ arg'[u] = arg[u]
  BY <1>1 DEF ReturnError, EndHandler
<1>4. \A u \in Threads, c \in Blocks : Holds(u, c)' => Holds(u, c) /\ u # t
  BY <1>3 DEF Holds
<1>5. \A u \in Threads, c \in Blocks : Holds(u, c) /\ c # b => Holds(u, c)'
  BY <1>1, <1>3, <1>a DEF Holds
<1>6. \A r \in Sides, i \in Nat, c \in Blocks : Uses(r, i, c)' <=> Uses(r, i, c)
  BY <1>2 DEF Uses
<1>7. \A r \in Sides, i \in Nat : ~Uses(r, i, b)
  BY <1>1 DEF OneUser, BlockInv
<1>8. OneUser'
  BY <1>4, <1>6 DEF OneUser, BlockInv
<1>9. Allocated'
  <2>1. \A r \in Sides, i \in Nat, c \in Blocks :
          Uses(r, i, c)' => heap'[c] = sends'[r][i].of
    BY <1>2, <1>6, <1>7 DEF Allocated, BlockInv
  <2>2. ASSUME NEW u \in Threads, at'[u] = "onError"
        PROVE  arg'[u] \in Blocks /\ heap'[arg'[u]] # None
    <3>1. u # t /\ at[u] = "onError" /\ arg'[u] = arg[u] /\ arg[u] \in Blocks
          /\ heap[arg[u]] # None
      BY <1>3, <2>2 DEF Allocated, BlockInv
    <3>2. arg[u] # b
      BY <1>1, <3>1 DEF Holds, OneUser, BlockInv
    <3>. QED
      BY <1>2, <3>1, <3>2
  <2>. QED
    BY <2>1, <2>2 DEF Allocated
<1>10. NoLeak'
  BY <1>2, <1>5, <1>6 DEF NoLeak, BlockInv
<1>. QED
  BY <1>2, <1>8, <1>9, <1>10 DEF BlockInv

LEMMA BlocksOthers ==
  ASSUME OthersTyped, BlockInv, UNCHANGED <<heap, sends, sentOK>>,
         \A u \in Threads : /\ at'[u] = "onError" <=> at[u] = "onError"
                            /\ at[u] = "onError" => arg'[u] = arg[u]
  PROVE  BlockInv'
<1>1. \A u \in Threads, c \in Blocks : Holds(u, c)' <=> Holds(u, c)
  BY DEF Holds
<1>2. \A r \in Sides, i \in Nat, c \in Blocks : Uses(r, i, c)' <=> Uses(r, i, c)
  BY DEF Uses
<1>3. OneUser'
  BY <1>1, <1>2 DEF OneUser, BlockInv
<1>4. Allocated'
  BY <1>2 DEF Allocated, BlockInv
<1>5. NoLeak'
  BY <1>1, <1>2 DEF NoLeak, BlockInv
<1>. QED
  BY <1>3, <1>4, <1>5 DEF BlockInv

LEMMA BlockNext == OthersTyped /\ BlockInv /\ [Next]_vars => BlockInv'
<1>. SUFFICES ASSUME OthersTyped, BlockInv, [Next]_vars  PROVE BlockInv'
  OBVIOUS
<1>0. /\ at \in [Threads -> Places]
      /\ arg \in [Threads -> Datagrams \cup Blocks \cup {None}]
  BY DEF OthersTyped
<1>1. ASSUME NEW t \in Threads, Handle(t)  PROVE BlockInv'
  <2>1. PICK s \in Sides : t \in ThreadsOf(s)
    BY SideOf DEF ThreadsOf
  <2>2. CASE TakeReceive(t) \/ Rearm(t)
    <3>1. UNCHANGED <<heap, sends, sentOK>>
      BY <2>2 DEF TakeReceive, Rearm, sendVars
    <3>2. \A u \in Threads : /\ at'[u] = "onError" <=> at[u] = "onError"
                             /\ at[u] = "onError" => arg'[u] = arg[u]
      BY <1>0, <2>2 DEF TakeReceive, Idle, Rearm, EndHandler
    <3>. QED
      BY <3>1, <3>2, BlocksOthers
  <2>. QED
    BY <1>1, <2>1, <2>2, BlocksSent, BlocksSendError, BlocksReturn DEF Handle
<1>2. ASSUME NEW t \in Threads, Call(t)  PROVE BlockInv'
  <2>1. PICK s \in Sides : t \in ThreadsOf(s)
    BY SideOf DEF ThreadsOf
  <2>2. CASE \E d \in Datagrams, b \in Blocks, st \in Outcomes : Write(t, d, b, st)
    BY <2>1, <2>2, BlocksWrite
  <2>3. CASE UNCHANGED <<at, arg, sendVars>>
    BY <2>3, BlocksOthers DEF sendVars
  <2>. QED
    BY <1>2, <2>2, <2>3 DEF Call, EnterContext, EnterClientRun, LeaveClientRun,
       LeaveContext, Stop, threadVars
<1>3. ASSUME NEW side \in Sides, NEW i \in DOMAIN sends[side],
             PerformSend(side, i) \/ FailSend(side, i)
      PROVE  BlockInv'
  BY <1>3, BlocksPerform
<1>4. CASE UNCHANGED <<threadVars, sendVars>>
  BY <1>4, BlocksOthers DEF threadVars, sendVars
<1>5. CASE UNCHANGED vars \/ PerformReceive \/ FailReceive
           \/ \E d \in Datagrams : Arrive(d) \/ Lose(d)
  BY <1>4, <1>5 DEF vars, PerformReceive, FailReceive, Arrive, Lose
<1>. QED
  BY <1>1, <1>2, <1>3, <1>5 DEF Next, PerformSome
-----------------------------------------------------------------------------
UDPInv == OthersTyped /\ ReceiveInv /\ CountInv /\ BlockInv

LEMMA UDPInit == Init => UDPInv
<1>. SUFFICES ASSUME Init  PROVE UDPInv
  OBVIOUS
<1>1. OthersTyped
  BY DEF Init, OthersTyped, Sides, Modes, Places
<1>2. ReceiveInv
  BY DEF Init, ReceiveInv, InReceive
<1>3. CountInv
  <2>1. \A side \in Sides : /\ InError(side) = {} /\ InWork(side) = {}
                            /\ Len(sends[side]) = 0
    BY DEF Init, InError, InWork
  <2>2. \A side \in Sides : /\ IsFiniteSet(InError(side)) /\ IsFiniteSet(InWork(side))
                            /\ Work(side) = ReceiveWork(side)
    <3>1. \A side \in Sides : /\ Failing(side) = 0 /\ Working(side) = 0 /\ Pending(side) = 0
                              /\ ReceiveWork(side) \in Nat
      BY <2>1, FS_EmptySet DEF Pending, Failing, Working, ReceiveWork
    <3>2. ASSUME NEW side \in Sides  PROVE Work(side) = ReceiveWork(side)
      BY <3>1 DEF Work
    <3>3. \A side \in Sides : IsFiniteSet(InError(side)) /\ IsFiniteSet(InWork(side))
      BY <2>1, FS_EmptySet
    <3>. QED
      BY <3>2, <3>3
  <2>3. NewContext \in Contexts /\ NewContext.work = 0 /\ ~NewContext.stopped
    BY DEF NewContext, Contexts
  <2>4. /\ WorkStarted(NewContext) \in Contexts /\ WorkStarted(NewContext).work = 1
        /\ ~WorkStarted(NewContext).stopped
    BY <2>3, ContextMade
  <2>5. ctx = [client |-> NewContext, server |-> WorkStarted(NewContext)]
    BY DEF Init
  <2>6. /\ ctx \in [Sides -> Contexts] /\ ctx["client"] = NewContext
        /\ ctx["server"] = WorkStarted(NewContext)
    BY <2>3, <2>4, <2>5 DEF Sides
  <2>7. \A side \in Sides : ctx[side].work = ReceiveWork(side)
    BY <2>3, <2>4, <2>6 DEF Sides, ReceiveWork
  <2>. QED
    BY <2>2, <2>4, <2>6, <2>7 DEF CountInv, ServerRunBlocks
<1>4. BlockInv
  BY DEF Init, BlockInv, OneUser, Allocated, NoLeak, Uses, Holds
<1>. QED
  BY <1>1, <1>2, <1>3, <1>4 DEF UDPInv

LEMMA UDPInductive == Spec => []UDPInv
<1>1. UDPInv /\ [Next]_vars => UDPInv'
  BY OthersNext, ReceiveNext, CountNext, BlockNext DEF UDPInv
<1>. QED
  BY <1>1, UDPInit, PTL DEF Spec

(* Every step keeps the types; a context never has less than no work.      *)
THEOREM UDPTypes == Spec => []TypeOK
<1>1. UDPInv => TypeOK
  <2>. SUFFICES ASSUME UDPInv  PROVE TypeOK
    OBVIOUS
  <2>1. SendOf(written) \subseteq Send
    BY DEF UDPInv, OthersTyped, SendOf, Send
  <2>2. \A side \in Sides : sends[side] \in Seq(Send)
    BY <2>1, LargerSeq DEF UDPInv, OthersTyped
  <2>3. sends \in [Sides -> Seq(Send)]
    BY <2>2 DEF UDPInv, OthersTyped
  <2>. QED
    BY <2>3 DEF UDPInv, OthersTyped, CountInv, TypeOK
<1>. QED
  BY <1>1, UDPInductive, PTL

(* The datagram onMessage was called with stays in receive_buf until it    *)
(* returns, whatever arrives in the meantime.                              *)
THEOREM MessageStays == Spec => []MessageIntact
<1>1. UDPInv => MessageIntact
  BY DEF UDPInv, OthersTyped, ReceiveInv, InReceive, MessageIntact
<1>. QED
  BY <1>1, UDPInductive, PTL

(* ServerUDP::run() does not return before stop(): a receive is always     *)
(* outstanding, or its handler about to begin another.                     *)
THEOREM ServerUDPBlocks == Spec => []ServerRunBlocks
<1>1. UDPInv => ServerRunBlocks
  BY DEF UDPInv, CountInv
<1>. QED
  BY <1>1, UDPInductive, PTL

(* The kernel never reads a block that was freed, or given to another.     *)
THEOREM SentAsWritten == Spec => []DatagramIntact
<1>1. UDPInv => DatagramIntact
  BY DEF UDPInv, BlockInv, DatagramIntact
<1>. QED
  BY <1>1, UDPInductive, PTL

(* No block leaks, none is freed twice, and no two sends share one.        *)
THEOREM BlocksAccounted == Spec => []BufferAccounted
<1>1. UDPInv => BufferAccounted
  <2>. SUFFICES ASSUME UDPInv  PROVE BufferAccounted
    OBVIOUS
  <2>1. \A o : o \in Outstanding <=>
               \E r \in Sides, i \in Nat : /\ o = [side |-> r, i |-> i]
                                           /\ i \in DOMAIN sends[r]
    <3>1. \A r \in Sides : \A i \in DOMAIN sends[r] : i \in Nat
      BY SendType DEF UDPInv
    <3>. QED
      BY <3>1 DEF Outstanding
  <2>2. \A r \in Sides, i \in Nat : i \in DOMAIN sends[r] =>
          /\ BlockOf([side |-> r, i |-> i]) = sends[r][i].block
          /\ sends[r][i].block \in Blocks /\ Uses(r, i, sends[r][i].block)
          /\ heap[sends[r][i].block] # None
    <3>. SUFFICES ASSUME NEW r \in Sides, NEW i \in Nat, i \in DOMAIN sends[r]
                  PROVE  /\ BlockOf([side |-> r, i |-> i]) = sends[r][i].block
                         /\ sends[r][i].block \in Blocks
                         /\ Uses(r, i, sends[r][i].block)
                         /\ heap[sends[r][i].block] # None
      OBVIOUS
    <3>1. /\ sends[r][i].block \in Blocks /\ sends[r][i].of # None
          /\ Uses(r, i, sends[r][i].block)
      BY SendType DEF UDPInv, Uses
    <3>2. heap[sends[r][i].block] = sends[r][i].of
      BY <3>1 DEF UDPInv, BlockInv, Allocated
    <3>. QED
      BY <3>1, <3>2 DEF BlockOf
  <2>3. ASSUME NEW o \in Outstanding, NEW p \in Outstanding, BlockOf(o) = BlockOf(p)
        PROVE  o = p
    <3>1. PICK r \in Sides, i \in Nat : o = [side |-> r, i |-> i] /\ i \in DOMAIN sends[r]
      BY <2>1
    <3>2. PICK q \in Sides, j \in Nat : p = [side |-> q, i |-> j] /\ j \in DOMAIN sends[q]
      BY <2>1
    <3>3. r = q /\ i = j
      <4>1. /\ Uses(r, i, sends[r][i].block) /\ Uses(q, j, sends[q][j].block)
            /\ sends[r][i].block = sends[q][j].block /\ sends[r][i].block \in Blocks
        BY <2>2, <2>3, <3>1, <3>2
      <4>. QED
        BY <4>1 DEF UDPInv, BlockInv, OneUser
    <3>. QED
      BY <3>1, <3>2, <3>3
  <2>4. ASSUME NEW b \in Blocks, heap[b] # None
        PROVE  \/ b \in {BlockOf(o) : o \in Outstanding}
               \/ b \in {arg[t] : t \in {u \in Threads : at[u] = "onError"}}
    <3>1. CASE \E r \in Sides, i \in Nat : Uses(r, i, b)
      <4>1. PICK r \in Sides, i \in Nat : Uses(r, i, b)
        BY <3>1
      <4>2. [side |-> r, i |-> i] \in Outstanding /\ BlockOf([side |-> r, i |-> i]) = b
        BY <2>1, <2>2, <4>1 DEF Uses
      <4>. QED
        BY <4>2
    <3>2. CASE \E t \in Threads : Holds(t, b)
      BY <3>2 DEF Holds
    <3>. QED
      BY <2>4, <3>1, <3>2 DEF UDPInv, BlockInv, NoLeak
  <2>5. \A o \in Outstanding : BlockOf(o) \in Blocks /\ heap[BlockOf(o)] # None
    BY <2>1, <2>2
  <2>6. \A t \in Threads : at[t] = "onError" => arg[t] \in Blocks /\ heap[arg[t]] # None
    BY DEF UDPInv, BlockInv, Allocated
  <2>. QED
    BY <2>3, <2>4, <2>5, <2>6 DEF BufferAccounted
<1>. QED
  BY <1>1, UDPInductive, PTL
=============================================================================
