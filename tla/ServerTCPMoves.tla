---------------------------- MODULE ServerTCPMoves ----------------------------
(***************************************************************************)
(* What every action of ServerTCP does to the stacks, and the lemmas that  *)
(* let an invariant about the frames be kept through all actions that do   *)
(* not touch the frames it speaks of; with them, that the steps keep the   *)
(* frames good and one accept at a time.                                   *)
(***************************************************************************)
EXTENDS ServerTCPInv, SequenceTheorems, TLAPS

(* What entering, leaving and going on do to a stack, q before, r after.   *)
IsPush(r, q, f) ==
  /\ Len(r) = Len(q) + 1 /\ r[1] = f
  /\ \A i \in 1 .. Len(q) : r[i + 1] = q[i]
  /\ \A i \in 2 .. Len(r) : r[i] = q[i - 1]
IsPop(r, q) ==
  /\ Len(r) = Len(q) - 1
  /\ \A i \in 2 .. Len(q) : r[i - 1] = q[i]
  /\ \A i \in 1 .. Len(r) : r[i] = q[i + 1]
IsSwap(r, q, f) ==
  /\ Len(r) = Len(q) /\ r[1] = f
  /\ \A i \in 2 .. Len(q) : r[i] = q[i]
IsCall(r, q, f, g) ==
  /\ Len(r) = Len(q) + 1 /\ r[1] = f /\ r[2] = g
  /\ \A i \in 2 .. Len(q) : r[i + 1] = q[i]
  /\ \A i \in 3 .. Len(r) : r[i] = q[i - 1]

LEMMA PushSeq ==
  ASSUME NEW q \in Seq(Frame), NEW f \in Frame
  PROVE  <<f>> \o q \in Seq(Frame) /\ IsPush(<<f>> \o q, q, f)
<1>1. <<f>> \in Seq(Frame) /\ Len(<<f>>) = 1 /\ <<f>>[1] = f
  OBVIOUS
<1>2. Len(q) \in Nat
  BY LenProperties
<1>. QED
  BY <1>1, <1>2, ConcatProperties DEF IsPush

LEMMA PopSeq ==
  ASSUME NEW q \in Seq(Frame), q # <<>>
  PROVE  /\ Tail(q) \in Seq(Frame) /\ IsPop(Tail(q), q)
         /\ Head(q) = q[1] /\ q[1] \in Frame /\ Len(q) \in Nat \ {0}
<1>1. Len(q) \in Nat \ {0} /\ q \in [1 .. Len(q) -> Frame]
  BY EmptySeq, LenProperties
<1>2. /\ Head(q) \in Frame /\ Tail(q) \in Seq(Frame) /\ Len(Tail(q)) = Len(q) - 1
      /\ \A i \in 1 .. Len(q) - 1 : Tail(q)[i] = q[i + 1]
  BY HeadTailProperties
<1>3. Head(q) = q[1]
  BY <1>1
<1>. QED
  BY <1>1, <1>2, <1>3 DEF IsPop

LEMMA SwapSeq ==
  ASSUME NEW q \in Seq(Frame), q # <<>>, NEW f \in Frame
  PROVE  <<f>> \o Tail(q) \in Seq(Frame) /\ IsSwap(<<f>> \o Tail(q), q, f)
<1>1. Tail(q) \in Seq(Frame) /\ IsPop(Tail(q), q) /\ Len(q) \in Nat \ {0}
  BY PopSeq
<1>2. /\ <<f>> \o Tail(q) \in Seq(Frame)
      /\ IsPush(<<f>> \o Tail(q), Tail(q), f)
  BY <1>1, PushSeq
<1>. QED
  BY <1>1, <1>2 DEF IsPop, IsPush, IsSwap

LEMMA CallSeq ==
  ASSUME NEW q \in Seq(Frame), q # <<>>, NEW f \in Frame, NEW g \in Frame
  PROVE  /\ <<f, g>> \o Tail(q) \in Seq(Frame)
         /\ IsCall(<<f, g>> \o Tail(q), q, f, g)
<1>1. Tail(q) \in Seq(Frame) /\ IsPop(Tail(q), q) /\ Len(q) \in Nat \ {0}
  BY PopSeq
<1>2. <<f, g>> \in Seq(Frame) /\ Len(<<f, g>>) = 2
      /\ <<f, g>>[1] = f /\ <<f, g>>[2] = g
  OBVIOUS
<1>3. /\ <<f, g>> \o Tail(q) \in Seq(Frame)
      /\ Len(<<f, g>> \o Tail(q)) = 2 + Len(Tail(q))
      /\ \A i \in 1 .. 2 + Len(Tail(q)) :
           (<<f, g>> \o Tail(q))[i] =
             IF i <= 2 THEN <<f, g>>[i] ELSE Tail(q)[i - 2]
  BY <1>1, <1>2, ConcatProperties
<1>. QED
  BY <1>1, <1>2, <1>3 DEF IsPop, IsCall
-----------------------------------------------------------------------------
Stacks == [Threads -> Seq(Frame)]
OthersStay(t) == \A u \in Threads : u # t => stack'[u] = stack[u]

Pushed(t, f) == OthersStay(t) /\ IsPush(stack'[t], stack[t], f)
Popped(t) == OthersStay(t) /\ IsPop(stack'[t], stack[t])
Swapped(t, f) == OthersStay(t) /\ IsSwap(stack'[t], stack[t], f)
Called(t, f, g) == OthersStay(t) /\ IsCall(stack'[t], stack[t], f, g)

(* The innermost frame of a thread that is in a place.                     *)
LEMMA Innermost ==
  ASSUME stack \in Stacks, NEW t \in Threads, stack[t] # <<>>
  PROVE  /\ stack[t] \in Seq(Frame) /\ Len(stack[t]) \in Nat \ {0}
         /\ 1 \in DOMAIN stack[t] /\ DOMAIN stack[t] = 1 .. Len(stack[t])
         /\ Head(stack[t]) = stack[t][1] /\ Its(t) = stack[t][1].s
         /\ stack[t][1] \in Frame /\ Its(t) \in Sessions \cup {NoSession}
<1>1. stack[t] \in Seq(Frame)
  BY DEF Stacks
<1>2. Head(stack[t]) = stack[t][1] /\ stack[t][1] \in Frame
      /\ Len(stack[t]) \in Nat \ {0}
  BY <1>1, PopSeq
<1>3. DOMAIN stack[t] = 1 .. Len(stack[t])
  BY <1>1, LenProperties
<1>. QED
  BY <1>1, <1>2, <1>3 DEF Its, Frame

LEMMA Entered ==
  ASSUME stack \in Stacks, NEW t \in Threads, NEW place \in Places,
         NEW s \in Sessions \cup {NoSession}, Enter(t, place, s)
  PROVE  stack' \in Stacks /\ Pushed(t, [at |-> place, s |-> s])
<1>. DEFINE f == [at |-> place, s |-> s]
<1>1. f \in Frame /\ stack[t] \in Seq(Frame)
  BY DEF Frame, Stacks
<1>. HIDE DEF f
<1>2. stack' = [stack EXCEPT ![t] = <<f>> \o stack[t]]
  BY DEF Enter, f, Stacks
<1>3. <<f>> \o stack[t] \in Seq(Frame) /\ IsPush(<<f>> \o stack[t], stack[t], f)
  BY <1>1, PushSeq
<1>4. stack' \in Stacks /\ stack'[t] = <<f>> \o stack[t] /\ OthersStay(t)
  BY <1>2, <1>3 DEF Stacks, OthersStay
<1>. QED
  BY <1>3, <1>4 DEF Pushed, f

LEMMA Left ==
  ASSUME stack \in Stacks, NEW t \in Threads, stack[t] # <<>>, Leave(t)
  PROVE  stack' \in Stacks /\ Popped(t)
<1>1. stack' = [stack EXCEPT ![t] = Tail(stack[t])] /\ stack[t] \in Seq(Frame)
  BY DEF Leave, Stacks
<1>2. Tail(stack[t]) \in Seq(Frame) /\ IsPop(Tail(stack[t]), stack[t])
  BY <1>1, PopSeq
<1>3. stack' \in Stacks /\ stack'[t] = Tail(stack[t]) /\ OthersStay(t)
  BY <1>1, <1>2 DEF Stacks, OthersStay
<1>. QED
  BY <1>2, <1>3 DEF Popped

LEMMA WentOn ==
  ASSUME stack \in Stacks, NEW t \in Threads, stack[t] # <<>>, NEW f \in Frame,
         stack' = [stack EXCEPT ![t] = <<f>> \o Tail(@)]
  PROVE  stack' \in Stacks /\ Swapped(t, f)
<1>1. stack' = [stack EXCEPT ![t] = <<f>> \o Tail(stack[t])] /\ stack[t] \in Seq(Frame)
  BY DEF Stacks
<1>2. /\ <<f>> \o Tail(stack[t]) \in Seq(Frame)
      /\ IsSwap(<<f>> \o Tail(stack[t]), stack[t], f)
  BY <1>1, SwapSeq
<1>3. stack' \in Stacks /\ stack'[t] = <<f>> \o Tail(stack[t]) /\ OthersStay(t)
  BY <1>1, <1>2 DEF Stacks, OthersStay
<1>. QED
  BY <1>2, <1>3 DEF Swapped

LEMMA Went ==
  ASSUME stack \in Stacks, NEW t \in Threads, stack[t] # <<>>, NEW place \in Places,
         Goto(t, place)
  PROVE  stack' \in Stacks /\ Swapped(t, [at |-> place, s |-> stack[t][1].s])
<1>1. Its(t) = stack[t][1].s /\ Its(t) \in Sessions \cup {NoSession}
  BY Innermost
<1>2. [at |-> place, s |-> Its(t)] \in Frame
  BY <1>1 DEF Frame
<1>. QED
  BY <1>1, <1>2, WentOn DEF Goto

LEMMA CalledBack ==
  ASSUME stack \in Stacks, NEW t \in Threads, stack[t] # <<>>,
         NEW place \in Places, NEW callback \in Places,
         NEW s \in Sessions \cup {NoSession}, CallBack(t, place, callback, s)
  PROVE  /\ stack' \in Stacks
         /\ Called(t, [at |-> callback, s |-> s], [at |-> place, s |-> s])
<1>. DEFINE f == [at |-> callback, s |-> s]
            g == [at |-> place, s |-> s]
<1>1. f \in Frame /\ g \in Frame /\ stack[t] \in Seq(Frame)
  BY DEF Frame, Stacks
<1>. HIDE DEF f, g
<1>2. stack' = [stack EXCEPT ![t] = <<f, g>> \o Tail(stack[t])]
  BY DEF CallBack, f, g, Stacks
<1>3. /\ <<f, g>> \o Tail(stack[t]) \in Seq(Frame)
      /\ IsCall(<<f, g>> \o Tail(stack[t]), stack[t], f, g)
  BY <1>1, CallSeq
<1>4. stack' \in Stacks /\ stack'[t] = <<f, g>> \o Tail(stack[t]) /\ OthersStay(t)
  BY <1>2, <1>3 DEF Stacks, OthersStay
<1>. QED
  BY <1>3, <1>4 DEF Called, f, g
-----------------------------------------------------------------------------
(* The steps of Next, one disjunct for each action.                        *)
LEMMA NextCases ==
  ASSUME Next
  PROVE  \/ Accepted
         \/ \E t \in Threads :
              \/ Hook(t) \/ Connect(t) \/ Start(t) \/ Rearm(t)
              \/ WriteSend(t) \/ CloseErase(t) \/ Stop(t)
              \/ Sweep(t) \/ SweepErase(t) \/ SweepAdvance(t) \/ SweepCrash(t)
              \/ Register(t) \/ WriteFind(t) \/ Broadcast(t)
              \/ CloseFind(t) \/ CloseAllLock(t)
              \/ ReturnShort(t) \/ ReturnMessage(t) \/ ReturnError(t) \/ ReturnPlain(t)
              \/ TakeAcceptError(t)
              \/ \E s \in Sessions :
                   \/ TakeAccept(t, s) \/ TakeWriteError(t, s) \/ TakeWritten(t, s)
                   \/ \E show \in Shows : TakeMessage(t, s, show)
                   \/ \E end \in Ends : TakeReadError(t, s, end)
              \/ \E call \in Calls, s \in Sessions \cup {NoSession} : Call(t, call, s)
BY DEF Next, Step, AcceptStep, CallStep, LockStep, Resume, Take, CallSome

(* A thread that is in a place.                                            *)
LEMMA Inside ==
  ASSUME stack \in Stacks, NEW t \in Threads, NEW place, In(t, place)
  PROVE  /\ stack[t] # <<>> /\ 1 \in DOMAIN stack[t]
         /\ stack[t][1].at = place /\ stack[t][1].s = Its(t)
         /\ stack[t][1] = [at |-> place, s |-> Its(t)]
         /\ Its(t) \in Sessions \cup {NoSession}
<1>1. stack[t] # <<>> /\ Head(stack[t]).at = place
  BY DEF In
<1>2. /\ Head(stack[t]) = stack[t][1] /\ Its(t) = stack[t][1].s
      /\ stack[t][1] \in Frame /\ 1 \in DOMAIN stack[t]
      /\ Its(t) \in Sessions \cup {NoSession}
  BY <1>1, Innermost
<1>3. stack[t][1] = [at |-> stack[t][1].at, s |-> stack[t][1].s]
  BY <1>2 DEF Frame
<1>. QED
  BY <1>1, <1>2, <1>3

(* The frame a thread is in, when it is about a session.                   *)
LEMMA GoodInside ==
  ASSUME stack \in Stacks, FrameInv, NEW t \in Threads, NEW place, In(t, place)
  PROVE  /\ GoodFrame(stack[t][1])
         /\ place \notin {"onError", "broadcast", "closeAll", "stop"} =>
              Its(t) \in Sessions
         /\ place = "register" => Its(t) \notin registered
         /\ place # "register" /\ Its(t) \in Sessions => Its(t) \in registered
         /\ place \in {"connect", "onConnect", "start", "rearm"} => Its(t) \in hooked
<1>1. /\ 1 \in DOMAIN stack[t] /\ stack[t][1].at = place /\ stack[t][1].s = Its(t)
  BY Inside
<1>2. GoodFrame(stack[t][1])
  BY <1>1 DEF FrameInv
<1>. QED
  BY <1>1, <1>2 DEF GoodFrame

LEMMA PlaceNames ==
  /\ {"register", "hook", "connect", "onConnect", "start", "rearm", "onShort",
      "onMessage", "onError", "onDisconnect", "write", "send", "broadcast", "close", "closing",
      "closeAll", "sweep", "sweeping", "advance", "stop"} \subseteq Places
  /\ Calls \subseteq Places /\ Ends \subseteq Places /\ Shows \subseteq Places
BY ServerAssumption DEF Places, Callbacks, AcceptPlaces, Ends, Shows

LEMMA SweepMoves ==
  ASSUME stack \in Stacks, NEW t \in Threads, stack[t] # <<>>,
         pool \subseteq Sessions, SweepFrom(t, pool)
  PROVE  /\ stack' \in Stacks
         /\ \/ pool = {} /\ Popped(t) /\ poolMtx' = NoThread
            \/ \E s \in pool : Swapped(t, [at |-> "sweep", s |-> s]) /\ poolMtx' = t
<1>1. CASE pool = {}
  BY <1>1, Left DEF SweepFrom
<1>2. CASE pool # {}
  <2>1. PICK s \in pool :
          /\ stack' = [stack EXCEPT ![t] = <<[at |-> "sweep", s |-> s]>> \o Tail(@)]
          /\ poolMtx' = t
    BY <1>2 DEF SweepFrom
  <2>2. [at |-> "sweep", s |-> s] \in Frame
    BY PlaceNames DEF Frame
  <2>. QED
    BY <2>1, <2>2, WentOn
<1>. QED
  BY <1>1, <1>2
-----------------------------------------------------------------------------
(* What every action does to the stack of its thread.                      *)
FrameOf(place, s) == [at |-> place, s |-> s]

LEMMA AcceptMoves ==
  ASSUME stack \in Stacks, NEW t \in Threads
  PROVE  /\ Register(t) => In(t, "register") /\ stack' \in Stacks
                           /\ Swapped(t, FrameOf("hook", Its(t)))
         /\ Hook(t) => In(t, "hook") /\ stack' \in Stacks
                       /\ Swapped(t, FrameOf("connect", Its(t)))
         /\ Connect(t) => In(t, "connect") /\ stack' \in Stacks
              /\ Called(t, FrameOf("onConnect", Its(t)), FrameOf("start", Its(t)))
         /\ Start(t) => In(t, "start") /\ stack' \in Stacks
                        /\ Swapped(t, FrameOf("rearm", Its(t)))
         /\ Rearm(t) => In(t, "rearm") /\ stack' \in Stacks /\ Popped(t)
         /\ TakeAcceptError(t) => stack[t] = <<>> /\ stack' \in Stacks
                                  /\ Pushed(t, FrameOf("onError", NoSession))
         /\ \A s \in Sessions : TakeAccept(t, s) =>
              stack[t] = <<>> /\ stack' \in Stacks /\ Pushed(t, FrameOf("register", s))
<1>. USE PlaceNames DEF FrameOf
<1>1. Register(t) => In(t, "register") /\ stack' \in Stacks
                     /\ Swapped(t, FrameOf("hook", Its(t)))
  BY Inside, Went DEF Register, AfterRegister
<1>2. Hook(t) => In(t, "hook") /\ stack' \in Stacks
                 /\ Swapped(t, FrameOf("connect", Its(t)))
  BY Inside, Went DEF Hook
<1>3. Connect(t) => In(t, "connect") /\ stack' \in Stacks
        /\ Called(t, FrameOf("onConnect", Its(t)), FrameOf("start", Its(t)))
  BY Inside, CalledBack DEF Connect
<1>4. Start(t) => In(t, "start") /\ stack' \in Stacks
                  /\ Swapped(t, FrameOf("rearm", Its(t)))
  BY Inside, Went DEF Start
<1>5. Rearm(t) => In(t, "rearm") /\ stack' \in Stacks /\ Popped(t)
  BY Inside, Left DEF Rearm
<1>6. TakeAcceptError(t) => stack[t] = <<>> /\ stack' \in Stacks
                            /\ Pushed(t, FrameOf("onError", NoSession))
  BY Entered DEF TakeAcceptError
<1>7. ASSUME NEW s \in Sessions, TakeAccept(t, s)
      PROVE  stack[t] = <<>> /\ stack' \in Stacks /\ Pushed(t, FrameOf("register", s))
  BY <1>7, Entered DEF TakeAccept
<1>. QED
  BY <1>1, <1>2, <1>3, <1>4, <1>5, <1>6, <1>7

LEMMA SessionMoves ==
  ASSUME stack \in Stacks, NEW t \in Threads
  PROVE  /\ \A s \in Sessions :
              /\ \A show \in Shows : TakeMessage(t, s, show) =>
                   stack[t] = <<>> /\ stack' \in Stacks /\ Pushed(t, FrameOf(show, s))
              /\ \A end \in Ends : TakeReadError(t, s, end) =>
                   stack[t] = <<>> /\ stack' \in Stacks /\ Pushed(t, FrameOf(end, s))
              /\ TakeWriteError(t, s) =>
                   \/ s \notin hooked /\ stack' = stack
                   \/ stack[t] = <<>> /\ stack' \in Stacks
                      /\ Pushed(t, FrameOf("onError", s))
              /\ TakeWritten(t, s) => stack' = stack
         /\ ReturnShort(t) => In(t, "onShort") /\ stack' \in Stacks
                              /\ Swapped(t, FrameOf("onMessage", Its(t)))
         /\ ReturnMessage(t) => In(t, "onMessage") /\ stack' \in Stacks /\ Popped(t)
         /\ ReturnError(t) => /\ In(t, "onError") /\ stack' \in Stacks
                              /\ \/ Popped(t)
                                 \/ /\ Its(t) # NoSession
                                    /\ Swapped(t, FrameOf("close", Its(t)))
         /\ ReturnPlain(t) => /\ In(t, "onConnect") \/ In(t, "onDisconnect")
                              /\ stack' \in Stacks /\ Popped(t)
         /\ \A call \in Calls, s \in Sessions \cup {NoSession} : Call(t, call, s) =>
              stack' \in Stacks /\ Pushed(t, FrameOf(call, s))
<1>. USE PlaceNames DEF FrameOf
<1>1. ASSUME NEW s \in Sessions, NEW show \in Shows, TakeMessage(t, s, show)
      PROVE  stack[t] = <<>> /\ stack' \in Stacks /\ Pushed(t, FrameOf(show, s))
  BY <1>1, Entered DEF TakeMessage
<1>2. ASSUME NEW s \in Sessions, NEW end \in Ends, TakeReadError(t, s, end)
      PROVE  stack[t] = <<>> /\ stack' \in Stacks /\ Pushed(t, FrameOf(end, s))
  BY <1>2, Entered DEF TakeReadError
<1>3. ASSUME NEW s \in Sessions, TakeWriteError(t, s)
      PROVE  \/ s \notin hooked /\ stack' = stack
             \/ stack[t] = <<>> /\ stack' \in Stacks /\ Pushed(t, FrameOf("onError", s))
  <2>1. CASE s \in hooked
    BY <1>3, <2>1, Entered DEF TakeWriteError
  <2>2. CASE s \notin hooked
    BY <1>3, <2>2 DEF TakeWriteError
  <2>. QED
    BY <2>1, <2>2
<1>4. \A s \in Sessions : TakeWritten(t, s) => stack' = stack
  BY DEF TakeWritten
<1>5. /\ ReturnShort(t) => In(t, "onShort") /\ stack' \in Stacks
                           /\ Swapped(t, FrameOf("onMessage", Its(t)))
      /\ ReturnMessage(t) => In(t, "onMessage") /\ stack' \in Stacks /\ Popped(t)
  BY Inside, Went, Left DEF ReturnShort, ReturnMessage
<1>6. ASSUME ReturnError(t)
      PROVE  /\ In(t, "onError") /\ stack' \in Stacks
             /\ \/ Popped(t)
                \/ Its(t) # NoSession /\ Swapped(t, FrameOf("close", Its(t)))
  <2>1. In(t, "onError") /\ AfterError(t)
    BY <1>6 DEF ReturnError
  <2>2. CASE Its(t) = NoSession
    BY <2>1, <2>2, Inside, Left DEF AfterError
  <2>3. CASE Its(t) # NoSession
    BY <2>1, <2>3, Inside, Went DEF AfterError
  <2>. QED
    BY <2>1, <2>2, <2>3
<1>7. ReturnPlain(t) => /\ In(t, "onConnect") \/ In(t, "onDisconnect")
                        /\ stack' \in Stacks /\ Popped(t)
  BY Inside, Left DEF ReturnPlain
<1>8. ASSUME NEW call \in Calls, NEW s \in Sessions \cup {NoSession}, Call(t, call, s)
      PROVE  stack' \in Stacks /\ Pushed(t, FrameOf(call, s))
  BY <1>8, Entered DEF Call
<1>. QED
  BY <1>1, <1>2, <1>3, <1>4, <1>5, <1>6, <1>7, <1>8

LEMMA CallMoves ==
  ASSUME stack \in Stacks, pool \subseteq Sessions, NEW t \in Threads
  PROVE  /\ WriteFind(t) => /\ In(t, "write") /\ stack' \in Stacks
                            /\ \/ Popped(t)
                               \/ Its(t) \in pool /\ Swapped(t, FrameOf("send", Its(t)))
         /\ WriteSend(t) => In(t, "send") /\ stack' \in Stacks /\ Popped(t)
         /\ Broadcast(t) => In(t, "broadcast") /\ stack' \in Stacks /\ Popped(t)
         /\ CloseFind(t) =>
              /\ In(t, "close") /\ stack' \in Stacks
              /\ \/ Popped(t) /\ UNCHANGED <<poolMtx, disconnects>>
                 \/ /\ Its(t) \in pool /\ poolMtx' = t
                    /\ disconnects' = [disconnects EXCEPT ![Its(t)] = @ + 1]
                    /\ Called(t, FrameOf("onDisconnect", Its(t)),
                                 FrameOf("closing", Its(t)))
         /\ CloseErase(t) => In(t, "closing") /\ stack' \in Stacks /\ Popped(t)
         /\ CloseAllLock(t) => In(t, "closeAll") /\ poolMtx = NoThread
         /\ SweepAdvance(t) => In(t, "advance")
         /\ CloseAllLock(t) \/ SweepAdvance(t) =>
              /\ stack' \in Stacks
              /\ \/ pool = {} /\ Popped(t) /\ poolMtx' = NoThread
                 \/ \E s \in pool : Swapped(t, FrameOf("sweep", s)) /\ poolMtx' = t
         /\ Sweep(t) => /\ In(t, "sweep") /\ stack' \in Stacks
                        /\ Called(t, FrameOf("onDisconnect", Its(t)),
                                     FrameOf("sweeping", Its(t)))
         /\ SweepErase(t) => In(t, "sweeping") /\ stack' \in Stacks
                             /\ Swapped(t, FrameOf("advance", Its(t)))
         /\ SweepCrash(t) => In(t, "advance") /\ stack' = stack
         /\ Stop(t) => In(t, "stop") /\ stack' \in Stacks
                       /\ Swapped(t, FrameOf("closeAll", Its(t)))
<1>. USE PlaceNames DEF FrameOf
<1>1. ASSUME WriteFind(t)
      PROVE  /\ In(t, "write") /\ stack' \in Stacks
             /\ Popped(t) \/ (Its(t) \in pool /\ Swapped(t, FrameOf("send", Its(t))))
  <2>1. CASE Its(t) \in pool
    BY <1>1, <2>1, Inside, Went DEF WriteFind
  <2>2. CASE Its(t) \notin pool
    BY <1>1, <2>2, Inside, Left DEF WriteFind
  <2>. QED
    BY <2>1, <2>2
<1>2. WriteSend(t) => In(t, "send") /\ stack' \in Stacks /\ Popped(t)
  BY Inside, Left DEF WriteSend
<1>3. Broadcast(t) => In(t, "broadcast") /\ stack' \in Stacks /\ Popped(t)
  BY Inside, Left DEF Broadcast
<1>4. ASSUME CloseFind(t)
      PROVE  /\ In(t, "close") /\ stack' \in Stacks
             /\ \/ Popped(t) /\ UNCHANGED <<poolMtx, disconnects>>
                \/ /\ Its(t) \in pool /\ poolMtx' = t
                   /\ disconnects' = [disconnects EXCEPT ![Its(t)] = @ + 1]
                   /\ Called(t, FrameOf("onDisconnect", Its(t)),
                                FrameOf("closing", Its(t)))
  <2>1. In(t, "close") /\ stack[t] # <<>>
    BY <1>4, Inside DEF CloseFind
  <2>2. CASE Its(t) \in pool
    BY <1>4, <2>1, <2>2, CalledBack DEF CloseFind, Disconnect, Locks
  <2>3. CASE Its(t) \notin pool
    BY <1>4, <2>1, <2>3, Left DEF CloseFind
  <2>. QED
    BY <2>1, <2>2, <2>3
<1>5. CloseErase(t) => In(t, "closing") /\ stack' \in Stacks /\ Popped(t)
  BY Inside, Left DEF CloseErase
<1>6. ASSUME CloseAllLock(t) \/ SweepAdvance(t)
      PROVE  /\ stack' \in Stacks
             /\ \/ pool = {} /\ Popped(t) /\ poolMtx' = NoThread
                \/ \E s \in pool : Swapped(t, FrameOf("sweep", s)) /\ poolMtx' = t
  <2>1. stack[t] # <<>> /\ SweepFrom(t, pool)
    BY <1>6, Inside DEF CloseAllLock, SweepAdvance
  <2>. QED
    BY <2>1, SweepMoves
<1>7. Sweep(t) => /\ In(t, "sweep") /\ stack' \in Stacks
                  /\ Called(t, FrameOf("onDisconnect", Its(t)),
                               FrameOf("sweeping", Its(t)))
  BY Inside, CalledBack DEF Sweep, Disconnect
<1>8. SweepErase(t) => In(t, "sweeping") /\ stack' \in Stacks
                       /\ Swapped(t, FrameOf("advance", Its(t)))
  BY Inside, Went DEF SweepErase
<1>9. SweepCrash(t) => In(t, "advance") /\ stack' = stack
  BY DEF SweepCrash
<1>10. Stop(t) => In(t, "stop") /\ stack' \in Stacks
                  /\ Swapped(t, FrameOf("closeAll", Its(t)))
  BY Inside, Went DEF Stop
<1>11. CloseAllLock(t) => In(t, "closeAll") /\ poolMtx = NoThread
  BY DEF CloseAllLock, Free
<1>12. SweepAdvance(t) => In(t, "advance")
  BY DEF SweepAdvance
<1>. QED
  BY <1>1, <1>2, <1>3, <1>4, <1>5, <1>6, <1>7, <1>8, <1>9, <1>10, <1>11, <1>12
-----------------------------------------------------------------------------
(* A move keeps the frames that were there in their order, d deeper than   *)
(* before; only the innermost may go, when it is in R, and those it brings *)
(* are in S.                                                               *)
Shifts(t, d, R, S) ==
  /\ OthersStay(t)
  /\ Len(stack'[t]) = Len(stack[t]) + d
  /\ \A i \in DOMAIN stack[t] :
       \/ i = 1 /\ stack[t][i] \in R
       \/ i + d \in DOMAIN stack'[t] /\ stack'[t][i + d] = stack[t][i]
  /\ \A i \in DOMAIN stack'[t] :
       \/ stack'[t][i] \in S
       \/ i - d \in DOMAIN stack[t] /\ stack'[t][i] = stack[t][i - d]

LEMMA Depths ==
  ASSUME stack \in Stacks, stack' \in Stacks
  PROVE  \A u \in Threads : /\ DOMAIN stack[u] = 1 .. Len(stack[u])
                            /\ DOMAIN stack'[u] = 1 .. Len(stack'[u])
                            /\ Len(stack[u]) \in Nat /\ Len(stack'[u]) \in Nat
BY LenProperties DEF Stacks

LEMMA MovesShift ==
  ASSUME stack \in Stacks, stack' \in Stacks, NEW t \in Threads
  PROVE  /\ \A f \in Frame : Pushed(t, f) => Shifts(t, 1, {}, {f})
         /\ Popped(t) => Shifts(t, -1, {stack[t][1]}, {})
         /\ \A f \in Frame : Swapped(t, f) => Shifts(t, 0, {stack[t][1]}, {f})
         /\ \A f, g \in Frame :
              Called(t, f, g) => Shifts(t, 1, {stack[t][1]}, {f, g})
<1>0. /\ DOMAIN stack[t] = 1 .. Len(stack[t]) /\ DOMAIN stack'[t] = 1 .. Len(stack'[t])
      /\ Len(stack[t]) \in Nat /\ Len(stack'[t]) \in Nat
  BY Depths
<1>1. ASSUME NEW f \in Frame, Pushed(t, f)  PROVE Shifts(t, 1, {}, {f})
  <2>1. ASSUME NEW i \in DOMAIN stack'[t], i # 1
        PROVE  i - 1 \in DOMAIN stack[t] /\ stack'[t][i] = stack[t][i - 1]
    BY <1>0, <1>1, <2>1 DEF Pushed, IsPush
  <2>2. ASSUME NEW i \in DOMAIN stack[t]
        PROVE  i + 1 \in DOMAIN stack'[t] /\ stack'[t][i + 1] = stack[t][i]
    BY <1>0, <1>1 DEF Pushed, IsPush
  <2>. QED
    BY <1>1, <2>1, <2>2 DEF Shifts, Pushed, IsPush
<1>2. ASSUME Popped(t)  PROVE Shifts(t, -1, {stack[t][1]}, {})
  <2>1. ASSUME NEW i \in DOMAIN stack'[t]
        PROVE  i + 1 \in DOMAIN stack[t] /\ stack'[t][i] = stack[t][i + 1]
    BY <1>0, <1>2 DEF Popped, IsPop
  <2>2. ASSUME NEW i \in DOMAIN stack[t], i # 1
        PROVE  i - 1 \in DOMAIN stack'[t] /\ stack'[t][i - 1] = stack[t][i]
    BY <1>0, <1>2, <2>2 DEF Popped, IsPop
  <2>3. \A i \in Int : i - (-1) = i + 1 /\ i + (-1) = i - 1
    OBVIOUS
  <2>. QED
    BY <1>0, <1>2, <2>1, <2>2, <2>3, SMTT(60) DEF Shifts, Popped, IsPop
<1>3. ASSUME NEW f \in Frame, Swapped(t, f)  PROVE Shifts(t, 0, {stack[t][1]}, {f})
  <2>1. \A i \in 2 .. Len(stack[t]) : stack'[t][i] = stack[t][i]
    BY <1>3 DEF Swapped, IsSwap
  <2>. QED
    BY <1>0, <1>3, <2>1 DEF Shifts, Swapped, IsSwap
<1>4. ASSUME NEW f \in Frame, NEW g \in Frame, Called(t, f, g)
      PROVE  Shifts(t, 1, {stack[t][1]}, {f, g})
  <2>1. ASSUME NEW i \in DOMAIN stack'[t], i # 1, i # 2
        PROVE  i - 1 \in DOMAIN stack[t] /\ stack'[t][i] = stack[t][i - 1]
    BY <1>0, <1>4, <2>1 DEF Called, IsCall
  <2>2. ASSUME NEW i \in DOMAIN stack[t], i # 1
        PROVE  i + 1 \in DOMAIN stack'[t] /\ stack'[t][i + 1] = stack[t][i]
    BY <1>0, <1>4, <2>2, SMTT(60) DEF Called, IsCall
  <2>. QED
    BY <1>4, <2>1, <2>2 DEF Shifts, Called, IsCall
<1>. QED
  BY <1>1, <1>2, <1>3, <1>4

(* The frames of stack' that a move brings, and those that were there.     *)
Brings(t, S) ==
  \A u \in Threads : \A i \in DOMAIN stack'[u] :
    \/ u = t /\ stack'[u][i] \in S
    \/ \E j \in DOMAIN stack[u] : stack'[u][i] = stack[u][j]

LEMMA MovesBring ==
  ASSUME NEW t \in Threads, NEW d, NEW R, NEW S, Shifts(t, d, R, S)
  PROVE  Brings(t, S)
BY DEF Shifts, Brings, OthersStay

LEMMA FramesKept ==
  ASSUME FrameInv, NEW t \in Threads, NEW S, Brings(t, S),
         registered' = registered, hooked \subseteq hooked',
         \A f \in S : GoodFrame(f)'
  PROVE  FrameInv'
BY DEF FrameInv, Brings, GoodFrame
-----------------------------------------------------------------------------
LEMMA TypeNext == TypeOK /\ FrameInv /\ [Next]_vars => TypeOK'
<1>. SUFFICES ASSUME TypeOK, FrameInv, [Next]_vars  PROVE TypeOK'
  OBVIOUS
<1>0. stack \in Stacks /\ pool \subseteq Sessions
  BY DEF TypeOK, Stacks
<1>a. /\ disconnects \in [Sessions -> Nat]
      /\ \A s \in Sessions : [disconnects EXCEPT ![s] = @ + 1] \in [Sessions -> Nat]
  BY DEF TypeOK
<1>. DEFINE StackOK == stack' \in [Threads -> Seq(Frame)]
<1>. USE DEF acceptVars, poolVars, linkVars
<1>1. ASSUME NEW t \in Threads,
             Register(t) \/ Hook(t) \/ Connect(t) \/ Start(t) \/ Rearm(t)
      PROVE  TypeOK'
  <2>1. StackOK
    BY <1>0, <1>1, AcceptMoves DEF Stacks
  <2>2. CASE Register(t)
    <3>1. Its(t) \in Sessions
      BY <1>0, <2>2, GoodInside DEF Register
    <3>. QED
      BY <2>1, <2>2, <3>1 DEF TypeOK, Register
  <2>3. CASE Hook(t)
    <3>1. Its(t) \in Sessions /\ Its(t) \in registered
      BY <1>0, <2>3, GoodInside DEF Hook
    <3>. QED
      BY <2>1, <2>3, <3>1 DEF TypeOK, Hook
  <2>4. CASE Connect(t)
    <3>1. Its(t) \in hooked
      BY <1>0, <2>4, GoodInside DEF Connect
    <3>. QED
      BY <2>1, <2>4, <3>1 DEF TypeOK, Connect, NotStarted
  <2>5. CASE Start(t)
    BY <2>1, <2>5 DEF TypeOK, Start
  <2>6. CASE Rearm(t)
    BY <2>1, <2>6 DEF TypeOK, Rearm, Accepts
  <2>. QED
    BY <1>1, <2>2, <2>3, <2>4, <2>5, <2>6
<1>2. ASSUME NEW t \in Threads,
             TakeAcceptError(t) \/ \E s \in Sessions : TakeAccept(t, s)
      PROVE  TypeOK'
  <2>1. StackOK
    BY <1>0, <1>2, AcceptMoves DEF Stacks
  <2>. QED
    BY <1>2, <2>1 DEF TypeOK, TakeAcceptError, TakeAccept
<1>3. ASSUME NEW t \in Threads, NEW s \in Sessions,
             \/ TakeWriteError(t, s) \/ TakeWritten(t, s)
             \/ \E show \in Shows : TakeMessage(t, s, show)
             \/ \E end \in Ends : TakeReadError(t, s, end)
      PROVE  TypeOK'
  <2>1. StackOK
    BY <1>0, <1>3, SessionMoves DEF Stacks
  <2>2. CASE TakeWriteError(t, s)
    BY <2>1, <2>2 DEF TypeOK, TakeWriteError
  <2>. QED
    BY <1>3, <2>1, <2>2 DEF TypeOK, TakeMessage, TakeWritten, TakeReadError
<1>4. ASSUME NEW t \in Threads,
             ReturnShort(t) \/ ReturnMessage(t) \/ ReturnError(t) \/ ReturnPlain(t)
      PROVE  TypeOK'
  <2>1. StackOK
    BY <1>0, <1>4, SessionMoves DEF Stacks
  <2>. QED
    BY <1>4, <2>1 DEF TypeOK, ReturnShort, ReturnMessage, ReturnError, ReturnPlain
<1>5. ASSUME NEW t \in Threads, NEW call \in Calls, NEW s \in Sessions \cup {NoSession},
             Call(t, call, s)
      PROVE  TypeOK'
  <2>1. StackOK
    BY <1>0, <1>5, SessionMoves DEF Stacks
  <2>. QED
    BY <1>5, <2>1 DEF TypeOK, Call
<1>6. ASSUME NEW t \in Threads,
             WriteFind(t) \/ WriteSend(t) \/ Broadcast(t) \/ CloseErase(t)
             \/ SweepErase(t) \/ SweepCrash(t) \/ Stop(t)
      PROVE  TypeOK'
  <2>1. StackOK
    BY <1>0, <1>6, CallMoves DEF Stacks
  <2>2. \A r \in Sessions : Written(r) \in {"off", "armed", "failed"}
    BY DEF TypeOK, Written
  <2>3. CASE WriteFind(t) \/ Stop(t) \/ SweepCrash(t)
    BY <2>1, <2>3 DEF TypeOK, WriteFind, Stop, SweepCrash
  <2>4. CASE WriteSend(t)
    <3>1. Its(t) \in Sessions
      BY <1>0, <2>4, GoodInside DEF WriteSend
    <3>. QED
      BY <2>1, <2>2, <2>4, <3>1 DEF TypeOK, WriteSend
  <2>5. CASE Broadcast(t)
    <3>1. writing' \in [Sessions -> {"off", "armed", "failed"}]
      BY <2>2, <2>5 DEF TypeOK, Broadcast
    <3>. QED
      BY <2>1, <2>5, <3>1 DEF TypeOK, Broadcast
  <2>6. CASE CloseErase(t) \/ SweepErase(t)
    BY <2>1, <2>6 DEF TypeOK, CloseErase, SweepErase, EndGuard
  <2>. QED
    BY <1>6, <2>3, <2>4, <2>5, <2>6
<1>7. ASSUME NEW t \in Threads,
             CloseFind(t) \/ CloseAllLock(t) \/ SweepAdvance(t) \/ Sweep(t)
      PROVE  TypeOK'
  <2>1. StackOK
    BY <1>0, <1>7, CallMoves DEF Stacks
  <2>2. CASE CloseFind(t)
    <3>1. poolMtx' \in Threads \cup {NoThread}
      BY <1>0, <2>2, CallMoves DEF TypeOK
    <3>2. disconnects' \in [Sessions -> Nat]
      <4>1. disconnects' = disconnects
            \/ /\ Its(t) \in Sessions
               /\ disconnects' = [disconnects EXCEPT ![Its(t)] = @ + 1]
        BY <1>0, <2>2, CallMoves
      <4>. QED
        BY <1>a, <4>1
    <3>. QED
      BY <2>1, <2>2, <3>1, <3>2 DEF TypeOK, CloseFind
  <2>3. CASE CloseAllLock(t) \/ SweepAdvance(t)
    <3>1. poolMtx' \in Threads \cup {NoThread}
      BY <1>0, <2>3, CallMoves DEF TypeOK
    <3>. QED
      BY <2>1, <2>3, <3>1 DEF TypeOK, CloseAllLock, SweepAdvance
  <2>4. CASE Sweep(t)
    <3>0. Its(t) \in Sessions
      BY <1>0, <2>4, GoodInside DEF Sweep
    <3>1. disconnects' \in [Sessions -> Nat]
      BY <1>a, <2>4, <3>0 DEF Sweep, Disconnect
    <3>. QED
      BY <2>1, <2>4, <3>1 DEF TypeOK, Sweep, Disconnect, Locks
  <2>. QED
    BY <1>7, <2>2, <2>3, <2>4
<1>8. CASE Accepted
  BY <1>8 DEF TypeOK, Accepted
<1>9. CASE UNCHANGED vars
  BY <1>9 DEF TypeOK, vars
<1>. QED
  BY <1>1, <1>2, <1>3, <1>4, <1>5, <1>6, <1>7, <1>8, <1>9, NextCases
-----------------------------------------------------------------------------
(* A move of a thread whose frames, those that end and those it brings,    *)
(* are all at the given places.                                            *)
MovesIn(places) ==
  /\ stack' \in Stacks
  /\ \/ stack' = stack
     \/ \E t \in Threads : \E d \in {-1, 0, 1} : \E R, S \in SUBSET Frame :
          /\ Shifts(t, d, R, S)
          /\ \A f \in R \cup S : f.at \in places

Quiet == {"onError", "onDisconnect", "write", "send", "broadcast", "close",
          "closeAll", "stop"}

LEMMA MovesInside ==
  ASSUME stack \in Stacks, stack' \in Stacks, NEW t \in Threads, NEW places
  PROVE  /\ \A f \in Frame : Pushed(t, f) /\ f.at \in places => MovesIn(places)
         /\ \A place \in places :
              In(t, place) =>
                /\ Popped(t) => MovesIn(places)
                /\ \A f \in Frame :
                     Swapped(t, f) /\ f.at \in places => MovesIn(places)
                /\ \A f, g \in Frame :
                     Called(t, f, g) /\ f.at \in places /\ g.at \in places
                     => MovesIn(places)
<1>1. ASSUME NEW f \in Frame, Pushed(t, f), f.at \in places
      PROVE  MovesIn(places)
  <2>1. Shifts(t, 1, {}, {f})
    BY <1>1, MovesShift
  <2>. QED
    BY <1>1, <2>1 DEF MovesIn
<1>2. ASSUME NEW place \in places, In(t, place)
      PROVE  stack[t][1] \in Frame /\ stack[t][1].at \in places
  <2>1. stack[t] # <<>> /\ stack[t][1].at = place
    BY <1>2, Inside
  <2>. QED
    BY <2>1, Innermost
<1>3. ASSUME NEW place \in places, In(t, place), Popped(t)
      PROVE  MovesIn(places)
  <2>1. Shifts(t, -1, {stack[t][1]}, {})
    BY <1>3, MovesShift
  <2>. QED
    BY <1>2, <1>3, <2>1 DEF MovesIn
<1>4. ASSUME NEW place \in places, In(t, place), NEW f \in Frame, Swapped(t, f),
             f.at \in places
      PROVE  MovesIn(places)
  <2>1. Shifts(t, 0, {stack[t][1]}, {f})
    BY <1>4, MovesShift
  <2>. QED
    BY <1>2, <1>4, <2>1 DEF MovesIn
<1>5. ASSUME NEW place \in places, In(t, place), NEW f \in Frame, NEW g \in Frame,
             Called(t, f, g), f.at \in places, g.at \in places
      PROVE  MovesIn(places)
  <2>1. Shifts(t, 1, {stack[t][1]}, {f, g})
    BY <1>5, MovesShift
  <2>. QED
    BY <1>2, <1>5, <2>1 DEF MovesIn
<1>. QED
  BY <1>1, <1>3, <1>4, <1>5

LEMMA FramesAre ==
  \A place \in Places, s \in Sessions \cup {NoSession} :
    /\ FrameOf(place, s) \in Frame
    /\ FrameOf(place, s).at = place /\ FrameOf(place, s).s = s
BY DEF FrameOf, Frame
-----------------------------------------------------------------------------
(* Moves that neither bring a frame of the accept handler nor end one.     *)
LEMMA AcceptKept ==
  ASSUME stack \in Stacks, stack' \in Stacks, AcceptInv,
         NEW t \in Threads, NEW d \in {-1, 0, 1}, NEW R, NEW S, Shifts(t, d, R, S),
         \A f \in R \cup S : f.at \notin AcceptPlaces,
         UNCHANGED <<accepting, acceptFailed>>
  PROVE  AcceptInv'
<1>0. \A u \in Threads : /\ DOMAIN stack[u] = 1 .. Len(stack[u])
                          /\ DOMAIN stack'[u] = 1 .. Len(stack'[u])
                          /\ Len(stack[u]) \in Nat /\ Len(stack'[u]) \in Nat
  BY Depths
<1>1. ASSUME NEW i \in DOMAIN stack'[t], stack'[t][i].at \in AcceptPlaces
      PROVE  i - d \in DOMAIN stack[t] /\ stack'[t][i] = stack[t][i - d]
  BY <1>1 DEF Shifts
<1>2. ASSUME NEW i \in DOMAIN stack[t], stack[t][i].at \in AcceptPlaces
      PROVE  i + d \in DOMAIN stack'[t] /\ stack'[t][i + d] = stack[t][i]
  BY <1>2 DEF Shifts
<1>3. \A u \in Threads : Accepting(u)' <=> Accepting(u)
  <2>1. Accepting(t)' <=> Accepting(t)
    BY <1>1, <1>2 DEF Accepting
  <2>2. ASSUME NEW u \in Threads, u # t  PROVE Accepting(u)' <=> Accepting(u)
    BY <2>2 DEF Shifts, OthersStay, Accepting
  <2>. QED
    BY <2>1, <2>2
<1>4. AcceptChain'
  BY <1>3 DEF AcceptInv, AcceptChain
<1>5. ASSUME NEW i \in DOMAIN stack'[t], AtIn(t, i, AcceptPlaces)'
      PROVE  IF AtIn(t, i, {"onConnect"})'
             THEN /\ i + 1 = Len(stack'[t])
                  /\ stack'[t][i + 1] = [at |-> "start", s |-> stack'[t][i].s]
             ELSE i = Len(stack'[t])
  <2>1. i - d \in DOMAIN stack[t] /\ stack'[t][i] = stack[t][i - d]
    BY <1>1, <1>5 DEF AtIn
  <2>2. Len(stack'[t]) = Len(stack[t]) + d
    BY DEF Shifts
  <2>3. IF AtIn(t, i - d, {"onConnect"})
        THEN /\ i - d + 1 = Len(stack[t])
             /\ stack[t][i - d + 1] = [at |-> "start", s |-> stack[t][i - d].s]
        ELSE i - d = Len(stack[t])
    BY <1>5, <2>1 DEF AcceptInv, AtIn
  <2>4. CASE AtIn(t, i - d, {"onConnect"})
    <3>0. i \in Int /\ d \in Int /\ Len(stack[t]) \in Nat
      BY <1>0
    <3>a. i - d + 1 = Len(stack[t])
      BY <2>3, <2>4
    <3>b. i - d + 1 \in DOMAIN stack[t]
      BY <1>0, <2>1, <3>0, <3>a
    <3>c. i - d + 1 + d = i + 1
      BY <3>0
    <3>1. /\ i - d + 1 \in DOMAIN stack[t] /\ i - d + 1 + d = i + 1
          /\ i + 1 = Len(stack'[t])
      BY <2>2, <3>0, <3>a, <3>b, <3>c
    <3>2. stack[t][i - d + 1].at \in AcceptPlaces
      BY <2>3, <2>4 DEF AcceptPlaces
    <3>3. stack'[t][i + 1] = stack[t][i - d + 1]
      BY <1>2, <3>1, <3>2
    <3>. QED
      BY <2>1, <2>3, <2>4, <3>1, <3>3 DEF AtIn
  <2>5. CASE ~AtIn(t, i - d, {"onConnect"})
    BY <1>0, <2>1, <2>2, <2>3, <2>5 DEF AtIn
  <2>. QED
    BY <2>4, <2>5
<1>6. ASSUME NEW u \in Threads, u # t, NEW i \in DOMAIN stack'[u],
             AtIn(u, i, AcceptPlaces)'
      PROVE  IF AtIn(u, i, {"onConnect"})'
             THEN /\ i + 1 = Len(stack'[u])
                  /\ stack'[u][i + 1] = [at |-> "start", s |-> stack'[u][i].s]
             ELSE i = Len(stack'[u])
  BY <1>6, SMTT(60) DEF Shifts, OthersStay, AcceptInv, AtIn
<1>. QED
  BY <1>4, <1>5, <1>6 DEF AcceptInv

(* The steps of the accept handler itself.                                 *)
LEMMA AcceptHandler ==
  ASSUME stack \in Stacks, AcceptInv, NEW t \in Threads,
         \/ Register(t) \/ Hook(t) \/ Connect(t) \/ Start(t) \/ Rearm(t)
         \/ ReturnPlain(t) /\ In(t, "onConnect")
         \/ \E s \in Sessions : TakeAccept(t, s)
  PROVE  AcceptInv'
<1>. USE DEF FrameOf
<1>0. \A u \in Threads : DOMAIN stack[u] = 1 .. Len(stack[u]) /\ Len(stack[u]) \in Nat
  BY LenProperties DEF Stacks
<1>1. ASSUME In(t, "register") \/ In(t, "hook") \/ In(t, "connect")
             \/ In(t, "start") \/ In(t, "rearm")
      PROVE  /\ Len(stack[t]) = 1 /\ accepting = "off" /\ ~acceptFailed
             /\ \A u \in Threads : u # t => ~Accepting(u)
  <2>1. 1 \in DOMAIN stack[t] /\ AtIn(t, 1, AcceptPlaces) /\ ~AtIn(t, 1, {"onConnect"})
    BY <1>1, Inside DEF AtIn, AcceptPlaces
  <2>2. Accepting(t)
    BY <2>1 DEF Accepting, AtIn
  <2>. QED
    BY <2>1, <2>2 DEF AcceptInv, AcceptChain
<1>2. ASSUME stack' \in Stacks, OthersStay(t), UNCHANGED acceptVars,
             \A u \in Threads : u # t => ~Accepting(u),
             accepting = "off", ~acceptFailed, Accepting(t)'
      PROVE  AcceptChain' /\ (acceptFailed => accepting = "off")'
  <2>1. \A u \in Threads : u # t => ~Accepting(u)'
    BY <1>2 DEF Accepting, OthersStay
  <2>. QED
    BY <1>2, <2>1 DEF AcceptChain, acceptVars
<1>3. ASSUME stack' \in Stacks, OthersStay(t),
             \A i \in DOMAIN stack'[t] : AtIn(t, i, AcceptPlaces)' =>
               IF AtIn(t, i, {"onConnect"})'
               THEN /\ i + 1 = Len(stack'[t])
                    /\ stack'[t][i + 1] = [at |-> "start", s |-> stack'[t][i].s]
               ELSE i = Len(stack'[t]),
             AcceptChain', (acceptFailed => accepting = "off")'
      PROVE  AcceptInv'
  <2>1. ASSUME NEW u \in Threads, u # t
        PROVE  stack'[u] = stack[u]
    BY <1>3, <2>1 DEF OthersStay
  <2>2. ASSUME NEW u \in Threads, u # t, NEW i \in DOMAIN stack'[u],
               AtIn(u, i, AcceptPlaces)'
        PROVE  IF AtIn(u, i, {"onConnect"})'
               THEN /\ i + 1 = Len(stack'[u])
                    /\ stack'[u][i + 1] = [at |-> "start", s |-> stack'[u][i].s]
               ELSE i = Len(stack'[u])
    BY <2>1, <2>2 DEF AcceptInv, AtIn
  <2>. QED
    BY <1>3, <2>2 DEF AcceptInv
<1>4. ASSUME NEW place \in {"hook", "connect", "rearm"}, NEW s,
             In(t, "register") \/ In(t, "hook") \/ In(t, "start"),
             stack' \in Stacks, Swapped(t, FrameOf(place, s)), UNCHANGED acceptVars
      PROVE  AcceptInv'
  <2>1. /\ DOMAIN stack'[t] = 1 .. 1 /\ stack'[t][1] = FrameOf(place, s)
        /\ Len(stack'[t]) = 1 /\ OthersStay(t)
    BY <1>1, <1>4, LenProperties DEF Swapped, IsSwap, Stacks
  <2>2. Accepting(t)'
    BY <2>1 DEF Accepting, AcceptPlaces
  <2>. QED
    BY <1>1, <1>2, <1>3, <1>4, <2>1, <2>2 DEF AtIn, AcceptPlaces
<1>5. ASSUME Register(t) \/ Hook(t) \/ Start(t)  PROVE AcceptInv'
  BY <1>4, <1>5, AcceptMoves DEF Register, Hook, Start
<1>6. ASSUME Connect(t)  PROVE AcceptInv'
  <2>1. In(t, "connect") /\ stack' \in Stacks /\ UNCHANGED acceptVars
        /\ Called(t, FrameOf("onConnect", Its(t)), FrameOf("start", Its(t)))
    BY <1>6, AcceptMoves DEF Connect
  <2>2. /\ DOMAIN stack'[t] = 1 .. 2 /\ Len(stack'[t]) = 2 /\ OthersStay(t)
        /\ stack'[t][1] = FrameOf("onConnect", Its(t))
        /\ stack'[t][2] = FrameOf("start", Its(t))
    <3>1. Len(stack'[t]) = Len(stack[t]) + 1 /\ Len(stack[t]) = 1
      BY <1>1, <2>1 DEF Called, IsCall
    <3>2. DOMAIN stack'[t] = 1 .. Len(stack'[t])
      BY <2>1, LenProperties DEF Stacks
    <3>3. Len(stack'[t]) = 2
      BY <3>1
    <3>. QED
      BY <2>1, <3>2, <3>3 DEF Called, IsCall
  <2>3. Accepting(t)'
    BY <2>2 DEF Accepting, AcceptPlaces
  <2>. QED
    BY <1>1, <1>2, <1>3, <2>1, <2>2, <2>3 DEF AtIn, AcceptPlaces
<1>7. ASSUME Rearm(t)  PROVE AcceptInv'
  <2>1. In(t, "rearm") /\ stack' \in Stacks /\ Popped(t)
        /\ accepting' = "waiting" /\ acceptFailed' = acceptFailed
    BY <1>7, AcceptMoves DEF Rearm, Accepts
  <2>2. DOMAIN stack'[t] = {} /\ OthersStay(t)
    <3>1. Len(stack'[t]) = Len(stack[t]) - 1 /\ Len(stack[t]) = 1 /\ OthersStay(t)
      BY <1>1, <2>1 DEF Popped, IsPop
    <3>2. DOMAIN stack'[t] = 1 .. Len(stack'[t])
      BY <2>1, LenProperties DEF Stacks
    <3>3. Len(stack'[t]) = 0 /\ 1 .. 0 = {}
      BY <3>1
    <3>. QED
      BY <3>1, <3>2, <3>3, Zenon
  <2>3. \A u \in Threads : ~Accepting(u)'
    BY <1>1, <2>1, <2>2 DEF Accepting, OthersStay
  <2>4. AcceptChain' /\ (acceptFailed => accepting = "off")'
    BY <1>1, <2>1, <2>3 DEF AcceptChain
  <2>. QED
    BY <1>3, <2>1, <2>2, <2>4
<1>8. ASSUME ReturnPlain(t), In(t, "onConnect")  PROVE AcceptInv'
  <2>1. stack' \in Stacks /\ Popped(t) /\ UNCHANGED acceptVars
    BY <1>8, SessionMoves DEF ReturnPlain
  <2>2. 1 \in DOMAIN stack[t] /\ AtIn(t, 1, {"onConnect"})
    BY <1>8, Inside DEF AtIn
  <2>3. Len(stack[t]) = 2 /\ stack[t][2] = [at |-> "start", s |-> stack[t][1].s]
    <3>1. AtIn(t, 1, AcceptPlaces)
      BY <2>2 DEF AtIn, AcceptPlaces
    <3>2. /\ 1 + 1 = Len(stack[t])
          /\ stack[t][1 + 1] = [at |-> "start", s |-> stack[t][1].s]
      BY <2>2, <3>1 DEF AcceptInv
    <3>3. 1 + 1 = 2
      OBVIOUS
    <3>4. Len(stack[t]) = 2
      BY <3>2, <3>3
    <3>. QED
      BY <3>2, <3>3, <3>4, Zenon
  <2>4. /\ Accepting(t) /\ accepting = "off" /\ ~acceptFailed
        /\ \A u \in Threads : u # t => ~Accepting(u)
    <3>1. Accepting(t)
      BY <2>2 DEF Accepting, AtIn, AcceptPlaces
    <3>. QED
      BY <3>1 DEF AcceptInv, AcceptChain
  <2>5. /\ DOMAIN stack'[t] = 1 .. 1 /\ Len(stack'[t]) = 1 /\ OthersStay(t)
        /\ stack'[t][1] = stack[t][2]
    BY <2>1, <2>3, LenProperties DEF Popped, IsPop, Stacks
  <2>6. Accepting(t)'
    BY <2>3, <2>5 DEF Accepting, AcceptPlaces
  <2>. QED
    BY <1>2, <1>3, <2>1, <2>3, <2>4, <2>5, <2>6 DEF AtIn, AcceptPlaces
<1>9. ASSUME NEW s \in Sessions, TakeAccept(t, s)  PROVE AcceptInv'
  <2>1. /\ stack[t] = <<>> /\ stack' \in Stacks /\ Pushed(t, FrameOf("register", s))
        /\ accepting = "accepted" /\ accepting' = "off" /\ acceptFailed' = acceptFailed
    BY <1>9, AcceptMoves DEF TakeAccept
  <2>2. /\ DOMAIN stack'[t] = 1 .. 1 /\ Len(stack'[t]) = 1 /\ OthersStay(t)
        /\ stack'[t][1] = FrameOf("register", s)
    <3>1. Len(stack[t]) = 0
      BY <2>1, EmptySeq
    <3>. QED
      BY <2>1, <3>1, LenProperties DEF Pushed, IsPush, Stacks
  <2>3. \A u \in Threads : ~Accepting(u)
    BY <2>1 DEF AcceptInv, AcceptChain
  <2>4. Accepting(t)' /\ \A u \in Threads : u # t => ~Accepting(u)'
    BY <2>2, <2>3 DEF Accepting, AcceptPlaces, OthersStay
  <2>5. AcceptChain' /\ (acceptFailed => accepting = "off")'
    BY <2>1, <2>4 DEF AcceptInv, AcceptChain
  <2>. QED
    BY <1>3, <2>1, <2>2, <2>5 DEF AtIn, AcceptPlaces
<1>. QED
  BY <1>5, <1>6, <1>7, <1>8, <1>9

-----------------------------------------------------------------------------
(* A thread's frames at some places stay, d deeper than before.            *)
Keeps(u, d, places) ==
  /\ Len(stack'[u]) = Len(stack[u]) + d
  /\ \A i \in DOMAIN stack[u] : stack[u][i].at \in places =>
       i + d \in DOMAIN stack'[u] /\ stack'[u][i + d] = stack[u][i]
  /\ \A i \in DOMAIN stack'[u] : stack'[u][i].at \in places =>
       i - d \in DOMAIN stack[u] /\ stack'[u][i] = stack[u][i - d]

(* A move keeps the frames at other places than its own.                   *)
LEMMA Stay ==
  ASSUME stack \in Stacks, NEW places, NEW others, places \cap others = {},
         MovesIn(places)
  PROVE  \A u \in Threads : \E d \in {-1, 0, 1} : Keeps(u, d, others)
<1>0. /\ stack' \in Stacks
      /\ \A u \in Threads :
           /\ DOMAIN stack[u] = 1 .. Len(stack[u])
           /\ DOMAIN stack'[u] = 1 .. Len(stack'[u])
           /\ Len(stack[u]) \in Nat /\ Len(stack'[u]) \in Nat
  BY Depths DEF MovesIn
<1>. SUFFICES ASSUME NEW u \in Threads  PROVE \E d \in {-1, 0, 1} : Keeps(u, d, others)
  OBVIOUS
<1>1. CASE stack'[u] = stack[u]
  <2>1. Keeps(u, 0, others)
    BY <1>0, <1>1 DEF Keeps
  <2>. QED
    BY <2>1
<1>2. ASSUME NEW d \in {-1, 0, 1}, NEW R, NEW S, Shifts(u, d, R, S),
             \A f \in R \cup S : f.at \in places
      PROVE  Keeps(u, d, others)
  BY <1>2 DEF Shifts, Keeps
<1>3. CASE \E t \in Threads : u # t /\ OthersStay(t)
  BY <1>1, <1>3 DEF OthersStay
<1>4. CASE stack' # stack
  <2>1. PICK t \in Threads, d \in {-1, 0, 1}, R \in SUBSET Frame, S \in SUBSET Frame :
          Shifts(t, d, R, S) /\ \A f \in R \cup S : f.at \in places
    BY <1>4 DEF MovesIn
  <2>2. CASE u = t
    BY <1>2, <2>1, <2>2
  <2>3. CASE u # t
    BY <1>3, <2>1, <2>3 DEF Shifts
  <2>. QED
    BY <2>2, <2>3
<1>. QED
  BY <1>1, <1>4

(* Whether a session has a frame at another place does not change.         *)
LEMMA StayOn ==
  ASSUME stack \in Stacks, NEW places, NEW others, places \cap others = {},
         MovesIn(places), NEW s
  PROVE  OnStack(s, others)' <=> OnStack(s, others)
<1>1. ASSUME NEW u \in Threads, NEW i \in DOMAIN stack[u],
             stack[u][i].s = s, stack[u][i].at \in others
      PROVE  OnStack(s, others)'
  <2>1. PICK d \in {-1, 0, 1} : Keeps(u, d, others)
    BY Stay
  <2>. QED
    BY <1>1, <2>1 DEF OnStack, Keeps
<1>2. ASSUME NEW u \in Threads, NEW i \in DOMAIN stack'[u],
             stack'[u][i].s = s, stack'[u][i].at \in others
      PROVE  OnStack(s, others)
  <2>1. PICK d \in {-1, 0, 1} : Keeps(u, d, others)
    BY Stay
  <2>. QED
    BY <1>2, <2>1 DEF OnStack, Keeps
<1>. QED
  BY <1>1, <1>2 DEF OnStack

(* A move whose new frames are good keeps FrameInv.                        *)
LEMMA GoodMoves ==
  ASSUME stack \in Stacks, stack' \in Stacks, FrameInv, NEW t \in Threads, NEW places,
         registered' = registered, hooked \subseteq hooked'
  PROVE  /\ stack' = stack => MovesIn(places) /\ FrameInv'
         /\ \A f \in Frame :
              Pushed(t, f) /\ f.at \in places /\ GoodFrame(f)'
              => MovesIn(places) /\ FrameInv'
         /\ \A place \in places :
              In(t, place) =>
                /\ Popped(t) => MovesIn(places) /\ FrameInv'
                /\ \A f \in Frame :
                     Swapped(t, f) /\ f.at \in places /\ GoodFrame(f)'
                     => MovesIn(places) /\ FrameInv'
                /\ \A f, g \in Frame :
                     /\ Called(t, f, g) /\ f.at \in places /\ g.at \in places
                     /\ GoodFrame(f)' /\ GoodFrame(g)'
                     => MovesIn(places) /\ FrameInv'
<1>1. ASSUME NEW d \in {-1, 0, 1}, NEW R, NEW S, Shifts(t, d, R, S),
             \A f \in S : GoodFrame(f)'
      PROVE  FrameInv'
  <2>1. Brings(t, S)
    BY <1>1, MovesBring
  <2>. QED
    BY <1>1, <2>1, FramesKept
<1>2. ASSUME stack' = stack  PROVE MovesIn(places) /\ FrameInv'
  BY <1>2 DEF MovesIn, FrameInv, GoodFrame
<1>3. ASSUME NEW f \in Frame, Pushed(t, f), GoodFrame(f)'  PROVE FrameInv'
  <2>1. Shifts(t, 1, {}, {f})
    BY <1>3, MovesShift
  <2>. QED
    BY <1>1, <1>3, <2>1
<1>4. ASSUME Popped(t)  PROVE FrameInv'
  <2>1. Shifts(t, -1, {stack[t][1]}, {})
    BY <1>4, MovesShift
  <2>. QED
    BY <1>1, <2>1
<1>5. ASSUME NEW f \in Frame, Swapped(t, f), GoodFrame(f)'  PROVE FrameInv'
  <2>1. Shifts(t, 0, {stack[t][1]}, {f})
    BY <1>5, MovesShift
  <2>. QED
    BY <1>1, <1>5, <2>1
<1>6. ASSUME NEW f \in Frame, NEW g \in Frame, Called(t, f, g),
             GoodFrame(f)', GoodFrame(g)'
      PROVE  FrameInv'
  <2>1. Shifts(t, 1, {stack[t][1]}, {f, g})
    BY <1>6, MovesShift
  <2>. QED
    BY <1>1, <1>6, <2>1
<1>. QED
  BY <1>2, <1>3, <1>4, <1>5, <1>6, MovesInside
-----------------------------------------------------------------------------
(* The steps that touch neither the pool nor the accept handler's frames,  *)
(* nor begin to read.                                                      *)
QuietStep ==
  /\ MovesIn(Quiet) /\ FrameInv'
  /\ UNCHANGED <<poolVars, hooked, connected>>
  /\ \A s \in Sessions :
       /\ \/ reading'[s] = reading[s]
          \/ reading[s] = "armed" /\ reading'[s] = "failed"
       /\ writing'[s] # "off" => s \in registered
  /\ \/ UNCHANGED <<accepting, acceptFailed>>
     \/ accepting = "waiting" /\ accepting' = "off" /\ acceptFailed' = TRUE

LEMMA QuietReturns ==
  ASSUME TypeOK, FrameInv, LinkInv, NEW t \in Threads,
         \/ WriteSend(t) \/ Stop(t) \/ WriteFind(t) \/ Broadcast(t) \/ ReturnError(t)
         \/ ReturnPlain(t) /\ In(t, "onDisconnect")
         \/ CloseFind(t) /\ Its(t) \notin pool
  PROVE  QuietStep
<1>0. stack \in Stacks /\ pool \subseteq Sessions /\ pool \subseteq registered
  BY DEF TypeOK, Stacks
<1>. USE DEF acceptVars, poolVars, linkVars
<1>a. \A s \in Sessions : writing[s] # "off" => s \in registered
  BY DEF LinkInv
<1>b. {"onError", "onDisconnect", "write", "send", "broadcast", "close", "stop"}
      \subseteq Quiet
  BY DEF Quiet
<1>1. CASE WriteSend(t)
  <2>1. In(t, "send") /\ stack' \in Stacks /\ Popped(t)
    BY <1>0, <1>1, CallMoves
  <2>2. Its(t) \in registered
    BY <1>0, <2>1, GoodInside
  <2>3. MovesIn(Quiet) /\ FrameInv'
    BY <1>0, <1>1, <1>b, <2>1, GoodMoves, PlaceNames DEF WriteSend
  <2>4. \A s \in Sessions : writing'[s] # "off" => s \in registered
    BY <1>1, <1>a, <2>2 DEF WriteSend, TypeOK
  <2>. QED
    BY <1>1, <2>3, <2>4 DEF QuietStep, WriteSend
<1>2. CASE Broadcast(t)
  <2>1. In(t, "broadcast") /\ stack' \in Stacks /\ Popped(t)
    BY <1>0, <1>2, CallMoves
  <2>2. MovesIn(Quiet) /\ FrameInv'
    BY <1>0, <1>2, <1>b, <2>1, GoodMoves, PlaceNames DEF Broadcast
  <2>3. \A s \in Sessions : writing'[s] # "off" => s \in registered
    BY <1>0, <1>2, <1>a DEF Broadcast
  <2>. QED
    BY <1>2, <2>2, <2>3 DEF QuietStep, Broadcast
<1>3. CASE Stop(t)
  <2>1. /\ In(t, "stop") /\ stack' \in Stacks
        /\ Swapped(t, FrameOf("closeAll", Its(t)))
    BY <1>0, <1>3, CallMoves
  <2>2. Its(t) \in Sessions \cup {NoSession}
        /\ (Its(t) \in Sessions => Its(t) \in registered)
    <3>1. Its(t) \in Sessions \cup {NoSession}
      BY <1>0, <2>1, Inside
    <3>. QED
      BY <1>0, <2>1, <3>1, GoodInside
  <2>3. PICK f \in Frame : f = FrameOf("closeAll", Its(t))
    BY <2>2, PlaceNames, FramesAre
  <2>4. MovesIn(Quiet) /\ FrameInv'
    <3>1. f.at \in Quiet /\ GoodFrame(f)'
      BY <1>3, <2>2, <2>3, PlaceNames, FramesAre DEF Quiet, GoodFrame, Stop
    <3>. QED
      BY <1>0, <1>3, <1>b, <2>1, <2>3, <3>1, GoodMoves, PlaceNames DEF Stop
  <2>. QED
    BY <1>3, <1>a, <2>4 DEF QuietStep, Stop
<1>4. CASE WriteFind(t)
  <2>1. /\ In(t, "write") /\ stack' \in Stacks
        /\ Popped(t) \/ (Its(t) \in pool /\ Swapped(t, FrameOf("send", Its(t))))
    BY <1>0, <1>4, CallMoves
  <2>2. MovesIn(Quiet) /\ FrameInv'
    <3>1. CASE Popped(t)
      BY <1>0, <1>4, <1>b, <2>1, <3>1, GoodMoves, PlaceNames DEF WriteFind
    <3>2. CASE Its(t) \in pool /\ Swapped(t, FrameOf("send", Its(t)))
      <4>1. PICK f \in Frame : f = FrameOf("send", Its(t))
        BY <1>0, <3>2, PlaceNames, FramesAre
      <4>2. f.at \in Quiet /\ GoodFrame(f)'
        BY <1>0, <1>4, <3>2, <4>1, PlaceNames, FramesAre
        DEF Quiet, GoodFrame, WriteFind
      <4>. QED
        BY <1>0, <1>4, <1>b, <2>1, <3>2, <4>1, <4>2, GoodMoves, PlaceNames DEF WriteFind
    <3>. QED
      BY <2>1, <3>1, <3>2
  <2>. QED
    BY <1>4, <1>a, <2>2 DEF QuietStep, WriteFind
<1>5. CASE ReturnError(t)
  <2>1. /\ In(t, "onError") /\ stack' \in Stacks
        /\ \/ Popped(t)
           \/ Its(t) # NoSession /\ Swapped(t, FrameOf("close", Its(t)))
    BY <1>0, <1>5, SessionMoves
  <2>2. MovesIn(Quiet) /\ FrameInv'
    <3>1. CASE Popped(t)
      BY <1>0, <1>5, <1>b, <2>1, <3>1, GoodMoves, PlaceNames DEF ReturnError
    <3>2. CASE Its(t) # NoSession /\ Swapped(t, FrameOf("close", Its(t)))
      <4>0. Its(t) \in Sessions /\ Its(t) \in registered
        <5>1. Its(t) \in Sessions \cup {NoSession}
          BY <1>0, <2>1, Inside
        <5>. QED
          BY <1>0, <2>1, <3>2, <5>1, GoodInside
      <4>1. PICK f \in Frame : f = FrameOf("close", Its(t))
        BY <4>0, PlaceNames, FramesAre
      <4>2. f.at \in Quiet /\ GoodFrame(f)'
        BY <1>0, <1>5, <4>0, <4>1, PlaceNames, FramesAre
        DEF Quiet, GoodFrame, ReturnError
      <4>. QED
        BY <1>0, <1>5, <1>b, <2>1, <3>2, <4>1, <4>2, GoodMoves, PlaceNames DEF ReturnError
    <3>. QED
      BY <2>1, <3>1, <3>2
  <2>. QED
    BY <1>5, <1>a, <2>2 DEF QuietStep, ReturnError
<1>6. CASE ReturnPlain(t) /\ In(t, "onDisconnect")
  <2>1. stack' \in Stacks /\ Popped(t)
    BY <1>0, <1>6, SessionMoves
  <2>2. MovesIn(Quiet) /\ FrameInv'
    BY <1>0, <1>6, <1>b, <2>1, GoodMoves, PlaceNames DEF ReturnPlain
  <2>. QED
    BY <1>6, <1>a, <2>2 DEF QuietStep, ReturnPlain
<1>7. CASE CloseFind(t) /\ Its(t) \notin pool
  <2>1. In(t, "close") /\ stack' \in Stacks /\ Popped(t)
        /\ UNCHANGED <<poolMtx, disconnects>>
    BY <1>0, <1>7, CallMoves
  <2>2. MovesIn(Quiet) /\ FrameInv'
    BY <1>0, <1>7, <1>b, <2>1, GoodMoves, PlaceNames DEF CloseFind
  <2>. QED
    BY <1>7, <1>a, <2>1, <2>2 DEF QuietStep, CloseFind
<1>. QED
  BY <1>1, <1>2, <1>3, <1>4, <1>5, <1>6, <1>7
-----------------------------------------------------------------------------
LEMMA QuietTakes ==
  ASSUME TypeOK, FrameInv, LinkInv, NEW t \in Threads,
         \/ TakeAcceptError(t)
         \/ \E s \in Sessions :
              \/ TakeWriteError(t, s) \/ TakeWritten(t, s)
              \/ \E end \in Ends : TakeReadError(t, s, end)
         \/ \E call \in Calls, s \in Sessions \cup {NoSession} : Call(t, call, s)
         \/ SweepCrash(t)
  PROVE  QuietStep
<1>0. stack \in Stacks /\ pool \subseteq Sessions /\ pool \subseteq registered
  BY DEF TypeOK, Stacks
<1>. USE DEF acceptVars, poolVars, linkVars
<1>a. \A s \in Sessions : /\ writing[s] # "off" => s \in registered
                          /\ reading[s] = "armed" => s \in registered
                          /\ Known(s) => s \in registered
  BY DEF LinkInv, TypeOK, Known
<1>n. NoSession \notin Sessions
  BY ServerAssumption
<1>1. CASE TakeAcceptError(t)
  <2>1. stack' \in Stacks /\ Pushed(t, FrameOf("onError", NoSession))
    BY <1>0, <1>1, AcceptMoves
  <2>2. PICK f \in Frame : f = FrameOf("onError", NoSession)
    BY PlaceNames, FramesAre
  <2>3. f.at \in Quiet /\ GoodFrame(f)'
    BY <1>n, <2>2, PlaceNames, FramesAre DEF Quiet, GoodFrame
  <2>4. MovesIn(Quiet) /\ FrameInv'
    BY <1>0, <1>1, <2>1, <2>2, <2>3, GoodMoves DEF TakeAcceptError
  <2>. QED
    BY <1>1, <1>a, <2>4 DEF QuietStep, TakeAcceptError
<1>2. ASSUME NEW s \in Sessions, TakeWriteError(t, s)
      PROVE  QuietStep
  <2>1. \/ stack' = stack /\ stack' \in Stacks
        \/ stack' \in Stacks /\ Pushed(t, FrameOf("onError", s))
    BY <1>0, <1>2, SessionMoves
  <2>2. PICK f \in Frame : f = FrameOf("onError", s)
    BY PlaceNames, FramesAre
  <2>3. s \in registered /\ registered' = registered
    BY <1>2, <1>a DEF TakeWriteError
  <2>4. f.at \in Quiet /\ GoodFrame(f)'
    BY <2>2, <2>3, PlaceNames, FramesAre DEF Quiet, GoodFrame
  <2>5. MovesIn(Quiet) /\ FrameInv'
    BY <1>0, <1>2, <2>1, <2>2, <2>4, GoodMoves DEF TakeWriteError
  <2>6. \A r \in Sessions : writing'[r] # "off" => r \in registered
    BY <1>2, <1>a, <2>3 DEF TakeWriteError, TypeOK
  <2>. QED
    BY <1>2, <2>5, <2>6 DEF QuietStep, TakeWriteError
<1>3. ASSUME NEW s \in Sessions, TakeWritten(t, s)
      PROVE  QuietStep
  <2>1. MovesIn(Quiet) /\ FrameInv'
    BY <1>0, <1>3, GoodMoves DEF TakeWritten
  <2>2. \A r \in Sessions : writing'[r] # "off" => r \in registered
    BY <1>3, <1>a DEF TakeWritten, TypeOK
  <2>. QED
    BY <1>3, <2>1, <2>2 DEF QuietStep, TakeWritten
<1>4. ASSUME NEW s \in Sessions, NEW end \in Ends, TakeReadError(t, s, end)
      PROVE  QuietStep
  <2>1. stack' \in Stacks /\ Pushed(t, FrameOf(end, s))
    BY <1>0, <1>4, SessionMoves
  <2>2. PICK f \in Frame : f = FrameOf(end, s)
    BY PlaceNames, FramesAre
  <2>3. s \in registered /\ registered' = registered /\ end \in {"onError", "close"}
    BY <1>4, <1>a DEF TakeReadError, Ends
  <2>4. f.at \in Quiet /\ GoodFrame(f)'
    BY <2>2, <2>3, PlaceNames, FramesAre DEF Quiet, GoodFrame
  <2>5. MovesIn(Quiet) /\ FrameInv'
    BY <1>0, <1>4, <2>1, <2>2, <2>4, GoodMoves DEF TakeReadError
  <2>6. \A r \in Sessions :
          \/ reading'[r] = reading[r]
          \/ reading[r] = "armed" /\ reading'[r] = "failed"
    BY <1>4 DEF TakeReadError, TypeOK
  <2>. QED
    BY <1>4, <1>a, <2>5, <2>6 DEF QuietStep, TakeReadError
<1>5. ASSUME NEW call \in Calls, NEW s \in Sessions \cup {NoSession}, Call(t, call, s)
      PROVE  QuietStep
  <2>1. stack' \in Stacks /\ Pushed(t, FrameOf(call, s))
    BY <1>0, <1>5, SessionMoves
  <2>2. PICK f \in Frame : f = FrameOf(call, s)
    BY PlaceNames, FramesAre
  <2>3. /\ registered' = registered
        /\ call \in {"write", "broadcast", "close", "closeAll", "stop"}
        /\ s \in Sessions => s \in registered
        /\ s \in Sessions \/ call \notin {"write", "close"}
    BY <1>5, <1>a, <1>n, ServerAssumption DEF Call, TypeOK
  <2>4. f.at \in Quiet /\ GoodFrame(f)'
    BY <2>2, <2>3, PlaceNames, FramesAre DEF Quiet, GoodFrame
  <2>5. MovesIn(Quiet) /\ FrameInv'
    BY <1>0, <1>5, <2>1, <2>2, <2>4, GoodMoves DEF Call
  <2>. QED
    BY <1>5, <1>a, <2>5 DEF QuietStep, Call
<1>6. CASE SweepCrash(t)
  <2>1. MovesIn(Quiet) /\ FrameInv'
    BY <1>0, <1>6, GoodMoves DEF SweepCrash
  <2>. QED
    BY <1>6, <1>a, <2>1 DEF QuietStep, SweepCrash
<1>. QED
  BY <1>1, <1>2, <1>3, <1>4, <1>5, <1>6
-----------------------------------------------------------------------------
(* Every step, by what it touches.                                         *)
AcceptSteps(t) ==
  \/ Register(t) \/ Hook(t) \/ Connect(t) \/ Start(t) \/ Rearm(t)
  \/ ReturnPlain(t) /\ In(t, "onConnect")
  \/ \E s \in Sessions : TakeAccept(t, s)

MessageSteps(t) ==
  \/ ReturnShort(t) \/ ReturnMessage(t)
  \/ \E s \in Sessions, show \in Shows : TakeMessage(t, s, show)

GuardedSteps(t) ==
  \/ CloseFind(t) /\ Its(t) \in pool
  \/ CloseErase(t) \/ CloseAllLock(t) \/ Sweep(t) \/ SweepErase(t) \/ SweepAdvance(t)

LEMMA Outline ==
  ASSUME TypeOK, FrameInv, LinkInv, [Next]_vars
  PROVE  \/ UNCHANGED vars \/ Accepted \/ QuietStep
         \/ \E t \in Threads : AcceptSteps(t) \/ MessageSteps(t) \/ GuardedSteps(t)
<1>1. CASE UNCHANGED vars
  BY <1>1
<1>2. CASE Accepted
  BY <1>2
<1>3. ASSUME NEW t \in Threads,
             \/ WriteSend(t) \/ Stop(t) \/ WriteFind(t) \/ Broadcast(t) \/ ReturnError(t)
             \/ ReturnPlain(t) /\ In(t, "onDisconnect")
             \/ CloseFind(t) /\ Its(t) \notin pool
      PROVE  QuietStep
  BY <1>3, QuietReturns
<1>4. ASSUME NEW t \in Threads,
             \/ TakeAcceptError(t)
             \/ \E s \in Sessions :
                  \/ TakeWriteError(t, s) \/ TakeWritten(t, s)
                  \/ \E end \in Ends : TakeReadError(t, s, end)
             \/ \E call \in Calls, s \in Sessions \cup {NoSession} : Call(t, call, s)
             \/ SweepCrash(t)
      PROVE  QuietStep
  BY <1>4, QuietTakes
<1>5. \A t \in Threads : ReturnPlain(t) => In(t, "onConnect") \/ In(t, "onDisconnect")
  BY DEF ReturnPlain
<1>. QED
  BY <1>1, <1>2, <1>3, <1>4, <1>5, NextCases
  DEF AcceptSteps, MessageSteps, GuardedSteps
-----------------------------------------------------------------------------
LEMMA MessageMove ==
  ASSUME TypeOK, FrameInv, LinkInv, NEW t \in Threads, MessageSteps(t)
  PROVE  MovesIn(Shows) /\ FrameInv'
<1>0. stack \in Stacks
  BY DEF TypeOK, Stacks
<1>. USE DEF acceptVars, poolVars, linkVars
<1>a. {"onShort", "onMessage"} \subseteq Shows
      /\ \A show \in Shows : show \in {"onShort", "onMessage"}
  BY DEF Shows
<1>1. CASE ReturnMessage(t)
  <2>1. In(t, "onMessage") /\ stack' \in Stacks /\ Popped(t)
    BY <1>0, <1>1, SessionMoves
  <2>. QED
    BY <1>0, <1>1, <1>a, <2>1, GoodMoves DEF ReturnMessage
<1>2. ASSUME NEW s \in Sessions, s \in registered, registered' = registered,
             NEW show \in Shows
      PROVE  \E f \in Frame : f = FrameOf(show, s) /\ f.at \in Shows /\ GoodFrame(f)'
  <2>1. PICK f \in Frame : f = FrameOf(show, s)
    BY PlaceNames, FramesAre
  <2>2. f.at \in Shows /\ GoodFrame(f)'
    BY <1>2, <1>a, <2>1, PlaceNames, FramesAre DEF GoodFrame
  <2>. QED
    BY <2>1, <2>2
<1>3. CASE ReturnShort(t)
  <2>1. In(t, "onShort") /\ stack' \in Stacks /\ Swapped(t, FrameOf("onMessage", Its(t)))
    BY <1>0, <1>3, SessionMoves
  <2>2. Its(t) \in Sessions /\ Its(t) \in registered
    BY <1>0, <2>1, GoodInside
  <2>3. PICK f \in Frame : /\ f = FrameOf("onMessage", Its(t))
                           /\ f.at \in Shows /\ GoodFrame(f)'
    BY <1>2, <1>3, <1>a, <2>2 DEF ReturnShort
  <2>. QED
    BY <1>0, <1>3, <1>a, <2>1, <2>3, GoodMoves DEF ReturnShort
<1>4. ASSUME NEW s \in Sessions, NEW show \in Shows, TakeMessage(t, s, show)
      PROVE  MovesIn(Shows) /\ FrameInv'
  <2>1. stack' \in Stacks /\ Pushed(t, FrameOf(show, s))
    BY <1>0, <1>4, SessionMoves
  <2>2. s \in registered
    BY <1>4 DEF TakeMessage, LinkInv, TypeOK
  <2>3. PICK f \in Frame : f = FrameOf(show, s) /\ f.at \in Shows /\ GoodFrame(f)'
    BY <1>2, <1>4, <2>2 DEF TakeMessage
  <2>. QED
    BY <1>0, <1>4, <2>1, <2>3, GoodMoves DEF TakeMessage
<1>. QED
  BY <1>1, <1>3, <1>4 DEF MessageSteps

LEMMA GuardedMove ==
  ASSUME TypeOK, FrameInv, NEW t \in Threads, GuardedSteps(t)
  PROVE  MovesIn(Quiet \cup Guarded) /\ FrameInv'
<1>0. stack \in Stacks /\ pool \subseteq Sessions /\ pool \subseteq registered
      /\ registered \subseteq Sessions
  BY DEF TypeOK, Stacks
<1>. USE DEF acceptVars, poolVars, linkVars
<1>a. {"close", "closeAll", "onDisconnect", "closing", "sweep", "sweeping", "advance"}
      \subseteq Quiet \cup Guarded
  BY DEF Quiet, Guarded
<1>n. NoSession \notin Sessions
  BY ServerAssumption
<1>1. registered' = registered /\ hooked \subseteq hooked'
  BY DEF GuardedSteps, CloseFind, CloseErase, CloseAllLock, Sweep, SweepErase, SweepAdvance
<1>2. \A place \in {"onDisconnect", "closing", "sweep", "sweeping", "advance"},
         s \in registered :
        \E f \in Frame : /\ f = FrameOf(place, s)
                         /\ f.at \in Quiet \cup Guarded /\ GoodFrame(f)'
  <2>. SUFFICES ASSUME NEW place \in {"onDisconnect", "closing", "sweep", "sweeping",
                                      "advance"},
                       NEW s \in registered
       PROVE  /\ FrameOf(place, s) \in Frame
              /\ FrameOf(place, s).at \in Quiet \cup Guarded
              /\ GoodFrame(FrameOf(place, s))'
    OBVIOUS
  <2>. QED
    BY <1>0, <1>1, <1>a, PlaceNames, FramesAre DEF GoodFrame
<1>3. CASE CloseErase(t)
  <2>1. In(t, "closing") /\ stack' \in Stacks /\ Popped(t)
    BY <1>0, <1>3, CallMoves
  <2>. QED
    BY <1>0, <1>1, <1>a, <2>1, GoodMoves
<1>4. CASE CloseFind(t) /\ Its(t) \in pool
  <2>1. In(t, "close") /\ stack' \in Stacks
    BY <1>0, <1>4, CallMoves
  <2>2. \/ Popped(t)
        \/ Called(t, FrameOf("onDisconnect", Its(t)), FrameOf("closing", Its(t)))
    BY <1>0, <1>4, CallMoves
  <2>3. PICK f \in Frame : /\ f = FrameOf("onDisconnect", Its(t))
                           /\ f.at \in Quiet \cup Guarded /\ GoodFrame(f)'
    BY <1>0, <1>2, <1>4
  <2>4. PICK g \in Frame : /\ g = FrameOf("closing", Its(t))
                           /\ g.at \in Quiet \cup Guarded /\ GoodFrame(g)'
    BY <1>0, <1>2, <1>4
  <2>. QED
    BY <1>0, <1>1, <1>a, <2>1, <2>2, <2>3, <2>4, GoodMoves
<1>5. CASE CloseAllLock(t) \/ SweepAdvance(t)
  <2>1. stack' \in Stacks /\ (In(t, "closeAll") \/ In(t, "advance"))
        /\ (Popped(t) \/ \E s \in pool : Swapped(t, FrameOf("sweep", s)))
    BY <1>0, <1>5, CallMoves
  <2>2. CASE Popped(t)
    BY <1>0, <1>1, <1>a, <2>1, <2>2, GoodMoves
  <2>3. CASE \E s \in pool : Swapped(t, FrameOf("sweep", s))
    <3>1. PICK s \in pool : Swapped(t, FrameOf("sweep", s))
      BY <2>3
    <3>2. PICK f \in Frame : /\ f = FrameOf("sweep", s)
                             /\ f.at \in Quiet \cup Guarded /\ GoodFrame(f)'
      BY <1>0, <1>2
    <3>. QED
      BY <1>0, <1>1, <1>a, <2>1, <3>1, <3>2, GoodMoves
  <2>. QED
    BY <2>1, <2>2, <2>3
<1>6. CASE Sweep(t) \/ SweepErase(t)
  <2>1. Its(t) \in registered
    <3>1. In(t, "sweep") \/ In(t, "sweeping")
      BY <1>6 DEF Sweep, SweepErase
    <3>2. Its(t) \in Sessions
      BY <1>0, <3>1, GoodInside
    <3>. QED
      BY <1>0, <3>1, <3>2, GoodInside
  <2>2. PICK f \in Frame : /\ f = FrameOf("onDisconnect", Its(t))
                           /\ f.at \in Quiet \cup Guarded /\ GoodFrame(f)'
    BY <1>2, <2>1
  <2>3. PICK g \in Frame : /\ g = FrameOf("sweeping", Its(t))
                           /\ g.at \in Quiet \cup Guarded /\ GoodFrame(g)'
    BY <1>2, <2>1
  <2>4. PICK h \in Frame : /\ h = FrameOf("advance", Its(t))
                           /\ h.at \in Quiet \cup Guarded /\ GoodFrame(h)'
    BY <1>2, <2>1
  <2>5. CASE Sweep(t)
    <3>1. In(t, "sweep") /\ stack' \in Stacks /\ Called(t, f, g)
      BY <1>0, <2>5, <2>2, <2>3, CallMoves
    <3>. QED
      BY <1>0, <1>1, <1>a, <2>2, <2>3, <3>1, GoodMoves
  <2>6. CASE SweepErase(t)
    <3>1. In(t, "sweeping") /\ stack' \in Stacks /\ Swapped(t, h)
      BY <1>0, <2>6, <2>4, CallMoves
    <3>. QED
      BY <1>0, <1>1, <1>a, <2>4, <3>1, GoodMoves
  <2>. QED
    BY <1>6, <2>5, <2>6
<1>. QED
  BY <1>3, <1>4, <1>5, <1>6 DEF GuardedSteps
-----------------------------------------------------------------------------
(* The accept handler registers a session no other frame knows of.         *)
LEMMA RegisterFrames ==
  ASSUME TypeOK, FrameInv, AcceptInv, NEW t \in Threads, Register(t)
  PROVE  FrameInv'
<1>0. stack \in Stacks /\ registered \subseteq Sessions
  BY DEF TypeOK, Stacks
<1>. DEFINE s == Its(t)
<1>1. /\ In(t, "register") /\ stack' \in Stacks /\ Swapped(t, FrameOf("hook", s))
      /\ registered' = registered \cup {s} /\ hooked' = hooked
  BY <1>0, AcceptMoves DEF Register, linkVars
<1>2. /\ s \in Sessions /\ s \notin registered
      /\ 1 \in DOMAIN stack[t] /\ stack[t][1].at = "register"
  BY <1>0, <1>1, Inside, GoodInside
<1>. HIDE DEF s
<1>3. ASSUME NEW u \in Threads, NEW i \in DOMAIN stack[u], stack[u][i].at = "register"
      PROVE  u = t /\ i = 1
  <2>1. Accepting(u) /\ Accepting(t) /\ AtIn(u, i, AcceptPlaces)
        /\ AtIn(t, 1, AcceptPlaces) /\ ~AtIn(u, i, {"onConnect"})
        /\ ~AtIn(t, 1, {"onConnect"})
    BY <1>2, <1>3 DEF Accepting, AtIn, AcceptPlaces
  <2>. QED
    BY <1>2, <1>3, <2>1, ZenonT(60) DEF AcceptInv, AcceptChain
<1>4. ASSUME NEW u \in Threads, NEW i \in DOMAIN stack[u], u # t \/ i # 1,
             NEW f, f = stack[u][i]
      PROVE  GoodFrame(f)'
  <2>1. GoodFrame(f) /\ f.at # "register"
    BY <1>3, <1>4 DEF FrameInv
  <2>2. f.s # s
    BY <1>2, <2>1 DEF GoodFrame
  <2>. QED
    BY <1>1, <2>1, <2>2 DEF GoodFrame
<1>5. ASSUME NEW f, f = FrameOf("hook", s)
      PROVE  GoodFrame(f)'
  BY <1>1, <1>2, <1>5, PlaceNames, FramesAre DEF GoodFrame
<1>6. ASSUME NEW u \in Threads, NEW i \in DOMAIN stack'[u], NEW f, f = stack'[u][i]
      PROVE  GoodFrame(f)'
  <2>0. /\ DOMAIN stack[u] = 1 .. Len(stack[u]) /\ DOMAIN stack'[u] = 1 .. Len(stack'[u])
        /\ Len(stack[u]) \in Nat
    BY <1>0, <1>1, Depths
  <2>1. CASE u = t /\ i = 1
    BY <1>1, <1>5, <1>6, <2>1 DEF Swapped, IsSwap
  <2>2. CASE u # t \/ i # 1
    <3>1. i \in DOMAIN stack[u] /\ f = stack[u][i]
      BY <1>1, <1>6, <2>0, <2>2 DEF Swapped, OthersStay, IsSwap
    <3>. QED
      BY <1>4, <2>2, <3>1
  <2>. QED
    BY <2>1, <2>2
<1>. QED
  BY <1>6 DEF FrameInv, GoodFrame

LEMMA AcceptMove ==
  ASSUME TypeOK, FrameInv, AcceptInv, NEW t \in Threads, AcceptSteps(t)
  PROVE  /\ MovesIn(AcceptPlaces) /\ FrameInv' /\ AcceptInv'
         /\ UNCHANGED <<poolMtx, disconnects, writing>>
<1>0. stack \in Stacks /\ registered \subseteq Sessions
  BY DEF TypeOK, Stacks
<1>. USE DEF acceptVars, poolVars, linkVars
<1>a. AcceptPlaces = {"register", "hook", "connect", "onConnect", "start", "rearm"}
  BY DEF AcceptPlaces
<1>1. AcceptInv'
  BY <1>0, AcceptHandler DEF AcceptSteps
<1>2. UNCHANGED <<poolMtx, disconnects, writing>>
  BY DEF AcceptSteps, Register, Hook, Connect, Start, Rearm, ReturnPlain, TakeAccept
<1>3. CASE Register(t)
  <2>1. /\ In(t, "register") /\ stack' \in Stacks /\ Swapped(t, FrameOf("hook", Its(t)))
        /\ Its(t) \in Sessions
    BY <1>0, <1>3, AcceptMoves, GoodInside
  <2>2. PICK f \in Frame : f = FrameOf("hook", Its(t))
    BY <2>1, PlaceNames, FramesAre
  <2>3. f.at \in AcceptPlaces
    BY <1>a, <2>1, <2>2, PlaceNames, FramesAre
  <2>4. MovesIn(AcceptPlaces)
    BY <1>0, <1>a, <2>1, <2>2, <2>3, MovesInside
  <2>. QED
    BY <1>1, <1>2, <1>3, <2>4, RegisterFrames
<1>4. ASSUME ~Register(t)
      PROVE  registered' = registered /\ hooked \subseteq hooked'
  BY <1>4 DEF AcceptSteps, Hook, Connect, Start, Rearm, ReturnPlain, TakeAccept
<1>5. CASE ~Register(t) /\ (Hook(t) \/ Start(t))
  <2>1. PICK p \in {"connect", "rearm"} :
          /\ In(t, "hook") \/ In(t, "start")
          /\ stack' \in Stacks /\ Swapped(t, FrameOf(p, Its(t)))
    BY <1>0, <1>5, AcceptMoves
  <2>2. Its(t) \in Sessions /\ Its(t) \in registered /\ Its(t) \in hooked'
    <3>1. Its(t) \in Sessions
      BY <1>0, <2>1, GoodInside
    <3>2. Its(t) \in registered
      BY <1>0, <2>1, <3>1, GoodInside
    <3>3. CASE Hook(t)
      BY <3>1, <3>2, <3>3 DEF Hook
    <3>4. CASE Start(t)
      <4>1. Its(t) \in hooked
        BY <1>0, <3>4, GoodInside DEF Start
      <4>. QED
        BY <1>4, <1>5, <3>1, <3>2, <4>1
    <3>. QED
      BY <1>5, <3>1, <3>2, <3>3, <3>4
  <2>3. PICK f \in Frame : f = FrameOf(p, Its(t))
    BY <2>2, PlaceNames, FramesAre
  <2>4. f.at \in AcceptPlaces /\ GoodFrame(f)'
    BY <1>4, <1>5, <1>a, <2>2, <2>3, PlaceNames, FramesAre DEF GoodFrame
  <2>5. MovesIn(AcceptPlaces) /\ FrameInv'
    BY <1>0, <1>4, <1>5, <1>a, <2>1, <2>3, <2>4, GoodMoves
  <2>. QED
    BY <1>1, <1>2, <2>5
<1>6. CASE ~Register(t) /\ Connect(t)
  <2>1. /\ In(t, "connect") /\ stack' \in Stacks
        /\ Called(t, FrameOf("onConnect", Its(t)), FrameOf("start", Its(t)))
    BY <1>0, <1>6, AcceptMoves
  <2>2. Its(t) \in Sessions /\ Its(t) \in registered /\ Its(t) \in hooked
    BY <1>0, <2>1, GoodInside
  <2>3. PICK f \in Frame : f = FrameOf("onConnect", Its(t))
    BY <2>2, PlaceNames, FramesAre
  <2>4. PICK g \in Frame : g = FrameOf("start", Its(t))
    BY <2>2, PlaceNames, FramesAre
  <2>5. f.at \in AcceptPlaces /\ g.at \in AcceptPlaces /\ GoodFrame(f)' /\ GoodFrame(g)'
    BY <1>4, <1>6, <1>a, <2>2, <2>3, <2>4, PlaceNames, FramesAre DEF GoodFrame
  <2>6. MovesIn(AcceptPlaces) /\ FrameInv'
    BY <1>0, <1>4, <1>6, <1>a, <2>1, <2>3, <2>4, <2>5, GoodMoves
  <2>. QED
    BY <1>1, <1>2, <2>6
<1>7. CASE ~Register(t) /\ (Rearm(t) \/ (ReturnPlain(t) /\ In(t, "onConnect")))
  <2>1. (In(t, "rearm") \/ In(t, "onConnect")) /\ stack' \in Stacks /\ Popped(t)
    BY <1>0, <1>7, AcceptMoves, SessionMoves
  <2>2. MovesIn(AcceptPlaces) /\ FrameInv'
    BY <1>0, <1>4, <1>7, <1>a, <2>1, GoodMoves
  <2>. QED
    BY <1>1, <1>2, <2>2
<1>8. ASSUME ~Register(t), NEW s \in Sessions, TakeAccept(t, s)
      PROVE  MovesIn(AcceptPlaces) /\ FrameInv'
  <2>1. stack' \in Stacks /\ Pushed(t, FrameOf("register", s)) /\ s \notin registered
    BY <1>0, <1>8, AcceptMoves DEF TakeAccept
  <2>2. PICK f \in Frame : f = FrameOf("register", s)
    BY PlaceNames, FramesAre
  <2>3. f.at \in AcceptPlaces /\ GoodFrame(f)'
    BY <1>4, <1>8, <1>a, <2>1, <2>2, PlaceNames, FramesAre DEF GoodFrame
  <2>. QED
    BY <1>0, <1>4, <1>8, <2>1, <2>2, <2>3, GoodMoves
<1>9. \/ Register(t)
      \/ ~Register(t) /\ (Hook(t) \/ Start(t))
      \/ ~Register(t) /\ Connect(t)
      \/ ~Register(t) /\ (Rearm(t) \/ (ReturnPlain(t) /\ In(t, "onConnect")))
      \/ ~Register(t) /\ \E s \in Sessions : TakeAccept(t, s)
  BY DEF AcceptSteps
<1>. QED
  BY <1>1, <1>2, <1>3, <1>5, <1>6, <1>7, <1>8, <1>9
-----------------------------------------------------------------------------
(* AcceptInv, through a move that is not the accept handler's.             *)
LEMMA AcceptOthers ==
  ASSUME stack \in Stacks, AcceptInv, NEW places, places \cap AcceptPlaces = {},
         MovesIn(places),
         \/ UNCHANGED <<accepting, acceptFailed>>
         \/ accepting = "waiting" /\ accepting' = "off" /\ acceptFailed' = TRUE
  PROVE  AcceptInv'
<1>1. CASE UNCHANGED <<accepting, acceptFailed>>
  <2>1. CASE stack' = stack
    BY <1>1, <2>1 DEF AcceptInv, AcceptChain, Accepting, AtIn
  <2>2. CASE stack' # stack
    <3>1. PICK t \in Threads, d \in {-1, 0, 1}, R \in SUBSET Frame, S \in SUBSET Frame :
            Shifts(t, d, R, S) /\ \A f \in R \cup S : f.at \in places
      BY <2>2 DEF MovesIn
    <3>2. stack' \in Stacks /\ \A f \in R \cup S : f.at \notin AcceptPlaces
      BY <3>1 DEF MovesIn
    <3>. QED
      BY <1>1, <3>1, <3>2, AcceptKept
  <2>. QED
    BY <2>1, <2>2
<1>2. CASE accepting = "waiting" /\ accepting' = "off" /\ acceptFailed' = TRUE
  <2>1. \A u \in Threads : ~Accepting(u)
    BY <1>2 DEF AcceptInv, AcceptChain
  <2>2. ASSUME NEW u \in Threads, NEW i \in DOMAIN stack'[u],
               stack'[u][i].at \in AcceptPlaces
        PROVE  FALSE
    <3>1. PICK d \in {-1, 0, 1} : Keeps(u, d, AcceptPlaces)
      BY Stay
    <3>2. i - d \in DOMAIN stack[u] /\ stack[u][i - d].at \in AcceptPlaces
      BY <2>2, <3>1 DEF Keeps
    <3>. QED
      BY <2>1, <3>2 DEF Accepting
  <2>3. \A u \in Threads : ~Accepting(u)'
    BY <2>2 DEF Accepting
  <2>. QED
    BY <1>2, <2>2, <2>3 DEF AcceptInv, AcceptChain, AtIn
<1>. QED
  BY <1>1, <1>2

LEMMA PlacesApart ==
  /\ Quiet \cap AcceptPlaces = {} /\ Shows \cap AcceptPlaces = {}
  /\ (Quiet \cup Guarded) \cap AcceptPlaces = {}
  /\ Quiet \cap Guarded = {} /\ AcceptPlaces \cap Guarded = {}
  /\ Shows \cap Guarded = {} /\ Shows \cap {"hook"} = {}
  /\ Quiet \cap Shows = {} /\ AcceptPlaces \cap Shows = {}
  /\ (Quiet \cup Guarded) \cap Shows = {} /\ Shows \cap Unstarted = {}
  /\ Unstarted \subseteq AcceptPlaces /\ {"hook"} \subseteq AcceptPlaces
BY DEF Quiet, Guarded, AcceptPlaces, Unstarted, Shows

LEMMA FrameAcceptNext ==
  ASSUME TypeOK, FrameInv, LinkInv, AcceptInv, [Next]_vars
  PROVE  FrameInv' /\ AcceptInv'
<1>0. stack \in Stacks
  BY DEF TypeOK, Stacks
<1>. USE DEF acceptVars, poolVars, linkVars
<1>1. CASE UNCHANGED vars
  BY <1>1 DEF vars, FrameInv, GoodFrame, AcceptInv, AcceptChain, Accepting, AtIn
<1>2. CASE Accepted
  <2>1. \A u \in Threads : ~Accepting(u)
    BY <1>2 DEF Accepted, AcceptInv, AcceptChain
  <2>. QED
    BY <1>2, <2>1 DEF Accepted, FrameInv, GoodFrame, AcceptInv, AcceptChain, Accepting, AtIn
<1>3. CASE QuietStep
  BY <1>0, <1>3, AcceptOthers, PlacesApart DEF QuietStep
<1>4. ASSUME NEW t \in Threads, AcceptSteps(t)
      PROVE  FrameInv' /\ AcceptInv'
  BY <1>4, AcceptMove
<1>5. ASSUME NEW t \in Threads, MessageSteps(t)
      PROVE  FrameInv' /\ AcceptInv'
  <2>1. UNCHANGED <<accepting, acceptFailed>>
    BY <1>5 DEF MessageSteps, ReturnShort, ReturnMessage, TakeMessage
  <2>. QED
    BY <1>0, <1>5, <2>1, MessageMove, AcceptOthers, PlacesApart
<1>6. ASSUME NEW t \in Threads, GuardedSteps(t)
      PROVE  FrameInv' /\ AcceptInv'
  <2>1. UNCHANGED <<accepting, acceptFailed>>
    BY <1>6 DEF GuardedSteps, CloseFind, CloseErase, CloseAllLock, Sweep, SweepErase,
                SweepAdvance
  <2>. QED
    BY <1>0, <1>6, <2>1, GuardedMove, AcceptOthers, PlacesApart
<1>. QED
  BY <1>1, <1>2, <1>3, <1>4, <1>5, <1>6, Outline
=============================================================================
