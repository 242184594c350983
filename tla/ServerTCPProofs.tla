---------------------------- MODULE ServerTCPProofs ----------------------------
(***************************************************************************)
(* Proofs about ServerTCP, for any number of threads and sessions and for  *)
(* callbacks that call the server in any way.                              *)
(***************************************************************************)
EXTENDS ServerTCPMoves
-----------------------------------------------------------------------------
(* A frame that sets callbacks is the one the accept handler is in.        *)
LEMMA HookOnly ==
  ASSUME stack \in Stacks, AcceptInv, NEW t \in Threads, AcceptSteps(t),
         NEW r, OnStack(r, {"hook"})
  PROVE  In(t, "hook") /\ Its(t) = r
<1>0. PICK u \in Threads :
        \E i \in DOMAIN stack[u] : stack[u][i].s = r /\ stack[u][i].at = "hook"
  BY DEF OnStack
<1>1. PICK i \in DOMAIN stack[u] : stack[u][i].s = r /\ stack[u][i].at = "hook"
  BY <1>0
<1>2. Accepting(u) /\ accepting = "off" /\ AtIn(u, i, AcceptPlaces)
      /\ i = Len(stack[u])
  <2>1. Accepting(u) /\ AtIn(u, i, AcceptPlaces) /\ ~AtIn(u, i, {"onConnect"})
    BY <1>1 DEF Accepting, AtIn, AcceptPlaces
  <2>. QED
    BY <1>1, <2>1 DEF AcceptInv, AcceptChain
<1>3. \A s \in Sessions : ~TakeAccept(t, s)
  BY <1>2 DEF TakeAccept
<1>4. PICK p \in AcceptPlaces : In(t, p)
  BY <1>3
  DEF AcceptSteps, Register, Hook, Connect, Start, Rearm, AcceptPlaces
<1>5. /\ 1 \in DOMAIN stack[t] /\ stack[t][1].at = p /\ Its(t) = stack[t][1].s
  BY <1>4, Inside
<1>6. u = t /\ AtIn(t, 1, AcceptPlaces)
  BY <1>2, <1>5 DEF AcceptInv, AcceptChain, Accepting, AtIn
<1>7. CASE p = "onConnect"
  <2>1. AtIn(t, 1, {"onConnect"})
    BY <1>5, <1>7 DEF AtIn
  <2>2. /\ 1 + 1 = Len(stack[t])
        /\ stack[t][1 + 1] = [at |-> "start", s |-> stack[t][1].s]
    BY <1>5, <1>6, <2>1 DEF AcceptInv
  <2>3. i = 1 + 1 /\ stack[t][i].at = "hook"
    BY <1>1, <1>2, <1>6, <2>2
  <2>. QED
    BY <2>2, <2>3
<1>8. CASE p # "onConnect"
  <2>1. 1 = Len(stack[t])
    BY <1>5, <1>6, <1>8 DEF AcceptInv, AtIn
  <2>2. i = 1 /\ p = "hook" /\ Its(t) = r
    BY <1>1, <1>2, <1>5, <1>6, <2>1
  <2>. QED
    BY <1>4, <2>2
<1>. QED
  BY <1>7, <1>8

LEMMA LinkNext ==
  ASSUME TypeOK, FrameInv, LinkInv, AcceptInv, ConnectInv, [Next]_vars
  PROVE  LinkInv'
<1>0. stack \in Stacks /\ pool \subseteq registered /\ registered \subseteq Sessions
      /\ connected \subseteq Sessions
  BY DEF TypeOK, Stacks
<1>. USE DEF acceptVars, poolVars, linkVars
<1>1. CASE UNCHANGED vars \/ Accepted
  BY <1>1 DEF vars, Accepted, LinkInv, OnStack
<1>2. CASE QuietStep
  <2>1. \A s \in Sessions : OnStack(s, {"hook"}) => OnStack(s, {"hook"})'
    <3>1. Quiet \cap {"hook"} = {}
      BY DEF Quiet
    <3>. QED
      BY <1>0, <1>2, <3>1, StayOn DEF QuietStep
  <2>2. ASSUME NEW s \in Sessions
        PROVE  /\ reading'[s] # "off" => s \in connected'
               /\ writing'[s] # "off" \/ disconnects'[s] > 0 => s \in registered'
               /\ s \in registered' => s \in hooked' \/ OnStack(s, {"hook"})'
    BY <1>2, <2>1 DEF QuietStep, LinkInv
  <2>. QED
    BY <2>2 DEF LinkInv
<1>3. ASSUME NEW t \in Threads, AcceptSteps(t)
      PROVE  LinkInv'
  <2>1. CASE Register(t)
    <3>1. /\ stack' \in Stacks /\ Swapped(t, FrameOf("hook", Its(t)))
          /\ In(t, "register") /\ Its(t) \in Sessions
      BY <1>0, <2>1, AcceptMoves, GoodInside
    <3>2. \A r : ~OnStack(r, {"hook"})
      <4>1. ~In(t, "hook")
        BY <3>1 DEF In
      <4>. QED
        BY <1>0, <1>3, <4>1, HookOnly
    <3>3. PICK s \in Sessions : s = Its(t)
      BY <3>1
    <3>4. OnStack(s, {"hook"})'
      <4>1. stack'[t][1] = FrameOf("hook", s) /\ Len(stack'[t]) = Len(stack[t])
        BY <3>1, <3>3 DEF Swapped, IsSwap
      <4>2. 1 \in DOMAIN stack[t]
        BY <1>0, <3>1, Inside
      <4>3. 1 \in DOMAIN stack'[t]
        BY <1>0, <3>1, <4>1, <4>2, Depths
      <4>. QED
        BY <4>1, <4>3, PlaceNames, FramesAre DEF OnStack
    <3>5. ASSUME NEW r \in Sessions
          PROVE  /\ reading'[r] # "off" => r \in connected'
                 /\ writing'[r] # "off" \/ disconnects'[r] > 0 => r \in registered'
                 /\ r \in registered' => r \in hooked' \/ OnStack(r, {"hook"})'
      <4>1. CASE r = s
        BY <2>1, <3>4, <4>1, <3>3 DEF Register, LinkInv
      <4>2. CASE r # s
        BY <2>1, <3>2, <3>3, <4>2 DEF Register, LinkInv
      <4>. QED
        BY <4>1, <4>2
    <3>. QED
      BY <3>5 DEF LinkInv
  <2>2. CASE ~Register(t)
    <3>1. /\ registered' = registered /\ UNCHANGED <<writing, disconnects>>
          /\ connected \subseteq connected'
      BY <1>3, <2>2
      DEF AcceptSteps, Hook, Connect, Start, Rearm, ReturnPlain, TakeAccept
    <3>2. ASSUME NEW r \in Sessions, r \in registered  PROVE r \in hooked'
      <4>1. CASE r \in hooked
        BY <1>3, <2>2, <4>1
        DEF AcceptSteps, Hook, Connect, Start, Rearm, ReturnPlain, TakeAccept
      <4>2. CASE r \notin hooked
        <5>1. In(t, "hook") /\ Its(t) = r
          BY <1>0, <1>3, <3>2, <4>2, HookOnly DEF LinkInv
        <5>2. Hook(t)
          <6>1. Head(stack[t]).at = "hook" /\ stack[t] # <<>>
            BY <5>1 DEF In
          <6>. QED
            BY <1>3, <2>2, <6>1
            DEF AcceptSteps, Connect, Start, Rearm, TakeAccept, In
        <5>. QED
          BY <5>1, <5>2 DEF Hook
      <4>. QED
        BY <4>1, <4>2
    <3>3. ASSUME NEW r \in Sessions, reading'[r] # "off"  PROVE r \in connected'
      <4>1. CASE reading' = reading
        BY <3>1, <3>3, <4>1 DEF LinkInv
      <4>2. CASE Start(t)
        <5>1. In(t, "start") /\ reading' = [reading EXCEPT ![Its(t)] = "armed"]
          BY <4>2 DEF Start
        <5>2. 1 \in DOMAIN stack[t] /\ AtIn(t, 1, {"onConnect", "start"})
              /\ stack[t][1].s = Its(t)
          BY <1>0, <5>1, Inside DEF AtIn
        <5>3. Its(t) \in connected
          BY <5>2 DEF ConnectInv
        <5>4. CASE r = Its(t)
          BY <3>1, <5>3, <5>4
        <5>5. CASE r # Its(t)
          BY <3>1, <3>3, <5>1, <5>5 DEF LinkInv, TypeOK
        <5>. QED
          BY <5>4, <5>5
      <4>3. Start(t) \/ reading' = reading
        BY <1>3, <2>2
        DEF AcceptSteps, Hook, Connect, NotStarted, Rearm, ReturnPlain, TakeAccept
      <4>. QED
        BY <4>1, <4>2, <4>3
    <3>. QED
      BY <3>1, <3>2, <3>3 DEF LinkInv
  <2>. QED
    BY <2>1, <2>2
<1>4. ASSUME NEW t \in Threads, MessageSteps(t)
      PROVE  LinkInv'
  <2>1. \A s \in Sessions : OnStack(s, {"hook"}) => OnStack(s, {"hook"})'
    BY <1>0, <1>4, PlacesApart, MessageMove, StayOn
  <2>2. UNCHANGED <<registered, hooked, connected, writing, disconnects>>
    BY <1>4 DEF MessageSteps, TakeMessage, ReturnShort, ReturnMessage
  <2>3. ASSUME NEW r \in Sessions, reading'[r] # "off"  PROVE r \in connected
    <3>1. CASE reading[r] # "off"
      BY <3>1 DEF LinkInv
    <3>2. CASE reading[r] = "off"
      <4>1. /\ ~ReturnShort(t)
            /\ \A s \in Sessions, show \in Shows : ~TakeMessage(t, s, show)
        BY <2>3, <3>2 DEF TakeMessage, ReturnShort, TypeOK
      <4>2. ReturnMessage(t)
        BY <1>4, <4>1 DEF MessageSteps
      <4>3. 1 \in DOMAIN stack[t] /\ AtIn(t, 1, Shows) /\ stack[t][1].s = Its(t)
        BY <1>0, <4>2, Inside DEF AtIn, ReturnMessage, Shows
      <4>4. reading[Its(t)] = "busy"
        BY <4>3 DEF ConnectInv
      <4>. QED
        BY <2>3, <3>2, <4>2, <4>4 DEF ReturnMessage, TypeOK
    <3>. QED
      BY <3>1, <3>2
  <2>4. ASSUME NEW s \in Sessions
        PROVE  /\ reading'[s] # "off" => s \in connected'
               /\ writing'[s] # "off" \/ disconnects'[s] > 0 => s \in registered'
               /\ s \in registered' => s \in hooked' \/ OnStack(s, {"hook"})'
    BY <2>1, <2>2, <2>3 DEF LinkInv
  <2>. QED
    BY <2>4 DEF LinkInv
<1>5. ASSUME NEW t \in Threads, GuardedSteps(t)
      PROVE  LinkInv'
  <2>1. \A s \in Sessions : OnStack(s, {"hook"}) => OnStack(s, {"hook"})'
    <3>1. (Quiet \cup Guarded) \cap {"hook"} = {}
      BY DEF Quiet, Guarded
    <3>. QED
      BY <1>0, <1>5, <3>1, GuardedMove, StayOn
  <2>2. UNCHANGED <<registered, hooked, connected, writing, reading>>
    BY <1>5 DEF GuardedSteps, CloseFind, CloseErase, CloseAllLock, Sweep, SweepErase,
                SweepAdvance
  <2>3. ASSUME NEW s \in Sessions, disconnects'[s] > 0  PROVE s \in registered
    <3>1. CASE \/ CloseFind(t) /\ Its(t) \in pool
               \/ Sweep(t)
      <4>1. Its(t) \in registered
        BY <1>0, <3>1, GoodInside DEF Sweep
      <4>2. disconnects' = [disconnects EXCEPT ![Its(t)] = @ + 1]
        BY <3>1 DEF CloseFind, Sweep, Disconnect
      <4>. QED
        BY <2>3, <4>1, <4>2 DEF LinkInv, TypeOK
    <3>2. CASE disconnects' = disconnects
      BY <2>3, <3>2 DEF LinkInv
    <3>. QED
      BY <1>5, <3>1, <3>2
      DEF GuardedSteps, CloseErase, CloseAllLock, SweepErase, SweepAdvance
  <2>4. ASSUME NEW s \in Sessions
        PROVE  /\ reading'[s] # "off" => s \in connected'
               /\ writing'[s] # "off" \/ disconnects'[s] > 0 => s \in registered'
               /\ s \in registered' => s \in hooked' \/ OnStack(s, {"hook"})'
    BY <2>1, <2>2, <2>3 DEF LinkInv
  <2>. QED
    BY <2>4 DEF LinkInv
<1>. QED
  BY <1>1, <1>2, <1>3, <1>4, <1>5, Outline
-----------------------------------------------------------------------------
(* Frames that a move leaves alone stay good when it leaves their sessions *)
(* alone as well.                                                          *)
LEMMA KeptReading ==
  ASSUME TypeOK, ConnectInv, NEW places, NEW kept, places \cap kept = {},
         MovesIn(places), connected \subseteq connected',
         \A u \in Threads : \A i \in DOMAIN stack[u] :
           stack[u][i].at \in kept => reading'[stack[u][i].s] = reading[stack[u][i].s]
  PROVE  /\ \A u \in Threads : \A i \in DOMAIN stack'[u] :
              stack'[u][i].at \in kept =>
                /\ AtIn(u, i, Unstarted)' => reading'[stack'[u][i].s] = "off"
                /\ AtIn(u, i, {"onConnect", "start"})' => stack'[u][i].s \in connected'
                /\ AtIn(u, i, Shows)' =>
                     i = Len(stack'[u]) /\ reading'[stack'[u][i].s] = "busy"
         /\ Shows \subseteq kept =>
              \A u, v \in Threads : \A i \in DOMAIN stack'[u], j \in DOMAIN stack'[v] :
                /\ AtIn(u, i, Shows)' /\ AtIn(v, j, Shows)'
                /\ stack'[v][j].s = stack'[u][i].s
                => v = u
<1>0. stack \in Stacks /\ stack' \in Stacks
  BY DEF TypeOK, Stacks, MovesIn
<1>2. ASSUME NEW u \in Threads, NEW i \in DOMAIN stack'[u], stack'[u][i].at \in kept
      PROVE  \E j \in DOMAIN stack[u] :
               /\ stack'[u][i] = stack[u][j]
               /\ j = Len(stack[u]) => i = Len(stack'[u])
  <2>0. PICK d \in {-1, 0, 1} : Keeps(u, d, kept)
    BY <1>0, Stay
  <2>1. i - d \in DOMAIN stack[u] /\ stack'[u][i] = stack[u][i - d]
        /\ Len(stack'[u]) = Len(stack[u]) + d
    BY <1>2, <2>0 DEF Keeps
  <2>2. i - d = Len(stack[u]) => i = Len(stack'[u])
    <3>1. i \in Int /\ Len(stack[u]) \in Nat /\ Len(stack'[u]) \in Nat
      BY <1>0, Depths
    <3>. QED
      BY <2>1, <3>1
  <2>. QED
    BY <2>1, <2>2
<1>4. ASSUME NEW u \in Threads, NEW i \in DOMAIN stack'[u], stack'[u][i].at \in kept
      PROVE  /\ AtIn(u, i, Unstarted)' => reading'[stack'[u][i].s] = "off"
             /\ AtIn(u, i, {"onConnect", "start"})' => stack'[u][i].s \in connected'
             /\ AtIn(u, i, Shows)' =>
                  i = Len(stack'[u]) /\ reading'[stack'[u][i].s] = "busy"
  <2>1. PICK j \in DOMAIN stack[u] :
          /\ stack'[u][i] = stack[u][j]
          /\ j = Len(stack[u]) => i = Len(stack'[u])
    BY <1>2, <1>4
  <2>2. reading'[stack[u][j].s] = reading[stack[u][j].s]
    BY <1>4, <2>1
  <2>3. /\ AtIn(u, j, Unstarted) => reading[stack[u][j].s] = "off"
        /\ AtIn(u, j, {"onConnect", "start"}) => stack[u][j].s \in connected
        /\ AtIn(u, j, Shows) =>
             j = Len(stack[u]) /\ reading[stack[u][j].s] = "busy"
    BY DEF ConnectInv
  <2>. QED
    BY <2>1, <2>2, <2>3 DEF AtIn
<1>5. ASSUME Shows \subseteq kept,
             NEW u \in Threads, NEW i \in DOMAIN stack'[u],
             NEW v \in Threads, NEW j \in DOMAIN stack'[v],
             AtIn(u, i, Shows)', AtIn(v, j, Shows)',
             stack'[v][j].s = stack'[u][i].s
      PROVE  v = u
  <2>1. stack'[u][i].at \in kept /\ stack'[v][j].at \in kept
    BY <1>5 DEF AtIn
  <2>2. PICK k \in DOMAIN stack[u] : stack'[u][i] = stack[u][k]
    BY <1>2, <2>1
  <2>3. PICK l \in DOMAIN stack[v] : stack'[v][j] = stack[v][l]
    BY <1>2, <2>1
  <2>. QED
    BY <1>5, <2>2, <2>3 DEF ConnectInv, AtIn
<1>. QED
  BY <1>4, <1>5

LEMMA ConnectOthers ==
  ASSUME TypeOK, FrameInv, ConnectInv, NEW places, places \cap AcceptPlaces = {},
         places \cap Shows = {}, MovesIn(places), connected' = connected,
         \A s \in Sessions : reading'[s] = reading[s] \/ reading[s] = "armed"
  PROVE  ConnectInv'
<1>. DEFINE Kept == AcceptPlaces \cup Shows
<1>k. /\ Unstarted \subseteq Kept /\ {"onConnect", "start"} \subseteq Kept
      /\ Shows \subseteq Kept \ {"rearm"} /\ places \cap Kept = {}
  BY DEF Unstarted, AcceptPlaces, Shows
<1>1. ASSUME NEW u \in Threads, NEW i \in DOMAIN stack[u], stack[u][i].at \in Kept,
             stack[u][i].s \in Sessions, reading[stack[u][i].s] = "armed"
      PROVE  stack[u][i].at = "rearm"
  BY <1>1 DEF ConnectInv, AtIn, Unstarted, AcceptPlaces, Shows
<1>. DEFINE K == Kept \ {"rearm"}
<1>2. ASSUME NEW u \in Threads, NEW i \in DOMAIN stack[u], stack[u][i].at \in K
      PROVE  reading'[stack[u][i].s] = reading[stack[u][i].s]
  <2>1. stack[u][i].s \in Sessions
    BY <1>2 DEF FrameInv, GoodFrame, AcceptPlaces, Shows
  <2>. QED
    BY <1>1, <1>2, <2>1
<1>3. /\ places \cap K = {} /\ Shows \subseteq K /\ Unstarted \subseteq K
      /\ {"onConnect", "start"} \subseteq K
  BY <1>k DEF Unstarted
<1>. HIDE DEF K, Kept
<1>4. /\ \A u \in Threads : \A i \in DOMAIN stack'[u] :
           stack'[u][i].at \in K =>
             /\ AtIn(u, i, Unstarted)' => reading'[stack'[u][i].s] = "off"
             /\ AtIn(u, i, {"onConnect", "start"})' => stack'[u][i].s \in connected'
             /\ AtIn(u, i, Shows)' =>
                  i = Len(stack'[u]) /\ reading'[stack'[u][i].s] = "busy"
      /\ \A u, v \in Threads : \A i \in DOMAIN stack'[u], j \in DOMAIN stack'[v] :
           /\ AtIn(u, i, Shows)' /\ AtIn(v, j, Shows)'
           /\ stack'[v][j].s = stack'[u][i].s
           => v = u
  BY <1>2, <1>3, KeptReading
<1>. QED
  BY <1>3, <1>4 DEF ConnectInv, AtIn
-----------------------------------------------------------------------------
LEMMA ConnectMessage ==
  ASSUME TypeOK, FrameInv, LinkInv, ConnectInv, NEW t \in Threads, MessageSteps(t)
  PROVE  ConnectInv'
<1>0. stack \in Stacks /\ stack' \in Stacks /\ MovesIn(Shows)
  BY MessageMove DEF TypeOK, Stacks, MovesIn
<1>d. \A u \in Threads :
        DOMAIN stack[u] = 1 .. Len(stack[u]) /\ DOMAIN stack'[u] = 1 .. Len(stack'[u])
  BY <1>0, Depths
<1>. USE DEF linkVars
<1>1. PICK s \in Sessions :
        \/ \E show \in Shows : TakeMessage(t, s, show)
        \/ (ReturnShort(t) \/ ReturnMessage(t)) /\ Its(t) = s
  <2>1. ReturnShort(t) \/ ReturnMessage(t) => Its(t) \in Sessions
    BY <1>0, GoodInside DEF ReturnShort, ReturnMessage
  <2>. QED
    BY <2>1 DEF MessageSteps
<1>r. ReturnShort(t) \/ ReturnMessage(t) =>
        /\ 1 \in DOMAIN stack[t] /\ AtIn(t, 1, Shows) /\ stack[t][1].s = Its(t)
        /\ reading[Its(t)] = "busy" /\ Len(stack[t]) = 1
  <2>1. ReturnShort(t) \/ ReturnMessage(t) =>
          1 \in DOMAIN stack[t] /\ AtIn(t, 1, Shows) /\ stack[t][1].s = Its(t)
    BY <1>0, Inside DEF ReturnShort, ReturnMessage, AtIn, Shows
  <2>. QED
    BY <2>1 DEF ConnectInv
<1>2. /\ connected' = connected /\ \A r \in Sessions : r # s => reading'[r] = reading[r]
      /\ reading[s] # "off"
  <2>1. CASE \E show \in Shows : TakeMessage(t, s, show)
    BY <2>1 DEF TakeMessage, TypeOK
  <2>2. CASE (ReturnShort(t) \/ ReturnMessage(t)) /\ Its(t) = s
    BY <1>r, <2>2 DEF ReturnShort, ReturnMessage, TypeOK
  <2>. QED
    BY <1>1, <2>1, <2>2
(* the frames of the accept handler                                         *)
<1>3. ASSUME NEW u \in Threads, NEW i \in DOMAIN stack'[u], stack'[u][i].at \in Unstarted
      PROVE  /\ AtIn(u, i, Unstarted)' => reading'[stack'[u][i].s] = "off"
             /\ AtIn(u, i, {"onConnect", "start"})' => stack'[u][i].s \in connected'
  <2>1. ASSUME NEW v \in Threads, NEW j \in DOMAIN stack[v], stack[v][j].at \in Unstarted
        PROVE  reading'[stack[v][j].s] = reading[stack[v][j].s]
    <3>1. reading[stack[v][j].s] = "off"
      BY <2>1 DEF ConnectInv, AtIn
    <3>2. stack[v][j].s \in Sessions
      BY <2>1 DEF FrameInv, GoodFrame, Unstarted
    <3>. QED
      BY <1>2, <3>1, <3>2
  <2>2. Shows \cap Unstarted = {}
    BY PlacesApart
  <2>3. connected \subseteq connected'
    BY <1>2
  <2>4. \A v \in Threads : \A j \in DOMAIN stack'[v] :
          stack'[v][j].at \in Unstarted =>
            /\ AtIn(v, j, Unstarted)' => reading'[stack'[v][j].s] = "off"
            /\ AtIn(v, j, {"onConnect", "start"})' => stack'[v][j].s \in connected'
            /\ AtIn(v, j, Shows)' =>
                 j = Len(stack'[v]) /\ reading'[stack'[v][j].s] = "busy"
    BY <1>0, <2>1, <2>2, <2>3, KeptReading
  <2>. QED
    BY <1>3, <2>4
(* the frames in which a message is shown                                   *)
<1>4. ASSUME NEW u \in Threads, NEW i \in DOMAIN stack'[u], stack'[u][i].at \in Shows
      PROVE  \/ /\ u = t /\ i = 1 /\ Len(stack'[u]) = 1 /\ stack'[u][i].s = s
                /\ reading'[s] = "busy"
             \/ u # t /\ stack'[u] = stack[u]
  <2>1. CASE \E show \in Shows : TakeMessage(t, s, show)
    <3>0. PICK show \in Shows : TakeMessage(t, s, show)
      BY <2>1
    <3>1. stack[t] = <<>> /\ Pushed(t, FrameOf(show, s)) /\ reading'[s] = "busy"
      BY <1>0, <3>0, SessionMoves DEF TakeMessage, TypeOK
    <3>2. Len(stack[t]) = 0
      BY <3>1
    <3>3. Len(stack'[t]) = 1 /\ OthersStay(t) /\ stack'[t][1] = FrameOf(show, s)
      BY <3>1, <3>2 DEF Pushed, IsPush
    <3>4. u = t => i = 1
      BY <1>d, <3>3
    <3>. QED
      BY <3>1, <3>3, <3>4, PlaceNames, FramesAre DEF OthersStay
  <2>2. CASE ReturnShort(t) /\ Its(t) = s
    <3>1. Swapped(t, FrameOf("onMessage", s)) /\ reading' = reading
      BY <1>0, <2>2, SessionMoves DEF ReturnShort
    <3>2. Len(stack'[t]) = 1 /\ OthersStay(t) /\ stack'[t][1] = FrameOf("onMessage", s)
      BY <1>r, <2>2, <3>1 DEF Swapped, IsSwap
    <3>3. u = t => i = 1
      BY <1>d, <3>2
    <3>. QED
      BY <1>r, <2>2, <3>1, <3>2, <3>3, PlaceNames, FramesAre DEF OthersStay
  <2>3. CASE ReturnMessage(t)
    <3>1. Popped(t)
      BY <1>0, <2>3, SessionMoves
    <3>2. Len(stack'[t]) = 0 /\ OthersStay(t)
      BY <1>r, <2>3, <3>1 DEF Popped, IsPop
    <3>3. u # t
      BY <1>d, <3>2
    <3>. QED
      BY <3>2, <3>3 DEF OthersStay
  <2>. QED
    BY <1>1, <2>1, <2>2, <2>3
<1>5. ASSUME NEW u \in Threads, u # t, NEW i \in DOMAIN stack[u],
             stack[u][i].at \in Shows
      PROVE  stack[u][i].s \in Sessions /\ stack[u][i].s # s
  <2>1. stack[u][i].s \in Sessions /\ reading[stack[u][i].s] = "busy"
    BY <1>5 DEF FrameInv, GoodFrame, ConnectInv, AtIn, Shows
  <2>2. CASE \E show \in Shows : TakeMessage(t, s, show)
    BY <2>1, <2>2 DEF TakeMessage
  <2>3. CASE (ReturnShort(t) \/ ReturnMessage(t)) /\ Its(t) = s
    BY <1>5, <1>r, <2>1, <2>3 DEF ConnectInv, AtIn
  <2>. QED
    BY <1>1, <2>1, <2>2, <2>3
<1>6. ASSUME NEW u \in Threads, NEW i \in DOMAIN stack'[u], stack'[u][i].at \in Shows
      PROVE  i = Len(stack'[u]) /\ reading'[stack'[u][i].s] = "busy"
  <2>1. CASE u # t /\ stack'[u] = stack[u]
    <3>1. i \in DOMAIN stack[u] /\ AtIn(u, i, Shows)
      BY <1>6, <2>1 DEF AtIn
    <3>2. stack[u][i].s \in Sessions /\ stack[u][i].s # s
      BY <1>5, <2>1, <3>1 DEF AtIn
    <3>. QED
      BY <1>2, <2>1, <3>1, <3>2 DEF ConnectInv
  <2>. QED
    BY <1>4, <1>6, <2>1
<1>7. ASSUME NEW u \in Threads, NEW i \in DOMAIN stack'[u], stack'[u][i].at \in Shows,
             NEW v \in Threads, NEW j \in DOMAIN stack'[v], stack'[v][j].at \in Shows,
             stack'[v][j].s = stack'[u][i].s
      PROVE  v = u
  <2>1. CASE u = t \/ v = t
    <3>1. stack'[u][i].s = s
      BY <1>4, <1>7, <2>1
    <3>2. u = t
      BY <1>4, <1>5, <1>7, <3>1
    <3>3. v = t
      BY <1>4, <1>5, <1>7, <3>1
    <3>. QED
      BY <3>2, <3>3
  <2>2. CASE u # t /\ v # t
    <3>1. stack'[u] = stack[u] /\ stack'[v] = stack[v]
      BY <1>4, <1>7, <2>2
    <3>. QED
      BY <1>7, <3>1 DEF ConnectInv, AtIn
  <2>. QED
    BY <2>1, <2>2
<1>. QED
  BY <1>3, <1>6, <1>7 DEF ConnectInv, AtIn, Unstarted
-----------------------------------------------------------------------------
LEMMA ConnectAccept ==
  ASSUME TypeOK, FrameInv, LinkInv, AcceptInv, ConnectInv,
         NEW t \in Threads, AcceptSteps(t)
  PROVE  ConnectInv'
<1>0. stack \in Stacks /\ stack' \in Stacks /\ MovesIn(AcceptPlaces) /\ AcceptInv'
  BY AcceptMove DEF TypeOK, Stacks, MovesIn
<1>. USE DEF acceptVars, poolVars, linkVars
<1>1. connected \subseteq connected'
  BY DEF AcceptSteps, Register, Hook, Connect, Start, Rearm, ReturnPlain, TakeAccept
<1>2. Start(t) \/ reading' = reading
  BY DEF AcceptSteps, Register, Hook, Connect, NotStarted, Rearm, ReturnPlain, TakeAccept
(* the frames in which a message is shown                                   *)
<1>3. ASSUME NEW u \in Threads, NEW i \in DOMAIN stack[u], stack[u][i].at \in Shows
      PROVE  reading'[stack[u][i].s] = reading[stack[u][i].s]
  <2>1. stack[u][i].s \in Sessions /\ reading[stack[u][i].s] = "busy"
    BY <1>3 DEF FrameInv, GoodFrame, ConnectInv, AtIn, Shows
  <2>2. CASE Start(t)
    <3>1. 1 \in DOMAIN stack[t] /\ AtIn(t, 1, Unstarted) /\ stack[t][1].s = Its(t)
      BY <1>0, <2>2, Inside DEF Start, AtIn, Unstarted
    <3>2. reading[Its(t)] = "off"
      BY <3>1 DEF ConnectInv
    <3>. QED
      BY <2>1, <2>2, <3>2 DEF Start, TypeOK
  <2>. QED
    BY <1>2, <2>2
<1>4. /\ \A u \in Threads : \A i \in DOMAIN stack'[u] :
           AtIn(u, i, Shows)' =>
             i = Len(stack'[u]) /\ reading'[stack'[u][i].s] = "busy"
      /\ \A u, v \in Threads : \A i \in DOMAIN stack'[u], j \in DOMAIN stack'[v] :
           /\ AtIn(u, i, Shows)' /\ AtIn(v, j, Shows)'
           /\ stack'[v][j].s = stack'[u][i].s
           => v = u
  <2>1. /\ \A u \in Threads : \A i \in DOMAIN stack'[u] :
             stack'[u][i].at \in Shows =>
               /\ AtIn(u, i, Unstarted)' => reading'[stack'[u][i].s] = "off"
               /\ AtIn(u, i, {"onConnect", "start"})' => stack'[u][i].s \in connected'
               /\ AtIn(u, i, Shows)' =>
                    i = Len(stack'[u]) /\ reading'[stack'[u][i].s] = "busy"
        /\ \A u, v \in Threads : \A i \in DOMAIN stack'[u], j \in DOMAIN stack'[v] :
             /\ AtIn(u, i, Shows)' /\ AtIn(v, j, Shows)'
             /\ stack'[v][j].s = stack'[u][i].s
             => v = u
    BY <1>0, <1>1, <1>3, PlacesApart, KeptReading
  <2>. QED
    BY <2>1 DEF AtIn
(* the frames of the accept handler                                         *)
<1>5. ASSUME NEW u \in Threads, NEW i \in DOMAIN stack'[u], AtIn(u, i, Unstarted)'
      PROVE  /\ reading'[stack'[u][i].s] = "off"
             /\ AtIn(u, i, {"onConnect", "start"})' => stack'[u][i].s \in connected'
  <2>1. CASE Start(t)
    <3>1. /\ In(t, "start") /\ Swapped(t, FrameOf("rearm", Its(t)))
      BY <1>0, <2>1, AcceptMoves
    <3>2. /\ stack'[t][1].at = "rearm" /\ 1 \in DOMAIN stack[t] /\ 1 \in DOMAIN stack'[t]
      <4>1. /\ 1 \in DOMAIN stack[t] /\ Its(t) \in Sessions \cup {NoSession}
        BY <1>0, <3>1, Inside
      <4>2. Len(stack'[t]) = Len(stack[t]) /\ stack'[t][1] = FrameOf("rearm", Its(t))
        BY <3>1 DEF Swapped, IsSwap
      <4>. QED
        BY <1>0, <4>1, <4>2, Depths, PlaceNames, FramesAre
    <3>3. AtIn(t, 1, AcceptPlaces)' /\ ~AtIn(t, 1, {"onConnect"})' /\ Accepting(t)'
      BY <3>2 DEF AtIn, AcceptPlaces, Accepting
    <3>4. AtIn(u, i, AcceptPlaces)' /\ Accepting(u)' /\ u = t
      BY <1>0, <1>5, <3>3, PlacesApart DEF AtIn, Accepting, AcceptInv, AcceptChain
    <3>5. 1 = Len(stack'[t])
      BY <1>0, <3>2, <3>3 DEF AcceptInv
    <3>6. i = 1
      BY <1>0, <3>4, <3>5, Depths
    <3>. QED
      BY <1>5, <3>2, <3>4, <3>6 DEF AtIn, Unstarted
  <2>2. CASE ~Start(t)
    <3>0. reading' = reading
      BY <1>2, <2>2
    <3>1. ASSUME NEW v \in Threads, NEW j \in DOMAIN stack[v], stack'[u][i] = stack[v][j]
          PROVE  /\ reading'[stack'[u][i].s] = "off"
                 /\ AtIn(u, i, {"onConnect", "start"})' => stack'[u][i].s \in connected'
      BY <1>1, <1>5, <3>0, <3>1 DEF ConnectInv, AtIn
    <3>2. CASE Register(t) \/ Hook(t)
      <4>1. PICK place \in {"hook", "connect"} :
              /\ In(t, "register") \/ In(t, "hook")
              /\ Swapped(t, FrameOf(place, Its(t)))
        BY <1>0, <3>2, AcceptMoves
      <4>2. PICK f \in Frame : f = FrameOf(place, Its(t))
        <5>1. Its(t) \in Sessions \cup {NoSession}
          BY <1>0, <4>1, Inside
        <5>. QED
          BY <5>1, PlaceNames, FramesAre
      <4>3. 1 \in DOMAIN stack[t] /\ AtIn(t, 1, Unstarted) /\ stack[t][1].s = Its(t)
        BY <1>0, <4>1, Inside DEF AtIn, Unstarted
      <4>4. reading[f.s] = "off" /\ f.at \notin {"onConnect", "start"}
        BY <4>2, <4>3, PlaceNames, FramesAre DEF ConnectInv, FrameOf
      <4>5. Shifts(t, 0, {stack[t][1]}, {f})
        BY <1>0, <4>1, <4>2, MovesShift
      <4>6. stack'[u][i] = f \/ \E v \in Threads : \E j \in DOMAIN stack[v] : stack'[u][i] = stack[v][j]
        <5>1. Brings(t, {f})
          BY <4>5, MovesBring
        <5>. QED
          BY <5>1 DEF Brings
      <4>. QED
        BY <3>0, <3>1, <4>4, <4>6 DEF AtIn
    <3>3. CASE Connect(t)
      <4>1. /\ In(t, "connect")
            /\ Called(t, FrameOf("onConnect", Its(t)), FrameOf("start", Its(t)))
        BY <1>0, <3>3, AcceptMoves
      <4>0. Its(t) \in Sessions \cup {NoSession}
        BY <1>0, <4>1, Inside
      <4>2. PICK f \in Frame : f = FrameOf("onConnect", Its(t))
        BY <4>0, PlaceNames, FramesAre
      <4>7. PICK g \in Frame : g = FrameOf("start", Its(t))
        BY <4>0, PlaceNames, FramesAre
      <4>3. 1 \in DOMAIN stack[t] /\ AtIn(t, 1, Unstarted) /\ stack[t][1].s = Its(t)
        BY <1>0, <4>1, Inside DEF AtIn, Unstarted
      <4>4. /\ reading[f.s] = "off" /\ f.s \in connected'
            /\ reading[g.s] = "off" /\ g.s \in connected'
        BY <3>3, <4>2, <4>3, <4>7 DEF ConnectInv, FrameOf, Connect
      <4>5. Shifts(t, 1, {stack[t][1]}, {f, g})
        BY <1>0, <4>1, <4>2, <4>7, MovesShift
      <4>6. stack'[u][i] \in {f, g}
            \/ \E v \in Threads : \E j \in DOMAIN stack[v] : stack'[u][i] = stack[v][j]
        <5>1. Brings(t, {f, g})
          BY <4>5, MovesBring
        <5>. QED
          BY <5>1 DEF Brings
      <4>. QED
        BY <3>0, <3>1, <4>4, <4>6 DEF AtIn
    <3>4. CASE Rearm(t) \/ (ReturnPlain(t) /\ In(t, "onConnect"))
      <4>1. Popped(t)
        BY <1>0, <3>4, AcceptMoves, SessionMoves
      <4>2. Shifts(t, -1, {stack[t][1]}, {})
        BY <1>0, <4>1, MovesShift
      <4>3. \E v \in Threads : \E j \in DOMAIN stack[v] : stack'[u][i] = stack[v][j]
        <5>1. Brings(t, {})
          BY <4>2, MovesBring
        <5>. QED
          BY <5>1 DEF Brings
      <4>. QED
        BY <3>1, <4>3
    <3>5. ASSUME NEW s \in Sessions, TakeAccept(t, s)
          PROVE  /\ reading'[stack'[u][i].s] = "off"
                 /\ AtIn(u, i, {"onConnect", "start"})' => stack'[u][i].s \in connected'
      <4>1. Pushed(t, FrameOf("register", s))
        BY <1>0, <3>5, AcceptMoves
      <4>2. PICK f \in Frame : f = FrameOf("register", s)
        BY PlaceNames, FramesAre
      <4>4. reading[f.s] = "off" /\ f.at \notin {"onConnect", "start"}
        <5>1. f.s = s /\ f.at = "register"
          BY <4>2, PlaceNames, FramesAre
        <5>2. s \notin registered
          BY <3>5 DEF TakeAccept
        <5>. QED
          BY <5>1, <5>2 DEF LinkInv, TypeOK
      <4>5. Shifts(t, 1, {}, {f})
        BY <1>0, <4>1, <4>2, MovesShift
      <4>6. stack'[u][i] = f \/ \E v \in Threads : \E j \in DOMAIN stack[v] : stack'[u][i] = stack[v][j]
        <5>1. Brings(t, {f})
          BY <4>5, MovesBring
        <5>. QED
          BY <5>1 DEF Brings
      <4>. QED
        BY <3>0, <3>1, <4>4, <4>6 DEF AtIn
    <3>. QED
      BY <2>2, <3>2, <3>3, <3>4, <3>5 DEF AcceptSteps
  <2>. QED
    BY <2>1, <2>2
<1>6. ASSUME NEW u \in Threads, NEW i \in DOMAIN stack'[u], AtIn(u, i, {"onConnect", "start"})'
      PROVE  AtIn(u, i, Unstarted)'
  BY <1>6 DEF AtIn, Unstarted
<1>. QED
  BY <1>4, <1>5, <1>6 DEF ConnectInv

LEMMA ConnectNext ==
  ASSUME TypeOK, FrameInv, LinkInv, AcceptInv, ConnectInv, [Next]_vars
  PROVE  ConnectInv'
<1>. USE DEF acceptVars, poolVars, linkVars
<1>1. CASE UNCHANGED vars \/ Accepted
  BY <1>1 DEF vars, Accepted, ConnectInv, AtIn
<1>2. CASE QuietStep
  BY <1>2, PlacesApart, ConnectOthers DEF QuietStep
<1>3. ASSUME NEW t \in Threads, AcceptSteps(t)
      PROVE  ConnectInv'
  BY <1>3, ConnectAccept
<1>4. ASSUME NEW t \in Threads, MessageSteps(t)
      PROVE  ConnectInv'
  BY <1>4, ConnectMessage
<1>5. ASSUME NEW t \in Threads, GuardedSteps(t)
      PROVE  ConnectInv'
  <2>1. UNCHANGED <<connected, reading>>
    BY <1>5 DEF GuardedSteps, CloseFind, CloseErase, CloseAllLock, Sweep, SweepErase,
                SweepAdvance
  <2>. QED
    BY <1>5, <2>1, GuardedMove, PlacesApart, ConnectOthers
<1>. QED
  BY <1>1, <1>2, <1>3, <1>4, <1>5, Outline
-----------------------------------------------------------------------------
(* Nobody, or one function f and nothing else, is in the part that the     *)
(* mutex guards.                                                           *)
Nobody == \A u \in Threads : \A j \in DOMAIN stack[u] : ~AtIn(u, j, Guarded)

Alone(t, i, f) ==
  /\ t \in Threads /\ i \in DOMAIN stack[t] /\ stack[t][i] = f /\ f.at \in Guarded
  /\ \A u \in Threads : \A j \in DOMAIN stack[u] : AtIn(u, j, Guarded) => u = t /\ j = i

LEMMA WhoGuards ==
  ASSUME stack \in Stacks, MutexInv, NEW t \in Threads
  PROVE  /\ Free => Nobody
         /\ \A place \in Guarded : In(t, place) =>
              /\ Alone(t, 1, stack[t][1]) /\ poolMtx = t
              /\ place # "advance" => Its(t) \in pool
<1>1. Free => Nobody
  BY ServerAssumption DEF Free, Nobody, MutexInv
<1>2. ASSUME NEW place \in Guarded, In(t, place)
      PROVE  /\ Alone(t, 1, stack[t][1]) /\ poolMtx = t
             /\ place # "advance" => Its(t) \in pool
  <2>1. 1 \in DOMAIN stack[t] /\ stack[t][1].at = place /\ stack[t][1].s = Its(t)
    BY <1>2, Inside
  <2>2. AtIn(t, 1, Guarded) /\ (place # "advance" => ~AtIn(t, 1, {"advance"}))
    BY <1>2, <2>1 DEF AtIn
  <2>. QED
    BY <1>2, <2>1, <2>2 DEF MutexInv, Alone
<1>. QED
  BY <1>1, <1>2

(* A move within the guarded part.                                         *)
LEMMA GuardedShift ==
  ASSUME stack \in Stacks, stack' \in Stacks, NEW t \in Threads,
         Nobody \/ Alone(t, 1, stack[t][1])
  PROVE  /\ Popped(t) /\ stack[t] # <<>> => Nobody'
         /\ \A f \in Frame : Swapped(t, f) /\ stack[t] # <<>> /\ f.at \in Guarded
              => Alone(t, 1, f)'
         /\ \A f, g \in Frame :
              /\ Called(t, f, g) /\ stack[t] # <<>>
              /\ f.at \notin Guarded /\ g.at \in Guarded
              => Alone(t, 2, g)'
<1>0. \A u \in Threads : /\ DOMAIN stack[u] = 1 .. Len(stack[u])
                          /\ DOMAIN stack'[u] = 1 .. Len(stack'[u])
                          /\ Len(stack[u]) \in Nat /\ Len(stack'[u]) \in Nat
  BY Depths
<1>1. ASSUME NEW u \in Threads, NEW j \in DOMAIN stack[u], u # t \/ j # 1
      PROVE  stack[u][j].at \notin Guarded
  BY <1>1 DEF Nobody, Alone, AtIn
<1>2. ASSUME OthersStay(t), NEW u \in Threads, u # t, NEW j \in DOMAIN stack'[u]
      PROVE  stack'[u][j].at \notin Guarded
  <2>1. stack'[u] = stack[u]
    BY <1>2 DEF OthersStay
  <2>2. j \in DOMAIN stack[u]
    BY <1>2, <2>1
  <2>. QED
    BY <1>1, <1>2, <2>1, <2>2
<1>3. ASSUME Popped(t), stack[t] # <<>>  PROVE Nobody'
  <2>1. ASSUME NEW j \in DOMAIN stack'[t]  PROVE stack'[t][j].at \notin Guarded
    <3>1. j \in 1 .. Len(stack'[t]) /\ Len(stack'[t]) = Len(stack[t]) - 1
      BY <1>0, <1>3 DEF Popped, IsPop
    <3>2. j + 1 \in DOMAIN stack[t] /\ j + 1 # 1
      BY <1>0, <3>1
    <3>3. stack'[t][j] = stack[t][j + 1]
      BY <1>3, <3>1 DEF Popped, IsPop
    <3>. QED
      BY <1>1, <3>2, <3>3
  <2>2. OthersStay(t)
    BY <1>3 DEF Popped
  <2>. QED
    BY <1>2, <2>1, <2>2 DEF Nobody, AtIn
<1>4. ASSUME NEW f \in Frame, Swapped(t, f), stack[t] # <<>>, f.at \in Guarded
      PROVE  Alone(t, 1, f)'
  <2>1. ASSUME NEW j \in DOMAIN stack'[t], j # 1  PROVE stack'[t][j].at \notin Guarded
    <3>1. j \in DOMAIN stack[t] /\ stack'[t][j] = stack[t][j]
      BY <1>0, <1>4, <2>1 DEF Swapped, IsSwap
    <3>. QED
      BY <1>1, <2>1, <3>1
  <2>2. OthersStay(t) /\ stack'[t][1] = f /\ Len(stack'[t]) = Len(stack[t])
    BY <1>4 DEF Swapped, IsSwap
  <2>3. 1 \in DOMAIN stack'[t]
    BY <1>0, <1>4, <2>2, Innermost
  <2>4. \A u \in Threads : \A j \in DOMAIN stack'[u] :
          AtIn(u, j, Guarded)' => u = t /\ j = 1
    BY <1>2, <2>1, <2>2 DEF AtIn
  <2>. QED
    BY <1>4, <2>2, <2>3, <2>4 DEF Alone
<1>5. ASSUME NEW f \in Frame, NEW g \in Frame, Called(t, f, g), stack[t] # <<>>,
             f.at \notin Guarded, g.at \in Guarded
      PROVE  Alone(t, 2, g)'
  <2>1. ASSUME NEW j \in DOMAIN stack'[t], j # 2  PROVE stack'[t][j].at \notin Guarded
    <3>1. CASE j = 1
      BY <1>5, <3>1 DEF Called, IsCall
    <3>2. CASE j # 1
      <4>1. j \in 1 .. Len(stack'[t]) /\ Len(stack'[t]) = Len(stack[t]) + 1
            /\ j - 1 # 1 /\ j \in 3 .. Len(stack'[t])
        BY <1>0, <1>5, <2>1, <3>2, SMTT(60) DEF Called, IsCall
      <4>2. stack'[t][j] = stack[t][j - 1]
        BY <1>5, <4>1 DEF Called, IsCall
      <4>3. j - 1 \in DOMAIN stack[t]
        BY <1>0, <4>1
      <4>. QED
        BY <1>1, <4>1, <4>2, <4>3
    <3>. QED
      BY <3>1, <3>2
  <2>2. OthersStay(t) /\ stack'[t][2] = g /\ Len(stack'[t]) = Len(stack[t]) + 1
    BY <1>5 DEF Called, IsCall
  <2>3. 2 \in DOMAIN stack'[t]
    BY <1>0, <1>5, <2>2, Innermost
  <2>4. \A u \in Threads : \A j \in DOMAIN stack'[u] :
          AtIn(u, j, Guarded)' => u = t /\ j = 2
    BY <1>2, <2>1, <2>2 DEF AtIn
  <2>. QED
    BY <1>5, <2>2, <2>3, <2>4 DEF Alone
<1>. QED
  BY <1>3, <1>4, <1>5

(* Both invariants, of such a situation.                                   *)
LEMMA AloneKeeps ==
  ASSUME NEW t \in Threads
  PROVE  /\ Nobody' => MutexInv' /\ \A s : ~Leaving(s)'
         /\ \A i, f :
              Alone(t, i, f)' =>
                /\ \A s : Leaving(s)' <=> f.at \in {"closing", "sweeping"} /\ f.s = s
                /\ poolMtx' = t /\ (f.at # "advance" => f.s \in pool') => MutexInv'
         /\ Nobody => \A s : ~Leaving(s)
         /\ \A i, f :
              Alone(t, i, f) =>
                \A s : Leaving(s) <=> f.at \in {"closing", "sweeping"} /\ f.s = s
<1>. {"closing", "sweeping"} \subseteq Guarded
  BY DEF Guarded
<1>1. Nobody' => MutexInv' /\ \A s : ~Leaving(s)'
  BY DEF Nobody, MutexInv, Leaving, OnStack, AtIn
<1>2. ASSUME NEW i, NEW f, Alone(t, i, f)'
      PROVE  /\ \A s : Leaving(s)' <=> f.at \in {"closing", "sweeping"} /\ f.s = s
             /\ poolMtx' = t /\ (f.at # "advance" => f.s \in pool') => MutexInv'
  <2>1. \A s : Leaving(s)' <=> f.at \in {"closing", "sweeping"} /\ f.s = s
    BY <1>2 DEF Alone, Leaving, OnStack, AtIn
  <2>2. ASSUME poolMtx' = t, f.at # "advance" => f.s \in pool'
        PROVE  MutexInv'
    BY <1>2, <2>2 DEF Alone, MutexInv, AtIn
  <2>. QED
    BY <2>1, <2>2
<1>3. Nobody => \A s : ~Leaving(s)
  BY DEF Nobody, Leaving, OnStack, AtIn
<1>4. ASSUME NEW i, NEW f, Alone(t, i, f)
      PROVE  \A s : Leaving(s) <=> f.at \in {"closing", "sweeping"} /\ f.s = s
  BY <1>4 DEF Alone, Leaving, OnStack, AtIn
<1>. QED
  BY <1>1, <1>2, <1>3, <1>4
-----------------------------------------------------------------------------
LEMMA MutexOthers ==
  ASSUME stack \in Stacks, MutexInv, NEW places, places \cap Guarded = {},
         MovesIn(places), poolMtx' = poolMtx, pool \subseteq pool'
  PROVE  MutexInv'
<1>1. ASSUME NEW u \in Threads, NEW i \in DOMAIN stack'[u], AtIn(u, i, Guarded)'
      PROVE  /\ poolMtx' = u
             /\ \A j \in DOMAIN stack'[u] : AtIn(u, j, Guarded)' => j = i
             /\ ~AtIn(u, i, {"advance"})' => stack'[u][i].s \in pool'
  <2>1. PICK d \in {-1, 0, 1} : Keeps(u, d, Guarded)
    BY Stay
  <2>2. \A j \in DOMAIN stack'[u] : AtIn(u, j, Guarded)' =>
          /\ j - d \in DOMAIN stack[u] /\ stack'[u][j] = stack[u][j - d]
          /\ AtIn(u, j - d, Guarded)
    BY <2>1 DEF Keeps, AtIn
  <2>3. /\ poolMtx = u
        /\ \A j \in DOMAIN stack[u] : AtIn(u, j, Guarded) => j = i - d
        /\ ~AtIn(u, i - d, {"advance"}) => stack[u][i - d].s \in pool
    BY <1>1, <2>2 DEF MutexInv
  <2>4. ASSUME NEW j \in DOMAIN stack'[u], AtIn(u, j, Guarded)'
        PROVE  j = i
    <3>1. j - d = i - d
      BY <2>2, <2>3, <2>4
    <3>2. DOMAIN stack'[u] = 1 .. Len(stack'[u])
      BY Depths DEF MovesIn
    <3>. QED
      BY <3>1, <3>2
  <2>. QED
    BY <1>1, <2>2, <2>3, <2>4 DEF AtIn
<1>. QED
  BY <1>1 DEF MutexInv

LEMMA DisconnectOthers ==
  ASSUME stack \in Stacks, DisconnectInv, NEW places, places \cap Guarded = {},
         MovesIn(places), UNCHANGED <<pool, registered, disconnects>>
  PROVE  DisconnectInv'
<1>1. \A s : Leaving(s)' <=> Leaving(s)
  <2>1. places \cap {"closing", "sweeping"} = {}
    BY DEF Guarded
  <2>. QED
    BY <2>1, StayOn DEF Leaving
<1>. QED
  BY <1>1 DEF DisconnectInv

LEMMA GuardedNext ==
  ASSUME TypeOK, FrameInv, MutexInv, DisconnectInv, NEW t \in Threads, GuardedSteps(t)
  PROVE  MutexInv' /\ DisconnectInv'
<1>0. /\ stack \in Stacks /\ pool \subseteq registered /\ registered \subseteq Sessions
      /\ pool \subseteq Sessions /\ disconnects \in [Sessions -> Nat]
  BY DEF TypeOK, Stacks
<1>. USE DEF acceptVars, poolVars, linkVars
<1>1. ASSUME NEW p, In(t, p)  PROVE stack[t] # <<>>
  BY <1>1 DEF In
<1>2. CASE CloseFind(t) /\ Its(t) \in pool
  <2>1. PICK s \in pool : s = Its(t)
    BY <1>2
  <2>2. Nobody /\ In(t, "close") /\ stack[t] # <<>> /\ stack' \in Stacks
    BY <1>0, <1>1, <1>2, WhoGuards, CallMoves DEF CloseFind
  <2>3. /\ poolMtx' = t /\ disconnects' = [disconnects EXCEPT ![s] = @ + 1]
        /\ Called(t, FrameOf("onDisconnect", s), FrameOf("closing", s))
    BY <1>2, <2>1, <2>2, CalledBack, PlaceNames, <1>0
    DEF CloseFind, Disconnect, Locks, FrameOf
  <2>4. PICK f \in Frame : f = FrameOf("onDisconnect", s)
    BY <1>0, PlaceNames, FramesAre
  <2>5. PICK g \in Frame : g = FrameOf("closing", s)
    BY <1>0, PlaceNames, FramesAre
  <2>6. f.at \notin Guarded /\ g.at = "closing" /\ g.s = s /\ g.at \in Guarded
    BY <1>0, <2>4, <2>5, PlaceNames, FramesAre DEF Guarded
  <2>7. Alone(t, 2, g)'
    BY <1>0, <2>2, <2>3, <2>4, <2>5, <2>6, GuardedShift
  <2>8. pool' = pool /\ registered' = registered
    BY <1>2 DEF CloseFind
  <2>9. MutexInv'
    BY <2>3, <2>6, <2>7, <2>8, AloneKeeps
  <2>10. \A r : Leaving(r)' <=> r = s
    BY <2>6, <2>7, AloneKeeps
  <2>11. \A r : ~Leaving(r)
    BY <2>2, AloneKeeps
  <2>12. DisconnectInv'
    <3>1. ASSUME NEW r \in Sessions
          PROVE  disconnects'[r] = IF r \in registered' /\ (r \notin pool' \/ Leaving(r)')
                                   THEN 1 ELSE 0
      <4>1. CASE r = s
        <5>1. disconnects[s] = 0 /\ 0 + 1 = 1
          BY <1>0, <2>11 DEF DisconnectInv
        <5>. QED
          BY <1>0, <2>3, <2>8, <2>10, <4>1, <5>1
      <4>2. CASE r # s
        BY <1>0, <2>3, <2>8, <2>10, <2>11, <4>2 DEF DisconnectInv
      <4>. QED
        BY <4>1, <4>2
    <3>. QED
      BY <3>1 DEF DisconnectInv
  <2>. QED
    BY <2>9, <2>12
<1>3. CASE CloseErase(t) \/ SweepErase(t)
  <2>1. PICK p \in {"closing", "sweeping"} :
          /\ In(t, p) /\ stack' \in Stacks
          /\ p = "closing" => Popped(t) /\ CloseErase(t)
          /\ p = "sweeping" => Swapped(t, FrameOf("advance", Its(t))) /\ SweepErase(t)
    BY <1>0, <1>3, CallMoves
  <2>2. /\ Alone(t, 1, stack[t][1]) /\ poolMtx = t /\ Its(t) \in pool /\ stack[t] # <<>>
    BY <1>0, <1>1, <2>1, WhoGuards DEF Guarded
  <2>3. PICK s \in pool : s = Its(t) /\ s = stack[t][1].s /\ stack[t][1].at = p
    BY <1>0, <2>1, <2>2, Inside
  <2>4. \A r : Leaving(r) <=> r = s
    BY <2>1, <2>2, <2>3, AloneKeeps
  <2>5. pool' = pool \ {s} /\ registered' = registered /\ disconnects' = disconnects
    BY <1>3, <2>3 DEF CloseErase, SweepErase
  <2>6. MutexInv' /\ \A r : ~Leaving(r)'
    <3>1. CASE p = "closing"
      <4>1. Nobody'
        BY <1>0, <2>1, <2>2, <3>1, GuardedShift
      <4>. QED
        BY <4>1, AloneKeeps
    <3>2. CASE p = "sweeping"
      <4>1. PICK f \in Frame : f = FrameOf("advance", s)
        BY <1>0, PlaceNames, FramesAre
      <4>2. f.at = "advance" /\ f.at \in Guarded
        BY <1>0, <4>1, PlaceNames, FramesAre DEF Guarded
      <4>3. Alone(t, 1, f)'
        BY <1>0, <2>1, <2>2, <2>3, <3>2, <4>1, <4>2, GuardedShift
      <4>4. poolMtx' = t
        BY <2>1, <2>2, <3>2 DEF SweepErase
      <4>. QED
        BY <4>2, <4>3, <4>4, AloneKeeps
    <3>. QED
      BY <3>1, <3>2
  <2>7. DisconnectInv'
    <3>1. ASSUME NEW r \in Sessions
          PROVE  disconnects'[r] = IF r \in registered' /\ (r \notin pool' \/ Leaving(r)')
                                   THEN 1 ELSE 0
      BY <1>0, <2>4, <2>5, <2>6 DEF DisconnectInv
    <3>. QED
      BY <3>1 DEF DisconnectInv
  <2>. QED
    BY <2>6, <2>7
<1>4. CASE CloseAllLock(t) \/ SweepAdvance(t)
  <2>1. /\ (CloseAllLock(t) /\ In(t, "closeAll")) \/ In(t, "advance")
        /\ stack' \in Stacks
        /\ \/ Popped(t) /\ poolMtx' = NoThread
           \/ \E s \in pool : Swapped(t, FrameOf("sweep", s)) /\ poolMtx' = t
    BY <1>0, <1>4, CallMoves
  <2>2. (Nobody \/ Alone(t, 1, stack[t][1])) /\ stack[t] # <<>>
    BY <1>0, <1>1, <2>1, WhoGuards DEF Guarded, CloseAllLock
  <2>3. \A r : ~Leaving(r)
    <3>1. CASE Nobody
      BY <3>1, AloneKeeps
    <3>2. CASE ~Nobody
      <4>1. In(t, "advance") /\ Alone(t, 1, stack[t][1])
        BY <1>0, <2>1, <2>2, <3>2, WhoGuards DEF CloseAllLock
      <4>2. stack[t][1].at = "advance"
        BY <1>0, <4>1, Inside
      <4>. QED
        BY <4>1, <4>2, AloneKeeps
    <3>. QED
      BY <3>1, <3>2
  <2>4. UNCHANGED <<pool, registered, disconnects>>
    BY <1>4 DEF CloseAllLock, SweepAdvance
  <2>5. MutexInv' /\ \A r : ~Leaving(r)'
    <3>1. CASE Popped(t)
      <4>1. Nobody'
        BY <1>0, <2>1, <2>2, <3>1, GuardedShift
      <4>. QED
        BY <4>1, AloneKeeps
    <3>2. CASE \E s \in pool : Swapped(t, FrameOf("sweep", s)) /\ poolMtx' = t
      <4>1. PICK s \in pool : Swapped(t, FrameOf("sweep", s)) /\ poolMtx' = t
        BY <3>2
      <4>2. PICK f \in Frame : f = FrameOf("sweep", s)
        BY <1>0, PlaceNames, FramesAre
      <4>3. f.at = "sweep" /\ f.at \in Guarded /\ f.s = s
        BY <1>0, <4>2, PlaceNames, FramesAre DEF Guarded
      <4>4. Alone(t, 1, f)'
        BY <1>0, <2>1, <2>2, <4>1, <4>2, <4>3, GuardedShift
      <4>. QED
        BY <2>4, <4>1, <4>3, <4>4, AloneKeeps
    <3>. QED
      BY <2>1, <3>1, <3>2
  <2>6. DisconnectInv'
    BY <2>3, <2>4, <2>5 DEF DisconnectInv
  <2>. QED
    BY <2>5, <2>6
<1>5. CASE Sweep(t)
  <2>1. In(t, "sweep") /\ stack[t] # <<>> /\ stack' \in Stacks
    BY <1>0, <1>1, <1>5, CallMoves
  <2>2. Alone(t, 1, stack[t][1]) /\ Its(t) \in pool
    BY <1>0, <2>1, WhoGuards DEF Guarded
  <2>3. PICK s \in pool : s = Its(t)
    BY <2>2
  <2>4. /\ poolMtx' = t /\ disconnects' = [disconnects EXCEPT ![s] = @ + 1]
        /\ Called(t, FrameOf("onDisconnect", s), FrameOf("sweeping", s))
        /\ pool' = pool /\ registered' = registered
    BY <1>0, <1>5, <2>3, CallMoves DEF Sweep, Disconnect, Locks
  <2>5. PICK f \in Frame : f = FrameOf("onDisconnect", s)
    BY <1>0, PlaceNames, FramesAre
  <2>6. PICK g \in Frame : g = FrameOf("sweeping", s)
    BY <1>0, PlaceNames, FramesAre
  <2>7. f.at \notin Guarded /\ g.at = "sweeping" /\ g.s = s /\ g.at \in Guarded
    BY <1>0, <2>5, <2>6, PlaceNames, FramesAre DEF Guarded
  <2>8. Alone(t, 2, g)'
    BY <1>0, <2>1, <2>2, <2>4, <2>5, <2>6, <2>7, GuardedShift
  <2>9. MutexInv'
    BY <2>4, <2>7, <2>8, AloneKeeps
  <2>10. \A r : Leaving(r)' <=> r = s
    BY <2>7, <2>8, AloneKeeps
  <2>11. \A r : ~Leaving(r)
    <3>1. stack[t][1].at = "sweep"
      BY <1>0, <2>1, Inside
    <3>. QED
      BY <2>2, <3>1, AloneKeeps
  <2>12. DisconnectInv'
    <3>1. ASSUME NEW r \in Sessions
          PROVE  disconnects'[r] = IF r \in registered' /\ (r \notin pool' \/ Leaving(r)')
                                   THEN 1 ELSE 0
      <4>1. CASE r = s
        <5>1. disconnects[s] = 0 /\ 0 + 1 = 1
          BY <1>0, <2>11 DEF DisconnectInv
        <5>. QED
          BY <1>0, <2>4, <2>10, <4>1, <5>1
      <4>2. CASE r # s
        BY <1>0, <2>4, <2>10, <2>11, <4>2 DEF DisconnectInv
      <4>. QED
        BY <4>1, <4>2
    <3>. QED
      BY <3>1 DEF DisconnectInv
  <2>. QED
    BY <2>9, <2>12
<1>. QED
  BY <1>2, <1>3, <1>4, <1>5 DEF GuardedSteps

LEMMA MutexDisconnectNext ==
  ASSUME TypeOK, FrameInv, LinkInv, AcceptInv, MutexInv, DisconnectInv, [Next]_vars
  PROVE  MutexInv' /\ DisconnectInv'
<1>0. stack \in Stacks /\ registered \subseteq Sessions /\ pool \subseteq registered
  BY DEF TypeOK, Stacks
<1>. USE DEF acceptVars, poolVars, linkVars
<1>1. CASE UNCHANGED vars \/ Accepted
  BY <1>1 DEF vars, Accepted, MutexInv, DisconnectInv, Leaving, OnStack, AtIn
<1>2. CASE QuietStep
  BY <1>0, <1>2, PlacesApart, MutexOthers, DisconnectOthers DEF QuietStep
<1>3. ASSUME NEW t \in Threads, AcceptSteps(t)
      PROVE  MutexInv' /\ DisconnectInv'
  <2>1. MovesIn(AcceptPlaces) /\ UNCHANGED <<poolMtx, disconnects>>
    BY <1>3, AcceptMove
  <2>2. CASE Register(t)
    <3>1. PICK s \in Sessions : s = Its(t) /\ s \notin registered
      BY <1>0, <2>2, GoodInside DEF Register
    <3>2. pool' = pool \cup {s} /\ registered' = registered \cup {s}
      BY <2>2, <3>1 DEF Register
    <3>3. MutexInv'
      BY <1>0, <2>1, <3>2, PlacesApart, MutexOthers
    <3>4. \A r : Leaving(r)' <=> Leaving(r)
      <4>1. AcceptPlaces \cap {"closing", "sweeping"} = {}
        BY DEF AcceptPlaces
      <4>. QED
        BY <1>0, <2>1, <4>1, StayOn DEF Leaving
    <3>5. ~Leaving(s)
      BY <3>1 DEF Leaving, OnStack, FrameInv, GoodFrame
    <3>6. ASSUME NEW r \in Sessions
          PROVE  disconnects'[r] = IF r \in registered' /\ (r \notin pool' \/ Leaving(r)')
                                   THEN 1 ELSE 0
      BY <1>0, <2>1, <3>1, <3>2, <3>4, <3>5 DEF DisconnectInv
    <3>. QED
      BY <3>3, <3>6 DEF DisconnectInv
  <2>3. CASE ~Register(t)
    <3>1. UNCHANGED <<pool, registered>>
      BY <1>3, <2>3
      DEF AcceptSteps, Hook, Connect, Start, Rearm, ReturnPlain, TakeAccept
    <3>. QED
      BY <1>0, <2>1, <3>1, PlacesApart, MutexOthers, DisconnectOthers
  <2>. QED
    BY <2>2, <2>3
<1>4. ASSUME NEW t \in Threads, MessageSteps(t)
      PROVE  MutexInv' /\ DisconnectInv'
  <2>1. UNCHANGED <<pool, poolMtx, registered, disconnects>>
    BY <1>4 DEF MessageSteps, ReturnShort, ReturnMessage, TakeMessage
  <2>. QED
    BY <1>0, <1>4, <2>1, MessageMove, PlacesApart, MutexOthers, DisconnectOthers
<1>5. ASSUME NEW t \in Threads, GuardedSteps(t)
      PROVE  MutexInv' /\ DisconnectInv'
  BY <1>5, GuardedNext
<1>. QED
  BY <1>1, <1>2, <1>3, <1>4, <1>5, Outline
-----------------------------------------------------------------------------
LEMMA ServerInit == Init => ServerInv
<1>. SUFFICES ASSUME Init  PROVE ServerInv
  OBVIOUS
<1>1. \A t \in Threads : stack[t] = <<>> /\ DOMAIN stack[t] = {}
  <2>1. DOMAIN <<>> = {}
    BY EmptySeq
  <2>. QED
    BY <2>1 DEF Init
<1>2. stack \in [Threads -> Seq(Frame)]
  BY DEF Init
<1>3. TypeOK
  BY <1>2 DEF Init, TypeOK
<1>4. FrameInv /\ ConnectInv /\ MutexInv
  BY <1>1 DEF FrameInv, ConnectInv, MutexInv
<1>5. LinkInv /\ DisconnectInv
  BY DEF Init, LinkInv, DisconnectInv
<1>6. AcceptInv
  BY <1>1 DEF Init, AcceptInv, AcceptChain, Accepting
<1>. QED
  BY <1>3, <1>4, <1>5, <1>6 DEF ServerInv

LEMMA ServerInductive == Spec => []ServerInv
<1>1. ServerInv /\ [Next]_vars => ServerInv'
  BY TypeNext, FrameAcceptNext, LinkNext, ConnectNext, MutexDisconnectNext DEF ServerInv
<1>. QED
  BY ServerInit, <1>1, PTL DEF Spec

(* The types of ServerTCP's state.                                         *)
THEOREM ServerTypes == Spec => []TypeOK
<1>1. ServerInv => TypeOK
  BY DEF ServerInv
<1>. QED
  BY ServerInductive, <1>1, PTL

(* Until an accept fails, the accept is outstanding or one thread is in    *)
(* its handler, and never both.                                            *)
THEOREM OneAccept == Spec => []AcceptChain
<1>1. ServerInv => AcceptChain
  BY DEF ServerInv, AcceptInv
<1>. QED
  BY ServerInductive, <1>1, PTL

(* No message is shown before onConnect has returned.                      *)
THEOREM MessagesAfterConnect == Spec => []ConnectBeforeMessage
<1>1. ServerInv => ConnectBeforeMessage
  <2>. SUFFICES ASSUME ServerInv, NEW s \in Sessions, OnStack(s, Shows)
       PROVE  s \in connected /\ ~OnStack(s, {"onConnect"})
    BY DEF ConnectBeforeMessage
  <2>1. reading[s] = "busy"
    BY DEF ServerInv, ConnectInv, OnStack, AtIn
  <2>2. s \in connected
    BY <2>1 DEF ServerInv, LinkInv
  <2>3. OnStack(s, {"onConnect"}) => reading[s] = "off"
    BY DEF ServerInv, ConnectInv, OnStack, AtIn, Unstarted
  <2>. QED
    BY <2>1, <2>2, <2>3
<1>. QED
  BY ServerInductive, <1>1, PTL

(* onDisconnect is called once for a session that leaves the pool.         *)
THEOREM OneDisconnect == Spec => []DisconnectedOnce
<1>1. ServerInv => DisconnectedOnce
  <2>. SUFFICES ASSUME ServerInv, NEW s \in Sessions
       PROVE  /\ disconnects[s] <= 1
              /\ s \in registered \ pool => disconnects[s] = 1
              /\ s \in pool /\ disconnects[s] = 1 => poolMtx # NoThread
    BY DEF DisconnectedOnce
  <2>1. disconnects[s] = IF s \in registered /\ (s \notin pool \/ Leaving(s)) THEN 1 ELSE 0
    BY DEF ServerInv, DisconnectInv
  <2>2. Leaving(s) => poolMtx # NoThread
    <3>1. ASSUME NEW t \in Threads, NEW i \in DOMAIN stack[t],
                 stack[t][i].at \in {"closing", "sweeping"}
          PROVE  poolMtx = t
      BY <3>1 DEF ServerInv, MutexInv, AtIn, Guarded
    <3>. QED
      BY <3>1, ServerAssumption DEF Leaving, OnStack
  <2>. QED
    BY <2>1, <2>2
<1>. QED
  BY ServerInductive, <1>1, PTL

(* A session with an operation outstanding is owned by a shared_ptr.       *)
THEOREM SessionsHeld == Spec => []SessionOutlivesHandlers
<1>1. ServerInv => SessionOutlivesHandlers
  <2>. SUFFICES ASSUME ServerInv, NEW s \in Sessions,
                       reading[s] # "off" \/ writing[s] # "off"
       PROVE  Held(s)
    BY DEF SessionOutlivesHandlers
  <2>1. s \in registered
    BY DEF ServerInv, LinkInv, TypeOK
  <2>2. s \in hooked \/ OnStack(s, {"hook"})
    BY <2>1 DEF ServerInv, LinkInv
  <2>3. OnStack(s, {"hook"}) => OnStack(s, AcceptPlaces \cup {"send"})
    BY DEF OnStack, AcceptPlaces
  <2>. QED
    BY <2>2, <2>3 DEF Held
<1>. QED
  BY ServerInductive, <1>1, PTL
-----------------------------------------------------------------------------
(* What a step does to the reading and the writing of a session.           *)
LEMMA LinkMoves ==
  ASSUME ServerInv, [Next]_vars, NEW s \in Sessions
  PROVE  \/ reading'[s] = reading[s] /\ writing'[s] = writing[s]
         \/ /\ writing'[s] = writing[s]
            /\ \/ reading[s] = "off" /\ reading'[s] = "armed"
               \/ reading[s] = "armed" /\ reading'[s] = "busy"
               \/ reading[s] = "busy" /\ reading'[s] = "armed"
               \/ reading[s] = "armed" /\ reading'[s] = "failed"
         \/ /\ reading'[s] = reading[s]
            /\ \/ writing[s] = "off" /\ writing'[s] = "armed"
               \/ writing[s] = "armed" /\ writing'[s] = "failed"
               \/ writing[s] = "armed" /\ writing'[s] = "off"
<1>0. stack \in Stacks /\ TypeOK /\ FrameInv
  BY DEF ServerInv, TypeOK, Stacks
<1>. USE DEF acceptVars, poolVars, linkVars
<1>1. CASE UNCHANGED <<reading, writing>>
  BY <1>1
<1>2. ASSUME NEW t \in Threads, Start(t) \/ ReturnMessage(t)
      PROVE  /\ writing'[s] = writing[s]
             /\ \/ reading'[s] = reading[s]
                \/ reading[s] = "off" /\ reading'[s] = "armed"
                \/ reading[s] = "busy" /\ reading'[s] = "armed"
  <2>1. 1 \in DOMAIN stack[t] /\ stack[t][1].s = Its(t)
        /\ (Start(t) => AtIn(t, 1, Unstarted))
        /\ (ReturnMessage(t) => AtIn(t, 1, Shows))
    BY <1>0, <1>2, Inside DEF Start, ReturnMessage, AtIn, Unstarted, Shows
  <2>2. /\ Start(t) => reading[Its(t)] = "off"
        /\ ReturnMessage(t) => reading[Its(t)] = "busy"
    BY <2>1 DEF ServerInv, ConnectInv
  <2>. QED
    BY <1>0, <1>2, <2>2 DEF Start, ReturnMessage, TypeOK
<1>3. ASSUME NEW t \in Threads, NEW r \in Sessions,
             \/ \E show \in Shows : TakeMessage(t, r, show)
             \/ \E end \in Ends : TakeReadError(t, r, end)
      PROVE  /\ writing'[s] = writing[s]
             /\ \/ reading'[s] = reading[s]
                \/ reading[s] = "armed" /\ reading'[s] = "busy"
                \/ reading[s] = "armed" /\ reading'[s] = "failed"
  BY <1>0, <1>3 DEF TakeMessage, TakeReadError, TypeOK
<1>4. ASSUME NEW t \in Threads, NEW r \in Sessions, TakeWriteError(t, r) \/ TakeWritten(t, r)
      PROVE  /\ reading'[s] = reading[s]
             /\ \/ writing'[s] = writing[s]
                \/ writing[s] = "armed" /\ writing'[s] = "failed"
                \/ writing[s] = "armed" /\ writing'[s] = "off"
  BY <1>0, <1>4 DEF TakeWriteError, TakeWritten, TypeOK
<1>5. ASSUME NEW t \in Threads, WriteSend(t) \/ Broadcast(t)
      PROVE  /\ reading'[s] = reading[s]
             /\ \/ writing'[s] = writing[s]
                \/ writing[s] = "off" /\ writing'[s] = "armed"
  BY <1>0, <1>5 DEF WriteSend, Broadcast, Written, TypeOK
<1>6. ASSUME NEW t \in Threads,
             \/ Hook(t) \/ Connect(t) \/ Rearm(t) \/ CloseErase(t) \/ Stop(t)
             \/ Sweep(t) \/ SweepErase(t) \/ SweepAdvance(t) \/ SweepCrash(t)
             \/ Register(t) \/ WriteFind(t) \/ CloseFind(t) \/ CloseAllLock(t)
             \/ ReturnShort(t) \/ ReturnError(t) \/ ReturnPlain(t) \/ TakeAcceptError(t)
             \/ \E r \in Sessions : TakeAccept(t, r)
             \/ \E call \in Calls, r \in Sessions \cup {NoSession} : Call(t, call, r)
      PROVE  UNCHANGED <<reading, writing>>
  BY <1>6
  DEF Hook, Connect, NotStarted, Rearm, CloseErase, Stop, Sweep, SweepErase, SweepAdvance,
      SweepCrash, Register, WriteFind, CloseFind, CloseAllLock, ReturnShort, ReturnError,
      ReturnPlain, TakeAcceptError, TakeAccept, Call
<1>7. Accepted \/ UNCHANGED vars => UNCHANGED <<reading, writing>>
  BY DEF Accepted, vars
<1>. QED
  BY <1>1, <1>2, <1>3, <1>4, <1>5, <1>6, <1>7, NextCases

(* The server uses its sessions as SessionLink allows.                     *)
THEOREM ServerKeepsLink == Spec => UsesSessions
<1>1. ServerInv /\ [Next]_vars =>
        [\A s \in Sessions : [LinkOf(s)!Next]_<<reading[s], writing[s]>>]_vars
  <2>. SUFFICES ASSUME ServerInv, [Next]_vars, NEW s \in Sessions
       PROVE  [LinkOf(s)!Next]_<<reading[s], writing[s]>>
    OBVIOUS
  <2>. QED
    BY LinkMoves
    DEF LinkOf!Next, LinkOf!Start, LinkOf!Arrive, LinkOf!Return, LinkOf!ReadFails,
        LinkOf!Write, LinkOf!WriteFails, LinkOf!Written, LinkOf!Read, LinkOf!WriteGoes
<1>. QED
  BY ServerInductive, <1>1, PTL DEF Spec, UsesSessions
-----------------------------------------------------------------------------
(* When a thread is in the accept handler, the handler's frames are all    *)
(* there and about one session; when no thread is, there are none.         *)
Handling(t, q, s) == In(t, q) /\ q \in AcceptPlaces /\ Its(t) = s

HandlerOnly ==
  \A places \in SUBSET AcceptPlaces, r \in Sessions :
    /\ (\A u \in Threads : ~Accepting(u)) => ~OnStack(r, places)
    /\ \A t \in Threads, q \in AcceptPlaces, s \in Sessions :
         Handling(t, q, s) =>
           /\ Accepting(t)
           /\ OnStack(r, places) <=>
                r = s /\ (q \in places \/ (q = "onConnect" /\ "start" \in places))

LEMMA HandlerFrames == stack \in Stacks /\ AcceptInv => HandlerOnly
<1>. SUFFICES ASSUME stack \in Stacks, AcceptInv,
                     NEW places \in SUBSET AcceptPlaces, NEW r \in Sessions
     PROVE  /\ (\A u \in Threads : ~Accepting(u)) => ~OnStack(r, places)
            /\ \A t \in Threads, q \in AcceptPlaces, s \in Sessions :
                 Handling(t, q, s) =>
                   /\ Accepting(t)
                   /\ OnStack(r, places) <=>
                        r = s /\ (q \in places \/ (q = "onConnect" /\ "start" \in places))
  BY DEF HandlerOnly
<1>1. (\A u \in Threads : ~Accepting(u)) => ~OnStack(r, places)
  BY DEF OnStack, Accepting
<1>2. ASSUME NEW t \in Threads, NEW q \in AcceptPlaces, NEW s \in Sessions,
             Handling(t, q, s)
      PROVE  /\ Accepting(t)
             /\ OnStack(r, places) <=>
                  r = s /\ (q \in places \/ (q = "onConnect" /\ "start" \in places))
  <2>1. 1 \in DOMAIN stack[t] /\ stack[t][1].at = q /\ stack[t][1].s = s
    BY <1>2, Inside DEF Handling
  <2>2. Accepting(t) /\ AtIn(t, 1, AcceptPlaces) /\ DOMAIN stack[t] = 1 .. Len(stack[t])
        /\ Len(stack[t]) \in Nat
    BY <2>1, LenProperties DEF Accepting, AtIn, Stacks
  <2>3. CASE q = "onConnect"
    <3>0. AtIn(t, 1, {"onConnect"})
      BY <2>1, <2>3 DEF AtIn
    <3>1. /\ 1 + 1 = Len(stack[t])
          /\ stack[t][1 + 1] = [at |-> "start", s |-> stack[t][1].s]
      BY <2>1, <2>2, <3>0 DEF AcceptInv
    <3>a. 1 + 1 = 2
      OBVIOUS
    <3>b. Len(stack[t]) = 2 /\ stack[t][2] = [at |-> "start", s |-> stack[t][1].s]
      BY <3>1, <3>a, Zenon
    <3>2. /\ DOMAIN stack[t] = 1 .. 2 /\ stack[t][2].at = "start" /\ stack[t][2].s = s
      BY <2>1, <2>2, <3>b
    <3>3. OnStack(r, places) => r = s /\ (q \in places \/ "start" \in places)
      <4>1. ASSUME NEW u \in Threads, NEW i \in DOMAIN stack[u],
                   stack[u][i].s = r, stack[u][i].at \in places
            PROVE  r = s /\ (q \in places \/ "start" \in places)
        <5>1. u = t
          BY <2>2, <4>1 DEF AcceptInv, AcceptChain, Accepting
        <5>2. i = 1 \/ i = 2
          BY <3>2, <4>1, <5>1
        <5>. QED
          BY <2>1, <3>2, <4>1, <5>1, <5>2
      <4>. QED
        BY <4>1 DEF OnStack
    <3>4. r = s /\ (q \in places \/ "start" \in places) => OnStack(r, places)
      BY <2>1, <3>2 DEF OnStack
    <3>. QED
      BY <2>2, <2>3, <3>3, <3>4 DEF OnStack
  <2>4. CASE q # "onConnect"
    <3>1. DOMAIN stack[t] = {1}
      <4>0. ~AtIn(t, 1, {"onConnect"})
        BY <2>1, <2>4 DEF AtIn
      <4>1. 1 = Len(stack[t])
        BY <2>1, <2>2, <4>0, Zenon DEF AcceptInv
      <4>2. 1 .. 1 = {1}
        OBVIOUS
      <4>. QED
        BY <2>2, <4>1, <4>2, Zenon
    <3>2. OnStack(r, places) => r = s /\ q \in places
      <4>1. ASSUME NEW u \in Threads, NEW i \in DOMAIN stack[u],
                   stack[u][i].s = r, stack[u][i].at \in places
            PROVE  r = s /\ q \in places
        <5>1. u = t
          BY <2>2, <4>1 DEF AcceptInv, AcceptChain, Accepting
        <5>. QED
          BY <2>1, <3>1, <4>1, <5>1
      <4>. QED
        BY <4>1 DEF OnStack
    <3>3. r = s /\ q \in places => OnStack(r, places)
      BY <2>1 DEF OnStack
    <3>. QED
      BY <2>2, <2>4, <3>2, <3>3 DEF OnStack
  <2>. QED
    BY <2>3, <2>4
<1>. QED
  BY <1>1, <1>2

(* The same after a step.                                                  *)
LEMMA HandlerFramesNext ==
  ASSUME (stack \in Stacks)', AcceptInv'
  PROVE  HandlerOnly'
<1>1. (stack \in Stacks /\ AcceptInv => HandlerOnly)'
  BY HandlerFrames, PTL
<1>. QED
  BY <1>1

(* The accept handler, step by step: s is the session it is about.         *)
Idle == \A u \in Threads : ~Accepting(u)

HandlerStep(t, s) ==
  /\ UNCHANGED <<disconnects, acceptFailed>> /\ ~acceptFailed
  /\ \/ /\ Idle /\ Handling(t, "register", s)'
        /\ UNCHANGED <<registered, connected, reading>>
     \/ /\ Handling(t, "register", s) /\ Handling(t, "hook", s)'
        /\ s \notin registered /\ registered' = registered \cup {s}
        /\ UNCHANGED <<connected, reading>>
     \/ /\ Handling(t, "hook", s) /\ Handling(t, "connect", s)'
        /\ UNCHANGED <<registered, connected, reading>>
     \/ /\ Handling(t, "connect", s) /\ Handling(t, "onConnect", s)'
        /\ connected' = connected \cup {s} /\ UNCHANGED <<registered, reading>>
     \/ /\ Handling(t, "onConnect", s) /\ Handling(t, "start", s)'
        /\ UNCHANGED <<registered, connected, reading>>
     \/ /\ Handling(t, "start", s) /\ Handling(t, "rearm", s)'
        /\ reading' = [reading EXCEPT ![s] = "armed"]
        /\ UNCHANGED <<registered, connected>>
     \/ /\ Handling(t, "rearm", s) /\ Idle'
        /\ UNCHANGED <<registered, connected, reading>>

LEMMA Top ==
  stack \in Stacks => \A u \in Threads : stack[u] # <<>> =>
    Head(stack[u]) = stack[u][1] /\ Its(u) = stack[u][1].s
BY Innermost

LEMMA TopNext ==
  ASSUME stack \in Stacks, stack' \in Stacks, NEW t \in Threads,
         NEW q \in AcceptPlaces, NEW s \in Sessions,
         Len(stack'[t]) >= 1, stack'[t][1] = FrameOf(q, s)
  PROVE  Handling(t, q, s)'
<1>1. (stack \in Stacks => \A u \in Threads : stack[u] # <<>> =>
        Head(stack[u]) = stack[u][1] /\ Its(u) = stack[u][1].s)'
  BY Top, PTL
<1>2. stack'[t] # <<>>
  BY EmptySeq
<1>3. q \in Places /\ FrameOf(q, s).at = q /\ FrameOf(q, s).s = s
  BY DEF FrameOf, Places
<1>. QED
  BY <1>1, <1>2, <1>3 DEF Handling, In

LEMMA HandlerSteps ==
  ASSUME TypeOK, FrameInv, AcceptInv, NEW t \in Threads, AcceptSteps(t)
  PROVE  \E s \in Sessions : HandlerStep(t, s)
<1>0. /\ stack \in Stacks /\ stack[t] \in Seq(Frame)
      /\ stack' \in Stacks /\ AcceptInv' /\ UNCHANGED disconnects
  BY AcceptMove DEF TypeOK, Stacks, MovesIn
<1>. USE DEF acceptVars, poolVars, linkVars
<1>a. {"register", "hook", "connect", "onConnect", "start", "rearm"} \subseteq AcceptPlaces
  BY DEF AcceptPlaces
<1>1. ASSUME NEW q \in AcceptPlaces, In(t, q)
      PROVE  /\ Its(t) \in Sessions /\ Handling(t, q, Its(t)) /\ ~acceptFailed
             /\ Len(stack[t]) \in Nat /\ Len(stack[t]) >= 1
             /\ 1 \in DOMAIN stack[t] /\ stack[t][1].at = q /\ stack[t][1].s = Its(t)
  <2>1. Its(t) \in Sessions
    BY <1>0, <1>1, GoodInside DEF AcceptPlaces
  <2>2. 1 \in DOMAIN stack[t] /\ stack[t][1].at = q /\ stack[t][1].s = Its(t)
        /\ stack[t] # <<>>
    BY <1>0, <1>1, Inside
  <2>3. Accepting(t)
    BY <2>2 DEF Accepting
  <2>4. Len(stack[t]) \in Nat \ {0}
    BY <1>0, <2>2, Innermost
  <2>. QED
    BY <1>1, <2>1, <2>2, <2>3, <2>4 DEF Handling, AcceptInv, AcceptChain
<1>2. ASSUME NEW s \in Sessions, TakeAccept(t, s)
      PROVE  HandlerStep(t, s)
  <2>1. Pushed(t, FrameOf("register", s)) /\ Len(stack[t]) \in Nat
    BY <1>0, <1>2, AcceptMoves, LenProperties
  <2>2. Handling(t, "register", s)'
    BY <1>0, <1>a, <2>1, TopNext DEF Pushed, IsPush
  <2>3. Idle /\ ~acceptFailed
    BY <1>2 DEF TakeAccept, AcceptInv, AcceptChain, Idle
  <2>. QED
    BY <1>2, <2>2, <2>3 DEF HandlerStep, TakeAccept
<1>3. ASSUME NEW q \in AcceptPlaces, NEW r \in AcceptPlaces, In(t, q),
             Swapped(t, FrameOf(r, Its(t)))
      PROVE  \E s \in Sessions : /\ s = Its(t) /\ ~acceptFailed
                                 /\ Handling(t, q, s) /\ Handling(t, r, s)'
  <2>1. PICK s \in Sessions : s = Its(t) /\ ~acceptFailed /\ Handling(t, q, s)
    BY <1>1, <1>3
  <2>2. Len(stack'[t]) >= 1 /\ stack'[t][1] = FrameOf(r, s)
    BY <1>1, <1>3, <2>1 DEF Swapped, IsSwap
  <2>3. Handling(t, r, s)'
    BY <1>0, <2>2, TopNext
  <2>. QED
    BY <2>1, <2>3
<1>4. CASE Register(t)
  <2>1. In(t, "register") /\ Swapped(t, FrameOf("hook", Its(t)))
        /\ Its(t) \notin registered
    BY <1>0, <1>4, AcceptMoves, GoodInside
  <2>2. PICK s \in Sessions : /\ s = Its(t) /\ ~acceptFailed
                              /\ Handling(t, "register", s) /\ Handling(t, "hook", s)'
    BY <1>3, <1>a, <2>1
  <2>. QED
    BY <1>0, <1>4, <2>1, <2>2 DEF HandlerStep, Register
<1>5. CASE Hook(t)
  <2>1. In(t, "hook") /\ Swapped(t, FrameOf("connect", Its(t)))
    BY <1>0, <1>5, AcceptMoves
  <2>2. PICK s \in Sessions : /\ s = Its(t) /\ ~acceptFailed
                              /\ Handling(t, "hook", s) /\ Handling(t, "connect", s)'
    BY <1>3, <1>a, <2>1
  <2>. QED
    BY <1>0, <1>5, <2>1, <2>2 DEF HandlerStep, Hook
<1>6. CASE Connect(t)
  <2>1. /\ In(t, "connect")
        /\ Called(t, FrameOf("onConnect", Its(t)), FrameOf("start", Its(t)))
    BY <1>0, <1>6, AcceptMoves
  <2>2. PICK s \in Sessions : s = Its(t) /\ Handling(t, "connect", s) /\ ~acceptFailed
    BY <1>1, <1>a, <2>1
  <2>3. Handling(t, "onConnect", s)'
    BY <1>0, <1>a, <1>1, <2>1, <2>2, TopNext DEF Called, IsCall
  <2>. QED
    BY <1>0, <1>6, <2>2, <2>3 DEF HandlerStep, Connect, NotStarted
<1>7. CASE Start(t)
  <2>1. In(t, "start") /\ Swapped(t, FrameOf("rearm", Its(t)))
    BY <1>0, <1>7, AcceptMoves
  <2>2. PICK s \in Sessions : /\ s = Its(t) /\ ~acceptFailed
                              /\ Handling(t, "start", s) /\ Handling(t, "rearm", s)'
    BY <1>3, <1>a, <2>1
  <2>. QED
    BY <1>0, <1>7, <2>1, <2>2 DEF HandlerStep, Start
<1>8. CASE Rearm(t)
  <2>1. In(t, "rearm") /\ accepting' = "waiting"
    BY <1>8 DEF Rearm, Accepts
  <2>2. Idle'
    BY <1>0, <2>1 DEF AcceptInv, AcceptChain, Idle
  <2>. QED
    BY <1>0, <1>8, <1>a, <1>1, <2>1, <2>2 DEF HandlerStep, Rearm
<1>9. CASE ReturnPlain(t) /\ In(t, "onConnect")
  <2>1. Popped(t) /\ In(t, "onConnect")
    BY <1>0, <1>9, SessionMoves
  <2>2. PICK s \in Sessions :
          /\ s = Its(t) /\ Handling(t, "onConnect", s) /\ ~acceptFailed
          /\ 1 \in DOMAIN stack[t] /\ stack[t][1].at = "onConnect" /\ stack[t][1].s = s
    BY <1>1, <1>a, <2>1
  <2>3. AtIn(t, 1, {"onConnect"}) /\ AtIn(t, 1, AcceptPlaces)
    BY <1>a, <2>2 DEF AtIn
  <2>4. /\ 1 + 1 = Len(stack[t])
        /\ stack[t][1 + 1] = [at |-> "start", s |-> stack[t][1].s]
    BY <2>2, <2>3 DEF AcceptInv
  <2>a. 1 + 1 = 2
    OBVIOUS
  <2>5. Len(stack[t]) = 2 /\ stack[t][2] = FrameOf("start", s)
    BY <2>2, <2>4, <2>a, Zenon DEF FrameOf
  <2>6. Len(stack'[t]) = 1 /\ stack'[t][1] = FrameOf("start", s)
    BY <2>1, <2>5 DEF Popped, IsPop
  <2>7. Handling(t, "start", s)'
    BY <1>0, <1>a, <2>6, TopNext
  <2>. QED
    BY <1>0, <1>9, <2>2, <2>7 DEF HandlerStep, ReturnPlain
<1>. QED
  BY <1>2, <1>4, <1>5, <1>6, <1>7, <1>8, <1>9 DEF AcceptSteps

(* The steps outside the accept handler, as far as the user's view goes.   *)
Still ==
  \A s \in Sessions, places \in SUBSET AcceptPlaces :
    OnStack(s, places)' <=> OnStack(s, places)

Reads(s, from, to) == reading[s] = from /\ reading' = [reading EXCEPT ![s] = to]

OtherStep ==
  /\ Still /\ UNCHANGED <<registered, connected>>
  /\ \/ UNCHANGED <<reading, disconnects, acceptFailed>>
     \/ /\ UNCHANGED <<disconnects, acceptFailed>>
        /\ \E s \in Sessions :
             Reads(s, "armed", "busy") \/ Reads(s, "busy", "armed")
             \/ Reads(s, "armed", "failed")
     \/ /\ UNCHANGED <<reading, acceptFailed>>
        /\ \E s \in pool : disconnects' = [disconnects EXCEPT ![s] = @ + 1]
     \/ /\ UNCHANGED <<reading, disconnects>>
        /\ Idle /\ acceptFailed' = TRUE

LEMMA MovesStill ==
  ASSUME stack \in Stacks, NEW places, places \cap AcceptPlaces = {}, MovesIn(places)
  PROVE  Still
<1>. SUFFICES ASSUME NEW s \in Sessions, NEW others \in SUBSET AcceptPlaces
     PROVE  OnStack(s, others)' <=> OnStack(s, others)
  BY DEF Still
<1>1. places \cap others = {}
  OBVIOUS
<1>. QED
  BY <1>1, StayOn

LEMMA UserView ==
  ASSUME ServerInv, [Next]_vars
  PROVE  \/ OtherStep
         \/ \E t \in Threads, s \in Sessions : HandlerStep(t, s)
<1>0. /\ TypeOK /\ FrameInv /\ LinkInv /\ AcceptInv /\ ConnectInv
      /\ stack \in Stacks /\ pool \subseteq Sessions
  BY DEF ServerInv, TypeOK, Stacks
<1>. USE DEF acceptVars, poolVars, linkVars
<1>1. QuietStep => Still
  BY <1>0, MovesStill, PlacesApart DEF QuietStep
<1>2. CASE UNCHANGED vars \/ Accepted
  BY <1>2 DEF vars, Accepted, OtherStep, Still, OnStack
<1>3. ASSUME NEW t \in Threads,
             \/ WriteSend(t) \/ Stop(t) \/ WriteFind(t) \/ Broadcast(t) \/ ReturnError(t)
             \/ ReturnPlain(t) /\ In(t, "onDisconnect")
             \/ CloseFind(t) /\ Its(t) \notin pool
      PROVE  OtherStep
  <2>1. Still /\ UNCHANGED <<registered, connected, disconnects>>
    BY <1>0, <1>1, <1>3, QuietReturns DEF QuietStep
  <2>2. UNCHANGED <<reading, acceptFailed>>
    BY <1>3 DEF WriteSend, Stop, WriteFind, Broadcast, ReturnError, ReturnPlain, CloseFind
  <2>. QED
    BY <2>1, <2>2 DEF OtherStep
<1>4. ASSUME NEW t \in Threads,
             \/ SweepCrash(t)
             \/ \E s \in Sessions : TakeWriteError(t, s) \/ TakeWritten(t, s)
             \/ \E call \in Calls, s \in Sessions \cup {NoSession} : Call(t, call, s)
      PROVE  OtherStep
  <2>1. Still /\ UNCHANGED <<registered, connected, disconnects>>
    BY <1>0, <1>1, <1>4, QuietTakes DEF QuietStep
  <2>2. UNCHANGED <<reading, acceptFailed>>
    BY <1>4 DEF SweepCrash, TakeWriteError, TakeWritten, Call
  <2>. QED
    BY <2>1, <2>2 DEF OtherStep
<1>5. ASSUME NEW t \in Threads, TakeAcceptError(t)  PROVE OtherStep
  <2>1. Still /\ UNCHANGED <<registered, connected, disconnects>>
    BY <1>0, <1>1, <1>5, QuietTakes DEF QuietStep
  <2>2. Idle
    BY <1>0, <1>5 DEF TakeAcceptError, AcceptInv, AcceptChain, Idle
  <2>. QED
    BY <1>5, <2>1, <2>2 DEF OtherStep, TakeAcceptError
<1>6. ASSUME NEW t \in Threads, NEW s \in Sessions, NEW end \in Ends,
             TakeReadError(t, s, end)
      PROVE  OtherStep
  <2>1. Still /\ UNCHANGED <<registered, connected, disconnects>>
    BY <1>0, <1>1, <1>6, QuietTakes DEF QuietStep
  <2>2. Reads(s, "armed", "failed") /\ acceptFailed' = acceptFailed
    BY <1>6 DEF TakeReadError, Reads
  <2>. QED
    BY <2>1, <2>2 DEF OtherStep
<1>7. ASSUME NEW t \in Threads, MessageSteps(t)  PROVE OtherStep
  <2>1. Still
    BY <1>0, <1>7, MessageMove, MovesStill, PlacesApart
  <2>2. UNCHANGED <<registered, connected, disconnects, acceptFailed>>
    BY <1>7 DEF MessageSteps, ReturnShort, ReturnMessage, TakeMessage
  <2>3. \/ reading' = reading
        \/ \E s \in Sessions : Reads(s, "armed", "busy") \/ Reads(s, "busy", "armed")
    <3>1. CASE ReturnMessage(t)
      <4>1. In(t, "onMessage") /\ Its(t) \in Sessions
        BY <1>0, <3>1, GoodInside DEF ReturnMessage
      <4>2. 1 \in DOMAIN stack[t] /\ AtIn(t, 1, Shows) /\ stack[t][1].s = Its(t)
        BY <1>0, <4>1, Inside DEF AtIn, Shows
      <4>3. reading[Its(t)] = "busy"
        BY <1>0, <4>2 DEF ConnectInv
      <4>. QED
        BY <3>1, <4>1, <4>3 DEF ReturnMessage, Reads
    <3>2. CASE \E s \in Sessions, show \in Shows : TakeMessage(t, s, show)
      BY <3>2 DEF TakeMessage, Reads
    <3>3. CASE ReturnShort(t)
      BY <3>3 DEF ReturnShort
    <3>. QED
      BY <1>7, <3>1, <3>2, <3>3 DEF MessageSteps
  <2>. QED
    BY <2>1, <2>2, <2>3 DEF OtherStep
<1>8. ASSUME NEW t \in Threads, GuardedSteps(t)  PROVE OtherStep
  <2>1. Still
    BY <1>0, <1>8, GuardedMove, MovesStill, PlacesApart
  <2>2. UNCHANGED <<registered, connected, reading, acceptFailed>>
    BY <1>8 DEF GuardedSteps, CloseFind, CloseErase, CloseAllLock, Sweep, SweepErase,
                SweepAdvance
  <2>3. \/ UNCHANGED disconnects
        \/ \E s \in pool : disconnects' = [disconnects EXCEPT ![s] = @ + 1]
    <3>1. CASE CloseFind(t) /\ Its(t) \in pool
      BY <3>1 DEF CloseFind, Disconnect
    <3>2. CASE Sweep(t)
      <4>1. Its(t) \in pool
        BY <1>0, <3>2, WhoGuards DEF Sweep, ServerInv, Guarded
      <4>. QED
        BY <3>2, <4>1 DEF Sweep, Disconnect
    <3>3. CASE CloseErase(t) \/ CloseAllLock(t) \/ SweepErase(t) \/ SweepAdvance(t)
      BY <3>3 DEF CloseErase, CloseAllLock, SweepErase, SweepAdvance
    <3>. QED
      BY <1>8, <3>1, <3>2, <3>3 DEF GuardedSteps
  <2>. QED
    BY <2>1, <2>2, <2>3 DEF OtherStep
<1>9. ASSUME NEW t \in Threads, AcceptSteps(t)
      PROVE  \E s \in Sessions : HandlerStep(t, s)
  BY <1>0, <1>9, HandlerSteps
<1>10. \A t \in Threads : ReturnPlain(t) => In(t, "onConnect") \/ In(t, "onDisconnect")
  BY DEF ReturnPlain
<1>. QED
  BY <1>2, <1>3, <1>4, <1>5, <1>6, <1>7, <1>8, <1>9, <1>10, NextCases
  DEF AcceptSteps, MessageSteps, GuardedSteps
-----------------------------------------------------------------------------
LEMMA WelcomeNext ==
  ASSUME ServerInv, WelcomeInv, [Next]_vars, ServerInv'
  PROVE  WelcomeInv'
<1>0. /\ registered \subseteq Sessions /\ connected \subseteq registered
      /\ HandlerOnly /\ HandlerOnly'
  BY HandlerFrames, HandlerFramesNext DEF ServerInv, TypeOK, Stacks
<1>1. {"hook", "connect"} \in SUBSET AcceptPlaces
  BY DEF AcceptPlaces
<1>2. CASE OtherStep
  BY <1>0, <1>1, <1>2 DEF OtherStep, Still, WelcomeInv
<1>3. ASSUME NEW t \in Threads, NEW s \in Sessions, HandlerStep(t, s)
      PROVE  WelcomeInv'
  <2>. DEFINE On(r) == OnStack(r, {"hook", "connect"})
  <2>1. \A q \in AcceptPlaces, r \in Sessions :
          /\ Handling(t, q, s) => (On(r) <=> r = s /\ q \in {"hook", "connect"})
          /\ Handling(t, q, s)' => (On(r)' <=> r = s /\ q \in {"hook", "connect"})
          /\ Idle => ~On(r)
          /\ Idle' => ~On(r)'
    BY <1>0, <1>1 DEF HandlerOnly, Idle
  <2>2. {"register", "hook", "connect", "onConnect", "start", "rearm"} \subseteq AcceptPlaces
    BY DEF AcceptPlaces
  <2>3. /\ \A r \in registered \ connected : On(r)
        /\ \A r \in connected : ~On(r)
    BY DEF WelcomeInv
  <2>. HIDE DEF On
  <2>4. /\ \A r \in registered' \ connected' : On(r)'
        /\ \A r \in connected' : ~On(r)'
    BY <1>0, <1>3, <2>1, <2>2, <2>3 DEF HandlerStep
  <2>. QED
    BY <2>4 DEF WelcomeInv, On
<1>. QED
  BY <1>2, <1>3, UserView

LEMMA WelcomeInvariant == Spec => []WelcomeInv
<1>1. Init => WelcomeInv
  BY DEF Init, WelcomeInv
<1>2. ServerInv /\ ServerInv' /\ WelcomeInv /\ [Next]_vars => WelcomeInv'
  BY WelcomeNext
<1>. QED
  BY ServerInductive, <1>1, <1>2, PTL DEF Spec
-----------------------------------------------------------------------------
(* What the phases say.                                                    *)
Greeting(r) == OnStack(r, {"onConnect"})

LEMMA Phases ==
  ASSUME ServerInv, WelcomeInv, NEW r \in Sessions
  PROVE  /\ Greeting(r) => r \in connected /\ reading[r] = "off"
         /\ reading[r] # "off" => r \in connected
         /\ r \in connected => r \in registered
         /\ Phase(r) \in {"arrived", "greeting"} =>
              OnStack(r, {"hook", "connect", "onConnect"})
<1>1. Greeting(r) => r \in connected /\ reading[r] = "off"
  BY DEF ServerInv, ConnectInv, OnStack, Greeting, AtIn, Unstarted
<1>2. (reading[r] # "off" => r \in connected) /\ (r \in connected => r \in registered)
  BY DEF ServerInv, LinkInv, TypeOK
<1>3. Phase(r) = "arrived" => OnStack(r, {"hook", "connect"})
  BY DEF Phase, WelcomeInv
<1>4. Phase(r) = "greeting" => OnStack(r, {"onConnect"})
  BY DEF Phase
<1>. QED
  BY <1>1, <1>2, <1>3, <1>4 DEF OnStack

LEMMA HandlerPhase ==
  ASSUME ServerInv, WelcomeInv, ServerInv', NEW t \in Threads, NEW s \in Sessions,
         HandlerStep(t, s)
  PROVE  /\ \A r \in Sessions : r # s => Phase(r)' = Phase(r)
         /\ UNCHANGED <<disconnects, acceptFailed>>
         /\ \/ Phase(s)' = Phase(s)
            \/ /\ Phase(s) = "unknown" /\ Phase(s)' = "arrived" /\ ~acceptFailed
               /\ \A r \in Sessions : Phase(r) \notin {"arrived", "greeting"}
            \/ Phase(s) = "arrived" /\ Phase(s)' = "greeting"
            \/ Phase(s) = "greeting" /\ Phase(s)' = "met"
<1>0. /\ registered \subseteq Sessions /\ connected \subseteq registered
      /\ reading \in [Sessions -> {"off", "armed", "busy", "failed"}]
      /\ HandlerOnly /\ HandlerOnly'
  BY HandlerFrames, HandlerFramesNext DEF ServerInv, TypeOK, Stacks
<1>1. /\ {"onConnect"} \in SUBSET AcceptPlaces
      /\ {"hook", "connect", "onConnect"} \in SUBSET AcceptPlaces
      /\ {"hook", "connect"} \in SUBSET AcceptPlaces
      /\ {"register", "hook", "connect", "onConnect", "start", "rearm"} \subseteq AcceptPlaces
  BY DEF AcceptPlaces
<1>. DEFINE Early(r) == OnStack(r, {"hook", "connect", "onConnect"})
            On(r) == OnStack(r, {"hook", "connect"})
<1>2. \A q \in AcceptPlaces, r \in Sessions :
        /\ Handling(t, q, s) =>
             /\ Greeting(r) <=> r = s /\ q = "onConnect"
             /\ On(r) <=> r = s /\ q \in {"hook", "connect"}
             /\ Early(r) <=> r = s /\ q \in {"hook", "connect", "onConnect"}
        /\ Handling(t, q, s)' => (Greeting(r)' <=> r = s /\ q = "onConnect")
        /\ Idle => ~Greeting(r)
        /\ Idle' => ~Greeting(r)'
  <2>1. \A places \in SUBSET AcceptPlaces, r \in Sessions, q \in AcceptPlaces :
          /\ Idle => ~OnStack(r, places)
          /\ Handling(t, q, s) => (OnStack(r, places) <=>
               r = s /\ (q \in places \/ (q = "onConnect" /\ "start" \in places)))
    BY <1>0 DEF HandlerOnly, Idle
  <2>2. \A places \in SUBSET AcceptPlaces, r \in Sessions, q \in AcceptPlaces :
          /\ Idle' => ~OnStack(r, places)'
          /\ Handling(t, q, s)' => (OnStack(r, places)' <=>
               r = s /\ (q \in places \/ (q = "onConnect" /\ "start" \in places)))
    BY <1>0 DEF HandlerOnly, Idle
  <2>3. ASSUME NEW q \in AcceptPlaces, NEW r \in Sessions, Handling(t, q, s)
        PROVE  /\ Greeting(r) <=> r = s /\ q = "onConnect"
               /\ On(r) <=> r = s /\ q \in {"hook", "connect"}
               /\ Early(r) <=> r = s /\ q \in {"hook", "connect", "onConnect"}
    BY <1>1, <2>1, <2>3 DEF Greeting
  <2>4. ASSUME NEW q \in AcceptPlaces, NEW r \in Sessions, Handling(t, q, s)'
        PROVE  Greeting(r)' <=> r = s /\ q = "onConnect"
    BY <1>1, <2>2, <2>4 DEF Greeting
  <2>5. \A r \in Sessions : (Idle => ~Greeting(r)) /\ (Idle' => ~Greeting(r)')
    BY <1>1, <2>1, <2>2 DEF Greeting
  <2>. QED
    BY <2>3, <2>4, <2>5
<1>3. \A r \in Sessions :
        /\ Greeting(r) => r \in connected /\ reading[r] = "off"
        /\ Phase(r) \in {"arrived", "greeting"} => Early(r)
        /\ r \in registered \ connected => On(r)
        /\ r \in connected => ~On(r)
  <2>1. \A r \in Sessions :
          /\ Greeting(r) => r \in connected /\ reading[r] = "off"
          /\ Phase(r) \in {"arrived", "greeting"} => Early(r)
    BY Phases
  <2>2. \A r \in Sessions : /\ r \in registered \ connected => On(r)
                            /\ r \in connected => ~On(r)
    BY DEF WelcomeInv
  <2>. QED
    BY <2>1, <2>2
<1>4. \A r \in Sessions :
        Phase(r) = IF r \notin registered THEN "unknown"
                   ELSE IF r \notin connected THEN "arrived"
                   ELSE IF Greeting(r) THEN "greeting"
                   ELSE IF reading[r] = "busy" THEN "talking"
                   ELSE IF reading[r] = "failed" THEN "lost" ELSE "met"
  BY DEF Phase, Greeting
<1>5. \A r \in Sessions :
        Phase(r)' = IF r \notin registered' THEN "unknown"
                    ELSE IF r \notin connected' THEN "arrived"
                    ELSE IF Greeting(r)' THEN "greeting"
                    ELSE IF reading'[r] = "busy" THEN "talking"
                    ELSE IF reading'[r] = "failed" THEN "lost" ELSE "met"
  BY DEF Phase, Greeting
<1>. HIDE DEF Early, On
<1>. HIDE DEF Greeting
<1>6. ASSUME Idle, Handling(t, "register", s)', UNCHANGED <<registered, connected, reading>>
      PROVE  \A r \in Sessions : Phase(r)' = Phase(r)
  <2>1. \A r \in Sessions : ~Greeting(r) /\ ~Greeting(r)'
    BY <1>1, <1>2, <1>6
  <2>. QED
    BY <1>4, <1>5, <1>6, <2>1
<1>7. ASSUME Handling(t, "register", s), Handling(t, "hook", s)',
             s \notin registered, registered' = registered \cup {s},
             UNCHANGED <<connected, reading>>
      PROVE  /\ \A r \in Sessions : r # s => Phase(r)' = Phase(r)
             /\ Phase(s) = "unknown" /\ Phase(s)' = "arrived"
             /\ \A r \in Sessions : Phase(r) \notin {"arrived", "greeting"}
  <2>1. \A r \in Sessions : ~Greeting(r) /\ ~Greeting(r)' /\ ~Early(r)
    BY <1>1, <1>2, <1>7
  <2>. QED
    BY <1>0, <1>3, <1>4, <1>5, <1>7, <2>1
<1>8. ASSUME Handling(t, "hook", s), Handling(t, "connect", s)',
             UNCHANGED <<registered, connected, reading>>
      PROVE  \A r \in Sessions : Phase(r)' = Phase(r)
  <2>1. \A r \in Sessions : ~Greeting(r) /\ ~Greeting(r)'
    BY <1>1, <1>2, <1>8
  <2>. QED
    BY <1>4, <1>5, <1>8, <2>1
<1>9. ASSUME Handling(t, "connect", s), Handling(t, "onConnect", s)',
             connected' = connected \cup {s}, UNCHANGED <<registered, reading>>,
             connected' \subseteq registered'
      PROVE  /\ \A r \in Sessions : r # s => Phase(r)' = Phase(r)
             /\ Phase(s) = "arrived" /\ Phase(s)' = "greeting"
  <2>1. /\ \A r \in Sessions : ~Greeting(r) /\ (Greeting(r)' <=> r = s)
        /\ On(s)
    BY <1>1, <1>2, <1>9
  <2>2. s \in registered /\ s \notin connected
    BY <1>3, <1>9, <2>1
  <2>. QED
    BY <1>4, <1>5, <1>9, <2>1, <2>2
<1>10. ASSUME Handling(t, "onConnect", s), Handling(t, "start", s)',
              UNCHANGED <<registered, connected, reading>>
       PROVE  /\ \A r \in Sessions : r # s => Phase(r)' = Phase(r)
              /\ Phase(s) = "greeting" /\ Phase(s)' = "met"
  <2>1. \A r \in Sessions : (Greeting(r) <=> r = s) /\ ~Greeting(r)'
    BY <1>1, <1>2, <1>10
  <2>2. s \in connected /\ s \in registered /\ reading[s] = "off"
    BY <1>0, <1>3, <2>1
  <2>. QED
    BY <1>4, <1>5, <1>10, <2>1, <2>2
<1>11. ASSUME Handling(t, "start", s), Handling(t, "rearm", s)',
              reading' = [reading EXCEPT ![s] = "armed"], reading[s] = "off",
              UNCHANGED <<registered, connected>>
       PROVE  \A r \in Sessions : Phase(r)' = Phase(r)
  <2>1. \A r \in Sessions : ~Greeting(r) /\ ~Greeting(r)'
    BY <1>1, <1>2, <1>11
  <2>2. \A r \in Sessions : /\ reading[r] = "busy" <=> reading'[r] = "busy"
                            /\ reading[r] = "failed" <=> reading'[r] = "failed"
    BY <1>0, <1>11
  <2>. QED
    BY <1>4, <1>5, <1>11, <2>1, <2>2
<1>12. ASSUME Handling(t, "rearm", s), Idle', UNCHANGED <<registered, connected, reading>>
       PROVE  \A r \in Sessions : Phase(r)' = Phase(r)
  <2>1. \A r \in Sessions : ~Greeting(r) /\ ~Greeting(r)'
    BY <1>1, <1>2, <1>12
  <2>. QED
    BY <1>4, <1>5, <1>12, <2>1
<1>13. connected' \subseteq registered'
  BY DEF ServerInv, TypeOK
<1>14. Handling(t, "start", s) => reading[s] = "off"
  <2>. SUFFICES ASSUME Handling(t, "start", s)  PROVE reading[s] = "off"
    OBVIOUS
  <2>1. 1 \in DOMAIN stack[t] /\ stack[t][1].at = "start" /\ stack[t][1].s = s
    BY Inside DEF Handling, ServerInv, TypeOK, Stacks
  <2>. QED
    BY <2>1 DEF ServerInv, ConnectInv, AtIn, Unstarted
<1>. QED
  BY <1>6, <1>7, <1>8, <1>9, <1>10, <1>11, <1>12, <1>13, <1>14 DEF HandlerStep

LEMMA OtherPhase ==
  ASSUME ServerInv, WelcomeInv, ServerInv', OtherStep
  PROVE  \/ /\ \A r \in Sessions : Phase(r)' = Phase(r)
            /\ \/ UNCHANGED <<disconnects, acceptFailed>>
               \/ /\ UNCHANGED disconnects /\ acceptFailed' = TRUE
                  /\ \A r \in Sessions : Phase(r) \notin {"arrived", "greeting"}
               \/ /\ UNCHANGED acceptFailed
                  /\ \E s \in Sessions :
                       /\ Phase(s) # "unknown" /\ disconnects[s] = 0
                       /\ disconnects' = [disconnects EXCEPT ![s] = 1]
         \/ /\ UNCHANGED <<disconnects, acceptFailed>>
            /\ \E s \in Sessions :
                 /\ \A r \in Sessions : r # s => Phase(r)' = Phase(r)
                 /\ \/ Phase(s) = "met" /\ Phase(s)' = "talking"
                    \/ Phase(s) = "talking" /\ Phase(s)' = "met"
                    \/ Phase(s) = "met" /\ Phase(s)' = "lost"
<1>0. /\ pool \subseteq registered /\ registered \subseteq Sessions
      /\ reading \in [Sessions -> {"off", "armed", "busy", "failed"}]
      /\ disconnects \in [Sessions -> Nat] /\ HandlerOnly
  BY HandlerFrames DEF ServerInv, TypeOK, Stacks
<1>1. \A r \in Sessions : Greeting(r)' <=> Greeting(r)
  <2>1. {"onConnect"} \in SUBSET AcceptPlaces
    BY DEF AcceptPlaces
  <2>. QED
    BY <2>1 DEF OtherStep, Still, Greeting
<1>2. /\ \A r \in Sessions :
           Phase(r) = IF r \notin registered THEN "unknown"
                      ELSE IF r \notin connected THEN "arrived"
                      ELSE IF Greeting(r) THEN "greeting"
                      ELSE IF reading[r] = "busy" THEN "talking"
                      ELSE IF reading[r] = "failed" THEN "lost" ELSE "met"
      /\ \A r \in Sessions :
           Phase(r)' = IF r \notin registered' THEN "unknown"
                       ELSE IF r \notin connected' THEN "arrived"
                       ELSE IF Greeting(r)' THEN "greeting"
                       ELSE IF reading'[r] = "busy" THEN "talking"
                       ELSE IF reading'[r] = "failed" THEN "lost" ELSE "met"
  BY DEF Phase, Greeting
<1>3. \A r \in Sessions :
        /\ Greeting(r) => r \in connected /\ reading[r] = "off"
        /\ reading[r] # "off" => r \in connected
        /\ r \in connected => r \in registered
        /\ Phase(r) \in {"arrived", "greeting"} =>
             OnStack(r, {"hook", "connect", "onConnect"})
  BY Phases
<1>. HIDE DEF Greeting
<1>4. UNCHANGED <<registered, connected>>
  BY DEF OtherStep
<1>5. reading' = reading => \A r \in Sessions : Phase(r)' = Phase(r)
  BY <1>1, <1>2, <1>4
<1>6. ASSUME NEW s \in Sessions,
             Reads(s, "armed", "busy") \/ Reads(s, "busy", "armed")
             \/ Reads(s, "armed", "failed")
      PROVE  /\ \A r \in Sessions : r # s => Phase(r)' = Phase(r)
             /\ \/ Phase(s) = "met" /\ Phase(s)' = "talking"
                \/ Phase(s) = "talking" /\ Phase(s)' = "met"
                \/ Phase(s) = "met" /\ Phase(s)' = "lost"
  <2>1. s \in connected /\ s \in registered /\ ~Greeting(s) /\ ~Greeting(s)'
    BY <1>1, <1>3, <1>6 DEF Reads
  <2>2. \A r \in Sessions : r # s => reading'[r] = reading[r]
    BY <1>0, <1>6 DEF Reads
  <2>3. \A r \in Sessions : r # s => Phase(r)' = Phase(r)
    BY <1>1, <1>2, <1>4, <2>2
  <2>4. \/ reading[s] = "armed" /\ reading'[s] = "busy"
        \/ reading[s] = "busy" /\ reading'[s] = "armed"
        \/ reading[s] = "armed" /\ reading'[s] = "failed"
    BY <1>0, <1>6 DEF Reads
  <2>. QED
    BY <1>2, <1>4, <2>1, <2>3, <2>4
<1>7. ASSUME Idle  PROVE \A r \in Sessions : Phase(r) \notin {"arrived", "greeting"}
  <2>1. {"hook", "connect", "onConnect"} \in SUBSET AcceptPlaces
    BY DEF AcceptPlaces
  <2>. QED
    BY <1>0, <1>3, <1>7, <2>1 DEF HandlerOnly, Idle
<1>8. ASSUME NEW s \in pool, disconnects' = [disconnects EXCEPT ![s] = @ + 1]
      PROVE  /\ Phase(s) # "unknown" /\ disconnects[s] = 0
             /\ disconnects' = [disconnects EXCEPT ![s] = 1]
  <2>1. disconnects'[s] = disconnects[s] + 1 /\ disconnects[s] \in Nat
    BY <1>0, <1>8
  <2>2. disconnects'[s] \in {0, 1}
    BY <1>0 DEF ServerInv, DisconnectInv
  <2>3. disconnects[s] = 0 /\ disconnects[s] + 1 = 1
    BY <2>1, <2>2
  <2>. QED
    BY <1>0, <1>2, <1>8, <2>3
<1>. QED
  BY <1>0, <1>5, <1>6, <1>7, <1>8 DEF OtherStep

LEMMA ShownStep ==
  ASSUME ServerInv, WelcomeInv, ServerInv', [Next]_vars
  PROVE  [Shown!Next]_(Shown!connVars)
<1>. DEFINE P == [r \in Sessions |-> Phase(r)]
<1>1. P \in [Sessions -> {"unknown", "arrived", "greeting", "met", "talking", "lost"}]
      /\ \A r \in Sessions : P[r] = Phase(r)
  BY DEF Phase
<1>2. (\A r \in Sessions : Phase(r)' = Phase(r)) => P' = P
  OBVIOUS
<1>3. ASSUME NEW s \in Sessions, NEW to, Phase(s)' = to,
             \A r \in Sessions : r # s => Phase(r)' = Phase(r)
      PROVE  P' = [P EXCEPT ![s] = to]
  BY <1>1, <1>3
<1>4. (\A r \in Sessions : Phase(r) \notin {"arrived", "greeting"}) =>
        ~\E r \in Sessions : P[r] \in {"arrived", "greeting"}
  BY <1>1
<1>. HIDE DEF P
<1>5. ASSUME NEW s \in Sessions, NEW from, NEW to, Phase(s) = from, Phase(s)' = to,
             \A r \in Sessions : r # s => Phase(r)' = Phase(r),
             UNCHANGED <<disconnects, acceptFailed>>
      PROVE  Shown!Goes(s, from, to)
  BY <1>1, <1>3, <1>5 DEF Shown!Goes, P
<1>6. ASSUME \A r \in Sessions : Phase(r)' = Phase(r), UNCHANGED <<disconnects, acceptFailed>>
      PROVE  UNCHANGED Shown!connVars
  BY <1>2, <1>6 DEF Shown!connVars, P
<1>7. CASE OtherStep
  <2>1. CASE UNCHANGED <<disconnects, acceptFailed>>
             /\ \A r \in Sessions : Phase(r)' = Phase(r)
    BY <1>6, <2>1
  <2>2. CASE /\ \A r \in Sessions : Phase(r)' = Phase(r)
             /\ UNCHANGED disconnects /\ acceptFailed' = TRUE
             /\ \A r \in Sessions : Phase(r) \notin {"arrived", "greeting"}
    BY <1>2, <1>4, <2>2 DEF Shown!Next, Shown!Refuse, Shown!Welcoming, P
  <2>3. CASE /\ \A r \in Sessions : Phase(r)' = Phase(r)
             /\ UNCHANGED acceptFailed
             /\ \E s \in Sessions : /\ Phase(s) # "unknown" /\ disconnects[s] = 0
                                    /\ disconnects' = [disconnects EXCEPT ![s] = 1]
    BY <1>1, <1>2, <2>3 DEF Shown!Next, Shown!Drop, P
  <2>4. ASSUME NEW s \in Sessions, UNCHANGED <<disconnects, acceptFailed>>,
               \A r \in Sessions : r # s => Phase(r)' = Phase(r),
               \/ Phase(s) = "met" /\ Phase(s)' = "talking"
               \/ Phase(s) = "talking" /\ Phase(s)' = "met"
               \/ Phase(s) = "met" /\ Phase(s)' = "lost"
        PROVE  Shown!Next
    BY <1>5, <2>4 DEF Shown!Next, Shown!Hear, Shown!Answer, Shown!Lose
  <2>. QED
    BY <1>7, <2>1, <2>2, <2>3, <2>4, OtherPhase
<1>8. ASSUME NEW t \in Threads, NEW s \in Sessions, HandlerStep(t, s)
      PROVE  [Shown!Next]_(Shown!connVars)
  <2>1. /\ \A r \in Sessions : r # s => Phase(r)' = Phase(r)
        /\ UNCHANGED <<disconnects, acceptFailed>>
    BY <1>8, HandlerPhase
  <2>2. CASE Phase(s)' = Phase(s)
    BY <1>6, <2>1, <2>2
  <2>3. CASE /\ Phase(s) = "unknown" /\ Phase(s)' = "arrived" /\ ~acceptFailed
             /\ \A r \in Sessions : Phase(r) \notin {"arrived", "greeting"}
    BY <1>4, <1>5, <2>1, <2>3 DEF Shown!Next, Shown!Arrive, Shown!Welcoming, P
  <2>4. CASE Phase(s) = "arrived" /\ Phase(s)' = "greeting"
    BY <1>5, <2>1, <2>4 DEF Shown!Next, Shown!Greet
  <2>5. CASE Phase(s) = "greeting" /\ Phase(s)' = "met"
    BY <1>5, <2>1, <2>5 DEF Shown!Next, Shown!Greeted
  <2>. QED
    BY <1>8, <2>2, <2>3, <2>4, <2>5, HandlerPhase
<1>. QED
  BY <1>7, <1>8, UserView

(* To its user the server is what module Connections says.                 *)
THEOREM ServerShowsConnections == Spec => ImplementsConnections
<1>1. Init => Shown!Init
  BY DEF Init, Shown!Init, Phase
<1>2. ServerInv /\ WelcomeInv /\ ServerInv' /\ [Next]_vars
        => [Shown!Next]_(Shown!connVars)
  BY ShownStep
<1>. QED
  BY ServerInductive, WelcomeInvariant, <1>1, <1>2, PTL
  DEF Spec, ImplementsConnections, Shown!Spec
-----------------------------------------------------------------------------
(* The mutex and its owner.                                                *)
LEMMA HolderOthers ==
  ASSUME stack \in Stacks, HolderInv, NEW places, places \cap Guarded = {},
         MovesIn(places), poolMtx' = poolMtx
  PROVE  HolderInv'
<1>. SUFFICES ASSUME NEW u \in Threads, poolMtx = u
     PROVE  \E i \in DOMAIN stack'[u] : AtIn(u, i, Guarded)'
  BY DEF HolderInv
<1>1. PICK i \in DOMAIN stack[u] : AtIn(u, i, Guarded)
  BY DEF HolderInv
<1>2. PICK d \in {-1, 0, 1} : Keeps(u, d, Guarded)
  BY Stay
<1>. QED
  BY <1>1, <1>2 DEF Keeps, AtIn

LEMMA HolderNext ==
  ASSUME ServerInv, HolderInv, [Next]_vars
  PROVE  HolderInv'
<1>0. /\ TypeOK /\ FrameInv /\ LinkInv /\ AcceptInv /\ MutexInv
      /\ stack \in Stacks /\ pool \subseteq Sessions
  BY DEF ServerInv, TypeOK, Stacks
<1>. USE DEF acceptVars, poolVars, linkVars
<1>1. CASE UNCHANGED vars \/ Accepted
  BY <1>1 DEF vars, Accepted, HolderInv, AtIn
<1>2. CASE QuietStep
  BY <1>0, <1>2, HolderOthers, PlacesApart DEF QuietStep
<1>3. ASSUME NEW t \in Threads, AcceptSteps(t)  PROVE HolderInv'
  BY <1>0, <1>3, AcceptMove, HolderOthers, PlacesApart
<1>4. ASSUME NEW t \in Threads, MessageSteps(t)  PROVE HolderInv'
  <2>1. poolMtx' = poolMtx
    BY <1>4 DEF MessageSteps, ReturnShort, ReturnMessage, TakeMessage
  <2>. QED
    BY <1>0, <1>4, <2>1, MessageMove, HolderOthers, PlacesApart
<1>5. ASSUME NEW t \in Threads, NEW i, poolMtx' = t, i \in DOMAIN stack'[t],
             stack'[t][i].at \in Guarded
      PROVE  HolderInv'
  BY <1>5 DEF HolderInv, AtIn
<1>6. ASSUME poolMtx' = NoThread  PROVE HolderInv'
  BY <1>6, ServerAssumption DEF HolderInv
<1>7. ASSUME NEW t \in Threads, NEW r \in Sessions,
             stack[t] # <<>>, stack' \in Stacks, poolMtx' = t,
             \/ Swapped(t, FrameOf("sweep", r)) \/ Swapped(t, FrameOf("advance", r))
             \/ Called(t, FrameOf("onDisconnect", r), FrameOf("closing", r))
             \/ Called(t, FrameOf("onDisconnect", r), FrameOf("sweeping", r))
      PROVE  HolderInv'
  <2>1. /\ Len(stack[t]) \in Nat \ {0}
        /\ DOMAIN stack'[t] = 1 .. Len(stack'[t])
    BY <1>0, <1>7, Innermost, Depths
  <2>2. \A place \in {"sweep", "advance", "closing", "sweeping"} :
          FrameOf(place, r).at \in Guarded
    BY DEF FrameOf, Guarded
  <2>3. CASE Swapped(t, FrameOf("sweep", r)) \/ Swapped(t, FrameOf("advance", r))
    <3>1. 1 \in DOMAIN stack'[t] /\ stack'[t][1].at \in Guarded
      BY <2>1, <2>2, <2>3 DEF Swapped, IsSwap
    <3>. QED
      BY <1>5, <1>7, <3>1
  <2>4. CASE \/ Called(t, FrameOf("onDisconnect", r), FrameOf("closing", r))
             \/ Called(t, FrameOf("onDisconnect", r), FrameOf("sweeping", r))
    <3>1. 2 \in DOMAIN stack'[t] /\ stack'[t][2].at \in Guarded
      BY <2>1, <2>2, <2>4 DEF Called, IsCall
    <3>. QED
      BY <1>5, <1>7, <3>1
  <2>. QED
    BY <1>7, <2>3, <2>4
<1>8. ASSUME NEW t \in Threads, GuardedSteps(t)  PROVE HolderInv'
  <2>1. \A q : In(t, q) => stack[t] # <<>>
    BY DEF In
  <2>2. CASE CloseErase(t)
    BY <1>6, <2>2 DEF CloseErase, EndGuard
  <2>3. CASE CloseFind(t) /\ Its(t) \in pool
    <3>1. PICK r \in Sessions : r = Its(t)
      BY <1>0, <2>3
    <3>2. /\ stack[t] # <<>> /\ stack' \in Stacks /\ poolMtx' = t
          /\ Called(t, FrameOf("onDisconnect", r), FrameOf("closing", r))
      BY <1>0, <2>1, <2>3, <3>1, CalledBack, PlaceNames, CallMoves
      DEF CloseFind, Disconnect, Locks, FrameOf
    <3>. QED
      BY <1>7, <3>2
  <2>4. CASE CloseAllLock(t) \/ SweepAdvance(t)
    <3>1. /\ stack[t] # <<>> /\ stack' \in Stacks
          /\ \/ poolMtx' = NoThread
             \/ \E r \in pool : Swapped(t, FrameOf("sweep", r)) /\ poolMtx' = t
      BY <1>0, <2>1, <2>4, CallMoves
    <3>. QED
      BY <1>0, <1>6, <1>7, <3>1
  <2>5. CASE Sweep(t) \/ SweepErase(t)
    <3>1. /\ In(t, "sweep") \/ In(t, "sweeping")
          /\ Its(t) \in Sessions /\ poolMtx = t /\ stack' \in Stacks
      BY <1>0, <2>5, WhoGuards, CallMoves DEF Guarded
    <3>2. poolMtx' = t
      BY <2>5, <3>1 DEF Sweep, SweepErase, Disconnect, Locks
    <3>3. \/ Swapped(t, FrameOf("advance", Its(t)))
          \/ Called(t, FrameOf("onDisconnect", Its(t)), FrameOf("sweeping", Its(t)))
      BY <1>0, <2>5, CallMoves
    <3>. QED
      BY <1>7, <2>1, <3>1, <3>2, <3>3
  <2>. QED
    BY <1>8, <2>2, <2>3, <2>4, <2>5 DEF GuardedSteps
<1>. QED
  BY <1>0, <1>1, <1>2, <1>3, <1>4, <1>8, Outline

(* sess_pool_mtx is never left locked: whoever owns it is between a lock   *)
(* and its end.                                                            *)
THEOREM MutexIsHeld == Spec => []HolderInv
<1>1. Init => HolderInv
  BY ServerAssumption DEF Init, HolderInv
<1>2. ServerInv /\ HolderInv /\ [Next]_vars => HolderInv'
  BY HolderNext
<1>. QED
  BY ServerInductive, <1>1, <1>2, PTL DEF Spec
-----------------------------------------------------------------------------
(* A move of a thread t that is not in onDisconnect keeps InnerInv, and so  *)
(* does one that ends a function.                                          *)
LEMMA InnerMoves ==
  ASSUME stack \in Stacks, stack' \in Stacks, InnerInv, NEW t \in Threads
  PROVE  /\ stack' = stack => InnerInv'
         /\ Popped(t) /\ stack[t] # <<>> => InnerInv'
         /\ \A f \in Frame :
              /\ Pushed(t, f) /\ f.at \notin Guarded
              /\ stack[t] # <<>> => stack[t][1].at \notin Guarded \cup {"onDisconnect"}
              => InnerInv'
         /\ \A f \in Frame :
              Swapped(t, f) /\ stack[t] # <<>> /\ stack[t][1].at # "onDisconnect"
              => InnerInv'
         /\ \A f, g \in Frame :
              /\ Called(t, f, g) /\ stack[t] # <<>> /\ stack[t][1].at # "onDisconnect"
              /\ f.at \notin Guarded /\ (g.at \in Guarded => f.at = "onDisconnect")
              => InnerInv'
<1>. DEFINE Inner(q) == \A i \in DOMAIN q : q[i].at \in Guarded =>
                          i = 1 \/ (i = 2 /\ q[1].at = "onDisconnect")
<1>0. /\ DOMAIN stack[t] = 1 .. Len(stack[t]) /\ DOMAIN stack'[t] = 1 .. Len(stack'[t])
      /\ Len(stack[t]) \in Nat /\ Len(stack'[t]) \in Nat
      /\ stack[t] # <<>> => Len(stack[t]) >= 1
  BY Depths, Innermost
<1>1. Inner(stack[t])
  BY DEF InnerInv, AtIn
<1>2. ASSUME OthersStay(t), Inner(stack'[t])  PROVE InnerInv'
  <2>1. ASSUME NEW u \in Threads  PROVE Inner(stack'[u])
    <3>1. CASE u = t
      BY <1>2, <3>1
    <3>2. CASE u # t
      BY <1>2, <3>2 DEF OthersStay, InnerInv, AtIn
    <3>. QED
      BY <3>1, <3>2
  <2>. QED
    BY <2>1 DEF InnerInv, AtIn
<1>3. ASSUME stack' = stack  PROVE InnerInv'
  BY <1>3 DEF InnerInv, AtIn
<1>4. ASSUME Popped(t), stack[t] # <<>>  PROVE InnerInv'
  <2>1. ASSUME NEW i \in DOMAIN stack'[t], stack'[t][i].at \in Guarded  PROVE i = 1
    <3>1. i + 1 \in DOMAIN stack[t] /\ stack'[t][i] = stack[t][i + 1] /\ i \in Nat
      BY <1>0, <1>4, <2>1 DEF Popped, IsPop
    <3>2. i + 1 = 1 \/ i + 1 = 2
      BY <1>1, <2>1, <3>1
    <3>. QED
      BY <1>0, <2>1, <3>1, <3>2
  <2>. QED
    BY <1>2, <1>4, <2>1 DEF Popped
<1>5. ASSUME NEW f \in Frame, Pushed(t, f), f.at \notin Guarded,
             stack[t] # <<>> => stack[t][1].at \notin Guarded \cup {"onDisconnect"}
      PROVE  InnerInv'
  <2>1. ASSUME NEW i \in DOMAIN stack[t]  PROVE stack[t][i].at \notin Guarded
    <3>1. stack[t] # <<>>
      BY <2>1, EmptySeq
    <3>. QED
      BY <1>1, <1>5, <2>1, <3>1
  <2>2. ASSUME NEW i \in DOMAIN stack'[t]  PROVE stack'[t][i].at \notin Guarded
    <3>1. CASE i = 1
      BY <1>5, <3>1 DEF Pushed, IsPush
    <3>2. CASE i # 1
      <4>1. i - 1 \in DOMAIN stack[t] /\ stack'[t][i] = stack[t][i - 1]
        BY <1>0, <1>5, <2>2, <3>2, SMTT(60) DEF Pushed, IsPush
      <4>. QED
        BY <2>1, <4>1
    <3>. QED
      BY <3>1, <3>2
  <2>. QED
    BY <1>2, <1>5, <2>2 DEF Pushed
<1>6. ASSUME stack[t] # <<>>, stack[t][1].at # "onDisconnect",
             NEW i \in DOMAIN stack[t], i # 1
      PROVE  stack[t][i].at \notin Guarded
  BY <1>1, <1>6
<1>7. ASSUME NEW f \in Frame, Swapped(t, f), stack[t] # <<>>,
             stack[t][1].at # "onDisconnect"
      PROVE  InnerInv'
  <2>1. ASSUME NEW i \in DOMAIN stack'[t], i # 1  PROVE stack'[t][i].at \notin Guarded
    <3>1. i \in DOMAIN stack[t] /\ stack'[t][i] = stack[t][i]
      BY <1>0, <1>7, <2>1 DEF Swapped, IsSwap
    <3>. QED
      BY <1>6, <1>7, <2>1, <3>1
  <2>. QED
    BY <1>2, <1>7, <2>1 DEF Swapped
<1>8. ASSUME NEW f \in Frame, NEW g \in Frame, Called(t, f, g), stack[t] # <<>>,
             stack[t][1].at # "onDisconnect",
             f.at \notin Guarded, g.at \in Guarded => f.at = "onDisconnect"
      PROVE  InnerInv'
  <2>1. ASSUME NEW i \in DOMAIN stack'[t], i # 1, i # 2
        PROVE  stack'[t][i].at \notin Guarded
    <3>1. /\ i \in 3 .. Len(stack'[t]) /\ Len(stack'[t]) = Len(stack[t]) + 1
          /\ i - 1 # 1
      BY <1>0, <1>8, <2>1 DEF Called, IsCall
    <3>2. i - 1 \in DOMAIN stack[t] /\ stack'[t][i] = stack[t][i - 1]
      BY <1>0, <1>8, <3>1, SMTT(60) DEF Called, IsCall
    <3>. QED
      BY <1>6, <1>8, <3>1, <3>2
  <2>2. stack'[t][1] = f /\ stack'[t][2] = g
    BY <1>8 DEF Called, IsCall
  <2>. QED
    BY <1>2, <1>8, <2>1, <2>2 DEF Called
<1>. QED
  BY <1>3, <1>4, <1>5, <1>7, <1>8

LEMMA InnerNext ==
  ASSUME "onDisconnect" \notin CallingCallbacks, ServerInv, InnerInv, [Next]_vars
  PROVE  InnerInv'
<1>0. /\ TypeOK /\ FrameInv /\ stack \in Stacks /\ stack' \in Stacks
      /\ pool \subseteq Sessions
  <2>1. TypeOK'
    BY TypeNext DEF ServerInv
  <2>. QED
    BY <2>1 DEF ServerInv, TypeOK, Stacks
<1>. USE DEF acceptVars, poolVars, linkVars
<1>1. ASSUME NEW t \in Threads, NEW q, In(t, q)
      PROVE  stack[t] # <<>> /\ stack[t][1].at = q /\ Its(t) \in Sessions \cup {NoSession}
  BY <1>0, <1>1, Inside
<1>2. \A place \in Places, s \in Sessions \cup {NoSession} :
        \E f \in Frame : f = FrameOf(place, s) /\ f.at = place
  BY FramesAre
<1>3. ASSUME NEW t \in Threads, NEW place \in Places \ Guarded,
             NEW s \in Sessions \cup {NoSession}, Pushed(t, FrameOf(place, s)),
             stack[t] # <<>> => stack[t][1].at \notin Guarded \cup {"onDisconnect"}
      PROVE  InnerInv'
  BY <1>0, <1>2, <1>3, InnerMoves
<1>4. ASSUME NEW t \in Threads, NEW q, In(t, q), q # "onDisconnect",
             NEW place \in Places, NEW s \in Sessions \cup {NoSession},
             Swapped(t, FrameOf(place, s))
      PROVE  InnerInv'
  BY <1>0, <1>1, <1>2, <1>4, InnerMoves
<1>5. ASSUME NEW t \in Threads, NEW q, In(t, q), Popped(t)
      PROVE  InnerInv'
  BY <1>0, <1>1, <1>5, InnerMoves
<1>6. ASSUME NEW t \in Threads, NEW q, In(t, q), q # "onDisconnect",
             NEW place \in Places, NEW callback \in Places \ Guarded,
             NEW s \in Sessions \cup {NoSession},
             place \in Guarded => callback = "onDisconnect",
             Called(t, FrameOf(callback, s), FrameOf(place, s))
      PROVE  InnerInv'
  <2>1. PICK f \in Frame : f = FrameOf(callback, s) /\ f.at = callback
    BY <1>2
  <2>2. PICK g \in Frame : g = FrameOf(place, s) /\ g.at = place
    BY <1>2
  <2>. QED
    BY <1>0, <1>1, <1>6, <2>1, <2>2, InnerMoves
<1>7. /\ {"register", "onMessage", "onError", "close", "hook", "connect", "onConnect",
          "onDisconnect", "start", "rearm", "write", "send", "broadcast", "closeAll",
          "stop"} \subseteq Places \ Guarded
      /\ {"closing", "sweep", "sweeping", "advance"} \subseteq Places \cap Guarded
      /\ Calls \subseteq Places \ Guarded /\ Ends \subseteq Places \ Guarded
      /\ Shows \subseteq Places \ Guarded
  BY PlaceNames, ServerAssumption DEF Guarded, Ends, Shows
<1>8. ASSUME NEW t \in Threads, AcceptSteps(t) \/ TakeAcceptError(t)
      PROVE  InnerInv'
  <2>1. CASE Register(t) \/ Hook(t) \/ Start(t)
    BY <1>0, <1>1, <1>4, <1>7, <2>1, AcceptMoves
  <2>2. CASE Connect(t)
    BY <1>0, <1>1, <1>6, <1>7, <2>2, AcceptMoves
  <2>3. CASE Rearm(t) \/ ReturnPlain(t)
    BY <1>0, <1>5, <2>3, AcceptMoves, SessionMoves
  <2>4. CASE TakeAcceptError(t) \/ \E s \in Sessions : TakeAccept(t, s)
    BY <1>0, <1>3, <1>7, <2>4, AcceptMoves
  <2>. QED
    BY <1>8, <2>1, <2>2, <2>3, <2>4 DEF AcceptSteps
<1>9. ASSUME NEW t \in Threads, NEW s \in Sessions,
             \/ TakeWriteError(t, s) \/ TakeWritten(t, s)
             \/ \E show \in Shows : TakeMessage(t, s, show)
             \/ \E end \in Ends : TakeReadError(t, s, end)
      PROVE  InnerInv'
  BY <1>0, <1>3, <1>7, <1>9, SessionMoves, InnerMoves
<1>10. ASSUME NEW t \in Threads,
              ReturnShort(t) \/ ReturnMessage(t) \/ ReturnError(t) \/ ReturnPlain(t)
       PROVE  InnerInv'
  BY <1>0, <1>1, <1>4, <1>5, <1>7, <1>10, SessionMoves
<1>11. ASSUME NEW t \in Threads, NEW call \in Calls, NEW s \in Sessions \cup {NoSession},
              Call(t, call, s)
       PROVE  InnerInv'
  <2>1. stack[t] # <<>> => stack[t][1].at \in CallingCallbacks \cup {"onShort"}
    BY <1>0, <1>11, Innermost DEF Call, MayCall, In
  <2>2. (CallingCallbacks \cup {"onShort"}) \cap (Guarded \cup {"onDisconnect"}) = {}
    BY ServerAssumption DEF Guarded
  <2>. QED
    BY <1>0, <1>3, <1>7, <1>11, <2>1, <2>2, SessionMoves
<1>12. ASSUME NEW t \in Threads,
              \/ WriteFind(t) \/ WriteSend(t) \/ Broadcast(t) \/ CloseErase(t) \/ Stop(t)
       PROVE  InnerInv'
  BY <1>0, <1>1, <1>4, <1>5, <1>7, <1>12, CallMoves
<1>13. ASSUME NEW t \in Threads,
              CloseFind(t) \/ Sweep(t) \/ SweepErase(t) \/ CloseAllLock(t)
              \/ SweepAdvance(t) \/ SweepCrash(t)
       PROVE  InnerInv'
  <2>1. CASE CloseFind(t) \/ Sweep(t)
    BY <1>0, <1>1, <1>5, <1>6, <1>7, <2>1, CallMoves
  <2>2. CASE SweepErase(t)
    BY <1>0, <1>1, <1>4, <1>7, <2>2, CallMoves
  <2>3. CASE CloseAllLock(t) \/ SweepAdvance(t)
    <3>1. /\ In(t, "closeAll") \/ In(t, "advance")
          /\ Popped(t) \/ \E s \in pool : Swapped(t, FrameOf("sweep", s))
      BY <1>0, <2>3, CallMoves
    <3>. QED
      BY <1>0, <1>4, <1>5, <1>7, <3>1
  <2>4. CASE SweepCrash(t)
    BY <1>0, <2>4, CallMoves, InnerMoves
  <2>. QED
    BY <1>13, <2>1, <2>2, <2>3, <2>4
<1>14. CASE Accepted \/ UNCHANGED vars
  BY <1>0, <1>14 DEF Accepted, vars, InnerInv, AtIn
<1>. QED
  BY <1>8, <1>9, <1>10, <1>11, <1>12, <1>13, <1>14, NextCases DEF AcceptSteps

(* A connection may be closed inside a callback, onDisconnect excepted.    *)
THEOREM CloseInCallback ==
  ASSUME "onDisconnect" \notin CallingCallbacks
  PROVE  Spec => []CallbackMayClose
<1>1. Init => InnerInv
  <2>1. DOMAIN <<>> = {}
    BY EmptySeq
  <2>. QED
    BY <2>1 DEF Init, InnerInv
<1>2. ServerInv /\ InnerInv /\ [Next]_vars => InnerInv'
  BY InnerNext
<1>3. ServerInv /\ HolderInv /\ InnerInv => CallbackMayClose
  <2>. SUFFICES ASSUME ServerInv, HolderInv, InnerInv, NEW t \in Threads, stack[t] # <<>>,
                       Head(stack[t]).at \in Locking, poolMtx = t
       PROVE  FALSE
    BY DEF CallbackMayClose
  <2>1. Head(stack[t]) = stack[t][1]
    BY Innermost DEF ServerInv, TypeOK, Stacks
  <2>2. PICK i \in DOMAIN stack[t] : stack[t][i].at \in Guarded
    BY DEF HolderInv, AtIn
  <2>3. stack[t][1].at \in Guarded \/ stack[t][1].at = "onDisconnect"
    BY <2>2 DEF InnerInv, AtIn
  <2>. QED
    BY <2>1, <2>3 DEF Locking, Guarded
<1>. QED
  BY ServerInductive, MutexIsHeld, <1>1, <1>2, <1>3, PTL DEF Spec
=============================================================================
