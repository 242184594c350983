--------------------------- MODULE ClientTCPProofs ---------------------------
(***************************************************************************)
(* Proofs about ClientTCP, and about the lengths of PakLength, for every   *)
(* width of int and size_t, every number of threads and every frame.       *)
(***************************************************************************)
EXTENDS ClientTCPProps, FiniteSetTheorems, TLAPS

(* What is in range stays what it is.                                      *)
LEMMA SmallMod ==
  ASSUME NEW m \in Nat \ {0}, NEW a \in 0 .. m - 1
  PROVE  a % m = a
OBVIOUS

(* A length an int holds survives the int.                                 *)
LEMMA SmallInt ==
  ASSUME NEW a \in 0 .. IntHalf - 1
  PROVE  AsInt(a) = a
<1>1. a % (2 * IntHalf) = a
  BY LengthAssumption, SmallMod
<1>. QED  BY <1>1, LengthAssumption DEF AsInt

(* Up to twice that it turns negative.                                     *)
LEMMA LargeInt ==
  ASSUME NEW a \in IntHalf .. 2 * IntHalf - 1
  PROVE  AsInt(a) = a - 2 * IntHalf
<1>1. a % (2 * IntHalf) = a
  BY LengthAssumption, SmallMod
<1>. QED  BY <1>1, LengthAssumption DEF AsInt

(* A length below zero wraps in a size_t, and an int gets it back.         *)
LEMMA NegativeInt ==
  ASSUME NEW a \in -IntHalf .. -1
  PROVE  AsInt(AsSize(a)) = a
<1>1. AsSize(a) = a + SizeMod
  BY LengthAssumption DEF AsSize
<1>2. (a + SizeMod) % (2 * IntHalf) = a + 2 * IntHalf
  BY LengthAssumption
<1>. QED  BY <1>1, <1>2, LengthAssumption DEF AsInt
-----------------------------------------------------------------------------
(* The length write() is called with is the length onMessage gets, as long *)
(* as an int holds it with its head; beyond that read_callback calls it    *)
(* too short up to twice the range of an int.                              *)
THEOREM RoundTrip ==
  ASSUME NEW length \in Nat
  PROVE  /\ length + HdLen < IntHalf =>
              ShownLength(FrameLength(length)) = length
         /\ length < IntHalf => ~TooShort(length + HdLen)
         /\ length \in IntHalf .. 2 * IntHalf - 1 => TooShort(length + HdLen)
<1>0. /\ IntHalf \in Nat /\ SizeMod \in Nat /\ HdLen \in Nat /\ IntHalf > 0
      /\ 2 * IntHalf <= SizeMod /\ (length + HdLen) - HdLen = length
  BY LengthAssumption
<1>1. ASSUME length < 2 * IntHalf
      PROVE  AsSize(length) = length
  BY <1>0, <1>1, SmallMod DEF AsSize
<1>2. ASSUME length < IntHalf
      PROVE  BodyLength(length + HdLen) = length
  BY <1>0, <1>1, <1>2, SmallInt DEF BodyLength
<1>3. ASSUME length \in IntHalf .. 2 * IntHalf - 1
      PROVE  BodyLength(length + HdLen) < 0
  <2>1. BodyLength(length + HdLen) = length - 2 * IntHalf
    BY <1>0, <1>1, <1>3, LargeInt DEF BodyLength
  <2>. QED
    BY <1>0, <1>3, <2>1
<1>4. ASSUME length + HdLen < IntHalf
      PROVE  ShownLength(FrameLength(length)) = length
  <2>1. FrameLength(length) = length + HdLen
    BY <1>0, <1>4, SmallMod DEF FrameLength, AsSize
  <2>. QED
    BY <1>0, <1>1, <1>2, <1>4, <2>1 DEF ShownLength
<1>. QED
  BY <1>0, <1>2, <1>3, <1>4 DEF TooShort

(* What read_callback makes of any frame, of whatever length.              *)
LEMMA FrameShown ==
  ASSUME NEW frame \in Lengths
  PROVE  LET length == frame - HdLen
         IN  /\ ShownLength(frame) \in Lengths
             /\ length \in 0 .. IntHalf - 1 =>
                  ShownLength(frame) = length /\ ~TooShort(frame)
             /\ length < 2 * IntHalf /\ ShownLength(frame) # length =>
                  TooShort(frame)
<1>. DEFINE length == frame - HdLen
<1>0. /\ IntHalf \in Nat /\ SizeMod \in Nat /\ HdLen \in Nat /\ IntHalf > 0
      /\ 2 * IntHalf <= SizeMod /\ HdLen < IntHalf /\ frame \in Nat
      /\ length \in Int /\ length \in -IntHalf .. SizeMod - 1
  BY LengthAssumption DEF Lengths
<1>1. \A n \in Int : AsSize(n) \in Lengths
  BY <1>0 DEF AsSize, Lengths
<1>2. AsInt(AsSize(length)) \in Int
  BY <1>0, <1>1 DEF AsInt, Lengths
<1>3. ShownLength(frame) \in Lengths
  BY <1>1, <1>2 DEF ShownLength, BodyLength
<1>4. CASE length \in 0 .. IntHalf - 1
  BY <1>0, <1>3, <1>4, SmallMod, SmallInt DEF ShownLength, BodyLength, TooShort, AsSize
<1>5. CASE length \in IntHalf .. 2 * IntHalf - 1
  <2>1. AsSize(length) = length
    BY <1>0, <1>5, SmallMod DEF AsSize
  <2>2. BodyLength(frame) < 0
    BY <1>0, <1>5, <2>1, LargeInt DEF BodyLength
  <2>. QED
    BY <1>0, <1>3, <1>5, <2>2 DEF TooShort
<1>6. CASE length \in -IntHalf .. -1
  <2>1. BodyLength(frame) < 0
    BY <1>0, <1>6, NegativeInt DEF BodyLength
  <2>. QED
    BY <1>0, <1>3, <1>6, <2>1 DEF TooShort
<1>7. CASE length \in 2 * IntHalf .. SizeMod - 1
  BY <1>0, <1>3, <1>7
<1>. QED
  BY <1>0, <1>4, <1>5, <1>6, <1>7
-----------------------------------------------------------------------------
(* A thread in read_callback was given its message by the session.         *)
MessageInv ==
  /\ at \in [Threads -> Places] /\ message \in [Threads -> Message]
  /\ \A t \in Threads : at[t] \in {"onShort", "onMessage"} =>
       /\ message[t].frame \in Frames
       /\ message[t].shown = ShownLength(message[t].frame)
       /\ message[t].told = TooShort(message[t].frame)

LEMMA MessageNext == MessageInv /\ [Next]_vars => MessageInv'
<1>. SUFFICES ASSUME MessageInv, [Next]_vars  PROVE MessageInv'
  OBVIOUS
<1>. USE DEF MessageInv, Places, Callbacks
<1>1. ASSUME NEW t \in Threads, NEW frame \in Frames, TakeMessage(t, frame)
      PROVE  MessageInv'
  <2>1. frame \in Lengths /\ ShownLength(frame) \in Lengths
        /\ TooShort(frame) \in BOOLEAN
    BY ClientAssumption, FrameShown DEF TooShort
  <2>2. [frame |-> frame, shown |-> ShownLength(frame), told |-> TooShort(frame)]
          \in Message
    BY <2>1 DEF Message
  <2>3. /\ \A u \in Threads : u # t => at'[u] = at[u] /\ message'[u] = message[u]
        /\ message'[t] = [frame |-> frame, shown |-> ShownLength(frame),
                          told |-> TooShort(frame)]
        /\ at' \in [Threads -> Places] /\ message' \in [Threads -> Message]
    BY <1>1, <2>2 DEF TakeMessage, Move
  <2>. QED
    BY <2>3
<1>2. ASSUME NEW t \in Threads,
             EnterRun(t) \/ LeaveRun(t) \/ TakeConnected(t) \/ TakeRefused(t)
             \/ TakeReadEnd(t) \/ TakeReadError(t) \/ TakeStoppedRead(t)
             \/ TakeWriteError(t) \/ TakeWritten(t) \/ ReturnShort(t)
             \/ ReturnError(t) \/ ReturnLast(t)
      PROVE  MessageInv'
  <2>1. message' = message
    BY <1>2 DEF EnterRun, LeaveRun, TakeConnected, TakeRefused, TakeReadEnd,
       TakeReadError, TakeStoppedRead, TakeWriteError, TakeWritten, ReturnShort,
       ReturnError, ReturnLast
  <2>2. /\ at' \in [Threads -> Places]
        /\ \A u \in Threads : at'[u] \in {"onShort", "onMessage"} =>
             at[u] \in {"onShort", "onMessage"}
    BY <1>2 DEF EnterRun, LeaveRun, TakeConnected, TakeRefused, TakeReadEnd, Ends,
       Told, TakeReadError, TakeStoppedRead, TakeWriteError, TakeWritten,
       ReturnShort, ReturnError, ReturnLast, Move, connectVars
  <2>. QED
    BY <2>1, <2>2
<1>3. ASSUME NEW t \in Threads, ReturnMessage(t)  PROVE MessageInv'
  <2>1. NoMessage \in Message
    BY LengthAssumption DEF NoMessage, Message, Lengths
  <2>. QED
    BY <1>3, <2>1 DEF ReturnMessage, Move
<1>4. CASE UNCHANGED <<at, message>>
  BY <1>4
<1>. QED
  BY <1>1, <1>2, <1>3, <1>4
     DEF Next, Take, Resume, Answer, CallWrite, CallClose, Destroy, vars

(* onMessage gets the length the peer's write() was called with, whatever  *)
(* the width of an int and of a size_t, if an int holds it, and up to      *)
(* twice that onError is told of a wrong one.                              *)
THEOREM LengthsKept == Spec => []MessageLength
<1>1. Init => MessageInv
  <2>1. NoMessage \in Message
    BY LengthAssumption DEF NoMessage, Message, Lengths
  <2>. QED
    BY <2>1 DEF Init, MessageInv, Places
<1>2. MessageInv => MessageLength
  <2>. SUFFICES ASSUME MessageInv, NEW t \in Threads, at[t] = "onMessage"
                PROVE  LET m == message[t]
                           length == m.frame - HdLen
                       IN /\ length \in 0 .. IntHalf - 1 =>
                               m.shown = length /\ ~m.told
                          /\ length < 2 * IntHalf /\ m.shown # length => m.told
    BY DEF MessageLength
  <2>1. message[t].frame \in Lengths
    BY ClientAssumption DEF MessageInv
  <2>. QED
    BY <2>1, FrameShown DEF MessageInv
<1>. QED
  BY <1>1, <1>2, MessageNext, PTL DEF Spec
-----------------------------------------------------------------------------
(* A thread that is shown a message keeps the session busy, alone.         *)
Shown(t) == at[t] \in {"onShort", "onMessage"}
BusyInv ==
  /\ \A t \in Threads : Shown(t) => reading = "busy"
  /\ \A t, u \in Threads : Shown(t) /\ Shown(u) => t = u

LEMMA BusyNext == MessageInv /\ BusyInv /\ [Next]_vars => BusyInv'
<1>. SUFFICES ASSUME MessageInv, BusyInv, [Next]_vars  PROVE BusyInv'
  OBVIOUS
<1>. USE DEF BusyInv, Shown
<1>0. at \in [Threads -> Places]
  BY DEF MessageInv
<1>1. ASSUME NEW t \in Threads, NEW frame \in Frames, TakeMessage(t, frame)
      PROVE  BusyInv'
  <2>1. reading = "armed" /\ reading' = "busy" /\ \A u \in Threads : u # t => at'[u] = at[u]
    BY <1>0, <1>1 DEF TakeMessage, Session!Arrive, Session!Read, Move
  <2>2. \A u \in Threads : ~Shown(u)
    BY <2>1
  <2>. QED
    BY <2>1, <2>2
<1>2. ASSUME NEW t \in Threads, ReturnShort(t)  PROVE BusyInv'
  BY <1>0, <1>2 DEF ReturnShort, Move, sessionVars
<1>3. ASSUME NEW t \in Threads, ReturnMessage(t)  PROVE BusyInv'
  BY <1>0, <1>3 DEF ReturnMessage, Move
<1>4. ASSUME NEW t \in Threads,
             \/ EnterRun(t) \/ LeaveRun(t) \/ TakeRefused(t) \/ TakeWriteError(t)
             \/ TakeWritten(t) \/ ReturnError(t) \/ ReturnLast(t)
             \/ CallWrite(t) \/ CallClose(t)
      PROVE  BusyInv'
  <2>1. reading' = reading
    BY <1>4 DEF EnterRun, LeaveRun, TakeRefused, TakeWriteError, TakeWritten,
       ReturnError, ReturnLast, CallWrite, CallClose, sessionVars, Session!WriteFails,
       Session!Written, Session!WriteEnds, Session!Write, Session!WriteGoes, Session!Stop
  <2>2. \A u \in Threads : Shown(u)' => Shown(u)
    BY <1>0, <1>4 DEF EnterRun, LeaveRun, TakeRefused, TakeWriteError, TakeWritten,
       ReturnError, Told, ReturnLast, CallWrite, CallClose, Move
  <2>. QED
    BY <2>1, <2>2
<1>5. ASSUME NEW t \in Threads,
             \/ TakeConnected(t) \/ TakeReadEnd(t) \/ TakeReadError(t)
             \/ TakeStoppedRead(t)
      PROVE  BusyInv'
  <2>1. reading \in {"off", "armed"}
    BY <1>5 DEF TakeConnected, StartsSession, TakeReadEnd, TakeReadError,
       TakeStoppedRead, Session!Start, Session!ReadFails, Session!ReadEnds, Session!Read
  <2>2. \A u \in Threads : Shown(u)' => Shown(u)
    BY <1>0, <1>5 DEF TakeConnected, TakeReadEnd, Ends, Told, TakeReadError,
       TakeStoppedRead, Move
  <2>. QED
    BY <2>1, <2>2
<1>6. CASE \E result \in {"accepted", "refused"} : Answer(result)
  BY <1>6 DEF Answer, sessionVars
<1>7. CASE Destroy
  BY <1>7 DEF Destroy
<1>8. CASE UNCHANGED vars
  BY <1>8 DEF vars, sessionVars
<1>. QED
  BY <1>1, <1>2, <1>3, <1>4, <1>5, <1>6, <1>7, <1>8 DEF Next, Take, Resume

-----------------------------------------------------------------------------
(* The work a context has been given and not finished.                     *)
Bit(p) == IF p THEN 1 ELSE 0
AtOne(places) == {t \in Threads : at[t] \in places}
LastPlaces == {"onConnect", "onRefused", "onDisconnect", "onReadError", "onWriteError"}
ErrorPlaces == {"onReadError", "onWriteError"}

Outstanding ==
  Bit(connecting # "done") + Bit(reading \in {"armed", "busy"})
    + Bit(writing = "armed") + Cardinality(AtOne(LastPlaces))

(* Nothing is left but a write begun after the context stopped.            *)
Over ==
  connecting = "done" /\ reading \notin {"armed", "busy"} /\ AtOne(LastPlaces) = {}

ClientInv ==
  /\ TypeOK
  /\ IsFiniteSet(AtOne(LastPlaces)) /\ IsFiniteSet(AtOne(ErrorPlaces))
  /\ connected => reading # "off"
  /\ alive => ctx.work = Outstanding
  /\ ctx.stopped => Over
  /\ disconnects + Cardinality(AtOne(ErrorPlaces))
       = Bit(reading = "failed") + Bit(writing = "failed")

LEMMA MoveCounts ==
  ASSUME at \in [Threads -> Places], NEW t \in Threads, NEW p, Move(t, p), NEW places,
         IsFiniteSet(AtOne(places))
  PROVE  /\ IsFiniteSet(AtOne(places)')
         /\ Cardinality(AtOne(places)') =
              Cardinality(AtOne(places)) + Bit(p \in places) - Bit(at[t] \in places)
         /\ p \notin places /\ AtOne(places) = {} => AtOne(places)' = {}
<1>1. at' = [at EXCEPT ![t] = p]
  BY DEF Move
<1>2. Cardinality(AtOne(places)) \in Nat
  BY FS_CardinalityType
<1>3. CASE p \in places
  <2>1. AtOne(places)' = AtOne(places) \cup {t}
    BY <1>1, <1>3 DEF AtOne
  <2>2. t \in AtOne(places) <=> at[t] \in places
    BY DEF AtOne
  <2>. QED
    BY <1>2, <1>3, <2>1, <2>2, FS_AddElement DEF Bit
<1>4. CASE p \notin places
  <2>1. AtOne(places)' = AtOne(places) \ {t}
    BY <1>1, <1>4 DEF AtOne
  <2>2. t \in AtOne(places) <=> at[t] \in places
    BY DEF AtOne
  <2>. QED
    BY <1>2, <1>4, <2>1, <2>2, FS_RemoveElement DEF Bit
<1>. QED
  BY <1>3, <1>4

(* Who holds work in the context, and that none holds any more at its end. *)
LEMMA NoWorkLeft ==
  ASSUME IsFiniteSet(AtOne(LastPlaces)), Outstanding = 0
  PROVE  Over
<1>1. Cardinality(AtOne(LastPlaces)) \in Nat
  BY FS_CardinalityType
<1>2. Cardinality(AtOne(LastPlaces)) = 0 /\ connecting = "done"
      /\ reading \notin {"armed", "busy"}
  BY <1>1 DEF Outstanding, Bit
<1>. QED
  BY <1>2, FS_EmptySet DEF Over

LEMMA OutstandingType ==
  ASSUME IsFiniteSet(AtOne(LastPlaces))  PROVE Outstanding \in Nat
BY FS_CardinalityType DEF Outstanding, Bit

(* A step that starts or finishes as much work as it counts.               *)
Counts(d) ==
  \/ d = 0 /\ (ctx' = ctx \/ ctx' = RunEntered(ctx))
  \/ d = 1 /\ ctx' = WorkStarted(ctx)
  \/ d = -1 /\ ctx' = WorkFinished(ctx)

LEMMA ContextKept ==
  ASSUME ClientInv, alive, NEW d \in Int, Counts(d), Outstanding' = Outstanding + d,
         IsFiniteSet(AtOne(LastPlaces)'), ctx.stopped => Over'
  PROVE  /\ ctx' \in Contexts /\ ctx'.work = Outstanding'
         /\ ctx'.stopped => Over'
<1>1. Outstanding' \in Nat /\ Outstanding \in Nat
  <2>1. IsFiniteSet(AtOne(LastPlaces)) => Outstanding \in Nat
    BY OutstandingType
  <2>2. (IsFiniteSet(AtOne(LastPlaces)) => Outstanding \in Nat)'
    BY OutstandingType, PTL
  <2>. QED
    BY <2>1, <2>2 DEF ClientInv
<1>2. Outstanding' = 0 => Over'
  <2>1. (IsFiniteSet(AtOne(LastPlaces)) /\ Outstanding = 0 => Over)'
    BY NoWorkLeft, PTL
  <2>. QED
    BY <2>1
<1>3. ctx \in [work : Nat, stopped : BOOLEAN] /\ ctx.work = Outstanding
  BY DEF ClientInv, TypeOK, Contexts
<1>4. ctx = [work |-> ctx.work, stopped |-> ctx.stopped]
  BY <1>3
<1>5. CASE d = 0 /\ ctx' = ctx
  BY <1>1, <1>3, <1>5 DEF Contexts
<1>6. CASE d = 0 /\ ctx' = RunEntered(ctx)
  <2>1. CASE ctx.work = 0
    <3>1. ctx' = [ctx EXCEPT !.stopped = TRUE]
      BY <1>6, <2>1 DEF RunEntered, Halt
    <3>2. ctx' \in Contexts /\ ctx'.work = ctx.work
      BY <1>3, <3>1 DEF Contexts
    <3>3. Outstanding' = 0
      BY <1>1, <1>3, <1>6, <2>1
    <3>. QED
      BY <1>2, <1>3, <2>1, <3>2, <3>3
  <2>2. CASE ctx.work # 0
    BY <1>1, <1>3, <1>6, <2>2 DEF Contexts, RunEntered
  <2>. QED
    BY <2>1, <2>2
<1>7. CASE d = 1 /\ ctx' = WorkStarted(ctx)
  BY <1>1, <1>3, <1>7 DEF Contexts, WorkStarted
<1>8. CASE d = -1 /\ ctx' = WorkFinished(ctx)
  BY <1>1, <1>2, <1>3, <1>8 DEF Contexts, WorkFinished
<1>. QED
  BY <1>5, <1>6, <1>7, <1>8 DEF Counts

(* What the callbacks count, of work and of failures, after a move.        *)
LastCount == Cardinality(AtOne(LastPlaces))
ErrorCount == Cardinality(AtOne(ErrorPlaces))
Counted == /\ IsFiniteSet(AtOne(LastPlaces)) /\ IsFiniteSet(AtOne(ErrorPlaces))
           /\ LastCount \in Nat /\ ErrorCount \in Nat

LEMMA Moved ==
  ASSUME ClientInv, NEW t \in Threads, NEW p, Move(t, p)
  PROVE  /\ Counted /\ Counted'
         /\ LastCount' = LastCount + Bit(p \in LastPlaces) - Bit(at[t] \in LastPlaces)
         /\ ErrorCount' = ErrorCount + Bit(p \in ErrorPlaces)
                                     - Bit(at[t] \in ErrorPlaces)
         /\ p \notin LastPlaces /\ AtOne(LastPlaces) = {} => AtOne(LastPlaces)' = {}
<1>1. at \in [Threads -> Places] /\ IsFiniteSet(AtOne(LastPlaces))
      /\ IsFiniteSet(AtOne(ErrorPlaces))
  BY DEF ClientInv, TypeOK
<1>2. /\ IsFiniteSet(AtOne(LastPlaces)') /\ IsFiniteSet(AtOne(ErrorPlaces)')
      /\ LastCount' = LastCount + Bit(p \in LastPlaces) - Bit(at[t] \in LastPlaces)
      /\ p \notin LastPlaces /\ AtOne(LastPlaces) = {} => AtOne(LastPlaces)' = {}
  BY <1>1, MoveCounts DEF LastCount
<1>3. ErrorCount' = ErrorCount + Bit(p \in ErrorPlaces) - Bit(at[t] \in ErrorPlaces)
  BY <1>1, MoveCounts DEF ErrorCount
<1>4. /\ LastCount \in Nat /\ ErrorCount \in Nat
      /\ LastCount' \in Nat /\ ErrorCount' \in Nat
  BY <1>1, <1>2, FS_CardinalityType DEF LastCount, ErrorCount
<1>. QED
  BY <1>1, <1>2, <1>3, <1>4 DEF Counted

LEMMA Unmoved ==
  ASSUME ClientInv, at' = at
  PROVE  /\ Counted /\ Counted'
         /\ LastCount' = LastCount /\ ErrorCount' = ErrorCount
         /\ AtOne(LastPlaces)' = AtOne(LastPlaces)
<1>1. AtOne(LastPlaces)' = AtOne(LastPlaces) /\ AtOne(ErrorPlaces)' = AtOne(ErrorPlaces)
  BY DEF AtOne
<1>2. IsFiniteSet(AtOne(LastPlaces)) /\ IsFiniteSet(AtOne(ErrorPlaces))
  BY DEF ClientInv
<1>. QED
  BY <1>1, <1>2, FS_CardinalityType DEF Counted, LastCount, ErrorCount

(* A step that counts its work, and its failures, keeps the invariant.     *)
OthersTyped ==
  /\ connecting \in {"waiting", "accepted", "refused", "aborted", "done"}
  /\ connected \in BOOLEAN /\ alive \in BOOLEAN /\ stopped \in BOOLEAN
  /\ reading \in {"off", "armed", "busy", "failed", "ended"}
  /\ writing \in {"off", "armed", "failed", "ended"}
  /\ at \in [Threads -> Places]
  /\ message \in [Threads -> Message]
  /\ disconnects \in Nat /\ writeCalls \in 0 .. MaxWrites

LEMMA StepKeeps ==
  ASSUME ClientInv, alive, alive', OthersTyped', Counted', NEW d \in Int, Counts(d),
         Outstanding' = Outstanding + d, ctx.stopped => Over',
         connected' => reading' # "off",
         disconnects' + ErrorCount' = Bit(reading' = "failed") + Bit(writing' = "failed")
  PROVE  ClientInv'
<1>1. ctx' \in Contexts /\ ctx'.work = Outstanding' /\ (ctx'.stopped => Over')
  BY ContextKept DEF Counted
<1>. QED
  BY <1>1 DEF ClientInv, TypeOK, OthersTyped, Counted, ErrorCount
-----------------------------------------------------------------------------
(* Steps that move no thread: answers, calls, and handlers that call       *)
(* nothing of the client.                                                  *)
LEMMA StillSteps ==
  ASSUME ClientInv, alive,
         \/ \E result \in {"accepted", "refused"} : Answer(result)
         \/ \E t \in Threads : CallWrite(t) \/ CallClose(t) \/ TakeWritten(t)
                               \/ TakeStoppedRead(t)
  PROVE  ClientInv'
<1>1. at' = at /\ alive' /\ connected' = connected /\ message' = message
      /\ disconnects' = disconnects
  BY DEF Answer, CallWrite, CallClose, TakeWritten, TakeStoppedRead, connectVars
<1>2. /\ Counted /\ Counted' /\ LastCount' = LastCount /\ ErrorCount' = ErrorCount
      /\ AtOne(LastPlaces)' = AtOne(LastPlaces)
  BY <1>1, Unmoved
<1>3. /\ TypeOK /\ (connected => reading # "off") /\ (ctx.stopped => Over)
      /\ disconnects + ErrorCount = Bit(reading = "failed") + Bit(writing = "failed")
  BY DEF ClientInv, ErrorCount
<1>. USE <1>1, <1>2, <1>3
     DEF TypeOK, OthersTyped, Outstanding, LastCount, Bit, Over, Counted, Counts
<1>4. CASE \E result \in {"accepted", "refused"} : Answer(result)
  <2>1. Outstanding' = Outstanding + 0 /\ OthersTyped' /\ Counts(0)
        /\ (ctx.stopped => Over')
    BY <1>4 DEF Answer, sessionVars
  <2>. QED
    BY <1>4, <2>1, StepKeeps DEF Answer, sessionVars
<1>5. CASE \E t \in Threads : CallClose(t)
  <2>1. Outstanding' = Outstanding + 0 /\ OthersTyped' /\ Counts(0)
        /\ (ctx.stopped => Over')
    BY <1>5 DEF CallClose, Cancelled, Session!Stop
  <2>. QED
    BY <1>5, <2>1, StepKeeps DEF CallClose, Session!Stop
<1>6. CASE \E t \in Threads : CallWrite(t)
  <2>0. writeCalls' \in 0 .. MaxWrites
    BY <1>6, ClientAssumption DEF CallWrite
  <2>1. CASE UNCHANGED <<sessionVars, ctx>>
    <3>1. Outstanding' = Outstanding + 0 /\ OthersTyped' /\ Counts(0)
          /\ (ctx.stopped => Over')
      BY <1>6, <2>0, <2>1 DEF CallWrite, sessionVars, connectVars
    <3>. QED
      BY <2>1, <3>1, StepKeeps DEF sessionVars
  <2>2. CASE Session!Write /\ ctx' = WorkStarted(ctx)
    <3>1. Outstanding' = Outstanding + 1 /\ OthersTyped' /\ Counts(1)
          /\ (ctx.stopped => Over')
      BY <1>6, <2>0, <2>2 DEF CallWrite, Session!Write, Session!WriteGoes, connectVars
    <3>. QED
      BY <2>2, <3>1, StepKeeps DEF Session!Write, Session!WriteGoes
  <2>. QED
    BY <1>6, <2>1, <2>2 DEF CallWrite
<1>7. CASE \E t \in Threads : TakeWritten(t)
  <2>1. Outstanding' = Outstanding + (-1) /\ OthersTyped' /\ Counts(-1) /\ ~ctx.stopped
    BY <1>7 DEF TakeWritten, Idle, Session!Written, Session!WriteEnds,
       Session!WriteGoes, connectVars
  <2>. QED
    BY <1>7, <2>1, StepKeeps DEF TakeWritten, Session!Written, Session!WriteEnds,
       Session!WriteGoes
<1>8. CASE \E t \in Threads : TakeStoppedRead(t)
  <2>1. Outstanding' = Outstanding + (-1) /\ OthersTyped' /\ Counts(-1) /\ ~ctx.stopped
    BY <1>8 DEF TakeStoppedRead, Idle, Session!ReadEnds, Session!Read, connectVars
  <2>. QED
    BY <1>8, <2>1, StepKeeps DEF TakeStoppedRead, Session!ReadEnds, Session!Read
<1>. QED
  BY <1>4, <1>5, <1>6, <1>7, <1>8

(* Steps that move a thread.                                               *)
LEMMA LoopSteps ==
  ASSUME ClientInv, alive, NEW t \in Threads, EnterRun(t) \/ LeaveRun(t)
  PROVE  ClientInv'
<1>1. alive' /\ UNCHANGED <<connectVars, sessionVars, message, disconnects, writeCalls>>
  BY DEF EnterRun, LeaveRun
<1>2. /\ TypeOK /\ (connected => reading # "off") /\ (ctx.stopped => Over)
      /\ disconnects + ErrorCount = Bit(reading = "failed") + Bit(writing = "failed")
  BY DEF ClientInv, ErrorCount
<1>3. Counts(0)
  BY DEF EnterRun, LeaveRun, Counts
<1>4. /\ Counted /\ Counted' /\ LastCount' = LastCount /\ ErrorCount' = ErrorCount
      /\ (AtOne(LastPlaces) = {} => AtOne(LastPlaces)' = {})
      /\ at' \in [Threads -> Places]
  <2>1. CASE at' = at
    BY <1>2, <2>1, Unmoved DEF TypeOK
  <2>2. CASE at[t] \in {"out", "loop"} /\ Move(t, "loop")
    <3>1. at[t] \notin LastPlaces \cup ErrorPlaces
      BY <2>2 DEF LastPlaces, ErrorPlaces
    <3>2. "loop" \notin LastPlaces \cup ErrorPlaces
      BY DEF LastPlaces, ErrorPlaces
    <3>3. at' \in [Threads -> Places]
      BY <1>2, <2>2 DEF TypeOK, Move, Places
    <3>. QED
      BY <2>2, <3>1, <3>2, <3>3, Moved DEF Bit, Counted
  <2>3. CASE at[t] \in {"out", "loop"} /\ Move(t, "out")
    <3>1. at[t] \notin LastPlaces \cup ErrorPlaces
      BY <2>3 DEF LastPlaces, ErrorPlaces
    <3>2. "out" \notin LastPlaces \cup ErrorPlaces
      BY DEF LastPlaces, ErrorPlaces
    <3>3. at' \in [Threads -> Places]
      BY <1>2, <2>3 DEF TypeOK, Move, Places
    <3>. QED
      BY <2>3, <3>1, <3>2, <3>3, Moved DEF Bit, Counted
  <2>. QED
    BY <2>1, <2>2, <2>3 DEF EnterRun, LeaveRun
<1>5. Outstanding' = Outstanding + 0 /\ OthersTyped' /\ (ctx.stopped => Over')
  BY <1>1, <1>2, <1>4 DEF TypeOK, OthersTyped, Outstanding, LastCount, Counted,
     Bit, Over, connectVars, sessionVars
<1>. QED
  BY <1>1, <1>2, <1>3, <1>4, <1>5, StepKeeps DEF connectVars, sessionVars

(* A handler is taken from the queue, and a callback entered.              *)
LEMMA TakeSteps ==
  ASSUME ClientInv, MessageInv', alive, NEW t \in Threads,
         \/ TakeConnected(t) \/ TakeRefused(t) \/ TakeReadEnd(t) \/ TakeReadError(t)
         \/ TakeWriteError(t) \/ \E frame \in Frames : TakeMessage(t, frame)
  PROVE  ClientInv'
<1>. USE DEF Bit
<1>1. /\ alive' /\ writeCalls' = writeCalls /\ at[t] = "loop" /\ ~ctx.stopped
      /\ at' \in [Threads -> Places] /\ message' \in [Threads -> Message]
  BY DEF TakeConnected, TakeRefused, TakeReadEnd, TakeReadError, TakeWriteError,
     TakeMessage, Idle, MessageInv
<1>2. /\ TypeOK /\ (connected => reading # "off")
      /\ disconnects + ErrorCount = Bit(reading = "failed") + Bit(writing = "failed")
  BY DEF ClientInv, ErrorCount
<1>3. /\ "loop" \notin LastPlaces \cup ErrorPlaces
      /\ {"onConnect", "onRefused", "onDisconnect"} \subseteq LastPlaces \ ErrorPlaces
      /\ {"onReadError", "onWriteError"} \subseteq LastPlaces \cap ErrorPlaces
      /\ {"onShort", "onMessage"} \cap (LastPlaces \cup ErrorPlaces) = {}
  BY DEF LastPlaces, ErrorPlaces
<1>4. ASSUME NEW p, Move(t, p)
      PROVE  /\ Counted /\ Counted'
             /\ LastCount' = LastCount + Bit(p \in LastPlaces)
             /\ ErrorCount' = ErrorCount + Bit(p \in ErrorPlaces)
  BY <1>1, <1>3, <1>4, Moved DEF Counted
<1>5. CASE TakeConnected(t)
  <2>0. Move(t, "onConnect")
    BY <1>5 DEF TakeConnected
  <2>1. /\ Counted /\ Counted' /\ LastCount' = LastCount + 1 /\ ErrorCount' = ErrorCount
    BY <1>3, <1>4, <2>0 DEF Counted
  <2>2. Outstanding' = Outstanding + 1 /\ OthersTyped' /\ Counts(1)
        /\ reading' = "armed" /\ reading = "off" /\ UNCHANGED <<writing, disconnects>>
    BY <1>1, <1>2, <1>5, <2>1 DEF TakeConnected, StartsSession, Session!Start,
       Session!Read, TypeOK, OthersTyped, Outstanding, LastCount, Counted, Counts
  <2>. QED
    BY <1>1, <1>2, <2>1, <2>2, StepKeeps
<1>6. CASE TakeRefused(t)
  <2>0. Move(t, "onRefused")
    BY <1>6 DEF TakeRefused
  <2>1. /\ Counted /\ Counted' /\ LastCount' = LastCount + 1 /\ ErrorCount' = ErrorCount
    BY <1>3, <1>4, <2>0 DEF Counted
  <2>2. Outstanding' = Outstanding + 0 /\ OthersTyped' /\ Counts(0)
        /\ UNCHANGED <<connected, reading, writing, disconnects>>
    BY <1>1, <1>2, <1>6, <2>1 DEF TakeRefused, sessionVars,
       TypeOK, OthersTyped, Outstanding, LastCount, Counted, Counts
  <2>. QED
    BY <1>1, <1>2, <2>1, <2>2, StepKeeps
<1>7. CASE TakeReadEnd(t)
  <2>0. Move(t, "onDisconnect")
    BY <1>7 DEF TakeReadEnd, Ends, Told
  <2>1. /\ Counted /\ Counted' /\ LastCount' = LastCount + 1 /\ ErrorCount' = ErrorCount
    BY <1>3, <1>4, <2>0 DEF Counted
  <2>2. Outstanding' = Outstanding + 0 /\ OthersTyped' /\ Counts(0)
        /\ UNCHANGED <<connected, writing>> /\ disconnects' = disconnects + 1
        /\ reading = "armed" /\ reading' = "failed"
    BY <1>1, <1>2, <1>7, <2>1 DEF TakeReadEnd, Ends, Told, connectVars,
       Session!ReadFails, Session!Read,
       TypeOK, OthersTyped, Outstanding, LastCount, Counted, Counts
  <2>3. disconnects' + ErrorCount' = Bit(reading' = "failed") + Bit(writing' = "failed")
    BY <1>2, <2>1, <2>2 DEF TypeOK, Counted
  <2>. QED
    BY <1>1, <1>2, <2>1, <2>2, <2>3, StepKeeps
<1>8. CASE TakeReadError(t)
  <2>0. Move(t, "onReadError")
    BY <1>8 DEF TakeReadError
  <2>1. /\ Counted /\ Counted' /\ LastCount' = LastCount + 1
        /\ ErrorCount' = ErrorCount + 1
    BY <1>3, <1>4, <2>0
  <2>2. Outstanding' = Outstanding + 0 /\ OthersTyped' /\ Counts(0)
        /\ UNCHANGED <<connected, writing, disconnects>>
        /\ reading = "armed" /\ reading' = "failed"
    BY <1>1, <1>2, <1>8, <2>1 DEF TakeReadError, connectVars,
       Session!ReadFails, Session!Read,
       TypeOK, OthersTyped, Outstanding, LastCount, Counted, Counts
  <2>3. disconnects' + ErrorCount' = Bit(reading' = "failed") + Bit(writing' = "failed")
    BY <1>2, <2>1, <2>2 DEF TypeOK, Counted
  <2>. QED
    BY <1>1, <1>2, <2>1, <2>2, <2>3, StepKeeps
<1>9. CASE TakeWriteError(t)
  <2>0. Move(t, "onWriteError")
    BY <1>9 DEF TakeWriteError
  <2>1. /\ Counted /\ Counted' /\ LastCount' = LastCount + 1
        /\ ErrorCount' = ErrorCount + 1
    BY <1>3, <1>4, <2>0
  <2>2. Outstanding' = Outstanding + 0 /\ OthersTyped' /\ Counts(0)
        /\ UNCHANGED <<connected, reading, disconnects>>
        /\ writing = "armed" /\ writing' = "failed"
    BY <1>1, <1>2, <1>9, <2>1 DEF TakeWriteError, connectVars,
       Session!WriteFails, Session!WriteGoes,
       TypeOK, OthersTyped, Outstanding, LastCount, Counted, Counts
  <2>3. disconnects' + ErrorCount' = Bit(reading' = "failed") + Bit(writing' = "failed")
    BY <1>2, <2>1, <2>2 DEF TypeOK, Counted
  <2>. QED
    BY <1>1, <1>2, <2>1, <2>2, <2>3, StepKeeps
<1>10. CASE \E frame \in Frames : TakeMessage(t, frame)
  <2>0. PICK p \in {"onShort", "onMessage"} : Move(t, p)
    BY <1>10 DEF TakeMessage
  <2>1. /\ Counted /\ Counted' /\ LastCount' = LastCount /\ ErrorCount' = ErrorCount
    BY <1>3, <1>4, <2>0 DEF Counted
  <2>2. Outstanding' = Outstanding + 0 /\ OthersTyped' /\ Counts(0)
        /\ UNCHANGED <<connected, writing, disconnects>>
        /\ reading = "armed" /\ reading' = "busy"
    BY <1>1, <1>2, <1>10, <2>1 DEF TakeMessage, connectVars,
       Session!Arrive, Session!Read,
       TypeOK, OthersTyped, Outstanding, LastCount, Counted, Counts
  <2>. QED
    BY <1>1, <1>2, <2>1, <2>2, StepKeeps
<1>. QED
  BY <1>5, <1>6, <1>7, <1>8, <1>9, <1>10

(* A callback returns; after the context has stopped only one of a message *)
(* can.                                                                    *)
LEMMA ReturnSteps ==
  ASSUME ClientInv, MessageInv', alive, NEW t \in Threads, Resume(t)
  PROVE  ClientInv'
<1>. USE DEF Bit
<1>1. /\ alive' /\ writeCalls' = writeCalls
      /\ at' \in [Threads -> Places] /\ message' \in [Threads -> Message]
  BY DEF Resume, ReturnShort, ReturnMessage, ReturnError, ReturnLast, MessageInv
<1>2. /\ TypeOK /\ (connected => reading # "off") /\ (ctx.stopped => Over)
      /\ disconnects + ErrorCount = Bit(reading = "failed") + Bit(writing = "failed")
  BY DEF ClientInv, ErrorCount
<1>3. /\ {"onConnect", "onRefused", "onDisconnect"} \subseteq LastPlaces \ ErrorPlaces
      /\ {"onReadError", "onWriteError"} \subseteq LastPlaces \cap ErrorPlaces
      /\ {"loop", "onShort", "onMessage"} \cap (LastPlaces \cup ErrorPlaces) = {}
  BY DEF LastPlaces, ErrorPlaces
<1>4. ASSUME at[t] \in LastPlaces  PROVE ~ctx.stopped
  BY <1>2, <1>4 DEF Over, AtOne
<1>5. CASE ReturnShort(t)
  <2>0. at[t] = "onShort" /\ Move(t, "onMessage")
    BY <1>5 DEF ReturnShort
  <2>1. /\ Counted /\ Counted' /\ LastCount' = LastCount /\ ErrorCount' = ErrorCount
        /\ (AtOne(LastPlaces) = {} => AtOne(LastPlaces)' = {})
    BY <1>3, <2>0, Moved DEF Counted
  <2>2. Outstanding' = Outstanding + 0 /\ OthersTyped' /\ Counts(0)
        /\ UNCHANGED <<connected, reading, writing, disconnects>>
        /\ (ctx.stopped => Over')
    BY <1>1, <1>2, <1>5, <2>1 DEF ReturnShort, connectVars, sessionVars,
       TypeOK, OthersTyped, Outstanding, LastCount, Counted, Counts, Over
  <2>. QED
    BY <1>1, <1>2, <2>1, <2>2, StepKeeps
<1>6. CASE ReturnMessage(t)
  <2>0. at[t] = "onMessage" /\ Move(t, "loop")
    BY <1>6 DEF ReturnMessage
  <2>1. /\ Counted /\ Counted' /\ LastCount' = LastCount /\ ErrorCount' = ErrorCount
    BY <1>3, <2>0, Moved DEF Counted
  <2>2. reading = "busy" /\ reading' = "armed" /\ ~ctx.stopped
    BY <1>2, <1>6 DEF ReturnMessage, Session!Return, Session!Read, Over
  <2>3. Outstanding' = Outstanding + 0 /\ OthersTyped' /\ Counts(0)
        /\ UNCHANGED <<connected, writing, disconnects>>
    BY <1>1, <1>2, <1>6, <2>1, <2>2 DEF ReturnMessage, Session!Return, Session!Read,
       connectVars, TypeOK, OthersTyped, Outstanding, LastCount, Counted, Counts
  <2>. QED
    BY <1>1, <1>2, <2>1, <2>2, <2>3, StepKeeps
<1>7. CASE ReturnError(t)
  <2>0. at[t] \in {"onReadError", "onWriteError"} /\ Move(t, "onDisconnect")
    BY <1>7 DEF ReturnError, Told
  <2>1. /\ Counted /\ Counted' /\ LastCount' = LastCount
        /\ ErrorCount' = ErrorCount - 1 /\ ~ctx.stopped
    BY <1>3, <1>4, <2>0, Moved DEF Counted
  <2>2. Outstanding' = Outstanding + 0 /\ OthersTyped' /\ Counts(0)
        /\ UNCHANGED <<connected, reading, writing>> /\ disconnects' = disconnects + 1
    BY <1>1, <1>2, <1>7, <2>1 DEF ReturnError, Told, connectVars, sessionVars,
       TypeOK, OthersTyped, Outstanding, LastCount, Counted, Counts
  <2>3. disconnects' + ErrorCount' = Bit(reading' = "failed") + Bit(writing' = "failed")
    BY <1>2, <2>1, <2>2 DEF TypeOK, Counted
  <2>. QED
    BY <1>1, <1>2, <2>1, <2>2, <2>3, StepKeeps
<1>8. CASE ReturnLast(t)
  <2>0. at[t] \in {"onConnect", "onRefused", "onDisconnect"} /\ Move(t, "loop")
    BY <1>8 DEF ReturnLast
  <2>1. /\ Counted /\ Counted' /\ LastCount' = LastCount - 1
        /\ ErrorCount' = ErrorCount /\ ~ctx.stopped
    BY <1>3, <1>4, <2>0, Moved DEF Counted
  <2>2. Outstanding' = Outstanding + (-1) /\ OthersTyped' /\ Counts(-1)
        /\ UNCHANGED <<connected, reading, writing, disconnects>>
    BY <1>1, <1>2, <1>8, <2>1 DEF ReturnLast, connectVars, sessionVars,
       TypeOK, OthersTyped, Outstanding, LastCount, Counted, Counts
  <2>. QED
    BY <1>1, <1>2, <2>1, <2>2, StepKeeps
<1>. QED
  BY <1>5, <1>6, <1>7, <1>8 DEF Resume

(* With the client go the operations nobody has handled, and what would    *)
(* have ended with them.                                                   *)
LEMMA DestroyStep ==
  ASSUME ClientInv, Destroy  PROVE ClientInv'
<1>1. at' = at
  BY DEF Destroy
<1>2. /\ Counted' /\ ErrorCount' = ErrorCount
      /\ AtOne(LastPlaces)' = AtOne(LastPlaces)
  BY <1>1, Unmoved
<1>3. AtOne(LastPlaces) = {}
  BY DEF Destroy, AtOne, LastPlaces
<1>. QED
  BY <1>2, <1>3 DEF ClientInv, TypeOK, Destroy, DropsOps, Counted, ErrorCount, Bit, Over

(* The work of the context is what is outstanding, and each failure is     *)
(* told of once.                                                           *)
LEMMA ClientNext == ClientInv /\ MessageInv' /\ [Next]_vars => ClientInv'
<1>. SUFFICES ASSUME ClientInv, MessageInv', [Next]_vars  PROVE ClientInv'
  OBVIOUS
<1>1. CASE UNCHANGED vars
  <2>1. /\ AtOne(LastPlaces)' = AtOne(LastPlaces)
        /\ AtOne(ErrorPlaces)' = AtOne(ErrorPlaces)
    BY <1>1 DEF vars, AtOne
  <2>. QED
    BY <1>1, <2>1 DEF vars, connectVars, sessionVars, ClientInv, TypeOK, Outstanding,
       Over
<1>2. CASE Next /\ ~Destroy
  <2>1. CASE \E result \in {"accepted", "refused"} : Answer(result)
    BY <1>2, <2>1, StillSteps DEF Next
  <2>2. ASSUME NEW t \in Threads,
               \/ EnterRun(t) \/ LeaveRun(t) \/ Take(t) \/ Resume(t)
               \/ CallWrite(t) \/ CallClose(t)
        PROVE  ClientInv'
    BY <1>2, <2>2, StillSteps, LoopSteps, TakeSteps, ReturnSteps DEF Next, Take
  <2>. QED
    BY <1>2, <2>1, <2>2 DEF Next
<1>. QED
  BY <1>1, <1>2, DestroyStep DEF Next

LEMMA ClientInit == Init => MessageInv /\ ClientInv
<1>. SUFFICES ASSUME Init  PROVE MessageInv /\ ClientInv
  OBVIOUS
<1>1. NoMessage \in Message
  BY LengthAssumption DEF NoMessage, Message, Lengths
<1>2. MessageInv
  BY <1>1 DEF Init, MessageInv, Places
<1>3. TypeOK
  <2>1. ctx = WorkStarted(NewContext)
    BY DEF Init, WithConnect
  <2>2. NewContext \in Contexts
    BY DEF NewContext, Contexts
  <2>3. ctx \in Contexts
    BY <2>1, <2>2 DEF Contexts, WorkStarted
  <2>4. reading = "off" /\ writing = "off" /\ stopped = FALSE
    BY DEF Init, Session!Init
  <2>5. writeCalls \in 0 .. MaxWrites
    BY ClientAssumption DEF Init
  <2>6. at \in [Threads -> Places] /\ message \in [Threads -> Message]
    BY <1>2 DEF MessageInv
  <2>. QED
    BY <2>3, <2>4, <2>5, <2>6 DEF Init, TypeOK
<1>4. AtOne(LastPlaces) = {} /\ AtOne(ErrorPlaces) = {}
  BY DEF Init, AtOne, LastPlaces, ErrorPlaces
<1>5. ctx.work = Outstanding /\ ~ctx.stopped
  BY <1>4, FS_EmptySet DEF Init, WithConnect, Session!Init, NewContext, WorkStarted, Outstanding, Bit
<1>. QED
  BY <1>2, <1>3, <1>4, <1>5, FS_EmptySet DEF ClientInv, Init, Session!Init, Bit

LEMMA ClientInductive == Spec => [](MessageInv /\ BusyInv /\ ClientInv)
<1>1. MessageInv /\ BusyInv /\ ClientInv /\ [Next]_vars
        => (MessageInv /\ BusyInv /\ ClientInv)'
  BY MessageNext, BusyNext, ClientNext
<1>2. Init => BusyInv
  BY DEF Init, BusyInv, Shown
<1>. QED
  BY <1>1, <1>2, ClientInit, PTL DEF Spec
-----------------------------------------------------------------------------
(* Every step keeps the client's types; the work of the context never goes *)
(* below zero.                                                             *)
THEOREM ClientTypes == Spec => []TypeOK
<1>1. ClientInv => TypeOK
  BY DEF ClientInv
<1>. QED
  BY <1>1, ClientInductive, PTL

(* run() returns only when all is over: whatever could still call back is  *)
(* work of the context.                                                    *)
THEOREM ClientRunBlocks == Spec => []RunBlocks
<1>1. BusyInv /\ ClientInv => RunBlocks
  <2>. SUFFICES ASSUME BusyInv, ClientInv, ctx.stopped
                PROVE  /\ connecting = "done"
                       /\ \A t \in Threads : at[t] \notin Callbacks
                       /\ connected => reading \in {"failed", "ended"}
    BY DEF RunBlocks
  <2>1. Over /\ TypeOK /\ (connected => reading # "off")
    BY DEF ClientInv
  <2>2. \A t \in Threads : at[t] \notin LastPlaces
    BY <2>1 DEF Over, AtOne
  <2>3. \A t \in Threads : ~Shown(t)
    BY <2>1 DEF BusyInv, Over
  <2>. QED
    BY <2>1, <2>2, <2>3 DEF Over, TypeOK, LastPlaces, Shown, Callbacks
<1>. QED
  BY <1>1, ClientInductive, PTL

(* onDisconnect has been called, or will be after the onError that is      *)
(* running, once for each direction that failed.                           *)
THEOREM ClientDisconnects == Spec => []DisconnectPerFailure
<1>1. ClientInv => DisconnectPerFailure
  <2>. SUFFICES ASSUME ClientInv  PROVE DisconnectPerFailure
    OBVIOUS
  <2>1. InError = AtOne(ErrorPlaces)
    BY DEF InError, AtOne, ErrorPlaces
  <2>2. Cardinality(Failures) = Bit(reading = "failed") + Bit(writing = "failed")
    <3>1. Failures = (IF reading = "failed" THEN {"read"} ELSE {})
                     \cup (IF writing = "failed" THEN {"write"} ELSE {})
      BY DEF Failures
    <3>2. /\ IsFiniteSet({}) /\ Cardinality({}) = 0
          /\ IsFiniteSet({"read"}) /\ Cardinality({"read"}) = 1
          /\ IsFiniteSet({"write"}) /\ Cardinality({"write"}) = 1
      BY FS_EmptySet, FS_Singleton
    <3>3. Cardinality({"read"} \cup {"write"}) = 2
      <4>1. "write" \notin {"read"}
        OBVIOUS
      <4>. QED
        BY <3>2, <4>1, FS_AddElement
    <3>. QED
      BY <3>1, <3>2, <3>3 DEF Bit
  <2>. QED
    BY <2>1, <2>2 DEF ClientInv, DisconnectPerFailure
<1>. QED
  BY <1>1, ClientInductive, PTL
=============================================================================
