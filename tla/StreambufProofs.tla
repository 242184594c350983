--------------------------- MODULE StreambufProofs ---------------------------
(***************************************************************************)
(* What the operations of a streambuf do to its pointers, for every buffer *)
(* and every size.                                                         *)
(***************************************************************************)
EXTENDS Streambuf, TLAPS

(* prepare(n) always finds room for n bytes, keeps every readable byte and *)
(* keeps the pointers in order (basic_streambuf.hpp, reserve()): what      *)
(* write() relies on when it copies a packet behind what is unsent.        *)
THEOREM PrepareMakesRoom ==
  ASSUME NEW b \in Streambufs, WellFormed(b), NEW n \in Nat
  PROVE  /\ Prepare(b, n) \in Streambufs
         /\ WellFormed(Prepare(b, n))
         /\ Fits(Prepare(b, n), n)
         /\ Size(Prepare(b, n)) = Size(b)
<1>1. CASE Fits(b, n)
  BY <1>1 DEF Streambufs, WellFormed, Prepare
<1>2. CASE ~Fits(b, n) /\ Fits(Shift(b), n)
  BY <1>2 DEF Streambufs, WellFormed, Prepare, Fits, Shift, Size
<1>3. CASE ~Fits(b, n) /\ ~Fits(Shift(b), n)
  BY <1>3 DEF Streambufs, WellFormed, Prepare, Fits, Shift, Size, Resize,
              GreaterOf
<1>. QED
  BY <1>1, <1>2, <1>3

(* commit(n) into that room makes the n bytes readable, all of them.       *)
THEOREM CommitAppends ==
  ASSUME NEW b \in Streambufs, WellFormed(b), NEW n \in Nat
  PROVE  LET c == Commit(Prepare(b, n), n)
         IN  c \in Streambufs /\ WellFormed(c) /\ Size(c) = Size(b) + n
<1>. DEFINE p == Prepare(b, n)
            c == Commit(p, n)
<1>1. p \in Streambufs /\ WellFormed(p) /\ Fits(p, n) /\ Size(p) = Size(b)
  BY PrepareMakesRoom
<1>2. p.get \in Nat /\ p.put \in Nat /\ p.end \in Nat /\ p.cap \in Nat
  BY <1>1 DEF Streambufs
<1>3. LesserOf(n, p.end - p.put) = n
  BY <1>1, <1>2 DEF Fits, LesserOf
<1>4. c = [get |-> p.get, put |-> p.put + n, end |-> p.end, cap |-> p.cap]
  BY <1>1, <1>3 DEF Commit, Streambufs
<1>. QED
  BY <1>1, <1>2, <1>4 DEF Streambufs, WellFormed, Fits, Size

(* consume(n) drops n bytes, or all there are when n is more.              *)
THEOREM ConsumeDrops ==
  ASSUME NEW b \in Streambufs, WellFormed(b), NEW n \in Nat
  PROVE  /\ Consume(b, n) \in Streambufs
         /\ WellFormed(Consume(b, n))
         /\ Size(Consume(b, n)) = Size(b) - LesserOf(n, Size(b))
<1>1. Consume(b, n) = [get |-> b.get + LesserOf(n, Size(b)), put |-> b.put,
                       end |-> b.end, cap |-> b.cap]
  BY DEF Consume, Streambufs
<1>2. LesserOf(n, Size(b)) \in 0 .. Size(b) /\ Size(b) \in Nat
  BY DEF LesserOf, Size, Streambufs, WellFormed
<1>. QED
  BY <1>1, <1>2 DEF Streambufs, WellFormed, Size

(* A view stays good through an append that neither moves nor frees its    *)
(* block: what doWrite() would need of every write() that overtakes it.    *)
THEOREM ViewSurvivesAppendInPlace ==
  ASSUME NEW b \in Streambufs, WellFormed(b), NEW n \in Nat, Fits(b, n),
         NEW v \in Views, ~v.lost, v.pos = b.get
  PROVE  Intact(Outlive(v, b, n), Commit(Prepare(b, n), n))
<1>1. Prepare(b, n) = b
  BY DEF Prepare
<1>2. Outlive(v, b, n).lost = FALSE /\ Outlive(v, b, n).pos = b.get
  BY <1>1 DEF Outlive, Reallocates, Views
<1>3. Commit(b, n).get = b.get
  BY DEF Commit, Streambufs
<1>. QED
  BY <1>1, <1>2, <1>3 DEF Intact
=============================================================================
