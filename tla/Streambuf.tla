------------------------------ MODULE Streambuf ------------------------------
(***************************************************************************)
(* asio::streambuf, the growable byte buffer a Session keeps for each      *)
(* direction (send_buf and recv_buf).  The bytes are left out: a buffer is *)
(* the positions of its pointers inside the block it owns,                 *)
(*                                                                         *)
(*     0 ........ get ........ put ........ end ........ cap               *)
(*      consumed      readable     writable     reserved                   *)
(*                                                                         *)
(* get, put and end are gptr(), pptr() and epptr() less &buffer_[0]; end   *)
(* is also buffer_.size() and cap is buffer_.capacity().  max_size_ is the *)
(* default, SIZE_MAX, so the length_error branch of reserve() is left out. *)
(*                                                                         *)
(* StreambufMem checks these operators against a buffer with real cells.   *)
(***************************************************************************)
EXTENDS Integers

Streambufs == [get : Nat, put : Nat, end : Nat, cap : Nat]

(* What the pointer arithmetic of every operation below keeps true.        *)
WellFormed(b) == b.get <= b.put /\ b.put <= b.end /\ b.end <= b.cap

LesserOf(m, n) == IF m <= n THEN m ELSE n
GreaterOf(m, n) == IF m >= n THEN m ELSE n

(* The buffer as constructed, delta bytes being reserved at once.          *)
NewStreambuf(delta) == [get |-> 0, put |-> 0, end |-> delta, cap |-> delta]

Size(b) == b.put - b.get

FitsWithRoomLeft(b, n) == n < b.end - b.put    \* room to the last byte unused
Fits(b, n) == n <= b.end - b.put

(* The readable bytes moved to the start of the block.                     *)
ShiftCopyingLess(b) == [b EXCEPT !.get = 0, !.put = b.get]   \* wrong count
Shift(b) == [get |-> 0, put |-> Size(b), end |-> b.end, cap |-> b.cap]

(* buffer_.resize(n): a vector keeps its block while n is within its       *)
(* capacity and otherwise takes one of at least twice its size.            *)
ResizeInPlace(b, n) == [b EXCEPT !.end = n]    \* the block not replaced
Resize(b, n) ==
  [get |-> b.get, put |-> b.put, end |-> n,
   cap |-> IF n <= b.cap THEN b.cap ELSE GreaterOf(2 * b.end, n)]

(* reserve(), the whole effect of prepare() on the buffer.                 *)
Prepare(b, n) ==
  IF Fits(b, n) THEN b
  ELSE IF Fits(Shift(b), n) THEN Shift(b)
       ELSE Resize(Shift(b), Size(b) + n)

(* Whether prepare(n) moves the buffer to another block, freeing this one. *)
Reallocates(b, n) == Prepare(b, n).cap # b.cap

Commit(b, n) == [b EXCEPT !.put = @ + LesserOf(n, b.end - b.put)]

ConsumeAll(b, n) == [b EXCEPT !.get = b.put]   \* what was sent ignored
Consume(b, n) == [b EXCEPT !.get = @ + LesserOf(n, Size(b))]

(***************************************************************************)
(* What data() hands out: the position of the readable bytes in the block  *)
(* of the moment.  lost is the specification's: it is set once that block  *)
(* has been freed.                                                         *)
(***************************************************************************)
Views == [pos : Nat, len : Nat, lost : BOOLEAN]

Data(b) == [pos |-> b.get, len |-> Size(b), lost |-> FALSE]

(* What becomes of a view of b in prepare(n).  No code computes this, nor  *)
(* Intact below: they tell what the memory would show.                     *)
Outlive(v, b, n) == [v EXCEPT !.lost = @ \/ Reallocates(b, n)]

(***************************************************************************)
(* A view still shows the bytes it was made for as long as its block is    *)
(* the buffer's and either nothing was shifted since, or what was shifted  *)
(* to the front and appended there does not reach the view.  StreambufMem  *)
(* has the cells; that Intact is right about them is proved there.         *)
(***************************************************************************)
Intact(v, b) == ~v.lost /\ (b.get = v.pos \/ b.put <= v.pos)
=============================================================================
