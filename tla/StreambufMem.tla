---------------------------- MODULE StreambufMem ----------------------------
(***************************************************************************)
(* asio::streambuf with its memory: the reference the pointer arithmetic   *)
(* of Streambuf is checked against.  A cell holds the number of a byte in  *)
(* the order the bytes were written; Scrap is what nobody wrote, or what a *)
(* freed block holds.                                                      *)
(*                                                                         *)
(* The steps are the calls Session makes on send_buf: write() prepares,    *)
(* copies and commits, doWrite() takes data() for the write it starts, and *)
(* the write's handler consumes what was sent.                             *)
(***************************************************************************)
EXTENDS Streambuf

CONSTANTS Delta,     \* bytes reserved by the constructor (128 in the code)
          Sizes,     \* sizes of the writes
          MaxBytes   \* bound: bytes written in a behaviour

ASSUME StreambufAssumption ==
  /\ Delta \in Nat \ {0}
  /\ Sizes \subseteq Nat \ {0}
  /\ MaxBytes \in Nat

Scrap == 0

VARIABLES buf,       \* the pointers
          mem,       \* the cells of the block buf points into
          written,   \* how many bytes were written so far
          consumed,  \* how many bytes were consumed so far
          view,      \* the view a write in flight holds, NoView when none is
          viewed     \* the cells that view can see

vars == <<buf, mem, written, consumed, view, viewed>>

NoView == [pos |-> 0, len |-> 0, lost |-> FALSE]

Init ==
  /\ buf = NewStreambuf(Delta)
  /\ mem = [i \in 0 .. Delta - 1 |-> Scrap]
  /\ written = 0
  /\ consumed = 0
  /\ view = NoView
  /\ viewed = <<>>

(* The block after prepare(n): memmove of the readable cells to the front  *)
(* if they were shifted, and a copy of the block if it was too small.      *)
Moved(n) ==
  LET b == Prepare(buf, n)
      by == buf.get - b.get
  IN  [i \in 0 .. b.cap - 1 |->
         IF by > 0 /\ i < Size(buf) THEN mem[i + by]
         ELSE IF i < buf.end THEN mem[i] ELSE Scrap]

(* prepare(n), memcpy and commit(n) of n new bytes.                        *)
Write(n) ==
  LET b == Prepare(buf, n)
      filled == [i \in DOMAIN Moved(n) |->
                   IF i \in b.put .. b.put + n - 1
                   THEN written + 1 + i - b.put ELSE Moved(n)[i]]
      v == Outlive(view, buf, n)
  IN  /\ written + n <= MaxBytes
      /\ buf' = Commit(b, n)
      /\ mem' = filled
      /\ written' = written + n
      /\ view' = IF view = NoView THEN NoView ELSE v
      /\ viewed' = [i \in 1 .. view.len |->
                      IF v.lost THEN Scrap ELSE filled[view.pos + i - 1]]
      /\ UNCHANGED consumed

(* doWrite() hands data() to the write it starts.                          *)
TakeData ==
  /\ view = NoView
  /\ Size(buf) > 0
  /\ view' = Data(buf)
  /\ viewed' = [i \in 1 .. Size(buf) |-> mem[buf.get + i - 1]]
  /\ UNCHANGED <<buf, mem, written, consumed>>

(* The handler of that write consumes the n bytes that were sent.          *)
Sent(n) ==
  /\ view # NoView
  /\ n <= view.len
  /\ buf' = Consume(buf, n)
  /\ consumed' = consumed + n
  /\ view' = NoView
  /\ viewed' = <<>>
  /\ UNCHANGED <<mem, written>>

Next ==
  \/ \E n \in Sizes : Write(n)
  \/ TakeData
  \/ \E n \in 1 .. MaxBytes : Sent(n)

Spec == Init /\ [][Next]_vars
-----------------------------------------------------------------------------
(* The pointers stay in order and inside the block; the block is buf.cap   *)
(* cells.                                                                  *)
TypeOK ==
  /\ buf \in Streambufs /\ WellFormed(buf)
  /\ DOMAIN mem = 0 .. buf.cap - 1
  /\ view \in Views

(* The readable bytes are exactly those written and not yet consumed, in   *)
(* the order they were written: shifting and growing in prepare() lose and *)
(* reorder nothing, however writes and consumes alternate.                 *)
ReadableIsFifo ==
  /\ Size(buf) = written - consumed
  /\ \A i \in 0 .. Size(buf) - 1 : mem[buf.get + i] = consumed + i + 1

(* Whether the write in flight would still send the bytes it was given.    *)
Shown == \A i \in 1 .. view.len : viewed[i] = consumed + i

(* Only one thing takes its bytes from a write in flight: a write() that   *)
(* finds no room behind the put pointer, or one that follows such a write, *)
(* appending where the bytes have been moved from.  While there is room,   *)
(* and after sends of any part, prepare() leaves them where they are       *)
(* (basic_streambuf.hpp:321-346, session.cpp:35, 105).                     *)
OnlyMovesSpoil ==
  [][Shown /\ ~Shown' =>
       buf.put + (written' - written) > buf.end \/ buf.get # view.pos]_vars
=============================================================================
