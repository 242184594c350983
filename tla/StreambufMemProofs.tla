------------------------- MODULE StreambufMemProofs -------------------------
(***************************************************************************)
(* That a streambuf with its cells is a queue of bytes, for every size     *)
(* reserved and every sequence of writes and consumes.                     *)
(***************************************************************************)
EXTENDS StreambufMem, StreambufProofs

(* Where prepare(n), and the commit(n) after it, leave the pointers.       *)
LEMMA PrepareMoves ==
  ASSUME NEW b \in Streambufs, WellFormed(b), NEW n \in Nat
  PROVE  LET p == Prepare(b, n)
             c == Commit(p, n)
         IN  /\ p \in Streambufs /\ c \in Streambufs /\ WellFormed(c)
             /\ p.get \in {0, b.get} /\ p.put = p.get + Size(b) /\ Size(b) \in Nat
             /\ p.end >= b.end /\ p.cap >= b.cap /\ n <= p.end - p.put
             /\ c.get = p.get /\ c.put = p.put + n /\ c.end = p.end /\ c.cap = p.cap
<1>. DEFINE p == Prepare(b, n)
            c == Commit(p, n)
<1>1. p \in Streambufs /\ WellFormed(p) /\ Fits(p, n) /\ Size(p) = Size(b)
  BY PrepareMakesRoom
<1>2. p.get \in Nat /\ p.put \in Nat /\ p.end \in Nat /\ p.cap \in Nat
  BY <1>1 DEF Streambufs
<1>3. LesserOf(n, p.end - p.put) = n
  BY <1>1, <1>2 DEF Fits, LesserOf
<1>4. c = [get |-> p.get, put |-> p.put + n, end |-> p.end, cap |-> p.cap]
  BY <1>1, <1>3 DEF Commit, Streambufs
<1>5. c \in Streambufs /\ WellFormed(c)
  BY <1>1, <1>2, <1>4 DEF Streambufs, WellFormed, Fits
<1>6. Size(b) \in Nat /\ p.put = p.get + Size(b) /\ n <= p.end - p.put
  BY <1>1, <1>2 DEF Streambufs, WellFormed, Fits, Size
<1>7. p.get \in {0, b.get} /\ p.end >= b.end /\ p.cap >= b.cap
  BY DEF Prepare, Fits, Shift, Resize, GreaterOf, Size, Streambufs, WellFormed
<1>. QED
  BY <1>1, <1>4, <1>5, <1>6, <1>7

(* The cells are as many as the block has, and the readable ones hold what *)
(* was written and not yet consumed, in its order.                         *)
CellsInv ==
  /\ buf \in Streambufs /\ WellFormed(buf)
  /\ DOMAIN mem = 0 .. buf.cap - 1
  /\ written \in Nat /\ consumed \in Nat
  /\ ReadableIsFifo

(* A view in flight: what it can see, and which of its cells have not been *)
(* written over since the readable bytes left them.                        *)
Seen == view.len > 0
ViewInv ==
  /\ view \in Views
  /\ view # NoView <=> Seen
  /\ Seen =>
       /\ view.len <= Size(buf) /\ view.pos + view.len <= buf.end
       /\ viewed = [i \in 1 .. view.len |->
                      IF view.lost THEN Scrap ELSE mem[view.pos + i - 1]]
       /\ ~view.lost /\ buf.get # view.pos =>
            /\ buf.get = 0
            /\ \A i \in 1 .. view.len :
                 view.pos + i - 1 >= buf.put => mem[view.pos + i - 1] = consumed + i

MemInv == CellsInv /\ ViewInv

(* prepare(n) moves the readable cells with their pointers, and leaves the *)
(* rest of the block.                                                      *)
LEMMA CellsMoved ==
  ASSUME CellsInv, NEW n \in Nat
  PROVE  LET p == Prepare(buf, n)
         IN  /\ DOMAIN Moved(n) = 0 .. p.cap - 1
             /\ \A i \in 0 .. Size(buf) - 1 :
                  Moved(n)[p.get + i] = mem[buf.get + i]
             /\ \A j \in Nat : p.put <= j /\ j < buf.end => Moved(n)[j] = mem[j]
<1>. DEFINE p == Prepare(buf, n)
<1>1. /\ p \in Streambufs /\ p.get \in {0, buf.get} /\ p.put = p.get + Size(buf)
      /\ Size(buf) \in Nat /\ p.end >= buf.end /\ p.cap >= buf.cap
  BY PrepareMoves DEF CellsInv
<1>2. /\ buf.get \in Nat /\ buf.put \in Nat /\ buf.end \in Nat /\ buf.cap \in Nat
      /\ buf.get <= buf.put /\ buf.put <= buf.end /\ buf.end <= buf.cap
      /\ Size(buf) = buf.put - buf.get /\ p.get \in Nat /\ p.cap \in Nat
  BY <1>1 DEF CellsInv, Streambufs, WellFormed, Size
<1>3. \A i \in 0 .. p.cap - 1 :
        Moved(n)[i] = IF buf.get - p.get > 0 /\ i < Size(buf)
                      THEN mem[i + (buf.get - p.get)]
                      ELSE IF i < buf.end THEN mem[i] ELSE Scrap
  BY DEF Moved
<1>4. DOMAIN Moved(n) = 0 .. p.cap - 1
  BY DEF Moved
<1>5. ASSUME NEW i \in 0 .. Size(buf) - 1
      PROVE  Moved(n)[p.get + i] = mem[buf.get + i]
  <2>1. CASE p.get = buf.get
    BY <1>1, <1>2, <1>3, <2>1
  <2>2. CASE p.get = 0 /\ buf.get > 0
    BY <1>1, <1>2, <1>3, <2>2, SMTT(60)
  <2>. QED
    BY <1>1, <1>2, <2>1, <2>2
<1>6. ASSUME NEW j \in Nat, p.put <= j, j < buf.end
      PROVE  Moved(n)[j] = mem[j]
  BY <1>1, <1>2, <1>3, <1>6
<1>. QED
  BY <1>4, <1>5, <1>6

(* The cells after write(): the readable ones, moved, and the new bytes.   *)
LEMMA CellsWritten ==
  ASSUME CellsInv, NEW n \in Nat \ {0}, Write(n)
  PROVE  LET p == Prepare(buf, n)
         IN  /\ CellsInv'
             /\ buf'.get = p.get /\ buf'.put = p.put + n /\ buf'.end = p.end
             /\ buf'.cap = p.cap /\ Size(buf') = Size(buf) + n
             /\ \A j \in Nat : p.put + n <= j /\ j < buf.end => mem'[j] = mem[j]
             /\ \A i \in 0 .. Size(buf) - 1 : mem'[p.get + i] = mem[buf.get + i]
<1>. DEFINE p == Prepare(buf, n)
<1>1. /\ p \in Streambufs /\ p.get \in {0, buf.get} /\ p.put = p.get + Size(buf)
      /\ Size(buf) \in Nat /\ p.end >= buf.end /\ p.cap >= buf.cap
      /\ n <= p.end - p.put
      /\ buf' \in Streambufs /\ WellFormed(buf') /\ buf'.get = p.get
      /\ buf'.put = p.put + n /\ buf'.end = p.end /\ buf'.cap = p.cap
  BY PrepareMoves DEF CellsInv, Write
<1>2. /\ p.get \in Nat /\ p.put \in Nat /\ p.end \in Nat /\ p.cap \in Nat
      /\ p.put + n <= p.cap
  BY <1>1 DEF Streambufs, WellFormed
<1>3. /\ DOMAIN Moved(n) = 0 .. p.cap - 1
      /\ \A i \in 0 .. Size(buf) - 1 : Moved(n)[p.get + i] = mem[buf.get + i]
      /\ \A j \in Nat : p.put <= j /\ j < buf.end => Moved(n)[j] = mem[j]
  BY CellsMoved
<1>4. mem' = [i \in 0 .. p.cap - 1 |->
                IF i \in p.put .. p.put + n - 1 THEN written + 1 + i - p.put
                ELSE Moved(n)[i]]
  BY <1>3 DEF Write
<1>5. /\ written \in Nat /\ consumed \in Nat /\ Size(buf) = written - consumed
      /\ \A i \in 0 .. Size(buf) - 1 : mem[buf.get + i] = consumed + i + 1
      /\ written' = written + n /\ consumed' = consumed
  BY DEF CellsInv, ReadableIsFifo, Write
<1>6. Size(buf') = Size(buf) + n
  BY <1>1, <1>2 DEF Size
<1>7. \A i \in 0 .. Size(buf) - 1 : mem'[p.get + i] = mem[buf.get + i]
  BY <1>1, <1>2, <1>3, <1>4, SMTT(60)
<1>8. \A j \in Nat : p.put + n <= j /\ j < buf.end => mem'[j] = mem[j]
  <2>. SUFFICES ASSUME NEW j \in Nat, p.put + n <= j, j < buf.end
                PROVE  mem'[j] = mem[j]
    OBVIOUS
  <2>1. buf.end \in Nat /\ buf.cap \in Nat /\ buf.end <= buf.cap
    BY DEF CellsInv, Streambufs, WellFormed
  <2>2. j \in 0 .. p.cap - 1 /\ j \notin p.put .. p.put + n - 1 /\ p.put <= j
    BY <1>1, <1>2, <2>1
  <2>. QED
    BY <1>3, <1>4, <2>2
<1>9. ASSUME NEW i \in 0 .. Size(buf') - 1
      PROVE  mem'[buf'.get + i] = consumed' + i + 1
  <2>1. CASE i < Size(buf)
    BY <1>1, <1>5, <1>7, <1>9, <2>1
  <2>2. CASE i >= Size(buf)
    <3>1. /\ p.get + i \in p.put .. p.put + n - 1 /\ p.get + i \in 0 .. p.cap - 1
          /\ written + 1 + (p.get + i) - p.put = consumed + i + 1
      BY <1>1, <1>2, <1>5, <1>6, <1>9, <2>2
    <3>. QED
      BY <1>1, <1>4, <1>5, <3>1
  <2>. QED
    BY <1>1, <1>6, <1>9, <2>1, <2>2
<1>10. DOMAIN mem' = 0 .. buf'.cap - 1
  BY <1>1, <1>4
<1>11. CellsInv'
  BY <1>1, <1>5, <1>6, <1>9, <1>10 DEF CellsInv, ReadableIsFifo
<1>. QED
  BY <1>1, <1>6, <1>7, <1>8, <1>11

LEMMA ViewWritten ==
  ASSUME MemInv, NEW n \in Nat \ {0}, Write(n)
  PROVE  ViewInv'
<1>. DEFINE p == Prepare(buf, n)
<1>1. /\ buf'.get = p.get /\ buf'.put = p.put + n /\ buf'.end = p.end
      /\ buf'.cap = p.cap /\ Size(buf') = Size(buf) + n
      /\ \A j \in Nat : p.put + n <= j /\ j < buf.end => mem'[j] = mem[j]
      /\ \A i \in 0 .. Size(buf) - 1 : mem'[p.get + i] = mem[buf.get + i]
  BY CellsWritten DEF MemInv
<1>2. /\ p \in Streambufs /\ p.get \in {0, buf.get} /\ p.put = p.get + Size(buf)
      /\ Size(buf) \in Nat /\ p.end >= buf.end
  BY PrepareMoves DEF MemInv, CellsInv
<1>3. /\ buf.get \in Nat /\ buf.end \in Nat /\ p.get \in Nat /\ p.put \in Nat
      /\ p.end \in Nat /\ consumed \in Nat
  BY <1>2 DEF MemInv, CellsInv, Streambufs
<1>4. /\ view.pos \in Nat /\ view.len \in Nat /\ view.lost \in BOOLEAN
      /\ view = [pos |-> view.pos, len |-> view.len, lost |-> view.lost]
  BY DEF MemInv, ViewInv, Views
<1>5. consumed' = consumed
  BY DEF Write
<1>6. CASE ~Seen
  <2>1. view = NoView /\ view' = NoView
    BY <1>6 DEF MemInv, ViewInv, Write
  <2>2. ~Seen' /\ view' \in Views
    BY <2>1 DEF Seen, NoView, Views
  <2>. QED
    BY <2>1, <2>2 DEF ViewInv
<1>7. CASE Seen
  <2>1. view # NoView /\ view' = Outlive(view, buf, n)
    BY <1>7 DEF MemInv, ViewInv, Write
  <2>2. view' = [pos |-> view.pos, len |-> view.len,
                 lost |-> view.lost \/ Reallocates(buf, n)]
    BY <1>4, <2>1 DEF Outlive, MemInv, ViewInv, Views
  <2>3. /\ view'.pos = view.pos /\ view'.len = view.len
        /\ view'.lost = (view.lost \/ Reallocates(buf, n))
        /\ view' \in Views
    BY <1>4, <2>2 DEF Views, Reallocates
  <2>4. Seen' /\ view' # NoView
    BY <1>7, <2>3 DEF Seen, NoView
  <2>5. view'.len <= Size(buf') /\ view'.pos + view'.len <= buf'.end
    BY <1>1, <1>2, <1>3, <1>4, <1>7, <2>3, SMTT(60) DEF MemInv, ViewInv
  <2>6. viewed' = [i \in 1 .. view'.len |->
                     IF view'.lost THEN Scrap ELSE mem'[view'.pos + i - 1]]
    BY <2>1, <2>3 DEF Write
  <2>7. ASSUME ~view'.lost, buf'.get # view'.pos
        PROVE  /\ buf'.get = 0
               /\ \A i \in 1 .. view'.len : view'.pos + i - 1 >= buf'.put =>
                    mem'[view'.pos + i - 1] = consumed' + i
    <3>1. ~view.lost
      BY <2>3, <2>7
    <3>2. buf'.get = 0
      BY <1>1, <1>2, <1>7, <2>3, <2>7, <3>1 DEF MemInv, ViewInv
    <3>3. ASSUME NEW i \in 1 .. view.len, view.pos + i - 1 >= p.put + n
          PROVE  mem'[view.pos + i - 1] = consumed + i
      <4>1. view.pos + i - 1 \in Nat /\ view.pos + i - 1 < buf.end
        BY <1>3, <1>4, <1>7, <3>3, SMTT(60) DEF MemInv, ViewInv
      <4>2. mem'[view.pos + i - 1] = mem[view.pos + i - 1]
        BY <1>1, <3>3, <4>1
      <4>3. CASE buf.get = view.pos
        <5>1. i - 1 \in 0 .. Size(buf) - 1 /\ view.pos + i - 1 = buf.get + (i - 1)
          BY <1>2, <1>3, <1>4, <1>7, <4>3, SMTT(60) DEF MemInv, ViewInv
        <5>2. mem[buf.get + (i - 1)] = consumed + (i - 1) + 1
          BY <5>1 DEF MemInv, CellsInv, ReadableIsFifo
        <5>. QED
          BY <1>3, <4>2, <5>1, <5>2
      <4>4. CASE buf.get # view.pos
        <5>1. buf.get = 0 /\ buf.put = Size(buf)
          BY <1>3, <1>7, <3>1, <4>4 DEF MemInv, ViewInv, CellsInv, Streambufs, Size
        <5>2. view.pos + i - 1 >= buf.put
          BY <1>2, <1>3, <1>4, <3>3, <5>1
        <5>. QED
          BY <1>7, <3>1, <4>2, <4>4, <5>2 DEF MemInv, ViewInv
      <4>. QED
        BY <4>3, <4>4
    <3>. QED
      BY <1>1, <1>5, <2>3, <3>2, <3>3
  <2>. QED
    BY <2>3, <2>4, <2>5, <2>6, <2>7 DEF ViewInv
<1>. QED
  BY <1>6, <1>7

LEMMA MemTaken ==
  ASSUME MemInv, TakeData  PROVE MemInv'
<1>1. /\ view' = [pos |-> buf.get, len |-> Size(buf), lost |-> FALSE]
      /\ viewed' = [i \in 1 .. Size(buf) |-> mem[buf.get + i - 1]]
      /\ UNCHANGED <<buf, mem, written, consumed>> /\ Size(buf) > 0
  BY DEF TakeData, Data
<1>2. /\ buf.get \in Nat /\ Size(buf) \in Nat /\ buf.get + Size(buf) <= buf.end
  BY DEF MemInv, CellsInv, Streambufs, WellFormed, Size
<1>3. CellsInv'
  BY <1>1 DEF MemInv, CellsInv, ReadableIsFifo
<1>4. /\ view'.pos = buf.get /\ view'.len = Size(buf) /\ view'.lost = FALSE
      /\ view' \in Views /\ view' # NoView
  BY <1>1, <1>2 DEF Views, NoView
<1>5. ViewInv'
  BY <1>1, <1>2, <1>4 DEF ViewInv, Seen
<1>. QED
  BY <1>3, <1>5 DEF MemInv

LEMMA MemSent ==
  ASSUME MemInv, NEW n \in Nat \ {0}, Sent(n)  PROVE MemInv'
<1>1. /\ view # NoView /\ n <= view.len /\ view.len <= Size(buf) /\ view.len \in Nat
      /\ buf' = Consume(buf, n) /\ consumed' = consumed + n /\ view' = NoView
      /\ UNCHANGED <<mem, written>>
  BY DEF Sent, MemInv, ViewInv, Views
<1>2. /\ buf \in Streambufs /\ WellFormed(buf) /\ Size(buf) \in Nat
      /\ written \in Nat /\ consumed \in Nat /\ Size(buf) = written - consumed
      /\ \A i \in 0 .. Size(buf) - 1 : mem[buf.get + i] = consumed + i + 1
      /\ DOMAIN mem = 0 .. buf.cap - 1
  BY DEF MemInv, CellsInv, ReadableIsFifo, Streambufs, WellFormed, Size
<1>3. buf' = [get |-> buf.get + n, put |-> buf.put, end |-> buf.end, cap |-> buf.cap]
  <2>1. LesserOf(n, Size(buf)) = n
    <3>1. n <= Size(buf)
      BY <1>1, <1>2
    <3>. QED
      BY <3>1 DEF LesserOf
  <2>2. Consume(buf, n) = [buf EXCEPT !.get = @ + n]
    BY <2>1 DEF Consume
  <2>. QED
    BY <1>1, <1>2, <2>2 DEF Streambufs
<1>4. buf' \in Streambufs /\ WellFormed(buf') /\ Size(buf') = Size(buf) - n
  BY <1>1, <1>2, <1>3, SMTT(60) DEF Streambufs, WellFormed, Size
<1>5. ASSUME NEW i \in 0 .. Size(buf') - 1
      PROVE  mem'[buf'.get + i] = consumed' + i + 1
  <2>1. n + i \in 0 .. Size(buf) - 1 /\ buf'.get + i = buf.get + (n + i)
    BY <1>1, <1>2, <1>3, <1>4, <1>5 DEF Streambufs
  <2>. QED
    BY <1>1, <1>2, <2>1, SMTT(60)
<1>6. CellsInv'
  <2>1. written' \in Nat /\ consumed' \in Nat
    BY <1>1, <1>2
  <2>2. DOMAIN mem' = 0 .. buf'.cap - 1
    <3>1. buf'.cap = buf.cap
      BY <1>3
    <3>. QED
      BY <1>1, <1>2, <3>1
  <2>3. Size(buf') = written' - consumed'
    <3>1. Size(buf') = Size(buf) - n
      BY <1>4
    <3>2. written' = written /\ consumed' = consumed + n
      BY <1>1
    <3>. QED
      BY <1>2, <3>1, <3>2
  <2>. QED
    BY <1>4, <1>5, <2>1, <2>2, <2>3 DEF CellsInv, ReadableIsFifo
<1>7. ViewInv'
  BY <1>1 DEF ViewInv, Seen, NoView, Views
<1>. QED
  BY <1>6, <1>7 DEF MemInv

LEMMA MemInductive == Spec => []MemInv
<1>1. Init => MemInv
  <2>. SUFFICES ASSUME Init  PROVE MemInv
    OBVIOUS
  <2>1. /\ buf = [get |-> 0, put |-> 0, end |-> Delta, cap |-> Delta]
        /\ mem = [i \in 0 .. Delta - 1 |-> Scrap] /\ written = 0 /\ consumed = 0
        /\ view = [pos |-> 0, len |-> 0, lost |-> FALSE] /\ view = NoView
    BY DEF Init, NewStreambuf, NoView
  <2>2. CellsInv
    BY <2>1, StreambufAssumption DEF CellsInv, ReadableIsFifo, Streambufs, WellFormed,
       Size
  <2>3. view \in Views /\ view.len = 0
    BY <2>1 DEF Views
  <2>. QED
    BY <2>1, <2>2, <2>3 DEF MemInv, ViewInv, Seen
<1>2. MemInv /\ [Next]_vars => MemInv'
  <2>. SUFFICES ASSUME MemInv, [Next]_vars  PROVE MemInv'
    OBVIOUS
  <2>1. ASSUME NEW n \in Sizes, Write(n)  PROVE MemInv'
    <3>1. n \in Nat \ {0}
      BY StreambufAssumption
    <3>. QED
      BY <2>1, <3>1, CellsWritten, ViewWritten DEF MemInv
  <2>2. ASSUME NEW n \in 1 .. MaxBytes, Sent(n)  PROVE MemInv'
    <3>1. n \in Nat \ {0}
      BY StreambufAssumption
    <3>. QED
      BY <2>2, <3>1, MemSent
  <2>3. CASE UNCHANGED vars
    BY <2>3 DEF vars, MemInv, CellsInv, ReadableIsFifo, ViewInv, Seen
  <2>. QED
    BY <2>1, <2>2, <2>3, MemTaken DEF Next
<1>. QED
  BY <1>1, <1>2, PTL DEF Spec

(* However prepare(), commit() and consume() alternate, the readable bytes *)
(* are those written and not consumed, in order, for every size of write   *)
(* and every size reserved at first.                                       *)
THEOREM Fifo == Spec => []ReadableIsFifo
<1>1. MemInv => ReadableIsFifo
  BY DEF MemInv, CellsInv
<1>. QED
  BY <1>1, MemInductive, PTL

(* The pointers stay inside the block.                                     *)
THEOREM PointersInside == Spec => []TypeOK
<1>1. MemInv => TypeOK
  BY DEF MemInv, CellsInv, ViewInv, TypeOK
<1>. QED
  BY <1>1, MemInductive, PTL
-----------------------------------------------------------------------------
(* Intact, by which the model of Session tells whether a write in flight   *)
(* still sends what it was given, is neither too strict nor too lax.       *)
IntactTells == view # NoView => (Intact(view, buf) <=> Shown)

LEMMA IntactExactly == MemInv => IntactTells
<1>. SUFFICES ASSUME MemInv, view # NoView
              PROVE  Intact(view, buf) <=> Shown
  BY DEF IntactTells
<1>1. Intact(view, buf) <=> \A i \in 1 .. view.len : viewed[i] = consumed + i
  <2>1. /\ view.len \in Nat /\ view.len > 0 /\ view.pos \in Nat
        /\ view.len <= Size(buf) /\ view.lost \in BOOLEAN
        /\ \A i \in 1 .. view.len :
             viewed[i] = IF view.lost THEN Scrap ELSE mem[view.pos + i - 1]
    BY DEF MemInv, ViewInv, Seen, Views
  <2>2. /\ consumed \in Nat /\ buf.get \in Nat /\ buf.put \in Nat
        /\ Size(buf) = buf.put - buf.get /\ Size(buf) \in Nat
        /\ \A i \in 0 .. Size(buf) - 1 : mem[buf.get + i] = consumed + i + 1
    BY DEF MemInv, CellsInv, ReadableIsFifo, Streambufs, WellFormed, Size
  <2>3. CASE view.lost
    <3>1. viewed[1] = 0 /\ 1 \in 1 .. view.len
      BY <2>1, <2>3 DEF Scrap
    <3>2. viewed[1] # consumed + 1
      BY <2>2, <3>1
    <3>. QED
      BY <2>3, <3>1, <3>2 DEF Intact
  <2>4. CASE ~view.lost /\ buf.get = view.pos
    <3>1. ASSUME NEW i \in 1 .. view.len  PROVE viewed[i] = consumed + i
      <4>1. i - 1 \in 0 .. Size(buf) - 1 /\ view.pos + i - 1 = buf.get + (i - 1)
        BY <2>1, <2>2, <2>4
      <4>2. mem[buf.get + (i - 1)] = consumed + (i - 1) + 1
        BY <2>2, <4>1
      <4>. QED
        BY <2>1, <2>2, <2>4, <4>1, <4>2
    <3>. QED
      BY <2>4, <3>1 DEF Intact
  <2>5. CASE ~view.lost /\ buf.get # view.pos
    <3>1. /\ buf.get = 0
          /\ \A i \in 1 .. view.len :
               view.pos + i - 1 >= buf.put => mem[view.pos + i - 1] = consumed + i
      BY <2>5 DEF MemInv, ViewInv
    <3>2. CASE buf.put <= view.pos
      <4>1. \A i \in 1 .. view.len : viewed[i] = consumed + i
        BY <2>1, <2>2, <2>5, <3>1, <3>2
      <4>. QED
        BY <2>5, <3>2, <4>1 DEF Intact
    <3>3. CASE buf.put > view.pos
      <4>1. /\ view.pos \in 0 .. Size(buf) - 1 /\ view.pos > 0
            /\ 1 \in 1 .. view.len /\ view.pos + 1 - 1 = buf.get + view.pos
        BY <2>1, <2>2, <2>5, <3>1, <3>3
      <4>2. viewed[1] = consumed + view.pos + 1
        BY <2>1, <2>2, <2>5, <4>1
      <4>3. viewed[1] # consumed + 1
        BY <2>1, <2>2, <4>1, <4>2
      <4>. QED
        BY <2>1, <2>2, <2>5, <3>3, <4>1, <4>3 DEF Intact
    <3>. QED
      BY <2>1, <2>2, <3>2, <3>3
  <2>. QED
    BY <2>1, <2>3, <2>4, <2>5
<1>. QED
  BY <1>1 DEF Shown

(* A write that finds room behind the put pointer leaves the bytes of a    *)
(* write in flight where it looks for them, and nothing else touches them. *)
LEMMA ShownNext ==
  ASSUME MemInv, IntactTells, IntactTells', [Next]_vars, Shown, ~Shown'
  PROVE  buf.put + (written' - written) > buf.end \/ buf.get # view.pos
<1>1. view' # NoView /\ ~Intact(view', buf')
  <2>1. view' = NoView => Shown'
    BY DEF Shown, NoView
  <2>. QED
    BY <2>1 DEF IntactTells
<1>2. ~TakeData
  BY <1>1 DEF TakeData, Data, Intact
<1>3. \A n \in 1 .. MaxBytes : ~Sent(n)
  BY <1>1 DEF Sent
<1>4. CASE UNCHANGED vars
  BY <1>4 DEF vars, Shown
<1>5. ASSUME NEW n \in Sizes, Write(n), buf.put + n <= buf.end, buf.get = view.pos
      PROVE  FALSE
  <2>1. view # NoView /\ view' = Outlive(view, buf, n)
        /\ buf' = Commit(Prepare(buf, n), n)
    BY <1>1, <1>5 DEF Write
  <2>2. ~view.lost /\ view \in Views
    BY <2>1 DEF IntactTells, Intact, MemInv, ViewInv
  <2>3. n \in Nat /\ Fits(buf, n) /\ buf \in Streambufs /\ WellFormed(buf)
    BY <1>5, StreambufAssumption DEF Fits, MemInv, CellsInv, Streambufs
  <2>. QED
    BY <1>1, <1>5, <2>1, <2>2, <2>3, ViewSurvivesAppendInPlace
<1>6. ASSUME NEW n \in Sizes, Write(n)
      PROVE  buf.put + (written' - written) > buf.end \/ buf.get # view.pos
  <2>1. written' - written = n /\ n \in Nat /\ buf.put \in Nat /\ buf.end \in Nat
    BY <1>6, StreambufAssumption DEF Write, MemInv, CellsInv, Streambufs
  <2>. QED
    BY <1>5, <1>6, <2>1
<1>. QED
  BY <1>2, <1>3, <1>4, <1>6 DEF Next

(* Until a write() finds no room behind the put pointer, what a write in   *)
(* flight sees is what it was given: for every size reserved and every     *)
(* sequence of writes and partial sends.                                   *)
THEOREM RoomKeepsViews == Spec => OnlyMovesSpoil
<1>1. MemInv /\ IntactTells /\ IntactTells' /\ [Next]_vars =>
        [Shown /\ ~Shown' =>
           buf.put + (written' - written) > buf.end \/ buf.get # view.pos]_vars
  BY ShownNext
<1>. QED
  BY <1>1, IntactExactly, MemInductive, PTL DEF Spec, OnlyMovesSpoil
=============================================================================
