------------------------------ MODULE PakLength ------------------------------
(***************************************************************************)
(* The lengths a message passes through between write() on one side and    *)
(* onMessage on the other: a size_t, the PakSize of the frame that also    *)
(* counts the PakHeadData, an int without it, and a size_t again.          *)
(***************************************************************************)
EXTENDS Integers

CONSTANTS
  IntHalf,   \* 2^31: an int holds -IntHalf .. IntHalf - 1
  SizeMod,   \* 2^64: how many values size_t and PakSize have
  HdLen      \* HD_LEN = sizeof(PakHeadData), 1 as shipped

ASSUME LengthAssumption ==
  /\ IntHalf \in Nat \ {0} /\ SizeMod \in Nat /\ HdLen \in Nat
  /\ SizeMod > 0 /\ SizeMod % (2 * IntHalf) = 0 /\ HdLen < IntHalf

Lengths == 0 .. SizeMod - 1

AsSize(n) == n % SizeMod
AsInt(n) == LET m == n % (2 * IntHalf) IN IF m < IntHalf THEN m ELSE m - 2 * IntHalf

(* write(): session->write(length + HD_LEN, buf).                          *)
FrameLength(length) == AsSize(length + HdLen)

(* read_callback: int bodylen = length - HD_LEN, tested for less than 0    *)
(* and given to onMessage as a size_t.                                     *)
FrameIsBody(frame) == AsInt(AsSize(frame))         \* the head counted in
BodyLength(frame) == AsInt(AsSize(frame - HdLen))
TooShort(frame) == BodyLength(frame) < 0
ShownAsInt(frame) == BodyLength(frame)             \* handed on as it is
ShownLength(frame) == AsSize(BodyLength(frame))
=============================================================================
