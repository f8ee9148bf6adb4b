------------------------------ MODULE RbudpSeq ------------------------------
(***************************************************************************)
(* The sequence numbers and the error bitmap of RBUDP, the reliable-UDP    *)
(* transfer of src/src/rbudp: how a receiver turns the number in a packet  *)
(* header into a position of its buffer, which bit it marks for it, and    *)
(* which packets the bitmap asks the sender to send again.                 *)
(*                                                                         *)
(* A bitmap is the set of its bits that are 1, numbered from bit 0 of byte *)
(* 1 (byte 0 of errorBitmap is the all-done flag and is kept apart).       *)
(***************************************************************************)
EXTENDS Integers, FiniteSets

\* Bits of a bitmap byte (8 in the code) and the byte swap of a number: the
\* program's swab32, which RbudpEndian gives its real 32-bit definition.
CONSTANTS BitsPerByte, Swab(_)

ASSUME BitsPerByteAssumption == BitsPerByte \in Nat \ {0}

\* sizeofErrorBitmap - 1 bytes of bits: totalNumberOfPackets / 8 + 1.
Slots(n) == BitsPerByte * ((n \div BitsPerByte) + 1)

\* Operators named for a fault are variants with that fault: what a plausible
\* slip in the code would do, to see that a property notices.
\* The bound ptohseq and updateErrorBitmap test: it is the bitmap's, rounded
\* up to a whole byte, not the number of packets.
InRange(n, seq) == seq \in 0..(Slots(n) - 1)

FreshBitmapShort(n) == (n - 1)..(Slots(n) - 1)

\* initErrorBitmap: all bits 0, but those past the last packet preset to 1.
FreshBitmap(n) == n..(Slots(n) - 1)

\* ptohseq: the position a header's number stands for, and the peerswap flag
\* after the call.  A number that is out of range both ways becomes 0.
PtohSeq(n, swap, seq) ==
  LET first   == IF swap THEN Swab(seq) ELSE seq
      swapped == IF swap THEN first ELSE Swab(first)
  IN  [seq  |-> IF InRange(n, first) THEN first
                ELSE IF InRange(n, swapped) THEN swapped ELSE 0,
       swap |-> swap \/ ~InRange(n, first)]

MarkedWithoutRetry(n, swap, seq) ==
  LET first == IF swap THEN Swab(seq) ELSE seq
  IN  [bits |-> {first} \cap 0..(Slots(n) - 1),
       swap |-> swap \/ ~InRange(n, first)]

\* updateErrorBitmap: the bits it adds for the position seq (none when both
\* forms are out of range), and the peerswap flag after the call.
Marked(n, swap, seq) ==
  LET first  == IF swap THEN Swab(seq) ELSE seq
      second == IF InRange(n, first) THEN first ELSE Swab(first)
  IN  [bits |-> {second} \cap 0..(Slots(n) - 1),
       swap |-> swap \/ ~InRange(n, first)]

MissingOffByOne(n, bits) == {s - 1 : s \in 0..(Slots(n) - 1) \ bits}

\* updateHashTable: the zero bits, which the sender sends next.
Missing(n, bits) == 0..(Slots(n) - 1) \ bits
=============================================================================
