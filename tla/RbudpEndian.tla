---------------------------- MODULE RbudpEndian ----------------------------
(***************************************************************************)
(* The byte order of RBUDP's sequence numbers.  The wire format says       *)
(* nothing of it: "we're not sure whether the peer is the same endian-ness *)
(* we are", says initErrorBitmap, and a number that is out of range is     *)
(* taken as the sign of a peer with the other one.  Here the numbers have  *)
(* their 32 bits, the packets of one chunk arrive in any order, and the    *)
(* question is where their payloads are copied and which bits are set.     *)
(***************************************************************************)
EXTENDS Integers, FiniteSets

CONSTANTS
  PacketCount,    \* totalNumberOfPackets
  Sample          \* the packets that are sent, a part of 0..PacketCount-1

ASSUME SampleAssumption ==
  PacketCount \in Nat \ {0} /\ Sample \subseteq 0..(PacketCount - 1)

\* The byte of a 32-bit two's complement number that counts so much.
Byte(val, worth) == (val \div worth) % 256

\* swab32, the result a signed int again.
Swab32(val) ==
  LET top == Byte(val, 1)
  IN  (IF top >= 128 THEN top - 256 ELSE top) * 16777216
        + Byte(val, 256) * 65536 + Byte(val, 65536) * 256 + Byte(val, 16777216)

Packets == INSTANCE RbudpSeq WITH BitsPerByte <- 8, Swab <- Swab32

VARIABLES
  opposite,   \* is the sender's byte order the other one?
  peerswap,   \* the receiver's flag
  sent,       \* the last packet received, -1 before the first
  placed,     \* where its payload was copied
  marked      \* the bits set for it

endianVars == <<opposite, peerswap, sent, placed, marked>>

EndianInit ==
  /\ opposite \in BOOLEAN
  /\ peerswap = FALSE
  /\ sent = -1 /\ placed = -1 /\ marked = {}

\* udpReceive: ptohseq, the copy, updateErrorBitmap.
Receive(s) ==
  LET wire == IF opposite THEN Swab32(s) ELSE s
      host == Packets!PtohSeq(PacketCount, peerswap, wire)
      mark == Packets!Marked(PacketCount, host.swap, host.seq)
  IN  /\ sent' = s
      /\ placed' = host.seq
      /\ marked' = mark.bits
      /\ peerswap' = mark.swap
      /\ UNCHANGED opposite

EndianNext == \E s \in Sample : Receive(s)

EndianSpec == EndianInit /\ [][EndianNext]_endianVars

\* Whatever the byte order of the peer and the packets seen before, a payload
\* is copied to its own place and its own bit is set: ptohseq will "convert
\* peer's sequence numbers to our internal form (maybe byteswapped)".  From
\* 65536 packets on, where a swapped number can be in range, it is not so.
InPlace == sent >= 0 => placed = sent /\ marked = {sent}
=============================================================================
