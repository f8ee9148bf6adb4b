-------------------------------- MODULE Base64 -------------------------------
(***************************************************************************)
(* base64_encode and base64_decode, as packChar and unpackXmlCharToOutPtr  *)
(* use them: bytes are encoded into room for twice their number and 10     *)
(* more, and decoded, a character after the other, into the room the       *)
(* struct has.  Others may break the lines of the text in between.         *)
(*                                                                         *)
(* A character is the code mymap gives it: 0 to 63, Pad for "=", Other for *)
(* one that is not in the alphabet, such as a line break.                  *)
(***************************************************************************)
EXTENDS Integers, Sequences

CONSTANTS
  Binaries,    \* byte strings, and the room they are decoded into
  MaxBreaks    \* bound on the line breaks

Octet == 0 .. 255
Sextet == 0 .. 63
Pad == 254
Other == 255

OK == "ok"
BASE64_BUFFER_OVERFLOW == "overflow"
BASE64_INVALID_PACKET == "invalid packet"

Binary == [bytes : Seq(Octet), room : Nat]
ASSUME BinariesAssumption == Binaries \subseteq Binary
ASSUME BreaksAssumption == MaxBreaks \in Nat

VARIABLES
  binary,      \* the bytes, and the room for what they are decoded to
  base64,      \* what base64_encode returned: its status, and the text
  codesRead,   \* the characters of the text base64_decode has read
  breaks,      \* and the line breaks
  decoder      \* base64_decode's g, y and t, and what it has written

base64Vars == <<binary, base64, codesRead, breaks, decoder>>

\* Operators with a fault in their name are variants with that fault.

\* The four codes of three bytes; bytes that are not there count as 0.
Codes(a, b, c) == <<a \div 4, 16 * (a % 4) + b \div 16, 4 * (b % 16) + c \div 64, c % 64>>
ByteAt(in, i) == IF i <= Len(in) THEN in[i] ELSE 0
Group(in, i) == Codes(ByteAt(in, 3 * i + 1), ByteAt(in, 3 * i + 2), ByteAt(in, 3 * i + 3))

\* The codes that say something, the others are padding.
Needed(inlen) == (4 * inlen + 2) \div 3
len2(inlen) == 4 * ((inlen + 2) \div 3)
base64_encode(in, outlen) ==
  LET Code(k) == IF k <= Needed(Len(in)) THEN Group(in, (k - 1) \div 4)[1 + ((k - 1) % 4)] ELSE Pad
  IN IF outlen < len2(Len(in)) + 1 THEN [status |-> BASE64_BUFFER_OVERFLOW, out |-> << >>]
     ELSE [status |-> OK, out |-> [k \in 1 .. len2(Len(in)) |-> Code(k)]]

\* The bytes of four codes of which 3 - g are padding; the first byte is
\* written whatever g is.
BytesOfUntrimmed(t, g) == <<(t \div 65536) % 256, (t \div 256) % 256, t % 256>>
BytesOf(t, g) ==
  SubSeq(<<(t \div 65536) % 256, (t \div 256) % 256, t % 256>>, 1, IF g > 1 THEN g ELSE 1)

\* One round of base64_decode's loop.
DecodeOne(st, c, outlen) ==
  LET g == IF c = Pad THEN st.g - 1 ELSE st.g
      t == 64 * st.t + (IF c = Pad THEN 0 ELSE c)
  IN IF c = Other THEN st
     ELSE IF g < 0 \/ (c # Pad /\ g # 3) THEN [st EXCEPT !.status = BASE64_INVALID_PACKET]
     ELSE IF st.y < 3 THEN [st EXCEPT !.g = g, !.y = @ + 1, !.t = t]
     ELSE IF Len(st.out) + g > outlen THEN [st EXCEPT !.status = BASE64_BUFFER_OVERFLOW]
     ELSE [st EXCEPT !.g = g, !.y = 0, !.t = 0, !.out = @ \o BytesOf(t, g)]

-----------------------------------------------------------------------------
Base64Init ==
  /\ binary \in Binaries
  /\ base64 = base64_encode(binary.bytes, 2 * Len(binary.bytes) + 10)
  /\ codesRead = 0 /\ breaks = 0
  /\ decoder = [status |-> OK, g |-> 3, y |-> 0, t |-> 0, out |-> << >>]

Decode(c) == /\ base64.status = OK /\ decoder.status = OK
             /\ decoder' = DecodeOne(decoder, c, binary.room)
             /\ UNCHANGED <<binary, base64>>
DecodeCode == /\ codesRead < Len(base64.out)
              /\ Decode(base64.out[codesRead + 1])
              /\ codesRead' = codesRead + 1
              /\ UNCHANGED breaks
DecodeBreak == /\ breaks < MaxBreaks
               /\ Decode(Other)
               /\ breaks' = breaks + 1
               /\ UNCHANGED codesRead

Base64Next == DecodeCode \/ DecodeBreak
Base64Spec == Base64Init /\ [][Base64Next]_base64Vars

\* What base64_decode returns at the end of the text, or before.
AllRead == codesRead = Len(base64.out) \/ decoder.status # OK
base64_decode ==
  [status |-> IF decoder.status = OK /\ decoder.y # 0 THEN BASE64_INVALID_PACKET ELSE decoder.status,
   out |-> decoder.out]

-----------------------------------------------------------------------------
(* Every variable keeps its type; t holds the bits of three codes at most. *)
Bits == {t \in Nat : t < 64 * 64 * 64}
Decoder == [status : {OK, BASE64_BUFFER_OVERFLOW}, g : 0 .. 3, y : 0 .. 3, t : Bits, out : Seq(Octet)]
Base64TypeOK ==
  /\ binary \in Binary
  /\ base64 \in [status : {OK}, out : Seq(Sextet \cup {Pad})]
  /\ codesRead \in 0 .. Len(base64.out) /\ breaks \in 0 .. MaxBreaks
  /\ decoder \in Decoder

(* Bytes that are encoded fit the room packChar makes for them; they are   *)
(* decoded to what they were in room for exactly as many, wherever a line  *)
(* is broken, and refused in less, where nothing is written beyond it.     *)
Base64Back ==
  /\ base64.status = OK /\ Len(decoder.out) <= binary.room
  /\ AllRead => IF Len(binary.bytes) <= binary.room
                THEN base64_decode = [status |-> OK, out |-> binary.bytes]
                ELSE base64_decode.status = BASE64_BUFFER_OVERFLOW
=============================================================================
