--------------------------------- MODULE Obf ---------------------------------
(***************************************************************************)
(* The scrambling of passwords in obf.cpp: each character that is on a     *)
(* wheel of 77 is turned by an amount both sides can work out, any other   *)
(* stays as it is.  Characters are their ASCII codes; the hash of a key is *)
(* outside the code.                                                       *)
(***************************************************************************)
EXTENDS Integers, Sequences

CONSTANTS
  Hash(_, _),       \* 64 bytes for a hash type and a key, obfMakeOneWayHash
  Joined(_, _, _)   \* the key made of two, obfGetMD5Hash of a hash type

MAX_PASSWORD_LEN == 50

-----------------------------------------------------------------------------
(* The wheel: digits, capitals, small letters and "!" to "/".              *)

wheel_len == 77
wheel ==
  [i \in 0 .. wheel_len - 1 |->
     IF i < 10 THEN 48 + i ELSE IF i < 36 THEN 55 + i ELSE IF i < 62 THEN 61 + i ELSE i - 29]
OnWheel(c) == \E i \in 0 .. wheel_len - 1 : wheel[i] = c
Place(c) == CHOOSE i \in 0 .. wheel_len - 1 : wheel[i] = c

Turn(i, by) == (i + by) % wheel_len
TurnBack(i, by) == (i - by) % wheel_len
Scramble(c, by) == IF OnWheel(c) THEN wheel[Turn(Place(c), by)] ELSE c
Unscramble(c, by) == IF OnWheel(c) THEN wheel[TurnBack(Place(c), by)] ELSE c

-----------------------------------------------------------------------------
(* The password file: obfiEncode, obfiDecode.                              *)

\* The 16 values of seq, in octal, the lowest digit first: five bits of them
\* are taken at every third, ten times before it starts again.
Seqs ==
  <<<<0, 7, 1, 3, 3, 1, 2, 3, 7, 2, 3>>, <<6, 2, 5, 7, 2, 3, 7, 7, 5, 5, 3>>,
    <<3, 3, 4, 1, 2, 0, 0, 1, 4, 4, 0>>, <<0, 3, 3, 4, 1, 1, 4, 3, 0, 3, 2>>,
    <<6, 5, 3, 7, 7, 3, 7, 5, 1, 0, 3>>, <<7, 3, 0, 2, 3, 4, 4, 3, 5, 6, 3>>,
    <<2, 7, 4, 7, 6, 3, 3, 4, 7, 0, 1>>, <<3, 0, 5, 1, 5, 1, 4, 1, 0, 5, 2>>,
    <<2, 5, 0, 5, 7, 3, 3, 2, 7, 6, 1>>, <<6, 3, 4, 1, 7, 0, 0, 1, 7, 4, 1>>,
    <<0, 4, 4, 1, 2, 7, 3, 3, 4, 6, 0>>, <<2, 7, 0, 2, 7, 3, 7, 7, 7, 5, 1>>,
    <<0, 4, 4, 1, 2, 7, 0, 1, 7, 6, 1>>, <<6, 5, 0, 0, 5, 7, 1, 3, 7, 3, 3>>,
    <<2, 1, 0, 2, 2, 2, 3, 5, 6, 0, 2>>, <<6, 5, 0, 2, 3, 2, 3, 3, 7, 4, 3>>>>
AddIn(rval, n) ==
  LET seq == Seqs[rval + 1]
      k == (n - 1) % 10
  IN seq[k + 1] + 8 * (seq[k + 2] % 4)

HexDigit(time, shift) == 97 + ((time \div shift) % 16)
headstring(rval, time) ==
  <<83 - (2 * (rval % 8)), HexDigit(time, 16), HexDigit(time, 1), HexDigit(time, 4096),
    HexDigit(time, 256)>>
encodedTime(head) ==
  (head[2] - 97) * 16 + (head[3] - 97) + (head[4] - 97) * 4096 + (head[5] - 97) * 256

\* ".", the scrambled head, the key character, the scrambled password; uid is
\* "fairly small and not exactly uid".
By(rval, uid, n) == AddIn(rval, n) + uid
obfiEncode(in, rval, uid, time) ==
  LET text == headstring(rval, time) \o in
      scrambled == [n \in DOMAIN text |-> Scramble(text[n], By(rval, uid, n))]
  IN <<46>> \o SubSeq(scrambled, 1, 5) \o <<101 + rval>> \o SubSeq(scrambled, 6, Len(text))

Apart(a, b) == IF a < b THEN b - a ELSE a - b
Wrapped(t) == IF t < 65000 THEN t + 65535 ELSE t
\* An operator with a fault in its name is a variant with that fault.
NoWrap(time1, time2) == Apart(time1, time2) < 20
obfiTimeCheck(time1, time2) ==
  Apart(time1, time2) < 20 \/ Apart(Wrapped(time1), Wrapped(time2)) < 20

AUTH_FILE_NOT_ENCRYPTED == "AUTH_FILE_NOT_ENCRYPTED"
\* What does not look like an encoded password is returned as it is.
obfiDecode(in, uid, time) ==
  LET rval == in[7] - 101
      text == SubSeq(in, 2, 6) \o SubSeq(in, 8, Len(in))
      plain == [n \in DOMAIN text |-> Unscramble(text[n], By(rval, uid, n))]
      head == SubSeq(plain, 1, 5)
  IN IF \/ Len(in) < 7 \/ rval \notin 0..15
        \/ in[1] # 46
        \/ head[1] # 83 - (2 * (rval % 8))
        \/ ~obfiTimeCheck(encodedTime(head), time)
     THEN [status |-> AUTH_FILE_NOT_ENCRYPTED, out |-> in]
     ELSE [status |-> "ok", out |-> SubSeq(plain, 6, Len(plain))]

-----------------------------------------------------------------------------
(* With a key both sides know: obfEncodeByKey, obfDecodeByKey.             *)

HASH_TYPE_MD5 == "md5"
HASH_TYPE_SHA1 == "sha1"
sha1 == <<115, 104, 97, 49>>

KeyByte(bytes, n) == bytes[((n - 1) % 61) + 1]
\* pc after n characters: the last character on the wheel as it is in the
\* cipher, if turns are chained to it.
EncodeChain(in, bytes, chaining) ==
  LET pc[n \in 0 .. Len(in)] ==
        IF n = 0 THEN 0
        ELSE IF chaining /\ OnWheel(in[n]) THEN Scramble(in[n], KeyByte(bytes, n) + pc[n - 1])
        ELSE pc[n - 1]
  IN pc
DecodeChain(cipher, chaining) ==
  LET pc[n \in 0 .. Len(cipher)] ==
        IF n = 0 THEN 0
        ELSE IF chaining /\ OnWheel(cipher[n]) THEN cipher[n] ELSE pc[n - 1]
  IN pc

Encoded(in, bytes, chaining) ==
  LET pc == EncodeChain(in, bytes, chaining)
  IN [n \in 1 .. Len(in) |-> Scramble(in[n], KeyByte(bytes, n) + pc[n - 1])]
Decoded(cipher, bytes, chaining) ==
  LET pc == DecodeChain(cipher, chaining)
  IN [n \in 1 .. Len(cipher) |-> Unscramble(cipher[n], KeyByte(bytes, n) + pc[n - 1])]

obfEncodeByKey(in, key, hashType, chaining) ==
  (IF hashType = HASH_TYPE_SHA1 THEN sha1 ELSE << >>)
    \o Encoded(in, Hash(hashType, key), chaining)

IsSha1(in) == Len(in) >= 4 /\ SubSeq(in, 1, 4) = sha1
\* The hash type is the one the sender used, not the default one here.
obfDecodeByKey(in, key, chaining) ==
  LET hashType == IF IsSha1(in) THEN HASH_TYPE_SHA1 ELSE HASH_TYPE_MD5
      cipher == IF IsSha1(in) THEN SubSeq(in, 5, Len(in)) ELSE in
  IN Decoded(cipher, Hash(hashType, key), chaining)

V2_Prefix == <<65, 46, 79, 98, 102, 86, 50>>
\* strncat and strncpy.
UpTo(s, n) == IF Len(s) <= n THEN s ELSE SubSeq(s, 1, n)
\* rval is added to the "A", which may leave the wheel by that.
obfEncodeByKeyV2(in, key, key2, hashType, rval) ==
  obfEncodeByKey([V2_Prefix EXCEPT ![1] = @ + rval] \o UpTo(in, 150),
                 Joined(hashType, key, key2), hashType, TRUE)
\* What has not the prefix is taken to be of the first version.
IsV2(out) == Len(out) >= 7 /\ SubSeq(out, 2, 7) = SubSeq(V2_Prefix, 2, 7)
\* The static myOut has the text that was in it before (old): an empty one only
\* writes a 0 over the first character, which is not compared.  Others hide what
\* is behind their end.
Over(old, text) == IF text = << >> THEN old ELSE text
\* The rest is copied without a 0 at its end if it is too long.
obfDecodeByKeyV2(in, key, key2, hashType, old) ==
  LET myOut == Over(old, obfDecodeByKey(in, Joined(hashType, key, key2), TRUE))
      rest == SubSeq(myOut, 8, Len(myOut))
  IN [myOut |-> myOut,
      out |-> IF IsV2(myOut) THEN UpTo(rest, MAX_PASSWORD_LEN) ELSE obfDecodeByKey(in, key, FALSE),
      ended |-> IsV2(myOut) => Len(rest) < MAX_PASSWORD_LEN]
=============================================================================
