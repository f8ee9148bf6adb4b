-------------------------------- MODULE PwCode --------------------------------
(***************************************************************************)
(* A password from the program that scrambles it to one that reads it: in  *)
(* the password file, where the time of the file is part of the key        *)
(* (obfiEncode, obfiDecode), or in a message, with a key both sides know   *)
(* (obfEncodeByKey, obfEncodeByKeyV2 and their inverses).  A file may be   *)
(* written again by others, and be younger than the time in it; a program  *)
(* reads one message after another, into one buffer.                       *)
(***************************************************************************)
EXTENDS Obf

CONSTANTS
  Keys,      \* the keys of both sides
  Secrets,   \* passwords, and how they are scrambled
  Delays     \* how much younger than the time in it a file may be, in seconds

HashTypes == {HASH_TYPE_MD5, HASH_TYPE_SHA1}
Char == 1 .. 255
Clock == 0 .. 65535   \* what is kept of a time in seconds
ByTime == [how : {"time"}, text : Seq(Char), rval : 0 .. 15, uid : Nat, saved : Clock]
WithKeys == [how : {"key", "keyV2"}, text : Seq(Char), key : Keys, key2 : Keys, sender : HashTypes,
             rval : 0 .. 31]

\* No password is longer than the file, or the buffer for what is read, takes.
ASSUME SecretsAssumption ==
  /\ Secrets \subseteq ByTime \cup WithKeys
  /\ \A p \in Secrets : /\ p.how = "time" => Len(p.text) + 7 < MAX_PASSWORD_LEN
                        /\ p.how = "key" => Len(p.text) < 200
ASSUME DelaysAssumption == Delays \subseteq Nat
\* A digest is 16 bytes, four of them are made.
ASSUME HashAssumption ==
  \A t \in HashTypes, k, k2 \in Keys :
    LET Digests == [1 .. 64 -> 0 .. 255]
    IN Hash(t, k) \in Digests /\ \A t2 \in HashTypes : Hash(t, Joined(t2, k, k2)) \in Digests

VARIABLES
  pw,      \* the password, and how it is scrambled
  coded,   \* is it scrambled yet?
  code,    \* what was written
  later,   \* how much younger than the time in it the file is by now
  myOut    \* what the buffer of the reader by two keys has in it

pwCodeVars == <<pw, coded, code, later, myOut>>

PwCodeInit == pw \in Secrets /\ coded = FALSE /\ code = << >> /\ later = 0 /\ myOut = << >>

Written(text) == coded = FALSE /\ coded' = TRUE /\ code' = text /\ UNCHANGED <<pw, later, myOut>>
EncodeByTime == pw.how = "time" /\ Written(obfiEncode(pw.text, pw.rval, pw.uid, pw.saved))
EncodeByKey == pw.how = "key" /\ Written(obfEncodeByKey(pw.text, pw.key, pw.sender, FALSE))
EncodeByKeyV2 ==
  pw.how = "keyV2" /\ Written(obfEncodeByKeyV2(pw.text, pw.key, pw.key2, pw.sender, pw.rval))
Rewritten == coded /\ pw.how = "time" /\ later' \in Delays /\ UNCHANGED <<pw, coded, code, myOut>>

ReadBy(receiver) == obfDecodeByKeyV2(code, pw.key, pw.key2, receiver, myOut)
\* One message is read, then there is another one.
ReadByKeyV2 ==
  /\ coded /\ pw.how # "time" /\ \E receiver \in HashTypes : myOut' = ReadBy(receiver).myOut
  /\ UNCHANGED <<pw, coded, code, later>>
NextMessage ==
  /\ coded /\ pw.how # "time" /\ pw' \in Secrets /\ pw'.how # "time"
  /\ coded' = FALSE /\ code' = << >> /\ UNCHANGED <<later, myOut>>

PwCodeNext == EncodeByTime \/ EncodeByKey \/ EncodeByKeyV2 \/ Rewritten \/ ReadByKeyV2 \/ NextMessage
PwCodeSpec == PwCodeInit /\ [][PwCodeNext]_pwCodeVars

-----------------------------------------------------------------------------
(* A password read by the user who saved it is the one that was saved, as  *)
(* long as the time of the file is less than 20 seconds from the one that  *)
(* is written in it, over the wrap of 16 bits too; after that the file is  *)
(* taken not to be encrypted.  (At 20 it is, unless a wrap lies between:   *)
(* 65535 is added to the later time, and not 65536; and 20 seconds before  *)
(* the time has gone all the way round it is taken again.)                 *)
ReadInTime ==
  LET back == obfiDecode(code, pw.uid, (pw.saved + later) % 65536)
      whole == [status |-> "ok", out |-> pw.text]
      refused == [status |-> AUTH_FILE_NOT_ENCRYPTED, out |-> code]
  IN /\ later < 20 => back = whole
     /\ later = 20 => back = IF pw.saved + later > 65535 THEN whole ELSE refused
     /\ later > 20 /\ later <= 65515 => back = refused
TimeBack == coded /\ pw.how = "time" => ReadInTime

(* "If encoding is not V2, handles is at V1": what was encoded by a key is *)
(* decoded by it, by the reader of the second version too, whatever the    *)
(* hash type here is for the first, and with the sender's for the second.  *)
(* But a code by MD5 may begin like one by SHA1, and one of the first      *)
(* version may be, to the second reader, one of the second; an empty one   *)
(* is, if one of the second was read before it, which it then gets again.  *)
(* Of the second version 50 characters come back, and an end only if there *)
(* are fewer.                                                              *)
TakenForSha1 == pw.sender = HASH_TYPE_MD5 /\ IsSha1(code)
TakenForV2(receiver) ==
  pw.how = "key" /\ IsV2(obfDecodeByKey(code, Joined(receiver, pw.key, pw.key2), TRUE))
TakenForLast == pw.how = "key" /\ pw.text = << >> /\ IsV2(myOut)
KeyBack == coded /\ pw.how # "time" /\ ~TakenForSha1 =>
  /\ pw.how = "key" => obfDecodeByKey(code, pw.key, FALSE) = pw.text
  /\ pw.how = "key" /\ ~TakenForLast =>
       \A receiver \in HashTypes : ~TakenForV2(receiver) =>
         ReadBy(receiver).out = pw.text /\ ReadBy(receiver).ended
  /\ pw.how = "keyV2" =>
       /\ ReadBy(pw.sender).out = UpTo(pw.text, MAX_PASSWORD_LEN)
       /\ ReadBy(pw.sender).ended <=> Len(pw.text) < MAX_PASSWORD_LEN

(* What obfEncodeByKey makes of an empty password is decoded as empty,     *)
(* whatever the program decoded before it.  It is not so: TLC refutes it   *)
(* with an empty V1 password after one of V2, and KeyBack excepts that.    *)
EmptyAtV1 ==
  coded /\ pw.how = "key" /\ pw.text = << >> =>
    \A receiver \in HashTypes : ReadBy(receiver).out = << >>

(* Scrambled passwords are read back, with the clock and with a key.       *)
PasswordsBack == TimeBack /\ KeyBack
=============================================================================
