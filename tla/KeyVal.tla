-------------------------------- MODULE KeyVal --------------------------------
(***************************************************************************)
(* keyValPair_t, the options of nearly every request: two arrays of        *)
(* pointers that grow by PTR_ARRAY_MALLOC_LEN when their length is a       *)
(* multiple of it, whatever room there is, and are never asked how much    *)
(* room they have.  inxIvalPair_t, inxValPair_t, rError_t, strArray_t and  *)
(* msParamArray_t grow in the same way.                                    *)
(***************************************************************************)
EXTENDS Integers, Sequences

CONSTANTS
  PtrArrayMallocLen,   \* PTR_ARRAY_MALLOC_LEN, 10
  KeyWords, Values,
  Hole,                \* the empty keyword, or a NULL pointer
  NoValue              \* a NULL value

ASSUME KeyValAssumption ==
  /\ PtrArrayMallocLen \in Nat \ {0}
  /\ Hole \in KeyWords
  /\ NoValue \notin Values

VARIABLES
  keyWord, value,      \* the arrays, up to len
  room                 \* the slots allocated, 0 for NULL pointers

keyValVars == <<keyWord, value, room>>
len == Len(keyWord)

KeyValTypeOK ==
  /\ keyWord \in Seq(KeyWords)
  /\ value \in Seq(Values) /\ Len(value) = len
  /\ room \in Nat

KeyValInit == keyWord = << >> /\ value = << >> /\ room = 0

\* Operators with a fault in their name are variants with that fault.
GrownTight(n, r) == IF n % PtrArrayMallocLen = 0 THEN n + PtrArrayMallocLen - 1 ELSE r
Grown(n, r) == IF n % PtrArrayMallocLen = 0 THEN n + PtrArrayMallocLen ELSE r

\* The slots that are empty or have the keyword; the first is taken.
Usable(k) == {i \in 1..len : keyWord[i] \in {Hole, k}}

addKeyVal(k, v) ==
  \/ \E i \in Usable(k) :
       /\ \A j \in Usable(k) : i <= j
       /\ keyWord' = [keyWord EXCEPT ![i] = k]
       /\ value' = [value EXCEPT ![i] = v]
       /\ UNCHANGED room
  \/ /\ Usable(k) = {}
     /\ keyWord' = Append(keyWord, k)
     /\ value' = Append(value, v)
     /\ room' = Grown(len, room)

\* The first slot with the keyword; the slots behind it move up, and the last
\* to go takes the arrays with it.
FirstWith(k) == {i \in 1..len : keyWord[i] = k /\ \A j \in 1..i - 1 : keyWord[j] # k}
Without(s, i) == [j \in 1..Len(s) - 1 |-> IF j < i THEN s[j] ELSE s[j + 1]]
RoomLeft(n, r) == IF n = 0 THEN 0 ELSE r
rmKeepsValues(k) ==
  \E i \in FirstWith(k) :
    /\ keyWord' = Without(keyWord, i)
    /\ value' = SubSeq(value, 1, len - 1)
    /\ room' = RoomLeft(len - 1, room)
rmKeyVal(k) ==
  \E i \in FirstWith(k) :
    /\ keyWord' = Without(keyWord, i)
    /\ value' = Without(value, i)
    /\ room' = RoomLeft(len - 1, room)

clearKeyVal == keyWord' = << >> /\ value' = << >> /\ room' = 0

\* From unpackStruct: rounded up, but a multiple is given just the room needed.
\* The server is taken to send each keyword once, and no hole but the last.
Distinct(s) == \A i, j \in DOMAIN s : s[i] = s[j] => i = j
HoleLast(s) == \A i \in DOMAIN s : s[i] = Hole => i = Len(s)
Received(s, v) ==
  /\ keyWord = << >> /\ Distinct(s) /\ HoleLast(s)
  /\ keyWord' = s /\ value' = v
  /\ \E r \in Len(s) .. Len(s) + PtrArrayMallocLen - 1 :
       r % PtrArrayMallocLen = 0 /\ room' = r

getValByKey(k) == IF FirstWith(k) = {} THEN NoValue ELSE value[CHOOSE i \in FirstWith(k) : TRUE]

KeyValNext(batches) ==
  \/ \E k \in KeyWords, v \in Values : addKeyVal(k, v)
  \/ \E k \in KeyWords : rmKeyVal(k)
  \/ clearKeyVal
  \/ \E b \in batches : Received(b.keyWord, b.value)
KeyValSpec(batches) == KeyValInit /\ [][KeyValNext(batches)]_keyValVars

-----------------------------------------------------------------------------
(* Properties.                                                             *)

\* No slot beyond the allocated ones is ever written, and the room is always
\* enough for the next keyword when addKeyVal does not make more: it relies on
\* every room being a multiple, through removals and what comes from a server.
SlotsEnough ==
  /\ len <= room
  /\ len % PtrArrayMallocLen # 0 => len < room

\* A keyword has one slot: were there two, rmKeyVal would bring back a value
\* that was replaced.  It is so because a hole is never before a keyword.
KeysDistinct == Distinct(keyWord) /\ HoleLast(keyWord)

\* Both: what makes the arrays safe to write and the lookup by keyword right.
KeyValSound == SlotsEnough /\ KeysDistinct

\* A keyValPair_t is a map of the keywords; an empty keyword is none of them:
\* the next new keyword takes its slot.
KeyMap == INSTANCE KeyMap WITH
  Words <- KeyWords \ {Hole},
  map <- [k \in KeyWords \ {Hole} |-> getValByKey(k)]
IsKeyMap == KeyMap!Spec
=============================================================================
