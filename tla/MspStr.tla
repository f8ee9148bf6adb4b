-------------------------------- MODULE MspStr --------------------------------
(***************************************************************************)
(* Options and parameters written as one string, in msParam.cpp and        *)
(* rcMisc.cpp: "kw=value++++kw=value" for the options of a request, and    *)
(* "a%b%c" for the parameters of a rule, where a % that is meant is        *)
(* doubled.  A string is a sequence of tokens: single marks, and words     *)
(* that are not looked into.                                               *)
(***************************************************************************)
EXTENDS Integers, Sequences, SequencesExt

Least(S) == CHOOSE i \in S : \A j \in S : i <= j
StartsAt(s, pat, i) == i + Len(pat) - 1 <= Len(s) /\ SubSeq(s, i, i + Len(pat) - 1) = pat
Strstr(s, pat) ==
  LET found == {i \in 1 .. Len(s) : StartsAt(s, pat, i)} IN IF found = {} THEN 0 ELSE Least(found)
Tail2(s, i) == SubSeq(s, i, Len(s))

-----------------------------------------------------------------------------
(* "kw=value++++kw=value".                                                 *)

MS_INP_SEP_STR == <<"+", "+", "+", "+">>
MS_NULL_STR == <<"null">>
NULL == <<"NULL">>

Given(s) == IF s \in {NULL, MS_NULL_STR} THEN << >> ELSE s

\* The new string; a pair of nothing is not added.
addKeyValToMspStr(key, val, old) ==
  IF Given(key) = << >> /\ Given(val) = << >> THEN old
  ELSE (IF old \in {NULL, MS_NULL_STR} THEN << >> ELSE old \o MS_INP_SEP_STR)
         \o (IF Given(key) = << >> THEN << >> ELSE Append(key, "=")) \o Given(val)

\* The next pair of what is left of the string, [more, kw, val, left].
getNextKeyValFromMsKeyValStr(cur) ==
  LET sep == Strstr(cur, MS_INP_SEP_STR)
      this == IF sep = 0 THEN cur ELSE SubSeq(cur, 1, sep - 1)
      equal == Strstr(this, <<"=">>)
  IN IF cur = << >> \/ this = MS_NULL_STR THEN [more |-> FALSE]
     ELSE [more |-> TRUE,
           kw |-> IF equal = 0 THEN NULL ELSE SubSeq(this, 1, equal - 1),
           val |-> Tail2(this, equal + 1),
           left |-> IF sep = 0 THEN << >> ELSE Tail2(cur, sep + 4)]

(* The keywords a request may have; some of them have a member of their    *)
(* own, the others go into condInput.                                      *)
DataObjInpKeyWd ==
  {"RESC_NAME", "DEST_RESC_NAME", "BACKUP_RESC_NAME", "DEF_RESC_NAME", "FORCE_FLAG", "ALL",
   "LOCAL_PATH", "VERIFY_CHKSUM", "ADMIN", "UPDATE_REPL", "REPL_NUM", "DATA_TYPE",
   "CHKSUM_ALL", "FORCE_CHKSUM", "FILE_PATH", "CREATE_MODE", "OPEN_FLAGS", "DATA_SIZE",
   "NUM_THREADS", "OPR_TYPE", "OBJ_PATH", "RMTRASH", "ADMIN_RMTRASH", "UNREG",
   "RBUDP_TRANSFER", "RBUDP_SEND_RATE", "RBUDP_PACK_SIZE"}
CollInpKeyWd ==
  {"RESC_NAME", "DEST_RESC_NAME", "DEF_RESC_NAME", "BACKUP_RESC_NAME", "FORCE_FLAG", "ALL",
   "VERIFY_CHKSUM", "ADMIN", "UPDATE_REPL", "REPL_NUM", "COLL_FLAGS", "OPR_TYPE",
   "COLL_NAME", "RMTRASH", "ADMIN_RMTRASH"}
StructFileExtAndRegInpKeyWd ==
  {"RESC_NAME", "DEST_RESC_NAME", "DEF_RESC_NAME", "COLL_FLAGS", "OPR_TYPE", "OBJ_PATH",
   "COLL_NAME"}
KeyWdsOf(inp) ==
  CASE inp = "dataObjInp" -> DataObjInpKeyWd
    [] inp = "collInp" -> CollInpKeyWd
    [] inp = "structFileExtAndRegInp" -> StructFileExtAndRegInpKeyWd

MembersOfDataObjInp ==
  {"CREATE_MODE", "OPEN_FLAGS", "DATA_SIZE", "NUM_THREADS", "OPR_TYPE", "OBJ_PATH"}
MembersOfCollInp == {"COLL_FLAGS", "OPR_TYPE", "COLL_NAME"}
MembersOfStructFile == {"COLL_FLAGS", "OPR_TYPE", "OBJ_PATH", "COLL_NAME"}
MembersOf(inp) ==
  CASE inp = "dataObjInp" -> MembersOfDataObjInp
    [] inp = "collInp" -> MembersOfCollInp
    [] inp = "structFileExtAndRegInp" -> MembersOfStructFile

USER_BAD_KEYWORD_ERR == "USER_BAD_KEYWORD_ERR"
NO_KEY_WD_IN_MS_INP_STR == "NO_KEY_WD_IN_MS_INP_STR"
KEY_WORD_KW == <<"keyWord">>

\* chkDataObjInpKw, chkCollInpKw, chkStructFileExtAndRegInpKw.
Valid(inp, kw, validKwFlags) == Len(kw) = 1 /\ kw[1] \in KeyWdsOf(inp) \cap validKwFlags

\* What a member becomes: the flags of an open add up, all else is replaced.
OpenMode(val) ==
  LET words == Range(val)
  IN CASE "O_RDWR" \in words -> {"O_RDWR"}
       [] "O_RDWR" \notin words /\ "O_WRONLY" \in words -> {"O_WRONLY"}
       [] OTHER -> words \cap {"O_RDONLY"}
openFlags(old, val) == old \cup OpenMode(val) \cup (Range(val) \cap {"O_CREAT", "O_TRUNC"})

\* A value without a keyword gets the hint, or is the keyword.
WithHint(kw, hint, val) ==
  IF kw # NULL THEN [kw |-> kw, val |-> val]
  ELSE IF hint = KEY_WORD_KW THEN [kw |-> val, val |-> << >>]
  ELSE [kw |-> hint, val |-> val]

Set(map, k, v) == [x \in DOMAIN map \cup {k} |-> IF x = k THEN v ELSE map[x]]
Stored(inp, got, kw, val) ==
  CASE kw = "OPEN_FLAGS" /\ kw \in MembersOf(inp) -> [got EXCEPT !.openFlags = openFlags(@, val)]
    [] kw # "OPEN_FLAGS" /\ kw \in MembersOf(inp) -> [got EXCEPT !.members = Set(@, kw, val)]
    [] kw \notin MembersOf(inp) /\ inp = "dataObjInp" /\ kw = "UNREG" ->
         [got EXCEPT !.members = Set(@, "OPR_TYPE", <<"UNREG_OPR">>),
                     !.condInput = Set(@, kw, val)]
    [] OTHER -> [got EXCEPT !.condInput = Set(@, kw, val)]

Untouched == [status |-> "ok", members |-> << >>, openFlags |-> {}, condInput |-> << >>]

\* parseMsKeyValStrForDataObjInp, ForCollInp, ForStructFileExtAndRegInp.
RECURSIVE ParsePairs(_, _, _, _, _)
ParsePairs(inp, cur, hint, validKwFlags, got) ==
  LET next == getNextKeyValFromMsKeyValStr(cur)
      pair == WithHint(next.kw, hint, next.val)
  IN IF ~next.more THEN got
     ELSE IF next.kw = NULL /\ hint = NULL THEN [got EXCEPT !.status = NO_KEY_WD_IN_MS_INP_STR]
     ELSE IF ~Valid(inp, pair.kw, validKwFlags) THEN [got EXCEPT !.status = USER_BAD_KEYWORD_ERR]
     ELSE ParsePairs(inp, next.left, hint, validKwFlags, Stored(inp, got, pair.kw[1], pair.val))
parseMsKeyValStr(inp, str, hint, validKwFlags) ==
  ParsePairs(inp, str, hint, validKwFlags, Untouched)

-----------------------------------------------------------------------------
(* "a%b%c".                                                                *)

MALFORMED == <<"malformed">>
Quotes == {"'", "double quote"}
Spaces == {" "}

Doubled(s) == FlattenSeq([i \in DOMAIN s |-> IF s[i] = "%" THEN <<"%", "%">> ELSE <<s[i]>>])

SkipSpaces(s) ==
  LET solid == {i \in DOMAIN s : s[i] \notin Spaces}
  IN IF solid = {} THEN << >> ELSE Tail2(s, Least(solid))
\* Where the first of the marks is, the length and one when it is not there.
UpTo(s, marks) ==
  LET found == {i \in DOMAIN s : s[i] \in marks} IN IF found = {} THEN Len(s) + 1 ELSE Least(found)

\* The comma that ends an assignment: the first outside quotes.  A backslash
\* inside quotes covers the next character; one at the very end is an error.
EndOfValue(s) ==
  LET step(st, i) ==
        CASE st.end > 0 -> st
          [] st.end = 0 /\ st.covered -> [st EXCEPT !.covered = FALSE]
          [] st.end = 0 /\ ~st.covered /\ st.delim # "" /\ s[i] = "backslash" ->
               [st EXCEPT !.covered = TRUE]
          [] st.end = 0 /\ ~st.covered /\ st.delim # "" /\ s[i] = st.delim -> [st EXCEPT !.delim = ""]
          [] st.end = 0 /\ ~st.covered /\ st.delim = "" /\ s[i] \in Quotes -> [st EXCEPT !.delim = s[i]]
          [] st.end = 0 /\ ~st.covered /\ st.delim = "" /\ s[i] = "," -> [st EXCEPT !.end = i]
          [] OTHER -> st
  IN FoldLeft(step, [end |-> 0, delim |-> "", covered |-> FALSE], [i \in DOMAIN s |-> i])

RECURSIVE Converted(_, _)
Converted(s, input) ==
  LET stop == UpTo(s, Spaces \cup {"=", ","})
      name == SubSeq(s, 1, stop - 1)
      after == SkipSpaces(Tail2(s, stop))
      value == EndOfValue(after)
      upto == IF value.end = 0 THEN Len(after) ELSE value.end - 1
      rest == Converted(SkipSpaces(Tail2(after, upto + 2)), input)
      others == Converted(SkipSpaces(Tail2(after, 2)), input)
  IN CASE s = << >> -> << >>
       [] s # << >> /\ input /\ after # << >> /\ after[1] = "=" /\ ~value.covered ->
            IF rest = MALFORMED THEN MALFORMED
            ELSE name \o SubSeq(after, 1, upto) \o (IF value.end = 0 THEN << >> ELSE <<"%">>) \o rest
       [] s # << >> /\ ~input /\ after = << >> -> name
       [] s # << >> /\ ~input /\ after # << >> /\ after[1] = "," ->
            IF others = MALFORMED THEN MALFORMED ELSE name \o <<"%">> \o others
       [] OTHER -> MALFORMED

\* For the input parameters each has a value, for the output ones none has.
convertListToMultiString(s, input) ==
  IF s = MS_NULL_STR THEN s ELSE Converted(Doubled(s), input)

\* A % that stands alone ends an element; two of them are one that is meant.
RECURSIVE Split(_, _)
Split(s, this) ==
  CASE s = << >> -> <<this>>
    [] Len(s) >= 2 /\ s[1] = "%" /\ s[2] = "%" -> Split(Tail2(s, 3), this \o <<"%", "%">>)
    [] s # << >> /\ s[1] = "%" /\ ~(Len(s) >= 2 /\ s[2] = "%") -> <<this>> \o Split(Tail2(s, 2), << >>)
    [] OTHER -> Split(Tail2(s, 2), Append(this, s[1]))
parseMultiStr(s) == Split(s, << >>)

RECURSIVE Halved(_)
Halved(s) ==
  LET pair == Strstr(s, <<"%", "%">>)
  IN IF pair = 0 THEN s ELSE SubSeq(s, 1, pair) \o Halved(Tail2(s, pair + 2))
splitMultiStr(s) == [i \in DOMAIN parseMultiStr(s) |-> Halved(parseMultiStr(s)[i])]

\* parseMsParamFromIRFile: the parameters, a backslash before a value left out.
ParamOf(item) ==
  LET equal == Strstr(item, <<"=">>)
      val == Tail2(item, equal + 1)
  IN [label |-> SubSeq(item, 1, equal - 1),
      val |-> IF val # << >> /\ val[1] = "backslash" THEN Tail(val) ELSE val]
parseMsParamFromIRFile(s) ==
  IF s = MS_NULL_STR THEN << >>
  ELSE LET items == SelectSeq(splitMultiStr(s), LAMBDA item : Strstr(item, <<"=">>) > 0)
       IN [i \in DOMAIN items |-> ParamOf(items[i])]
=============================================================================
