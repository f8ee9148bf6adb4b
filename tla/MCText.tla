------------------------------- MODULE MCText --------------------------------
(***************************************************************************)
(* Inputs for the algorithms on text: queries, statuses, options and       *)
(* parameters written as strings.                                          *)
(***************************************************************************)
EXTENDS Integers, Sequences, FiniteSets, SequencesExt

GQ == INSTANCE GenQuery
RE == INSTANCE RodsErrors
MS == INSTANCE MspStr
MT == INSTANCE MspTypes

VARIABLES
  kind,    \* what algorithm the input is for; "idle" before one is picked
  in       \* the input, or the batch it is to be picked from

UpTo2(S) == {<<x>> : x \in S} \cup (S \X S)
Glued(seqs, between) ==
  IF seqs = << >> THEN << >>
  ELSE IF Len(seqs) = 1 THEN seqs[1] ELSE seqs[1] \o between \o seqs[2]

(* Queries of one column each, and some of two columns and two conditions. *)
Col(name) == CHOOSE c \in GQ!Columns : c.name = name
DATA_NAME == Col(<<"DATA", "NAME">>)
COLL_NAME == Col(<<"COLL", "NAME">>)
Ops == {"", "sum", "MAX", "order_desc", "nonsense"}
Texts == {<<"=", " ", "'", "x", "'">>,
          <<"like", " ", "'", "a", " ", "and", " ", "b", "'">>,
          <<"in", " ", "(", "'", "a", ")", "'", ",", "'", "b", "'", ")">>,
          <<"=", " ", "'", "some", "where", "'">>,
          <<"=", " ", "quotes", "'", " ", "AND", " ", "(", "quotes">>}
Queries ==
  {[sel |-> <<<<"", c>>>>, conds |-> << >>, upper |-> FALSE] : c \in GQ!Columns}
  \cup {[sel |-> s, conds |-> d, upper |-> u] :
           s \in UpTo2(Ops \X {DATA_NAME}) \cup {<<<<"count", DATA_NAME>>, <<"", COLL_NAME>>>>},
           d \in {<<>>} \cup UpTo2({COLL_NAME} \X Texts), u \in BOOLEAN}

(* Errors by their place in the table, with an errno or none.              *)
Statuses == [nth : DOMAIN RE!NEW_ERROR, errno : {0, 1, 110, 999}]

(* Options of a request; a keyword or a value may be missing.              *)
Pair(k, v) == [key |-> k, val |-> v]
Pairs == {Pair(k, v) : k \in {MS!NULL, MS!MS_NULL_STR, <<"ALL">>, <<"OBJ_PATH">>, <<"OPEN_FLAGS">>, <<"UNREG">>, <<"odd">>},
                       v \in {MS!NULL, <<"x">>, <<"x", "=", "+", "y">>, <<"O_RDWR", "|", "O_CREAT">>}}
Options == {[inp |-> i, pairs |-> p, hint |-> h] :
               i \in {"dataObjInp", "collInp", "structFileExtAndRegInp"}, p \in UpTo2(Pairs),
               h \in {MS!NULL, <<"ALL">>, MS!KEY_WORD_KW}}

(* Parameters of a rule as they are written, "*A=value, *B=value".         *)
Writings == {<<"v">>, <<"'", "a", ",", "b", "'">>, <<"50", "%">>, <<"%", "n">>, <<"'", "backslash", "'", ",", "'">>,
           <<"a", "=", "b">>, << >>}
Lists == {[input |-> TRUE, items |-> i] : i \in UpTo2({<<"*A">>, <<"*B">>} \X Writings)}
         \cup {[input |-> FALSE, items |-> i] : i \in UpTo2({<<"*A">>, <<"*", "%">>} \X {<< >>})}

(* Parameters with a type: numbers about the ends of what a float keeps    *)
(* and of an int, as far as the type that is filled has them.              *)
Numeral(n) == [text |-> "numeral", number |-> n]
Value(text) == [text |-> text, number |-> 0]
CharSample == {-3, 0, 3}
IntSample == {-16, -10, -1, 0, 7, 9, 15}
FloatSample == {-24, -8, -1, 0, 7, 10, 96}
LongSample == IntSample \cup FloatSample \cup {-128, -33, 16, 41, 127}
ValuesOf(filler) ==
  CASE filler = "char" -> {Numeral(n) : n \in CharSample}
    [] filler \in {"int", "bufLen"} -> {Numeral(n) : n \in IntSample}
    [] filler = "float" -> {Numeral(n) : n \in FloatSample}
    [] filler = "double" -> {Numeral(n) : n \in LongSample}
    [] filler = "str" -> {Numeral(n) : n \in LongSample} \cup {Value("null"), Value("word")}
Typed == UNION {[filler : {f}, val : ValuesOf(f), reader : {"posInt", "float", "double", "str"}] :
                  f \in {"int", "float", "double", "char", "str", "bufLen"}}
Requests == [parser : {"DataObjInp", "CollInp", "DataObjCopyInp", "ExecCmdInp"},
             type : {"STR_MS_T", "DataObjInp_MS_T", "CollInp_MS_T", "DataObjCopyInp_MS_T",
                     "ExecCmd_MS_T", "KeyValPair_MS_T", "INT_MS_T"},
             cache : {"NULL", "given"}, toCache : BOOLEAN, keys : BOOLEAN]

Batch(k) == [batch |-> k]
Take(k, inputs) == in = Batch(k) /\ kind' = k /\ in' \in inputs
TextBatches == {"query", "status", "options", "list", "typed", "request"}
TextPick == \/ Take("query", Queries)
            \/ Take("status", Statuses)
            \/ Take("options", Options)
            \/ Take("list", Lists)
            \/ Take("typed", Typed)
            \/ Take("request", Requests)

-----------------------------------------------------------------------------
(* Queries.                                                                *)

SelText(s) == IF s[1] = "" THEN s[2].name ELSE <<s[1], "(">> \o s[2].name \o <<")">>
QueryText ==
  <<IF in.upper THEN "SELECT" ELSE "select", " ">>
    \o Glued([i \in DOMAIN in.sel |-> SelText(in.sel[i])], <<",", " ">>)
    \o (IF in.conds = << >> THEN << >>
        ELSE <<" ", IF in.upper THEN "WHERE" ELSE "where", " ">>
               \o Glued([i \in DOMAIN in.conds |-> in.conds[i][1].name \o <<" ">> \o in.conds[i][2]],
                        <<" ", IF in.upper THEN "AND" ELSE "and", " ">>))
(* The keyword in lower case is looked for before the one in upper case:   *)
(* a value may have it.                                                    *)
Misread == in.upper /\ \E i \in DOMAIN in.conds : in.conds[i][2][4] = "some"
(* Some columns have no name to ask for them by.                           *)
NamedIds == Range(GQ!columnIds)
SelVal(op) == CASE op = "sum" -> 4 [] op = "MAX" -> 3 [] op = "count" -> 6
                [] op = "order_desc" -> 2048 [] OTHER -> 1

IsWhatWasAsked(q) ==
  IF \E i \in DOMAIN in.sel : in.sel[i][2].id \notin NamedIds
  THEN q.status = GQ!NO_COLUMN_NAME_FOUND
  ELSE q = [status |-> 0,
            selectInp |-> [i \in DOMAIN in.sel |-> <<in.sel[i][2].id, SelVal(in.sel[i][1])>>],
            sqlCondInp |-> [i \in DOMAIN in.conds |-> <<in.conds[i][1].id, in.conds[i][2]>>]]

(* A query's text is taken apart into the columns and conditions it was    *)
(* made of, "and", brackets and commas in quoted values included, and each *)
(* name is looked up as the column the catalog knows by it.                *)
QueryParsed == kind = "query" /\ ~Misread =>
  IsWhatWasAsked(GQ!fillGenQueryInpFromStrCond(QueryText))

-----------------------------------------------------------------------------
(* Statuses.                                                               *)

(* An error with an errno subtracted is taken apart into both.  Two errors *)
(* share a thousand with the one before them and go by its name, and the   *)
(* handlers' numbers are no thousands.                                     *)
ErrorNamed == kind = "status" =>
  LET errors == RE!NEW_ERROR
      number == errors[in.nth]
      status == -number - in.errno
      sharesThousand == \E i \in 1 .. in.nth - 1 : errors[i] = 1000 * (number \div 1000)
  IN sharesThousand \/ number % 1000 # 0 \/
       /\ RE!rodsErrorName(status) = [error |-> in.nth, errno |-> in.errno]
       /\ RE!getErrno(status) = in.errno
       /\ RE!getIrodsErrno(status) = -number

-----------------------------------------------------------------------------
(* Options and parameters as strings.                                      *)

RECURSIVE OptionsText(_, _)
OptionsText(pairs, old) ==
  IF pairs = << >> THEN old
  ELSE OptionsText(Tail(pairs), MS!addKeyValToMspStr(Head(pairs).key, Head(pairs).val, old))
TheText == OptionsText(in.pairs, MS!NULL)

(* What each pair is, after the hint; a pair of nothing is not there, and  *)
(* a keyword without a value has an empty one.                             *)
Meant ==
  LET there == SelectSeq(in.pairs, LAMBDA p : MS!Given(p.key) # << >> \/ MS!Given(p.val) # << >>)
  IN [i \in DOMAIN there |->
        IF MS!Given(there[i].key) # << >>
        THEN [kw |-> there[i].key, val |-> MS!Given(there[i].val)]
        ELSE IF in.hint = MS!KEY_WORD_KW THEN [kw |-> there[i].val, val |-> << >>]
        ELSE [kw |-> in.hint, val |-> there[i].val]]
(* A value with "=" in it needs a keyword before it.                       *)
Clear == \A i \in DOMAIN in.pairs : MS!Given(in.pairs[i].key) = << >> => in.pairs[i].val # <<"x", "=", "+", "y">>
AllValid(pairs) == \A i \in DOMAIN pairs : MS!Valid(in.inp, pairs[i].kw, MS!KeyWdsOf(in.inp))
LastOf(pairs, kw) == CHOOSE i \in DOMAIN pairs : pairs[i].kw = <<kw>>
                                                 /\ \A j \in i + 1 .. Len(pairs) : pairs[j].kw # <<kw>>

(* Options built pair by pair are read back pair by pair: each keyword     *)
(* that has no member of its own has its last value among the options,     *)
(* nothing else is there, and a request with a keyword it may not have is  *)
(* refused.                                                                *)
PairsParsed == kind = "options" /\ Clear =>
  LET got == MS!parseMsKeyValStr(in.inp, TheText, in.hint, MS!KeyWdsOf(in.inp))
      kws == {Meant[i].kw[1] : i \in DOMAIN Meant}
  IN IF TheText = MS!NULL THEN TRUE
     ELSE IF ~AllValid(Meant) THEN got.status # "ok"
     ELSE /\ got.status = "ok"
          /\ DOMAIN got.condInput = kws \ MS!MembersOf(in.inp)
          /\ \A kw \in DOMAIN got.condInput : got.condInput[kw] = Meant[LastOf(Meant, kw)].val

ListText ==
  Glued([i \in DOMAIN in.items |->
           in.items[i][1] \o (IF in.input THEN <<"=">> \o in.items[i][2] ELSE << >>)],
        <<",", " ">>)
(* A list of parameters, with or without values, turned into one string    *)
(* and taken apart again has the same items: commas in quotes and "%" in   *)
(* values and names do not split it.                                       *)
ListBack == kind = "list" =>
  LET multi == MS!convertListToMultiString(ListText, in.input)
  IN /\ multi # MS!MALFORMED
     /\ IF in.input
        THEN MS!parseMsParamFromIRFile(multi)
               = [i \in DOMAIN in.items |-> [label |-> in.items[i][1], val |-> in.items[i][2]]]
        ELSE MS!splitMultiStr(multi) = [i \in DOMAIN in.items |-> in.items[i][1]]

-----------------------------------------------------------------------------
(* Parameters with a type.                                                 *)

(* Two readers load another C type than the one that was stored.           *)
Garbled == <<in.filler, in.reader>> \in {<<"int", "float">>, <<"double", "double">>}
(* What a reader takes, and the numbers that it can give back: an int that *)
(* is no status, and numbers that a float has.                             *)
Takes ==
  CASE in.reader = "posInt" -> in.filler \in {"str", "int", "bufLen", "double"}
    [] in.reader = "float" -> in.filler \in {"str", "float", "char"}
    [] OTHER -> in.filler = "str"
Readable ==
  IF in.reader = "posInt" THEN in.val.number \in 0 .. MT!MaxInt
  ELSE MT!ToFloat(in.val.number) = in.val.number
(* Who reads a number gets the one the parameter was filled with if the    *)
(* reader can tell it; who reads another type, or a string that is "null", *)
(* is told so, which for an int is a number below 0; and a string comes    *)
(* back as it is.                                                          *)
ReadAsFilled == kind = "typed" /\ ~Garbled =>
  LET param == MT!Filled(in.filler, in.val)
      posInt == MT!parseMspForPosInt(param)
      read == IF in.reader = "float" THEN MT!parseMspForFloat(param) ELSE MT!parseMspForDouble(param)
      refused == ~Takes \/ in.val.text = "null"
      told == Takes /\ in.val.text = "numeral" /\ Readable
  IN CASE in.reader = "str" -> MT!parseMspForStr(param) = IF refused THEN "NULL" ELSE in.val
       [] in.reader = "posInt" -> (refused => posInt < 0) /\ (told => posInt = in.val.number)
       [] OTHER -> (refused <=> read.status < 0) /\ (told => read.out = in.val.number)

Parsed ==
  CASE in.parser = "DataObjInp" -> MT!parseMspForDataObjInp(in, in.cache, in.toCache)
    [] in.parser = "CollInp" -> MT!parseMspForCollInp(in, in.cache, in.toCache)
    [] in.parser = "DataObjCopyInp" -> MT!parseMspForDataObjCopyInp(in)
    [] in.parser = "ExecCmdInp" -> MT!parseMspForExecCmdInp(in)
(* "zero out the condition of the original because it has been moved":     *)
(* the options of a request have one owner, except where a copy is made of *)
(* the source of a copy request.                                           *)
OptionsOwnedOnce == kind = "request" /\ ~(in.parser = "DataObjCopyInp" /\ in.type = "DataObjInp_MS_T") =>
  Cardinality(Parsed.owners) = 1
=============================================================================
