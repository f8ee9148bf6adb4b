----------------------------- MODULE PackStruct ------------------------------
(***************************************************************************)
(* packStruct and unpackStruct: a pack instruction drives a walk over a    *)
(* struct that writes it to a stream, and a walk over a stream that builds *)
(* the struct again, in the native protocol or in XML.                     *)
(*                                                                         *)
(* A string is a sequence of characters, each a TLA+ string, where "amp;"  *)
(* and the other names of XML entities count as one.  A native stream is a *)
(* sequence of tagged tokens, one for each number, string or run of bytes; *)
(* an XML stream is a sequence of tags, numbers and characters.  The value *)
(* of a struct is the sequence of the values of its items.  The value of   *)
(* an item is the sequence of its elements, and for a pointer Null or      *)
(* Ptr(the sequence of what its pointers lead to, each a sequence of       *)
(* elements).  Lengths such as NAME_LEN are scaled down to SmallLen.       *)
(***************************************************************************)
EXTENDS Integers, Sequences, FiniteSets, SequencesExt

SmallLen == 3
NULL_PTR_PACK_STR == <<"%@#ANULLSTR$%">>
Null == <<"null">>
Ptr(pointees) == <<"ptr", pointees>>

NATIVE_PROT == "native"
XML_PROT == "xml"

Ok == "ok"
SYS_PACK_INSTRUCT_FORMAT_ERR == "format"
SYS_UNMATCH_PACK_INSTRUCTI_NAME == "unmatched"
USER_PACKSTRUCT_INPUT_ERR == "input"
SYS_INTERNAL_NULL_INPUT_ERR == "null input"

(***************************************************************************)
(* Instructions                                                            *)
(***************************************************************************)

(* An item of an instruction.  dim and hint are what stands in [ ] and     *)
(* ( ) after the name; dep is the name a type depends on; value and text   *)
(* are the number and the string the walk has seen for it.                 *)
NewItem == [type |-> "", name |-> "", dim |-> << >>, hint |-> << >>, ptr |-> FALSE,
            dep |-> "", value |-> 0, text |-> ""]

(* A declarator taken apart, as resolveDepInArray isolates its parts. *)
Plain(name) == [name |-> name, dim |-> << >>, hint |-> << >>]
Array(name, n) == [name |-> name, dim |-> <<n>>, hint |-> << >>]
Vector(name, hint) == [name |-> name, dim |-> << >>, hint |-> hint]
Declarator == [
    ssLen |-> Plain("ssLen"), keyWord |-> Array("keyWord", "ssLen"),
    svalue |-> Array("svalue", "ssLen"), iiLen |-> Plain("iiLen"),
    inx |-> Vector("inx", <<"iiLen">>), ivalue |-> Vector("ivalue", <<"iiLen">>),
    isLen |-> Plain("isLen"), inxOfStr |-> Vector("inx", <<"isLen">>),
    valueOfStr |-> Array("svalue", "isLen"), status |-> Plain("status"),
    msg |-> Array("msg", "ERR_MSG_LEN"), count |-> Plain("count"),
    errMsg |-> Array("RErrMsg_PI", "count"), rowCnt |-> Plain("rowCnt"),
    attriCnt |-> Plain("attriCnt"), attriInx |-> Plain("attriInx"),
    reslen |-> Plain("reslen"), value |-> Vector("value", <<"rowCnt", "reslen">>),
    sqlResult |-> Array("SqlResult_PI", "MAX_SQL_ATTR"), buflen |-> Plain("buflen"),
    buf |-> Vector("buf", <<"buflen">>), label |-> Plain("label"), type |-> Plain("type"),
    inOutStruct |-> Plain("inOutStruct"), paramLen |-> Plain("paramLen"),
    oprType |-> Plain("oprType"), msParam |-> Array("MsParam_PI", "paramLen"),
    len |-> Plain("len"), int16Buf |-> Vector("buf", <<"len">>),
    int64Buf |-> Vector("buf", <<"len">>), aclass |-> Plain("aclass"),
    nvalue |-> Plain("nvalue"), h5strings |-> Array("value", "nvalue"),
    h5chars |-> Vector("value", <<"nvalue">>), objPath |-> Array("objPath", "MAX_NAME_LEN"),
    flags |-> Plain("flags"), dataSize |-> Plain("dataSize"), myStr |-> Plain("myStr"),
    myInt |-> Plain("myInt"), KeyValPair_PI |-> Plain("KeyValPair_PI"),
    BytesBuf_PI |-> Plain("BytesBuf_PI"), BinBytesBuf_PI |-> Plain("BinBytesBuf_PI"),
    MsParamArray_PI |-> Plain("MsParamArray_PI"), SpecColl_PI |-> Plain("SpecColl_PI"),
    collClass |-> Plain("collClass"), collection |-> Array("collection", "MAX_NAME_LEN")]

packTypeTable == {"char", "bin", "str", "piStr", "int", "double", "struct", "?", "%", "int16"}
PackConstantTable == [ERR_MSG_LEN |-> SmallLen, MAX_NAME_LEN |-> SmallLen, MAX_SQL_ATTR |-> 2]

(* Instructions, as the tokens copyStrFromPiBuf cuts them into.  The long  *)
(* ones are cut down to the items that matter to the walk.                 *)
PackTable == [
    INT_PI |-> <<"int", "myInt", ";">>,
    STR_PI |-> <<"str", "myStr", ";">>,
    STR_PTR_PI |-> <<"str", "*", "myStr", ";">>,
    KeyValPair_PI |-> <<"int", "ssLen", ";", "str", "*", "keyWord", ";", "str", "*", "svalue", ";">>,
    InxIvalPair_PI |-> <<"int", "iiLen", ";", "int", "*", "inx", ";", "int", "*", "ivalue", ";">>,
    InxValPair_PI |-> <<"int", "isLen", ";", "int", "*", "inxOfStr", ";",
                        "str", "*", "valueOfStr", ";">>,
    BytesBuf_PI |-> <<"int", "buflen", ";", "char", "*", "buf", ";">>,
    BinBytesBuf_PI |-> <<"int", "buflen", ";", "bin", "*", "buf", ";">>,
    int16DataArray_PI |-> <<"int", "len", ";", "int16", "*", "int16Buf", ";">>,
    int64DataArray_PI |-> <<"int", "len", ";", "double", "*", "int64Buf", ";">>,
    RErrMsg_PI |-> <<"int", "status", ";", "str", "msg", ";">>,
    RError_PI |-> <<"int", "count", ";", "struct", "*", "errMsg", ";">>,
    SqlResult_PI |-> <<"int", "attriInx", ";", "int", "reslen", ";", "str", "*", "value", ";">>,
    GenQueryOut_PI |-> <<"int", "rowCnt", ";", "int", "attriCnt", ";", "struct", "sqlResult", ";">>,
    MsParam_PI |-> <<"str", "*", "label", ";", "piStr", "*", "type", ";",
                     "?", "type", "*", "inOutStruct", ";", "struct", "*", "BinBytesBuf_PI", ";">>,
    MsParamArray_PI |-> <<"int", "paramLen", ";", "int", "oprType", ";",
                          "struct", "*", "msParam", ";">>,
    SpecColl_PI |-> <<"int", "collClass", ";", "str", "collection", ";">>,
    DataObjInp_PI |-> <<"str", "objPath", ";", "double", "dataSize", ";",
                        "struct", "*", "SpecColl_PI", ";", "struct", "KeyValPair_PI", ";">>,
    ExecRuleExpression_PI |-> <<"struct", "BytesBuf_PI", ";", "struct", "*", "MsParamArray_PI", ";">>,
    RegReplica_PI |-> <<"struct", "*", "SpecColl_PI", ";", "struct", "*", "SpecColl_PI", ";",
                        "struct", "KeyValPair_PI", ";">>,
    h5Attribute_PI |-> <<"int", "aclass", ";", "int", "nvalue", ";", "%", "aclass cases", ";">>]

(* What stands after the % of h5Attribute_PI: "aclass:3,6,9 = str          *)
(* *value[nvalue]:default= char *value(nvalue)", in the order of the text. *)
Dependence == [key |-> "aclass",
               cases |-> <<[of |-> {3, 6, 9}, pi |-> <<"str", "*", "h5strings", ";">>],
                           [of |-> Nat, pi |-> <<"char", "*", "h5chars", ";">>]>>]

matchPackInstruct(name) == IF name \in DOMAIN PackTable THEN PackTable[name] ELSE << >>

(* parsePackInstruct, one token at a time: the queue, the item under       *)
(* construction, gotTypeCast, gotItemName and whether a ? waits for a name. *)
StartParse == [queue |-> << >>, item |-> NewItem, gotTypeCast |-> FALSE,
               gotItemName |-> FALSE, open |-> TRUE, awaits |-> FALSE, bad |-> FALSE]
Reject(st) == [st EXCEPT !.bad = TRUE]
TakeCast(st, tok) == IF tok \in packTypeTable
                     THEN [st EXCEPT !.item.type = tok, !.gotTypeCast = TRUE] ELSE Reject(st)
Named(item, d) == [item EXCEPT !.name = d.name, !.dim = d.dim, !.hint = d.hint]
TakeName(st, tok) == [st EXCEPT !.item = Named(@, Declarator[tok]), !.gotItemName = TRUE]
TakeToken(st0, tok) ==
    LET st == [st0 EXCEPT !.open = TRUE] IN
    CASE st.bad -> st
      [] ~st.bad /\ st.awaits ->
            IF st.item.type = "?" THEN [st EXCEPT !.item.dep = tok, !.awaits = FALSE]
            ELSE [st EXCEPT !.item.dep = tok, !.awaits = FALSE, !.gotItemName = TRUE]
      [] ~st.bad /\ ~st.awaits /\ tok = ";" ->
            IF ~st.gotTypeCast /\ ~st.gotItemName THEN st
            ELSE IF ~st.gotItemName THEN Reject(st)
            ELSE [StartParse EXCEPT !.queue = Append(st.queue, st.item), !.open = FALSE]
      [] ~st.bad /\ ~st.awaits /\ tok \in {"?", "%"} ->
            IF st.gotTypeCast \/ st.gotItemName THEN Reject(st)
            ELSE [TakeCast(st, tok) EXCEPT !.awaits = TRUE]
      [] ~st.bad /\ ~st.awaits /\ tok \in {"*", "$"} ->
            IF ~st.gotTypeCast \/ st.gotItemName THEN Reject(st) ELSE [st EXCEPT !.item.ptr = TRUE]
      [] OTHER ->
            IF ~st.gotTypeCast THEN TakeCast(st, tok)
            ELSE IF ~st.gotItemName THEN TakeName(st, tok)
            ELSE Reject(st)
Parsed(st) == [bad |-> st.bad \/ st.open, items |-> st.queue]
parsePackInstruct(toks) == Parsed(FoldLeft(TakeToken, StartParse, toks))

(***************************************************************************)
(* Resolving an item against the items before it.  A chain is [own, up]:   *)
(* the items of this struct already walked, and those of the structs it    *)
(* lies in.  The first item of a nested struct has no previous item, and   *)
(* the search starts from the previous item: it sees nothing.              *)
(***************************************************************************)
Visible(chain) == IF chain.own = << >> THEN << >> ELSE chain.up \o chain.own
\* Operators with a fault in their name are variants with that fault.
NestedForgetsUp(chain) == [own |-> << >>, up |-> << >>]
Nested(chain) == [own |-> << >>, up |-> chain.up \o chain.own]
Walked(chain, item) == [chain EXCEPT !.own = Append(@, item)]
Root == [own |-> << >>, up |-> << >>]

NearestLike(name, type, chain) ==
    LET seen == Visible(chain)
        at == {i \in DOMAIN seen : seen[i].name = name /\ seen[i].type = type}
    IN IF at = {} THEN << >> ELSE <<seen[CHOOSE i \in at : \A j \in at : j <= i]>>

(* A number, a negative value standing for the error. *)
resolveIntInItem(name, chain) ==
    LET int == NearestLike(name, "int", chain)
    IN IF int # << >> THEN int[1].value
       ELSE IF name \in DOMAIN PackConstantTable THEN PackConstantTable[name] ELSE -1

resolveStrInItem(item, chain) ==
    LET str == NearestLike(item.dep, "piStr", chain)
    IN IF str = << >> THEN << >>
       ELSE <<[item EXCEPT !.type = "struct", !.name = str[1].text]>>

(* The item is replaced by the first instruction whose case holds. *)
ItemFor(key, cases) == cases[SelectInSeq(cases, LAMBDA c : key \in c.of)].pi
FirstItem(parsed) == IF parsed.bad THEN << >> ELSE <<Head(parsed.items)>>
resolveIntDepItem(chain) ==
    LET key == resolveIntInItem(Dependence.key, chain)
    IN IF key < 0 THEN << >> ELSE FirstItem(parsePackInstruct(ItemFor(key, Dependence.cases)))

iparseDependent(item, chain) ==
    CASE item.type = "?" -> resolveStrInItem(item, chain)
      [] item.type = "%" -> resolveIntDepItem(chain)
      [] OTHER -> <<item>>

resolveDepInArray(names, chain) == [i \in DOMAIN names |-> resolveIntInItem(names[i], chain)]

(* The item with its counts, or << >> when it cannot be resolved.  isNull  *)
(* is what the walk knows of the pointer: when unpacking it is always NULL. *)
Counted(it, dim, hint, isNull) ==
    IF \E n \in Range(dim) \cup Range(hint) : n < 0 THEN << >>
    ELSE IF it.name = "" /\ ~(it.ptr /\ isNull) THEN << >>
    ELSE <<[it EXCEPT !.name = IF @ = "" THEN "STR_PTR_PI" ELSE @, !.dim = dim, !.hint = hint]>>
WithCounts(it, chain, isNull) ==
    IF it = << >> THEN << >>
    ELSE Counted(it[1], resolveDepInArray(it[1].dim, chain), resolveDepInArray(it[1].hint, chain),
                 isNull)
resolvePackedItem(item, chain, isNull) == WithCounts(iparseDependent(item, chain), chain, isNull)

Product(s) == FoldLeft(LAMBDA a, b : a * b, 1, s)
getNumElement(item) == Product(item.dim)
getNumHintElement(item) == Product(item.hint)

(* How many strings, and the most bytes each may take; -1 for no limit. *)
LastLen(dims) == IF dims = << >> THEN -1 ELSE dims[Len(dims)]
NumStr(dims) == IF dims = << >> THEN 1 ELSE Product(dims) \div LastLen(dims)

Clipped(n) == IF n < 0 THEN 0 ELSE n

(***************************************************************************)
(* XML                                                                     *)
(***************************************************************************)
StartTag(name) == "<" \o name \o ">"
EndTag(name) == "</" \o name \o ">"
\* A tag, or a character "<" that nobody wrote as an entity.
IsTag(entry) == entry # "" /\ SubSeq(entry, 1, 1) = "<"

Escape(c) == CASE c = "&" -> <<"&", "amp;">> [] c = "<" -> <<"&", "lt;">>
               [] c = ">" -> <<"&", "gt;">> [] c = "quote" -> <<"&", "quot;">>
               [] c = "backquote" -> <<"&", "apos;">> [] OTHER -> <<c>>
Escaped == {"&", "<", ">", "quote", "backquote"}
strToXmlStr(str) == FlattenSeq([i \in DOMAIN str |-> Escape(str[i])])

(* From the left; at an & that starts no known entity the scan stops, and  *)
(* all that follows the last entity is written again.                      *)
RECURSIVE XmlScan(_, _, _, _)
XmlScan(str, i, copy_from, out) ==
    LET upTo == out \o SubSeq(str, copy_from, i - 1)
        of == {c \in Escaped : IsPrefix(Escape(c), SubSeq(str, i, Len(str)))}
    IN IF i > Len(str) THEN upTo
       ELSE IF str[i] # "&" THEN XmlScan(str, i + 1, copy_from, out)
       ELSE IF of = {} THEN upTo \o SubSeq(str, copy_from, Len(str))
       ELSE XmlScan(str, i + 2, i + 2, Append(upTo, CHOOSE c \in of : TRUE))
xmlStrToStr(str) == XmlScan(str, 1, 1, << >>)

(* base64_encode and base64_decode, of which only that they are inverse    *)
(* matters here; Base64 has what they do.                                  *)
base64_encode(chars) == [i \in DOMAIN chars |-> "64:" \o chars[i]]
base64_decode(codes) == [i \in DOMAIN codes |-> SubSeq(codes[i], 4, Len(codes[i]))]

(***************************************************************************)
(* Packing.  A result is the stream so far and the error, and for an item  *)
(* the number and the string later items may refer to.                     *)
(***************************************************************************)
Packed(out) == [out |-> out, err |-> Ok, value |-> 0, text |-> ""]
Failed(res, err) == [res EXCEPT !.err = err]
TextOf(str) == IF Len(str) = 1 THEN str[1] ELSE ""
Put(res, toks) == [res EXCEPT !.out = @ \o toks]
InTags(name, toks) == <<StartTag(name)>> \o toks \o <<EndTag(name)>>
Each(Step(_, _), res, vals) ==
    FoldLeft(LAMBDA r, v : IF r.err = Ok THEN Step(r, v) ELSE r, res, vals)

packNullString(res) == Put(res, <<<<"str", NULL_PTR_PACK_STR>>>>)

packChar(res, chars, item, prot) ==
    IF chars = << >> THEN res
    ELSE IF prot = NATIVE_PROT THEN Put(res, <<<<"char", chars>>>>)
    ELSE Put(res, InTags(item.name, IF item.type = "bin" THEN base64_encode(chars) ELSE chars))

packNatString(res, str, maxStrLen) ==
    IF maxStrLen >= 0 /\ str # Null /\ Len(str) >= maxStrLen
    THEN Failed(res, USER_PACKSTRUCT_INPUT_ERR)
    ELSE Put(res, <<<<"str", IF str = Null THEN << >> ELSE str>>>>)
packXmlString(res, str, maxStrLen, name) ==
    IF str = Null THEN Failed(res, SYS_INTERNAL_NULL_INPUT_ERR)
    ELSE IF maxStrLen >= 0 /\ Len(str) >= maxStrLen
    THEN Failed(res, USER_PACKSTRUCT_INPUT_ERR)
    ELSE Put(res, InTags(name, strToXmlStr(str)))
packString(res, str, maxStrLen, name, prot) ==
    IF prot = XML_PROT THEN packXmlString(res, str, maxStrLen, name)
    ELSE packNatString(res, str, maxStrLen)

(* One number of each width; an int is also kept for the items after it,   *)
(* clipped so as not to look like an error.                                *)
PackNumber(res, tag, n, name, prot) ==
    Put(res, IF prot = NATIVE_PROT THEN <<<<tag, n>>>> ELSE InTags(name, <<ToString(n)>>))
packInt(res, nums, name, prot) ==
    [Each(LAMBDA r, n : PackNumber(r, "int", n, name, prot), res, nums)
        EXCEPT !.value = IF nums = << >> THEN 0 ELSE Clipped(nums[1])]
packInt16(res, nums, name, prot) ==
    [Each(LAMBDA r, n : PackNumber(r, "int16", n, name, prot), res, nums)
        EXCEPT !.value = IF nums = << >> THEN 0 ELSE Clipped(nums[1])]
packDouble(res, nums, name, prot) ==
    Each(LAMBDA r, n : PackNumber(r, "double", n, name, prot), res, nums)

RECURSIVE packChildStruct(_, _, _, _, _)

packNonpointerItem(res, item, chain, val, prot) ==
    CASE item.type \in {"char", "bin"} -> packChar(res, val, item, prot)
      [] item.type \in {"str", "piStr"} ->
            [Each(LAMBDA r, str : packString(r, str, LastLen(item.dim), item.name, prot), res, val)
                EXCEPT !.text = IF item.type = "piStr" /\ Len(val) = 1 THEN TextOf(val[1]) ELSE ""]
      [] item.type = "int" -> packInt(res, val, item.name, prot)
      [] item.type = "int16" -> packInt16(res, val, item.name, prot)
      [] item.type = "double" -> packDouble(res, val, item.name, prot)
      [] item.type = "struct" -> packChildStruct(res, item, chain, val, prot)

(* A NULL pointer is a marker in the native stream, and nothing in XML.    *)
(* Each pointer leads to getNumHintElement elements.                       *)
packPointerItem(res, item, chain, val, prot) ==
    LET text == IF item.type = "piStr" /\ item.dim = << >> THEN TextOf(val[2][1][1]) ELSE ""
        pack(r, pointee) ==
            CASE item.type \in {"char", "bin"} -> packChar(r, pointee, item, prot)
              [] item.type \in {"str", "piStr"} ->
                    Each(LAMBDA q, str : packString(q, str, LastLen(item.hint), item.name, prot),
                         r, pointee)
              [] item.type = "int" -> packInt(r, pointee, item.name, prot)
              [] item.type = "int16" -> packInt16(r, pointee, item.name, prot)
              [] item.type = "double" -> packDouble(r, pointee, item.name, prot)
              [] item.type = "struct" -> packChildStruct(r, item, chain, pointee, prot)
        hinted == item.type \in {"str", "piStr"} /\ item.hint # << >>
    IN IF val = Null THEN IF prot = NATIVE_PROT THEN packNullString(res) ELSE res
       ELSE IF hinted /\ (getNumHintElement(item) <= 0 \/ LastLen(item.hint) <= 0) THEN res
       ELSE [Each(pack, res, val[2]) EXCEPT !.value = 0, !.text = text]

(* One item of a struct: st is the result so far and the items before it. *)
PackedItem(chain, it, res) ==
    [res |-> res, chain |-> Walked(chain, [it EXCEPT !.value = res.value, !.text = res.text])]
PackResolved(st, it, res, val, prot) ==
    IF it = << >> THEN [st EXCEPT !.res = Failed(@, SYS_PACK_INSTRUCT_FORMAT_ERR)]
    ELSE PackedItem(st.chain, it[1],
                    IF it[1].ptr THEN packPointerItem(res, it[1], st.chain, val, prot)
                    ELSE packNonpointerItem(res, it[1], st.chain, val, prot))
packItem(st, item, val, prot) ==
    IF st.res.err # Ok THEN st
    ELSE PackResolved(st, resolvePackedItem(item, st.chain, item.ptr /\ val = Null),
                      [st.res EXCEPT !.value = 0, !.text = ""], val, prot)

EndOfStruct(res, item) == IF res.err = Ok THEN Put(res, <<EndTag(item.name)>>) ELSE res
PackParsed(res, parsed, item, chain, structs, prot) ==
    LET items(r, vals) ==
            FoldLeft(LAMBDA st, i : packItem(st, parsed.items[i], vals[i], prot),
                     [res |-> r, chain |-> Nested(chain)],
                     [i \in DOMAIN parsed.items |-> i]).res
        one(r, vals) ==
            IF prot = NATIVE_PROT THEN items(r, vals)
            ELSE EndOfStruct(items(Put(r, <<StartTag(item.name)>>), vals), item)
    IN IF parsed.bad THEN Failed(res, SYS_PACK_INSTRUCT_FORMAT_ERR) ELSE Each(one, res, structs)
packChildStruct(res, item, chain, structs, prot) ==
    IF structs = << >> THEN res
    ELSE IF matchPackInstruct(item.name) = << >> THEN Failed(res, SYS_UNMATCH_PACK_INSTRUCTI_NAME)
    ELSE PackParsed(res, parsePackInstruct(matchPackInstruct(item.name)), item, chain, structs, prot)

packStruct(val, packInstName, prot) ==
    packChildStruct(Packed(<< >>), [NewItem EXCEPT !.name = packInstName], Root, <<val>>, prot)

(***************************************************************************)
(* Unpacking.  A result is what is left of the stream, the error, what has *)
(* been built of the item, and what later items may refer to.              *)
(***************************************************************************)
Unread(in) == [in |-> in, err |-> Ok, val |-> << >>, value |-> 0, text |-> ""]
Rest(in, n) == SubSeq(in, n + 1, Len(in))
Got(u, n, v) == [u EXCEPT !.in = Rest(@, n), !.val = Append(@, v)]
Times(Step(_), u, n) ==
    FoldLeft(LAMBDA r, i : IF r.err = Ok THEN Step(r) ELSE r, u, [i \in 1..n |-> i])

NextIs(in, tag) == in # << >> /\ Head(in)[1] = tag
Garbled == "garbled"

(* parseXmlTag: how many entries to skip to stand behind the tag; a start  *)
(* tag must be the next tag there is, an end tag may lie anywhere ahead.   *)
StartTagAt(in, name) ==
    LET at == SelectInSeq(in, IsTag) IN IF at # 0 /\ in[at] = StartTag(name) THEN at ELSE 0
EndTagAt(in, name) == SelectInSeq(in, LAMBDA entry : entry = EndTag(name))

(* The content between the tags and what follows, or << >>. *)
ValueAt(in, start, len) ==
    IF start = 0 \/ len = 0 THEN << >>
    ELSE <<[content |-> SubSeq(in, start + 1, start + len - 1), used |-> start + len]>>
ValueFrom(in, start, name) == ValueAt(in, start, EndTagAt(Rest(in, start), name))
parseXmlValue(in, name) == ValueFrom(in, StartTagAt(in, name), name)

CharsOf(u, got, len, item) ==
    IF got = << >> THEN Failed(u, SYS_PACK_INSTRUCT_FORMAT_ERR)
    ELSE IF item.type = "bin"
         THEN [Got(u, got[1].used, 0) EXCEPT !.val = base64_decode(got[1].content)]
    ELSE IF Len(got[1].content) > len THEN Failed(u, USER_PACKSTRUCT_INPUT_ERR)
    ELSE [Got(u, got[1].used, 0) EXCEPT !.val = got[1].content]
unpackXmlChar(u, len, item) == CharsOf(u, parseXmlValue(u.in, item.name), len, item)
unpackNatChar(u, len) ==
    IF NextIs(u.in, "char") /\ Len(Head(u.in)[2]) = len
    THEN [u EXCEPT !.in = Tail(@), !.val = Head(u.in)[2]] ELSE Failed(u, Garbled)
unpackChar(u, len, item, prot) ==
    IF len <= 0 THEN u
    ELSE IF prot = XML_PROT THEN unpackXmlChar(u, len, item) ELSE unpackNatChar(u, len)

(* Strings: in place, and through a pointer.  The native stream takes one  *)
(* byte less in place than through a pointer.                              *)
Stored(u, str, used, maxStrLen) ==
    IF maxStrLen >= 0 /\ Len(str) >= maxStrLen THEN Failed(u, USER_PACKSTRUCT_INPUT_ERR)
    ELSE Got(u, used, str)
StringOf(u, got, maxStrLen) ==
    IF got = << >> THEN Failed(u, SYS_PACK_INSTRUCT_FORMAT_ERR)
    ELSE Stored(u, xmlStrToStr(got[1].content), got[1].used, maxStrLen)
unpackXmlString(u, maxStrLen, name) == StringOf(u, parseXmlValue(u.in, name), maxStrLen)
unpackNatString(u, maxStrLen) ==
    IF ~NextIs(u.in, "str") THEN Failed(u, Garbled)
    ELSE IF maxStrLen >= 0 /\ Len(Head(u.in)[2]) + 1 >= maxStrLen
    THEN Failed(u, USER_PACKSTRUCT_INPUT_ERR) ELSE Got(u, 1, Head(u.in)[2])
unpackNatStringToOutPtr(u, maxStrLen) ==
    IF ~NextIs(u.in, "str") THEN Failed(u, Garbled)
    ELSE IF maxStrLen >= 0 /\ Len(Head(u.in)[2]) >= maxStrLen
    THEN Failed(u, USER_PACKSTRUCT_INPUT_ERR) ELSE Got(u, 1, Head(u.in)[2])
unpackXmlStringToOutPtr(u, maxStrLen, name) == unpackXmlString(u, maxStrLen, name)
unpackString(u, maxStrLen, name, prot) ==
    IF prot = XML_PROT THEN unpackXmlString(u, maxStrLen, name) ELSE unpackNatString(u, maxStrLen)
unpackStringToOutPtr(u, maxStrLen, name, prot) ==
    IF prot = XML_PROT THEN unpackXmlStringToOutPtr(u, maxStrLen, name)
    ELSE unpackNatStringToOutPtr(u, maxStrLen)

(* Numbers.  A number missing from an XML stream is no error: what the     *)
(* memory held stays (Unset), and the walk goes on.                        *)
Unset == -9
atoi(content) == CHOOSE n \in -9..9 : <<ToString(n)>> = content
NumberOf(u, got) == IF got = << >> THEN [u EXCEPT !.val = Append(@, Unset)]
                    ELSE Got(u, got[1].used, atoi(got[1].content))
UnpackNumber(u, tag, name, prot) ==
    IF prot = XML_PROT THEN NumberOf(u, parseXmlValue(u.in, name))
    ELSE IF NextIs(u.in, tag) THEN Got(u, 1, Head(u.in)[2]) ELSE Failed(u, Garbled)
FirstKept(u) == [u EXCEPT !.value = IF u.val = << >> THEN 0 ELSE Clipped(u.val[1])]
unpackInt(u, n, name, prot) ==
    FirstKept(Times(LAMBDA r : UnpackNumber(r, "int", name, prot), u, n))
unpackInt16(u, n, name, prot) ==
    FirstKept(Times(LAMBDA r : UnpackNumber(r, "int16", name, prot), u, n))
unpackDouble(u, n, name, prot) ==
    Times(LAMBDA r : UnpackNumber(r, "double", name, prot), u, n)

RECURSIVE unpackChildStruct(_, _, _, _, _)

TextKept(u, item) ==
    IF item.type = "piStr" /\ u.err = Ok THEN [u EXCEPT !.text = TextOf(u.val[1])] ELSE u
unpackNonpointerItem(u, item, chain, prot) ==
    LET n == getNumElement(item) IN
    CASE item.type \in {"char", "bin"} -> unpackChar(u, n, item, prot)
      [] item.type \in {"str", "piStr"} ->
            TextKept(Times(LAMBDA r : unpackString(r, LastLen(item.dim), item.name, prot),
                           u, NumStr(item.dim)), item)
      [] item.type = "int" -> unpackInt(u, n, item.name, prot)
      [] item.type = "int16" -> unpackInt16(u, n, item.name, prot)
      [] item.type = "double" -> unpackDouble(u, n, item.name, prot)
      [] item.type = "struct" -> unpackChildStruct(u, item, chain, n, prot)

(* << >> when the pointer is not NULL, else how many entries it consumes.  *)
(* A count of 0 makes it NULL whatever was packed.                         *)
NullInXml(in, start, none, name) ==
    IF start = 0 THEN <<0>>
    ELSE IF ~none THEN << >>
    ELSE IF start < Len(in) /\ in[start + 1] = EndTag(name) THEN <<start + 1>> ELSE <<0>>
unpackNullString(in, item, prot) ==
    LET none == getNumHintElement(item) <= 0 \/ (item.dim # << >> /\ getNumElement(item) <= 0)
    IN IF prot = XML_PROT THEN NullInXml(in, StartTagAt(in, item.name), none, item.name)
       ELSE IF in # << >> /\ Head(in) = <<"str", NULL_PTR_PACK_STR>> THEN <<1>>
            ELSE IF none THEN <<0>> ELSE << >>

Pointed(u, pointees) == [u EXCEPT !.val = Append(pointees, u.val), !.value = 0]
PointerTo(u, item) ==
    [u EXCEPT !.val = Ptr(@),
              !.text = IF item.type = "piStr" /\ item.dim = << >> /\ u.err = Ok
                       THEN TextOf(u.val[1][1]) ELSE ""]
NullOr(isNull, u, pointer) ==
    IF isNull = << >> THEN pointer ELSE [u EXCEPT !.in = Rest(@, isNull[1]), !.val = Null]
unpackPointerItem(u, item, chain, prot) ==
    LET n == getNumHintElement(item)
        one(r) ==
            CASE item.type \in {"char", "bin"} -> unpackChar(r, n, item, prot)
              [] item.type \in {"str", "piStr"} ->
                    Times(LAMBDA q : unpackStringToOutPtr(q, LastLen(item.hint), item.name, prot),
                          r, NumStr(item.hint))
              [] item.type = "int" -> unpackInt(r, n, item.name, prot)
              [] item.type = "int16" -> unpackInt16(r, n, item.name, prot)
              [] item.type = "double" -> unpackDouble(r, n, item.name, prot)
              [] item.type = "struct" -> unpackChildStruct(r, item, chain, n, prot)
        pointee(r) == Pointed(one([r EXCEPT !.val = << >>]), r.val)
    IN NullOr(unpackNullString(u.in, item, prot), u,
              PointerTo(Times(pointee, u, getNumElement(item)), item))

(* st is what is left of the stream, the items built so far and the items  *)
(* before this one.                                                        *)
Built(st, it, got) ==
    [in |-> got.in, err |-> got.err, vals |-> Append(st.vals, got.val),
     chain |-> Walked(st.chain, [it EXCEPT !.value = got.value, !.text = got.text])]
UnpackResolved(st, it, prot) ==
    IF it = << >> THEN Failed(st, SYS_PACK_INSTRUCT_FORMAT_ERR)
    ELSE Built(st, it[1],
               IF it[1].ptr THEN unpackPointerItem(Unread(st.in), it[1], st.chain, prot)
               ELSE unpackNonpointerItem(Unread(st.in), it[1], st.chain, prot))
unpackItem(st, item, prot) ==
    IF st.err # Ok THEN st
    ELSE UnpackResolved(st, resolvePackedItem(item, st.chain, TRUE), prot)

StructEnd(r, st, end, prot) ==
    IF st.err # Ok THEN Failed(r, st.err)
    ELSE IF prot = XML_PROT /\ end = 0 THEN Failed(r, SYS_PACK_INSTRUCT_FORMAT_ERR)
    ELSE [r EXCEPT !.in = Rest(st.in, end), !.val = Append(@, st.vals)]
UnpackParsed(u, parsed, item, chain, n, prot) ==
    LET items(in) ==
            FoldLeft(LAMBDA st, it : unpackItem(st, it, prot),
                     [in |-> in, err |-> Ok, vals |-> << >>, chain |-> Nested(chain)], parsed.items)
        ended(r, st) ==
            StructEnd(r, st, IF prot = XML_PROT THEN EndTagAt(st.in, item.name) ELSE 0, prot)
        from(r, start) ==
            IF prot = XML_PROT /\ start = 0
            THEN IF item.ptr THEN [r EXCEPT !.val = Append(@, Null)]
                 ELSE Failed(r, SYS_PACK_INSTRUCT_FORMAT_ERR)
            ELSE ended(r, items(Rest(r.in, start)))
        one(r) == from(r, IF prot = XML_PROT THEN StartTagAt(r.in, item.name) ELSE 0)
    IN IF parsed.bad THEN Failed(u, SYS_PACK_INSTRUCT_FORMAT_ERR) ELSE Times(one, u, n)
unpackChildStruct(u, item, chain, n, prot) ==
    IF n = 0 THEN u
    ELSE IF matchPackInstruct(item.name) = << >> THEN Failed(u, SYS_UNMATCH_PACK_INSTRUCTI_NAME)
    ELSE UnpackParsed(u, parsePackInstruct(matchPackInstruct(item.name)), item, chain, n, prot)

unpackStruct(in, packInstName, prot) ==
    unpackChildStruct(Unread(in), [NewItem EXCEPT !.name = packInstName], Root, 1, prot)

=============================================================================
