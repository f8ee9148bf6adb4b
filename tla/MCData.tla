------------------------------- MODULE MCData --------------------------------
(***************************************************************************)
(* Inputs for the algorithms that keep no state between calls.             *)
(***************************************************************************)
EXTENDS MCText

PS == INSTANCE PackStruct
AC == INSTANCE ApiCalls
QR == INSTANCE QueryResult

dataVars == <<kind, in>>

Null == PS!Null
Ptr(p) == PS!Ptr(p)

(* Strings with characters XML escapes, the text of an entity, and one     *)
(* that is as long as SmallLen lets a packed string be.                    *)
Strings == {<< >>, <<"a">>, <<"&", "amp;">>, <<"<", "backquote">>}
Short == {<< >>, <<"a">>, <<"&">>}

StrArray(s) == Ptr([i \in DOMAIN s |-> <<s[i]>>])
SeqsOf(S, n) == [1..n -> S]
Counted(n, p) == IF n = 0 THEN Null ELSE p

KeyVals == {<<<<n>>, Counted(n, StrArray(k)), Counted(n, StrArray(v))>> :
               n \in 0..0, k \in {<< >>}, v \in {<< >>}}
           \cup {<<<<1>>, StrArray(<<k>>), StrArray(<<v>>)>> : k \in Strings, v \in Strings}
           \cup {<<<<2>>, StrArray(k), StrArray(v)>> : k \in SeqsOf(Short, 2), v \in SeqsOf(Short, 2)}
Nums == {-1, 0, 7}
InxIvals == {<<<<0>>, Null, Null>>}
            \cup {<<<<2>>, Ptr(<<i>>), Ptr(<<v>>)>> : i \in SeqsOf(Nums, 2), v \in SeqsOf(Nums, 2)}
InxVals == {<<<<0>>, Null, Null>>}
           \cup {<<<<2>>, Ptr(<<i>>), StrArray(v)>> : i \in SeqsOf(Nums, 2), v \in SeqsOf(Strings, 2)}
Chars == {"a", "<", "&"}
Bufs == {<<<<0>>, Null>>} \cup {<<<<2>>, Ptr(<<b>>)>> : b \in SeqsOf(Chars, 2)}
Arrays == {<<<<0>>, Null>>} \cup {<<<<2>>, Ptr(<<b>>)>> : b \in SeqsOf(Nums, 2)}
(* With a message one character short of the room for it. *)
Fullest == <<"a", "&">>
ErrMsgs == {<<<<n>>, <<m>>>> : n \in Nums, m \in Short \cup {Fullest}}
StructArray(s) == Ptr([i \in DOMAIN s |-> <<s[i]>>])
RErrors == {<<<<0>>, Null>>} \cup {<<<<1>>, StructArray(<<m>>)>> : m \in ErrMsgs}
           \cup {<<<<2>>, StructArray(m)>> : m \in SeqsOf({<<<<7>>, <<s>>>> : s \in Short}, 2)}
SqlResults(rows) == {<<<<5>>, <<3>>, Counted(rows, Ptr(<<v>>))>> : v \in SeqsOf(Short, rows)}
GenQueryOuts == UNION {{<<<<rows>>, <<2>>, <<s, t>>>> :
                           s \in SqlResults(rows), t \in SqlResults(rows)} : rows \in 0..2}
Bins == {Null} \cup {Ptr(<<<<b>>>>) : b \in {<<<<0>>, Null>>, <<<<2>>, Ptr(<<<<"a", "<">>>>)>>}}
StructPtr(v) == Ptr(<<<<v>>>>)
MsParams ==
    {<<l, Null, Null, b>> : l \in {Null, Ptr(<<<<<<"a">>>>>>)}, b \in Bins}
    \cup {<<Ptr(<<<<<<"a">>>>>>), Ptr(<<<<<<t[1]>>>>>>), t[2], b>> :
             t \in {<<"INT_PI", StructPtr(<<<<7>>>>)>>, <<"STR_PI", StructPtr(<<<<<<"&", "a">>>>>>)>>,
                    <<"KeyValPair_PI", StructPtr(<<<<0>>, Null, Null>>)>>, <<"STR_PI", Null>>,
                    <<"KeyValPair_PI", StructPtr(<<<<1>>, StrArray(<<<<"a">>>>), StrArray(<<<< >>>>)>>)>>},
             b \in Bins}
MsParamArrays == {<<<<0>>, <<0>>, Null>>} \cup {<<<<1>>, <<3>>, StructArray(<<m>>)>> :
                                                         m \in {p \in MsParams : p[1] # Null}}
SpecColls == {<<<<n>>, <<s>>>> : n \in {0, 7}, s \in {<< >>, <<"a">>}}
SpecCollPtrs == {Null} \cup {StructPtr(s) : s \in SpecColls}
DataObjInps == {<<<<p>>, <<n>>, s, <<k>>>> : p \in Short, n \in Nums, s \in SpecCollPtrs,
                                             k \in {<<<<0>>, Null, Null>>}}
NoKeyVal == <<<<0>>, Null, Null>>
RegReplicas == {<<s, d, <<NoKeyVal>>>> : s \in SpecCollPtrs, d \in SpecCollPtrs}
ExecRules == {<<<<b>>, m>> : b \in Bufs,
                             m \in {Null, StructPtr(<<<<0>>, <<0>>, Null>>)}}
H5Attributes == {<<<<3>>, <<0>>, Null>>, <<<<1>>, <<0>>, Null>>}
                \cup {<<<<c>>, <<2>>, StrArray(v)>> : c \in {3, 6}, v \in SeqsOf(Short, 2)}
                \cup {<<<<1>>, <<2>>, Ptr(<<b>>)>> : b \in SeqsOf(Chars, 2)}

Structs == [INT_PI |-> {<<<<n>>>> : n \in Nums}, STR_PI |-> {<<<<s>>>> : s \in Strings},
            STR_PTR_PI |-> {<<Null>>} \cup {<<Ptr(<<<<s>>>>)>> : s \in Strings},
            KeyValPair_PI |-> KeyVals, InxIvalPair_PI |-> InxIvals, InxValPair_PI |-> InxVals,
            BytesBuf_PI |-> Bufs, BinBytesBuf_PI |-> Bufs, int16DataArray_PI |-> Arrays,
            int64DataArray_PI |-> Arrays, RErrMsg_PI |-> ErrMsgs, RError_PI |-> RErrors,
            GenQueryOut_PI |-> GenQueryOuts, MsParam_PI |-> MsParams,
            MsParamArray_PI |-> MsParamArrays, DataObjInp_PI |-> DataObjInps,
            RegReplica_PI |-> RegReplicas, ExecRuleExpression_PI |-> ExecRules,
            h5Attribute_PI |-> H5Attributes]

PackInputs == UNION {{[pi |-> p, val |-> v] : v \in Structs[p]} : p \in DOMAIN Structs}

(* The answers a walk over a collection gets, by the flags it was opened with. *)
Answers == {[of |-> "coll", answer |-> a] : a \in {QR!queryCollInColl, QR!SpecCollColumns}}
           \cup {[of |-> "data", answer |-> a] :
                   a \in {QR!queryDataObjInColl(f) : f \in {"SHORT", "LONG", "VERY_LONG"}}
                         \cup {QR!SpecCollColumns}}

(* Each wrapper, with the rows of the API table that have its API number.  *)
CallInput(w, call) == [wrapper |-> w, call |-> call, rows |-> AC!RowsOf(call.apiNumber)]
CallInputs(calls) == {CallInput(w, calls[w]) : w \in DOMAIN calls}

Batches == TextBatches \cup {"pack", "call", "answer"}

DataInit == kind = "idle" /\ in \in {Batch(b) : b \in Batches}
DataIdle == kind = "idle" /\ in = "none"
DataNext == kind = "idle" /\ (\/ Take("pack", PackInputs)
                             \/ Take("call", CallInputs(AC!Calls))
                             \/ Take("answer", Answers)
                             \/ TextPick)

-----------------------------------------------------------------------------
(* packStruct, unpackStruct.                                               *)

(* What packStruct writes, unpackStruct reads to the last entry, and the   *)
(* struct is what it was: counted arrays, NULL pointers, items whose type  *)
(* or count an earlier item decides, and strings with characters that XML  *)
(* escapes.                                                                *)
PackedAs(prot) == PS!packStruct(in.val, in.pi, prot)
UnpackedAs(p, prot) == [packed |-> p.err, u |-> PS!unpackStruct(p.out, in.pi, prot)]
IsBack(r) == r.packed = PS!Ok /\ r.u.err = PS!Ok /\ r.u.val = <<in.val>> /\ r.u.in = << >>
IsRefused(r) == r.packed = PS!Ok /\ r.u.err = PS!USER_PACKSTRUCT_INPUT_ERR
Restored(prot) == IsBack(UnpackedAs(PackedAs(prot), prot))
(* One string does not survive in the native protocol: packNatString takes *)
(* one that just fits, with its final 0, and unpackNatString refuses it.   *)
Full == \/ in.pi = "RErrMsg_PI" /\ in.val[2] = <<Fullest>>
        \/ in.pi = "RError_PI" /\ in.val[1] = <<1>> /\ in.val[2][2][1][1][2] = <<Fullest>>
NativeRoundTrip == kind = "pack" =>
    IF Full THEN IsRefused(UnpackedAs(PackedAs(PS!NATIVE_PROT), PS!NATIVE_PROT))
            ELSE Restored(PS!NATIVE_PROT)

(* In XML a NULL pointer leaves no trace: of two pointers of the same name *)
(* in a row, a first that is NULL takes what belongs to the second.        *)
Shifted == in.pi = "RegReplica_PI" /\ in.val[1] = Null /\ in.val[2] # Null
XmlRoundTrip == kind = "pack" /\ ~Shifted => Restored(PS!XML_PROT)

-----------------------------------------------------------------------------
(* The API table and the wrappers.                                         *)

(* Each wrapper's API number has exactly one row, and the wrapper passes a *)
(* struct or a byte stream where, and only where, the row describes one.   *)
CallDescribed == kind = "call" =>
    /\ Cardinality(in.rows) = 1
    /\ \A row \in in.rows :
          /\ AC!Described(row.inPackInstruct, in.call.inputStruct)
          /\ AC!Described(row.outPackInstruct, in.call.outStruct)
          /\ in.call.inputBs => row.inBsFlag = 1
          /\ row.outBsFlag = 1 => in.call.outBs

(* The packer finds every item where the compiler put the member: the      *)
(* packer is handed a void *.  Two calls are left out: rcGeneralUpdate,    *)
(* whose instruction is in neither table, so that it is refused before     *)
(* anything is read, and rcFileMkdir: in its input a struct follows an int *)
(* and is not where the packer, which does not align structs, looks.       *)
CallFits == kind = "call" /\ in.wrapper \notin {"rcFileMkdir", "rcGeneralUpdate"} =>
    \A row \in in.rows :
        /\ AC!DescribedAs(row.inPackInstruct, in.call.inputStruct, AC!Fits)
        /\ AC!DescribedAs(row.outPackInstruct, in.call.outStruct, AC!Fits)

(* And no member is left behind: what the caller set reaches the server,   *)
(* and what the server answers the caller.  The hierarchy of the resource  *)
(* of the calls on sub-files, the one of an object's status and the tenth  *)
(* argument of a row to insert are left behind.                            *)
LeftBehind == {"rcSubStructFileRead", "rcSubStructFileWrite", "rcSubStructFileClose",
               "rcSubStructFileReaddir", "rcSubStructFileClosedir", "rcSubStructFileLseek",
               "rcObjStat", "rcGeneralRowInsert", "rcGeneralUpdate"}
CallWhole == kind = "call" /\ in.wrapper \notin LeftBehind =>
    \A row \in in.rows :
        /\ AC!DescribedAs(row.inPackInstruct, in.call.inputStruct, AC!Whole)
        /\ AC!DescribedAs(row.outPackInstruct, in.call.outStruct, AC!Whole)

-----------------------------------------------------------------------------
(* The answers of queries.                                                 *)

(* Every value of an answer is freed once: none is freed by the conversion *)
(* and by the walk, none is left behind.                                   *)
AnswerOwned == kind = "answer" =>
    \A column \in in.answer : QR!FreesOf(in.of, in.answer, column) = 1

(* An entry is read from values that are there, asked for or made up.      *)
FieldsThere == kind = "answer" =>
    LET c == QR!Conversion(in.of, in.answer)
    IN c.ok /\ (IF in.of = "coll" THEN QR!CollColumns ELSE QR!DataColumns) = c.taken \cup c.made
=============================================================================
