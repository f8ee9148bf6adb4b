------------------------------- MODULE MsParams -------------------------------
(***************************************************************************)
(* msParamArray_t, the variables of a rule: pointers to parameters, each   *)
(* with a label, a type and a struct behind a void pointer.  A struct is   *)
(* passed on by the caller, copied, freed, or given back, and which of     *)
(* these depends on the type and on flags: the question is whether each is *)
(* freed once.                                                             *)
(***************************************************************************)
EXTENDS Integers, Sequences, SequencesExt

CONSTANTS
  MallocLen,        \* PTR_ARRAY_MALLOC_LEN, 10
  Labels,
  MaxStructs        \* bound: the structs made, by the caller and by copying

ASSUME MsParamAssumption == MallocLen \in Nat \ {0}

VARIABLES
  msParam,          \* the parameters: [label, type, struct], struct 0 for NULL
  slots,            \* the pointers allocated
  structs,          \* the structs there have been: [freed, owner, copy], freed up to 2
  wasReset          \* the structs whose parameter was reset

msParamVars == <<msParam, slots, structs, wasReset>>

STR_MS_T == "STR_PI"
INT_MS_T == "INT_PI"
NULL == "NULL"
Types == {STR_MS_T, INT_MS_T, NULL}

Param == [label : Labels, type : Types, struct : DOMAIN structs]
Struct == [freed : 0..2, owner : {"caller", "array"}, copy : BOOLEAN]
MsParamTypeOK ==
  /\ structs \in Seq(Struct) /\ msParam \in Seq(Param)
  /\ slots \in Nat /\ wasReset \in SUBSET DOMAIN structs

MsParamInit == msParam = << >> /\ slots = 0 /\ structs = << >> /\ wasReset = {}

\* owner: who is to free it; a copy cannot be given back, nobody else has it.
NewStruct(owner, copy) == [freed |-> 0, owner |-> owner, copy |-> copy]
FreeAll(S) ==
  [s \in DOMAIN structs |->
     IF s \in S THEN [structs[s] EXCEPT !.freed = IF @ = 0 THEN 1 ELSE 2] ELSE structs[s]]
GiveBack(known, S) ==
  [s \in DOMAIN known |->
     IF s \in S /\ ~known[s].copy THEN [known[s] EXCEPT !.owner = "caller"] ELSE known[s]]

\* Operators with a fault in their name are variants with that fault.
\* Which label is taken: any whose parameter has a type, when the new one has one.
Taken(label, type) ==
  \E i \in DOMAIN msParam : msParam[i].label = label /\ type # NULL /\ msParam[i].type # NULL
\* A string is copied in any case.
Copied(type, replFlag) == type = STR_MS_T \/ replFlag
SlotsFor(n, s) == IF n % MallocLen = 0 THEN n + MallocLen ELSE s

\* The caller makes a struct and passes it; a string it keeps, and what is
\* copied.  With a label taken, USER_PARAM_LABEL_ERR or, for a string that is
\* the same, 0, and nothing changes.
addMsParamToArray(label, type, replFlag) ==
  LET given == NewStruct(IF type = STR_MS_T \/ replFlag THEN "caller" ELSE "array", FALSE)
      copy == IF Copied(type, replFlag) THEN <<NewStruct("array", TRUE)>> ELSE << >>
  IN /\ ~(replFlag /\ type = NULL)
     /\ ~Taken(label, type)
     /\ structs' = Append(structs, given) \o copy
     /\ slots' = SlotsFor(Len(msParam), slots)
     /\ msParam' = Append(msParam, [label |-> label, type |-> type, struct |-> Len(structs')])
     /\ UNCHANGED wasReset
\* replInOutStruct without a type: an error, after the pointers have grown.
addFails(label) ==
  /\ slots' = SlotsFor(Len(msParam), slots)
  /\ UNCHANGED <<msParam, structs, wasReset>>

FreesAsked(p, freeStruct) == p.struct # 0 /\ freeStruct
\* Whether clearMsParam frees the struct: asked to, or a string.
FreesStruct(p, freeStruct) == p.struct # 0 /\ (freeStruct \/ p.type = STR_MS_T)
clearMsParams(ps, freeStruct) ==
  structs' = GiveBack(FreeAll({p.struct : p \in {q \in ps : FreesStruct(q, freeStruct)}}),
                      {p.struct : p \in {q \in ps : ~FreesStruct(q, freeStruct)}})

rmMsParamByLabel(label, freeStruct) ==
  \E i \in DOMAIN msParam :
    /\ msParam[i].label = label
    /\ \A j \in 1..i - 1 : msParam[j].label # label
    /\ clearMsParams({msParam[i]}, freeStruct)
    /\ msParam' = RemoveAt(msParam, i)
    /\ UNCHANGED <<slots, wasReset>>

clearMsParamArray(freeStruct) ==
  /\ Len(msParam) > 0
  /\ clearMsParams({msParam[i] : i \in DOMAIN msParam}, freeStruct)
  /\ msParam' = << >> /\ slots' = 0
  /\ UNCHANGED wasReset

\* What is not in the list goes, and what has no type: without being cleared.
Retained(p, labels) == p.type # NULL /\ p.label \in labels
\* The places of R one after the other.
OneByOne(R) ==
  {from \in UNION {[1..n -> R] : n \in 0..Len(msParam)} :
     R \subseteq Range(from) /\ \A k, l \in DOMAIN from : k < l => from[k] < from[l]}
trimMsParamArray(labels) ==
  LET cleared == {p \in {msParam[i] : i \in DOMAIN msParam} :
                    p.type # NULL /\ p.label \notin labels}
  IN /\ clearMsParams(cleared, TRUE)
     /\ \E from \in OneByOne({i \in DOMAIN msParam : Retained(msParam[i], labels)}) :
          msParam' = [k \in DOMAIN from |-> msParam[from[k]]]
     /\ UNCHANGED <<slots, wasReset>>

\* The struct is freed, and the pointer to it stays.
resetMsParam(i) ==
  /\ msParam[i].struct # 0
  /\ msParam' = [msParam EXCEPT ![i].type = NULL]
  /\ structs' = FreeAll({msParam[i].struct})
  /\ wasReset' = wasReset \cup {msParam[i].struct}
  /\ UNCHANGED slots

MsParamNext ==
  \/ /\ Len(structs) < MaxStructs
     /\ \/ \E label \in Labels, type \in Types, replFlag \in BOOLEAN :
             addMsParamToArray(label, type, replFlag)
        \/ \E label \in Labels : addFails(label)
  \/ \E label \in Labels, freeStruct \in BOOLEAN : rmMsParamByLabel(label, freeStruct)
  \/ \E freeStruct \in BOOLEAN : clearMsParamArray(freeStruct)
  \/ \E labels \in SUBSET Labels : trimMsParamArray(labels)
  \/ \E i \in DOMAIN msParam : resetMsParam(i)
MsParamSpec == MsParamInit /\ [][MsParamNext]_msParamVars

-----------------------------------------------------------------------------
(* Properties.                                                             *)

\* No struct is freed twice, and none that the caller has to free, except one
\* whose parameter was reset: resetMsParam leaves the pointer in the parameter,
\* and whoever clears it afterwards frees it again.
FreedOnce ==
  \A s \in DOMAIN structs \ wasReset : structs[s].freed <= IF structs[s].owner = "array" THEN 1 ELSE 0

\* A struct the array is to free leaves it freed or given back: no removal
\* forgets one.  Two are forgotten: one without a type, by trimMsParamArray, and
\* a copy of what is no string, by whoever clears it without freeStruct.
Held(s) == \E i \in DOMAIN msParam : msParam[i].struct = s
Forgettable(s) ==
  \E i \in DOMAIN msParam :
    /\ msParam[i].struct = s
    /\ \/ msParam[i].type = NULL
       \/ structs[s].copy /\ msParam[i].type # STR_MS_T
ForgetsNone ==
  \A s \in DOMAIN structs :
    Held(s) /\ ~Held(s)' /\ structs'[s].owner = "array" /\ ~Forgettable(s) =>
      structs'[s].freed > 0

\* A label names one parameter with a type, whatever was removed and added in
\* between, and there is a slot for each parameter.
LabelsName ==
  /\ \A i, j \in DOMAIN msParam :
       i # j /\ msParam[i].label = msParam[j].label => NULL \in {msParam[i].type, msParam[j].type}
  /\ Len(msParam) <= slots

\* The parameters of a rule: no struct is freed twice or forgotten, and a label
\* names one of them.
ParamsOwned == [](FreedOnce /\ LabelsName) /\ [][ForgetsNone]_msParamVars
=============================================================================
