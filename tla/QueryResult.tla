----------------------------- MODULE QueryResult -----------------------------
(***************************************************************************)
(* From the answer of a query to the entries of a walk over a collection:  *)
(* which columns are asked for, which the conversions take over, make up   *)
(* or free, and which values getNextCollMetaInfo and getNextDataObjMetaInfo *)
(* read then.  An answer is the set of its columns.                        *)
(***************************************************************************)
EXTENDS Naturals, Sequences, FiniteSets

CollColumns == {"COLL_NAME", "COLL_OWNER_NAME", "COLL_CREATE_TIME", "COLL_MODIFY_TIME",
                "COLL_TYPE", "COLL_INFO1", "COLL_INFO2"}

\* Operators with a fault in their name are variants with that fault.
queryCollInColl == CollColumns

setQueryInpForData(flags) ==
  {"COLL_NAME", "DATA_NAME", "D_DATA_ID", "DATA_MODE", "DATA_SIZE", "D_MODIFY_TIME",
   "D_CREATE_TIME"}
  \cup IF flags = "SHORT" THEN {}
       ELSE {"D_RESC_NAME", "D_RESC_HIER", "D_OWNER_NAME", "DATA_REPL_NUM", "D_REPL_STATUS"}
  \cup IF flags = "VERY_LONG" THEN {"D_DATA_PATH", "D_DATA_CHECKSUM", "DATA_TYPE_NAME"} ELSE {}
queryDataObjInColl(flags) == setQueryInpForData(flags)

\* rcQuerySpecColl knows of files only: the same columns for both kinds.
SpecCollColumns == {"COLL_NAME", "DATA_NAME", "D_CREATE_TIME", "D_MODIFY_TIME", "DATA_SIZE"}

-----------------------------------------------------------------------------
(* A conversion's outcome: the columns whose values the result takes from  *)
(* the answer, those setSqlResultValue makes for it, those freed at once.  *)

Converted(ok, taken, made, freed) == [ok |-> ok, taken |-> taken, made |-> made, freed |-> freed]

\* The columns before the first that is missing are taken all the same.
TakeInOrder(columns, answer) ==
  LET missing == {i \in DOMAIN columns : columns[i] \notin answer}
      upto == {i \in DOMAIN columns : \A m \in missing : i < m}
  IN Converted(missing = {}, {columns[i] : i \in upto}, {}, {})

\* Without COLL_TYPE, from rcQuerySpecColl: a collection inherits its parent's
\* special collection, and what an entry for a file has more is freed.
FreesAllButSize == {"DATA_NAME", "D_CREATE_TIME", "D_MODIFY_TIME"}
FreedForColl == {"DATA_NAME", "D_CREATE_TIME", "D_MODIFY_TIME", "DATA_SIZE"}

genQueryOutToCollRes(answer) ==
  IF "COLL_NAME" \in answer /\ "COLL_TYPE" \notin answer
  THEN Converted(TRUE, {"COLL_NAME"}, CollColumns \ {"COLL_NAME"}, answer \cap FreedForColl)
  ELSE TakeInOrder(<<"COLL_NAME", "COLL_TYPE", "COLL_INFO1", "COLL_INFO2", "COLL_OWNER_NAME",
                     "COLL_CREATE_TIME", "COLL_MODIFY_TIME">>, answer)

\* Only the two names must be there: the others are made where they are missing.
DataColumns == setQueryInpForData("VERY_LONG")
genQueryOutToDataObjRes(answer) ==
  LET names == TakeInOrder(<<"COLL_NAME", "DATA_NAME">>, answer)
  IN IF names.ok
     THEN Converted(TRUE, answer \cap DataColumns, DataColumns \ answer, {})
     ELSE names

\* What the walk does with an answer: a conversion that fails leaves the answer
\* to freeGenQueryOut; the result is freed by clearCollSqlResult or
\* clearDataObjSqlResult when its rows are used up, or at the end.
Conversion(kind, answer) ==
  IF kind = "coll" THEN genQueryOutToCollRes(answer) ELSE genQueryOutToDataObjRes(answer)
FreesOf(kind, answer, column) ==
  LET c == Conversion(kind, answer)
  IN Cardinality({k \in {"freed", "taken"} : column \in c[k]})
     + IF c.ok \/ column \notin answer THEN 0 ELSE 1
=============================================================================
