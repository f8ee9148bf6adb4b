----------------------------- MODULE Collections -----------------------------
(***************************************************************************)
(* Walking over a collection: rclOpenCollection, rclReadCollection until   *)
(* it has no more, rclCloseCollection.  A walk is two queries, one for the *)
(* sub-collections and one for the replicas of the data objects, each of   *)
(* them answered a page at a time by the server; replicas of one object    *)
(* are trimmed to one entry.                                               *)
(*                                                                         *)
(* The server is outside the code: it answers a query with the rows of its *)
(* catalog, which does not change meanwhile, the replicas of an object one *)
(* after the other, or it fails; a query is to be continued with the call  *)
(* that opened it.                                                         *)
(***************************************************************************)
EXTENDS Integers, Sequences, SequencesExt

CONSTANTS
  MaxRows,       \* MAX_SQL_ROWS, the rows of a page
  SubColls,      \* the catalogs to choose from: sequences of [name, type]
  Replicas,      \* and sequences of data ids, one of a replica each
  MaxFailures    \* bound on the queries that fail

ASSUME PagesAssumption == MaxRows \in Nat \ {0} /\ MaxFailures \in Nat

\* A data id is a key of the catalog.
ASSUME CatalogAssumption ==
  /\ SubColls \subseteq Seq([name : STRING, type : STRING])
  /\ Replicas \subseteq Seq(Nat \ {0})

VARIABLES
  catalog,    \* what the server knows: [colls, replicas]
  mode,       \* of the walk: [dataFirst, keepReplicas, specColl]
  handle,     \* collHandle_t: [state, colls, data, rowInx, prevdataId]
  got,        \* the entries rclReadCollection returned
  status,     \* what it returned last
  failures    \* the queries that failed, counted

collVars == <<catalog, mode, handle, got, status, failures>>

Ok == "ok"
CAT_NO_ROWS_FOUND == "no rows"
Error == "error"

NoResult == [rows |-> << >>, continueInx |-> 0]
Closed == [state |-> "COLL_CLOSED", colls |-> NoResult, data |-> NoResult, rowInx |-> 0,
           prevdataId |-> -1]

CollTypeOK ==
  /\ catalog \in [colls : SubColls, replicas : Replicas]
  /\ mode \in [dataFirst : BOOLEAN, keepReplicas : BOOLEAN,
               specColl : {"NULL", "LINKED_COLL", "OTHER"}]
  /\ handle.state \in {"COLL_CLOSED", "COLL_OPENED", "COLL_COLL_OBJ_QUERIED",
                       "COLL_DATA_OBJ_QUERIED"}
  /\ handle.rowInx \in 0..MaxRows
  /\ Len(handle.colls.rows) <= MaxRows /\ Len(handle.data.rows) <= MaxRows
  /\ status \in {Ok, CAT_NO_ROWS_FOUND, Error}
  /\ failures \in 0..MaxFailures

CollInit ==
  /\ catalog \in [colls : SubColls, replicas : Replicas]
  /\ mode \in [dataFirst : BOOLEAN, keepReplicas : BOOLEAN,
               specColl : {"NULL", "LINKED_COLL", "OTHER"}]
  /\ handle = Closed
  /\ got = << >>
  /\ status = Ok
  /\ failures = 0

-----------------------------------------------------------------------------
(* Queries.                                                                *)

Lesser(a, b) == IF a < b THEN a ELSE b
Page(list, from) ==
  LET to == Lesser(from + MaxRows, Len(list))
  IN [rows |-> SubSeq(list, from + 1, to), continueInx |-> IF to < Len(list) THEN to ELSE 0]

\* A special collection has no catalog entries for its files: no ids.
RepliesFor(what) ==
  CASE what = "colls" -> catalog.colls
    [] what = "data" -> IF mode.specColl = "OTHER"
                        THEN [i \in DOMAIN catalog.replicas |-> [id |-> 0, row |-> i]]
                        ELSE [i \in DOMAIN catalog.replicas |->
                                [id |-> catalog.replicas[i], row |-> i]]

\* Operators with a fault in their name are variants with that fault.

\* genCollResInColl, genDataResInColl: the first page; the result of an earlier
\* query stays when there is none.
GenResInColl(h, what, state, fails) ==
  LET list == RepliesFor(what)
      h1 == [h EXCEPT !.rowInx = 0, !.state = state]
  IN IF fails THEN [h |-> h1, status |-> Error]
     ELSE IF list = << >> THEN [h |-> h1, status |-> CAT_NO_ROWS_FOUND]
     ELSE [h |-> [h1 EXCEPT ![what] = Page(list, 0)], status |-> Ok]
genCollResInColl(h, fails) == GenResInColl(h, "colls", "COLL_COLL_OBJ_QUERIED", "coll" \in fails)
genDataResInColl(h, fails) == GenResInColl(h, "data", "COLL_DATA_OBJ_QUERIED", "data" \in fails)

\* The call that opens a query, and the one that continues it: they differ for
\* a linked collection.
OpenedBy == IF mode.specColl = "OTHER" THEN "querySpecColl" ELSE "genQuery"
ContinuedBy == IF mode.specColl # "NULL" THEN "querySpecColl" ELSE "genQuery"

\* The next page, when the rows of this one are used up.
NextPage(h, what, fails) ==
  LET next == h[what].continueInx
      cleared == [h EXCEPT ![what] = NoResult]
  IN IF h.rowInx < Len(h[what].rows) THEN [h |-> h, status |-> Ok]
     ELSE IF next = 0 THEN [h |-> cleared, status |-> CAT_NO_ROWS_FOUND]
     ELSE IF fails \/ OpenedBy # ContinuedBy
     THEN [h |-> [cleared EXCEPT !.rowInx = 0], status |-> Error]
     ELSE [h |-> [cleared EXCEPT !.rowInx = 0, ![what] = Page(RepliesFor(what), next)],
           status |-> Ok]

\* A collection of a type nobody knows is an error, after its row was taken.
getNextCollMetaInfo(h, fails) ==
  LET page == NextPage(h, "colls", "collMore" \in fails)
      row == page.h.colls.rows[page.h.rowInx + 1]
  IN IF page.status # Ok THEN [h |-> page.h, status |-> page.status, entry |-> << >>]
     ELSE [h |-> [page.h EXCEPT !.rowInx = @ + 1],
           status |-> IF row.type = "unknown" THEN Error ELSE Ok,
           entry |-> <<"coll", row.name>>]

NextObjectForgetsPrevious(h, rows) == h.rowInx + 1

\* The first row, from rowInx on, of another object than the last one given.
NextObject(h, rows) ==
  LET others == {i \in h.rowInx + 1 .. Len(rows) : rows[i].id # h.prevdataId}
  IN IF others = {} THEN 0 ELSE CHOOSE i \in others : \A j \in others : i <= j

\* Where the rows of the object of row i end: "skip i to the next object".
AfterObject(rows, i) ==
  LET others == {j \in i + 1 .. Len(rows) : rows[j].id # rows[i].id}
  IN IF others = {} THEN Len(rows) ELSE (CHOOSE j \in others : \A k \in others : j <= k) - 1

getNextDataObjMetaInfo(h, fails) ==
  LET page == NextPage(h, "data", "dataMore" \in fails)
      h1 == page.h
      rows == h1.data.rows
      trimmed == rows[1].id # 0 /\ ~mode.keepReplicas
      i == IF trimmed THEN NextObject(h1, rows) ELSE h1.rowInx + 1
  IN IF page.status # Ok THEN [h |-> page.h, status |-> page.status, entry |-> << >>]
     ELSE IF i = 0 THEN [h |-> h1, status |-> CAT_NO_ROWS_FOUND, entry |-> << >>]
     ELSE [h |-> IF trimmed
                 THEN [h1 EXCEPT !.prevdataId = rows[i].id, !.rowInx = AfterObject(rows, i)]
                 ELSE [h1 EXCEPT !.rowInx = @ + 1],
           status |-> Ok,
           entry |-> <<"data", rows[i].row>>]

-----------------------------------------------------------------------------
(* readCollection.                                                         *)

In(h, state) == h.state = state
NotShut(step) == step
Shut(step) == [step EXCEPT !.h.state = "COLL_CLOSED"]


\* Sub-collections first; errors of their queries and of the first query for
\* data objects are logged, not returned.
readCollsFirst(h0, fails) ==
  LET h1 == IF In(h0, "COLL_OPENED") THEN genCollResInColl(h0, fails).h ELSE h0
      coll == getNextCollMetaInfo(h1, fails)
      h2 == IF In(h1, "COLL_COLL_OBJ_QUERIED") THEN genDataResInColl(coll.h, fails).h ELSE h1
      data == getNextDataObjMetaInfo(h2, fails)
  IN IF In(h1, "COLL_COLL_OBJ_QUERIED") /\ coll.status = Ok THEN coll
     ELSE IF data.status = Ok THEN data ELSE Shut(data)

\* Data objects first; an error of the first query of either kind is returned
\* by the call that made the queries, one of a later page is logged only.
readDataFirst(h0, fails) ==
  LET first == genDataResInColl(h0, fails)
      h1 == IF In(h0, "COLL_OPENED") THEN first.h ELSE h0
      data == getNextDataObjMetaInfo(h1, fails)
      second == genCollResInColl(data.h, fails)
      h2 == IF In(h1, "COLL_DATA_OBJ_QUERIED") THEN second.h ELSE h1
      coll == getNextCollMetaInfo(h2, fails)
      savedStatus == \/ In(h0, "COLL_OPENED") /\ first.status = Error
                     \/ In(h1, "COLL_DATA_OBJ_QUERIED") /\ second.status = Error
      last == IF coll.status = Ok THEN coll ELSE Shut(coll)
  IN IF In(h1, "COLL_DATA_OBJ_QUERIED") /\ data.status = Ok THEN data
     ELSE [last EXCEPT !.status = IF savedStatus THEN Error ELSE @]

readCollection(h, fails) ==
  IF In(h, "COLL_CLOSED") THEN [h |-> h, status |-> CAT_NO_ROWS_FOUND, entry |-> << >>]
  ELSE IF mode.dataFirst THEN readDataFirst(h, fails) ELSE readCollsFirst(h, fails)

-----------------------------------------------------------------------------
(* The application: opens a collection, reads it, closes it.               *)

\* rcObjStat may fail, or find something else than a collection: the handle
\* was cleared before.
rclOpenCollection ==
  /\ handle = Closed /\ got = << >> /\ status = Ok
  /\ \/ handle' = [Closed EXCEPT !.state = "COLL_OPENED"] /\ status' = Ok
     \/ handle' = Closed /\ status' = Error
  /\ UNCHANGED <<catalog, mode, got, failures>>

rclReadCollection ==
  \E query \in {"none", "coll", "collMore", "data", "dataMore"} :
    LET fails == IF query = "none" THEN {} ELSE {query}
        read == readCollection(handle, fails)
    IN /\ query # "none" => failures < MaxFailures
       /\ ~In(handle, "COLL_CLOSED")
       /\ handle' = read.h
       /\ status' = read.status
       /\ got' = IF read.status = Ok THEN Append(got, read.entry) ELSE got
       /\ failures' = IF query = "none" THEN failures ELSE failures + 1
       /\ UNCHANGED <<catalog, mode>>

\* clearCollHandle.  A query the server still holds open is not closed.
rclCloseCollection ==
  /\ ~In(handle, "COLL_CLOSED")
  /\ handle' = [Closed EXCEPT !.prevdataId = handle.prevdataId]
  /\ UNCHANGED <<catalog, mode, got, status, failures>>

CollNext == rclOpenCollection \/ rclReadCollection \/ rclCloseCollection

CollSpec == CollInit /\ [][CollNext]_collVars /\ WF_collVars(rclReadCollection)

-----------------------------------------------------------------------------
(* Properties.                                                             *)

CollEntries == [i \in DOMAIN catalog.colls |-> <<"coll", catalog.colls[i].name>>]
\* One row of each object, or all of them.
KeptUpTo(ids, all) ==
  LET f[n \in 0 .. Len(ids)] ==
        IF n = 0 THEN << >>
        ELSE IF all \/ n = 1 \/ ids[n] # ids[n - 1] THEN Append(f[n - 1], n) ELSE f[n - 1]
  IN f
AllReplicas == mode.keepReplicas \/ mode.specColl = "OTHER"
Kept == KeptUpTo(catalog.replicas, AllReplicas)[Len(catalog.replicas)]
DataEntries == [k \in DOMAIN Kept |-> <<"data", Kept[k]>>]
Expected == IF mode.dataFirst THEN DataEntries \o CollEntries ELSE CollEntries \o DataEntries

IsSubsequence(s, t) ==
  /\ \A k \in DOMAIN s : \E n \in DOMAIN t : s[k] = t[n]
  /\ \A k, l \in DOMAIN s : k < l =>
       \E m, n \in DOMAIN t : m < n /\ s[k] = t[m] /\ s[l] = t[n]

\* No entry is given twice, out of order, or for two replicas of one object,
\* whichever query fails and wherever a page ends.
InOrder == IsSubsequence(got, Expected)

\* What makes a walk end early although no query failed: a collection of an
\* unknown type; a linked collection with more than one page; a whole page of
\* replicas of the object the page before ended with, when more pages follow.
UnknownType == \E i \in DOMAIN catalog.colls : catalog.colls[i].type = "unknown"
ManyPages == Len(catalog.colls) > MaxRows \/ Len(catalog.replicas) > MaxRows
Straddling ==
  \E p \in 1 .. Len(catalog.replicas) \div MaxRows :
    /\ (p + 1) * MaxRows < Len(catalog.replicas)
    /\ \A i \in p * MaxRows .. (p + 1) * MaxRows :
         catalog.replicas[i] = catalog.replicas[p * MaxRows]
Sound == /\ failures = 0
         /\ ~UnknownType
         /\ ~(mode.specColl = "LINKED_COLL" /\ ManyPages)
         /\ AllReplicas \/ ~Straddling

\* The entries given are the first ones there are, and when there are no more
\* all of them: pages, the change from one query to the other and the trimming
\* of replicas lose nothing.
WalkComplete == Sound => /\ IsPrefix(got, Expected)
                         /\ status = CAT_NO_ROWS_FOUND => got = Expected
                         /\ status = Error => got = << >>

\* One query that fails loses no entry of the other kind, with sub-collections
\* first: the error is logged and the walk goes on.  (With data objects first,
\* an error of the first query ends the walk, and one of a later page costs the
\* entry that was to be given.)
Failed == failures = 1 /\ status # Ok /\ In(handle, "COLL_CLOSED")
OneSideSurvives ==
  Failed /\ ~mode.dataFirst /\ ~UnknownType /\ mode.specColl # "LINKED_COLL"
    /\ (AllReplicas \/ ~Straddling) =>
      IsSubsequence(CollEntries, got) \/ IsSubsequence(DataEntries, got)

\* A walk over a collection gives each entry once and in order, whatever fails
\* on the other side of it, and ends without an error only when all are given.
EntriesGiven == InOrder /\ WalkComplete /\ OneSideSurvives

\* A reader that goes on reading comes to the end: every page is asked for
\* once, and no failure makes the walk start again.
WalkEnds == In(handle, "COLL_OPENED") ~> In(handle, "COLL_CLOSED")
=============================================================================
