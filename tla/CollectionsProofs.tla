--------------------------- MODULE CollectionsProofs ---------------------------
(***************************************************************************)
(* A walk over a collection gives each entry once and in order, and all of *)
(* them where it can: for pages of every size, every catalog, every way of *)
(* walking and every failing query.                                        *)
(***************************************************************************)
EXTENDS Collections, Induction, SequenceTheorems

Rows == [name : STRING, type : STRING] \cup [id : Nat, row : Nat]
Results == [rows : Seq(Rows), continueInx : Nat]
Handles ==
  [state : {"COLL_CLOSED", "COLL_OPENED", "COLL_COLL_OBJ_QUERIED", "COLL_DATA_OBJ_QUERIED"},
   colls : Results, data : Results, rowInx : Nat, prevdataId : Int]
Catalogs == [colls : Seq([name : STRING, type : STRING]), replicas : Seq(Nat \ {0})]
Modes == [dataFirst : BOOLEAN, keepReplicas : BOOLEAN, specColl : {"NULL", "LINKED_COLL", "OTHER"}]

-----------------------------------------------------------------------------
(* The invariant, of a catalog cat, a mode m, a handle h, the entries g    *)
(* given so far, the last status st and the number fl of failures.         *)

All(m) == m.keepReplicas \/ m.specColl = "OTHER"
Ids(cat, m, i) == IF m.specColl = "OTHER" THEN 0 ELSE cat.replicas[i]
DataRows(cat, m) == [i \in 1 .. Len(cat.replicas) |-> [id |-> Ids(cat, m, i), row |-> i]]

\* r is the page of list that starts after its row s, and the row c of the list
\* is the row k of the page.
StartsPage(s) == \E p \in 0 .. s : s = p * MaxRows
IsPage(list, r, s) ==
  /\ s < Len(list) /\ StartsPage(s)
  /\ Len(r.rows) = Lesser(MaxRows, Len(list) - s)
  /\ \A i \in 1 .. Len(r.rows) : r.rows[i] = list[s + i]
  /\ r.continueInx = IF s + MaxRows < Len(list) THEN s + MaxRows ELSE 0
Paged(list, r, k, c) == c - k >= 0 /\ IsPage(list, r, c - k) /\ k <= Len(r.rows)

\* The walk over the sub-collections stands after the c-th, that over the data
\* objects after the d-th replica.
CollsAt(cat, h, c) == Paged(cat.colls, h.colls, h.rowInx, c)
DataAt(cat, m, h, d) ==
  /\ Paged(DataRows(cat, m), h.data, h.rowInx, d)
  /\ ~All(m) =>
       /\ h.prevdataId = IF d = 0 THEN -1 ELSE cat.replicas[d]
       /\ 0 < h.rowInx /\ h.rowInx < Len(h.data.rows) => cat.replicas[d + 1] # cat.replicas[d]

\* The entries of the collections after the first lost, and of the replicas.
CollsGiven(cat, lost, c) == [k \in 1 .. c - lost |-> <<"coll", cat.colls[lost + k].name>>]
DataGiven(cat, m, d) ==
  LET kept == KeptUpTo(cat.replicas, All(m))[d]
  IN [k \in 1 .. Len(kept) |-> <<"data", kept[k]>>]
Given(cat, m, lost, c, d) ==
  IF m.dataFirst THEN DataGiven(cat, m, d) \o CollsGiven(cat, lost, c)
  ELSE CollsGiven(cat, lost, c) \o DataGiven(cat, m, d)

AllColls(cat, c) == c = Len(cat.colls)
AllData(cat, m, d) == DataGiven(cat, m, d) = DataGiven(cat, m, Len(cat.replicas))

\* Nothing but a failing query can end the walk too early.
Easy == /\ ~UnknownType
        /\ ~(mode.specColl = "LINKED_COLL" /\ ManyPages)
        /\ AllReplicas \/ ~Straddling

OpenedHandle == [Closed EXCEPT !.state = "COLL_OPENED"]

Phase(cat, m, easy, h, st, fl, lost, c, d) ==
  CASE h.state = "COLL_CLOSED" -> TRUE
    [] h.state = "COLL_OPENED" -> h = OpenedHandle /\ c = 0 /\ d = 0 /\ st = Ok /\ fl = 0
    [] h.state = "COLL_COLL_OBJ_QUERIED" ->
         /\ CollsAt(cat, h, c)
         /\ IF m.dataFirst THEN easy /\ fl = 0 => AllData(cat, m, d)
            ELSE d = 0 /\ h.data = NoResult /\ h.prevdataId = -1
    [] h.state = "COLL_DATA_OBJ_QUERIED" ->
         /\ DataAt(cat, m, h, d)
         /\ IF m.dataFirst THEN c = 0 /\ lost = 0 /\ h.colls = NoResult
            ELSE easy /\ fl = 0 => AllColls(cat, c)

\* The second list is begun when the first one is given, unless a query failed.
FirstWhole(cat, m, c, d) ==
  IF m.dataFirst THEN c = 0 \/ AllData(cat, m, d) ELSE d = 0 \/ AllColls(cat, c)

\* How a walk ends.
Whole(cat, m, g, st, fl, c, d) ==
  st # Ok /\ ~(fl = 0 /\ st = Error /\ g = << >>) =>
    /\ fl = 0 => st = CAT_NO_ROWS_FOUND /\ AllColls(cat, c) /\ AllData(cat, m, d)
    /\ ~m.dataFirst /\ fl = 1 => AllColls(cat, c) \/ AllData(cat, m, d)

WalkAt(cat, m, easy, h, g, st, fl, lost, c, d) ==
  /\ lost <= c /\ (lost # 0 => m.dataFirst /\ fl > 0)
  /\ g = Given(cat, m, lost, c, d)
  /\ Phase(cat, m, easy, h, st, fl, lost, c, d)
  /\ easy /\ fl = 0 => FirstWhole(cat, m, c, d)
  /\ easy /\ h.state = "COLL_CLOSED" => Whole(cat, m, g, st, fl, c, d)

WalkIn(cat, m, easy, h, g, st, fl) ==
  /\ h \in Handles /\ st \in {Ok, CAT_NO_ROWS_FOUND, Error} /\ fl \in Nat
  /\ st = Ok /\ g = << >> => fl = 0
  /\ h.state # "COLL_CLOSED" /\ (fl = 0 \/ ~m.dataFirst) => st = Ok
  /\ \E lost \in {0, 1}, c \in 0 .. Len(cat.colls), d \in 0 .. Len(cat.replicas) :
       WalkAt(cat, m, easy, h, g, st, fl, lost, c, d)

CollInv ==
  /\ catalog \in [colls : SubColls, replicas : Replicas] /\ mode \in Modes
  /\ WalkIn(catalog, mode, Easy, handle, got, status, failures)

-----------------------------------------------------------------------------
(* What is kept of a list of replicas: KeptUpTo is a recursive function.   *)

NewId(ids, all, n) == all \/ n = 1 \/ ids[n] # ids[n - 1]
KeptNext(ids, all, f, n) == IF NewId(ids, all, n) THEN Append(f, n) ELSE f
KeptStep(ids, all, f) ==
  [n \in 0 .. Len(ids) |-> IF n = 0 THEN << >> ELSE KeptNext(ids, all, f[n - 1], n)]

IsKept(ids, all, n, f) ==
  /\ DOMAIN f = 0 .. n /\ f = [k \in 0 .. n |-> f[k]] /\ f[0] = << >>
  /\ \A k \in 0 .. n - 1 : f[k + 1] = KeptNext(ids, all, f[k], k + 1)

LEMMA KeptExists ==
  ASSUME NEW ids, Len(ids) \in Nat, NEW all
  PROVE  \E f : IsKept(ids, all, Len(ids), f)
<1> DEFINE S == {n \in Nat : \E f : IsKept(ids, all, n, f)}
<1>1. 0 \in S
  <2>1. IsKept(ids, all, 0, [k \in 0 .. 0 |-> << >>])
    BY DEF IsKept
  <2> QED BY <2>1
<1>2. ASSUME NEW n \in 0 .. Len(ids) - 1, n \in S
      PROVE  n + 1 \in S
  <2>1. PICK f : IsKept(ids, all, n, f)
    BY <1>2
  <2> DEFINE e == KeptNext(ids, all, f[n], n + 1)
             g == [k \in 0 .. n + 1 |-> IF k = n + 1 THEN e ELSE f[k]]
  <2>2. DOMAIN g = 0 .. n + 1 /\ g = [k \in 0 .. n + 1 |-> g[k]] /\ g[0] = << >>
    BY <2>1 DEF IsKept
  <2>3. ASSUME NEW k \in 0 .. n
        PROVE  g[k + 1] = KeptNext(ids, all, g[k], k + 1)
    <3>1. g[k] = f[k] /\ g[n + 1] = e
      OBVIOUS
    <3>2. CASE k = n
      BY <3>1, <3>2
    <3>3. CASE k # n
      <4>1. k \in 0 .. n - 1 /\ k + 1 \in 0 .. n + 1 /\ k + 1 # n + 1
        BY <3>3
      <4>2. g[k + 1] = f[k + 1]
        BY <4>1
      <4> QED BY <2>1, <3>1, <4>1, <4>2 DEF IsKept
    <3> QED BY <3>2, <3>3
  <2>4. IsKept(ids, all, n + 1, g)
    <3> HIDE DEF g
    <3>1. (n + 1) - 1 = n
      OBVIOUS
    <3> QED BY <2>2, <2>3, <3>1, Zenon DEF IsKept
  <2> QED BY <2>4
<1> HIDE DEF S
<1>3. \A n \in 0 .. Len(ids) : n \in S
  BY <1>1, <1>2, BoundedInduction
<1> QED BY <1>3 DEF S

\* The numbers kept, one replica further.
LEMMA KeptFacts ==
  ASSUME NEW ids, Len(ids) \in Nat, NEW all
  PROVE  /\ KeptUpTo(ids, all)[0] = << >>
         /\ \A n \in 1 .. Len(ids) :
              KeptUpTo(ids, all)[n] = KeptNext(ids, all, KeptUpTo(ids, all)[n - 1], n)
         /\ \A n \in 0 .. Len(ids) : KeptUpTo(ids, all)[n] \in Seq(Nat)
<1> DEFINE w == CHOOSE f : f = KeptStep(ids, all, f)
<1>1. PICK f : IsKept(ids, all, Len(ids), f)
  BY KeptExists
<1>2. f = KeptStep(ids, all, f)
  <2>1. \A n \in 0 .. Len(ids) :
          f[n] = IF n = 0 THEN << >> ELSE KeptNext(ids, all, f[n - 1], n)
    BY <1>1 DEF IsKept
  <2> QED BY <1>1, <2>1 DEF IsKept, KeptStep
<1>3. w = KeptStep(ids, all, w)
  BY <1>2
<1>4. KeptUpTo(ids, all) = w
  BY DEF KeptUpTo, KeptStep, KeptNext, NewId
<1> HIDE DEF w
<1>5. /\ w[0] = << >>
      /\ \A n \in 1 .. Len(ids) : w[n] = KeptNext(ids, all, w[n - 1], n)
  <2>1. \A n \in 0 .. Len(ids) :
          w[n] = IF n = 0 THEN << >> ELSE KeptNext(ids, all, w[n - 1], n)
    BY <1>3 DEF KeptStep
  <2> QED BY <2>1
<1>6. \A n \in 0 .. Len(ids) : w[n] \in Seq(Nat)
  <2> DEFINE S == {n \in Nat : w[n] \in Seq(Nat)}
  <2>1. 0 \in S
    BY <1>5, EmptySeq
  <2>2. ASSUME NEW n \in 0 .. Len(ids) - 1, n \in S
        PROVE  n + 1 \in S
    <3>1. w[n] \in Seq(Nat) /\ n + 1 \in 1 .. Len(ids) /\ (n + 1) - 1 = n
      BY <2>2
    <3>2. w[n + 1] = KeptNext(ids, all, w[n], n + 1)
      BY <1>5, <3>1
    <3>3. w[n + 1] = Append(w[n], n + 1) \/ w[n + 1] = w[n]
      BY <3>2, Zenon DEF KeptNext
    <3>4. n + 1 \in Nat /\ Append(w[n], n + 1) \in Seq(Nat)
      BY <3>1, AppendProperties
    <3> QED BY <3>1, <3>3, <3>4
  <2> HIDE DEF S
  <2>3. \A n \in 0 .. Len(ids) : n \in S
    BY <2>1, <2>2, BoundedInduction
  <2> QED BY <2>3 DEF S
<1> QED BY <1>4, <1>5, <1>6

Entry == {"coll", "data"} \X (STRING \cup Nat)

\* Sequences written as functions.
Entries(s, n) == DOMAIN s = 1 .. n /\ s = [k \in 1 .. n |-> s[k]]

LEMMA FunctionIsSeq ==
  ASSUME NEW n \in Nat, NEW X, NEW s \in [1 .. n -> X]
  PROVE  s \in Seq(X) /\ Len(s) = n /\ (n = 0 => s = << >>)
OBVIOUS

LEMMA AppendIs ==
  ASSUME NEW n \in Nat, NEW s, Entries(s, n), NEW t, NEW x, Entries(t, n + 1),
         \A k \in 1 .. n : t[k] = s[k], t[n + 1] = x
  PROVE  t = Append(s, x)
<1> DEFINE X == {s[k] : k \in 1 .. n} \cup {x}
<1>1. s \in [1 .. n -> X] /\ x \in X
  BY DEF Entries
<1>2. s \in Seq(X) /\ Len(s) = n
  BY <1>1
<1> HIDE DEF X
<1>3. /\ Append(s, x) \in Seq(X) /\ Len(Append(s, x)) = n + 1
      /\ \A k \in 1 .. n : Append(s, x)[k] = s[k]
      /\ Append(s, x)[n + 1] = x
  BY <1>1, <1>2, AppendProperties
<1>4. Append(s, x) = [k \in 1 .. n + 1 |-> Append(s, x)[k]]
  <2>1. Append(s, x) \in [1 .. n + 1 -> X]
    BY <1>3, LenProperties, Zenon
  <2> QED BY <2>1, Zenon
<1>5. \A k \in 1 .. n + 1 : t[k] = Append(s, x)[k]
  <2>1. \A k \in 1 .. n + 1 : k \in 1 .. n \/ k = n + 1
    OBVIOUS
  <2> QED BY <1>3, <2>1, Zenon
<1> QED BY <1>4, <1>5, Zenon DEF Entries

\* The entries for the data objects: of the first d replicas.
LEMMA DataGivenNext ==
  ASSUME NEW cat, Len(cat.replicas) \in Nat, NEW m, NEW d \in 1 .. Len(cat.replicas)
  PROVE  DataGiven(cat, m, d) =
           IF NewId(cat.replicas, All(m), d) THEN Append(DataGiven(cat, m, d - 1), <<"data", d>>)
           ELSE DataGiven(cat, m, d - 1)
<1> DEFINE f == KeptUpTo(cat.replicas, All(m))
<1>1. f[d] = KeptNext(cat.replicas, All(m), f[d - 1], d) /\ f[d - 1] \in Seq(Nat)
  BY KeptFacts
<1> HIDE DEF f
<1>2. CASE NewId(cat.replicas, All(m), d)
  <2>1. f[d] = Append(f[d - 1], d)
    BY <1>1, <1>2, Zenon DEF KeptNext
  <2>2. /\ Len(f[d]) = Len(f[d - 1]) + 1 /\ f[d][Len(f[d - 1]) + 1] = d
        /\ \A k \in 1 .. Len(f[d - 1]) : f[d][k] = f[d - 1][k]
    BY <1>1, <2>1
  <2> DEFINE n == Len(f[d - 1])
             t == [k \in 1 .. Len(f[d]) |-> <<"data", f[d][k]>>]
             u == [k \in 1 .. n |-> <<"data", f[d - 1][k]>>]
  <2>4. n \in Nat /\ Len(f[d]) = n + 1
    BY <1>1, <2>2
  <2>5. Entries(u, n) /\ Entries(t, n + 1)
    BY <2>4 DEF Entries
  <2>6. (\A k \in 1 .. n : t[k] = u[k]) /\ t[n + 1] = <<"data", d>>
    <3>1. 1 .. n \subseteq 1 .. Len(f[d]) /\ n + 1 \in 1 .. Len(f[d])
      BY <2>4
    <3>2. \A k \in 1 .. n : f[d][k] = f[d - 1][k]
      BY <2>2
    <3> HIDE DEF n
    <3>3. \A k \in 1 .. n : t[k] = <<"data", f[d][k]>> /\ u[k] = <<"data", f[d - 1][k]>>
      BY <3>1, Zenon
    <3>4. t[n + 1] = <<"data", f[d][n + 1]>>
      BY <3>1, Zenon
    <3>5. f[d][n + 1] = d
      BY <2>2 DEF n
    <3> QED BY <3>2, <3>3, <3>4, <3>5, Zenon
  <2>3. t = Append(u, <<"data", d>>)
    <3> HIDE DEF n, t, u
    <3> QED BY <2>4, <2>5, <2>6, AppendIs
  <2> QED BY <1>2, <2>3 DEF DataGiven, f
<1>3. CASE ~NewId(cat.replicas, All(m), d)
  <2>1. f[d] = f[d - 1]
    BY <1>1, <1>3, Zenon DEF KeptNext
  <2> QED BY <1>3, <2>1 DEF DataGiven, f
<1> QED BY <1>2, <1>3

LEMMA DataGivenFacts ==
  ASSUME NEW cat \in Catalogs, NEW m
  PROVE  /\ Len(cat.replicas) \in Nat /\ DataGiven(cat, m, 0) = << >>
         /\ \A d \in 0 .. Len(cat.replicas) : DataGiven(cat, m, d) \in Seq(Entry)
<1>1. Len(cat.replicas) \in Nat
  BY DEF Catalogs
<1> DEFINE f == KeptUpTo(cat.replicas, All(m))
<1>2. f[0] = << >> /\ \A d \in 0 .. Len(cat.replicas) : f[d] \in Seq(Nat)
  BY <1>1, KeptFacts
<1> HIDE DEF f
<1>3. DataGiven(cat, m, 0) = << >>
  BY <1>2 DEF DataGiven, f
<1>4. ASSUME NEW d \in 0 .. Len(cat.replicas)
      PROVE  DataGiven(cat, m, d) \in Seq(Entry)
  <2>1. f[d] \in Seq(Nat) /\ Len(f[d]) \in Nat
    BY <1>2
  <2>2. \A k \in 1 .. Len(f[d]) : <<"data", f[d][k]>> \in Entry
    BY <2>1 DEF Entry
  <2>3. [k \in 1 .. Len(f[d]) |-> <<"data", f[d][k]>>] \in [1 .. Len(f[d]) -> Entry]
    BY <2>2
  <2>4. [k \in 1 .. Len(f[d]) |-> <<"data", f[d][k]>>] \in Seq(Entry)
    BY <2>1, <2>3, FunctionIsSeq
  <2> QED BY <2>4 DEF DataGiven, f
<1> QED BY <1>1, <1>3, <1>4

\* Replicas of the object before them add no entry.
LEMMA SameObject ==
  ASSUME NEW cat \in Catalogs, NEW m, ~All(m),
         NEW d \in 1 .. Len(cat.replicas), NEW e \in d .. Len(cat.replicas),
         \A i \in d .. e : cat.replicas[i] = cat.replicas[d]
  PROVE  DataGiven(cat, m, e) = DataGiven(cat, m, d)
<1>1. Len(cat.replicas) \in Nat
  BY DataGivenFacts
<1> DEFINE S == {n \in Nat : DataGiven(cat, m, d + n) = DataGiven(cat, m, d)}
<1>2. 0 \in S
  OBVIOUS
<1>3. ASSUME NEW n \in 0 .. (e - d) - 1, n \in S
      PROVE  n + 1 \in S
  <2>1. /\ d + (n + 1) \in 1 .. Len(cat.replicas) /\ (d + (n + 1)) - 1 = d + n
        /\ d + (n + 1) \in d .. e /\ d + n \in d .. e /\ d + (n + 1) # 1
    BY <1>1
  <2>2. ~NewId(cat.replicas, All(m), d + (n + 1))
    BY <2>1 DEF NewId
  <2>3. DataGiven(cat, m, d + (n + 1)) = DataGiven(cat, m, d + n)
    BY <1>1, <2>1, <2>2, DataGivenNext
  <2> QED BY <1>3, <2>3
<1> HIDE DEF S
<1>4. e - d \in Nat
  BY <1>1
<1>5. e - d \in S
  <2>1. \A n \in 0 .. (e - d) - 1 : n \in S => n + 1 \in S
    BY <1>3
  <2>2. \A n \in 0 .. e - d : n \in S
    BY <1>2, <1>4, <2>1, BoundedInduction
  <2> QED BY <1>4, <2>2
<1>6. d + (e - d) = e
  BY <1>1
<1> QED BY <1>5, <1>6 DEF S

\* What is given first stays first.
Begins(s, t) == Len(s) <= Len(t) /\ \A k \in 1 .. Len(s) : s[k] = t[k]
LEMMA DataGivenGrows ==
  ASSUME NEW cat \in Catalogs, NEW m,
         NEW d \in 0 .. Len(cat.replicas), NEW e \in d .. Len(cat.replicas)
  PROVE  Begins(DataGiven(cat, m, d), DataGiven(cat, m, e))
<1>1. Len(cat.replicas) \in Nat
  BY DataGivenFacts
<1> DEFINE S == {n \in Nat : Begins(DataGiven(cat, m, d), DataGiven(cat, m, d + n))}
<1>2. 0 \in S
  BY DataGivenFacts DEF Begins
<1>3. ASSUME NEW n \in 0 .. (e - d) - 1, n \in S
      PROVE  n + 1 \in S
  <2>1. /\ d + (n + 1) \in 1 .. Len(cat.replicas) /\ (d + (n + 1)) - 1 = d + n
        /\ d + n \in 0 .. Len(cat.replicas)
    BY <1>1
  <2> DEFINE x == DataGiven(cat, m, d)
             y == DataGiven(cat, m, d + n)
             z == DataGiven(cat, m, d + (n + 1))
             a == <<"data", d + (n + 1)>>
  <2>2. x \in Seq(Entry) /\ y \in Seq(Entry) /\ a \in Entry
    <3>1. d + (n + 1) \in Nat
      BY <1>1
    <3>2. a \in Entry
      BY <3>1 DEF Entry
    <3> HIDE DEF a
    <3> QED BY <2>1, <3>2, DataGivenFacts
  <2>3. z = Append(y, a) \/ z = y
    BY <1>1, <2>1, DataGivenNext
  <2>4. Begins(x, y)
    BY <1>3
  <2>5. Begins(x, z)
    <3> HIDE DEF x, y, z, a
    <3> QED BY <2>2, <2>3, <2>4 DEF Begins
  <2> QED BY <2>5
<1> HIDE DEF S
<1>4. e - d \in Nat
  BY <1>1
<1>5. e - d \in S
  <2>1. \A n \in 0 .. (e - d) - 1 : n \in S => n + 1 \in S
    BY <1>3
  <2>2. \A n \in 0 .. e - d : n \in S
    BY <1>2, <1>4, <2>1, BoundedInduction
  <2> QED BY <1>4, <2>2
<1>6. d + (e - d) = e
  BY <1>1
<1> QED BY <1>5, <1>6 DEF S

LEMMA CollsGivenFacts ==
  ASSUME NEW cat \in Catalogs, NEW lost \in Nat, NEW c \in lost .. Len(cat.colls)
  PROVE  /\ CollsGiven(cat, lost, c) \in Seq(Entry)
         /\ Len(CollsGiven(cat, lost, c)) = c - lost
         /\ \A k \in 1 .. c - lost :
              CollsGiven(cat, lost, c)[k] = <<"coll", cat.colls[lost + k].name>>
         /\ c = lost => CollsGiven(cat, lost, c) = << >>
<1>1. cat.colls \in Seq([name : STRING, type : STRING]) /\ Len(cat.colls) \in Nat
  BY DEF Catalogs
<1>2. c - lost \in Nat
  BY <1>1
<1>3. ASSUME NEW k \in 1 .. c - lost
      PROVE  <<"coll", cat.colls[lost + k].name>> \in Entry
  <2>1. lost + k \in 1 .. Len(cat.colls)
    BY <1>1
  <2>2. cat.colls[lost + k] \in [name : STRING, type : STRING]
    BY <1>1, <2>1, ElementOfSeq
  <2> QED BY <2>2 DEF Entry
<1>4. CollsGiven(cat, lost, c) \in [1 .. c - lost -> Entry]
  BY <1>3 DEF CollsGiven
<1>5. \A k \in 1 .. c - lost :
        CollsGiven(cat, lost, c)[k] = <<"coll", cat.colls[lost + k].name>>
  BY DEF CollsGiven
<1>6. c = lost => c - lost = 0
  BY <1>1
<1> QED BY <1>2, <1>4, <1>5, <1>6, FunctionIsSeq

LEMMA CollsGivenNext ==
  ASSUME NEW cat \in Catalogs, NEW lost \in Nat, NEW c \in lost .. Len(cat.colls),
         c < Len(cat.colls)
  PROVE  CollsGiven(cat, lost, c + 1) =
           Append(CollsGiven(cat, lost, c), <<"coll", cat.colls[c + 1].name>>)
<1> DEFINE s == CollsGiven(cat, lost, c)
           t == CollsGiven(cat, lost, c + 1)
           n == c - lost
           x == <<"coll", cat.colls[c + 1].name>>
<1>1. Len(cat.colls) \in Nat
  BY DEF Catalogs
<1>2. n \in Nat /\ (c + 1) - lost = n + 1 /\ lost + (n + 1) = c + 1
  BY <1>1
<1>3. Entries(s, n) /\ Entries(t, n + 1)
  BY <1>2 DEF Entries, CollsGiven
<1>4. \A k \in 1 .. n : t[k] = s[k]
  <2>1. \A k \in 1 .. n : k \in 1 .. (c + 1) - lost
    BY <1>2
  <2> QED BY <2>1 DEF CollsGiven
<1>5. t[n + 1] = x
  <2>1. n + 1 \in 1 .. (c + 1) - lost
    BY <1>2
  <2> QED BY <1>2, <2>1 DEF CollsGiven
<1> HIDE DEF s, t, n, x
<1>6. t = Append(s, x)
  BY <1>2, <1>3, <1>4, <1>5, AppendIs
<1> QED BY <1>6 DEF s, t, x

-----------------------------------------------------------------------------
(* Pages.                                                                  *)

Lists == {"colls", "data"}

\* r is h but for the page of one list and the place in it.
Beside(h, r, what) ==
  /\ r \in Handles /\ r.state = h.state /\ r.prevdataId = h.prevdataId
  /\ \A w \in Lists \ {what} : r[w] = h[w]

LEMMA Replies ==
  ASSUME catalog \in Catalogs
  PROVE  /\ RepliesFor("colls") = catalog.colls /\ RepliesFor("data") = DataRows(catalog, mode)
         /\ catalog.colls \in Seq(Rows) /\ DataRows(catalog, mode) \in Seq(Rows)
         /\ Len(DataRows(catalog, mode)) = Len(catalog.replicas)
<1>1. RepliesFor("colls") = catalog.colls
  BY Zenon DEF RepliesFor
<1>2. /\ catalog.colls \in Seq([name : STRING, type : STRING])
      /\ catalog.replicas \in Seq(Nat \ {0}) /\ Len(catalog.replicas) \in Nat
      /\ DOMAIN catalog.replicas = 1 .. Len(catalog.replicas)
  BY DEF Catalogs
<1>3. RepliesFor("data") = DataRows(catalog, mode)
  BY <1>2 DEF RepliesFor, DataRows, Ids
<1>4. catalog.colls \in Seq(Rows)
  <2>1. [name : STRING, type : STRING] \subseteq Rows
    BY DEF Rows
  <2> QED BY <1>2, <2>1, SeqMonotonic, Zenon
<1>5. \A i \in 1 .. Len(catalog.replicas) : [id |-> Ids(catalog, mode, i), row |-> i] \in Rows
  BY <1>2, ElementOfSeq DEF Ids, Rows
<1>6. DataRows(catalog, mode) \in [1 .. Len(catalog.replicas) -> Rows]
  BY <1>5 DEF DataRows
<1> QED BY <1>1, <1>2, <1>3, <1>4, <1>6, FunctionIsSeq

LEMMA NoResultFacts == NoResult \in Results /\ Len(NoResult.rows) = 0 /\ NoResult.continueInx = 0
BY DEF NoResult, Results

LEMMA PageFacts ==
  ASSUME NEW list \in Seq(Rows), NEW s \in Nat, s < Len(list), StartsPage(s)
  PROVE  IsPage(list, Page(list, s), s) /\ Page(list, s) \in Results
<1> DEFINE to == Lesser(s + MaxRows, Len(list))
<1>1. MaxRows \in Nat \ {0} /\ Len(list) \in Nat
  BY PagesAssumption
<1>2. to \in s + 1 .. Len(list) /\ to - s = Lesser(MaxRows, Len(list) - s)
  BY <1>1 DEF Lesser
<1>3. \A i \in s + 1 .. to : list[i] \in Rows
  BY <1>2, ElementOfSeq
<1>4. /\ SubSeq(list, s + 1, to) \in Seq(Rows) /\ Len(SubSeq(list, s + 1, to)) = to - s
      /\ \A i \in 1 .. to - s : SubSeq(list, s + 1, to)[i] = list[s + i]
  BY <1>1, <1>2, <1>3
<1>5. Page(list, s) = [rows |-> SubSeq(list, s + 1, to),
                       continueInx |-> IF to < Len(list) THEN to ELSE 0]
  BY DEF Page
<1>6. (IF to < Len(list) THEN to ELSE 0) = (IF s + MaxRows < Len(list) THEN s + MaxRows ELSE 0)
  BY <1>1 DEF Lesser
<1>7. (IF to < Len(list) THEN to ELSE 0) \in Nat
  BY <1>2
<1> HIDE DEF to
<1>8. Page(list, s) \in Results
  <2> DEFINE x == SubSeq(list, s + 1, to)
             y == IF to < Len(list) THEN to ELSE 0
  <2> HIDE DEF x, y
  <2>1. [rows |-> x, continueInx |-> y] \in Results
    BY <1>4, <1>7 DEF Results, x, y
  <2> QED BY <1>5, <2>1 DEF x, y
<1>9. IsPage(list, Page(list, s), s)
  BY <1>2, <1>4, <1>5, <1>6 DEF IsPage
<1> QED BY <1>8, <1>9

\* The page after a page that is not the last.
LEMMA AfterPage ==
  ASSUME NEW list \in Seq(Rows), NEW r \in Results, NEW s \in Nat, IsPage(list, r, s),
         r.continueInx # 0
  PROVE  /\ r.continueInx = s + Len(r.rows) /\ Len(r.rows) = MaxRows
         /\ r.continueInx \in Nat /\ r.continueInx < Len(list)
         /\ StartsPage(r.continueInx)
<1>1. MaxRows \in Nat \ {0} /\ Len(list) \in Nat
  BY PagesAssumption
<1>2. r.continueInx = s + MaxRows /\ s + MaxRows < Len(list) /\ Len(r.rows) = MaxRows
  BY <1>1 DEF IsPage, Lesser
<1>3. PICK p \in 0 .. s : s = p * MaxRows
  BY DEF IsPage, StartsPage
<1>4. s + MaxRows = (p + 1) * MaxRows /\ p + 1 \in 0 .. s + MaxRows
  BY <1>1, <1>3
<1>5. StartsPage(s + MaxRows)
  BY <1>4, Zenon DEF StartsPage
<1>6. s + MaxRows \in Nat
  BY <1>1
<1> QED BY <1>2, <1>5, <1>6, Zenon

\* ... and the last one.
LEMMA LastPage ==
  ASSUME NEW list \in Seq(Rows), NEW r \in Results, NEW s \in Nat, IsPage(list, r, s),
         r.continueInx = 0
  PROVE  s + Len(r.rows) = Len(list)
<1>1. MaxRows \in Nat \ {0} /\ Len(list) \in Nat
  BY PagesAssumption
<1> QED BY <1>1 DEF IsPage, Lesser

\* NextPage: a row is there, or the list is at its end, or the page after this
\* one is refused.
LEMMA NextPageFacts ==
  ASSUME catalog \in Catalogs, mode \in Modes, NEW what \in Lists, NEW h \in Handles,
         NEW c \in Nat, Paged(RepliesFor(what), h[what], h.rowInx, c), NEW fails \in BOOLEAN,
         NEW r, r = NextPage(h, what, fails)
  PROVE  \/ /\ r.status = Ok /\ c < Len(RepliesFor(what)) /\ Beside(h, r.h, what)
            /\ Paged(RepliesFor(what), r.h[what], r.h.rowInx, c)
            /\ r.h.rowInx < Len(r.h[what].rows) /\ (r.h = h \/ r.h.rowInx = 0)
         \/ /\ r.status = CAT_NO_ROWS_FOUND /\ c = Len(RepliesFor(what)) /\ Beside(h, r.h, what)
         \/ /\ r.status = Error /\ c < Len(RepliesFor(what)) /\ Beside(h, r.h, what)
            /\ \/ fails
               \/ mode.specColl = "LINKED_COLL" /\ Len(RepliesFor(what)) > MaxRows
<1> DEFINE list == RepliesFor(what)
           p == h[what]
           s == c - h.rowInx
           next == p.continueInx
           cleared == [h EXCEPT ![what] = NoResult]
           turned == [cleared EXCEPT !.rowInx = 0]
           shown == [cleared EXCEPT !.rowInx = 0, ![what] = Page(list, next)]
<1>1. list \in Seq(Rows) /\ Len(list) \in Nat
  BY Replies DEF Lists
<1>2. p \in Results /\ next \in Nat /\ Len(p.rows) \in Nat /\ h.rowInx \in Nat
  BY DEF Lists, Handles, Results
<1>3. s \in Nat /\ IsPage(list, p, s) /\ h.rowInx <= Len(p.rows) /\ c = s + h.rowInx
  BY <1>2 DEF Paged
<1>4. Beside(h, h, what) /\ Beside(h, cleared, what) /\ Beside(h, turned, what)
  BY NoResultFacts DEF Beside, Handles, Lists
<1>5. ASSUME Page(list, next) \in Results
      PROVE  /\ Beside(h, shown, what) /\ shown.rowInx = 0 /\ shown[what] = Page(list, next)
  BY <1>5, NoResultFacts DEF Beside, Handles, Lists
<1>6. OpenedBy # ContinuedBy <=> mode.specColl = "LINKED_COLL"
  BY DEF OpenedBy, ContinuedBy, Modes
<1>7. r = IF h.rowInx < Len(p.rows) THEN [h |-> h, status |-> Ok]
          ELSE IF next = 0 THEN [h |-> cleared, status |-> CAT_NO_ROWS_FOUND]
          ELSE IF fails \/ OpenedBy # ContinuedBy THEN [h |-> turned, status |-> Error]
          ELSE [h |-> shown, status |-> Ok]
  BY Zenon DEF NextPage
<1>8. MaxRows \in Nat \ {0}
  BY PagesAssumption
<1> DEFINE linked == mode.specColl = "LINKED_COLL"
<1> HIDE DEF list, p, s, next, cleared, turned, shown
<1>9. CASE h.rowInx < Len(p.rows)
  <2>1. r.h = h /\ r.status = Ok
    BY <1>7, <1>9
  <2>2. c < Len(list)
    BY <1>1, <1>2, <1>3, <1>8, <1>9 DEF IsPage, Lesser
  <2> QED BY <1>4, <1>9, <2>1, <2>2 DEF p, list
<1>10. CASE h.rowInx >= Len(p.rows) /\ next = 0
  <2>1. r.h = cleared /\ r.status = CAT_NO_ROWS_FOUND
    BY <1>2, <1>7, <1>10
  <2>2. c = Len(list)
    BY <1>1, <1>2, <1>3, <1>10, LastPage DEF next
  <2> QED BY <1>4, <2>1, <2>2 DEF list
<1>11. CASE h.rowInx >= Len(p.rows) /\ next # 0
  <2>1. next = c /\ c < Len(list) /\ StartsPage(c) /\ MaxRows < Len(list)
    <3>1. /\ next = s + Len(p.rows) /\ Len(p.rows) = MaxRows
          /\ next < Len(list) /\ StartsPage(next)
      BY <1>1, <1>2, <1>3, <1>11, AfterPage, Zenon DEF next
    <3> QED BY <1>1, <1>2, <1>3, <1>8, <1>11, <3>1
  <2>2. CASE fails \/ linked
    <3>1. r.h = turned /\ r.status = Error
      BY <1>2, <1>6, <1>7, <1>11, <2>2
    <3> QED BY <1>4, <2>1, <2>2, <3>1 DEF list
  <2>3. CASE ~(fails \/ linked)
    <3>1. r.h = shown /\ r.status = Ok
      BY <1>2, <1>6, <1>7, <1>11, <2>3
    <3>2. IsPage(list, Page(list, c), c) /\ Page(list, c) \in Results
      BY <1>1, <2>1, PageFacts
    <3>3. Beside(h, shown, what) /\ shown.rowInx = 0 /\ shown[what] = Page(list, c)
      BY <1>5, <2>1, <3>2
    <3>4. 0 < Len(Page(list, c).rows)
      BY <1>1, <1>8, <2>1, <3>2 DEF IsPage, Lesser
    <3>5. Paged(list, Page(list, c), 0, c)
      <4>1. c - 0 = c /\ c >= 0 /\ 0 <= Len(Page(list, c).rows)
        BY <3>4
      <4> QED BY <3>2, <4>1 DEF Paged
    <3> QED BY <2>1, <3>1, <3>3, <3>4, <3>5 DEF list
  <2> QED BY <2>2, <2>3
<1>12. h.rowInx < Len(p.rows) \/ h.rowInx >= Len(p.rows)
  BY <1>2
<1> QED BY <1>9, <1>10, <1>11, <1>12, Zenon

\* A list of which there is no page.
LEMMA NextPageOfNone ==
  ASSUME NEW what \in Lists, NEW h \in Handles, h[what] = NoResult, NEW fails \in BOOLEAN,
         NEW r, r = NextPage(h, what, fails)
  PROVE  r.status = CAT_NO_ROWS_FOUND /\ Beside(h, r.h, what)
<1>1. h.rowInx >= Len(h[what].rows) /\ h[what].continueInx = 0 /\ h.rowInx \in Nat
  BY NoResultFacts DEF Handles
<1>2. r = [h |-> [h EXCEPT ![what] = NoResult], status |-> CAT_NO_ROWS_FOUND]
  <2>1. ~(h.rowInx < Len(h[what].rows))
    BY <1>1, NoResultFacts
  <2> QED BY <1>1, <2>1, Zenon DEF NextPage
<1>3. Beside(h, [h EXCEPT ![what] = NoResult], what)
  BY NoResultFacts DEF Beside, Handles, Lists
<1> QED BY <1>2, <1>3

-----------------------------------------------------------------------------
(* One entry of one list.                                                  *)

LEMMA NextColl ==
  ASSUME catalog \in Catalogs, mode \in Modes, NEW h \in Handles, NEW c \in Nat,
         CollsAt(catalog, h, c), NEW fails, NEW r, r = getNextCollMetaInfo(h, fails)
  PROVE  /\ Beside(h, r.h, "colls")
         /\ \/ /\ c < Len(catalog.colls) /\ CollsAt(catalog, r.h, c + 1)
               /\ r.status = IF catalog.colls[c + 1].type = "unknown" THEN Error ELSE Ok
               /\ r.entry = <<"coll", catalog.colls[c + 1].name>>
            \/ r.status = CAT_NO_ROWS_FOUND /\ c = Len(catalog.colls)
            \/ /\ r.status = Error
               /\ \/ "collMore" \in fails
                  \/ mode.specColl = "LINKED_COLL" /\ Len(catalog.colls) > MaxRows
<1> DEFINE page == NextPage(h, "colls", "collMore" \in fails)
           next == [page.h EXCEPT !.rowInx = @ + 1]
           row == page.h.colls.rows[page.h.rowInx + 1]
<1>1. r = IF page.status # Ok THEN [h |-> page.h, status |-> page.status, entry |-> << >>]
          ELSE [h |-> next, status |-> IF row.type = "unknown" THEN Error ELSE Ok,
                entry |-> <<"coll", row.name>>]
  BY Zenon DEF getNextCollMetaInfo
<1>2. \/ /\ page.status = Ok /\ c < Len(catalog.colls) /\ Beside(h, page.h, "colls")
         /\ Paged(catalog.colls, page.h.colls, page.h.rowInx, c)
         /\ page.h.rowInx < Len(page.h.colls.rows)
      \/ /\ page.status = CAT_NO_ROWS_FOUND /\ c = Len(catalog.colls)
         /\ Beside(h, page.h, "colls")
      \/ /\ page.status = Error /\ Beside(h, page.h, "colls")
         /\ \/ "collMore" \in fails
            \/ mode.specColl = "LINKED_COLL" /\ Len(catalog.colls) > MaxRows
  <2>1. Paged(RepliesFor("colls"), h["colls"], h.rowInx, c)
    BY Replies DEF CollsAt
  <2>2. "colls" \in Lists /\ ("collMore" \in fails) \in BOOLEAN
    BY DEF Lists
  <2> HIDE DEF page
  <2>3. RepliesFor("colls") = catalog.colls
    BY Replies
  <2> QED BY <2>1, <2>2, <2>3, NextPageFacts DEF page
<1> HIDE DEF page
<1>3. CASE page.status # Ok
  <2>1. r.h = page.h /\ r.status = page.status
    BY <1>1, <1>3
  <2> QED BY <1>2, <1>3, <2>1
<1>4. CASE page.status = Ok
  <2>1. /\ c < Len(catalog.colls) /\ Beside(h, page.h, "colls")
        /\ Paged(catalog.colls, page.h.colls, page.h.rowInx, c)
        /\ page.h.rowInx < Len(page.h.colls.rows)
    BY <1>2, <1>4 DEF Ok, Error, CAT_NO_ROWS_FOUND
  <2>2. page.h \in Handles /\ page.h.rowInx \in Nat /\ Len(page.h.colls.rows) \in Nat
    BY <2>1 DEF Beside, Handles, Results
  <2>3. Beside(h, next, "colls") /\ next.rowInx = page.h.rowInx + 1 /\ next.colls = page.h.colls
    BY <2>1, <2>2 DEF Beside, Handles, Lists
  <2>4. row = catalog.colls[c + 1]
    <3> DEFINE k == page.h.rowInx
    <3>1. k + 1 \in 1 .. Len(page.h.colls.rows) /\ (c - k) + (k + 1) = c + 1
      BY <2>1, <2>2
    <3>2. \A i \in 1 .. Len(page.h.colls.rows) : page.h.colls.rows[i] = catalog.colls[(c - k) + i]
      BY <2>1, Zenon DEF Paged, IsPage
    <3> HIDE DEF k
    <3>3. page.h.colls.rows[k + 1] = catalog.colls[(c - k) + (k + 1)]
      BY <3>1, <3>2, Zenon
    <3> QED BY <3>1, <3>3 DEF k
  <2>5. Paged(catalog.colls, next.colls, next.rowInx, c + 1)
    <3>1. c + 1 - (page.h.rowInx + 1) = c - page.h.rowInx
      BY <2>2
    <3> QED BY <2>1, <2>2, <2>3, <3>1 DEF Paged
  <2> HIDE DEF next, row
  <2>6. /\ r.h = next /\ r.status = IF row.type = "unknown" THEN Error ELSE Ok
        /\ r.entry = <<"coll", row.name>>
    BY <1>1, <1>4
  <2> QED BY <2>1, <2>3, <2>4, <2>5, <2>6 DEF CollsAt
<1> QED BY <1>3, <1>4

LEMMA LeastIs ==
  ASSUME NEW S \in SUBSET Nat, S # {}
  PROVE  LET i == CHOOSE i \in S : \A j \in S : i <= j IN i \in S /\ \A j \in S : i <= j
BY Least

\* The rows of a page of replicas, from the one after the row k.
PageOfReplicas(rows, s) ==
  /\ rows \in Seq(Rows) /\ s + Len(rows) <= Len(catalog.replicas)
  /\ \A i \in 1 .. Len(rows) : rows[i] = [id |-> Ids(catalog, mode, s + i), row |-> s + i]

LEMMA PageOfReplicasFacts ==
  ASSUME catalog \in Catalogs, mode \in Modes, NEW h \in Handles, NEW d \in Nat,
         Paged(DataRows(catalog, mode), h.data, h.rowInx, d)
  PROVE  /\ PageOfReplicas(h.data.rows, d - h.rowInx) /\ d - h.rowInx \in Nat
         /\ h.rowInx <= Len(h.data.rows) /\ h.rowInx \in Nat
<1> DEFINE list == DataRows(catalog, mode)
           rows == h.data.rows
           s == d - h.rowInx
<1>1. /\ h.rowInx \in Nat /\ rows \in Seq(Rows) /\ Len(rows) \in Nat
      /\ Len(list) = Len(catalog.replicas) /\ Len(list) \in Nat
  BY Replies DEF Handles, Results, Catalogs
<1>2. /\ s \in Nat /\ h.rowInx <= Len(rows) /\ s < Len(list)
      /\ Len(rows) = Lesser(MaxRows, Len(list) - s)
      /\ \A i \in 1 .. Len(rows) : rows[i] = list[s + i]
  <2>1. s >= 0 /\ IsPage(list, h.data, s) /\ h.rowInx <= Len(rows)
    BY Zenon DEF Paged
  <2>2. /\ s < Len(list) /\ Len(rows) = Lesser(MaxRows, Len(list) - s)
        /\ \A i \in 1 .. Len(rows) : rows[i] = list[s + i]
    BY <2>1, Zenon DEF IsPage
  <2>3. s \in Nat
    BY <1>1, <2>1
  <2> QED BY <2>1, <2>2, <2>3, Zenon
<1>3. s + Len(rows) <= Len(catalog.replicas)
  BY <1>1, <1>2, PagesAssumption DEF Lesser
<1>4. ASSUME NEW i \in 1 .. Len(rows)
      PROVE  rows[i] = [id |-> Ids(catalog, mode, s + i), row |-> s + i]
  <2>1. s + i \in 1 .. Len(catalog.replicas)
    BY <1>1, <1>2, <1>3
  <2>2. rows[i] = list[s + i]
    BY <1>2
  <2> QED BY <2>1, <2>2 DEF DataRows
<1> QED BY <1>1, <1>2, <1>3, <1>4 DEF PageOfReplicas

\* Replicas are trimmed to the first of an object ...
LEMMA TakeObject ==
  ASSUME catalog \in Catalogs, mode \in Modes, ~All(mode),
         NEW h \in Handles, NEW rows, NEW s \in Nat, PageOfReplicas(rows, s),
         h.rowInx < Len(rows),
         h.prevdataId = IF s + h.rowInx = 0 THEN -1 ELSE catalog.replicas[s + h.rowInx],
         NEW i, i = NextObject(h, rows), i # 0
  PROVE  /\ i \in 1 .. Len(rows) /\ i > h.rowInx
         /\ DataGiven(catalog, mode, s + i) =
              Append(DataGiven(catalog, mode, s + h.rowInx), <<"data", s + i>>)
<1> DEFINE k == h.rowInx
           d == s + k
           ids == catalog.replicas
           others == {j \in k + 1 .. Len(rows) : rows[j].id # h.prevdataId}
<1>1. k \in Nat /\ Len(rows) \in Nat /\ Len(ids) \in Nat
  BY DEF Handles, PageOfReplicas, Catalogs
<1>2. \A j \in 1 .. Len(rows) : rows[j].id = ids[s + j] /\ s + j \in 1 .. Len(ids)
  <2>1. ASSUME NEW j \in 1 .. Len(rows)
        PROVE  rows[j].id = ids[s + j] /\ s + j \in 1 .. Len(ids)
    <3>1. Ids(catalog, mode, s + j) = ids[s + j]
      BY DEF Ids, All
    <3>2. rows[j] = [id |-> Ids(catalog, mode, s + j), row |-> s + j]
      BY Zenon DEF PageOfReplicas
    <3>3. s + Len(rows) <= Len(ids)
      BY DEF PageOfReplicas
    <3> HIDE DEF ids
    <3> QED BY <1>1, <3>1, <3>2, <3>3
  <2> QED BY <2>1
<1>3. \A j \in 1 .. Len(ids) : ids[j] \in Nat \ {0}
  BY ElementOfSeq DEF Catalogs
<1>4. others # {} /\ i = CHOOSE x \in others : \A j \in others : x <= j
  BY Zenon DEF NextObject
<1>5. i \in others /\ \A j \in others : i <= j
  <2>1. others \in SUBSET Nat
    BY <1>1
  <2> HIDE DEF others
  <2> QED BY <1>4, <2>1, LeastIs
<1>6. i \in k + 1 .. Len(rows) /\ i \in 1 .. Len(rows) /\ ids[s + i] # h.prevdataId
  BY <1>1, <1>2, <1>5
<1>7. \A j \in k + 1 .. i - 1 : ids[s + j] = h.prevdataId
  <2>1. ASSUME NEW j \in k + 1 .. i - 1
        PROVE  ids[s + j] = h.prevdataId
    <3>1. j \in k + 1 .. Len(rows) /\ ~(i <= j) /\ j \in 1 .. Len(rows)
      BY <1>1, <1>6
    <3>2. j \notin others
      BY <1>5, <3>1
    <3> HIDE DEF ids
    <3> QED BY <1>2, <3>1, <3>2
  <2> QED BY <2>1
<1> HIDE DEF others, ids, k
<1>8. d \in Nat /\ s + i \in 1 .. Len(ids) /\ (s + i) - 1 \in d .. Len(ids)
  BY <1>1, <1>2, <1>6
<1>9. DataGiven(catalog, mode, (s + i) - 1) = DataGiven(catalog, mode, d)
  <2>1. CASE d = 0
    <3>1. s = 0 /\ k = 0 /\ h.prevdataId = -1
      BY <1>1, <2>1 DEF k
    <3>2. i = 1
      <4>1. SUFFICES ASSUME i # 1 PROVE FALSE
        OBVIOUS
      <4>2. 1 \in k + 1 .. i - 1 /\ s + 1 = 1
        BY <1>6, <3>1, <4>1
      <4>3. ids[1] = -1
        BY <1>7, <3>1, <4>2
      <4>4. 1 \in 1 .. Len(ids)
        BY <1>1, <1>8
      <4> QED BY <1>3, <4>3, <4>4 DEF ids
    <3> QED BY <2>1, <3>1, <3>2
  <2>2. CASE d # 0
    <3>1. h.prevdataId = ids[d]
      BY <2>2 DEF ids, k
    <3>2. \A j \in d .. (s + i) - 1 : ids[j] = ids[d]
      <4>1. ASSUME NEW j \in d .. (s + i) - 1, j # d
            PROVE  ids[j] = ids[d]
        <5>1. j - s \in k + 1 .. i - 1 /\ s + (j - s) = j
          BY <1>1, <1>6, <4>1
        <5> QED BY <1>7, <3>1, <5>1
      <4> QED BY <4>1
    <3>3. d \in 1 .. Len(ids)
      BY <1>1, <1>8, <2>2
    <3> HIDE DEF d
    <3> QED BY <1>8, <3>2, <3>3, SameObject DEF ids
  <2> QED BY <2>1, <2>2
<1>10. NewId(ids, All(mode), s + i)
  <2>1. CASE s + i = 1
    BY <2>1 DEF NewId
  <2>2. CASE s + i # 1
    <3>1. ids[(s + i) - 1] = h.prevdataId
      <4>1. CASE i = k + 1
        <5>1. (s + i) - 1 = d /\ d # 0
          BY <1>1, <1>8, <2>2, <4>1
        <5> QED BY <5>1 DEF ids, k
      <4>2. CASE i # k + 1
        <5>1. i - 1 \in k + 1 .. i - 1 /\ s + (i - 1) = (s + i) - 1
          BY <1>1, <1>6, <4>2
        <5> QED BY <1>7, <5>1
      <4> QED BY <4>1, <4>2
    <3> QED BY <1>6, <3>1 DEF NewId
  <2> QED BY <2>1, <2>2
<1>11. DataGiven(catalog, mode, s + i) = Append(DataGiven(catalog, mode, d), <<"data", s + i>>)
  BY <1>1, <1>8, <1>9, <1>10, DataGivenNext DEF ids
<1>12. i > k
  BY <1>1, <1>6
<1> QED BY <1>6, <1>11, <1>12 DEF k

\* ... all those of the page that belong to it are passed over ...
Passed(rows, s, i, a) ==
  /\ a \in i .. Len(rows) /\ s + a \in 1 .. Len(catalog.replicas)
  /\ DataGiven(catalog, mode, s + a) = DataGiven(catalog, mode, s + i)
  /\ rows[i].id = catalog.replicas[s + a]
  /\ a < Len(rows) => catalog.replicas[(s + a) + 1] # catalog.replicas[s + a]
LEMMA PassObject ==
  ASSUME catalog \in Catalogs, mode \in Modes, ~All(mode),
         NEW rows, NEW s \in Nat, PageOfReplicas(rows, s), NEW i \in 1 .. Len(rows)
  PROVE  Passed(rows, s, i, AfterObject(rows, i))
<1> DEFINE a == AfterObject(rows, i)
           ids == catalog.replicas
           others == {j \in i + 1 .. Len(rows) : rows[j].id # rows[i].id}
           first == CHOOSE x \in others : \A j \in others : x <= j
<1>1. Len(rows) \in Nat /\ Len(ids) \in Nat /\ i \in Nat
  BY DEF PageOfReplicas, Catalogs
<1>2. \A j \in 1 .. Len(rows) : rows[j].id = ids[s + j] /\ s + j \in 1 .. Len(ids)
  <2>1. ASSUME NEW j \in 1 .. Len(rows)
        PROVE  rows[j].id = ids[s + j] /\ s + j \in 1 .. Len(ids)
    <3>1. Ids(catalog, mode, s + j) = ids[s + j]
      BY DEF Ids, All
    <3>2. rows[j] = [id |-> Ids(catalog, mode, s + j), row |-> s + j]
      BY Zenon DEF PageOfReplicas
    <3>3. s + Len(rows) <= Len(ids)
      BY DEF PageOfReplicas
    <3> HIDE DEF ids
    <3> QED BY <1>1, <3>1, <3>2, <3>3
  <2> QED BY <2>1
<1>3. a = IF others = {} THEN Len(rows) ELSE first - 1
  BY Zenon DEF AfterObject
<1> HIDE DEF a
<1>4. others # {} => first \in others /\ \A j \in others : first <= j
  <2>1. others \in SUBSET Nat
    BY <1>1
  <2> HIDE DEF others
  <2> QED BY <2>1, LeastIs
<1>5. /\ a \in i .. Len(rows)
      /\ \A j \in i + 1 .. a : j \notin others
      /\ a < Len(rows) => a + 1 \in others
  <2> HIDE DEF first
  <2>1. CASE others = {}
    BY <1>1, <1>3, <2>1
  <2>2. CASE others # {}
    <3>1. a = first - 1 /\ first \in i + 1 .. Len(rows)
      BY <1>3, <1>4, <2>2
    <3>2. \A j \in i + 1 .. a : ~(first <= j)
      BY <1>1, <3>1
    <3> QED BY <1>1, <1>4, <2>2, <3>1, <3>2
  <2> QED BY <2>1, <2>2
<1>6. \A j \in i .. a : ids[s + j] = ids[s + i]
  <2>1. ASSUME NEW j \in i .. a, j # i
        PROVE  ids[s + j] = ids[s + i]
    <3>1. j \in i + 1 .. a /\ j \in i + 1 .. Len(rows) /\ j \in 1 .. Len(rows)
      BY <1>1, <1>5, <2>1
    <3>2. rows[j].id = rows[i].id
      BY <1>5, <3>1
    <3> HIDE DEF ids, others, first
    <3> QED BY <1>2, <3>1, <3>2
  <2> QED BY <2>1
<1>7. a \in 1 .. Len(rows) /\ a \in i .. a
  BY <1>1, <1>5
<1> HIDE DEF ids
<1>8. rows[i].id = ids[s + a] /\ s + a \in 1 .. Len(ids)
  BY <1>2, <1>6, <1>7
<1>9. DataGiven(catalog, mode, s + a) = DataGiven(catalog, mode, s + i)
  <2>1. s + i \in 1 .. Len(ids) /\ s + a \in s + i .. Len(ids)
    BY <1>1, <1>2, <1>5, <1>8
  <2>2. \A j \in s + i .. s + a : ids[j] = ids[s + i]
    <3>1. ASSUME NEW j \in s + i .. s + a
          PROVE  ids[j] = ids[s + i]
      <4>1. j - s \in i .. a /\ s + (j - s) = j
        BY <1>1, <1>5
      <4> QED BY <1>6, <4>1
    <3> QED BY <3>1
  <2> QED BY <2>1, <2>2, SameObject DEF ids
<1>10. ASSUME a < Len(rows)
       PROVE  ids[(s + a) + 1] # ids[s + a]
  <2>1. rows[a + 1].id # rows[i].id
    BY <1>5, <1>10
  <2>2. a + 1 \in 1 .. Len(rows) /\ s + (a + 1) = (s + a) + 1
    BY <1>1, <1>7, <1>10
  <2>3. rows[a + 1].id = ids[(s + a) + 1]
    BY <1>2, <2>2
  <2> QED BY <1>8, <2>1, <2>3
<1> QED BY <1>5, <1>8, <1>9, <1>10 DEF ids, a, Passed

LEMMA Quotient ==
  ASSUME NEW M \in Nat \ {0}, NEW n \in Nat, NEW p \in Nat, p * M < n
  PROVE  p <= n \div M
<1>1. PICK q \in Nat : q = n \div M /\ n < (q + 1) * M
  <2>1. n \div M \in Nat /\ n = M * (n \div M) + (n % M) /\ n % M < M
    OBVIOUS
  <2>2. n < (n \div M + 1) * M
    BY <2>1
  <2> QED BY <2>1, <2>2
<1>2. SUFFICES ASSUME p >= q + 1 PROVE FALSE
  BY <1>1
<1>3. p * M >= (q + 1) * M
  BY <1>2
<1> QED BY <1>1, <1>3

\* ... and a page with no other object is the last one, or Straddling.
LEMMA NoObject ==
  ASSUME catalog \in Catalogs, mode \in Modes, ~All(mode), ~Straddling,
         NEW h \in Handles, NEW d \in Nat, DataAt(catalog, mode, h, d),
         h.rowInx < Len(h.data.rows), NextObject(h, h.data.rows) = 0
  PROVE  AllData(catalog, mode, d)
<1> DEFINE k == h.rowInx
           rows == h.data.rows
           s == d - k
           ids == catalog.replicas
           list == DataRows(catalog, mode)
           others == {j \in k + 1 .. Len(rows) : rows[j].id # h.prevdataId}
<1>1. /\ PageOfReplicas(rows, s) /\ s \in Nat /\ k \in Nat /\ k < Len(rows)
      /\ IsPage(list, h.data, s) /\ Len(list) = Len(ids)
      /\ h.prevdataId = IF d = 0 THEN -1 ELSE ids[d]
      /\ 0 < k => ids[d + 1] # ids[d]
  BY PageOfReplicasFacts, Replies DEF DataAt, Paged
<1>2. Len(rows) \in Nat /\ Len(ids) \in Nat /\ MaxRows \in Nat \ {0} /\ s + Len(rows) <= Len(ids)
  BY <1>1, PagesAssumption DEF PageOfReplicas, Catalogs
<1>3. \A j \in 1 .. Len(rows) : rows[j].id = ids[s + j] /\ ids[s + j] \in Nat \ {0}
  <2>1. ASSUME NEW j \in 1 .. Len(rows)
        PROVE  rows[j].id = ids[s + j] /\ ids[s + j] \in Nat \ {0}
    <3>1. Ids(catalog, mode, s + j) = ids[s + j]
      BY DEF Ids, All
    <3>2. rows[j] = [id |-> Ids(catalog, mode, s + j), row |-> s + j]
      BY <1>1, Zenon DEF PageOfReplicas
    <3>3. ids \in Seq(Nat \ {0})
      BY DEF Catalogs
    <3> HIDE DEF ids, s, rows
    <3>4. s + j \in 1 .. Len(ids)
      BY <1>1, <1>2
    <3>5. ids[s + j] \in Nat \ {0}
      BY <3>3, <3>4, ElementOfSeq
    <3> QED BY <3>1, <3>2, <3>5
  <2> QED BY <2>1
<1>4. others = {}
  <2>1. \A i \in others : i # 0
    BY <1>1
  <2>2. others # {} => (CHOOSE x \in others : \A j \in others : x <= j) \in others
    <3>1. others \in SUBSET Nat
      BY <1>1, <1>2
    <3> HIDE DEF others
    <3> QED BY <3>1, LeastIs
  <2>3. others # {} => NextObject(h, h.data.rows) = CHOOSE x \in others : \A j \in others : x <= j
    BY Zenon DEF NextObject
  <2> HIDE DEF others
  <2> QED BY <2>1, <2>2, <2>3
<1>5. \A j \in k + 1 .. Len(rows) : ids[s + j] = h.prevdataId
  <2>1. \A j \in k + 1 .. Len(rows) : j \in 1 .. Len(rows)
    BY <1>1
  <2>2. \A j \in k + 1 .. Len(rows) : rows[j].id = h.prevdataId
    BY <1>4
  <2> HIDE DEF others, ids, rows, k, s
  <2> QED BY <1>3, <2>1, <2>2
<1>6. s + k = d /\ d \in Nat
  BY <1>1
<1> HIDE DEF others, ids, rows, k, s, list
<1>7. k = 0 /\ s = d
  <2>1. SUFFICES ASSUME k > 0 PROVE FALSE
    BY <1>1, <1>6
  <2>2. k + 1 \in k + 1 .. Len(rows) /\ s + (k + 1) = d + 1 /\ d # 0
    BY <1>1, <1>2, <1>6, <2>1
  <2>3. ids[d + 1] = ids[d]
    BY <1>1, <1>5, <2>2
  <2> QED BY <1>1, <2>1, <2>3
<1>8. d # 0
  <2>1. SUFFICES ASSUME d = 0 PROVE FALSE
    OBVIOUS
  <2>2. 1 \in k + 1 .. Len(rows) /\ 1 \in 1 .. Len(rows)
    BY <1>1, <1>2, <1>7
  <2>3. ids[s + 1] = -1 /\ ids[s + 1] \in Nat
    BY <1>1, <1>3, <1>5, <2>1, <2>2
  <2> QED BY <2>3
<1>9. \A j \in d .. d + Len(rows) : ids[j] = ids[d]
  <2>1. ASSUME NEW j \in d .. d + Len(rows), j # d
        PROVE  ids[j] = ids[d]
    <3>1. j - d \in k + 1 .. Len(rows) /\ s + (j - d) = j
      BY <1>2, <1>6, <1>7, <2>1
    <3> QED BY <1>1, <1>5, <1>8, <3>1
  <2> QED BY <2>1
<1>10. CASE d + Len(rows) = Len(ids)
  <2>1. d \in 1 .. Len(ids) /\ Len(ids) \in d .. Len(ids)
    BY <1>2, <1>6, <1>8, <1>10
  <2>2. \A j \in d .. Len(ids) : ids[j] = ids[d]
    BY <1>9, <1>10
  <2> QED BY <2>1, <2>2, SameObject DEF ids, AllData
<1>11. CASE d + Len(rows) # Len(ids)
  <2>1. Len(rows) = MaxRows /\ d + MaxRows < Len(ids) /\ StartsPage(d)
    <3>1. Len(rows) = Lesser(MaxRows, Len(list) - s) /\ StartsPage(s)
      BY <1>1, Zenon DEF IsPage, rows
    <3> QED BY <1>1, <1>2, <1>6, <1>7, <1>11, <3>1 DEF Lesser
  <2>2. PICK p \in 0 .. d : d = p * MaxRows
    BY <2>1 DEF StartsPage
  <2>3. (p + 1) * MaxRows = d + MaxRows
    BY <1>2, <2>2
  <2>4. p \in 1 .. Len(ids) \div MaxRows
    <3>1. p # 0 /\ p \in Nat
      BY <1>2, <1>6, <1>8, <2>2
    <3>2. p * MaxRows < Len(ids)
      BY <1>2, <1>6, <2>1, <2>2
    <3>3. p <= Len(ids) \div MaxRows
      BY <1>2, <3>1, <3>2, Quotient
    <3>4. Len(ids) \div MaxRows \in Nat
      BY <1>2
    <3> QED BY <3>1, <3>3, <3>4
  <2>5. /\ (p + 1) * MaxRows < Len(ids)
        /\ \A i \in p * MaxRows .. (p + 1) * MaxRows : ids[i] = ids[p * MaxRows]
    <3> DEFINE x == p * MaxRows
               y == (p + 1) * MaxRows
    <3>1. x = d /\ y = d + Len(rows)
      BY <2>1, <2>2, <2>3
    <3> HIDE DEF x, y
    <3>2. y < Len(ids) /\ \A i \in x .. y : ids[i] = ids[x]
      BY <1>9, <2>1, <3>1
    <3> QED BY <3>2 DEF x, y
  <2>6. Straddling
    BY <2>4, <2>5, Zenon DEF Straddling, ids
  <2> QED BY <2>6
<1> QED BY <1>10, <1>11

LEMMA NextData ==
  ASSUME catalog \in Catalogs, mode \in Modes, NEW h \in Handles, NEW d \in Nat,
         DataAt(catalog, mode, h, d), NEW fails, NEW r, r = getNextDataObjMetaInfo(h, fails)
  PROVE  /\ Beside(h, [r.h EXCEPT !.prevdataId = h.prevdataId], "data") /\ r.h \in Handles
         /\ \/ /\ r.status = Ok
               /\ \E e \in d + 1 .. Len(catalog.replicas) :
                    /\ DataAt(catalog, mode, r.h, e)
                    /\ DataGiven(catalog, mode, e) = Append(DataGiven(catalog, mode, d), r.entry)
            \/ /\ r.status = CAT_NO_ROWS_FOUND
               /\ AllReplicas \/ ~Straddling => AllData(catalog, mode, d)
            \/ /\ r.status = Error
               /\ \/ "dataMore" \in fails
                  \/ mode.specColl = "LINKED_COLL" /\ Len(catalog.replicas) > MaxRows
<1> DEFINE page == NextPage(h, "data", "dataMore" \in fails)
           g == page.h
           rows == g.data.rows
           s == d - g.rowInx
           trimmed == rows[1].id # 0 /\ ~mode.keepReplicas
           i == IF trimmed THEN NextObject(g, rows) ELSE g.rowInx + 1
           a == AfterObject(rows, i)
           taken == IF trimmed THEN [g EXCEPT !.prevdataId = rows[i].id, !.rowInx = a]
                    ELSE [g EXCEPT !.rowInx = @ + 1]
<1>1. r = IF page.status # Ok THEN [h |-> g, status |-> page.status, entry |-> << >>]
          ELSE IF i = 0 THEN [h |-> g, status |-> CAT_NO_ROWS_FOUND, entry |-> << >>]
          ELSE [h |-> taken, status |-> Ok, entry |-> <<"data", rows[i].row>>]
  BY Zenon DEF getNextDataObjMetaInfo
<1>2. \/ /\ page.status = Ok /\ Beside(h, g, "data")
         /\ Paged(DataRows(catalog, mode), g.data, g.rowInx, d)
         /\ g.rowInx < Len(rows) /\ (g = h \/ g.rowInx = 0)
      \/ /\ page.status = CAT_NO_ROWS_FOUND /\ d = Len(catalog.replicas)
         /\ Beside(h, g, "data")
      \/ /\ page.status = Error /\ Beside(h, g, "data")
         /\ \/ "dataMore" \in fails
            \/ mode.specColl = "LINKED_COLL" /\ Len(catalog.replicas) > MaxRows
  <2>1. Paged(RepliesFor("data"), h["data"], h.rowInx, d)
    BY Replies DEF DataAt
  <2>2. "data" \in Lists /\ ("dataMore" \in fails) \in BOOLEAN
    BY DEF Lists
  <2>3. /\ RepliesFor("data") = DataRows(catalog, mode)
        /\ Len(DataRows(catalog, mode)) = Len(catalog.replicas)
    BY Replies
  <2> DEFINE p == NextPage(h, "data", "dataMore" \in fails)
  <2>4. p = NextPage(h, "data", "dataMore" \in fails)
    OBVIOUS
  <2> HIDE DEF p
  <2>5. \/ /\ p.status = Ok /\ Beside(h, p.h, "data")
           /\ Paged(RepliesFor("data"), p.h["data"], p.h.rowInx, d)
           /\ p.h.rowInx < Len(p.h["data"].rows) /\ (p.h = h \/ p.h.rowInx = 0)
        \/ /\ p.status = CAT_NO_ROWS_FOUND /\ d = Len(RepliesFor("data"))
           /\ Beside(h, p.h, "data")
        \/ /\ p.status = Error /\ Beside(h, p.h, "data")
           /\ \/ "dataMore" \in fails
              \/ mode.specColl = "LINKED_COLL" /\ Len(RepliesFor("data")) > MaxRows
    <3> DEFINE f == "dataMore" \in fails
               what == "data"
    <3>1. f \in BOOLEAN /\ what \in Lists /\ p = NextPage(h, what, f)
          /\ Paged(RepliesFor(what), h[what], h.rowInx, d)
      BY <2>1, <2>2, <2>4
    <3> HIDE DEF f, what
    <3>2. \/ /\ p.status = Ok /\ Beside(h, p.h, what)
             /\ Paged(RepliesFor(what), p.h[what], p.h.rowInx, d)
             /\ p.h.rowInx < Len(p.h[what].rows) /\ (p.h = h \/ p.h.rowInx = 0)
          \/ /\ p.status = CAT_NO_ROWS_FOUND /\ d = Len(RepliesFor(what))
             /\ Beside(h, p.h, what)
          \/ /\ p.status = Error /\ Beside(h, p.h, what)
             /\ \/ f
                \/ mode.specColl = "LINKED_COLL" /\ Len(RepliesFor(what)) > MaxRows
      BY <3>1, NextPageFacts
    <3> QED BY <3>2 DEF f, what
  <2> QED BY <2>3, <2>5 DEF p
<1> HIDE DEF page
<1>3. CASE page.status # Ok
  <2>1. r.h = g /\ r.status = page.status
    BY <1>1, <1>3
  <2>2. Beside(h, g, "data")
    BY <1>2
  <2>3. g \in Handles /\ [g EXCEPT !.prevdataId = h.prevdataId] = g
    BY <2>2 DEF Beside, Handles
  <2>4. d = Len(catalog.replicas) => AllData(catalog, mode, d)
    BY DEF AllData
  <2> QED BY <1>2, <1>3, <2>1, <2>2, <2>3, <2>4
<1>4. CASE page.status = Ok
  <2>1. /\ Beside(h, g, "data") /\ g \in Handles
        /\ Paged(DataRows(catalog, mode), g.data, g.rowInx, d)
        /\ g.rowInx < Len(rows) /\ (g = h \/ g.rowInx = 0)
    BY <1>2, <1>4 DEF Ok, Error, CAT_NO_ROWS_FOUND, Beside
  <2>2. /\ PageOfReplicas(rows, s) /\ s \in Nat /\ g.rowInx \in Nat /\ Len(rows) \in Nat
        /\ s + Len(rows) <= Len(catalog.replicas) /\ Len(catalog.replicas) \in Nat
        /\ s + g.rowInx = d
    <3>1. PageOfReplicas(rows, s) /\ s \in Nat /\ g.rowInx \in Nat
      BY <2>1, PageOfReplicasFacts
    <3>2. Len(rows) \in Nat /\ Len(catalog.replicas) \in Nat
      BY <3>1 DEF PageOfReplicas, Catalogs
    <3> QED BY <3>1, <3>2 DEF PageOfReplicas
  <2>3. trimmed <=> ~All(mode)
    <3>1. rows[1] = [id |-> Ids(catalog, mode, s + 1), row |-> s + 1]
      <4>1. 1 \in 1 .. Len(rows)
        BY <2>1, <2>2
      <4> HIDE DEF s, rows
      <4> QED BY <2>2, <4>1, Zenon DEF PageOfReplicas
    <3>2. catalog.replicas[s + 1] # 0
      <4>1. catalog.replicas \in Seq(Nat \ {0})
        BY DEF Catalogs
      <4> HIDE DEF s, rows
      <4>2. s + 1 \in 1 .. Len(catalog.replicas)
        BY <2>1, <2>2
      <4> QED BY <4>1, <4>2, ElementOfSeq
    <3> QED BY <3>1, <3>2 DEF Ids, All, Modes
  <2>4. DataAt(catalog, mode, g, d)
    <3>1. g.prevdataId = h.prevdataId
      BY <2>1 DEF Beside
    <3> QED BY <2>1, <3>1 DEF DataAt
  <2>5. CASE i = 0
    <3>1. r.h = g /\ r.status = CAT_NO_ROWS_FOUND
      BY <1>1, <1>4, <2>5
    <3>2. ~All(mode) /\ NextObject(g, rows) = 0
      BY <2>2, <2>3, <2>5
    <3>3. AllReplicas \/ ~Straddling => AllData(catalog, mode, d)
      BY <2>1, <2>4, <3>2, NoObject DEF All, AllReplicas
    <3>4. [g EXCEPT !.prevdataId = h.prevdataId] = g
      BY <2>1 DEF Beside, Handles
    <3> QED BY <2>1, <3>1, <3>3, <3>4
  <2>6. CASE i # 0
    <3>1. r.h = taken /\ r.status = Ok /\ r.entry = <<"data", rows[i].row>>
      BY <1>1, <1>4, <2>6
    <3>2. ASSUME NEW n \in Nat, NEW b \in Int, taken = [g EXCEPT !.rowInx = n, !.prevdataId = b]
          PROVE  /\ taken \in Handles /\ taken.data = g.data /\ taken.rowInx = n
                 /\ taken.prevdataId = b
                 /\ Beside(h, [taken EXCEPT !.prevdataId = h.prevdataId], "data")
      <4> HIDE DEF taken
      <4> QED BY <2>1, <3>2 DEF Beside, Handles, Lists
    <3>3. CASE All(mode)
      <4>1. i = g.rowInx + 1 /\ taken = [g EXCEPT !.rowInx = g.rowInx + 1]
        BY <2>3, <3>3
      <4>2. taken = [g EXCEPT !.rowInx = g.rowInx + 1, !.prevdataId = g.prevdataId]
        BY <2>1, <4>1 DEF Handles
      <4>3. g.rowInx + 1 \in Nat /\ g.prevdataId \in Int
        BY <2>1, <2>2 DEF Handles
      <4>4. /\ taken \in Handles /\ taken.data = g.data /\ taken.rowInx = g.rowInx + 1
            /\ Beside(h, [taken EXCEPT !.prevdataId = h.prevdataId], "data")
        BY <3>2, <4>2, <4>3
      <4>5. d + 1 \in d + 1 .. Len(catalog.replicas) /\ d + 1 \in 1 .. Len(catalog.replicas)
        <5>1. g.rowInx < Len(rows)
          BY <2>1
        <5>2. /\ s \in Nat /\ g.rowInx \in Nat /\ Len(rows) \in Nat /\ Len(catalog.replicas) \in Nat
              /\ s + Len(rows) <= Len(catalog.replicas) /\ s + g.rowInx = d
          BY <2>2
        <5> HIDE DEF g, s, rows, taken
        <5>3. d + 1 <= Len(catalog.replicas)
          BY <5>1, <5>2
        <5> QED BY <5>2, <5>3
      <4>6. DataAt(catalog, mode, taken, d + 1)
        <5>1. /\ (d + 1) - (g.rowInx + 1) = d - g.rowInx
              /\ g.rowInx + 1 <= Len(rows)
          <6> HIDE DEF g, s, rows
          <6> QED BY <2>1, <2>2
        <5> HIDE DEF taken
        <5> QED BY <2>1, <3>3, <4>4, <5>1 DEF DataAt, Paged
      <4>7. rows[i].row = d + 1
        <5>1. g.rowInx + 1 \in 1 .. Len(rows) /\ s + (g.rowInx + 1) = d + 1
          <6> HIDE DEF g, s, rows
          <6> QED BY <2>1, <2>2
        <5>2. rows[g.rowInx + 1].row = s + (g.rowInx + 1)
          <6> DEFINE j == g.rowInx + 1
          <6>1. j \in 1 .. Len(rows)
            BY <5>1
          <6> HIDE DEF s, rows, j
          <6>2. rows[j] = [id |-> Ids(catalog, mode, s + j), row |-> s + j]
            BY <2>2, <6>1, Zenon DEF PageOfReplicas
          <6>3. rows[j].row = s + j
            BY <6>2
          <6> QED BY <6>3 DEF j
        <5> QED BY <4>1, <5>1, <5>2
      <4>8. DataGiven(catalog, mode, d + 1) = Append(DataGiven(catalog, mode, d), <<"data", d + 1>>)
        <5>1. NewId(catalog.replicas, All(mode), d + 1)
          BY <3>3 DEF NewId
        <5>2. (d + 1) - 1 = d
          OBVIOUS
        <5> QED BY <2>2, <4>5, <5>1, <5>2, DataGivenNext
      <4> HIDE DEF taken, i, rows, g
      <4> QED BY <3>1, <4>4, <4>5, <4>6, <4>7, <4>8
    <3>4. CASE ~All(mode)
      <4>1. i = NextObject(g, rows) /\ trimmed
        BY <2>3, <3>4
      <4>2. g.prevdataId = IF s + g.rowInx = 0 THEN -1 ELSE catalog.replicas[s + g.rowInx]
        BY <2>2, <2>4, <3>4 DEF DataAt
      <4>3. /\ i \in 1 .. Len(rows) /\ i > g.rowInx
            /\ DataGiven(catalog, mode, s + i) =
                 Append(DataGiven(catalog, mode, s + g.rowInx), <<"data", s + i>>)
        <5> HIDE DEF g, rows, s, i, trimmed
        <5>1. g \in Handles /\ g.rowInx < Len(rows) /\ i = NextObject(g, rows) /\ i # 0
              /\ s \in Nat /\ PageOfReplicas(rows, s)
          BY <2>1, <2>2, <2>6, <4>1
        <5> QED BY <3>4, <4>2, <5>1, TakeObject
      <4>4. /\ a \in i .. Len(rows) /\ s + a \in 1 .. Len(catalog.replicas)
            /\ DataGiven(catalog, mode, s + a) = DataGiven(catalog, mode, s + i)
            /\ rows[i].id = catalog.replicas[s + a]
            /\ a < Len(rows) => catalog.replicas[(s + a) + 1] # catalog.replicas[s + a]
        <5>1. a = AfterObject(rows, i)
          OBVIOUS
        <5>2. PageOfReplicas(rows, s) /\ s \in Nat /\ i \in 1 .. Len(rows)
          BY <2>2, <4>3
        <5> HIDE DEF g, rows, s, i, a
        <5>3. Passed(rows, s, i, AfterObject(rows, i))
          BY <3>4, <5>2, PassObject
        <5> QED BY <5>1, <5>3 DEF Passed
      <4>5. a \in Nat /\ rows[i].id \in Int
        <5>1. catalog.replicas \in Seq(Nat \ {0})
          BY DEF Catalogs
        <5> HIDE DEF g, rows, s, i, a
        <5>2. a \in Nat
          BY <2>2, <4>3, <4>4
        <5>3. catalog.replicas[s + a] \in Nat \ {0}
          BY <4>4, <5>1, ElementOfSeq
        <5> QED BY <4>4, <5>2, <5>3
      <4>6. taken = [g EXCEPT !.rowInx = a, !.prevdataId = rows[i].id]
        <5>1. taken = [g EXCEPT !.prevdataId = rows[i].id, !.rowInx = a]
          BY <4>1
        <5> HIDE DEF rows, s, i, a, g, taken
        <5> QED BY <2>1, <5>1 DEF Handles
      <4>7. /\ taken \in Handles /\ taken.data = g.data /\ taken.rowInx = a
            /\ taken.prevdataId = rows[i].id
            /\ Beside(h, [taken EXCEPT !.prevdataId = h.prevdataId], "data")
        BY <3>2, <4>5, <4>6
      <4> HIDE DEF taken, a, i, trimmed
      <4>8. s + a \in d + 1 .. Len(catalog.replicas)
        <5> HIDE DEF s, rows, g
        <5> QED BY <2>2, <4>3, <4>4
      <4>9. DataAt(catalog, mode, taken, s + a)
        <5>1. (s + a) - a = s /\ a <= Len(rows) /\ s + a # 0
          <6> HIDE DEF s, rows, g
          <6> QED BY <2>2, <4>3, <4>4
        <5>2. Paged(DataRows(catalog, mode), taken.data, taken.rowInx, s + a)
          <6>1. s >= 0 /\ IsPage(DataRows(catalog, mode), g.data, s)
            BY <2>1, Zenon DEF Paged
          <6>2. (s + a) - taken.rowInx = s /\ taken.rowInx <= Len(taken.data.rows)
            BY <4>7, <5>1
          <6> HIDE DEF s
          <6> QED BY <4>7, <6>1, <6>2 DEF Paged
        <5>3. taken.prevdataId = catalog.replicas[s + a]
          BY <4>4, <4>7
        <5>4. taken.rowInx < Len(taken.data.rows) =>
                catalog.replicas[(s + a) + 1] # catalog.replicas[s + a]
          BY <4>4, <4>7
        <5> HIDE DEF s
        <5> QED BY <5>1, <5>2, <5>3, <5>4 DEF DataAt
      <4>10. rows[i].row = s + i
        <5> HIDE DEF s, rows
        <5>1. rows[i] = [id |-> Ids(catalog, mode, s + i), row |-> s + i]
          BY <2>2, <4>3, Zenon DEF PageOfReplicas
        <5> QED BY <5>1
      <4>11. DataGiven(catalog, mode, s + a) = Append(DataGiven(catalog, mode, d), r.entry)
        <5> HIDE DEF s, rows
        <5> QED BY <2>2, <3>1, <4>3, <4>4, <4>10
      <4> HIDE DEF s, rows, g
      <4> QED BY <3>1, <4>7, <4>8, <4>9, <4>11
    <3> QED BY <3>3, <3>4
  <2> QED BY <2>5, <2>6
<1> QED BY <1>3, <1>4

-----------------------------------------------------------------------------
(* The queries of one call, fails those of them that fail.                 *)

AStep(r) == r = [h |-> r.h, status |-> r.status, entry |-> r.entry]

CollsOrNone(h, c, fails) ==
  \/ CollsAt(catalog, h, c)
  \/ h.colls = NoResult /\ c = 0 /\ (Len(catalog.colls) = 0 \/ "coll" \in fails)
DataOrNone(h, d, fails) ==
  \/ DataAt(catalog, mode, h, d)
  \/ h.data = NoResult /\ d = 0 /\ (Len(catalog.replicas) = 0 \/ "data" \in fails)

LEMMA OpenList ==
  ASSUME catalog \in Catalogs, NEW what \in Lists, NEW h \in Handles, h[what] = NoResult,
         NEW state \in {"COLL_COLL_OBJ_QUERIED", "COLL_DATA_OBJ_QUERIED"}, NEW fails \in BOOLEAN,
         NEW r, r = GenResInColl(h, what, state, fails)
  PROVE  /\ r.h \in Handles /\ r.h.state = state /\ r.h.prevdataId = h.prevdataId
         /\ r.h.rowInx = 0 /\ \A w \in Lists \ {what} : r.h[w] = h[w]
         /\ \/ r.status = Ok /\ Paged(RepliesFor(what), r.h[what], 0, 0)
            \/ /\ r.h[what] = NoResult /\ Len(RepliesFor(what)) = 0
               /\ r.status = CAT_NO_ROWS_FOUND
            \/ r.status = Error /\ r.h[what] = NoResult /\ fails
<1> DEFINE list == RepliesFor(what)
           h1 == [h EXCEPT !.rowInx = 0, !.state = state]
           h2 == [h1 EXCEPT ![what] = Page(list, 0)]
<1>1. r = IF fails THEN [h |-> h1, status |-> Error]
          ELSE IF list = << >> THEN [h |-> h1, status |-> CAT_NO_ROWS_FOUND]
          ELSE [h |-> h2, status |-> Ok]
  BY Zenon DEF GenResInColl
<1>2. list \in Seq(Rows) /\ Len(list) \in Nat /\ (list = << >> <=> Len(list) = 0)
  BY Replies DEF Lists
<1>3. /\ h1 \in Handles /\ h1.state = state /\ h1.prevdataId = h.prevdataId /\ h1.rowInx = 0
      /\ \A w \in Lists : h1[w] = h[w]
  BY DEF Handles, Lists
<1>4. ASSUME Page(list, 0) \in Results
      PROVE  /\ h2 \in Handles /\ h2.state = state /\ h2.prevdataId = h.prevdataId
             /\ h2.rowInx = 0 /\ h2[what] = Page(list, 0)
             /\ \A w \in Lists \ {what} : h2[w] = h[w]
  BY <1>4 DEF Handles, Lists
<1> HIDE DEF list, h1, h2
<1>5. CASE fails
  <2>1. r.h = h1 /\ r.status = Error
    BY <1>1, <1>5
  <2> QED BY <1>3, <1>5, <2>1
<1>6. CASE ~fails /\ list = << >>
  <2>1. r.h = h1 /\ r.status = CAT_NO_ROWS_FOUND
    BY <1>1, <1>6
  <2> QED BY <1>2, <1>3, <1>6, <2>1 DEF list
<1>7. CASE ~fails /\ list # << >>
  <2>1. r.h = h2 /\ r.status = Ok
    BY <1>1, <1>7
  <2>2. StartsPage(0)
    <3>1. 0 = 0 * MaxRows /\ 0 \in 0 .. 0
      BY PagesAssumption
    <3> QED BY <3>1, Zenon DEF StartsPage
  <2>3. IsPage(list, Page(list, 0), 0) /\ Page(list, 0) \in Results
    BY <1>2, <1>7, <2>2, PageFacts
  <2>4. Paged(list, Page(list, 0), 0, 0)
    <3>1. 0 - 0 = 0 /\ 0 <= Len(Page(list, 0).rows)
      BY <2>3 DEF Results
    <3> QED BY <2>3, <3>1 DEF Paged
  <2> QED BY <1>4, <2>1, <2>3, <2>4 DEF list
<1> QED BY <1>5, <1>6, <1>7

LEMMA OpenColls ==
  ASSUME catalog \in Catalogs, NEW h \in Handles, h.colls = NoResult, NEW fails,
         NEW r, r = genCollResInColl(h, fails)
  PROVE  /\ r.h \in Handles /\ r.h.state = "COLL_COLL_OBJ_QUERIED" /\ r.h.data = h.data
         /\ r.h.prevdataId = h.prevdataId /\ CollsOrNone(r.h, 0, fails)
         /\ r.status = Error => "coll" \in fails /\ r.h.colls = NoResult
<1> DEFINE what == "colls"
           state == "COLL_COLL_OBJ_QUERIED"
           f == "coll" \in fails
<1>1. /\ what \in Lists /\ state \in {"COLL_COLL_OBJ_QUERIED", "COLL_DATA_OBJ_QUERIED"}
      /\ f \in BOOLEAN /\ r = GenResInColl(h, what, state, f) /\ h[what] = NoResult
  BY DEF Lists, genCollResInColl
<1> HIDE DEF what, state, f
<1>2. /\ r.h \in Handles /\ r.h.state = state /\ r.h.prevdataId = h.prevdataId
      /\ r.h.rowInx = 0 /\ \A w \in Lists \ {what} : r.h[w] = h[w]
      /\ \/ r.status = Ok /\ Paged(RepliesFor(what), r.h[what], 0, 0)
         \/ r.h[what] = NoResult /\ Len(RepliesFor(what)) = 0 /\ r.status = CAT_NO_ROWS_FOUND
         \/ r.status = Error /\ r.h[what] = NoResult /\ f
  BY <1>1, OpenList
<1>3. r.h.data = h.data
  BY <1>2 DEF what, Lists
<1>4. RepliesFor("colls") = catalog.colls
  BY Replies
<1> QED BY <1>2, <1>3, <1>4 DEF what, state, f, CollsOrNone, CollsAt, Ok, Error, CAT_NO_ROWS_FOUND

LEMMA OpenData ==
  ASSUME catalog \in Catalogs, NEW h \in Handles, h.data = NoResult, h.prevdataId = -1, NEW fails,
         NEW r, r = genDataResInColl(h, fails)
  PROVE  /\ r.h \in Handles /\ r.h.state = "COLL_DATA_OBJ_QUERIED" /\ r.h.colls = h.colls
         /\ DataOrNone(r.h, 0, fails)
         /\ r.status = Error => "data" \in fails /\ r.h.data = NoResult
<1> DEFINE what == "data"
           state == "COLL_DATA_OBJ_QUERIED"
           f == "data" \in fails
<1>1. /\ what \in Lists /\ state \in {"COLL_COLL_OBJ_QUERIED", "COLL_DATA_OBJ_QUERIED"}
      /\ f \in BOOLEAN /\ r = GenResInColl(h, what, state, f) /\ h[what] = NoResult
  BY DEF Lists, genDataResInColl
<1> HIDE DEF what, state, f
<1>2. /\ r.h \in Handles /\ r.h.state = state /\ r.h.prevdataId = h.prevdataId
      /\ r.h.rowInx = 0 /\ \A w \in Lists \ {what} : r.h[w] = h[w]
      /\ \/ r.status = Ok /\ Paged(RepliesFor(what), r.h[what], 0, 0)
         \/ r.h[what] = NoResult /\ Len(RepliesFor(what)) = 0 /\ r.status = CAT_NO_ROWS_FOUND
         \/ r.status = Error /\ r.h[what] = NoResult /\ f
  BY <1>1, OpenList
<1>3. r.h.colls = h.colls
  BY <1>2 DEF what, Lists
<1>4. /\ RepliesFor("data") = DataRows(catalog, mode)
      /\ Len(DataRows(catalog, mode)) = Len(catalog.replicas)
  BY Replies
<1>5. Paged(RepliesFor(what), r.h[what], 0, 0) => DataAt(catalog, mode, r.h, 0)
  BY <1>2, <1>4 DEF what, DataAt
<1>6. DataOrNone(r.h, 0, fails)
  BY <1>2, <1>4, <1>5 DEF what, f, DataOrNone
<1>7. r.status = Error => "data" \in fails /\ r.h.data = NoResult
  BY <1>2 DEF what, f, Ok, Error, CAT_NO_ROWS_FOUND
<1> QED BY <1>2, <1>3, <1>6, <1>7 DEF state

\* The next sub-collection, or none.
LEMMA StageColl ==
  ASSUME catalog \in Catalogs, mode \in Modes, NEW h \in Handles, NEW c \in 0 .. Len(catalog.colls),
         NEW fails, CollsOrNone(h, c, fails), NEW r, r = getNextCollMetaInfo(h, fails)
  PROVE  /\ AStep(r) /\ Beside(h, r.h, "colls")
         /\ \/ /\ c < Len(catalog.colls) /\ CollsAt(catalog, r.h, c + 1)
               /\ r.status = Ok /\ r.entry = <<"coll", catalog.colls[c + 1].name>>
            \/ /\ r.status \in {CAT_NO_ROWS_FOUND, Error}
               /\ Easy => \/ AllColls(catalog, c) /\ r.status = CAT_NO_ROWS_FOUND
                          \/ fails \cap {"coll", "collMore"} # {}
         /\ h.colls = NoResult => r.status # Ok
<1>1. AStep(r)
  BY DEF AStep, getNextCollMetaInfo
<1>2. CASE CollsAt(catalog, h, c)
  <2>1. Len(catalog.colls) \in Nat /\ c \in Nat
    BY DEF Catalogs
  <2> DEFINE unknown == catalog.colls[c + 1].type = "unknown"
  <2>2. /\ Beside(h, r.h, "colls")
        /\ \/ /\ c < Len(catalog.colls) /\ CollsAt(catalog, r.h, c + 1)
              /\ r.status = IF unknown THEN Error ELSE Ok
              /\ r.entry = <<"coll", catalog.colls[c + 1].name>>
           \/ r.status = CAT_NO_ROWS_FOUND /\ c = Len(catalog.colls)
           \/ /\ r.status = Error
              /\ \/ "collMore" \in fails
                 \/ mode.specColl = "LINKED_COLL" /\ Len(catalog.colls) > MaxRows
    BY <1>2, <2>1, NextColl
  <2>3. c < Len(catalog.colls) /\ unknown => ~Easy
    <3>1. c < Len(catalog.colls) => c + 1 \in DOMAIN catalog.colls
      BY <2>1 DEF Catalogs
    <3> QED BY <3>1, Zenon DEF Easy, UnknownType
  <2>4. mode.specColl = "LINKED_COLL" /\ Len(catalog.colls) > MaxRows => ~Easy
    BY DEF Easy, ManyPages
  <2>5. h.colls # NoResult
    <3>1. Len(h.colls.rows) > 0
      <4>1. /\ c - h.rowInx >= 0 /\ c - h.rowInx < Len(catalog.colls)
            /\ Len(h.colls.rows) = Lesser(MaxRows, Len(catalog.colls) - (c - h.rowInx))
        BY <1>2, Zenon DEF CollsAt, Paged, IsPage
      <4>2. h.rowInx \in Nat
        BY DEF Handles
      <4> QED BY <2>1, <4>1, <4>2, PagesAssumption DEF Lesser
    <3> QED BY <3>1, NoResultFacts
  <2> HIDE DEF unknown
  <2> QED BY <1>1, <2>2, <2>3, <2>4, <2>5 DEF AllColls
<1>3. CASE /\ h.colls = NoResult /\ c = 0
           /\ Len(catalog.colls) = 0 \/ "coll" \in fails
  <2> DEFINE page == NextPage(h, "colls", "collMore" \in fails)
  <2>1. page.status = CAT_NO_ROWS_FOUND /\ Beside(h, page.h, "colls")
    <3>1. "colls" \in Lists /\ h["colls"] = NoResult /\ ("collMore" \in fails) \in BOOLEAN
      BY <1>3 DEF Lists
    <3> QED BY <3>1, NextPageOfNone
  <2>2. r.h = page.h /\ r.status = CAT_NO_ROWS_FOUND
    <3> HIDE DEF page
    <3>1. page.status # Ok
      BY <2>1 DEF Ok, CAT_NO_ROWS_FOUND
    <3>2. r = [h |-> page.h, status |-> page.status, entry |-> << >>]
      BY <3>1, Zenon DEF getNextCollMetaInfo, page
    <3> QED BY <2>1, <3>2
  <2> HIDE DEF page
  <2> QED BY <1>1, <1>3, <2>1, <2>2 DEF AllColls, Ok, CAT_NO_ROWS_FOUND
<1> QED BY <1>2, <1>3 DEF CollsOrNone

\* The next data object, or none.
LEMMA StageData ==
  ASSUME catalog \in Catalogs, mode \in Modes, NEW h \in Handles,
         NEW d \in 0 .. Len(catalog.replicas),
         NEW fails, DataOrNone(h, d, fails), NEW r, r = getNextDataObjMetaInfo(h, fails)
  PROVE  /\ AStep(r) /\ r.h \in Handles /\ r.h.state = h.state /\ r.h.colls = h.colls
         /\ \/ /\ r.status = Ok
               /\ \E e \in d + 1 .. Len(catalog.replicas) :
                    /\ DataAt(catalog, mode, r.h, e)
                    /\ DataGiven(catalog, mode, e) = Append(DataGiven(catalog, mode, d), r.entry)
            \/ /\ r.status \in {CAT_NO_ROWS_FOUND, Error}
               /\ Easy => \/ AllData(catalog, mode, d) /\ r.status = CAT_NO_ROWS_FOUND
                          \/ fails \cap {"data", "dataMore"} # {}
         /\ h.data = NoResult => r.status # Ok
<1>1. AStep(r)
  BY DEF AStep, getNextDataObjMetaInfo
<1>2. CASE DataAt(catalog, mode, h, d)
  <2>1. Len(catalog.replicas) \in Nat /\ d \in Nat
    BY DEF Catalogs
  <2>2. /\ Beside(h, [r.h EXCEPT !.prevdataId = h.prevdataId], "data") /\ r.h \in Handles
        /\ \/ /\ r.status = Ok
              /\ \E e \in d + 1 .. Len(catalog.replicas) :
                   /\ DataAt(catalog, mode, r.h, e)
                   /\ DataGiven(catalog, mode, e) = Append(DataGiven(catalog, mode, d), r.entry)
           \/ /\ r.status = CAT_NO_ROWS_FOUND
              /\ AllReplicas \/ ~Straddling => AllData(catalog, mode, d)
           \/ /\ r.status = Error
              /\ \/ "dataMore" \in fails
                 \/ mode.specColl = "LINKED_COLL" /\ Len(catalog.replicas) > MaxRows
    BY <1>2, <2>1, NextData
  <2>3. r.h.state = h.state /\ r.h.colls = h.colls
    BY <2>2 DEF Beside, Handles, Lists
  <2>4. /\ mode.specColl = "LINKED_COLL" /\ Len(catalog.replicas) > MaxRows => ~Easy
        /\ Easy => AllReplicas \/ ~Straddling
    BY DEF Easy, ManyPages
  <2>5. h.data # NoResult
    <3>1. Len(h.data.rows) > 0
      <4>1. /\ d - h.rowInx >= 0 /\ d - h.rowInx < Len(DataRows(catalog, mode))
            /\ Len(h.data.rows) = Lesser(MaxRows, Len(DataRows(catalog, mode)) - (d - h.rowInx))
        BY <1>2, Zenon DEF DataAt, Paged, IsPage
      <4>2. h.rowInx \in Nat /\ Len(DataRows(catalog, mode)) \in Nat
        BY <2>1, Replies DEF Handles
      <4> QED BY <2>1, <4>1, <4>2, PagesAssumption DEF Lesser
    <3> QED BY <3>1, NoResultFacts
  <2> QED BY <1>1, <2>2, <2>3, <2>4, <2>5
<1>3. CASE /\ h.data = NoResult /\ d = 0
           /\ Len(catalog.replicas) = 0 \/ "data" \in fails
  <2> DEFINE page == NextPage(h, "data", "dataMore" \in fails)
  <2>1. page.status = CAT_NO_ROWS_FOUND /\ Beside(h, page.h, "data")
    <3>1. "data" \in Lists /\ h["data"] = NoResult /\ ("dataMore" \in fails) \in BOOLEAN
      BY <1>3 DEF Lists
    <3> QED BY <3>1, NextPageOfNone
  <2>2. r.h = page.h /\ r.status = CAT_NO_ROWS_FOUND
    <3> HIDE DEF page
    <3>1. page.status # Ok
      BY <2>1 DEF Ok, CAT_NO_ROWS_FOUND
    <3>2. r = [h |-> page.h, status |-> page.status, entry |-> << >>]
      BY <3>1, Zenon DEF getNextDataObjMetaInfo, page
    <3> QED BY <2>1, <3>2
  <2> HIDE DEF page
  <2>3. r.h.state = h.state /\ r.h.colls = h.colls /\ r.h \in Handles
    BY <2>1, <2>2 DEF Beside, Lists
  <2>4. Len(catalog.replicas) = 0 => AllData(catalog, mode, d)
    BY <1>3 DEF AllData
  <2> QED BY <1>1, <1>3, <2>2, <2>3, <2>4 DEF Ok, CAT_NO_ROWS_FOUND
<1> QED BY <1>2, <1>3 DEF DataOrNone

-----------------------------------------------------------------------------
(* One call of readCollection.                                             *)

\* The call r, in which the queries of fails failed, keeps the invariant.
Single(fails) == \A q1, q2 \in fails : q1 = q2
Count(fl, fails) == IF fails = {} THEN fl ELSE fl + 1
Sofar(g, r) == IF r.status = Ok THEN Append(g, r.entry) ELSE g
After(g, fl, fails, r) ==
  WalkIn(catalog, mode, Easy, r.h, Sofar(g, r), r.status, Count(fl, fails))

LEMMA ShutIs ==
  ASSUME NEW r, AStep(r), r.h \in Handles
  PROVE  /\ Shut(r).h \in Handles /\ Shut(r).h.state = "COLL_CLOSED"
         /\ Shut(r).status = r.status /\ AStep(Shut(r))
BY DEF AStep, Shut, Handles

LEMMA GivenFacts ==
  ASSUME catalog \in Catalogs, NEW lost \in Nat, NEW c \in lost .. Len(catalog.colls),
         NEW d \in 0 .. Len(catalog.replicas)
  PROVE  /\ Given(catalog, mode, lost, c, d) \in Seq(Entry)
         /\ c = lost /\ d = 0 => Given(catalog, mode, lost, c, d) = << >>
<1>1. DataGiven(catalog, mode, d) \in Seq(Entry) /\ DataGiven(catalog, mode, 0) = << >>
  BY DataGivenFacts
<1> DEFINE s == CollsGiven(catalog, lost, c)
           u == DataGiven(catalog, mode, d)
<1>2. s \in Seq(Entry) /\ (c = lost => s = << >>)
  BY CollsGivenFacts
<1>3. Given(catalog, mode, lost, c, d) = IF mode.dataFirst THEN u \o s ELSE s \o u
  BY DEF Given
<1>4. u \in Seq(Entry) /\ (d = 0 => u = << >>)
  BY <1>1
<1> HIDE DEF s, u
<1> QED BY <1>2, <1>3, <1>4

\* A call that gives an entry counts it.
LEMMA GaveColl ==
  ASSUME catalog \in Catalogs, NEW lost \in Nat, NEW c \in lost .. Len(catalog.colls),
         NEW d \in 0 .. Len(catalog.replicas), c < Len(catalog.colls), mode.dataFirst \/ d = 0
  PROVE  Given(catalog, mode, lost, c + 1, d) =
           Append(Given(catalog, mode, lost, c, d), <<"coll", catalog.colls[c + 1].name>>)
<1>0. catalog.colls \in Seq([name : STRING, type : STRING]) /\ Len(catalog.colls) \in Nat
  BY DEF Catalogs
<1>1. DataGiven(catalog, mode, d) \in Seq(Entry) /\ DataGiven(catalog, mode, 0) = << >>
  BY DataGivenFacts
<1> DEFINE s == CollsGiven(catalog, lost, c)
           t == CollsGiven(catalog, lost, c + 1)
           u == DataGiven(catalog, mode, d)
           x == <<"coll", catalog.colls[c + 1].name>>
<1>2. s \in Seq(Entry) /\ t = Append(s, x)
  BY CollsGivenFacts, CollsGivenNext
<1>3. x \in Entry
  <2>1. c + 1 \in 1 .. Len(catalog.colls)
    BY <1>0
  <2>2. catalog.colls[c + 1] \in [name : STRING, type : STRING]
    BY <1>0, <2>1, ElementOfSeq
  <2> QED BY <2>2 DEF Entry
<1>4. u \in Seq(Entry) /\ (mode.dataFirst \/ u = << >>)
  BY <1>1
<1>5. /\ Given(catalog, mode, lost, c, d) = IF mode.dataFirst THEN u \o s ELSE s \o u
      /\ Given(catalog, mode, lost, c + 1, d) = IF mode.dataFirst THEN u \o t ELSE t \o u
  BY DEF Given
<1> HIDE DEF s, t, u, x
<1>6. u \o t = Append(u \o s, x) /\ (u = << >> => t \o u = Append(s \o u, x))
  BY <1>2, <1>3, <1>4
<1>7. Given(catalog, mode, lost, c + 1, d) = Append(Given(catalog, mode, lost, c, d), x)
  BY <1>4, <1>5, <1>6
<1> QED BY <1>7 DEF x

DataAdds(cat, m, d, e, x) == DataGiven(cat, m, e) = Append(DataGiven(cat, m, d), x)
LEMMA GaveData ==
  ASSUME catalog \in Catalogs, NEW c \in 0 .. Len(catalog.colls), NEW lost \in 0 .. c,
         NEW d \in 0 .. Len(catalog.replicas), NEW e \in 0 .. Len(catalog.replicas), NEW x,
         DataAdds(catalog, mode, d, e, x), ~mode.dataFirst \/ c = lost
  PROVE  Given(catalog, mode, lost, c, e) = Append(Given(catalog, mode, lost, c, d), x)
<1>0. Len(catalog.colls) \in Nat
  BY DEF Catalogs
<1>1. DataGiven(catalog, mode, d) \in Seq(Entry) /\ DataGiven(catalog, mode, e) \in Seq(Entry)
  BY DataGivenFacts
<1> DEFINE s == CollsGiven(catalog, lost, c)
           u == DataGiven(catalog, mode, d)
           v == DataGiven(catalog, mode, e)
<1>2. s \in Seq(Entry) /\ (c = lost => s = << >>)
  <2>1. lost \in Nat /\ c \in lost .. Len(catalog.colls)
    BY <1>0
  <2> QED BY <2>1, CollsGivenFacts
<1>3. u \in Seq(Entry) /\ v \in Seq(Entry) /\ v = Append(u, x)
  BY <1>1 DEF DataAdds
<1>4. /\ Given(catalog, mode, lost, c, d) = IF mode.dataFirst THEN u \o s ELSE s \o u
      /\ Given(catalog, mode, lost, c, e) = IF mode.dataFirst THEN v \o s ELSE s \o v
  BY DEF Given
<1> HIDE DEF s, u, v
<1>5. x \in Entry
  <2>1. Len(v) = Len(u) + 1 /\ v[Len(v)] = x /\ Len(v) \in 1 .. Len(v)
    BY <1>3
  <2> QED BY <1>3, <2>1, ElementOfSeq
<1>6. s \o v = Append(s \o u, x) /\ (s = << >> => v \o s = Append(u \o s, x))
  BY <1>2, <1>3, <1>5
<1> QED BY <1>2, <1>4, <1>6

\* What is given is more than nothing.
LEMMA GaveSome ==
  ASSUME NEW g \in Seq(Entry), NEW x
  PROVE  Append(g, x) # << >>
<1>1. g \in Seq(Entry \cup {x}) /\ x \in Entry \cup {x}
  BY SeqMonotonic
<1> QED BY <1>1, AppendProperties

\* Sub-collections first, in the data objects.
LEMMA CollsFirstData ==
  ASSUME catalog \in Catalogs, mode \in Modes, ~mode.dataFirst,
         NEW h \in Handles, h.state = "COLL_DATA_OBJ_QUERIED",
         NEW c \in 0 .. Len(catalog.colls), NEW d \in 0 .. Len(catalog.replicas),
         NEW fails, Single(fails), DataOrNone(h, d, fails),
         NEW g, g = Given(catalog, mode, 0, c, d), NEW fl \in Nat,
         Easy /\ ~AllColls(catalog, c) => fl > 0 \/ fails \cap {"coll", "collMore"} # {},
         NEW data, data = getNextDataObjMetaInfo(h, fails)
  PROVE  After(g, fl, fails, IF data.status = Ok THEN data ELSE Shut(data))
<1>1. /\ AStep(data) /\ data.h \in Handles /\ data.h.state = h.state
      /\ \/ /\ data.status = Ok
            /\ \E e \in d + 1 .. Len(catalog.replicas) :
                 /\ DataAt(catalog, mode, data.h, e)
                 /\ DataGiven(catalog, mode, e)
                      = Append(DataGiven(catalog, mode, d), data.entry)
         \/ /\ data.status \in {CAT_NO_ROWS_FOUND, Error}
            /\ Easy => \/ AllData(catalog, mode, d) /\ data.status = CAT_NO_ROWS_FOUND
                       \/ fails \cap {"data", "dataMore"} # {}
  BY StageData
<1>2. Len(catalog.replicas) \in Nat /\ Len(catalog.colls) \in Nat /\ g \in Seq(Entry)
  <2>1. Len(catalog.replicas) \in Nat /\ Len(catalog.colls) \in Nat
    BY DEF Catalogs
  <2>2. 0 \in Nat /\ c \in 0 .. Len(catalog.colls)
    OBVIOUS
  <2>3. Given(catalog, mode, 0, c, d) \in Seq(Entry)
    BY <2>2, GivenFacts
  <2> QED BY <2>1, <2>3
<1>3. fl = 0 /\ fails = {} /\ Easy => AllColls(catalog, c)
  OBVIOUS
<1>4. Count(fl, fails) \in Nat /\ (Count(fl, fails) = 0 => fl = 0 /\ fails = {})
  BY DEF Count
<1>5. CASE data.status = Ok
  <2>1. PICK e \in d + 1 .. Len(catalog.replicas) :
          /\ DataAt(catalog, mode, data.h, e)
          /\ DataGiven(catalog, mode, e) = Append(DataGiven(catalog, mode, d), data.entry)
    BY <1>1, <1>5 DEF Ok, CAT_NO_ROWS_FOUND, Error
  <2>2. e \in 0 .. Len(catalog.replicas) /\ 0 \in 0 .. c
    BY <1>2
  <2>3. Sofar(g, data) = Given(catalog, mode, 0, c, e) /\ Sofar(g, data) # << >>
    <3>1. Given(catalog, mode, 0, c, e) = Append(g, data.entry)
      <4> DEFINE x == data.entry
      <4>1. DataAdds(catalog, mode, d, e, x)
        BY <2>1 DEF DataAdds
      <4> HIDE DEF x
      <4>2. Given(catalog, mode, 0, c, e) = Append(Given(catalog, mode, 0, c, d), x)
        BY <2>2, <4>1, GaveData
      <4> QED BY <4>2 DEF x
    <3> QED BY <1>2, <1>5, <3>1, GaveSome DEF Sofar
  <2>4. WalkAt(catalog, mode, Easy, data.h, Sofar(g, data), data.status, Count(fl, fails), 0, c, e)
    BY <1>1, <1>2, <1>3, <1>4, <2>1, <2>3 DEF WalkAt, Phase, FirstWhole
  <2>5. WalkIn(catalog, mode, Easy, data.h, Sofar(g, data), data.status, Count(fl, fails))
    BY <1>1, <1>4, <1>5, <2>2, <2>3, <2>4, Zenon DEF WalkIn
  <2> QED BY <1>5, <2>5 DEF After
<1>6. CASE data.status # Ok
  <2> DEFINE r == Shut(data)
  <2>1. r.h \in Handles /\ r.h.state = "COLL_CLOSED" /\ r.status = data.status
    BY <1>1, ShutIs
  <2>2. Sofar(g, r) = g
    BY <1>6, <2>1 DEF Sofar
  <2>3. Easy => Whole(catalog, mode, g, r.status, Count(fl, fails), c, d)
    <3>1. Easy /\ Count(fl, fails) = 0 =>
            /\ r.status = CAT_NO_ROWS_FOUND
            /\ AllColls(catalog, c) /\ AllData(catalog, mode, d)
      BY <1>1, <1>3, <1>4, <1>6, <2>1
    <3>2. Easy /\ Count(fl, fails) = 1 => AllColls(catalog, c) \/ AllData(catalog, mode, d)
      BY <1>1, <1>6 DEF Count, Single
    <3> QED BY <3>1, <3>2 DEF Whole
  <2> HIDE DEF r
  <2>4. WalkAt(catalog, mode, Easy, r.h, Sofar(g, r), r.status, Count(fl, fails), 0, c, d)
    BY <1>2, <1>3, <1>4, <2>1, <2>2, <2>3 DEF WalkAt, Phase, FirstWhole
  <2>5. WalkIn(catalog, mode, Easy, r.h, Sofar(g, r), r.status, Count(fl, fails))
    BY <1>1, <1>4, <1>6, <2>1, <2>4, Zenon DEF WalkIn
  <2> QED BY <1>6, <2>5 DEF After, r
<1> QED BY <1>5, <1>6

\* Sub-collections first, in the sub-collections.
LEMMA CollsFirstColl ==
  ASSUME catalog \in Catalogs, mode \in Modes, ~mode.dataFirst,
         NEW h \in Handles, h.state = "COLL_COLL_OBJ_QUERIED",
         h.data = NoResult, h.prevdataId = -1, NEW c \in 0 .. Len(catalog.colls),
         NEW fails, Single(fails), CollsOrNone(h, c, fails),
         NEW g, g = Given(catalog, mode, 0, c, 0), NEW fl \in Nat,
         NEW coll, coll = getNextCollMetaInfo(h, fails),
         NEW h2, h2 = genDataResInColl(coll.h, fails).h,
         NEW data, data = getNextDataObjMetaInfo(h2, fails)
  PROVE  After(g, fl, fails, IF coll.status = Ok THEN coll
                             ELSE IF data.status = Ok THEN data ELSE Shut(data))
<1>1. /\ AStep(coll) /\ Beside(h, coll.h, "colls")
      /\ \/ /\ c < Len(catalog.colls) /\ CollsAt(catalog, coll.h, c + 1)
            /\ coll.status = Ok /\ coll.entry = <<"coll", catalog.colls[c + 1].name>>
         \/ /\ coll.status \in {CAT_NO_ROWS_FOUND, Error}
            /\ Easy => \/ AllColls(catalog, c) /\ coll.status = CAT_NO_ROWS_FOUND
                       \/ fails \cap {"coll", "collMore"} # {}
  BY StageColl
<1>2. Len(catalog.replicas) \in Nat /\ Len(catalog.colls) \in Nat
  BY DEF Catalogs
<1>3. coll.h \in Handles /\ coll.h.data = NoResult /\ coll.h.prevdataId = -1
      /\ coll.h.state = h.state
  BY <1>1 DEF Beside, Lists
<1>4. 0 \in Nat /\ c \in 0 .. Len(catalog.colls) /\ 0 \in 0 .. Len(catalog.replicas)
  BY <1>2
<1>5. CASE coll.status = Ok
  <2>1. /\ c < Len(catalog.colls) /\ CollsAt(catalog, coll.h, c + 1)
        /\ coll.entry = <<"coll", catalog.colls[c + 1].name>>
        /\ c + 1 \in 0 .. Len(catalog.colls) /\ 0 <= c + 1
    BY <1>1, <1>2, <1>5 DEF Ok, CAT_NO_ROWS_FOUND, Error
  <2>2. Sofar(g, coll) = Given(catalog, mode, 0, c + 1, 0) /\ Sofar(g, coll) # << >>
    <3>1. Given(catalog, mode, 0, c + 1, 0) =
            Append(Given(catalog, mode, 0, c, 0), <<"coll", catalog.colls[c + 1].name>>)
      BY <1>4, <2>1, GaveColl
    <3>2. Given(catalog, mode, 0, c, 0) \in Seq(Entry)
      BY <1>4, GivenFacts
    <3> QED BY <1>5, <2>1, <3>1, <3>2, GaveSome DEF Sofar
  <2>3. WalkAt(catalog, mode, Easy, coll.h, Sofar(g, coll), coll.status, Count(fl, fails),
               0, c + 1, 0)
    BY <1>3, <2>1, <2>2 DEF WalkAt, Phase, FirstWhole
  <2>4. Count(fl, fails) \in Nat
    BY DEF Count
  <2>5. WalkIn(catalog, mode, Easy, coll.h, Sofar(g, coll), coll.status, Count(fl, fails))
    BY <1>3, <1>4, <1>5, <2>1, <2>2, <2>3, <2>4, Zenon DEF WalkIn
  <2> QED BY <1>5, <2>5 DEF After
<1>6. CASE coll.status # Ok
  <2> DEFINE second == genDataResInColl(coll.h, fails)
  <2>1. /\ second.h \in Handles /\ second.h.state = "COLL_DATA_OBJ_QUERIED"
        /\ DataOrNone(second.h, 0, fails)
    BY <1>3, OpenData
  <2>2. h2 \in Handles /\ h2.state = "COLL_DATA_OBJ_QUERIED" /\ DataOrNone(h2, 0, fails)
    BY <2>1
  <2>3. Easy /\ ~AllColls(catalog, c) => fl > 0 \/ fails \cap {"coll", "collMore"} # {}
    BY <1>1, <1>6
  <2> HIDE DEF second
  <2>4. After(g, fl, fails, IF data.status = Ok THEN data ELSE Shut(data))
    BY <1>4, <2>2, <2>3, CollsFirstData
  <2> QED BY <1>6, <2>4
<1> QED BY <1>5, <1>6

LEMMA ReadCollsFirst ==
  ASSUME catalog \in Catalogs, mode \in Modes, ~mode.dataFirst,
         NEW h, h.state # "COLL_CLOSED", NEW g, NEW st, NEW fl,
         WalkIn(catalog, mode, Easy, h, g, st, fl), NEW fails, Single(fails)
  PROVE  After(g, fl, fails, readCollsFirst(h, fails))
<1> DEFINE first == genCollResInColl(h, fails)
           h1 == IF In(h, "COLL_OPENED") THEN first.h ELSE h
           coll == getNextCollMetaInfo(h1, fails)
           second == genDataResInColl(coll.h, fails)
           h2 == IF In(h1, "COLL_COLL_OBJ_QUERIED") THEN second.h ELSE h1
           data == getNextDataObjMetaInfo(h2, fails)
<1>1. readCollsFirst(h, fails) =
        IF In(h1, "COLL_COLL_OBJ_QUERIED") /\ coll.status = Ok THEN coll
        ELSE IF data.status = Ok THEN data ELSE Shut(data)
  BY Zenon DEF readCollsFirst
<1>2. h \in Handles /\ fl \in Nat
  BY DEF WalkIn
<1>3. PICK lost \in {0, 1}, c \in 0 .. Len(catalog.colls), d \in 0 .. Len(catalog.replicas) :
        WalkAt(catalog, mode, Easy, h, g, st, fl, lost, c, d)
  BY Zenon DEF WalkIn
<1>4. lost = 0 /\ g = Given(catalog, mode, 0, c, d) /\ Phase(catalog, mode, Easy, h, st, fl, 0, c, d)
  BY <1>3 DEF WalkAt
<1>5. ASSUME h1 \in Handles, h1.state = "COLL_COLL_OBJ_QUERIED", h1.data = NoResult,
             h1.prevdataId = -1, CollsOrNone(h1, c, fails), d = 0
      PROVE  After(g, fl, fails, readCollsFirst(h, fails))
  <2>1. g = Given(catalog, mode, 0, c, 0) /\ h2 = genDataResInColl(coll.h, fails).h
    BY <1>4, <1>5 DEF In
  <2>2. coll = getNextCollMetaInfo(h1, fails) /\ data = getNextDataObjMetaInfo(h2, fails)
    OBVIOUS
  <2>3. In(h1, "COLL_COLL_OBJ_QUERIED")
    BY <1>5 DEF In
  <2> HIDE DEF first, h1, coll, second, h2, data
  <2>4. After(g, fl, fails, IF coll.status = Ok THEN coll
                            ELSE IF data.status = Ok THEN data ELSE Shut(data))
    BY <1>2, <1>5, <2>1, <2>2, CollsFirstColl
  <2> QED BY <1>1, <2>3, <2>4
<1>6. CASE h.state = "COLL_OPENED"
  <2>1. h = OpenedHandle /\ c = 0 /\ d = 0
    BY <1>4, <1>6 DEF Phase
  <2>2. h.colls = NoResult /\ h.data = NoResult /\ h.prevdataId = -1
    BY <2>1 DEF OpenedHandle, Closed
  <2>3. /\ first.h \in Handles /\ first.h.state = "COLL_COLL_OBJ_QUERIED"
        /\ first.h.data = h.data /\ first.h.prevdataId = h.prevdataId
        /\ CollsOrNone(first.h, 0, fails)
    BY <1>2, <2>2, OpenColls
  <2>4. h1 = first.h
    BY <1>6 DEF In
  <2> HIDE DEF first, h1, coll, second, h2, data
  <2> QED BY <1>5, <2>1, <2>2, <2>3, <2>4
<1>7. CASE h.state = "COLL_COLL_OBJ_QUERIED"
  <2>1. h1 = h
    BY <1>7 DEF In
  <2>2. CollsAt(catalog, h, c) /\ d = 0 /\ h.data = NoResult /\ h.prevdataId = -1
    BY <1>4, <1>7 DEF Phase
  <2> HIDE DEF first, h1, coll, second, h2, data
  <2> QED BY <1>2, <1>5, <1>7, <2>1, <2>2 DEF CollsOrNone
<1>8. CASE h.state = "COLL_DATA_OBJ_QUERIED"
  <2>1. h1 = h /\ ~In(h1, "COLL_COLL_OBJ_QUERIED") /\ h2 = h1
    BY <1>8 DEF In
  <2>2. DataAt(catalog, mode, h, d) /\ (Easy /\ fl = 0 => AllColls(catalog, c))
    BY <1>4, <1>8 DEF Phase
  <2>3. data = getNextDataObjMetaInfo(h, fails)
    BY <2>1
  <2> HIDE DEF first, h1, coll, second, h2, data
  <2>4. DataOrNone(h, d, fails) /\ (Easy /\ ~AllColls(catalog, c) => fl > 0)
    BY <1>2, <2>2 DEF DataOrNone
  <2>5. After(g, fl, fails, IF data.status = Ok THEN data ELSE Shut(data))
    BY <1>2, <1>4, <1>8, <2>3, <2>4, CollsFirstData
  <2> QED BY <1>1, <2>1, <2>5
<1> QED BY <1>2, <1>6, <1>7, <1>8 DEF Handles

\* Data objects first: what a call returns of the sub-collections, with the
\* error saved of a query that failed.
Ended(coll) == IF coll.status = Ok THEN coll ELSE Shut(coll)
Returned(coll, saved) == [Ended(coll) EXCEPT !.status = IF saved THEN Error ELSE @]

LEMMA ReturnedIs ==
  ASSUME NEW coll, AStep(coll), coll.h \in Handles, NEW saved \in BOOLEAN,
         NEW r, r = Returned(coll, saved)
  PROVE  /\ r.status = IF saved THEN Error ELSE coll.status
         /\ coll.status = Ok => r.h = coll.h /\ r.entry = coll.entry
         /\ coll.status # Ok => r.h \in Handles /\ r.h.state = "COLL_CLOSED"
<1>1. AStep(Ended(coll)) /\ Ended(coll).status = coll.status
  BY ShutIs DEF Ended
<1>2. /\ coll.status = Ok => Ended(coll) = coll
      /\ coll.status # Ok => Ended(coll).h \in Handles /\ Ended(coll).h.state = "COLL_CLOSED"
  BY ShutIs DEF Ended
<1>3. /\ r.status = IF saved THEN Error ELSE Ended(coll).status
      /\ r.h = Ended(coll).h /\ r.entry = Ended(coll).entry
  BY <1>1 DEF Returned, AStep
<1> QED BY <1>1, <1>2, <1>3

\* An error is saved of a failing query, and nothing was given before it, or no
\* sub-collection is given after it.
MaySave(h, c, d, fails) == fails # {} /\ (h.colls = NoResult \/ (c = 0 /\ d = 0))

\* Data objects first, in the sub-collections.
LEMMA DataFirstColl ==
  ASSUME catalog \in Catalogs, mode \in Modes, mode.dataFirst,
         NEW h \in Handles, h.state = "COLL_COLL_OBJ_QUERIED",
         NEW c \in 0 .. Len(catalog.colls), NEW lost \in {0, 1}, lost <= c,
         NEW d \in 0 .. Len(catalog.replicas),
         NEW fails, Single(fails), CollsOrNone(h, c, fails),
         NEW g, g = Given(catalog, mode, lost, c, d), NEW fl \in Nat, lost # 0 => fl > 0,
         NEW saved \in BOOLEAN,
         saved => MaySave(h, c, d, fails),
         Easy /\ fl = 0 /\ fails = {} => AllData(catalog, mode, d),
         NEW coll, coll = getNextCollMetaInfo(h, fails), NEW r, r = Returned(coll, saved)
  PROVE  After(g, fl, fails, r)
<1>1. /\ AStep(coll) /\ Beside(h, coll.h, "colls")
      /\ \/ /\ c < Len(catalog.colls) /\ CollsAt(catalog, coll.h, c + 1)
            /\ coll.status = Ok /\ coll.entry = <<"coll", catalog.colls[c + 1].name>>
         \/ /\ coll.status \in {CAT_NO_ROWS_FOUND, Error}
            /\ Easy => \/ AllColls(catalog, c) /\ coll.status = CAT_NO_ROWS_FOUND
                       \/ fails \cap {"coll", "collMore"} # {}
      /\ h.colls = NoResult => coll.status # Ok
  BY StageColl
<1>2. Len(catalog.replicas) \in Nat /\ Len(catalog.colls) \in Nat
  BY DEF Catalogs
<1>3. coll.h \in Handles /\ coll.h.state = h.state
  BY <1>1 DEF Beside
<1>4. /\ r.status = IF saved THEN Error ELSE coll.status
      /\ coll.status = Ok => r.h = coll.h /\ r.entry = coll.entry
      /\ coll.status # Ok => r.h \in Handles /\ r.h.state = "COLL_CLOSED"
  BY <1>1, <1>3, ReturnedIs
<1>5. lost \in Nat /\ c \in lost .. Len(catalog.colls)
  BY <1>2
<1>6. Count(fl, fails) \in Nat /\ (Count(fl, fails) = 0 => fl = 0 /\ fails = {})
  BY DEF Count
<1>7. CASE coll.status = Ok /\ ~saved
  <2>1. /\ c < Len(catalog.colls) /\ CollsAt(catalog, r.h, c + 1)
        /\ r.entry = <<"coll", catalog.colls[c + 1].name>>
        /\ c + 1 \in 0 .. Len(catalog.colls) /\ lost <= c + 1
        /\ r.h \in Handles /\ r.h.state = h.state /\ r.status = Ok
    BY <1>1, <1>2, <1>3, <1>4, <1>7 DEF Ok, CAT_NO_ROWS_FOUND, Error
  <2>2. Sofar(g, r) = Given(catalog, mode, lost, c + 1, d) /\ Sofar(g, r) # << >>
    <3>1. Given(catalog, mode, lost, c + 1, d) =
            Append(Given(catalog, mode, lost, c, d), <<"coll", catalog.colls[c + 1].name>>)
      BY <1>5, <2>1, GaveColl
    <3>2. Given(catalog, mode, lost, c, d) \in Seq(Entry)
      BY <1>5, GivenFacts
    <3> QED BY <2>1, <3>1, <3>2, GaveSome DEF Sofar
  <2>3. lost # 0 => Count(fl, fails) > 0
    BY <1>6
  <2>4. WalkAt(catalog, mode, Easy, r.h, Sofar(g, r), r.status, Count(fl, fails),
               lost, c + 1, d)
    BY <1>6, <2>1, <2>2, <2>3 DEF WalkAt, Phase, FirstWhole
  <2>5. WalkIn(catalog, mode, Easy, r.h, Sofar(g, r), r.status, Count(fl, fails))
    BY <1>6, <2>1, <2>2, <2>4, Zenon DEF WalkIn
  <2> QED BY <2>5 DEF After
<1>8. CASE coll.status = Ok /\ saved
  <2>1. /\ c = 0 /\ d = 0 /\ lost = 0 /\ CollsAt(catalog, r.h, 1) /\ fails # {}
        /\ 1 \in 0 .. Len(catalog.colls) /\ 0 \in 0 .. Len(catalog.replicas) /\ 1 <= 1
        /\ r.h \in Handles /\ r.h.state = h.state /\ r.status = Error
    <3>1. /\ h.colls # NoResult /\ c < Len(catalog.colls) /\ CollsAt(catalog, coll.h, c + 1)
          /\ coll.h = r.h /\ r.status = Error
      BY <1>1, <1>4, <1>8 DEF Ok, CAT_NO_ROWS_FOUND, Error
    <3>2. c = 0 /\ d = 0 /\ fails # {}
      BY <1>8, <3>1 DEF MaySave
    <3>3. lost = 0 /\ c + 1 = 1
      BY <1>5, <3>2
    <3> QED BY <1>2, <1>3, <3>1, <3>2, <3>3
  <2>2. g = Given(catalog, mode, 1, 1, 0)
    <3>1. Given(catalog, mode, 0, 0, 0) = << >>
      BY <1>2, GivenFacts
    <3>2. Given(catalog, mode, 1, 1, 0) = << >>
      <4>1. 1 \in Nat /\ 1 \in 1 .. Len(catalog.colls) /\ 0 \in 0 .. Len(catalog.replicas)
        BY <1>2, <2>1
      <4> QED BY <4>1, GivenFacts
    <3> QED BY <2>1, <3>1, <3>2
  <2>3. Sofar(g, r) = g /\ Count(fl, fails) > 0
    BY <2>1 DEF Sofar, Ok, Error, Count
  <2>4. WalkAt(catalog, mode, Easy, r.h, Sofar(g, r), r.status, Count(fl, fails), 1, 1, 0)
    BY <2>1, <2>2, <2>3 DEF WalkAt, Phase, FirstWhole
  <2>5. Error # Ok /\ Count(fl, fails) # 0 /\ 1 \in {0, 1}
    BY <2>3 DEF Error, Ok
  <2>6. WalkIn(catalog, mode, Easy, r.h, Sofar(g, r), r.status, Count(fl, fails))
    BY <1>6, <2>1, <2>4, <2>5, Zenon DEF WalkIn
  <2> QED BY <2>6 DEF After
<1>9. CASE coll.status # Ok
  <2>1. /\ r.h \in Handles /\ r.h.state = "COLL_CLOSED" /\ r.status # Ok
        /\ r.status \in {CAT_NO_ROWS_FOUND, Error}
    BY <1>1, <1>4, <1>9 DEF Ok, CAT_NO_ROWS_FOUND, Error
  <2>2. Sofar(g, r) = g
    BY <2>1 DEF Sofar
  <2>3. lost # 0 => Count(fl, fails) > 0
    BY <1>6
  <2>4. Easy /\ Count(fl, fails) = 0 =>
          /\ r.status = CAT_NO_ROWS_FOUND
          /\ AllColls(catalog, c) /\ AllData(catalog, mode, d)
    BY <1>1, <1>4, <1>6, <1>9 DEF MaySave
  <2>5. WalkAt(catalog, mode, Easy, r.h, Sofar(g, r), r.status, Count(fl, fails), lost, c, d)
    BY <2>1, <2>2, <2>3, <2>4 DEF WalkAt, Phase, FirstWhole, Whole
  <2>6. WalkIn(catalog, mode, Easy, r.h, Sofar(g, r), r.status, Count(fl, fails))
    BY <1>6, <2>1, <2>5, Zenon DEF WalkIn
  <2> QED BY <2>6 DEF After
<1> QED BY <1>7, <1>8, <1>9

\* Data objects first, in the data objects.
LEMMA DataFirstData ==
  ASSUME catalog \in Catalogs, mode \in Modes, mode.dataFirst,
         NEW h \in Handles, h.state = "COLL_DATA_OBJ_QUERIED", h.colls = NoResult,
         NEW d \in 0 .. Len(catalog.replicas),
         NEW fails, Single(fails), DataOrNone(h, d, fails),
         NEW g, g = Given(catalog, mode, 0, 0, d), NEW fl \in Nat,
         NEW saved \in BOOLEAN, saved => fails # {} /\ d = 0,
         NEW data, data = getNextDataObjMetaInfo(h, fails),
         NEW second, second = genCollResInColl(data.h, fails),
         NEW coll, coll = getNextCollMetaInfo(second.h, fails),
         NEW r, r = IF data.status = Ok THEN data
                    ELSE Returned(coll, saved \/ second.status = Error)
  PROVE  After(g, fl, fails, r)
<1>1. /\ AStep(data) /\ data.h \in Handles /\ data.h.state = h.state /\ data.h.colls = h.colls
      /\ \/ /\ data.status = Ok
            /\ \E e \in d + 1 .. Len(catalog.replicas) :
                 /\ DataAt(catalog, mode, data.h, e)
                 /\ DataGiven(catalog, mode, e)
                      = Append(DataGiven(catalog, mode, d), data.entry)
         \/ /\ data.status \in {CAT_NO_ROWS_FOUND, Error}
            /\ Easy => \/ AllData(catalog, mode, d) /\ data.status = CAT_NO_ROWS_FOUND
                       \/ fails \cap {"data", "dataMore"} # {}
  BY StageData
<1>2. Len(catalog.replicas) \in Nat /\ Len(catalog.colls) \in Nat
  BY DEF Catalogs
<1>3. 0 \in Nat /\ 0 \in 0 .. Len(catalog.colls) /\ 0 \in 0 .. 0 /\ 0 \in {0, 1} /\ 0 <= 0
  BY <1>2
<1>4. CASE data.status = Ok
  <2>1. PICK e \in d + 1 .. Len(catalog.replicas) :
          /\ DataAt(catalog, mode, data.h, e)
          /\ DataGiven(catalog, mode, e) = Append(DataGiven(catalog, mode, d), data.entry)
    BY <1>1, <1>4 DEF Ok, CAT_NO_ROWS_FOUND, Error
  <2>2. e \in 0 .. Len(catalog.replicas)
    BY <1>2
  <2>3. Sofar(g, data) = Given(catalog, mode, 0, 0, e) /\ Sofar(g, data) # << >>
    <3>1. Given(catalog, mode, 0, 0, e) = Append(g, data.entry)
      <4> DEFINE x == data.entry
      <4>1. DataAdds(catalog, mode, d, e, x)
        BY <2>1 DEF DataAdds
      <4> HIDE DEF x
      <4>2. Given(catalog, mode, 0, 0, e) = Append(Given(catalog, mode, 0, 0, d), x)
        BY <1>3, <2>2, <4>1, GaveData
      <4> QED BY <4>2 DEF x
    <3>2. Given(catalog, mode, 0, 0, d) \in Seq(Entry)
      BY <1>2, GivenFacts
    <3> QED BY <1>4, <3>1, <3>2, GaveSome DEF Sofar
  <2>4. Count(fl, fails) \in Nat
    BY DEF Count
  <2>5. WalkAt(catalog, mode, Easy, data.h, Sofar(g, data), data.status, Count(fl, fails), 0, 0, e)
    BY <1>1, <2>1, <2>3 DEF WalkAt, Phase, FirstWhole
  <2>6. WalkIn(catalog, mode, Easy, data.h, Sofar(g, data), data.status, Count(fl, fails))
    BY <1>1, <1>3, <1>4, <2>2, <2>3, <2>4, <2>5, Zenon DEF WalkIn
  <2>7. r = data
    BY <1>4
  <2> QED BY <2>6, <2>7 DEF After
<1>5. CASE data.status # Ok
  <2> DEFINE h2 == second.h
             both == saved \/ second.status = Error
  <2>1. /\ h2 \in Handles /\ h2.state = "COLL_COLL_OBJ_QUERIED" /\ CollsOrNone(h2, 0, fails)
        /\ second.status = Error => "coll" \in fails /\ h2.colls = NoResult
    BY <1>1, OpenColls
  <2>2. both \in BOOLEAN /\ r = Returned(coll, both) /\ coll = getNextCollMetaInfo(h2, fails)
    BY <1>5
  <2>4. both => MaySave(h2, 0, d, fails)
    <3>1. saved => fails # {} /\ d = 0
      OBVIOUS
    <3>2. second.status = Error => fails # {} /\ h2.colls = NoResult
      BY <2>1
    <3> QED BY <3>1, <3>2 DEF MaySave
  <2>3. Easy /\ fl = 0 /\ fails = {} => AllData(catalog, mode, d)
    BY <1>1, <1>5
  <2> HIDE DEF h2, both
  <2> QED BY <1>3, <2>1, <2>2, <2>3, <2>4, DataFirstColl
<1> QED BY <1>4, <1>5

LEMMA ReadDataFirst ==
  ASSUME catalog \in Catalogs, mode \in Modes, mode.dataFirst,
         NEW h, h.state # "COLL_CLOSED", NEW g, NEW st, NEW fl,
         WalkIn(catalog, mode, Easy, h, g, st, fl), NEW fails, Single(fails)
  PROVE  After(g, fl, fails, readDataFirst(h, fails))
<1> DEFINE first == genDataResInColl(h, fails)
           h1 == IF In(h, "COLL_OPENED") THEN first.h ELSE h
           data == getNextDataObjMetaInfo(h1, fails)
           second == genCollResInColl(data.h, fails)
           h2 == IF In(h1, "COLL_DATA_OBJ_QUERIED") THEN second.h ELSE h1
           coll == getNextCollMetaInfo(h2, fails)
           savedStatus == \/ In(h, "COLL_OPENED") /\ first.status = Error
                          \/ In(h1, "COLL_DATA_OBJ_QUERIED") /\ second.status = Error
           r == readDataFirst(h, fails)
<1>1. r = IF In(h1, "COLL_DATA_OBJ_QUERIED") /\ data.status = Ok THEN data
          ELSE Returned(coll, savedStatus)
  BY Zenon DEF readDataFirst, Returned, Ended
<1>2. h \in Handles /\ fl \in Nat
  BY DEF WalkIn
<1>3. PICK lost \in {0, 1}, c \in 0 .. Len(catalog.colls), d \in 0 .. Len(catalog.replicas) :
        WalkAt(catalog, mode, Easy, h, g, st, fl, lost, c, d)
  BY Zenon DEF WalkIn
<1>4. /\ lost <= c /\ (lost # 0 => fl > 0) /\ g = Given(catalog, mode, lost, c, d)
      /\ Phase(catalog, mode, Easy, h, st, fl, lost, c, d)
  BY <1>3 DEF WalkAt
<1>5. ASSUME NEW saved \in BOOLEAN, h1 \in Handles, h1.state = "COLL_DATA_OBJ_QUERIED",
             h1.colls = NoResult, DataOrNone(h1, d, fails), c = 0, lost = 0,
             saved => fails # {} /\ d = 0, savedStatus <=> saved \/ second.status = Error
      PROVE  After(g, fl, fails, r)
  <2>1. g = Given(catalog, mode, 0, 0, d) /\ h2 = second.h
    BY <1>4, <1>5 DEF In
  <2>2. /\ data = getNextDataObjMetaInfo(h1, fails) /\ coll = getNextCollMetaInfo(h2, fails)
        /\ second = genCollResInColl(data.h, fails)
    OBVIOUS
  <2>3. In(h1, "COLL_DATA_OBJ_QUERIED")
    BY <1>5 DEF In
  <2>4. savedStatus = (saved \/ second.status = Error)
    BY <1>5
  <2> HIDE DEF first, h1, coll, second, h2, data, savedStatus, r
  <2>5. r = IF data.status = Ok THEN data ELSE Returned(coll, saved \/ second.status = Error)
    BY <1>1, <2>3, <2>4
  <2>6. coll = getNextCollMetaInfo(second.h, fails)
    BY <2>1, <2>2
  <2> QED BY <1>2, <1>5, <2>1, <2>2, <2>5, <2>6, DataFirstData
<1>6. CASE h.state = "COLL_OPENED"
  <2>1. h = OpenedHandle /\ c = 0 /\ d = 0 /\ lost = 0
    BY <1>4, <1>6 DEF Phase
  <2>2. h.colls = NoResult /\ h.data = NoResult /\ h.prevdataId = -1
    BY <2>1 DEF OpenedHandle, Closed
  <2>3. /\ first.h \in Handles /\ first.h.state = "COLL_DATA_OBJ_QUERIED"
        /\ first.h.colls = h.colls /\ DataOrNone(first.h, 0, fails)
        /\ first.status = Error => "data" \in fails
    BY <1>2, <2>2, OpenData
  <2>4. h1 = first.h /\ In(h, "COLL_OPENED") /\ In(h1, "COLL_DATA_OBJ_QUERIED")
    BY <1>6, <2>3 DEF In
  <2>5. savedStatus <=> (first.status = Error) \/ second.status = Error
    BY <2>4
  <2>6. (first.status = Error) \in BOOLEAN /\ (first.status = Error => fails # {} /\ d = 0)
    BY <2>1, <2>3
  <2> HIDE DEF first, h1, coll, second, h2, data, savedStatus, r
  <2>7. h1.colls = NoResult /\ h1 \in Handles /\ h1.state = "COLL_DATA_OBJ_QUERIED"
        /\ DataOrNone(h1, d, fails)
    BY <2>1, <2>2, <2>3, <2>4
  <2> DEFINE failed == first.status = Error
  <2>8. /\ failed \in BOOLEAN /\ (failed => fails # {} /\ d = 0)
        /\ (savedStatus <=> failed \/ second.status = Error)
    BY <2>5, <2>6
  <2> HIDE DEF failed
  <2> QED BY <1>5, <2>1, <2>7, <2>8, Zenon DEF r
<1>7. CASE h.state = "COLL_DATA_OBJ_QUERIED"
  <2>1. h1 = h /\ ~In(h, "COLL_OPENED") /\ In(h1, "COLL_DATA_OBJ_QUERIED")
    BY <1>7 DEF In
  <2>2. DataAt(catalog, mode, h, d) /\ c = 0 /\ lost = 0 /\ h.colls = NoResult
    BY <1>4, <1>7 DEF Phase
  <2>3. savedStatus <=> FALSE \/ second.status = Error
    BY <2>1
  <2> HIDE DEF first, h1, coll, second, h2, data, savedStatus, r
  <2>4. DataOrNone(h1, d, fails)
    BY <2>1, <2>2 DEF DataOrNone
  <2> DEFINE failed == FALSE
  <2>5. /\ failed \in BOOLEAN /\ (failed => fails # {} /\ d = 0)
        /\ (savedStatus <=> failed \/ second.status = Error)
    BY <2>3
  <2> HIDE DEF failed
  <2>6. h1 \in Handles /\ h1.state = "COLL_DATA_OBJ_QUERIED" /\ h1.colls = NoResult
    BY <1>2, <1>7, <2>1, <2>2
  <2> QED BY <1>5, <2>2, <2>4, <2>5, <2>6, Zenon DEF r
<1>8. CASE h.state = "COLL_COLL_OBJ_QUERIED"
  <2>1. h1 = h /\ h2 = h /\ ~In(h1, "COLL_DATA_OBJ_QUERIED") /\ ~savedStatus
    BY <1>8 DEF In
  <2>2. CollsOrNone(h, c, fails) /\ (Easy /\ fl = 0 => AllData(catalog, mode, d))
    BY <1>4, <1>8 DEF Phase, CollsOrNone
  <2>3. coll = getNextCollMetaInfo(h, fails)
    BY <2>1
  <2>4. savedStatus \in BOOLEAN /\ r = Returned(coll, savedStatus)
    BY <1>1, <2>1
  <2> HIDE DEF first, h1, coll, second, h2, data, savedStatus, r
  <2>5. savedStatus => MaySave(h, c, d, fails)
    BY <2>1
  <2> QED BY <1>2, <1>4, <1>8, <2>2, <2>3, <2>4, <2>5, DataFirstColl DEF r
<1> QED BY <1>2, <1>6, <1>7, <1>8 DEF Handles

-----------------------------------------------------------------------------
(* The invariant is inductive.                                             *)

LEMMA InvCatalogs ==
  ASSUME catalog \in [colls : SubColls, replicas : Replicas]
  PROVE  catalog \in Catalogs
<1>1. catalog.colls \in SubColls /\ catalog.replicas \in Replicas
  OBVIOUS
<1> QED BY <1>1, CatalogAssumption DEF Catalogs

\* Nothing given yet, and nothing failed.
LEMMA NothingGiven ==
  ASSUME catalog \in Catalogs
  PROVE  /\ 0 \in {0, 1} /\ 0 \in 0 .. Len(catalog.colls) /\ 0 \in 0 .. Len(catalog.replicas)
         /\ Given(catalog, mode, 0, 0, 0) = << >>
<1>1. Len(catalog.colls) \in Nat /\ Len(catalog.replicas) \in Nat
  BY DEF Catalogs
<1>2. 0 \in 0 .. Len(catalog.colls) /\ 0 \in 0 .. Len(catalog.replicas)
  BY <1>1
<1> QED BY <1>2, GivenFacts

LEMMA ClosedIs == Closed \in Handles /\ Closed.state = "COLL_CLOSED"
BY NoResultFacts DEF Closed, Handles

LEMMA CollInitInv == CollInit => CollInv
<1> SUFFICES ASSUME CollInit PROVE CollInv
  OBVIOUS
<1>1. /\ catalog \in [colls : SubColls, replicas : Replicas] /\ mode \in Modes
      /\ handle = Closed /\ got = << >> /\ status = Ok /\ failures = 0
  BY DEF CollInit, Modes
<1>2. catalog \in Catalogs
  BY <1>1, InvCatalogs
<1>3. /\ 0 \in {0, 1} /\ 0 \in 0 .. Len(catalog.colls) /\ 0 \in 0 .. Len(catalog.replicas)
      /\ got = Given(catalog, mode, 0, 0, 0)
  BY <1>1, <1>2, NothingGiven
<1>4. handle \in Handles /\ handle.state = "COLL_CLOSED"
  BY <1>1, ClosedIs
<1>5. WalkAt(catalog, mode, Easy, handle, got, status, failures, 0, 0, 0)
  BY <1>1, <1>3, <1>4 DEF WalkAt, Phase, FirstWhole, Whole
<1>6. WalkIn(catalog, mode, Easy, handle, got, status, failures)
  BY <1>1, <1>3, <1>4, <1>5, Zenon DEF WalkIn
<1> QED BY <1>1, <1>6 DEF CollInv

\* The catalog and the way of walking stay.
LEMMA SameWalk ==
  ASSUME CollInv, UNCHANGED <<catalog, mode>>,
         WalkIn(catalog, mode, Easy, handle', got', status', failures')
  PROVE  CollInv'
<1>1. Easy' = Easy
  BY DEF Easy, UnknownType, ManyPages, AllReplicas, Straddling
<1>2. WalkIn(catalog, mode, Easy, handle, got, status, failures)'
  BY <1>1
<1> QED BY <1>2 DEF CollInv

LEMMA OpenStep == CollInv /\ rclOpenCollection => CollInv'
<1> SUFFICES ASSUME CollInv, rclOpenCollection PROVE CollInv'
  OBVIOUS
<1>1. /\ got = << >> /\ status = Ok /\ UNCHANGED <<catalog, mode, got, failures>>
      /\ \/ handle' = OpenedHandle /\ status' = Ok
         \/ handle' = Closed /\ status' = Error
  BY DEF rclOpenCollection, OpenedHandle
<1>2. catalog \in Catalogs /\ failures = 0
  BY <1>1, InvCatalogs DEF CollInv, WalkIn
<1>3. /\ 0 \in {0, 1} /\ 0 \in 0 .. Len(catalog.colls) /\ 0 \in 0 .. Len(catalog.replicas)
      /\ got' = Given(catalog, mode, 0, 0, 0)
  BY <1>1, <1>2, NothingGiven
<1>4. OpenedHandle \in Handles /\ OpenedHandle.state = "COLL_OPENED"
  BY ClosedIs DEF OpenedHandle, Handles
<1>5. /\ handle' \in Handles /\ status' \in {Ok, CAT_NO_ROWS_FOUND, Error} /\ failures' = 0
      /\ handle'.state # "COLL_CLOSED" => status' = Ok
  BY <1>1, <1>2, <1>4, ClosedIs
<1>6. WalkAt(catalog, mode, Easy, handle', got', status', failures', 0, 0, 0)
  <2>1. CASE handle' = OpenedHandle /\ status' = Ok
    <3>1. handle'.state = "COLL_OPENED"
      BY <1>4, <2>1
    <3>2. Phase(catalog, mode, Easy, handle', status', failures', 0, 0, 0)
      BY <1>5, <2>1, <3>1 DEF Phase
    <3>3. FirstWhole(catalog, mode, 0, 0)
      BY DEF FirstWhole
    <3> QED BY <1>3, <1>5, <3>1, <3>2, <3>3 DEF WalkAt
  <2>2. CASE handle' = Closed /\ status' = Error
    BY <1>1, <1>3, <1>5, <2>2, ClosedIs DEF WalkAt, Phase, FirstWhole, Whole
  <2> QED BY <1>1, <2>1, <2>2
<1>7. WalkIn(catalog, mode, Easy, handle', got', status', failures')
  BY <1>3, <1>5, <1>6, Zenon DEF WalkIn
<1> QED BY <1>1, <1>7, SameWalk

LEMMA ReadStep == CollInv /\ rclReadCollection => CollInv'
<1> SUFFICES ASSUME CollInv, rclReadCollection PROVE CollInv'
  OBVIOUS
<1>1. /\ catalog \in Catalogs /\ mode \in Modes
      /\ WalkIn(catalog, mode, Easy, handle, got, status, failures)
  BY InvCatalogs DEF CollInv
<1>2. PICK query \in {"none", "coll", "collMore", "data", "dataMore"} :
        LET fails == IF query = "none" THEN {} ELSE {query}
            read == readCollection(handle, fails)
        IN /\ ~In(handle, "COLL_CLOSED")
           /\ handle' = read.h
           /\ status' = read.status
           /\ got' = IF read.status = Ok THEN Append(got, read.entry) ELSE got
           /\ failures' = IF query = "none" THEN failures ELSE failures + 1
           /\ UNCHANGED <<catalog, mode>>
  BY Zenon DEF rclReadCollection
<1> DEFINE fails == IF query = "none" THEN {} ELSE {query}
           read == readCollection(handle, fails)
<1>3. Single(fails) /\ failures' = Count(failures, fails)
  BY <1>2 DEF Single, Count
<1>4. handle.state # "COLL_CLOSED"
  BY <1>2 DEF In
<1>5. read = IF mode.dataFirst THEN readDataFirst(handle, fails) ELSE readCollsFirst(handle, fails)
  <2> HIDE DEF fails
  <2> QED BY <1>4, Zenon DEF readCollection, In
<1>6. /\ handle' = read.h /\ status' = read.status /\ got' = Sofar(got, read)
      /\ UNCHANGED <<catalog, mode>>
  BY <1>2, Zenon DEF Sofar
<1> HIDE DEF fails, read
<1>7. After(got, failures, fails, read)
  <2>1. CASE mode.dataFirst
    <3>1. After(got, failures, fails, readDataFirst(handle, fails))
      BY <1>1, <1>3, <1>4, <2>1, ReadDataFirst
    <3> QED BY <1>5, <2>1, <3>1
  <2>2. CASE ~mode.dataFirst
    <3>1. After(got, failures, fails, readCollsFirst(handle, fails))
      BY <1>1, <1>3, <1>4, <2>2, ReadCollsFirst
    <3> QED BY <1>5, <2>2, <3>1
  <2> QED BY <2>1, <2>2
<1>8. WalkIn(catalog, mode, Easy, handle', got', status', failures')
  BY <1>3, <1>6, <1>7 DEF After
<1> QED BY <1>6, <1>8, SameWalk

LEMMA CloseStep == CollInv /\ rclCloseCollection => CollInv'
<1> SUFFICES ASSUME CollInv, rclCloseCollection PROVE CollInv'
  OBVIOUS
<1>1. /\ handle.state # "COLL_CLOSED"
      /\ handle' = [Closed EXCEPT !.prevdataId = handle.prevdataId]
      /\ UNCHANGED <<catalog, mode, got, status, failures>>
  BY DEF rclCloseCollection, In
<1>2. /\ handle \in Handles /\ status \in {Ok, CAT_NO_ROWS_FOUND, Error} /\ failures \in Nat
      /\ status = Ok /\ got = << >> => failures = 0
      /\ failures = 0 \/ ~mode.dataFirst => status = Ok
  BY <1>1 DEF CollInv, WalkIn
<1>3. handle' \in Handles /\ handle'.state = "COLL_CLOSED"
  BY <1>1, <1>2, ClosedIs DEF Handles
<1>4. PICK lost \in {0, 1}, c \in 0 .. Len(catalog.colls), d \in 0 .. Len(catalog.replicas) :
        WalkAt(catalog, mode, Easy, handle, got, status, failures, lost, c, d)
  BY Zenon DEF CollInv, WalkIn
<1>5. WalkAt(catalog, mode, Easy, handle', got', status', failures', lost, c, d)
  <2>1. Whole(catalog, mode, got, status, failures, c, d)
    BY <1>2 DEF Whole
  <2> QED BY <1>1, <1>3, <1>4, <2>1 DEF WalkAt, Phase
<1>6. status' = status /\ got' = got /\ failures' = failures
  BY <1>1
<1>7. WalkIn(catalog, mode, Easy, handle', got', status', failures')
  BY <1>2, <1>3, <1>5, <1>6, Zenon DEF WalkIn
<1> QED BY <1>1, <1>7, SameWalk

LEMMA CollInvInductive == CollInv /\ [CollNext]_collVars => CollInv'
<1> SUFFICES ASSUME CollInv, [CollNext]_collVars PROVE CollInv'
  OBVIOUS
<1>1. CASE rclOpenCollection
  BY <1>1, OpenStep
<1>2. CASE rclReadCollection
  BY <1>2, ReadStep
<1>3. CASE rclCloseCollection
  BY <1>3, CloseStep
<1>4. CASE UNCHANGED collVars
  <2>1. UNCHANGED <<catalog, mode>> /\ handle' = handle /\ got' = got /\ status' = status
        /\ failures' = failures
    BY <1>4 DEF collVars
  <2>2. WalkIn(catalog, mode, Easy, handle', got', status', failures')
    BY <2>1 DEF CollInv
  <2> QED BY <2>1, <2>2, SameWalk
<1> QED BY <1>1, <1>2, <1>3, <1>4 DEF CollNext

-----------------------------------------------------------------------------
(* What the invariant says of the entries given.                           *)

LEMMA ExpectedIs ==
  ASSUME catalog \in Catalogs, mode \in Modes
  PROVE  /\ CollEntries = CollsGiven(catalog, 0, Len(catalog.colls))
         /\ DataEntries = DataGiven(catalog, mode, Len(catalog.replicas))
         /\ Expected = Given(catalog, mode, 0, Len(catalog.colls), Len(catalog.replicas))
<1>1. /\ Len(catalog.colls) \in Nat /\ Len(catalog.replicas) \in Nat
      /\ DOMAIN catalog.colls = 1 .. Len(catalog.colls)
  BY DEF Catalogs
<1>2. AllReplicas = All(mode)
  BY DEF AllReplicas, All
<1>3. CollEntries = CollsGiven(catalog, 0, Len(catalog.colls))
  BY <1>1 DEF CollEntries, CollsGiven
<1>4. DataEntries = DataGiven(catalog, mode, Len(catalog.replicas))
  <2> DEFINE f == KeptUpTo(catalog.replicas, All(mode))
             n == Len(catalog.replicas)
  <2>1. f[n] \in Seq(Nat)
    BY <1>1, KeptFacts
  <2>2. Kept = f[n]
    BY <1>2 DEF Kept
  <2> HIDE DEF f
  <2>3. DOMAIN f[n] = 1 .. Len(f[n])
    BY <2>1
  <2> QED BY <2>2, <2>3 DEF DataEntries, DataGiven, f
<1> QED BY <1>3, <1>4 DEF Expected, Given

\* A beginning of t1 and a part of t2 are in the order of t1 and t2.
LEMMA Parts ==
  ASSUME NEW X, NEW s1 \in Seq(X), NEW s2 \in Seq(X), NEW t1 \in Seq(X), NEW t2 \in Seq(X),
         Begins(s1, t1), NEW off \in Nat, off + Len(s2) <= Len(t2),
         \A k \in 1 .. Len(s2) : s2[k] = t2[off + k]
  PROVE  IsSubsequence(s1 \o s2, t1 \o t2)
<1> DEFINE s == s1 \o s2
           t == t1 \o t2
           at == [k \in 1 .. Len(s) |-> IF k <= Len(s1) THEN k ELSE Len(t1) + off + (k - Len(s1))]
<1>1. /\ s \in Seq(X) /\ Len(s) = Len(s1) + Len(s2) /\ DOMAIN s = 1 .. Len(s)
      /\ \A k \in 1 .. Len(s) : s[k] = IF k <= Len(s1) THEN s1[k] ELSE s2[k - Len(s1)]
  BY ConcatProperties
<1>2. /\ t \in Seq(X) /\ Len(t) = Len(t1) + Len(t2) /\ DOMAIN t = 1 .. Len(t)
      /\ \A k \in 1 .. Len(t) : t[k] = IF k <= Len(t1) THEN t1[k] ELSE t2[k - Len(t1)]
  BY ConcatProperties
<1>3. /\ Len(s1) \in Nat /\ Len(s2) \in Nat /\ Len(t1) \in Nat /\ Len(t2) \in Nat
      /\ Len(s1) <= Len(t1) /\ \A k \in 1 .. Len(s1) : s1[k] = t1[k]
  BY DEF Begins
<1> HIDE DEF s, t
<1>4. ASSUME NEW k \in 1 .. Len(s)
      PROVE  at[k] \in 1 .. Len(t) /\ s[k] = t[at[k]]
  <2>1. CASE k <= Len(s1)
    <3>1. at[k] = k /\ k \in 1 .. Len(s1) /\ k \in 1 .. Len(t)
      BY <1>1, <1>2, <1>3, <2>1
    <3>2. s[k] = s1[k] /\ t[k] = t1[k] /\ s1[k] = t1[k]
      BY <1>1, <1>2, <1>3, <2>1, <3>1
    <3> HIDE DEF at
    <3> QED BY <3>1, <3>2
  <2>2. CASE ~(k <= Len(s1))
    <3> DEFINE j == k - Len(s1)
               n == Len(t1) + off + j
    <3>1. j \in 1 .. Len(s2) /\ at[k] = n /\ n \in 1 .. Len(t) /\ ~(n <= Len(t1))
          /\ n - Len(t1) = off + j
      BY <1>1, <1>2, <1>3, <2>2
    <3>2. s[k] = s2[j] /\ t[n] = t2[off + j]
      BY <1>1, <1>2, <2>2, <3>1
    <3> HIDE DEF j, n, at
    <3> QED BY <3>1, <3>2
  <2> QED BY <2>1, <2>2
<1>5. \A k, l \in 1 .. Len(s) : k < l => at[k] < at[l]
  BY <1>1, <1>3
<1> HIDE DEF at
<1>6. \A k \in DOMAIN s : \E n \in DOMAIN t : s[k] = t[n]
  BY <1>1, <1>2, <1>4
<1>7. ASSUME NEW k \in DOMAIN s, NEW l \in DOMAIN s, k < l
      PROVE  \E m, n \in DOMAIN t : m < n /\ s[k] = t[m] /\ s[l] = t[n]
  <2>1. at[k] \in DOMAIN t /\ at[l] \in DOMAIN t /\ at[k] < at[l]
    BY <1>1, <1>2, <1>4, <1>5, <1>7
  <2>2. s[k] = t[at[k]] /\ s[l] = t[at[l]]
    BY <1>1, <1>4
  <2> QED BY <2>1, <2>2
<1> QED BY <1>6, <1>7 DEF IsSubsequence, s, t

\* A beginning of the first list, or all of it and a beginning of the second.
LEMMA Prefix ==
  ASSUME NEW X, NEW s1 \in Seq(X), NEW s2 \in Seq(X), NEW t1 \in Seq(X), NEW t2 \in Seq(X),
         Begins(s1, t1), Begins(s2, t2), s2 = << >> \/ s1 = t1
  PROVE  IsPrefix(s1 \o s2, t1 \o t2)
<1> DEFINE s == s1 \o s2
           t == t1 \o t2
<1>1. /\ s \in Seq(X) /\ Len(s) = Len(s1) + Len(s2)
      /\ \A k \in 1 .. Len(s) : s[k] = IF k <= Len(s1) THEN s1[k] ELSE s2[k - Len(s1)]
  BY ConcatProperties
<1>2. /\ t \in Seq(X) /\ Len(t) = Len(t1) + Len(t2)
      /\ \A k \in 1 .. Len(t) : t[k] = IF k <= Len(t1) THEN t1[k] ELSE t2[k - Len(t1)]
  BY ConcatProperties
<1>3. /\ Len(s1) \in Nat /\ Len(s2) \in Nat /\ Len(t1) \in Nat /\ Len(t2) \in Nat
      /\ Len(s1) <= Len(t1) /\ \A k \in 1 .. Len(s1) : s1[k] = t1[k]
      /\ Len(s2) <= Len(t2) /\ \A k \in 1 .. Len(s2) : s2[k] = t2[k]
      /\ Len(s2) = 0 \/ Len(s1) = Len(t1)
  BY DEF Begins
<1> HIDE DEF s, t
<1>4. Len(s) <= Len(t)
  BY <1>1, <1>2, <1>3
<1>5. ASSUME NEW k \in 1 .. Len(s)
      PROVE  s[k] = t[k]
  <2>1. CASE k <= Len(s1)
    <3>1. k \in 1 .. Len(s1) /\ k \in 1 .. Len(t) /\ k <= Len(t1)
      BY <1>1, <1>2, <1>3, <1>4, <2>1
    <3>2. s[k] = s1[k] /\ t[k] = t1[k] /\ s1[k] = t1[k]
      BY <1>1, <1>2, <1>3, <2>1, <3>1
    <3> QED BY <3>2
  <2>2. CASE ~(k <= Len(s1))
    <3> DEFINE j == k - Len(s1)
    <3>0. Len(s) = Len(s1) + Len(s2) /\ Len(t) = Len(t1) + Len(t2) /\ Len(s) <= Len(t)
      BY <1>1, <1>2, <1>4
    <3>3. Len(s1) = Len(t1)
      BY <1>3, <2>2, <3>0
    <3>1. j \in 1 .. Len(s2) /\ k \in 1 .. Len(t) /\ ~(k <= Len(t1)) /\ k - Len(t1) = j
      BY <1>3, <2>2, <3>0, <3>3
    <3>2. s[k] = s2[j] /\ t[k] = t2[j] /\ s2[j] = t2[j]
      BY <1>1, <1>2, <1>3, <2>2, <3>1
    <3> QED BY <3>2
  <2> QED BY <2>1, <2>2
<1>6. SubSeq(s, 1, Len(s)) = SubSeq(t, 1, Len(s))
  BY <1>1, <1>2, <1>4, <1>5
<1>7. IsPrefix(s, t)
  BY <1>4, <1>6 DEF IsPrefix
<1> QED BY <1>7 DEF s, t

\* The parts of the walk, as they stand in the invariant.
LEMMA WalkParts ==
  ASSUME catalog \in Catalogs, mode \in Modes, NEW lost \in {0, 1},
         NEW c \in 0 .. Len(catalog.colls), lost <= c, NEW d \in 0 .. Len(catalog.replicas),
         NEW C, C = CollsGiven(catalog, lost, c), NEW D, D = DataGiven(catalog, mode, d)
  PROVE  /\ C \in Seq(Entry) /\ D \in Seq(Entry)
         /\ CollEntries \in Seq(Entry) /\ DataEntries \in Seq(Entry)
         /\ Begins(D, DataEntries) /\ (d = 0 => D = << >>) /\ (c = lost => C = << >>)
         /\ lost + Len(C) <= Len(CollEntries)
         /\ \A k \in 1 .. Len(C) : C[k] = CollEntries[lost + k]
<1>1. Len(catalog.colls) \in Nat /\ Len(catalog.replicas) \in Nat
  BY DEF Catalogs
<1>2. lost \in Nat /\ c \in lost .. Len(catalog.colls)
  BY <1>1
<1>3. /\ C \in Seq(Entry) /\ Len(C) = c - lost /\ (c = lost => C = << >>)
      /\ \A k \in 1 .. c - lost : C[k] = <<"coll", catalog.colls[lost + k].name>>
  BY <1>2, CollsGivenFacts
<1> DEFINE n == Len(catalog.colls)
           A == CollsGiven(catalog, 0, n)
<1>4. /\ A \in Seq(Entry) /\ Len(A) = n
      /\ \A k \in 1 .. n : A[k] = <<"coll", catalog.colls[k].name>>
  <2>1. 0 \in Nat /\ n \in 0 .. Len(catalog.colls) /\ n - 0 = n
    BY <1>1
  <2>2. /\ A \in Seq(Entry) /\ Len(A) = n
        /\ \A k \in 1 .. n : A[k] = <<"coll", catalog.colls[0 + k].name>>
    BY <2>1, CollsGivenFacts
  <2>3. \A k \in 1 .. n : 0 + k = k
    BY <1>1
  <2> QED BY <2>2, <2>3
<1>5. CollEntries = A /\ DataEntries = DataGiven(catalog, mode, Len(catalog.replicas))
  BY ExpectedIs
<1> HIDE DEF A
<1>6. ASSUME NEW k \in 1 .. Len(C)
      PROVE  C[k] = CollEntries[lost + k]
  <2>1. k \in 1 .. c - lost /\ lost + k \in 1 .. n
    BY <1>1, <1>2, <1>3
  <2> QED BY <1>3, <1>4, <1>5, <2>1
<1>7. D \in Seq(Entry) /\ DataEntries \in Seq(Entry) /\ (d = 0 => D = << >>)
  <2>1. Len(catalog.replicas) \in 0 .. Len(catalog.replicas)
    BY <1>1
  <2> QED BY <1>5, <2>1, DataGivenFacts
<1>8. Begins(D, DataEntries)
  <2>1. Len(catalog.replicas) \in d .. Len(catalog.replicas)
    BY <1>1
  <2> QED BY <1>5, <2>1, DataGivenGrows
<1> QED BY <1>1, <1>2, <1>3, <1>4, <1>5, <1>6, <1>7, <1>8

LEMMA InvInOrder == CollInv => InOrder
<1> SUFFICES ASSUME CollInv PROVE InOrder
  OBVIOUS
<1>1. catalog \in Catalogs /\ mode \in Modes
  BY InvCatalogs DEF CollInv
<1>2. PICK lost \in {0, 1}, c \in 0 .. Len(catalog.colls), d \in 0 .. Len(catalog.replicas) :
        WalkAt(catalog, mode, Easy, handle, got, status, failures, lost, c, d)
  BY Zenon DEF CollInv, WalkIn
<1>3. /\ lost <= c /\ (lost # 0 => mode.dataFirst)
      /\ got = Given(catalog, mode, lost, c, d)
  BY <1>2 DEF WalkAt
<1> DEFINE C == CollsGiven(catalog, lost, c)
           D == DataGiven(catalog, mode, d)
<1>4. got = IF mode.dataFirst THEN D \o C ELSE C \o D
  BY <1>3 DEF Given
<1> HIDE DEF C, D
<1>5. /\ C \in Seq(Entry) /\ D \in Seq(Entry)
      /\ CollEntries \in Seq(Entry) /\ DataEntries \in Seq(Entry)
      /\ Begins(D, DataEntries) /\ lost + Len(C) <= Len(CollEntries)
      /\ \A k \in 1 .. Len(C) : C[k] = CollEntries[lost + k]
  BY <1>1, <1>3, WalkParts DEF C, D
<1>6. CASE mode.dataFirst
  <2>1. lost \in Nat
    OBVIOUS
  <2>2. IsSubsequence(D \o C, DataEntries \o CollEntries)
    BY <1>5, <2>1, Parts
  <2> QED BY <1>4, <1>6, <2>2 DEF InOrder, Expected
<1>7. CASE ~mode.dataFirst
  <2>1. lost = 0
    BY <1>3, <1>7
  <2>2. Begins(C, CollEntries)
    BY <1>5, <2>1 DEF Begins
  <2>3. 0 \in Nat /\ 0 + Len(D) <= Len(DataEntries)
        /\ \A k \in 1 .. Len(D) : D[k] = DataEntries[0 + k]
    BY <1>5 DEF Begins
  <2>4. IsSubsequence(C \o D, CollEntries \o DataEntries)
    BY <1>5, <2>2, <2>3, Parts
  <2> QED BY <1>4, <1>7, <2>4 DEF InOrder, Expected
<1> QED BY <1>6, <1>7

LEMMA InvWalkComplete == CollInv => WalkComplete
<1> SUFFICES ASSUME CollInv, Sound
             PROVE  /\ IsPrefix(got, Expected)
                    /\ status = CAT_NO_ROWS_FOUND => got = Expected
                    /\ status = Error => got = << >>
  BY DEF WalkComplete
<1>1. catalog \in Catalogs /\ mode \in Modes
  BY InvCatalogs DEF CollInv
<1>2. Easy /\ failures = 0
  BY DEF Sound, Easy
<1>3. PICK lost \in {0, 1}, c \in 0 .. Len(catalog.colls), d \in 0 .. Len(catalog.replicas) :
        WalkAt(catalog, mode, Easy, handle, got, status, failures, lost, c, d)
  BY Zenon DEF CollInv, WalkIn
<1>4. /\ lost = 0 /\ lost <= c
      /\ got = Given(catalog, mode, lost, c, d) /\ FirstWhole(catalog, mode, c, d)
      /\ handle.state = "COLL_CLOSED" => Whole(catalog, mode, got, status, failures, c, d)
  BY <1>2, <1>3 DEF WalkAt
<1> DEFINE C == CollsGiven(catalog, lost, c)
           D == DataGiven(catalog, mode, d)
<1>5. got = IF mode.dataFirst THEN D \o C ELSE C \o D
  BY <1>4 DEF Given
<1>6. /\ CollEntries = CollsGiven(catalog, 0, Len(catalog.colls))
      /\ DataEntries = DataGiven(catalog, mode, Len(catalog.replicas))
      /\ Expected = IF mode.dataFirst THEN DataEntries \o CollEntries
                    ELSE CollEntries \o DataEntries
  BY <1>1, ExpectedIs DEF Expected
<1>7. /\ AllColls(catalog, c) => C = CollEntries
      /\ AllData(catalog, mode, d) => D = DataEntries
  BY <1>4, <1>6 DEF AllColls, AllData
<1> HIDE DEF C, D
<1>8. /\ C \in Seq(Entry) /\ D \in Seq(Entry)
      /\ CollEntries \in Seq(Entry) /\ DataEntries \in Seq(Entry)
      /\ Begins(D, DataEntries) /\ lost + Len(C) <= Len(CollEntries)
      /\ (d = 0 => D = << >>) /\ (c = lost => C = << >>)
      /\ \A k \in 1 .. Len(C) : C[k] = CollEntries[lost + k]
  BY <1>1, <1>4, WalkParts DEF C, D
<1>9. Begins(C, CollEntries)
  BY <1>4, <1>8 DEF Begins
<1>10. IsPrefix(got, Expected)
  <2>1. CASE mode.dataFirst
    <3>1. C = << >> \/ D = DataEntries
      BY <1>4, <1>7, <1>8, <2>1 DEF FirstWhole
    <3>2. IsPrefix(D \o C, DataEntries \o CollEntries)
      BY <1>8, <1>9, <3>1, Prefix
    <3> QED BY <1>5, <1>6, <2>1, <3>2
  <2>2. CASE ~mode.dataFirst
    <3>1. D = << >> \/ C = CollEntries
      BY <1>4, <1>7, <1>8, <2>2 DEF FirstWhole
    <3>2. IsPrefix(C \o D, CollEntries \o DataEntries)
      BY <1>8, <1>9, <3>1, Prefix
    <3> QED BY <1>5, <1>6, <2>2, <3>2
  <2> QED BY <2>1, <2>2
<1>11. status # Ok => Whole(catalog, mode, got, status, failures, c, d)
  BY <1>2, <1>4 DEF CollInv, WalkIn
<1>12. status = CAT_NO_ROWS_FOUND => got = Expected
  <2>1. status = CAT_NO_ROWS_FOUND => AllColls(catalog, c) /\ AllData(catalog, mode, d)
    BY <1>2, <1>11 DEF Whole, Ok, Error, CAT_NO_ROWS_FOUND
  <2> QED BY <1>5, <1>6, <1>7, <2>1
<1>13. status = Error => got = << >>
  BY <1>2, <1>11 DEF Whole, Ok, Error, CAT_NO_ROWS_FOUND
<1> QED BY <1>10, <1>12, <1>13

LEMMA InvOneSideSurvives == CollInv => OneSideSurvives
<1> SUFFICES ASSUME CollInv, Failed, ~mode.dataFirst, ~UnknownType,
                    mode.specColl # "LINKED_COLL", AllReplicas \/ ~Straddling
             PROVE  IsSubsequence(CollEntries, got) \/ IsSubsequence(DataEntries, got)
  BY DEF OneSideSurvives
<1>1. catalog \in Catalogs /\ mode \in Modes
  BY InvCatalogs DEF CollInv
<1>2. Easy /\ failures = 1 /\ status # Ok /\ handle.state = "COLL_CLOSED"
  BY DEF Failed, In, Easy
<1>3. PICK lost \in {0, 1}, c \in 0 .. Len(catalog.colls), d \in 0 .. Len(catalog.replicas) :
        WalkAt(catalog, mode, Easy, handle, got, status, failures, lost, c, d)
  BY Zenon DEF CollInv, WalkIn
<1>4. /\ lost = 0 /\ lost <= c /\ got = Given(catalog, mode, lost, c, d)
      /\ AllColls(catalog, c) \/ AllData(catalog, mode, d)
  <2>1. /\ lost <= c /\ (lost # 0 => mode.dataFirst) /\ got = Given(catalog, mode, lost, c, d)
        /\ Whole(catalog, mode, got, status, failures, c, d)
    BY <1>2, <1>3 DEF WalkAt
  <2> QED BY <1>2, <2>1 DEF Whole
<1> DEFINE C == CollsGiven(catalog, lost, c)
           D == DataGiven(catalog, mode, d)
<1>5. got = C \o D
  BY <1>4 DEF Given
<1>6. /\ CollEntries = CollsGiven(catalog, 0, Len(catalog.colls))
      /\ DataEntries = DataGiven(catalog, mode, Len(catalog.replicas))
  BY <1>1, ExpectedIs
<1>7. C = CollEntries \/ D = DataEntries
  BY <1>4, <1>6 DEF AllColls, AllData
<1> HIDE DEF C, D
<1>8. C \in Seq(Entry) /\ D \in Seq(Entry)
  BY <1>1, <1>4, WalkParts DEF C, D
<1>9. << >> \in Seq(Entry) /\ Len(<< >>) = 0 /\ C \o << >> = C /\ << >> \o D = D
  BY <1>8
<1>10. /\ Begins(C, C) /\ Begins(<< >>, C) /\ 0 \in Nat
       /\ 0 + Len(<< >>) <= Len(D) /\ 0 + Len(D) <= Len(D)
       /\ \A k \in 1 .. Len(<< >>) : (<< >>)[k] = D[0 + k]
       /\ \A k \in 1 .. Len(D) : D[k] = D[0 + k]
  BY <1>8 DEF Begins
<1> DEFINE none == << >>
<1>11. IsSubsequence(C \o none, C \o D)
  <2>1. /\ none \in Seq(Entry) /\ 0 + Len(none) <= Len(D)
        /\ \A k \in 1 .. Len(none) : none[k] = D[0 + k]
    BY <1>9, <1>10
  <2> HIDE DEF none
  <2> QED BY <1>8, <1>10, <2>1, Parts
<1>12. IsSubsequence(none \o D, C \o D)
  <2>1. none \in Seq(Entry) /\ Begins(none, C)
    BY <1>9, <1>10
  <2> HIDE DEF none
  <2> QED BY <1>8, <1>10, <2>1, Parts
<1> QED BY <1>5, <1>7, <1>9, <1>11, <1>12

\* A walk over a collection (rclOpenCollection, rclReadCollection until it has
\* no more, rclCloseCollection) gives each entry once and in order whatever
\* query fails, all of them when none does and nothing in the catalog ends the
\* walk early, and those of one kind when one query fails: for every page size,
\* every catalog and every number of failures.
THEOREM CollectionsEntriesGiven == CollSpec => []EntriesGiven
<1>1. CollInv => EntriesGiven
  BY InvInOrder, InvWalkComplete, InvOneSideSurvives DEF EntriesGiven
<1> QED BY <1>1, CollInitInv, CollInvInductive, PTL DEF CollSpec
-----------------------------------------------------------------------------
(* The handle stays within its pages: its place is a row of one, or 0.     *)

States == {"COLL_CLOSED", "COLL_OPENED", "COLL_COLL_OBJ_QUERIED", "COLL_DATA_OBJ_QUERIED"}
Pages == {p \in Results : Len(p.rows) <= MaxRows}
InPages(h) ==
  h \in [state : States, colls : Pages, data : Pages, rowInx : 0 .. MaxRows,
         prevdataId : {h.prevdataId}]

LEMMA SmallPages ==
  ASSUME NEW list \in Seq(Rows), NEW from \in Nat
  PROVE  Page(list, from) \in Pages /\ NoResult \in Pages
<1> DEFINE to == Lesser(from + MaxRows, Len(list))
           x == SubSeq(list, from + 1, to)
           y == IF to < Len(list) THEN to ELSE 0
<1>1. to \in Nat /\ to <= from + MaxRows /\ to <= Len(list) /\ MaxRows \in Nat \ {0}
  BY PagesAssumption DEF Lesser
<1>2. y \in Nat
  BY <1>1
<1>3. \A i \in from + 1 .. to : list[i] \in Rows
  BY <1>1, ElementOfSeq
<1> HIDE DEF to
<1>4. x \in Seq(Rows) /\ Len(x) = IF from + 1 <= to THEN to - (from + 1) + 1 ELSE 0
  <2>1. from + 1 \in Int /\ to \in Int
    BY <1>1
  <2> QED BY <1>3, <2>1, SubSeqProperties
<1> HIDE DEF x, y
<1>5. Len(x) <= MaxRows
  BY <1>1, <1>4
<1>6. Page(list, from) = [rows |-> x, continueInx |-> y]
  BY DEF Page, to, x, y
<1>7. Page(list, from) \in Pages
  BY <1>2, <1>4, <1>5, <1>6 DEF Pages, Results
<1>8. NoResult \in Pages
  BY <1>1, NoResultFacts DEF Pages
<1> QED BY <1>7, <1>8

\* One change of a handle, of every kind.
LEMMA PagesKept ==
  ASSUME NEW h, InPages(h), NEW what \in Lists, NEW p \in Pages, NEW n \in 0 .. MaxRows,
         NEW state \in States, NEW id
  PROVE  /\ InPages([h EXCEPT ![what] = p]) /\ InPages([h EXCEPT !.rowInx = n])
         /\ InPages([h EXCEPT !.state = state]) /\ InPages([h EXCEPT !.prevdataId = id])
         /\ [h EXCEPT ![what] = p].rowInx = h.rowInx
         /\ [h EXCEPT !.rowInx = n][what] = h[what] /\ h[what] \in Pages /\ h.rowInx \in 0 .. MaxRows
BY DEF InPages, Lists

LEMMA PageKept ==
  ASSUME NEW h, InPages(h), NEW what \in Lists, NEW p \in Pages
  PROVE  InPages([h EXCEPT ![what] = p]) /\ [h EXCEPT ![what] = p].rowInx = h.rowInx
BY DEF InPages, Lists

LEMMA GenInPages ==
  ASSUME catalog \in Catalogs, NEW h, InPages(h), NEW what \in Lists,
         NEW state \in States, NEW fails
  PROVE  InPages(GenResInColl(h, what, state, fails).h)
<1> DEFINE list == RepliesFor(what)
           h0 == [h EXCEPT !.rowInx = 0]
           h1 == [h0 EXCEPT !.state = state]
           h2 == [h1 EXCEPT ![what] = Page(list, 0)]
           r == GenResInColl(h, what, state, fails)
<1>1. h1 = [h EXCEPT !.rowInx = 0, !.state = state]
  OBVIOUS
<1>2. r = IF fails THEN [h |-> h1, status |-> Error]
          ELSE IF list = << >> THEN [h |-> h1, status |-> CAT_NO_ROWS_FOUND]
          ELSE [h |-> h2, status |-> Ok]
  BY <1>1, Zenon DEF GenResInColl
<1>3. Page(list, 0) \in Pages
  <2>1. list \in Seq(Rows)
    BY Replies DEF Lists
  <2> HIDE DEF list
  <2> QED BY <2>1, SmallPages
<1>4. 0 \in 0 .. MaxRows
  BY PagesAssumption
<1>5. InPages(h0)
  <2> HIDE DEF list
  <2> QED BY <1>3, <1>4, PagesKept
<1> HIDE DEF h0, list
<1>6. InPages(h1)
  BY <1>3, <1>4, <1>5, PagesKept
<1> HIDE DEF h1
<1>7. InPages(h2)
  BY <1>3, <1>4, <1>6, PagesKept
<1> HIDE DEF h2, r
<1>8. r.h = h1 \/ r.h = h2
  BY <1>2
<1>9. InPages(r.h)
  BY <1>6, <1>7, <1>8
<1> QED BY <1>9 DEF r

LEMMA NextInPages ==
  ASSUME catalog \in Catalogs, NEW h, InPages(h), NEW what \in Lists, NEW fails
  PROVE  LET r == NextPage(h, what, fails)
         IN  InPages(r.h) /\ (r.status = Ok => r.h.rowInx + 1 \in 0 .. MaxRows)
<1> DEFINE list == RepliesFor(what)
           next == h[what].continueInx
           page == Page(list, next)
           cleared == [h EXCEPT ![what] = NoResult]
           turned == [cleared EXCEPT !.rowInx = 0]
           shown == [turned EXCEPT ![what] = page]
           r == NextPage(h, what, fails)
<1>1. shown = [cleared EXCEPT !.rowInx = 0, ![what] = page]
  OBVIOUS
<1>2. r = IF h.rowInx < Len(h[what].rows) THEN [h |-> h, status |-> Ok]
          ELSE IF next = 0 THEN [h |-> cleared, status |-> CAT_NO_ROWS_FOUND]
          ELSE IF fails \/ OpenedBy # ContinuedBy THEN [h |-> turned, status |-> Error]
          ELSE [h |-> shown, status |-> Ok]
  BY <1>1, Zenon DEF NextPage
<1>3. h[what] \in Pages /\ h.rowInx \in 0 .. MaxRows /\ MaxRows \in Nat \ {0}
  BY PagesAssumption DEF InPages, Lists
<1>4. next \in Nat /\ Len(h[what].rows) <= MaxRows /\ Len(h[what].rows) \in Nat
  BY <1>3 DEF Pages, Results
<1>5. page \in Pages /\ NoResult \in Pages
  <2>1. list \in Seq(Rows)
    BY Replies DEF Lists
  <2> HIDE DEF list, next
  <2> QED BY <1>4, <2>1, SmallPages
<1>6. 0 \in 0 .. MaxRows /\ 1 \in 0 .. MaxRows /\ "COLL_CLOSED" \in States
  BY <1>3 DEF States
<1>7. Ok # Error /\ Ok # CAT_NO_ROWS_FOUND
  BY DEF Ok, Error, CAT_NO_ROWS_FOUND
<1> HIDE DEF page, next, list
<1>8. InPages(cleared)
  BY <1>5, <1>6, PagesKept
<1> HIDE DEF cleared
<1>9. InPages(turned) /\ turned.rowInx = 0
  <2>1. InPages(turned)
    BY <1>5, <1>6, <1>8, PagesKept
  <2>2. turned.rowInx = 0
    BY <1>8 DEF InPages
  <2> QED BY <2>1, <2>2
<1> HIDE DEF turned
<1>10. InPages(shown) /\ shown.rowInx = 0
  <2>1. InPages(shown) /\ shown.rowInx = turned.rowInx
    BY <1>5, <1>9, PageKept
  <2> QED BY <1>9, <2>1
<1> HIDE DEF shown, r
<1>11. CASE h.rowInx < Len(h[what].rows)
  <2>1. r.h = h
    BY <1>2, <1>11
  <2>2. h.rowInx + 1 \in 0 .. MaxRows
    BY <1>3, <1>4, <1>11
  <2> QED BY <2>1, <2>2 DEF r
<1>12. CASE ~(h.rowInx < Len(h[what].rows))
  <2>1. \/ r.h = cleared /\ r.status = CAT_NO_ROWS_FOUND
        \/ r.h = turned /\ r.status = Error
        \/ r.h = shown
    BY <1>2, <1>12
  <2>2. InPages(r.h) /\ (r.status = Ok => r.h.rowInx + 1 \in 0 .. MaxRows)
    BY <1>6, <1>7, <1>8, <1>9, <1>10, <2>1
  <2> QED BY <2>2 DEF r
<1> QED BY <1>11, <1>12

LEMMA NextCollInPages ==
  ASSUME catalog \in Catalogs, NEW h, InPages(h), NEW fails, NEW r, r = getNextCollMetaInfo(h, fails)
  PROVE  InPages(r.h) /\ AStep(r)
<1> DEFINE page == NextPage(h, "colls", "collMore" \in fails)
           n == page.h.rowInx + 1
           next == [page.h EXCEPT !.rowInx = @ + 1]
           row == page.h.colls.rows[page.h.rowInx + 1]
<1>1. r = IF page.status # Ok THEN [h |-> page.h, status |-> page.status, entry |-> << >>]
          ELSE [h |-> next, status |-> IF row.type = "unknown" THEN Error ELSE Ok,
                entry |-> <<"coll", row.name>>]
  BY Zenon DEF getNextCollMetaInfo
<1>2. InPages(page.h) /\ (page.status = Ok => n \in 0 .. MaxRows)
  <2>1. "colls" \in Lists
    BY DEF Lists
  <2> QED BY <2>1, NextInPages
<1>3. next = [page.h EXCEPT !.rowInx = n]
  BY <1>2 DEF InPages
<1> HIDE DEF page, n, row
<1>4. page.status = Ok => InPages(next)
  <2>1. NoResult \in Pages /\ "colls" \in Lists /\ "COLL_CLOSED" \in States
    BY NoResultFacts, PagesAssumption DEF Pages, Lists, States
  <2> HIDE DEF next
  <2> QED BY <1>2, <1>3, <2>1, PagesKept
<1> HIDE DEF next
<1> QED BY <1>1, <1>2, <1>4 DEF AStep

LEMMA NextDataInPages ==
  ASSUME catalog \in Catalogs, NEW h, InPages(h), NEW fails,
         NEW r, r = getNextDataObjMetaInfo(h, fails)
  PROVE  InPages(r.h) /\ AStep(r)
<1> DEFINE page == NextPage(h, "data", "dataMore" \in fails)
           g == page.h
           rows == g.data.rows
           trimmed == rows[1].id # 0 /\ ~mode.keepReplicas
           i == IF trimmed THEN NextObject(g, rows) ELSE g.rowInx + 1
           a == AfterObject(rows, i)
           id == rows[i].id
           k == g.rowInx + 1
           here == [g EXCEPT !.prevdataId = id]
           past == [here EXCEPT !.rowInx = a]
           next == [g EXCEPT !.rowInx = k]
<1>1. /\ [g EXCEPT !.prevdataId = rows[i].id, !.rowInx = a] = past
      /\ [g EXCEPT !.rowInx = @ + 1] = next
  OBVIOUS
<1>2. r = IF page.status # Ok THEN [h |-> g, status |-> page.status, entry |-> << >>]
          ELSE IF i = 0 THEN [h |-> g, status |-> CAT_NO_ROWS_FOUND, entry |-> << >>]
          ELSE [h |-> IF trimmed THEN past ELSE next, status |-> Ok,
                entry |-> <<"data", rows[i].row>>]
  BY <1>1, Zenon DEF getNextDataObjMetaInfo
<1>3. InPages(g) /\ (page.status = Ok => k \in 0 .. MaxRows)
  <2>1. "data" \in Lists
    BY DEF Lists
  <2> QED BY <2>1, NextInPages
<1> HIDE DEF page
<1>4. rows \in Seq(Rows) /\ Len(rows) \in 0 .. MaxRows /\ g.rowInx \in Nat /\ MaxRows \in Nat
  BY <1>3, PagesAssumption DEF InPages, Pages, Results
<1> HIDE DEF rows
<1>5. CASE page.status = Ok /\ trimmed /\ i # 0
  <2>1. i \in Nat /\ i <= Len(rows)
    <3> DEFINE others == {m \in g.rowInx + 1 .. Len(rows) : rows[m].id # g.prevdataId}
    <3>1. others # {} /\ i = CHOOSE m \in others : \A n \in others : m <= n
      BY <1>5 DEF NextObject
    <3>2. others \in SUBSET Nat /\ \A m \in others : m <= Len(rows)
      BY <1>4
    <3> HIDE DEF others, i
    <3>3. i \in others
      BY <3>1, <3>2, LeastIs
    <3> QED BY <3>2, <3>3
  <2> HIDE DEF i
  <2>2. a \in 0 .. MaxRows
    <3> DEFINE others == {j \in i + 1 .. Len(rows) : rows[j].id # rows[i].id}
               c == CHOOSE j \in others : \A m \in others : j <= m
    <3>1. a = IF others = {} THEN Len(rows) ELSE c - 1
      BY DEF AfterObject
    <3>2. others \in SUBSET Nat /\ \A m \in others : m <= Len(rows) /\ m >= 1
      BY <1>4, <2>1
    <3> HIDE DEF others, a
    <3>3. others # {} => c \in others
      BY <3>2, LeastIs
    <3> HIDE DEF c
    <3>4. others # {} => c \in Nat /\ c <= Len(rows) /\ c >= 1
      BY <3>2, <3>3
    <3> QED BY <1>4, <3>1, <3>4
  <2> HIDE DEF a, id
  <2>3. NoResult \in Pages /\ "colls" \in Lists /\ "COLL_CLOSED" \in States
    BY NoResultFacts, PagesAssumption DEF Pages, Lists, States
  <2>4. InPages(here)
    BY <1>3, <2>2, <2>3, PagesKept
  <2> HIDE DEF here
  <2>5. InPages(past)
    BY <2>2, <2>3, <2>4, PagesKept
  <2> HIDE DEF past, next
  <2>6. r.h = past /\ AStep(r)
    BY <1>2, <1>5 DEF AStep
  <2> QED BY <2>5, <2>6
<1>6. CASE page.status = Ok /\ ~trimmed /\ i # 0
  <2>1. NoResult \in Pages /\ "colls" \in Lists /\ "COLL_CLOSED" \in States
    BY NoResultFacts, PagesAssumption DEF Pages, Lists, States
  <2> HIDE DEF i, k
  <2>2. InPages(next)
    BY <1>3, <1>6, <2>1, PagesKept
  <2> HIDE DEF past, next
  <2>3. r.h = next /\ AStep(r)
    BY <1>2, <1>6 DEF AStep
  <2> QED BY <2>2, <2>3
<1>7. CASE page.status # Ok \/ i = 0
  <2> HIDE DEF i, past, next, trimmed
  <2>1. r.h = g /\ AStep(r)
    BY <1>2, <1>7 DEF AStep
  <2> QED BY <1>3, <2>1
<1> QED BY <1>5, <1>6, <1>7

\* Both queries opened, and the walk shut.
LEMMA ShutInPages ==
  ASSUME NEW r, AStep(r), InPages(r.h)
  PROVE  AStep(Shut(r)) /\ InPages(Shut(r).h)
<1>1. Shut(r).h = [r.h EXCEPT !.state = "COLL_CLOSED"] /\ AStep(Shut(r))
  BY DEF AStep, Shut
<1>2. InPages([r.h EXCEPT !.state = "COLL_CLOSED"])
  BY DEF InPages, States
<1> QED BY <1>1, <1>2

LEMMA OpenInPages ==
  ASSUME catalog \in Catalogs, NEW h, InPages(h), NEW fails
  PROVE  InPages(genCollResInColl(h, fails).h) /\ InPages(genDataResInColl(h, fails).h)
<1>1. /\ "colls" \in Lists /\ "data" \in Lists
      /\ "COLL_COLL_OBJ_QUERIED" \in States /\ "COLL_DATA_OBJ_QUERIED" \in States
  BY DEF Lists, States
<1>2. InPages(GenResInColl(h, "colls", "COLL_COLL_OBJ_QUERIED", "coll" \in fails).h)
  BY <1>1, GenInPages
<1>3. InPages(GenResInColl(h, "data", "COLL_DATA_OBJ_QUERIED", "data" \in fails).h)
  BY <1>1, GenInPages
<1> QED BY <1>2, <1>3 DEF genCollResInColl, genDataResInColl

LEMMA CollsFirstInPages ==
  ASSUME catalog \in Catalogs, NEW h, InPages(h), NEW fails
  PROVE  InPages(readCollsFirst(h, fails).h)
<1> DEFINE first == genCollResInColl(h, fails)
           h1 == IF In(h, "COLL_OPENED") THEN first.h ELSE h
           coll == getNextCollMetaInfo(h1, fails)
           second == genDataResInColl(coll.h, fails)
           h2 == IF In(h1, "COLL_COLL_OBJ_QUERIED") THEN second.h ELSE h1
           data == getNextDataObjMetaInfo(h2, fails)
<1>1. \/ readCollsFirst(h, fails) = coll
      \/ readCollsFirst(h, fails) = data
      \/ readCollsFirst(h, fails) = Shut(data)
  BY Zenon DEF readCollsFirst
<1>2. InPages(h1)
  BY OpenInPages
<1>3. coll = getNextCollMetaInfo(h1, fails)
  OBVIOUS
<1>4. InPages(second.h) /\ InPages(coll.h)
  <2> HIDE DEF h1, coll
  <2>1. InPages(coll.h)
    BY <1>2, <1>3, NextCollInPages
  <2> QED BY <2>1, OpenInPages
<1> HIDE DEF coll
<1>5. InPages(h2)
  <2> HIDE DEF h1, second
  <2> QED BY <1>2, <1>4
<1>6. data = getNextDataObjMetaInfo(h2, fails)
  OBVIOUS
<1> HIDE DEF first, h1, second, h2, data
<1>7. InPages(data.h) /\ AStep(data)
  BY <1>5, <1>6, NextDataInPages
<1>8. InPages(Shut(data).h)
  BY <1>7, ShutInPages
<1> QED BY <1>1, <1>4, <1>7, <1>8

LEMMA DataFirstInPages ==
  ASSUME catalog \in Catalogs, NEW h, InPages(h), NEW fails
  PROVE  InPages(readDataFirst(h, fails).h)
<1> DEFINE first == genDataResInColl(h, fails)
           h1 == IF In(h, "COLL_OPENED") THEN first.h ELSE h
           data == getNextDataObjMetaInfo(h1, fails)
           second == genCollResInColl(data.h, fails)
           h2 == IF In(h1, "COLL_DATA_OBJ_QUERIED") THEN second.h ELSE h1
           coll == getNextCollMetaInfo(h2, fails)
           savedStatus == \/ In(h, "COLL_OPENED") /\ first.status = Error
                          \/ In(h1, "COLL_DATA_OBJ_QUERIED") /\ second.status = Error
           ended == IF coll.status = Ok THEN coll ELSE Shut(coll)
           returned == [ended EXCEPT !.status = IF savedStatus THEN Error ELSE @]
<1>1. readDataFirst(h, fails) = data \/ readDataFirst(h, fails) = returned
  BY Zenon DEF readDataFirst
<1>2. InPages(h1)
  BY OpenInPages
<1>3. data = getNextDataObjMetaInfo(h1, fails)
  OBVIOUS
<1>4. InPages(second.h) /\ InPages(data.h)
  <2> HIDE DEF h1, data
  <2>1. InPages(data.h)
    BY <1>2, <1>3, NextDataInPages
  <2> QED BY <2>1, OpenInPages
<1> HIDE DEF data
<1>5. InPages(h2)
  <2> HIDE DEF h1, second
  <2> QED BY <1>2, <1>4
<1>6. coll = getNextCollMetaInfo(h2, fails)
  OBVIOUS
<1> HIDE DEF first, h1, second, h2, coll, savedStatus
<1>7. InPages(coll.h) /\ AStep(coll)
  BY <1>5, <1>6, NextCollInPages
<1>8. InPages(ended.h) /\ AStep(ended)
  BY <1>7, ShutInPages
<1> HIDE DEF ended
<1>9. returned.h = ended.h
  BY <1>8 DEF AStep
<1> HIDE DEF returned
<1> QED BY <1>1, <1>4, <1>8, <1>9

\* The type invariant, with the pages the handle keeps.
CollPages == InPages(handle) /\ failures \in 0 .. MaxFailures

LEMMA ClosedInPages == InPages(Closed)
<1>1. NoResult \in Pages /\ 0 \in 0 .. MaxRows /\ "COLL_CLOSED" \in States
  BY NoResultFacts, PagesAssumption DEF Pages, States
<1> QED BY <1>1 DEF Closed, InPages

LEMMA CollPagesStep == CollInv /\ CollPages /\ [CollNext]_collVars => CollPages'
<1> SUFFICES ASSUME CollInv, CollPages, [CollNext]_collVars PROVE CollPages'
  OBVIOUS
<1>1. /\ catalog \in Catalogs /\ InPages(handle)
      /\ failures \in Nat /\ failures <= MaxFailures /\ MaxFailures \in Nat
  BY InvCatalogs, PagesAssumption DEF CollInv, CollPages
<1>2. CASE rclOpenCollection
  <2>1. /\ handle' = [Closed EXCEPT !.state = "COLL_OPENED"] \/ handle' = Closed
        /\ failures' = failures
    BY <1>2 DEF rclOpenCollection
  <2>2. InPages([Closed EXCEPT !.state = "COLL_OPENED"])
    BY ClosedInPages DEF InPages, States
  <2>3. InPages(handle')
    BY <2>1, <2>2, ClosedInPages
  <2> QED BY <1>1, <2>1, <2>3 DEF CollPages
<1>3. CASE rclReadCollection
  <2>1. PICK query \in {"none", "coll", "collMore", "data", "dataMore"} :
          LET fails == IF query = "none" THEN {} ELSE {query}
          IN /\ query # "none" => failures < MaxFailures
             /\ ~In(handle, "COLL_CLOSED")
             /\ handle' = readCollection(handle, fails).h
             /\ failures' = IF query = "none" THEN failures ELSE failures + 1
    BY <1>3, Zenon DEF rclReadCollection
  <2> DEFINE fails == IF query = "none" THEN {} ELSE {query}
  <2>2. failures' \in 0 .. MaxFailures
    BY <1>1, <2>1
  <2>3. handle' = readCollection(handle, fails).h /\ ~In(handle, "COLL_CLOSED")
    BY <2>1, Zenon
  <2> HIDE DEF fails
  <2>4. handle' = readDataFirst(handle, fails).h \/ handle' = readCollsFirst(handle, fails).h
    BY <2>3, Zenon DEF readCollection
  <2>5. InPages(handle')
    BY <1>1, <2>4, CollsFirstInPages, DataFirstInPages
  <2> QED BY <2>2, <2>5 DEF CollPages
<1>4. CASE rclCloseCollection
  <2>1. handle' = [Closed EXCEPT !.prevdataId = handle.prevdataId] /\ failures' = failures
    BY <1>4 DEF rclCloseCollection
  <2>2. InPages([Closed EXCEPT !.prevdataId = handle.prevdataId])
    BY ClosedInPages DEF InPages
  <2>3. InPages(handle')
    BY <2>1, <2>2
  <2> QED BY <1>1, <2>1, <2>3 DEF CollPages
<1>5. CASE UNCHANGED collVars
  <2>1. handle' = handle /\ failures' = failures
    BY <1>5 DEF collVars
  <2>2. InPages(handle')
    BY <1>1, <2>1
  <2> QED BY <1>1, <2>1, <2>2 DEF CollPages
<1> QED BY <1>2, <1>3, <1>4, <1>5 DEF CollNext

\* The handle of a walk is always in one of its four states, with at most a
\* page of rows of either list and its place in one of them.
THEOREM CollectionsType == CollSpec => []CollTypeOK
<1>1. CollInit => CollPages
  <2> SUFFICES ASSUME CollInit PROVE CollPages
    OBVIOUS
  <2>1. handle = Closed /\ failures = 0
    BY DEF CollInit
  <2>2. 0 \in 0 .. MaxFailures
    BY PagesAssumption
  <2> QED BY <2>1, <2>2, ClosedInPages DEF CollPages
<1>2. CollInv /\ CollPages => CollTypeOK
  BY DEF CollInv, WalkIn, CollPages, InPages, States, Pages, Modes, CollTypeOK
<1> QED BY <1>1, <1>2, CollInitInv, CollInvInductive, CollPagesStep, PTL DEF CollSpec
=============================================================================
