---------------------------- MODULE MachinesProofs ----------------------------
(***************************************************************************)
(* Theorems about five of the small machines, each on its own: processes   *)
(* that make and remove directories (MkTree), the byte order of RBUDP's    *)
(* sequence numbers (RbudpEndian), the file a password is kept in          *)
(* (PwFile), the parameters of a rule (MsParams) and the options of a      *)
(* request (KeyVal).                                                       *)
(***************************************************************************)
EXTENDS MkTree, PwFile, RbudpEndian, MsParams, KeyVal, SequenceTheorems, TLAPS

-----------------------------------------------------------------------------
(* MkTree, for any processes, tasks and name spaces to start from.         *)

\* Nobody removes directories of a process's path: what was there in the
\* beginning still is.
Kept(p) ==
  MakesPath(p) /\ Removers(p) = {} =>
    \A n \in 0 .. Len(task[p].dest) : Upto(p, n) \in before => Upto(p, n) \in tree

\* Where a process that makes a path stands there is something then: a directory,
\* or a file that mkdirR has taken for one, unless its start was not there.
Standing(p) ==
  MakesPath(p) /\ Removers(p) = {} /\ (walk[p] = "forward" \/ outcome[p] = "ok") =>
    \/ Exists(Upto(p, at[p]))
    \/ task[p].op = "mkdirR" /\ Upto(p, at[p]) \in objs
    \/ at[p] = task[p].start /\ Upto(p, at[p]) \notin before

\* A process whose path nobody crosses has found nothing beyond the place where
\* it is, if it need not make the first name.
Ahead(p) ==
  task[p].op = "mkdirR" /\ Crossing(p) = {} /\ ~FirstMissing(p) /\ walk[p] # "done" =>
    \A n \in 0 .. Len(task[p].dest) : n > at[p] => Upto(p, n) \notin tree \cup objs

Cause(p) ==
  outcome[p] = "error" =>
    \/ \E n \in 1 .. Len(task[p].dest) : Upto(p, n) \in objs
    \/ StartMissing(p)
    \/ task[p].op = "mkdirR" /\ (FirstMissing(p) \/ Crossing(p) # {})

MakerInv(p) ==
  /\ walk[p] \in {"back", "forward", "done"} /\ outcome[p] \in {"none", "ok", "error"}
  /\ at[p] \in task[p].start .. Len(task[p].dest)
  /\ walk[p] = "forward" => MakesPath(p)
  /\ outcome[p] # "none" => walk[p] = "done"
  /\ outcome[p] = "ok" /\ MakesPath(p) => at[p] = Len(task[p].dest)
  /\ Kept(p) /\ Standing(p) /\ Ahead(p) /\ Cause(p)

TreeInv ==
  /\ task \in Tasks /\ DOMAIN at = Makers /\ DOMAIN walk = Makers /\ DOMAIN outcome = Makers
  /\ tree \subseteq Seq(STRING) /\ objs \subseteq Seq(STRING)
  /\ TreeWhole
  /\ \A p \in Makers : MakerInv(p)

\* The prefixes of a path.
LEMMA PathFacts ==
  ASSUME task \in Tasks, NEW p \in Makers
  PROVE  /\ task[p].dest \in Seq(STRING) /\ Len(task[p].dest) \in Nat
         /\ Upto(p, Len(task[p].dest)) = task[p].dest
         /\ Upto(p, 0) = << >>
         /\ \A n \in 0 .. Len(task[p].dest) :
              Upto(p, n) \in Seq(STRING) /\ Len(Upto(p, n)) = n
         /\ \A n \in 1 .. Len(task[p].dest) : Parent(Upto(p, n)) = Upto(p, n - 1)
<1> DEFINE d == task[p].dest
<1>1. d \in Seq(STRING) /\ Len(d) \in Nat
  BY TasksAssumption
<1> HIDE DEF d
<1>2. SubSeq(d, 1, Len(d)) = d
  BY <1>1, SubSeqFull
<1>3. SubSeq(d, 1, 0) = << >>
  BY <1>1, SubSeqEmpty
<1>4. \A n \in 0 .. Len(d) : SubSeq(d, 1, n) \in Seq(STRING) /\ Len(SubSeq(d, 1, n)) = n
  BY <1>1
<1>5. ASSUME NEW n \in 1 .. Len(d)
      PROVE  SubSeq(SubSeq(d, 1, n), 1, n - 1) = SubSeq(d, 1, n - 1)
  BY <1>1
<1> QED BY <1>1, <1>2, <1>3, <1>4, <1>5 DEF d, Upto, Parent

\* A step changes the tree at one place at most, of the process's path and beyond
\* its start; rmdirR only takes away and the others only add.
OnePlace(p) ==
  \E m \in task[p].start + 1 .. Len(task[p].dest) :
    \/ task[p].op = "rmdirR" /\ tree' = tree \ {Upto(p, m)}
    \/ task[p].op # "rmdirR" /\ tree' = tree \cup {Upto(p, m)}

\* Who does not cross a path changes nothing of it.
LEMMA NotCrossed ==
  ASSUME task \in Tasks, NEW p \in Makers, NEW q \in Makers, ~Crosses(p, q),
         NEW m \in task[p].start + 1 .. Len(task[p].dest),
         NEW n \in 0 .. Len(task[q].dest)
  PROVE  Upto(q, n) # Upto(p, m)
<1>1. task[p].start \in Nat /\ Len(task[p].dest) \in Nat /\ Len(task[q].dest) \in Nat
  BY TasksAssumption, PathFacts
<1>2. Len(Upto(p, m)) = m /\ Len(Upto(q, n)) = n /\ m >= 1
  <2>1. m \in 0 .. Len(task[p].dest) /\ m >= 1
    BY <1>1
  <2> QED BY <2>1, PathFacts
<1>3. Upto(q, n) = Upto(p, m) => n \in 1 .. Len(task[q].dest) /\ n = m
  BY <1>1, <1>2
<1> QED BY <1>3 DEF Crosses

\* What depends on the tasks and on the beginning does not change.
LEMMA Unmoved ==
  ASSUME NEW p \in Makers, task' = task, before' = before
  PROVE  /\ Crossing(p)' = Crossing(p) /\ Removers(p)' = Removers(p)
         /\ FirstMissing(p)' = FirstMissing(p) /\ StartMissing(p)' = StartMissing(p)
         /\ MakesPath(p)' = MakesPath(p) /\ \A n : Upto(p, n)' = Upto(p, n)
BY DEF Crossing, Crosses, Removers, FirstMissing, StartMissing, MakesPath, Upto

\* What a step of one process leaves of the invariant of another.
LEMMA OthersKeep ==
  ASSUME TreeInv, NEW p \in Makers, NEW q \in Makers, p # q,
         task' = task, before' = before, objs' = objs, tree' = tree \/ OnePlace(p),
         at'[q] = at[q], walk'[q] = walk[q], outcome'[q] = outcome[q]
  PROVE  MakerInv(q)'
<1>1. MakerInv(q) /\ task \in Tasks
  BY DEF TreeInv
<1>2. /\ Crossing(q)' = Crossing(q) /\ Removers(q)' = Removers(q)
      /\ FirstMissing(q)' = FirstMissing(q) /\ StartMissing(q)' = StartMissing(q)
      /\ MakesPath(q)' = MakesPath(q) /\ \A n : Upto(q, n)' = Upto(q, n)
  BY Unmoved
<1>3. ASSUME MakesPath(q), Removers(q) = {}, NEW n \in 0 .. Len(task[q].dest), Upto(q, n) \in tree
      PROVE  Upto(q, n) \in tree'
  <2>1. ASSUME NEW m \in task[p].start + 1 .. Len(task[p].dest), task[p].op = "rmdirR",
               tree' = tree \ {Upto(p, m)}
        PROVE  Upto(q, n) \in tree'
    <3>1. ~Crosses(p, q)
      BY <1>3, <2>1 DEF Removers, Crossing
    <3>2. Upto(q, n) # Upto(p, m)
      BY <1>1, <3>1, NotCrossed
    <3> QED BY <1>3, <2>1, <3>2
  <2> QED BY <1>3, <2>1 DEF OnePlace
<1>4. ASSUME task[q].op = "mkdirR", Crossing(q) = {}, NEW n \in 0 .. Len(task[q].dest),
             Upto(q, n) \notin tree
      PROVE  Upto(q, n) \notin tree'
  <2>1. task[p].op \in {"mkdirR", "rmdirR"}
    BY <1>1, <1>4, TasksAssumption
  <2>2. ~Crosses(p, q)
    BY <1>4, <2>1 DEF Crossing
  <2>3. ASSUME NEW m \in task[p].start + 1 .. Len(task[p].dest), tree' = tree \cup {Upto(p, m)}
        PROVE  Upto(q, n) \notin tree'
    <3>1. Upto(q, n) # Upto(p, m)
      BY <1>1, <2>2, NotCrossed
    <3> QED BY <1>4, <2>3, <3>1
  <2> QED BY <1>4, <2>3 DEF OnePlace
<1>5. Kept(q)'
  BY <1>1, <1>2, <1>3 DEF MakerInv, Kept
<1>6. Standing(q)'
  <2>1. at[q] \in 0 .. Len(task[q].dest)
    BY <1>1, TasksAssumption DEF MakerInv
  <2>2. MakesPath(q) /\ Removers(q) = {} /\ Exists(Upto(q, at[q])) => Exists(Upto(q, at[q]))'
    BY <1>2, <1>3, <2>1 DEF Exists
  <2> QED BY <1>1, <1>2, <2>2 DEF MakerInv, Standing
<1>7. Ahead(q)'
  BY <1>1, <1>2, <1>4 DEF MakerInv, Ahead
<1>8. Cause(q)'
  BY <1>1, <1>2 DEF MakerInv, Cause
<1> QED BY <1>1, <1>2, <1>5, <1>6, <1>7, <1>8 DEF MakerInv

\* ... and what is left to show of it.
LEMMA MakerStep ==
  ASSUME TreeInv, NEW p \in Makers,
         task' = task, before' = before, objs' = objs, tree' = tree \/ OnePlace(p),
         tree' \subseteq Seq(STRING), TreeWhole',
         DOMAIN at' = Makers, DOMAIN walk' = Makers, DOMAIN outcome' = Makers,
         \A q \in Makers \ {p} : at'[q] = at[q] /\ walk'[q] = walk[q] /\ outcome'[q] = outcome[q],
         MakerInv(p)'
  PROVE  TreeInv'
<1>1. \A q \in Makers : MakerInv(q)'
  BY OthersKeep
<1> QED BY <1>1 DEF TreeInv

\* Looking for what exists.
LEMMA LookKeeps ==
  ASSUME TreeInv, NEW p \in Makers, Look(p) \/ AtStart(p)
  PROVE  TreeInv'
<1>1. /\ MakerInv(p) /\ task \in Tasks /\ walk[p] = "back" /\ MakesPath(p)
      /\ UNCHANGED <<task, before, tree, objs, outcome>>
      /\ task[p].start \in Nat /\ Len(task[p].dest) \in Nat /\ at[p] \in 0 .. Len(task[p].dest)
  <2>1. MakerInv(p) /\ task \in Tasks
    BY DEF TreeInv
  <2>2. task[p].start \in Nat /\ Len(task[p].dest) \in Nat
    BY <2>1, TasksAssumption, PathFacts
  <2> QED BY <2>1, <2>2 DEF MakerInv, Look, AtStart, MakesPath
<1>2. TreeWhole'
  BY <1>1 DEF TreeInv, TreeWhole, Exists
<1>3. outcome[p] = "none" /\ Kept(p)
  BY <1>1 DEF MakerInv
<1>4. /\ Crossing(p)' = Crossing(p) /\ Removers(p)' = Removers(p)
      /\ FirstMissing(p)' = FirstMissing(p) /\ StartMissing(p)' = StartMissing(p)
      /\ MakesPath(p)' = MakesPath(p) /\ \A n : Upto(p, n)' = Upto(p, n)
  BY <1>1, Unmoved
<1>5. Kept(p)' /\ Cause(p)'
  BY <1>1, <1>3, <1>4 DEF Kept, Cause
<1>6. CASE at' = at /\ walk' = [walk EXCEPT ![p] = "forward"]
             /\ ((Found(p) /\ at[p] > task[p].start) \/ at[p] = task[p].start)
  <2>1. walk'[p] = "forward" /\ DOMAIN walk' = Makers
        /\ \A q \in Makers \ {p} : walk'[q] = walk[q]
    BY <1>6 DEF TreeInv
  <2>2. Standing(p)'
    <3> SUFFICES ASSUME Removers(p) = {}
                 PROVE  \/ Exists(Upto(p, at[p]))
                        \/ task[p].op = "mkdirR" /\ Upto(p, at[p]) \in objs
                        \/ at[p] = task[p].start /\ Upto(p, at[p]) \notin before
      BY <1>1, <1>4, <1>6 DEF Standing, Exists
    <3>1. CASE Found(p)
      BY <1>1, <3>1 DEF Found, Exists, MakesPath
    <3>2. CASE at[p] = task[p].start /\ Upto(p, at[p]) \in before
      BY <1>1, <1>3, <3>2 DEF Kept, Exists
    <3> QED BY <1>6, <3>1, <3>2
  <2>3. Ahead(p)'
    BY <1>1, <1>4, <1>6 DEF MakerInv, Ahead
  <2>4. MakerInv(p)'
    BY <1>1, <1>3, <1>4, <1>5, <1>6, <2>1, <2>2, <2>3 DEF MakerInv
  <2> QED BY <1>1, <1>2, <1>6, <2>1, <2>4, MakerStep DEF TreeInv
<1>7. CASE walk' = walk /\ at' = [at EXCEPT ![p] = @ - 1] /\ at[p] > task[p].start
             /\ (~Found(p) \/ task[p].op = "mkCollR")
  <2>1. at'[p] = at[p] - 1 /\ DOMAIN at' = Makers
        /\ \A q \in Makers \ {p} : at'[q] = at[q]
    BY <1>7 DEF TreeInv
  <2>2. Standing(p)'
    BY <1>1, <1>3, <1>7 DEF Standing
  <2>3. Ahead(p)'
    <3> SUFFICES ASSUME task[p].op = "mkdirR", Crossing(p) = {}, ~FirstMissing(p),
                        NEW n \in 0 .. Len(task[p].dest), n > at[p] - 1
                 PROVE  Upto(p, n) \notin tree \cup objs
      BY <1>1, <1>4, <2>1 DEF Ahead
    <3>1. n > at[p] \/ n = at[p]
      BY <1>1
    <3> QED BY <1>1, <1>7, <3>1 DEF MakerInv, Ahead, Found
  <2>4. at'[p] \in task[p].start .. Len(task[p].dest)
    BY <1>1, <1>7, <2>1 DEF MakerInv
  <2>5. MakerInv(p)'
    BY <1>1, <1>3, <1>4, <1>5, <1>7, <2>2, <2>3, <2>4 DEF MakerInv
  <2> QED BY <1>1, <1>2, <1>7, <2>1, <2>5, MakerStep DEF TreeInv
<1> QED BY <1>6, <1>7 DEF Look, AtStart

\* What stands where the next directory is to be made.
LEMMA NextPath ==
  ASSUME TreeInv, NEW p \in Makers, walk[p] = "forward", at[p] < Len(task[p].dest)
  PROVE  /\ at[p] + 1 \in 1 .. Len(task[p].dest) /\ at[p] \in 0 .. Len(task[p].dest)
         /\ at[p] + 1 \in task[p].start + 1 .. Len(task[p].dest)
         /\ task[p].start \in Nat /\ at[p] >= task[p].start
         /\ Upto(p, at[p] + 1) \in Seq(STRING)
         /\ Parent(Upto(p, at[p] + 1)) = Upto(p, at[p])
         /\ MakesPath(p) /\ outcome[p] = "none" /\ MakerInv(p)
         /\ task \in Tasks /\ Len(task[p].dest) \in Nat
<1>1. MakerInv(p) /\ task \in Tasks
  BY DEF TreeInv
<1>2. task[p].start \in Nat /\ Len(task[p].dest) \in Nat
  BY <1>1, TasksAssumption, PathFacts
<1>3. /\ at[p] + 1 \in 1 .. Len(task[p].dest) /\ at[p] + 1 \in 0 .. Len(task[p].dest)
      /\ at[p] + 1 \in task[p].start + 1 .. Len(task[p].dest)
      /\ at[p] \in 0 .. Len(task[p].dest) /\ at[p] >= task[p].start /\ (at[p] + 1) - 1 = at[p]
  BY <1>1, <1>2 DEF MakerInv
<1> QED BY <1>1, <1>2, <1>3, PathFacts DEF MakerInv

\* One directory made, or found to be there by mkColl.
LEMMA MakeKeeps ==
  ASSUME TreeInv, NEW p \in Makers, Make(p), outcome' = outcome
  PROVE  TreeInv'
<1> DEFINE path == Upto(p, at[p] + 1)
<1>1. walk[p] = "forward" /\ at[p] < Len(task[p].dest) /\ UNCHANGED <<task, before, objs>>
  BY DEF Make
<1>2. /\ at[p] + 1 \in 1 .. Len(task[p].dest) /\ at[p] \in 0 .. Len(task[p].dest)
      /\ at[p] + 1 \in task[p].start + 1 .. Len(task[p].dest)
      /\ task[p].start \in Nat /\ at[p] >= task[p].start /\ path \in Seq(STRING)
      /\ Parent(path) = Upto(p, at[p]) /\ MakesPath(p) /\ outcome[p] = "none" /\ MakerInv(p)
      /\ task \in Tasks /\ Len(task[p].dest) \in Nat
  BY <1>1, NextPath
<1>3. /\ at' = [at EXCEPT ![p] = Past(@)] /\ walk' = walk
      /\ \/ path \in tree /\ tree' = tree
         \/ tree' = tree \cup {path} /\ Exists(Parent(path))
  <2>1. ~End(p, "error")
    BY <1>2 DEF End, TreeInv
  <2>2. /\ at' = [at EXCEPT ![p] = Past(@)] /\ UNCHANGED <<walk, outcome>>
        /\ \/ path \in tree /\ UNCHANGED tree
           \/ tree' = tree \cup {path} /\ Exists(Parent(path))
    BY <2>1 DEF Make
  <2> QED BY <2>2
<1>4. tree' = tree \/ OnePlace(p)
  <2>1. task[p].op # "rmdirR"
    BY <1>2 DEF MakesPath
  <2> QED BY <1>2, <1>3, <2>1 DEF OnePlace
<1>5. Len(path) = at[p] + 1
  <2>1. at[p] + 1 \in 0 .. Len(task[p].dest)
    BY <1>2
  <2> QED BY <1>2, <2>1, PathFacts
<1>6. /\ Crossing(p)' = Crossing(p) /\ Removers(p)' = Removers(p)
      /\ FirstMissing(p)' = FirstMissing(p) /\ StartMissing(p)' = StartMissing(p)
      /\ MakesPath(p)' = MakesPath(p) /\ \A n : Upto(p, n)' = Upto(p, n)
  BY <1>1, Unmoved
<1>7. at'[p] = Past(at[p]) /\ DOMAIN at' = Makers
      /\ \A q \in Makers \ {p} : at'[q] = at[q]
  BY <1>3 DEF TreeInv
<1>8. Past(at[p]) \in task[p].start .. Len(task[p].dest)
      /\ (at[p] = 0 => Past(at[p]) = 0) /\ (at[p] # 0 => Past(at[p]) = at[p] + 1)
  BY <1>2 DEF Past
<1>9. TreeWhole' /\ tree \subseteq tree' /\ tree' \subseteq Seq(STRING) /\ path \in tree'
  BY <1>1, <1>2, <1>3 DEF TreeInv, TreeWhole, Exists
<1>10. Kept(p)'
  BY <1>1, <1>2, <1>6, <1>9 DEF MakerInv, Kept
<1>11. Standing(p)'
  <2>1. CASE at[p] = 0
    <3>1. Exists(Upto(p, 0))'
      BY <1>2, <1>6, PathFacts DEF Exists
    <3> QED BY <1>6, <1>7, <1>8, <2>1, <3>1 DEF Standing
  <2>2. CASE at[p] # 0
    <3>1. Upto(p, at'[p]) \in tree'
      BY <1>7, <1>8, <1>9, <2>2
    <3> QED BY <1>6, <3>1 DEF Standing, Exists
  <2> QED BY <2>1, <2>2
<1>12. Ahead(p)'
  <2> SUFFICES ASSUME task[p].op = "mkdirR", Crossing(p) = {}, ~FirstMissing(p),
                      NEW n \in 0 .. Len(task[p].dest), n > Past(at[p])
               PROVE  Upto(p, n) \notin tree' \cup objs
    BY <1>1, <1>6, <1>7 DEF Ahead
  <2>1. \A k \in 0 .. Len(task[p].dest) : k > at[p] => Upto(p, k) \notin tree \cup objs
    BY <1>1, <1>2 DEF MakerInv, Ahead
  <2>2. at[p] # 0
    <3> SUFFICES ASSUME at[p] = 0 PROVE FALSE
      OBVIOUS
    <3>1. 1 \in 0 .. Len(task[p].dest) /\ task[p].start = 0 /\ 1 > at[p]
      BY <1>2
    <3>2. Removers(p) = {}
      BY DEF Removers
    <3>3. Upto(p, 1) \in tree
      BY <1>2, <3>1, <3>2 DEF MakerInv, Kept, FirstMissing
    <3> QED BY <2>1, <3>1, <3>3
  <2>3. n > at[p] + 1 /\ n > at[p]
    BY <1>2, <1>8, <2>2
  <2>4. Upto(p, n) \notin tree \cup objs /\ Len(Upto(p, n)) = n
    BY <1>2, <2>1, <2>3, PathFacts
  <2>5. Upto(p, n) # path
    BY <1>2, <1>5, <2>3, <2>4
  <2> QED BY <1>3, <2>4, <2>5
<1>13. Cause(p)'
  BY <1>2 DEF Cause
<1>14. MakerInv(p)'
  BY <1>1, <1>2, <1>3, <1>6, <1>7, <1>8, <1>10, <1>11, <1>12, <1>13 DEF MakerInv
<1> QED BY <1>1, <1>3, <1>4, <1>7, <1>9, <1>14, MakerStep DEF TreeInv

\* A directory that cannot be made: an object is in the way, another process was,
\* the start is missing or the first name has been made already.
LEMMA MakeFailsForCause ==
  ASSUME TreeInv, NEW p \in Makers, Make(p), outcome' # outcome
  PROVE  TreeInv'
<1> DEFINE path == Upto(p, at[p] + 1)
<1>1. walk[p] = "forward" /\ at[p] < Len(task[p].dest) /\ UNCHANGED <<task, before, tree, objs, at>>
  BY DEF Make
<1>2. /\ at[p] + 1 \in 1 .. Len(task[p].dest) /\ at[p] \in 0 .. Len(task[p].dest)
      /\ task[p].start \in Nat /\ at[p] >= task[p].start
      /\ Parent(path) = Upto(p, at[p]) /\ MakesPath(p) /\ MakerInv(p)
      /\ task \in Tasks /\ Len(task[p].dest) \in Nat
  BY <1>1, NextPath
<1>3. /\ End(p, "error")
      /\ path \in objs \/ (path \in tree /\ ~AlreadyIsSuccess(p)) \/ ~Exists(Upto(p, at[p]))
  BY <1>2 DEF Make
<1> HIDE DEF path
<1>4. walk'[p] = "done" /\ outcome'[p] = "error"
      /\ DOMAIN walk' = Makers /\ DOMAIN outcome' = Makers
      /\ \A q \in Makers \ {p} : walk'[q] = walk[q] /\ outcome'[q] = outcome[q]
  BY <1>3 DEF End, TreeInv
<1>5. TreeWhole'
  BY <1>1 DEF TreeInv, TreeWhole, Exists
<1>6. /\ Crossing(p)' = Crossing(p) /\ Removers(p)' = Removers(p)
      /\ FirstMissing(p)' = FirstMissing(p) /\ StartMissing(p)' = StartMissing(p)
      /\ MakesPath(p)' = MakesPath(p) /\ \A n : Upto(p, n)' = Upto(p, n)
  BY <1>1, Unmoved
\* The place where the process stands is gone.
<1>7. ASSUME Removers(p) = {}, ~Exists(Upto(p, at[p]))
      PROVE  \/ \E n \in 1 .. Len(task[p].dest) : Upto(p, n) \in objs
             \/ StartMissing(p)
  <2>1. at[p] # 0
    BY <1>2, <1>7, PathFacts DEF Exists
  <2>2. at[p] \in 1 .. Len(task[p].dest)
    BY <1>2, <2>1
  <2>3. \/ Upto(p, at[p]) \in objs
        \/ at[p] = task[p].start /\ Upto(p, at[p]) \notin before
    BY <1>1, <1>2, <1>7 DEF MakerInv, Standing
  <2>4. at[p] = task[p].start => task[p].start > 0
    BY <1>2, <2>1
  <2> QED BY <2>2, <2>3, <2>4 DEF StartMissing
<1>8. \/ \E n \in 1 .. Len(task[p].dest) : Upto(p, n) \in objs
      \/ StartMissing(p)
      \/ task[p].op = "mkdirR" /\ (FirstMissing(p) \/ Crossing(p) # {})
  <2>1. CASE path \in objs
    BY <1>2, <2>1 DEF path
  <2>2. CASE task[p].op = "mkCollR" /\ path \notin objs
    <3>1. Removers(p) = {}
      BY <1>2, <2>2, TasksAssumption DEF Removers, Crossing
    <3> QED BY <1>3, <1>7, <2>2, <3>1 DEF AlreadyIsSuccess
  <2>3. CASE task[p].op = "mkdirR" /\ path \notin objs /\ Crossing(p) = {} /\ ~FirstMissing(p)
    <3>1. Removers(p) = {}
      BY <2>3 DEF Removers
    <3>2. at[p] + 1 > at[p] /\ at[p] + 1 \in 0 .. Len(task[p].dest)
      BY <1>2
    <3>3. path \notin tree
      BY <1>1, <1>2, <2>3, <3>2 DEF MakerInv, Ahead, path
    <3> QED BY <1>3, <1>7, <2>3, <3>1, <3>3
  <2> QED BY <1>2, <2>1, <2>2, <2>3 DEF MakesPath
<1>9. MakerInv(p)'
  <2>1. Cause(p)'
    BY <1>1, <1>6, <1>8 DEF Cause
  <2>2. Kept(p)' /\ Standing(p)' /\ Ahead(p)'
    BY <1>1, <1>2, <1>4, <1>6 DEF MakerInv, Kept, Standing, Ahead
  <2> QED BY <1>1, <1>2, <1>4, <1>6, <2>1, <2>2 DEF MakerInv
<1> QED BY <1>1, <1>4, <1>5, <1>9, MakerStep DEF TreeInv

\* A process that has the whole path, or has gone through it removing.
LEMMA EndsKeep ==
  ASSUME TreeInv, NEW p \in Makers, Made(p) \/ Removed(p)
  PROVE  TreeInv'
<1>1. /\ MakerInv(p) /\ End(p, "ok") /\ UNCHANGED <<task, before, tree, objs, at>>
      /\ (walk[p] = "forward" /\ at[p] = Len(task[p].dest)) \/ ~MakesPath(p)
  BY DEF TreeInv, Made, Removed, MakesPath
<1>2. walk'[p] = "done" /\ outcome'[p] = "ok"
      /\ DOMAIN walk' = Makers /\ DOMAIN outcome' = Makers
      /\ \A q \in Makers \ {p} : walk'[q] = walk[q] /\ outcome'[q] = outcome[q]
  BY <1>1 DEF End, TreeInv
<1>3. TreeWhole'
  BY <1>1 DEF TreeInv, TreeWhole, Exists
<1>4. /\ Crossing(p)' = Crossing(p) /\ Removers(p)' = Removers(p)
      /\ MakesPath(p)' = MakesPath(p) /\ \A n : Upto(p, n)' = Upto(p, n)
  BY <1>1, Unmoved
<1>5. Kept(p)' /\ Standing(p)'
  BY <1>1, <1>2, <1>4 DEF MakerInv, Kept, Standing, Exists
<1>6. MakerInv(p)'
  BY <1>1, <1>2, <1>4, <1>5 DEF MakerInv, Ahead, Cause
<1> QED BY <1>1, <1>2, <1>3, <1>6, MakerStep DEF TreeInv

\* An empty directory is removed, whatever its place in the path.
LEMMA RemoveKeeps ==
  ASSUME TreeInv, NEW p \in Makers, RemoveDir(p)
  PROVE  TreeInv'
<1> DEFINE path == Upto(p, at[p])
<1>1. /\ MakerInv(p) /\ task[p].op = "rmdirR" /\ walk[p] = "back" /\ at[p] > task[p].start
      /\ tree' = IF CanRemove(path) THEN tree \ {path} ELSE tree
      /\ at' = [at EXCEPT ![p] = @ - 1] /\ UNCHANGED <<task, before, objs, walk, outcome>>
      /\ task \in Tasks /\ task[p].start \in Nat /\ Len(task[p].dest) \in Nat
  <2>1. task \in Tasks
    BY DEF TreeInv
  <2>2. task[p].start \in Nat /\ Len(task[p].dest) \in Nat
    BY <2>1, TasksAssumption, PathFacts
  <2> QED BY <2>1, <2>2 DEF TreeInv, RemoveDir
<1>2. at[p] \in task[p].start + 1 .. Len(task[p].dest)
      /\ at[p] - 1 \in task[p].start .. Len(task[p].dest)
  BY <1>1 DEF MakerInv
<1>3. tree' = tree \/ OnePlace(p)
  BY <1>1, <1>2 DEF OnePlace
<1> HIDE DEF path
<1>4. at'[p] = at[p] - 1 /\ DOMAIN at' = Makers /\ \A q \in Makers \ {p} : at'[q] = at[q]
  BY <1>1 DEF TreeInv
<1>5. TreeWhole'
  <2> SUFFICES ASSUME NEW q \in tree' \cup objs, Parent(q) # << >> PROVE Parent(q) \in tree'
    BY <1>1 DEF TreeWhole, Exists
  <2>1. q \in tree \cup objs /\ Parent(q) \in tree
    BY <1>1 DEF TreeInv, TreeWhole, Exists
  <2>2. Len(q) > 0
    <3>1. q \in Seq(STRING)
      BY <2>1 DEF TreeInv
    <3> QED BY <3>1, SubSeqEmpty DEF Parent
  <2>3. CanRemove(path) => Parent(q) # path
    BY <2>1, <2>2 DEF CanRemove, Children
  <2> QED BY <1>1, <2>1, <2>3
<1>6. MakesPath(p)' = FALSE /\ \A n : Upto(p, n)' = Upto(p, n)
  BY <1>1 DEF MakesPath, Upto
<1>7. MakerInv(p)'
  BY <1>1, <1>2, <1>4, <1>6 DEF MakerInv, Kept, Standing, Ahead, Cause, MakesPath
<1>8. tree' \subseteq Seq(STRING)
  BY <1>1 DEF TreeInv
<1> QED BY <1>1, <1>3, <1>4, <1>5, <1>7, <1>8, MakerStep DEF TreeInv

LEMMA TreeInitial ==
  ASSUME TreeInit
  PROVE  TreeInv
<1>1. PICK t \in Trees : before = t.colls /\ tree = t.colls /\ objs = t.objs
  BY DEF TreeInit
<1>2. TreeWhole /\ tree \subseteq Seq(STRING) /\ objs \subseteq Seq(STRING)
  BY <1>1, TreesAssumption DEF TreeWhole, Exists
<1>3. ASSUME NEW p \in Makers PROVE MakerInv(p)
  <2>1. at[p] = Len(task[p].dest) /\ walk[p] = "back" /\ outcome[p] = "none" /\ task \in Tasks
    BY DEF TreeInit
  <2>2. Len(task[p].dest) \in task[p].start .. Len(task[p].dest) /\ Len(task[p].dest) \in Nat
    BY <2>1, TasksAssumption, PathFacts
  <2> QED BY <1>1, <2>1, <2>2 DEF MakerInv, Kept, Standing, Ahead, Cause
<1> QED BY <1>2, <1>3 DEF TreeInit, TreeInv

LEMMA TreeInvariant == TreeSpec => []TreeInv
<1>1. TreeInit => TreeInv
  BY TreeInitial
<1>2. TreeInv /\ [TreeNext]_treeVars => TreeInv'
  <2>1. ASSUME TreeInv, NEW p \in Makers, TreeStep(p) PROVE TreeInv'
    BY <2>1, LookKeeps, MakeKeeps, MakeFailsForCause, EndsKeep, RemoveKeeps DEF TreeStep
  <2>2. ASSUME TreeInv, UNCHANGED treeVars PROVE TreeInv'
    <3>1. ASSUME NEW p \in Makers PROVE MakerInv(p)'
      <4>1. /\ Crossing(p)' = Crossing(p) /\ Removers(p)' = Removers(p)
            /\ FirstMissing(p)' = FirstMissing(p) /\ StartMissing(p)' = StartMissing(p)
            /\ MakesPath(p)' = MakesPath(p) /\ \A n : Upto(p, n)' = Upto(p, n)
        BY <2>2, Unmoved DEF treeVars
      <4> QED BY <2>2, <4>1 DEF treeVars, TreeInv, MakerInv, Kept, Standing, Ahead, Cause, Exists
    <3> QED BY <2>2, <3>1 DEF treeVars, TreeInv, TreeWhole, Exists
  <2> QED BY <2>1, <2>2 DEF TreeNext
<1> QED BY <1>1, <1>2, PTL DEF TreeSpec

\* Whatever any number of processes do with mkCollR, mkdirR and rmdirR on paths
\* that overlap, from any name space that is whole: no directory is left without
\* its parent, who succeeds has the whole path unless somebody removes
\* directories of it, and an error has a cause: an object in the way, a start
\* that was not there, or, for mkdirR, a process whose path crosses its own or a
\* first name that it made twice.
THEOREM MkTreeSound == TreeSpec => []TreesSound
<1>1. ASSUME TreeInv PROVE TreesSound
  <2>1. MadeWhole
    <3> SUFFICES ASSUME NEW p \in Makers, outcome[p] = "ok", MakesPath(p), Removers(p) = {}
                 PROVE  \/ Exists(task[p].dest)
                        \/ task[p].op = "mkdirR" /\ task[p].dest \in objs
                        \/ task[p].start = Len(task[p].dest)
      BY DEF MadeWhole
    <3>1. MakerInv(p) /\ task \in Tasks
      BY <1>1 DEF TreeInv
    <3>2. at[p] = Len(task[p].dest) /\ Upto(p, at[p]) = task[p].dest
      BY <3>1, PathFacts DEF MakerInv
    <3> QED BY <3>1, <3>2 DEF MakerInv, Standing
  <2>2. FailsForCause
    BY <1>1 DEF TreeInv, MakerInv, Cause, FailsForCause
  <2> QED BY <1>1, <2>1, <2>2 DEF TreesSound, TreeInv
<1> QED BY <1>1, TreeInvariant, PTL

\* A step of a process changes its own walk and outcome.
WalksAndOutcomes ==
  /\ walk \in [Makers -> {"back", "forward", "done"}]
  /\ outcome \in [Makers -> {"none", "ok", "error"}]

LEMMA WalksKept == TreeSpec => []WalksAndOutcomes
<1>1. TreeInit => WalksAndOutcomes
  BY DEF TreeInit, WalksAndOutcomes
<1>2. WalksAndOutcomes /\ [TreeNext]_treeVars => WalksAndOutcomes'
  <2>1. ASSUME WalksAndOutcomes, NEW p \in Makers, TreeStep(p) PROVE WalksAndOutcomes'
    <3>1. CASE Look(p) \/ AtStart(p)
      BY <2>1, <3>1 DEF Look, AtStart, WalksAndOutcomes
    <3>2. CASE Make(p)
      BY <2>1, <3>2 DEF Make, End, WalksAndOutcomes
    <3>3. CASE Made(p) \/ Removed(p) \/ RemoveDir(p)
      BY <2>1, <3>3 DEF Made, Removed, RemoveDir, End, WalksAndOutcomes
    <3> QED BY <2>1, <3>1, <3>2, <3>3 DEF TreeStep
  <2>2. ASSUME WalksAndOutcomes, UNCHANGED treeVars PROVE WalksAndOutcomes'
    BY <2>2 DEF treeVars, WalksAndOutcomes
  <2> QED BY <2>1, <2>2 DEF TreeNext
<1> QED BY <1>1, <1>2, PTL DEF TreeSpec

(* Each process is at a level of its path, and walks, or has an outcome.   *)
THEOREM MkTreeType == TreeSpec => []TreeTypeOK
<1>1. TreeInv /\ WalksAndOutcomes => TreeTypeOK
  BY DEF TreeInv, MakerInv, WalksAndOutcomes, TreeTypeOK
<1> QED BY <1>1, TreeInvariant, WalksKept, PTL

-----------------------------------------------------------------------------
(* RbudpEndian, for any number of packets below 65536, all of them in any  *)
(* order.                                                                  *)

\* A swapped number cannot be in range.
Few == PacketCount <= 65535

\* A number of two bytes, and what becomes of it when its bytes are swapped.
TwoByte == 0 .. 65535
FromBytes(b0, b1) == 256 * b1 + b0
Signed(b) == IF b >= 128 THEN b - 256 ELSE b
SwappedOf(b0, b1) == Signed(b0) * 16777216 + b1 * 65536

LEMMA TwoBytes ==
  ASSUME NEW s \in TwoByte
  PROVE  \E b0 \in 0 .. 255, b1 \in 0 .. 255 : s = FromBytes(b0, b1)
<1>0. s \in Int /\ 0 <= s /\ s <= 65535
  BY SMT DEF TwoByte
<1>1. s % 256 \in 0 .. 255 /\ s \div 256 \in 0 .. 255
  BY <1>0, SMT
<1>2. s = FromBytes(s % 256, s \div 256)
  BY SMT DEF TwoByte, FromBytes
<1> QED BY <1>1, <1>2

\* A multiple divided, and what is left of a number beyond a multiple.
LEMMA DivideMultiple ==
  ASSUME NEW k \in Int, NEW b \in 0 .. 255
  PROVE  /\ (256 * k) % 256 = 0 /\ (256 * k + b) % 256 = b
         /\ (256 * k) \div 256 = k /\ (65536 * k) \div 65536 = k
BY SMT

LEMMA SwabIs ==
  ASSUME NEW b0 \in 0 .. 255, NEW b1 \in 0 .. 255
  PROVE  Swab32(FromBytes(b0, b1)) = SwappedOf(b0, b1)
<1> DEFINE s == FromBytes(b0, b1)
<1>1. Byte(s, 1) = b0 /\ Byte(s, 256) = b1
  BY SMT DEF Byte, FromBytes
<1>2. Byte(s, 65536) = 0 /\ Byte(s, 16777216) = 0
  BY SMT DEF Byte, FromBytes
<1> HIDE DEF s
<1>3. Swab32(s) = SwappedOf(b0, b1)
  BY <1>1, <1>2, SMT DEF Swab32, SwappedOf, Signed
<1> QED BY <1>3 DEF s

LEMMA SwabBack ==
  ASSUME NEW b0 \in 0 .. 255, NEW b1 \in 0 .. 255
  PROVE  Swab32(SwappedOf(b0, b1)) = FromBytes(b0, b1)
<1> DEFINE t == Signed(b0)
           w == SwappedOf(b0, b1)
<1>0. t \in -128 .. 127 /\ t % 256 = b0
  BY DEF Signed
<1>1. w = 16777216 * t + 65536 * b1 /\ w \in Int
  BY <1>0, SMT DEF SwappedOf
<1> HIDE DEF t, w
<1>2. w % 256 = 0 /\ w \div 256 = 65536 * t + 256 * b1 /\ w \div 65536 = 256 * t + b1
  <2> DEFINE k == 65536 * t + 256 * b1
             m == 256 * t + b1
  <2>1. k \in Int /\ m \in Int /\ w = 256 * k /\ w = 65536 * m
    BY <1>0, <1>1, SMT
  <2> HIDE DEF k, m
  <2>2. w % 256 = 0 /\ w \div 256 = k /\ w \div 65536 = m
    BY <2>1, DivideMultiple, SMT
  <2> QED BY <2>2 DEF k, m
<1>3. w \div 16777216 = t
  BY <1>0, <1>1, SMT
<1>4. (65536 * t + 256 * b1) % 256 = 0
  <2>1. 65536 * t + 256 * b1 = 256 * (256 * t + b1) /\ 256 * t + b1 \in Int
    BY <1>0, SMT
  <2> QED BY <2>1, DivideMultiple
<1>5. (256 * t + b1) % 256 = b1
  BY <1>0, DivideMultiple
<1>6. Byte(w, 1) = 0 /\ Byte(w, 256) = 0 /\ Byte(w, 65536) = b1 /\ Byte(w, 16777216) = b0
  <2>1. w \div 1 = w
    BY <1>1, SMT
  <2> QED BY <1>0, <1>2, <1>3, <1>4, <1>5, <2>1, SMT DEF Byte
<1>7. Swab32(w) = FromBytes(b0, b1)
  BY <1>6, SMT DEF Swab32, FromBytes
<1> QED BY <1>7 DEF w

\* Swapped twice a number is what it was; swapped once it is out of range.
LEMMA SwabFacts ==
  ASSUME Few, NEW s \in 0 .. PacketCount - 1
  PROVE  /\ Packets!InRange(PacketCount, s) /\ s \in Int
         /\ Swab32(Swab32(s)) = s
         /\ s = 0 => Swab32(s) = 0
         /\ s # 0 => ~Packets!InRange(PacketCount, Swab32(s))
<1>0. PacketCount \in Nat \ {0} /\ s \in TwoByte /\ s \in Int
  BY SampleAssumption, SMT DEF TwoByte, Few
<1>1. PICK b0 \in 0 .. 255, b1 \in 0 .. 255 : s = FromBytes(b0, b1)
  BY <1>0, TwoBytes, Zenon
<1>2. Swab32(s) = SwappedOf(b0, b1) /\ Swab32(SwappedOf(b0, b1)) = s
  BY <1>1, SwabIs, SwabBack, Zenon
<1>3. /\ Packets!Slots(PacketCount) \in Int /\ s < Packets!Slots(PacketCount)
      /\ Packets!Slots(PacketCount) <= 65536
  BY <1>0, SMT DEF Packets!Slots, Few
<1>4. s # 0 => SwappedOf(b0, b1) < 0 \/ SwappedOf(b0, b1) >= 65536
  BY <1>1, SMT DEF SwappedOf, Signed, FromBytes
<1>5. SwappedOf(b0, b1) \in Int /\ (s = 0 => SwappedOf(b0, b1) = 0)
  BY <1>1, SMT DEF SwappedOf, Signed, FromBytes
<1> QED BY <1>0, <1>2, <1>3, <1>4, <1>5, SMT DEF Packets!InRange

EndianInv ==
  /\ opposite \in BOOLEAN /\ peerswap \in BOOLEAN
  /\ peerswap => opposite
  /\ InPlace

\* A peer of the other byte order is found out by its first number but 0, and
\* its payloads are in their places all the same, as are everybody else's.
LEMMA ReceiveKeeps ==
  ASSUME Few, EndianInv, NEW s \in Sample, Receive(s)
  PROVE  EndianInv'
<1> DEFINE wire == IF opposite THEN Swab32(s) ELSE s
           host == Packets!PtohSeq(PacketCount, peerswap, wire)
           mark == Packets!Marked(PacketCount, host.swap, host.seq)
<1>1. s \in 0 .. PacketCount - 1
  BY SampleAssumption
<1>2. /\ Packets!InRange(PacketCount, s) /\ s \in Int
      /\ Swab32(Swab32(s)) = s
      /\ s = 0 => Swab32(s) = 0
      /\ s # 0 => ~Packets!InRange(PacketCount, Swab32(s))
  BY <1>1, SwabFacts
<1>3. host.seq = s /\ host.swap \in BOOLEAN /\ (host.swap => opposite)
  BY <1>2 DEF Packets!PtohSeq, EndianInv
<1> HIDE DEF host
<1>4. mark.swap \in BOOLEAN /\ (mark.swap => opposite)
  BY <1>2, <1>3 DEF Packets!Marked
<1>5. mark.bits = {s}
  BY <1>2, <1>3 DEF Packets!Marked, Packets!InRange
<1>6. sent' = s /\ placed' = host.seq /\ marked' = mark.bits /\ peerswap' = mark.swap
      /\ opposite' = opposite
  BY DEF Receive, host
<1> QED BY <1>3, <1>4, <1>5, <1>6 DEF EndianInv, InPlace

\* With less than 65536 packets, whatever the byte order of the peer and the
\* order of the packets, ptohseq and updateErrorBitmap put every payload in its
\* place and set its bit.
THEOREM RbudpEndianInPlace ==
  ASSUME Few
  PROVE  EndianSpec => []InPlace
<1>1. ASSUME EndianInit PROVE EndianInv
  <2>1. sent = -1 => ~(sent >= 0)
    BY SMT
  <2>2. InPlace
    BY <1>1, <2>1, Zenon DEF EndianInit, InPlace
  <2> QED BY <1>1, <2>2 DEF EndianInit, EndianInv
<1>2. EndianInv /\ [EndianNext]_endianVars => EndianInv'
  <2>1. EndianInv /\ UNCHANGED endianVars => EndianInv'
    BY DEF EndianInv, InPlace, endianVars
  <2> QED BY <2>1, ReceiveKeeps DEF EndianNext
<1>3. EndianInv => InPlace
  BY DEF EndianInv
<1> QED BY <1>1, <1>2, <1>3, PTL DEF EndianSpec

-----------------------------------------------------------------------------
(* PwFile, for any processes, errands, clocks and orders of their steps.   *)

\* What a process has made: the stamp, a password with it or, where it was 0,
\* with the time of the system since.
Stamped(u) ==
  /\ user[u].at <= clock
  /\ user[u].timeVal = Bounded(Start + user[u].at + Skew)
EncodedAt(u, pw) ==
  /\ pw \in Password /\ pw.by = u /\ pw.stamp = user[u].timeVal
  /\ pw.stamp # 0 => pw.time = pw.stamp
  /\ pw.stamp = 0 => \E t \in user[u].at .. clock : pw.time = Bounded(Start + t)

UserInv(u) ==
  /\ Saving(u) => /\ user[u].ino # 0 /\ errand[u].len <= Obf!MAX_PASSWORD_LEN - 8
                  /\ ~raced => user[u].ino = named
  /\ At(u, "save", "stamped") \/ At(u, "save", "encoded") => Stamped(u)
  /\ At(u, "save", "encoded") => EncodedAt(u, user[u].pw)
  /\ At(u, "tempOps", "unlinking") =>
       user[u].ino # 0 /\ (user[u].pw = Torn \/ (user[u].pw \in Password /\ isTemp(user[u].pw)))

PwInv ==
  /\ PwTypeOK
  /\ \A u \in Users : UserInv(u)
  /\ last # Nobody => At(last, "save", "done") /\ user[last].ino # 0
  /\ PasswordKept

\* A process's own record.
LEMMA PwFacts ==
  ASSUME PwTypeOK, NEW u \in Users
  PROVE  /\ errand[u].op \in {"save", "tempOps", "rm"} /\ errand[u].len \in Nat
         /\ errand[u].temp \in BOOLEAN
         /\ user[u].ino \in 0 .. Len(inodes) /\ user[u].timeVal \in Time /\ user[u].at \in Int
         /\ user[u].pw \in Password \cup {Nothing, Torn}
         /\ u # Nobody /\ Len(inodes) \in Nat /\ Skew \in Int /\ Start \in Nat /\ clock \in Int
         /\ \A n \in 1 .. Len(inodes) : inodes[n] \in File
BY PwAssumption DEF PwTypeOK, UserState

\* A time is bounded, and half a file is no password.
LEMMA BoundedTime == ASSUME NEW t \in Int PROVE Bounded(t) \in Time
BY DEF Bounded, Time

LEMMA NoPassword == Nothing \notin Password /\ Torn \notin Password
BY PwAssumption DEF Nothing, Torn, Password

\* Times less than 20 seconds apart are taken for the same, over the wrap too.
LEMMA SoonEnough ==
  ASSUME NEW a \in Int, NEW b \in Int, b - a < 20, a - b < 20
  PROVE  Obf!obfiTimeCheck(Bounded(a), Bounded(b))
BY SMTT(30) DEF Bounded, Obf!obfiTimeCheck, Obf!Apart, Obf!Wrapped

\* A step of one process that leaves the name and the inodes alone, and begins
\* no saving.
LEMMA PrivateKeeps ==
  ASSUME PwInv, NEW u \in Users, u # last, NEW r, user' = [user EXCEPT ![u] = r],
         FilesKept, PwTypeOK', UserInv(u)', ~Saving(u)
  PROVE  PwInv'
<1>0. UNCHANGED <<errand, clock, named, inodes, last, raced, lost>>
  BY DEF FilesKept
<1>1. \A v \in Users \ {u} : user'[v] = user[v]
  BY DEF PwInv, PwTypeOK
<1>2. ASSUME NEW v \in Users \ {u} PROVE UserInv(v)'
  BY <1>0, <1>1 DEF PwInv, UserInv, Saving, At, isTemp, Stamped, EncodedAt
<1>3. last # Nobody => At(last, "save", "done")' /\ user'[last].ino # 0
  BY <1>0, <1>1 DEF PwInv, PwTypeOK, At
<1>4. PasswordKept'
  <2> SUFFICES ASSUME last # Nobody, ~raced, Quiet'
               PROVE  PasswordKept'
    BY <1>0 DEF PasswordKept
  <2>1. last \in Users /\ user'[last] = user[last]
    BY <1>1 DEF PwInv, PwTypeOK
  <2>2. Quiet
    BY <1>0, <1>1 DEF Quiet, Saving, At
  <2> QED BY <1>0, <2>1, <2>2 DEF PwInv, PasswordKept, Result, Whole
<1> QED BY <1>0, <1>2, <1>3, <1>4 DEF PwInv

\* Who has not saved a password yet is not the last one who did.
LEMMA NotLast ==
  ASSUME PwInv, NEW u \in Users, ~At(u, "save", "done")
  PROVE  u # last
BY PwFacts DEF PwInv

\* ... and the types stay what they are.
LEMMA PrivateType ==
  ASSUME PwTypeOK, NEW u \in Users, NEW r \in UserState, user' = [user EXCEPT ![u] = r], FilesKept
  PROVE  PwTypeOK'
<1>1. UserState' = UserState
  BY DEF UserState, FilesKept
<1> QED BY <1>1 DEF PwTypeOK, FilesKept

\* Who leaves with a result, or goes on to a step that asks for nothing.
LEMMA LeaveRecord ==
  ASSUME PwTypeOK, NEW u \in Users, NEW result \in Outcomes, Leave(u, result)
  PROVE  \E r \in UserState : /\ user' = [user EXCEPT ![u] = r] /\ r.pc = "done"
                              /\ r.ino = user[u].ino
<1> DEFINE r == [user[u] EXCEPT !.pc = "done", !.result = result]
<1>1. user' = [user EXCEPT ![u] = r]
  BY DEF Leave, PwTypeOK
<1>2. r \in UserState /\ r.pc = "done" /\ r.ino = user[u].ino
  BY DEF PwTypeOK, UserState
<1> HIDE DEF r
<1> QED BY <1>1, <1>2

LEMMA IdleKeeps ==
  ASSUME PwInv, NEW u \in Users, NEW r \in UserState, user' = [user EXCEPT ![u] = r], FilesKept,
         r.pc \in {"done", "timed", "removing"}, ~Saving(u), ~At(u, "save", "done")
  PROVE  PwInv'
<1>1. PwTypeOK' /\ user'[u] = r
  BY PrivateType DEF PwInv, PwTypeOK
<1>2. UserInv(u)'
  BY <1>1 DEF UserInv, Saving, At
<1> QED BY <1>1, <1>2, NotLast, PrivateKeeps

LEMMA LeaveKeeps ==
  ASSUME PwInv, NEW u \in Users, NEW result \in Outcomes, Leave(u, result), FilesKept,
         ~Saving(u), ~At(u, "save", "done")
  PROVE  PwInv'
<1>1. PICK r \in UserState : user' = [user EXCEPT ![u] = r] /\ r.pc = "done"
  BY LeaveRecord DEF PwInv
<1> QED BY <1>1, IdleKeeps

LEMMA NotOpenedKeeps ==
  ASSUME PwInv, NEW u \in Users, NotOpened(u)
  PROVE  PwInv'
<1>1. ~Saving(u) /\ ~At(u, "save", "done") /\ FilesKept
  BY DEF NotOpened, Saving, At
<1>2. PICK result \in {"PASSWORD_EXCEEDS_MAX_SIZE", "FILE_OPEN_ERR", "canceled"} : Leave(u, result)
  BY DEF NotOpened
<1> QED BY <1>1, <1>2, LeaveKeeps DEF Outcomes

\* A look at the file, for its time and then for the password in it.
LEMMA GetTvKeeps ==
  ASSUME PwInv, NEW u \in Users, obfiGetTv(u)
  PROVE  PwInv'
<1>0. PwTypeOK /\ FilesKept /\ ~Saving(u) /\ ~At(u, "save", "done")
  BY DEF PwInv, obfiGetTv, Saving, At
<1>1. CASE Leave(u, "UNABLE_TO_STAT_FILE")
  BY <1>0, <1>1, LeaveKeeps DEF Outcomes
<1>2. CASE /\ named # 0
           /\ user' = [user EXCEPT ![u].pc = "timed", ![u].timeVal = Bounded(inodes[named].mtime)]
  <2> DEFINE r == [user[u] EXCEPT !.pc = "timed", !.timeVal = Bounded(inodes[named].mtime)]
  <2>1. inodes[named].mtime \in Int
    BY <1>0, <1>2, PwFacts DEF PwTypeOK, File
  <2>2. r \in UserState /\ r.pc = "timed"
    BY <1>0, <2>1, BoundedTime DEF PwTypeOK, UserState
  <2>3. user' = [user EXCEPT ![u] = r]
    BY <1>0, <1>2 DEF PwTypeOK
  <2> HIDE DEF r
  <2> QED BY <1>0, <2>2, <2>3, IdleKeeps
<1> QED BY <1>1, <1>2 DEF obfiGetTv

\* What is to be removed was a temporary password, or a part of one.
LEMMA UnlinkingKeeps ==
  ASSUME PwInv, NEW u \in Users, ~Saving(u), ~At(u, "save", "done"), FilesKept,
         named # 0, NEW pw, pw = inodes[named].pw, pw = Torn \/ (pw \in Password /\ isTemp(pw)),
         user' = [user EXCEPT ![u].pc = "unlinking", ![u].ino = named, ![u].pw = pw]
  PROVE  PwInv'
<1> DEFINE r == [user[u] EXCEPT !.pc = "unlinking", !.ino = named, !.pw = pw]
<1>1. user' = [user EXCEPT ![u] = r]
  BY DEF PwInv, PwTypeOK
<1>2. r \in UserState /\ r.pc = "unlinking" /\ r.ino = named /\ r.pw = pw
  <2>1. named \in 0 .. Len(inodes) /\ pw \in Password \cup {Nothing, Torn}
    BY DEF PwInv, PwTypeOK
  <2> QED BY <2>1 DEF PwInv, PwTypeOK, UserState
<1> HIDE DEF r
<1>3. PwTypeOK' /\ user'[u] = r
  BY <1>1, <1>2, PrivateType DEF PwInv, PwTypeOK
<1>4. UserInv(u)'
  BY <1>2, <1>3 DEF UserInv, Saving, At, isTemp, FilesKept
<1> QED BY <1>1, <1>3, <1>4, NotLast, PrivateKeeps

LEMMA GetPwKeeps ==
  ASSUME PwInv, NEW u \in Users, obfiGetPw(u)
  PROVE  PwInv'
<1>0. PwTypeOK /\ FilesKept /\ ~Saving(u) /\ ~At(u, "save", "done") /\ named # 0
  BY DEF PwInv, obfiGetPw, Saving, At
<1> DEFINE result == Result(inodes[named], user[u].timeVal)
           pw == inodes[named].pw
<1>1. result \in Outcomes
  BY DEF Result, Outcomes
<1>2. CASE Leave(u, result)
  BY <1>0, <1>1, <1>2, LeaveKeeps
<1>3. CASE /\ result = "ok" /\ isTemp(pw)
           /\ user' = [user EXCEPT ![u].pc = "unlinking", ![u].ino = named, ![u].pw = pw]
  <2>1. pw \in Password \cup {Nothing, Torn}
    BY <1>0, PwFacts DEF PwTypeOK, File
  <2>2. pw \notin {Nothing, Torn}
    BY <1>3 DEF Result
  <2> QED BY <1>0, <1>3, <2>1, <2>2, UnlinkingKeeps
<1> QED BY <1>2, <1>3 DEF obfiGetPw

LEMMA NotReadKeeps ==
  ASSUME PwInv, NEW u \in Users, NotRead(u)
  PROVE  PwInv'
<1>0. FilesKept /\ ~Saving(u) /\ ~At(u, "save", "done")
  BY DEF NotRead, Saving, At
<1>1. CASE \E result \in {"FILE_OPEN_ERR", "FILE_READ_ERR", "ok"} : Leave(u, result)
  BY <1>0, <1>1, LeaveKeeps DEF Outcomes
<1>2. CASE /\ named # 0 /\ inodes[named].pw = Torn
           /\ user' = [user EXCEPT ![u].pc = "unlinking", ![u].ino = named, ![u].pw = Torn]
  BY <1>0, <1>2, UnlinkingKeeps
<1> QED BY <1>1, <1>2 DEF NotRead

-----------------------------------------------------------------------------
(* Saving.  A process that is saving, or left a file it had emptied, keeps *)
(* the others from relying on the file.                                    *)

LEMMA SaverKeeps ==
  ASSUME PwInv, NEW u \in Users, u # last, NEW r, user' = [user EXCEPT ![u] = r],
         UNCHANGED <<errand, clock, last, raced>>, PwTypeOK', UserInv(u)',
         lost' \/ Saving(u)',
         \A v \in Users \ {u} : Saving(v) /\ ~raced => user[v].ino = named'
  PROVE  PwInv'
<1>1. user'[u] = r /\ \A v \in Users \ {u} : user'[v] = user[v]
  BY DEF PwInv, PwTypeOK
<1>2. ASSUME NEW v \in Users \ {u} PROVE UserInv(v)'
  BY <1>1 DEF PwInv, UserInv, Saving, At, isTemp, Stamped, EncodedAt
<1>3. last # Nobody => At(last, "save", "done")' /\ user'[last].ino # 0
  BY <1>1 DEF PwInv, PwTypeOK, At
<1>4. PasswordKept'
  <2>1. ~Quiet'
    BY <1>1 DEF Quiet
  <2> QED BY <2>1 DEF PasswordKept
<1> QED BY <1>2, <1>3, <1>4 DEF PwInv

\* The inodes may grow, and one process get a record of its own.
LEMMA SaverType ==
  ASSUME PwTypeOK, NEW u \in Users, NEW r, user' = [user EXCEPT ![u] = r],
         inodes' \in Seq(File), Len(inodes') >= Len(inodes), r \in UserState',
         named' \in 0 .. Len(inodes'), UNCHANGED <<errand, clock, raced>>,
         last' \in Users \cup {Nobody}, lost' \in BOOLEAN
  PROVE  PwTypeOK' /\ user'[u] = r
<1>1. ASSUME NEW v \in Users \ {u} PROVE user[v] \in UserState'
  <2>1. user[v] \in UserState /\ Len(inodes) \in Nat /\ Len(inodes') \in Nat
    BY DEF PwTypeOK
  <2> QED BY <2>1 DEF UserState
<1> QED BY <1>1 DEF PwTypeOK

LEMMA OpenKeeps ==
  ASSUME PwInv, NEW u \in Users, obfiOpenOutFile(u)
  PROVE  PwInv'
<1>0. PwTypeOK /\ At(u, "save", "start") /\ errand[u].len <= Obf!MAX_PASSWORD_LEN - 8
      /\ UNCHANGED <<errand, clock, last, raced, lost>>
  BY DEF PwInv, obfiOpenOutFile
<1> DEFINE r == [user[u] EXCEPT !.pc = "opened", !.ino = named']
<1>1. user' = [user EXCEPT ![u] = r]
  BY <1>0 DEF obfiOpenOutFile, PwTypeOK
<1>2. u # last
  BY <1>0, NotLast DEF At
<1>3. Empty(FileClock) \in File
  BY <1>0, PwAssumption DEF Empty, File, FileClock, SystemClock, PwTypeOK
<1>4. /\ inodes' \in Seq(File) /\ Len(inodes') >= Len(inodes)
      /\ named' \in 1 .. Len(inodes') /\ Len(inodes') \in Nat
      /\ named # 0 => named' = named
  <2>1. CASE named = 0
    <3>1. inodes' = Append(inodes, Empty(FileClock)) /\ named' = Len(inodes')
      BY <2>1 DEF obfiOpenOutFile
    <3> QED BY <1>0, <1>3, <2>1, <3>1 DEF PwTypeOK
  <2>2. CASE named # 0
    <3>1. inodes' = [inodes EXCEPT ![named] = Empty(FileClock)] /\ named' = named
      BY <2>2 DEF obfiOpenOutFile
    <3> QED BY <1>0, <1>3, <2>2, <3>1 DEF PwTypeOK
  <2> QED BY <2>1, <2>2
<1>5. r \in UserState' /\ r.pc = "opened" /\ r.ino = named'
  <2>1. user[u] \in UserState /\ Len(inodes) \in Nat
    BY <1>0 DEF PwTypeOK
  <2>2. named' \in 0 .. Len(inodes')
    BY <1>4
  <2>3. DOMAIN r = DOMAIN user[u] /\ r.pc = "opened" /\ r.ino = named'
        /\ r.timeVal = user[u].timeVal /\ r.at = user[u].at /\ r.pw = user[u].pw /\ r.result = user[u].result
    BY <2>1 DEF UserState
  <2> QED BY <2>1, <2>2, <2>3 DEF UserState
<1> HIDE DEF r
<1>6. PwTypeOK' /\ user'[u] = r
  <2>1. last' \in Users \cup {Nobody} /\ named' \in 0 .. Len(inodes') /\ lost' \in BOOLEAN
    BY <1>0, <1>4 DEF PwTypeOK
  <2> QED BY <1>0, <1>1, <1>4, <1>5, <2>1, SaverType
<1>7. UserInv(u)' /\ Saving(u)'
  BY <1>0, <1>4, <1>5, <1>6 DEF UserInv, Saving, At
<1>8. \A v \in Users \ {u} : Saving(v) /\ ~raced => user[v].ino = named'
  BY <1>4 DEF PwInv, UserInv
<1> QED BY <1>0, <1>1, <1>2, <1>6, <1>7, <1>8, SaverKeeps

\* A saver writes to its own inode, or to none.
LEMMA Overwritten ==
  ASSUME PwInv, NEW u \in Users, Saving(u), NEW f \in File,
         inodes' = [inodes EXCEPT ![user[u].ino] = f]
  PROVE  inodes' \in Seq(File) /\ Len(inodes') = Len(inodes) /\ inodes'[user[u].ino] = f
<1>1. user[u].ino \in 1 .. Len(inodes)
  BY PwFacts DEF PwInv, UserInv
<1> QED BY <1>1 DEF PwInv, PwTypeOK

LEMMA BlankedFile ==
  ASSUME PwInv, NEW u \in Users, Saving(u), inodes' = Blanked(user[u].ino)
  PROVE  inodes' \in Seq(File) /\ Len(inodes') = Len(inodes)
<1> DEFINE n == user[u].ino
           f == [inodes[n] EXCEPT !.blank = TRUE, !.mtime = FileClock]
<1>1. n \in 1 .. Len(inodes) /\ FileClock \in Int
  BY PwFacts DEF PwInv, UserInv, FileClock, SystemClock
<1>2. inodes[n] \in File
  BY <1>1, PwFacts DEF PwInv
<1>3. f \in File
  BY <1>1, <1>2 DEF File
<1>4. inodes' = [inodes EXCEPT ![n] = f]
  BY <1>1 DEF Blanked, PwInv, PwTypeOK
<1> HIDE DEF f
<1> QED BY <1>3, <1>4, Overwritten

LEMMA StampKeeps ==
  ASSUME PwInv, NEW u \in Users, obfiSetTimeFromFile(u)
  PROVE  PwInv'
<1> DEFINE n == user[u].ino
           r == [user[u] EXCEPT !.pc = "stamped", !.at = clock, !.timeVal = TimeOfFile(FileClock)]
<1>0. PwTypeOK /\ At(u, "save", "opened") /\ UNCHANGED <<errand, clock, named, last, raced, lost>>
      /\ Saving(u) /\ inodes' = Blanked(n)
  BY DEF PwInv, obfiSetTimeFromFile, Saving
<1>1. user' = [user EXCEPT ![u] = r]
  <2>1. user' = [user EXCEPT ![u].pc = "stamped", ![u].at = clock, ![u].timeVal = TimeOfFile(FileClock)]
    BY DEF obfiSetTimeFromFile
  <2> QED BY <1>0, <2>1 DEF PwTypeOK
<1>2. u # last
  BY <1>0, NotLast DEF At
<1>3. clock \in Int /\ FileClock \in Int /\ FileClock = Start + clock + Skew
  BY <1>0, PwFacts DEF FileClock, SystemClock
<1>4. inodes' \in Seq(File) /\ Len(inodes') = Len(inodes)
  BY <1>0, BlankedFile
<1>5. r \in UserState' /\ r.pc = "stamped" /\ r.ino = n /\ r.at = clock
      /\ r.timeVal = Bounded(Start + clock + Skew)
  <2>1. user[u] \in UserState /\ Len(inodes) \in Nat
    BY <1>0 DEF PwTypeOK
  <2>2. TimeOfFile(FileClock) \in Time /\ TimeOfFile(FileClock) = Bounded(Start + clock + Skew)
    BY <1>3, BoundedTime DEF TimeOfFile
  <2> QED BY <1>3, <1>4, <2>1, <2>2 DEF UserState
<1> HIDE DEF r
<1>6. PwTypeOK' /\ user'[u] = r
  <2>1. last' \in Users \cup {Nobody} /\ named' \in 0 .. Len(inodes')
        /\ Len(inodes') >= Len(inodes) /\ lost' \in BOOLEAN
    BY <1>0, <1>4 DEF PwTypeOK
  <2> QED BY <1>0, <1>1, <1>4, <1>5, <2>1, SaverType
<1>7. UserInv(u)' /\ Saving(u)'
  BY <1>0, <1>3, <1>5, <1>6 DEF PwInv, UserInv, Saving, At, Stamped
<1>8. \A v \in Users \ {u} : Saving(v) /\ ~raced => user[v].ino = named'
  BY <1>0 DEF PwInv, UserInv
<1> QED BY <1>0, <1>1, <1>2, <1>6, <1>7, <1>8, SaverKeeps

LEMMA EncodeKeeps ==
  ASSUME PwInv, NEW u \in Users, EncodePw(u)
  PROVE  PwInv'
<1> DEFINE stamp == user[u].timeVal
           pw == [by |-> u, stamp |-> stamp, took |-> 0,
                  time |-> IF stamp # 0 THEN stamp ELSE Bounded(SystemClock)]
           r == [user[u] EXCEPT !.pc = "encoded", !.pw = pw]
<1>0. PwTypeOK /\ At(u, "save", "stamped") /\ Saving(u)
      /\ UNCHANGED <<errand, clock, named, inodes, last, raced, lost>>
  BY DEF PwInv, EncodePw, Saving, FilesKept
<1>1. user' = [user EXCEPT ![u] = r]
  BY <1>0 DEF EncodePw, PwTypeOK
<1>2. u # last
  BY <1>0, NotLast DEF At
<1>3. Stamped(u) /\ stamp \in Time /\ clock \in Int /\ user[u].at \in Int /\ Start \in Nat
  BY <1>0, PwFacts DEF PwInv, UserInv
<1>4. EncodedAt(u, pw)
  <2>1. SystemClock = Start + clock /\ Bounded(SystemClock) \in Time
    BY <1>3, BoundedTime DEF SystemClock
  <2>2. pw \in Password
    BY <1>3, <2>1 DEF Password
  <2>3. clock \in user[u].at .. clock
    BY <1>3 DEF Stamped
  <2> QED BY <2>1, <2>2, <2>3 DEF EncodedAt
<1> HIDE DEF pw
<1>5. /\ r \in UserState /\ r.pc = "encoded" /\ r.ino = user[u].ino /\ r.at = user[u].at
      /\ r.timeVal = stamp /\ r.pw = pw
  BY <1>0, <1>4 DEF PwTypeOK, UserState, EncodedAt
<1> HIDE DEF r
<1>6. PwTypeOK' /\ user'[u] = r
  BY <1>0, <1>1, <1>5, PrivateType DEF PwTypeOK, FilesKept
<1>7. UserInv(u)' /\ Saving(u)'
  BY <1>0, <1>3, <1>4, <1>5, <1>6 DEF PwInv, UserInv, Saving, At, Stamped, EncodedAt
<1>8. \A v \in Users \ {u} : Saving(v) /\ ~raced => user[v].ino = named'
  BY <1>0 DEF PwInv, UserInv
<1> QED BY <1>0, <1>1, <1>2, <1>6, <1>7, <1>8, SaverKeeps

\* Who gives up leaves an emptied file behind, or a part of the password.
LEMMA LostKeeps ==
  ASSUME PwInv, NEW u \in Users, Saving(u), NEW r \in UserState, user' = [user EXCEPT ![u] = r],
         r.pc \in {"done", "killed"}, lost' = TRUE, UNCHANGED <<errand, clock, named, last, raced>>,
         inodes' \in Seq(File), Len(inodes') = Len(inodes)
  PROVE  PwInv'
<1>1. u # last
  BY NotLast DEF At, Saving
<1>2. PwTypeOK' /\ user'[u] = r
  <2>1. last' \in Users \cup {Nobody} /\ named' \in 0 .. Len(inodes')
        /\ Len(inodes') >= Len(inodes) /\ lost' \in BOOLEAN
    BY DEF PwInv, PwTypeOK
  <2>2. r \in UserState'
    BY DEF UserState
  <2> QED BY <2>1, <2>2, SaverType DEF PwInv
<1>3. UserInv(u)'
  BY <1>2 DEF UserInv, Saving, At
<1>4. \A v \in Users \ {u} : Saving(v) /\ ~raced => user[v].ino = named'
  BY DEF PwInv, UserInv
<1> QED BY <1>1, <1>2, <1>3, <1>4, SaverKeeps

LEMMA KilledKeeps ==
  ASSUME PwInv, NEW u \in Users, Killed(u)
  PROVE  PwInv'
<1> DEFINE r == [user[u] EXCEPT !.pc = "killed"]
<1>1. r \in UserState /\ r.pc = "killed" /\ user' = [user EXCEPT ![u] = r]
  BY DEF Killed, Go, PwInv, PwTypeOK, UserState
<1>2. inodes' \in Seq(File) /\ Len(inodes') = Len(inodes)
  BY DEF Killed, PwInv, PwTypeOK
<1> HIDE DEF r
<1> QED BY <1>1, <1>2, LostKeeps DEF Killed

LEMMA StampFailsKeeps ==
  ASSUME PwInv, NEW u \in Users, StampFails(u)
  PROVE  PwInv'
<1>1. Saving(u)
  BY DEF StampFails, Saving
<1>2. inodes' \in Seq(File) /\ Len(inodes') = Len(inodes)
  <2>1. inodes \in Seq(File)
    BY DEF PwInv, PwTypeOK
  <2> QED BY <1>1, <2>1, BlankedFile DEF StampFails
<1>3. PICK r \in UserState : user' = [user EXCEPT ![u] = r] /\ r.pc = "done"
  BY LeaveRecord DEF StampFails, Outcomes, PwInv
<1> QED BY <1>1, <1>2, <1>3, LostKeeps DEF StampFails

LEMMA WriteFailsKeeps ==
  ASSUME PwInv, NEW u \in Users, WriteFails(u)
  PROVE  PwInv'
<1> DEFINE f == [blank |-> FALSE, mtime |-> FileClock, pw |-> Torn]
<1>1. Saving(u)
  BY DEF WriteFails, Saving
<1>2. inodes' \in Seq(File) /\ Len(inodes') = Len(inodes)
  <2>1. inodes \in Seq(File)
    BY DEF PwInv, PwTypeOK
  <2>2. f \in File
    BY PwFacts DEF File, FileClock, SystemClock, PwInv
  <2>3. UNCHANGED inodes \/ inodes' = [inodes EXCEPT ![user[u].ino] = f]
    BY DEF WriteFails
  <2> HIDE DEF f
  <2> QED BY <1>1, <2>1, <2>2, <2>3, Overwritten
<1>3. PICK r \in UserState : user' = [user EXCEPT ![u] = r] /\ r.pc = "done"
  BY LeaveRecord DEF WriteFails, Outcomes, PwInv
<1> QED BY <1>1, <1>2, <1>3, LostKeeps DEF WriteFails

\* The time in a password is less than 20 seconds from its file's.
LEMMA TimeIsGood ==
  ASSUME PwInv, NEW u \in Users, At(u, "save", "encoded"), NEW pw, NEW took \in Int,
         EncodedAt(u, pw), took = clock - user[u].at, took < 20,
         pw.stamp = 0 => -20 < Skew /\ took + Skew < 20
  PROVE  Obf!obfiTimeCheck(pw.time, Bounded(FileClock))
<1>1. /\ Start \in Nat /\ Skew \in Int /\ clock \in Int /\ user[u].at \in Int
      /\ FileClock = Start + clock + Skew
      /\ user[u].at <= clock /\ user[u].timeVal = Bounded(Start + user[u].at + Skew)
  BY PwFacts DEF PwInv, UserInv, Stamped, FileClock, SystemClock
<1>2. CASE pw.stamp # 0
  <2>1. pw.time = Bounded(Start + user[u].at + Skew)
    BY <1>1, <1>2 DEF EncodedAt
  <2> QED BY <1>1, <2>1, SoonEnough
<1>3. CASE pw.stamp = 0
  <2>1. PICK t \in user[u].at .. clock : pw.time = Bounded(Start + t)
    BY <1>3 DEF EncodedAt
  <2> QED BY <1>1, <1>3, <2>1, SoonEnough
<1> QED BY <1>2, <1>3

\* The password goes into the file that has the name, unless a removal met the
\* save, with a time that is good for as long as the writing takes.
LEMMA WriteKeeps ==
  ASSUME PwInv, NEW u \in Users, obfiWritePw(u)
  PROVE  PwInv'
<1> DEFINE n == user[u].ino
           pw == [user[u].pw EXCEPT !.took = clock - user[u].at]
           f == [blank |-> FALSE, mtime |-> FileClock, pw |-> pw]
<1>0. PwTypeOK /\ At(u, "save", "encoded") /\ UNCHANGED <<errand, clock, named, raced>>
      /\ Saving(u) /\ last' = u /\ lost' = FALSE
  BY DEF PwInv, obfiWritePw, Saving
<1>1. inodes' = [inodes EXCEPT ![n] = f]
  BY <1>0 DEF obfiWritePw
<1>2. /\ n \in 1 .. Len(inodes) /\ clock \in Int /\ user[u].at \in Int /\ FileClock \in Int
      /\ errand[u].len <= 42 /\ (~raced => n = named)
      /\ errand[u].len \in Nat /\ errand[u].temp \in BOOLEAN /\ u # Nobody
      /\ EncodedAt(u, user[u].pw)
  BY <1>0, PwFacts DEF PwInv, UserInv, Obf!MAX_PASSWORD_LEN, FileClock, SystemClock
<1>3. /\ pw \in Password /\ pw \notin {Nothing, Torn} /\ pw.by = u
      /\ pw.took = clock - user[u].at
      /\ pw.stamp = user[u].pw.stamp /\ pw.time = user[u].pw.time
  <2>1. user[u].pw \in Password /\ user[u].pw.by = u
    BY <1>2 DEF EncodedAt
  <2>2. /\ pw \in Password /\ pw.by = u /\ pw.took = clock - user[u].at
        /\ pw.stamp = user[u].pw.stamp /\ pw.time = user[u].pw.time
    BY <1>2, <2>1 DEF Password
  <2> QED BY <2>2, NoPassword
<1> HIDE DEF pw
<1>4. f \in File /\ f.pw = pw /\ f.mtime = FileClock /\ ~f.blank
  BY <1>2, <1>3 DEF File
<1> HIDE DEF f
<1>5. inodes' \in Seq(File) /\ Len(inodes') = Len(inodes) /\ inodes'[n] = f
  BY <1>0, <1>1, <1>4, Overwritten
<1>6. PICK r \in UserState : user' = [user EXCEPT ![u] = r] /\ r.pc = "done" /\ r.ino = n
  BY <1>0, LeaveRecord DEF obfiWritePw, Outcomes
<1>7. PwTypeOK' /\ user'[u] = r /\ \A v \in Users \ {u} : user'[v] = user[v]
  <2>1. last' \in Users \cup {Nobody} /\ named' \in 0 .. Len(inodes')
        /\ Len(inodes') >= Len(inodes) /\ lost' \in BOOLEAN
    <3>1. named \in 0 .. Len(inodes) /\ Len(inodes) \in Nat
      BY <1>0 DEF PwTypeOK
    <3>2. last' \in Users /\ named' = named /\ Len(inodes') = Len(inodes)
      BY <1>0, <1>5
    <3>3. lost' \in BOOLEAN
      BY <1>0
    <3> HIDE DEF f, pw, n
    <3> QED BY <3>1, <3>2, <3>3
  <2>2. r \in UserState'
    BY <1>5, <1>6 DEF UserState
  <2>3. PwTypeOK'
    BY <1>0, <1>5, <1>6, <2>1, <2>2, SaverType
  <2> QED BY <1>0, <1>6, <2>3 DEF PwTypeOK
<1>8. ASSUME NEW v \in Users PROVE UserInv(v)'
  <2>1. CASE v = u
    BY <1>6, <1>7, <2>1 DEF UserInv, Saving, At
  <2>2. CASE v # u
    BY <1>0, <1>7, <2>2 DEF PwInv, UserInv, Saving, At, isTemp, Stamped, EncodedAt
  <2> QED BY <2>1, <2>2
<1>9. At(last, "save", "done")' /\ user'[last'].ino = n /\ n # 0
  BY <1>0, <1>2, <1>6, <1>7 DEF At
<1>10. PasswordKept'
  <2> SUFFICES ASSUME ~raced'
               PROVE  PasswordKept'
    BY DEF PasswordKept
  <2> DEFINE file == inodes[user[last].ino]
  <2>1. file' = f
    BY <1>5, <1>9
  <2>2. ASSUME InTime(pw), ~(errand[u].temp /\ errand[u].len > 28)
        PROVE  Result(file, Bounded(file.mtime))' = "ok"
    <3>1. Obf!obfiTimeCheck(pw.time, Bounded(f.mtime))
      <4>1. Obf!obfiTimeCheck(user[u].pw.time, Bounded(FileClock))
        BY <1>0, <1>2, <1>3, <2>2, TimeIsGood DEF InTime
      <4> QED BY <1>3, <1>4, <4>1
    <3>2. ~(StoredLen(errand[u]) >= Obf!MAX_PASSWORD_LEN)
      BY <1>2, <2>2 DEF StoredLen, Obf!MAX_PASSWORD_LEN, Temporary
    <3>3. errand' = errand
      BY <1>0
    <3> HIDE DEF file
    <3> QED BY <1>3, <1>4, <2>1, <3>1, <3>2, <3>3 DEF Result, Whole
  <2>3. named' = user'[last'].ino
    BY <1>0, <1>2, <1>9
  <2> HIDE DEF file
  <2> QED BY <1>0, <1>3, <1>4, <2>1, <2>2, <2>3 DEF PasswordKept, InTime, file
<1> QED BY <1>0, <1>7, <1>8, <1>9, <1>10 DEF PwInv

-----------------------------------------------------------------------------
(* Removing.                                                               *)

LEMMA UnlinkKeeps ==
  ASSUME PwInv, NEW u \in Users, NEW met \in BOOLEAN, Unlink(u, met),
         u # last, ~Saving(u),
         ~met => inodes[named].pw = Torn \/ isTemp(inodes[named].pw)
  PROVE  PwInv'
<1>0. PwTypeOK /\ UNCHANGED <<errand, clock, inodes, last, lost>> /\ named' = 0
  BY DEF PwInv, Unlink
<1>1. PICK r \in UserState : user' = [user EXCEPT ![u] = r] /\ r.pc = "done"
  BY <1>0, LeaveRecord DEF Unlink, Outcomes
<1>3. user'[u] = r /\ \A v \in Users \ {u} : user'[v] = user[v]
  BY <1>0, <1>1 DEF PwTypeOK
<1>4. /\ raced' \in BOOLEAN
      /\ ~raced' => ~raced /\ ~met /\ \A v \in Users : ~(Saving(v) /\ user[v].ino = named)
  BY <1>0 DEF Unlink, PwTypeOK
<1>5. PwTypeOK'
  <2>1. UserState' = UserState
    BY <1>0 DEF UserState
  <2>2. user' \in [Users -> UserState]
    BY <1>0, <1>1 DEF PwTypeOK
  <2> QED BY <1>0, <1>4, <2>1, <2>2 DEF PwTypeOK
<1>6. ASSUME NEW v \in Users PROVE UserInv(v)'
  <2>1. CASE v = u
    BY <1>1, <1>3, <2>1 DEF UserInv, Saving, At
  <2>2. CASE v # u
    BY <1>0, <1>3, <1>4, <2>2 DEF PwInv, UserInv, Saving, At, isTemp, Stamped, EncodedAt
  <2> QED BY <2>1, <2>2
<1>7. last # Nobody => At(last, "save", "done")' /\ user'[last].ino # 0
  BY <1>0, <1>3 DEF PwInv, PwTypeOK, At
<1>8. PasswordKept'
  <2> SUFFICES ASSUME last # Nobody, ~raced', Quiet'
               PROVE  PasswordKept'
    BY <1>0 DEF PasswordKept
  <2>1. last \in Users /\ user'[last] = user[last]
    BY <1>0, <1>3 DEF PwTypeOK
  <2>2. Quiet
    BY <1>0, <1>3 DEF Quiet, Saving, At
  <2>3. inodes[named].pw = Torn \/ isTemp(inodes[named].pw)
    BY <1>4
  <2> DEFINE file == inodes[user[last].ino]
             kept == InTime(file.pw) /\ ~(errand[last].temp /\ errand[last].len > 28)
  <2>4. /\ file.pw.by = last
        /\ kept => /\ Result(file, Bounded(file.mtime)) = "ok"
                   /\ named = user[last].ino \/ errand[last].temp
    BY <1>4, <2>2 DEF PwInv, PasswordKept
  <2>5. named = user[last].ino => errand[last].temp
    <3> SUFFICES ASSUME named = user[last].ino PROVE errand[last].temp
      OBVIOUS
    <3>1. file.pw # Torn
      BY <2>4 DEF Torn
    <3> QED BY <2>3, <2>4, <3>1 DEF isTemp
  <2>6. Result(file, Bounded(file.mtime))' = Result(file, Bounded(file.mtime)) /\ file' = file
    BY <1>0, <2>1 DEF Result, Whole
  <2> HIDE DEF file
  <2>7. /\ file.pw.by = last
        /\ kept => /\ Result(file, Bounded(file.mtime))' = "ok"
                   /\ named' = user'[last].ino \/ errand[last].temp
    BY <2>4, <2>5, <2>6
  <2> QED BY <1>0, <2>6, <2>7 DEF PasswordKept, InTime, file
<1> QED BY <1>0, <1>5, <1>6, <1>7, <1>8 DEF PwInv

LEMMA TempOpsKeeps ==
  ASSUME PwInv, NEW u \in Users, obfTempOps(u)
  PROVE  PwInv'
<1> DEFINE met == named # user[u].ino \/ inodes[named].pw # user[u].pw
<1>1. met \in BOOLEAN /\ At(u, "tempOps", "unlinking")
  BY DEF obfTempOps
<1>2. u # last /\ ~Saving(u) /\ ~At(u, "save", "done")
  BY <1>1, NotLast DEF At, Saving
<1>3. ~met => inodes[named].pw = Torn \/ isTemp(inodes[named].pw)
  BY <1>1 DEF PwInv, UserInv
<1>4. Unlink(u, met) \/ (Leave(u, "ok") /\ FilesKept)
  BY DEF obfTempOps
<1> HIDE DEF met
<1> QED BY <1>1, <1>2, <1>3, <1>4, UnlinkKeeps, LeaveKeeps DEF Outcomes

LEMMA LookForKeeps ==
  ASSUME PwInv, NEW u \in Users, LookForPw(u)
  PROVE  PwInv'
<1>0. FilesKept /\ ~Saving(u) /\ ~At(u, "save", "done")
  BY DEF LookForPw, Saving, At
<1>1. CASE Leave(u, "AUTH_FILE_DOES_NOT_EXIST")
  BY <1>0, <1>1, LeaveKeeps DEF Outcomes
<1>2. CASE Go(u, "removing")
  <2> DEFINE r == [user[u] EXCEPT !.pc = "removing"]
  <2>1. r \in UserState /\ r.pc = "removing" /\ user' = [user EXCEPT ![u] = r]
    BY <1>2 DEF Go, PwInv, PwTypeOK, UserState
  <2> HIDE DEF r
  <2> QED BY <1>0, <2>1, IdleKeeps
<1> QED BY <1>1, <1>2 DEF LookForPw

LEMMA RmKeeps ==
  ASSUME PwInv, NEW u \in Users, obfRmPw(u)
  PROVE  PwInv'
<1>1. u # last /\ ~Saving(u) /\ ~At(u, "save", "done")
  BY NotLast DEF obfRmPw, At, Saving
<1>2. CASE Unlink(u, named # 0)
  <2>1. CASE named # 0
    BY <1>1, <1>2, <2>1, UnlinkKeeps
  <2>2. CASE named = 0
    <3>1. \A v \in Users : ~(Saving(v) /\ user[v].ino = named)
      BY <2>2 DEF PwInv, UserInv
    <3>2. FilesKept /\ Leave(u, "ok")
      BY <1>2, <2>2, <3>1 DEF Unlink, FilesKept, PwInv, PwTypeOK
    <3> QED BY <1>1, <3>2, LeaveKeeps DEF Outcomes
  <2> QED BY <2>1, <2>2
<1>3. CASE \E result \in {"canceled", "UNLINK_FAILED"} : Leave(u, result) /\ FilesKept
  BY <1>1, <1>3, LeaveKeeps DEF Outcomes
<1> QED BY <1>2, <1>3 DEF obfRmPw

-----------------------------------------------------------------------------

LEMMA TickKeeps ==
  ASSUME PwInv, Tick
  PROVE  PwInv'
<1>1. PwTypeOK /\ UNCHANGED <<errand, named, inodes, user, last, raced, lost>>
      /\ clock' = clock + 10
  BY DEF PwInv, Tick
<1>2. PwTypeOK'
  BY <1>1 DEF PwTypeOK, UserState
<1>3. ASSUME NEW u \in Users PROVE UserInv(u)'
  <2>1. UserInv(u) /\ user[u].at \in Int /\ clock \in Int
    BY <1>1, PwFacts DEF PwInv, PwTypeOK
  <2>2. Stamped(u) => Stamped(u)'
    BY <1>1, <2>1 DEF Stamped
  <2>3. EncodedAt(u, user[u].pw) => EncodedAt(u, user[u].pw)'
    <3>1. \A t \in user[u].at .. clock : t \in user[u].at .. clock'
      BY <1>1, <2>1
    <3> QED BY <1>1, <3>1 DEF EncodedAt
  <2> QED BY <1>1, <2>1, <2>2, <2>3 DEF UserInv, Saving, At, isTemp
<1>4. PasswordKept'
  BY <1>1 DEF PwInv, PasswordKept, Quiet, Saving, At, Result, Whole
<1> QED BY <1>1, <1>2, <1>3, <1>4 DEF PwInv, At

LEMMA PwStart ==
  ASSUME PwInit
  PROVE  PwInv
<1>1. inodes \in Seq(File) /\ Len(inodes) = 0
  BY DEF PwInit
<1>2. user \in [Users -> UserState] /\ \A u \in Users : user[u].pc = "start"
  BY <1>1 DEF PwInit, UserState, Outcomes, Time
<1>3. PwTypeOK
  <2>1. errand \in Errands /\ clock = 0 /\ named = 0 /\ last = Nobody /\ raced = FALSE /\ lost = FALSE
    BY DEF PwInit
  <2>2. named \in 0 .. Len(inodes) /\ clock \in Int /\ 0 <= clock
    BY <1>1, <2>1
  <2>3. last \in Users \cup {Nobody} /\ raced \in BOOLEAN /\ lost \in BOOLEAN
    BY <2>1
  <2> QED BY <1>1, <1>2, <2>1, <2>2, <2>3, Zenon DEF PwTypeOK
<1>4. \A u \in Users : UserInv(u)
  BY <1>2 DEF UserInv, Saving, At
<1>5. last = Nobody /\ PasswordKept
  BY DEF PwInit, PasswordKept
<1> QED BY <1>3, <1>4, <1>5 DEF PwInv

LEMMA PwInvariant == PwSpec => []PwInv
<1>1. PwInv /\ [PwNext]_pwVars => PwInv'
  <2>1. PwInv /\ UNCHANGED pwVars => PwInv'
    <3> SUFFICES ASSUME PwInv, UNCHANGED pwVars PROVE PwInv'
      OBVIOUS
    <3>1. PwTypeOK'
      BY DEF PwInv, PwTypeOK, UserState, pwVars
    <3>2. PasswordKept'
      BY DEF PwInv, PasswordKept, Quiet, Saving, At, Result, Whole, pwVars
    <3> QED BY <3>1, <3>2 DEF PwInv, UserInv, Saving, At, isTemp, Stamped, EncodedAt, pwVars
  <2> QED BY <2>1, OpenKeeps, NotOpenedKeeps, StampKeeps, StampFailsKeeps, EncodeKeeps, WriteKeeps,
             WriteFailsKeeps, KilledKeeps, GetTvKeeps, GetPwKeeps, NotReadKeeps, TempOpsKeeps,
             LookForKeeps, RmKeeps, TickKeeps DEF PwNext
<1> QED BY <1>1, PwStart, PTL DEF PwSpec

\* Whatever the processes of the user do together, in whatever order their steps
\* come, and whichever of their calls on the file fail: once nobody is saving,
\* and if nobody gave up or was killed after the file was emptied, since the last
\* save that ended well, the password saved last is in its file, whole; it is
\* good for the file's time, and the file has the name, if it was written within
\* 20 seconds of its stamp (and, where the stamp was 0, by clocks that near),
\* unless a removal met a save, or the password was a temporary one.
THEOREM PwFileKept == PwSpec => []PasswordKept
BY PwInvariant, PTL DEF PwInv

(* Who is at a step has the inode it works on, with what was written in it *)
(* (obfSavePw, obfGetPw, obfTempOps, obfRmPw).                             *)
THEOREM PwFileType == PwSpec => []PwTypeOK
BY PwInvariant, PTL DEF PwInv

-----------------------------------------------------------------------------
(* MsParams, for any labels, any step of allocation and any number of      *)
(* structs.                                                                *)

\* A parameter has its struct for itself, and, unless it was reset, is the one
\* who is to free it; the pointers are allocated in whole steps.
ParamInv ==
  /\ MsParamTypeOK /\ FreedOnce /\ LabelsName
  /\ \A i, j \in DOMAIN msParam : msParam[i].struct = msParam[j].struct => i = j
  /\ \A i \in DOMAIN msParam : msParam[i].struct \notin wasReset =>
       structs[msParam[i].struct].freed = 0 /\ structs[msParam[i].struct].owner = "array"
  /\ slots % MallocLen = 0

LEMMA ParamFacts ==
  ASSUME MsParamTypeOK, NEW i \in DOMAIN msParam
  PROVE  /\ msParam[i].label \in Labels /\ msParam[i].type \in Types
         /\ msParam[i].struct \in DOMAIN structs /\ msParam[i].struct # 0
         /\ structs[msParam[i].struct] \in Struct
<1>1. msParam[i] \in Param
  BY DEF MsParamTypeOK
<1>2. structs \in Seq(Struct)
  BY DEF MsParamTypeOK
<1>3. \A s \in DOMAIN structs : s # 0 /\ structs[s] \in Struct
  BY <1>2
<1> QED BY <1>1, <1>3 DEF Param

\* clearMsParam of each of ps, which have different structs, frees the struct or
\* leaves it to the caller, and touches no other.
LEMMA Cleared ==
  ASSUME MsParamTypeOK, NEW ps \in SUBSET {msParam[i] : i \in DOMAIN msParam},
         \A p, q \in ps : p.struct = q.struct => p = q,
         NEW freeStruct \in BOOLEAN, clearMsParams(ps, freeStruct)
  PROVE  /\ structs' \in Seq(Struct) /\ DOMAIN structs' = DOMAIN structs
         /\ \A s \in DOMAIN structs : (\A p \in ps : p.struct # s) => structs'[s] = structs[s]
         /\ \A p \in ps :
              /\ FreesStruct(p, freeStruct) =>
                   /\ structs'[p.struct].freed = IF structs[p.struct].freed = 0 THEN 1 ELSE 2
                   /\ structs'[p.struct].owner = structs[p.struct].owner
              /\ ~FreesStruct(p, freeStruct) =>
                   /\ structs'[p.struct].freed = structs[p.struct].freed
                   /\ ~structs[p.struct].copy => structs'[p.struct].owner = "caller"
                   /\ structs[p.struct].copy => structs'[p.struct].owner = structs[p.struct].owner
<1> DEFINE F == {p.struct : p \in {q \in ps : FreesStruct(q, freeStruct)}}
           G == {p.struct : p \in {q \in ps : ~FreesStruct(q, freeStruct)}}
           known == FreeAll(F)
<1>1. /\ \A p \in ps : p.struct \in DOMAIN structs
      /\ \A p \in ps : FreesStruct(p, freeStruct) => p.struct \in F /\ p.struct \notin G
      /\ \A p \in ps : ~FreesStruct(p, freeStruct) => p.struct \in G /\ p.struct \notin F
      /\ \A s \in DOMAIN structs : (\A p \in ps : p.struct # s) => s \notin F /\ s \notin G
  BY ParamFacts
<1>2. structs' = GiveBack(known, G)
  BY DEF clearMsParams
<1> HIDE DEF F, G
<1>3. \A s \in DOMAIN structs : structs[s] \in Struct
  BY DEF MsParamTypeOK
<1>4. /\ DOMAIN known = DOMAIN structs
      /\ \A s \in DOMAIN structs :
           /\ s \notin F => known[s] = structs[s]
           /\ s \in F => known[s] = [structs[s] EXCEPT !.freed = IF structs[s].freed = 0 THEN 1 ELSE 2]
  BY DEF FreeAll
<1> HIDE DEF known
<1>5. ASSUME NEW s \in DOMAIN structs
      PROVE  /\ known[s] \in Struct /\ known[s].copy = structs[s].copy
             /\ known[s].owner = structs[s].owner
             /\ s \in F => known[s].freed = IF structs[s].freed = 0 THEN 1 ELSE 2
  BY <1>3, <1>4 DEF Struct
<1>6. /\ DOMAIN structs' = DOMAIN structs
      /\ \A s \in DOMAIN structs :
           /\ s \notin G \/ known[s].copy => structs'[s] = known[s]
           /\ s \in G /\ ~known[s].copy => structs'[s] = [known[s] EXCEPT !.owner = "caller"]
  BY <1>2, <1>4 DEF GiveBack
<1>7. ASSUME NEW s \in DOMAIN structs
      PROVE  /\ structs'[s] \in Struct
             /\ s \in G /\ ~known[s].copy => /\ structs'[s].owner = "caller"
                                             /\ structs'[s].freed = known[s].freed
  BY <1>5, <1>6 DEF Struct
<1>8. structs' \in Seq(Struct)
  <2>1. DOMAIN structs = 1 .. Len(structs) /\ Len(structs) \in Nat
    BY DEF MsParamTypeOK
  <2>2. structs' = [s \in 1 .. Len(structs) |-> structs'[s]]
    BY <1>2, <1>4, <2>1 DEF GiveBack
  <2> QED BY <1>7, <2>1, <2>2
<1> QED BY <1>1, <1>4, <1>5, <1>6, <1>7, <1>8

\* The n parameters that are left, each once: those at the places from.
Left(ps, n, from) ==
  /\ from \in [1 .. n -> DOMAIN msParam]
  /\ \A k, l \in 1 .. n : from[k] = from[l] => k = l
  /\ \A k \in 1 .. n : msParam[from[k]] \notin ps
  /\ \A i \in DOMAIN msParam :
       msParam[i] \in ps \/ msParam[i].type = NULL \/ \E k \in 1 .. n : from[k] = i
  /\ msParam' \in Seq(Param) /\ Len(msParam') = n
  /\ \A k \in 1 .. n : msParam'[k] = msParam[from[k]]

\* Parameters go, the others stay.
LEMMA ShrinkKeeps ==
  ASSUME ParamInv, NEW ps \in SUBSET {msParam[i] : i \in DOMAIN msParam},
         NEW freeStruct \in BOOLEAN, clearMsParams(ps, freeStruct),
         NEW n \in Nat, NEW from, Left(ps, n, from),
         wasReset' = wasReset, slots' \in Nat, n <= slots', slots' % MallocLen = 0
  PROVE  ParamInv' /\ ForgetsNone
<1>0. MsParamTypeOK
  BY DEF ParamInv
<1>1. \A p, q \in ps : p.struct = q.struct => p = q
  BY DEF ParamInv
<1>2. /\ structs' \in Seq(Struct) /\ DOMAIN structs' = DOMAIN structs
      /\ \A s \in DOMAIN structs : (\A p \in ps : p.struct # s) => structs'[s] = structs[s]
      /\ \A p \in ps :
           /\ FreesStruct(p, freeStruct) =>
                /\ structs'[p.struct].freed = IF structs[p.struct].freed = 0 THEN 1 ELSE 2
                /\ structs'[p.struct].owner = structs[p.struct].owner
           /\ ~FreesStruct(p, freeStruct) =>
                /\ structs'[p.struct].freed = structs[p.struct].freed
                /\ ~structs[p.struct].copy => structs'[p.struct].owner = "caller"
                /\ structs[p.struct].copy => structs'[p.struct].owner = structs[p.struct].owner
  BY <1>0, <1>1, Cleared
<1>3. /\ DOMAIN msParam' = 1 .. n /\ Len(msParam') = n /\ msParam' \in Seq(Param)
      /\ \A k \in 1 .. n : /\ msParam'[k] = msParam[from[k]] /\ from[k] \in DOMAIN msParam
                           /\ msParam[from[k]] \notin ps
      /\ \A k, l \in 1 .. n : from[k] = from[l] => k = l
  BY DEF Left
<1>4. \A k \in 1 .. n : structs'[msParam'[k].struct] = structs[msParam'[k].struct]
                        /\ msParam'[k].struct \in DOMAIN structs
  <2> SUFFICES ASSUME NEW k \in 1 .. n
               PROVE  structs'[msParam'[k].struct] = structs[msParam'[k].struct]
                      /\ msParam'[k].struct \in DOMAIN structs
    OBVIOUS
  <2>1. msParam[from[k]].struct \in DOMAIN structs
    BY <1>0, <1>3, ParamFacts
  <2>2. \A p \in ps : p.struct # msParam[from[k]].struct
    BY <1>3 DEF ParamInv
  <2> QED BY <1>2, <1>3, <2>1, <2>2
<1>5. MsParamTypeOK'
  <2>2. Param' = Param
    BY <1>2 DEF Param
  <2> QED BY <1>0, <1>2, <1>3, <2>2 DEF MsParamTypeOK
<1>6. FreedOnce'
  <2> SUFFICES ASSUME NEW s \in DOMAIN structs \ wasReset
               PROVE  structs'[s].freed <= IF structs'[s].owner = "array" THEN 1 ELSE 0
    BY <1>2 DEF FreedOnce
  <2>1. CASE \A p \in ps : p.struct # s
    BY <1>2, <2>1 DEF ParamInv, FreedOnce
  <2>2. ASSUME NEW p \in ps, p.struct = s
        PROVE  structs'[s].freed <= IF structs'[s].owner = "array" THEN 1 ELSE 0
    <3>1. structs[s].freed = 0 /\ structs[s].owner = "array"
      BY <2>2 DEF ParamInv
    <3> QED BY <1>2, <2>2, <3>1
  <2> QED BY <2>1, <2>2
<1>7. LabelsName'
  <2>1. ASSUME NEW k \in 1 .. n, NEW l \in 1 .. n, k # l, msParam'[k].label = msParam'[l].label
        PROVE  NULL \in {msParam'[k].type, msParam'[l].type}
    <3>1. from[k] # from[l] /\ msParam[from[k]].label = msParam[from[l]].label
      BY <1>3, <2>1
    <3> QED BY <1>3, <3>1 DEF ParamInv, LabelsName
  <2> QED BY <1>3, <2>1 DEF LabelsName
<1>8. \A k, l \in 1 .. n : msParam'[k].struct = msParam'[l].struct => k = l
  BY <1>3 DEF ParamInv
<1>9. \A k \in 1 .. n : msParam'[k].struct \notin wasReset =>
        structs'[msParam'[k].struct].freed = 0 /\ structs'[msParam'[k].struct].owner = "array"
  BY <1>3, <1>4 DEF ParamInv
<1>10. ForgetsNone
  <2> SUFFICES ASSUME NEW s \in DOMAIN structs, Held(s), ~Held(s)', structs'[s].owner = "array",
                      ~Forgettable(s)
               PROVE  structs'[s].freed > 0
    BY DEF ForgetsNone
  <2>1. PICK i \in DOMAIN msParam : msParam[i].struct = s
    BY DEF Held
  <2>2. msParam[i].type # NULL /\ (structs[s].copy => msParam[i].type = STR_MS_T)
    BY <2>1 DEF Forgettable
  <2>3. ~\E k \in 1 .. n : from[k] = i
    BY <1>3, <2>1 DEF Held
  <2>4. msParam[i] \in ps
    BY <2>2, <2>3 DEF Left
  <2>5. s # 0 /\ structs[s].copy \in BOOLEAN
    BY <1>0, <2>1, ParamFacts DEF Struct
  <2>6. FreesStruct(msParam[i], freeStruct)
    <3>1. SUFFICES ASSUME ~FreesStruct(msParam[i], freeStruct) PROVE FALSE
      OBVIOUS
    <3>2. structs[s].copy
      BY <1>2, <2>1, <2>4, <2>5, <3>1
    <3> QED BY <2>1, <2>2, <2>5, <3>1, <3>2 DEF FreesStruct
  <2> QED BY <1>2, <2>1, <2>4, <2>6
<1> QED BY <1>3, <1>5, <1>6, <1>7, <1>8, <1>9, <1>10 DEF ParamInv

LEMMA RemoveAtFacts ==
  ASSUME NEW S, NEW s \in Seq(S), NEW i \in 1 .. Len(s)
  PROVE  /\ RemoveAt(s, i) \in Seq(S) /\ Len(RemoveAt(s, i)) = Len(s) - 1
         /\ \A k \in 1 .. Len(s) - 1 : RemoveAt(s, i)[k] = s[IF k < i THEN k ELSE k + 1]
<1> DEFINE a == SubSeq(s, 1, i - 1)
           b == SubSeq(s, i + 1, Len(s))
<1>1. a \in Seq(S) /\ Len(a) = i - 1 /\ \A k \in 1 .. i - 1 : a[k] = s[k]
  OBVIOUS
<1>2. b \in Seq(S) /\ Len(b) = Len(s) - i /\ \A k \in 1 .. Len(s) - i : b[k] = s[i + k]
  OBVIOUS
<1>3. RemoveAt(s, i) = a \o b
  BY DEF RemoveAt
<1> HIDE DEF a, b
<1>4. /\ a \o b \in Seq(S) /\ Len(a \o b) = Len(s) - 1
      /\ \A k \in 1 .. Len(s) - 1 : (a \o b)[k] = IF k <= Len(a) THEN a[k] ELSE b[k - Len(a)]
  <2>1. Len(a) + Len(b) = Len(s) - 1
    BY <1>1, <1>2
  <2>2. /\ a \o b \in Seq(S) /\ Len(a \o b) = Len(a) + Len(b)
        /\ \A k \in 1 .. Len(a) + Len(b) : (a \o b)[k] = IF k <= Len(a) THEN a[k] ELSE b[k - Len(a)]
    <3>1. a \in Seq(S) /\ b \in Seq(S)
      BY <1>1, <1>2
    <3> QED BY <3>1, ConcatProperties
  <2> QED BY <2>1, <2>2
<1>5. ASSUME NEW k \in 1 .. Len(s) - 1
      PROVE  (a \o b)[k] = s[IF k < i THEN k ELSE k + 1]
  <2>1. CASE k < i
    BY <1>1, <1>4, <2>1
  <2>2. CASE ~(k < i)
    <3>1. k - (i - 1) \in 1 .. Len(s) - i /\ i + (k - (i - 1)) = k + 1
      BY <2>2
    <3>2. (a \o b)[k] = b[k - (i - 1)]
      BY <1>1, <1>4, <2>2
    <3> QED BY <1>2, <2>2, <3>1, <3>2
  <2> QED BY <2>1, <2>2
<1> QED BY <1>3, <1>4, <1>5

LEMMA RmParamKeeps ==
  ASSUME ParamInv, NEW label \in Labels, NEW freeStruct \in BOOLEAN,
         rmMsParamByLabel(label, freeStruct)
  PROVE  ParamInv' /\ ForgetsNone
<1>1. PICK i \in DOMAIN msParam : /\ clearMsParams({msParam[i]}, freeStruct)
                                  /\ msParam' = RemoveAt(msParam, i)
                                  /\ UNCHANGED <<slots, wasReset>>
  BY DEF rmMsParamByLabel
<1> DEFINE n == Len(msParam) - 1
           from == [k \in 1 .. n |-> IF k < i THEN k ELSE k + 1]
<1>2. msParam \in Seq(Param) /\ DOMAIN msParam = 1 .. Len(msParam) /\ Len(msParam) \in Nat
      /\ i \in 1 .. Len(msParam) /\ n \in Nat
  BY DEF ParamInv, MsParamTypeOK
<1>3. /\ msParam' \in Seq(Param) /\ Len(msParam') = n
      /\ \A k \in 1 .. n : msParam'[k] = msParam[from[k]]
  BY <1>1, <1>2, RemoveAtFacts
<1>4. from \in [1 .. n -> DOMAIN msParam] /\ \A k, l \in 1 .. n : from[k] = from[l] => k = l
  BY <1>2
<1>5. \A k \in 1 .. n : from[k] # i
  BY <1>2
<1>6. \A j \in DOMAIN msParam : j = i \/ \E k \in 1 .. n : from[k] = j
  <2> SUFFICES ASSUME NEW j \in DOMAIN msParam, j # i PROVE \E k \in 1 .. n : from[k] = j
    OBVIOUS
  <2>1. CASE j < i
    BY <1>2, <2>1
  <2>2. CASE j > i
    <3>1. j - 1 \in 1 .. n /\ from[j - 1] = j
      BY <1>2, <2>2
    <3> QED BY <3>1
  <2> QED BY <1>2, <2>1, <2>2
<1> HIDE DEF from
<1>7. \A k \in 1 .. n : msParam[from[k]] \notin {msParam[i]}
  BY <1>4, <1>5 DEF ParamInv
<1>8. slots' \in Nat /\ n <= slots' /\ slots' % MallocLen = 0
  BY <1>1, <1>2 DEF ParamInv, MsParamTypeOK, LabelsName
<1>9. Left({msParam[i]}, n, from)
  BY <1>3, <1>4, <1>6, <1>7 DEF Left
<1>10. {msParam[i]} \in SUBSET {msParam[j] : j \in DOMAIN msParam} /\ wasReset' = wasReset
  BY <1>1
<1> QED BY <1>1, <1>2, <1>8, <1>9, <1>10, ShrinkKeeps

LEMMA ClearParamsKeeps ==
  ASSUME ParamInv, NEW freeStruct \in BOOLEAN, clearMsParamArray(freeStruct)
  PROVE  ParamInv' /\ ForgetsNone
<1> DEFINE from == [k \in 1 .. 0 |-> k]
           ps == {msParam[i] : i \in DOMAIN msParam}
<1>1. clearMsParams(ps, freeStruct) /\ msParam' = << >> /\ slots' = 0 /\ wasReset' = wasReset
  BY DEF clearMsParamArray
<1>2. /\ msParam' \in Seq(Param) /\ Len(msParam') = 0 /\ from \in [1 .. 0 -> DOMAIN msParam]
      /\ \A k \in 1 .. 0 : FALSE
  BY <1>1
<1>3. slots' \in Nat /\ 0 <= slots' /\ slots' % MallocLen = 0
  BY <1>1, MsParamAssumption
<1>4. \A i \in DOMAIN msParam : msParam[i] \in ps
  OBVIOUS
<1> HIDE DEF from
<1>5. Left(ps, 0, from)
  BY <1>2, <1>4 DEF Left
<1> QED BY <1>1, <1>3, <1>5, ShrinkKeeps

LEMMA TrimKeeps ==
  ASSUME ParamInv, NEW labels \in SUBSET Labels, trimMsParamArray(labels)
  PROVE  ParamInv' /\ ForgetsNone
<1> DEFINE R == {i \in DOMAIN msParam : Retained(msParam[i], labels)}
           ps == {p \in {msParam[i] : i \in DOMAIN msParam} :
                    p.type # NULL /\ p.label \notin labels}
<1>1. PICK from \in OneByOne(R) : /\ clearMsParams(ps, TRUE)
                                /\ msParam' = [k \in DOMAIN from |-> msParam[from[k]]]
                                /\ UNCHANGED <<slots, wasReset>>
  BY DEF trimMsParamArray
<1>2. PICK n \in 0 .. Len(msParam) : from \in [1 .. n -> R]
  BY DEF OneByOne
<1>3. Len(msParam) \in Nat /\ n \in Nat /\ DOMAIN from = 1 .. n
  BY <1>2 DEF ParamInv, MsParamTypeOK
<1>4. from \in [1 .. n -> DOMAIN msParam] /\ \A k \in 1 .. n : from[k] \in R /\ from[k] \in Int
  BY <1>2 DEF ParamInv, MsParamTypeOK
<1>5. \A k, l \in 1 .. n : from[k] = from[l] => k = l
  <2>1. \A k, l \in 1 .. n : k < l => from[k] < from[l]
    BY <1>3 DEF OneByOne
  <2> QED BY <1>3, <1>4, <2>1
<1>6. \A k \in 1 .. n : msParam[from[k]] \notin ps
  BY <1>4 DEF Retained
<1>7. \A i \in DOMAIN msParam :
        msParam[i] \in ps \/ msParam[i].type = NULL \/ \E k \in 1 .. n : from[k] = i
  <2>1. \A i \in R : \E k \in 1 .. n : from[k] = i
    BY <1>3 DEF OneByOne, Range
  <2> QED BY <2>1 DEF Retained
<1>8. slots' \in Nat /\ n <= slots' /\ slots' % MallocLen = 0
  BY <1>1, <1>3 DEF ParamInv, MsParamTypeOK, LabelsName
<1>9. /\ msParam' \in Seq(Param) /\ Len(msParam') = n
      /\ \A k \in 1 .. n : msParam'[k] = msParam[from[k]]
  <2>1. msParam' = [k \in 1 .. n |-> msParam[from[k]]]
    BY <1>1, <1>3
  <2>2. \A k \in 1 .. n : msParam[from[k]] \in Param
    BY <1>4 DEF ParamInv, MsParamTypeOK
  <2> QED BY <1>3, <2>1, <2>2
<1>10. ps \in SUBSET {msParam[i] : i \in DOMAIN msParam} /\ clearMsParams(ps, TRUE)
       /\ wasReset' = wasReset
  BY <1>1
<1> HIDE DEF ps, R
<1>11. Left(ps, n, from)
  BY <1>4, <1>5, <1>6, <1>7, <1>9 DEF Left
<1> QED BY <1>3, <1>8, <1>10, <1>11, ShrinkKeeps

\* The struct is freed, and the parameter is no longer the one who frees it.
LEMMA ResetKeeps ==
  ASSUME ParamInv, NEW i \in DOMAIN msParam, resetMsParam(i)
  PROVE  ParamInv' /\ ForgetsNone
<1> DEFINE s == msParam[i].struct
           p == [msParam[i] EXCEPT !.type = NULL]
<1>1. /\ MsParamTypeOK /\ msParam[i] \in Param /\ s \in DOMAIN structs
      /\ wasReset' = wasReset \cup {s} /\ slots' = slots
  BY ParamFacts DEF ParamInv, MsParamTypeOK, resetMsParam
<1>2. msParam' = [msParam EXCEPT ![i] = p]
  BY <1>1 DEF resetMsParam, MsParamTypeOK
<1>3. p \in Param /\ p.struct = s /\ p.label = msParam[i].label /\ p.type = NULL
  BY <1>1 DEF Param, Types
<1>4. /\ DOMAIN msParam' = DOMAIN msParam /\ Len(msParam') = Len(msParam)
      /\ msParam' \in Seq(Param)
      /\ \A j \in DOMAIN msParam : msParam'[j].struct = msParam[j].struct
                                   /\ msParam'[j].label = msParam[j].label
                                   /\ (msParam'[j].type = msParam[j].type \/ msParam'[j].type = NULL)
  <2>1. msParam \in Seq(Param)
    BY <1>1 DEF MsParamTypeOK
  <2> HIDE DEF p, s
  <2>2. \A j \in DOMAIN msParam : msParam'[j] = IF j = i THEN p ELSE msParam[j]
    BY <1>2, <2>1
  <2> QED BY <1>2, <1>3, <2>1, <2>2 DEF s
<1>5. /\ DOMAIN structs' = DOMAIN structs /\ structs' \in Seq(Struct)
      /\ \A t \in DOMAIN structs \ {s} : structs'[t] = structs[t]
  <2>1. structs \in Seq(Struct) /\ structs' = FreeAll({s})
    BY <1>1 DEF MsParamTypeOK, resetMsParam
  <2> HIDE DEF s
  <2>2. /\ DOMAIN structs' = DOMAIN structs
        /\ \A t \in DOMAIN structs \ {s} : structs'[t] = structs[t]
        /\ structs'[s] = [structs[s] EXCEPT !.freed = IF structs[s].freed = 0 THEN 1 ELSE 2]
    BY <1>1, <2>1 DEF FreeAll
  <2>3. \A t \in DOMAIN structs : structs[t] \in Struct
    BY <2>1
  <2>4. structs'[s] \in Struct
    BY <1>1, <2>2, <2>3 DEF Struct
  <2>5. structs' = [t \in 1 .. Len(structs) |-> structs'[t]]
    BY <2>1 DEF FreeAll
  <2>6. Len(structs) \in Nat /\ \A t \in 1 .. Len(structs) : structs'[t] \in Struct
    <3>1. Len(structs) \in Nat /\ DOMAIN structs = 1 .. Len(structs)
      BY <2>1
    <3>2. ASSUME NEW t \in DOMAIN structs PROVE structs'[t] \in Struct
      <4>1. CASE t = s
        BY <2>4, <4>1
      <4>2. CASE t # s
        BY <2>2, <2>3, <4>2
      <4> QED BY <4>1, <4>2
    <3> QED BY <3>1, <3>2
  <2>7. structs' \in Seq(Struct)
    BY <2>5, <2>6
  <2> QED BY <2>2, <2>7
<1> HIDE DEF s, p
<1>6. MsParamTypeOK'
  <2>1. Param' = Param
    BY <1>5 DEF Param
  <2> QED BY <1>1, <1>4, <1>5, <2>1 DEF MsParamTypeOK
<1>7. FreedOnce'
  BY <1>1, <1>5 DEF ParamInv, FreedOnce
<1>8. LabelsName'
  BY <1>1, <1>4 DEF ParamInv, LabelsName
<1>9. \A j, k \in DOMAIN msParam' : msParam'[j].struct = msParam'[k].struct => j = k
  BY <1>4 DEF ParamInv
<1>10. \A j \in DOMAIN msParam' : msParam'[j].struct \notin wasReset' =>
         structs'[msParam'[j].struct].freed = 0 /\ structs'[msParam'[j].struct].owner = "array"
  <2> SUFFICES ASSUME NEW j \in DOMAIN msParam, msParam[j].struct \notin wasReset \cup {s}
               PROVE  structs'[msParam[j].struct].freed = 0
                      /\ structs'[msParam[j].struct].owner = "array"
    BY <1>1, <1>4
  <2>1. msParam[j].struct \in DOMAIN structs
    BY <1>1, ParamFacts
  <2> QED BY <1>5, <2>1 DEF ParamInv
<1>11. ForgetsNone
  BY <1>4 DEF ForgetsNone, Held
<1> QED BY <1>1, <1>6, <1>7, <1>8, <1>9, <1>10, <1>11 DEF ParamInv

LEMMA EnoughSlots ==
  ASSUME ParamInv
  PROVE  LET n == Len(msParam)
         IN  /\ SlotsFor(n, slots) \in Nat /\ n + 1 <= SlotsFor(n, slots)
             /\ SlotsFor(n, slots) % MallocLen = 0
<1> DEFINE n == Len(msParam)
           q == n \div MallocLen
<1>1. n \in Nat /\ slots \in Nat /\ n <= slots /\ slots % MallocLen = 0 /\ MallocLen \in Nat \ {0}
  BY MsParamAssumption DEF ParamInv, MsParamTypeOK, LabelsName
<1> SUFFICES /\ SlotsFor(n, slots) \in Nat /\ n + 1 <= SlotsFor(n, slots)
             /\ SlotsFor(n, slots) % MallocLen = 0
  OBVIOUS
<1> HIDE DEF n
<1>2. CASE n % MallocLen = 0
  <2>1. n + MallocLen = MallocLen * (q + 1) /\ q \in Nat
    BY <1>1, <1>2
  <2>2. (MallocLen * (q + 1)) % MallocLen = 0
    <3> HIDE DEF q
    <3>1. \A P \in Nat \ {0}, m \in Nat : (P * m) % P = 0
      OBVIOUS
    <3> QED BY <1>1, <2>1, <3>1
  <2>3. (n + MallocLen) % MallocLen = 0
    BY <2>1, <2>2
  <2>4. SlotsFor(n, slots) = n + MallocLen
    BY <1>2 DEF SlotsFor
  <2> QED BY <1>1, <2>3, <2>4
<1>3. CASE n % MallocLen # 0
  <2>1. n # slots
    BY <1>1, <1>3
  <2>2. SlotsFor(n, slots) = slots
    BY <1>3 DEF SlotsFor
  <2> QED BY <1>1, <2>1, <2>2
<1> QED BY <1>2, <1>3

\* A parameter more, with a new struct of its own.
LEMMA AddParamKeeps ==
  ASSUME ParamInv, NEW label \in Labels, NEW type \in Types, NEW replFlag \in BOOLEAN,
         addMsParamToArray(label, type, replFlag)
  PROVE  ParamInv' /\ ForgetsNone
<1> DEFINE given == NewStruct(IF type = STR_MS_T \/ replFlag THEN "caller" ELSE "array", FALSE)
           copy == NewStruct("array", TRUE)
           n == Len(msParam)
           p == [label |-> label, type |-> type, struct |-> Len(structs')]
<1>0. MsParamTypeOK /\ msParam \in Seq(Param) /\ structs \in Seq(Struct) /\ n \in Nat
      /\ Len(structs) \in Nat
  BY DEF ParamInv, MsParamTypeOK
<1>1. /\ ~Taken(label, type) /\ wasReset' = wasReset
      /\ slots' = SlotsFor(n, slots)
      /\ msParam' = Append(msParam, p)
      /\ IF Copied(type, replFlag) THEN structs' = Append(structs, given) \o <<copy>>
         ELSE structs' = Append(structs, given) \o << >>
  BY DEF addMsParamToArray
<1>2. /\ given \in Struct /\ copy \in Struct /\ copy.freed = 0 /\ copy.owner = "array"
      /\ given.freed = 0 /\ (~Copied(type, replFlag) => given.owner = "array")
  BY DEF NewStruct, Struct, Copied
<1> HIDE DEF given, copy
<1>3. /\ structs' \in Seq(Struct) /\ Len(structs') > Len(structs) /\ Len(structs') \in Nat
      /\ \A s \in DOMAIN structs : s \in DOMAIN structs' /\ structs'[s] = structs[s]
      /\ \A s \in DOMAIN structs' \ DOMAIN structs : structs'[s] \in {given, copy}
      /\ structs'[Len(structs')].freed = 0 /\ structs'[Len(structs')].owner = "array"
  <2>1. CASE Copied(type, replFlag)
    <3>1. structs' = Append(structs, given) \o <<copy>>
      BY <1>1, <2>1
    <3> QED BY <1>0, <1>2, <3>1
  <2>2. CASE ~Copied(type, replFlag)
    <3>1. structs' = Append(structs, given)
      BY <1>0, <1>1, <1>2, <2>2
    <3> QED BY <1>0, <1>2, <2>2, <3>1
  <2> QED BY <2>1, <2>2
<1>4. p \in Param' /\ p.struct = Len(structs') /\ p.label = label /\ p.type = type
      /\ Len(structs') \notin DOMAIN structs
  BY <1>0, <1>3 DEF Param
<1> HIDE DEF p
<1>5. /\ Len(msParam') = n + 1 /\ DOMAIN msParam' = 1 .. n + 1
      /\ \A i \in 1 .. n : msParam'[i] = msParam[i] /\ i \in DOMAIN msParam
      /\ msParam'[n + 1] = p
  BY <1>0, <1>1
<1>6. \A i \in 1 .. n : /\ msParam[i].struct \in DOMAIN structs
                        /\ msParam[i].struct # Len(structs') /\ msParam[i] \in Param'
  <2> SUFFICES ASSUME NEW i \in 1 .. n
               PROVE  /\ msParam[i].struct \in DOMAIN structs
                      /\ msParam[i].struct # Len(structs') /\ msParam[i] \in Param'
    OBVIOUS
  <2>1. msParam[i] \in Param
    BY <1>0
  <2>2. msParam[i].struct \in DOMAIN structs
    BY <2>1 DEF Param
  <2>3. msParam[i] \in Param'
    BY <1>3, <2>1 DEF Param
  <2> QED BY <1>4, <2>2, <2>3
<1>7. MsParamTypeOK'
  <2>1. \A i \in 1 .. n + 1 : msParam'[i] \in Param'
    BY <1>0, <1>4, <1>5, <1>6
  <2>2. msParam' \in Seq(Param')
    <3>1. msParam \in Seq(Param')
      BY <1>0, <1>6
    <3> QED BY <1>1, <1>4, <3>1
  <2>3. slots' \in Nat
    BY <1>1, EnoughSlots
  <2>4. wasReset' \in SUBSET DOMAIN structs'
    BY <1>0, <1>1, <1>3 DEF MsParamTypeOK
  <2> QED BY <1>3, <2>2, <2>3, <2>4 DEF MsParamTypeOK
<1>8. FreedOnce'
  <2> SUFFICES ASSUME NEW s \in DOMAIN structs' \ wasReset
               PROVE  structs'[s].freed <= IF structs'[s].owner = "array" THEN 1 ELSE 0
    BY <1>1 DEF FreedOnce
  <2>1. CASE s \in DOMAIN structs
    BY <1>3, <2>1 DEF ParamInv, FreedOnce
  <2>2. CASE s \notin DOMAIN structs
    BY <1>2, <1>3, <2>2
  <2> QED BY <2>1, <2>2
<1>9. LabelsName'
  <2>1. \A i \in 1 .. n : msParam[i].label = label => NULL \in {msParam[i].type, type}
    BY <1>1, <1>5 DEF Taken
  <2>2. Len(msParam') <= slots'
    BY <1>1, <1>5, EnoughSlots
  <2>3. \A i, j \in 1 .. n : i # j /\ msParam[i].label = msParam[j].label =>
          NULL \in {msParam[i].type, msParam[j].type}
    BY <1>5 DEF ParamInv, LabelsName
  <2> QED BY <1>0, <1>4, <1>5, <2>1, <2>2, <2>3 DEF LabelsName
<1>10. \A i, j \in DOMAIN msParam' : msParam'[i].struct = msParam'[j].struct => i = j
  <2>1. \A i, j \in 1 .. n : msParam[i].struct = msParam[j].struct => i = j
    BY <1>5 DEF ParamInv
  <2> QED BY <1>0, <1>4, <1>5, <1>6, <2>1
<1>11. \A i \in DOMAIN msParam' : msParam'[i].struct \notin wasReset' =>
         structs'[msParam'[i].struct].freed = 0 /\ structs'[msParam'[i].struct].owner = "array"
  <2>1. \A i \in 1 .. n : msParam[i].struct \notin wasReset =>
          structs[msParam[i].struct].freed = 0 /\ structs[msParam[i].struct].owner = "array"
    BY <1>5 DEF ParamInv
  <2> QED BY <1>0, <1>1, <1>3, <1>4, <1>5, <1>6, <2>1
<1>12. slots' % MallocLen = 0
  BY <1>1, EnoughSlots
<1>13. ForgetsNone
  <2>1. \A s : Held(s) => Held(s)'
    BY <1>0, <1>5 DEF Held
  <2> QED BY <2>1 DEF ForgetsNone
<1> QED BY <1>7, <1>8, <1>9, <1>10, <1>11, <1>12, <1>13 DEF ParamInv

LEMMA AddFailsKeeps ==
  ASSUME ParamInv, NEW label \in Labels, addFails(label)
  PROVE  ParamInv' /\ ForgetsNone
<1>1. slots' = SlotsFor(Len(msParam), slots) /\ UNCHANGED <<msParam, structs, wasReset>>
  BY DEF addFails
<1>2. slots' \in Nat /\ Len(msParam) <= slots' /\ slots' % MallocLen = 0
  BY <1>1, EnoughSlots DEF ParamInv, MsParamTypeOK
<1> QED BY <1>1, <1>2 DEF ParamInv, MsParamTypeOK, FreedOnce, LabelsName, ForgetsNone, Held, Param

LEMMA ParamInvariant == MsParamSpec => []ParamInv /\ [][ForgetsNone]_msParamVars
<1>1. MsParamInit => ParamInv
  <2>1. MsParamInit => msParam = << >> /\ structs = << >> /\ slots = 0 /\ wasReset = {}
    BY DEF MsParamInit
  <2> QED BY <2>1, MsParamAssumption DEF ParamInv, MsParamTypeOK, FreedOnce, LabelsName
<1>2. ParamInv /\ [MsParamNext]_msParamVars => ParamInv' /\ [ForgetsNone]_msParamVars
  <2>1. ParamInv /\ UNCHANGED msParamVars => ParamInv'
    BY DEF ParamInv, MsParamTypeOK, FreedOnce, LabelsName, Param, msParamVars
  <2> QED BY <2>1, RmParamKeeps, ClearParamsKeeps, TrimKeeps, ResetKeeps, AddParamKeeps,
             AddFailsKeeps DEF MsParamNext
<1> QED BY <1>1, <1>2, PTL DEF MsParamSpec

\* Whatever a rule adds, removes, trims, clears and resets: no struct is freed
\* twice or by the wrong side, none is forgotten, and a label names one
\* parameter; with the exceptions FreedOnce and Forgettable name.
THEOREM MsParamsOwned == MsParamSpec => ParamsOwned
<1>1. ParamInv => FreedOnce /\ LabelsName
  BY DEF ParamInv
<1> QED BY <1>1, ParamInvariant, PTL DEF ParamsOwned

(* Every parameter has a struct there has been, or none, and the structs   *)
(* that lost their pointer by a reset are known (addMsParam, rmMsParam,    *)
(* trimMsParamArray, clearMsParamArray, resetMsParam).                     *)
THEOREM MsParamsType == MsParamSpec => []MsParamTypeOK
BY ParamInvariant, PTL DEF ParamInv

-----------------------------------------------------------------------------
(* KeyVal: the options of a request, for every PTR_ARRAY_MALLOC_LEN, every *)
(* keyword and value, and every array a server may send with distinct      *)
(* keywords and no hole but the last.                                      *)

(* The arrays a server may send: Received tests the rest.                  *)
Arrays == {b \in [keyWord : Seq(KeyWords), value : Seq(Values)] : Len(b.keyWord) = Len(b.value)}

(* The room is allocated in whole steps: why a length that is no multiple  *)
(* leaves room for one more.                                               *)
Multiple(r) == r % PtrArrayMallocLen = 0
KeyValInv == KeyValTypeOK /\ KeyValSound /\ Multiple(room)

-----------------------------------------------------------------------------
(* Multiples of PTR_ARRAY_MALLOC_LEN.                                      *)

LEMMA ProductIsMultiple ==
  ASSUME NEW P \in Nat \ {0}, NEW q \in Nat
  PROVE  (P * q) % P = 0
OBVIOUS

LEMMA NextMultiple ==
  ASSUME NEW n \in Nat, Multiple(n)
  PROVE  Multiple(n + PtrArrayMallocLen)
<1> DEFINE P == PtrArrayMallocLen
           q == n \div P
<1>1. P \in Nat \ {0}
  BY KeyValAssumption
<1>2. n = P * q + (n % P) /\ q \in Nat
  BY <1>1
<1>3. n + P = P * (q + 1)
  BY <1>1, <1>2 DEF Multiple
<1>4. (P * (q + 1)) % P = 0
  <2> HIDE DEF P, q
  <2> QED BY <1>1, <1>2, ProductIsMultiple
<1> QED BY <1>3, <1>4 DEF Multiple

LEMMA ZeroIsMultiple == Multiple(0)
BY KeyValAssumption DEF Multiple

LEMMA OneStep == ASSUME PtrArrayMallocLen = 1, NEW n \in Nat PROVE Multiple(n)
BY DEF Multiple

-----------------------------------------------------------------------------
(* The arrays.                                                             *)

LEMMA WithoutType ==
  ASSUME NEW S, NEW s \in Seq(S), NEW i \in 1..Len(s)
  PROVE  Without(s, i) \in Seq(S) /\ Len(Without(s, i)) = Len(s) - 1
BY DEF Without

LEMMA WithoutSound ==
  ASSUME NEW S, NEW s \in Seq(S), NEW i \in 1..Len(s), Distinct(s), HoleLast(s)
  PROVE  Distinct(Without(s, i)) /\ HoleLast(Without(s, i))
BY WithoutType DEF Without, Distinct, HoleLast

LEMMA TypeAdd ==
  ASSUME KeyValInv, NEW k \in KeyWords, NEW v \in Values, addKeyVal(k, v)
  PROVE  KeyValTypeOK'
<1>1. CASE \E i \in Usable(k) : /\ keyWord' = [keyWord EXCEPT ![i] = k]
                             /\ value' = [value EXCEPT ![i] = v]
                             /\ UNCHANGED room
  BY <1>1 DEF KeyValInv, KeyValTypeOK, Usable, len
<1>2. CASE /\ keyWord' = Append(keyWord, k) /\ value' = Append(value, v)
           /\ room' = Grown(len, room)
  BY <1>2, KeyValAssumption DEF KeyValInv, KeyValTypeOK, Grown, len
<1> QED BY <1>1, <1>2 DEF addKeyVal

LEMMA KeysAdd ==
  ASSUME KeyValInv, NEW k \in KeyWords, NEW v \in Values, addKeyVal(k, v)
  PROVE  KeysDistinct'
<1> USE DEF KeyValInv, KeyValTypeOK, KeyValSound, KeysDistinct, Distinct, HoleLast, Usable, len
<1>1. ASSUME NEW i \in Usable(k), \A j \in Usable(k) : i <= j, keyWord' = [keyWord EXCEPT ![i] = k]
      PROVE  KeysDistinct'
  <2>1. keyWord[i] = Hole => i = Len(keyWord)
    OBVIOUS
  <2>2. \A j \in 1..Len(keyWord) : keyWord[j] = k => j = i
    BY <1>1, <2>1
  <2> QED BY <1>1, <2>1, <2>2
<1>2. CASE Usable(k) = {} /\ keyWord' = Append(keyWord, k)
  <2>1. \A j \in 1..Len(keyWord) : keyWord[j] # k /\ keyWord[j] # Hole
    BY <1>2
  <2> QED BY <1>2, <2>1
<1> QED BY <1>1, <1>2 DEF addKeyVal

LEMMA RoomAdd ==
  ASSUME KeyValInv, NEW k \in KeyWords, NEW v \in Values, addKeyVal(k, v)
  PROVE  SlotsEnough' /\ Multiple(room)'
<1> USE KeyValAssumption DEF KeyValInv, KeyValTypeOK, KeyValSound, SlotsEnough, len
<1>1. CASE \E i \in Usable(k) : keyWord' = [keyWord EXCEPT ![i] = k] /\ UNCHANGED room
  <2>1. Len(keyWord') = Len(keyWord) /\ room' = room
    BY <1>1 DEF Usable
  <2> QED BY <2>1 DEF Multiple
<1>2. CASE keyWord' = Append(keyWord, k) /\ room' = Grown(len, room)
  <2>1. Len(keyWord') = Len(keyWord) + 1
    BY <1>2
  <2>2. CASE Multiple(Len(keyWord))
    <3>1. room' = Len(keyWord) + PtrArrayMallocLen
      BY <1>2, <2>2 DEF Grown, Multiple
    <3>2. Multiple(room)'
      BY <2>2, <3>1, NextMultiple DEF Multiple
    <3>3. PtrArrayMallocLen = 1 => Multiple(Len(keyWord) + 1)
      BY OneStep
    <3> QED BY <2>1, <3>1, <3>2, <3>3 DEF Multiple
  <2>3. CASE ~Multiple(Len(keyWord))
    <3>1. room' = room /\ Len(keyWord) < room
      BY <1>2, <2>3 DEF Grown, Multiple
    <3>2. Len(keyWord) + 1 = room => Multiple(Len(keyWord) + 1)
      OBVIOUS
    <3> QED BY <2>1, <3>1, <3>2 DEF Multiple
  <2> QED BY <2>2, <2>3
<1> QED BY <1>1, <1>2 DEF addKeyVal

LEMMA StepRemove ==
  ASSUME KeyValInv, NEW k \in KeyWords, rmKeyVal(k)
  PROVE  KeyValInv'
<1> USE DEF KeyValInv, KeyValTypeOK, KeyValSound, SlotsEnough, KeysDistinct, len
<1>1. PICK i \in 1..Len(keyWord) : /\ keyWord' = Without(keyWord, i)
                                  /\ value' = Without(value, i)
                                  /\ room' = RoomLeft(Len(keyWord) - 1, room)
  BY DEF rmKeyVal, FirstWith
<1>2. KeyValTypeOK' /\ Len(keyWord') = Len(keyWord) - 1
  BY <1>1, WithoutType DEF RoomLeft
<1>3. KeysDistinct'
  BY <1>1, WithoutSound
<1>4. SlotsEnough' /\ Multiple(room)'
  BY <1>1, <1>2, ZeroIsMultiple DEF RoomLeft, Multiple
<1> QED BY <1>2, <1>3, <1>4

LEMMA StepClear == ASSUME clearKeyVal PROVE KeyValInv'
BY ZeroIsMultiple
   DEF clearKeyVal, KeyValInv, KeyValTypeOK, KeyValSound, SlotsEnough, KeysDistinct, Distinct, HoleLast,
       Multiple, len

LEMMA KeyValInitial == ASSUME KeyValInit PROVE KeyValInv
<1>1. keyWord \in Seq(KeyWords) /\ value \in Seq(Values) /\ Len(keyWord) = 0 /\ Len(value) = 0
  BY DEF KeyValInit
<1>2. Distinct(keyWord) /\ HoleLast(keyWord)
  BY <1>1 DEF Distinct, HoleLast
<1>3. SlotsEnough
  BY <1>1, ZeroIsMultiple DEF KeyValInit, SlotsEnough, Multiple, len
<1>4. KeyValTypeOK
  BY <1>1 DEF KeyValInit, KeyValTypeOK, len
<1> QED BY <1>2, <1>3, <1>4, ZeroIsMultiple DEF KeyValInit, KeyValInv, KeyValSound, KeysDistinct, Multiple

LEMMA StepReceived ==
  ASSUME KeyValInv, NEW b \in Arrays, Received(b.keyWord, b.value)
  PROVE  KeyValInv'
BY KeyValAssumption
   DEF Arrays, Received, KeyValInv, KeyValTypeOK, KeyValSound, SlotsEnough, KeysDistinct, Multiple, len

LEMMA KeyValInvariant ==
  ASSUME NEW batches \in SUBSET Arrays
  PROVE  KeyValSpec(batches) => []KeyValInv
<1>1. KeyValInit => KeyValInv
  BY KeyValInitial
<1>2. KeyValInv /\ [KeyValNext(batches)]_keyValVars => KeyValInv'
  <2> SUFFICES ASSUME KeyValInv, [KeyValNext(batches)]_keyValVars PROVE KeyValInv'
    OBVIOUS
  <2>1. ASSUME NEW k \in KeyWords, NEW v \in Values, addKeyVal(k, v) PROVE KeyValInv'
    BY <2>1, TypeAdd, KeysAdd, RoomAdd DEF KeyValInv, KeyValSound
  <2>2. ASSUME NEW k \in KeyWords, rmKeyVal(k) PROVE KeyValInv'
    BY <2>2, StepRemove
  <2>3. CASE clearKeyVal
    BY <2>3, StepClear
  <2>4. ASSUME NEW b \in batches, Received(b.keyWord, b.value) PROVE KeyValInv'
    BY <2>4, StepReceived
  <2>5. CASE UNCHANGED keyValVars
    BY <2>5 DEF keyValVars, KeyValInv, KeyValTypeOK, KeyValSound, SlotsEnough, KeysDistinct, Multiple, len
  <2> QED BY <2>1, <2>2, <2>3, <2>4, <2>5 DEF KeyValNext
<1> QED BY <1>1, <1>2, PTL DEF KeyValSpec

-----------------------------------------------------------------------------
(* The map of the keywords.                                                *)

Has(s, k) == \E i \in 1..Len(s) : s[i] = k
LookUp(s, v, k) ==
  LET first == {i \in 1..Len(s) : s[i] = k /\ \A j \in 1..i - 1 : s[j] # k}
  IN IF first = {} THEN NoValue ELSE v[CHOOSE i \in first : TRUE]

LEMMA LookUpIs ==
  ASSUME NEW k
  PROVE  /\ getValByKey(k) = LookUp(keyWord, value, k)
         /\ getValByKey(k)' = LookUp(keyWord', value', k)
BY DEF getValByKey, LookUp, FirstWith, len

LEMMA LookUpNone ==
  ASSUME NEW s \in Seq(KeyWords), NEW v, NEW k, ~Has(s, k)
  PROVE  LookUp(s, v, k) = NoValue
BY DEF Has, LookUp

LEMMA LookUpAt ==
  ASSUME NEW s \in Seq(KeyWords), Distinct(s), NEW v, NEW i \in 1..Len(s)
  PROVE  LookUp(s, v, s[i]) = v[i]
<1> DEFINE first == {j \in 1..Len(s) : s[j] = s[i] /\ \A l \in 1..j - 1 : s[l] # s[i]}
<1>1. first = {i}
  BY DEF Distinct
<1>2. (CHOOSE j \in first : TRUE) = i
  BY <1>1
<1> HIDE DEF first
<1>3. LookUp(s, v, s[i]) = IF first = {} THEN NoValue ELSE v[CHOOSE j \in first : TRUE]
  BY DEF LookUp, first
<1> QED BY <1>1, <1>2, <1>3

Words == KeyWords \ {Hole}
map == [k \in Words |-> getValByKey(k)]

(* A keyword that both arrays have with the same value, or neither has.    *)
LEMMA LookUpSame ==
  ASSUME NEW s \in Seq(KeyWords), NEW t \in Seq(KeyWords), Distinct(s), Distinct(t),
         NEW v, NEW u, NEW w,
         \A i \in 1..Len(s) : s[i] = w => \E j \in 1..Len(t) : t[j] = w /\ u[j] = v[i],
         Has(t, w) => Has(s, w)
  PROVE  LookUp(t, u, w) = LookUp(s, v, w)
<1>1. CASE Has(s, w)
  <2>1. PICK i \in 1..Len(s) : s[i] = w
    BY <1>1 DEF Has
  <2>2. PICK j \in 1..Len(t) : t[j] = w /\ u[j] = v[i]
    BY <2>1
  <2>3. LookUp(s, v, w) = v[i] /\ LookUp(t, u, w) = u[j]
    BY <2>1, <2>2, LookUpAt
  <2> QED BY <2>2, <2>3
<1>2. CASE ~Has(s, w)
  BY <1>2, LookUpNone
<1> QED BY <1>1, <1>2

(* What a step does to the looked-up values is what it does to the map.    *)
LEMMA MapOf ==
  /\ map = [k \in Words |-> LookUp(keyWord, value, k)]
  /\ map' = [k \in Words |-> LookUp(keyWord', value', k)]
BY LookUpIs DEF map, Words

LEMMA MapChanges ==
  ASSUME NEW k \in KeyWords, NEW x, LookUp(keyWord', value', k) = x,
         \A w \in Words \ {k} : LookUp(keyWord', value', w) = LookUp(keyWord, value, w)
  PROVE  IF k = Hole THEN UNCHANGED map ELSE map' = [map EXCEPT ![k] = x]
<1> DEFINE old == [w \in Words |-> LookUp(keyWord, value, w)]
           new == [w \in Words |-> LookUp(keyWord', value', w)]
<1>1. k = Hole => new = old
  BY DEF Words
<1>2. k # Hole => new = [old EXCEPT ![k] = x]
  BY DEF Words
<1> QED BY <1>1, <1>2, MapOf

LEMMA AddIsPut ==
  ASSUME KeyValInv, KeyValInv', NEW k \in KeyWords, NEW v \in Values, addKeyVal(k, v)
  PROVE  IF k = Hole THEN UNCHANGED map ELSE map' = [map EXCEPT ![k] = v]
<1> USE DEF KeyValInv, KeyValTypeOK, KeyValSound, KeysDistinct, len
<1>1. /\ \E i \in 1..Len(keyWord') : keyWord'[i] = k /\ value'[i] = v
      /\ \A w \in Words \ {k} :
           /\ \A i \in 1..Len(keyWord) :
                keyWord[i] = w => \E j \in 1..Len(keyWord') : keyWord'[j] = w /\ value'[j] = value[i]
           /\ Has(keyWord', w) => Has(keyWord, w)
  <2>1. ASSUME NEW i \in Usable(k),
               keyWord' = [keyWord EXCEPT ![i] = k], value' = [value EXCEPT ![i] = v]
        PROVE  <1>1
    BY <2>1 DEF Usable, Has, Words
  <2>2. CASE keyWord' = Append(keyWord, k) /\ value' = Append(value, v)
    <3>1. keyWord'[Len(keyWord) + 1] = k /\ value'[Len(keyWord) + 1] = v
      BY <2>2
    <3>2. \A i \in 1..Len(keyWord) : keyWord'[i] = keyWord[i] /\ value'[i] = value[i]
      BY <2>2
    <3>3. Len(keyWord') = Len(keyWord) + 1
      BY <2>2
    <3> QED BY <3>1, <3>2, <3>3 DEF Has, Words
  <2> QED BY <2>1, <2>2 DEF addKeyVal
<1>2. LookUp(keyWord', value', k) = v
  BY <1>1, LookUpAt
<1>3. \A w \in Words \ {k} : LookUp(keyWord', value', w) = LookUp(keyWord, value, w)
  BY <1>1, LookUpSame
<1> QED BY <1>2, <1>3, MapChanges

LEMMA RemoveIsTake ==
  ASSUME KeyValInv, KeyValInv', NEW k \in KeyWords, rmKeyVal(k)
  PROVE  IF k = Hole THEN UNCHANGED map ELSE map' = [map EXCEPT ![k] = NoValue]
<1> USE DEF KeyValInv, KeyValTypeOK, KeyValSound, KeysDistinct, len
<1>1. PICK i \in 1..Len(keyWord) :
        keyWord[i] = k /\ keyWord' = Without(keyWord, i) /\ value' = Without(value, i)
  BY DEF rmKeyVal, FirstWith
<1>2. /\ Len(keyWord') = Len(keyWord) - 1
      /\ \A j \in 1..Len(keyWord) - 1 :
           /\ keyWord'[j] = IF j < i THEN keyWord[j] ELSE keyWord[j + 1]
           /\ value'[j] = IF j < i THEN value[j] ELSE value[j + 1]
  BY <1>1 DEF Without
<1>3. ~Has(keyWord', k)
  <2> SUFFICES ASSUME NEW j \in 1..Len(keyWord'), keyWord'[j] = k PROVE FALSE
    BY DEF Has
  <2>1. CASE j < i
    <3>1. j \in 1..Len(keyWord) /\ j # i /\ keyWord[j] = k
      BY <2>1, <1>2
    <3> QED BY <3>1, <1>1 DEF Distinct
  <2>2. CASE ~(j < i)
    <3>1. j + 1 \in 1..Len(keyWord) /\ j + 1 # i /\ keyWord[j + 1] = k
      BY <2>2, <1>2
    <3> QED BY <3>1, <1>1 DEF Distinct
  <2> QED BY <2>1, <2>2
<1>4. ASSUME NEW w \in Words \ {k} PROVE LookUp(keyWord', value', w) = LookUp(keyWord, value, w)
  <2>1. ASSUME NEW j \in 1..Len(keyWord), keyWord[j] = w
        PROVE  \E l \in 1..Len(keyWord') : keyWord'[l] = w /\ value'[l] = value[j]
    <3>1. CASE j < i
      <4>1. j \in 1..Len(keyWord') /\ j \in 1..Len(keyWord) - 1
        BY <3>1, <1>2
      <4>2. keyWord'[j] = w /\ value'[j] = value[j]
        BY <2>1, <3>1, <4>1, <1>2
      <4> QED BY <4>1, <4>2
    <3>2. CASE j > i
      <4>1. /\ j - 1 \in 1..Len(keyWord') /\ j - 1 \in 1..Len(keyWord) - 1
            /\ ~(j - 1 < i) /\ (j - 1) + 1 = j
        BY <3>2, <1>2
      <4>2. keyWord'[j - 1] = w /\ value'[j - 1] = value[j]
        BY <2>1, <4>1, <1>2
      <4> QED BY <4>1, <4>2
    <3> QED BY <1>1, <1>4, <2>1, <3>1, <3>2
  <2>2. Has(keyWord', w) => Has(keyWord, w)
    <3>1. ASSUME NEW j \in 1..Len(keyWord'), keyWord'[j] = w
          PROVE  \E l \in 1..Len(keyWord) : keyWord[l] = w
      <4>1. CASE j < i
        <5>1. j \in 1..Len(keyWord) /\ keyWord[j] = w
          BY <1>2, <3>1, <4>1
        <5> QED BY <5>1
      <4>2. CASE ~(j < i)
        <5>1. j + 1 \in 1..Len(keyWord) /\ keyWord[j + 1] = w
          BY <1>2, <3>1, <4>2
        <5> QED BY <5>1
      <4> QED BY <4>1, <4>2
    <3> QED BY <3>1 DEF Has
  <2> QED BY <2>1, <2>2, LookUpSame
<1>5. LookUp(keyWord', value', k) = NoValue
  BY <1>3, LookUpNone
<1> QED BY <1>4, <1>5, MapChanges

LEMMA NothingIsEmpty ==
  ASSUME NEW v
  PROVE  [k \in Words |-> LookUp(<< >>, v, k)] = KeyMap!Empty
<1>1. << >> \in Seq(KeyWords) /\ Len(<< >>) = 0
  OBVIOUS
<1>2. \A k : ~Has(<< >>, k)
  BY <1>1 DEF Has
<1>3. \A k \in Words : LookUp(<< >>, v, k) = NoValue
  BY <1>1, <1>2, LookUpNone
<1> QED BY <1>3 DEF KeyMap!Empty, Words

LEMMA ReceivedIsReceive ==
  ASSUME KeyValInv, KeyValInv', NEW b \in Arrays, Received(b.keyWord, b.value)
  PROVE  map = KeyMap!Empty /\ map' \in [Words -> Values \cup {NoValue}]
<1> USE DEF KeyValInv, KeyValTypeOK, KeyValSound, KeysDistinct, len
<1>1. map = KeyMap!Empty
  BY MapOf, NothingIsEmpty DEF Received
<1>2. ASSUME NEW k \in Words PROVE LookUp(keyWord', value', k) \in Values \cup {NoValue}
  <2>1. CASE ~Has(keyWord', k)
    BY <2>1, LookUpNone
  <2>2. CASE Has(keyWord', k)
    <3>1. PICK i \in 1..Len(keyWord') : keyWord'[i] = k
      BY <2>2 DEF Has
    <3>2. LookUp(keyWord', value', k) = value'[i]
      BY <3>1, LookUpAt
    <3> QED BY <3>2
  <2> QED BY <2>1, <2>2
<1> QED BY <1>1, <1>2, MapOf

LEMMA StepIsMapStep ==
  ASSUME NEW batches \in SUBSET Arrays, KeyValInv, KeyValInv', [KeyValNext(batches)]_keyValVars
  PROVE  [KeyMap!Next]_map
<1> USE DEF KeyMap!Next
<1>1. ASSUME NEW k \in KeyWords, NEW v \in Values, addKeyVal(k, v) PROVE [KeyMap!Next]_map
  BY <1>1, AddIsPut DEF KeyMap!Put, map, Words
<1>2. ASSUME NEW k \in KeyWords, rmKeyVal(k) PROVE [KeyMap!Next]_map
  BY <1>2, RemoveIsTake DEF KeyMap!Take, map, Words
<1>3. CASE clearKeyVal
  <2>1. map' = KeyMap!Empty
    BY <1>3, MapOf, NothingIsEmpty DEF clearKeyVal
  <2> QED BY <2>1 DEF KeyMap!Clear, map, Words
<1>4. ASSUME NEW b \in batches, Received(b.keyWord, b.value) PROVE [KeyMap!Next]_map
  BY <1>4, ReceivedIsReceive DEF KeyMap!Receive, map, Words
<1>5. CASE UNCHANGED keyValVars
  BY <1>5, MapOf DEF keyValVars
<1> QED BY <1>1, <1>2, <1>3, <1>4, <1>5 DEF KeyValNext

(* The arrays keep their types (addKeyVal, rmKeyVal, clearKeyVal).         *)
THEOREM KeyValType ==
  ASSUME NEW batches \in SUBSET Arrays
  PROVE  KeyValSpec(batches) => []KeyValTypeOK
BY KeyValInvariant, PTL DEF KeyValInv

(* addKeyVal never writes beyond the room, for any PTR_ARRAY_MALLOC_LEN,   *)
(* through removals and arrays from a server; and no keyword has two slots. *)
THEOREM KeyValIsSound ==
  ASSUME NEW batches \in SUBSET Arrays
  PROVE  KeyValSpec(batches) => []KeyValSound
BY KeyValInvariant, PTL DEF KeyValInv

(* A keyValPair_t is a map of the keywords (KeyMap): a step changes the    *)
(* value of one keyword, or clears them, and never brings back a value     *)
(* that was replaced.                                                      *)
THEOREM KeyValIsMap ==
  ASSUME NEW batches \in SUBSET Arrays
  PROVE  KeyValSpec(batches) => IsKeyMap
<1>1. KeyValInit => map = KeyMap!Empty
  BY MapOf, NothingIsEmpty DEF KeyValInit
<1>2. KeyValInv /\ KeyValInv' /\ [KeyValNext(batches)]_keyValVars => [KeyMap!Next]_map
  BY StepIsMapStep
<1> QED BY <1>1, <1>2, KeyValInvariant, PTL DEF KeyValSpec, IsKeyMap, KeyMap!Spec, KeyMap!Init, map, Words
=============================================================================
