-------------------------------- MODULE MkTree -------------------------------
(***************************************************************************)
(* Making and removing a path of directories while others do the same:     *)
(* mkCollR in the server's name space, mkdirR and rmdirR on the local      *)
(* disk.  mkCollR and mkdirR go backward until something exists and then   *)
(* forward making what is missing; between any two calls another process   *)
(* may make or remove a part of the same path.  Where a walk may begin is  *)
(* given as a path too, of which the code takes the length only; paths are *)
(* absolute and "/" is the path without names.                             *)
(***************************************************************************)
EXTENDS Integers, Sequences

CONSTANTS
  Makers,     \* the processes
  Tasks,      \* what they may have to do together: Makers -> [op, start, dest];
              \* start: how many names of dest startColl or startDir has, 0 for "/"
  Trees       \* the name spaces to start from: [colls, objs], sets of paths

\* mkCollR works in the server's name space, the other two on the local disk:
\* they do not meet.
ASSUME TasksAssumption ==
  \A t \in Tasks :
    /\ \A p \in Makers : t[p].dest \in Seq(STRING) /\ t[p].start \in 0..Len(t[p].dest)
    /\ \/ \A p \in Makers : t[p].op = "mkCollR"
       \/ \A p \in Makers : t[p].op \in {"mkdirR", "rmdirR"}

Parent(path) == SubSeq(path, 1, Len(path) - 1)

\* A name space begins whole.
ASSUME TreesAssumption ==
  \A t \in Trees :
    /\ t.colls \subseteq Seq(STRING) /\ t.objs \subseteq Seq(STRING)
    /\ \A path \in t.colls \cup t.objs : Parent(path) = << >> \/ Parent(path) \in t.colls

VARIABLES
  task,       \* the tasks chosen
  before,     \* the directories there were in the beginning
  tree,       \* the collections, or directories, that exist: a set of paths
  objs,       \* the paths that are a data object, or a file
  at,         \* tmpLen: the length of the prefix each process is at
  walk,       \* "back", "forward" or "done"
  outcome     \* "none", "ok" or "error"

treeVars == <<task, before, tree, objs, at, walk, outcome>>

TreeTypeOK ==
  /\ task \in Tasks
  /\ \A p \in Makers : at[p] \in task[p].start..Len(task[p].dest)
  /\ walk \in [Makers -> {"back", "forward", "done"}]
  /\ outcome \in [Makers -> {"none", "ok", "error"}]

TreeInit ==
  /\ task \in Tasks
  /\ \E t \in Trees : before = t.colls /\ tree = t.colls /\ objs = t.objs
  /\ at = [p \in Makers |-> Len(task[p].dest)]
  /\ walk = [p \in Makers |-> "back"]
  /\ outcome = [p \in Makers |-> "none"]

\* The first n names of a process's path.
Upto(p, n) == SubSeq(task[p].dest, 1, n)
Exists(path) == path = << >> \/ path \in tree
Children(path) == {q \in tree \cup objs : Len(q) > 0 /\ Parent(q) = path}

End(p, result) ==
  /\ walk' = [walk EXCEPT ![p] = "done"]
  /\ outcome' = [outcome EXCEPT ![p] = result]

\* Operators with a fault in their name are variants with that fault.
\* mkCollR: getRodsObjType, told to look for a collection, may also fail and
\* finds nothing then.  mkdirR: boost's exists(), which takes a file as well.
Found(p) == IF task[p].op = "mkCollR" THEN Upto(p, at[p]) \in tree
            ELSE Upto(p, at[p]) \in tree \cup objs

Look(p) ==
  /\ task[p].op \in {"mkCollR", "mkdirR"} /\ walk[p] = "back" /\ at[p] > task[p].start
  /\ \/ /\ Found(p)
        /\ walk' = [walk EXCEPT ![p] = "forward"]
        /\ UNCHANGED at
     \/ /\ ~Found(p) \/ task[p].op = "mkCollR"
        /\ at' = [at EXCEPT ![p] = @ - 1]
        /\ UNCHANGED walk
  /\ UNCHANGED <<task, before, tree, objs, outcome>>

\* The start itself is not looked at.
AtStart(p) ==
  /\ task[p].op \in {"mkCollR", "mkdirR"} /\ walk[p] = "back" /\ at[p] = task[p].start
  /\ walk' = [walk EXCEPT ![p] = "forward"]
  /\ UNCHANGED <<task, before, tree, objs, at, outcome>>

\* mkColl takes CATALOG_ALREADY_HAS_ITEM_BY_THAT_NAME for a success, mkdirR
\* takes EEXIST for an error.
AlreadyIsSuccess(p) == task[p].op = "mkCollR"

\* The end of the name just made, which is looked for from tmpLen unless that is
\* 0: with nothing of the path before it, the first name is made again.
Past(n) == IF n = 0 THEN 0 ELSE n + 1

Make(p) ==
  LET path == Upto(p, at[p] + 1) IN
  /\ walk[p] = "forward" /\ at[p] < Len(task[p].dest)
  /\ \/ /\ path \in tree /\ AlreadyIsSuccess(p)
        /\ at' = [at EXCEPT ![p] = Past(@)]
        /\ UNCHANGED <<tree, walk, outcome>>
     \/ /\ \/ path \in objs
           \/ path \in tree /\ ~AlreadyIsSuccess(p)
           \/ ~Exists(Parent(path))
        /\ End(p, "error")
        /\ UNCHANGED <<tree, at>>
     \/ /\ path \notin tree \cup objs /\ Exists(Parent(path))
        /\ tree' = tree \cup {path}
        /\ at' = [at EXCEPT ![p] = Past(@)]
        /\ UNCHANGED <<walk, outcome>>
  /\ UNCHANGED <<task, before, objs>>

Made(p) ==
  /\ walk[p] = "forward" /\ at[p] = Len(task[p].dest)
  /\ End(p, "ok")
  /\ UNCHANGED <<task, before, tree, objs, at>>

\* rmdirR: the errors of rmdir are not looked at.
RmEvenFull(path) == path \in tree
CanRemove(path) == path \in tree /\ Children(path) = {}
RemoveDir(p) ==
  LET path == Upto(p, at[p]) IN
  /\ task[p].op = "rmdirR" /\ walk[p] = "back" /\ at[p] > task[p].start
  /\ tree' = IF CanRemove(path) THEN tree \ {path} ELSE tree
  /\ at' = [at EXCEPT ![p] = @ - 1]
  /\ UNCHANGED <<task, before, objs, walk, outcome>>
Removed(p) ==
  /\ task[p].op = "rmdirR" /\ walk[p] = "back" /\ at[p] = task[p].start
  /\ End(p, "ok")
  /\ UNCHANGED <<task, before, tree, objs, at>>

TreeStep(p) == Look(p) \/ AtStart(p) \/ Make(p) \/ Made(p) \/ RemoveDir(p) \/ Removed(p)
TreeNext == \E p \in Makers : TreeStep(p)
TreeSpec == TreeInit /\ [][TreeNext]_treeVars /\ \A p \in Makers : WF_treeVars(TreeStep(p))

-----------------------------------------------------------------------------
(* Properties.                                                             *)

\* Nothing ever stands in a directory that is not there.
TreeWhole == \A path \in tree \cup objs : Exists(Parent(path))

MakesPath(p) == task[p].op \in {"mkCollR", "mkdirR"}

\* Another process makes or removes directories that a process's path goes through.
Crosses(q, p) ==
  \E n \in 1..Len(task[p].dest) :
    n \in task[q].start + 1 .. Len(task[q].dest) /\ Upto(q, n) = Upto(p, n)
Crossing(p) == {q \in Makers \ {p} : task[q].op \in {"mkdirR", "rmdirR"} /\ Crosses(q, p)}
Removers(p) == {q \in Crossing(p) : task[q].op = "rmdirR"}

\* Who succeeds has a whole path, unless somebody removes directories of it.
MadeWhole == \A p \in Makers :
  outcome[p] = "ok" /\ MakesPath(p) /\ Removers(p) = {} =>
    \/ Exists(task[p].dest)
    \/ task[p].op = "mkdirR" /\ task[p].dest \in objs   \* a file by that name will do
    \/ task[p].start = Len(task[p].dest)                \* nothing was asked for

\* The start, which nobody looks for, was not there; the first name of the path
\* was not, and is made twice.
StartMissing(p) == task[p].start > 0 /\ Upto(p, task[p].start) \notin before
FirstMissing(p) == task[p].start = 0 /\ Upto(p, 1) \notin before

\* Somebody else making the same path, or rcObjStat failing, does not make
\* mkCollR fail: only a data object in the way does, or a start that was not
\* there.  mkdirR fails for more: when a process whose path crosses its own was
\* faster, and when it had to make the first name of the path.
FailsForCause == \A p \in Makers :
  outcome[p] = "error" =>
    \/ \E n \in 1..Len(task[p].dest) : Upto(p, n) \in objs
    \/ StartMissing(p)
    \/ task[p].op = "mkdirR" /\ (FirstMissing(p) \/ Crossing(p) # {})

\* The three together: however processes make and remove the same directories,
\* none is left without its parent, success means a path that was made whole,
\* and an error has a cause: another process on the same path, an object in the
\* way, a start that was missing, or the first name made twice.
TreesSound == TreeWhole /\ MadeWhole /\ FailsForCause

\* mkCollR at the first name of its path: mkColl succeeds, for the collection is
\* there, and it makes the same one again.
Repeats(p) == task[p].op = "mkCollR" /\ walk[p] = "forward" /\ at[p] = 0 /\ Upto(p, 1) \in tree

\* Every process ends, but for a mkCollR that has to make, or could not find, the
\* first name of its path.
EveryoneDoneOrRepeats == <>(\A p \in Makers : walk[p] = "done" \/ Repeats(p))

\* "mk the directory recursively": every process ends.  It is not so: TLC refutes
\* it with a mkCollR from "/" to a collection whose first name is missing.
EveryoneDone == <>(\A p \in Makers : walk[p] = "done")
=============================================================================
