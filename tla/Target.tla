-------------------------------- MODULE Target --------------------------------
(***************************************************************************)
(* resolveRodsTarget: where each source of a copy, move or synchronisation *)
(* goes, and the collections that are made for it on the way, one source   *)
(* after the other until one is refused.                                   *)
(*                                                                         *)
(* A path is a sequence of names.  The world the destination is in, the    *)
(* server's name space or the local disk, is the set of its directories    *)
(* and the set of its files.                                               *)
(***************************************************************************)
EXTENDS Naturals, Sequences, SequencesExt

CONSTANTS
  Names,      \* the names a path is made of
  PathInps    \* what resolveRodsTarget may be called with

WalkStatuses == {"ok", "error", "USER_INPUT_PATH_ERR", "USER_FILE_DOES_NOT_EXIST"}
OprTypes == {"MOVE_OPR", "RSYNC_OPR", "other"}
ObjStates == {"UNKNOWN_ST", "NOT_EXIST_ST", "EXIST_ST"}
RemoteTypes == {"UNKNOWN_OBJ_T", "DATA_OBJ_T", "COLL_OBJ_T"}
FileTypes == {"DATA_OBJ_T", "LOCAL_FILE_T"}
DirTypes == {"COLL_OBJ_T", "LOCAL_DIR_T"}
ObjTypes == RemoteTypes \cup FileTypes \cup DirTypes \cup {"UNKNOWN_FILE_T"}
Remote(path) == path.objType \in RemoteTypes

Path == Seq(Names)
Element == Names \cup {""}
World == [dirs : SUBSET Path, files : SUBSET Path]
Source == [objType : ObjTypes, objState : ObjStates, element : Element]
Dest == [objType : ObjTypes, objState : ObjStates, outPath : Path, element : Element]
RodsPathInp == [src : Seq(Source), dest : Dest, opr : OprTypes, world : World]
DirThere(world, path) ==
  path.objState = "EXIST_ST" /\ path.objType \in DirTypes => path.outPath \in world.dirs

\* What the parser of the paths found out about the destination is so.
ASSUME PathInpsAssumption ==
  \A r \in PathInps : r \in RodsPathInp /\ DirThere(r.world, r.dest)

VARIABLES
  rodsPathInp,   \* the sources and the destination, the operation and the world it meets
  srcInx,        \* sources that were looked at
  resolved       \* the status, the destination, the targets and the world by now

targetVars == <<rodsPathInp, srcInx, resolved>>

\* rcObjStat: whatever there is, unless something else is expected.
getRodsObjType(world, path) ==
  LET found == IF path.outPath \in world.dirs THEN "COLL_OBJ_T"
               ELSE IF path.outPath \in world.files THEN "DATA_OBJ_T" ELSE "UNKNOWN_OBJ_T"
  IN IF found = "UNKNOWN_OBJ_T" \/ (path.objType \in {"DATA_OBJ_T", "COLL_OBJ_T"}
                                    /\ path.objType # found)
     THEN [path EXCEPT !.objState = "NOT_EXIST_ST"]
     ELSE [path EXCEPT !.objState = "EXIST_ST", !.objType = found]

\* Operators with a fault in their name are variants with that fault.

\* mkColl and mkdir of a path whose parent is there; what is there already is
\* taken for a success, by mkColl a collection only, by mkdir with EEXIST, where
\* that is looked at, a file as well.
ParentOf(path) == SubSeq(path, 1, Len(path) - 1)
MakeDir(s, path, allowed) ==
  LET made == path \notin s.world.dirs \cup s.world.files /\ ParentOf(path) \in s.world.dirs
  IN IF made THEN [s EXCEPT !.world.dirs = @ \cup {path}]
     ELSE IF path \in allowed THEN s ELSE [s EXCEPT !.status = "error"]
mkColl(s, path) == MakeDir(s, path, s.world.dirs)
mkdir(s, path) == MakeDir(s, path, {})
mkdirOrEexist(s, path) == MakeDir(s, path, s.world.dirs \cup s.world.files)

Goes(s, src, objType, outPath, objState) ==
  [s EXCEPT !.targs = Append(@, [src |-> src, objType |-> objType, outPath |-> outPath,
                                 objState |-> objState])]
Refused(s, status) == [s EXCEPT !.status = status]

InsideOne(dest, element) == dest.outPath
Inside(dest, element) == IF element = "" THEN dest.outPath ELSE Append(dest.outPath, element)

\* A data object or a local file.
FileTarget(s, src, numSrc) ==
  LET dest == s.dest
      type == IF Remote(dest) THEN "DATA_OBJ_T" ELSE "LOCAL_FILE_T"
  IN IF dest.objType \in DirTypes /\ dest.objState = "EXIST_ST"
     THEN Goes(s, src, type, Inside(dest, src.element), "UNKNOWN_ST")
     ELSE IF dest.objType \in FileTypes \/ numSrc = 1
     THEN Goes(s, src, type, dest.outPath, dest.objState)
     ELSE Refused(s, "USER_FILE_DOES_NOT_EXIST")

\* A collection or a local directory.  What a move needs is made by the move.
Makes(s, oprType) == oprType # "MOVE_OPR"

\* Issue 3997: the destination of several sources is made.
MadeForAll(s, oprType, numSrc) ==
  IF s.dest.objState # "EXIST_ST" /\ Remote(s.dest) /\ numSrc # 1 /\ Makes(s, oprType)
  THEN LET made == mkColl(s, s.dest.outPath)
       IN IF made.status # "ok" THEN made
          ELSE [made EXCEPT !.dest = getRodsObjType(made.world, @)]
  ELSE s

\* Below a destination that exists.
BelowTarget(s, src, oprType, numSrc, type) ==
  LET same == \/ src.element = ""
              \/ numSrc = 1 /\ oprType = "RSYNC_OPR" /\ s.dest.element # ""
      outPath == IF same THEN s.dest.outPath ELSE Append(s.dest.outPath, src.element)
      made == IF same THEN s
              ELSE IF ~Remote(s.dest) THEN mkdirOrEexist(s, outPath)
              ELSE IF Makes(s, oprType) THEN mkColl(s, outPath) ELSE s
  IN IF made.status # "ok" THEN made ELSE Goes(made, src, type, outPath, "EXIST_ST")

\* The destination itself, which is made.
NewTarget(s, src, oprType, numSrc, type) ==
  LET made == IF ~Remote(s.dest) THEN mkdir(s, s.dest.outPath)
              ELSE IF Makes(s, oprType) THEN mkColl(s, s.dest.outPath) ELSE s
  IN IF made.status # "ok" THEN made
     ELSE IF numSrc # 1 THEN Refused(made, "USER_FILE_DOES_NOT_EXIST")
     ELSE Goes(made, src, type, s.dest.outPath, "EXIST_ST")

DirTarget(s0, src, oprType, numSrc) ==
  LET type == IF Remote(s0.dest) THEN "COLL_OBJ_T" ELSE "LOCAL_DIR_T"
      s == MadeForAll(s0, oprType, numSrc)
  IN IF s0.dest.objType \in FileTypes THEN Refused(s0, "USER_INPUT_PATH_ERR")
     ELSE IF s.status # "ok" THEN s
     ELSE IF s.dest.objType \in DirTypes /\ s.dest.objState = "EXIST_ST"
     THEN BelowTarget(s, src, oprType, numSrc, type)
     ELSE NewTarget(s, src, oprType, numSrc, type)

\* One source.  "-" is the standard output, of data objects only.
TargetOf(s, src, oprType, numSrc) ==
  IF src.objState = "NOT_EXIST_ST" THEN Refused(s, "USER_INPUT_PATH_ERR")
  ELSE IF ~Remote(s.dest) /\ s.dest.outPath = <<"-">>
  THEN IF src.objType = "DATA_OBJ_T"
       THEN Goes(s, src, "LOCAL_FILE_T", <<"-">>, s.dest.objState)
       ELSE Refused(s, "USER_INPUT_PATH_ERR")
  ELSE IF src.objType \in FileTypes THEN FileTarget(s, src, numSrc)
  ELSE IF src.objType \in DirTypes THEN DirTarget(s, src, oprType, numSrc)
  ELSE Refused(s, "USER_INPUT_PATH_ERR")

-----------------------------------------------------------------------------
numSrc(inp) == Len(inp.src)

TargetInit ==
  /\ rodsPathInp \in PathInps
  /\ srcInx = 0
  /\ LET dest == rodsPathInp.dest
         world == rodsPathInp.world
     IN resolved = [status |-> "ok", targs |-> << >>, world |-> world,
                    dest |-> IF dest.objState = "UNKNOWN_ST" THEN getRodsObjType(world, dest)
                             ELSE dest]

\* The next source, unless one was refused.
resolveRodsTarget ==
  /\ resolved.status = "ok" /\ srcInx < numSrc(rodsPathInp)
  /\ srcInx' = srcInx + 1
  /\ resolved' = TargetOf(resolved, rodsPathInp.src[srcInx'], rodsPathInp.opr, numSrc(rodsPathInp))
  /\ UNCHANGED rodsPathInp

TargetSpec == TargetInit /\ [][resolveRodsTarget]_targetVars

-----------------------------------------------------------------------------
(* Every variable keeps its type.                                          *)
Targ == [src : Source, objType : ObjTypes, outPath : Path, objState : ObjStates]
Walk == [status : WalkStatuses, dest : Dest, targs : Seq(Targ), world : World]
TargetTypeOK == /\ rodsPathInp \in RodsPathInp
                /\ srcInx \in 0 .. numSrc(rodsPathInp)
                /\ resolved \in Walk

(* Sources whose last names differ do not overwrite each other, unless     *)
(* several files are sent to one file, which nobody refuses.               *)
TargetsApart == resolved.status = "ok" =>
  \A i, j \in DOMAIN resolved.targs :
      rodsPathInp.src[i].element # rodsPathInp.src[j].element
        /\ resolved.dest.objType \notin FileTypes /\ resolved.dest.outPath # <<"-">> =>
      resolved.targs[i].outPath # resolved.targs[j].outPath

(* A target that is a directory is there, once resolveRodsTarget says so,  *)
(* except for a move, which makes it, and where a local file has its name. *)
TargetMade == resolved.status = "ok" =>
  \A i \in DOMAIN resolved.targs :
      rodsPathInp.src[i].objType \in DirTypes /\ rodsPathInp.opr # "MOVE_OPR" =>
        \/ resolved.targs[i].outPath \in resolved.world.dirs
        \/ ~Remote(resolved.dest) /\ resolved.targs[i].outPath \in rodsPathInp.world.files

(* "MOVE_OPR - do not create the target coll or dir because rename will    *)
(* take care of it."                                                       *)
MoveMakesNothing ==
  rodsPathInp.opr = "MOVE_OPR" /\ Remote(resolved.dest) => resolved.world = rodsPathInp.world

(* resolveRodsTarget: every source has its target, targets do not collide, *)
(* directories are there when it says so, and nothing is made for a move.  *)
TargetsSound ==
  /\ resolved.status = "ok" => Len(resolved.targs) = srcInx
  /\ TargetsApart /\ TargetMade /\ MoveMakesNothing
=============================================================================
