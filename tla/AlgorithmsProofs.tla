-------------------------- MODULE AlgorithmsProofs --------------------------
(***************************************************************************)
(* Theorems about Target, for any sources, destination and name space,     *)
(* about PwCode, for any passwords, keys, hashes and times, and about      *)
(* Base64, for any bytes, room and line breaks.                            *)
(***************************************************************************)
EXTENDS Target, PwCode, Base64, Induction, SequenceTheorems, TLAPS

-----------------------------------------------------------------------------
(* The targets: what one source changes.                                   *)

\* The world only grows, and for a move of remote paths it does not; the
\* destination keeps its path and its side, and never stops to be a file.
Kept(s, t, oprType) ==
  /\ t \in Walk /\ DirThere(t.world, t.dest)
  /\ t.dest.outPath = s.dest.outPath
  /\ Remote(t.dest) <=> Remote(s.dest)
  /\ s.dest.objType \in FileTypes => t.dest.objType \in FileTypes
  /\ s.world.dirs \subseteq t.world.dirs /\ t.world.files = s.world.files
  /\ oprType = "MOVE_OPR" /\ Remote(s.dest) => t.world = s.world

\* Where the target of a source is, when there are other sources.
Placed(dest, src, n, path) ==
  n # 1 /\ dest.objType \notin FileTypes /\ dest.outPath # <<"-">> =>
    path = Inside(dest, src.element)
\* A target that is a directory is there.
Stands(t, src, oprType, path) ==
  src.objType \in DirTypes /\ oprType # "MOVE_OPR" =>
    path \in t.world.dirs \/ (~Remote(t.dest) /\ path \in t.world.files)

\* From s to t by a source: it is refused, or has its target.
Sent(s, t, src, oprType, n) ==
  /\ Kept(s, t, oprType)
  /\ t.status # "ok" => t.targs = s.targs
  /\ t.status = "ok" =>
       \E g \in Targ : /\ t.targs = Append(s.targs, g)
                       /\ Placed(t.dest, src, n, g.outPath)
                       /\ Stands(t, src, oprType, g.outPath)

LEMMA KeptSelf ==
  ASSUME NEW s \in Walk, DirThere(s.world, s.dest), NEW oprType
  PROVE  Kept(s, s, oprType)
BY DEF Kept

LEMMA KeptTwice ==
  ASSUME NEW s, NEW t, NEW u, NEW oprType, Kept(s, t, oprType), Kept(t, u, oprType)
  PROVE  Kept(s, u, oprType)
BY DEF Kept

LEMMA RefusedSent ==
  ASSUME NEW s, NEW t, NEW src, NEW oprType, NEW n, NEW status \in WalkStatuses,
         Kept(s, t, oprType), t.targs = s.targs, status # "ok"
  PROVE  Sent(s, Refused(t, status), src, oprType, n)
<1> DEFINE u == Refused(t, status)
<1>1. u.status # "ok" /\ u.targs = s.targs
  BY DEF Refused, Kept, Walk
<1>2. Kept(s, u, oprType)
  BY DEF Refused, Kept, Walk
<1> QED BY <1>1, <1>2 DEF Sent

\* A source that goes to path once the world is that of t.
LEMMA GoesSent ==
  ASSUME NEW s, NEW t, NEW src \in Source, NEW oprType, NEW n,
         NEW objType \in ObjTypes, NEW path \in Path, NEW objState \in ObjStates,
         Kept(s, t, oprType), t.targs = s.targs, t.status = "ok",
         Placed(t.dest, src, n, path), Stands(t, src, oprType, path)
  PROVE  Sent(s, Goes(t, src, objType, path, objState), src, oprType, n)
<1> DEFINE g == [src |-> src, objType |-> objType, outPath |-> path, objState |-> objState]
           u == Goes(t, src, objType, path, objState)
<1>1. g \in Targ /\ g.outPath = path
  BY DEF Targ
<1>2. u = [t EXCEPT !.targs = Append(@, g)]
  BY DEF Goes
<1> HIDE DEF g, u
<1>3. t \in Walk
  BY DEF Kept
<1>4. /\ u \in Walk /\ u.status = t.status /\ u.dest = t.dest /\ u.world = t.world
      /\ u.targs = Append(s.targs, g)
  BY <1>1, <1>2, <1>3, AppendProperties DEF Walk, Kept
<1>5. Kept(s, u, oprType)
  BY <1>4 DEF Kept
<1>6. Placed(u.dest, src, n, g.outPath) /\ Stands(u, src, oprType, g.outPath)
  BY <1>1, <1>4 DEF Stands
<1> QED BY <1>1, <1>4, <1>5, <1>6 DEF Sent, u

LEMMA InsidePath ==
  ASSUME NEW dest \in Dest, NEW element \in Element
  PROVE  Inside(dest, element) \in Path
BY AppendProperties DEF Inside, Dest, Path, Element

\* mkColl and mkdir, of any path: it is there then, unless they failed.
LEMMA MakeDirKept ==
  ASSUME NEW s \in Walk, DirThere(s.world, s.dest), NEW path \in Path, NEW allowed,
         allowed \subseteq s.world.dirs \cup s.world.files,
         NEW oprType, oprType # "MOVE_OPR" \/ ~Remote(s.dest), s.status = "ok"
  PROVE  LET t == MakeDir(s, path, allowed)
         IN  /\ Kept(s, t, oprType)
             /\ t.targs = s.targs /\ t.dest = s.dest
             /\ t.status = "ok" => path \in t.world.dirs \cup allowed
<1> DEFINE t == MakeDir(s, path, allowed)
           w == [s.world EXCEPT !.dirs = @ \cup {path}]
<1>1. w \in World /\ w.dirs = s.world.dirs \cup {path} /\ w.files = s.world.files
  BY DEF Walk, World
<1>2. \/ t = [s EXCEPT !.world = w]
      \/ t = s /\ path \in allowed
      \/ t = [s EXCEPT !.status = "error"]
  BY DEF MakeDir
<1> HIDE DEF t, w
<1>3. CASE t = [s EXCEPT !.world = w]
  <2>1. t \in Walk /\ t.world = w /\ t.status = s.status /\ t.dest = s.dest /\ t.targs = s.targs
    BY <1>1, <1>3 DEF Walk
  <2> QED BY <1>1, <2>1 DEF Kept, DirThere, t
<1>4. CASE t = s /\ path \in allowed
  BY <1>4 DEF Kept, t
<1>5. CASE t = [s EXCEPT !.status = "error"]
  <2>1. t \in Walk /\ t.world = s.world /\ t.status = "error" /\ t.dest = s.dest /\ t.targs = s.targs
    BY <1>5 DEF Walk, WalkStatuses
  <2> QED BY <2>1 DEF Kept, t
<1> QED BY <1>2, <1>3, <1>4, <1>5

\* What the server says of a collection that is there.
LEMMA CollectionThere ==
  ASSUME NEW world, NEW path \in Dest, path.outPath \in world.dirs,
         Remote(path), path.objType \notin FileTypes
  PROVE  LET d == getRodsObjType(world, path)
         IN  d \in Dest /\ d.outPath = path.outPath /\ d.objType = "COLL_OBJ_T"
BY DEF getRodsObjType, Dest, Remote, RemoteTypes, FileTypes, DirTypes, ObjTypes, ObjStates

LEMMA MadeForAllKept ==
  ASSUME NEW s \in Walk, DirThere(s.world, s.dest), s.status = "ok", NEW oprType, NEW n,
         s.dest.objType \notin FileTypes
  PROVE  LET t == MadeForAll(s, oprType, n)
         IN  Kept(s, t, oprType) /\ t.targs = s.targs
<1> DEFINE t == MadeForAll(s, oprType, n)
           m == mkColl(s, s.dest.outPath)
           d == getRodsObjType(m.world, m.dest)
<1> SUFFICES ASSUME s.dest.objState # "EXIST_ST" /\ Remote(s.dest) /\ n # 1 /\ oprType # "MOVE_OPR"
             PROVE  Kept(s, t, oprType) /\ t.targs = s.targs
  BY KeptSelf DEF MadeForAll, Makes
<1>1. s.dest.outPath \in Path
  BY DEF Walk, Dest
<1>2. /\ Kept(s, m, oprType) /\ m.targs = s.targs /\ m.dest = s.dest
      /\ m.status = "ok" => s.dest.outPath \in m.world.dirs
  <2>1. LET r == MakeDir(s, s.dest.outPath, s.world.dirs)
        IN  /\ Kept(s, r, oprType) /\ r.targs = s.targs /\ r.dest = s.dest
            /\ r.status = "ok" => s.dest.outPath \in r.world.dirs \cup s.world.dirs
    BY <1>1, MakeDirKept
  <2> QED BY <2>1 DEF mkColl, Kept
<1>3. t = IF m.status # "ok" THEN m ELSE [m EXCEPT !.dest = d]
  BY DEF MadeForAll, Makes
<1>4. m.status = "ok" => d \in Dest /\ d.outPath = m.dest.outPath /\ d.objType = "COLL_OBJ_T"
  BY <1>2, CollectionThere DEF Walk
<1> HIDE DEF m, d, t
<1>5. CASE m.status # "ok"
  BY <1>2, <1>3, <1>5
<1>6. CASE m.status = "ok"
  <2>1. m \in Walk
    BY <1>2 DEF Kept
  <2>2. t \in Walk /\ t.dest = d /\ t.world = m.world /\ t.targs = m.targs
    BY <1>3, <1>4, <1>6, <2>1 DEF Walk
  <2>3. DirThere(t.world, t.dest) /\ Remote(t.dest) /\ t.dest.outPath = s.dest.outPath
    BY <1>2, <1>4, <1>6, <2>2 DEF DirThere, Remote, RemoteTypes
  <2> QED BY <1>2, <2>2, <2>3 DEF Kept
<1> QED BY <1>5, <1>6

LEMMA FileTargetSent ==
  ASSUME NEW s \in Walk, DirThere(s.world, s.dest), s.status = "ok",
         NEW src \in Source, src.objType \in FileTypes, NEW oprType, NEW n
  PROVE  Sent(s, FileTarget(s, src, n), src, oprType, n)
<1> DEFINE type == IF Remote(s.dest) THEN "DATA_OBJ_T" ELSE "LOCAL_FILE_T"
<1>1. type \in ObjTypes
  BY DEF ObjTypes, FileTypes
<1>2. /\ s.dest.outPath \in Path /\ s.dest.objState \in ObjStates /\ "UNKNOWN_ST" \in ObjStates
      /\ Inside(s.dest, src.element) \in Path
  BY InsidePath DEF Walk, Dest, Source, ObjStates
<1>3. \A path : Stands(s, src, oprType, path)
  BY DEF Stands, FileTypes, DirTypes
<1>4. Kept(s, s, oprType)
  BY KeptSelf
<1>5. FileTarget(s, src, n) =
        IF s.dest.objType \in DirTypes /\ s.dest.objState = "EXIST_ST"
        THEN Goes(s, src, type, Inside(s.dest, src.element), "UNKNOWN_ST")
        ELSE IF s.dest.objType \in FileTypes \/ n = 1
        THEN Goes(s, src, type, s.dest.outPath, s.dest.objState)
        ELSE Refused(s, "USER_FILE_DOES_NOT_EXIST")
  BY DEF FileTarget
<1> HIDE DEF type
<1>6. Sent(s, Goes(s, src, type, Inside(s.dest, src.element), "UNKNOWN_ST"), src, oprType, n)
  <2>1. Placed(s.dest, src, n, Inside(s.dest, src.element))
    BY DEF Placed
  <2> QED BY <1>1, <1>2, <1>3, <1>4, <2>1, GoesSent
<1>7. ASSUME s.dest.objType \in FileTypes \/ n = 1
      PROVE  Sent(s, Goes(s, src, type, s.dest.outPath, s.dest.objState), src, oprType, n)
  <2>1. Placed(s.dest, src, n, s.dest.outPath)
    BY <1>7 DEF Placed
  <2> QED BY <1>1, <1>2, <1>3, <1>4, <2>1, GoesSent
<1>8. Sent(s, Refused(s, "USER_FILE_DOES_NOT_EXIST"), src, oprType, n)
  BY <1>4, RefusedSent DEF WalkStatuses
<1> QED BY <1>5, <1>6, <1>7, <1>8

\* Below a destination that is there: its own path, or one more name.
LEMMA BelowTargetSent ==
  ASSUME NEW s \in Walk, DirThere(s.world, s.dest), s.status = "ok",
         NEW src \in Source, NEW oprType, NEW n, NEW type \in ObjTypes,
         s.dest.objType \in DirTypes, s.dest.objState = "EXIST_ST"
  PROVE  Sent(s, BelowTarget(s, src, oprType, n, type), src, oprType, n)
<1> DEFINE same == \/ src.element = ""
                   \/ n = 1 /\ oprType = "RSYNC_OPR" /\ s.dest.element # ""
           path == IF same THEN s.dest.outPath ELSE Append(s.dest.outPath, src.element)
           far == MakeDir(s, path, s.world.dirs)
           near == MakeDir(s, path, s.world.dirs \cup s.world.files)
           made == IF same THEN s
                   ELSE IF ~Remote(s.dest) THEN near
                   ELSE IF oprType # "MOVE_OPR" THEN far ELSE s
<1>1. path \in Path /\ s.dest.outPath \in Path /\ "EXIST_ST" \in ObjStates
  BY AppendProperties DEF Walk, Dest, Source, Path, Element, ObjStates
<1>2. BelowTarget(s, src, oprType, n, type) =
        IF made.status # "ok" THEN made ELSE Goes(made, src, type, path, "EXIST_ST")
  BY DEF BelowTarget, mkColl, mkdirOrEexist, Makes
<1>3. s.dest.outPath \in s.world.dirs
  BY DEF DirThere
<1>4. n # 1 => path = Inside(s.dest, src.element)
  BY DEF Inside
<1>5. same => path = s.dest.outPath
  OBVIOUS
<1> HIDE DEF path, same
<1>6. oprType # "MOVE_OPR" =>
        /\ Kept(s, far, oprType) /\ far.targs = s.targs /\ far.dest = s.dest
        /\ far.status = "ok" => path \in far.world.dirs
  <2>1. ASSUME oprType # "MOVE_OPR"
        PROVE  LET t == MakeDir(s, path, s.world.dirs)
               IN  /\ Kept(s, t, oprType) /\ t.targs = s.targs /\ t.dest = s.dest
                   /\ t.status = "ok" => path \in t.world.dirs \cup s.world.dirs
    BY <1>1, <2>1, MakeDirKept
  <2> QED BY <2>1 DEF Kept
<1>7. ~Remote(s.dest) =>
        /\ Kept(s, near, oprType) /\ near.targs = s.targs /\ near.dest = s.dest
        /\ near.status = "ok" => path \in near.world.dirs \cup near.world.files
  <2>1. ASSUME ~Remote(s.dest)
        PROVE  LET t == MakeDir(s, path, s.world.dirs \cup s.world.files)
               IN  /\ Kept(s, t, oprType) /\ t.targs = s.targs /\ t.dest = s.dest
                   /\ t.status = "ok" => path \in t.world.dirs \cup (s.world.dirs \cup s.world.files)
    BY <1>1, <2>1, MakeDirKept
  <2> QED BY <2>1 DEF Kept
<1>8. Kept(s, s, oprType)
  BY KeptSelf
<1> HIDE DEF far, near
<1>9. Kept(s, made, oprType) /\ made.targs = s.targs /\ made.dest = s.dest
  BY <1>6, <1>7, <1>8
<1>10. made.status = "ok" => Stands(made, src, oprType, path)
  BY <1>3, <1>6, <1>7, <1>5 DEF Stands
<1>11. Placed(made.dest, src, n, path)
  BY <1>4, <1>9 DEF Placed
<1> HIDE DEF made
<1>12. made.status = "ok" => Sent(s, Goes(made, src, type, path, "EXIST_ST"), src, oprType, n)
  BY <1>1, <1>9, <1>10, <1>11, GoesSent
<1>13. made.status # "ok" => Sent(s, made, src, oprType, n)
  BY <1>9 DEF Sent
<1> QED BY <1>2, <1>12, <1>13

\* The destination itself.
LEMMA NewTargetSent ==
  ASSUME NEW s \in Walk, DirThere(s.world, s.dest), s.status = "ok",
         NEW src \in Source, NEW oprType, NEW n, NEW type \in ObjTypes
  PROVE  Sent(s, NewTarget(s, src, oprType, n, type), src, oprType, n)
<1> DEFINE path == s.dest.outPath
           far == MakeDir(s, path, s.world.dirs)
           near == MakeDir(s, path, {})
           made == IF ~Remote(s.dest) THEN near
                   ELSE IF oprType # "MOVE_OPR" THEN far ELSE s
<1>1. path \in Path /\ "EXIST_ST" \in ObjStates /\ "USER_FILE_DOES_NOT_EXIST" \in WalkStatuses
  BY DEF Walk, Dest, ObjStates, WalkStatuses
<1>2. NewTarget(s, src, oprType, n, type) =
        IF made.status # "ok" THEN made
        ELSE IF n # 1 THEN Refused(made, "USER_FILE_DOES_NOT_EXIST")
        ELSE Goes(made, src, type, path, "EXIST_ST")
  BY DEF NewTarget, mkColl, mkdir, Makes
<1>3. oprType # "MOVE_OPR" =>
        /\ Kept(s, far, oprType) /\ far.targs = s.targs /\ far.dest = s.dest
        /\ far.status = "ok" => path \in far.world.dirs
  <2>1. ASSUME oprType # "MOVE_OPR"
        PROVE  LET t == MakeDir(s, path, s.world.dirs)
               IN  /\ Kept(s, t, oprType) /\ t.targs = s.targs /\ t.dest = s.dest
                   /\ t.status = "ok" => path \in t.world.dirs \cup s.world.dirs
    BY <1>1, <2>1, MakeDirKept
  <2> QED BY <2>1 DEF Kept
<1>4. ~Remote(s.dest) =>
        /\ Kept(s, near, oprType) /\ near.targs = s.targs /\ near.dest = s.dest
        /\ near.status = "ok" => path \in near.world.dirs
  <2>1. ASSUME ~Remote(s.dest)
        PROVE  LET t == MakeDir(s, path, {})
               IN  /\ Kept(s, t, oprType) /\ t.targs = s.targs /\ t.dest = s.dest
                   /\ t.status = "ok" => path \in t.world.dirs \cup {}
    BY <1>1, <2>1, MakeDirKept
  <2> QED BY <2>1
<1>5. Kept(s, s, oprType)
  BY KeptSelf
<1> HIDE DEF path, far, near
<1>6. Kept(s, made, oprType) /\ made.targs = s.targs /\ made.dest = s.dest
  BY <1>3, <1>4, <1>5
<1>7. made.status = "ok" => Stands(made, src, oprType, path)
  BY <1>3, <1>4 DEF Stands
<1> HIDE DEF made
<1>8. made.status = "ok" /\ n = 1 => Sent(s, Goes(made, src, type, path, "EXIST_ST"), src, oprType, n)
  <2>1. n = 1 => Placed(made.dest, src, n, path)
    BY DEF Placed
  <2> QED BY <1>1, <1>6, <1>7, <2>1, GoesSent
<1>9. made.status # "ok" => Sent(s, made, src, oprType, n)
  BY <1>6 DEF Sent
<1>10. Sent(s, Refused(made, "USER_FILE_DOES_NOT_EXIST"), src, oprType, n)
  BY <1>1, <1>6, RefusedSent
<1> QED BY <1>2, <1>8, <1>9, <1>10

LEMMA DirTargetSent ==
  ASSUME NEW s \in Walk, DirThere(s.world, s.dest), s.status = "ok",
         NEW src \in Source, NEW oprType, NEW n
  PROVE  Sent(s, DirTarget(s, src, oprType, n), src, oprType, n)
<1> DEFINE type == IF Remote(s.dest) THEN "COLL_OBJ_T" ELSE "LOCAL_DIR_T"
           t == MadeForAll(s, oprType, n)
<1>1. type \in ObjTypes /\ "USER_INPUT_PATH_ERR" \in WalkStatuses
  BY DEF ObjTypes, DirTypes, WalkStatuses
<1>2. DirTarget(s, src, oprType, n) =
        IF s.dest.objType \in FileTypes THEN Refused(s, "USER_INPUT_PATH_ERR")
        ELSE IF t.status # "ok" THEN t
        ELSE IF t.dest.objType \in DirTypes /\ t.dest.objState = "EXIST_ST"
        THEN BelowTarget(t, src, oprType, n, type)
        ELSE NewTarget(t, src, oprType, n, type)
  BY DEF DirTarget
<1>3. s.dest.objType \notin FileTypes => Kept(s, t, oprType) /\ t.targs = s.targs
  BY MadeForAllKept
<1>4. Sent(s, Refused(s, "USER_INPUT_PATH_ERR"), src, oprType, n)
  BY <1>1, KeptSelf, RefusedSent
<1> HIDE DEF t, type
<1> SUFFICES ASSUME s.dest.objType \notin FileTypes
             PROVE  Sent(s, DirTarget(s, src, oprType, n), src, oprType, n)
  BY <1>2, <1>4
<1>5. t \in Walk /\ DirThere(t.world, t.dest)
  BY <1>3 DEF Kept
<1>6. t.status # "ok" => Sent(s, t, src, oprType, n)
  BY <1>3 DEF Sent
<1>7. ASSUME NEW u, Sent(t, u, src, oprType, n)
      PROVE  Sent(s, u, src, oprType, n)
  <2>1. Kept(t, u, oprType)
    BY <1>7 DEF Sent
  <2>2. Kept(s, u, oprType)
    BY <1>3, <2>1, KeptTwice
  <2> QED BY <1>3, <1>7, <2>2 DEF Sent
<1>8. t.status = "ok" /\ t.dest.objType \in DirTypes /\ t.dest.objState = "EXIST_ST" =>
        Sent(s, BelowTarget(t, src, oprType, n, type), src, oprType, n)
  BY <1>1, <1>5, <1>7, BelowTargetSent
<1>9. t.status = "ok" => Sent(s, NewTarget(t, src, oprType, n, type), src, oprType, n)
  BY <1>1, <1>5, <1>7, NewTargetSent
<1> QED BY <1>2, <1>6, <1>8, <1>9

LEMMA TargetOfSent ==
  ASSUME NEW s \in Walk, DirThere(s.world, s.dest), s.status = "ok",
         NEW src \in Source, NEW oprType, NEW n
  PROVE  Sent(s, TargetOf(s, src, oprType, n), src, oprType, n)
<1>1. Sent(s, Refused(s, "USER_INPUT_PATH_ERR"), src, oprType, n)
  BY KeptSelf, RefusedSent DEF WalkStatuses
<1>2. ASSUME s.dest.outPath = <<"-">>, src.objType = "DATA_OBJ_T"
      PROVE  Sent(s, Goes(s, src, "LOCAL_FILE_T", <<"-">>, s.dest.objState), src, oprType, n)
  <2>1. <<"-">> \in Path /\ s.dest.objState \in ObjStates /\ "LOCAL_FILE_T" \in ObjTypes
    BY <1>2 DEF Walk, Dest, ObjTypes, FileTypes
  <2>2. Stands(s, src, oprType, <<"-">>) /\ Placed(s.dest, src, n, <<"-">>)
    BY <1>2 DEF Stands, Placed, DirTypes
  <2> QED BY <2>1, <2>2, KeptSelf, GoesSent
<1>3. src.objType \in FileTypes => Sent(s, FileTarget(s, src, n), src, oprType, n)
  BY FileTargetSent
<1>4. Sent(s, DirTarget(s, src, oprType, n), src, oprType, n)
  BY DirTargetSent
<1>5. TargetOf(s, src, oprType, n) =
        IF src.objState = "NOT_EXIST_ST" THEN Refused(s, "USER_INPUT_PATH_ERR")
        ELSE IF ~Remote(s.dest) /\ s.dest.outPath = <<"-">>
        THEN IF src.objType = "DATA_OBJ_T"
             THEN Goes(s, src, "LOCAL_FILE_T", <<"-">>, s.dest.objState)
             ELSE Refused(s, "USER_INPUT_PATH_ERR")
        ELSE IF src.objType \in FileTypes THEN FileTarget(s, src, n)
        ELSE IF src.objType \in DirTypes THEN DirTarget(s, src, oprType, n)
        ELSE Refused(s, "USER_INPUT_PATH_ERR")
  BY DEF TargetOf
<1> QED BY <1>1, <1>2, <1>3, <1>4, <1>5

-----------------------------------------------------------------------------
(* The targets: all sources.                                               *)

TargetInv ==
  /\ TargetTypeOK
  /\ DirThere(resolved.world, resolved.dest)
  /\ resolved.world.files = rodsPathInp.world.files
  /\ MoveMakesNothing
  /\ Len(resolved.targs) <= srcInx
  /\ resolved.status = "ok" => Len(resolved.targs) = srcInx
  /\ \A i \in 1 .. Len(resolved.targs) :
       /\ Placed(resolved.dest, rodsPathInp.src[i], numSrc(rodsPathInp), resolved.targs[i].outPath)
       /\ Stands(resolved, rodsPathInp.src[i], rodsPathInp.opr, resolved.targs[i].outPath)

LEMMA TargetInitInv == TargetInit => TargetInv
<1> SUFFICES ASSUME TargetInit PROVE TargetInv
  OBVIOUS
<1> DEFINE inp == rodsPathInp
           dest == IF inp.dest.objState = "UNKNOWN_ST" THEN getRodsObjType(inp.world, inp.dest)
                   ELSE inp.dest
<1>1. inp \in RodsPathInp /\ DirThere(inp.world, inp.dest)
  BY PathInpsAssumption DEF TargetInit
<1>2. /\ inp.dest \in Dest /\ inp.world \in World /\ inp.src \in Seq(Source)
  BY <1>1 DEF RodsPathInp
<1>3. dest \in Dest /\ DirThere(inp.world, dest)
  BY <1>1, <1>2 DEF getRodsObjType, DirThere, Dest, ObjTypes, ObjStates, RemoteTypes, FileTypes, DirTypes
<1>4. /\ resolved = [status |-> "ok", targs |-> << >>, world |-> inp.world, dest |-> dest]
      /\ srcInx = 0
  BY DEF TargetInit
<1> HIDE DEF dest
<1>5. /\ resolved \in Walk /\ resolved.targs = << >> /\ Len(resolved.targs) = 0
      /\ resolved.world = inp.world /\ resolved.dest = dest
  BY <1>2, <1>3, <1>4, EmptySeq DEF Walk, WalkStatuses
<1>6. 0 \in 0 .. numSrc(inp)
  BY <1>2, LenProperties DEF numSrc
<1> QED BY <1>1, <1>3, <1>4, <1>5, <1>6 DEF TargetInv, TargetTypeOK, MoveMakesNothing

LEMMA TargetNextInv == TargetInv /\ [resolveRodsTarget]_targetVars => TargetInv'
<1> SUFFICES ASSUME TargetInv, resolveRodsTarget PROVE TargetInv'
  <2>1. ASSUME TargetInv, UNCHANGED targetVars PROVE TargetInv'
    BY <2>1 DEF targetVars, TargetInv, TargetTypeOK, MoveMakesNothing
  <2> QED BY <2>1
<1> DEFINE s == resolved
           t == resolved'
           inp == rodsPathInp
           n == numSrc(rodsPathInp)
           k == srcInx + 1
           src == inp.src[k]
<1>1. s \in Walk /\ inp \in RodsPathInp /\ srcInx \in 0 .. n
  BY DEF TargetInv, TargetTypeOK
<1>2. inp.src \in Seq(Source) /\ n = Len(inp.src) /\ n \in Nat
  BY <1>1, LenProperties DEF RodsPathInp, numSrc
<1>3. s.status = "ok" /\ srcInx < n /\ srcInx' = k /\ rodsPathInp' = inp
  BY DEF resolveRodsTarget
<1>4. k \in 1 .. n /\ src \in Source
  BY <1>1, <1>2, <1>3
<1>5. t = TargetOf(s, src, inp.opr, n)
  BY <1>3 DEF resolveRodsTarget
<1>6. Sent(s, t, src, inp.opr, n)
  BY <1>1, <1>3, <1>4, <1>5, TargetOfSent DEF TargetInv
<1>7. /\ s.world.files = inp.world.files
      /\ inp.opr = "MOVE_OPR" /\ Remote(s.dest) => s.world = inp.world
      /\ Len(s.targs) = srcInx
      /\ \A i \in 1 .. Len(s.targs) :
           Placed(s.dest, inp.src[i], n, s.targs[i].outPath)
             /\ Stands(s, inp.src[i], inp.opr, s.targs[i].outPath)
  BY <1>3 DEF TargetInv, MoveMakesNothing
<1> HIDE DEF s, t, inp, n, src
<1>8. Kept(s, t, inp.opr)
  BY <1>6 DEF Sent
<1>9. ASSUME NEW source, NEW path,
             Placed(s.dest, source, n, path), Stands(s, source, inp.opr, path)
      PROVE  Placed(t.dest, source, n, path) /\ Stands(t, source, inp.opr, path)
  BY <1>8, <1>9 DEF Kept, Placed, Stands, Inside
<1>10. /\ t \in Walk /\ DirThere(t.world, t.dest) /\ t.world.files = inp.world.files
       /\ inp.opr = "MOVE_OPR" /\ Remote(t.dest) => t.world = inp.world
  BY <1>7, <1>8 DEF Kept
<1>11. /\ Len(t.targs) <= k
       /\ t.status = "ok" => Len(t.targs) = k
       /\ \A i \in 1 .. Len(t.targs) :
            Placed(t.dest, inp.src[i], n, t.targs[i].outPath)
              /\ Stands(t, inp.src[i], inp.opr, t.targs[i].outPath)
  <2>1. CASE t.status # "ok"
    <3>1. t.targs = s.targs
      BY <1>6, <2>1 DEF Sent
    <3> QED BY <1>1, <1>2, <1>7, <1>9, <2>1, <3>1
  <2>2. CASE t.status = "ok"
    <3>1. PICK g \in Targ : /\ t.targs = Append(s.targs, g)
                            /\ Placed(t.dest, src, n, g.outPath)
                            /\ Stands(t, src, inp.opr, g.outPath)
      BY <1>6, <2>2 DEF Sent
    <3>2. s.targs \in Seq(Targ)
      BY <1>1 DEF Walk
    <3>3. /\ Len(t.targs) = k /\ t.targs[k] = g
          /\ \A i \in 1 .. srcInx : t.targs[i] = s.targs[i]
      BY <1>1, <1>2, <1>7, <3>1, <3>2, AppendProperties
    <3>4. ASSUME NEW i \in 1 .. k
          PROVE  Placed(t.dest, inp.src[i], n, t.targs[i].outPath)
                   /\ Stands(t, inp.src[i], inp.opr, t.targs[i].outPath)
      <4>1. CASE i = k
        BY <3>1, <3>3, <4>1 DEF src
      <4>2. CASE i # k
        <5>1. i \in 1 .. srcInx
          BY <1>1, <1>2, <4>2
        <5> QED BY <1>7, <1>9, <3>3, <5>1
      <4> QED BY <4>1, <4>2
    <3> QED BY <1>1, <1>2, <3>3, <3>4
  <2> QED BY <2>1, <2>2
<1> QED
  BY <1>1, <1>2, <1>3, <1>4, <1>10, <1>11
  DEF TargetInv, TargetTypeOK, MoveMakesNothing, s, t, inp, n

LEMMA InsideApart ==
  ASSUME NEW dest \in Dest, NEW a \in Element, NEW b \in Element,
         Inside(dest, a) = Inside(dest, b)
  PROVE  a = b
<1>1. dest.outPath \in Path
  BY DEF Dest
<1>2. ASSUME NEW p \in Path, NEW c \in Names, NEW d \in Names
      PROVE  Append(p, c) # p /\ (Append(p, c) = Append(p, d) => c = d)
  <2>1. Len(Append(p, c)) = Len(p) + 1 /\ Append(p, c)[Len(p) + 1] = c
        /\ Append(p, d)[Len(p) + 1] = d /\ Len(p) \in Nat
    BY AppendProperties, LenProperties DEF Path
  <2> QED BY <2>1
<1> QED BY <1>1, <1>2 DEF Inside, Element

LEMMA TargetInvSound == TargetInv => TargetsSound
<1> SUFFICES ASSUME TargetInv, resolved.status = "ok"
             PROVE  TargetsApart /\ TargetMade
  BY DEF TargetInv, TargetsSound, TargetsApart, TargetMade
<1> DEFINE n == numSrc(rodsPathInp)
           m == Len(resolved.targs)
<1>1. /\ rodsPathInp.src \in Seq(Source) /\ n = Len(rodsPathInp.src) /\ n \in Nat
      /\ resolved.targs \in Seq(Targ) /\ m \in Nat /\ m <= n /\ resolved.dest \in Dest
  BY LenProperties DEF TargetInv, TargetTypeOK, Walk, RodsPathInp, numSrc
<1>2. DOMAIN resolved.targs = 1 .. m
  BY <1>1, LenProperties
<1>3. \A i \in 1 .. m : rodsPathInp.src[i] \in Source
  BY <1>1
<1>4. TargetMade
  BY <1>2 DEF TargetInv, TargetMade, Stands
<1>5. TargetsApart
  <2> SUFFICES ASSUME NEW i \in 1 .. m, NEW j \in 1 .. m,
                      rodsPathInp.src[i].element # rodsPathInp.src[j].element,
                      resolved.dest.objType \notin FileTypes, resolved.dest.outPath # <<"-">>
               PROVE  resolved.targs[i].outPath # resolved.targs[j].outPath
    BY <1>2 DEF TargetsApart
  <2>1. n # 1
    BY <1>1
  <2>2. /\ resolved.targs[i].outPath = Inside(resolved.dest, rodsPathInp.src[i].element)
        /\ resolved.targs[j].outPath = Inside(resolved.dest, rodsPathInp.src[j].element)
    BY <2>1 DEF TargetInv, Placed
  <2>3. rodsPathInp.src[i].element \in Element /\ rodsPathInp.src[j].element \in Element
    BY <1>3 DEF Source
  <2> QED BY <1>1, <2>2, <2>3, InsideApart
<1> QED BY <1>4, <1>5

\* resolveRodsTarget, for any sources, destination, operation and name space:
\* every source has its target, the targets of sources with different last names
\* are different, a directory is there when it is said to be, and a move of
\* remote paths makes nothing.
THEOREM TargetsAreSound == TargetSpec => []TargetsSound
<1>1. TargetSpec => []TargetInv
  BY TargetInitInv, TargetNextInv, PTL DEF TargetSpec
<1> QED BY <1>1, TargetInvSound, PTL

\* The sources, the destination and the targets keep their types.
THEOREM TargetType == TargetSpec => []TargetTypeOK
<1>1. TargetSpec => []TargetInv
  BY TargetInitInv, TargetNextInv, PTL DEF TargetSpec
<1>2. TargetInv => TargetTypeOK
  BY DEF TargetInv
<1> QED BY <1>1, <1>2, PTL

-----------------------------------------------------------------------------
(* The wheel, and the amounts it is turned by.                             *)

\* A place of the wheel is the place of what stands there.

LEMMA WheelFacts ==
  ASSUME NEW i \in 0 .. 76
  PROVE  wheel[i] \in 33 .. 122 /\ OnWheel(wheel[i]) /\ Place(wheel[i]) = i
<1>1. wheel[i] \in 33 .. 122
  BY DEF wheel, wheel_len
<1>2. \A j \in 0 .. 76 : wheel[j] = wheel[i] => j = i
  BY DEF wheel, wheel_len
<1>3. OnWheel(wheel[i])
  BY DEF OnWheel, wheel_len
<1>4. Place(wheel[i]) = i
  BY <1>2 DEF Place, wheel_len
<1> QED BY <1>1, <1>3, <1>4

\* What is turned on the wheel is turned back by the same amount.
LEMMA TurnedBack ==
  ASSUME NEW i \in 0 .. 76, NEW by \in Int
  PROVE  Turn(i, by) \in 0 .. 76 /\ TurnBack(Turn(i, by), by) = i
BY DEF Turn, TurnBack, wheel_len

\* So a scrambled character comes back, and what is on the wheel stays on it.
LEMMA ScrambledBack ==
  ASSUME NEW c, NEW by \in Int
  PROVE  /\ OnWheel(Scramble(c, by)) <=> OnWheel(c)
         /\ Unscramble(Scramble(c, by), by) = c
         /\ c \in Int => Scramble(c, by) \in Int
<1>1. CASE ~OnWheel(c)
  BY <1>1 DEF Scramble, Unscramble
<1>2. CASE OnWheel(c)
  <2>1. PICK i \in 0 .. 76 : wheel[i] = c
    BY <1>2 DEF OnWheel, wheel_len
  <2>2. Place(c) = i
    BY <2>1, WheelFacts
  <2>3. Scramble(c, by) = wheel[Turn(i, by)]
    BY <1>2, <2>2 DEF Scramble
  <2>4. Turn(i, by) \in 0 .. 76 /\ TurnBack(Turn(i, by), by) = i
    BY TurnedBack
  <2>5. OnWheel(Scramble(c, by)) /\ Place(Scramble(c, by)) = Turn(i, by) /\ Scramble(c, by) \in 33 .. 122
    BY <2>3, <2>4, WheelFacts
  <2> QED BY <1>2, <2>1, <2>4, <2>5 DEF Unscramble
<1> QED BY <1>1, <1>2

LEMMA SeqsType ==
  ASSUME NEW r \in 1 .. 16, NEW k \in 1 .. 11
  PROVE  Seqs[r][k] \in 0 .. 7
BY DEF Seqs

\* The amounts obfiEncode turns by are numbers.
LEMMA AddInType ==
  ASSUME NEW rval \in 0 .. 15, NEW n \in Nat \ {0}
  PROVE  AddIn(rval, n) \in Nat
<1> DEFINE k == (n - 1) % 10
<1>1. k \in 0 .. 9
  OBVIOUS
<1>2. Seqs[rval + 1][k + 1] \in 0 .. 7 /\ Seqs[rval + 1][k + 2] \in 0 .. 7
  BY <1>1, SeqsType
<1>3. AddIn(rval, n) = Seqs[rval + 1][k + 1] + 8 * (Seqs[rval + 1][k + 2] % 4)
  BY DEF AddIn
<1> HIDE DEF k
<1> QED BY <1>2, <1>3

-----------------------------------------------------------------------------
(* The time in the head of a code, and its check.                          *)

\* Quotient and rest, when they are known; and by 16 they exist.
LEMMA DivMod ==
  ASSUME NEW t \in Nat, NEW P \in Nat \ {0}, NEW q \in Nat, NEW r \in Nat, r < P, t = P * q + r
  PROVE  t \div P = q /\ t % P = r
BY SMT

LEMMA Sixteen ==
  ASSUME NEW t \in Nat
  PROVE  \E q, r \in Nat : t = 16 * q + r /\ r < 16
<1> DEFINE q == t \div 16
           r == t % 16
<1>1. t = 16 * q + r
  BY SMT
<1>2. r \in Nat /\ r < 16
  BY SMT
<1>3. q \in Int
  BY SMT
<1> HIDE DEF q, r
<1>4. q \in Nat
  BY <1>1, <1>2, <1>3, SMT
<1> QED BY <1>1, <1>2, <1>4

\* The four digits of a time of 16 bits.
Digits(time, a, b, c, d) ==
  /\ time = 4096 * a + 256 * b + 16 * c + d
  /\ (time \div 4096) % 16 = a /\ (time \div 256) % 16 = b
  /\ (time \div 16) % 16 = c /\ (time \div 1) % 16 = d

LEMMA FourDigits ==
  ASSUME NEW time \in Nat
  PROVE  time <= 65535 => \E a, b, c, d \in Nat : Digits(time, a, b, c, d)
<1>1. PICK t1 \in Nat, d \in Nat : time = 16 * t1 + d /\ d < 16
  BY Sixteen
<1>2. PICK t2 \in Nat, c \in Nat : t1 = 16 * t2 + c /\ c < 16
  BY Sixteen
<1>3. PICK a \in Nat, b \in Nat : t2 = 16 * a + b /\ b < 16
  BY Sixteen
<1>4. time <= 65535 => a < 16
  BY <1>1, <1>2, <1>3, SMT
<1>5. time \div 1 = time /\ time \div 16 = t1
  <2>1. time = 1 * time + 0
    BY SMT
  <2>2. time \div 1 = time
    BY <2>1, DivMod, SMT
  <2> QED BY <1>1, <2>2, DivMod
<1>6. time \div 256 = t2
  <2> DEFINE r == 16 * c + d
  <2>1. time = 256 * t2 + r /\ r \in Nat /\ r < 256
    BY <1>1, <1>2, SMT
  <2> HIDE DEF r
  <2> QED BY <2>1, DivMod, SMT
<1>7. time \div 4096 = a
  <2> DEFINE r == 256 * b + 16 * c + d
  <2>1. time = 4096 * a + r /\ r \in Nat /\ r < 4096
    BY <1>1, <1>2, <1>3, SMT
  <2> HIDE DEF r
  <2> QED BY <2>1, DivMod, SMT
<1>8. time % 16 = d /\ t1 % 16 = c /\ t2 % 16 = b
  BY <1>1, <1>2, <1>3, DivMod
<1>9. time <= 65535 => a % 16 = a
  <2>1. a = 16 * 0 + a
    BY SMT
  <2> QED BY <1>4, <2>1, DivMod, SMT
<1>10. time = 4096 * a + 256 * b + 16 * c + d
  BY <1>1, <1>2, <1>3, SMT
<1>11. time <= 65535 => Digits(time, a, b, c, d)
  BY <1>5, <1>6, <1>7, <1>8, <1>9, <1>10, SMT DEF Digits
<1> QED BY <1>11

\* So the time in the head is the one that was put there.
LEMMA HeadTime ==
  ASSUME NEW rval, NEW time \in Nat, time <= 65535
  PROVE  encodedTime(headstring(rval, time)) = time
<1>1. PICK a, b, c, d \in Nat : Digits(time, a, b, c, d)
  BY FourDigits, SMT
<1>2. /\ HexDigit(time, 16) = 97 + c /\ HexDigit(time, 1) = 97 + d
      /\ HexDigit(time, 4096) = 97 + a /\ HexDigit(time, 256) = 97 + b
  BY <1>1, SMT DEF HexDigit, Digits
<1>3. headstring(rval, time) = <<83 - (2 * (rval % 8)), 97 + c, 97 + d, 97 + a, 97 + b>>
  BY <1>2, SMT DEF headstring
<1>4. ASSUME NEW h
      PROVE  encodedTime(<<h, 97 + c, 97 + d, 97 + a, 97 + b>>) = c * 16 + d + a * 4096 + b * 256
  BY SMT DEF encodedTime
<1>5. encodedTime(headstring(rval, time)) = c * 16 + d + a * 4096 + b * 256
  BY <1>3, <1>4, SMT
<1>6. time = c * 16 + d + a * 4096 + b * 256
  BY <1>1, SMT DEF Digits
<1> QED BY <1>5, <1>6, SMT

\* The time of a file that is younger, in 16 bits.
LEMMA Younger ==
  ASSUME NEW t \in Nat, t <= 131071
  PROVE  t % 65536 = IF t > 65535 THEN t - 65536 ELSE t
<1>1. CASE t > 65535
  <2>1. t = 65536 * 1 + (t - 65536) /\ t - 65536 \in Nat /\ t - 65536 < 65536
    BY <1>1, SMT
  <2> QED BY <1>1, <2>1, DivMod
<1>2. CASE t <= 65535
  <2>1. t = 65536 * 0 + t /\ t < 65536
    BY <1>2, SMT
  <2> QED BY <1>2, <2>1, DivMod
<1> QED BY <1>1, <1>2
\* d seconds after saved the clock of 16 bits shows now.
Shows(saved, d, now) ==
  /\ saved \in Nat /\ d \in Nat /\ now \in Nat /\ saved <= 65535 /\ d <= 65515
  /\ now = IF saved + d > 65535 THEN saved + d - 65536 ELSE saved + d

\* Of the check only whether the times are apart is left.
LEMMA ChecksApart ==
  ASSUME NEW saved, NEW d, NEW now, Shows(saved, d, now)
  PROVE  LET w == Wrapped(saved)
             x == Wrapped(now)
         IN  /\ saved + d <= 65535 => (Apart(saved, now) < 20 <=> d < 20)
             /\ saved + d <= 65535 /\ d >= 20 => ~(Apart(w, x) < 20)
             /\ saved + d > 65535 => ~(Apart(saved, now) < 20)
             /\ saved + d > 65535 => (Apart(w, x) < 20 <=> d <= 20)
<1> DEFINE w == Wrapped(saved)
           x == Wrapped(now)
<1>1. w = (IF saved < 65000 THEN saved + 65535 ELSE saved)
      /\ x = (IF now < 65000 THEN now + 65535 ELSE now)
  BY DEF Wrapped
<1>2. /\ Apart(saved, now) = IF saved < now THEN now - saved ELSE saved - now
      /\ Apart(w, x) = IF w < x THEN x - w ELSE w - x
  BY DEF Apart
<1> HIDE DEF w, x
<1>3. ASSUME saved + d <= 65535
      PROVE  /\ Apart(saved, now) < 20 <=> d < 20
             /\ d >= 20 => ~(Apart(w, x) < 20)
  <2>1. now = saved + d /\ saved \in Nat /\ d \in Nat /\ d <= 65515
    BY <1>3, SMT DEF Shows
  <2>2. Apart(saved, now) < 20 <=> d < 20
    BY <1>2, <2>1, SMT
  <2>3. ASSUME d >= 20
        PROVE  ~(Apart(w, x) < 20)
    <3>1. x >= w + 20 \/ w >= x + 20
      BY <1>1, <1>3, <2>1, <2>3, SMT
    <3>2. w \in Nat /\ x \in Nat
      BY <1>1, <2>1, SMT
    <3> QED BY <1>2, <3>1, <3>2, SMT
  <2> QED BY <2>2, <2>3
<1>4. ASSUME saved + d > 65535
      PROVE  /\ ~(Apart(saved, now) < 20)
             /\ Apart(w, x) < 20 <=> d <= 20
  <2>1. now = saved + d - 65536 /\ saved \in Nat /\ d \in Nat /\ saved <= 65535 /\ d <= 65515
    BY <1>4, SMT DEF Shows
  <2>2. ~(Apart(saved, now) < 20)
    BY <1>2, <2>1, SMT
  <2>3. d <= 20 => Apart(w, x) < 20
    BY <1>1, <1>2, <1>4, <2>1, SMT
  <2>4. d > 20 => ~(Apart(w, x) < 20)
    BY <1>1, <1>2, <1>4, <2>1, SMT
  <2> QED BY <2>1, <2>2, <2>3, <2>4, SMT
<1> QED BY <1>3, <1>4, SMT DEF w, x

\* When the check of the times passes, d seconds later.
LEMMA TimeChecked ==
  ASSUME NEW saved \in Nat, saved <= 65535, NEW d \in Nat, d <= 65515
  PROVE  /\ d < 20 => obfiTimeCheck(saved, (saved + d) % 65536)
         /\ d = 20 => (obfiTimeCheck(saved, (saved + d) % 65536) <=> saved + d > 65535)
         /\ d > 20 => ~obfiTimeCheck(saved, (saved + d) % 65536)
<1> DEFINE now == (saved + d) % 65536
           late == saved + d > 65535
           near == Apart(saved, now) < 20
           wrap == Apart(Wrapped(saved), Wrapped(now)) < 20
<1>1. saved + d \in Nat /\ saved + d <= 131071
  BY SMT
<1>2. now = IF saved + d > 65535 THEN saved + d - 65536 ELSE saved + d
  BY <1>1, Younger, SMT
<1> HIDE DEF now
<1>3. Shows(saved, d, now)
  BY <1>2, SMT DEF Shows
<1>4. (saved + d <= 65535 <=> ~late) /\ (d < 20 => d <= 20) /\ (d = 20 => d <= 20 /\ d >= 20 /\ ~(d < 20))
      /\ (d > 20 => ~(d <= 20) /\ d >= 20 /\ ~(d < 20))
  BY SMT
<1>5. /\ ~late => (near <=> d < 20)
      /\ ~late /\ d >= 20 => ~wrap
      /\ late => ~near
      /\ late => (wrap <=> d <= 20)
  BY <1>3, <1>4, ChecksApart, SMT
<1>6. obfiTimeCheck(saved, now) <=> near \/ wrap
  BY DEF obfiTimeCheck
<1> HIDE DEF late, near, wrap
<1>7. /\ d < 20 => obfiTimeCheck(saved, now)
      /\ d = 20 => (obfiTimeCheck(saved, now) <=> late)
      /\ d > 20 => ~obfiTimeCheck(saved, now)
  <2>1. CASE d < 20
    BY <1>4, <1>5, <1>6, <2>1, SMT
  <2>2. CASE d = 20
    BY <1>4, <1>5, <1>6, <2>2, SMT
  <2>3. CASE d > 20
    BY <1>4, <1>5, <1>6, <2>3, SMT
  <2> QED BY <2>1, <2>2, <2>3, SMT
<1> QED BY <1>7, SMT DEF now, late

-----------------------------------------------------------------------------
(* A sequence in parts: what obfiEncode makes, and obfiDecode cuts.        *)

\* t is a followed by b; u is s from m to n.
Follows(S, t, a, b) ==
  /\ t \in Seq(S) /\ Len(t) = Len(a) + Len(b)
  /\ \A i \in 1 .. Len(a) : t[i] = a[i]
  /\ \A i \in 1 .. Len(b) : t[Len(a) + i] = b[i]
IsCut(S, u, s, m, n) ==
  /\ u \in Seq(S) /\ Len(u) = n - m + 1
  /\ \A i \in 1 .. n - m + 1 : u[i] = s[m + i - 1]

\* The parts of a sequence, and what makes it up.
LEMMA Concat ==
  ASSUME NEW S, NEW a \in Seq(S), NEW b \in Seq(S)
  PROVE  Follows(S, a \o b, a, b)
BY DEF Follows

LEMMA Cut ==
  ASSUME NEW S, NEW s \in Seq(S), NEW m \in Nat \ {0}, NEW n \in Nat, m <= n + 1, n <= Len(s)
  PROVE  IsCut(S, SubSeq(s, m, n), s, m, n)
<1>1. \A i \in m .. n : s[i] \in S
  OBVIOUS
<1>2. (IF m <= n THEN n - m + 1 ELSE 0) = n - m + 1
  OBVIOUS
<1>3. /\ SubSeq(s, m, n) \in Seq(S) /\ Len(SubSeq(s, m, n)) = n - m + 1
      /\ \A i \in 1 .. n - m + 1 : SubSeq(s, m, n)[i] = s[m + i - 1]
  BY <1>1, <1>2, SubSeqProperties
<1> QED BY <1>3, Zenon DEF IsCut

LEMMA SameFollows ==
  ASSUME NEW S, NEW t, NEW u, NEW a, NEW b, Len(a) \in Nat, Len(b) \in Nat,
         Follows(S, t, a, b), Follows(S, u, a, b)
  PROVE  t = u
<1>1. t \in Seq(S) /\ u \in Seq(S) /\ Len(t) = Len(a) + Len(b) /\ Len(u) = Len(a) + Len(b)
  BY DEF Follows
<1>2. ASSUME NEW i \in 1 .. Len(t)
      PROVE  t[i] = u[i]
  <2>1. CASE i <= Len(a)
    BY <1>1, <2>1 DEF Follows
  <2>2. CASE i > Len(a)
    <3> DEFINE j == i - Len(a)
    <3>1. j \in 1 .. Len(b) /\ i = Len(a) + j
      BY <1>1, <2>2
    <3> HIDE DEF j
    <3> QED BY <3>1 DEF Follows
  <2> QED BY <1>1, <2>1, <2>2
<1> QED BY <1>1, <1>2, SeqEqual

LEMMA CutsFollow ==
  ASSUME NEW S, NEW t \in Seq(S), NEW a \in Seq(S), NEW b \in Seq(S), NEW n \in Nat,
         n <= Len(t), IsCut(S, a, t, 1, n), IsCut(S, b, t, n + 1, Len(t))
  PROVE  Follows(S, t, a, b)
<1>1. Len(a) = n /\ Len(b) = Len(t) - n /\ Len(t) \in Nat
  BY DEF IsCut
<1>2. ASSUME NEW i \in 1 .. Len(a)
      PROVE  t[i] = a[i]
  BY <1>1 DEF IsCut
<1>3. ASSUME NEW i \in 1 .. Len(b)
      PROVE  t[Len(a) + i] = b[i]
  <2>1. i \in 1 .. Len(t) - (n + 1) + 1 /\ n + 1 + i - 1 = Len(a) + i
    BY <1>1
  <2> QED BY <2>1 DEF IsCut
<1>4. Len(t) = Len(a) + Len(b)
  BY <1>1
<1> QED BY <1>2, <1>3, <1>4, Zenon DEF Follows

LEMMA FollowsCut ==
  ASSUME NEW S, NEW t, NEW a \in Seq(S), NEW b \in Seq(S), Follows(S, t, a, b)
  PROVE  /\ SubSeq(t, 1, Len(a)) = a
         /\ SubSeq(t, Len(a) + 1, Len(t)) = b
<1>1. t \in Seq(S) /\ Len(a) \in Nat /\ Len(b) \in Nat /\ Len(t) = Len(a) + Len(b)
  BY DEF Follows
<1>2. SubSeq(t, 1, Len(a)) = a
  <2> DEFINE u == SubSeq(t, 1, Len(a))
  <2>1. IsCut(S, u, t, 1, Len(a))
    BY <1>1, Cut
  <2> HIDE DEF u
  <2>2. u \in Seq(S) /\ Len(u) = Len(a)
    BY <1>1, <2>1 DEF IsCut
  <2>3. ASSUME NEW i \in 1 .. Len(a)
        PROVE  u[i] = a[i]
    <3>1. u[i] = t[1 + i - 1] /\ 1 + i - 1 = i
      BY <1>1, <2>1 DEF IsCut
    <3>2. t[i] = a[i]
      BY DEF Follows
    <3> QED BY <3>1, <3>2
  <2>4. u = a
    BY <2>2, <2>3, SeqEqual
  <2> QED BY <2>4 DEF u
<1>3. SubSeq(t, Len(a) + 1, Len(t)) = b
  <2> DEFINE u == SubSeq(t, Len(a) + 1, Len(t))
  <2>1. IsCut(S, u, t, Len(a) + 1, Len(t))
    BY <1>1, Cut
  <2> HIDE DEF u
  <2>2. u \in Seq(S) /\ Len(u) = Len(b)
    BY <1>1, <2>1 DEF IsCut
  <2>3. ASSUME NEW i \in 1 .. Len(b)
        PROVE  u[i] = b[i]
    <3>1. i \in 1 .. Len(t) - (Len(a) + 1) + 1 /\ Len(a) + 1 + i - 1 = Len(a) + i
      BY <1>1
    <3>2. u[i] = t[Len(a) + i]
      BY <3>1, <2>1 DEF IsCut
    <3>3. t[Len(a) + i] = b[i]
      BY DEF Follows
    <3> QED BY <3>2, <3>3
  <2>4. u = b
    BY <2>2, <2>3, SeqEqual
  <2> QED BY <2>4 DEF u
<1> QED BY <1>2, <1>3

FirstOf(rval) == 83 - (2 * (rval % 8))
IsHead(head, rval) == head \in Seq(Int) /\ Len(head) = 5 /\ head[1] = FirstOf(rval)

LEMMA HeadType ==
  ASSUME NEW rval \in 0 .. 15, NEW time \in Nat
  PROVE  IsHead(headstring(rval, time), rval)
<1>1. \A x \in {1, 16, 256, 4096} : HexDigit(time, x) \in Int
  BY SMT DEF HexDigit
<1> QED BY <1>1, SMT DEF headstring, FirstOf, IsHead

\* A function on the first numbers is a sequence.
LEMMA FunctionIsSeq ==
  ASSUME NEW N \in Nat, NEW S, NEW s \in [1 .. N -> S]
  PROVE  s \in Seq(S) /\ Len(s) = N
OBVIOUS

\* The text of obfiEncode, turned and turned back.
Scrambled(text, rval, uid) == [n \in DOMAIN text |-> Scramble(text[n], By(rval, uid, n))]
Unscrambled(text, rval, uid) == [n \in DOMAIN text |-> Unscramble(text[n], By(rval, uid, n))]

\* The scrambled text of obfiEncode comes back with the same key.
LEMMA TextBack ==
  ASSUME NEW text \in Seq(Int), NEW rval \in 0 .. 15, NEW uid \in Nat
  PROVE  /\ Scrambled(text, rval, uid) \in Seq(Int)
         /\ Len(Scrambled(text, rval, uid)) = Len(text)
         /\ Unscrambled(Scrambled(text, rval, uid), rval, uid) = text
<1> DEFINE s == Scrambled(text, rval, uid)
           u == Unscrambled(s, rval, uid)
<1>1. \A n \in 1 .. Len(text) : By(rval, uid, n) \in Int
  <2> TAKE n \in 1 .. Len(text)
  <2>1. n \in Nat \ {0}
    OBVIOUS
  <2>2. AddIn(rval, n) \in Nat
    BY <2>1, AddInType
  <2> QED BY <2>2 DEF By
<1>2. DOMAIN s = 1 .. Len(text) /\ \A n \in 1 .. Len(text) : s[n] = Scramble(text[n], By(rval, uid, n))
  BY DEF Scrambled
<1>3. \A n \in 1 .. Len(text) : s[n] \in Int
  <2> TAKE n \in 1 .. Len(text)
  <2>1. text[n] \in Int /\ By(rval, uid, n) \in Int
    BY <1>1
  <2> QED BY <1>2, <2>1, ScrambledBack
<1>4. s \in Seq(Int) /\ Len(s) = Len(text)
  <2>1. s = [n \in 1 .. Len(text) |-> s[n]]
    BY DEF Scrambled
  <2> HIDE DEF s
  <2>2. s \in [1 .. Len(text) -> Int]
    BY <1>3, <2>1
  <2> QED BY <2>2
<1>5. DOMAIN u = 1 .. Len(text) /\ \A n \in 1 .. Len(text) : u[n] = Unscramble(s[n], By(rval, uid, n))
  BY <1>2 DEF Unscrambled
<1>6. \A n \in 1 .. Len(text) : u[n] = text[n]
  BY <1>1, <1>2, <1>5, ScrambledBack
<1>7. u = [n \in 1 .. Len(text) |-> u[n]]
  BY <1>2 DEF Unscrambled
<1> HIDE DEF s, u
<1>8. u = text
  BY <1>6, <1>7
<1> QED BY <1>4, <1>8 DEF s, u

\* What obfiEncode makes of the scrambled text, and where its parts are.
CodeOf(s, x, y) == <<x>> \o SubSeq(s, 1, 5) \o <<y>> \o SubSeq(s, 6, Len(s))

LEMMA CodeParts ==
  ASSUME NEW s \in Seq(Int), Len(s) >= 5, NEW x \in Int, NEW y \in Int
  PROVE  LET made == CodeOf(s, x, y)
         IN  /\ Len(made) >= 7 /\ made[1] = x /\ made[7] = y
             /\ SubSeq(made, 2, 6) \o SubSeq(made, 8, Len(made)) = s
<1> DEFINE a == SubSeq(s, 1, 5)
           b == SubSeq(s, 6, Len(s))
           f == <<x>>
           l == <<y>>
           g == f \o a
           h == g \o l
           made == CodeOf(s, x, y)
           d == SubSeq(made, 2, 6)
           e == SubSeq(made, 8, Len(made))
<1>1. Len(s) \in Nat
  OBVIOUS
<1>2. IsCut(Int, a, s, 1, 5) /\ IsCut(Int, b, s, 5 + 1, Len(s))
  <2>1. 6 = 5 + 1 /\ 6 \in Nat \ {0} /\ 6 <= Len(s) + 1 /\ 1 \in Nat \ {0} /\ 1 <= 5 + 1 /\ 5 \in Nat
    BY <1>1
  <2>2. IsCut(Int, b, s, 6, Len(s))
    BY <1>1, <2>1, Cut
  <2>3. IsCut(Int, a, s, 1, 5)
    BY <1>1, <2>1, Cut
  <2> HIDE DEF a, b
  <2> QED BY <2>1, <2>2, <2>3
<1>3. made = h \o b
  BY DEF CodeOf
<1>4. f \in Seq(Int) /\ Len(f) = 1 /\ f[1] = x /\ l \in Seq(Int) /\ Len(l) = 1 /\ l[1] = y
  OBVIOUS
<1> HIDE DEF a, b, f, l, made
<1>5. a \in Seq(Int) /\ Len(a) = 5 /\ b \in Seq(Int) /\ Len(b) = Len(s) - 5
  BY <1>1, <1>2 DEF IsCut
<1>6. Follows(Int, s, a, b)
  BY <1>1, <1>2, <1>5, CutsFollow
<1>7. Follows(Int, g, f, a)
  BY <1>4, <1>5, Concat
<1> HIDE DEF g
<1>8. g \in Seq(Int)
  BY <1>7 DEF Follows
<1>9. Follows(Int, h, g, l)
  BY <1>4, <1>8, Concat
<1> HIDE DEF h
<1>10. h \in Seq(Int)
  BY <1>9 DEF Follows
<1>11. Follows(Int, made, h, b)
  BY <1>3, <1>5, <1>10, Concat
<1>12. Len(g) = 6 /\ Len(h) = 7 /\ Len(made) = Len(s) + 2 /\ made \in Seq(Int)
  BY <1>1, <1>4, <1>5, <1>7, <1>9, <1>11 DEF Follows
<1>13. \A i \in 1 .. 7 : made[i] = h[i]
  BY <1>11, <1>12 DEF Follows
<1>14. \A i \in 1 .. 6 : h[i] = g[i]
  BY <1>9, <1>12 DEF Follows
<1>15. made[1] = x
  <2>1. g[1] = f[1]
    BY <1>4, <1>7 DEF Follows
  <2>2. made[1] = h[1] /\ h[1] = g[1]
    BY <1>13, <1>14
  <2> QED BY <1>4, <2>1, <2>2
<1>16. made[7] = y
  <2>1. 6 + 1 = 7
    OBVIOUS
  <2> QED BY <1>4, <1>9, <1>12, <1>13, <2>1 DEF Follows
<1>17. e = b
  <2>1. 7 + 1 = 8
    OBVIOUS
  <2>2. SubSeq(made, Len(h) + 1, Len(made)) = b
    BY <1>5, <1>10, <1>11, FollowsCut
  <2> QED BY <1>12, <2>1, <2>2
<1>18. d = a
  <2>1. IsCut(Int, d, made, 2, 6)
    <3>1. 2 \in Nat \ {0} /\ 6 \in Nat /\ 2 <= 6 + 1 /\ 6 <= Len(made)
      BY <1>1, <1>12
    <3> QED BY <1>12, <3>1, Cut
  <2> HIDE DEF d
  <2>2. d \in Seq(Int) /\ Len(d) = 5
    BY <2>1 DEF IsCut
  <2>3. ASSUME NEW i \in 1 .. 5
        PROVE  d[i] = a[i]
    <3>1. i \in 1 .. 6 - 2 + 1 /\ 2 + i - 1 = 1 + i /\ 1 + i \in 1 .. 6 /\ 1 + i \in 1 .. 7
      OBVIOUS
    <3>2. d[i] = made[1 + i]
      BY <2>1, <3>1 DEF IsCut
    <3>3. made[1 + i] = g[1 + i]
      BY <1>13, <1>14, <3>1
    <3>4. g[1 + i] = a[i]
      BY <1>4, <1>5, <1>7 DEF Follows
    <3> QED BY <3>2, <3>3, <3>4
  <2> QED BY <1>5, <2>2, <2>3, SeqEqual
<1> HIDE DEF d, e
<1>19. d \o e = s
  <2>1. Follows(Int, a \o b, a, b)
    BY <1>5, Concat
  <2>2. Len(a) \in Nat /\ Len(b) \in Nat
    BY <1>1, <1>5
  <2>3. a \o b = s
    BY <1>6, <2>1, <2>2, SameFollows
  <2> QED BY <1>17, <1>18, <2>3
<1>20. Len(made) >= 7
  BY <1>1, <1>12
<1> QED BY <1>15, <1>16, <1>19, <1>20 DEF made, d, e

\* What is read of a text that was scrambled by the time: the text, if the
\* times are found near, and the code as it is if they are not.
DecodedTo(made, near, text) ==
  IF near THEN [status |-> "ok", out |-> text]
  ELSE [status |-> AUTH_FILE_NOT_ENCRYPTED, out |-> made]

LEMMA BackByTime ==
  ASSUME NEW text \in Seq(Int), NEW rval \in 0 .. 15, NEW uid \in Nat,
         NEW saved \in Nat, encodedTime(headstring(rval, saved)) = saved, NEW time
  PROVE  LET made == obfiEncode(text, rval, uid, saved)
         IN  obfiDecode(made, uid, time) = DecodedTo(made, obfiTimeCheck(saved, time), text)
<1> DEFINE head == headstring(rval, saved)
           t == head \o text
           s == Scrambled(t, rval, uid)
           made == obfiEncode(text, rval, uid, saved)
<1>1. IsHead(head, rval)
  BY HeadType
<1>2. encodedTime(head) = saved
  OBVIOUS
<1>3. made = <<46>> \o SubSeq(s, 1, 5) \o <<101 + rval>> \o SubSeq(s, 6, Len(t))
  BY DEF obfiEncode, Scrambled
<1> HIDE DEF head, made
<1>4. /\ t \in Seq(Int) /\ Len(t) = 5 + Len(text)
      /\ SubSeq(t, 1, 5) = head /\ SubSeq(t, 6, Len(t)) = text
  <2>0. head \in Seq(Int) /\ Len(head) = 5
    BY <1>1 DEF IsHead
  <2>1. Follows(Int, t, head, text)
    BY <2>0, Concat
  <2> HIDE DEF t
  <2>2. SubSeq(t, 1, Len(head)) = head /\ SubSeq(t, Len(head) + 1, Len(t)) = text
    BY <2>0, <2>1, FollowsCut
  <2>3. 5 + 1 = 6
    OBVIOUS
  <2> QED BY <2>0, <2>1, <2>2, <2>3 DEF Follows
<1> HIDE DEF t
<1>5. s \in Seq(Int) /\ Len(s) = Len(t) /\ Unscrambled(s, rval, uid) = t
  BY <1>4, TextBack
<1> HIDE DEF s
<1>6. made = CodeOf(s, 46, 101 + rval)
  BY <1>3, <1>5 DEF CodeOf
<1>7. /\ Len(made) >= 7 /\ made[1] = 46 /\ made[7] = 101 + rval
      /\ SubSeq(made, 2, 6) \o SubSeq(made, 8, Len(made)) = s
  <2> DEFINE y == 101 + rval
  <2>1. Len(s) >= 5 /\ 46 \in Int /\ y \in Int
    BY <1>4, <1>5
  <2>2. made = CodeOf(s, 46, y)
    BY <1>6
  <2> HIDE DEF y
  <2>3. LET c == CodeOf(s, 46, y)
        IN  /\ Len(c) >= 7 /\ c[1] = 46 /\ c[7] = y
            /\ SubSeq(c, 2, 6) \o SubSeq(c, 8, Len(c)) = s
    BY <1>5, <2>1, CodeParts
  <2> QED BY <2>2, <2>3 DEF y
<1> DEFINE k == made[7] - 101
           joined == SubSeq(made, 2, 6) \o SubSeq(made, 8, Len(made))
           plain == Unscrambled(joined, k, uid)
           first == SubSeq(plain, 1, 5)
           refused == \/ Len(made) < 7 \/ k \notin 0 .. 15
                      \/ made[1] # 46
                      \/ first[1] # FirstOf(k)
                      \/ ~obfiTimeCheck(encodedTime(first), time)
<1>8. obfiDecode(made, uid, time) =
        IF refused THEN [status |-> AUTH_FILE_NOT_ENCRYPTED, out |-> made]
        ELSE [status |-> "ok", out |-> SubSeq(plain, 6, Len(plain))]
  BY DEF obfiDecode, Unscrambled, FirstOf
<1> HIDE DEF joined
<1>9. k = rval /\ joined = s
  BY <1>7 DEF joined
<1> HIDE DEF k
<1>10. plain = t
  BY <1>5, <1>9
<1> HIDE DEF plain
<1>11. first = head
  BY <1>4, <1>10
<1> HIDE DEF first
<1>12. first[1] = FirstOf(k) /\ encodedTime(first) = saved
  BY <1>1, <1>2, <1>9, <1>11 DEF IsHead
<1>13. refused <=> ~obfiTimeCheck(saved, time)
  <2>1. ~(Len(made) < 7) /\ ~(k \notin 0 .. 15) /\ ~(made[1] # 46)
    BY <1>7, <1>9
  <2> QED BY <1>12, <2>1
<1> HIDE DEF refused
<1>14. SubSeq(plain, 6, Len(plain)) = text
  BY <1>4, <1>10
<1>15. obfiDecode(made, uid, time) =
         IF ~obfiTimeCheck(saved, time)
         THEN [status |-> AUTH_FILE_NOT_ENCRYPTED, out |-> made]
         ELSE [status |-> "ok", out |-> text]
  <2>1. CASE refused
    BY <1>8, <1>13, <2>1
  <2>2. CASE ~refused
    BY <1>8, <1>13, <1>14, <2>2
  <2> QED BY <2>1, <2>2
<1> QED BY <1>15 DEF made, DecodedTo

-----------------------------------------------------------------------------
(* The chain of obfEncodeByKey: the cipher carries it to the other side.   *)

\* pc after one more character.
EncodeNext(in, bytes, chaining, n, p) ==
  IF chaining /\ OnWheel(in[n]) THEN Scramble(in[n], KeyByte(bytes, n) + p) ELSE p
DecodeNext(cipher, chaining, n, p) == IF chaining /\ OnWheel(cipher[n]) THEN cipher[n] ELSE p

\* The bytes of a hash are numbers.
LEMMA KeyByteType ==
  ASSUME NEW bytes \in [1 .. 64 -> 0 .. 255], NEW n \in Nat \ {0}
  PROVE  KeyByte(bytes, n) \in Int
<1> DEFINE k == ((n - 1) % 61) + 1
<1>1. k \in 1 .. 64
  BY SMT
<1>2. KeyByte(bytes, n) = bytes[k]
  BY DEF KeyByte
<1> HIDE DEF k
<1> QED BY <1>1, <1>2

\* The chains exist, since they go on by one step from 0.
LEMMA EncodeChainFacts ==
  ASSUME NEW in \in Seq(Int), NEW bytes \in [1 .. 64 -> 0 .. 255], NEW chaining \in BOOLEAN
  PROVE  LET pc == EncodeChain(in, bytes, chaining)
         IN  /\ pc[0] = 0 /\ \A n \in 0 .. Len(in) : pc[n] \in Int
             /\ \A n \in 1 .. Len(in) : pc[n] = EncodeNext(in, bytes, chaining, n, pc[n - 1])
<1> DEFINE N == Len(in)
           d == [n \in 1 .. N |-> [p \in Int |-> EncodeNext(in, bytes, chaining, n, p)]]
           Step(f) == [n \in 0 .. N |->
                         IF n = 0 THEN 0 ELSE EncodeNext(in, bytes, chaining, n, f[n - 1])]
           w == CHOOSE f : f = Step(f)
<1>1. N \in Nat
  OBVIOUS
<1>2. d \in [1 .. N -> [Int -> Int]]
  <2>1. ASSUME NEW n \in 1 .. N, NEW p \in Int
        PROVE  EncodeNext(in, bytes, chaining, n, p) \in Int
    <3>1. n \in Nat \ {0}
      OBVIOUS
    <3>2. KeyByte(bytes, n) \in Int
      BY <3>1, KeyByteType
    <3>3. KeyByte(bytes, n) + p \in Int
      BY <3>2
    <3>4. in[n] \in Int
      OBVIOUS
    <3> QED BY <3>3, <3>4, ScrambledBack DEF EncodeNext
  <2> QED BY <2>1
<1>3. PICK f : Iterates(f, N, Int, 0, d)
  <2> HIDE DEF d, N
  <2>1. 0 \in Int
    OBVIOUS
  <2> QED BY <1>1, <1>2, <2>1, IteratesExist
<1>4. f = Step(f)
  <2>1. f \in [0 .. N -> Int] /\ f[0] = 0
    BY <1>3 DEF Iterates
  <2>2. ASSUME NEW n \in 1 .. N
        PROVE  f[n] = EncodeNext(in, bytes, chaining, n, f[n - 1])
    <3>1. f[n] = d[n][f[n - 1]]
      BY <1>3 DEF Iterates
    <3>2. f[n - 1] \in Int
      <4>1. n - 1 \in 0 .. N
        BY <1>1
      <4> QED BY <2>1, <4>1
    <3> QED BY <3>1, <3>2
  <2> HIDE DEF d
  <2> QED BY <1>1, <2>1, <2>2
<1>5. w = Step(w)
  BY <1>4
<1>6. EncodeChain(in, bytes, chaining) = w
  BY DEF EncodeChain, EncodeNext
<1> HIDE DEF w
<1>7. /\ w[0] = 0
      /\ \A n \in 1 .. N : w[n] = EncodeNext(in, bytes, chaining, n, w[n - 1])
  <2>1. \A n \in 0 .. N : w[n] = IF n = 0 THEN 0 ELSE EncodeNext(in, bytes, chaining, n, w[n - 1])
    BY <1>5
  <2>2. 0 \in 0 .. N /\ \A n \in 1 .. N : n \in 0 .. N /\ n # 0
    BY <1>1
  <2> QED BY <2>1, <2>2
<1> DEFINE T == {n \in Nat : w[n] \in Int}
<1>8. 0 \in T
  BY <1>7
<1>9. ASSUME NEW n \in 0 .. N - 1, n \in T
      PROVE  n + 1 \in T
  <2>1. n + 1 \in 1 .. N /\ (n + 1) - 1 = n
    BY <1>1
  <2>2. w[n + 1] = EncodeNext(in, bytes, chaining, n + 1, w[n])
    BY <1>7, <2>1
  <2>3. w[n] \in Int
    BY <1>9
  <2>4. EncodeNext(in, bytes, chaining, n + 1, w[n]) = d[n + 1][w[n]]
    BY <2>1, <2>3
  <2> HIDE DEF d
  <2>5. d[n + 1][w[n]] \in Int
    BY <1>2, <2>1, <2>3
  <2> QED BY <2>2, <2>4, <2>5
<1> HIDE DEF T
<1>10. \A n \in 0 .. N : n \in T
  BY <1>1, <1>8, <1>9, BoundedInduction
<1>11. \A n \in 0 .. N : w[n] \in Int
  BY <1>10 DEF T
<1> QED BY <1>6, <1>7, <1>11

LEMMA DecodeChainFacts ==
  ASSUME NEW cipher \in Seq(Int), NEW chaining \in BOOLEAN
  PROVE  LET pc == DecodeChain(cipher, chaining)
         IN  /\ pc[0] = 0
             /\ \A n \in 1 .. Len(cipher) : pc[n] = DecodeNext(cipher, chaining, n, pc[n - 1])
<1> DEFINE N == Len(cipher)
           d == [n \in 1 .. N |-> [p \in Int |-> DecodeNext(cipher, chaining, n, p)]]
           Step(f) == [n \in 0 .. N |->
                         IF n = 0 THEN 0 ELSE DecodeNext(cipher, chaining, n, f[n - 1])]
           w == CHOOSE f : f = Step(f)
<1>1. N \in Nat
  OBVIOUS
<1>2. d \in [1 .. N -> [Int -> Int]]
  BY DEF DecodeNext
<1>3. PICK f : Iterates(f, N, Int, 0, d)
  <2> HIDE DEF d, N
  <2>1. 0 \in Int
    OBVIOUS
  <2> QED BY <1>1, <1>2, <2>1, IteratesExist
<1>4. f = Step(f)
  <2>1. f \in [0 .. N -> Int] /\ f[0] = 0
    BY <1>3 DEF Iterates
  <2>2. ASSUME NEW n \in 1 .. N
        PROVE  f[n] = DecodeNext(cipher, chaining, n, f[n - 1])
    <3>1. f[n] = d[n][f[n - 1]]
      BY <1>3 DEF Iterates
    <3>2. f[n - 1] \in Int
      <4>1. n - 1 \in 0 .. N
        BY <1>1
      <4> QED BY <2>1, <4>1
    <3> QED BY <3>1, <3>2
  <2> HIDE DEF d
  <2> QED BY <1>1, <2>1, <2>2
<1>5. w = Step(w)
  BY <1>4
<1>6. DecodeChain(cipher, chaining) = w
  BY DEF DecodeChain, DecodeNext
<1> HIDE DEF w
<1>7. /\ w[0] = 0
      /\ \A n \in 1 .. N : w[n] = DecodeNext(cipher, chaining, n, w[n - 1])
  <2>1. \A n \in 0 .. N : w[n] = IF n = 0 THEN 0 ELSE DecodeNext(cipher, chaining, n, w[n - 1])
    BY <1>5
  <2>2. 0 \in 0 .. N /\ \A n \in 1 .. N : n \in 0 .. N /\ n # 0
    BY <1>1
  <2> QED BY <2>1, <2>2
<1> QED BY <1>6, <1>7

\* What is encoded with 64 bytes of a hash is decoded with the same bytes.
LEMMA DecodedEncoded ==
  ASSUME NEW in \in Seq(Int), NEW bytes \in [1 .. 64 -> 0 .. 255], NEW chaining \in BOOLEAN
  PROVE  /\ Encoded(in, bytes, chaining) \in Seq(Int)
         /\ Len(Encoded(in, bytes, chaining)) = Len(in)
         /\ Decoded(Encoded(in, bytes, chaining), bytes, chaining) = in
<1> DEFINE pc == EncodeChain(in, bytes, chaining)
           s == Encoded(in, bytes, chaining)
           qc == DecodeChain(s, chaining)
           u == Decoded(s, bytes, chaining)
           N == Len(in)
<1>1. /\ pc[0] = 0 /\ \A n \in 0 .. N : pc[n] \in Int
      /\ \A n \in 1 .. N : pc[n] = EncodeNext(in, bytes, chaining, n, pc[n - 1])
  BY EncodeChainFacts
<1>2. s = [n \in 1 .. N |-> Scramble(in[n], KeyByte(bytes, n) + pc[n - 1])]
  BY DEF Encoded
<1>3. u = [n \in 1 .. Len(s) |-> Unscramble(s[n], KeyByte(bytes, n) + qc[n - 1])]
  BY DEF Decoded
<1> HIDE DEF pc, s, qc, u
<1>4. N \in Nat /\ \A n \in 1 .. N : s[n] = Scramble(in[n], KeyByte(bytes, n) + pc[n - 1])
  BY <1>2
<1>5. ASSUME NEW n \in 1 .. N
      PROVE  /\ s[n] \in Int /\ in[n] \in Int /\ KeyByte(bytes, n) + pc[n - 1] \in Int
             /\ OnWheel(s[n]) <=> OnWheel(in[n])
             /\ Unscramble(s[n], KeyByte(bytes, n) + pc[n - 1]) = in[n]
  <2>1. KeyByte(bytes, n) \in Int
    <3>1. n \in Nat \ {0}
      BY <1>4
    <3> QED BY <3>1, KeyByteType
  <2>2. pc[n - 1] \in Int
    <3>1. n - 1 \in 0 .. N
      BY <1>4
    <3> QED BY <1>1, <3>1
  <2> DEFINE by == KeyByte(bytes, n) + pc[n - 1]
             c == in[n]
  <2>3. by \in Int
    BY <2>1, <2>2
  <2>4. c \in Int
    BY <1>4
  <2>5. s[n] = Scramble(c, by)
    BY <1>4
  <2> HIDE DEF by, c
  <2>6. /\ s[n] \in Int
        /\ OnWheel(s[n]) <=> OnWheel(c)
        /\ Unscramble(s[n], by) = c
    BY <2>3, <2>4, <2>5, ScrambledBack
  <2> QED BY <2>3, <2>4, <2>6 DEF by, c
<1>6. s \in Seq(Int) /\ Len(s) = N
  <2>1. s \in [1 .. N -> Int]
    BY <1>2, <1>5
  <2> HIDE DEF N
  <2> QED BY <1>4, <2>1, FunctionIsSeq
<1>7. qc[0] = 0 /\ \A n \in 1 .. N : qc[n] = DecodeNext(s, chaining, n, qc[n - 1])
  BY <1>6, DecodeChainFacts DEF qc
<1> DEFINE T == {n \in Nat : pc[n] = qc[n]}
<1>8. 0 \in T
  BY <1>1, <1>7
<1>9. ASSUME NEW n \in 0 .. N - 1, n \in T
      PROVE  n + 1 \in T
  <2>1. n + 1 \in 1 .. N /\ (n + 1) - 1 = n
    BY <1>4
  <2>2. pc[n + 1] = EncodeNext(in, bytes, chaining, n + 1, pc[n])
    BY <1>1, <2>1
  <2>3. qc[n + 1] = DecodeNext(s, chaining, n + 1, qc[n])
    BY <1>7, <2>1
  <2>4. OnWheel(s[n + 1]) <=> OnWheel(in[n + 1])
    BY <1>5, <2>1
  <2>5. s[n + 1] = Scramble(in[n + 1], KeyByte(bytes, n + 1) + pc[n])
    BY <1>4, <2>1
  <2>6. pc[n] = qc[n]
    BY <1>9
  <2>7. pc[n + 1] = qc[n + 1]
    BY <2>2, <2>3, <2>4, <2>5, <2>6 DEF EncodeNext, DecodeNext
  <2> QED BY <2>7
<1> HIDE DEF T
<1>10. \A n \in 0 .. N : n \in T
  BY <1>4, <1>8, <1>9, BoundedInduction
<1>11. \A n \in 0 .. N : pc[n] = qc[n]
  BY <1>10 DEF T
<1>12. \A n \in 1 .. N : u[n] = in[n]
  <2> TAKE n \in 1 .. N
  <2>1. pc[n - 1] = qc[n - 1]
    <3>1. n - 1 \in 0 .. N
      BY <1>4
    <3> QED BY <1>11, <3>1
  <2>2. u[n] = Unscramble(s[n], KeyByte(bytes, n) + qc[n - 1])
    BY <1>3, <1>6
  <2> QED BY <1>5, <2>1, <2>2
<1>13. u = in
  <2>1. u = [n \in 1 .. N |-> u[n]]
    BY <1>3, <1>6
  <2> QED BY <1>12, <2>1
<1> QED BY <1>6, <1>13 DEF s, u

-----------------------------------------------------------------------------
(* With keys.                                                              *)

Digests == [1 .. 64 -> 0 .. 255]

\* A reader finds what was scrambled behind the head of the hash type, whatever
\* key it has.
LEMMA CipherFound ==
  ASSUME NEW text \in Seq(Int), NEW key, NEW sender \in HashTypes, NEW chaining \in BOOLEAN,
         Hash(sender, key) \in Digests,
         sender = HASH_TYPE_MD5 => ~IsSha1(obfEncodeByKey(text, key, sender, chaining)),
         NEW other, NEW chained
  PROVE  obfDecodeByKey(obfEncodeByKey(text, key, sender, chaining), other, chained) =
           Decoded(Encoded(text, Hash(sender, key), chaining), Hash(sender, other), chained)
<1> DEFINE bytes == Hash(sender, key)
           e == Encoded(text, bytes, chaining)
           made == obfEncodeByKey(text, key, sender, chaining)
<1>1. bytes \in [1 .. 64 -> 0 .. 255]
  BY DEF Digests
<1> HIDE DEF bytes
<1>2. e \in Seq(Int)
  BY <1>1, DecodedEncoded
<1>3. made = (IF sender = HASH_TYPE_SHA1 THEN sha1 ELSE << >>) \o e
  BY DEF obfEncodeByKey, bytes
<1>4. obfDecodeByKey(made, other, chained) =
        Decoded(IF IsSha1(made) THEN SubSeq(made, 5, Len(made)) ELSE made,
                Hash(IF IsSha1(made) THEN HASH_TYPE_SHA1 ELSE HASH_TYPE_MD5, other), chained)
  BY DEF obfDecodeByKey
<1> HIDE DEF e
<1>5. CASE sender = HASH_TYPE_SHA1
  <2>1. made = sha1 \o e
    BY <1>3, <1>5
  <2>2. sha1 \in Seq(Int) /\ Len(sha1) = 4
    BY DEF sha1
  <2>3. Follows(Int, made, sha1, e)
    BY <1>2, <2>1, <2>2, Concat
  <2> HIDE DEF made
  <2>4. SubSeq(made, 1, Len(sha1)) = sha1 /\ SubSeq(made, Len(sha1) + 1, Len(made)) = e
    BY <1>2, <2>2, <2>3, FollowsCut
  <2>5. Len(made) >= 4
    BY <1>2, <2>2, <2>3 DEF Follows
  <2>6. 4 + 1 = 5
    OBVIOUS
  <2>7. IsSha1(made) /\ SubSeq(made, 5, Len(made)) = e
    BY <2>2, <2>4, <2>5, <2>6 DEF IsSha1
  <2>8. obfDecodeByKey(made, other, chained) = Decoded(e, Hash(sender, other), chained)
    BY <1>4, <1>5, <2>7
  <2> QED BY <2>8 DEF made, e, bytes
<1>6. CASE sender = HASH_TYPE_MD5
  <2>1. sender # HASH_TYPE_SHA1
    BY <1>6 DEF HASH_TYPE_MD5, HASH_TYPE_SHA1
  <2>2. made = << >> \o e
    BY <1>3, <2>1
  <2>3. made = e
    BY <1>2, <2>2, ConcatEmptySeq
  <2>4. ~IsSha1(made)
    BY <1>6
  <2> HIDE DEF made
  <2>5. obfDecodeByKey(made, other, chained) = Decoded(e, Hash(sender, other), chained)
    BY <1>4, <1>6, <2>3, <2>4
  <2> QED BY <2>5 DEF made, e, bytes
<1> QED BY <1>5, <1>6 DEF HashTypes

\* With one key, what is not taken for another hash type comes back.
LEMMA ByKeyBack ==
  ASSUME NEW text \in Seq(Int), NEW key, NEW sender \in HashTypes, NEW chaining \in BOOLEAN,
         Hash(sender, key) \in Digests,
         sender = HASH_TYPE_MD5 => ~IsSha1(obfEncodeByKey(text, key, sender, chaining))
  PROVE  obfDecodeByKey(obfEncodeByKey(text, key, sender, chaining), key, chaining) = text
<1> DEFINE bytes == Hash(sender, key)
<1>1. bytes \in [1 .. 64 -> 0 .. 255]
  BY DEF Digests
<1>2. obfDecodeByKey(obfEncodeByKey(text, key, sender, chaining), key, chaining) =
        Decoded(Encoded(text, bytes, chaining), bytes, chaining)
  BY CipherFound
<1> HIDE DEF bytes
<1> QED BY <1>1, <1>2, DecodedEncoded

\* With any key, what is read has no characters only if the password has none.
LEMMA NothingRead ==
  ASSUME NEW text \in Seq(Int), NEW key, NEW sender \in HashTypes, NEW chaining \in BOOLEAN,
         Hash(sender, key) \in Digests,
         sender = HASH_TYPE_MD5 => ~IsSha1(obfEncodeByKey(text, key, sender, chaining)),
         NEW other, NEW chained,
         obfDecodeByKey(obfEncodeByKey(text, key, sender, chaining), other, chained) = << >>
  PROVE  text = << >>
<1> DEFINE e == Encoded(text, Hash(sender, key), chaining)
           u == Decoded(e, Hash(sender, other), chained)
<1>1. Hash(sender, key) \in [1 .. 64 -> 0 .. 255]
  BY DEF Digests
<1>2. e \in Seq(Int) /\ Len(e) = Len(text)
  BY <1>1, DecodedEncoded
<1>3. u = << >>
  BY CipherFound
<1> HIDE DEF e
<1>4. DOMAIN u = 1 .. Len(e)
  BY DEF Decoded
<1> HIDE DEF u
<1>5. 1 .. Len(e) = {}
  BY <1>3, <1>4
<1>6. Len(text) = 0
  <2>1. Len(e) \in Nat
    BY <1>2
  <2>2. ~(Len(e) >= 1)
    <3>1. Len(e) >= 1 => 1 \in 1 .. Len(e)
      BY <2>1
    <3> QED BY <1>5, <3>1
  <2> QED BY <1>2, <2>1, <2>2
<1> QED BY <1>6, EmptySeq

\* What is cut twice is cut once, at the shorter length.
LEMMA UpToFacts ==
  ASSUME NEW text \in Seq(Int), NEW n \in Nat
  PROVE  /\ UpTo(text, n) \in Seq(Int)
         /\ Len(UpTo(text, n)) = IF Len(text) <= n THEN Len(text) ELSE n
         /\ \A i \in 1 .. Len(UpTo(text, n)) : UpTo(text, n)[i] = text[i]
BY DEF UpTo

LEMMA UpToTwice ==
  ASSUME NEW text \in Seq(Int), NEW m \in Nat, NEW n \in Nat, m <= n
  PROVE  UpTo(UpTo(text, n), m) = UpTo(text, m)
<1> DEFINE a == UpTo(text, n)
           b == UpTo(a, m)
           c == UpTo(text, m)
<1>1. /\ a \in Seq(Int) /\ Len(a) = (IF Len(text) <= n THEN Len(text) ELSE n)
      /\ \A i \in 1 .. Len(a) : a[i] = text[i]
  BY UpToFacts
<1>2. /\ c \in Seq(Int) /\ Len(c) = (IF Len(text) <= m THEN Len(text) ELSE m)
      /\ \A i \in 1 .. Len(c) : c[i] = text[i]
  BY UpToFacts
<1> HIDE DEF a, c
<1>3. /\ b \in Seq(Int) /\ Len(b) = (IF Len(a) <= m THEN Len(a) ELSE m)
      /\ \A i \in 1 .. Len(b) : b[i] = a[i]
  BY <1>1, UpToFacts
<1> HIDE DEF b
<1>4. Len(text) \in Nat
  OBVIOUS
<1>5. Len(b) = Len(c) /\ Len(b) <= Len(a) /\ Len(a) \in Nat
  BY <1>1, <1>2, <1>3, <1>4
<1>6. ASSUME NEW i \in 1 .. Len(b) PROVE b[i] = c[i]
  BY <1>1, <1>2, <1>3, <1>5
<1> QED BY <1>2, <1>3, <1>5, <1>6, SeqEqual DEF a, b, c

LEMMA V2PrefixFacts ==
  ASSUME NEW rval \in Int
  PROVE  LET prefix == [V2_Prefix EXCEPT ![1] = @ + rval]
         IN  /\ prefix \in Seq(Int) /\ Len(prefix) = 7
             /\ \A i \in 2 .. 7 : prefix[i] = V2_Prefix[i]
             /\ V2_Prefix \in Seq(Int) /\ Len(V2_Prefix) = 7
BY DEF V2_Prefix

\* A text with the prefix is seen to be one of the second version, and cut.
LEMMA Prefixed ==
  ASSUME NEW text \in Seq(Int), NEW rval \in Int, NEW out,
         Follows(Int, out, [V2_Prefix EXCEPT ![1] = @ + rval], text)
  PROVE  IsV2(out) /\ SubSeq(out, 8, Len(out)) = text
<1> DEFINE prefix == [V2_Prefix EXCEPT ![1] = @ + rval]
           u == SubSeq(out, 2, 7)
           v == SubSeq(V2_Prefix, 2, 7)
<1>1. /\ prefix \in Seq(Int) /\ Len(prefix) = 7 /\ \A i \in 2 .. 7 : prefix[i] = V2_Prefix[i]
      /\ V2_Prefix \in Seq(Int) /\ Len(V2_Prefix) = 7
  BY V2PrefixFacts
<1>2. Follows(Int, out, prefix, text)
  OBVIOUS
<1> HIDE DEF prefix
<1>3. SubSeq(out, Len(prefix) + 1, Len(out)) = text
  BY <1>1, <1>2, FollowsCut
<1>4. out \in Seq(Int) /\ Len(out) >= 7 /\ \A i \in 1 .. 7 : out[i] = prefix[i]
  BY <1>1, <1>2 DEF Follows
<1>5. IsCut(Int, u, out, 2, 7) /\ IsCut(Int, v, V2_Prefix, 2, 7)
  <2>1. 2 \in Nat \ {0} /\ 7 \in Nat /\ 2 <= 7 + 1 /\ 7 <= Len(V2_Prefix) /\ 7 <= Len(out)
    BY <1>1, <1>4
  <2> QED BY <1>1, <1>4, <2>1, Cut
<1> HIDE DEF u, v
<1>6. u \in Seq(Int) /\ v \in Seq(Int) /\ Len(u) = 6 /\ Len(v) = 6
  BY <1>5 DEF IsCut
<1>7. ASSUME NEW i \in 1 .. 6
      PROVE  u[i] = v[i]
  <2>1. i \in 1 .. 7 - 2 + 1 /\ 2 + i - 1 = 1 + i /\ 1 + i \in 2 .. 7 /\ 1 + i \in 1 .. 7
    OBVIOUS
  <2>2. u[i] = out[1 + i] /\ v[i] = V2_Prefix[1 + i]
    BY <1>5, <2>1 DEF IsCut
  <2>3. out[1 + i] = prefix[1 + i] /\ prefix[1 + i] = V2_Prefix[1 + i]
    BY <1>1, <1>4, <2>1
  <2> QED BY <2>2, <2>3
<1>8. u = v
  BY <1>6, <1>7, SeqEqual
<1>9. 7 + 1 = 8
  OBVIOUS
<1>10. SubSeq(out, 8, Len(out)) = text
  BY <1>1, <1>3, <1>9
<1>11. IsV2(out)
  BY <1>4, <1>8 DEF IsV2, u, v
<1> QED BY <1>10, <1>11

-----------------------------------------------------------------------------
(* The invariant: what is written is the password, scrambled; nothing is   *)
(* asked of the buffer a reader keeps.                                     *)

CodeOfPw ==
  /\ pw.how = "time" => code = obfiEncode(pw.text, pw.rval, pw.uid, pw.saved)
  /\ pw.how = "key" => code = obfEncodeByKey(pw.text, pw.key, pw.sender, FALSE)
  /\ pw.how = "keyV2" =>
       code = obfEncodeByKeyV2(pw.text, pw.key, pw.key2, pw.sender, pw.rval)
CodeInv == pw \in Secrets /\ later \in Nat /\ (coded => CodeOfPw)

\* Each encoding establishes it, and the delay does not touch it.
LEMMA CodeInvHolds == PwCodeSpec => []CodeInv
<1>1. PwCodeInit => CodeInv
  BY DEF PwCodeInit, CodeInv
<1>2. CodeInv /\ [PwCodeNext]_pwCodeVars => CodeInv'
  <2> SUFFICES ASSUME CodeInv, [PwCodeNext]_pwCodeVars PROVE CodeInv'
    OBVIOUS
  <2> USE DEF CodeInv
  <2>1. CASE EncodeByTime
    BY <2>1 DEF EncodeByTime, Written, CodeOfPw
  <2>2. CASE EncodeByKey
    BY <2>2 DEF EncodeByKey, Written, CodeOfPw
  <2>3. CASE EncodeByKeyV2
    BY <2>3 DEF EncodeByKeyV2, Written, CodeOfPw
  <2>4. CASE Rewritten
    BY <2>4, DelaysAssumption DEF Rewritten, CodeOfPw
  <2>5. CASE UNCHANGED pwCodeVars
    BY <2>5 DEF pwCodeVars, CodeOfPw
  <2>6. CASE ReadByKeyV2
    BY <2>6 DEF ReadByKeyV2, CodeOfPw
  <2>7. CASE NextMessage
    BY <2>7 DEF NextMessage
  <2> QED BY <2>1, <2>2, <2>3, <2>4, <2>5, <2>6, <2>7 DEF PwCodeNext
<1> QED BY <1>1, <1>2, PTL DEF PwCodeSpec

LEMMA TextType ==
  ASSUME NEW text \in Seq(Char)
  PROVE  text \in Seq(Int)
<1>1. Len(text) \in Nat /\ text \in [1 .. Len(text) -> Char]
  OBVIOUS
<1>2. \A c \in Char : c \in Int
  BY DEF Char
<1>3. text \in [1 .. Len(text) -> Int]
  BY <1>1, <1>2
<1> QED BY <1>1, <1>3

LEMMA SecretKinds ==
  ASSUME NEW p \in Secrets
  PROVE  IF p.how = "time" THEN p \in ByTime ELSE p \in WithKeys
<1>1. \A x \in ByTime : x.how = "time"
  BY DEF ByTime
<1>2. \A x \in WithKeys : x.how # "time"
  BY DEF WithKeys
<1> QED BY <1>1, <1>2, SecretsAssumption

LEMMA TimeBackHolds == CodeInv => TimeBack
<1> SUFFICES ASSUME CodeInv, coded, pw.how = "time" PROVE ReadInTime
  BY DEF TimeBack
<1> DEFINE saved == pw.saved
           now == (pw.saved + later) % 65536
           back == obfiDecode(code, pw.uid, now)
           near == obfiTimeCheck(saved, now)
<1>1. pw \in ByTime
  BY SecretKinds DEF CodeInv
<1>2. pw.text \in Seq(Char) /\ pw.rval \in 0 .. 15 /\ pw.uid \in Nat /\ saved \in Clock
  BY <1>1 DEF ByTime
<1>3. saved \in Nat /\ saved <= 65535 /\ later \in Nat
  <2>1. saved \in Clock /\ later \in Nat
    BY <1>2 DEF CodeInv
  <2> HIDE DEF saved
  <2>2. saved \in Nat /\ saved <= 65535
    BY <2>1, SMT DEF Clock
  <2> QED BY <2>1, <2>2
<1>4. back = DecodedTo(code, near, pw.text)
  <2>1. encodedTime(headstring(pw.rval, pw.saved)) = pw.saved
    BY <1>3, HeadTime
  <2>2. code = obfiEncode(pw.text, pw.rval, pw.uid, pw.saved)
    BY DEF CodeInv, CodeOfPw
  <2>3. pw.text \in Seq(Int) /\ pw.saved \in Nat
    <3>1. pw.text \in Seq(Char)
      BY <1>1 DEF ByTime
    <3> QED BY <1>3, <3>1, TextType
  <2> HIDE DEF now
  <2> QED BY <1>2, <2>1, <2>2, <2>3, BackByTime
<1>5. later <= 65515 =>
        /\ later < 20 => near
        /\ later = 20 => (near <=> saved + later > 65535)
        /\ later > 20 => ~near
  BY <1>3, TimeChecked
<1> HIDE DEF back, near
<1>6. later < 20 => back = [status |-> "ok", out |-> pw.text]
  BY <1>3, <1>4, <1>5 DEF DecodedTo
<1>7. later = 20 => back = IF pw.saved + later > 65535 THEN [status |-> "ok", out |-> pw.text]
                           ELSE [status |-> AUTH_FILE_NOT_ENCRYPTED, out |-> code]
  BY <1>3, <1>4, <1>5 DEF DecodedTo
<1>8. later > 20 /\ later <= 65515 => back = [status |-> AUTH_FILE_NOT_ENCRYPTED, out |-> code]
  BY <1>3, <1>4, <1>5 DEF DecodedTo
<1> QED BY <1>6, <1>7, <1>8 DEF ReadInTime, back

LEMMA KeyBackHolds == CodeInv => KeyBack
<1> SUFFICES ASSUME CodeInv, coded, pw.how # "time", ~TakenForSha1 PROVE KeyBack
  BY DEF KeyBack
<1>1. pw \in WithKeys
  BY SecretKinds DEF CodeInv
<1>2. /\ pw.how \in {"key", "keyV2"} /\ pw.text \in Seq(Char) /\ pw.key \in Keys /\ pw.key2 \in Keys
      /\ pw.sender \in HashTypes /\ pw.rval \in Int
  <2>1. pw.rval \in 0 .. 31
    BY <1>1 DEF WithKeys
  <2>2. pw.how \in {"key", "keyV2"} /\ pw.text \in Seq(Char) /\ pw.key \in Keys /\ pw.key2 \in Keys
    BY <1>1 DEF WithKeys
  <2>3. pw.sender \in HashTypes
    BY <1>1 DEF WithKeys
  <2>4. pw.rval \in Int
    BY <2>1
  <2> QED BY <2>2, <2>3, <2>4, Zenon
<1>3. pw.text \in Seq(Int)
  BY <1>2, TextType
<1>4. Hash(pw.sender, pw.key) \in Digests /\ Hash(pw.sender, Joined(pw.sender, pw.key, pw.key2)) \in Digests
  BY <1>2, HashAssumption DEF Digests
<1>5. pw.sender = HASH_TYPE_MD5 => ~IsSha1(code)
  BY DEF TakenForSha1
<1>6. CASE pw.how = "key"
  <2>1. code = obfEncodeByKey(pw.text, pw.key, pw.sender, FALSE)
    BY <1>6 DEF CodeInv, CodeOfPw
  <2>2. obfDecodeByKey(code, pw.key, FALSE) = pw.text
    BY <1>2, <1>3, <1>4, <1>5, <2>1, ByKeyBack
  <2>3. ASSUME NEW receiver \in HashTypes, ~TakenForV2(receiver), ~TakenForLast
        PROVE  ReadBy(receiver).out = pw.text /\ ReadBy(receiver).ended
    <3> DEFINE plain == obfDecodeByKey(code, Joined(receiver, pw.key, pw.key2), TRUE)
               left == Over(myOut, plain)
    <3>1. ~IsV2(plain)
      BY <1>6, <2>3 DEF TakenForV2
    <3>2. plain = << >> => pw.text = << >>
      BY <1>2, <1>3, <1>4, <1>5, <2>1, NothingRead
    <3>3. ~IsV2(left)
      <4>1. CASE plain = << >>
        BY <1>6, <2>3, <3>2, <4>1 DEF TakenForLast, Over
      <4>2. CASE plain # << >>
        BY <3>1, <4>2 DEF Over
      <4> QED BY <4>1, <4>2
    <3> QED BY <2>2, <3>3 DEF ReadBy, obfDecodeByKeyV2
  <2>4. pw.how # "keyV2"
    BY <1>6
  <2> QED BY <2>2, <2>3, <2>4 DEF KeyBack
<1>7. CASE pw.how = "keyV2"
  <2> DEFINE prefix == [V2_Prefix EXCEPT ![1] = @ + pw.rval]
             text == UpTo(pw.text, 150)
             t == prefix \o text
             key == Joined(pw.sender, pw.key, pw.key2)
             out == obfDecodeByKey(code, key, TRUE)
             rest == SubSeq(out, 8, Len(out))
  <2>1. code = obfEncodeByKey(t, key, pw.sender, TRUE)
    BY <1>7 DEF CodeInv, CodeOfPw, obfEncodeByKeyV2
  <2>2. prefix \in Seq(Int) /\ Len(prefix) = 7
    BY <1>2, V2PrefixFacts
  <2>3. /\ text \in Seq(Int) /\ Len(pw.text) \in Nat
        /\ Len(text) = IF Len(pw.text) <= 150 THEN Len(pw.text) ELSE 150
    BY <1>3, UpToFacts
  <2> HIDE DEF prefix, text
  <2>4. Follows(Int, t, prefix, text)
    BY <2>2, <2>3, Concat
  <2>5. t \in Seq(Int) /\ t # << >>
    BY <2>2, <2>4 DEF Follows
  <2> HIDE DEF t, key
  <2>6. out = t
    <3>1. Hash(pw.sender, key) \in Digests
      BY <1>4 DEF key
    <3> QED BY <1>2, <1>5, <2>1, <2>5, <3>1, ByKeyBack
  <2>7. IsV2(out) /\ rest = text
    <3>1. Follows(Int, t, [V2_Prefix EXCEPT ![1] = @ + pw.rval], text)
      BY <2>4 DEF prefix
    <3> HIDE DEF out
    <3> QED BY <1>2, <2>3, <2>6, <3>1, Prefixed
  <2>8. Over(myOut, out) = out
    BY <2>5, <2>6 DEF Over
  <2>9. /\ ReadBy(pw.sender).out = UpTo(text, MAX_PASSWORD_LEN)
        /\ ReadBy(pw.sender).ended <=> Len(text) < MAX_PASSWORD_LEN
    BY <2>7, <2>8 DEF ReadBy, obfDecodeByKeyV2, key
  <2>10. UpTo(text, MAX_PASSWORD_LEN) = UpTo(pw.text, MAX_PASSWORD_LEN)
    BY <1>3, UpToTwice DEF text, MAX_PASSWORD_LEN
  <2>11. Len(text) < MAX_PASSWORD_LEN <=> Len(pw.text) < MAX_PASSWORD_LEN
    BY <2>3 DEF MAX_PASSWORD_LEN
  <2>12. pw.how # "key"
    BY <1>7
  <2> QED BY <2>9, <2>10, <2>11, <2>12 DEF KeyBack
<1> QED BY <1>2, <1>6, <1>7

\* A password is read back as it was saved: by the file's reader as long as the
\* times are near; with a key, whatever was read into the buffer before it, but
\* for an empty one of the first version after one of the second; of one of the
\* second version, the first 50 characters.
THEOREM PasswordsAreBack == PwCodeSpec => []PasswordsBack
<1>1. CodeInv => PasswordsBack
  BY TimeBackHolds, KeyBackHolds DEF PasswordsBack
<1> QED BY <1>1, CodeInvHolds, PTL

-----------------------------------------------------------------------------
(* Binary data as text: what the decoder has after any number of codes.    *)

Fewer(a, b) == IF a < b THEN a ELSE b
Octets == Seq(Octet)

\* The first m of a text, and the first g of three bytes.
Start(in, m) == SubSeq(in, 1, m)
First(a, b, c, g) == SubSeq(<<a, b, c>>, 1, g)

\* The decoder after a code.
Filled(st, g, y, t, out) == [st EXCEPT !.g = g, !.y = y, !.t = t, !.out = out]

\* What t holds when j codes of the group i have been read, and g before the
\* code k + 1.
PartOf(in, i, j) ==
  LET c == Group(in, i)
  IN CASE j = 0 -> 0 [] j = 1 -> c[1] [] j = 2 -> 64 * c[1] + c[2]
       [] OTHER -> 64 * (64 * c[1] + c[2]) + c[3]
Left(n, k) == IF k <= Needed(n) THEN 3 ELSE 3 - (k - Needed(n))

\* The decoder when it has read k codes of the text of in.
Decoding(in, st, k) ==
  /\ st.g = Left(Len(in), k) /\ st.y = k % 4 /\ st.t = PartOf(in, k \div 4, k % 4)
  /\ st.out = Start(in, Fewer(3 * (k \div 4), Len(in)))

\* The sets of numbers as bounds.
LEMMA Bounds ==
  ASSUME NEW m \in Nat
  PROVE  \A x : x \in 0 .. m <=> x \in Int /\ x >= 0 /\ x <= m
OBVIOUS

\* A byte and a code, between their bounds.
LEMMA Ranges ==
  /\ \A x : x \in Octet <=> x \in Int /\ x >= 0 /\ x <= 255
  /\ \A x : x \in Sextet <=> x \in Int /\ x >= 0 /\ x <= 63
<1> DEFINE o == 255
           s == 63
<1>1. o \in Nat /\ o = 255 /\ s \in Nat /\ s = 63
  OBVIOUS
<1>2. Octet = 0 .. o /\ Sextet = 0 .. s
  BY DEF Octet, Sextet
<1> HIDE DEF o, s
<1>3. /\ \A x : x \in Octet <=> x \in Int /\ x >= 0 /\ x <= o
      /\ \A x : x \in Sextet <=> x \in Int /\ x >= 0 /\ x <= s
  BY <1>1, <1>2, Bounds
<1> QED BY <1>1, <1>3

LEMMA NaturalCodes == \A x \in Sextet : x \in Nat
BY Ranges

\* What at most three codes add up to.
LEMMA CodesAreBits ==
  ASSUME NEW a \in Sextet, NEW b \in Sextet, NEW c \in Sextet
  PROVE  0 \in Bits /\ a \in Bits /\ 64 * a + b \in Bits /\ 64 * (64 * a + b) + c \in Bits
<1>1. /\ a \in Nat /\ a < 64 /\ b \in Nat /\ b < 64 /\ c \in Nat /\ c < 64
  BY Ranges
<1> QED BY <1>1 DEF Bits

\* Neither padding nor a line break is a code.
LEMMA NoCodes == \A x \in Sextet : x # Pad /\ x # Other
BY Ranges DEF Pad, Other

\* From one code to the next, in its group or at its end.
LEMMA Parts ==
  ASSUME NEW k \in Nat
  PROVE  /\ k \div 4 \in Nat /\ k % 4 \in 0 .. 3 /\ k = 4 * (k \div 4) + (k % 4)
         /\ k % 4 < 3 => (k + 1) \div 4 = k \div 4 /\ (k + 1) % 4 = (k % 4) + 1
         /\ k % 4 = 3 => (k + 1) \div 4 = (k \div 4) + 1 /\ (k + 1) % 4 = 0
OBVIOUS

\* The padding that is left, and the bytes the group at the end has.
LEMMA Thirds ==
  ASSUME NEW n \in Nat, NEW k \in Nat, k < len2(n)
  PROVE  /\ 3 * (k \div 4) < n
         /\ Left(n, k + 1) \in 1 .. 3 /\ Left(n, k) \in 1 .. 3
         /\ k + 1 > Needed(n) => Left(n, k + 1) = Left(n, k) - 1
         /\ k + 1 <= Needed(n) => Left(n, k + 1) = 3 /\ Left(n, k) = 3
         /\ k % 4 = 3 => Left(n, k + 1) = Fewer(3, n - 3 * (k \div 4))
<1> DEFINE q == k \div 4
           m == (n + 2) \div 3
           u == (4 * n + 2) \div 3
<1>1. q \in Nat /\ k >= 4 * q /\ k <= 4 * q + 3 /\ (k % 4 = 3 => k = 4 * q + 3)
  BY Parts
<1>2. m \in Nat /\ 3 * m <= n + 2 /\ n <= 3 * m
  OBVIOUS
<1>3. u \in Nat /\ 3 * u <= 4 * n + 2 /\ 4 * n <= 3 * u
  OBVIOUS
<1>4. len2(n) = 4 * m /\ Needed(n) = u
  BY DEF len2, Needed
<1> HIDE DEF m, u, q
<1> QED BY <1>1, <1>2, <1>3, <1>4 DEF Left, Fewer, q

\* A group is four codes of three bytes.
LEMMA GroupCodes ==
  ASSUME NEW in \in Octets, NEW i \in Nat
  PROVE  /\ \A j \in Nat \ {0} : ByteAt(in, j) \in Octet /\ (j > Len(in) => ByteAt(in, j) = 0)
         /\ \A j \in 1 .. 4 : Group(in, i)[j] \in Sextet
<1>1. \A j \in Nat \ {0} : ByteAt(in, j) \in Octet /\ (j > Len(in) => ByteAt(in, j) = 0)
  <2> SUFFICES ASSUME NEW j \in Nat \ {0}, j <= Len(in)
               PROVE  in[j] \in Octet
    BY Ranges DEF ByteAt, Octets
  <2>1. j \in 1 .. Len(in)
    BY DEF Octets
  <2> QED BY <2>1, ElementOfSeq DEF Octets
<1>2. ASSUME NEW a \in Octet, NEW b \in Octet, NEW c \in Octet, NEW j \in 1 .. 4
      PROVE  Codes(a, b, c)[j] \in Sextet
  <2>1. /\ a \in Int /\ a >= 0 /\ a <= 255 /\ b \in Int /\ b >= 0 /\ b <= 255
        /\ c \in Int /\ c >= 0 /\ c <= 255
    BY <1>2, Ranges
  <2>2. a \div 4 \in Sextet /\ c % 64 \in Sextet
    BY <2>1, Ranges
  <2>3. 16 * (a % 4) + b \div 16 \in Sextet /\ 4 * (b % 16) + c \div 64 \in Sextet
    BY <2>1, Ranges
  <2> QED BY <2>2, <2>3 DEF Codes
<1> DEFINE a == ByteAt(in, 3 * i + 1)
           b == ByteAt(in, 3 * i + 2)
           c == ByteAt(in, 3 * i + 3)
<1>3. a \in Octet /\ b \in Octet /\ c \in Octet /\ Group(in, i) = Codes(a, b, c)
  BY <1>1 DEF Group
<1> HIDE DEF a, b, c
<1> QED BY <1>1, <1>2, <1>3

LEMMA Split4 == \A x \in Nat : x \div 4 \in Nat /\ x % 4 \in Nat /\ x = 4 * (x \div 4) + (x % 4)
OBVIOUS

LEMMA Split16 == \A x \in Nat : x \div 16 \in Nat /\ x % 16 \in Nat /\ x = 16 * (x \div 16) + (x % 16)
OBVIOUS

LEMMA Split64 == \A x \in Nat : x \div 64 \in Nat /\ x % 64 \in Nat /\ x = 64 * (x \div 64) + (x % 64)
OBVIOUS

\* The number three bytes make, and four codes.
Bytes3(a, b, c) == 65536 * a + 256 * b + c
Codes4(d) == 64 * (64 * (64 * d[1] + d[2]) + d[3]) + d[4]

\* The bytes of a group make the number its codes make; the codes that are
\* replaced by padding are 0.
LEMMA GroupFacts ==
  ASSUME NEW in \in Octets, NEW i \in Nat, 3 * i < Len(in)
  PROVE  /\ ByteAt(in, 3 * i + 1) \in Octet /\ ByteAt(in, 3 * i + 2) \in Octet
         /\ ByteAt(in, 3 * i + 3) \in Octet
         /\ Codes4(Group(in, i)) =
              Bytes3(ByteAt(in, 3 * i + 1), ByteAt(in, 3 * i + 2), ByteAt(in, 3 * i + 3))
         /\ \A j \in 1 .. 4 : 4 * i + j > Needed(Len(in)) => Group(in, i)[j] = 0
<1> DEFINE a == ByteAt(in, 3 * i + 1)
           b == ByteAt(in, 3 * i + 2)
           c == ByteAt(in, 3 * i + 3)
           d == Group(in, i)
           n == Len(in)
<1>1. \A j \in Nat \ {0} : ByteAt(in, j) \in Octet /\ (j > Len(in) => ByteAt(in, j) = 0)
  BY GroupCodes
<1>2. a \in Octet /\ b \in Octet /\ c \in Octet /\ n \in Nat /\ 3 * i < n
  BY <1>1 DEF Octets
<1>3. /\ 3 * i + 2 > n => b = 0
      /\ 3 * i + 3 > n => c = 0
  BY <1>1
<1>4. d = Codes(a, b, c)
  BY DEF Group
<1> HIDE DEF a, b, c, d, n
<1> DEFINE a1 == a \div 4
           a2 == a % 4
           b1 == b \div 16
           b2 == b % 16
           c1 == c \div 64
           c2 == c % 64
<1>5. /\ a1 \in Nat /\ a2 \in Nat /\ a = 4 * a1 + a2
      /\ b1 \in Nat /\ b2 \in Nat /\ b = 16 * b1 + b2
      /\ c1 \in Nat /\ c2 \in Nat /\ c = 64 * c1 + c2
  <2>1. a \in Nat /\ b \in Nat /\ c \in Nat
    BY <1>2, Ranges
  <2>2. a1 \in Nat /\ a2 \in Nat /\ a = 4 * a1 + a2
    BY <2>1, Split4
  <2>3. b1 \in Nat /\ b2 \in Nat /\ b = 16 * b1 + b2
    BY <2>1, Split16
  <2>4. c1 \in Nat /\ c2 \in Nat /\ c = 64 * c1 + c2
    BY <2>1, Split64
  <2> QED BY <2>2, <2>3, <2>4
<1>6. d[1] = a1 /\ d[2] = 16 * a2 + b1 /\ d[3] = 4 * b2 + c1 /\ d[4] = c2
  BY <1>4 DEF Codes
<1> HIDE DEF a1, a2, b1, b2, c1, c2
<1>7. Codes4(d) = Bytes3(a, b, c)
  BY <1>5, <1>6 DEF Codes4, Bytes3
<1>8. ASSUME NEW j \in 1 .. 4, 4 * i + j > Needed(n)
      PROVE  d[j] = 0
  <2>1. /\ Needed(n) \in Nat /\ 3 * Needed(n) <= 4 * n + 2 /\ 4 * n <= 3 * Needed(n)
    BY <1>2 DEF Needed
  <2>2. j >= 3
    BY <1>2, <1>8, <2>1
  <2>3. 3 * i + 3 > n /\ (j = 3 => 3 * i + 2 > n)
    BY <1>2, <1>8, <2>1
  <2> QED BY <1>3, <1>5, <1>6, <2>2, <2>3
<1> QED BY <1>2, <1>7, <1>8 DEF a, b, c, d, n

\* The text base64_encode makes in the room packChar gives it.
LEMMA Encoding ==
  ASSUME NEW in \in Octets, NEW e, e = base64_encode(in, 2 * Len(in) + 10)
  PROVE  /\ e \in [status : {OK}, out : Seq(Sextet \cup {Pad})]
         /\ e.status = OK /\ Len(e.out) = len2(Len(in)) /\ Len(e.out) \in Nat
         /\ \A k \in Nat : k < Len(e.out) =>
              e.out[k + 1] = IF k + 1 <= Needed(Len(in)) THEN Group(in, k \div 4)[1 + (k % 4)] ELSE Pad
<1> DEFINE n == Len(in)
           Code(k) == IF k <= Needed(n) THEN Group(in, (k - 1) \div 4)[1 + ((k - 1) % 4)] ELSE Pad
           out == [k \in 1 .. len2(n) |-> Code(k)]
<1>1. n \in Nat
  BY DEF Octets
<1>2. len2(n) \in Nat /\ ~(2 * n + 10 < len2(n) + 1)
  BY <1>1 DEF len2
<1>3. e = [status |-> OK, out |-> out]
  BY <1>2, Zenon DEF base64_encode
<1>4. \A k \in 1 .. len2(n) : Code(k) \in Sextet \cup {Pad}
  <2> SUFFICES ASSUME NEW k \in 1 .. len2(n), k <= Needed(n)
               PROVE  Group(in, (k - 1) \div 4)[1 + ((k - 1) % 4)] \in Sextet
    OBVIOUS
  <2> DEFINE i == (k - 1) \div 4
             j == 1 + ((k - 1) % 4)
  <2>1. i \in Nat /\ j \in 1 .. 4
    BY <1>2, Parts
  <2> HIDE DEF i, j
  <2>2. Group(in, i)[j] \in Sextet
    BY <2>1, GroupCodes
  <2> QED BY <2>2 DEF i, j
<1> HIDE DEF Code, n
<1>5. out \in [1 .. len2(n) -> Sextet \cup {Pad}]
  BY <1>4
<1>6. out \in Seq(Sextet \cup {Pad}) /\ Len(out) = len2(n)
  <2> DEFINE m == len2(n)
             S == Sextet \cup {Pad}
  <2>1. m \in Nat /\ out \in [1 .. m -> S] /\ DOMAIN out = 1 .. m
    BY <1>2, <1>5
  <2> HIDE DEF m, S, out
  <2> QED BY <2>1, FunctionIsSeq DEF m, S
<1>7. \A k \in Nat : k < len2(n) => out[k + 1] = Code(k + 1)
  BY <1>2
<1>8. \A k \in Nat : (k + 1) - 1 = k
  OBVIOUS
<1>9. ASSUME NEW k \in Nat, k < len2(n)
      PROVE  out[k + 1] = IF k + 1 <= Needed(n) THEN Group(in, k \div 4)[1 + (k % 4)] ELSE Pad
  <2> HIDE DEF out
  <2> QED BY <1>7, <1>8, <1>9 DEF Code
<1> HIDE DEF out
<1>10. e.status = OK /\ e.out = out /\ e \in [status : {OK}, out : Seq(Sextet \cup {Pad})]
  BY <1>3, <1>6
<1> QED BY <1>2, <1>6, <1>9, <1>10 DEF n

\* A group of bytes written after the groups before it.
LEMMA GroupWritten ==
  ASSUME NEW in \in Octets, NEW q \in Nat, 3 * q < Len(in), NEW g, g = Fewer(3, Len(in) - 3 * q)
  PROVE  /\ Start(in, 3 * q) \o First(ByteAt(in, 3 * q + 1), ByteAt(in, 3 * q + 2), ByteAt(in, 3 * q + 3), g)
              = Start(in, Fewer(3 * (q + 1), Len(in)))
         /\ Len(Start(in, 3 * q)) = 3 * q
         /\ Start(in, Fewer(3 * (q + 1), Len(in))) \in Octets
         /\ Len(Start(in, Fewer(3 * (q + 1), Len(in)))) = 3 * q + g
<1> DEFINE bytes == <<ByteAt(in, 3 * q + 1), ByteAt(in, 3 * q + 2), ByteAt(in, 3 * q + 3)>>
<1> DEFINE n == Len(in)
           m == Fewer(3 * (q + 1), n)
           x == SubSeq(in, 1, 3 * q)
           y == SubSeq(bytes, 1, g)
           z == SubSeq(in, 1, m)
<1>1. n \in Nat /\ m = 3 * q + g /\ g \in 1 .. 3 /\ m <= n /\ m \in Nat
  <2>1. n \in Nat /\ 3 * q < n
    BY DEF Octets
  <2> HIDE DEF n
  <2>2. g = IF 3 < n - 3 * q THEN 3 ELSE n - 3 * q
    BY DEF Fewer, n
  <2>3. m = IF 3 * (q + 1) < n THEN 3 * (q + 1) ELSE n
    BY DEF Fewer
  <2> HIDE DEF m
  <2> QED BY <2>1, <2>2, <2>3
<1>2. \A i \in 1 .. n : in[i] \in Octet
  BY ElementOfSeq DEF Octets
<1>3. bytes \in Octets /\ Len(bytes) = 3
  <2> DEFINE a == ByteAt(in, 3 * q + 1)
             b == ByteAt(in, 3 * q + 2)
             c == ByteAt(in, 3 * q + 3)
  <2>1. \A i \in Nat \ {0} : ByteAt(in, i) \in Octet
    BY GroupCodes
  <2>2. 3 * q + 1 \in Nat \ {0} /\ 3 * q + 2 \in Nat \ {0} /\ 3 * q + 3 \in Nat \ {0}
    OBVIOUS
  <2>3. a \in Octet /\ b \in Octet /\ c \in Octet /\ bytes = <<a, b, c>>
    BY <2>1, <2>2
  <2> HIDE DEF a, b, c
  <2> QED BY <2>3 DEF Octets
<1>4. \A i \in 1 .. g : bytes[i] = in[3 * q + i]
  <2>1. bytes[1] = ByteAt(in, 3 * q + 1) /\ bytes[2] = ByteAt(in, 3 * q + 2)
        /\ bytes[3] = ByteAt(in, 3 * q + 3)
    OBVIOUS
  <2> HIDE DEF n, m
  <2>2. 3 * q + g <= n /\ g \in 1 .. 3
    BY <1>1
  <2>3. \A i \in 1 .. g : ByteAt(in, 3 * q + i) = in[3 * q + i]
    BY <1>1, <2>2 DEF ByteAt, n
  <2> SUFFICES ASSUME NEW i \in 1 .. g
               PROVE  bytes[i] = ByteAt(in, 3 * q + i)
    BY <2>3
  <2>4. i = 1 \/ i = 2 \/ i = 3
    BY <2>2
  <2> QED BY <2>1, <2>4
<1> HIDE DEF n, m
<1>5. x \in Octets /\ Len(x) = 3 * q /\ \A i \in 1 .. 3 * q : x[i] = in[i]
  <2> DEFINE r == 3 * q
  <2>1. r \in Nat /\ r <= n
    BY <1>1 DEF n
  <2> HIDE DEF r
  <2>2. \A i \in 1 .. r : in[i] \in Octet
    BY <1>1, <1>2, <2>1
  <2>3. SubSeq(in, 1, r) \in Octets /\ Len(SubSeq(in, 1, r)) = r
        /\ \A i \in 1 .. r : SubSeq(in, 1, r)[i] = in[i]
    BY <2>1, <2>2, SubSeqProperties DEF Octets
  <2> QED BY <2>3 DEF r
<1>6. z \in Octets /\ Len(z) = m /\ \A i \in 1 .. m : z[i] = in[i]
  <2>1. \A i \in 1 .. m : in[i] \in Octet
    BY <1>1, <1>2
  <2>2. /\ SubSeq(in, 1, m) \in Octets /\ Len(SubSeq(in, 1, m)) = m
        /\ \A i \in 1 .. m : SubSeq(in, 1, m)[i] = in[i]
    <3>1. m \in Nat
      BY <1>1
    <3> QED BY <2>1, <3>1, SubSeqProperties DEF Octets
  <2> QED BY <2>2
<1>7. y \in Octets /\ Len(y) = g /\ \A i \in 1 .. g : y[i] = bytes[i]
  <2>1. \A i \in 1 .. g : bytes[i] \in Octet
    BY <1>1, <1>3, ElementOfSeq DEF Octets
  <2> HIDE DEF n
  <2> QED BY <1>1, <2>1, SubSeqProperties DEF Octets
<1> HIDE DEF x, y, z
<1>8. x \o y = z
  <2> DEFINE r == 3 * q
  <2>1. r \in Nat /\ g \in Nat /\ m = r + g /\ Len(x) = r /\ x \in Seq(Octet) /\ y \in Seq(Octet)
    BY <1>1, <1>5, <1>7 DEF Octets
  <2> HIDE DEF r
  <2>2. /\ x \o y \in Seq(Octet) /\ Len(x \o y) = m
        /\ \A i \in 1 .. m : (x \o y)[i] = IF i <= r THEN x[i] ELSE y[i - r]
    <3>1. Len(y) = g
      BY <1>7
    <3>2. /\ x \o y \in Seq(Octet) /\ Len(x \o y) = Len(x) + Len(y)
          /\ \A i \in 1 .. Len(x) + Len(y) :
               (x \o y)[i] = IF i <= Len(x) THEN x[i] ELSE y[i - Len(x)]
      BY <2>1, ConcatProperties, Zenon
    <3> QED BY <2>1, <3>1, <3>2
  <2>3. \A i \in 1 .. r : x[i] = in[i]
    BY <1>5 DEF r
  <2>4. \A i \in 1 .. g : y[i] = in[r + i]
    BY <1>4, <1>7 DEF r
  <2>5. ASSUME NEW i \in 1 .. m
        PROVE  (x \o y)[i] = z[i]
    <3>1. CASE i <= r
      <4>1. i \in 1 .. r
        BY <2>1, <3>1
      <4>2. (x \o y)[i] = x[i]
        BY <2>2, <3>1
      <4> QED BY <1>6, <2>3, <4>1, <4>2
    <3>2. CASE ~(i <= r)
      <4>1. i - r \in 1 .. g /\ r + (i - r) = i
        BY <2>1, <3>2
      <4> QED BY <1>6, <2>2, <2>4, <3>2, <4>1
    <3> QED BY <3>1, <3>2
  <2> QED BY <1>6, <2>2, <2>5, SeqEqual DEF Octets
<1>9. /\ x = Start(in, 3 * q) /\ z = Start(in, m)
      /\ y = First(ByteAt(in, 3 * q + 1), ByteAt(in, 3 * q + 2), ByteAt(in, 3 * q + 3), g)
  BY Zenon DEF x, y, z, Start, First
<1> QED BY <1>1, <1>5, <1>6, <1>8, <1>9, Zenon DEF n, m

\* The first g of three bytes are read from the number they make.
LEMMA BytesBack ==
  ASSUME NEW a \in Octet, NEW b \in Octet, NEW c \in Octet, NEW g \in 1 .. 3,
         NEW t, t = Bytes3(a, b, c)
  PROVE  BytesOf(t, g) = First(a, b, c, g)
<1> DEFINE x == (t \div 65536) % 256
           y == (t \div 256) % 256
           z == t % 256
<1>1. /\ a \in Int /\ a >= 0 /\ a <= 255 /\ b \in Int /\ b >= 0 /\ b <= 255
      /\ c \in Int /\ c >= 0 /\ c <= 255
  BY Ranges
<1>2. t \div 65536 = a
  BY <1>1 DEF Bytes3
<1>3. t \div 256 = 256 * a + b
  BY <1>1 DEF Bytes3
<1>4. z = c
  BY <1>1 DEF Bytes3
<1>5. x = a
  BY <1>1, <1>2
<1>6. y = b
  BY <1>1, <1>3
<1>7. BytesOf(t, g) = First(x, y, z, IF g > 1 THEN g ELSE 1)
  BY DEF BytesOf, First
<1>8. (IF g > 1 THEN g ELSE 1) = g
  OBVIOUS
<1> HIDE DEF x, y, z
<1> QED BY <1>4, <1>5, <1>6, <1>7, <1>8

LEMMA DecoderFilled ==
  ASSUME NEW st \in Decoder, NEW g \in 0 .. 3, NEW y \in 0 .. 3, NEW t \in Bits,
         NEW out \in Seq(Octet), NEW s, s = Filled(st, g, y, t, out)
  PROVE  s \in Decoder
BY DEF Decoder, Filled

LEMMA FilledWith ==
  ASSUME NEW st \in Decoder, NEW g, NEW y, NEW t, NEW out, NEW s, s = Filled(st, g, y, t, out)
  PROVE  s.status = st.status /\ s.g = g /\ s.y = y /\ s.t = t /\ s.out = out
BY DEF Decoder, Filled

\* One code: what the decoder has then, or why it gives up.
LEMMA CodeDecoded ==
  ASSUME NEW in \in Octets, NEW room \in Nat, NEW k \in Nat, NEW st \in Decoder, NEW c, NEW s
  PROVE  /\ k < len2(Len(in)) /\ st.status = OK /\ Decoding(in, st, k)
         /\ c = IF k + 1 <= Needed(Len(in)) THEN Group(in, k \div 4)[1 + (k % 4)] ELSE Pad
         /\ s = DecodeOne(st, c, room)
         => \/ /\ s \in Decoder /\ s.status = OK /\ Decoding(in, s, k + 1)
               /\ Len(st.out) <= room => Len(s.out) <= room
            \/ s = [st EXCEPT !.status = BASE64_BUFFER_OVERFLOW] /\ room < Len(in)
<1>0. SUFFICES ASSUME k < len2(Len(in)), st.status = OK, Decoding(in, st, k),
                      c = IF k + 1 <= Needed(Len(in)) THEN Group(in, k \div 4)[1 + (k % 4)] ELSE Pad,
                      s = DecodeOne(st, c, room)
               PROVE  \/ /\ s \in Decoder /\ s.status = OK /\ Decoding(in, s, k + 1)
                         /\ Len(st.out) <= room => Len(s.out) <= room
                      \/ s = [st EXCEPT !.status = BASE64_BUFFER_OVERFLOW] /\ room < Len(in)
  BY Zenon
<1> DEFINE q == k \div 4
           r == k % 4
           n == Len(in)
           d == Group(in, q)
           g == IF c = Pad THEN st.g - 1 ELSE st.g
           t == 64 * st.t + (IF c = Pad THEN 0 ELSE c)
           x == ByteAt(in, 3 * q + 1)
           y == ByteAt(in, 3 * q + 2)
           z == ByteAt(in, 3 * q + 3)
<1>1. /\ q \in Nat /\ r \in 0 .. 3 /\ k = 4 * q + r /\ n \in Nat /\ k + 1 = 4 * q + (r + 1)
      /\ r < 3 => (k + 1) \div 4 = q /\ (k + 1) % 4 = r + 1
      /\ r = 3 => (k + 1) \div 4 = q + 1 /\ (k + 1) % 4 = 0
  BY Parts DEF Octets
<1>2. /\ 3 * q < n /\ Left(n, k) \in 1 .. 3 /\ Left(n, k + 1) \in 1 .. 3
      /\ k + 1 > Needed(n) => Left(n, k + 1) = Left(n, k) - 1
      /\ k + 1 <= Needed(n) => Left(n, k + 1) = 3 /\ Left(n, k) = 3
      /\ r = 3 => Left(n, k + 1) = Fewer(3, n - 3 * q)
  BY <1>0, <1>1, Thirds
<1>3. /\ st.g = Left(n, k) /\ st.y = r /\ st.t = PartOf(in, q, r)
      /\ st.out = Start(in, Fewer(3 * q, n))
  BY <1>0 DEF Decoding
<1>4. c = IF k + 1 <= Needed(n) THEN d[1 + r] ELSE Pad
  BY <1>0
<1> HIDE DEF q, r
<1>5. /\ \A j \in 1 .. 4 : d[j] \in Sextet
      /\ \A j \in 1 .. 4 : 4 * q + j > Needed(n) => d[j] = 0
      /\ Codes4(d) = Bytes3(x, y, z)
      /\ x \in Octet /\ y \in Octet /\ z \in Octet
  <2>1. \A j \in 1 .. 4 : d[j] \in Sextet
    BY <1>1, GroupCodes
  <2>2. /\ \A j \in 1 .. 4 : 4 * q + j > Needed(n) => d[j] = 0
        /\ Codes4(d) = Bytes3(x, y, z) /\ x \in Octet /\ y \in Octet /\ z \in Octet
    BY <1>1, <1>2, GroupFacts
  <2> QED BY <2>1, <2>2
<1> HIDE DEF d, n, x, y, z
<1>6. /\ c # Other /\ (c = Pad <=> k + 1 > Needed(n)) /\ (IF c = Pad THEN 0 ELSE c) = d[1 + r]
      /\ Needed(n) \in Nat
  <2>1. d[1 + r] \in Sextet /\ 1 + r \in 1 .. 4
    BY <1>1, <1>5
  <2>2. d[1 + r] # Pad /\ d[1 + r] # Other
    BY <2>1, NoCodes
  <2>3. Needed(n) \in Nat
    BY <1>1 DEF Needed
  <2>4. k + 1 > Needed(n) => d[1 + r] = 0
    <3>1. k + 1 = 4 * q + (1 + r)
      BY <1>1
    <3> QED BY <1>5, <2>1, <3>1, Zenon
  <2>5. Pad # Other
    BY DEF Pad, Other
  <2> QED BY <1>1, <1>4, <2>2, <2>3, <2>4, <2>5
<1>7. /\ g = Left(n, k + 1) /\ g \in 1 .. 3 /\ ~(g < 0 \/ (c # Pad /\ g # 3))
      /\ t = 64 * PartOf(in, q, r) + d[1 + r]
  BY <1>1, <1>2, <1>3, <1>6
<1>8. /\ r < 3 => s = Filled(st, g, r + 1, t, st.out)
      /\ r = 3 => s = IF Len(st.out) + g > room THEN [st EXCEPT !.status = BASE64_BUFFER_OVERFLOW]
                      ELSE Filled(st, g, 0, 0, st.out \o BytesOf(t, g))
  <2>1. s = IF c = Other THEN st
            ELSE IF g < 0 \/ (c # Pad /\ g # 3) THEN [st EXCEPT !.status = BASE64_INVALID_PACKET]
            ELSE IF st.y < 3 THEN [st EXCEPT !.g = g, !.y = @ + 1, !.t = t]
            ELSE IF Len(st.out) + g > room THEN [st EXCEPT !.status = BASE64_BUFFER_OVERFLOW]
            ELSE [st EXCEPT !.g = g, !.y = 0, !.t = 0, !.out = @ \o BytesOf(t, g)]
    BY <1>0, Zenon DEF DecodeOne
  <2> HIDE DEF g, t
  <2>2. st.y = r /\ c # Other /\ ~(g < 0 \/ (c # Pad /\ g # 3))
    BY <1>3, <1>6, <1>7
  <2>3. CASE r < 3
    <3>1. s = [st EXCEPT !.g = g, !.y = @ + 1, !.t = t]
      BY <2>1, <2>2, <2>3, Zenon
    <3>2. s = Filled(st, g, r + 1, t, st.out)
      BY <2>2, <3>1 DEF Filled, Decoder
    <3> QED BY <2>3, <3>2
  <2>4. CASE r = 3
    <3>1. ~(st.y < 3)
      BY <2>2, <2>4
    <3>2. s = IF Len(st.out) + g > room THEN [st EXCEPT !.status = BASE64_BUFFER_OVERFLOW]
              ELSE [st EXCEPT !.g = g, !.y = 0, !.t = 0, !.out = @ \o BytesOf(t, g)]
      BY <2>1, <2>2, <3>1, Zenon
    <3>3. [st EXCEPT !.g = g, !.y = 0, !.t = 0, !.out = @ \o BytesOf(t, g)]
            = Filled(st, g, 0, 0, st.out \o BytesOf(t, g))
      BY Zenon DEF Filled
    <3>4. ~(r < 3)
      BY <2>4
    <3> QED BY <3>2, <3>3, <3>4, Zenon
  <2> QED BY <1>1, <2>3, <2>4
<1> HIDE DEF g, t
<1>9. /\ q \in Nat /\ n \in Nat /\ r \in 0 .. 3 /\ st.out \in Seq(Octet) /\ st.status = OK
      /\ g \in 1 .. 3 /\ g \in 0 .. 3
  BY <1>0, <1>1, <1>7 DEF Decoder
<1>10. CASE r < 3
  <2>1. s = Filled(st, g, r + 1, t, st.out)
    BY <1>8, <1>10
  <2>2. t = PartOf(in, q, r + 1)
    <3>1. /\ PartOf(in, q, 0) = 0 /\ PartOf(in, q, 1) = d[1] /\ PartOf(in, q, 2) = 64 * d[1] + d[2]
          /\ PartOf(in, q, 3) = 64 * (64 * d[1] + d[2]) + d[3]
      BY DEF PartOf, d
    <3>2. d[1] \in Nat /\ d[2] \in Nat /\ d[3] \in Nat
      BY <1>5, NaturalCodes
    <3>3. t = 64 * PartOf(in, q, r) + d[1 + r]
      BY <1>7
    <3>4. CASE r = 0
      BY <3>1, <3>2, <3>3, <3>4
    <3>5. CASE r = 1
      BY <3>1, <3>2, <3>3, <3>5
    <3>6. CASE r = 2
      BY <3>1, <3>2, <3>3, <3>6
    <3> QED BY <1>9, <1>10, <3>4, <3>5, <3>6
  <2>3. t \in Bits
    <3>1. /\ PartOf(in, q, 1) = d[1] /\ PartOf(in, q, 2) = 64 * d[1] + d[2]
          /\ PartOf(in, q, 3) = 64 * (64 * d[1] + d[2]) + d[3]
      BY DEF PartOf, d
    <3>2. d[1] \in Bits /\ 64 * d[1] + d[2] \in Bits /\ 64 * (64 * d[1] + d[2]) + d[3] \in Bits
      BY <1>5, CodesAreBits
    <3>3. t = d[1] \/ t = 64 * d[1] + d[2] \/ t = 64 * (64 * d[1] + d[2]) + d[3]
      BY <1>9, <1>10, <2>2, <3>1
    <3> QED BY <3>2, <3>3
  <2>4. r + 1 \in 0 .. 3
    BY <1>9, <1>10
  <2>5. s \in Decoder /\ s.status = OK /\ s.g = g /\ s.y = r + 1 /\ s.t = t /\ s.out = st.out
    <3>1. s \in Decoder
      BY <1>9, <2>1, <2>3, <2>4, DecoderFilled
    <3>2. s.status = st.status /\ s.g = g /\ s.y = r + 1 /\ s.t = t /\ s.out = st.out
      BY <2>1, FilledWith
    <3> QED BY <1>9, <3>1, <3>2
  <2>6. Decoding(in, s, k + 1)
    BY <1>1, <1>3, <1>7, <1>10, <2>2, <2>5 DEF Decoding, n
  <2> QED BY <2>5, <2>6
<1>11. CASE r = 3
  <2>1. t = Bytes3(x, y, z)
    <3>1. PartOf(in, q, 3) = 64 * (64 * d[1] + d[2]) + d[3]
      BY DEF PartOf, d
    <3>2. 1 + r = 4
      BY <1>11
    <3> QED BY <1>5, <1>7, <1>11, <3>1, <3>2 DEF Codes4
  <2>2. BytesOf(t, g) = First(x, y, z, g)
    <3>1. x \in Octet /\ y \in Octet /\ z \in Octet
      BY <1>5
    <3> QED BY <1>9, <2>1, <3>1, BytesBack
  <2>3. g = Fewer(3, n - 3 * q)
    BY <1>2, <1>7, <1>11
  <2> DEFINE was == Start(in, 3 * q)
             is == Start(in, Fewer(3 * (q + 1), n))
             w == 3 * q
  <2>4. was \o First(x, y, z, g) = is /\ Len(was) = w /\ Len(is) = w + g /\ is \in Octets
    <3>1. x = ByteAt(in, 3 * q + 1) /\ y = ByteAt(in, 3 * q + 2) /\ z = ByteAt(in, 3 * q + 3)
          /\ n = Len(in)
      BY DEF x, y, z, n
    <3>2. g = Fewer(3, Len(in) - 3 * q) /\ 3 * q < Len(in)
      BY <1>2, <2>3, <3>1
    <3> QED BY <1>9, <3>1, <3>2, GroupWritten
  <2>5. st.out = was /\ w \in Nat /\ w + g <= n
    BY <1>2, <1>3, <1>9, <2>3 DEF Fewer
  <2> HIDE DEF was, is, w
  <2>6. CASE Len(st.out) + g > room
    <3>1. s = [st EXCEPT !.status = BASE64_BUFFER_OVERFLOW]
      BY <1>8, <1>11, <2>6, Zenon
    <3>2. room < n
      BY <1>9, <2>4, <2>5, <2>6
    <3> QED BY <3>1, <3>2 DEF n
  <2>7. CASE ~(Len(st.out) + g > room)
    <3>1. s = Filled(st, g, 0, 0, is)
      <4>1. s = Filled(st, g, 0, 0, st.out \o BytesOf(t, g))
        BY <1>8, <1>11, <2>7, Zenon
      <4> QED BY <2>2, <2>4, <2>5, <4>1, Zenon
    <3>2. s \in Decoder /\ s.status = OK /\ s.g = g /\ s.y = 0 /\ s.t = 0 /\ s.out = is
      <4>1. is \in Seq(Octet) /\ 0 \in 0 .. 3 /\ 0 \in Bits
        BY <2>4 DEF Octets, Bits
      <4>2. s \in Decoder
        BY <1>9, <3>1, <4>1, DecoderFilled
      <4>3. s.status = st.status /\ s.g = g /\ s.y = 0 /\ s.t = 0 /\ s.out = is
        BY <3>1, FilledWith
      <4> QED BY <1>9, <4>2, <4>3
    <3>3. PartOf(in, q + 1, 0) = 0
      BY DEF PartOf
    <3>4. Decoding(in, s, k + 1)
      BY <1>1, <1>7, <1>11, <3>2, <3>3 DEF Decoding, n, is
    <3>5. Len(s.out) <= room
      BY <1>9, <2>4, <2>5, <2>7, <3>2
    <3> QED BY <3>2, <3>4, <3>5
  <2> QED BY <2>6, <2>7
<1> QED BY <1>9, <1>10, <1>11

-----------------------------------------------------------------------------
(* The invariant of the decoder, and the theorems.                         *)

\* The invariant: what has been read, and what is left to read.
Base64Inv ==
  /\ binary \in Binary /\ codesRead \in Nat /\ breaks \in 0 .. MaxBreaks /\ decoder \in Decoder
  /\ base64 = base64_encode(binary.bytes, 2 * Len(binary.bytes) + 10)
  /\ codesRead <= len2(Len(binary.bytes)) /\ Len(decoder.out) <= binary.room
  /\ decoder.status = OK => Decoding(binary.bytes, decoder, codesRead)
  /\ decoder.status # OK => binary.room < Len(binary.bytes)

\* What the invariant says of the encoded text.
Texted ==
  /\ binary.bytes \in Octets /\ binary.room \in Nat /\ Len(binary.bytes) \in Nat
  /\ base64 \in [status : {OK}, out : Seq(Sextet \cup {Pad})]
  /\ base64.status = OK /\ Len(base64.out) = len2(Len(binary.bytes)) /\ Len(base64.out) \in Nat
  /\ \A k \in Nat : k < Len(base64.out) =>
       base64.out[k + 1] = IF k + 1 <= Needed(Len(binary.bytes))
                           THEN Group(binary.bytes, k \div 4)[1 + (k % 4)] ELSE Pad

LEMMA InvTexted == Base64Inv => Texted
<1> SUFFICES ASSUME Base64Inv PROVE Texted
  OBVIOUS
<1>1. binary.bytes \in Octets /\ binary.room \in Nat /\ Len(binary.bytes) \in Nat
  BY DEF Base64Inv, Binary, Octets
<1>2. base64 = base64_encode(binary.bytes, 2 * Len(binary.bytes) + 10)
  BY DEF Base64Inv
<1> QED BY <1>1, <1>2, Encoding DEF Texted

LEMMA Lengths == \A n \in Nat : len2(n) \in Nat /\ Needed(n) \in Nat
BY DEF len2, Needed

\* Before the first code nothing is written.
LEMMA Base64InitInv == Base64Init => Base64Inv
<1> SUFFICES ASSUME Base64Init PROVE Base64Inv
  OBVIOUS
<1> DEFINE in == binary.bytes
<1>1. /\ binary \in Binary /\ codesRead = 0 /\ breaks = 0
      /\ base64 = base64_encode(in, 2 * Len(in) + 10)
      /\ decoder = [status |-> OK, g |-> 3, y |-> 0, t |-> 0, out |-> << >>]
  BY BinariesAssumption DEF Base64Init
<1>2. in \in Octets /\ binary.room \in Nat /\ Len(in) \in Nat
  BY <1>1 DEF Binary, Octets
<1>3. decoder \in Decoder /\ Len(decoder.out) = 0 /\ decoder.status = OK
  <2>1. 0 \in Bits /\ << >> \in Seq(Octet) /\ Len(<< >>) = 0
    BY DEF Bits
  <2> QED BY <1>1, <2>1 DEF Decoder
<1>4. 0 \div 4 = 0 /\ 0 % 4 = 0 /\ Fewer(3 * 0, Len(in)) = 0 /\ len2(Len(in)) \in Nat
      /\ Needed(Len(in)) \in Nat
  <2>1. 0 \div 4 = 0 /\ 0 % 4 = 0
    OBVIOUS
  <2>2. \A n \in Nat : Fewer(3 * 0, n) = 0
    BY DEF Fewer
  <2> QED BY <1>2, <2>1, <2>2, Lengths, Zenon
<1>5. Start(in, 0) = << >>
  BY SubSeqEmpty DEF Start
<1>6. Left(Len(in), 0) = 3 /\ PartOf(in, 0, 0) = 0
  BY <1>4 DEF Left, PartOf
<1>7. Decoding(in, decoder, 0)
  BY <1>1, <1>4, <1>5, <1>6 DEF Decoding
<1> QED BY <1>1, <1>2, <1>3, <1>4, <1>7, BreaksAssumption DEF Base64Inv

\* A code is decoded or refused, a line break is skipped.
LEMMA Base64Step == Base64Inv /\ [Base64Next]_base64Vars => Base64Inv'
<1> SUFFICES ASSUME Base64Inv, [Base64Next]_base64Vars PROVE Base64Inv'
  OBVIOUS
<1>1. Texted
  BY InvTexted
<1>2. CASE DecodeCode
  <2> DEFINE c == base64.out[codesRead + 1]
  <2>1. /\ codesRead < Len(base64.out) /\ codesRead' = codesRead + 1 /\ decoder.status = OK
        /\ decoder' = DecodeOne(decoder, c, binary.room) /\ UNCHANGED <<binary, base64, breaks>>
    BY <1>2 DEF DecodeCode, Decode
  <2>2. /\ codesRead \in Nat /\ decoder \in Decoder /\ Decoding(binary.bytes, decoder, codesRead)
        /\ Len(decoder.out) <= binary.room
    BY <2>1 DEF Base64Inv
  <2>3. /\ binary.bytes \in Octets /\ binary.room \in Nat /\ codesRead < len2(Len(binary.bytes))
        /\ Len(binary.bytes) \in Nat /\ len2(Len(binary.bytes)) \in Nat
        /\ c = IF codesRead + 1 <= Needed(Len(binary.bytes))
               THEN Group(binary.bytes, codesRead \div 4)[1 + (codesRead % 4)] ELSE Pad
    BY <1>1, <2>1, <2>2 DEF Texted
  <2> HIDE DEF c
  <2>4. \/ /\ decoder' \in Decoder /\ decoder'.status = OK
           /\ Decoding(binary.bytes, decoder', codesRead + 1)
           /\ Len(decoder'.out) <= binary.room
        \/ decoder' = [decoder EXCEPT !.status = BASE64_BUFFER_OVERFLOW]
           /\ binary.room < Len(binary.bytes)
    BY <2>1, <2>2, <2>3, CodeDecoded
  <2>5. BASE64_BUFFER_OVERFLOW # OK
    BY DEF BASE64_BUFFER_OVERFLOW, OK
  <2>6. /\ codesRead' \in Nat /\ codesRead' <= len2(Len(binary.bytes)) /\ binary' = binary
        /\ base64' = base64 /\ breaks' = breaks
    BY <2>1, <2>2, <2>3
  <2>7. CASE decoder' \in Decoder /\ decoder'.status = OK
             /\ Decoding(binary.bytes, decoder', codesRead + 1) /\ Len(decoder'.out) <= binary.room
    BY <2>1, <2>6, <2>7 DEF Base64Inv
  <2>8. CASE decoder' = [decoder EXCEPT !.status = BASE64_BUFFER_OVERFLOW]
             /\ binary.room < Len(binary.bytes)
    <3>1. decoder' \in Decoder /\ decoder'.status # OK /\ decoder'.out = decoder.out
      BY <2>2, <2>5, <2>8 DEF Decoder
    <3> QED BY <2>2, <2>6, <2>8, <3>1 DEF Base64Inv
  <2> QED BY <2>4, <2>7, <2>8
<1>3. CASE DecodeBreak
  <2>1. /\ breaks < MaxBreaks /\ breaks' = breaks + 1 /\ UNCHANGED <<binary, base64, codesRead>>
        /\ decoder' = DecodeOne(decoder, Other, binary.room)
    BY <1>3 DEF DecodeBreak, Decode
  <2>2. decoder' = decoder
    BY <2>1, Zenon DEF DecodeOne
  <2>3. breaks' \in 0 .. MaxBreaks
    BY <2>1, BreaksAssumption DEF Base64Inv
  <2> QED BY <2>1, <2>2, <2>3 DEF Base64Inv
<1>4. CASE UNCHANGED base64Vars
  BY <1>4 DEF base64Vars, Base64Inv
<1> QED BY <1>2, <1>3, <1>4 DEF Base64Next

LEMMA Rounded == \A n \in Nat : (n + 2) \div 3 \in Nat /\ 3 * ((n + 2) \div 3) >= n
OBVIOUS

\* At the end of the text all bytes are written.
LEMMA Base64InvSound == Base64Inv => Base64TypeOK /\ Base64Back
<1> SUFFICES ASSUME Base64Inv PROVE Base64TypeOK /\ Base64Back
  OBVIOUS
<1> DEFINE in == binary.bytes
           n == Len(in)
<1>1. Texted
  BY InvTexted
<1>2. Base64TypeOK
  <2>1. codesRead \in 0 .. Len(base64.out)
    BY <1>1 DEF Base64Inv, Texted
  <2> QED BY <1>1, <2>1 DEF Base64Inv, Texted, Base64TypeOK
<1>3. base64.status = OK /\ Len(decoder.out) <= binary.room /\ n \in Nat /\ in \in Octets
      /\ binary.room \in Nat
  BY <1>1 DEF Base64Inv, Texted
<1>4. decoder \in Decoder /\ BASE64_BUFFER_OVERFLOW # OK
  BY DEF Base64Inv, BASE64_BUFFER_OVERFLOW, OK
<1>5. CASE decoder.status # OK
  <2>1. binary.room < n /\ decoder.status = BASE64_BUFFER_OVERFLOW
    BY <1>4, <1>5 DEF Base64Inv, Decoder
  <2> QED BY <1>2, <1>3, <1>4, <2>1 DEF Base64Back, base64_decode
<1>6. CASE decoder.status = OK /\ codesRead = Len(base64.out)
  <2> DEFINE m == (n + 2) \div 3
  <2>1. codesRead = 4 * m /\ m \in Nat /\ 3 * m >= n
    <3>1. codesRead = len2(n)
      BY <1>1, <1>6 DEF Texted
    <3>2. len2(n) = 4 * m
      BY DEF len2
    <3>3. m \in Nat /\ 3 * m >= n
      BY <1>3, Rounded
    <3> QED BY <3>1, <3>2, <3>3
  <2> HIDE DEF m
  <2>2. codesRead \div 4 = m /\ codesRead % 4 = 0 /\ Fewer(3 * m, n) = n
    BY <1>3, <2>1 DEF Fewer
  <2>3. decoder.y = 0 /\ decoder.out = Start(in, n)
    BY <1>6, <2>2 DEF Base64Inv, Decoding
  <2>4. decoder.out = in
    BY <1>3, <2>3, SubSeqFull DEF Octets, Start
  <2>5. base64_decode = [status |-> OK, out |-> in] /\ n <= binary.room
    BY <1>3, <1>6, <2>3, <2>4 DEF base64_decode
  <2> QED BY <1>2, <1>3, <2>5 DEF Base64Back
<1>7. CASE ~AllRead
  BY <1>2, <1>3, <1>7 DEF Base64Back
<1> QED BY <1>5, <1>6, <1>7 DEF AllRead

\* Binary data in an XML stream come back byte by byte, however long they are
\* and wherever their lines are broken, and never go beyond their room.
THEOREM Base64IsBack == Base64Spec => []Base64Back
BY Base64InitInv, Base64Step, Base64InvSound, PTL DEF Base64Spec

\* The decoder's counters stay within their bounds: never more than the bits
\* of three codes are waiting to be written.
THEOREM Base64Type == Base64Spec => []Base64TypeOK
BY Base64InitInv, Base64Step, Base64InvSound, PTL DEF Base64Spec
=============================================================================
