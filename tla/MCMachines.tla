------------------------------ MODULE MCMachines ------------------------------
(***************************************************************************)
(* Machines that have nothing to do with each other, one of them chosen in *)
(* the initial state: the walk over a collection, processes that make and  *)
(* remove directories, the targets of a copy, the options of a request,    *)
(* the parameters of a rule, the password file and how a password in it is *)
(* scrambled, binary data as text, the byte order of RBUDP's sequence      *)
(* numbers, and the inputs of MCData for algorithms that keep no state.    *)
(***************************************************************************)
EXTENDS MCData, Collections, MkTree, Target, KeyVal, MsParams, PwFile, PwCode, Base64, RbudpEndian, TLC

VARIABLE machine

vars == <<machine, dataVars, collVars, treeVars, targetVars, keyValVars, msParamVars, pwVars, pwCodeVars, base64Vars, endianVars>>

-----------------------------------------------------------------------------
(* Collections: pages of two rows.                                         *)

Coll(n, t) == [name |-> n, type |-> t]
SmallColls == {<< >>, <<Coll("a", "")>>, <<Coll("a", ""), Coll("b", ""), Coll("c", "")>>,
               <<Coll("a", "unknown"), Coll("b", "")>>}
SmallReplicas == {<< >>, <<1>>, <<1, 1>>, <<1, 2, 3>>, <<1, 2, 2>>,
                  <<1, 1, 2, 2, 3>>, <<1, 2, 2, 2, 2, 3>>, <<1, 1, 1>>}

(* Directories: two processes whose paths share a prefix or more and whose *)
(* walks may end at "/" or below it.                                       *)
TwoMakers == {"p", "q"}
Do(op, start, dest) == [op |-> op, start |-> start, dest |-> dest]
Paths == {<<"a", "b">>, <<"a", "c">>, <<"a", "b", "c">>}
Starts == {0, 1, 2}
OpsTogether == {<<"mkCollR", "mkCollR">>, <<"mkdirR", "mkdirR">>, <<"mkdirR", "rmdirR">>}
SmallTasks == {"p" :> Do(ops[1], m, d) @@ "q" :> Do(ops[2], n, e) :
                 ops \in OpsTogether, m \in Starts, n \in Starts, d \in Paths, e \in Paths}
SmallTrees == {[colls |-> c, objs |-> {}] : c \in {{}, {<<"a">>}, {<<"a">>, <<"a", "b">>}}}
              \cup {[colls |-> {<<"a">>}, objs |-> {<<"a", "b">>}]}

(* Targets: a destination d in a directory, with or without something in   *)
(* it, and up to two sources; types of local paths are known beforehand.   *)
NewDest == <<"d">>
Worlds == {[dirs |-> {<< >>} \cup d, files |-> f] :
              d \in {{}, {NewDest}, {NewDest, <<"d", "x">>}}, f \in {{}, {NewDest}, {<<"d", "x">>}}}
WorldsToBe == {w \in Worlds : /\ w.dirs \cap w.files = {}
                              /\ \A p \in w.files : SubSeq(p, 1, Len(p) - 1) \in w.dirs}
LocalType(w) == IF NewDest \in w.dirs THEN "LOCAL_DIR_T"
                ELSE IF NewDest \in w.files THEN "LOCAL_FILE_T" ELSE "UNKNOWN_FILE_T"
Dests(w) ==
  {[objType |-> t, objState |-> "UNKNOWN_ST", outPath |-> p, element |-> e] :
      t \in {"UNKNOWN_OBJ_T", "COLL_OBJ_T"}, p \in {NewDest, <<"no", "d">>}, e \in {"", "d"}}
  \cup {[objType |-> LocalType(w),
         objState |-> IF LocalType(w) = "UNKNOWN_FILE_T" THEN "NOT_EXIST_ST" ELSE "EXIST_ST",
         outPath |-> NewDest, element |-> "d"],
        [objType |-> "UNKNOWN_FILE_T", objState |-> "NOT_EXIST_ST", outPath |-> <<"-">>,
         element |-> "-"]}
Sources == {[objType |-> t, objState |-> "EXIST_ST", element |-> e] :
               t \in {"DATA_OBJ_T", "COLL_OBJ_T", "LOCAL_DIR_T"}, e \in {"x", "y", ""}}
           \cup {[objType |-> "UNKNOWN_OBJ_T", objState |-> "NOT_EXIST_ST", element |-> "x"]}
SmallPathInps == UNION {{[src |-> s, dest |-> d, opr |-> o, world |-> w] :
                      s \in SeqsOf(Sources, 1) \cup SeqsOf(Sources, 2), d \in Dests(w),
                      o \in {"MOVE_OPR", "RSYNC_OPR", "other"}} : w \in WorldsToBe}

(* Options: three keywords, the empty one, and arrays from a server.       *)
SmallKeyWords == {"", "a", "b", "c"}
SmallValues == {1, 2}
Arrivals == {[keyWord |-> <<"a">>, value |-> <<1>>], [keyWord |-> <<"b", "c">>, value |-> <<1, 2>>],
            [keyWord |-> <<"c", "b", "">>, value |-> <<1, 2, 1>>]}

(* The password file: two who save, one who removes.                       *)
ThreeUsers == {"p", "q", "r"}
Errand(op, n, temp) == [op |-> op, len |-> n, temp |-> temp]
Saves == {<<Errand("save", 8, FALSE), Errand("save", 42, FALSE)>>,
          <<Errand("save", 8, FALSE), Errand("save", 28, TRUE)>>,
          <<Errand("save", 42, FALSE), Errand("save", 29, TRUE)>>,
          <<Errand("save", 28, TRUE), Errand("save", 43, FALSE)>>}
Removals == {Errand("tempOps", 0, FALSE), Errand("rm", 0, FALSE)}
SmallErrands == {"p" :> s[1] @@ "q" :> s[2] @@ "r" :> r : s \in Saves, r \in Removals}

(* Passwords: "aZ!0", with a space and without, at times near the wrap at  *)
(* 2^16; bytes no two hash types or keys share, for the one-way hash.      *)
SmallHash(hashType, key) ==
  [n \in 1..64 |-> ((IF hashType = "sha1" THEN 7 ELSE 3) * n + 31 * key + n * n) % 256]
SmallJoined(hashType, key, key2) == key + 2 * key2 + (IF hashType = "sha1" THEN 5 ELSE 9)
SmallKeys == {2, 11}
Words == {<< >>, <<97, 90, 33, 48>>, <<115, 104, 97, 49, 32, 47>>}
LongWords == {[n \in 1..49 |-> 97], [n \in 1..50 |-> 65 + (n % 26)]}
SmallSecrets ==
  [how : {"time"}, rval : 0..15, uid : {0, 1000, 3935}, text : Words, saved : {0, 4660, 65530}]
  \cup [how : {"key"}, text : Words, key : {11}, key2 : {2}, sender : {"md5", "sha1"}, rval : {0}]
  \cup [how : {"keyV2"}, text : Words, key : {11}, key2 : {2}, sender : {"md5", "sha1"}, rval : {1, 31}]
  \cup [how : {"keyV2"}, text : LongWords, key : {11}, key2 : {2}, sender : {"md5"}, rval : {26}]
SmallDelays == {19, 20, 21, 40, 65515}

(* Binary data: bytes of all bits, of one and of none, with just the room  *)
(* they need or one less.                                                  *)
SmallBinaries == UNION {{[bytes |-> b, room |-> r] : b \in SeqsOf({0, 107, 255}, n), r \in {n, n - 1} \cap Nat} : n \in 0..5}

(* The largest chunk for which a swapped number is never in range: every   *)
(* low byte, every second byte and the ends of the range.                  *)
Bytes == 0..255
SmallSample == Bytes \cup {256 * b : b \in Bytes} \cup {256 * b + 255 : b \in 0..254}

-----------------------------------------------------------------------------
CollIdle ==
  /\ catalog = [colls |-> << >>, replicas |-> << >>]
  /\ mode = [dataFirst |-> FALSE, keepReplicas |-> FALSE, specColl |-> "NULL"]
  /\ handle = Closed /\ got = << >> /\ status = Ok /\ failures = 0
TreeIdle ==
  /\ task = "idle" /\ before = {} /\ tree = {} /\ objs = {} /\ at = "idle" /\ walk = "idle"
  /\ outcome = [p \in Makers |-> "none"]
TargetIdle == rodsPathInp = [opr |-> "none"] /\ srcInx = 0 /\ resolved = [status |-> "none"]
KeyValIdle == KeyValInit
MsParamIdle == MsParamInit
PwIdle ==
  /\ errand = "idle" /\ clock = 0 /\ named = 0 /\ inodes = << >> /\ user = "idle"
  /\ last = Nobody /\ raced = FALSE /\ lost = FALSE
PwCodeIdle == pw = [how |-> "idle"] /\ coded = FALSE /\ code = << >> /\ later = 0 /\ myOut = << >>
Base64Idle ==
  /\ binary = [bytes |-> << >>, room |-> 0] /\ base64 = [status |-> OK, out |-> << >>]
  /\ codesRead = 0 /\ breaks = 0
  /\ decoder = [status |-> OK, g |-> 3, y |-> 0, t |-> 0, out |-> << >>]
EndianIdle == opposite = FALSE /\ peerswap = FALSE /\ sent = -1 /\ placed = -1 /\ marked = {}

IsMachine(m) == machine = m
Init ==
  /\ machine \in {"data", "collections", "tree", "targets", "options", "params", "password", "scrambling", "binary", "endian"}
  /\ IF IsMachine("data") THEN DataInit ELSE DataIdle
  /\ IF IsMachine("collections") THEN CollInit ELSE CollIdle
  /\ IF IsMachine("tree") THEN TreeInit ELSE TreeIdle
  /\ IF IsMachine("targets") THEN TargetInit ELSE TargetIdle
  /\ KeyValIdle /\ MsParamIdle
  /\ IF IsMachine("password") THEN PwInit ELSE PwIdle
  /\ IF IsMachine("scrambling") THEN PwCodeInit ELSE PwCodeIdle
  /\ IF IsMachine("binary") THEN Base64Init ELSE Base64Idle
  /\ IF IsMachine("endian") THEN EndianInit ELSE EndianIdle

CollStep == IsMachine("collections") /\ CollNext
            /\ UNCHANGED <<machine, dataVars, treeVars, targetVars, keyValVars, msParamVars, pwVars, pwCodeVars, base64Vars, endianVars>>
TreeStepOf == IsMachine("tree") /\ TreeNext
              /\ UNCHANGED <<machine, dataVars, collVars, targetVars, keyValVars, msParamVars, pwVars, pwCodeVars, base64Vars, endianVars>>
TargetStep == IsMachine("targets") /\ resolveRodsTarget
              /\ UNCHANGED <<machine, dataVars, collVars, treeVars, keyValVars, msParamVars, pwVars, pwCodeVars, base64Vars, endianVars>>
KeyValStep == IsMachine("options") /\ KeyValNext(Arrivals)
              /\ UNCHANGED <<machine, dataVars, collVars, treeVars, targetVars, msParamVars, pwVars, pwCodeVars, base64Vars, endianVars>>
MsParamStep == IsMachine("params") /\ MsParamNext
               /\ UNCHANGED <<machine, dataVars, collVars, treeVars, targetVars, keyValVars, pwVars, pwCodeVars, base64Vars, endianVars>>
PwStep == IsMachine("password") /\ PwNext
          /\ UNCHANGED <<machine, dataVars, collVars, treeVars, targetVars, keyValVars, msParamVars, pwCodeVars, base64Vars, endianVars>>
PwCodeStep == IsMachine("scrambling") /\ PwCodeNext
              /\ UNCHANGED <<machine, dataVars, collVars, treeVars, targetVars, keyValVars, msParamVars, pwVars, base64Vars, endianVars>>
Base64Step == IsMachine("binary") /\ Base64Next
              /\ UNCHANGED <<machine, dataVars, collVars, treeVars, targetVars, keyValVars, msParamVars, pwVars, pwCodeVars, endianVars>>
EndianStep == IsMachine("endian") /\ EndianNext
              /\ UNCHANGED <<machine, dataVars, collVars, treeVars, targetVars, keyValVars, msParamVars, pwVars, pwCodeVars, base64Vars>>
DataStep == IsMachine("data") /\ DataNext
            /\ UNCHANGED <<machine, collVars, treeVars, targetVars, keyValVars, msParamVars, pwVars, pwCodeVars, base64Vars, endianVars>>
Next == DataStep \/ CollStep \/ TreeStepOf \/ TargetStep \/ KeyValStep \/ MsParamStep \/ PwStep \/ PwCodeStep \/ Base64Step \/ EndianStep

(* The fairness of CollSpec and of TreeSpec.                               *)
Spec ==
  /\ Init /\ [][Next]_vars
  /\ WF_vars(IsMachine("collections") /\ rclReadCollection
             /\ UNCHANGED <<machine, dataVars, treeVars, targetVars, keyValVars, msParamVars, pwVars, pwCodeVars, base64Vars, endianVars>>)
  /\ \A p \in Makers :
       WF_vars(IsMachine("tree") /\ TreeStep(p)
               /\ UNCHANGED <<machine, dataVars, collVars, targetVars, keyValVars, msParamVars, pwVars, pwCodeVars, base64Vars, endianVars>>)

-----------------------------------------------------------------------------
(* The properties of the modules, of the machine that runs; the others     *)
(* hold of one that does not run too, TreesSound and EntriesGiven, which    *)
(* are the modules' own, among them.                                       *)

(* What is packed is unpacked as it was, in both protocols.                *)
RoundTrips == NativeRoundTrip /\ XmlRoundTrip

(* A call's structs are what its row of the API table says, member by      *)
(* member, and none is left behind.                                        *)
CallsAgree == CallDescribed /\ CallFits /\ CallWhole

(* Every value of a query's answer has one owner until the walk over the   *)
(* collection frees it, and every entry has its values.                    *)
AnswersOwned == AnswerOwned /\ FieldsThere

(* Queries, statuses, options and parameters that are written as text are  *)
(* read as what they were, and a parameter with a type as the number it    *)
(* was filled with where its reader can tell that number.                  *)
TextsBack ==
  /\ QueryParsed /\ ErrorNamed
  /\ PairsParsed /\ ListBack
  /\ ReadAsFilled /\ OptionsOwnedOnce

(* Who reads on comes to the end of the collection, whatever fails; each   *)
(* of the processes that make directories ends, whatever the others do,    *)
(* but for a mkCollR that makes the first name of its path for ever.       *)
EveryoneEnds ==
  /\ IsMachine("collections") /\ In(handle, "COLL_OPENED")
       ~> (IsMachine("collections") => In(handle, "COLL_CLOSED"))
  /\ <>(IsMachine("tree") => \A p \in Makers : walk[p] = "done" \/ Repeats(p))
=============================================================================
