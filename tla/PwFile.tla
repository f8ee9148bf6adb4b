-------------------------------- MODULE PwFile --------------------------------
(***************************************************************************)
(* The file a user's password is kept in, ~/.irods/.irodsA, while several  *)
(* commands of the user save, read and remove it: obfSavePw, obfGetPw,     *)
(* obfTempOps and obfRmPw.  A password is good only in a file whose time   *)
(* is about the one written in it, and the file is written in place, after *)
(* it was emptied; any call on it may fail.  Everyone works on the inode   *)
(* it opened; the name may meanwhile be another's or nobody's.             *)
(***************************************************************************)
EXTENDS Integers, Sequences

CONSTANTS
  Users,          \* the processes of the user
  Errands,        \* what they may have to do together: Users -> [op, len, temp]
  Start,          \* the time, in seconds, when the first of them begins
  Skew,           \* how far the file system's clock is ahead of theirs
  MaxClock        \* bound on the clock, which goes in steps of 10 seconds

Nobody == "nobody"

ASSUME PwAssumption ==
  /\ Nobody \notin Users
  /\ \A e \in Errands : \A u \in Users :
       /\ e[u] \in [op : {"save", "tempOps", "rm"}, len : Nat, temp : BOOLEAN]
       /\ e[u].op = "save" => e[u].len > 0
  /\ Start \in Nat /\ Skew \in Int /\ MaxClock \in Nat

LOCAL NoHash(hashType, key) == << >>
LOCAL NoKey(hashType, key, key2) == << >>
Obf == INSTANCE Obf WITH Hash <- NoHash, Joined <- NoKey

VARIABLES
  errand,
  clock,          \* the seconds since Start
  named,          \* the inode that has the name, 0 for none
  inodes,         \* their contents: [blank, pw, mtime]
  user,           \* per process [pc, ino, timeVal, at, pw, result]
  last,           \* the user who wrote a password last
  raced,          \* has a removal met a save?
  lost            \* did a save that emptied the file end without writing it,
                  \* and nobody write it since?

pwVars == <<errand, clock, named, inodes, user, last, raced, lost>>

Nothing == [by |-> Nobody]
Torn == [by |-> Nobody, torn |-> TRUE]     \* a part of a password
Empty(now) == [blank |-> FALSE, pw |-> Nothing, mtime |-> now]

\* Times are kept bounded.
Time == 0..65535
Bounded(time) == time % 65536

\* What is written, by whom, the time in it and the stamp it was made from, and
\* how long after the stamp.
Password == [by : Users, stamp : Time, time : Time, took : Int]
File == [blank : BOOLEAN, pw : Password \cup {Nothing, Torn}, mtime : Int]
Outcomes ==
  {"none", "ok", "canceled", "PASSWORD_EXCEEDS_MAX_SIZE", "UNABLE_TO_STAT_FILE", "FILE_OPEN_ERR",
   "FILE_READ_ERR", "FILE_WRITE_ERR", "AUTH_FILE_NOT_ENCRYPTED", "AUTH_FILE_DOES_NOT_EXIST",
   "UNLINK_FAILED"}
UserState ==
  [pc : {"start", "opened", "stamped", "encoded", "timed", "unlinking", "removing", "done", "killed"},
   ino : 0..Len(inodes), timeVal : Time, at : Int,
   pw : Password \cup {Nothing, Torn},
   result : Outcomes]
PwTypeOK ==
  /\ errand \in Errands
  /\ clock \in Int /\ 0 <= clock /\ raced \in BOOLEAN /\ lost \in BOOLEAN
  /\ inodes \in Seq(File)
  /\ named \in 0..Len(inodes) /\ last \in Users \cup {Nobody}
  /\ user \in [Users -> UserState]

PwInit ==
  /\ errand \in Errands
  /\ clock = 0 /\ named = 0 /\ inodes = << >>
  /\ user = [u \in Users |-> [pc |-> "start", ino |-> 0, timeVal |-> 0, at |-> 0,
                              pw |-> Nothing, result |-> "none"]]
  /\ last = Nobody /\ raced = FALSE /\ lost = FALSE

SystemClock == Start + clock
FileClock == SystemClock + Skew
At(u, op, pc) == errand[u].op = op /\ user[u].pc = pc
Leave(u, result) == user' = [user EXCEPT ![u].pc = "done", ![u].result = result]
Go(u, pc) == user' = [user EXCEPT ![u].pc = pc]
FilesKept == UNCHANGED <<errand, clock, named, inodes, last, raced, lost>>

Temporary == 14          \* strlen(TMP_FLAG)
\* "." and the five characters of the head and the key come before it.
StoredLen(e) == e.len + 7 + (IF e.temp THEN Temporary ELSE 0)

-----------------------------------------------------------------------------
(* obfSavePw.                                                              *)

\* A new file, or the old one emptied.
obfiOpenOutFile(u) ==
  /\ At(u, "save", "start") /\ errand[u].len <= Obf!MAX_PASSWORD_LEN - 8
  /\ IF named = 0
     THEN inodes' = Append(inodes, Empty(FileClock)) /\ named' = Len(inodes')
     ELSE inodes' = [inodes EXCEPT ![named] = Empty(FileClock)] /\ UNCHANGED named
  /\ user' = [user EXCEPT ![u].pc = "opened", ![u].ino = named']
  /\ UNCHANGED <<errand, clock, last, raced, lost>>
\* The password is too long, open fails, or the user is asked and says no.
NotOpened(u) ==
  /\ At(u, "save", "start")
  /\ \/ errand[u].len > Obf!MAX_PASSWORD_LEN - 8 /\ Leave(u, "PASSWORD_EXCEEDS_MAX_SIZE")
     \/ errand[u].len <= Obf!MAX_PASSWORD_LEN - 8 /\ Leave(u, "FILE_OPEN_ERR")
     \/ errand[u].len <= Obf!MAX_PASSWORD_LEN - 8 /\ named # 0 /\ Leave(u, "canceled")
  /\ FilesKept

\* Operators with a fault in their name are variants with that fault.
TimeOfSystem(mtime) == Bounded(SystemClock)
TimeOfFile(mtime) == Bounded(mtime)
\* A space is written over the first character, for the file to have a time.
Blanked(ino) == [inodes EXCEPT ![ino] = [@ EXCEPT !.blank = TRUE, !.mtime = FileClock]]
obfiSetTimeFromFile(u) ==
  /\ At(u, "save", "opened")
  /\ inodes' = Blanked(user[u].ino)
  /\ user' = [user EXCEPT ![u].pc = "stamped", ![u].at = clock, ![u].timeVal = TimeOfFile(FileClock)]
  /\ UNCHANGED <<errand, clock, named, last, raced, lost>>
\* The space cannot be written, or the file's time not be read after it was.
StampFails(u) ==
  /\ At(u, "save", "opened")
  /\ \/ Leave(u, "FILE_WRITE_ERR") /\ UNCHANGED inodes
     \/ Leave(u, "UNABLE_TO_STAT_FILE") /\ inodes' = Blanked(user[u].ino)
  /\ lost' = TRUE
  /\ UNCHANGED <<errand, clock, named, last, raced>>

\* A time of 0 is taken for none, and the system's used.
EncodePw(u) ==
  LET stamp == user[u].timeVal IN
  /\ At(u, "save", "stamped")
  /\ user' = [user EXCEPT ![u].pc = "encoded",
                          ![u].pw = [by |-> u, stamp |-> stamp, took |-> 0,
                                     time |-> IF stamp # 0 THEN stamp ELSE Bounded(SystemClock)]]
  /\ FilesKept

obfiWritePw(u) ==
  /\ At(u, "save", "encoded")
  /\ inodes' = [inodes EXCEPT ![user[u].ino] =
                  [blank |-> FALSE, mtime |-> FileClock,
                   pw |-> [user[u].pw EXCEPT !.took = clock - user[u].at]]]
  /\ Leave(u, "ok")
  /\ last' = u /\ lost' = FALSE
  /\ UNCHANGED <<errand, clock, named, raced>>
\* Nothing of it is written, or a part.
WriteFails(u) ==
  /\ At(u, "save", "encoded")
  /\ \/ UNCHANGED inodes
     \/ inodes' = [inodes EXCEPT ![user[u].ino] = [blank |-> FALSE, mtime |-> FileClock, pw |-> Torn]]
  /\ Leave(u, "FILE_WRITE_ERR")
  /\ lost' = TRUE
  /\ UNCHANGED <<errand, clock, named, last, raced>>

Saving(u) == At(u, "save", "opened") \/ At(u, "save", "stamped") \/ At(u, "save", "encoded")
\* The process ends in the middle.
Killed(u) ==
  /\ Saving(u) /\ Go(u, "killed") /\ lost' = TRUE
  /\ UNCHANGED <<errand, clock, named, inodes, last, raced>>

-----------------------------------------------------------------------------
(* obfTempOps: obfGetPw, which is obfiGetTv, obfiGetPw and obfiDecode, and *)
(* the file removed if the password is a temporary one.                    *)

obfiGetTv(u) ==
  /\ At(u, "tempOps", "start")
  /\ \/ Leave(u, "UNABLE_TO_STAT_FILE")
     \/ /\ named # 0
        /\ user' = [user EXCEPT ![u].pc = "timed", ![u].timeVal = Bounded(inodes[named].mtime)]
  /\ FilesKept

Whole(file) == file.pw \notin {Nothing, Torn} /\ ~file.blank
\* What obfiGetPw and obfiDecode make of a file, given its time.
Result(file, timeVal) ==
  IF file.pw \in {Nothing, Torn} THEN "AUTH_FILE_NOT_ENCRYPTED"
  ELSE IF StoredLen(errand[file.pw.by]) >= Obf!MAX_PASSWORD_LEN THEN "PASSWORD_EXCEEDS_MAX_SIZE"
  ELSE IF Whole(file) /\ Obf!obfiTimeCheck(file.pw.time, timeVal) THEN "ok"
  ELSE "AUTH_FILE_NOT_ENCRYPTED"

isTemp(pw) == errand[pw.by].temp
obfiGetPw(u) ==
  /\ At(u, "tempOps", "timed") /\ named # 0
  /\ LET result == Result(inodes[named], user[u].timeVal)
     IN IF result = "ok" /\ isTemp(inodes[named].pw)
        THEN user' = [user EXCEPT ![u].pc = "unlinking", ![u].ino = named, ![u].pw = inodes[named].pw]
        ELSE Leave(u, result)
  /\ FilesKept
\* The file cannot be opened or read, or a part of a password passes for one,
\* perhaps for a temporary one.
NotRead(u) ==
  /\ At(u, "tempOps", "timed")
  /\ \/ Leave(u, "FILE_OPEN_ERR")
     \/ named # 0 /\ Leave(u, "FILE_READ_ERR")
     \/ /\ named # 0 /\ inodes[named].pw = Torn /\ ~inodes[named].blank
        /\ \/ Leave(u, "ok")
           \/ user' = [user EXCEPT ![u].pc = "unlinking", ![u].ino = named, ![u].pw = Torn]
  /\ FilesKept

\* obfTempOps and obfRmPw take away whatever has the name by then.
Unlink(u, met) ==
  /\ named' = 0
  /\ raced' = (raced \/ met \/ \E v \in Users : Saving(v) /\ user[v].ino = named)
  /\ Leave(u, "ok")
  /\ UNCHANGED <<errand, clock, inodes, last, lost>>
\* Whether unlink fails is not looked at.
obfTempOps(u) ==
  /\ At(u, "tempOps", "unlinking")
  /\ \/ Unlink(u, named # user[u].ino \/ inodes[named].pw # user[u].pw)
     \/ Leave(u, "ok") /\ FilesKept

\* obfRmPw: the file is looked for and the user asked, before it is removed.
LookForPw(u) ==
  /\ At(u, "rm", "start")
  /\ IF named = 0 THEN Leave(u, "AUTH_FILE_DOES_NOT_EXIST") ELSE Go(u, "removing")
  /\ FilesKept
obfRmPw(u) ==
  /\ At(u, "rm", "removing")
  /\ \/ Unlink(u, named # 0)
     \/ Leave(u, "canceled") /\ FilesKept
     \/ named # 0 /\ Leave(u, "UNLINK_FAILED") /\ FilesKept

Tick == clock < MaxClock /\ clock' = clock + 10
        /\ UNCHANGED <<errand, named, inodes, user, last, raced, lost>>

PwNext ==
  \/ \E u \in Users :
       \/ obfiOpenOutFile(u) \/ NotOpened(u) \/ obfiSetTimeFromFile(u) \/ StampFails(u)
       \/ EncodePw(u) \/ obfiWritePw(u) \/ WriteFails(u) \/ Killed(u)
       \/ obfiGetTv(u) \/ obfiGetPw(u) \/ NotRead(u) \/ obfTempOps(u) \/ LookForPw(u) \/ obfRmPw(u)
  \/ Tick
PwSpec == PwInit /\ [][PwNext]_pwVars

-----------------------------------------------------------------------------
(* Properties.                                                             *)

\* A password was written within 20 seconds of its stamp, and if that was 0, which
\* means the system's clock, that and the file system's are near enough.
InTime(pw) == pw.took < 20 /\ (pw.stamp = 0 => -20 < Skew /\ pw.took + Skew < 20)

\* Once nobody is saving, the password that was written last can be read, all of
\* it, whoever else wrote to the same file, and however long ago it was.  It is
\* not so when a removal met a save: unlink takes what has the name, be it what
\* was read or not; when a process was killed or a call failed after the file was
\* emptied, for the old password went before the new one came, until somebody
\* saves again; when 20 seconds went by between the stamp and the password; when
\* the stamp was 0 and the clocks differ; and for a temporary password of more
\* than 28 characters, which is saved but too long to be read.
Quiet == ~lost /\ \A u \in Users : ~Saving(u)
PasswordKept ==
  last # Nobody /\ ~raced /\ Quiet =>
    LET file == inodes[user[last].ino]
    IN file.pw.by = last /\
       (InTime(file.pw) /\ ~(errand[last].temp /\ errand[last].len > 28) =>
          /\ Result(file, Bounded(file.mtime)) = "ok"
          /\ named = user[last].ino \/ errand[last].temp)
=============================================================================
