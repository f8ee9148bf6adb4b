------------------------------ MODULE LfRestart ------------------------------
(***************************************************************************)
(* Restarting a large-file transfer: Portal's transfer may be cut short by *)
(* the death of the process at any step, or end with an error; then a new  *)
(* process reads the restart file (readLfRestartFile) and moves what it    *)
(* does not claim (lfRestartPutWithInfo, lfRestartGetWithInfo), keeping    *)
(* the file up to date on the way, since it may die as well.               *)
(*                                                                         *)
(* The application that calls these functions is not in the repository: it *)
(* is taken to restart a transfer that did not succeed, with the local     *)
(* file, the data object and the restart file as they were left.  The data *)
(* of the two directions go one way or the other between two files that    *)
(* are sought and advanced together, hence one position for both.          *)
(***************************************************************************)
EXTENDS Portal, FiniteSetsExt

CONSTANT MaxRestarts   \* bound on the number of restarts

ASSUME RestartsAssumption == MaxRestarts \in Nat

VARIABLES
  phase,      \* "transfer", "dead", "restart" or "restarted"
  restarts,   \* how many restarts there were
  rPc,        \* where the restart is
  i,          \* the loop's index
  seg,        \* info->dataSeg, read from the file and kept up to date
  rOffset,    \* curOffset
  rPos,       \* where the two files stand
  gap,        \* of putSeg or getSeg: the blocks still to move
  rResult,    \* of the last restart: "none", "ok" or "error"
  shorts      \* how many reads of the local file fell short in putSeg

restartVars == <<phase, restarts, rPc, i, seg, rOffset, rPos, gap, rResult, shorts>>
allVars == <<vars, restartVars>>
\* Of Portal's variables, a restart changes stored and the restart file only.
idleVars == <<serverVars, pc, moveVars, dataSeg, packVars, mainVars>>

RestartTypeOK ==
  /\ phase \in {"transfer", "dead", "restart", "restarted"}
  /\ restarts \in 0 .. MaxRestarts
  /\ rPc \in {"walk", "gap", "open", "write", "skip"}
  /\ i \in 0 .. NumThreads
  /\ seg \in [Threads -> Segment]
  /\ rOffset \in 0 .. NumBlocks
  /\ rPos \in 0 .. NumBlocks
  /\ gap \in 0 .. NumBlocks
  /\ rResult \in {"none", "ok", "error"}
  /\ shorts \in Nat

RestartInit ==
  /\ Init
  /\ phase = "transfer" /\ restarts = 0
  /\ rPc = "walk" /\ i = 0
  /\ seg = [t \in Threads |-> NoSegment]
  /\ rOffset = 0 /\ rPos = 0 /\ gap = 0
  /\ rResult = "none" /\ shorts = 0

-----------------------------------------------------------------------------
Transfer ==
  /\ phase = "transfer"
  /\ (\E t \in Threads : Thread(t) \/ Break(t)) \/ Main
  /\ UNCHANGED restartVars

\* What the dead process wrote to its connections may still arrive.
Arrival ==
  /\ \E t \in Threads : StoreBlock(t)
  /\ UNCHANGED restartVars

\* The locals of lfRestartGetWithInfo and lfRestartPutWithInfo.
StartLocals ==
  /\ rPc' = "walk" /\ i' = 0
  /\ rOffset' = 0 /\ rPos' = 0 /\ gap' = 0
LoseLocals == StartLocals /\ seg' = [t \in Threads |-> NoSegment]

\* The process dies: its memory is lost, its connections break.  The files,
\* and what is on its way to the server, stay.
Crash ==
  /\ \/ phase = "transfer" /\ mainPc # "returned"
     \/ phase = "restart"
  /\ phase' = "dead"
  /\ connected' = [t \in Threads |-> FALSE]
  /\ pc' = [t \in Threads |-> "new"]
  /\ status' = [t \in Threads |-> 0]
  /\ bytesWritten' = [t \in Threads |-> 0]
  /\ curOffset' = [t \in Threads |-> 0]
  /\ dataSeg' = [t \in Threads |-> NoSegment]
  /\ packed' = [t \in Threads |-> NoSegment]
  /\ packAt' = 0
  /\ mainPc' = "start" /\ started' = 0 /\ joined' = 0 /\ totalWritten' = 0
  /\ retVal' = 0 /\ result' = "none" /\ rResult' = "none"
  /\ LoseLocals
  /\ UNCHANGED <<served, acked, serverFailed, pos, header, left, fileVars, stored,
                 restarts, shorts>>

NotSucceeded ==
  \/ phase = "dead"
  \/ phase = "transfer" /\ mainPc = "returned" /\ result = "error"
  \/ phase = "restarted" /\ rResult = "error"

\* An empty restart file is an error: there is nothing to restart from.
ReadRestartFile ==
  /\ NotSucceeded /\ restarts < MaxRestarts
  /\ restartFile = "whole"
  /\ phase' = "restart" /\ restarts' = restarts + 1
  /\ seg' = saved
  /\ StartLocals
  /\ rResult' = "none"
  /\ UNCHANGED <<vars, shorts>>

\* Where the next segment begins, or the end of the file.
Target == IF i < NumThreads THEN seg[i].offset ELSE NumBlocks

\* At a segment: is there a gap before it?
FindGap ==
  /\ phase = "restart" /\ rPc = "walk"
  /\ IF Target > rOffset
     THEN gap' = Target - rOffset /\ rPc' = "gap"
     ELSE gap' = 0 /\ rPc' = "skip"
  /\ UNCHANGED <<vars, phase, restarts, i, seg, rOffset, rPos, rResult, shorts>>

\* Operators with a fault in their name are variants with that fault.
LenToUpdateNext == i
LenToUpdate == i - 1

\* A block of the gap is dealt with: it is counted in the segment before the gap,
\* and from time to time the restart file is rewritten.
CountBlock ==
  /\ gap' = gap - 1
  /\ seg' = IF LenToUpdate \in Threads
            THEN [seg EXCEPT ![LenToUpdate].len = @ + 1] ELSE seg
  /\ rPc' \in {"gap", "open"}

\* putSeg, getSeg: a block is read and written where the two files stand.
MoveBlock ==
  /\ phase = "restart" /\ rPc = "gap" /\ gap > 0
  /\ rPos < NumBlocks
  /\ stored' = stored \cup {rPos}
  /\ rPos' = rPos + 1
  /\ CountBlock
  /\ UNCHANGED <<idleVars, fileVars, phase, restarts, i, rOffset, rResult, shorts>>

\* putSeg does not look at what myRead returned: when the local file ends early
\* or cannot be read, what there is, less than a block, is written, both files
\* stay behind, and the block is counted as if it had been moved.
ReadFallsShort ==
  /\ Direction = "put"
  /\ phase = "restart" /\ rPc = "gap" /\ gap > 0
  /\ CountBlock
  /\ shorts' = shorts + 1
  /\ UNCHANGED <<idleVars, fileVars, stored, phase, restarts, i, rOffset, rPos, rResult>>

EndGap ==
  /\ phase = "restart" /\ rPc = "gap" /\ gap = 0
  /\ rOffset' = Target
  /\ rPc' = "skip"
  /\ UNCHANGED <<vars, phase, restarts, i, seg, rPos, gap, rResult, shorts>>

OpenRestartFile ==
  /\ phase = "restart" /\ rPc = "open"
  /\ restartFile' = "empty"
  /\ rPc' = "write"
  /\ UNCHANGED <<idleVars, saved, stored, phase, restarts, i, seg, rOffset, rPos, gap,
                 rResult, shorts>>

InfoOfHandle == dataSeg
InfoToWrite  == seg
WriteRestartFile ==
  /\ phase = "restart" /\ rPc = "write"
  /\ restartFile' = "whole" /\ saved' = InfoToWrite
  /\ rPc' = "gap"
  /\ UNCHANGED <<idleVars, stored, phase, restarts, i, seg, rOffset, rPos, gap, rResult, shorts>>

\* What a segment claims is skipped, in both files.
SkipForgetsSeek(n) == UNCHANGED rPos
SkipTo(n) == rPos' = n
Skip ==
  /\ phase = "restart" /\ rPc = "skip" /\ i < NumThreads
  /\ IF seg[i].len > 0
     THEN rOffset' = rOffset + seg[i].len /\ SkipTo(rOffset + seg[i].len)
     ELSE UNCHANGED <<rOffset, rPos>>
  /\ i' = i + 1
  /\ rPc' = "walk"
  /\ UNCHANGED <<vars, phase, restarts, seg, gap, rResult, shorts>>

Restarted ==
  /\ phase = "restart" /\ rPc = "skip" /\ i = NumThreads
  /\ phase' = "restarted" /\ rResult' = "ok"
  /\ LoseLocals
  /\ UNCHANGED <<vars, restarts, shorts>>

\* Opening, seeking or writing fails, also of the restart file, or in getSeg the
\* read; in putSeg a read that fails is no error (ReadFallsShort).
RestartFails ==
  /\ phase = "restart"
  /\ rPc = "gap" => gap > 0
  /\ phase' = "restarted" /\ rResult' = "error"
  /\ LoseLocals
  /\ UNCHANGED <<vars, restarts, shorts>>

Restart ==
  \/ ReadRestartFile \/ FindGap \/ MoveBlock \/ ReadFallsShort \/ EndGap
  \/ OpenRestartFile \/ WriteRestartFile \/ Skip \/ Restarted \/ RestartFails

RestartNext == Transfer \/ Arrival \/ Crash \/ Restart

RestartSpec == RestartInit /\ [][RestartNext]_allVars

-----------------------------------------------------------------------------
(* Properties.                                                             *)

\* Where a restart stands after the n-th segment: a segment begins at its
\* offset, or where the one before ended if its offset lies behind that.
End(segs, n) ==
  LET end[k \in 0 .. NumThreads] ==
        IF k = 0 THEN 0 ELSE Max({segs[k - 1].offset, end[k - 1]}) + segs[k - 1].len
  IN end[n]
Claimed(segs) ==
  UNION {End(segs, s + 1) - segs[s].len .. End(segs, s + 1) - 1 : s \in Threads}

\* lfRestartGetWithInfo and lfRestartPutWithInfo succeed only when the file is
\* whole, whatever the death of the process cut short before, several times,
\* and although the length of a gap is added to a segment that may not have
\* begun yet: provided that putSeg's reads of the local file were whole.
RestartComplete == rResult = "ok" /\ shorts = 0 => Delivered = Blocks

\* The restart file, also one a restart has rewritten, claims only blocks that
\* were moved, with the same proviso.
ClaimSound == restartFile = "whole" /\ shorts = 0 => Claimed(saved) \subseteq Delivered

\* The two together, with the types of the restart's variables: what the restart
\* file says and what is in the file, through every death of the process.
RestartSound == RestartTypeOK /\ RestartComplete /\ ClaimSound

\* What the unchecked reads of putSeg cost: the restart file claims, and a restart
\* that succeeds leaves out, no more blocks than reads fell short, over all
\* restarts and deaths; with none it is RestartSound.
ShortfallBounded ==
  /\ restartFile = "whole" => Cardinality(Claimed(saved) \ Delivered) <= shorts
  /\ rResult = "ok" => Cardinality(Blocks \ Delivered) <= shorts

\* A restart file never takes back what an earlier one claimed.
ClaimGrows == [][Claimed(saved) \subseteq Claimed(saved')]_allVars

\* "Should not be here": while a restart walks over the segments, none begins
\* behind the place it has reached.
NoOverlap == phase = "restart" /\ rPc = "walk" => Target >= rOffset
=============================================================================
