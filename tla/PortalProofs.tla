---------------------------- MODULE PortalProofs ----------------------------
(***************************************************************************)
(* Theorems about Portal, for any number of threads and blocks, any        *)
(* division of the file among the threads, and either direction, and about *)
(* LfRestart, for any number of deaths and restarts as well.               *)
(***************************************************************************)
EXTENDS LfRestart, Induction

Busy == {"move", "count", "pack", "write", "book"}

\* How far a thread is: what it has counted, where it stands in its header and
\* in the file.
Progress(t) ==
  /\ Cut[t] <= served[t] /\ served[t] <= Cut[t + 1]
  /\ header[t].length = 0 =>
       /\ header[t].offset = 0 /\ served[t] = Cut[t]
       /\ curOffset[t] = 0 /\ pos[t] = 0 /\ left[t] = 0 /\ acked[t] = 0
       /\ bytesWritten[t] = 0
       /\ pc[t] \notin Busy
  /\ header[t].length > 0 =>
       /\ pc[t] # "new"
       /\ Cut[t] <= header[t].offset
       /\ header[t].offset + header[t].length = served[t]
       /\ left[t] + acked[t] <= header[t].length
       /\ pos[t] + left[t] = served[t]
       /\ pc[t] \in Busy => /\ curOffset[t] = header[t].offset
                            /\ bytesWritten[t] + Cut[t] = header[t].offset
       /\ pc[t] \notin Busy => bytesWritten[t] + Cut[t] = served[t]
       /\ pc[t] = "header" => curOffset[t] = served[t]

\* A thread whose server thread goes on, and one that ended without an error,
\* has moved all it was told to.
Ends(t) ==
  /\ pc[t] \notin {"book", "end"} => status[t] = 0
  /\ Direction = "get" /\ connected[t] /\ status[t] = 0 /\ pc[t] \in {"book", "header"}
       => left[t] = 0
  /\ pc[t] = "end" /\ status[t] = 0 /\ (Direction = "put" => ~serverFailed)
       => left[t] = 0 /\ HasAnswered(t)

\* What has been moved is in its place; for a put, what was acknowledged.
Frontier(t) == IF Direction = "get" THEN pos[t] ELSE header[t].offset + acked[t]
Kept(t) == \A b \in Blocks : Cut[t] <= b /\ b < Frontier(t) => b \in stored

\* A segment claims no more than its thread has moved.
Claims(t) ==
  /\ header[t].length = 0 => dataSeg[t] = NoSegment
  /\ header[t].length > 0 /\ pc[t] # "end" => dataSeg[t].offset = Cut[t]
  /\ dataSeg[t].len > 0 => /\ dataSeg[t].offset = Cut[t]
                           /\ Cut[t] + dataSeg[t].len <= pos[t]
  /\ pc[t] = "count" => Cut[t] + dataSeg[t].len + 1 <= pos[t]

\* The copy of a segment is right but for the offset between the two reads.
Packed(s) ==
  /\ packed[s].len > 0 => /\ Cut[s] + packed[s].len <= pos[s]
                          /\ packAt = 2 * s + 1 \/ packed[s].offset = Cut[s]
  /\ packAt = 2 * s + 1 /\ pc[0] = "pack" => packed[s].len <= dataSeg[s].len
Packs ==
  /\ \A t \in Threads : pc[t] \in {"pack", "write"} => t = 0
  /\ pc[0] # "pack" => packAt = 0

Saved(s) == saved[s].len > 0 => /\ saved[s].offset = Cut[s]
                                /\ Cut[s] + saved[s].len <= pos[s]

Held(n) == \A b \in Blocks : b < n => b \in stored

\* The calling thread.
Caller ==
  /\ mainPc \in {"start", "unwind"} => joined = 0 /\ totalWritten = 0
  /\ mainPc = "start" => \A t \in Threads : t >= started => pc[t] = "new"
  /\ mainPc = "unwind" => retVal = -1
  /\ \A t \in Threads : t < joined => pc[t] = "end"
  /\ totalWritten <= Cut[joined]
  /\ retVal = 0 /\ totalWritten = Cut[joined] /\ (Direction = "put" => ~serverFailed)
       => Held(Cut[joined])
  /\ mainPc \in {"finish", "clear"} /\ retVal = 0
       => joined = NumThreads /\ totalWritten = NumBlocks
  /\ mainPc = "clear" => retVal = 0
  /\ result = "ok" => stored = Blocks

ThreadInv(t) == Progress(t) /\ Ends(t) /\ Kept(t) /\ Claims(t)
IInv ==
  /\ TypeOK
  /\ \A t \in Threads : ThreadInv(t) /\ Packed(t) /\ Saved(t)
  /\ Packs
  /\ Caller

-----------------------------------------------------------------------------
(* Facts about the constants and the frame of a step.                      *)

\* A thread and the next are places in the server's division of the file.
LEMMA CutFacts ==
  /\ NumThreads \in Nat /\ NumThreads > 0 /\ NumBlocks \in Nat /\ NumBlocks > 0
  /\ \A t \in Threads : /\ t \in Int /\ 0 <= t /\ t < NumThreads
                        /\ Cut[t] \in 0 .. NumBlocks /\ Cut[t + 1] \in 0 .. NumBlocks
                        /\ Cut[t] <= Cut[t + 1]
  /\ \A n \in 0 .. NumThreads : Cut[n] \in 0 .. NumBlocks
  /\ Cut[0] = 0 /\ Cut[NumThreads] = NumBlocks
  /\ 0 \in Threads
  BY PortalAssumption, CutAssumption DEF Threads

\* A step of one thread, or of the caller, leaves the others as they are.
Untouched(u) ==
  /\ connected'[u] => connected[u]
  /\ served'[u] = served[u] /\ acked'[u] = acked[u] /\ pc'[u] = pc[u]
  /\ status'[u] = status[u] /\ bytesWritten'[u] = bytesWritten[u]
  /\ curOffset'[u] = curOffset[u] /\ pos'[u] = pos[u] /\ header'[u] = header[u]
  /\ left'[u] = left[u] /\ dataSeg'[u] = dataSeg[u]
Grows == stored \subseteq stored' /\ (serverFailed => serverFailed')

\* ... and their part of the invariant with them.
LEMMA UntouchedKeeps ==
  ASSUME NEW u \in Threads, TypeOK, TypeOK', ThreadInv(u), Untouched(u), Grows
  PROVE  ThreadInv(u)'
<1>1. Progress(u)' /\ Claims(u)'
  BY DEF ThreadInv, Progress, Claims, Untouched
<1>2. Ends(u)'
  BY DEF ThreadInv, Ends, Untouched, Grows, HasAnswered, TypeOK
<1>3. Kept(u)'
  BY DEF ThreadInv, Kept, Frontier, Untouched, Grows
<1> QED BY <1>1, <1>2, <1>3 DEF ThreadInv

\* The packed copy and the saved one stay right while threads go forward.
LEMMA CopiesKept ==
  ASSUME NEW u \in Threads, TypeOK, TypeOK', IInv,
         pos[u] <= pos'[u],
         dataSeg[u].len <= dataSeg'[u].len \/ pc'[0] # "pack",
         pc'[0] = "pack" => pc[0] = "pack" \/ packAt = 0,
         packed' = packed, packAt' = packAt, saved' = saved
  PROVE  Packed(u)' /\ Saved(u)'
<1>1. /\ Packed(u) /\ Saved(u)
      /\ packed[u] \in Segment /\ saved[u] \in Segment
      /\ pos[u] \in 0 .. NumBlocks /\ pos'[u] \in 0 .. NumBlocks
      /\ dataSeg[u] \in Segment /\ dataSeg'[u] \in Segment
  BY DEF IInv, TypeOK
<1>0. Cut[u] \in Int /\ NumBlocks \in Int /\ u \in Int /\ 0 <= u
  BY CutFacts
<1>2. Saved(u)'
  BY <1>1, <1>0 DEF Saved, Segment
<1>3. Packed(u)'
  BY <1>1, <1>0 DEF Packed, Segment
<1> QED BY <1>2, <1>3

\* A step outside the calling thread keeps its part of the invariant.
LEMMA CallerKept ==
  ASSUME IInv, TypeOK', UNCHANGED mainVars, Grows,
         \A u \in Threads : pc[u] \in {"end", "new"} => pc'[u] = pc[u]
  PROVE  Caller'
<1>1. Caller /\ TypeOK
  BY DEF IInv
<1>2. \A t \in Threads : t < joined => pc'[t] = "end"
  BY <1>1 DEF Caller
<1>3. mainPc = "start" => \A t \in Threads : t >= started => pc'[t] = "new"
  BY <1>1 DEF Caller
<1>4. result = "ok" => stored' = Blocks
  BY <1>1 DEF Caller, Grows, TypeOK
<1>5. retVal = 0 /\ totalWritten = Cut[joined] /\ (Direction = "put" => ~serverFailed')
        => Held(Cut[joined])'
  BY <1>1 DEF Caller, Grows, Held, mainVars, TypeOK
<1> QED BY <1>1, <1>2, <1>3, <1>4, <1>5 DEF Caller, mainVars, Held

\* What is left to show of a step of one thread ...
LEMMA StepKeeps ==
  ASSUME IInv, TypeOK', NEW t \in Threads,
         pc[t] \notin {"new", "end"} \/ pc' = pc, ThreadInv(t)',
         \A u \in Threads \ {t} : Untouched(u),
         Grows, Packs', UNCHANGED mainVars,
         \A u \in Threads : Packed(u)' /\ Saved(u)'
  PROVE  IInv'
<1>1. \A u \in Threads : ThreadInv(u)'
  BY UntouchedKeeps DEF IInv
<1>2. \A u \in Threads : pc[u] \in {"end", "new"} => pc'[u] = pc[u]
  BY DEF Untouched
<1>3. Caller'
  BY <1>2, CallerKept
<1> QED BY <1>1, <1>3 DEF IInv

\* ... and of one that does not write copies.
LEMMA ThreadKeeps ==
  ASSUME IInv, TypeOK', NEW t \in Threads,
         pc[t] \notin {"new", "end"} \/ pc' = pc, ThreadInv(t)',
         pos[t] <= pos'[t], dataSeg[t].len <= dataSeg'[t].len,
         \A u \in Threads \ {t} : Untouched(u),
         Grows, Packs',
         pc'[0] = "pack" => pc[0] = "pack" \/ packAt = 0,
         UNCHANGED <<packed, packAt, saved, mainVars>>
  PROVE  IInv'
<1>1. ASSUME NEW u \in Threads PROVE pos[u] <= pos'[u] /\ dataSeg[u].len <= dataSeg'[u].len
  <2>1. CASE u = t
    BY <2>1
  <2>2. CASE u # t
    <3>1. pos[u] \in 0 .. NumBlocks /\ dataSeg[u].len \in 0 .. NumBlocks
      BY DEF IInv, TypeOK, Segment
    <3> QED BY <2>2, <3>1, CutFacts DEF Untouched
  <2> QED BY <2>1, <2>2
<1>2. \A u \in Threads : Packed(u)' /\ Saved(u)'
  BY <1>1, CopiesKept DEF IInv
<1> QED BY <1>2, StepKeeps

-----------------------------------------------------------------------------
(* The steps of a thread.                                                  *)

\* The types of what belongs to one thread.
LEMMA ThreadFacts ==
  ASSUME IInv, NEW t \in Threads
  PROVE  /\ TypeOK /\ ThreadInv(t)
         /\ served[t] \in Int /\ acked[t] \in Int /\ left[t] \in Int /\ pos[t] \in Int
         /\ curOffset[t] \in Int /\ bytesWritten[t] \in Int
         /\ header[t].offset \in Int /\ header[t].length \in Int
         /\ dataSeg[t] \in Segment /\ header[t].length >= 0 /\ pos[t] >= 0
         /\ 0 <= left[t] /\ 0 <= acked[t] /\ 0 <= served[t] /\ served[t] <= NumBlocks
         /\ dataSeg[t].len \in Int /\ dataSeg[t].len >= 0
         /\ Cut[t] \in Int /\ 0 <= Cut[t] /\ Cut[t + 1] \in Int /\ Cut[t + 1] <= NumBlocks
         /\ NumBlocks \in Int
<1>1. TypeOK /\ ThreadInv(t)
  BY DEF IInv
<1> QED BY <1>1, CutFacts DEF TypeOK, Segment

\* A header starts its thread on a segment whose bytes are not moved yet.
LEMMA RcvHeaderKeeps ==
  ASSUME IInv, NEW t \in Threads, NEW length \in 1 .. NumBlocks, RcvHeader(t, length)
  PROVE  IInv'
<1>1. TypeOK /\ ThreadInv(t)
  BY DEF IInv
<1>2. /\ served[t] \in Int /\ acked[t] \in Int /\ left[t] \in Int /\ pos[t] \in Int
      /\ curOffset[t] \in Int /\ bytesWritten[t] \in Int
      /\ header[t].offset \in Int /\ header[t].length \in Int
      /\ dataSeg[t] \in Segment /\ header[t].length >= 0 /\ pos[t] >= 0
      /\ 0 <= left[t] /\ 0 <= acked[t] /\ 0 <= served[t] /\ served[t] <= NumBlocks
  BY ThreadFacts
<1>3. /\ Cut[t] \in Int /\ 0 <= Cut[t] /\ Cut[t + 1] \in Int /\ Cut[t + 1] <= NumBlocks
      /\ NumBlocks \in Int
  BY ThreadFacts
<1>4. left[t] = 0 /\ (Direction = "put" => acked[t] = header[t].length)
  BY <1>1, <1>2 DEF ThreadInv, Ends, Progress, RcvHeader, HasAnswered
<1>5. curOffset[t] # served[t] => header[t].length = 0
  BY <1>1, <1>2 DEF ThreadInv, Progress, RcvHeader
<1>6. pos'[t] = served[t] /\ pos[t] <= served[t]
  BY <1>1, <1>2, <1>4, <1>5 DEF ThreadInv, Progress, RcvHeader, TypeOK
<1>7. /\ served'[t] = served[t] + length /\ acked'[t] = 0
      /\ header'[t] = [offset |-> served[t], length |-> length]
      /\ left'[t] = length /\ curOffset'[t] = served[t] /\ pc'[t] = "move"
      /\ pc[t] = "header" /\ length \in 1 .. Cut[t + 1] - served[t]
      /\ bytesWritten' = bytesWritten /\ status' = status /\ connected' = connected
      /\ serverFailed' = serverFailed /\ stored' = stored
  BY <1>1 DEF RcvHeader, TypeOK
<1>8. dataSeg'[t].offset = Cut[t] /\ dataSeg'[t].len = dataSeg[t].len
  BY <1>1, <1>2, <1>3 DEF ThreadInv, Claims, Progress, RcvHeader, TypeOK, NoSegment, Segment
<1>9. TypeOK'
  <2>1. served' \in [Threads -> 0 .. NumBlocks] /\ curOffset' \in [Threads -> 0 .. NumBlocks]
    BY <1>1, <1>2, <1>3, <1>7 DEF TypeOK, RcvHeader
  <2>2. pos' \in [Threads -> 0 .. NumBlocks] /\ acked' \in [Threads -> 0 .. NumBlocks]
    BY <1>1, <1>2, <1>3, <1>7 DEF TypeOK, RcvHeader
  <2>3. left' \in [Threads -> 0 .. NumBlocks]
        /\ header' \in [Threads -> [offset : 0 .. NumBlocks, length : 0 .. NumBlocks]]
    BY <1>1, <1>2, <1>3, <1>7 DEF TypeOK, RcvHeader
  <2>4. dataSeg' \in [Threads -> Segment]
    BY <1>1, <1>2, <1>3 DEF TypeOK, RcvHeader, Segment
  <2> QED BY <1>1, <2>1, <2>2, <2>3, <2>4
       DEF TypeOK, RcvHeader, packVars, fileVars, mainVars
<1>10. Progress(t)'
  BY <1>1, <1>2, <1>3, <1>4, <1>6, <1>7 DEF ThreadInv, Progress, Busy
<1>11. Ends(t)'
  BY <1>1, <1>7 DEF ThreadInv, Ends
<1>12. Kept(t)'
  <2>1. Frontier(t)' = served[t]
    BY <1>1, <1>2, <1>6, <1>7 DEF Frontier
  <2>2. served[t] = Cut[t] \/ Frontier(t) = served[t]
    BY <1>1, <1>2, <1>3, <1>4, PortalAssumption DEF ThreadInv, Progress, Frontier
  <2>3. \A b \in Blocks : b \in Int
    BY DEF Blocks
  <2> QED BY <1>1, <1>2, <1>3, <1>7, <2>1, <2>2, <2>3 DEF ThreadInv, Kept
<1>13. Claims(t)'
  BY <1>1, <1>2, <1>3, <1>6, <1>7, <1>8 DEF ThreadInv, Claims, Segment
<1>14. \A u \in Threads \ {t} : Untouched(u)
  BY <1>1 DEF TypeOK, RcvHeader, Untouched
<1>15. Grows /\ Packs' /\ (pc'[0] = "pack" => pc[0] = "pack")
  BY <1>1, CutFacts DEF Grows, Packs, IInv, RcvHeader, TypeOK, packVars
<1>16. UNCHANGED <<packed, packAt, saved, mainVars>>
  BY DEF RcvHeader, packVars, fileVars
<1>17. pos[t] <= pos'[t] /\ dataSeg[t].len <= dataSeg'[t].len /\ pc[t] \notin {"new", "end"}
  BY <1>1, <1>2, <1>3, <1>6, <1>7, <1>8 DEF Segment
<1> QED BY <1>9, <1>10, <1>11, <1>12, <1>13, <1>14, <1>15, <1>16, <1>17, ThreadKeeps DEF ThreadInv

\* The ways out of the outer loop.
LEMMA LeaveKeeps ==
  ASSUME IInv, NEW t \in Threads, RcvDone(t) \/ RcvFails(t) \/ EnvFails(t)
  PROVE  IInv'
<1>1. TypeOK /\ ThreadInv(t)
  BY DEF IInv
<1>2. /\ pc[t] = "header" /\ pc' = [pc EXCEPT ![t] = "end"]
      /\ UNCHANGED <<connected, served, acked, bytesWritten, curOffset, pos, header, left,
                     dataSeg, packVars, fileVars, stored, mainVars>>
  BY DEF RcvDone, RcvFails, EnvFails, serverVars, moveVars
<1>3. /\ \/ status' = status
         \/ status' = [status EXCEPT ![t] = -1]
      /\ serverFailed' \in BOOLEAN /\ (serverFailed => serverFailed')
  BY <1>1 DEF RcvDone, RcvFails, EnvFails, serverVars, moveVars, Fail, TypeOK
<1>4. TypeOK'
  BY <1>1, <1>2, <1>3 DEF TypeOK, packVars, fileVars, mainVars
<1>5. Progress(t)' /\ Claims(t)' /\ Kept(t)'
  BY <1>1, <1>2, CutFacts
     DEF ThreadInv, Progress, Claims, Kept, Frontier, TypeOK, Busy
<1>6. Ends(t)'
  <2>1. CASE RcvFails(t)
    BY <2>1, <1>1, <1>2 DEF Ends, RcvFails, Fail, TypeOK
  <2>2. CASE EnvFails(t)
    BY <2>2, <1>1, <1>2 DEF Ends, EnvFails, TypeOK, ThreadInv, Progress, HasAnswered,
                            moveVars, serverVars
  <2>3. CASE RcvDone(t)
    <3>1. /\ Direction = "get" => left[t] = 0
          /\ (Direction = "put" => ~serverFailed') => HasAnswered(t)
      BY <2>3, <1>1, PortalAssumption DEF RcvDone, ThreadInv, Ends, HasAnswered
    <3>2. HasAnswered(t) => left[t] = 0
      BY <2>3, <1>1, <3>1, ThreadFacts DEF ThreadInv, Progress, HasAnswered
    <3> QED BY <2>3, <1>1, <1>2, <3>1, <3>2 DEF Ends, RcvDone, HasAnswered, moveVars, TypeOK
  <2> QED BY <2>1, <2>2, <2>3
<1>7. \A u \in Threads \ {t} : Untouched(u)
  BY <1>1, <1>2, <1>3 DEF TypeOK, Untouched
<1>8. Grows /\ Packs' /\ (pc'[0] = "pack" => pc[0] = "pack")
  BY <1>1, <1>2, <1>3, CutFacts DEF Grows, Packs, IInv, TypeOK, packVars
<1>9. UNCHANGED <<packed, packAt, saved, mainVars>>
  BY <1>2 DEF packVars, fileVars
<1>10. pos[t] <= pos'[t] /\ dataSeg[t].len <= dataSeg'[t].len
  BY <1>2, ThreadFacts
<1> QED BY <1>2, <1>4, <1>5, <1>6, <1>7, <1>8, <1>9, <1>10, ThreadKeeps DEF ThreadInv

\* A step of the inner loop moves one block further within its segment.
LEMMA MoveKeeps ==
  ASSUME IInv, NEW t \in Threads, Move(t)
  PROVE  IInv'
<1>1. TypeOK /\ ThreadInv(t)
  BY DEF IInv
<1>2. header[t].length > 0 /\ left[t] > 0 /\ connected[t]
  BY <1>1, ThreadFacts DEF Move, ThreadInv, Progress, Busy
<1>3. pos[t] = header[t].offset + header[t].length - left[t]
      /\ Cut[t] <= pos[t] /\ pos[t] < NumBlocks
  BY <1>1, <1>2, ThreadFacts DEF ThreadInv, Progress
<1>4. stored' = IF Direction = "put" THEN stored ELSE stored \cup {pos[t]}
  BY <1>3 DEF Move, Landed
<1>5. /\ pos'[t] = pos[t] + 1 /\ left'[t] = left[t] - 1 /\ pc'[t] = "count"
      /\ pc[t] = "move" /\ status'[t] = status[t]
      /\ UNCHANGED <<connected, served, acked, serverFailed, status, bytesWritten,
                     curOffset, header, dataSeg, packed, packAt, restartFile, saved,
                     mainVars>>
  BY <1>1 DEF Move, TypeOK, serverVars, packVars, fileVars
<1>6. TypeOK'
  <2>1. pos' \in [Threads -> 0 .. NumBlocks] /\ left' \in [Threads -> 0 .. NumBlocks]
    BY <1>1, <1>2, <1>3, <1>5, ThreadFacts DEF TypeOK, Move
  <2>2. stored' \in SUBSET Blocks
    <3>1. pos[t] \in Blocks
      BY <1>3, ThreadFacts DEF Blocks
    <3> QED BY <1>1, <1>3, <1>4, <3>1 DEF TypeOK
  <2> QED BY <1>1, <1>5, <2>1, <2>2 DEF TypeOK, Move, mainVars
<1>7. Progress(t)'
  BY <1>1, <1>2, <1>5, ThreadFacts DEF ThreadInv, Progress, Busy
<1>8. Ends(t)'
  BY <1>1, <1>5 DEF ThreadInv, Ends
<1>9. Kept(t)'
  <2>1. \A b \in Blocks : b \in Int
    BY DEF Blocks
  <2> QED BY <1>1, <1>4, <1>5, <2>1, ThreadFacts, PortalAssumption
       DEF ThreadInv, Kept, Frontier
<1>10. Claims(t)'
  BY <1>1, <1>2, <1>3, <1>5, ThreadFacts DEF ThreadInv, Claims
<1>11. \A u \in Threads \ {t} : Untouched(u)
  BY <1>1, <1>5 DEF TypeOK, Untouched, Move
<1>12. Grows /\ Packs' /\ (pc'[0] = "pack" => pc[0] = "pack")
  BY <1>1, <1>4, <1>5, CutFacts DEF Grows, Packs, IInv, TypeOK, Move
<1>13. pos[t] <= pos'[t] /\ dataSeg[t].len <= dataSeg'[t].len
  BY <1>5, ThreadFacts
<1> QED BY <1>5, <1>6, <1>7, <1>8, <1>9, <1>10, <1>11, <1>12, <1>13, ThreadKeeps
        DEF ThreadInv

\* An inner loop that breaks off.
LEMMA BreakOffKeeps ==
  ASSUME IInv, NEW t \in Threads, MoveFails(t) \/ MoveFailsSilently(t)
  PROVE  IInv'
<1>1. TypeOK /\ ThreadInv(t)
  BY DEF IInv
<1>2. /\ pc[t] = "move" /\ pc' = [pc EXCEPT ![t] = "book"]
      /\ UNCHANGED <<serverVars, bytesWritten, curOffset, pos, header, left,
                     dataSeg, packVars, fileVars, stored, mainVars>>
  BY DEF MoveFails, MoveFailsSilently, moveVars
<1>3. \/ status' = [status EXCEPT ![t] = -1]
      \/ status' = status /\ (Direction = "get" => ~connected[t])
  BY DEF MoveFails, MoveFailsSilently, Fail, moveVars
<1>4. TypeOK'
  BY <1>1, <1>2, <1>3 DEF TypeOK, serverVars, packVars, fileVars, mainVars
<1>5. Progress(t)' /\ Claims(t)' /\ Kept(t)'
  BY <1>1, <1>2, CutFacts
     DEF ThreadInv, Progress, Claims, Kept, Frontier, TypeOK, Busy, serverVars
<1>6. Ends(t)'
  BY <1>1, <1>2, <1>3 DEF Ends, TypeOK, serverVars
<1>7. \A u \in Threads \ {t} : Untouched(u)
  BY <1>1, <1>2, <1>3 DEF TypeOK, Untouched, serverVars
<1>8. Grows /\ Packs' /\ (pc'[0] = "pack" => pc[0] = "pack")
  BY <1>1, <1>2, <1>3, CutFacts DEF Grows, Packs, IInv, TypeOK, packVars, serverVars
<1>9. UNCHANGED <<packed, packAt, saved, mainVars>>
  BY <1>2 DEF packVars, fileVars
<1>10. pos[t] <= pos'[t] /\ dataSeg[t].len <= dataSeg'[t].len
  BY <1>2, ThreadFacts
<1> QED BY <1>2, <1>4, <1>5, <1>6, <1>7, <1>8, <1>9, <1>10, ThreadKeeps DEF ThreadInv

\* The counters grow by no more than what the inner loop has moved.
LEMMA CountKeeps ==
  ASSUME IInv, NEW t \in Threads, Count(t)
  PROVE  IInv'
<1>1. TypeOK /\ ThreadInv(t)
  BY DEF IInv
<1>2. header[t].length > 0 /\ status[t] = 0
  BY <1>1, ThreadFacts DEF Count, ThreadInv, Progress, Ends, Busy
<1>3. /\ dataSeg'[t].len = dataSeg[t].len + 1 /\ dataSeg'[t].offset = Cut[t]
      /\ pc[t] = "count" /\ pc'[t] \in {"move", "pack"} /\ (pc'[t] = "pack" => t = 0)
      /\ UNCHANGED <<serverVars, moveVars, packVars, fileVars, stored, mainVars>>
  BY <1>1, <1>2 DEF Count, TypeOK, Segment, ThreadInv, Claims
<1>4. Cut[t] + dataSeg'[t].len <= pos[t] /\ pos[t] <= NumBlocks
  BY <1>1, <1>2, <1>3, ThreadFacts DEF ThreadInv, Claims, Progress
<1>5. TypeOK'
  <2>1. dataSeg' \in [Threads -> Segment]
    BY <1>1, <1>3, <1>4, ThreadFacts DEF TypeOK, Count, Segment
  <2> QED BY <1>1, <1>3, <2>1
       DEF TypeOK, Count, serverVars, moveVars, packVars, fileVars, mainVars
<1>6. Progress(t)' /\ Kept(t)'
  BY <1>1, <1>2, <1>3 DEF ThreadInv, Progress, Kept, Frontier, Busy, serverVars, moveVars
<1>7. Ends(t)' /\ Claims(t)'
  BY <1>1, <1>2, <1>3, <1>4 DEF Ends, Claims, serverVars, moveVars, ThreadInv
<1>8. \A u \in Threads \ {t} : Untouched(u)
  BY <1>1, <1>3 DEF TypeOK, Untouched, Count, serverVars, moveVars
<1>9. Grows
  BY <1>3 DEF Grows, serverVars
<1>10. packAt' = packAt /\ (pc[0] # "pack" => packAt = 0)
  BY <1>3 DEF packVars, IInv, Packs
<1>11. Packs'
  <2>1. \A u \in Threads : pc'[u] \in {"pack", "write"} => u = 0
    BY <1>1, <1>3, <1>8 DEF IInv, Packs, Untouched
  <2>2. pc[0] = "pack" => pc'[0] = "pack"
    BY <1>3, <1>8, CutFacts DEF Untouched
  <2> QED BY <2>1, <2>2, <1>10 DEF Packs
<1>12. UNCHANGED <<packed, packAt, saved, mainVars>>
  BY <1>3 DEF packVars, fileVars
<1>13. pos[t] <= pos'[t] /\ dataSeg[t].len <= dataSeg'[t].len
  BY <1>3, ThreadFacts DEF moveVars
<1> QED BY <1>3, <1>5, <1>6, <1>7, <1>8, <1>9, <1>10, <1>11, <1>12, <1>13, ThreadKeeps
        DEF ThreadInv

\* What a thread enters in dataSeg is a part of the file it has moved, in
\* whichever order offset and len are written.
LEMMA BookKeeps ==
  ASSUME IInv, NEW t \in Threads, Book(t)
  PROVE  IInv'
<1>1. TypeOK /\ ThreadInv(t)
  BY DEF IInv
<1>2. header[t].length > 0 /\ pc[t] \in Busy
  BY <1>1, ThreadFacts DEF Book, ThreadInv, Progress, Busy
<1>3. /\ curOffset'[t] = served[t] /\ bytesWritten'[t] + Cut[t] = served[t]
      /\ curOffset[t] + header[t].length = served[t]
      /\ bytesWritten[t] + header[t].length + Cut[t] = served[t]
      /\ pc' = [pc EXCEPT ![t] = IF status[t] = 0 THEN "header" ELSE "end"]
      /\ UNCHANGED <<serverVars, status, pos, header, left, dataSeg, packVars, fileVars,
                     stored, mainVars>>
  BY <1>1, <1>2, ThreadFacts DEF Book, TypeOK, ThreadInv, Progress
<1>4. TypeOK'
  <2>1. curOffset' \in [Threads -> 0 .. NumBlocks] /\ bytesWritten' \in [Threads -> 0 .. NumBlocks]
    BY <1>1, <1>3, ThreadFacts DEF TypeOK, Book
  <2> QED BY <1>1, <1>3, <2>1 DEF TypeOK, serverVars, packVars, fileVars, mainVars
<1>5. pc'[t] \in {"header", "end"} /\ (pc'[t] = "header" => status[t] = 0)
      /\ (pc'[t] = "end" => status[t] # 0)
  BY <1>1, <1>3 DEF TypeOK
<1>6. Progress(t)' /\ Kept(t)' /\ Claims(t)'
  BY <1>1, <1>2, <1>3, <1>5, ThreadFacts
     DEF ThreadInv, Progress, Kept, Claims, Frontier, Busy, serverVars
<1>7. Ends(t)'
  BY <1>1, <1>2, <1>3, <1>5, ThreadFacts DEF ThreadInv, Ends, Book, serverVars
<1>8. \A u \in Threads \ {t} : Untouched(u)
  BY <1>1, <1>3 DEF TypeOK, Untouched, Book, serverVars
<1>9. Grows /\ Packs' /\ (pc'[0] = "pack" => pc[0] = "pack")
  BY <1>1, <1>2, <1>3, CutFacts DEF Grows, Packs, IInv, TypeOK, packVars, serverVars, Book
<1>10. UNCHANGED <<packed, packAt, saved, mainVars>>
  BY <1>3 DEF packVars, fileVars
<1>11. pos[t] <= pos'[t] /\ dataSeg[t].len <= dataSeg'[t].len /\ pc[t] \notin {"new", "end"}
  BY <1>2, <1>3, ThreadFacts DEF Busy
<1> QED BY <1>4, <1>6, <1>7, <1>8, <1>9, <1>10, <1>11, ThreadKeeps DEF ThreadInv

-----------------------------------------------------------------------------
(* Writing the restart file.                                               *)

\* Field packAt belongs to segment packAt \div 2: its length or its offset is
\* copied.
LEMMA PackIs ==
  ASSUME IInv, NEW t \in Threads, Pack(t)
  PROVE  /\ TypeOK /\ ThreadInv(t) /\ t = 0 /\ pc[0] = "pack"
         /\ packAt \in Int /\ 0 <= packAt /\ packAt < 2 * NumThreads /\ packAt' = packAt + 1
         /\ UNCHANGED <<serverVars, pc, moveVars, dataSeg, fileVars, stored, mainVars>>
         /\ \E s \in Threads :
              /\ packAt = 2 * s \/ packAt = 2 * s + 1
              /\ packed' = [packed EXCEPT ![s] =
                              IF packAt = 2 * s
                              THEN [packed[s] EXCEPT !.len = dataSeg[s].len]
                              ELSE [packed[s] EXCEPT !.offset = dataSeg[s].offset]]
<1>1. TypeOK /\ ThreadInv(t) /\ t = 0 /\ pc[0] = "pack"
  BY DEF IInv, Packs, Pack
<1>0. packAt \in Int /\ 0 <= packAt /\ packAt < 2 * NumThreads /\ packAt' = packAt + 1
  BY <1>1, CutFacts DEF Pack, TypeOK
<1>2. PICK s \in Threads :
        /\ s = packAt \div 2
        /\ packAt = 2 * s \/ packAt = 2 * s + 1
        /\ (packAt % 2) + 1 = IF packAt = 2 * s THEN 1 ELSE 2
  BY <1>0, CutFacts DEF Threads
<1>4. UNCHANGED <<serverVars, pc, moveVars, dataSeg, fileVars, stored, mainVars>>
  BY DEF Pack
<1>5. packed' = [packed EXCEPT ![s] = IF packAt = 2 * s
                                      THEN [packed[s] EXCEPT !.len = dataSeg[s].len]
                                      ELSE [packed[s] EXCEPT !.offset = dataSeg[s].offset]]
  <2>1. FieldOrder[1] = "len" /\ FieldOrder[2] = "offset"
    BY DEF FieldOrder
  <2>2. (FieldOrder[(packAt % 2) + 1] = "len") <=> (packAt = 2 * s)
    BY <1>2, <2>1
  <2>3. packed' = [packed EXCEPT ![packAt \div 2] =
                     IF FieldOrder[(packAt % 2) + 1] = "len"
                     THEN [packed[packAt \div 2] EXCEPT !.len = dataSeg[packAt \div 2].len]
                     ELSE [packed[packAt \div 2] EXCEPT !.offset = dataSeg[packAt \div 2].offset]]
    BY DEF Pack
  <2> QED BY <1>2, <2>2, <2>3
<1> QED BY <1>0, <1>1, <1>2, <1>4, <1>5

\* packStruct copies entries that are sound when they are read, and that
\* another thread changes afterwards only by going forward.
LEMMA PackKeeps ==
  ASSUME IInv, NEW t \in Threads, Pack(t)
  PROVE  IInv'
<1>1. TypeOK /\ ThreadInv(t) /\ t = 0 /\ pc[0] = "pack"
  BY PackIs
<1>0. packAt \in Int /\ 0 <= packAt /\ packAt < 2 * NumThreads /\ packAt' = packAt + 1
  BY PackIs
<1>2. PICK s \in Threads :
        /\ packAt = 2 * s \/ packAt = 2 * s + 1
        /\ packed' = [packed EXCEPT ![s] = IF packAt = 2 * s
                                      THEN [packed[s] EXCEPT !.len = dataSeg[s].len]
                                      ELSE [packed[s] EXCEPT !.offset = dataSeg[s].offset]]
  BY PackIs
<1>3. \A u \in Threads : packed[u] \in Segment /\ dataSeg[u] \in Segment
                         /\ u \in Int
  BY <1>1, CutFacts DEF TypeOK
<1>4. UNCHANGED <<serverVars, pc, moveVars, dataSeg, fileVars, stored, mainVars>>
  BY PackIs
<1>5. packed' = [packed EXCEPT ![s] = IF packAt = 2 * s
                                      THEN [packed[s] EXCEPT !.len = dataSeg[s].len]
                                      ELSE [packed[s] EXCEPT !.offset = dataSeg[s].offset]]
  BY <1>2
<1>12. packAt = 2 * s \/ packAt = 2 * s + 1
  BY <1>2
<1>6. TypeOK'
  <2>1. packed' \in [Threads -> Segment]
    BY <1>0, <1>1, <1>2, <1>3, <1>5 DEF TypeOK, Segment
  <2>2. packAt' \in 0 .. 2 * NumThreads
    BY <1>0, CutFacts
  <2> QED BY <1>1, <1>4, <2>1, <2>2
       DEF TypeOK, serverVars, moveVars, fileVars, mainVars
<1>7. ASSUME NEW u \in Threads PROVE Packed(u)'
  <2>1. Packed(u) /\ Claims(u) /\ u \in Int /\ s \in Int
    BY <1>2, <1>3 DEF IInv, ThreadInv
  <2>2. packed[u].len \in Int /\ packed[u].len >= 0 /\ dataSeg[u].len \in Int
        /\ dataSeg[u].len >= 0
    BY <1>3, CutFacts DEF Segment
  <2>3. CASE u # s
    <3>1. packed'[u] = packed[u]
      BY <1>1, <1>5, <2>3 DEF TypeOK
    <3>2. packAt' # 2 * u + 1
      BY <1>0, <1>12, <2>1, <2>3
    <3>3. packAt # 2 * u + 1
      BY <1>0, <1>12, <2>1, <2>3
    <3> QED BY <1>4, <2>1, <3>1, <3>2, <3>3 DEF Packed, moveVars
  <2>4. CASE u = s /\ packAt = 2 * s
    <3>1. packed'[u].len = dataSeg[u].len /\ packAt' = 2 * u + 1
      BY <1>0, <1>1, <1>2, <1>3, <1>5, <2>4 DEF TypeOK, Segment
    <3> QED BY <1>4, <2>1, <2>2, <3>1 DEF Packed, Claims, moveVars
  <2>5. CASE u = s /\ packAt = 2 * s + 1
    <3>1. /\ packed'[u].len = packed[u].len /\ packed'[u].offset = dataSeg[u].offset
          /\ packAt' # 2 * u + 1
      BY <1>0, <1>1, <1>2, <1>3, <1>5, <2>5 DEF TypeOK, Segment
    <3>2. packed[u].len <= dataSeg[u].len
      BY <1>1, <2>1, <2>5 DEF Packed
    <3> QED BY <1>4, <2>1, <2>2, <3>1, <3>2 DEF Packed, Claims, moveVars
  <2> QED BY <1>2, <2>3, <2>4, <2>5
<1>8. \A u \in Threads : Saved(u)'
  BY <1>4 DEF IInv, Saved, fileVars, moveVars
<1>9. \A u \in Threads \ {t} : Untouched(u)
  BY <1>4 DEF Untouched, serverVars, moveVars
<1>10. ThreadInv(t)'
  BY <1>1, <1>4 DEF ThreadInv, Progress, Ends, Kept, Claims, Frontier, HasAnswered,
                    serverVars, moveVars
<1>11. Grows /\ Packs'
  BY <1>1, <1>4 DEF Grows, Packs, IInv, serverVars
<1> QED BY <1>4, <1>6, <1>7, <1>8, <1>9, <1>10, <1>11, StepKeeps

\* open and write replace the restart file by nothing, then by the packed copy.
LEMMA RestartFileKeeps ==
  ASSUME IInv, NEW t \in Threads, OpenRestart(t) \/ WriteRestart(t)
  PROVE  IInv'
<1>1. TypeOK /\ ThreadInv(t) /\ t = 0 /\ pc[0] \in {"pack", "write"}
  BY DEF IInv, Packs, OpenRestart, WriteRestart
<1>2. /\ UNCHANGED <<serverVars, moveVars, dataSeg, packed, stored, mainVars>>
      /\ restartFile' \in {"none", "empty", "whole"} /\ packAt' = 0
      /\ pc'[0] \in {"write", "move"} /\ pc' = [pc EXCEPT ![t] = pc'[0]]
      /\ saved' = saved \/ (saved' = packed /\ packAt = 0)
  BY <1>1 DEF OpenRestart, WriteRestart, TypeOK, packVars, fileVars, IInv, Packs
<1>3. packAt = 0 \/ packAt = 2 * NumThreads
  BY <1>1 DEF OpenRestart, WriteRestart, IInv, Packs
<1>4. TypeOK'
  <2>1. saved' \in [Threads -> Segment]
    BY <1>1, <1>2 DEF TypeOK
  <2>2. pc' \in [Threads -> {"new", "header", "move", "count", "pack", "write", "book", "end"}]
    BY <1>1, <1>2 DEF TypeOK
  <2>3. packAt' \in 0 .. 2 * NumThreads
    BY <1>2, CutFacts
  <2> QED BY <1>1, <1>2, <2>1, <2>2, <2>3 DEF TypeOK, serverVars, moveVars, mainVars
<1>5. ASSUME NEW u \in Threads PROVE Packed(u)' /\ Saved(u)'
  <2>1. Packed(u) /\ Saved(u) /\ packAt # 2 * u + 1 /\ 0 # 2 * u + 1
    BY <1>3, CutFacts DEF IInv
  <2> QED BY <1>2, <2>1 DEF Packed, Saved, moveVars
<1>6. \A u \in Threads \ {t} : Untouched(u)
  BY <1>1, <1>2 DEF TypeOK, Untouched, serverVars, moveVars
<1>7. ThreadInv(t)'
  <2>1. header[t].length > 0
    BY <1>1, ThreadFacts DEF ThreadInv, Progress, Busy
  <2> QED BY <1>1, <1>2, <2>1 DEF ThreadInv, Progress, Ends, Kept, Claims, Frontier, HasAnswered,
                    serverVars, moveVars, Busy
<1>8. Grows /\ Packs'
  BY <1>1, <1>2 DEF Grows, Packs, IInv, serverVars, TypeOK
<1> QED BY <1>1, <1>2, <1>4, <1>5, <1>6, <1>7, <1>8, StepKeeps

-----------------------------------------------------------------------------
(* The server and the connections.                                         *)

\* The server stores what is on its way: no byte is claimed that is not there.
LEMMA StoreBlockKeeps ==
  ASSUME IInv, NEW t \in Threads, StoreBlock(t)
  PROVE  IInv'
<1>1. TypeOK /\ ThreadInv(t)
  BY DEF IInv
<1>2. left[t] + acked[t] < header[t].length /\ header[t].length > 0 /\ Direction = "put"
  BY <1>1, ThreadFacts DEF StoreBlock, InTransit
<1>3. /\ stored' = stored \cup {header[t].offset + acked[t]}
      /\ header[t].offset + acked[t] \in Blocks
  BY <1>1, <1>2, ThreadFacts DEF StoreBlock, ThreadInv, Progress, Blocks
<1>4. /\ acked'[t] = acked[t] + 1
      /\ UNCHANGED <<connected, served, serverFailed, pc, moveVars, dataSeg, packVars,
                     fileVars, mainVars>>
  BY <1>1 DEF StoreBlock, TypeOK
<1>5. TypeOK'
  <2>1. acked' \in [Threads -> 0 .. NumBlocks]
    BY <1>1, <1>2, ThreadFacts DEF TypeOK, StoreBlock, ThreadInv, Progress
  <2> QED BY <1>1, <1>3, <1>4, <2>1 DEF TypeOK, moveVars, packVars, fileVars, mainVars
<1>6. Progress(t)' /\ Claims(t)'
  BY <1>1, <1>2, <1>4, ThreadFacts DEF ThreadInv, Progress, Claims, moveVars
<1>7. Ends(t)'
  BY <1>1, <1>2, <1>4, ThreadFacts DEF ThreadInv, Ends, HasAnswered, moveVars
<1>8. Kept(t)'
  <2>1. \A b \in Blocks : b \in Int
    BY DEF Blocks
  <2> QED BY <1>1, <1>2, <1>3, <1>4, <2>1, ThreadFacts DEF ThreadInv, Kept, Frontier, moveVars
<1>9. \A u \in Threads \ {t} : Untouched(u)
  BY <1>1, <1>4 DEF TypeOK, Untouched, StoreBlock, moveVars
<1>10. Grows /\ Packs' /\ (pc'[0] = "pack" => pc[0] = "pack")
  BY <1>3, <1>4 DEF Grows, Packs, IInv, packVars
<1>11. UNCHANGED <<packed, packAt, saved, mainVars>>
  BY <1>4 DEF packVars, fileVars
<1>12. pos[t] <= pos'[t] /\ dataSeg[t].len <= dataSeg'[t].len
  BY <1>4, ThreadFacts DEF moveVars
<1> QED BY <1>4, <1>5, <1>6, <1>7, <1>8, <1>9, <1>10, <1>11, <1>12, ThreadKeeps DEF ThreadInv

\* A broken connection ends a thread and takes back nothing that is claimed.
LEMMA BreakKeeps ==
  ASSUME IInv, NEW t \in Threads, Break(t)
  PROVE  IInv'
<1>1. TypeOK /\ ThreadInv(t)
  BY DEF IInv
<1>2. /\ connected' = [connected EXCEPT ![t] = FALSE]
      /\ UNCHANGED <<served, acked, serverFailed, pc, moveVars, dataSeg, packVars,
                     fileVars, stored, mainVars>>
  BY DEF Break
<1>3. TypeOK'
  BY <1>1, <1>2 DEF TypeOK, moveVars, packVars, fileVars, mainVars
<1>4. ~connected'[t] /\ (\A u \in Threads \ {t} : connected'[u] = connected[u])
  BY <1>1, <1>2 DEF TypeOK
<1>5. ThreadInv(t)'
  BY <1>1, <1>2, <1>4
     DEF ThreadInv, Progress, Ends, Kept, Claims, Frontier, HasAnswered, moveVars
<1>6. \A u \in Threads \ {t} : Untouched(u)
  BY <1>2, <1>4 DEF Untouched, moveVars
<1>7. Grows /\ Packs' /\ (pc'[0] = "pack" => pc[0] = "pack")
  BY <1>2 DEF Grows, Packs, IInv, packVars
<1>8. UNCHANGED <<packed, packAt, saved, mainVars>>
  BY <1>2 DEF packVars, fileVars
<1>9. pos[t] <= pos'[t] /\ dataSeg[t].len <= dataSeg'[t].len
  BY <1>2, ThreadFacts DEF moveVars
<1> QED BY <1>2, <1>3, <1>5, <1>6, <1>7, <1>8, <1>9, ThreadKeeps

-----------------------------------------------------------------------------
(* The calling thread.                                                     *)

\* Starting a thread gives it the portal of its number and nothing else.
LEMMA StartKeeps ==
  ASSUME IInv, NEW t \in Threads, StartThread(t) \/ StartOpenFails(t)
  PROVE  IInv'
<1>1. TypeOK /\ ThreadInv(t) /\ Caller
  BY DEF IInv
<1>2. /\ mainPc = "start" /\ started = t /\ started' = started + 1
      /\ retVal' \in {0, -1} /\ (retVal' = 0 => retVal = 0)
      /\ pc'[t] \in {"header", "end"} /\ pc' = [pc EXCEPT ![t] = pc'[t]]
      /\ UNCHANGED <<threadVars, fileVars, mainPc, joined, totalWritten, result>>
  BY <1>1 DEF StartThread, StartOpenFails, TypeOK
<1>3. pc[t] = "new" /\ t \in Int
  BY <1>1, <1>2, CutFacts DEF Caller
<1>4. TypeOK'
  <2>1. started' \in 0 .. NumThreads
    BY <1>2, CutFacts
  <2>2. pc' \in [Threads -> {"new", "header", "move", "count", "pack", "write", "book", "end"}]
    BY <1>1, <1>2 DEF TypeOK
  <2> QED BY <1>1, <1>2, <2>1, <2>2
       DEF TypeOK, threadVars, fileVars, serverVars, moveVars, packVars
<1>5. ThreadInv(t)'
  <2>1. header[t].length = 0 /\ status[t] = 0
    BY <1>1, <1>3, ThreadFacts DEF ThreadInv, Progress, Ends
  <2> QED BY <1>1, <1>2, <2>1
       DEF ThreadInv, Progress, Ends, Kept, Claims, Frontier, HasAnswered, Busy, threadVars,
           serverVars, moveVars
<1>6. \A u \in Threads \ {t} : Untouched(u)
  BY <1>1, <1>2 DEF TypeOK, Untouched, threadVars, serverVars, moveVars
<1>7. Grows
  BY <1>2 DEF Grows, threadVars, serverVars
<1>8. \A u \in Threads : ThreadInv(u)'
  BY <1>1, <1>4, <1>5, <1>6, <1>7, UntouchedKeeps DEF IInv
<1>9. pc[0] = "pack" <=> pc'[0] = "pack"
  BY <1>1, <1>2, <1>3, CutFacts DEF TypeOK
<1>10. \A u \in Threads : Packed(u)' /\ Saved(u)'
  BY <1>2, <1>9 DEF IInv, Packed, Saved, threadVars, packVars, moveVars, fileVars
<1>11. Packs'
  BY <1>1, <1>2, <1>9 DEF IInv, Packs, threadVars, packVars, TypeOK
<1>12. Caller'
  <2>1. \A u \in Threads : u >= started' => pc'[u] = "new"
    BY <1>1, <1>2, <1>3, CutFacts DEF Caller, TypeOK
  <2>2. joined' = 0 /\ totalWritten' = 0 /\ Cut[0] = 0 /\ stored' = stored
        /\ serverFailed' = serverFailed /\ (\A b \in Blocks : ~(b < 0))
    BY <1>1, <1>2, CutFacts DEF Caller, threadVars, serverVars, Blocks
  <2>3. \A u \in Threads : ~(u < 0)
    BY CutFacts
  <2> QED BY <1>1, <1>2, <2>1, <2>2, <2>3 DEF Caller, Held
<1> QED BY <1>4, <1>8, <1>10, <1>11, <1>12 DEF IInv

\* Steps that touch the caller's variables only.
LEMMA QuietKeeps ==
  ASSUME IInv, TypeOK', Caller', UNCHANGED <<threadVars, pc, fileVars>>
  PROVE  IInv'
<1>1. \A u \in Threads : ThreadInv(u)'
  BY DEF IInv, ThreadInv, Progress, Ends, Kept, Claims, Frontier, HasAnswered, threadVars,
         serverVars, moveVars
<1>2. \A u \in Threads : Packed(u)' /\ Saved(u)'
  BY DEF IInv, Packed, Saved, threadVars, packVars, moveVars, fileVars
<1>3. Packs'
  BY DEF IInv, Packs, threadVars, packVars
<1> QED BY <1>1, <1>2, <1>3 DEF IInv

\* The calling thread passes from one stage of putFile or getFile to the next.
LEMMA TurnKeeps ==
  ASSUME IInv,
         (\E t \in Threads : StartFails(t)) \/ AllStarted \/ Unwind \/ CheckSize \/ Finish
  PROVE  IInv'
<1>1. TypeOK /\ Caller
  BY DEF IInv
<1>2. /\ UNCHANGED <<threadVars, pc, fileVars, started, joined, totalWritten>>
      /\ mainPc' \in {"join", "unwind", "finish", "clear", "returned"}
      /\ retVal' \in {0, -1} /\ result' \in {"none", "ok", "error"}
  BY <1>1 DEF StartFails, AllStarted, Unwind, CheckSize, Finish, TypeOK
<1>3. TypeOK'
  BY <1>1, <1>2 DEF TypeOK, threadVars, fileVars, serverVars, moveVars, packVars
<1>4. /\ retVal' = 0 => retVal = 0
      /\ mainPc' = "unwind" => retVal' = -1 /\ mainPc = "start"
      /\ mainPc' = "finish" /\ retVal' = 0 => joined = NumThreads /\ totalWritten = NumBlocks
      /\ mainPc' = "clear" => mainPc = "finish" /\ retVal' = 0
      /\ result' = "ok" => \/ result = "ok"
                           \/ /\ mainPc = "finish" /\ retVal = 0
                              /\ Direction = "put" => ~serverFailed
  <2>1. CASE \E t \in Threads : StartFails(t)
    BY <1>1, <2>1 DEF StartFails, TypeOK
  <2>2. CASE AllStarted
    BY <1>1, <2>2 DEF AllStarted, TypeOK
  <2>3. CASE Unwind
    BY <1>1, <2>3 DEF Unwind, TypeOK, Caller
  <2>4. CASE CheckSize
    BY <1>1, <2>4 DEF CheckSize, TypeOK
  <2>5. CASE Finish
    BY <1>1, <2>5 DEF Finish, TypeOK
  <2> QED BY <2>1, <2>2, <2>3, <2>4, <2>5
<1>5. UNCHANGED <<stored, serverFailed, pc, joined, totalWritten>>
  BY <1>2 DEF threadVars, serverVars
<1>6. result' = "ok" => stored = Blocks
  <2>1. \A b \in Blocks : b < NumBlocks
    BY CutFacts DEF Blocks
  <2>2. Held(NumBlocks) => stored = Blocks
    BY <1>1, <2>1 DEF Held, TypeOK
  <2> QED BY <1>1, <1>4, <2>2, CutFacts DEF Caller
<1>7. Caller'
  <2>1. ASSUME retVal' = 0, totalWritten = Cut[joined], Direction = "put" => ~serverFailed
        PROVE  Held(Cut[joined])
    BY <1>1, <1>4, <2>1 DEF Caller
  <2>2. mainPc' \in {"finish", "clear"} /\ retVal' = 0
          => joined = NumThreads /\ totalWritten = NumBlocks
    BY <1>1, <1>4 DEF Caller
  <2>3. mainPc' \in {"start", "unwind"} => joined = 0 /\ totalWritten = 0
    BY <1>1, <1>2, <1>4 DEF Caller
  <2>4. /\ mainPc' # "start"
        /\ mainPc' = "unwind" => retVal' = -1
        /\ mainPc' = "clear" => retVal' = 0
    BY <1>2, <1>4
  <2>5. totalWritten <= Cut[joined] /\ \A u \in Threads : u < joined => pc[u] = "end"
    BY <1>1 DEF Caller
  <2> QED BY <1>5, <1>6, <2>1, <2>2, <2>3, <2>4, <2>5 DEF Caller, Held
<1> QED BY <1>2, <1>3, <1>7, QuietKeeps

\* Joining: the total can only reach the places's end if every thread joined has
\* moved all of its segment.
LEMMA JoinKeeps ==
  ASSUME IInv, NEW t \in Threads, JoinThread(t)
  PROVE  IInv'
<1>1. TypeOK /\ Caller /\ ThreadInv(t)
  BY DEF IInv
<1>2. /\ mainPc = "join" /\ mainPc' = "join" /\ joined = t /\ joined' = t + 1 /\ pc[t] = "end"
      /\ totalWritten' = totalWritten + bytesWritten[t]
      /\ retVal' = IF status[t] < 0 THEN status[t] ELSE retVal
      /\ UNCHANGED <<threadVars, pc, fileVars, started, result>>
  BY DEF JoinThread
<1>3. /\ t \in Int /\ status[t] \in {0, -1} /\ totalWritten \in Int /\ bytesWritten[t] \in Int
      /\ totalWritten >= 0 /\ bytesWritten[t] >= 0 /\ retVal \in {0, -1}
  BY <1>1, CutFacts DEF TypeOK
<1>4. /\ bytesWritten[t] + Cut[t] = served[t] /\ served[t] <= Cut[t + 1]
  BY <1>1, <1>2, ThreadFacts DEF ThreadInv, Progress, Busy
<1>5. totalWritten <= Cut[t] /\ totalWritten' <= Cut[t + 1]
  BY <1>1, <1>2, <1>3, <1>4, ThreadFacts DEF Caller
<1>6. TypeOK'
  <2>1. joined' \in 0 .. NumThreads
    BY <1>2, CutFacts
  <2>2. totalWritten' \in 0 .. NumBlocks
    BY <1>2, <1>3, <1>5, ThreadFacts
  <2>3. retVal' \in {0, -1}
    BY <1>2, <1>3
  <2> QED BY <1>1, <1>2, <2>1, <2>2, <2>3
       DEF TypeOK, threadVars, fileVars, serverVars, moveVars, packVars
<1>7. ASSUME retVal' = 0, totalWritten' = Cut[t + 1], Direction = "put" => ~serverFailed
      PROVE  Held(Cut[t + 1])
  <2>1. status[t] = 0 /\ retVal = 0
    BY <1>2, <1>3, <1>7
  <2>2. totalWritten = Cut[t] /\ served[t] = Cut[t + 1]
    BY <1>2, <1>3, <1>4, <1>5, <1>7, ThreadFacts
  <2>3. Held(Cut[t])
    BY <1>1, <1>2, <1>7, <2>1, <2>2 DEF Caller
  <2>4. left[t] = 0 /\ HasAnswered(t)
    BY <1>1, <1>2, <1>7, <2>1 DEF ThreadInv, Ends
  <2>5. Cut[t] = Cut[t + 1] \/ Frontier(t) = Cut[t + 1]
    BY <1>1, <2>2, <2>4, ThreadFacts, PortalAssumption
       DEF ThreadInv, Progress, Frontier, HasAnswered
  <2>6. \A b \in Blocks : b \in Int
    BY DEF Blocks
  <2> QED BY <1>1, <2>3, <2>5, <2>6, ThreadFacts DEF Held, ThreadInv, Kept
<1>8. \A u \in Threads : u < t + 1 => pc[u] = "end"
  BY <1>1, <1>2, CutFacts DEF Caller
<1>9. Caller'
  BY <1>1, <1>2, <1>5, <1>7, <1>8 DEF Caller, Held, threadVars, serverVars
<1> QED BY <1>2, <1>6, <1>9, QuietKeeps

\* The restart file is removed only after success.
LEMMA ClearKeeps ==
  ASSUME IInv, Clear
  PROVE  IInv'
<1>1. TypeOK /\ Caller /\ \A u \in Threads : ThreadInv(u)
  BY DEF IInv
<1>2. /\ mainPc = "clear" /\ mainPc' = "returned" /\ restartFile' = "none"
      /\ dataSeg' = [u \in Threads |-> NoSegment]
      /\ UNCHANGED <<serverVars, pc, moveVars, packVars, saved, stored, started, joined,
                     totalWritten, retVal, result>>
  BY DEF Clear
<1>3. \A u \in Threads : pc[u] = "end"
  BY <1>1, <1>2, CutFacts DEF Caller
<1>4. NoSegment \in Segment /\ NoSegment.len = 0
  BY CutFacts DEF NoSegment, Segment
<1>5. TypeOK'
  BY <1>1, <1>2, <1>4 DEF TypeOK, serverVars, moveVars, packVars
<1>6. \A u \in Threads : ThreadInv(u)'
  BY <1>1, <1>2, <1>3, <1>4
     DEF ThreadInv, Progress, Ends, Kept, Claims, Frontier, HasAnswered, serverVars, moveVars
<1>7. \A u \in Threads : Packed(u)' /\ Saved(u)'
  BY <1>2, <1>3, CutFacts DEF IInv, Packed, Saved, packVars, moveVars
<1>8. Packs'
  BY <1>2 DEF IInv, Packs, packVars
<1>9. Caller'
  BY <1>1, <1>2 DEF Caller, Held, serverVars
<1> QED BY <1>5, <1>6, <1>7, <1>8, <1>9 DEF IInv

-----------------------------------------------------------------------------
(* The theorems.                                                           *)

\* The call begins with no thread, no copy and no restart file.
LEMMA PortalInit ==
  ASSUME Init
  PROVE  IInv
<1>1. TypeOK
  <2>1. \A t \in Threads : Cut[t] \in 0 .. NumBlocks
    BY CutFacts
  <2>2. 0 \in 0 .. NumBlocks /\ 0 \in 0 .. NumThreads /\ 0 \in 0 .. 2 * NumThreads
    BY CutFacts
  <2> QED BY <2>1, <2>2 DEF Init, TypeOK, NoSegment, Segment
<1>2. \A t \in Threads : Progress(t) /\ Ends(t) /\ Claims(t)
  BY CutFacts DEF Init, Progress, Ends, Claims, Busy, HasAnswered, NoSegment
<1>3. \A t \in Threads : Kept(t) /\ Packed(t) /\ Saved(t)
  <2>1. \A b \in Blocks : b \in Int
    BY DEF Blocks
  <2> QED BY <2>1, CutFacts, PortalAssumption
       DEF Init, Kept, Frontier, Packed, Saved, NoSegment
<1>4. Packs /\ Caller
  <2>1. \A b \in Blocks : ~(b < 0)
    BY DEF Blocks
  <2> QED BY <2>1, CutFacts DEF Init, Packs, Caller, Held
<1> QED BY <1>1, <1>2, <1>3, <1>4 DEF IInv, ThreadInv

\* Every step of a thread, of the server and of the calling thread keeps it.
LEMMA PortalNext ==
  ASSUME IInv, [Next]_vars
  PROVE  IInv'
<1>1. ASSUME NEW t \in Threads, Thread(t) PROVE IInv'
  BY <1>1, RcvHeaderKeeps, LeaveKeeps, MoveKeeps, BreakOffKeeps, CountKeeps, BookKeeps,
     PackKeeps, RestartFileKeeps DEF Thread
<1>2. ASSUME NEW t \in Threads, StoreBlock(t) \/ Break(t) PROVE IInv'
  BY <1>2, StoreBlockKeeps, BreakKeeps
<1>3. ASSUME Main PROVE IInv'
  BY <1>3, StartKeeps, TurnKeeps, JoinKeeps, ClearKeeps DEF Main
<1>4. CASE UNCHANGED vars
  <2>1. UNCHANGED <<threadVars, pc, fileVars, mainVars>>
    BY <1>4 DEF vars, threadVars
  <2>2. TypeOK'
    BY <2>1 DEF IInv, TypeOK, threadVars, fileVars, mainVars, serverVars, moveVars, packVars
  <2>3. Caller'
    BY <2>1 DEF IInv, Caller, Held, threadVars, mainVars, serverVars
  <2> QED BY <2>1, <2>2, <2>3, QuietKeeps
<1> QED BY <1>1, <1>2, <1>3, <1>4 DEF Next, Done

\* So the invariant holds of every reachable state.
LEMMA PortalIInv == Spec => []IInv
<1>1. Init => IInv
  BY PortalInit
<1>2. IInv /\ [Next]_vars => IInv'
  BY PortalNext
<1> QED BY <1>1, <1>2, PTL DEF Spec

\* Every variable keeps its type: offsets and counts stay within the file.
THEOREM PortalType == Spec => []TypeOK
<1>1. IInv => TypeOK
  BY DEF IInv
<1> QED BY <1>1, PortalIInv, PTL

\* rcDataObjGet and rcDataObjPut succeed only with a whole file, whatever fails
\* and however far the threads and the server's threads have got.
THEOREM PortalTransferSuccess == Spec => []TransferSuccess
<1>1. IInv => TransferSuccess
  BY DEF IInv, Caller, TransferSuccess
<1> QED BY <1>1, PortalIInv, PTL

\* Up to the place where its descriptor stands, what a thread moved is in its
\* place or, for a put that loses nothing, on its way there.
LEMMA MovedDelivered ==
  ASSUME IInv, Direction = "get" \/ ~Lossy,
         NEW s \in Threads, NEW b \in Blocks, Cut[s] <= b, b < pos[s]
  PROVE  b \in Delivered
<1>1. ThreadInv(s) /\ b \in Int
  BY DEF IInv, Blocks
<1>2. CASE b < Frontier(s)
  BY <1>1, <1>2 DEF ThreadInv, Kept, Delivered
<1>3. CASE ~(b < Frontier(s))
  <2>1. Direction = "put" /\ ~Lossy /\ header[s].offset + acked[s] <= b
    BY <1>1, <1>3, ThreadFacts, PortalAssumption DEF Frontier
  <2>2. pos[s] = header[s].offset + header[s].length - left[s]
    BY <1>1, ThreadFacts DEF ThreadInv, Progress
  <2> QED BY <1>1, <2>1, <2>2 DEF Delivered
<1> QED BY <1>2, <1>3

\* A whole restart file claims only blocks that were moved, provided that a put
\* does not lose what it has written to its connections.
THEOREM PortalRestartFileSound ==
  ASSUME Direction = "get" \/ ~Lossy
  PROVE  Spec => []RestartFileSound
<1>1. IInv => RestartFileSound
  <2> SUFFICES ASSUME IInv, NEW s \in Threads, saved[s].len > 0
               PROVE  /\ saved[s].offset = Cut[s]
                      /\ \A b \in Blocks : saved[s].offset <= b
                           /\ b < saved[s].offset + saved[s].len => b \in Delivered
    BY DEF RestartFileSound, SegmentSound
  <2>1. saved[s].offset = Cut[s] /\ Cut[s] + saved[s].len <= pos[s]
    BY DEF IInv, Saved
  <2>2. saved[s].len \in Int /\ pos[s] \in Int /\ Cut[s] \in Int /\ \A b \in Blocks : b \in Int
    BY ThreadFacts DEF IInv, TypeOK, Segment, Blocks
  <2> QED BY <2>1, <2>2, MovedDelivered
<1> QED BY <1>1, PortalIInv, PTL

-----------------------------------------------------------------------------
(* LfRestart.  Portal's invariant holds until the process dies; what is    *)
(* left of it then is what the two files and the connections say.          *)

-----------------------------------------------------------------------------
(* The walk over the segments: End is a recursive function.                *)

Later(a, b) == IF a > b THEN a ELSE b

WalkStep(segs, f) ==
  [k \in 0 .. NumThreads |->
     IF k = 0 THEN 0 ELSE Max({segs[k - 1].offset, f[k - 1]}) + segs[k - 1].len]

IsWalk(segs, n, f) ==
  /\ f \in [0 .. n -> Nat] /\ f[0] = 0
  /\ \A k \in 0 .. n - 1 : f[k + 1] = Later(segs[k].offset, f[k]) + segs[k].len

\* Every array of segments can be walked over.
LEMMA WalkExists ==
  ASSUME NEW segs \in [Threads -> Segment]
  PROVE  \E f : IsWalk(segs, NumThreads, f)
<1> DEFINE S == {n \in Nat : \E f : IsWalk(segs, n, f)}
<1>1. 0 \in S
  <2>1. IsWalk(segs, 0, [k \in 0 .. 0 |-> 0])
    BY DEF IsWalk
  <2> QED BY <2>1
<1>2. ASSUME NEW n \in 0 .. NumThreads - 1, n \in S
      PROVE  n + 1 \in S
  <2>1. PICK f : IsWalk(segs, n, f)
    BY <1>2
  <2> DEFINE e == Later(segs[n].offset, f[n]) + segs[n].len
             g == [k \in 0 .. n + 1 |-> IF k = n + 1 THEN e ELSE f[k]]
  <2>2. n \in Nat /\ n \in Threads /\ segs[n] \in Segment
    BY CutFacts DEF Threads
  <2>3. e \in Nat
    BY <2>1, <2>2, CutFacts DEF Later, Segment, IsWalk
  <2>4. g \in [0 .. n + 1 -> Nat] /\ g[0] = 0
    BY <2>1, <2>2, <2>3 DEF IsWalk
  <2>5. ASSUME NEW k \in 0 .. n
        PROVE  g[k + 1] = Later(segs[k].offset, g[k]) + segs[k].len
    BY <2>1, <2>2 DEF IsWalk
  <2>6. IsWalk(segs, n + 1, g)
    <3> HIDE DEF g
    <3> QED BY <2>2, <2>4, <2>5 DEF IsWalk
  <2> QED BY <2>2, <2>6
<1> HIDE DEF S
<1>3. \A n \in 0 .. NumThreads : n \in S
  BY <1>1, <1>2, BoundedInduction, CutFacts
<1> QED BY <1>3, CutFacts DEF S

\* ... and End is where the walk is.
LEMMA EndIsWalk ==
  ASSUME NEW segs \in [Threads -> Segment]
  PROVE  /\ End(segs, 0) = 0
         /\ \A k \in 0 .. NumThreads : End(segs, k) \in Nat
         /\ \A s \in Threads :
              End(segs, s + 1) = Later(segs[s].offset, End(segs, s)) + segs[s].len
<1> DEFINE w == CHOOSE f : f = WalkStep(segs, f)
<1>1. PICK f : IsWalk(segs, NumThreads, f)
  BY WalkExists
<1>2. ASSUME NEW k \in 0 .. NumThreads, k # 0
      PROVE  Max({segs[k - 1].offset, f[k - 1]}) = Later(segs[k - 1].offset, f[k - 1])
  <2>1. segs[k - 1].offset \in Int /\ f[k - 1] \in Int
    BY <1>1, <1>2, CutFacts DEF IsWalk, Threads, Segment
  <2> QED BY <2>1, MaxOfTwo DEF Later
<1>3. f = WalkStep(segs, f)
  <2>1. \A k \in 0 .. NumThreads :
          f[k] = IF k = 0 THEN 0 ELSE Later(segs[k - 1].offset, f[k - 1]) + segs[k - 1].len
    BY <1>1, CutFacts DEF IsWalk
  <2> QED BY <1>1, <1>2, <2>1 DEF IsWalk, WalkStep
<1>4. w = WalkStep(segs, w)
  BY <1>3
<1>5. \A k : End(segs, k) = w[k]
  BY DEF End, WalkStep
<1> HIDE DEF w
<1>6. /\ w[0] = 0
      /\ \A s \in Threads : w[s + 1] = Max({segs[s].offset, w[s]}) + segs[s].len
  <2>1. \A k \in 0 .. NumThreads :
          w[k] = IF k = 0 THEN 0 ELSE Max({segs[k - 1].offset, w[k - 1]}) + segs[k - 1].len
    BY <1>4 DEF WalkStep
  <2>2. ASSUME NEW s \in Threads
        PROVE  w[s + 1] = Max({segs[s].offset, w[s]}) + segs[s].len
    <3>1. s + 1 \in 0 .. NumThreads /\ s + 1 # 0 /\ (s + 1) - 1 = s
      BY CutFacts DEF Threads
    <3> QED BY <2>1, <3>1
  <2>3. 0 \in 0 .. NumThreads
    BY CutFacts
  <2> QED BY <2>1, <2>2, <2>3
<1>7. ASSUME NEW s \in Threads, w[s] \in Nat
      PROVE  /\ w[s + 1] = Later(segs[s].offset, w[s]) + segs[s].len
             /\ w[s + 1] \in Nat
  <2>1. segs[s].offset \in Nat /\ segs[s].len \in Nat
    BY CutFacts DEF Segment
  <2>2. Max({segs[s].offset, w[s]}) = Later(segs[s].offset, w[s])
    BY <1>7, <2>1, MaxOfTwo DEF Later
  <2> QED BY <1>6, <1>7, <2>1, <2>2 DEF Later
<1>8. \A k \in 0 .. NumThreads : w[k] \in Nat
  <2> DEFINE S == {k \in Nat : w[k] \in Nat}
  <2>1. 0 \in S
    BY <1>6
  <2>2. \A n \in 0 .. NumThreads - 1 : n \in S => n + 1 \in S
    BY <1>7, CutFacts DEF Threads
  <2> HIDE DEF S
  <2>3. \A n \in 0 .. NumThreads : n \in S
    BY <2>1, <2>2, BoundedInduction, CutFacts
  <2> QED BY <2>3 DEF S
<1>9. \A s \in Threads : w[s] \in Nat
  BY <1>8, CutFacts DEF Threads
<1> QED BY <1>5, <1>6, <1>7, <1>8, <1>9

\* The places of one segment.
LEMMA WalkFacts ==
  ASSUME NEW segs \in [Threads -> Segment], NEW s \in Threads
  PROVE  /\ s \in Nat /\ s \in 0 .. NumThreads /\ s + 1 \in 0 .. NumThreads
         /\ End(segs, s) \in Nat /\ End(segs, s + 1) \in Nat
         /\ segs[s].offset \in Nat /\ segs[s].len \in Nat
         /\ End(segs, s + 1) = Later(segs[s].offset, End(segs, s)) + segs[s].len
         /\ Cut[s] \in Nat /\ Cut[s + 1] \in Nat /\ Cut[s] <= Cut[s + 1]
         /\ Cut[s + 1] <= NumBlocks /\ NumBlocks \in Nat
<1>1. s \in Nat /\ s \in 0 .. NumThreads /\ s + 1 \in 0 .. NumThreads
  BY CutFacts DEF Threads
<1>2. segs[s].offset \in Nat /\ segs[s].len \in Nat
  BY CutFacts DEF Segment
<1>3. /\ Cut[s] \in Nat /\ Cut[s + 1] \in Nat /\ Cut[s] <= Cut[s + 1]
      /\ Cut[s + 1] <= NumBlocks /\ NumBlocks \in Nat
  BY CutFacts
<1> QED BY <1>1, <1>2, <1>3, EndIsWalk

\* What a segment claims: as many blocks as it is long, up to the walk's place
\* after it.
LEMMA ClaimedIs ==
  ASSUME NEW segs \in [Threads -> Segment], NEW b
  PROVE  b \in Claimed(segs) <=>
           /\ b \in Int
           /\ \E s \in Threads : End(segs, s + 1) - segs[s].len <= b /\ b < End(segs, s + 1)
<1>1. \A s \in Threads : End(segs, s + 1) \in Int /\ segs[s].len \in Int
  BY WalkFacts
<1> QED BY <1>1 DEF Claimed

\* One more block in the segment before a gap moves the walk on by one there,
\* and nowhere else.
LEMMA WalkGrows ==
  ASSUME NEW segs \in [Threads -> Segment], NEW more \in [Threads -> Segment],
         NEW j \in Threads,
         \A s \in Threads :
           /\ more[s].offset = segs[s].offset
           /\ more[s].len = IF s = j THEN segs[s].len + 1 ELSE segs[s].len,
         j + 1 < NumThreads => End(segs, j + 1) < segs[j + 1].offset
  PROVE  \A k \in 0 .. NumThreads :
           End(more, k) = IF k = j + 1 THEN End(segs, k) + 1 ELSE End(segs, k)
<1> DEFINE S == {k \in Nat :
                   End(more, k) = IF k = j + 1 THEN End(segs, k) + 1 ELSE End(segs, k)}
<1>1. 0 \in S
  <2>1. 0 # j + 1
    BY CutFacts
  <2> QED BY <2>1, EndIsWalk
<1>2. ASSUME NEW n \in 0 .. NumThreads - 1, n \in S
      PROVE  n + 1 \in S
  <2>1. n \in Threads /\ n \in Int /\ j \in Int
    BY CutFacts DEF Threads
  <2>2. /\ segs[n].offset \in Int /\ segs[n].len \in Int /\ End(segs, n) \in Int
        /\ End(segs, n + 1) = Later(segs[n].offset, End(segs, n)) + segs[n].len
    BY <2>1, WalkFacts
  <2>3. /\ End(more, n) \in Int
        /\ End(more, n + 1) = Later(more[n].offset, End(more, n)) + more[n].len
    BY <2>1, WalkFacts
  <2>4. /\ more[n].offset = segs[n].offset
        /\ more[n].len = IF n = j THEN segs[n].len + 1 ELSE segs[n].len
    BY <2>1
  <2>5. End(more, n) = IF n = j + 1 THEN End(segs, n) + 1 ELSE End(segs, n)
    BY <1>2
  <2>6. n = j + 1 => End(segs, n) < segs[n].offset
    BY <2>1, CutFacts
  <2>7. End(more, n + 1) = IF n = j THEN End(segs, n + 1) + 1 ELSE End(segs, n + 1)
    BY <2>1, <2>2, <2>3, <2>4, <2>5, <2>6 DEF Later
  <2> QED BY <2>1, <2>7
<1> HIDE DEF S
<1>3. \A n \in 0 .. NumThreads : n \in S
  BY <1>1, <1>2, BoundedInduction, CutFacts
<1> QED BY <1>3 DEF S

\* Segments that a transfer wrote: a segment begins where the server's division
\* says, if it claims anything, and ends within its part.
Within(segs) ==
  \A s \in Threads :
    /\ segs[s].offset \in {0, Cut[s]}
    /\ segs[s].len > 0 => segs[s].offset = Cut[s] /\ Cut[s] + segs[s].len <= Cut[s + 1]

LEMMA WalkWithin ==
  ASSUME NEW segs \in [Threads -> Segment], Within(segs)
  PROVE  /\ \A k \in 0 .. NumThreads : End(segs, k) <= Cut[k]
         /\ \A s \in Threads : segs[s].len > 0 => End(segs, s + 1) = Cut[s] + segs[s].len
<1>1. ASSUME NEW s \in Threads, End(segs, s) <= Cut[s]
      PROVE  /\ End(segs, s + 1) <= Cut[s + 1]
             /\ segs[s].len > 0 => End(segs, s + 1) = Cut[s] + segs[s].len
  <2>1. /\ segs[s].offset \in Nat /\ segs[s].len \in Nat /\ End(segs, s) \in Nat
        /\ Cut[s] \in Nat /\ Cut[s + 1] \in Nat /\ Cut[s] <= Cut[s + 1]
    BY WalkFacts
  <2>2. End(segs, s + 1) = Later(segs[s].offset, End(segs, s)) + segs[s].len
    BY EndIsWalk
  <2> QED BY <1>1, <2>1, <2>2 DEF Later, Within
<1> DEFINE S == {k \in Nat : End(segs, k) <= Cut[k]}
<1>2. 0 \in S
  BY EndIsWalk, CutFacts
<1>3. \A n \in 0 .. NumThreads - 1 : n \in S => n + 1 \in S
  BY <1>1, CutFacts DEF Threads
<1>4. \A n \in 0 .. NumThreads : n \in S
  <2> HIDE DEF S
  <2> QED BY <1>2, <1>3, BoundedInduction, CutFacts
<1>5. \A s \in Threads : End(segs, s) <= Cut[s]
  BY <1>4, CutFacts DEF Threads
<1> QED BY <1>1, <1>4, <1>5

\* Of two such arrays the one with the longer segments claims more.
LEMMA ClaimedGrows ==
  ASSUME NEW segs \in [Threads -> Segment], NEW more \in [Threads -> Segment],
         Within(segs), Within(more), \A s \in Threads : segs[s].len <= more[s].len
  PROVE  Claimed(segs) \subseteq Claimed(more)
<1> SUFFICES ASSUME NEW b \in Claimed(segs) PROVE b \in Claimed(more)
  OBVIOUS
<1>1. b \in Int
  BY ClaimedIs
<1>2. PICK s \in Threads : End(segs, s + 1) - segs[s].len <= b /\ b < End(segs, s + 1)
  BY ClaimedIs
<1>3. /\ segs[s].len \in Int /\ more[s].len \in Int /\ Cut[s] \in Int
      /\ End(segs, s + 1) \in Int /\ End(more, s + 1) \in Int
  BY WalkFacts
<1>4. segs[s].len > 0 /\ more[s].len > 0
  BY <1>1, <1>2, <1>3
<1>5. End(segs, s + 1) = Cut[s] + segs[s].len /\ End(more, s + 1) = Cut[s] + more[s].len
  BY <1>4, WalkWithin
<1>6. End(more, s + 1) - more[s].len <= b /\ b < End(more, s + 1)
  BY <1>1, <1>2, <1>3, <1>5
<1> QED BY <1>1, <1>6, ClaimedIs

-----------------------------------------------------------------------------
(* While the process lives: the segments, the copy and the restart file.   *)

\* The offset of a segment is the one its thread's first header set, or none yet.
Offsets(segs) == \A s \in Threads : segs[s].offset \in {0, Cut[s]}

\* While threads run, neither the copy nor the restart file is ahead of the
\* segments, and a copy that is to be written is not behind the file.
AllEnded == \A t \in Threads : pc[t] = "end"
Behind(s) == saved[s].len <= dataSeg[s].len /\ packed[s].len <= dataSeg[s].len
Newer(s) == pc[0] = "write" \/ (pc[0] = "pack" /\ 2 * s < packAt)
              => saved[s].len <= packed[s].len
CopiesInv ==
  /\ Offsets(dataSeg) /\ Offsets(packed) /\ Offsets(saved)
  /\ AllEnded \/ \A s \in Threads : Behind(s)
  /\ \A s \in Threads : Newer(s)

\* What a thread's descriptor, its header and its connection say of each other.
\* The death of the process does not change it.
Flow(t) ==
  /\ left[t] + acked[t] <= header[t].length
  /\ header[t].offset + header[t].length <= NumBlocks
  /\ header[t].length > 0 => pos[t] + left[t] = header[t].offset + header[t].length

\* The walk over the segments stays within the file.
Fits(segs) == \A k \in 0 .. NumThreads : End(segs, k) <= NumBlocks

DataFlows == Direction = "get" \/ ~Lossy

\* The lengths of the segments, the copy and the file are numbers.
LEMMA CopyFacts ==
  ASSUME TypeOK, NEW s \in Threads
  PROVE  /\ saved[s].len \in Int /\ packed[s].len \in Int /\ dataSeg[s].len \in Int
         /\ saved[s] \in Segment /\ packed[s] \in Segment /\ dataSeg[s] \in Segment
BY CutFacts DEF TypeOK, Segment

\* A step that writes no copy.
LEMMA NoCopyKeeps ==
  ASSUME TypeOK, TypeOK', CopiesInv,
         packed' = packed, saved' = saved, packAt' = packAt,
         \A u \in Threads : /\ dataSeg[u].len <= dataSeg'[u].len
                            /\ dataSeg'[u].offset \in {0, Cut[u]},
         AllEnded => AllEnded',
         pc'[0] = "write" => pc[0] = "write",
         pc'[0] = "pack" => pc[0] = "pack" \/ packAt = 0
  PROVE  CopiesInv'
<1>1. (Offsets(dataSeg) /\ Offsets(packed) /\ Offsets(saved))'
  BY DEF CopiesInv, Offsets
<1>2. ASSUME ~AllEnded, NEW s \in Threads PROVE Behind(s)'
  <2>1. /\ saved[s].len \in Int /\ packed[s].len \in Int /\ dataSeg[s].len \in Int
    BY CopyFacts
  <2>2. dataSeg'[s].len \in Int /\ dataSeg[s].len <= dataSeg'[s].len
    BY CutFacts DEF TypeOK, Segment
  <2> QED BY <1>2, <2>1, <2>2 DEF CopiesInv, Behind
<1>3. ASSUME NEW s \in Threads PROVE Newer(s)'
  <2>1. ~(2 * s < 0)
    BY CutFacts
  <2> QED BY <2>1 DEF CopiesInv, Newer
<1> QED BY <1>1, <1>2, <1>3 DEF CopiesInv

\* Every step of the transfer.
LEMMA CopiesNext ==
  ASSUME IInv, IInv', CopiesInv,
         (\E t \in Threads : Thread(t) \/ Break(t) \/ StoreBlock(t)) \/ Main
  PROVE  CopiesInv'
<1> USE DEF CopiesInv
<1>1. TypeOK /\ TypeOK'
  BY DEF IInv, TypeOK
<1>2. \A u \in Threads : dataSeg[u].len <= dataSeg[u].len
  BY <1>1, CopyFacts
<1>3. CASE UNCHANGED <<dataSeg, packVars, saved, pc>>
  BY <1>1, <1>2, <1>3, NoCopyKeeps DEF AllEnded, Offsets, packVars
<1>4. ASSUME NEW t \in Threads, RcvHeader(t, header'[t].length)
      PROVE  CopiesInv'
  <2>1. /\ header'[t].length > 0 /\ pc'[t] = "move" /\ pc[t] = "header"
        /\ \A u \in Threads : dataSeg'[u].len = dataSeg[u].len
        /\ \A u \in Threads \ {t} : dataSeg'[u] = dataSeg[u] /\ pc'[u] = pc[u]
        /\ packed' = packed /\ saved' = saved /\ packAt' = packAt
    BY <1>1, <1>4, CutFacts DEF RcvHeader, TypeOK, Segment, packVars, fileVars
  <2>2. dataSeg'[t].offset = Cut[t]
    BY <2>1 DEF IInv, ThreadInv, Claims
  <2>3. ~AllEnded
    BY <2>1 DEF AllEnded
  <2>4. pc'[0] \in {"write", "pack"} => pc'[0] = pc[0]
    BY <2>1, CutFacts
  <2>5. \A u \in Threads : /\ dataSeg[u].len <= dataSeg'[u].len
                           /\ dataSeg'[u].offset \in {0, Cut[u]}
    BY <1>2, <2>1, <2>2 DEF Offsets
  <2> QED BY <1>1, <2>1, <2>3, <2>4, <2>5, NoCopyKeeps
<1>5. ASSUME NEW t \in Threads,
             \/ RcvDone(t) \/ RcvFails(t) \/ EnvFails(t) \/ Move(t) \/ MoveFails(t)
             \/ MoveFailsSilently(t) \/ Book(t)
      PROVE  CopiesInv'
  <2>1. /\ pc[t] # "end" /\ pc'[t] \in {"end", "count", "book", "header"}
        /\ \A u \in Threads \ {t} : pc'[u] = pc[u]
        /\ dataSeg' = dataSeg /\ packed' = packed /\ saved' = saved /\ packAt' = packAt
    BY <1>1, <1>5 DEF RcvDone, RcvFails, EnvFails, Move, MoveFails, MoveFailsSilently, Book,
                      TypeOK, packVars, fileVars
  <2> QED BY <1>1, <1>2, <2>1, CutFacts, NoCopyKeeps DEF AllEnded, Offsets
<1>6. ASSUME NEW t \in Threads, Count(t)
      PROVE  CopiesInv'
  <2>1. /\ pc[t] = "count" /\ (pc'[t] = "move" \/ (t = 0 /\ pc'[t] = "pack"))
        /\ \A u \in Threads \ {t} : pc'[u] = pc[u] /\ dataSeg'[u] = dataSeg[u]
        /\ dataSeg'[t].offset = dataSeg[t].offset /\ dataSeg'[t].len = dataSeg[t].len + 1
        /\ packed' = packed /\ saved' = saved /\ packAt' = packAt
    BY <1>1, <1>6 DEF Count, TypeOK, Segment, packVars, fileVars
  <2>2. \A u \in Threads : dataSeg[u].len <= dataSeg'[u].len
    BY <1>1, <1>2, <2>1, CopyFacts
  <2>3. pc[0] # "pack" => packAt = 0
    BY DEF IInv, Packs
  <2> QED BY <1>1, <2>1, <2>2, <2>3, CutFacts, NoCopyKeeps DEF AllEnded, Offsets
<1>7. ASSUME NEW t \in Threads, Pack(t)
      PROVE  CopiesInv'
  <2>1. t = 0 /\ pc[0] = "pack" /\ pc' = pc /\ ~AllEnded
    BY <1>7, PackIs DEF AllEnded
  <2>2. PICK p \in Threads :
          /\ packAt = 2 * p \/ packAt = 2 * p + 1
          /\ packed' = [packed EXCEPT ![p] =
                          IF packAt = 2 * p
                          THEN [packed[p] EXCEPT !.len = dataSeg[p].len]
                          ELSE [packed[p] EXCEPT !.offset = dataSeg[p].offset]]
    BY <1>7, PackIs
  <2>0. packAt \in Int /\ packAt' = packAt + 1 /\ packed[p] \in Segment
    BY <1>1, <1>7, PackIs DEF TypeOK
  <2>3. /\ dataSeg' = dataSeg /\ saved' = saved
        /\ \A u \in Threads \ {p} : packed'[u] = packed[u]
    BY <1>1, <1>7, <2>2, PackIs DEF TypeOK, fileVars
  <2>4. CASE packAt = 2 * p
    <3>1. packed'[p].len = dataSeg[p].len /\ packed'[p].offset = packed[p].offset
      BY <1>1, <2>0, <2>2, <2>4 DEF TypeOK, Segment
    <3>2. Offsets(packed)'
      BY <2>3, <3>1 DEF Offsets
    <3>3. ASSUME NEW s \in Threads PROVE Behind(s)' /\ Newer(s)'
      <4>1. CASE s = p
        BY <2>1, <2>3, <3>1, <4>1, CopyFacts, <1>1 DEF Behind, Newer
      <4>2. CASE s # p
        <5>1. 2 * s < packAt + 1 => 2 * s < packAt
          BY <2>0, <2>4, <4>2, CutFacts
        <5> QED BY <2>0, <2>1, <2>3, <4>2, <5>1 DEF Behind, Newer
      <4> QED BY <4>1, <4>2
    <3> QED BY <2>3, <3>2, <3>3 DEF Offsets
  <2>5. CASE packAt = 2 * p + 1
    <3>1. packed'[p].len = packed[p].len /\ packed'[p].offset = dataSeg[p].offset
      <4>1. packAt # 2 * p
        BY <2>5, CutFacts
      <4> QED BY <1>1, <2>0, <2>2, <4>1 DEF TypeOK, Segment
    <3>2. Offsets(packed)'
      BY <2>2, <2>3, <3>1 DEF Offsets
    <3>3. ASSUME NEW s \in Threads PROVE Behind(s)' /\ Newer(s)'
      <4>1. packed'[s].len = packed[s].len
        BY <2>3, <3>1
      <4>2. 2 * s < packAt + 1 => 2 * s < packAt
        BY <2>0, <2>5, CutFacts
      <4> QED BY <2>0, <2>1, <2>3, <4>1, <4>2 DEF Behind, Newer
    <3> QED BY <2>3, <3>2, <3>3 DEF Offsets
  <2> QED BY <2>2, <2>4, <2>5
<1>8. ASSUME NEW t \in Threads, OpenRestart(t) \/ WriteRestart(t)
      PROVE  CopiesInv'
  <2>1. t = 0 /\ pc[0] \in {"pack", "write"} /\ ~AllEnded
    BY <1>8 DEF OpenRestart, WriteRestart, IInv, Packs, AllEnded
  <2>2. dataSeg' = dataSeg /\ packed' = packed /\ (saved' = saved \/ saved' = packed)
    BY <1>8 DEF OpenRestart, WriteRestart, fileVars, packVars
  <2>3. (Offsets(dataSeg) /\ Offsets(packed) /\ Offsets(saved))'
    BY <2>2 DEF Offsets
  <2>4. ASSUME NEW s \in Threads PROVE Behind(s)'
    BY <2>1, <2>2 DEF Behind
  <2>5. ASSUME NEW s \in Threads PROVE Newer(s)'
    <3>1. CASE WriteRestart(t)
      BY <1>1, <2>1, <3>1 DEF WriteRestart, Newer, TypeOK
    <3>2. CASE OpenRestart(t)
      <4>1. 2 * s < packAt
        BY <3>2, CutFacts DEF OpenRestart
      <4> QED BY <1>1, <2>1, <3>2, <4>1 DEF OpenRestart, Newer, TypeOK
    <3> QED BY <1>8, <3>1, <3>2
  <2> QED BY <2>3, <2>4, <2>5
<1>9. ASSUME NEW t \in Threads, StartThread(t) \/ StartOpenFails(t)
      PROVE  CopiesInv'
  <2>1. pc[t] = "new" /\ ~AllEnded
    BY <1>9, CutFacts DEF StartThread, StartOpenFails, IInv, Caller, AllEnded
  <2>2. /\ pc'[t] \in {"header", "end"} /\ \A u \in Threads \ {t} : pc'[u] = pc[u]
        /\ dataSeg' = dataSeg /\ packed' = packed /\ saved' = saved /\ packAt' = packAt
    BY <1>1, <1>9 DEF StartThread, StartOpenFails, TypeOK, threadVars, packVars, fileVars
  <2> QED BY <1>1, <1>2, <2>1, <2>2, CutFacts, NoCopyKeeps DEF AllEnded, Offsets
<1>10. CASE Clear
  <2>1. AllEnded
    BY <1>10, CutFacts DEF Clear, IInv, Caller, AllEnded
  <2>2. /\ pc' = pc /\ packed' = packed /\ saved' = saved /\ packAt' = packAt
        /\ \A u \in Threads : dataSeg'[u].offset = 0
    BY <1>10 DEF Clear, packVars, NoSegment
  <2> QED BY <2>1, <2>2, CutFacts DEF AllEnded, Offsets, Newer
<1>11. ASSUME NEW t \in Threads, Break(t) \/ StoreBlock(t) \/ StartFails(t) \/ JoinThread(t)
       PROVE  CopiesInv'
  BY <1>3, <1>11 DEF Break, StoreBlock, StartFails, JoinThread, threadVars, fileVars
<1>12. CASE AllStarted \/ Unwind \/ CheckSize \/ Finish
  BY <1>3, <1>12 DEF AllStarted, Unwind, CheckSize, Finish, threadVars, fileVars
<1>13. ASSUME NEW t \in Threads, NEW length \in 1 .. NumBlocks, RcvHeader(t, length)
       PROVE  RcvHeader(t, header'[t].length)
  BY <1>1, <1>13 DEF RcvHeader, TypeOK
<1> QED BY <1>4, <1>5, <1>6, <1>7, <1>8, <1>9, <1>10, <1>11, <1>12, <1>13 DEF Thread, Main

-----------------------------------------------------------------------------
(* The invariant.                                                          *)

\* Nothing was lost on its way, and putSeg has read all that it counted.
Intact == DataFlows /\ shorts = 0

\* Where a restart is: rOffset is the end of the walk so far, or the walk has
\* come, in a gap, as far before the next segment as there is to move.  The two
\* files stand there too unless a read fell short, and all before is delivered.
Position ==
  /\ rPc = "walk" => rOffset = End(seg, i) /\ (shorts = 0 => rPos = rOffset)
  /\ rPc \in {"gap", "open", "write"} =>
       /\ gap <= Target
       /\ i > 0 => End(seg, i) + gap = Target
       /\ shorts = 0 => rPos + gap = Target
  /\ rPc = "skip" =>
       /\ rOffset = Later(Target, End(seg, i))
       /\ shorts = 0 => rPos = rOffset
  /\ Intact => \A b \in Blocks : b < rPos => b \in Delivered

\* What a restart keeps up to date claims what the file did, and no more than
\* is there.
Walking ==
  /\ rResult = "none"
  /\ Fits(seg)
  /\ Position
  /\ Claimed(saved) \subseteq Claimed(seg)
  /\ Intact => Claimed(seg) \subseteq Delivered

\* What the death of the process leaves: the connections and the two files.
Remains ==
  /\ \A t \in Threads : Flow(t)
  /\ Fits(saved)
  /\ Intact => Claimed(saved) \subseteq Delivered

RestartIInv ==
  /\ TypeOK /\ RestartTypeOK
  /\ phase = "transfer" => IInv /\ CopiesInv /\ rResult = "none"
  /\ phase # "transfer" => Remains
  /\ phase = "restart" => Walking
  /\ rResult = "ok" /\ Intact => Delivered = Blocks

\* Nothing is delivered that is not a block of the file.
LEMMA DeliveredType ==
  ASSUME TypeOK
  PROVE  Delivered \subseteq Blocks /\ stored \subseteq Delivered
BY DEF TypeOK, Delivered

\* The types of what the connection of a thread holds.
LEMMA FlowFacts ==
  ASSUME TypeOK, NEW t \in Threads
  PROVE  /\ left[t] \in Nat /\ acked[t] \in Nat /\ pos[t] \in Nat
         /\ header[t].offset \in Nat /\ header[t].length \in Nat /\ NumBlocks \in Nat
BY CutFacts DEF TypeOK

\* What Portal's invariant leaves behind when the process dies.
LEMMA WhatRemains ==
  ASSUME IInv, CopiesInv
  PROVE  Remains /\ Within(saved)
<1>0. TypeOK /\ saved \in [Threads -> Segment]
  BY DEF IInv, TypeOK
<1>1. ASSUME NEW t \in Threads PROVE Flow(t) /\ pos[t] <= Cut[t + 1]
  <2>1. Progress(t)
    BY DEF IInv, ThreadInv
  <2> QED BY <2>1, ThreadFacts, CutFacts DEF Progress, Flow
<1>2. Within(saved)
  <2> SUFFICES ASSUME NEW s \in Threads, saved[s].len > 0
               PROVE  saved[s].offset = Cut[s] /\ Cut[s] + saved[s].len <= Cut[s + 1]
    BY DEF Within, CopiesInv, Offsets
  <2>1. saved[s].offset = Cut[s] /\ Cut[s] + saved[s].len <= pos[s]
    BY DEF IInv, Saved
  <2>2. saved[s].len \in Int /\ pos[s] \in Int /\ Cut[s] \in Int /\ Cut[s + 1] \in Int
    BY <1>0, CopyFacts, ThreadFacts
  <2> QED BY <1>1, <2>1, <2>2
<1>3. Fits(saved)
  <2>1. \A k \in 0 .. NumThreads : End(saved, k) \in Nat /\ End(saved, k) <= Cut[k]
    BY <1>0, <1>2, EndIsWalk, WalkWithin
  <2> QED BY <2>1, CutFacts DEF Fits
<1>4. ASSUME DataFlows, NEW b \in Claimed(saved) PROVE b \in Delivered
  <2>1. b \in Int
    BY <1>0, ClaimedIs
  <2>2. PICK s \in Threads : End(saved, s + 1) - saved[s].len <= b /\ b < End(saved, s + 1)
    BY <1>0, ClaimedIs
  <2>3. /\ saved[s].len \in Int /\ End(saved, s + 1) \in Int /\ Cut[s] \in Nat
        /\ Cut[s + 1] \in Int /\ Cut[s + 1] <= NumBlocks /\ NumBlocks \in Int
    BY <1>0, WalkFacts
  <2>4. saved[s].len > 0
    BY <2>1, <2>2, <2>3
  <2>5. /\ End(saved, s + 1) = Cut[s] + saved[s].len
        /\ Cut[s] + saved[s].len <= pos[s] /\ pos[s] <= Cut[s + 1] /\ pos[s] \in Int
    BY <1>0, <1>1, <1>2, <2>4, WalkWithin, ThreadFacts DEF IInv, Saved
  <2>6. Cut[s] <= b /\ b < pos[s] /\ b \in Blocks
    BY <2>1, <2>2, <2>3, <2>5 DEF Blocks
  <2> QED BY <1>4, <2>6, MovedDelivered DEF DataFlows
<1> QED BY <1>1, <1>2, <1>3, <1>4 DEF Remains, Intact

\* What still arrives for a dead process, or a living one, was delivered already.
LEMMA ArrivalDelivers ==
  ASSUME TypeOK, \A u \in Threads : Flow(u), NEW t \in Threads, StoreBlock(t)
  PROVE  /\ TypeOK'
         /\ \A u \in Threads : Flow(u)'
         /\ DataFlows => Delivered \subseteq Delivered'
<1> DEFINE block == header[t].offset + acked[t]
<1>1. /\ Direction = "put" /\ header[t].length - left[t] - acked[t] > 0
      /\ acked' = [acked EXCEPT ![t] = @ + 1]
      /\ UNCHANGED <<connected, served, serverFailed, pc, moveVars, dataSeg, packVars,
                     fileVars, mainVars>>
  BY DEF StoreBlock, InTransit
<1>2. /\ pos[t] = header[t].offset + header[t].length - left[t]
      /\ block \in Blocks /\ acked[t] + 1 <= NumBlocks
  BY <1>1, FlowFacts DEF Flow, Blocks
<1>3. stored' = stored \cup {block}
  BY <1>2 DEF StoreBlock
<1>4. TypeOK'
  <2>1. stored' \in SUBSET Blocks
    BY <1>2, <1>3 DEF TypeOK
  <2>2. acked' \in [Threads -> 0 .. NumBlocks]
    BY <1>1, <1>2, FlowFacts DEF TypeOK
  <2> QED BY <1>1, <2>1, <2>2 DEF TypeOK, moveVars, packVars, fileVars, mainVars
<1>5. ASSUME NEW u \in Threads PROVE Flow(u)'
  <2>1. acked'[u] = IF u = t THEN acked[u] + 1 ELSE acked[u]
    BY <1>1 DEF TypeOK
  <2>2. UNCHANGED <<left, header, pos>>
    BY <1>1 DEF moveVars
  <2> QED BY <1>1, <2>1, <2>2, FlowFacts DEF Flow
<1>6. ASSUME DataFlows, NEW b \in Delivered PROVE b \in Delivered'
  <2>1. ~Lossy
    BY <1>1, <1>6 DEF DataFlows
  <2>2. UNCHANGED <<left, header, pos>> /\ b \in Blocks /\ b \in Int
    BY <1>1, DeliveredType DEF moveVars, Blocks
  <2>3. CASE b \in stored
    BY <1>3, <2>1, <2>3 DEF Delivered
  <2>4. CASE b \notin stored
    <3>1. PICK u \in Threads :
            /\ header[u].offset + acked[u] <= b
            /\ b < header[u].offset + header[u].length - left[u]
            /\ pos[u] = header[u].offset + header[u].length - left[u]
      BY <2>1, <2>4 DEF Delivered
    <3>2. CASE u = t /\ b = block
      BY <1>3, <2>1, <3>2 DEF Delivered
    <3>3. CASE ~(u = t /\ b = block)
      <4>1. header[u].offset + acked'[u] <= b
        <5>1. acked'[u] = IF u = t THEN acked[u] + 1 ELSE acked[u]
          BY <1>1 DEF TypeOK
        <5>2. header[u].offset \in Int /\ acked[u] \in Int
          BY FlowFacts
        <5>3. u = t => b # header[u].offset + acked[u]
          BY <3>3
        <5> QED BY <2>2, <3>1, <5>1, <5>2, <5>3
      <4> QED BY <2>1, <2>2, <3>1, <4>1 DEF Delivered
    <3> QED BY <3>2, <3>3
  <2> QED BY <2>3, <2>4
<1> QED BY <1>4, <1>5, <1>6

-----------------------------------------------------------------------------
(* Every step keeps it.                                                    *)

\* The places of a restart are places of the file.
LEMMA RestartFacts ==
  ASSUME RestartIInv
  PROVE  /\ Remains
         /\ seg \in [Threads -> Segment] /\ saved \in [Threads -> Segment]
         /\ i \in Nat /\ i \in 0 .. NumThreads /\ (i < NumThreads => i \in Threads)
         /\ rOffset \in Nat /\ rPos \in Nat /\ gap \in Nat /\ NumBlocks \in Nat
         /\ rPos <= NumBlocks
         /\ Target \in Nat /\ Target <= NumBlocks /\ End(seg, i) \in Nat
         /\ NumThreads \in Nat /\ shorts \in Nat
<1>1. Remains
  BY WhatRemains DEF RestartIInv
<1>2. seg \in [Threads -> Segment] /\ saved \in [Threads -> Segment]
  BY DEF RestartIInv, RestartTypeOK, TypeOK
<1>3. /\ i \in Nat /\ i \in 0 .. NumThreads /\ (i < NumThreads => i \in Threads)
      /\ rOffset \in Nat /\ rPos \in Nat /\ gap \in Nat /\ NumBlocks \in Nat
      /\ rPos <= NumBlocks /\ NumThreads \in Nat /\ shorts \in Nat
  BY CutFacts DEF RestartIInv, RestartTypeOK, Threads
<1>4. Target \in Nat /\ Target <= NumBlocks
  BY <1>2, <1>3 DEF Target, Segment
<1> QED BY <1>1, <1>2, <1>3, <1>4, EndIsWalk

\* A step that touches neither the connections nor the files.
LEMMA RemainsKept ==
  ASSUME UNCHANGED <<header, acked, left, pos, saved, stored, shorts>>
  PROVE  Delivered' = Delivered /\ (Remains => Remains')
<1>1. Delivered' = Delivered
  BY DEF Delivered
<1> QED BY <1>1 DEF Remains, Flow, Fits, Intact

LEMMA AllVars ==
  ASSUME UNCHANGED vars
  PROVE  UNCHANGED <<header, acked, left, pos, saved, stored>> /\ (TypeOK => TypeOK')
BY DEF vars, serverVars, moveVars, packVars, fileVars, mainVars, TypeOK

LEMMA IdleVars ==
  ASSUME UNCHANGED idleVars
  PROVE  /\ UNCHANGED <<header, acked, left, pos>>
         /\ TypeOK /\ restartFile' \in {"none", "empty", "whole"}
            /\ saved' \in [Threads -> Segment] /\ stored' \in SUBSET Blocks => TypeOK'
BY DEF idleVars, serverVars, moveVars, packVars, mainVars, TypeOK

\* The transfer, and what arrives while it lasts.
LEMMA TransferKeeps ==
  ASSUME RestartIInv, Transfer \/ (Arrival /\ phase = "transfer")
  PROVE  RestartIInv'
<1>1. /\ phase = "transfer" /\ UNCHANGED restartVars
      /\ (\E t \in Threads : Thread(t) \/ Break(t) \/ StoreBlock(t)) \/ Main
  BY DEF Transfer, Arrival
<1>2. IInv /\ CopiesInv /\ rResult = "none"
  BY <1>1 DEF RestartIInv
<1>3. IInv'
  BY <1>1, <1>2, PortalNext DEF Next
<1>4. CopiesInv'
  BY <1>1, <1>2, <1>3, CopiesNext
<1> QED BY <1>1, <1>2, <1>3, <1>4 DEF RestartIInv, restartVars, RestartTypeOK, IInv

\* What arrives later.
LEMMA ArrivalKeeps ==
  ASSUME RestartIInv, Arrival, phase # "transfer"
  PROVE  RestartIInv'
<1>1. PICK t \in Threads : StoreBlock(t)
  BY DEF Arrival
<1>2. UNCHANGED restartVars /\ saved' = saved
  BY <1>1 DEF Arrival, StoreBlock, fileVars
<1>3. TypeOK /\ RestartTypeOK /\ Remains
  BY DEF RestartIInv
<1>4. /\ TypeOK' /\ \A u \in Threads : Flow(u)'
      /\ DataFlows => Delivered \subseteq Delivered'
  BY <1>1, <1>3, ArrivalDelivers DEF Remains
<1>5. Remains'
  BY <1>2, <1>3, <1>4 DEF Remains, Fits, Intact, restartVars
<1>6. phase = "restart" => Walking'
  BY <1>2, <1>4 DEF RestartIInv, Walking, Position, Fits, restartVars, Target, Intact
<1>7. Delivered' \subseteq Blocks
  BY <1>4 DEF TypeOK, Delivered
<1> QED BY <1>2, <1>3, <1>4, <1>5, <1>6, <1>7
        DEF RestartIInv, restartVars, RestartTypeOK, Intact

\* The process dies.
LEMMA CrashKeeps ==
  ASSUME RestartIInv, Crash
  PROVE  RestartIInv'
<1>1. TypeOK /\ RestartTypeOK /\ Remains
  BY RestartFacts DEF RestartIInv
<1>2. UNCHANGED <<header, acked, left, pos, saved, stored, shorts>>
  BY DEF Crash, fileVars
<1>3. Remains'
  BY <1>1, <1>2, RemainsKept
<1>4. NoSegment \in Segment
  BY CutFacts DEF NoSegment, Segment
<1>5. TypeOK'
  BY <1>1, <1>4, CutFacts DEF Crash, TypeOK, fileVars
<1>6. RestartTypeOK'
  BY <1>1, <1>4, CutFacts DEF Crash, LoseLocals, StartLocals, RestartTypeOK
<1>7. phase' = "dead" /\ rResult' = "none"
  BY DEF Crash
<1> QED BY <1>3, <1>5, <1>6, <1>7 DEF RestartIInv

\* A restart begins with what the file says.
LEMMA ReadKeeps ==
  ASSUME RestartIInv, ReadRestartFile
  PROVE  RestartIInv'
<1>1. /\ TypeOK /\ RestartTypeOK /\ Remains /\ saved \in [Threads -> Segment]
      /\ NumBlocks \in Nat
  BY RestartFacts DEF RestartIInv
<1>2. /\ phase' = "restart" /\ rResult' = "none" /\ seg' = saved /\ UNCHANGED <<vars, shorts>>
      /\ rPc' = "walk" /\ i' = 0 /\ rOffset' = 0 /\ rPos' = 0 /\ gap' = 0
  BY DEF ReadRestartFile, StartLocals
<1>3. Remains' /\ Delivered' = Delivered /\ TypeOK' /\ saved' = saved
  BY <1>1, <1>2, AllVars, RemainsKept
<1>4. RestartTypeOK'
  BY <1>1, <1>2, CutFacts, RestartsAssumption DEF ReadRestartFile, RestartTypeOK
<1>5. Position'
  <2>1. End(saved, 0) = 0
    BY <1>1, EndIsWalk
  <2> QED BY <1>1, <1>2, <2>1 DEF Position, Blocks
<1>6. Walking'
  BY <1>1, <1>2, <1>3, <1>5 DEF Walking, Remains, Fits, Intact
<1> QED BY <1>2, <1>3, <1>4, <1>6 DEF RestartIInv

\* A step of a restart that only looks for its place.
LEMMA WalkStepKeeps ==
  ASSUME RestartIInv, phase = "restart", UNCHANGED <<vars, phase, restarts, seg, rResult, shorts>>,
         RestartTypeOK', Position'
  PROVE  RestartIInv'
<1>1. Walking /\ Remains /\ TypeOK
  BY RestartFacts DEF RestartIInv
<1>2. Remains' /\ Delivered' = Delivered /\ TypeOK' /\ saved' = saved
  BY <1>1, AllVars, RemainsKept
<1>3. Walking'
  BY <1>1, <1>2 DEF Walking, Fits, Intact
<1> QED BY <1>1, <1>2, <1>3 DEF RestartIInv, Walking, Intact

LEMMA FindGapKeeps ==
  ASSUME RestartIInv, FindGap
  PROVE  RestartIInv'
<1>1. /\ rOffset = End(seg, i) /\ (shorts = 0 => rPos = rOffset) /\ RestartTypeOK
      /\ Intact => \A b \in Blocks : b < rPos => b \in Delivered
  BY DEF FindGap, RestartIInv, Walking, Position
<1>2. Delivered' = Delivered /\ Target' = Target
  BY AllVars, RemainsKept DEF FindGap, Target
<1>3. UNCHANGED <<i, seg, rOffset, rPos, shorts>> /\ phase = "restart"
  BY DEF FindGap
<1>4. CASE Target > rOffset
  <2>1. gap' = Target - rOffset /\ rPc' = "gap"
    BY <1>4 DEF FindGap
  <2>2. Position'
    BY <1>1, <1>2, <1>3, <1>4, <2>1, RestartFacts DEF Position, Intact
  <2>3. RestartTypeOK'
    BY <1>1, <1>4, <2>1, RestartFacts DEF FindGap, RestartTypeOK
  <2> QED BY <2>2, <2>3, WalkStepKeeps DEF FindGap
<1>5. CASE ~(Target > rOffset)
  <2>1. gap' = 0 /\ rPc' = "skip"
    BY <1>5 DEF FindGap
  <2>2. Position'
    BY <1>1, <1>2, <1>3, <1>5, <2>1, RestartFacts DEF Position, Later, Intact
  <2>3. RestartTypeOK'
    BY <1>1, <2>1, RestartFacts DEF FindGap, RestartTypeOK
  <2> QED BY <2>2, <2>3, WalkStepKeeps DEF FindGap
<1> QED BY <1>4, <1>5

LEMMA EndGapKeeps ==
  ASSUME RestartIInv, EndGap
  PROVE  RestartIInv'
<1>1. /\ shorts = 0 => rPos + gap = Target
      /\ (i > 0 => End(seg, i) + gap = Target) /\ RestartTypeOK /\ gap = 0
      /\ Intact => \A b \in Blocks : b < rPos => b \in Delivered
  BY DEF EndGap, RestartIInv, Walking, Position
<1>2. Delivered' = Delivered /\ Target' = Target
  BY AllVars, RemainsKept DEF EndGap, Target
<1>3. UNCHANGED <<i, seg, rPos, shorts>> /\ rPc' = "skip" /\ rOffset' = Target
  BY DEF EndGap
<1>4. i = 0 => End(seg, i) = 0
  BY RestartFacts, EndIsWalk
<1>5. Position'
  BY <1>1, <1>2, <1>3, <1>4, RestartFacts DEF Position, Later, Intact
<1>6. RestartTypeOK'
  BY <1>1, RestartFacts DEF EndGap, RestartTypeOK
<1> QED BY <1>5, <1>6, WalkStepKeeps DEF EndGap

\* What a segment claims is skipped, and is there.
LEMMA SkipKeeps ==
  ASSUME RestartIInv, Skip
  PROVE  RestartIInv'
<1>1. /\ rOffset = Later(Target, End(seg, i)) /\ RestartTypeOK /\ Fits(seg)
      /\ shorts = 0 => rPos = rOffset
      /\ Intact => \A b \in Blocks : b < rPos => b \in Delivered
      /\ Intact => Claimed(seg) \subseteq Delivered
  BY DEF Skip, RestartIInv, Walking, Position
<1>2. i \in Threads /\ Target = seg[i].offset
  BY RestartFacts DEF Skip, Target
<1>3. /\ End(seg, i + 1) = rOffset + seg[i].len /\ seg[i].len \in Nat
      /\ i + 1 \in 0 .. NumThreads /\ End(seg, i + 1) <= NumBlocks
  BY <1>1, <1>2, RestartFacts, WalkFacts DEF Fits
<1>4. /\ rOffset' = End(seg, i + 1) /\ rOffset <= rOffset'
      /\ rPos' = rOffset' \/ (rPos' = rPos /\ rOffset' = rOffset)
      /\ rPos' \in 0 .. NumBlocks /\ i' = i + 1 /\ rPc' = "walk"
  BY <1>1, <1>3, RestartFacts DEF Skip, SkipTo
<1>5. Delivered' = Delivered /\ seg' = seg /\ shorts' = shorts
  BY AllVars, RemainsKept DEF Skip
<1>6. ASSUME Intact, NEW b \in Blocks, b < rPos'
      PROVE  b \in Delivered
  <2>0. rPos = rOffset /\ rPos' = rOffset'
    BY <1>1, <1>4, <1>6 DEF Intact
  <2>1. CASE b < rPos
    BY <1>1, <1>6, <2>1
  <2>2. CASE ~(b < rPos)
    <3>1. b \in Int
      BY DEF Blocks
    <3>2. End(seg, i + 1) - seg[i].len <= b /\ b < End(seg, i + 1)
      BY <1>1, <1>3, <1>4, <1>6, <2>0, <2>2, <3>1, RestartFacts
    <3> QED BY <1>1, <1>2, <1>6, <3>1, <3>2, RestartFacts, ClaimedIs
  <2> QED BY <2>1, <2>2
<1>7. Position'
  BY <1>1, <1>4, <1>5, <1>6 DEF Position, Intact
<1>8. RestartTypeOK'
  BY <1>1, <1>3, <1>4, RestartFacts DEF Skip, RestartTypeOK
<1> QED BY <1>7, <1>8, WalkStepKeeps DEF Skip

\* One more block in the segment before the gap: it claims the place where the
\* walk was, and all it claimed before.
LEMMA ClaimedOneMore ==
  ASSUME NEW segs \in [Threads -> Segment], NEW more \in [Threads -> Segment],
         NEW j \in Threads,
         \A s \in Threads :
           /\ more[s].offset = segs[s].offset
           /\ more[s].len = IF s = j THEN segs[s].len + 1 ELSE segs[s].len,
         j + 1 < NumThreads => End(segs, j + 1) < segs[j + 1].offset
  PROVE  /\ Claimed(segs) \subseteq Claimed(more)
         /\ \A b \in Claimed(more) : b \in Claimed(segs) \/ b = End(segs, j + 1)
<1>1. ASSUME NEW s \in Threads
      PROVE  /\ End(more, s + 1) = IF s = j THEN End(segs, s + 1) + 1 ELSE End(segs, s + 1)
             /\ End(segs, s + 1) \in Int /\ segs[s].len \in Int
             /\ more[s].len = IF s = j THEN segs[s].len + 1 ELSE segs[s].len
  <2>1. s + 1 \in 0 .. NumThreads /\ s \in Int /\ j \in Int
    BY WalkFacts, CutFacts
  <2>2. End(more, s + 1) = IF s + 1 = j + 1 THEN End(segs, s + 1) + 1 ELSE End(segs, s + 1)
    BY <2>1, WalkGrows
  <2> QED BY <2>1, <2>2, WalkFacts
<1>2. ASSUME NEW b \in Claimed(segs) PROVE b \in Claimed(more)
  <2>1. b \in Int
    BY ClaimedIs
  <2>2. PICK s \in Threads : End(segs, s + 1) - segs[s].len <= b /\ b < End(segs, s + 1)
    BY ClaimedIs
  <2>3. End(more, s + 1) - more[s].len <= b /\ b < End(more, s + 1)
    BY <1>1, <2>1, <2>2
  <2> QED BY <2>1, <2>3, ClaimedIs
<1>3. ASSUME NEW b \in Claimed(more), b # End(segs, j + 1)
      PROVE  b \in Claimed(segs)
  <2>1. b \in Int
    BY ClaimedIs
  <2>2. PICK s \in Threads : End(more, s + 1) - more[s].len <= b /\ b < End(more, s + 1)
    BY ClaimedIs
  <2>3. End(segs, s + 1) - segs[s].len <= b /\ b < End(segs, s + 1)
    BY <1>1, <1>3, <2>1, <2>2
  <2> QED BY <2>1, <2>3, ClaimedIs
<1> QED BY <1>2, <1>3

\* A block of the gap is counted in the segment before it if there is one: the
\* segment ends one block later, and the gap is one block shorter.
LEMMA CountBlockKeeps ==
  ASSUME RestartIInv, phase = "restart", rPc = "gap", gap > 0, CountBlock, UNCHANGED i
  PROVE  /\ seg' \in [Threads -> Segment] /\ gap' = gap - 1 /\ gap' \in 0 .. NumBlocks
         /\ rPc' \in {"gap", "open"}
         /\ Target' = Target /\ gap' <= Target /\ (i > 0 => End(seg', i) + gap' = Target)
         /\ Fits(seg')
         /\ Claimed(seg) \subseteq Claimed(seg')
         /\ \A b \in Claimed(seg') : b \in Claimed(seg) \/ (i > 0 /\ b = End(seg, i))
<1>1. /\ gap <= Target /\ (i > 0 => End(seg, i) + gap = Target) /\ RestartTypeOK
      /\ Fits(seg)
  BY DEF RestartIInv, Walking, Position
<1>2. gap' = gap - 1 /\ rPc' \in {"gap", "open"}
  BY DEF CountBlock
<1>3. gap' \in 0 .. NumBlocks /\ gap' <= Target
  BY <1>1, <1>2, RestartFacts DEF RestartTypeOK
<1>4. CASE i = 0
  <2>1. LenToUpdate \notin Threads
    BY <1>4 DEF LenToUpdate, Threads
  <2>2. seg' = seg
    BY <2>1 DEF CountBlock
  <2> QED BY <1>1, <1>2, <1>3, <1>4, <2>2, RestartFacts DEF Target
<1>5. CASE i # 0
  <2> DEFINE j == i - 1
  <2>1. j \in Threads /\ j + 1 = i /\ LenToUpdate = j /\ i > 0 /\ j \in Int
    BY <1>5, RestartFacts DEF LenToUpdate, Threads
  <2>2. End(seg, i) + gap = Target /\ End(seg, i) + 1 <= NumBlocks
    BY <1>1, <2>1, RestartFacts
  <2>3. /\ seg[j].len \in Nat /\ seg[j].len + 1 \in 0 .. NumBlocks
        /\ seg[j].offset \in 0 .. NumBlocks
    <3>1. End(seg, i) = Later(seg[j].offset, End(seg, j)) + seg[j].len
          /\ seg[j].offset \in Nat /\ seg[j].len \in Nat /\ End(seg, j) \in Nat
      BY <2>1, RestartFacts, WalkFacts
    <3>2. Later(seg[j].offset, End(seg, j)) \in Nat
      BY <3>1 DEF Later
    <3>3. seg[j].offset \in 0 .. NumBlocks
      BY <2>1, RestartFacts DEF Segment
    <3> QED BY <2>1, <2>2, <3>1, <3>2, <3>3, RestartFacts
  <2>4. seg' = [seg EXCEPT ![j].len = @ + 1]
    BY <2>1 DEF CountBlock
  <2>5. \A s \in Threads :
          /\ seg'[s].offset = seg[s].offset
          /\ seg'[s].len = IF s = j THEN seg[s].len + 1 ELSE seg[s].len
    BY <2>1, <2>4, RestartFacts DEF Segment
  <2>6. seg' \in [Threads -> Segment]
    BY <2>1, <2>3, <2>4, RestartFacts DEF Segment
  <2>7. j + 1 < NumThreads => End(seg, j + 1) < seg[j + 1].offset
    BY <2>1, <2>2, RestartFacts DEF Target
  <2> HIDE DEF j
  <2>8. \A k \in 0 .. NumThreads :
          End(seg', k) = IF k = j + 1 THEN End(seg, k) + 1 ELSE End(seg, k)
    <3>1. seg \in [Threads -> Segment]
      BY RestartFacts
    <3> QED BY <2>1, <2>5, <2>6, <2>7, <3>1, WalkGrows
  <2>9. /\ Claimed(seg) \subseteq Claimed(seg')
        /\ \A b \in Claimed(seg') : b \in Claimed(seg) \/ b = End(seg, j + 1)
    BY <2>1, <2>5, <2>6, <2>7, RestartFacts, ClaimedOneMore
  <2>10. Target' = Target
    BY <2>5, RestartFacts DEF Target
  <2>11. End(seg', i) = End(seg, i) + 1
    BY <2>1, <2>8, RestartFacts
  <2>12. Fits(seg')
    BY <1>1, <2>1, <2>2, <2>8, <2>11, RestartFacts DEF Fits
  <2>13. End(seg', i) + gap' = Target
    BY <1>2, <2>2, <2>11, RestartFacts
  <2> QED BY <1>2, <1>3, <2>1, <2>6, <2>9, <2>10, <2>12, <2>13
<1> QED BY <1>4, <1>5

\* A block is moved and counted.
LEMMA MoveBlockKeeps ==
  ASSUME RestartIInv, MoveBlock
  PROVE  RestartIInv'
<1>1. /\ RestartTypeOK /\ TypeOK
      /\ shorts = 0 => rPos + gap = Target
      /\ i > 0 => End(seg, i) + gap = Target
      /\ Claimed(saved) \subseteq Claimed(seg) /\ Remains /\ rResult = "none"
      /\ Intact => /\ \A b \in Blocks : b < rPos => b \in Delivered
                   /\ Claimed(seg) \subseteq Delivered
      /\ phase = "restart" /\ rPc = "gap" /\ gap > 0 /\ rPos < NumBlocks
  BY RestartFacts DEF MoveBlock, RestartIInv, Walking, Position
<1>2. /\ UNCHANGED <<idleVars, fileVars, phase, restarts, i, rOffset, rResult, shorts>>
      /\ stored' = stored \cup {rPos} /\ rPos' = rPos + 1 /\ CountBlock
  BY DEF MoveBlock
<1>3. rPos \in Blocks /\ rPos' \in 0 .. NumBlocks
  BY <1>1, <1>2, RestartFacts DEF Blocks
<1>4. TypeOK' /\ saved' = saved /\ UNCHANGED <<header, acked, left, pos>>
  <2>1. saved' \in [Threads -> Segment] /\ stored' \in SUBSET Blocks
        /\ restartFile' \in {"none", "empty", "whole"} /\ saved' = saved
    BY <1>1, <1>2, <1>3 DEF TypeOK, fileVars
  <2> QED BY <1>1, <1>2, <2>1, IdleVars
<1>5. Delivered \subseteq Delivered' /\ rPos \in Delivered'
  BY <1>2, <1>4 DEF Delivered
<1>6. /\ seg' \in [Threads -> Segment] /\ gap' = gap - 1 /\ gap' \in 0 .. NumBlocks
      /\ rPc' \in {"gap", "open"}
      /\ Target' = Target /\ gap' <= Target /\ (i > 0 => End(seg', i) + gap' = Target)
      /\ Fits(seg')
      /\ Claimed(seg) \subseteq Claimed(seg')
      /\ \A b \in Claimed(seg') : b \in Claimed(seg) \/ (i > 0 /\ b = End(seg, i))
  BY <1>1, <1>2, CountBlockKeeps
<1>7. Position'
  <2>1. ASSUME Intact, NEW b \in Blocks, b < rPos'
        PROVE  b \in Delivered'
    <3>1. b < rPos \/ b = rPos
      BY <1>2, <2>1, RestartFacts DEF Blocks
    <3> QED BY <1>1, <1>5, <2>1, <3>1
  <2>2. shorts = 0 => rPos' + gap' = Target'
    BY <1>1, <1>2, <1>6, RestartFacts
  <2> QED BY <1>2, <1>6, <2>1, <2>2 DEF Position, Intact
<1>8. Intact => Claimed(seg') \subseteq Delivered'
  <2>1. Intact /\ i > 0 => End(seg, i) = rPos
    BY <1>1, RestartFacts DEF Intact
  <2> QED BY <1>1, <1>5, <1>6, <2>1
<1>9. Walking'
  BY <1>1, <1>2, <1>4, <1>6, <1>7, <1>8 DEF Walking, Intact
<1>10. Remains'
  BY <1>1, <1>2, <1>4, <1>5 DEF Remains, Flow, Fits, Intact
<1>11. RestartTypeOK'
  BY <1>1, <1>2, <1>3, <1>6 DEF RestartTypeOK
<1> QED BY <1>1, <1>2, <1>4, <1>9, <1>10, <1>11 DEF RestartIInv

\* A read falls short: the block is counted only, and from now on nothing is said
\* of what the count stands for.
LEMMA ShortKeeps ==
  ASSUME RestartIInv, ReadFallsShort
  PROVE  RestartIInv'
<1>1. /\ RestartTypeOK /\ TypeOK
      /\ Claimed(saved) \subseteq Claimed(seg) /\ Remains /\ rResult = "none"
      /\ phase = "restart" /\ rPc = "gap" /\ gap > 0
  BY RestartFacts DEF ReadFallsShort, RestartIInv, Walking
<1>2. /\ UNCHANGED <<idleVars, fileVars, stored, phase, restarts, i, rOffset, rPos, rResult>>
      /\ shorts' = shorts + 1 /\ CountBlock
  BY DEF ReadFallsShort
<1>3. shorts' \in Nat /\ shorts' # 0 /\ ~Intact'
  BY <1>2, RestartFacts DEF Intact
<1>4. TypeOK' /\ saved' = saved /\ UNCHANGED <<header, acked, left, pos>>
  <2>1. saved' \in [Threads -> Segment] /\ stored' \in SUBSET Blocks
        /\ restartFile' \in {"none", "empty", "whole"} /\ saved' = saved
    BY <1>1, <1>2 DEF TypeOK, fileVars
  <2> QED BY <1>1, <1>2, <2>1, IdleVars
<1>5. /\ seg' \in [Threads -> Segment] /\ gap' \in 0 .. NumBlocks
      /\ rPc' \in {"gap", "open"}
      /\ Target' = Target /\ gap' <= Target /\ (i > 0 => End(seg', i) + gap' = Target)
      /\ Fits(seg')
      /\ Claimed(seg) \subseteq Claimed(seg')
  BY <1>1, <1>2, CountBlockKeeps
<1>6. Position'
  BY <1>2, <1>3, <1>5 DEF Position
<1>7. Walking'
  BY <1>1, <1>2, <1>3, <1>4, <1>5, <1>6 DEF Walking
<1>8. Remains'
  BY <1>1, <1>3, <1>4 DEF Remains, Flow, Fits
<1>9. RestartTypeOK'
  BY <1>1, <1>2, <1>3, <1>5 DEF RestartTypeOK
<1> QED BY <1>1, <1>2, <1>4, <1>7, <1>8, <1>9 DEF RestartIInv

\* The restart file is emptied, then written.
LEMMA RewriteKeeps ==
  ASSUME RestartIInv, OpenRestartFile \/ WriteRestartFile
  PROVE  RestartIInv'
<1>1. /\ Walking /\ Remains /\ TypeOK /\ RestartTypeOK
      /\ phase = "restart" /\ rPc \in {"open", "write"}
  BY RestartFacts DEF RestartIInv, OpenRestartFile, WriteRestartFile
<1>2. /\ UNCHANGED <<idleVars, stored, phase, restarts, i, seg, rOffset, rPos, gap, rResult,
                     shorts>>
      /\ rPc' \in {"write", "gap"} /\ restartFile' \in {"empty", "whole"}
      /\ saved' = saved \/ saved' = seg
  BY DEF OpenRestartFile, WriteRestartFile, InfoToWrite
<1>3. TypeOK' /\ UNCHANGED <<header, acked, left, pos>>
  <2>1. saved' \in [Threads -> Segment] /\ stored' \in SUBSET Blocks
    BY <1>1, <1>2, RestartFacts DEF TypeOK
  <2> QED BY <1>1, <1>2, <2>1, IdleVars
<1>4. Delivered' = Delivered /\ Target' = Target
  BY <1>2, <1>3 DEF Delivered, Target
<1>5. Walking'
  BY <1>1, <1>2, <1>4 DEF Walking, Position, Fits, Intact
<1>6. Remains'
  <2>1. Fits(saved)'
    BY <1>1, <1>2 DEF Remains, Walking, Fits
  <2>2. Intact' => Claimed(saved') \subseteq Delivered'
    BY <1>1, <1>2, <1>4 DEF Remains, Walking, Intact
  <2> QED BY <1>1, <1>3, <2>1, <2>2 DEF Remains, Flow
<1>7. RestartTypeOK'
  BY <1>1, <1>2 DEF RestartTypeOK
<1> QED BY <1>1, <1>2, <1>3, <1>5, <1>6, <1>7 DEF RestartIInv, Walking

\* A restart ends: with success only behind the last block.
LEMMA EndKeeps ==
  ASSUME RestartIInv, Restarted \/ RestartFails
  PROVE  RestartIInv'
<1>1. Walking /\ Remains /\ TypeOK /\ RestartTypeOK
  BY RestartFacts DEF RestartIInv, Restarted, RestartFails
<1>2. /\ UNCHANGED <<vars, restarts, shorts>> /\ phase' = "restarted" /\ LoseLocals
      /\ rResult' \in {"ok", "error"}
  BY DEF Restarted, RestartFails
<1>3. Remains' /\ Delivered' = Delivered /\ TypeOK'
  BY <1>1, <1>2, AllVars, RemainsKept
<1>4. RestartTypeOK'
  <2>1. NoSegment \in Segment
    BY CutFacts DEF NoSegment, Segment
  <2> QED BY <1>1, <1>2, <2>1, CutFacts DEF LoseLocals, StartLocals, RestartTypeOK
<1>5. ASSUME Restarted, Intact PROVE Delivered = Blocks
  <2>1. rOffset = Later(NumBlocks, End(seg, i)) /\ rPos = rOffset
    BY <1>1, <1>5, CutFacts DEF Restarted, Walking, Position, Target, Intact
  <2>2. rPos = NumBlocks
    BY <2>1, RestartFacts DEF Later
  <2>3. \A b \in Blocks : b < NumBlocks
    BY CutFacts DEF Blocks
  <2>4. \A b \in Blocks : b \in Delivered
    BY <1>1, <1>5, <2>2, <2>3 DEF Walking, Position
  <2> QED BY <1>1, <2>4, DeliveredType
<1>6. rResult' = "ok" => Restarted
  BY DEF Restarted, RestartFails
<1> QED BY <1>2, <1>3, <1>4, <1>5, <1>6 DEF RestartIInv, Intact

LEMMA RestartInitial ==
  ASSUME RestartInit
  PROVE  RestartIInv
<1>1. IInv
  BY PortalInit DEF RestartInit
<1>2. TypeOK
  BY <1>1 DEF IInv
<1>3. CopiesInv
  <2>1. /\ saved = [t \in Threads |-> NoSegment] /\ packed = [t \in Threads |-> NoSegment]
        /\ dataSeg = [t \in Threads |-> NoSegment]
    BY DEF RestartInit, Init
  <2> QED BY <2>1 DEF CopiesInv, Offsets, Behind, Newer, NoSegment
<1>4. RestartTypeOK
  <2>1. NoSegment \in Segment
    BY CutFacts DEF NoSegment, Segment
  <2> QED BY <2>1, CutFacts, RestartsAssumption DEF RestartInit, RestartTypeOK
<1> QED BY <1>1, <1>2, <1>3, <1>4 DEF RestartInit, RestartIInv

LEMMA RestartStep ==
  ASSUME RestartIInv, [RestartNext]_allVars
  PROVE  RestartIInv'
<1>1. CASE Transfer \/ (Arrival /\ phase = "transfer")
  BY <1>1, TransferKeeps
<1>2. CASE Arrival /\ phase # "transfer"
  BY <1>2, ArrivalKeeps
<1>3. CASE Crash
  BY <1>3, CrashKeeps
<1>4. CASE Restart
  BY <1>4, ReadKeeps, FindGapKeeps, MoveBlockKeeps, ShortKeeps, EndGapKeeps, RewriteKeeps, SkipKeeps,
     EndKeeps DEF Restart
<1>5. CASE UNCHANGED allVars
  <2>1. UNCHANGED <<vars, restartVars>>
    BY <1>5 DEF allVars
  <2>2. /\ UNCHANGED <<dataSeg, packed, packAt, pc, saved>>
        /\ UNCHANGED <<phase, restarts, rPc, i, seg, rOffset, rPos, gap, rResult, shorts>>
    BY <2>1 DEF vars, packVars, fileVars, restartVars
  <2>3. TypeOK' /\ (Remains => Remains') /\ Delivered' = Delivered
    BY <2>1, <2>2, AllVars, RemainsKept DEF RestartIInv
  <2>4. IInv => IInv'
    BY <2>1, PortalNext
  <2>5. CopiesInv => CopiesInv'
    BY <2>2 DEF CopiesInv, Offsets, AllEnded, Behind, Newer
  <2>6. Walking => Walking'
    BY <2>2, <2>3 DEF Walking, Position, Fits, Target, Intact
  <2>7. RestartTypeOK'
    BY <2>2 DEF RestartIInv, RestartTypeOK
  <2> QED BY <2>2, <2>3, <2>4, <2>5, <2>6, <2>7 DEF RestartIInv, Intact
<1> QED BY <1>1, <1>2, <1>3, <1>4, <1>5 DEF RestartNext

LEMMA RestartInvariant == RestartSpec => []RestartIInv
<1>1. RestartInit => RestartIInv
  BY RestartInitial
<1>2. RestartIInv /\ [RestartNext]_allVars => RestartIInv'
  BY RestartStep
<1> QED BY <1>1, <1>2, PTL DEF RestartSpec

-----------------------------------------------------------------------------
(* The theorems.                                                           *)

\* Where what is on its way arrives, lfRestartGetWithInfo and
\* lfRestartPutWithInfo succeed only when the file is whole, and the restart
\* file claims only what was moved, for any number of threads, blocks and deaths
\* of the process, wherever they strike, as long as putSeg reads all it counts.  A
\* put over connections that lose what was written can break both promises, hence
\* the assumption.
THEOREM LfRestartSound ==
  ASSUME DataFlows
  PROVE  RestartSpec => []RestartSound
<1>1. ASSUME RestartIInv PROVE RestartSound
  <2>1. Remains /\ RestartTypeOK
    BY <1>1, RestartFacts DEF RestartIInv
  <2> QED BY <1>1, <2>1 DEF RestartSound, RestartComplete, ClaimSound, Remains, RestartIInv,
                             Intact
<1> QED BY <1>1, RestartInvariant, PTL

\* What the restart file claims only grows: a file written from thread 0's copy
\* has all that the one before had, although the copy was made unlocked, and one
\* written by a restart has all that the restart began with.
THEOREM LfRestartClaimGrows == RestartSpec => ClaimGrows
<1>1. ASSUME RestartIInv, RestartNext
      PROVE  Claimed(saved) \subseteq Claimed(saved')
  <2>1. CASE saved' = saved
    BY <2>1
  <2>2. ASSUME phase = "transfer", NEW t \in Threads, WriteRestart(t), saved' # saved
        PROVE  Claimed(saved) \subseteq Claimed(saved')
    <3>1. IInv /\ CopiesInv /\ TypeOK
      BY <1>1, <2>2 DEF RestartIInv
    <3>2. pc[0] = "write" /\ packAt = 0 /\ saved' = packed
      BY <2>2, <3>1 DEF WriteRestart, fileVars, IInv, Packs
    <3>3. Within(saved)
      BY <3>1, WhatRemains
    <3>4. Within(packed)
      <4> SUFFICES ASSUME NEW s \in Threads, packed[s].len > 0
                   PROVE  packed[s].offset = Cut[s] /\ Cut[s] + packed[s].len <= Cut[s + 1]
        BY <3>1 DEF Within, CopiesInv, Offsets
      <4>1. packAt # 2 * s + 1
        BY <3>2, CutFacts
      <4>2. packed[s].offset = Cut[s] /\ Cut[s] + packed[s].len <= pos[s]
        BY <3>1, <4>1 DEF IInv, Packed
      <4>3. pos[s] <= Cut[s + 1]
        BY <3>1, ThreadFacts, CutFacts DEF IInv, ThreadInv, Progress
      <4> QED BY <3>1, <4>2, <4>3, CopyFacts, ThreadFacts
    <3>5. \A s \in Threads : saved[s].len <= packed[s].len
      BY <3>1, <3>2 DEF CopiesInv, Newer
    <3>6. saved \in [Threads -> Segment] /\ packed \in [Threads -> Segment]
      BY <3>1 DEF TypeOK
    <3> QED BY <3>2, <3>3, <3>4, <3>5, <3>6, ClaimedGrows
  <2>3. CASE WriteRestartFile
    BY <1>1, <2>3 DEF WriteRestartFile, InfoToWrite, RestartIInv, Walking
  <2>4. ASSUME Transfer, \A t \in Threads : ~WriteRestart(t)
        PROVE  saved' = saved
    BY <2>4 DEF Transfer, Thread, Break, Main, RcvHeader, RcvDone, RcvFails, EnvFails, Move,
       MoveFails, MoveFailsSilently, Count, Book, Pack, OpenRestart, StartThread,
       StartOpenFails, StartFails, JoinThread, AllStarted, Unwind, CheckSize, Finish, Clear,
       fileVars
  <2>5. CASE Arrival \/ Crash
    BY <2>1, <2>5 DEF Arrival, StoreBlock, Crash, fileVars
  <2>6. CASE Restart /\ ~WriteRestartFile
    BY <2>1, <2>6 DEF Restart, ReadRestartFile, FindGap, MoveBlock, ReadFallsShort, EndGap,
       OpenRestartFile,
       Skip, Restarted, RestartFails, vars, fileVars
  <2> QED BY <1>1, <2>1, <2>2, <2>3, <2>4, <2>5, <2>6 DEF RestartNext, Transfer
<1>2. RestartIInv /\ [RestartNext]_allVars
        => [Claimed(saved) \subseteq Claimed(saved')]_allVars
  BY <1>1
<1> QED BY <1>2, RestartInvariant, PTL DEF RestartSpec, ClaimGrows
=============================================================================
