------------------------------- MODULE Portal -------------------------------
(***************************************************************************)
(* Moving one large file over several connections at once (rcPortalOpr):   *)
(* getFileFromPortal and putFileToPortal with their threads                *)
(* rcPartialDataGet and rcPartialDataPut, inside rcDataObjGet and          *)
(* rcDataObjPut.  Each thread obeys the headers its server thread sends:   *)
(* "length blocks at offset", or DONE.  With file restart on, a thread     *)
(* counts what it has moved in its data segment, and thread 0 now and then *)
(* packs all segments, unlocked, and rewrites the restart file with them.  *)
(*                                                                         *)
(* The unit is a block, the content of a transfer buffer.  A block counts  *)
(* as stored when the right content is at its place in the destination:    *)
(* for a get the local file, for a put the server's.  Between the socket   *)
(* and the server's file there is a delay: acked.  File restart is taken   *)
(* to be on: without it, the segments and the restart file are not used    *)
(* and nothing else changes.  With numThreads = 1 there is no thread, but  *)
(* a put runs the same steps; a get passes the mode 0640 as threadNum, for *)
(* which there is no segment, and is left out, as are progress callbacks.  *)
(***************************************************************************)
EXTENDS Integers

CONSTANTS
  Direction,   \* "get" or "put"
  NumThreads,  \* portalOprOut->numThreads
  NumBlocks,   \* dataSize, in blocks
  Cut,         \* the server's division: thread t has Cut[t] .. Cut[t + 1] - 1
  Encrypted,   \* was CS_NEG_USE_SSL negotiated?
  Lossy        \* may what was written for a put get lost, when its connection
               \* breaks or its server thread gives up?

ASSUME PortalAssumption ==
  /\ Direction \in {"get", "put"}
  /\ NumThreads \in Nat \ {0}
  /\ NumThreads = 1 => Direction = "put"
  /\ NumBlocks \in Nat \ {0}
  /\ Encrypted \in BOOLEAN
  /\ Lossy \in BOOLEAN

\* The server gives the threads consecutive segments of the file in the order
\* in which they connect.
ASSUME CutAssumption ==
  /\ Cut \in [0 .. NumThreads -> 0 .. NumBlocks]
  /\ Cut[0] = 0 /\ Cut[NumThreads] = NumBlocks
  /\ \A t \in 0 .. NumThreads - 1 : Cut[t] <= Cut[t + 1]

Threads == 0 .. NumThreads - 1
Blocks  == 0 .. NumBlocks - 1
Segment == [offset : 0 .. NumBlocks, len : 0 .. NumBlocks]

VARIABLES
  connected,     \* per thread: can its connection still be used?
  served,        \* per server thread: where its next header begins
  acked,         \* per server thread: the blocks of the current header stored
  serverFailed,  \* has a server thread given up early?
  pc,            \* per thread: where it is
  status,        \* per thread: myInput->status
  bytesWritten,  \* per thread: myInput->bytesWritten, in blocks
  curOffset,     \* per thread
  pos,           \* per thread: where its descriptor of the file stands
  header,        \* per thread: myHeader
  left,          \* per thread: toGet or toPut
  dataSeg,       \* conn->fileRestart.info.dataSeg
  packed,        \* thread 0's copy of the segments, packed field by field
  packAt,        \* the next field to pack
  restartFile,   \* "none", "empty" or "whole"
  saved,         \* the segments in the last whole restart file
  stored,        \* the blocks in their place at the destination
  mainPc,        \* where the calling thread is
  started,       \* how many threads it has tried to start
  joined,        \* how many it has joined
  totalWritten,
  retVal,        \* the error found so far: 0 or -1
  result         \* of rcDataObjGet or rcDataObjPut

serverVars == <<connected, served, acked, serverFailed>>
moveVars   == <<status, bytesWritten, curOffset, pos, header, left>>
packVars   == <<packed, packAt>>
fileVars   == <<restartFile, saved>>
mainVars   == <<mainPc, started, joined, totalWritten, retVal, result>>
vars == <<serverVars, pc, moveVars, dataSeg, packVars, fileVars, stored, mainVars>>

TypeOK ==
  /\ connected \in [Threads -> BOOLEAN]
  /\ served \in [Threads -> 0 .. NumBlocks]
  /\ acked \in [Threads -> 0 .. NumBlocks]
  /\ serverFailed \in BOOLEAN
  /\ pc \in [Threads -> {"new", "header", "move", "count", "pack",
                         "write", "book", "end"}]
  /\ status \in [Threads -> {0, -1}]
  /\ bytesWritten \in [Threads -> 0 .. NumBlocks]
  /\ curOffset \in [Threads -> 0 .. NumBlocks]
  /\ pos \in [Threads -> 0 .. NumBlocks]
  /\ header \in [Threads -> [offset : 0 .. NumBlocks, length : 0 .. NumBlocks]]
  /\ left \in [Threads -> 0 .. NumBlocks]
  /\ dataSeg \in [Threads -> Segment]
  /\ packed \in [Threads -> Segment]
  /\ packAt \in 0 .. 2 * NumThreads
  /\ restartFile \in {"none", "empty", "whole"}
  /\ saved \in [Threads -> Segment]
  /\ stored \in SUBSET Blocks
  /\ mainPc \in {"start", "join", "unwind", "finish", "clear", "returned"}
  /\ started \in 0 .. NumThreads
  /\ joined \in 0 .. NumThreads
  /\ totalWritten \in 0 .. NumBlocks
  /\ retVal \in {0, -1}
  /\ result \in {"none", "ok", "error"}

NoSegment == [offset |-> 0, len |-> 0]

\* initFileRestart zeroes the segments, the caller myInput.
Init ==
  /\ connected = [t \in Threads |-> TRUE]
  /\ served = [t \in Threads |-> Cut[t]]
  /\ acked = [t \in Threads |-> 0]
  /\ serverFailed = FALSE
  /\ pc = [t \in Threads |-> "new"]
  /\ status = [t \in Threads |-> 0]
  /\ bytesWritten = [t \in Threads |-> 0]
  /\ curOffset = [t \in Threads |-> 0]
  /\ pos = [t \in Threads |-> 0]
  /\ header = [t \in Threads |-> [offset |-> 0, length |-> 0]]
  /\ left = [t \in Threads |-> 0]
  /\ dataSeg = [t \in Threads |-> NoSegment]
  /\ packed = [t \in Threads |-> NoSegment]
  /\ packAt = 0
  /\ restartFile = "none"
  /\ saved = [t \in Threads |-> NoSegment]
  /\ stored = {}
  /\ mainPc = "start" /\ started = 0 /\ joined = 0 /\ totalWritten = 0
  /\ retVal = 0
  /\ result = "none"

-----------------------------------------------------------------------------
(* The server's threads and the connections.                               *)

\* Blocks of the current header the server has been sent and not stored yet.
InTransit(t) == header[t].length - left[t] - acked[t]

\* The block after the last stored one reaches the server's file.  Its content
\* is right if the client began to read where the header said.
StoreBlock(t) ==
  /\ Direction = "put"
  /\ InTransit(t) > 0
  /\ connected[t] \/ ~Lossy
  /\ acked' = [acked EXCEPT ![t] = @ + 1]
  /\ stored' = IF pos[t] = header[t].offset + header[t].length - left[t]
               THEN stored \cup {header[t].offset + acked[t]}
               ELSE stored \ {header[t].offset + acked[t]}
  /\ UNCHANGED <<connected, served, serverFailed, pc, moveVars, dataSeg, packVars,
                 fileVars, mainVars>>

Break(t) ==
  /\ connected[t]
  /\ connected' = [connected EXCEPT ![t] = FALSE]
  /\ UNCHANGED <<served, acked, serverFailed, pc, moveVars, dataSeg, packVars,
                 fileVars, stored, mainVars>>

\* A server thread that takes data sends its next message when it has the
\* blocks of the last one.
HasAnswered(t) == Direction = "get" \/ acked[t] = header[t].length

-----------------------------------------------------------------------------
(* rcPartialDataGet and rcPartialDataPut.                                  *)

\* rcvTranHeader: more to move.  A new offset is looked for in the file.
RcvHeader(t, length) ==
  LET offset == served[t]
      moves  == offset # curOffset[t] IN
  /\ pc[t] = "header" /\ connected[t] /\ HasAnswered(t)
  /\ length \in 1 .. Cut[t + 1] - offset
  /\ served' = [served EXCEPT ![t] = offset + length]
  /\ acked' = [acked EXCEPT ![t] = 0]
  /\ header' = [header EXCEPT ![t] = [offset |-> offset, length |-> length]]
  /\ left' = [left EXCEPT ![t] = length]
  /\ curOffset' = [curOffset EXCEPT ![t] = offset]
  /\ pos' = IF moves THEN [pos EXCEPT ![t] = offset] ELSE pos
  /\ dataSeg' = IF moves THEN [dataSeg EXCEPT ![t].offset = offset] ELSE dataSeg
  /\ pc' = [pc EXCEPT ![t] = "move"]
  /\ UNCHANGED <<connected, serverFailed, status, bytesWritten, packVars, fileVars,
                 stored, mainVars>>

\* DONE_OPR: a server thread that fails says so too, at any time.
RcvDone(t) ==
  /\ pc[t] = "header" /\ connected[t]
  /\ serverFailed' = (serverFailed \/ served[t] # Cut[t + 1] \/ ~HasAnswered(t))
  /\ pc' = [pc EXCEPT ![t] = "end"]
  /\ UNCHANGED <<connected, served, acked, moveVars, dataSeg, packVars, fileVars,
                 stored, mainVars>>

Fail(t) == status' = [status EXCEPT ![t] = -1]

\* Operators with a fault in their name are variants with that fault: what a
\* plausible slip in the code would do, to see that a property notices.
RcvFailsIgnored(t) == pc[t] = "header" /\ UNCHANGED vars

\* No header, or no seek.
RcvFails(t) ==
  /\ pc[t] = "header"
  /\ Fail(t)
  /\ pc' = [pc EXCEPT ![t] = "end"]
  /\ UNCHANGED <<serverVars, bytesWritten, curOffset, pos, header, left, dataSeg,
                 packVars, fileVars, stored, mainVars>>

\* getRodsEnv fails: a return before the first header, without an error.
EnvFails(t) ==
  /\ pc[t] = "header" /\ header[t].length = 0
  /\ pc' = [pc EXCEPT ![t] = "end"]
  /\ UNCHANGED <<serverVars, moveVars, dataSeg, packVars, fileVars, stored, mainVars>>

\* The block the server means goes to where the local file stands, for a get.
Landed(t) ==
  LET block == header[t].offset + header[t].length - left[t] IN
  IF Direction = "put" THEN stored
  ELSE IF pos[t] = block THEN stored \cup {block} ELSE stored \ {pos[t]}

\* One pass of the inner loop up to the bookkeeping.
Move(t) ==
  /\ pc[t] = "move" /\ left[t] > 0 /\ connected[t]
  /\ stored' = Landed(t)
  /\ pos' = [pos EXCEPT ![t] = @ + 1]
  /\ left' = [left EXCEPT ![t] = @ - 1]
  /\ pc' = [pc EXCEPT ![t] = "count"]
  /\ UNCHANGED <<serverVars, status, bytesWritten, curOffset, header, dataSeg, packVars,
                 fileVars, mainVars>>

\* A read or a write falls short, or decryption fails.
MoveFails(t) ==
  /\ pc[t] = "move" /\ left[t] > 0
  /\ Fail(t)
  /\ pc' = [pc EXCEPT ![t] = "book"]
  /\ UNCHANGED <<serverVars, bytesWritten, curOffset, pos, header, left, dataSeg,
                 packVars, fileVars, stored, mainVars>>

\* The breaks that set no status: encryption fails, or the size that precedes
\* an encrypted block is not there.
MoveFailsSilently(t) ==
  /\ pc[t] = "move" /\ left[t] > 0
  /\ Encrypted
  /\ Direction = "get" => ~connected[t]
  /\ pc' = [pc EXCEPT ![t] = "book"]
  /\ UNCHANGED <<serverVars, moveVars, dataSeg, packVars, fileVars, stored, mainVars>>

CountsHeader(t) ==
  /\ pc[t] = "count"
  /\ dataSeg' = [dataSeg EXCEPT ![t].len = @ + header[t].length]
  /\ pc' = [pc EXCEPT ![t] = "move"]
  /\ UNCHANGED <<serverVars, moveVars, packVars, fileVars, stored, mainVars>>

\* dataSeg[threadNum].len grows.  writtenSinceUpdated is shared and unlocked, so
\* thread 0 may or may not find that it is time to write the restart file.
Count(t) ==
  /\ pc[t] = "count"
  /\ dataSeg' = [dataSeg EXCEPT ![t].len = @ + 1]
  /\ \/ pc' = [pc EXCEPT ![t] = "move"]
     \/ t = 0 /\ pc' = [pc EXCEPT ![t] = "pack"]
  /\ UNCHANGED <<serverVars, moveVars, packVars, fileVars, stored, mainVars>>

\* After the inner loop, also when it broke off: the whole header is counted.
Book(t) ==
  /\ pc[t] = "book" \/ (pc[t] = "move" /\ left[t] = 0)
  /\ curOffset' = [curOffset EXCEPT ![t] = @ + header[t].length]
  /\ bytesWritten' = [bytesWritten EXCEPT ![t] = @ + header[t].length]
  /\ pc' = [pc EXCEPT ![t] = IF status[t] = 0 THEN "header" ELSE "end"]
  /\ UNCHANGED <<serverVars, status, pos, header, left, dataSeg, packVars, fileVars,
                 stored, mainVars>>

-----------------------------------------------------------------------------
(* writeLfRestartFile, by thread 0.                                        *)

OffsetFirst == <<"offset", "len">>
\* DataSeg_PI.
FieldOrder == <<"len", "offset">>

\* packStruct reads the segments while other threads write to them.
Pack(t) ==
  /\ pc[t] = "pack" /\ packAt < 2 * NumThreads
  /\ LET s == packAt \div 2
         field == FieldOrder[(packAt % 2) + 1] IN
     packed' = [packed EXCEPT ![s] = IF field = "len" THEN [@ EXCEPT !.len = dataSeg[s].len]
                                     ELSE [@ EXCEPT !.offset = dataSeg[s].offset]]
  /\ packAt' = packAt + 1
  /\ UNCHANGED <<serverVars, pc, moveVars, dataSeg, fileVars, stored, mainVars>>

\* Opened with O_TRUNC.
OpenRestart(t) ==
  /\ pc[t] = "pack" /\ packAt = 2 * NumThreads
  /\ packAt' = 0
  /\ \/ /\ restartFile' = "empty"
        /\ pc' = [pc EXCEPT ![t] = "write"]
     \/ /\ UNCHANGED restartFile
        /\ pc' = [pc EXCEPT ![t] = "move"]
  /\ UNCHANGED <<serverVars, moveVars, dataSeg, packed, saved, stored, mainVars>>

\* An error is logged and the transfer goes on.
WriteRestart(t) ==
  /\ pc[t] = "write"
  /\ \/ restartFile' = "whole" /\ saved' = packed
     \/ UNCHANGED fileVars
  /\ pc' = [pc EXCEPT ![t] = "move"]
  /\ UNCHANGED <<serverVars, moveVars, dataSeg, packVars, stored, mainVars>>

Thread(t) ==
  \/ \E length \in 1 .. NumBlocks : RcvHeader(t, length)
  \/ RcvDone(t) \/ RcvFails(t) \/ EnvFails(t)
  \/ Move(t) \/ MoveFails(t) \/ MoveFailsSilently(t)
  \/ Count(t) \/ Book(t)
  \/ Pack(t) \/ OpenRestart(t) \/ WriteRestart(t)

-----------------------------------------------------------------------------
(* getFileFromPortal and putFileToPortal in the calling thread, and what   *)
(* rcDataObjGet and rcDataObjPut do after them.                            *)

threadVars == <<serverVars, moveVars, dataSeg, packVars, stored>>

StartThread(t) ==
  /\ mainPc = "start" /\ started = t
  /\ pc' = [pc EXCEPT ![t] = "header"]
  /\ started' = started + 1
  /\ UNCHANGED <<threadVars, fileVars, mainPc, joined, totalWritten, retVal, result>>

\* The local file cannot be opened: the connection is closed, the next thread
\* is started all the same.
StartOpenFails(t) ==
  /\ mainPc = "start" /\ started = t
  /\ pc' = [pc EXCEPT ![t] = "end"]
  /\ started' = started + 1
  /\ retVal' = -1
  /\ UNCHANGED <<threadVars, fileVars, mainPc, joined, totalWritten, result>>

\* No connection, or no thread: an early return.
StartFails(t) ==
  /\ mainPc = "start" /\ started = t
  /\ retVal' = -1
  /\ mainPc' = "unwind"
  /\ UNCHANGED <<threadVars, pc, fileVars, started, joined, totalWritten, result>>

AllStarted ==
  /\ mainPc = "start" /\ started = NumThreads
  /\ mainPc' = IF retVal < 0 THEN "unwind" ELSE "join"
  /\ UNCHANGED <<threadVars, pc, fileVars, started, joined, totalWritten, retVal, result>>

\* The destructors of the scoped threads join what has been started.
Unwind ==
  /\ mainPc = "unwind"
  /\ \A t \in Threads : pc[t] \in {"new", "end"}
  /\ mainPc' = "finish"
  /\ UNCHANGED <<threadVars, pc, fileVars, started, joined, totalWritten, retVal, result>>

JoinThread(t) ==
  /\ mainPc = "join" /\ joined = t
  /\ pc[t] = "end"
  /\ joined' = joined + 1
  /\ totalWritten' = totalWritten + bytesWritten[t]
  /\ retVal' = IF status[t] < 0 THEN status[t] ELSE retVal
  /\ UNCHANGED <<threadVars, pc, fileVars, mainPc, started, result>>

SizeUnchecked ==
  /\ mainPc = "join" /\ joined = NumThreads
  /\ mainPc' = "finish"
  /\ UNCHANGED <<threadVars, pc, fileVars, started, joined, totalWritten, retVal, result>>

\* Moved as much as there is?
CheckSize ==
  /\ mainPc = "join" /\ joined = NumThreads
  /\ mainPc' = "finish"
  /\ retVal' = IF retVal = 0 /\ totalWritten # NumBlocks THEN -1 ELSE retVal
  /\ UNCHANGED <<threadVars, pc, fileVars, started, joined, totalWritten, result>>

\* rcOprComplete.  The server of a put answers with an error when one of its
\* threads has given up; of a get nothing is assumed.
Finish ==
  /\ mainPc = "finish"
  /\ \/ /\ retVal = 0
        /\ Direction = "put" => ~serverFailed
        /\ result' = "ok" /\ mainPc' = "clear"
     \/ result' = "error" /\ mainPc' = "returned"
  /\ UNCHANGED <<threadVars, pc, fileVars, started, joined, totalWritten, retVal>>

\* clearLfRestartFile.
Clear ==
  /\ mainPc = "clear"
  /\ restartFile' = "none"
  /\ dataSeg' = [t \in Threads |-> NoSegment]
  /\ mainPc' = "returned"
  /\ UNCHANGED <<serverVars, pc, moveVars, packVars, saved, stored, started, joined,
                 totalWritten, retVal, result>>

Main ==
  \/ \E t \in Threads : \/ StartThread(t) \/ StartOpenFails(t) \/ StartFails(t)
                        \/ JoinThread(t)
  \/ AllStarted \/ Unwind \/ CheckSize \/ Finish \/ Clear

Done == mainPc = "returned" /\ UNCHANGED vars

Next ==
  \/ \E t \in Threads : Thread(t) \/ StoreBlock(t) \/ Break(t)
  \/ Main
  \/ Done

Spec == Init /\ [][Next]_vars

\* The threads run.  A server thread that is not waiting for data goes on or
\* closes its connection, and what it was sent arrives while that is up.
FairSpec ==
  /\ Spec
  /\ WF_vars(Main)
  /\ \A t \in Threads : WF_vars(StoreBlock(t))
  /\ \A t \in Threads : WF_vars((pc[t] = "header" => HasAnswered(t) \/ ~connected[t])
                                /\ Thread(t))

-----------------------------------------------------------------------------
(* Properties.                                                             *)

\* rcDataObjGet and rcDataObjPut succeed only when every block is in its place,
\* although a thread counts a header's whole length also when it fails in the
\* middle of it, and a server thread may stop early and say DONE.
TransferSuccess == result = "ok" => stored = Blocks

\* What will be in its place when all that is on its way has arrived.
Delivered ==
  IF Lossy THEN stored
  ELSE stored \cup UNION {{b \in Blocks :
         /\ header[t].offset + acked[t] <= b
         /\ b < header[t].offset + header[t].length - left[t]
         /\ pos[t] = header[t].offset + header[t].length - left[t]} : t \in Threads}

SegmentSound(s, seg) ==
  seg.len > 0 => /\ seg.offset = Cut[s]
                 /\ \A b \in Blocks : seg.offset <= b /\ b < seg.offset + seg.len
                                      => b \in Delivered

\* At any moment, also in the middle of a write, a whole restart file claims
\* only blocks that were moved, though thread 0 reads the other threads'
\* segments field by field while they change them.
RestartFileSound ==
  restartFile = "whole" => \A s \in Threads : SegmentSound(s, saved[s])

\* A thread of a put that broke off silently: it waits for a header, its server
\* thread for the rest of the data.
Stranded(t) ==
  /\ Encrypted /\ Direction = "put"
  /\ pc[t] = "header" /\ connected[t]
  /\ left[t] > 0

\* The calling thread is not left waiting for a thread that waits for a server
\* thread that waits for data, but for one reason: encryption fails in the middle
\* of a header, and the connection does not break.
TransferReturns == <>[](mainPc = "returned" \/ \E t \in Threads : Stranded(t))
=============================================================================
