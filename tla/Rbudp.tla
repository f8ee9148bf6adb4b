------------------------------- MODULE Rbudp -------------------------------
(***************************************************************************)
(* One file moved by RBUDP (src/src/rbudp): sendfileByFd on one side,      *)
(* getfileByFd on the other.  The file is cut into chunks; a chunk is      *)
(* blasted as UDP datagrams, an end-of-blast signal goes over TCP, the     *)
(* receiver answers with its error bitmap over TCP, and the sender blasts  *)
(* the missing packets again until the bitmap says all done.               *)
(*                                                                         *)
(* UDP loses, delays, reorders and duplicates: net is the set of datagrams *)
(* of which a copy may still arrive, so a member may be received any       *)
(* number of times or never.  A header carries the packet's number only:   *)
(* nothing says which chunk a datagram belongs to, so the chunk kept in    *)
(* net stands for the payload.                                             *)
(*                                                                         *)
(* The TCP control channel carries one message at a time: the size, then   *)
(* an end signal, then a bitmap.                                           *)
(***************************************************************************)
EXTENDS RbudpSeq

CONSTANTS
  Packets,            \* Packets[c]: the number of packets of chunk c
  MaxNoProgress,      \* MAX_NO_PROGRESS_CNT
  MaxSendErr,         \* MAX_SEND_ERR_CNT
  DatagramsOutlive,   \* may a datagram arrive after its chunk was completed?
  Faults,             \* what may go wrong: "break", the control connection
                      \* breaks; "local", fstat, mmap or recv fails; "eof",
                      \* the end of the connection is orderly: it reads as
                      \* end of file and takes a write, neither an error;
                      \* "signal", a signal interrupts select
  None, Garbage       \* no message; the content of memory malloc returned

NumChunks == Cardinality(DOMAIN Packets)
Chunks == 1..NumChunks

ASSUME PacketsAssumption ==
  /\ NumChunks \in Nat \ {0}
  /\ Packets \in [1..NumChunks -> Nat \ {0}]
ASSUME BoundsAssumption == MaxNoProgress \in Nat \ {0} /\ MaxSendErr \in Nat
ASSUME SwitchAssumption ==
  /\ DatagramsOutlive \in BOOLEAN
  /\ Faults \subseteq {"break", "local", "eof", "signal"}

\* An errorBitmap as it travels: byte 0 (all done) and the bits that are 1.
Bitmap == [done : BOOLEAN, bits : SUBSET Nat]
ASSUME ModelValuesAssumption == None \notin Bitmap /\ Garbage \notin Bitmap

VARIABLES
  sPc,        \* the sender: "size", "blast", "await", or how it ended
  sChunk,     \* the chunk sendBuf is sending
  table,      \* the first remainNumberOfPackets entries of hashTable
  lastRemain, \* lastRemainNumberOfPackets
  noProgress, \* noProgressCnt
  sBitmap,    \* the sender's errorBitmap
  rPc,        \* the receiver: "size", "receive", or how it ended
  rChunk,     \* the chunk receiveBuf is receiving
  bits,       \* the receiver's errorBitmap without byte 0
  inRecv,     \* is udpReceive in recv after a select that failed?
  peerswap,   \* the receiver's peerswap flag
  good,       \* good[c]: the packets of chunk c whose payload in the file is right
  stray,      \* has a payload been copied beyond the receiver's buffer?
  net,        \* datagrams that may still arrive
  tcpUp,      \* is the control connection up?
  sizeMsg, endSignal, reply   \* the control message on its way, if any

senderVars   == <<sPc, sChunk, table, lastRemain, noProgress, sBitmap>>
receiverVars == <<rPc, rChunk, bits, inRecv, peerswap, good, stray>>
netVars      == <<net, tcpUp, sizeMsg, endSignal, reply>>
vars         == <<senderVars, receiverVars, netVars>>

Datagram == [chunk : Chunks, seq : Nat]
Indices(c) == 0..(Packets[c] - 1)

SenderEnds   == {"ok", "failed", "crashed"}
ReceiverEnds == {"ok", "failed"}

TypeOK ==
  /\ sPc \in {"size", "blast", "await"} \cup SenderEnds
  /\ sChunk \in Chunks
  /\ table \in SUBSET Nat /\ IsFiniteSet(table)
  /\ lastRemain \in Nat
  /\ noProgress \in Nat
  /\ sBitmap \in Bitmap \cup {Garbage}
  /\ rPc \in {"size", "receive"} \cup ReceiverEnds
  /\ rChunk \in Chunks
  /\ bits \in SUBSET Nat
  /\ inRecv \in BOOLEAN
  /\ peerswap \in BOOLEAN
  /\ good \in [Chunks -> SUBSET Nat]
  /\ stray \in BOOLEAN
  /\ net \in SUBSET Datagram
  /\ tcpUp \in BOOLEAN
  /\ sizeMsg \in BOOLEAN
  /\ endSignal \in BOOLEAN
  /\ reply \in Bitmap \cup {None}

Init ==
  /\ sPc = "size" /\ sChunk = 1
  /\ table = {} /\ lastRemain = 0 /\ noProgress = 0
  /\ sBitmap = Garbage
  /\ rPc = "size" /\ rChunk = 1
  /\ bits = {} /\ inRecv = FALSE /\ peerswap = FALSE
  /\ good = [c \in Chunks |-> {}] /\ stray = FALSE
  /\ net = {} /\ tcpUp = TRUE
  /\ sizeMsg = FALSE /\ endSignal = FALSE /\ reply = None

-----------------------------------------------------------------------------
(* The sender.                                                             *)

\* Operators named for a fault are variants with that fault, as in RbudpSeq.
SenderEndWithoutClose(how) == sPc' = how /\ UNCHANGED tcpUp

\* sendClose, once the transfer is over: the TCP socket is closed, what was
\* written before can still be read.
SenderEnd(how) ==
  /\ sPc' = how
  /\ tcpUp' = FALSE

\* initSendRudp for chunk c: every packet in the hash table, a bitmap just
\* allocated, the two counters of sendBuf at 0.
InitSendRudp(c) ==
  /\ sPc' = "blast"
  /\ sChunk' = c
  /\ table' = Indices(c)
  /\ lastRemain' = 0
  /\ noProgress' = 0
  /\ sBitmap' = Garbage

\* sendfileByFd writes the size of the file and starts on the first chunk.
SendSize ==
  /\ sPc = "size"
  /\ \/ /\ tcpUp
        /\ sizeMsg' = TRUE
        /\ InitSendRudp(1)
        /\ UNCHANGED tcpUp
     \/ /\ ~tcpUp
        /\ SenderEnd("failed")
        /\ UNCHANGED <<sizeMsg, sChunk, table, lastRemain, noProgress, sBitmap>>
  /\ UNCHANGED <<receiverVars, net, endSignal, reply>>

\* udpSend tests its count after a send: from an empty table it sends the
\* first entry still.  Only the garbage of a first bitmap leaves the table
\* empty without the done flag, and then that entry is packet 0.
Blasted == IF table = {} THEN {0} ELSE table

\* One round of sendBuf: udpSend blasts the packets in the table and the end
\* signal follows on TCP; a failed write of the signal is only logged.  A
\* failed send of a packet is skipped, as if the network had lost it.
SendRound ==
  /\ sPc = "blast"
  /\ \E sent \in SUBSET Blasted :
       net' = net \cup {[chunk |-> sChunk, seq |-> i] : i \in sent}
  /\ lastRemain' = IF lastRemain = 0 THEN Cardinality(table) ELSE lastRemain
  /\ endSignal' = IF tcpUp THEN TRUE ELSE endSignal
  /\ sPc' = "await"
  /\ UNCHANGED <<sChunk, table, noProgress, sBitmap, receiverVars,
                 tcpUp, sizeMsg, reply>>

\* udpSend gives up after more than MAX_SEND_ERR_CNT failed sends, which only
\* a table that long can produce.
SendRoundFails ==
  /\ sPc = "blast"
  /\ \E sent \in SUBSET Blasted :
       /\ Cardinality(Blasted \ sent) > MaxSendErr
       /\ net' = net \cup {[chunk |-> sChunk, seq |-> i] : i \in sent}
  /\ SenderEnd("failed")
  /\ UNCHANGED <<sChunk, table, lastRemain, noProgress, sBitmap, receiverVars,
                 sizeMsg, endSignal, reply>>

\* sendBuf acts on the content b of its errorBitmap: the chunk is done, or
\* the zero bits make the next hash table and progress is accounted for.
\* Byte 0 of the sender's own bitmap is set too when no bit is zero.
ActOnBitmap(b) ==
  LET missing == Missing(Packets[sChunk], b.bits)
      remain  == Cardinality(missing)
  IN  \/ /\ b.done
         /\ IF sChunk < NumChunks
            THEN InitSendRudp(sChunk + 1) /\ UNCHANGED tcpUp
            ELSE /\ SenderEnd("ok")
                 /\ UNCHANGED <<sChunk, table, lastRemain, noProgress, sBitmap>>
      \/ /\ ~b.done
         /\ remain <= Packets[sChunk]
         /\ table' = missing
         /\ sBitmap' = [b EXCEPT !.done = (remain = 0)]
         /\ IF remain >= lastRemain
            THEN /\ noProgress' = noProgress + 1
                 /\ UNCHANGED lastRemain
                 /\ IF noProgress' >= MaxNoProgress
                    THEN SenderEnd("failed")
                    ELSE sPc' = "blast" /\ UNCHANGED tcpUp
            ELSE /\ noProgress' = 0
                 /\ lastRemain' = remain
                 /\ sPc' = "blast"
                 /\ UNCHANGED tcpUp
         /\ UNCHANGED sChunk
      \/ /\ ~b.done
         /\ remain > Packets[sChunk]    \* more entries than hashTable holds
         /\ SenderEnd("crashed")
         /\ UNCHANGED <<sChunk, table, lastRemain, noProgress, sBitmap>>

\* The bitmap arrives.
RecvBitmap ==
  /\ sPc = "await"
  /\ reply # None
  /\ ActOnBitmap(reply)
  /\ reply' = None
  /\ UNCHANGED <<receiverVars, net, sizeMsg, endSignal>>

\* The contents malloc may have handed out: nothing is known of them.
GarbageBitmaps == [done : BOOLEAN, bits : SUBSET (0..(Slots(Packets[sChunk]) - 1))]

\* readn reports an error, which ends sendBuf, or end of file, which does
\* not: sendBuf goes on with what errorBitmap held before.
RecvBitmapFails ==
  /\ sPc = "await"
  /\ reply = None /\ ~tcpUp
  /\ \/ /\ SenderEnd("failed")
        /\ UNCHANGED <<sChunk, table, lastRemain, noProgress, sBitmap>>
     \/ /\ "eof" \in Faults
        /\ \E b \in IF sBitmap = Garbage THEN GarbageBitmaps ELSE {sBitmap} :
             ActOnBitmap(b)
  /\ UNCHANGED <<receiverVars, net, sizeMsg, endSignal, reply>>

\* fstat fails before the size is written, or mmap before a chunk is blasted.
SenderLocalError ==
  /\ "local" \in Faults
  /\ sPc = "size" \/ (sPc = "blast" /\ lastRemain = 0)
  /\ SenderEnd("failed")
  /\ UNCHANGED <<sChunk, table, lastRemain, noProgress, sBitmap, receiverVars,
                 net, sizeMsg, endSignal, reply>>

-----------------------------------------------------------------------------
(* The receiver.                                                           *)

\* recvClose, once the transfer is over.
ReceiverEnd(how) ==
  /\ rPc' = how
  /\ inRecv' = FALSE
  /\ tcpUp' = FALSE

\* initReceiveRudp and initErrorBitmap for chunk c.
InitReceiveRudp(c) ==
  /\ rPc' = "receive"
  /\ rChunk' = c
  /\ bits' = FreshBitmap(Packets[c])
  /\ inRecv' = FALSE
  /\ peerswap' = FALSE

\* getfileByFd reads the size of the file and starts on the first chunk.
RecvSize ==
  /\ rPc = "size"
  /\ sizeMsg
  /\ sizeMsg' = FALSE
  /\ InitReceiveRudp(1)
  /\ UNCHANGED <<senderVars, good, stray, net, tcpUp, endSignal, reply>>

\* The connection is gone before the size was read.  readn's error ends the
\* transfer; end of file leaves filesize uninitialized, and a value of 0 there
\* is an empty file received successfully.
RecvSizeFails ==
  /\ rPc = "size"
  /\ ~sizeMsg /\ ~tcpUp
  /\ \/ ReceiverEnd("failed")
     \/ "eof" \in Faults /\ ReceiverEnd("ok")
  /\ UNCHANGED <<senderVars, rChunk, bits, peerswap, good, stray,
                 net, sizeMsg, endSignal, reply>>

\* A signal interrupts select in udpReceive.  The failure is only logged, the
\* set of descriptors is as it was filled, so recv is called on the UDP socket
\* whether or not a datagram is there; it blocks, and nothing watches the
\* control connection until a datagram has come.
SelectFails ==
  /\ "signal" \in Faults
  /\ rPc = "receive" /\ ~inRecv
  /\ inRecv' = TRUE
  /\ UNCHANGED <<senderVars, rPc, rChunk, bits, peerswap, good, stray, netVars>>

\* udpReceive takes a datagram, which also ends a recv that blocked: its payload
\* goes where its number says and the bit for that place is set.  Beyond the last
\* packet the copy leaves the buffer, though the bitmap has room for the bit.
Receive(d) ==
  LET n    == Packets[rChunk]
      host == PtohSeq(n, peerswap, d.seq)
      mark == Marked(n, host.swap, host.seq)
  IN  /\ rPc = "receive"
      /\ d \in net
      /\ good' = [good EXCEPT ![rChunk] =
                    IF d = [chunk |-> rChunk, seq |-> host.seq]
                    THEN @ \cup {host.seq}
                    ELSE @ \ {host.seq}]
      /\ stray' = (stray \/ host.seq >= n)
      /\ bits' = bits \cup mark.bits
      /\ inRecv' = FALSE
      /\ peerswap' = mark.swap
      /\ UNCHANGED <<senderVars, rPc, rChunk, netVars>>

CompleteChunkStays ==
  /\ IF rChunk < NumChunks
     THEN InitReceiveRudp(rChunk) /\ UNCHANGED tcpUp
     ELSE ReceiverEnd("ok") /\ UNCHANGED <<rChunk, bits, peerswap>>
  /\ net' = IF DatagramsOutlive THEN net ELSE {}

\* A datagram of a chunk the receiver has completed may still arrive, unless
\* DatagramsOutlive says that the network delivers or loses it before.
CompleteChunk ==
  /\ IF rChunk < NumChunks
     THEN InitReceiveRudp(rChunk + 1) /\ UNCHANGED tcpUp
     ELSE ReceiverEnd("ok") /\ UNCHANGED <<rChunk, bits, peerswap>>
  /\ net' = IF DatagramsOutlive THEN net ELSE {}

\* The end signal, while select watches for it, ends udpReceive (so does the end
\* of the connection, readn's result is not looked at); receiveBuf writes the
\* bitmap, into the void when the connection has ended, and the chunk is complete
\* when no bit is zero.
AnswerRound ==
  LET missing == Missing(Packets[rChunk], bits) IN
  /\ rPc = "receive" /\ ~inRecv
  /\ endSignal \/ ~tcpUp
  /\ tcpUp \/ "eof" \in Faults
  /\ endSignal' = FALSE
  /\ reply' = IF tcpUp THEN [done |-> missing = {}, bits |-> bits] ELSE reply
  /\ IF missing = {} THEN CompleteChunk
                     ELSE UNCHANGED <<rPc, rChunk, bits, inRecv, peerswap, net, tcpUp>>
  /\ UNCHANGED <<senderVars, good, stray, sizeMsg>>

\* The write of the bitmap fails.
AnswerFails ==
  /\ rPc = "receive" /\ ~inRecv
  /\ ~tcpUp
  /\ endSignal' = FALSE
  /\ ReceiverEnd("failed")
  /\ UNCHANGED <<senderVars, rChunk, bits, peerswap, good, stray,
                 net, sizeMsg, reply>>

\* mmap fails before a chunk is received, or recv in the middle of one, the
\* recv after a failed select included.
ReceiverLocalError ==
  /\ "local" \in Faults
  /\ rPc = "receive"
  /\ ReceiverEnd("failed")
  /\ UNCHANGED <<senderVars, rChunk, bits, peerswap, good, stray,
                 net, sizeMsg, endSignal, reply>>

-----------------------------------------------------------------------------
\* The control connection breaks, with or without what it was carrying.
TcpBreak ==
  /\ "break" \in Faults /\ tcpUp
  /\ tcpUp' = FALSE
  /\ \/ UNCHANGED <<sizeMsg, endSignal, reply>>
     \/ sizeMsg' = FALSE /\ endSignal' = FALSE /\ reply' = None
  /\ UNCHANGED <<senderVars, receiverVars, net>>

Sender == SendSize \/ SendRound \/ SendRoundFails \/ RecvBitmap \/ RecvBitmapFails
Answer == RecvSize \/ RecvSizeFails \/ AnswerRound \/ AnswerFails
Receiver == Answer \/ \E d \in net : Receive(d)

\* Both processes have returned.
Finished == sPc \in SenderEnds /\ rPc \in ReceiverEnds

Next ==
  \/ Sender
  \/ Receiver
  \/ SenderLocalError
  \/ ReceiverLocalError
  \/ SelectFails
  \/ TcpBreak
  \/ Finished /\ UNCHANGED vars

Spec == Init /\ [][Next]_vars

\* Each process runs whenever it can: its sockets block, and select wakes the
\* receiver when the signal or the end of the connection is readable.  Strong
\* fairness says that datagrams and signals, which come first, do not come for
\* ever; nothing says that a datagram comes at all.
FairSpec == Spec /\ WF_vars(Sender) /\ SF_vars(Answer)

-----------------------------------------------------------------------------
(* What the transfer promises.                                             *)

\* Every packet of chunk c is in the file with its own payload.
Intact(c) == Indices(c) \subseteq good[c]

\* getfileByFd returns success only over a file that is the sender's.
ReceiverSuccess == rPc = "ok" => \A c \in Chunks : Intact(c)

\* sendfileByFd returns success only when the receiver has the whole file.
SenderSuccess == sPc = "ok" => \A c \in Chunks : Intact(c)

\* Success of either side means a whole and right file, however the rounds, the
\* datagrams and the control messages of the two sides were interleaved.
SuccessSound == ReceiverSuccess /\ SenderSuccess

\* A bit of the error bitmap is set only once the right payload is in place:
\* a packet that was lost or overwritten stays among those to send again.
BitmapSound ==
  rPc = "receive" => bits \cap Indices(rChunk) \subseteq good[rChunk]

\* No payload is copied beyond the buffer of the chunk, and a peer with our
\* byte order is never taken for one with the opposite order.
PlacementSound == ~stray /\ ~peerswap

\* What the receiver lacks of the chunk being sent is in the sender's table:
\* no packet drops out of the retransmissions before it is received.
NothingForgotten ==
  sPc \in {"blast", "await"} /\ rPc = "receive" /\ rChunk = sChunk
    => Missing(Packets[rChunk], bits) \subseteq table

\* The receiver is on the sender's chunk or, until its last bitmap is read, on
\* the next one; a signal and a bitmap are never on their way together, and a
\* bitmap that says all done was written by a receiver that has passed on.
LockStep ==
  /\ \/ rChunk = sChunk
     \/ rChunk = sChunk + 1 /\ sPc \in {"await"} \cup SenderEnds
  /\ endSignal /\ tcpUp => sPc = "await" /\ reply = None /\ rChunk = sChunk
  /\ reply # None =>
       /\ sPc \in {"await"} \cup SenderEnds
       /\ reply.done => rChunk = sChunk + 1 \/ rPc = "ok"
       /\ ~reply.done => rChunk = sChunk

\* Both sides' views of a round fit together: payloads in their places, no packet
\* dropped, the chunks and messages in step.
RoundsSound == PlacementSound /\ NothingForgotten /\ LockStep

\* The datagrams under way belong to the receiver's chunk and number its
\* packets.
NetSound == \A d \in net : d.chunk = rChunk /\ d.seq \in Indices(rChunk)

\* The promise of RbudpTransfer, read off the program's state: the chunks that
\* are right, how many were accepted and acknowledged, how each side ended.
Right         == {c \in Chunks : Intact(c)}
Delivered     == IF rPc = "ok" THEN NumChunks ELSE rChunk - 1
Acked         == IF sPc = "ok" THEN NumChunks ELSE sChunk - 1
SenderState   == IF sPc \in SenderEnds THEN sPc ELSE "running"
ReceiverState == IF rPc \in ReceiverEnds THEN rPc ELSE "running"

Transfer == INSTANCE RbudpTransfer WITH
  right <- Right, delivered <- Delivered, acked <- Acked,
  sender <- SenderState, receiver <- ReceiverState

\* Chunks are delivered in order, each with its right content, and acknowledged
\* after that; a side that reports success has passed the last one.
ReliableTransfer == Transfer!Spec

\* The receiver is in recv: only a datagram would free it.
Stranded == rPc = "receive" /\ inRecv

\* Whatever the network loses, both processes return: rounds without progress
\* are counted, and the end of one process closes the other's connection.  The
\* one other end is the code's: a signal has put the receiver into recv, no
\* datagram comes any more, and neither the end signal nor the end of the
\* connection, which it no longer watches, wakes it.
Termination == <>Finished \/ <>[]Stranded
=============================================================================
