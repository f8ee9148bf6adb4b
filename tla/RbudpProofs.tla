---------------------------- MODULE RbudpProofs ----------------------------
(***************************************************************************)
(* Theorems about Rbudp, for every file and every bound.                   *)
(***************************************************************************)
EXTENDS Rbudp, FiniteSetTheorems, TLAPS

\* The bitmap has a bit for every packet.
LEMMA SlotsCover ==
  ASSUME NEW n \in Nat
  PROVE  Slots(n) \in Nat /\ n < Slots(n)
<1> DEFINE k == BitsPerByte
<1>1. k \in Nat /\ k > 0
  BY BitsPerByteAssumption
<1>2. n \div k \in Nat /\ n < k * ((n \div k) + 1)
  <2> HIDE DEF k
  <2> QED BY <1>1, SMTT(30)
<1>3. k * ((n \div k) + 1) \in Nat
  <2> HIDE DEF k
  <2> QED BY <1>1, <1>2
<1> QED BY <1>2, <1>3 DEF Slots

\* The chunks a file is cut into are positions of its payloads.
LEMMA ChunksType ==
  /\ NumChunks \in Nat /\ NumChunks > 0
  /\ Chunks = 1..NumChunks
  /\ 1 \in Chunks
  /\ \A c \in Chunks : Packets[c] \in Nat /\ Packets[c] > 0
<1>1. /\ NumChunks \in Nat /\ NumChunks > 0
      /\ \A c \in 1..NumChunks : Packets[c] \in Nat /\ Packets[c] > 0
  <2> HIDE DEF NumChunks
  <2> QED BY PacketsAssumption
<1> HIDE DEF NumChunks
<1> QED BY <1>1 DEF Chunks

\* What the bitmap leaves to be sent: natural numbers, finitely many.
LEMMA MissingType ==
  ASSUME NEW n \in Nat, NEW b
  PROVE  /\ Missing(n, b) \in SUBSET Nat
         /\ IsFiniteSet(Missing(n, b))
         /\ Cardinality(Missing(n, b)) \in Nat
         /\ FreshBitmap(n) \in SUBSET Nat
<1>1. Slots(n) \in Nat
  BY SlotsCover
<1> HIDE DEF Slots
<1>2. IsFiniteSet(0..(Slots(n) - 1))
  BY <1>1, FS_Interval
<1>3. Missing(n, b) \subseteq 0..(Slots(n) - 1)
  BY DEF Missing
<1>4. IsFiniteSet(Missing(n, b)) /\ Cardinality(Missing(n, b)) \in Nat
  BY <1>2, <1>3, FS_Subset, FS_CardinalityType
<1>5. FreshBitmap(n) \subseteq Nat
  BY <1>1 DEF FreshBitmap
<1> QED BY <1>1, <1>3, <1>4, <1>5

\* The position ptohseq returns and the bits updateErrorBitmap sets are within
\* the bitmap, whatever the number in the header.
LEMMA PlaceType ==
  ASSUME NEW n \in Nat, NEW swap \in BOOLEAN, NEW s
  PROVE  /\ PtohSeq(n, swap, s).seq \in Nat
         /\ PtohSeq(n, swap, s).swap \in BOOLEAN
         /\ Marked(n, swap, s).bits \in SUBSET Nat
         /\ Marked(n, swap, s).swap \in BOOLEAN
<1>1. Slots(n) \in Nat
  BY SlotsCover
<1> HIDE DEF Slots
<1> QED BY <1>1 DEF PtohSeq, Marked, InRange

\* A fresh table of the sender lists packets of the chunk.
LEMMA IndicesType ==
  ASSUME NEW c \in Chunks
  PROVE  /\ Indices(c) \in SUBSET Nat
         /\ IsFiniteSet(Indices(c))
         /\ FreshBitmap(Packets[c]) \in SUBSET Nat
<1> USE ChunksType
<1> HIDE DEF NumChunks, Chunks
<1>1. Packets[c] \in Nat
  OBVIOUS
<1>2. FreshBitmap(Packets[c]) \in SUBSET Nat
  BY <1>1, MissingType
<1>3. Indices(c) \in SUBSET Nat
  BY <1>1 DEF Indices
<1>4. IsFiniteSet(0..(Packets[c] - 1))
  <2> DEFINE last == Packets[c] - 1
  <2>1. last \in Int
    BY <1>1
  <2> HIDE DEF last
  <2>2. IsFiniteSet(0..last)
    BY <2>1, FS_Interval
  <2> QED BY <2>2 DEF last
<1> QED BY <1>2, <1>3, <1>4 DEF Indices

\* Both sides start with values of the right types.
LEMMA RbudpTypeInit == Init => TypeOK
<1> USE ChunksType
<1> HIDE DEF NumChunks, Chunks
<1> SUFFICES ASSUME Init PROVE TypeOK
  OBVIOUS
<1>1. IsFiniteSet({})
  BY FS_EmptySet
<1> QED BY <1>1 DEF Init, TypeOK, SenderEnds, ReceiverEnds

\* Every step of either side, and every fault, keeps the types.
LEMMA RbudpTypeNext == TypeOK /\ [Next]_vars => TypeOK'
<1> USE ChunksType
<1> HIDE DEF NumChunks, Chunks
<1> SUFFICES ASSUME TypeOK, [Next]_vars PROVE TypeOK'
  OBVIOUS
<1> USE DEF TypeOK
<1>1. CASE SendSize
  <2>1. CASE tcpUp
    BY <1>1, <2>1, IndicesType DEF SendSize, InitSendRudp, receiverVars
  <2>2. CASE ~tcpUp
    BY <1>1, <2>2 DEF SendSize, SenderEnd, SenderEnds, receiverVars
  <2> QED BY <2>1, <2>2
<1>2. CASE SendRound
  <2>1. Cardinality(table) \in Nat
    BY FS_CardinalityType
  <2>2. ASSUME NEW sent \in SUBSET Blasted
        PROVE  {[chunk |-> sChunk, seq |-> i] : i \in sent} \subseteq Datagram
    BY DEF Blasted, Datagram
  <2>3. net' \in SUBSET Datagram
    <3>1. PICK sent \in SUBSET Blasted :
            net' = net \cup {[chunk |-> sChunk, seq |-> i] : i \in sent}
      BY <1>2 DEF SendRound
    <3> QED BY <3>1, <2>2
  <2>4. endSignal' \in BOOLEAN
    BY <1>2 DEF SendRound
  <2> QED BY <1>2, <2>1, <2>3, <2>4 DEF SendRound, receiverVars
<1>3. CASE SendRoundFails
  <2>1. ASSUME NEW sent \in SUBSET Blasted
        PROVE  {[chunk |-> sChunk, seq |-> i] : i \in sent} \subseteq Datagram
    BY DEF Blasted, Datagram
  <2> QED BY <1>3, <2>1 DEF SendRoundFails, SenderEnd, SenderEnds, receiverVars
<1>4. ASSUME NEW b \in Bitmap, ActOnBitmap(b)
      PROVE  /\ sPc' \in {"size", "blast", "await"} \cup SenderEnds
             /\ sChunk' \in Chunks
             /\ table' \in SUBSET Nat /\ IsFiniteSet(table')
             /\ lastRemain' \in Nat /\ noProgress' \in Nat
             /\ sBitmap' \in Bitmap \cup {Garbage}
             /\ tcpUp' \in BOOLEAN
  <2> DEFINE missing == Missing(Packets[sChunk], b.bits)
             remain == Cardinality(missing)
  <2>1. /\ missing \in SUBSET Nat /\ IsFiniteSet(missing) /\ remain \in Nat
    BY MissingType
  <2>2. CASE b.done
    <3>1. \/ sChunk < NumChunks /\ InitSendRudp(sChunk + 1) /\ UNCHANGED tcpUp
          \/ /\ SenderEnd("ok")
             /\ UNCHANGED <<sChunk, table, lastRemain, noProgress, sBitmap>>
      BY <1>4, <2>2 DEF ActOnBitmap
    <3>2. sChunk < NumChunks => sChunk + 1 \in Chunks
      OBVIOUS
    <3>3. CASE sChunk < NumChunks /\ InitSendRudp(sChunk + 1) /\ UNCHANGED tcpUp
      <4>1. /\ Indices(sChunk + 1) \in SUBSET Nat
            /\ IsFiniteSet(Indices(sChunk + 1))
        BY <3>2, <3>3, IndicesType
      <4> QED BY <3>2, <3>3, <4>1 DEF InitSendRudp
    <3>4. CASE /\ SenderEnd("ok")
               /\ UNCHANGED <<sChunk, table, lastRemain, noProgress, sBitmap>>
      BY <3>4 DEF SenderEnd, SenderEnds
    <3> QED BY <3>1, <3>3, <3>4
  <2>3. CASE ~b.done /\ remain <= Packets[sChunk]
    <3>1. [b EXCEPT !.done = (remain = 0)] \in Bitmap
      BY DEF Bitmap
    <3>2. /\ table' = missing /\ sChunk' = sChunk
          /\ sBitmap' = [b EXCEPT !.done = (remain = 0)]
          /\ \/ noProgress' = noProgress + 1 /\ lastRemain' = lastRemain
             \/ noProgress' = 0 /\ lastRemain' = remain
          /\ \/ SenderEnd("failed")
             \/ sPc' = "blast" /\ tcpUp' = tcpUp
      BY <1>4, <2>1, <2>3 DEF ActOnBitmap
    <3> HIDE DEF missing, remain
    <3>3. /\ sPc' \in {"size", "blast", "await"} \cup SenderEnds
          /\ tcpUp' \in BOOLEAN
      BY <3>2 DEF SenderEnd, SenderEnds
    <3>4. lastRemain' \in Nat /\ noProgress' \in Nat
      BY <2>1, <3>2
    <3> QED BY <2>1, <3>1, <3>2, <3>3, <3>4
  <2>4. CASE ~b.done /\ remain > Packets[sChunk]
    <3>1. /\ SenderEnd("crashed")
          /\ UNCHANGED <<sChunk, table, lastRemain, noProgress, sBitmap>>
      BY <1>4, <2>1, <2>4 DEF ActOnBitmap
    <3> QED BY <3>1 DEF SenderEnd, SenderEnds
  <2>5. b.done \in BOOLEAN /\ Packets[sChunk] \in Nat
    BY DEF Bitmap
  <2> HIDE DEF remain
  <2> QED BY <2>1, <2>2, <2>3, <2>4, <2>5
<1>5. CASE RecvBitmap
  BY <1>5, <1>4 DEF RecvBitmap, receiverVars
<1>6. CASE RecvBitmapFails
  <2>1. GarbageBitmaps \subseteq Bitmap
    BY DEF GarbageBitmaps, Bitmap
  <2> QED BY <1>6, <1>4, <2>1 DEF RecvBitmapFails, SenderEnd, SenderEnds, receiverVars
<1>7. CASE SenderLocalError
  BY <1>7 DEF SenderLocalError, SenderEnd, SenderEnds, receiverVars
<1>8. CASE RecvSize
  BY <1>8, IndicesType DEF RecvSize, InitReceiveRudp, senderVars
<1>9. CASE RecvSizeFails
  BY <1>9 DEF RecvSizeFails, ReceiverEnd, ReceiverEnds, senderVars
<1>10. ASSUME NEW d \in net, Receive(d) PROVE TypeOK'
  <2> DEFINE n == Packets[rChunk]
             host == PtohSeq(n, peerswap, d.seq)
             mark == Marked(n, host.swap, host.seq)
  <2>1. host.seq \in Nat /\ host.swap \in BOOLEAN
    BY PlaceType
  <2>2. mark.bits \in SUBSET Nat /\ mark.swap \in BOOLEAN
    BY <2>1, PlaceType
  <2>3. /\ good' = [good EXCEPT ![rChunk] =
                      IF d = [chunk |-> rChunk, seq |-> host.seq]
                      THEN @ \cup {host.seq} ELSE @ \ {host.seq}]
        /\ stray' = (stray \/ host.seq >= n)
        /\ bits' = bits \cup mark.bits
        /\ inRecv' = FALSE
        /\ peerswap' = mark.swap
        /\ UNCHANGED <<senderVars, rPc, rChunk, netVars>>
    BY <1>10 DEF Receive
  <2> HIDE DEF host, mark
  <2>4. good' \in [Chunks -> SUBSET Nat]
    BY <2>1, <2>3
  <2> QED BY <2>2, <2>3, <2>4 DEF senderVars, netVars
<1>11. CASE AnswerRound
  <2>1. /\ reply' \in Bitmap \cup {None}
        /\ endSignal' = FALSE
        /\ UNCHANGED <<senderVars, good, stray, sizeMsg>>
        /\ CompleteChunk \/ UNCHANGED <<rPc, rChunk, bits, inRecv, peerswap, net, tcpUp>>
    BY <1>11 DEF AnswerRound, Bitmap
  <2>2. rChunk < NumChunks => rChunk + 1 \in Chunks
    OBVIOUS
  <2> QED BY <2>1, <2>2, IndicesType DEF CompleteChunk, InitReceiveRudp, ReceiverEnd,
                                  ReceiverEnds, senderVars
<1>12. CASE AnswerFails
  BY <1>12 DEF AnswerFails, ReceiverEnd, ReceiverEnds, senderVars
<1>13. CASE ReceiverLocalError
  BY <1>13 DEF ReceiverLocalError, ReceiverEnd, ReceiverEnds, senderVars
<1>14. CASE TcpBreak
  BY <1>14 DEF TcpBreak, senderVars, receiverVars
<1>15. CASE UNCHANGED vars
  BY <1>15 DEF vars, senderVars, receiverVars, netVars
<1>16. CASE SelectFails
  BY <1>16 DEF SelectFails, senderVars, netVars
<1> QED BY <1>1, <1>2, <1>3, <1>5, <1>6, <1>7, <1>8, <1>9, <1>10, <1>11, <1>12,
           <1>13, <1>14, <1>15, <1>16 DEF Next, Sender, Receiver, Answer

\* Every variable keeps its type (TypeOK, the state of rbudpBase_t on both
\* sides, the file and the network).
THEOREM RbudpType == Spec => []TypeOK
BY RbudpTypeInit, RbudpTypeNext, PTL DEF Spec

-----------------------------------------------------------------------------
(* The content of the file.  The theorems assume what the header comment of *)
(* rbudpBase_t takes for granted: no datagram of a chunk arrives once the  *)
(* chunk is complete, and the end of the connection reads as an error.     *)

\* The sender has packets of its chunk to send, from the size on.
SenderSound ==
  /\ sPc = "size" => sChunk = 1
  /\ sPc \in {"blast", "await"} => table \subseteq Indices(sChunk)
  /\ sPc = "ok" => rPc = "ok"

\* The receiver's chunks before this one are right, and of this one the
\* packets whose bit is set.
ReceiverSound ==
  /\ rPc = "size" => rChunk = 1
  /\ rPc = "ok" => rChunk = NumChunks /\ Intact(rChunk)
  /\ \A c \in Chunks : c < rChunk => Intact(c)
  /\ rPc = "receive" => FreshBitmap(Packets[rChunk]) \subseteq bits

\* What the sender reads in a bitmap is true of the receiver.
ReplySound ==
  reply # None /\ sPc = "await" =>
    FreshBitmap(Packets[sChunk]) \subseteq reply.bits

IInv ==
  /\ TypeOK
  /\ LockStep
  /\ NetSound
  /\ BitmapSound
  /\ PlacementSound
  /\ SenderSound
  /\ ReceiverSound
  /\ ReplySound

NoStaleAssumption == ~DatagramsOutlive /\ "eof" \notin Faults

\* A bit for every packet: a bitmap that holds the preset bits leaves packets
\* to send only, and one without a zero bit holds every packet.
LEMMA MissingSound ==
  ASSUME NEW c \in Chunks, NEW b
  PROVE  /\ FreshBitmap(Packets[c]) \cap Indices(c) = {}
         /\ FreshBitmap(Packets[c]) \subseteq b => Missing(Packets[c], b) \subseteq Indices(c)
         /\ Missing(Packets[c], b) = {} => Indices(c) \subseteq b
<1> DEFINE n == Packets[c]
<1>1. n \in Nat /\ n > 0
  BY ChunksType
<1>2. Slots(n) \in Nat /\ n < Slots(n)
  BY <1>1, SlotsCover
<1> HIDE DEF Slots, n
<1>3. /\ FreshBitmap(n) \cap (0..(n - 1)) = {}
      /\ FreshBitmap(n) \subseteq b => Missing(n, b) \subseteq 0..(n - 1)
      /\ Missing(n, b) = {} => 0..(n - 1) \subseteq b
  BY <1>1, <1>2 DEF FreshBitmap, Missing
<1> QED BY <1>3 DEF Indices, n

\* A number that is in range goes to its own place and sets its own bit.
LEMMA PlaceSound ==
  ASSUME NEW c \in Chunks, NEW s \in Indices(c)
  PROVE  /\ PtohSeq(Packets[c], FALSE, s) = [seq |-> s, swap |-> FALSE]
         /\ Marked(Packets[c], FALSE, s) = [bits |-> {s}, swap |-> FALSE]
         /\ s < Packets[c]
<1> DEFINE n == Packets[c]
<1>1. n \in Nat /\ n > 0 /\ s \in 0..(n - 1)
  BY ChunksType DEF Indices
<1>2. Slots(n) \in Nat /\ n < Slots(n)
  BY <1>1, SlotsCover
<1> HIDE DEF Slots, n
<1>3. InRange(n, s) /\ s \in 0..(Slots(n) - 1)
  BY <1>1, <1>2 DEF InRange
<1>4. /\ PtohSeq(n, FALSE, s) = [seq |-> s, swap |-> FALSE]
      /\ Marked(n, FALSE, s) = [bits |-> {s}, swap |-> FALSE]
  BY <1>3 DEF PtohSeq, Marked
<1>5. s < n
  BY <1>1
<1> QED BY <1>4, <1>5 DEF n

\* Nothing is received and nothing claimed at the start.
LEMMA IInvInit == Init => IInv
<1> USE ChunksType
<1> HIDE DEF NumChunks, Chunks
<1> SUFFICES ASSUME Init PROVE IInv
  OBVIOUS
<1>1. TypeOK
  BY RbudpTypeInit
<1> QED BY <1>1 DEF Init, IInv, LockStep, NetSound, BitmapSound, PlacementSound,
                    SenderSound, ReceiverSound, ReplySound, SenderEnds

\* The sender's steps leave what the receiver holds alone.
LEMMA IInvSender ==
  ASSUME IInv, TypeOK', Sender \/ SenderLocalError, NoStaleAssumption
  PROVE  IInv'
<1> USE ChunksType DEF TypeOK, SenderEnds, ReceiverEnds
<1> HIDE DEF NumChunks, Chunks
<1> USE DEF IInv, LockStep, NetSound, BitmapSound, PlacementSound, SenderSound,
            ReceiverSound, ReplySound, Intact
<1>1. CASE SendSize
  BY <1>1 DEF SendSize, InitSendRudp, SenderEnd, receiverVars
<1>2. CASE SendRound
  <2>1. rChunk = sChunk /\ reply = None /\ Blasted \subseteq Indices(sChunk)
    BY <1>2 DEF SendRound, Blasted, Indices
  <2>2. NetSound'
    BY <1>2, <2>1 DEF SendRound, receiverVars
  <2> QED BY <1>2, <2>1, <2>2 DEF SendRound, receiverVars
<1>3. CASE SendRoundFails
  <2>1. rChunk = sChunk /\ reply = None /\ Blasted \subseteq Indices(sChunk)
    BY <1>3 DEF SendRoundFails, Blasted, Indices
  <2>2. NetSound'
    BY <1>3, <2>1 DEF SendRoundFails, receiverVars
  <2> QED BY <1>3, <2>1, <2>2 DEF SendRoundFails, SenderEnd, receiverVars
<1>4. CASE RecvBitmap
  <2>1. /\ reply \in Bitmap /\ ActOnBitmap(reply)
        /\ reply # None /\ reply' = None
        /\ sPc = "await" /\ ~(endSignal /\ tcpUp)
        /\ UNCHANGED <<rPc, rChunk, bits, peerswap, good, stray, net, endSignal>>
    BY <1>4 DEF RecvBitmap, receiverVars
  <2>2. Missing(Packets[sChunk], reply.bits) \subseteq Indices(sChunk)
    BY <2>1, MissingSound
  <2>3. CASE reply.done
    <3>1. rChunk = sChunk + 1 \/ rPc = "ok"
      BY <2>1, <2>3
    <3>2. CASE sChunk < NumChunks
      <4>1. rChunk = sChunk + 1 /\ InitSendRudp(sChunk + 1) /\ tcpUp' = tcpUp
        BY <2>1, <2>3, <3>1, <3>2 DEF ActOnBitmap
      <4> QED BY <2>1, <4>1 DEF InitSendRudp
    <3>3. CASE ~(sChunk < NumChunks)
      <4>1. rPc = "ok" /\ sPc' = "ok" /\ sChunk' = sChunk /\ tcpUp' = FALSE
        BY <2>1, <2>3, <3>1, <3>3 DEF ActOnBitmap, SenderEnd
      <4> QED BY <2>1, <4>1
    <3> QED BY <3>2, <3>3
  <2>4. CASE ~reply.done
    <3>1. /\ sChunk' = sChunk /\ rChunk = sChunk
          /\ \/ /\ table' \subseteq Indices(sChunk)
                /\ \/ sPc' = "blast" /\ tcpUp' = tcpUp
                   \/ sPc' = "failed" /\ tcpUp' = FALSE
             \/ sPc' = "crashed" /\ tcpUp' = FALSE
      BY <2>1, <2>2, <2>4 DEF ActOnBitmap, SenderEnd
    <3> QED BY <2>1, <3>1
  <2> QED BY <2>3, <2>4
<1>5. CASE RecvBitmapFails
  BY <1>5 DEF RecvBitmapFails, SenderEnd, receiverVars, NoStaleAssumption
<1>6. CASE SenderLocalError
  BY <1>6 DEF SenderLocalError, SenderEnd, receiverVars
<1> QED BY <1>1, <1>2, <1>3, <1>4, <1>5, <1>6 DEF Sender

\* A datagram of the receiver's chunk puts its payload in its place and sets its
\* own bit.
LEMMA ReceiveSound ==
  ASSUME IInv, NEW d \in net, Receive(d)
  PROVE  /\ rPc = "receive" /\ d.seq \in Indices(rChunk)
         /\ good' = [good EXCEPT ![rChunk] = @ \cup {d.seq}]
         /\ stray' = FALSE /\ peerswap' = FALSE
         /\ bits' = bits \cup {d.seq}
         /\ UNCHANGED <<senderVars, rPc, rChunk, netVars>>
<1> USE ChunksType DEF TypeOK
<1> HIDE DEF NumChunks, Chunks
<1> USE DEF IInv, LockStep, NetSound, PlacementSound
<1>1. d.chunk = rChunk /\ d.seq \in Indices(rChunk)
  OBVIOUS
<1>2. d = [chunk |-> rChunk, seq |-> d.seq]
  BY <1>1 DEF Datagram
<1>3. /\ rPc = "receive"
      /\ good' = [good EXCEPT ![rChunk] = @ \cup {d.seq}]
      /\ stray' = FALSE /\ peerswap' = FALSE
      /\ bits' = bits \cup {d.seq}
      /\ UNCHANGED <<senderVars, rPc, rChunk, netVars>>
  <2> DEFINE n == Packets[rChunk]
             host == PtohSeq(n, peerswap, d.seq)
             mark == Marked(n, host.swap, host.seq)
  <2>1. host = [seq |-> d.seq, swap |-> FALSE]
    BY <1>1, PlaceSound
  <2>2. mark = [bits |-> {d.seq}, swap |-> FALSE] /\ d.seq < n
    <3>1. /\ Marked(n, FALSE, d.seq) = [bits |-> {d.seq}, swap |-> FALSE]
          /\ d.seq < n
      BY <1>1, PlaceSound
    <3>2. host.swap = FALSE /\ host.seq = d.seq
      BY <2>1
    <3> HIDE DEF host, n
    <3> QED BY <3>1, <3>2
  <2>3. d.seq \in Nat /\ n \in Nat
    BY <1>1 DEF Datagram
  <2>4. ~(d.seq >= n)
    <3> HIDE DEF n
    <3> QED BY <2>2, <2>3
  <2> HIDE DEF host, mark, n
  <2>5. /\ rPc = "receive"
        /\ good' = [good EXCEPT ![rChunk] =
                      IF d = [chunk |-> rChunk, seq |-> host.seq]
                      THEN @ \cup {host.seq} ELSE @ \ {host.seq}]
        /\ stray' = (stray \/ host.seq >= n)
        /\ bits' = bits \cup mark.bits
        /\ inRecv' = FALSE
        /\ peerswap' = mark.swap
        /\ UNCHANGED <<senderVars, rPc, rChunk, netVars>>
    BY DEF Receive, host, mark, n
  <2> QED BY <1>2, <2>1, <2>2, <2>4, <2>5
<1> QED BY <1>1, <1>3

\* The receiver's steps, and those of the network, leave the sender alone.
LEMMA IInvReceiver ==
  ASSUME IInv, TypeOK', NoStaleAssumption,
         Receiver \/ ReceiverLocalError \/ SelectFails \/ TcpBreak \/ UNCHANGED vars
  PROVE  IInv'
<1> USE ChunksType DEF TypeOK, SenderEnds, ReceiverEnds
<1> HIDE DEF NumChunks, Chunks
<1> USE DEF IInv, LockStep, NetSound, BitmapSound, PlacementSound, SenderSound,
            ReceiverSound, ReplySound, Intact
<1>1. CASE RecvSize
  <2>1. FreshBitmap(Packets[1]) \cap Indices(1) = {}
    BY MissingSound
  <2> QED BY <1>1, <2>1 DEF RecvSize, InitReceiveRudp, senderVars
<1>2. CASE RecvSizeFails
  BY <1>2 DEF RecvSizeFails, ReceiverEnd, senderVars, NoStaleAssumption
<1>3. ASSUME NEW d \in net, Receive(d)
      PROVE  IInv'
  <2>1. /\ rPc = "receive" /\ d.seq \in Indices(rChunk)
        /\ good' = [good EXCEPT ![rChunk] = @ \cup {d.seq}]
        /\ stray' = FALSE /\ peerswap' = FALSE
        /\ bits' = bits \cup {d.seq}
        /\ UNCHANGED <<senderVars, rPc, rChunk, netVars>>
    BY <1>3, ReceiveSound
  <2> QED BY <2>1 DEF senderVars, netVars
<1>4. CASE AnswerRound
  <2> DEFINE missing == Missing(Packets[rChunk], bits)
  <2>1. /\ rPc = "receive" /\ tcpUp /\ endSignal /\ endSignal' = FALSE
        /\ sPc = "await" /\ reply = None /\ rChunk = sChunk
        /\ reply' = [done |-> missing = {}, bits |-> bits]
        /\ UNCHANGED <<senderVars, good, stray, sizeMsg>>
    BY <1>4 DEF AnswerRound, NoStaleAssumption
  <2>2. CASE missing = {}
    <3>1. Intact(rChunk)
      BY <2>1, <2>2, MissingSound
    <3>2. CompleteChunk /\ net' = {}
      BY <1>4, <2>2 DEF AnswerRound, CompleteChunk, NoStaleAssumption
    <3>3. CASE rChunk < NumChunks
      <4>1. rChunk + 1 \in Chunks
        BY <3>3
      <4>2. FreshBitmap(Packets[rChunk + 1]) \cap Indices(rChunk + 1) = {}
        BY <4>1, MissingSound
      <4>3. InitReceiveRudp(rChunk + 1) /\ tcpUp' = tcpUp
        BY <3>2, <3>3 DEF CompleteChunk
      <4>4. \A c \in Chunks : c < rChunk + 1 => Intact(c)
        BY <3>1
      <4> QED BY <2>1, <2>2, <3>2, <4>1, <4>2, <4>3, <4>4
              DEF InitReceiveRudp, senderVars
    <3>4. CASE ~(rChunk < NumChunks)
      <4>1. rChunk = NumChunks
        BY <3>4
      <4>2. /\ rPc' = "ok" /\ tcpUp' = FALSE
            /\ UNCHANGED <<rChunk, bits, peerswap>>
        BY <3>2, <3>4 DEF CompleteChunk, ReceiverEnd
      <4> QED BY <2>1, <2>2, <3>1, <3>2, <4>1, <4>2 DEF senderVars
    <3> QED BY <3>3, <3>4
  <2>3. CASE missing # {}
    <3>1. UNCHANGED <<rPc, rChunk, bits, inRecv, peerswap, net, tcpUp>>
      BY <1>4, <2>3 DEF AnswerRound
    <3> HIDE DEF missing
    <3> QED BY <2>1, <2>3, <3>1 DEF senderVars
  <2> QED BY <2>2, <2>3
<1>5. CASE AnswerFails
  BY <1>5 DEF AnswerFails, ReceiverEnd, senderVars
<1>6. CASE ReceiverLocalError
  BY <1>6 DEF ReceiverLocalError, ReceiverEnd, senderVars
<1>7. CASE TcpBreak
  BY <1>7 DEF TcpBreak, senderVars, receiverVars
<1>8. CASE UNCHANGED vars
  BY <1>8 DEF vars, senderVars, receiverVars, netVars
<1>9. CASE SelectFails
  BY <1>9 DEF SelectFails, senderVars, netVars
<1> QED BY <1>1, <1>2, <1>3, <1>4, <1>5, <1>6, <1>7, <1>8, <1>9 DEF Receiver, Answer

\* So IInv is an invariant.
LEMMA IInvInvariant ==
  ASSUME NoStaleAssumption
  PROVE  Spec => []IInv
<1>1. IInv /\ [Next]_vars => IInv'
  <2>1. IInv /\ [Next]_vars => TypeOK'
    BY RbudpTypeNext DEF IInv
  <2> QED BY <2>1, IInvSender, IInvReceiver DEF Next
<1> QED BY <1>1, IInvInit, PTL DEF Spec

\* A file getfileByFd has received with success, and one sendfileByFd has sent
\* with success, is the sender's, packet by packet (ReceiverSuccess and
\* SenderSuccess): no interleaving of lost, late, repeated and reordered
\* datagrams with the control messages makes a side end early.
THEOREM RbudpReceiverSuccess ==
  ASSUME NoStaleAssumption
  PROVE  Spec => []ReceiverSuccess
<1> HIDE DEF NumChunks, Chunks
<1>1. IInv => ReceiverSuccess
  BY ChunksType DEF IInv, TypeOK, ReceiverSound, ReceiverSuccess
<1> QED BY <1>1, IInvInvariant, PTL

\* Success of sendfileByFd means that the receiver has every payload of the
\* file in its place (rbSendfile returns RB_SUCCESS).
THEOREM RbudpSenderSuccess ==
  ASSUME NoStaleAssumption
  PROVE  Spec => []SenderSuccess
<1> HIDE DEF NumChunks, Chunks
<1>1. IInv => SenderSuccess
  BY ChunksType DEF IInv, TypeOK, SenderSound, ReceiverSound, SenderSuccess
<1> QED BY <1>1, IInvInvariant, PTL

\* Success on either side, whatever the other has come to: SuccessSound.
THEOREM RbudpSuccessSound ==
  ASSUME NoStaleAssumption
  PROVE  Spec => []SuccessSound
BY RbudpReceiverSuccess, RbudpSenderSuccess, PTL DEF SuccessSound

\* A set bit always stands for a payload in place (BitmapSound), no payload
\* leaves the buffer and no packet changes the byte order (PlacementSound).
THEOREM RbudpBitmapSound ==
  ASSUME NoStaleAssumption
  PROVE  Spec => [](BitmapSound /\ PlacementSound)
BY IInvInvariant, PTL DEF IInv

\* Until the receiver has read the size, the sender is on its first round.
FirstRound ==
  rPc = "size" =>
    /\ reply = None
    /\ sPc \in {"blast", "await"} => table = Indices(sChunk)

\* A bitmap that asks for packets only grows older: of what it says is there,
\* nothing is lost, though datagrams under way may since have added to it.
ReplyKept ==
  reply # None /\ ~reply.done /\ rPc = "receive" => reply.bits \subseteq bits

RoundInv == IInv /\ NothingForgotten /\ FirstRound /\ ReplyKept

\* The more bits are set, the fewer packets are missing.
LEMMA MissingShrinks ==
  ASSUME NEW n \in Nat, NEW b, NEW more, b \subseteq more
  PROVE  Missing(n, more) \subseteq Missing(n, b)
BY DEF Missing

\* The sender's next table has what the receiver lacks: a fresh one everything,
\* the one it reads off a bitmap at least what the bitmap lacked.
LEMMA RoundSender ==
  ASSUME RoundInv, TypeOK', Sender \/ SenderLocalError, NoStaleAssumption
  PROVE  (NothingForgotten /\ FirstRound /\ ReplyKept)'
<1> USE ChunksType DEF TypeOK, SenderEnds, ReceiverEnds
<1> HIDE DEF NumChunks, Chunks
<1> USE DEF RoundInv, NothingForgotten, FirstRound, ReplyKept
<1>0. /\ FreshBitmap(Packets[rChunk]) \subseteq bits
            => Missing(Packets[rChunk], bits) \subseteq Indices(rChunk)
      /\ rPc = "receive" => FreshBitmap(Packets[rChunk]) \subseteq bits
  BY MissingSound DEF IInv, ReceiverSound
<1>1. CASE SendSize
  <2>1. sChunk = 1 /\ rChunk \in {1, 2} /\ (rChunk = 2 => FALSE)
    BY <1>1 DEF SendSize, IInv, SenderSound, LockStep
  <2> QED BY <1>0, <1>1, <2>1 DEF SendSize, InitSendRudp, SenderEnd, receiverVars
<1>2. CASE SendRound
  BY <1>2 DEF SendRound, receiverVars
<1>3. CASE SendRoundFails
  BY <1>3 DEF SendRoundFails, SenderEnd, receiverVars
<1>4. CASE RecvBitmap
  <2>1. /\ reply \in Bitmap /\ reply # None /\ reply' = None
        /\ sPc = "await" /\ ActOnBitmap(reply) /\ rPc # "size"
        /\ UNCHANGED <<rPc, rChunk, bits>>
    BY <1>4 DEF RecvBitmap, receiverVars, IInv
  <2>2. CASE reply.done
    <3>1. \/ InitSendRudp(sChunk + 1)
          \/ sPc' = "ok"
      BY <2>1, <2>2 DEF ActOnBitmap, SenderEnd
    <3> QED BY <1>0, <2>1, <3>1 DEF InitSendRudp
  <2>3. CASE ~reply.done
    <3>1. /\ sChunk' = sChunk
          /\ sPc' \in {"failed", "crashed"} \/ table' = Missing(Packets[sChunk], reply.bits)
      BY <2>1, <2>3 DEF ActOnBitmap, SenderEnd
    <3>2. rPc = "receive" /\ rChunk = sChunk
            => Missing(Packets[rChunk], bits) \subseteq Missing(Packets[sChunk], reply.bits)
      BY <2>1, <2>3, MissingShrinks
    <3> QED BY <2>1, <3>1, <3>2
  <2> QED BY <2>2, <2>3
<1>5. CASE RecvBitmapFails
  BY <1>5 DEF RecvBitmapFails, SenderEnd, receiverVars, NoStaleAssumption
<1>6. CASE SenderLocalError
  BY <1>6 DEF SenderLocalError, SenderEnd, receiverVars
<1> QED BY <1>1, <1>2, <1>3, <1>4, <1>5, <1>6 DEF Sender

\* The receiver's table of bits only grows, until it goes on to a chunk the
\* sender has yet to start.
LEMMA RoundReceiver ==
  ASSUME RoundInv, TypeOK', NoStaleAssumption,
         Receiver \/ ReceiverLocalError \/ SelectFails \/ TcpBreak \/ UNCHANGED vars
  PROVE  (NothingForgotten /\ FirstRound /\ ReplyKept)'
<1> USE ChunksType DEF TypeOK, SenderEnds, ReceiverEnds
<1> HIDE DEF NumChunks, Chunks
<1> USE DEF RoundInv, NothingForgotten, FirstRound, ReplyKept
<1>1. CASE RecvSize
  <2>1. rChunk = 1 /\ rPc = "size" /\ reply = None
    BY <1>1 DEF RecvSize, IInv, ReceiverSound
  <2>2. sPc \in {"blast", "await"} => sChunk = 1
    BY <2>1 DEF IInv, LockStep
  <2>3. Missing(Packets[1], FreshBitmap(Packets[1])) \subseteq Indices(1)
    BY MissingSound
  <2> QED BY <1>1, <2>1, <2>2, <2>3 DEF RecvSize, InitReceiveRudp, senderVars
<1>2. CASE RecvSizeFails
  BY <1>2 DEF RecvSizeFails, ReceiverEnd, senderVars
<1>3. ASSUME NEW d \in net, Receive(d)
      PROVE  (NothingForgotten /\ FirstRound /\ ReplyKept)'
  <2>1. /\ rPc = "receive" /\ bits \subseteq bits'
        /\ UNCHANGED <<senderVars, rPc, rChunk, netVars>>
    BY <1>3 DEF Receive
  <2>2. Missing(Packets[rChunk], bits') \subseteq Missing(Packets[rChunk], bits)
    BY <2>1, MissingShrinks
  <2> QED BY <2>1, <2>2 DEF senderVars, netVars
<1>4. CASE AnswerRound
  <2>1. /\ rPc = "receive" /\ tcpUp /\ endSignal /\ rChunk = sChunk
        /\ reply' = [done |-> Missing(Packets[rChunk], bits) = {}, bits |-> bits]
        /\ UNCHANGED senderVars
        /\ CompleteChunk \/ UNCHANGED <<rPc, rChunk, bits>>
    BY <1>4 DEF AnswerRound, NoStaleAssumption, IInv, LockStep
  <2>2. CASE Missing(Packets[rChunk], bits) = {}
    <3>1. CompleteChunk
      BY <1>4, <2>2 DEF AnswerRound
    <3>2. rPc' = "ok" \/ (rPc' = "receive" /\ rChunk' = sChunk + 1)
      BY <2>1, <3>1 DEF CompleteChunk, InitReceiveRudp, ReceiverEnd
    <3>3. reply'.done
      BY <2>1, <2>2
    <3> QED BY <2>1, <3>2, <3>3 DEF senderVars
  <2>3. CASE Missing(Packets[rChunk], bits) # {}
    <3>1. UNCHANGED <<rPc, rChunk, bits>>
      BY <1>4, <2>3 DEF AnswerRound
    <3> QED BY <2>1, <3>1 DEF senderVars
  <2> QED BY <2>2, <2>3
<1>5. CASE AnswerFails
  BY <1>5 DEF AnswerFails, ReceiverEnd, senderVars
<1>6. CASE ReceiverLocalError
  BY <1>6 DEF ReceiverLocalError, ReceiverEnd, senderVars
<1>7. CASE TcpBreak
  BY <1>7 DEF TcpBreak, senderVars, receiverVars
<1>8. CASE UNCHANGED vars
  BY <1>8 DEF vars, senderVars, receiverVars, netVars
<1>9. CASE SelectFails
  BY <1>9 DEF SelectFails, senderVars, netVars
<1> QED BY <1>1, <1>2, <1>3, <1>4, <1>5, <1>6, <1>7, <1>8, <1>9 DEF Receiver, Answer

LEMMA RoundInit == Init => RoundInv
<1> SUFFICES ASSUME Init PROVE RoundInv
  OBVIOUS
<1> QED BY IInvInit DEF Init, RoundInv, NothingForgotten, FirstRound, ReplyKept

LEMMA RoundNext ==
  ASSUME RoundInv, [Next]_vars, NoStaleAssumption
  PROVE  RoundInv'
<1>1. TypeOK'
  BY RbudpTypeNext DEF RoundInv, IInv
<1> QED BY <1>1, IInvSender, IInvReceiver, RoundSender, RoundReceiver
        DEF Next, RoundInv

LEMMA RoundInvariant ==
  ASSUME NoStaleAssumption
  PROVE  Spec => []RoundInv
BY RoundInit, RoundNext, PTL DEF Spec

\* The rounds of the two sides fit together (RoundsSound): whatever is lost,
\* late or repeated, a packet the receiver lacks is in the sender's table.
THEOREM RbudpRoundsSound ==
  ASSUME NoStaleAssumption
  PROVE  Spec => []RoundsSound
<1>1. RoundInv => RoundsSound
  BY DEF RoundInv, IInv, RoundsSound
<1> QED BY <1>1, RoundInvariant, PTL

-----------------------------------------------------------------------------
(* Rbudp implements RbudpTransfer.  What is right, delivered and acked there *)
(* are functions of good, rChunk and sChunk here.                            *)

\* A table of packets of a chunk is no longer than the chunk: sendBuf's table
\* has room for it.
LEMMA TableFits ==
  ASSUME NEW c \in Chunks, NEW s, s \subseteq Indices(c)
  PROVE  ~(Cardinality(s) > Packets[c])
<1>1. Packets[c] \in Nat /\ Packets[c] > 0
  BY ChunksType
<1> DEFINE last == Packets[c] - 1
<1>2. last \in Int /\ last >= 0 /\ Packets[c] = last + 1
  BY <1>1
<1> HIDE DEF last
<1>3. Indices(c) = 0..last
  BY DEF Indices, last
<1>4. IsFiniteSet(0..last) /\ Cardinality(0..last) = last + 1
  BY <1>2, FS_Interval
<1>5. Cardinality(s) \in Nat /\ Cardinality(s) <= Cardinality(0..last)
  BY <1>3, <1>4, FS_Subset, FS_CardinalityType
<1> QED BY <1>2, <1>4, <1>5

\* The sender never writes a table beyond its end.
SenderAlive == sPc # "crashed"

ImplInv == RoundInv /\ SenderAlive


LEMMA SenderAliveNext ==
  ASSUME RoundInv, SenderAlive, [Next]_vars, NoStaleAssumption
  PROVE  SenderAlive'
<1> USE ChunksType DEF RoundInv, IInv, TypeOK, SenderAlive
<1> HIDE DEF NumChunks, Chunks
<1>1. CASE RecvBitmap
  <2>1. /\ reply \in Bitmap /\ reply # None
        /\ sPc = "await" /\ ActOnBitmap(reply)
    BY <1>1 DEF RecvBitmap
  <2>2. Missing(Packets[sChunk], reply.bits) \subseteq Indices(sChunk)
    BY <2>1, MissingSound DEF ReplySound
  <2>3. ~(Cardinality(Missing(Packets[sChunk], reply.bits)) > Packets[sChunk])
    BY <2>2, TableFits
  <2> QED BY <2>1, <2>3 DEF ActOnBitmap, InitSendRudp, SenderEnd
<1>2. CASE RecvBitmapFails
  BY <1>2 DEF RecvBitmapFails, SenderEnd, NoStaleAssumption
<1>3. CASE Sender /\ ~RecvBitmap /\ ~RecvBitmapFails
  BY <1>3 DEF Sender, SendSize, SendRound, SendRoundFails, InitSendRudp, SenderEnd
<1>4. CASE Receiver
  BY <1>4 DEF Receiver, Answer, RecvSize, RecvSizeFails, AnswerRound, AnswerFails,
              Receive, senderVars
<1> QED BY <1>1, <1>2, <1>3, <1>4 DEF Next, SenderLocalError, SenderEnd,
           ReceiverLocalError, SelectFails, TcpBreak, vars, senderVars

LEMMA ImplInvariant ==
  ASSUME NoStaleAssumption
  PROVE  Spec => []ImplInv
<1>1. Init => ImplInv
  BY RoundInit DEF Init, ImplInv, SenderAlive
<1>2. ImplInv /\ [Next]_vars => ImplInv'
  BY RoundNext, SenderAliveNext DEF ImplInv
<1> QED BY <1>1, <1>2, PTL DEF Spec

\* What RbudpTransfer sees of a state of the code.
LEMMA ViewFacts ==
  ASSUME ImplInv
  PROVE  /\ rPc = "receive" => /\ Delivered = rChunk - 1
                               /\ ReceiverState = "running"
                               /\ rChunk \in 1..NumChunks
         /\ sPc \notin SenderEnds => SenderState = "running" /\ Acked = sChunk - 1
         /\ NumChunks \in Nat /\ Delivered \in Int /\ Acked \in Int
         /\ sChunk \in 1..NumChunks /\ rChunk \in 1..NumChunks
<1> USE ChunksType
<1> HIDE DEF NumChunks, Chunks
<1> QED BY DEF ImplInv, RoundInv, IInv, TypeOK, Delivered, Acked, SenderState,
               ReceiverState, SenderEnds, ReceiverEnds

\* A step of the sender is an acknowledgement, its failure, or not visible.
LEMMA SenderImplements ==
  ASSUME ImplInv, ImplInv', Sender \/ SenderLocalError, NoStaleAssumption
  PROVE  [Transfer!Next]_Transfer!tvars
<1> USE ChunksType, ViewFacts
<1> HIDE DEF NumChunks, Chunks
<1>1. UNCHANGED <<Right, Delivered, ReceiverState>>
  BY DEF Sender, SendSize, SendRound, SendRoundFails, RecvBitmap, RecvBitmapFails,
         SenderLocalError, receiverVars, Right, Intact, Delivered, ReceiverState
<1>2. CASE sPc' = sPc /\ sChunk' = sChunk
  BY <1>1, <1>2 DEF Transfer!tvars, Acked, SenderState
<1>3. CASE sPc \notin SenderEnds /\ sPc' = "failed" /\ sChunk' = sChunk
  BY <1>1, <1>3 DEF Transfer!Next, Transfer!SenderFails, Acked, SenderState, SenderEnds
<1>4. CASE sPc \notin SenderEnds /\ sPc' \notin SenderEnds /\ sChunk' = sChunk
  BY <1>1, <1>4 DEF Transfer!tvars, Acked, SenderState, SenderEnds
<1>5. CASE /\ RecvBitmap /\ reply \in Bitmap /\ reply.done
  <2>1. sPc = "await" /\ Acked = sChunk - 1 /\ SenderState = "running"
    BY <1>5 DEF RecvBitmap, SenderEnds
  <2>2. rPc = "ok" \/ rChunk = sChunk + 1
    BY <1>5 DEF RecvBitmap, ImplInv, RoundInv, IInv, LockStep
  <2>3. Acked < Delivered
    BY <2>1, <2>2 DEF Delivered
  <2>4. CASE sChunk < NumChunks
    <3>1. InitSendRudp(sChunk + 1)
      BY <1>5, <2>4 DEF RecvBitmap, ActOnBitmap
    <3>2. Acked' = sChunk /\ SenderState' = "running"
      BY <2>1, <2>4, <3>1 DEF InitSendRudp, Acked, SenderState, SenderEnds
    <3> QED BY <1>1, <2>1, <2>3, <2>4, <3>2 DEF Transfer!Next, Transfer!Acknowledge
  <2>5. CASE ~(sChunk < NumChunks)
    <3>1. sPc' = "ok" /\ sChunk = NumChunks
      BY <1>5, <2>5 DEF RecvBitmap, ActOnBitmap, SenderEnd
    <3>2. Acked' = sChunk /\ SenderState' = "ok"
      BY <3>1 DEF Acked, SenderState, SenderEnds
    <3> QED BY <1>1, <2>1, <2>3, <3>1, <3>2 DEF Transfer!Next, Transfer!Acknowledge
  <2> QED BY <2>4, <2>5
<1>6. CASE RecvBitmap /\ reply \in Bitmap /\ ~reply.done
  <2>1. sPc = "await" /\ ActOnBitmap(reply)
    BY <1>6 DEF RecvBitmap
  <2>2. /\ sChunk' = sChunk
        /\ sPc' = "blast" \/ sPc' = "failed" \/ sPc' = "crashed"
    BY <1>6, <2>1 DEF ActOnBitmap, SenderEnd
  <2>3. sPc' # "crashed"
    BY DEF ImplInv, SenderAlive
  <2> QED BY <1>3, <1>4, <2>1, <2>2, <2>3 DEF SenderEnds
<1>7. CASE SendSize
  <2>1. sPc = "size" /\ sChunk = 1
    BY <1>7 DEF SendSize, ImplInv, RoundInv, IInv, SenderSound
  <2>2. sChunk' = 1 /\ (sPc' = "blast" \/ sPc' = "failed")
    BY <1>7, <2>1 DEF SendSize, InitSendRudp, SenderEnd
  <2> QED BY <1>3, <1>4, <2>1, <2>2 DEF SenderEnds
<1>8. CASE SendRound
  BY <1>8, <1>4 DEF SendRound, SenderEnds
<1>9. CASE SendRoundFails \/ SenderLocalError \/ RecvBitmapFails
  BY <1>9, <1>3 DEF SendRoundFails, SenderLocalError, RecvBitmapFails, SenderEnd,
                    SenderEnds, NoStaleAssumption
<1>10. RecvBitmap => reply \in Bitmap
  BY DEF RecvBitmap, ImplInv, RoundInv, IInv, TypeOK
<1> QED BY <1>5, <1>6, <1>7, <1>8, <1>9, <1>10 DEF Sender

\* A step of the receiver fills a chunk, delivers it, or fails; one of the
\* network is not visible.
LEMMA ReceiverImplements ==
  ASSUME ImplInv, ImplInv', NoStaleAssumption,
         Receiver \/ ReceiverLocalError \/ SelectFails \/ TcpBreak \/ UNCHANGED vars
  PROVE  [Transfer!Next]_Transfer!tvars
<1> USE ChunksType, ViewFacts
<1> HIDE DEF NumChunks, Chunks
<1>1. UNCHANGED <<Acked, SenderState>>
  BY DEF Receiver, Answer, RecvSize, RecvSizeFails, Receive, AnswerRound, AnswerFails,
         ReceiverLocalError, SelectFails, TcpBreak, vars, senderVars, Acked, SenderState
<1>2. ASSUME NEW d \in net, Receive(d)
      PROVE  [Transfer!Next]_Transfer!tvars
  <2>1. /\ rPc = "receive" /\ UNCHANGED <<rPc, rChunk>>
        /\ \A c \in Chunks : c # rChunk => good'[c] = good[c]
    BY <1>2 DEF Receive, ImplInv, RoundInv, IInv, TypeOK
  <2>2. UNCHANGED <<Delivered, ReceiverState>>
    BY <2>1 DEF Delivered, ReceiverState
  <2>3. Intact(rChunk) => Intact(rChunk)'
    BY <1>2, <2>1, ReceiveSound DEF ImplInv, RoundInv, IInv, TypeOK, Intact
  <2>4. Right' = Right \/ Right' = Right \cup {rChunk}
    BY <2>1, <2>3 DEF Right, Intact
  <2>5. Delivered + 1 = rChunk /\ Delivered < NumChunks
    BY <2>1
  <2> QED BY <1>1, <2>2, <2>4, <2>5 DEF Transfer!Next, Transfer!Fill, Transfer!tvars
<1>3. CASE AnswerRound
  <2>1. /\ rPc = "receive" /\ rChunk = sChunk /\ sPc = "await"
        /\ Acked = Delivered
        /\ UNCHANGED good
    BY <1>3 DEF AnswerRound, NoStaleAssumption, ImplInv, RoundInv, IInv, LockStep, SenderEnds
  <2>2. Right' = Right
    BY <2>1 DEF Right, Intact
  <2>3. CASE Missing(Packets[rChunk], bits) = {}
    <3>1. CompleteChunk
      BY <1>3, <2>3 DEF AnswerRound
    <3>2. rChunk \in Right
      BY <2>1, <2>3, MissingSound DEF Right, Intact, ImplInv, RoundInv, IInv, BitmapSound
    <3>3. CASE rChunk < NumChunks
      <4>1. rPc' = "receive" /\ rChunk' = rChunk + 1
        BY <3>1, <3>3 DEF CompleteChunk, InitReceiveRudp
      <4>2. Delivered' = rChunk /\ ReceiverState' = "running"
        BY <3>3, <4>1 DEF Delivered, ReceiverState, ReceiverEnds
      <4> QED BY <1>1, <2>1, <2>2, <3>2, <3>3, <4>2 DEF Transfer!Next, Transfer!Deliver
    <3>4. CASE ~(rChunk < NumChunks)
      <4>1. rPc' = "ok" /\ rChunk = NumChunks
        BY <3>1, <3>4 DEF CompleteChunk, ReceiverEnd
      <4>2. Delivered' = rChunk /\ ReceiverState' = "ok"
        BY <4>1 DEF Delivered, ReceiverState, ReceiverEnds
      <4> QED BY <1>1, <2>1, <2>2, <3>2, <4>1, <4>2 DEF Transfer!Next, Transfer!Deliver
    <3> QED BY <3>3, <3>4
  <2>4. CASE Missing(Packets[rChunk], bits) # {}
    <3>1. UNCHANGED <<rPc, rChunk>>
      BY <1>3, <2>4 DEF AnswerRound
    <3> QED BY <1>1, <2>2, <3>1 DEF Transfer!tvars, Delivered, ReceiverState
  <2> QED BY <2>3, <2>4
<1>4. CASE RecvSize
  <2>1. rChunk' = rChunk /\ rPc = "size" /\ rPc' = "receive" /\ good' = good
    BY <1>4 DEF RecvSize, InitReceiveRudp, ImplInv, RoundInv, IInv, ReceiverSound
  <2> QED BY <1>1, <2>1 DEF Transfer!tvars, Right, Intact, Delivered, ReceiverState,
                           ReceiverEnds
<1>5. CASE RecvSizeFails \/ AnswerFails \/ ReceiverLocalError
  <2>1. /\ rPc \in {"size", "receive"} /\ rPc' = "failed"
        /\ UNCHANGED <<rChunk, good>>
    BY <1>5 DEF RecvSizeFails, AnswerFails, ReceiverLocalError, ReceiverEnd, NoStaleAssumption
  <2> QED BY <1>1, <2>1 DEF Transfer!Next, Transfer!ReceiverFails, Right, Intact,
                           Delivered, ReceiverState, ReceiverEnds
<1>6. CASE SelectFails \/ TcpBreak \/ UNCHANGED vars
  BY <1>1, <1>6 DEF SelectFails, TcpBreak, vars, receiverVars, Transfer!tvars, Right, Intact,
                    Delivered, ReceiverState
<1> QED BY <1>2, <1>3, <1>4, <1>5, <1>6 DEF Receiver, Answer

\* sendfileByFd and getfileByFd implement RbudpTransfer (ReliableTransfer): the
\* initial states map to its initial state and every step of either side, of the
\* network and of the connection to one of its steps or to none.
THEOREM RbudpImplementsTransfer ==
  ASSUME NoStaleAssumption
  PROVE  Spec => ReliableTransfer
<1>1. Init => Transfer!Init
  <2> SUFFICES ASSUME Init PROVE Transfer!Init
    OBVIOUS
  <2>1. \A c \in Chunks : 0 \in Indices(c) /\ good[c] = {}
    <3> HIDE DEF NumChunks, Chunks
    <3> QED BY ChunksType DEF Init, Indices
  <2>2. Right = {}
    BY <2>1 DEF Right, Intact
  <2> QED BY <2>2 DEF Init, Transfer!Init, Delivered, Acked, SenderState, ReceiverState,
                      SenderEnds, ReceiverEnds
<1>2. ImplInv /\ ImplInv' /\ [Next]_vars => [Transfer!Next]_Transfer!tvars
  BY SenderImplements, ReceiverImplements DEF Next
<1> QED BY <1>1, <1>2, ImplInvariant, PTL DEF Spec, ReliableTransfer, Transfer!Spec
=============================================================================
