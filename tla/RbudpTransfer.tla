--------------------------- MODULE RbudpTransfer ---------------------------
(***************************************************************************)
(* What RBUDP promises ("to transfer a block of memory over UDP reliably", *)
(* src/include/rbudp/QUANTAnet_rbudpBase_c.h): the chunks of a file are    *)
(* delivered in order, a chunk is delivered only when its content is       *)
(* right, the sender passes to the next only when it knows that, and each  *)
(* side reports success only at the end of the file.                       *)
(***************************************************************************)
EXTENDS Naturals

CONSTANT NumChunks

VARIABLES
  right,      \* the chunks whose content is right at the receiver
  delivered,  \* the chunks the receiver has accepted
  acked,      \* the chunks the sender knows accepted
  sender, receiver    \* "running", "ok" or "failed"

tvars == <<right, delivered, acked, sender, receiver>>

Init ==
  /\ right = {}
  /\ delivered = 0 /\ acked = 0
  /\ sender = "running" /\ receiver = "running"

\* The content of a chunk becomes right, while the sender is still on it.
Fill ==
  /\ delivered < NumChunks
  /\ right' = right \cup {delivered + 1}
  /\ UNCHANGED <<delivered, acked, sender, receiver>>

\* The receiver accepts the next chunk, and is done with the last one.
Deliver ==
  /\ receiver = "running"
  /\ delivered = acked /\ delivered + 1 \in right
  /\ delivered' = delivered + 1
  /\ receiver' = IF delivered' = NumChunks THEN "ok" ELSE "running"
  /\ UNCHANGED <<right, acked, sender>>

\* The sender learns it, and is done with the last one.
Acknowledge ==
  /\ sender = "running"
  /\ acked < delivered
  /\ acked' = acked + 1
  /\ sender' = IF acked' = NumChunks THEN "ok" ELSE "running"
  /\ UNCHANGED <<right, delivered, receiver>>

\* A side gives up; what was delivered stays.
SenderFails ==
  /\ sender = "running"
  /\ sender' = "failed"
  /\ UNCHANGED <<right, delivered, acked, receiver>>

ReceiverFails ==
  /\ receiver = "running"
  /\ receiver' = "failed"
  /\ UNCHANGED <<right, delivered, acked, sender>>

Next == Fill \/ Deliver \/ Acknowledge \/ SenderFails \/ ReceiverFails

Spec == Init /\ [][Next]_tvars
=============================================================================
