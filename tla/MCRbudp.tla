------------------------------ MODULE MCRbudp ------------------------------
(***************************************************************************)
(* Instances of Rbudp for TLC: a file of chunks of different lengths, so   *)
(* that a number of one is in the slack of the next one's bitmap or out of *)
(* its range.                                                              *)
(***************************************************************************)
EXTENDS Rbudp

\* A bitmap byte of 2 bits: 3 packets need 2 of them, 1 packet needs 1.
MCPackets == <<4, 3, 2>>
MCPacketsShort == <<3, 1>>

\* For 0 < s < 2^16, swab32(s) is negative or at least 2^16: out of the range
\* of every bitmap of a chunk that short.  0 - s stands for it.
MCSwab(s) == 0 - s
=============================================================================
