------------------------------ MODULE MCPortal ------------------------------
(* Two threads share three blocks, the second has the longer segment.      *)
EXTENDS Portal, TLC
TwoThreads == 0 :> 0 @@ 1 :> 1 @@ 2 :> 3
=============================================================================
