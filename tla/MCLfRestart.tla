----------------------------- MODULE MCLfRestart -----------------------------
(* Three threads share three blocks: the middle one may not have begun when *)
(* the restart file is written.                                            *)
EXTENDS LfRestart, TLC
ThreeThreads == 0 :> 0 @@ 1 :> 1 @@ 2 :> 2 @@ 3 :> 3
TwoThreads == 0 :> 0 @@ 1 :> 2 @@ 2 :> 3
=============================================================================
