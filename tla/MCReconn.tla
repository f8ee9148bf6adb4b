------------------------------ MODULE MCReconn ------------------------------
(* The instances of Reconn that TLC checks.                                *)
EXTENDS Reconn
=============================================================================
