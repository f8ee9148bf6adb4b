------------------------------ MODULE MCLogin ------------------------------
(* The instance of Login that TLC checks.                                  *)
EXTENDS Login
=============================================================================
