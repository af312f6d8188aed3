---------------------------- MODULE MCUserLogin -----------------------------
(* Instances of UserLogin for TLC.                                         *)
EXTENDS UserLogin

=============================================================================
