------------------------------ MODULE MCIMain ------------------------------
(* Instances of IMain for TLC: only the constants differ. *)
EXTENDS IMain
=============================================================================
