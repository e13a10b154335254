---------------------------- MODULE MCLoginReports ----------------------------
(* Instances of LoginReports for TLC, with the links of MCSocketsEffects. *)
EXTENDS LoginReports, MCSocketsEffects
===============================================================================
