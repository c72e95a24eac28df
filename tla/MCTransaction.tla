--------------------------- MODULE MCTransaction ---------------------------
(***************************************************************************)
(* Instances of Transaction for TLC.  The contents are interchangeable, so *)
(* they are a symmetry set in the runs without liveness.                   *)
(***************************************************************************)
EXTENDS Transaction, TLC

Sym == Permutations(Content)
=============================================================================
