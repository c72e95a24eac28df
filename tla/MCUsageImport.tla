--------------------------- MODULE MCUsageImport ---------------------------
(***************************************************************************)
(* Instances of UsageImport for TLC.                                       *)
(***************************************************************************)
EXTENDS UsageImport, TLC

Sym == Permutations(Instance) \cup Permutations(Id) \cup Permutations(Catalog)
=============================================================================
