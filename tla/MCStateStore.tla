---------------------------- MODULE MCStateStore ----------------------------
(***************************************************************************)
(* Instances of StateStore for TLC.                                        *)
(***************************************************************************)
EXTENDS StateStore, TLC

Sym == Permutations(Instance) \cup Permutations(Secret)
=============================================================================
