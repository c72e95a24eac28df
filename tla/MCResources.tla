---------------------------- MODULE MCResources ----------------------------
(* Resources on small instances: two MCP servers that share a file, and a skill. *)
EXTENDS Resources, TLC

Sym == Permutations(Instance) \cup Permutations(Mcp)

\* Two saves, edits, failures and restarts beside the publications.
Bounded ==
    (MaxSaves - budget.save) + (MaxEdits - budget.edit)
        + (MaxFaults - budget.fault) + (MaxRestarts - budget.restart) <= 2
=============================================================================
