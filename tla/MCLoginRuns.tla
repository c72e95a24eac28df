---------------------------- MODULE MCLoginRuns -----------------------------
(***************************************************************************)
(* Instances of LoginPlans, and with it LoginRuns, for TLC.                *)
(***************************************************************************)
EXTENDS LoginPlans, TLC

Sym == Permutations(Instance) \cup Permutations(RunId)

\* Three follow-ups, failing calls or crashes, where a second plan counts twice, and so
\* does a client that was changed or a variable that was set.
Changed == machine.overridden \/ \E s \in Surface : machine.exe[s] # 1
Bounded ==
    (MaxFollowUps - budget.follow) + (MaxFaults - budget.fault) + (MaxCrashes - budget.crash)
        + (IF left = 0 THEN 2 ELSE 0) + (IF Changed THEN 1 ELSE 0) <= 3
=============================================================================
