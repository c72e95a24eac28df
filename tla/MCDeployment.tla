---------------------------- MODULE MCDeployment ----------------------------
(***************************************************************************)
(* Instances of Deployment for TLC: a route and a second client.           *)
(***************************************************************************)
EXTENDS Deployment, TLC

Sym == Permutations(Instance) \cup Permutations(Connection)

\* A recovery review matters only as long as its journal is the one on disk, and with one
\* failure no journal that was changed or removed comes back.
View == <<state, content, journal, lease, loaded, preview, plans, run, pc,
          [i \in Instance |-> review[i] = journal], aux, budget>>

\* Saves, edits, failures and restarts so far.
Spent == (MaxSaves - budget.save) + (MaxEdits - budget.edit)
             + (MaxFaults - budget.fault) + (MaxRestarts - budget.restart)

InUse(t) == \/ t \in stray
            \/ \E i \in Instance : \E p \in plans[i] \cup ({preview[i], run[i]} \ {NoPlan}) :
                  t \in p.targets
            \/ \E c \in Connection : content[t][c] # 0

\* Two of these events beside the publications of a route, one when the second client
\* takes part; what others configured in that client no step looks at, so it starts empty.
Bounded ==
    /\ Spent <= IF \E t \in Target \ Route : InUse(t) THEN 1 ELSE 2
    /\ \A t \in Target \ (Route \cup stray) : content[t][Foreign] = 0
=============================================================================
