----------------------- MODULE MCGithubAuthorization -----------------------
(***************************************************************************)
(* Instances of GithubAuthorization for TLC.                               *)
(***************************************************************************)
EXTENDS GithubAuthorization, TLC

\* Verified with either capability, a rejected token, no network, an invalid answer.
MCResponse ==
    {[user |-> "user", billing |-> b] : b \in {"report", "403"}}
    \cup {[user |-> u, billing |-> "404"] : u \in {"401", "unreachable", "invalid scopes"}}

\* Four of the requests, failing calls and restarts (of three, two and one).
Bounded == budget.request + budget.fault + budget.restart > 1

Sym == Permutations(Instance) \cup Permutations(Token)
=============================================================================
