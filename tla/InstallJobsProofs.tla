--------------------------- MODULE InstallJobsProofs ---------------------------
(***************************************************************************)
(* Theorems of InstallJobs: the history on disk names the installer that   *)
(* runs, and it stands, whatever else happens to the machine, the file and *)
(* the application.                                                        *)
(*                                                                         *)
(* Both follow from the inductive invariant IInv: the runs in memory are   *)
(* those last read or written, identifiers are never used again, and the   *)
(* run that the thread executes is the one Running run of them, with the   *)
(* component and the results the thread knows.                             *)
(***************************************************************************)
EXTENDS InstallJobs, FiniteSetTheorems, WellFoundedInduction, TLAPS

Label == {"idle", "begin", "next", "look", "launch", "running", "after", "record", "finish",
          "drop"}
State == [at : Label, plan : Plan \cup {NoPlan}, todo : SUBSET Component,
          on : Component \cup {0}, result : Result \cup {"none"}, results : Results,
          failed : BOOLEAN]

TypeInv ==
    /\ version \in [Component -> Version] /\ winget \in Nat
    /\ plans \subseteq Plan
    /\ file \in Seq(Run) \cup {Damaged} /\ known \in Seq(Run) \cup {Damaged}
    /\ runs \in Seq(Run)
    /\ active \in 0..MaxPlans /\ cancel \in BOOLEAN
    /\ thread \in State
    /\ installer \in Component \cup {0}
    /\ blind \in BOOLEAN
    /\ budget \in [{"plan", "change", "mishap"} -> Nat] /\ budget.plan <= MaxPlans

\* No two runs of s have the same identifier.
Distinct(s) == \A j, k \in DOMAIN s : s[j].id = s[k].id => j = k

\* The file is what was last read or written, unless it was damaged since; the runs in
\* memory are the same ones, those of a dead process interrupted.
HistoryInv ==
    /\ file = Damaged \/ file = known
    /\ known = Damaged => runs = <<>>
    /\ known # Damaged =>
          /\ DOMAIN known = DOMAIN runs
          /\ \A k \in DOMAIN runs : runs[k] \in {known[k], Reopened(known[k])}
    /\ Len(runs) <= MaxHistory
    /\ Distinct(runs)

\* No plan that can still be executed has the identifier of a run or of another plan.
Unused(id) == \A k \in DOMAIN runs : runs[k].id # id
FreshInv ==
    /\ \A k \in DOMAIN runs : runs[k].id <= MaxPlans - budget.plan
    /\ \A p \in plans : p.id <= MaxPlans - budget.plan /\ Unused(p.id)
    /\ \A p, q \in plans : p.id = q.id => p = q
    /\ On("begin") =>
          /\ thread.plan \in Plan /\ Unused(thread.plan.id)
          /\ thread.plan.id <= MaxPlans - budget.plan
          /\ \A p \in plans : p.id # thread.plan.id

Executing == ~On("idle") /\ ~On("begin")
UnderWay  == Executing /\ ~On("drop")
Announced == thread.at \in {"look", "launch", "running", "after"}

\* The run that the thread executes, as the history has it.
IsOwn(r) ==
    /\ IsActive(r)
    /\ r.requested = thread.plan.requested /\ r.results = thread.results
    /\ Announced => r.current = thread.on

\* Nothing is recorded of what is still to be done, or was never asked for.
Accounted ==
    /\ thread.todo \subseteq thread.plan.requested
    /\ \A c \in thread.todo : thread.results[c] = "none"
    /\ \A c \in Component : thread.results[c] # "none" => c \in thread.plan.requested

ThreadInv ==
    /\ ~Executing => active = 0 /\ ~blind
    /\ Executing => /\ thread.plan \in Plan /\ active = thread.plan.id
                    /\ known # Damaged /\ known = runs /\ (~blind => file = known)
    /\ UnderWay => Accounted /\ \E k \in DOMAIN runs : IsOwn(runs[k])
    /\ On("idle") => thread = Idle
    /\ On("begin") => thread.todo = thread.plan.requested /\ thread.results = NoResults
    /\ (Announced \/ On("record")) => thread.on \in thread.todo
    /\ installer # 0 => On("running") /\ installer = thread.on

IInv == TypeInv /\ HistoryInv /\ FreshInv /\ ThreadInv


-----------------------------------------------------------------------------
(***************************************************************************)
(* The operators.                                                          *)
(***************************************************************************)
\* A nonempty set of components has a least one.
LEMMA MinFacts == ASSUME NEW S, S \subseteq Component, S # {} PROVE Min(S) \in S
<1>1. S \subseteq Nat
  BY ComponentAssumption
<1>2. PICK x \in S : \A y \in S : ~(<<y, x>> \in OpToRel(<, Nat))
  BY <1>1, NatLessThanWellFounded, WFMin
<1>3. \A y \in S : x <= y
  <2>1. TAKE y \in S
  <2>2. ~(y < x)
    BY <1>1, <1>2, <2>1 DEF OpToRel
  <2> QED BY <1>1, <2>2
<1> QED BY <1>3 DEF Min

\* The component whose turn it is, is one that is to be done.
LEMMA TurnFacts ==
    ASSUME thread \in State, thread.todo # {}
    PROVE  Next1st \in thread.todo /\ Next1st \in Component
<1>1. thread.todo \subseteq Component
  BY DEF State
<1>2. Min(thread.todo) \in thread.todo
  BY <1>1, MinFacts
<1> QED BY <1>1, <1>2 DEF Next1st

\* A spent budget is one, and identifiers only depend on the budget of plans.
LEMMA BudgetFacts ==
    ASSUME budget \in [{"plan", "change", "mishap"} -> Nat], budget.plan <= MaxPlans
    PROVE  /\ \A k \in {"change", "mishap"} :
                 Spend(k) => /\ budget' \in [{"plan", "change", "mishap"} -> Nat]
                             /\ budget'.plan = budget.plan
           /\ Fault \/ Works => /\ budget' \in [{"plan", "change", "mishap"} -> Nat]
                                /\ budget'.plan = budget.plan
           /\ Spend("plan") => /\ budget' \in [{"plan", "change", "mishap"} -> Nat]
                               /\ budget'.plan = budget.plan - 1
                               /\ MaxPlans - budget.plan + 1 \in PlanId
<1>1. MaxPlans \in Nat /\ budget["plan"] \in Nat
  BY BoundAssumption
<1>2. \A k \in {"plan", "change", "mishap"} :
         Spend(k) => /\ budget' \in [{"plan", "change", "mishap"} -> Nat]
                     /\ budget'.plan = IF k = "plan" THEN budget.plan - 1 ELSE budget.plan
  BY DEF Spend
<1>3. Spend("plan") => MaxPlans - budget.plan + 1 \in PlanId
  BY <1>1 DEF Spend, PlanId
<1> QED BY <1>2, <1>3 DEF Fault, Works

\* The idle thread, and one that begins to execute a plan.
LEMMA IdleFacts ==
    /\ Idle \in State /\ Idle.at = "idle"
    /\ \A p \in Plan :
          LET begun == [Idle EXCEPT !.at = "begin", !.plan = p, !.todo = p.requested] IN
          /\ begun \in State /\ begun.at = "begin" /\ begun.plan = p
          /\ begun.todo = p.requested /\ begun.results = NoResults
<1>1. NoResults \in Results
  BY DEF NoResults, Results
<1>2. Idle \in State /\ Idle.at = "idle"
  BY <1>1 DEF Idle, State, Label
<1>3. ASSUME NEW p \in Plan
      PROVE  LET begun == [Idle EXCEPT !.at = "begin", !.plan = p, !.todo = p.requested] IN
             /\ begun \in State /\ begun.at = "begin" /\ begun.plan = p
             /\ begun.todo = p.requested /\ begun.results = NoResults
  <2>1. p.requested \in SUBSET Component
    BY DEF Plan
  <2> DEFINE s == [Idle EXCEPT !.at = "begin"]
             t == [s EXCEPT !.plan = p]
             u == [t EXCEPT !.todo = p.requested]
  <2>2. s \in State /\ s.at = "begin" /\ s.results = NoResults
    BY <1>2 DEF Idle, State, Label
  <2> HIDE DEF s
  <2>3. t \in State /\ t.at = "begin" /\ t.plan = p /\ t.results = NoResults
    BY <2>2 DEF State
  <2> HIDE DEF t
  <2>4. /\ u \in State /\ u.at = "begin" /\ u.plan = p
        /\ u.todo = p.requested /\ u.results = NoResults
    BY <2>1, <2>3 DEF State
  <2> QED BY <2>4 DEF s, t, u
<1> QED BY <1>2, <1>3

\* What the thread still has to do, and what it knows, is the same after the step.
Same == /\ thread'.plan = thread.plan /\ thread'.todo = thread.todo
        /\ thread'.results = thread.results

\* A step to another label changes nothing else.
LEMMA GotoFacts ==
    ASSUME thread \in State, NEW l \in Label, Goto(l)
    PROVE  thread' \in State /\ thread'.at = l /\ Same /\ thread'.on = thread.on
BY DEF Goto, State, Same

\* A run that fails goes to its end.
LEMMA AbortFacts ==
    ASSUME thread \in State, Abort
    PROVE  thread' \in State /\ thread'.at = "finish" /\ Same
<1> DEFINE s == [thread EXCEPT !.at = "finish"]
<1>1. s \in State /\ s.at = "finish" /\ s.plan = thread.plan /\ s.todo = thread.todo
      /\ s.results = thread.results
  BY DEF State, Label
<1>2. thread' = [s EXCEPT !.failed = TRUE]
  BY DEF Abort
<1> HIDE DEF s
<1> QED BY <1>1, <1>2 DEF State, Same

\* The result of a component is recorded next.
LEMMA ConcludeFacts ==
    ASSUME thread \in State, NEW c \in Component, NEW result \in Result, Conclude(c, result)
    PROVE  thread' \in State /\ thread'.at = "record" /\ Same /\ thread'.on = c
<1> DEFINE s == [thread EXCEPT !.at = "record"]
           t == [s EXCEPT !.on = c]
<1>1. s \in State /\ s.at = "record" /\ s.plan = thread.plan /\ s.todo = thread.todo
      /\ s.results = thread.results
  BY DEF State, Label
<1> HIDE DEF s
<1>2. t \in State /\ t.at = "record" /\ t.plan = s.plan /\ t.todo = s.todo
      /\ t.results = s.results /\ t.on = c
  BY <1>1 DEF State
<1>3. thread' = [t EXCEPT !.result = result]
  BY DEF Conclude, s
<1> HIDE DEF t
<1> QED BY <1>1, <1>2, <1>3 DEF State, Same

\* The thread looks at the component whose turn it is.
LEMMA LookAtFacts ==
    ASSUME thread \in State, NEW c \in Component,
           thread' = [thread EXCEPT !.at = "look", !.on = c]
    PROVE  thread' \in State /\ thread'.at = "look" /\ Same /\ thread'.on = c
<1> DEFINE s == [thread EXCEPT !.at = "look"]
<1>1. s \in State /\ s.at = "look" /\ s.plan = thread.plan /\ s.todo = thread.todo
      /\ s.results = thread.results
  BY DEF State, Label
<1>2. thread' = [s EXCEPT !.on = c]
  OBVIOUS
<1> HIDE DEF s
<1> QED BY <1>1, <1>2 DEF State, Same

\* The installer has ended.
LEMMA ExitedFacts ==
    ASSUME thread \in State, NEW result \in Result,
           thread' = [thread EXCEPT !.at = "after", !.result = result]
    PROVE  thread' \in State /\ thread'.at = "after" /\ Same /\ thread'.on = thread.on
<1> DEFINE s == [thread EXCEPT !.at = "after"]
<1>1. s \in State /\ s.at = "after" /\ s.plan = thread.plan /\ s.todo = thread.todo
      /\ s.results = thread.results /\ s.on = thread.on
  BY DEF State, Label
<1>2. thread' = [s EXCEPT !.result = result]
  OBVIOUS
<1> HIDE DEF s
<1> QED BY <1>1, <1>2 DEF State, Same

\* A recorded result is remembered, and its component is done.
Remembers(c) ==
    thread' = [thread EXCEPT !.at = "next", !.todo = @ \ {c}, !.on = 0,
                             !.result = "none", !.results[c] = thread.result]
\* After it, the thread goes on without the component, and knows its result.
LEMMA RememberFacts ==
    ASSUME thread \in State, NEW c \in Component, Remembers(c)
    PROVE  /\ thread' \in State /\ thread'.at = "next" /\ thread'.plan = thread.plan
           /\ thread'.todo = thread.todo \ {c}
           /\ thread'.results = [thread.results EXCEPT ![c] = thread.result]
<1> DEFINE done == thread.todo \ {c}
           res  == [thread.results EXCEPT ![c] = thread.result]
           s1 == [thread EXCEPT !.at = "next"]
           s2 == [s1 EXCEPT !.todo = done]
           s3 == [s2 EXCEPT !.on = 0]
           s4 == [s3 EXCEPT !.result = "none"]
<1>1. done \in SUBSET Component /\ res \in Results
  BY DEF State, Results
<1>2. thread' = [s4 EXCEPT !.results = res]
  BY DEF Remembers
<1> HIDE DEF done, res
<1>3. s1 \in State /\ s1.at = "next" /\ s1.plan = thread.plan
  BY DEF State, Label
<1> HIDE DEF s1
<1>4. s2 \in State /\ s2.at = s1.at /\ s2.plan = s1.plan /\ s2.todo = done
  BY <1>1, <1>3 DEF State
<1> HIDE DEF s2
<1>5. s3 \in State /\ s3.at = s2.at /\ s3.plan = s2.plan /\ s3.todo = s2.todo
  BY <1>4 DEF State
<1> HIDE DEF s3
<1>6. s4 \in State /\ s4.at = s3.at /\ s4.plan = s3.plan /\ s4.todo = s3.todo
  BY <1>5 DEF State
<1> HIDE DEF s4
<1>7. thread' \in State /\ thread'.at = s4.at /\ thread'.plan = s4.plan
      /\ thread'.todo = s4.todo /\ thread'.results = res
  BY <1>1, <1>2, <1>6 DEF State
<1> QED BY <1>3, <1>4, <1>5, <1>6, <1>7 DEF done, res

-----------------------------------------------------------------------------
(***************************************************************************)
(* The history.                                                            *)
(***************************************************************************)
\* A damaged file is not a history.
LEMMA DamagedFacts == ASSUME NEW s \in Seq(Run) PROVE s # Damaged
<1> SUFFICES ASSUME s = Damaged PROVE FALSE
  OBVIOUS
<1>1. Len(s) = 1 /\ s[1].id = 0
  BY DEF Damaged
<1>2. s[1] \in Run
  BY <1>1
<1> QED BY <1>1, <1>2 DEF Run, PlanId

\* Opening the history changes no identifier and no result, and nothing of a run that ended.
LEMMA ReopenedFacts ==
    ASSUME NEW r \in Run
    PROVE  /\ Reopened(r) \in Run /\ Reopened(r).id = r.id /\ Reopened(r).results = r.results
           /\ r.status # "Running" => Reopened(r) = r
           /\ Reopened(r).status # "Running"
<1> DEFINE s == [r EXCEPT !.status = "Interrupted"]
<1>1. s \in Run /\ s.id = r.id /\ s.results = r.results /\ s.status = "Interrupted"
  BY DEF Run, RunStatus
<1>2. Reopened(r) = IF r.status = "Running" THEN [s EXCEPT !.current = 0] ELSE r
  BY DEF Reopened
<1> HIDE DEF s
<1> QED BY <1>1, <1>2 DEF Run

\* The run of a plan when it begins.
LEMMA NewRunFacts ==
    ASSUME NEW p \in Plan
    PROVE  /\ NewRun(p) \in Run /\ NewRun(p).id = p.id /\ NewRun(p).status = "Running"
           /\ NewRun(p).requested = p.requested /\ NewRun(p).results = NoResults
<1>1. NoResults \in Results
  BY DEF NoResults, Results
<1> QED BY <1>1 DEF NewRun, Run, RunStatus, Plan

\* The latest runs with a new one in front: the others move by one, and the oldest may leave.
LEMMA LatestFacts ==
    ASSUME NEW s \in Seq(Run), NEW r \in Run
    PROVE  LET t == Latest(<<r>> \o s) IN
           /\ t \in Seq(Run) /\ Len(t) >= 1 /\ Len(t) <= MaxHistory /\ t[1] = r
           /\ \A k \in DOMAIN t : k # 1 => k - 1 \in DOMAIN s /\ t[k] = s[k - 1]
           /\ \A k \in DOMAIN s : k < MaxHistory => k + 1 \in DOMAIN t /\ t[k + 1] = s[k]
           /\ Len(s) >= MaxHistory => Len(t) = MaxHistory
<1> DEFINE u == <<r>> \o s
           n == IF Len(u) < MaxHistory THEN Len(u) ELSE MaxHistory
<1>1. MaxHistory \in Nat /\ MaxHistory >= 1
  BY BoundAssumption
<1>2. u \in Seq(Run) /\ Len(u) = Len(s) + 1 /\ u[1] = r /\ \A k \in 1..Len(s) : u[k + 1] = s[k]
  OBVIOUS
<1>3. Latest(u) = SubSeq(u, 1, n)
  BY DEF Latest
<1> HIDE DEF u
<1>4. n \in 1..Len(u) /\ n <= MaxHistory /\ (Len(s) >= MaxHistory => n = MaxHistory)
      /\ (Len(s) < MaxHistory => n = Len(s) + 1)
  BY <1>1, <1>2
<1> HIDE DEF n
<1>5. /\ SubSeq(u, 1, n) \in Seq(Run) /\ Len(SubSeq(u, 1, n)) = n
      /\ \A k \in 1..n : SubSeq(u, 1, n)[k] = u[k]
  BY <1>2, <1>4
<1>6. ASSUME NEW k \in 1..n, k # 1 PROVE k - 1 \in 1..Len(s) /\ u[k] = s[k - 1]
  <2>1. n \in Nat /\ n <= Len(s) + 1 /\ Len(s) \in Nat
    BY <1>2, <1>4
  <2>2. k - 1 \in 1..Len(s) /\ (k - 1) + 1 = k
    BY <1>6, <2>1
  <2> QED BY <1>2, <2>2
<1>7. \A k \in 1..Len(s) : k < MaxHistory => k + 1 \in 1..n /\ u[k + 1] = s[k]
  BY <1>1, <1>2, <1>4
<1> DEFINE t == SubSeq(u, 1, n)
<1> HIDE DEF n
<1>8. /\ Len(t) >= 1 /\ Len(t) <= MaxHistory /\ t[1] = r
      /\ (Len(s) >= MaxHistory => Len(t) = MaxHistory)
  BY <1>1, <1>2, <1>4, <1>5
<1>9. DOMAIN t = 1..n /\ DOMAIN s = 1..Len(s)
  BY <1>5
<1>10. Latest(<<r>> \o s) = t
  BY <1>3 DEF u
<1>11. /\ \A k \in DOMAIN t : k # 1 => k - 1 \in DOMAIN s /\ t[k] = s[k - 1]
       /\ \A k \in DOMAIN s : k < MaxHistory => k + 1 \in DOMAIN t /\ t[k + 1] = s[k]
  BY <1>5, <1>6, <1>7, <1>9
<1>12. t \in Seq(Run)
  BY <1>5
<1> HIDE DEF t
<1> QED BY <1>8, <1>10, <1>11, <1>12

\* The run under way, and the history with this run alone changed.
LEMMA ActiveFacts ==
    ASSUME runs \in Seq(Run), Distinct(runs), \E k \in DOMAIN runs : IsOwn(runs[k])
    PROVE  /\ ActiveRun \in Run /\ IsActive(ActiveRun) /\ IsOwn(ActiveRun)
           /\ \E k \in DOMAIN runs : runs[k] = ActiveRun
           /\ \A k \in DOMAIN runs : IsActive(runs[k]) => runs[k] = ActiveRun
<1>1. \E k \in DOMAIN runs : IsActive(runs[k])
  BY DEF IsOwn
<1> DEFINE n == CHOOSE k \in DOMAIN runs : IsActive(runs[k])
<1>2. n \in DOMAIN runs /\ IsActive(runs[n])
  BY <1>1
<1>3. ActiveRun = runs[n]
  BY DEF ActiveRun
<1> HIDE DEF n
<1>4. \A k \in DOMAIN runs : IsActive(runs[k]) => k = n
  BY <1>2 DEF IsActive, Distinct
<1>5. IsOwn(runs[n])
  BY <1>4 DEF IsOwn
<1> QED BY <1>2, <1>3, <1>4, <1>5

\* It keeps the order and the identifiers of the runs.
LEMMA ChangedFacts ==
    ASSUME runs \in Seq(Run), Distinct(runs), NEW r \in Run, r.id = active
    PROVE  /\ Changed(r) \in Seq(Run) /\ DOMAIN Changed(r) = DOMAIN runs
           /\ Len(Changed(r)) = Len(runs) /\ Distinct(Changed(r))
           /\ \A k \in DOMAIN runs : /\ Changed(r)[k] = IF IsActive(runs[k]) THEN r ELSE runs[k]
                                     /\ Changed(r)[k].id = runs[k].id
<1> DEFINE t == [k \in 1..Len(runs) |-> IF IsActive(runs[k]) THEN r ELSE runs[k]]
<1>1. Changed(r) = t
  BY DEF Changed
<1>2. t \in Seq(Run) /\ DOMAIN t = DOMAIN runs /\ Len(t) = Len(runs)
  OBVIOUS
<1>3. \A k \in DOMAIN runs : t[k] = (IF IsActive(runs[k]) THEN r ELSE runs[k])
                             /\ t[k].id = runs[k].id
  BY DEF IsActive
<1> HIDE DEF t
<1>4. Distinct(t)
  BY <1>2, <1>3 DEF Distinct
<1> QED BY <1>1, <1>2, <1>3, <1>4

\* What a saved history is, whatever it contains.
LEMMA SavedFacts ==
    ASSUME NEW next \in Seq(Run), Save(next), Len(next) <= MaxHistory, Distinct(next)
    PROVE  /\ HistoryInv' /\ runs' = next /\ known' = next /\ file' = next
           /\ known' # Damaged /\ file = known /\ known # Damaged
<1>1. next # Damaged
  BY DamagedFacts
<1>2. runs' = next /\ known' = next /\ file' = next /\ file = known /\ known # Damaged
  BY DEF Save, CanSave
<1> QED BY <1>1, <1>2 DEF HistoryInv, Distinct

\* The outcome of a run is one, since only requested components have a result.
LEMMA OutcomeFacts ==
    ASSUME NEW r \in Run, NEW failed \in BOOLEAN, NEW cancelled \in BOOLEAN,
           \A c \in Component : r.results[c] # "none" => c \in r.requested
    PROVE  Outcome(r, failed, cancelled) \in RunStatus \ {"Running"}
<1>1. Successes(r) \subseteq r.requested
  BY DEF Successes
<1>2. IsFiniteSet(r.requested) /\ IsFiniteSet(Successes(r))
  BY <1>1, ComponentAssumption, FS_Subset DEF Run
<1>3. /\ Cardinality(Successes(r)) \in Nat /\ Cardinality(r.requested) \in Nat
      /\ Cardinality(Successes(r)) <= Cardinality(r.requested)
  BY <1>1, <1>2, FS_Subset, FS_CardinalityType
<1> HIDE DEF Successes
<1> QED BY <1>3 DEF Outcome, RunStatus


-----------------------------------------------------------------------------
(***************************************************************************)
(* What the thread saves.                                                  *)
(***************************************************************************)
\* The run under way, as the thread announces a component, records its result or ends.
LEMMA OwnRunFacts ==
    ASSUME TypeInv, HistoryInv, ThreadInv, UnderWay
    PROVE  /\ ActiveRun \in Run /\ IsActive(ActiveRun)
           /\ ActiveRun.requested = thread.plan.requested
           /\ ActiveRun.results = thread.results
           /\ \E k \in DOMAIN runs : runs[k] = ActiveRun
           /\ \A k \in DOMAIN runs : IsActive(runs[k]) => runs[k] = ActiveRun
BY ActiveFacts DEF TypeInv, HistoryInv, ThreadInv, IsOwn

\* As it is saved before a component is looked at.
LEMMA TurnRun ==
    ASSUME TypeInv, HistoryInv, ThreadInv, On("next"), NEW c \in Component
    PROVE  LET r == [ActiveRun EXCEPT !.current = c] IN
           /\ r \in Run /\ IsActive(r) /\ r.requested = thread.plan.requested
           /\ r.results = thread.results /\ r.current = c
<1>1. UnderWay
  BY DEF UnderWay, Executing, On
<1> QED BY <1>1, OwnRunFacts DEF Run, IsActive

\* As it is saved with the result of a component.
LEMMA RecordRun ==
    ASSUME TypeInv, HistoryInv, ThreadInv, On("record"), NEW c \in Component
    PROVE  LET r == [ActiveRun EXCEPT !.current = c, !.results[c] = thread.result] IN
           /\ r \in Run /\ IsActive(r) /\ r.requested = thread.plan.requested
           /\ r.results = [thread.results EXCEPT ![c] = thread.result]
<1> DEFINE res == [thread.results EXCEPT ![c] = thread.result]
           s == [ActiveRun EXCEPT !.current = c]
<1>1. UnderWay
  BY DEF UnderWay, Executing, On
<1>2. /\ ActiveRun \in Run /\ IsActive(ActiveRun) /\ ActiveRun.results = thread.results
      /\ ActiveRun.requested = thread.plan.requested
  BY <1>1, OwnRunFacts
<1>3. thread.results \in Results /\ thread.result \in Result \cup {"none"}
  BY DEF TypeInv, State
<1>4. res \in Results
  BY <1>3 DEF Results
<1>5. /\ s \in Run /\ IsActive(s) /\ s.results = thread.results
      /\ s.requested = thread.plan.requested
  BY <1>2 DEF Run, IsActive
<1>6. [ActiveRun EXCEPT !.current = c, !.results[c] = thread.result] = [s EXCEPT !.results = res]
  BY <1>2 DEF Run
<1> HIDE DEF res, s
<1>7. LET r == [s EXCEPT !.results = res] IN
      /\ r \in Run /\ IsActive(r) /\ r.requested = thread.plan.requested /\ r.results = res
  BY <1>4, <1>5 DEF Run, IsActive
<1> QED BY <1>6, <1>7 DEF res

\* As it is saved when it ends: it has an outcome, and the results the thread knows.
LEMMA FinishRun ==
    ASSUME TypeInv, HistoryInv, ThreadInv, On("finish")
    PROVE  LET s == [ActiveRun EXCEPT !.results = FinalResults(ActiveRun)]
               r == [s EXCEPT !.current = 0, !.status = Outcome(s, thread.failed, cancel)]
           IN /\ r \in Run /\ r.id = active /\ r.status # "Running"
              /\ r.results = thread.results
<1> DEFINE s == [ActiveRun EXCEPT !.results = FinalResults(ActiveRun)]
           t == [s EXCEPT !.current = 0]
           o == Outcome(s, thread.failed, cancel)
<1>1. UnderWay
  BY DEF UnderWay, Executing, On
<1>2. /\ ActiveRun \in Run /\ IsActive(ActiveRun) /\ ActiveRun.results = thread.results
      /\ ActiveRun.requested = thread.plan.requested
  BY <1>1, OwnRunFacts
<1>3. FinalResults(ActiveRun) = thread.results
  BY <1>2 DEF FinalResults
<1>4. /\ thread.results \in Results /\ thread.failed \in BOOLEAN /\ cancel \in BOOLEAN
      /\ \A c \in Component : thread.results[c] # "none" => c \in thread.plan.requested
  BY <1>1 DEF TypeInv, State, ThreadInv, Accounted
<1>5. s \in Run /\ s.id = active /\ s.results = thread.results
      /\ s.requested = thread.plan.requested
  BY <1>2, <1>3, <1>4 DEF Run, IsActive
<1> HIDE DEF s
<1>6. o \in RunStatus \ {"Running"}
  BY <1>4, <1>5, OutcomeFacts
<1>7. t \in Run /\ t.id = active /\ t.results = thread.results
  BY <1>5 DEF Run
<1>8. [s EXCEPT !.current = 0, !.status = o] = [t EXCEPT !.status = o]
  OBVIOUS
<1> HIDE DEF t, o
<1>9. LET r == [t EXCEPT !.status = o] IN
      r \in Run /\ r.id = active /\ r.status # "Running" /\ r.results = thread.results
  BY <1>6, <1>7 DEF Run
<1> QED BY <1>8, <1>9 DEF s, o

\* The history with the run under way changed is saved.
LEMMA OwnSaved ==
    ASSUME TypeInv, HistoryInv, ThreadInv, UnderWay, NEW r \in Run, r.id = active,
           Save(Changed(r))
    PROVE  /\ HistoryInv' /\ runs' \in Seq(Run) /\ known' = runs' /\ file' = known'
           /\ known' # Damaged /\ budget' = budget
           /\ file = known /\ known # Damaged
           /\ DOMAIN runs' = DOMAIN runs
           /\ \A k \in DOMAIN runs : /\ runs'[k].id = runs[k].id
                                     /\ runs'[k] = IF IsActive(runs[k]) THEN r ELSE runs[k]
           /\ \E k \in DOMAIN runs' : runs'[k] = r
<1>1. /\ runs \in Seq(Run) /\ Distinct(runs) /\ Len(runs) <= MaxHistory
  BY DEF TypeInv, HistoryInv
<1>2. /\ Changed(r) \in Seq(Run) /\ DOMAIN Changed(r) = DOMAIN runs
      /\ Len(Changed(r)) = Len(runs) /\ Distinct(Changed(r))
      /\ \A k \in DOMAIN runs : /\ Changed(r)[k] = IF IsActive(runs[k]) THEN r ELSE runs[k]
                                /\ Changed(r)[k].id = runs[k].id
  BY <1>1, ChangedFacts
<1>3. /\ HistoryInv' /\ runs' = Changed(r) /\ known' = Changed(r) /\ file' = Changed(r)
      /\ known' # Damaged /\ file = known /\ known # Damaged
  BY <1>1, <1>2, SavedFacts
<1>4. \E k \in DOMAIN runs : IsActive(runs[k])
  BY OwnRunFacts
<1>5. budget' = budget
  BY DEF Save, Works
<1> QED BY <1>2, <1>3, <1>4, <1>5

\* The history with the run of the plan in front is saved.
LEMMA BeginSaved ==
    ASSUME TypeInv, HistoryInv, FreshInv, On("begin"),
           Save(Latest(<<NewRun(thread.plan)>> \o runs))
    PROVE  /\ HistoryInv' /\ runs' \in Seq(Run) /\ known' = runs' /\ file' = known'
           /\ known' # Damaged /\ budget' = budget /\ file = known /\ known # Damaged
           /\ 1 \in DOMAIN runs' /\ runs'[1] = NewRun(thread.plan)
           /\ Len(runs) >= MaxHistory => Len(runs') = MaxHistory
           /\ \A k \in DOMAIN runs' : k # 1 => k - 1 \in DOMAIN runs /\ runs'[k] = runs[k - 1]
           /\ \A k \in DOMAIN runs :
                 k < MaxHistory => k + 1 \in DOMAIN runs' /\ runs'[k + 1] = runs[k]
<1> DEFINE r == NewRun(thread.plan)
           t == Latest(<<r>> \o runs)
<1>1. /\ runs \in Seq(Run) /\ Distinct(runs) /\ thread.plan \in Plan /\ Unused(thread.plan.id)
  BY DEF TypeInv, HistoryInv, FreshInv
<1>2. r \in Run /\ r.id = thread.plan.id
  BY <1>1, NewRunFacts
<1> HIDE DEF r
<1>3. /\ t \in Seq(Run) /\ Len(t) >= 1 /\ Len(t) <= MaxHistory /\ t[1] = r
      /\ \A k \in DOMAIN t : k # 1 => k - 1 \in DOMAIN runs /\ t[k] = runs[k - 1]
      /\ \A k \in DOMAIN runs : k < MaxHistory => k + 1 \in DOMAIN t /\ t[k + 1] = runs[k]
      /\ Len(runs) >= MaxHistory => Len(t) = MaxHistory
  BY <1>1, <1>2, LatestFacts
<1>4. Save(t)
  BY DEF r
<1> HIDE DEF t
<1>5. DOMAIN t \subseteq Nat
  BY <1>3
<1>6. Distinct(t)
  <2> SUFFICES ASSUME NEW j \in DOMAIN t, NEW k \in DOMAIN t, t[j].id = t[k].id
               PROVE  j = k
    BY DEF Distinct
  <2>1. CASE j = 1 \/ k = 1
    BY <1>1, <1>2, <1>3, <2>1 DEF Unused
  <2>2. CASE j # 1 /\ k # 1
    <3>1. j - 1 = k - 1
      BY <1>1, <1>3, <2>2 DEF Distinct
    <3> QED BY <1>5, <3>1
  <2> QED BY <2>1, <2>2
<1>7. /\ HistoryInv' /\ runs' = t /\ known' = t /\ file' = t
      /\ known' # Damaged /\ file = known /\ known # Damaged
  BY <1>3, <1>4, <1>6, SavedFacts
<1>8. budget' = budget /\ 1 \in DOMAIN t
  BY <1>3, <1>4 DEF Save, Works
<1> QED BY <1>3, <1>7, <1>8 DEF r

-----------------------------------------------------------------------------
(***************************************************************************)
(* The invariant, step by step.                                            *)
(***************************************************************************)

\* Where a step of the thread leads, and with what it goes on.
LEMMA TurnGoes ==
    ASSUME TypeInv, Turn
    PROVE  /\ thread' \in State /\ Same
           /\ \/ thread'.at \in {"finish", "record"}
              \/ thread'.at = "look" /\ Save(Changed([ActiveRun EXCEPT !.current = thread'.on]))
           /\ thread'.at \in {"record", "look"} => thread'.on \in thread.todo
           /\ thread'.at # "look" => UNCHANGED history
           /\ Fault \/ Works
<1>1. thread \in State
  BY DEF TypeInv
<1>2. thread.todo # {} => Next1st \in thread.todo /\ Next1st \in Component
  BY <1>1, TurnFacts
<1>3. CASE thread.todo = {} /\ Goto("finish") /\ Works /\ UNCHANGED history
  BY <1>1, <1>3, GotoFacts DEF Label
<1>4. CASE /\ Works /\ UNCHANGED history
           /\ \E c \in thread.todo : \E x \in {"SkippedAlreadyReady", "Cancelled"} :
                 Conclude(c, x)
  <2>1. thread.todo \subseteq Component
    BY <1>1 DEF State
  <2> QED BY <1>1, <1>4, <2>1, ConcludeFacts DEF Result
<1>5. CASE /\ thread.todo # {} /\ Save(Changed([ActiveRun EXCEPT !.current = Next1st]))
           /\ thread' = [thread EXCEPT !.at = "look", !.on = Next1st]
  BY <1>1, <1>2, <1>5, LookAtFacts DEF Save
<1>6. CASE SaveFails /\ Abort
  BY <1>1, <1>6, AbortFacts DEF SaveFails
<1>7. ReadyFirst \subseteq thread.todo
  BY DEF ReadyFirst
<1> QED BY <1>2, <1>3, <1>4, <1>5, <1>6, <1>7 DEF Turn, Unannounced

\* From the second detection the component is launched or concluded, or the run ends.
LEMMA LookGoes ==
    ASSUME TypeInv, Look, thread.on \in Component
    PROVE  /\ thread' \in State /\ Same /\ thread'.at \in {"record", "launch", "finish"}
           /\ thread'.at # "finish" => thread'.on = thread.on
           /\ Fault \/ Works
<1>1. thread \in State
  BY DEF TypeInv
<1>2. \/ \E x \in {"SkippedAlreadyReady", "Failed", "DependencyFailed"} :
            Conclude(thread.on, x)
      \/ Goto("launch") \/ Abort
  BY DEF Look
<1>3. Fault \/ Works
  BY DEF Look
<1> QED BY <1>1, <1>2, <1>3, ConcludeFacts, GotoFacts, AbortFacts DEF Result, Label

\* The installer runs, or its component is concluded.
LEMMA LaunchGoes ==
    ASSUME TypeInv, Launch, thread.on \in Component
    PROVE  /\ thread' \in State /\ Same /\ thread'.on = thread.on
           /\ \/ thread'.at = "record" /\ installer' = installer
              \/ thread'.at = "running" /\ installer' = thread.on
           /\ Fault \/ Works
<1>1. thread \in State
  BY DEF TypeInv
<1>2. \/ \E x \in {"Cancelled", "Failed"} :
            Conclude(thread.on, x) /\ installer' = installer
      \/ Goto("running") /\ installer' = thread.on
  BY DEF Launch
<1>3. Fault \/ Works
  BY DEF Launch
<1> QED BY <1>1, <1>2, <1>3, ConcludeFacts, GotoFacts DEF Result, Label

\* What was killed is concluded.
LEMMA KillGoes ==
    ASSUME TypeInv, Kill, thread.on \in Component
    PROVE  thread' \in State /\ Same /\ thread'.at = "record" /\ thread'.on = thread.on
<1>1. thread \in State
  BY DEF TypeInv
<1>2. \E x \in {"Cancelled", "TimedOut"} : Conclude(thread.on, x)
  BY DEF Kill
<1> QED BY <1>1, <1>2, ConcludeFacts DEF Result

\* What has ended is detected again.
LEMMA ExitGoes ==
    ASSUME TypeInv, NEW success \in BOOLEAN, Exit(success)
    PROVE  thread' \in State /\ Same /\ thread'.at = "after" /\ thread'.on = thread.on
<1>1. thread \in State
  BY DEF TypeInv
<1>2. \E x \in {"Unverified", "Failed"} : thread' = [thread EXCEPT !.at = "after", !.result = x]
  BY DEF Exit
<1> QED BY <1>1, <1>2, ExitedFacts DEF Result

\* What was detected again is concluded.
LEMMA VerifyGoes ==
    ASSUME TypeInv, Verify, thread.on \in Component
    PROVE  /\ thread' \in State /\ Same /\ thread'.at = "record" /\ thread'.on = thread.on
           /\ Fault \/ Works
<1>1. thread \in State
  BY DEF TypeInv
<1>2. Conclude(thread.on, "CompletedAndVerified") \/ Goto("record")
  BY DEF Verify
<1>3. Fault \/ Works
  BY DEF Verify
<1> QED BY <1>1, <1>2, <1>3, ConcludeFacts, GotoFacts DEF Result, Label

\* The result is saved and remembered, or the run ends.
LEMMA RecordGoes ==
    ASSUME TypeInv, Record, thread.on \in Component
    PROVE  /\ thread' \in State /\ thread'.plan = thread.plan
           /\ Fault \/ Works
           /\ \/ thread'.at = "finish" /\ Same /\ UNCHANGED history
              \/ /\ thread'.at = "next" /\ thread'.todo = thread.todo \ {thread.on}
                 /\ thread'.results = [thread.results EXCEPT ![thread.on] = thread.result]
                 /\ Save(Changed([ActiveRun EXCEPT !.current = thread.on,
                                                   !.results[thread.on] = thread.result]))
<1>1. thread \in State
  BY DEF TypeInv
<1>2. CASE SaveFails /\ Abort
  BY <1>1, <1>2, AbortFacts DEF SaveFails, Same
<1>3. CASE /\ Remembers(thread.on)
           /\ Save(Changed([ActiveRun EXCEPT !.current = thread.on,
                                             !.results[thread.on] = thread.result]))
  BY <1>1, <1>3, RememberFacts DEF Save
<1> QED BY <1>2, <1>3 DEF Record, Remembers

\* The component that the thread is concerned with is one.
LEMMA OnFacts ==
    ASSUME TypeInv, ThreadInv, Announced \/ On("record")
    PROVE  thread.on \in Component /\ thread.on \in thread.todo /\ UnderWay
BY DEF TypeInv, ThreadInv, State, Announced, On, UnderWay, Executing

\* Every step leaves values of their types.
LEMMA TypeStep == ASSUME TypeInv, HistoryInv, FreshInv, ThreadInv, [Next]_vars PROVE TypeInv'
<1>1. ASSUME NEW requested \in SUBSET Component, Preview(requested) PROVE TypeInv'
  <2>1. version \in [Component -> Version] /\ winget \in Nat
    BY DEF TypeInv
  <2>2. MaxPlans - budget.plan + 1 \in PlanId
    BY <1>1, BudgetFacts DEF Preview, TypeInv
  <2>3. plans' \subseteq Plan
    BY <1>1, <2>1, <2>2 DEF Preview, TypeInv, Plan
  <2>4. UNCHANGED <<machine, history, active, cancel, thread, installer, blind>>
    BY <1>1 DEF Preview
  <2>5. budget' \in [{"plan", "change", "mishap"} -> Nat] /\ budget'.plan <= MaxPlans
    BY <1>1, BudgetFacts, BoundAssumption DEF Preview, TypeInv
  <2> QED BY <2>3, <2>4, <2>5 DEF TypeInv, history, machine
<1>2. ASSUME NEW p \in plans, Consume(p) PROVE TypeInv'
  <2>1. p \in Plan /\ plans' \subseteq Plan
    BY <1>2 DEF Consume, WithoutPlan, TypeInv
  <2>2. thread' \in State
    <3> DEFINE begun == [Idle EXCEPT !.at = "begin", !.plan = p, !.todo = p.requested]
    <3>1. thread' = begun \/ thread' = thread
      BY <1>2 DEF Consume
    <3>2. begun \in State
      BY <2>1, IdleFacts
    <3>3. thread \in State
      BY DEF TypeInv
    <3> QED
      <4> HIDE DEF begun
      <4> QED BY <3>1, <3>2, <3>3
  <2>3. UNCHANGED <<version, winget, file, known, runs, active, cancel, installer, blind, budget>>
    BY <1>2 DEF Consume, history, machine, Works
  <2> QED BY <2>1, <2>2, <2>3 DEF TypeInv
<1>3. ASSUME BeginRun PROVE TypeInv'
  <2>1. CASE Save(Latest(<<NewRun(thread.plan)>> \o runs))
    <3>1. /\ runs' \in Seq(Run) /\ known' = runs' /\ file' = known' /\ budget' = budget
      BY <1>3, <2>1, BeginSaved DEF BeginRun
    <3>2. thread' \in State
      BY <1>3, GotoFacts, AbortFacts, IdleFacts DEF BeginRun, TypeInv, Label
    <3>3. active' \in 0..MaxPlans
      BY <1>3 DEF BeginRun, FreshInv, Plan, PlanId, TypeInv
    <3> QED BY <1>3, <3>1, <3>2, <3>3 DEF BeginRun, TypeInv, machine
  <2>2. CASE SaveFails /\ thread' = Idle /\ UNCHANGED <<active, cancel>>
    BY <1>3, <2>2, BudgetFacts, IdleFacts DEF BeginRun, SaveFails, TypeInv, history, machine
  <2> QED BY <1>3, <2>1, <2>2 DEF BeginRun
<1>4. ASSUME Turn PROVE TypeInv'
  <2>1. thread' \in State /\ (thread'.at # "look" => UNCHANGED history) /\ (Fault \/ Works)
    BY <1>4, TurnGoes
  <2>2. CASE thread'.at = "look"
    <3>1. thread'.on \in Component
      BY <1>4, <2>2, TurnGoes DEF TypeInv, State
    <3>2. LET r == [ActiveRun EXCEPT !.current = thread'.on] IN
          r \in Run /\ r.id = active /\ Save(Changed(r))
      BY <1>4, <2>2, <3>1, TurnGoes, TurnRun DEF IsActive, Turn
    <3>3. /\ runs' \in Seq(Run) /\ known' = runs' /\ file' = known' /\ budget' = budget
      BY <1>4, <3>2, OwnSaved DEF Turn, UnderWay, Executing, On
    <3> QED BY <1>4, <2>1, <3>3 DEF Turn, TypeInv, machine
  <2>3. CASE UNCHANGED history
    BY <1>4, <2>1, <2>3, BudgetFacts DEF Turn, TypeInv, history, machine
  <2> QED BY <2>1, <2>2, <2>3
<1>5. ASSUME Look PROVE TypeInv'
  <2>1. thread.on \in Component
    BY <1>5, OnFacts DEF Look, On, Announced
  <2>2. thread' \in State /\ (Fault \/ Works)
    BY <1>5, <2>1, LookGoes
  <2> QED BY <1>5, <2>2, BudgetFacts DEF Look, TypeInv, history, machine
<1>6. ASSUME Launch PROVE TypeInv'
  <2>1. thread.on \in Component
    BY <1>6, OnFacts DEF Launch, On, Announced
  <2>2. thread' \in State /\ (Fault \/ Works) /\ installer' \in {installer, thread.on}
    BY <1>6, <2>1, LaunchGoes
  <2> QED BY <1>6, <2>1, <2>2, BudgetFacts DEF Launch, TypeInv, history, machine
<1>7. ASSUME Kill PROVE TypeInv'
  <2>1. thread.on \in Component
    BY <1>7, OnFacts DEF Kill, On, Announced
  <2>2. thread' \in State
    BY <1>7, <2>1, KillGoes
  <2> QED BY <1>7, <2>2 DEF Kill, TypeInv, history, machine
<1>8. ASSUME Verify PROVE TypeInv'
  <2>1. thread.on \in Component
    BY <1>8, OnFacts DEF Verify, On, Announced
  <2>2. thread' \in State /\ (Fault \/ Works)
    BY <1>8, <2>1, VerifyGoes
  <2> QED BY <1>8, <2>2, BudgetFacts DEF Verify, TypeInv, history, machine
<1>9. ASSUME Record PROVE TypeInv'
  <2>1. thread.on \in Component
    BY <1>9, OnFacts DEF Record, On, Announced
  <2>2. thread' \in State /\ (Fault \/ Works)
    BY <1>9, <2>1, RecordGoes
  <2>3. CASE UNCHANGED history
    BY <1>9, <2>2, <2>3, BudgetFacts DEF Record, TypeInv, history, machine
  <2>4. CASE ~UNCHANGED history
    <3>1. LET r == [ActiveRun EXCEPT !.current = thread.on,
                                     !.results[thread.on] = thread.result]
          IN  r \in Run /\ r.id = active /\ Save(Changed(r))
      BY <1>9, <2>1, <2>4, RecordGoes, RecordRun DEF IsActive, Record
    <3>2. /\ runs' \in Seq(Run) /\ known' = runs' /\ file' = known' /\ budget' = budget
      BY <1>9, <3>1, OwnSaved DEF Record, UnderWay, Executing, On
    <3> QED BY <1>9, <2>2, <3>2 DEF Record, TypeInv, machine
  <2> QED BY <2>3, <2>4
<1>10. ASSUME Finish PROVE TypeInv'
  <2>1. thread' \in State
    BY <1>10, GotoFacts DEF Finish, TypeInv, Label
  <2>2. CASE SaveFails
    BY <1>10, <2>1, <2>2, BudgetFacts DEF Finish, SaveFails, TypeInv, history, machine
  <2>3. CASE ~SaveFails
    <3>1. PICK r \in Run : r.id = active /\ Save(Changed(r))
      BY <1>10, <2>3, FinishRun DEF Finish
    <3>2. /\ runs' \in Seq(Run) /\ known' = runs' /\ file' = known' /\ budget' = budget
      BY <1>10, <3>1, OwnSaved DEF Finish, UnderWay, Executing, On
    <3> QED BY <1>10, <2>1, <3>2 DEF Finish, TypeInv, machine
  <2> QED BY <2>2, <2>3
<1>11. ASSUME Drop PROVE TypeInv'
  <2>1. 0 \in 0..MaxPlans
    BY BoundAssumption
  <2> QED BY <1>11, <2>1, IdleFacts DEF Drop, TypeInv, history, machine
<1>12. ASSUME Cancel PROVE TypeInv'
  BY <1>12, BudgetFacts DEF Cancel, TypeInv, history, machine
<1>13. ASSUME Installs PROVE TypeInv'
  BY <1>13 DEF Installs, TypeInv, history, machine, Version
<1>14. ASSUME NEW success \in BOOLEAN, Exit(success) PROVE TypeInv'
  <2>1. thread' \in State
    BY <1>14, ExitGoes
  <2> QED BY <1>14, <2>1 DEF Exit, TypeInv, history, machine
<1>15. ASSUME Change PROVE TypeInv'
  <2>1. version' \in [Component -> Version] /\ winget' \in Nat
    BY <1>15 DEF Change, TypeInv, Version
  <2> QED BY <1>15, <2>1, BudgetFacts DEF Change, TypeInv, history, machine
<1>16. ASSUME Damage PROVE TypeInv'
  BY <1>16, BudgetFacts DEF Damage, TypeInv, history, machine
<1>17. ASSUME Restart PROVE TypeInv'
  <2>1. runs' \in Seq(Run)
    <3>1. CASE file = Damaged
      BY <1>17, <3>1 DEF Restart
    <3>2. CASE file # Damaged
      <4>1. file \in Seq(Run)
        BY <3>2 DEF TypeInv
      <4>2. \A k \in 1..Len(file) : Reopened(file[k]) \in Run
        BY <4>1, ReopenedFacts
      <4>3. runs' = [k \in 1..Len(file) |-> Reopened(file[k])]
        BY <1>17, <3>2, <4>1 DEF Restart
      <4> QED BY <4>1, <4>2, <4>3
    <3> QED BY <3>1, <3>2
  <2>2. Spend("mishap") /\ thread' \in State
    BY <1>17, IdleFacts DEF Restart
  <2>3. 0 \in 0..MaxPlans
    BY BoundAssumption
  <2> QED BY <1>17, <2>1, <2>2, <2>3, BudgetFacts DEF Restart, TypeInv, machine
<1>18. ASSUME UNCHANGED vars PROVE TypeInv'
  BY <1>18 DEF vars, machine, history, TypeInv, history, machine
<1> QED BY <1>1, <1>2, <1>3, <1>4, <1>5, <1>6, <1>7, <1>8, <1>9, <1>10, <1>11, <1>12, <1>13,
           <1>14, <1>15, <1>16, <1>17, <1>18 DEF Next, Thread


\* The steps of the thread that save the run under way, and what they save.
LEMMA OwnSaves ==
    ASSUME TypeInv, HistoryInv, FreshInv, ThreadInv,
           Turn \/ Record \/ Finish, ~UNCHANGED history
    PROVE  /\ UnderWay
           /\ \E r \in Run : /\ r.id = active /\ Save(Changed(r))
                             /\ \/ r.results = thread.results
                                \/ /\ thread.on \in thread.todo
                                   /\ r.results =
                                         [thread.results EXCEPT ![thread.on] = thread.result]
<1>1. CASE Turn
  <2>1. thread'.at = "look" /\ thread'.on \in Component
    BY <1>1, TurnGoes DEF TypeInv, State
  <2>2. Save(Changed([ActiveRun EXCEPT !.current = thread'.on]))
    BY <1>1, <2>1, TurnGoes
  <2> QED BY <1>1, <2>1, <2>2, TurnRun DEF Turn, IsActive, UnderWay, Executing, On
<1>2. CASE Record
  <2>1. thread.on \in Component /\ thread.on \in thread.todo
    BY <1>2, OnFacts DEF Record
  <2>2. Save(Changed([ActiveRun EXCEPT !.current = thread.on,
                                       !.results[thread.on] = thread.result]))
    BY <1>2, <2>1, RecordGoes
  <2> QED BY <1>2, <2>1, <2>2, RecordRun DEF Record, IsActive, UnderWay, Executing, On
<1>3. CASE Finish
  <2>1. ~SaveFails
    BY DEF SaveFails
  <2> QED BY <1>3, <2>1, FinishRun DEF Finish, UnderWay, Executing, On
<1> QED BY <1>1, <1>2, <1>3

\* The file, what is known of it and the runs in memory agree after every step.
LEMMA HistoryStep ==
    ASSUME TypeInv, HistoryInv, FreshInv, ThreadInv, [Next]_vars
    PROVE  HistoryInv'
<1>1. ASSUME NEW requested \in SUBSET Component, Preview(requested) PROVE HistoryInv'
  BY <1>1 DEF Preview, HistoryInv, Distinct, history
<1>2. ASSUME NEW p \in plans, Consume(p) PROVE HistoryInv'
  BY <1>2 DEF Consume, WithoutPlan, HistoryInv, Distinct, history
<1>3. ASSUME BeginRun PROVE HistoryInv'
  <2>1. CASE UNCHANGED history
    BY <2>1 DEF HistoryInv, Distinct, history
  <2>2. CASE ~UNCHANGED history
    BY <1>3, <2>2, BeginSaved DEF BeginRun, SaveFails
  <2> QED BY <2>1, <2>2
<1>4. ASSUME Turn PROVE HistoryInv'
  <2>1. CASE UNCHANGED history
    BY <2>1 DEF HistoryInv, Distinct, history
  <2>2. CASE ~UNCHANGED history
    BY <1>4, <2>2, OwnSaves, OwnSaved
  <2> QED BY <2>1, <2>2
<1>5. ASSUME Look PROVE HistoryInv'
  BY <1>5 DEF Look, HistoryInv, Distinct, history
<1>6. ASSUME Launch PROVE HistoryInv'
  BY <1>6 DEF Launch, HistoryInv, Distinct, history
<1>7. ASSUME Kill PROVE HistoryInv'
  BY <1>7 DEF Kill, HistoryInv, Distinct, history
<1>8. ASSUME Verify PROVE HistoryInv'
  BY <1>8 DEF Verify, HistoryInv, Distinct, history
<1>9. ASSUME Record PROVE HistoryInv'
  <2>1. CASE UNCHANGED history
    BY <2>1 DEF HistoryInv, Distinct, history
  <2>2. CASE ~UNCHANGED history
    BY <1>9, <2>2, OwnSaves, OwnSaved
  <2> QED BY <2>1, <2>2
<1>10. ASSUME Finish PROVE HistoryInv'
  <2>1. CASE UNCHANGED history
    BY <2>1 DEF HistoryInv, Distinct, history
  <2>2. CASE ~UNCHANGED history
    BY <1>10, <2>2, OwnSaves, OwnSaved
  <2> QED BY <2>1, <2>2
<1>11. ASSUME Drop PROVE HistoryInv'
  BY <1>11 DEF Drop, HistoryInv, Distinct, history
<1>12. ASSUME Cancel PROVE HistoryInv'
  BY <1>12 DEF Cancel, HistoryInv, Distinct, history
<1>13. ASSUME Installs PROVE HistoryInv'
  BY <1>13 DEF Installs, HistoryInv, Distinct, history
<1>14. ASSUME NEW success \in BOOLEAN, Exit(success) PROVE HistoryInv'
  BY <1>14 DEF Exit, HistoryInv, Distinct, history
<1>15. ASSUME Change PROVE HistoryInv'
  BY <1>15 DEF Change, HistoryInv, Distinct, history
<1>16. ASSUME Damage PROVE HistoryInv'
  BY <1>16 DEF Damage, HistoryInv, Distinct, history
<1>17. ASSUME Restart PROVE HistoryInv'
  <2>1. CASE file = Damaged
    <3>1. runs' = <<>> /\ known' = file' /\ file' = Damaged
      BY <1>17, <2>1 DEF Restart
    <3> QED BY <3>1, BoundAssumption DEF HistoryInv, Distinct
  <2>2. CASE file # Damaged
    <3>1. /\ file \in Seq(Run) /\ DOMAIN file = DOMAIN runs /\ Len(file) = Len(runs)
          /\ \A k \in DOMAIN file : file[k].id = runs[k].id
      BY <2>2, ReopenedFacts DEF TypeInv, HistoryInv
    <3>2. /\ file' = file /\ known' = file
          /\ runs' = [k \in 1..Len(file) |-> Reopened(file[k])]
      BY <1>17, <2>2, <3>1 DEF Restart
    <3>3. DOMAIN runs' = DOMAIN file /\ Len(runs') = Len(runs)
      BY <3>1, <3>2
    <3>4. \A k \in DOMAIN runs' : runs'[k] = Reopened(file[k]) /\ runs'[k].id = runs[k].id
      BY <3>1, <3>2, <3>3, ReopenedFacts
    <3> QED BY <2>2, <3>1, <3>2, <3>3, <3>4 DEF HistoryInv, Distinct
  <2> QED BY <2>1, <2>2
<1>18. ASSUME UNCHANGED vars PROVE HistoryInv'
  BY <1>18 DEF vars, machine, history, HistoryInv, Distinct, history
<1> QED BY <1>1, <1>2, <1>3, <1>4, <1>5, <1>6, <1>7, <1>8, <1>9, <1>10, <1>11, <1>12, <1>13,
           <1>14, <1>15, <1>16, <1>17, <1>18 DEF Next, Thread

\* No plan gets the identifier of a run or of another plan.
LEMMA FreshStep == ASSUME TypeInv, HistoryInv, FreshInv, ThreadInv, [Next]_vars PROVE FreshInv'
<1>1. ASSUME NEW requested \in SUBSET Component, Preview(requested) PROVE FreshInv'
  <2> DEFINE n == MaxPlans - budget.plan + 1
  <2>1. /\ n \in PlanId /\ budget'.plan = budget.plan - 1 /\ budget.plan \in Nat
        /\ UNCHANGED <<runs, thread>>
    BY <1>1, BudgetFacts DEF Preview, TypeInv, history
  <2>2. \A p \in plans' : p \in plans \/ p.id = n
    BY <1>1 DEF Preview
  <2>3. \A p, q \in plans' : (p.id = n /\ q.id = n) => p = q \/ p \in plans \/ q \in plans
    BY <1>1 DEF Preview
  <2>4. MaxPlans \in Nat
    BY BoundAssumption
  <2>5. n = MaxPlans - budget'.plan /\ \A x \in Int : x <= MaxPlans - budget.plan => x < n
    BY <2>1, <2>4
  <2>6. \A p \in plans : p.id \in Int /\ p.id < n
    BY <2>5 DEF FreshInv, TypeInv, Plan, PlanId
  <2>7. \A k \in DOMAIN runs : runs[k].id \in Int /\ runs[k].id < n
    <3>1. \A k \in DOMAIN runs : runs[k] \in Run
      BY DEF TypeInv
    <3> QED BY <3>1, <2>5 DEF FreshInv, Run, PlanId
  <2>8. On("begin") => thread.plan.id \in Int /\ thread.plan.id < n
    BY <2>5 DEF FreshInv, Plan, PlanId
  <2>9. \A x \in Int : x < n => x # n /\ x <= MaxPlans - budget'.plan
    BY <2>1, <2>4, <2>5
  <2> HIDE DEF n
  <2>10. n <= MaxPlans - budget'.plan
    BY <2>1, <2>4, <2>5 DEF PlanId
  <2>11. /\ \A k \in DOMAIN runs' : runs'[k].id <= MaxPlans - budget'.plan
         /\ \A p \in plans' : p.id <= MaxPlans - budget'.plan /\ Unused(p.id)
    BY <2>1, <2>2, <2>6, <2>7, <2>9, <2>10 DEF FreshInv, Unused
  <2>12. \A p, q \in plans' : p.id = q.id => p = q
    BY <2>2, <2>3, <2>6, <2>9 DEF FreshInv
  <2>13. On("begin") => \A p \in plans' : p.id # thread.plan.id
    BY <2>2, <2>8, <2>9 DEF FreshInv
  <2>14. On("begin") => thread.plan \in Plan /\ Unused(thread.plan.id)
                        /\ thread.plan.id <= MaxPlans - budget'.plan
    BY <2>8, <2>9 DEF FreshInv
  <2> QED BY <2>1, <2>11, <2>12, <2>13, <2>14 DEF FreshInv, Unused, On
<1>2. ASSUME NEW p \in plans, Consume(p) PROVE FreshInv'
  <2>1. /\ plans' = plans \ {p} /\ budget' = budget /\ runs' = runs /\ p \in Plan
        /\ thread = Idle
    BY <1>2 DEF Consume, WithoutPlan, Works, history, TypeInv
  <2>2. On("begin")' => thread'.plan = p
    BY <1>2, <2>1, IdleFacts DEF Consume, On
  <2> QED BY <2>1, <2>2 DEF FreshInv, Unused
<1>3. ASSUME BeginRun PROVE FreshInv'
  <2>1. plans' = plans /\ ~On("begin")'
    BY <1>3, GotoFacts, AbortFacts, IdleFacts DEF BeginRun, TypeInv, Label, On
  <2>2. CASE UNCHANGED history
    BY <1>3, <2>1, <2>2, BudgetFacts DEF BeginRun, SaveFails, Save, TypeInv, FreshInv, Unused,
             history
  <2>3. CASE ~UNCHANGED history
    <3>1. /\ budget' = budget
          /\ \A k \in DOMAIN runs' :
                runs'[k].id = thread.plan.id \/ \E j \in DOMAIN runs : runs'[k] = runs[j]
      BY <1>3, <2>3, BeginSaved, NewRunFacts DEF BeginRun, SaveFails, FreshInv
    <3>2. thread.plan.id <= MaxPlans - budget.plan /\ \A p \in plans : p.id # thread.plan.id
      BY <1>3 DEF BeginRun, FreshInv
    <3> QED BY <2>1, <3>1, <3>2 DEF FreshInv, Unused
  <2> QED BY <2>2, <2>3
<1>4. ASSUME Turn PROVE FreshInv'
  <2>1. budget'.plan = budget.plan /\ ~On("begin")' /\ plans' = plans
    BY <1>4, BudgetFacts, TurnGoes DEF Turn, TypeInv, On
  <2>2. CASE UNCHANGED history
    BY <2>1, <2>2 DEF FreshInv, Unused, history
  <2>3. CASE ~UNCHANGED history
    <3>1. /\ DOMAIN runs' = DOMAIN runs
          /\ \A k \in DOMAIN runs : runs'[k].id = runs[k].id
      BY <1>4, <2>3, OwnSaves, OwnSaved
    <3> QED BY <2>1, <3>1 DEF FreshInv, Unused
  <2> QED BY <2>2, <2>3
<1>5. ASSUME Look PROVE FreshInv'
  <2>0. thread.on \in Component
    BY <1>5, OnFacts DEF Look, On, Announced
  <2>1. budget'.plan = budget.plan /\ ~On("begin")' /\ plans' = plans /\ runs' = runs
    BY <1>5, BudgetFacts, <2>0, LookGoes DEF Look, TypeInv, On, history
  <2> QED BY <2>1 DEF FreshInv, Unused
<1>6. ASSUME Launch PROVE FreshInv'
  <2>0. thread.on \in Component
    BY <1>6, OnFacts DEF Launch, On, Announced
  <2>1. budget'.plan = budget.plan /\ ~On("begin")' /\ plans' = plans /\ runs' = runs
    BY <1>6, BudgetFacts, <2>0, LaunchGoes DEF Launch, TypeInv, On, history
  <2> QED BY <2>1 DEF FreshInv, Unused
<1>7. ASSUME Kill PROVE FreshInv'
  <2>0. thread.on \in Component
    BY <1>7, OnFacts DEF Kill, On, Announced
  <2>1. budget'.plan = budget.plan /\ ~On("begin")' /\ plans' = plans /\ runs' = runs
    BY <1>7, BudgetFacts, <2>0, KillGoes DEF Kill, TypeInv, On, history
  <2> QED BY <2>1 DEF FreshInv, Unused
<1>8. ASSUME Verify PROVE FreshInv'
  <2>0. thread.on \in Component
    BY <1>8, OnFacts DEF Verify, On, Announced
  <2>1. budget'.plan = budget.plan /\ ~On("begin")' /\ plans' = plans /\ runs' = runs
    BY <1>8, BudgetFacts, <2>0, VerifyGoes DEF Verify, TypeInv, On, history
  <2> QED BY <2>1 DEF FreshInv, Unused
<1>9. ASSUME Record PROVE FreshInv'
  <2>0. thread.on \in Component
    BY <1>9, OnFacts DEF Record
  <2>1. budget'.plan = budget.plan /\ ~On("begin")' /\ plans' = plans
    BY <1>9, BudgetFacts, RecordGoes, <2>0 DEF Record, TypeInv, On
  <2>2. CASE UNCHANGED history
    BY <2>1, <2>2 DEF FreshInv, Unused, history
  <2>3. CASE ~UNCHANGED history
    <3>1. /\ DOMAIN runs' = DOMAIN runs
          /\ \A k \in DOMAIN runs : runs'[k].id = runs[k].id
      BY <1>9, <2>3, OwnSaves, OwnSaved
    <3> QED BY <2>1, <3>1 DEF FreshInv, Unused
  <2> QED BY <2>2, <2>3
<1>10. ASSUME Finish PROVE FreshInv'
  <2>1. budget'.plan = budget.plan /\ ~On("begin")' /\ plans' = plans
    BY <1>10, BudgetFacts, GotoFacts DEF Finish, Save, SaveFails, TypeInv, On, Label
  <2>2. CASE UNCHANGED history
    BY <2>1, <2>2 DEF FreshInv, Unused, history
  <2>3. CASE ~UNCHANGED history
    <3>1. /\ DOMAIN runs' = DOMAIN runs
          /\ \A k \in DOMAIN runs : runs'[k].id = runs[k].id
      BY <1>10, <2>3, OwnSaves, OwnSaved
    <3> QED BY <2>1, <3>1 DEF FreshInv, Unused
  <2> QED BY <2>2, <2>3
<1>11. ASSUME Drop PROVE FreshInv'
  <2>1. budget'.plan = budget.plan /\ ~On("begin")' /\ plans' = plans /\ runs' = runs
    BY <1>11, BudgetFacts, IdleFacts DEF Drop, TypeInv, On, history
  <2> QED BY <2>1 DEF FreshInv, Unused
<1>12. ASSUME Cancel PROVE FreshInv'
  <2>1. budget'.plan = budget.plan /\ thread' = thread /\ plans' = plans /\ runs' = runs
    BY <1>12, BudgetFacts DEF Cancel, TypeInv, On, history
  <2> QED BY <2>1 DEF FreshInv, Unused, On
<1>13. ASSUME Installs PROVE FreshInv'
  <2>1. budget'.plan = budget.plan /\ thread' = thread /\ plans' = plans /\ runs' = runs
    BY <1>13, BudgetFacts DEF Installs, TypeInv, On, history
  <2> QED BY <2>1 DEF FreshInv, Unused, On
<1>14. ASSUME NEW success \in BOOLEAN, Exit(success) PROVE FreshInv'
  <2>1. budget'.plan = budget.plan /\ ~On("begin")' /\ plans' = plans /\ runs' = runs
    BY <1>14, BudgetFacts, ExitGoes DEF Exit, TypeInv, On, history
  <2> QED BY <2>1 DEF FreshInv, Unused
<1>15. ASSUME Change PROVE FreshInv'
  <2>1. budget'.plan = budget.plan /\ thread' = thread /\ plans' = plans /\ runs' = runs
    BY <1>15, BudgetFacts DEF Change, TypeInv, On, history
  <2> QED BY <2>1 DEF FreshInv, Unused, On
<1>16. ASSUME Damage PROVE FreshInv'
  <2>1. budget'.plan = budget.plan /\ thread' = thread /\ plans' = plans /\ runs' = runs
    BY <1>16, BudgetFacts DEF Damage, TypeInv, On, history
  <2> QED BY <2>1 DEF FreshInv, Unused, On
<1>17. ASSUME Restart PROVE FreshInv'
  <2>1. budget'.plan = budget.plan /\ ~On("begin")' /\ plans' = {}
    BY <1>17, BudgetFacts, IdleFacts DEF Restart, TypeInv, On
  <2>2. CASE file = Damaged
    BY <1>17, <2>1, <2>2 DEF Restart, FreshInv, Unused
  <2>3. CASE file # Damaged
    <3>1. /\ file \in Seq(Run) /\ DOMAIN file = DOMAIN runs
          /\ \A k \in DOMAIN file : file[k].id = runs[k].id
      BY <2>3, ReopenedFacts DEF TypeInv, HistoryInv
    <3>2. runs' = [k \in DOMAIN file |-> Reopened(file[k])]
      BY <1>17, <2>3 DEF Restart
    <3>3. \A k \in DOMAIN runs' : k \in DOMAIN runs /\ runs'[k].id = runs[k].id
      BY <3>1, <3>2, ReopenedFacts
    <3> QED BY <2>1, <3>3 DEF FreshInv, Unused
  <2> QED BY <2>2, <2>3
<1>18. ASSUME UNCHANGED vars PROVE FreshInv'
  BY <1>18 DEF vars, machine, history, FreshInv, Unused, On, history
<1> QED BY <1>1, <1>2, <1>3, <1>4, <1>5, <1>6, <1>7, <1>8, <1>9, <1>10, <1>11, <1>12, <1>13,
           <1>14, <1>15, <1>16, <1>17, <1>18 DEF Next, Thread


\* The thread goes on with its own run: nothing is recorded, announced or changed.
LEMMA GoesOn ==
    ASSUME ThreadInv, UnderWay, UNCHANGED <<file, known, runs, active, blind>>, Same,
           thread'.at \in {"launch", "running", "after", "record", "finish"},
           thread'.at = "finish" \/ thread'.on \in thread.todo,
           thread'.at \in {"launch", "running", "after"} => Announced /\ thread'.on = thread.on,
           installer' # 0 => thread'.at = "running" /\ installer' = thread'.on
    PROVE  ThreadInv'
<1>1. /\ thread.plan \in Plan /\ active = thread.plan.id
      /\ known # Damaged /\ known = runs /\ (~blind => file = known)
      /\ Accounted
  BY DEF ThreadInv, UnderWay
<1>2. PICK k \in DOMAIN runs : IsOwn(runs[k])
  BY DEF ThreadInv
<1>3. ~On("idle")' /\ ~On("begin")' /\ ~On("drop")'
  BY DEF On
<1>4. Accounted'
  BY <1>1 DEF Accounted, Same
<1>5. \A r : r = runs[k] => IsOwn(r)'
  BY <1>2 DEF IsOwn, IsActive, Announced, Same
<1> QED BY <1>1, <1>2, <1>3, <1>4, <1>5 DEF ThreadInv, Executing, UnderWay, Announced, On, Same


\* The thread has saved its own run, and agrees with it.
LEMMA SavedGoesOn ==
    ASSUME TypeInv, HistoryInv, ThreadInv, UnderWay, NEW r \in Run, IsActive(r),
           Save(Changed(r)), active' = active, blind' = blind,
           thread'.plan = thread.plan, thread'.at \in {"look", "next"}, Accounted',
           r.requested = thread'.plan.requested, r.results = thread'.results,
           thread'.at = "look" => thread'.on \in thread'.todo /\ r.current = thread'.on,
           installer' = 0
    PROVE  ThreadInv'
<1>1. /\ known' = runs' /\ file' = known' /\ known' # Damaged
      /\ \E k \in DOMAIN runs' : runs'[k] = r
  BY OwnSaved DEF IsActive
<1>2. thread.plan \in Plan /\ active = thread.plan.id
  BY DEF ThreadInv, UnderWay
<1>3. ~On("idle")' /\ ~On("begin")' /\ ~On("drop")' /\ ~On("record")'
  BY DEF On
<1>4. IsOwn(r)'
  BY DEF IsOwn, IsActive, Announced
<1>5. \E k \in DOMAIN runs' : IsOwn(runs[k])'
  <2>1. PICK k \in DOMAIN runs' : runs'[k] = r
    BY <1>1
  <2> QED BY <2>1, <1>4 DEF IsOwn, IsActive
<1> QED BY <1>1, <1>2, <1>3, <1>5 DEF ThreadInv, Executing, UnderWay, Announced, On

\* Nothing that concerns the thread changes, except that the file may be damaged.
LEMMA Rests ==
    ASSUME ThreadInv, UNCHANGED <<thread, known, runs, active, installer>>,
           (file' = file /\ blind' = blind) \/ blind' = (active # 0)
    PROVE  ThreadInv'
<1>1. Executing' <=> Executing
  BY DEF Executing, On
<1>2. UnderWay' <=> UnderWay
  BY DEF UnderWay, Executing, On
<1>3. Announced' <=> Announced
  BY DEF Announced
<1>4. Accounted' <=> Accounted
  BY DEF Accounted
<1>5. \A k \in DOMAIN runs : IsOwn(runs[k]) => IsOwn(runs[k])'
  BY <1>3 DEF IsOwn, IsActive
<1>6. ~Executing => active' = 0 /\ ~blind'
  BY DEF ThreadInv
<1>7. Executing => /\ thread'.plan \in Plan /\ active' = thread'.plan.id
                   /\ known' # Damaged /\ known' = runs' /\ (~blind' => file' = known')
  <2> SUFFICES ASSUME Executing
               PROVE  /\ thread.plan \in Plan /\ active = thread.plan.id
                      /\ known # Damaged /\ known = runs /\ (~blind' => file' = known)
    OBVIOUS
  <2>1. /\ thread.plan \in Plan /\ active = thread.plan.id
        /\ known # Damaged /\ known = runs /\ (~blind => file = known)
    BY DEF ThreadInv
  <2>2. active # 0
    BY <2>1 DEF Plan, PlanId
  <2>3. (file' = file /\ (~blind' => ~blind)) \/ blind'
    BY <2>2
  <2> QED BY <2>1, <2>3
<1>8. UnderWay => Accounted' /\ \E k \in DOMAIN runs' : IsOwn(runs[k])'
  BY <1>4, <1>5 DEF ThreadInv
<1> QED BY <1>1, <1>2, <1>3, <1>6, <1>7, <1>8 DEF ThreadInv, On

\* The thread, its flag and its installer agree with the run that the history has.
LEMMA ThreadStep ==
    ASSUME TypeInv, HistoryInv, FreshInv, ThreadInv, [Next]_vars
    PROVE  ThreadInv'
<1>1. ASSUME NEW requested \in SUBSET Component, Preview(requested) PROVE ThreadInv'
  BY <1>1, Rests DEF Preview, history
<1>2. ASSUME NEW p \in plans, Consume(p) PROVE ThreadInv'
  <2>1. /\ thread = Idle /\ On("idle") /\ p \in Plan /\ active = 0 /\ ~blind /\ installer = 0
        /\ UNCHANGED <<active, blind, installer, file, known, runs>>
    BY <1>2, IdleFacts DEF Consume, TypeInv, ThreadInv, Executing, On, history
  <2>2. CASE thread' = thread
    BY <2>1, <2>2, Rests
  <2>3. CASE thread' = [Idle EXCEPT !.at = "begin", !.plan = p, !.todo = p.requested]
    BY <2>1, <2>3, IdleFacts DEF ThreadInv, Executing, UnderWay, Announced, On
  <2> QED BY <1>2, <2>2, <2>3 DEF Consume
<1>3. ASSUME BeginRun PROVE ThreadInv'
  <2>1. /\ installer' = 0 /\ blind' = FALSE
    BY <1>3 DEF BeginRun, ThreadInv, Executing, On
  <2>2. CASE thread' = Idle /\ UNCHANGED active
    BY <1>3, <2>1, <2>2, IdleFacts
       DEF BeginRun, ThreadInv, Executing, UnderWay, Announced, On
  <2>3. CASE /\ Save(Latest(<<NewRun(thread.plan)>> \o runs)) /\ active' = thread.plan.id
             /\ Goto("next") \/ Abort
    <3>1. /\ known' = runs' /\ file' = known' /\ known' # Damaged
          /\ 1 \in DOMAIN runs' /\ runs'[1] = NewRun(thread.plan)
      BY <1>3, <2>3, BeginSaved DEF BeginRun
    <3>2. /\ thread'.at \in {"next", "finish"} /\ Same
      BY <2>3, GotoFacts, AbortFacts DEF TypeInv, Label
    <3>3. /\ thread.plan \in Plan /\ thread.todo = thread.plan.requested
          /\ thread.results = NoResults
      BY <1>3 DEF BeginRun, ThreadInv, FreshInv
    <3>4. Accounted'
      BY <3>2, <3>3 DEF Accounted, NoResults, Plan, Same
    <3>5. \A r : r = NewRun(thread.plan) => IsOwn(r)'
      BY <2>3, <3>2, <3>3, NewRunFacts DEF IsOwn, IsActive, Announced, Same
    <3> QED BY <2>1, <2>3, <3>1, <3>2, <3>3, <3>4, <3>5
            DEF ThreadInv, Executing, UnderWay, Announced, On, Same, IsOwn, IsActive
  <2> QED BY <1>3, <2>2, <2>3 DEF BeginRun
<1>4. ASSUME Turn PROVE ThreadInv'
  <2>1. /\ UnderWay /\ installer' = 0 /\ active' = active /\ blind' = blind
    BY <1>4 DEF Turn, ThreadInv, UnderWay, Executing, On
  <2>2. CASE thread'.at # "look"
    BY <1>4, <2>1, <2>2, TurnGoes, GoesOn DEF history
  <2>3. CASE thread'.at = "look"
    <3> DEFINE r == [ActiveRun EXCEPT !.current = thread'.on]
    <3>1. Save(Changed(r)) /\ Same /\ thread'.on \in thread.todo /\ thread'.on \in Component
      BY <1>4, <2>3, TurnGoes DEF TypeInv, State
    <3>2. /\ r \in Run /\ IsActive(r) /\ r.requested = thread.plan.requested
          /\ r.results = thread.results /\ r.current = thread'.on
      BY <1>4, <3>1, TurnRun DEF Turn
    <3> HIDE DEF r
    <3>3. Accounted'
      BY <2>1, <3>1 DEF ThreadInv, Accounted, Same
    <3> QED BY <2>1, <2>3, <3>1, <3>2, <3>3, SavedGoesOn DEF Same
  <2> QED BY <2>2, <2>3
<1>5. ASSUME Look PROVE ThreadInv'
  <2>1. /\ thread.on \in Component /\ thread.on \in thread.todo /\ UnderWay
        /\ Announced /\ ~On("running")
    BY <1>5, OnFacts DEF Look, On, Announced
  <2>2. UNCHANGED <<file, known, runs, active, blind>>
    BY <1>5 DEF Look, history
  <2>3. installer = 0 \/ On("running")
    BY DEF ThreadInv
  <2> QED BY <1>5, <2>1, <2>2, <2>3, LookGoes, GoesOn DEF Look, On, Same
<1>6. ASSUME Launch PROVE ThreadInv'
  <2>1. /\ thread.on \in Component /\ thread.on \in thread.todo /\ UnderWay
        /\ Announced /\ ~On("running")
    BY <1>6, OnFacts DEF Launch, On, Announced
  <2>2. UNCHANGED <<file, known, runs, active, blind>>
    BY <1>6 DEF Launch, history
  <2>3. installer = 0 \/ On("running")
    BY DEF ThreadInv
  <2> QED BY <1>6, <2>1, <2>2, <2>3, LaunchGoes, GoesOn DEF Launch, On, Same
<1>7. ASSUME Kill PROVE ThreadInv'
  <2>1. /\ thread.on \in Component /\ thread.on \in thread.todo /\ UnderWay
        /\ Announced
    BY <1>7, OnFacts DEF Kill, On, Announced
  <2>2. UNCHANGED <<file, known, runs, active, blind>>
    BY <1>7 DEF Kill, history
  <2>3. installer = 0 \/ On("running")
    BY DEF ThreadInv
  <2> QED BY <1>7, <2>1, <2>2, <2>3, KillGoes, GoesOn DEF Kill, On, Same
<1>8. ASSUME Verify PROVE ThreadInv'
  <2>1. /\ thread.on \in Component /\ thread.on \in thread.todo /\ UnderWay
        /\ Announced /\ ~On("running")
    BY <1>8, OnFacts DEF Verify, On, Announced
  <2>2. UNCHANGED <<file, known, runs, active, blind>>
    BY <1>8 DEF Verify, history
  <2>3. installer = 0 \/ On("running")
    BY DEF ThreadInv
  <2> QED BY <1>8, <2>1, <2>2, <2>3, VerifyGoes, GoesOn DEF Verify, On, Same
<1>9. ASSUME Record PROVE ThreadInv'
  <2>1. /\ thread.on \in Component /\ thread.on \in thread.todo /\ UnderWay
        /\ installer' = 0 /\ active' = active /\ blind' = blind
    BY <1>9, OnFacts DEF Record, ThreadInv, On
  <2>2. CASE thread'.at = "finish" /\ Same /\ UNCHANGED history
    BY <2>1, <2>2, GoesOn DEF history
  <2>3. CASE /\ thread'.at = "next" /\ thread'.todo = thread.todo \ {thread.on}
             /\ thread'.results = [thread.results EXCEPT ![thread.on] = thread.result]
             /\ Save(Changed([ActiveRun EXCEPT !.current = thread.on,
                                               !.results[thread.on] = thread.result]))
    <3> DEFINE r == [ActiveRun EXCEPT !.current = thread.on,
                                      !.results[thread.on] = thread.result]
    <3>1. /\ r \in Run /\ IsActive(r) /\ r.requested = thread.plan.requested
          /\ r.results = [thread.results EXCEPT ![thread.on] = thread.result]
          /\ Save(Changed(r))
      BY <1>9, <2>1, <2>3, RecordRun DEF Record
    <3> HIDE DEF r
    <3>2. thread'.plan = thread.plan
      BY <1>9, <2>1, RecordGoes
    <3>3. Accounted /\ thread.results \in [Component -> Result \cup {"none"}]
      BY <2>1 DEF ThreadInv, TypeInv, State, Results
    <3>4. Accounted'
      BY <2>1, <2>3, <3>2, <3>3 DEF Accounted
    <3> QED BY <2>1, <2>3, <3>1, <3>2, <3>4, SavedGoesOn
  <2> QED BY <1>9, <2>1, <2>2, <2>3, RecordGoes
<1>10. ASSUME Finish PROVE ThreadInv'
  <2>1. /\ thread'.at = "drop" /\ Same /\ thread.plan \in Plan /\ active = thread.plan.id
        /\ UnderWay /\ installer' = 0 /\ active' = active /\ blind' = blind
    BY <1>10, GotoFacts DEF Finish, TypeInv, Label, ThreadInv, UnderWay, Executing, On
  <2>2. known' # Damaged /\ known' = runs' /\ (~blind' => file' = known')
    <3>1. CASE UNCHANGED history
      BY <2>1, <3>1 DEF ThreadInv, UnderWay, history
    <3>2. CASE ~UNCHANGED history
      BY <1>10, <3>2, OwnSaves, OwnSaved
    <3> QED BY <3>1, <3>2
  <2> QED BY <2>1, <2>2 DEF ThreadInv, Executing, UnderWay, Announced, On, Same
<1>11. ASSUME Drop PROVE ThreadInv'
  <2>1. /\ thread' = Idle /\ active' = 0 /\ ~blind' /\ installer' = 0
    BY <1>11 DEF Drop, ThreadInv, On
  <2> QED BY <2>1, IdleFacts DEF ThreadInv, Executing, UnderWay, Announced, On
<1>12. ASSUME Cancel PROVE ThreadInv'
  BY <1>12, Rests DEF Cancel, history
<1>13. ASSUME Installs PROVE ThreadInv'
  BY <1>13, Rests DEF Installs, history
<1>14. ASSUME NEW success \in BOOLEAN, Exit(success) PROVE ThreadInv'
  <2>1. /\ thread.on \in Component /\ thread.on \in thread.todo /\ UnderWay
        /\ Announced
    BY <1>14, OnFacts DEF Exit, On, Announced
  <2>2. UNCHANGED <<file, known, runs, active, blind>>
    BY <1>14 DEF Exit, history
  <2>3. installer = 0 \/ On("running")
    BY DEF ThreadInv
  <2> QED BY <1>14, <2>1, <2>2, <2>3, ExitGoes, GoesOn DEF Exit, On, Same
<1>15. ASSUME Change PROVE ThreadInv'
  BY <1>15, Rests DEF Change, history
<1>16. ASSUME Damage PROVE ThreadInv'
  BY <1>16, Rests DEF Damage, history
<1>17. ASSUME Restart PROVE ThreadInv'
  <2>1. /\ thread' = Idle /\ active' = 0 /\ ~blind' /\ installer' = 0
    BY <1>17 DEF Restart
  <2> QED BY <2>1, IdleFacts DEF ThreadInv, Executing, UnderWay, Announced, On
<1>18. ASSUME UNCHANGED vars PROVE ThreadInv'
  BY <1>18, Rests DEF vars, history
<1> QED BY <1>1, <1>2, <1>3, <1>4, <1>5, <1>6, <1>7, <1>8, <1>9, <1>10, <1>11, <1>12, <1>13,
           <1>14, <1>15, <1>16, <1>17, <1>18 DEF Next, Thread


-----------------------------------------------------------------------------
(***************************************************************************)
(* The theorems.                                                           *)
(***************************************************************************)
\* The invariant holds initially.
LEMMA InitInv == Init => IInv
<1> SUFFICES ASSUME Init PROVE IInv
  OBVIOUS
<1>1. /\ 0 \in 0..MaxPlans /\ MaxPlans \in Nat /\ MaxChanges \in Nat /\ MaxMishaps \in Nat
      /\ MaxHistory \in Nat
  BY BoundAssumption
<1>2. budget \in [{"plan", "change", "mishap"} -> Nat] /\ budget.plan = MaxPlans
  BY <1>1 DEF Init
<1>3. <<>> \in Seq(Run) /\ Len(<<>>) = 0
  OBVIOUS
<1>4. TypeInv
  <2>1. version \in [Component -> Version] /\ winget \in Nat
    BY DEF Init, Version
  <2>2. /\ file \in Seq(Run) /\ known \in Seq(Run) /\ runs \in Seq(Run) /\ plans = {}
        /\ active \in 0..MaxPlans /\ cancel \in BOOLEAN /\ thread \in State /\ installer = 0
        /\ blind \in BOOLEAN
    BY <1>1, <1>3, IdleFacts DEF Init
  <2> QED BY <1>1, <1>2, <2>1, <2>2 DEF TypeInv
<1>5. HistoryInv
  BY <1>1, <1>3, DamagedFacts DEF Init, HistoryInv, Distinct
<1>6. FreshInv
  <2>1. runs = <<>> /\ plans = {} /\ ~On("begin")
    BY IdleFacts DEF Init, On
  <2>2. \A k \in DOMAIN runs : FALSE
    BY <2>1
  <2> QED BY <2>1, <2>2 DEF FreshInv
<1>7. ThreadInv
  BY IdleFacts DEF Init, ThreadInv, Executing, UnderWay, Announced, On
<1> QED BY <1>4, <1>5, <1>6, <1>7 DEF IInv

\* It is inductive.
LEMMA StepInv == IInv /\ [Next]_vars => IInv'
BY TypeStep, HistoryStep, FreshStep, ThreadStep DEF IInv

\* The file, the runs in memory, the plans and the thread agree in every reachable state.
THEOREM Inductive == Spec => []IInv
<1>1. Init => IInv
  BY InitInv
<1>2. IInv /\ [Next]_vars => IInv'
  BY StepInv
<1> QED BY <1>1, <1>2, PTL DEF Spec

\* Whenever an installer runs, the history on disk names it in the Running run that Cancel
\* reaches, unless the file was damaged during that very run.
THEOREM PreparedHolds == Spec => []Prepared
<1>1. ASSUME IInv PROVE Prepared
  <2> SUFFICES ASSUME installer # 0, ~blind
               PROVE  /\ file # Damaged
                      /\ \E k \in DOMAIN file :
                            /\ file[k].id = active /\ file[k].status = "Running"
                            /\ file[k].current = installer
                            /\ installer \in file[k].requested
    BY DEF Prepared
  <2>1. On("running") /\ installer = thread.on
    BY <1>1 DEF IInv, ThreadInv
  <2>2. UnderWay /\ Executing /\ Announced
    BY <2>1 DEF UnderWay, Executing, Announced, On
  <2>3. /\ file = runs /\ known # Damaged /\ file = known /\ thread.on \in thread.todo
        /\ thread.todo \subseteq thread.plan.requested
    BY <1>1, <2>2 DEF IInv, ThreadInv, Accounted
  <2>4. PICK k \in DOMAIN runs : IsOwn(runs[k])
    BY <1>1, <2>2 DEF IInv, ThreadInv
  <2> QED BY <2>1, <2>2, <2>3, <2>4 DEF IsOwn, IsActive
<1> QED BY <1>1, Inductive, PTL

\* A run leaves the history only as the oldest of a full one, a run that ended never
\* changes, and the result of a component is never lost or changed.
THEOREM StandsHolds == Spec => HistoryStands
<1> DEFINE Kept(k) ==
       \/ k = MaxHistory /\ Len(file') = MaxHistory /\ file'[1].id # file[1].id
       \/ \E j \in DOMAIN file' :
             /\ file'[j].id = file[k].id
             /\ file[k].status # "Running" => file'[j] = file[k]
             /\ \A c \in Component :
                   file[k].results[c] # "none" => file'[j].results[c] = file[k].results[c]
<1>1. ASSUME IInv, [Next]_vars, file # Damaged, file' # Damaged, NEW k \in DOMAIN file
      PROVE  Kept(k)
  <2>1. TypeInv /\ HistoryInv /\ FreshInv /\ ThreadInv
    BY <1>1 DEF IInv
  <2>2. CASE file' = file
    BY <2>2
  <2>3. CASE file' # file
    <3>1. /\ ~UNCHANGED history /\ (BeginRun \/ Turn \/ Record \/ Finish)
      <4>1. ASSUME NEW requested \in SUBSET Component PROVE ~Preview(requested)
        BY <2>3 DEF Preview, history
      <4>2. ASSUME NEW p \in plans PROVE ~Consume(p)
        BY <2>3 DEF Consume, history
      <4>3. ~(Look \/ Launch \/ Kill \/ Verify \/ Drop)
        BY <2>3 DEF Look, Launch, Kill, Verify, Drop, history
      <4>4. ASSUME NEW success \in BOOLEAN PROVE ~Exit(success)
        BY <2>3 DEF Exit, history
      <4>5. ~(Cancel \/ Installs \/ Change \/ Damage \/ Restart)
        BY <1>1, <2>3 DEF Cancel, Installs, Change, Damage, Restart, history
      <4>6. Next
        BY <1>1, <2>3 DEF vars, history
      <4> QED BY <2>3, <4>1, <4>2, <4>3, <4>4, <4>5, <4>6 DEF Next, Thread, history
    <3>2. /\ file = known /\ file \in Seq(Run) /\ DOMAIN file = DOMAIN runs /\ k \in DOMAIN runs
          /\ Len(file) = Len(runs) /\ file[k] \in Run
          /\ runs[k].id = file[k].id /\ runs[k].results = file[k].results
          /\ file[k].status # "Running" => runs[k] = file[k]
          /\ runs[k] \in Run
      BY <1>1, <2>1, ReopenedFacts DEF TypeInv, HistoryInv
    <3>3. CASE BeginRun
      <4>1. Save(Latest(<<NewRun(thread.plan)>> \o runs)) /\ On("begin")
        BY <3>1, <3>3 DEF BeginRun, SaveFails
      <4>2. /\ file' = runs' /\ 1 \in DOMAIN runs' /\ runs'[1] = NewRun(thread.plan)
            /\ Len(runs) >= MaxHistory => Len(runs') = MaxHistory
            /\ k < MaxHistory => k + 1 \in DOMAIN runs' /\ runs'[k + 1] = runs[k]
        BY <2>1, <3>2, <4>1, BeginSaved
      <4>3. CASE k < MaxHistory
        BY <3>2, <4>2, <4>3
      <4>4. CASE ~(k < MaxHistory)
        <5>1. /\ k \in 1..Len(runs) /\ Len(runs) <= MaxHistory /\ MaxHistory \in Nat
              /\ Len(runs) \in Nat
          BY <2>1, <3>2, BoundAssumption DEF HistoryInv
        <5>2. k = MaxHistory /\ Len(runs) >= MaxHistory /\ 1 \in DOMAIN runs
          BY <4>4, <5>1
        <5>3. file[1].id = runs[1].id
          BY <2>1, <3>2, <5>2, ReopenedFacts DEF HistoryInv, TypeInv
        <5>4. file'[1].id # runs[1].id
          BY <2>1, <4>1, <4>2, <5>2, NewRunFacts DEF FreshInv, Unused
        <5> QED BY <4>2, <5>2, <5>3, <5>4
      <4> QED BY <4>3, <4>4
    <3>4. CASE Turn \/ Record \/ Finish
      <4>1. UnderWay
        BY <2>1, <3>1, <3>4, OwnSaves
      <4>2. PICK r \in Run :
               /\ r.id = active /\ Save(Changed(r))
               /\ \/ r.results = thread.results
                  \/ /\ thread.on \in thread.todo
                     /\ r.results = [thread.results EXCEPT ![thread.on] = thread.result]
        BY <2>1, <3>1, <3>4, OwnSaves
      <4>3. /\ file' = runs' /\ k \in DOMAIN file' /\ file'[k].id = file[k].id
            /\ file'[k] = IF IsActive(runs[k]) THEN r ELSE runs[k]
        BY <2>1, <3>2, <4>1, <4>2, OwnSaved
      <4>4. CASE ~IsActive(runs[k])
        BY <3>2, <4>3, <4>4
      <4>5. CASE IsActive(runs[k])
        <5>1. file[k].status = "Running"
          BY <3>2, <4>5, ReopenedFacts DEF IsActive
        <5>2. runs[k].results = thread.results
          BY <2>1, <3>2, <4>1, <4>5, OwnRunFacts
        <5>3. \A c \in thread.todo : thread.results[c] = "none"
          BY <2>1, <4>1 DEF ThreadInv, Accounted
        <5>4. thread.results \in [Component -> Result \cup {"none"}]
          BY <2>1 DEF TypeInv, State, Results
        <5>5. \A c \in Component : file[k].results[c] # "none" => r.results[c] = file[k].results[c]
          BY <3>2, <4>2, <5>2, <5>3, <5>4
        <5> QED BY <4>3, <4>5, <5>1, <5>5
      <4> QED BY <4>4, <4>5
    <3> QED BY <3>1, <3>3, <3>4
  <2> QED BY <2>2, <2>3
<1>2. IInv /\ [Next]_vars =>
         ((file # Damaged /\ file' # Damaged) => \A k \in DOMAIN file : Kept(k))
  BY <1>1
<1>3. Spec => [][(file # Damaged /\ file' # Damaged) => \A k \in DOMAIN file : Kept(k)]_vars
  BY <1>2, Inductive, PTL DEF Spec
<1> QED BY <1>3 DEF HistoryStands
=============================================================================
