------------------------- MODULE DeploymentProofs --------------------------
(***************************************************************************)
(* Proofs about Deployment, for any number of instances, connections,      *)
(* targets and plans: what state.json says we own is what the clients      *)
(* hold, a plan writes at most once and only what was reviewed, and a      *)
(* pending journal keeps every other write waiting.                        *)
(***************************************************************************)
EXTENDS Deployment, TLAPS

-----------------------------------------------------------------------------
(***************************************************************************)
(* The inductive invariant.                                                *)
(***************************************************************************)
Budget == [plan : 0..MaxPlans, save : 0..MaxSaves, edit : Nat, fault : Nat, restart : Nat]

\* The lease is held by the one instance that executes a plan.
LeaseInv == \A i \in Instance : /\ pc[i] # "idle" <=> lease = i
                                /\ pc[i] # "idle" => run[i] # NoPlan

\* What a reviewed plan will write, and the proofs it will record, follow from what
\* was read for it.
Requested(p) == /\ p.ctx.conns[p.conn] # 0
                /\ p.purpose = "revoke" => p.targets = Owned(p.ctx, p.conn)
WellMade(p) ==
    /\ Requested(p)
    /\ p.proofs = ProofsAfter(p.ctx.proofs, p.conn, p.targets, p.purpose)
    /\ \A t \in p.targets :
          p.after[t] = Desired(p.before, p.conn, t,
                               IF p.purpose = "deploy" THEN p.ctx.conns[p.conn] ELSE 0)

PlansInv == \A i \in Instance :
    /\ preview[i] # NoPlan => Requested(preview[i])
    /\ \A p \in plans[i] : WellMade(p)
    /\ run[i] # NoPlan => WellMade(run[i])

\* An identifier was given out, and no plan of it has begun to write or was recorded.
Issued(id) == id <= MaxPlans - budget.plan
Waiting(id) == Issued(id) /\ begun[id] = 0 /\ id \notin audited

BeforeBegin == {"validate", "begin"}
AfterBegin  == {"write", "audit", "failed", "complete", "clear"}

\* A plan is prepared, stored and executed under an identifier of its own.
IdsInv ==
    /\ \A id \in PlanId : /\ begun[id] <= 1
                          /\ begun[id] > 0 => Issued(id)
                          /\ id \in audited => begun[id] > 0
    /\ \A i \in Instance :
          /\ preview[i] # NoPlan => Waiting(preview[i].id)
          /\ \A p \in plans[i] : Waiting(p.id)
          /\ pc[i] \in BeforeBegin => Waiting(run[i].id)
    /\ \A i, j \in Instance :
          /\ preview[i] # NoPlan /\ preview[j] # NoPlan /\ preview[i].id = preview[j].id => i = j
          /\ \A p \in plans[i] : preview[j] # NoPlan => p.id # preview[j].id
          /\ \A p \in plans[i], q \in plans[j] : p.id = q.id => i = j /\ p = q
          /\ pc[i] \in BeforeBegin =>
                /\ preview[j] # NoPlan => run[i].id # preview[j].id
                /\ \A p \in plans[j] : run[i].id # p.id

OfPlan(p) == /\ journal # NoJournal /\ journal.id = p.id /\ journal.targets = p.targets
             /\ journal.before = p.before /\ journal.after = p.after

\* What an executing instance relies on at each label.
RunAt(i) == LET p == run[i] IN
    /\ pc[i] = "begin" => state = p.ctx /\ journal = NoJournal
    /\ pc[i] \in AfterBegin => OfPlan(p) /\ begun[p.id] = 1
    /\ pc[i] \in {"write", "audit", "failed"} => state = p.ctx /\ p.id \notin audited
    /\ pc[i] = "write" => \A t \in p.targets \ stray : content[t] = p.before[t]
    /\ pc[i] \in {"audit", "failed"} => journal.phase # "Committed"
    /\ pc[i] = "complete" => p.id \in audited
    /\ pc[i] = "clear" => journal.phase \in {"Committed", "RolledBack"}

RunInv == \A i \in Instance : RunAt(i)

\* A target holds the configurations that these proofs claim, and no other of ours,
\* those aside that were put back although they were recorded.
Agrees(holds, proofs, t) ==
    \A c \in Connection : <<c, t>> \notin undone => (holds[c] # 0 <=> <<c, t>> \in proofs)

\* A pending journal says what its targets may hold, and which of its two sides the
\* proofs in state.json describe.
JournalInv == journal # NoJournal =>
    /\ \A t \in journal.targets \ stray : content[t] \in {journal.before[t], journal.after[t]}
    /\ journal.phase = "RolledBack" =>
          \A t \in journal.targets \ stray : content[t] = journal.before[t]
    /\ journal.phase = "Committed" => journal.id \in audited
    /\ \A t \in journal.targets \ stray :
          IF journal.id \in audited THEN Agrees(content[t], state.proofs, t)
                                    ELSE Agrees(journal.before[t], state.proofs, t)

IInv == /\ TypeOK /\ budget \in Budget /\ LeaseInv /\ PlansInv /\ IdsInv /\ RunInv
        /\ JournalInv /\ OwnershipIsTrue /\ ProofsAreSound

-----------------------------------------------------------------------------
(***************************************************************************)
(* Lemmas about the records of Deployment.                                 *)
(***************************************************************************)
LEMMA PlanIdFacts == MaxPlans \in Nat /\ MaxSaves \in Nat /\ 0 \notin PlanId
BY BoundAssumption DEF PlanId

LEMMA PlanFields ==
    ASSUME NEW p \in Plan
    PROVE  /\ p # NoPlan /\ p.id \in PlanId /\ p.purpose \in Purpose /\ p.conn \in Connection
           /\ p.targets \subseteq Target /\ p.ctx \in State
           /\ p.before \in Contents /\ p.after \in Contents /\ p.proofs \subseteq Proof
BY PlanIdFacts DEF Plan, NoPlan

LEMMA PreviewFields ==
    ASSUME NEW p \in Preview
    PROVE  /\ p # NoPlan /\ p.id \in PlanId /\ p.purpose \in Purpose /\ p.conn \in Connection
           /\ p.targets \subseteq Target /\ p.ctx \in State
BY PlanIdFacts DEF Preview, NoPlan

LEMMA JournalFields ==
    ASSUME NEW j \in Journal
    PROVE  /\ j # NoJournal /\ j.id \in PlanId /\ j.targets \subseteq Target
           /\ j.before \in Contents /\ j.after \in Contents /\ j.phase \in Phase
BY PlanIdFacts DEF Journal, NoJournal

\* Recording a phase touches the phase only.
LEMMA PhaseFields ==
    ASSUME NEW j \in Journal, NEW ph \in Phase
    PROVE  LET k == [j EXCEPT !.phase = ph] IN
           /\ k \in Journal /\ k.id = j.id /\ k.targets = j.targets
           /\ k.before = j.before /\ k.after = j.after /\ k.phase = ph
BY DEF Journal

LEMMA StateFields ==
    ASSUME NEW s \in State
    PROVE  /\ s.rev \in Nat /\ s.conns \in [Connection -> Version]
           /\ s.off \subseteq Connection /\ s.proofs \subseteq Proof
BY DEF State

\* A bound that is spent is spent once; no other bound changes.
LEMMA SpendType ==
    ASSUME budget \in Budget, NEW k \in {"plan", "save", "edit", "fault", "restart"}, Spend(k)
    PROVE  /\ budget' \in Budget
           /\ k # "plan" => budget'.plan = budget.plan
           /\ k = "plan" => budget.plan > 0 /\ budget'.plan = budget.plan - 1
<1>1. CASE k = "plan"    BY <1>1, PlanIdFacts DEF Budget, Spend
<1>2. CASE k = "save"    BY <1>2, PlanIdFacts DEF Budget, Spend
<1>3. CASE k = "edit"    BY <1>3 DEF Budget, Spend
<1>4. CASE k = "fault"   BY <1>4 DEF Budget, Spend
<1>5. CASE k = "restart" BY <1>5 DEF Budget, Spend
<1> QED BY <1>1, <1>2, <1>3, <1>4, <1>5

LEMMA FaultType ==
    ASSUME budget \in Budget, Fault \/ Works
    PROVE  budget' \in Budget /\ budget'.plan = budget.plan
BY SpendType DEF Fault, Works

-----------------------------------------------------------------------------
(***************************************************************************)
(* Lemmas about the operators.                                             *)
(***************************************************************************)
LEMMA ProofsType ==
    ASSUME NEW proofs \in SUBSET Proof, NEW c \in Connection, NEW ts \in SUBSET Target,
           NEW purpose
    PROVE  ProofsAfter(proofs, c, ts, purpose) \subseteq Proof
BY DEF ProofsAfter, KeptProofs, Proof

LEMMA DesiredType ==
    ASSUME NEW live \in Contents, NEW c \in Connection, NEW t \in Target, NEW v \in Version
    PROVE  Desired(live, c, t, v) \in [Holder -> Version]
BY PlanIdFacts DEF Desired, Contents, Version, Holder

\* The proofs of targets that a plan does not touch stay.
LEMMA ProofsElsewhere ==
    ASSUME NEW proofs, NEW c, NEW ts, NEW purpose, NEW d, NEW t, t \notin ts
    PROVE  <<d, t>> \in ProofsAfter(proofs, c, ts, purpose) <=> <<d, t>> \in proofs
BY DEF ProofsAfter, KeptProofs

\* A plan that starts from a target as the proofs describe it ends in the target as
\* the new proofs describe it; for what it decides anew, wherever it starts from.
LEMMA PlanAgrees ==
    ASSUME NEW p \in Plan, WellMade(p), NEW t \in p.targets, NEW c \in Connection,
           \/ t \in Route \/ c = p.conn
           \/ p.before[t][c] # 0 <=> <<c, t>> \in p.ctx.proofs
    PROVE  p.after[t][c] # 0 <=> <<c, t>> \in p.proofs
<1> DEFINE v == IF p.purpose = "deploy" THEN p.ctx.conns[p.conn] ELSE 0
<1>1. p.after[t] = Desired(p.before, p.conn, t, v)
      BY DEF WellMade
<1>2. v # 0 <=> p.purpose = "deploy"
      BY DEF WellMade, Requested
<1>3. /\ p.conn \in Connection /\ t \in Target /\ p.before[t] \in [Holder -> Version]
      /\ c \in Holder /\ p.conn \in Holder
      BY PlanFields DEF Contents, Holder
<1> HIDE DEF v
<1>4. p.proofs = ProofsAfter(p.ctx.proofs, p.conn, p.targets, p.purpose)
      BY DEF WellMade
<1>5. <<c, t>> \in p.proofs <=>
         \/ <<c, t>> \in p.ctx.proofs /\ ~(t \in Route \/ c = p.conn)
         \/ p.purpose = "deploy" /\ c = p.conn
      BY <1>4 DEF ProofsAfter, KeptProofs
<1>6. CASE t \in Route
      BY <1>1, <1>2, <1>3, <1>5, <1>6 DEF Desired
<1>7. CASE t \notin Route
      BY <1>1, <1>2, <1>3, <1>5, <1>7 DEF Desired
<1> QED BY <1>6, <1>7

\* What an audit saves.
LEMMA CommittedFields ==
    ASSUME TypeOK, NEW i \in Instance, run[i] \in Plan
    PROVE  LET p == run[i] IN
           /\ Committed(i) \in State
           /\ Committed(i).proofs = IF Failed(i) THEN state.proofs ELSE p.proofs
           /\ Committed(i).conns = IF ~Failed(i) /\ p.purpose = "revoke"
                                   THEN [state.conns EXCEPT ![p.conn] = 0] ELSE state.conns
<1> DEFINE p == run[i]
           s == [state EXCEPT !.rev = @ + 1]
           r == [s EXCEPT !.proofs = p.proofs]
           q == [r EXCEPT !.conns = [@ EXCEPT ![p.conn] = 0]]
<1>. state \in State
     BY DEF TypeOK
<1>1. s \in State /\ s.proofs = state.proofs /\ s.conns = state.conns
      BY DEF State
<1>2. p.proofs \subseteq Proof /\ 0 \in Version
      BY PlanFields, PlanIdFacts DEF Version
<1>3. r \in State /\ r.proofs = p.proofs /\ r.conns = state.conns
      BY <1>1, <1>2 DEF State
<1>4. q \in State /\ q.proofs = p.proofs
      /\ q.conns = [state.conns EXCEPT ![p.conn] = 0]
      BY <1>2, <1>3 DEF State
<1>5. CASE Failed(i)
      BY <1>1, <1>5 DEF Committed
<1>6. CASE ~Failed(i) /\ p.purpose # "revoke"
  <2>1. Committed(i) = r
        BY <1>6, <1>1, <1>3, <1>2 DEF Committed, Applied, State, TypeOK
  <2> QED BY <2>1, <1>3, <1>6
<1>7. CASE ~Failed(i) /\ p.purpose = "revoke"
  <2>1. Committed(i) = q
        BY <1>7, <1>1, <1>3, <1>2 DEF Committed, Applied, State, TypeOK
  <2> QED BY <2>1, <1>4, <1>7
<1> QED BY <1>5, <1>6, <1>7

LEMMA RestoreType ==
    ASSUME TypeOK, NEW p \in Plan \cup Journal, NEW left, Restore(p, left)
    PROVE  content' \in Contents
<1>1. p.before \in Contents
      BY PlanFields, JournalFields
<1> QED BY <1>1 DEF Restore, Contents, TypeOK

\* The command returns: whoever held the lease was the only one to execute.
LEMMA ReturnFrees ==
    ASSUME TypeOK, LeaseInv, NEW i \in Instance, pc[i] # "idle", Return(i)
    PROVE  /\ \A j \in Instance : pc'[j] = "idle" /\ run'[j] \in {run[j], NoPlan}
           /\ LeaseInv'
<1>1. \A j \in Instance : pc[j] # "idle" => j = i
      BY DEF LeaseInv
<1>2. \A j \in Instance : pc'[j] = "idle" /\ run'[j] \in {run[j], NoPlan}
      BY <1>1 DEF Return, Goto, TypeOK
<1> QED BY <1>2, NobodyAssumption DEF LeaseInv, Return

LEMMA Executing ==
    ASSUME TypeOK, LeaseInv, NEW i \in Instance, pc[i] # "idle"
    PROVE  /\ run[i] \in Plan /\ lease = i
           /\ \A j \in Instance : pc[j] # "idle" => j = i
BY DEF LeaseInv, TypeOK

LEMMA AllIdle ==
    ASSUME TypeOK, LeaseInv, lease = Nobody
    PROVE  \A j \in Instance : pc[j] = "idle"
BY NobodyAssumption DEF LeaseInv

-----------------------------------------------------------------------------
(***************************************************************************)
(* Type correctness, one lemma per action or group of actions.             *)
(***************************************************************************)
Typed == TypeOK /\ budget \in Budget

\* The identifier of the next plan.
LEMMA NextId ==
    ASSUME Typed, Spend("plan")
    PROVE  /\ MaxPlans - budget.plan + 1 \in PlanId
           /\ MaxPlans - budget.plan + 1 = MaxPlans - budget'.plan
BY SpendType, PlanIdFacts DEF Typed, Budget, PlanId

LEMMA PreviewContextType ==
    ASSUME Typed, NEW i \in Instance, NEW c \in Connection, NEW purpose \in Purpose,
           NEW ts \in SUBSET Target, PreviewContext(i, c, purpose, ts)
    PROVE  Typed'
<1> DEFINE q == [id |-> MaxPlans - budget.plan + 1, purpose |-> purpose, conn |-> c,
                 targets |-> ts, ctx |-> state]
<1>1. q \in Preview
      BY NextId DEF PreviewContext, Preview, Typed, TypeOK
<1>2. preview' \in [Instance -> Preview \cup {NoPlan}]
      BY <1>1 DEF PreviewContext, Typed, TypeOK
<1>3. budget' \in Budget
      BY SpendType DEF PreviewContext, Typed
<1> QED BY <1>2, <1>3 DEF PreviewContext, Typed, TypeOK, disk, aux

\* The plan that an instance stores for its preview.
VersionOf(p) == IF p.purpose = "deploy" THEN p.ctx.conns[p.conn] ELSE 0
Stored(p) ==
    [id |-> p.id, purpose |-> p.purpose, conn |-> p.conn, targets |-> p.targets,
     ctx |-> p.ctx, before |-> content,
     after |-> [t \in Target |-> IF t \in p.targets
                                 THEN Desired(content, p.conn, t, VersionOf(p))
                                 ELSE content[t]],
     proofs |-> ProofsAfter(p.ctx.proofs, p.conn, p.targets, p.purpose)]

LEMMA PreviewTargetsStores ==
    ASSUME NEW i \in Instance, PreviewTargets(i)
    PROVE  /\ preview[i] # NoPlan
           /\ preview' = [preview EXCEPT ![i] = NoPlan]
           /\ plans' = [plans EXCEPT ![i] = @ \cup {Stored(preview[i])}] \/ plans' = [plans EXCEPT ![i] = @]
BY DEF PreviewTargets, Stored, VersionOf

LEMMA StoredType ==
    ASSUME Typed, NEW p \in Preview
    PROVE  Stored(p) \in Plan
<1>1. VersionOf(p) \in Version
      BY PreviewFields, StateFields, PlanIdFacts DEF VersionOf, Version
<1>2. p.conn \in Connection /\ content \in Contents
      BY PreviewFields DEF Typed, TypeOK
<1> DEFINE after == [t \in Target |-> IF t \in p.targets
                                      THEN Desired(content, p.conn, t, VersionOf(p))
                                      ELSE content[t]]
<1>3. after \in Contents
      BY <1>1, <1>2, DesiredType DEF Contents
<1>4. ProofsAfter(p.ctx.proofs, p.conn, p.targets, p.purpose) \subseteq Proof
      BY PreviewFields, StateFields, ProofsType
<1> HIDE DEF after
<1> QED BY <1>2, <1>3, <1>4, PreviewFields DEF Stored, Plan, after

LEMMA PreviewTargetsType ==
    ASSUME Typed, NEW i \in Instance, PreviewTargets(i)
    PROVE  Typed'
<1>1. preview[i] \in Preview
      BY PreviewTargetsStores DEF Typed, TypeOK
<1>2. preview' \in [Instance -> Preview \cup {NoPlan}]
      BY PreviewTargetsStores DEF Typed, TypeOK
<1>3. plans' \in [Instance -> SUBSET Plan]
      BY <1>1, StoredType, PreviewTargetsStores DEF Typed, TypeOK
<1> QED BY <1>2, <1>3 DEF PreviewTargets, Typed, TypeOK, disk, aux

LEMMA ApplyType ==
    ASSUME Typed, NEW i \in Instance, NEW p \in plans[i], Apply(i, p)
    PROVE  Typed'
BY DEF Apply, WithoutPlan, Goto, Typed, TypeOK, Label, disk, aux

LEMMA ReturnType ==
    ASSUME Typed, NEW i \in Instance, Return(i)
    PROVE  /\ pc' \in [Instance -> Label] /\ run' \in [Instance -> Plan \cup {NoPlan}]
           /\ lease' \in Instance \cup {Nobody}
BY DEF Return, Goto, Typed, TypeOK, Label

LEMMA GotoType ==
    ASSUME Typed, NEW i \in Instance, NEW label \in Label, Goto(i, label),
           UNCHANGED <<run, lease>>
    PROVE  /\ pc' \in [Instance -> Label] /\ run' \in [Instance -> Plan \cup {NoPlan}]
           /\ lease' \in Instance \cup {Nobody}
BY DEF Goto, Typed, TypeOK

LEMMA PhaseType ==
    ASSUME Typed, journal # NoJournal, NEW ph \in Phase,
           journal' = [journal EXCEPT !.phase = ph]
    PROVE  journal' \in Journal
BY PhaseFields DEF Typed, TypeOK

LEMMA ValidateType ==
    ASSUME Typed, NEW i \in Instance, Validate(i)
    PROVE  Typed'
<1>1. \/ Goto(i, "begin") /\ UNCHANGED <<run, lease>>
      \/ Return(i)
      BY DEF Validate
<1>2. /\ pc' \in [Instance -> Label] /\ run' \in [Instance -> Plan \cup {NoPlan}]
      /\ lease' \in Instance \cup {Nobody}
      BY <1>1, GotoType, ReturnType DEF Label
<1> QED BY <1>2 DEF Validate, Typed, TypeOK, disk, aux

LEMMA BeginType ==
    ASSUME Typed, LeaseInv, NEW i \in Instance, Begin(i)
    PROVE  Typed'
<1>1. run[i] \in Plan
      BY Executing DEF Begin, Typed
<1>2. journal' \in Journal \cup {NoJournal}
      BY <1>1, PlanFields DEF Begin, Journal, Phase, Typed, TypeOK
<1>3. begun' \in [PlanId -> Nat]
      BY <1>1, PlanFields DEF Begin, Typed, TypeOK
<1>4. /\ pc' \in [Instance -> Label] /\ run' \in [Instance -> Plan \cup {NoPlan}]
      /\ lease' \in Instance \cup {Nobody}
      BY GotoType, ReturnType DEF Begin, Label
<1>5. budget' \in Budget
      BY FaultType DEF Begin, Typed
<1> QED BY <1>2, <1>3, <1>4, <1>5 DEF Begin, Typed, TypeOK

\* What an instance that has begun to write finds on disk.
LEMMA OnDisk ==
    ASSUME Typed, LeaseInv, RunInv, NEW i \in Instance, pc[i] \in AfterBegin
    PROVE  /\ run[i] \in Plan /\ journal \in Journal /\ journal # NoJournal
           /\ journal.id = run[i].id /\ journal.targets = run[i].targets
           /\ journal.before = run[i].before /\ journal.after = run[i].after
BY Executing DEF RunInv, RunAt, OfPlan, AfterBegin, Typed, TypeOK

LEMMA WriteType ==
    ASSUME Typed, LeaseInv, RunInv, NEW i \in Instance, Write(i)
    PROVE  Typed'
<1>1. run[i] \in Plan /\ journal \in Journal /\ journal # NoJournal
      BY OnDisk DEF Write, AfterBegin
<1>2. run[i].before \in Contents /\ run[i].after \in Contents
      BY <1>1, PlanFields
<1>3. content' \in Contents
      BY <1>2 DEF Write, Contents, Typed, TypeOK
<1>4. PICK ph \in Phase : journal' = [journal EXCEPT !.phase = ph]
      BY DEF Write, Compensated, Phase
<1>5. journal' \in Journal
      BY <1>1, <1>4, PhaseType
<1>6. pc' \in [Instance -> Label]
      BY DEF Write, Goto, Label, Typed, TypeOK
<1>7. budget' \in Budget
      BY FaultType DEF Write, Typed
<1> QED BY <1>3, <1>5, <1>6, <1>7 DEF Write, Typed, TypeOK, aux

LEMMA AuditType ==
    ASSUME Typed, LeaseInv, RunInv, NEW i \in Instance, Audit(i)
    PROVE  Typed'
<1>1. run[i] \in Plan /\ journal \in Journal /\ journal # NoJournal
      BY OnDisk DEF Audit, AfterBegin
<1>2. /\ run[i].id \in PlanId /\ run[i].targets \subseteq Target
      /\ Committed(i) \in State
      BY <1>1, PlanFields, CommittedFields DEF Typed
<1>3. budget' \in Budget
      BY FaultType DEF Audit, Typed
<1>4. /\ pc' \in [Instance -> Label] /\ run' \in [Instance -> Plan \cup {NoPlan}]
      /\ lease' \in Instance \cup {Nobody}
      BY GotoType, ReturnType DEF Audit, Label
<1>5. content' \in Contents
      BY <1>1, RestoreType DEF Audit, Typed, TypeOK
<1>6. journal' \in Journal
      BY <1>1, PhaseType DEF Audit
<1>7. state' \in State /\ loaded' \in [Instance -> State]
      BY <1>2 DEF Audit, Typed, TypeOK
<1>8. StillUndone(i) \subseteq Proof /\ PutBack \subseteq Proof
      BY DEF StillUndone, PutBack, Typed, TypeOK
<1>9. audited' \subseteq PlanId /\ undone' \subseteq Proof
      BY <1>2, <1>8 DEF Audit, Recorded, Typed, TypeOK
<1> QED BY <1>3, <1>4, <1>5, <1>6, <1>7, <1>9 DEF Audit, Typed, TypeOK

LEMMA CompleteType ==
    ASSUME Typed, LeaseInv, RunInv, NEW i \in Instance, Complete(i)
    PROVE  Typed'
<1>1. journal' \in Journal
      BY OnDisk, PhaseType DEF Complete, AfterBegin, Phase
<1>2. /\ pc' \in [Instance -> Label] /\ run' \in [Instance -> Plan \cup {NoPlan}]
      /\ lease' \in Instance \cup {Nobody}
      BY GotoType, ReturnType DEF Complete, Label
<1>3. budget' \in Budget
      BY FaultType DEF Complete, Typed
<1> QED BY <1>1, <1>2, <1>3 DEF Complete, Typed, TypeOK, aux

LEMMA ClearType ==
    ASSUME Typed, NEW i \in Instance, Clear(i)
    PROVE  Typed'
<1>1. budget' \in Budget
      BY FaultType DEF Clear, Typed
<1> QED BY <1>1, ReturnType DEF Clear, Typed, TypeOK, aux

\* A managed write saves a new revision, and nobody executes a plan meanwhile.
LEMMA SaveType ==
    ASSUME Typed, NEW i \in Instance, NEW next \in State, Save(i, next),
           stray' \subseteq Target
    PROVE  Typed'
<1>1. [next EXCEPT !.rev = @ + 1] \in State
      BY DEF State
<1>2. state' \in State /\ loaded' \in [Instance -> State]
      BY <1>1 DEF Save, Typed, TypeOK
<1>3. budget' \in Budget
      BY SpendType DEF Save, Typed
<1> QED BY <1>2, <1>3 DEF Save, Typed, TypeOK

LEMMA UpsertNext ==
    ASSUME Typed, NEW c \in Connection, budget.save > 0
    PROVE  LET next == [state EXCEPT !.conns[c] = MaxSaves - budget.save + 2] IN
           next \in State /\ next.proofs = state.proofs
           /\ \A d \in Connection : state.conns[d] # 0 => next.conns[d] # 0
<1>1. MaxSaves - budget.save + 2 \in Version \ {0}
      BY PlanIdFacts DEF Typed, Budget, Version
<1> QED BY <1>1 DEF Typed, TypeOK, State

LEMMA ToggleNext ==
    ASSUME Typed, NEW c \in Connection
    PROVE  LET next == [state EXCEPT !.off = IF c \in @ THEN @ \ {c} ELSE @ \cup {c}] IN
           next \in State /\ next.proofs = state.proofs /\ next.conns = state.conns
BY DEF Typed, TypeOK, State

LEMMA DetachNext ==
    ASSUME Typed, NEW c \in Connection
    PROVE  LET next == [state EXCEPT !.conns[c] = 0, !.proofs = {p \in @ : p[1] # c}] IN
           next \in State /\ next.proofs = {p \in state.proofs : p[1] # c}
           /\ \A d \in Connection : d # c => next.conns[d] = state.conns[d]
<1> DEFINE s == [state EXCEPT !.conns[c] = 0]
<1>. 0 \in Version /\ state \in State
     BY PlanIdFacts DEF Version, Typed, TypeOK
<1>1. s \in State /\ s.proofs = state.proofs
      /\ \A d \in Connection : d # c => s.conns[d] = state.conns[d]
      BY DEF State
<1>2. [state EXCEPT !.conns[c] = 0, !.proofs = {p \in @ : p[1] # c}]
          = [s EXCEPT !.proofs = {p \in @ : p[1] # c}]
      OBVIOUS
<1>3. {p \in s.proofs : p[1] # c} \subseteq Proof
      BY <1>1 DEF State
<1> HIDE DEF s
<1> QED BY <1>1, <1>2, <1>3 DEF State

LEMMA UpsertType ==
    ASSUME Typed, NEW i \in Instance, NEW c \in Connection, Upsert(i, c)
    PROVE  Typed'
<1>1. budget.save > 0
      BY DEF Upsert, Save, Spend
<1> QED BY <1>1, UpsertNext, SaveType DEF Upsert, Typed, TypeOK

LEMMA ToggleType ==
    ASSUME Typed, NEW i \in Instance, NEW c \in Connection, Toggle(i, c)
    PROVE  Typed'
BY ToggleNext, SaveType DEF Toggle, Typed, TypeOK

LEMMA DetachType ==
    ASSUME Typed, NEW i \in Instance, NEW c \in Connection, Detach(i, c)
    PROVE  Typed'
BY DetachNext, SaveType DEF Detach, Disowned, Typed, TypeOK

LEMMA PreviewRecoveryType ==
    ASSUME Typed, NEW i \in Instance, PreviewRecovery(i)
    PROVE  Typed'
BY DEF PreviewRecovery, Typed, TypeOK, disk, aux

LEMMA RecoverRestoreType ==
    ASSUME Typed, NEW i \in Instance, RecoverRestore(i)
    PROVE  Typed'
<1>1. journal \in Journal /\ journal # NoJournal
      BY DEF RecoverRestore, Reviewed, Typed, TypeOK
<1>2. budget' \in Budget
      BY FaultType DEF RecoverRestore, Typed
<1>3. content' \in Contents
      BY <1>1, RestoreType DEF RecoverRestore, Typed, TypeOK
<1>4. journal' \in Journal \cup {NoJournal}
      BY <1>1, PhaseFields DEF RecoverRestore
<1>5. undone' \subseteq Proof
      BY DEF RecoverRestore, PutBack, Typed, TypeOK
<1> QED BY <1>2, <1>3, <1>4, <1>5 DEF RecoverRestore, Typed, TypeOK

LEMMA RecoverKeepType ==
    ASSUME Typed, NEW i \in Instance, RecoverKeep(i)
    PROVE  Typed'
<1>1. journal \in Journal
      BY DEF RecoverKeep, Reviewed, Typed, TypeOK
<1> QED BY <1>1, JournalFields DEF RecoverKeep, Typed, TypeOK

LEMMA EditType == ASSUME Typed, Edit PROVE Typed'
<1>1. content' \in Contents
  <2>. 0 \in Version /\ 1 \in Version /\ content \in [Target -> [Holder -> Version]]
       BY PlanIdFacts DEF Version, Contents, Typed, TypeOK
  <2>1. PICK t \in Target :
           \/ \E h \in Holder : content' = [content EXCEPT ![t][h] = 0]
           \/ content' = [content EXCEPT ![t] =
                  [h \in Holder |-> IF h = Foreign THEN 1
                                    ELSE IF t \in Route THEN 0 ELSE @[h]]]
        BY DEF Edit
  <2>2. ASSUME NEW h \in Holder, content' = [content EXCEPT ![t][h] = 0]
        PROVE  content' \in [Target -> [Holder -> Version]]
        BY <2>2
  <2>3. ASSUME NEW f \in [Holder -> Version], content' = [content EXCEPT ![t] = f]
        PROVE  content' \in [Target -> [Holder -> Version]]
        BY <2>3
  <2>4. [h \in Holder |-> IF h = Foreign THEN 1
                          ELSE IF t \in Route THEN 0 ELSE content[t][h]]
            \in [Holder -> Version]
        OBVIOUS
  <2> QED BY <2>1, <2>2, <2>3, <2>4 DEF Contents
<1>2. budget' \in Budget
      BY SpendType DEF Edit, Typed
<1> QED BY <1>1, <1>2 DEF Edit, Typed, TypeOK, local

LEMMA RestartType ==
    ASSUME Typed, NEW i \in Instance, Restart(i)
    PROVE  Typed'
<1>1. budget' \in Budget
      BY SpendType DEF Restart, Typed
<1> QED BY <1>1 DEF Restart, Goto, Label, Typed, TypeOK, disk, aux

LEMMA TypeStep == ASSUME IInv, Next PROVE Typed'
<1>. Typed /\ LeaseInv /\ RunInv
     BY DEF IInv, Typed
<1>1. ASSUME NEW i \in Instance, NEW c \in Connection, NEW purpose \in Purpose,
             NEW ts \in SUBSET Target, PreviewContext(i, c, purpose, ts)
      PROVE  Typed'
      BY <1>1, PreviewContextType
<1>2. ASSUME NEW i \in Instance,
             PreviewTargets(i) \/ \E p \in plans[i] : Apply(i, p)
      PROVE  Typed'
      BY <1>2, PreviewTargetsType, ApplyType
<1>3. ASSUME NEW i \in Instance, Execute(i) PROVE Typed'
      BY <1>3, ValidateType, BeginType, WriteType, AuditType, CompleteType, ClearType
         DEF Execute
<1>4. ASSUME NEW i \in Instance, NEW c \in Connection,
             Upsert(i, c) \/ Toggle(i, c) \/ Detach(i, c)
      PROVE  Typed'
      BY <1>4, UpsertType, ToggleType, DetachType
<1>5. ASSUME NEW i \in Instance,
             PreviewRecovery(i) \/ RecoverRestore(i) \/ RecoverKeep(i) \/ Restart(i)
      PROVE  Typed'
      BY <1>5, PreviewRecoveryType, RecoverRestoreType, RecoverKeepType, RestartType
<1>6. CASE Edit
      BY <1>6, EditType
<1> QED BY <1>1, <1>2, <1>3, <1>4, <1>5, <1>6 DEF Next

-----------------------------------------------------------------------------
(***************************************************************************)
(* The lease: one lemma, since only the ends of an execution touch it.     *)
(***************************************************************************)
LEMMA LeaseFrame ==
    ASSUME LeaseInv, UNCHANGED <<lease, pc, run>>
    PROVE  LeaseInv'
BY DEF LeaseInv

LEMMA LeaseGoto ==
    ASSUME TypeOK, LeaseInv, NEW i \in Instance, pc[i] # "idle", NEW label, label # "idle",
           Goto(i, label), UNCHANGED <<run, lease>>
    PROVE  LeaseInv'
BY DEF LeaseInv, Goto, TypeOK

LEMMA LeaseStep == ASSUME IInv, Next PROVE LeaseInv'
<1>. TypeOK /\ LeaseInv /\ RunInv
     BY DEF IInv
<1>1. ASSUME NEW i \in Instance, NEW c \in Connection, NEW purpose \in Purpose,
             NEW ts \in SUBSET Target, PreviewContext(i, c, purpose, ts)
      PROVE  LeaseInv'
      BY <1>1, LeaseFrame DEF PreviewContext
<1>2. ASSUME NEW i \in Instance, PreviewTargets(i)
      PROVE  LeaseInv'
      BY <1>2, LeaseFrame DEF PreviewTargets
<1>3. ASSUME NEW i \in Instance, NEW p \in plans[i], Apply(i, p)
      PROVE  LeaseInv'
  <2>1. p # NoPlan
        BY PlanFields DEF TypeOK
  <2>2. CASE UNCHANGED <<lease, pc, run>>
        BY <2>2, LeaseFrame
  <2>3. CASE /\ pc[i] = "idle" /\ lease = Nobody /\ lease' = i
             /\ Goto(i, "validate") /\ run' = [run EXCEPT ![i] = p]
    <3>1. \A j \in Instance : pc[j] = "idle"
          BY <2>3, AllIdle
    <3> QED BY <2>1, <2>3, <3>1 DEF LeaseInv, Goto, TypeOK
  <2> QED BY <1>3, <2>2, <2>3 DEF Apply
<1>4. ASSUME NEW i \in Instance, Execute(i)
      PROVE  LeaseInv'
  <2>1. pc[i] # "idle"
        BY <1>4 DEF Execute, Validate, Begin, Write, Audit, Complete, Clear
  <2>2. \/ Return(i)
        \/ \E label \in Label \ {"idle"} : Goto(i, label) /\ UNCHANGED <<run, lease>>
        BY <1>4 DEF Execute, Validate, Begin, Write, Audit, Complete, Clear, Label
  <2> QED BY <2>1, <2>2, LeaseGoto, ReturnFrees
<1>5. ASSUME NEW i \in Instance, NEW c \in Connection,
             Upsert(i, c) \/ Toggle(i, c) \/ Detach(i, c)
      PROVE  LeaseInv'
      BY <1>5, LeaseFrame DEF Upsert, Toggle, Detach, Save
<1>6. ASSUME NEW i \in Instance,
             PreviewRecovery(i) \/ RecoverRestore(i) \/ RecoverKeep(i)
      PROVE  LeaseInv'
      BY <1>6, LeaseFrame DEF PreviewRecovery, RecoverRestore, RecoverKeep
<1>7. ASSUME NEW i \in Instance, Restart(i)
      PROVE  LeaseInv'
      BY <1>7, NobodyAssumption DEF Restart, Goto, LeaseInv, TypeOK
<1>8. CASE Edit
      BY <1>8, LeaseFrame DEF Edit, local
<1> QED BY <1>1, <1>2, <1>3, <1>4, <1>5, <1>6, <1>7, <1>8 DEF Next

-----------------------------------------------------------------------------
(***************************************************************************)
(* What plans say.                                                         *)
(***************************************************************************)
LEMMA StoredWellMade ==
    ASSUME Typed, NEW p \in Preview, Requested(p)
    PROVE  WellMade(Stored(p))
<1>1. \A t \in p.targets : t \in Target
      BY PreviewFields
<1> QED BY <1>1 DEF WellMade, Requested, Stored, VersionOf, Desired

\* Plans are only dropped or executed.
LEMMA PlansFrame ==
    ASSUME PlansInv,
           \A i \in Instance : /\ preview'[i] \in {preview[i], NoPlan}
                               /\ plans'[i] \subseteq plans[i]
                               /\ run'[i] \in {run[i], NoPlan} \cup plans[i]
    PROVE  PlansInv'
<1>1. ASSUME NEW i \in Instance
      PROVE  /\ preview'[i] # NoPlan => (Requested(preview[i]))'
             /\ \A p \in plans'[i] : WellMade(p)
             /\ run'[i] # NoPlan => WellMade(run'[i])
      BY DEF PlansInv, Requested
<1> QED BY <1>1 DEF PlansInv, WellMade, Requested

LEMMA PlansStep == ASSUME IInv, Next PROVE PlansInv'
<1>. Typed /\ TypeOK /\ LeaseInv /\ PlansInv
     BY DEF IInv, Typed
<1>1. ASSUME NEW i \in Instance, NEW c \in Connection, NEW purpose \in Purpose,
             NEW ts \in SUBSET Target, PreviewContext(i, c, purpose, ts)
      PROVE  PlansInv'
  <2>1. (Requested(preview[i]))'
        BY <1>1 DEF PreviewContext, Present, Requested, TypeOK
  <2>2. \A j \in Instance : j # i => preview'[j] = preview[j]
        BY <1>1 DEF PreviewContext, TypeOK
  <2> QED BY <1>1, <2>1, <2>2 DEF PreviewContext, PlansInv, WellMade, Requested
<1>2. ASSUME NEW i \in Instance, PreviewTargets(i)
      PROVE  PlansInv'
  <2>1. preview[i] \in Preview /\ Requested(preview[i])
        BY <1>2, PreviewTargetsStores DEF PlansInv, TypeOK
  <2>2. WellMade(Stored(preview[i]))
        BY <2>1, StoredWellMade
  <2>3. \A j \in Instance : /\ plans'[j] \subseteq plans[j] \cup {Stored(preview[i])}
                            /\ preview'[j] \in {preview[j], NoPlan}
        BY <1>2, PreviewTargetsStores DEF TypeOK
  <2>4. run' = run
        BY <1>2 DEF PreviewTargets
  <2>5. \A j \in Instance : /\ \A p \in plans'[j] : WellMade(p)
                            /\ preview'[j] # NoPlan => (Requested(preview[j]))'
        BY <2>2, <2>3 DEF PlansInv, Requested
  <2> QED BY <2>4, <2>5 DEF PlansInv, WellMade, Requested
<1>3. ASSUME NEW i \in Instance, NEW p \in plans[i], Apply(i, p)
      PROVE  PlansInv'
      BY <1>3, PlansFrame DEF Apply, WithoutPlan, TypeOK
<1>4. ASSUME NEW i \in Instance, Execute(i)
      PROVE  PlansInv'
  <2>1. pc[i] # "idle" /\ preview' = preview /\ plans' = plans
        BY <1>4 DEF Execute, Validate, Begin, Write, Audit, Complete, Clear
  <2>2. Return(i) \/ run' = run
        BY <1>4 DEF Execute, Validate, Begin, Write, Audit, Complete, Clear
  <2> QED BY <2>1, <2>2, ReturnFrees, PlansFrame
<1>5. ASSUME NEW i \in Instance, NEW c \in Connection,
             Upsert(i, c) \/ Toggle(i, c) \/ Detach(i, c)
      PROVE  PlansInv'
      BY <1>5, PlansFrame DEF Upsert, Toggle, Detach, Save
<1>6. ASSUME NEW i \in Instance,
             PreviewRecovery(i) \/ RecoverRestore(i) \/ RecoverKeep(i)
      PROVE  PlansInv'
      BY <1>6, PlansFrame DEF PreviewRecovery, RecoverRestore, RecoverKeep
<1>7. ASSUME NEW i \in Instance, Restart(i)
      PROVE  PlansInv'
      BY <1>7, PlansFrame DEF Restart, TypeOK
<1>8. CASE Edit
      BY <1>8, PlansFrame DEF Edit, local
<1> QED BY <1>1, <1>2, <1>3, <1>4, <1>5, <1>6, <1>7, <1>8 DEF Next

-----------------------------------------------------------------------------
(***************************************************************************)
(* Identifiers.                                                            *)
(***************************************************************************)
LEMMA IdsInPlanId ==
    ASSUME TypeOK, LeaseInv, NEW i \in Instance
    PROVE  /\ preview[i] # NoPlan => preview[i].id \in PlanId
           /\ \A p \in plans[i] : p.id \in PlanId
           /\ pc[i] # "idle" => run[i].id \in PlanId
<1>1. \A p \in plans[i] : p \in Plan
      BY DEF TypeOK
<1> QED BY <1>1, PreviewFields, PlanFields, Executing DEF TypeOK

\* Nothing new is numbered and nothing begins.
LEMMA IdsFrame ==
    ASSUME IdsInv, UNCHANGED <<begun, audited>>, budget'.plan = budget.plan,
           \A i \in Instance : /\ preview'[i] \in {preview[i], NoPlan}
                               /\ plans'[i] \subseteq plans[i]
                               /\ pc'[i] \in BeforeBegin =>
                                     pc[i] \in BeforeBegin /\ run'[i] = run[i]
    PROVE  IdsInv'
<1>1. \A id \in PlanId : /\ begun'[id] <= 1
                         /\ begun'[id] > 0 => id <= MaxPlans - budget'.plan
                         /\ id \in audited' => begun'[id] > 0
      BY DEF IdsInv, Issued
<1>2. ASSUME NEW i \in Instance
      PROVE  /\ preview'[i] # NoPlan => Waiting(preview[i].id) /\ preview'[i] = preview[i]
             /\ \A p \in plans'[i] : Waiting(p.id)
             /\ pc'[i] \in BeforeBegin => Waiting(run[i].id) /\ run'[i] = run[i]
      BY DEF IdsInv
<1>3. ASSUME NEW i \in Instance, NEW j \in Instance
      PROVE  /\ preview'[i] # NoPlan /\ preview'[j] # NoPlan
                   /\ preview'[i].id = preview'[j].id => i = j
             /\ \A p \in plans'[i] : preview'[j] # NoPlan => p.id # preview'[j].id
             /\ \A p \in plans'[i], q \in plans'[j] : p.id = q.id => i = j /\ p = q
             /\ pc'[i] \in BeforeBegin =>
                   /\ preview'[j] # NoPlan => run'[i].id # preview'[j].id
                   /\ \A p \in plans'[j] : run'[i].id # p.id
      BY DEF IdsInv
<1> QED BY <1>1, <1>2, <1>3 DEF IdsInv, Waiting, Issued

LEMMA IdsPreviewContext ==
    ASSUME IInv, NEW i \in Instance, NEW c \in Connection, NEW purpose \in Purpose,
           NEW ts \in SUBSET Target, PreviewContext(i, c, purpose, ts)
    PROVE  IdsInv'
<1>. Typed /\ TypeOK /\ IdsInv /\ LeaseInv
     BY DEF IInv, Typed
<1>1. PICK new \in PlanId : new = MaxPlans - budget.plan + 1
      BY NextId DEF PreviewContext
<1>2. /\ preview'[i].id = new /\ preview[i] = NoPlan
      /\ \A j \in Instance : j # i => preview'[j] = preview[j]
      /\ UNCHANGED <<plans, run, pc, begun, audited>>
      BY <1>1 DEF PreviewContext, TypeOK, aux
<1>3. new = MaxPlans - budget'.plan /\ budget.plan \in Nat /\ budget'.plan \in Nat
      BY <1>1, NextId, SpendType DEF PreviewContext, Typed, Budget
<1>4. \A id \in PlanId : Issued(id) => id <= MaxPlans - budget'.plan /\ id # new
      BY <1>1, <1>3, PlanIdFacts DEF Issued, PlanId
<1>5. begun[new] = 0 /\ new \notin audited
      BY <1>4 DEF IdsInv, TypeOK
<1>6. \A id \in PlanId : /\ begun'[id] <= 1
                         /\ begun'[id] > 0 => id <= MaxPlans - budget'.plan
                         /\ id \in audited' => begun'[id] > 0
      BY <1>2, <1>4 DEF IdsInv
<1>7. ASSUME NEW id \in PlanId, Waiting(id)
      PROVE  id # new /\ id <= MaxPlans - budget'.plan /\ begun'[id] = 0 /\ id \notin audited'
      BY <1>2, <1>4, <1>7 DEF Waiting
<1>8. new <= MaxPlans - budget'.plan /\ begun'[new] = 0 /\ new \notin audited'
      BY <1>2, <1>3, <1>5, PlanIdFacts
<1>9. ASSUME NEW j \in Instance
      PROVE  /\ preview[j] # NoPlan => preview[j].id \in PlanId /\ Waiting(preview[j].id)
             /\ \A p \in plans[j] : p.id \in PlanId /\ Waiting(p.id)
             /\ pc[j] \in BeforeBegin => run[j].id \in PlanId /\ Waiting(run[j].id)
      BY IdsInPlanId DEF IdsInv, BeforeBegin
<1>10. ASSUME NEW j \in Instance
       PROVE  /\ preview'[j] # NoPlan => (Waiting(preview[j].id))'
              /\ \A p \in plans'[j] : (Waiting(p.id))'
              /\ pc'[j] \in BeforeBegin => (Waiting(run[j].id))'
  <2>1. CASE j = i
        BY <2>1, <1>2, <1>7, <1>8, <1>9 DEF Waiting, Issued
  <2>2. CASE j # i
        BY <2>2, <1>2, <1>7, <1>9 DEF Waiting, Issued
  <2> QED BY <2>1, <2>2
<1>11. ASSUME NEW j \in Instance
       PROVE  /\ preview[j] # NoPlan => preview[j].id # new
              /\ \A p \in plans[j] : p.id # new
              /\ pc[j] \in BeforeBegin => run[j].id # new
       BY <1>7, <1>9
<1>12. ASSUME NEW j \in Instance, NEW k \in Instance
       PROVE  /\ preview'[j] # NoPlan /\ preview'[k] # NoPlan
                    /\ preview'[j].id = preview'[k].id => j = k
              /\ \A p \in plans'[j] : preview'[k] # NoPlan => p.id # preview'[k].id
              /\ \A p \in plans'[j], q \in plans'[k] : p.id = q.id => j = k /\ p = q
              /\ pc'[j] \in BeforeBegin =>
                    /\ preview'[k] # NoPlan => run'[j].id # preview'[k].id
                    /\ \A p \in plans'[k] : run'[j].id # p.id
  <2>1. CASE j = i /\ k = i
        BY <2>1, <1>2, <1>11 DEF IdsInv
  <2>2. CASE j = i /\ k # i
        BY <2>2, <1>2, <1>11 DEF IdsInv
  <2>3. CASE j # i /\ k = i
        BY <2>3, <1>2, <1>11 DEF IdsInv
  <2>4. CASE j # i /\ k # i
        BY <2>4, <1>2 DEF IdsInv
  <2> QED BY <2>1, <2>2, <2>3, <2>4
<1> QED BY <1>6, <1>10, <1>12 DEF IdsInv, Waiting, Issued

LEMMA IdsPreviewTargets ==
    ASSUME IInv, NEW i \in Instance, PreviewTargets(i)
    PROVE  IdsInv'
<1>. Typed /\ TypeOK /\ IdsInv
     BY DEF IInv, Typed
<1>1. PICK q : q = Stored(preview[i])
      OBVIOUS
<1>a. q.id = preview[i].id
      BY <1>1 DEF Stored
<1>b. \A j \in Instance : /\ plans'[j] \subseteq plans[j] \cup {q}
                          /\ j # i => plans'[j] = plans[j]
                          /\ IF j = i THEN preview'[j] = NoPlan ELSE preview'[j] = preview[j]
      BY <1>1, PreviewTargetsStores DEF TypeOK
<1>2. /\ q.id = preview[i].id /\ preview[i] # NoPlan
      /\ \A j \in Instance : /\ plans'[j] \subseteq plans[j] \cup {q}
                             /\ j # i => plans'[j] = plans[j]
                             /\ IF j = i THEN preview'[j] = NoPlan ELSE preview'[j] = preview[j]
      /\ UNCHANGED <<run, pc, begun, audited, budget>>
      BY <1>a, <1>b DEF PreviewTargets, aux
<1>3. \A id \in PlanId : /\ begun'[id] <= 1
                         /\ begun'[id] > 0 => id <= MaxPlans - budget'.plan
                         /\ id \in audited' => begun'[id] > 0
      BY <1>2 DEF IdsInv, Issued
<1>4. ASSUME NEW j \in Instance
      PROVE  /\ preview'[j] # NoPlan => Waiting(preview[j].id) /\ preview'[j] = preview[j]
             /\ \A p \in plans'[j] : Waiting(p.id)
             /\ pc'[j] \in BeforeBegin => Waiting(run[j].id) /\ run'[j] = run[j]
      BY <1>2 DEF IdsInv
<1>5. ASSUME NEW j \in Instance
      PROVE  /\ preview'[j] # NoPlan => preview[j].id # q.id
             /\ \A p \in plans[j] : p.id # q.id
             /\ pc[j] \in BeforeBegin => run[j].id # q.id
      BY <1>2 DEF IdsInv
<1>6. ASSUME NEW j \in Instance, NEW k \in Instance
      PROVE  /\ preview'[j] # NoPlan /\ preview'[k] # NoPlan
                   /\ preview'[j].id = preview'[k].id => j = k
             /\ \A p \in plans'[j] : preview'[k] # NoPlan => p.id # preview'[k].id
             /\ pc'[j] \in BeforeBegin =>
                   /\ preview'[k] # NoPlan => run'[j].id # preview'[k].id
                   /\ \A p \in plans'[k] : run'[j].id # p.id
      BY <1>2, <1>5 DEF IdsInv
<1>7. ASSUME NEW j \in Instance, NEW k \in Instance, NEW p \in plans'[j], NEW r \in plans'[k],
             p.id = r.id
      PROVE  j = k /\ p = r
  <2>1. CASE p = q \/ r = q
        BY <2>1, <1>2, <1>5, <1>7
  <2>2. CASE p # q /\ r # q
        BY <2>2, <1>2, <1>7 DEF IdsInv
  <2> QED BY <2>1, <2>2
<1> QED BY <1>2, <1>3, <1>4, <1>6, <1>7 DEF IdsInv, Waiting, Issued

LEMMA IdsApply ==
    ASSUME IInv, NEW i \in Instance, NEW p \in plans[i], Apply(i, p)
    PROVE  IdsInv'
<1>. Typed /\ TypeOK /\ IdsInv /\ LeaseInv
     BY DEF IInv, Typed
<1>1. /\ \A j \in Instance : plans'[j] \subseteq plans[j] /\ (j = i => p \notin plans'[j])
      /\ UNCHANGED <<preview, begun, audited, budget>>
      BY DEF Apply, WithoutPlan, TypeOK, aux
<1>2. CASE UNCHANGED <<lease, pc, run>>
      BY <1>1, <1>2, IdsFrame
<1>3. CASE /\ pc[i] = "idle" /\ lease = Nobody /\ lease' = i
           /\ Goto(i, "validate") /\ run' = [run EXCEPT ![i] = p]
  <2>1. \A j \in Instance : /\ pc[j] = "idle"
                            /\ IF j = i THEN pc'[j] = "validate" /\ run'[j] = p
                                        ELSE pc'[j] = "idle"
        BY <1>3, AllIdle DEF Goto, TypeOK
  <2>2. \A id \in PlanId : /\ begun'[id] <= 1
                           /\ begun'[id] > 0 => id <= MaxPlans - budget'.plan
                           /\ id \in audited' => begun'[id] > 0
        BY <1>1 DEF IdsInv, Issued
  <2>3. ASSUME NEW j \in Instance
        PROVE  /\ preview'[j] # NoPlan => Waiting(preview[j].id) /\ preview'[j] = preview[j]
               /\ \A q \in plans'[j] : Waiting(q.id)
               /\ pc'[j] \in BeforeBegin => run'[j] = p /\ Waiting(p.id)
        BY <1>1, <2>1 DEF IdsInv, BeforeBegin
  <2>4. ASSUME NEW j \in Instance, NEW k \in Instance
        PROVE  /\ preview'[j] # NoPlan /\ preview'[k] # NoPlan
                     /\ preview'[j].id = preview'[k].id => j = k
               /\ \A q \in plans'[j] : preview'[k] # NoPlan => q.id # preview'[k].id
               /\ \A q \in plans'[j], r \in plans'[k] : q.id = r.id => j = k /\ q = r
        BY <1>1 DEF IdsInv
  <2>5. ASSUME NEW j \in Instance, NEW k \in Instance, pc'[j] \in BeforeBegin
        PROVE  /\ preview'[k] # NoPlan => run'[j].id # preview'[k].id
               /\ \A q \in plans'[k] : run'[j].id # q.id
        BY <1>1, <2>1, <2>5 DEF IdsInv, BeforeBegin
  <2> QED BY <1>1, <2>2, <2>3, <2>4, <2>5 DEF IdsInv, Waiting, Issued
<1> QED BY <1>2, <1>3 DEF Apply

LEMMA IdsBegin ==
    ASSUME IInv, NEW i \in Instance, Begin(i)
    PROVE  IdsInv'
<1>. Typed /\ TypeOK /\ IdsInv /\ LeaseInv
     BY DEF IInv, Typed
<1>1. /\ UNCHANGED <<preview, plans, audited>> /\ budget'.plan = budget.plan
      /\ pc[i] = "begin"
      BY FaultType DEF Begin, Typed
<1>2. CASE Return(i) /\ UNCHANGED begun
      BY <1>1, <1>2, ReturnFrees, IdsFrame DEF BeforeBegin
<1>3. CASE begun' = [begun EXCEPT ![run[i].id] = @ + 1] /\ Goto(i, "write")
  <2>1. run[i].id \in PlanId /\ Waiting(run[i].id)
        BY <1>1, IdsInPlanId DEF IdsInv, BeforeBegin
  <2>2. \A id \in PlanId : begun'[id] = IF id = run[i].id THEN 1 ELSE begun[id]
        BY <1>3, <2>1 DEF Waiting, TypeOK
  <2>3. \A j \in Instance : pc'[j] \notin BeforeBegin
        BY <1>1, <1>3, Executing DEF Goto, BeforeBegin, TypeOK
  <2>4. \A id \in PlanId : /\ begun'[id] <= 1
                           /\ begun'[id] > 0 => id <= MaxPlans - budget'.plan
                           /\ id \in audited' => begun'[id] > 0
        BY <1>1, <2>1, <2>2 DEF IdsInv, Waiting, Issued
  <2>5. ASSUME NEW j \in Instance
        PROVE  /\ preview[j] # NoPlan => /\ preview[j].id # run[i].id /\ preview[j].id \in PlanId
                                         /\ Waiting(preview[j].id)
               /\ \A p \in plans[j] : p.id # run[i].id /\ p.id \in PlanId /\ Waiting(p.id)
        BY <1>1, IdsInPlanId DEF IdsInv, BeforeBegin
  <2>6. ASSUME NEW j \in Instance
        PROVE  /\ preview'[j] # NoPlan => (Waiting(preview[j].id))'
               /\ \A p \in plans'[j] : (Waiting(p.id))'
        BY <1>1, <2>2, <2>5 DEF Waiting, Issued
  <2>7. ASSUME NEW j \in Instance, NEW k \in Instance
        PROVE  /\ preview'[j] # NoPlan /\ preview'[k] # NoPlan
                     /\ preview'[j].id = preview'[k].id => j = k
               /\ \A q \in plans'[j] : preview'[k] # NoPlan => q.id # preview'[k].id
               /\ \A q \in plans'[j], r \in plans'[k] : q.id = r.id => j = k /\ q = r
        BY <1>1 DEF IdsInv
  <2> QED BY <2>3, <2>4, <2>6, <2>7 DEF IdsInv, Waiting, Issued
<1> QED BY <1>2, <1>3 DEF Begin

\* An audit records a plan that has begun: no waiting one has its identifier.
LEMMA IdsAudit ==
    ASSUME IInv, NEW i \in Instance, Audit(i)
    PROVE  IdsInv'
<1>. Typed /\ TypeOK /\ IdsInv /\ LeaseInv /\ RunInv
     BY DEF IInv, Typed
<1>1. /\ UNCHANGED <<preview, plans, begun>> /\ budget'.plan = budget.plan
      /\ pc[i] \in {"audit", "failed"} /\ audited' \subseteq audited \cup {run[i].id}
      BY FaultType DEF Audit, Typed, Recorded
<1>2. begun[run[i].id] = 1
      BY <1>1 DEF RunInv, RunAt, AfterBegin
<1>3. \A j \in Instance : pc'[j] \notin BeforeBegin
  <2>1. \A j \in Instance : pc[j] # "idle" => j = i
        BY <1>1, Executing
  <2>2. PICK label \in {"complete", "clear", "idle"} : Goto(i, label)
        BY DEF Audit, Return
  <2> QED BY <2>1, <2>2 DEF Goto, BeforeBegin, TypeOK
<1>4. \A id \in PlanId : /\ begun'[id] <= 1
                         /\ begun'[id] > 0 => id <= MaxPlans - budget'.plan
                         /\ id \in audited' => begun'[id] > 0
      BY <1>1, <1>2 DEF IdsInv, Issued
<1>5. \A id : Waiting(id) => id \notin audited' /\ begun'[id] = 0 /\ id <= MaxPlans - budget'.plan
      BY <1>1, <1>2 DEF Waiting, Issued
<1>6. ASSUME NEW j \in Instance
      PROVE  /\ preview[j] # NoPlan => Waiting(preview[j].id)
             /\ \A p \in plans[j] : Waiting(p.id)
      BY DEF IdsInv
<1>7. ASSUME NEW j \in Instance
      PROVE  /\ preview'[j] # NoPlan => (Waiting(preview[j].id))'
             /\ \A p \in plans'[j] : (Waiting(p.id))'
      BY <1>1, <1>5, <1>6 DEF Waiting, Issued
<1>8. ASSUME NEW j \in Instance, NEW k \in Instance
      PROVE  /\ preview'[j] # NoPlan /\ preview'[k] # NoPlan
                   /\ preview'[j].id = preview'[k].id => j = k
             /\ \A q \in plans'[j] : preview'[k] # NoPlan => q.id # preview'[k].id
             /\ \A q \in plans'[j], r \in plans'[k] : q.id = r.id => j = k /\ q = r
      BY <1>1 DEF IdsInv
<1> QED BY <1>3, <1>4, <1>7, <1>8 DEF IdsInv, Waiting, Issued

LEMMA IdsStep == ASSUME IInv, Next PROVE IdsInv'
<1>. Typed /\ TypeOK /\ IdsInv /\ LeaseInv
     BY DEF IInv, Typed
<1>1. ASSUME NEW i \in Instance, NEW c \in Connection, NEW purpose \in Purpose,
             NEW ts \in SUBSET Target, PreviewContext(i, c, purpose, ts)
      PROVE  IdsInv'
      BY <1>1, IdsPreviewContext
<1>2. ASSUME NEW i \in Instance,
             PreviewTargets(i) \/ Begin(i) \/ Audit(i) \/ \E p \in plans[i] : Apply(i, p)
      PROVE  IdsInv'
      BY <1>2, IdsPreviewTargets, IdsApply, IdsBegin, IdsAudit
<1>3. ASSUME NEW i \in Instance, Validate(i)
      PROVE  IdsInv'
  <2>1. \A j \in Instance : pc'[j] \in BeforeBegin => pc[j] \in BeforeBegin /\ run'[j] = run[j]
    <3>1. CASE Return(i)
          BY <1>3, <3>1, ReturnFrees DEF Validate, BeforeBegin
    <3>2. CASE Goto(i, "begin") /\ run' = run
          BY <1>3, <3>2 DEF Validate, Goto, BeforeBegin, TypeOK
    <3> QED BY <1>3, <3>1, <3>2 DEF Validate
  <2> QED BY <1>3, <2>1, IdsFrame DEF Validate, aux
<1>4. ASSUME NEW i \in Instance, Write(i) \/ Complete(i) \/ Clear(i)
      PROVE  IdsInv'
  <2>1. /\ UNCHANGED <<preview, plans, begun, audited>>
        /\ budget'.plan = budget.plan /\ pc[i] # "idle"
        BY <1>4, FaultType DEF Write, Complete, Clear, Typed, aux
  <2>2. PICK label \in {"audit", "failed", "clear", "idle"} : Goto(i, label)
        BY <1>4 DEF Write, Complete, Clear, Return
  <2>3. \A j \in Instance : pc[j] # "idle" => j = i
        BY <2>1, Executing
  <2>4. \A j \in Instance : pc'[j] \notin BeforeBegin
        BY <2>2, <2>3 DEF Goto, BeforeBegin, TypeOK
  <2> QED BY <2>1, <2>4, IdsFrame
<1>5. ASSUME NEW i \in Instance, NEW c \in Connection,
             Upsert(i, c) \/ Toggle(i, c) \/ Detach(i, c)
      PROVE  IdsInv'
      BY <1>5, SpendType, IdsFrame DEF Upsert, Toggle, Detach, Save, Typed
<1>6. ASSUME NEW i \in Instance,
             PreviewRecovery(i) \/ RecoverRestore(i) \/ RecoverKeep(i)
      PROVE  IdsInv'
      BY <1>6, FaultType, IdsFrame DEF PreviewRecovery, RecoverRestore, RecoverKeep, aux, Typed
<1>7. ASSUME NEW i \in Instance, Restart(i)
      PROVE  IdsInv'
  <2>1. \A j \in Instance : pc'[j] \in BeforeBegin => pc[j] \in BeforeBegin /\ run'[j] = run[j]
        BY <1>7 DEF Restart, Goto, BeforeBegin, TypeOK
  <2> QED BY <1>7, <2>1, SpendType, IdsFrame DEF Restart, aux, Typed, TypeOK
<1>8. CASE Edit
      BY <1>8, SpendType, IdsFrame DEF Edit, local, Typed
<1> QED BY <1>1, <1>2, <1>3, <1>4, <1>5, <1>6, <1>7, <1>8 DEF Next, Execute

-----------------------------------------------------------------------------
(***************************************************************************)
(* What an executing instance relies on.                                   *)
(***************************************************************************)
LEMMA AllIdleRun == ASSUME \A j \in Instance : pc'[j] = "idle" PROVE RunInv'
BY DEF RunInv, RunAt, AfterBegin

LEMMA RunFrame ==
    ASSUME RunInv, UNCHANGED <<state, content, journal, run, pc, begun, audited, stray>>
    PROVE  RunInv'
BY DEF RunInv, RunAt, OfPlan

\* Only the instance that executes has anything to rely on.
LEMMA RunOne ==
    ASSUME TypeOK, LeaseInv, NEW i \in Instance, pc[i] # "idle",
           NEW label, Goto(i, label), RunAt(i)'
    PROVE  RunInv'
<1>1. \A j \in Instance : j # i => pc'[j] = "idle"
      BY Executing DEF Goto, TypeOK
<1> QED BY <1>1 DEF RunInv, RunAt, AfterBegin

LEMMA RunReturn ==
    ASSUME TypeOK, LeaseInv, NEW i \in Instance, pc[i] # "idle", Return(i)
    PROVE  RunInv'
BY ReturnFrees, AllIdleRun

LEMMA RunValidate == ASSUME IInv, NEW i \in Instance, Validate(i) PROVE RunInv'
<1>. TypeOK /\ LeaseInv /\ pc[i] # "idle"
     BY DEF IInv, Validate
<1>1. CASE Return(i)
      BY <1>1, RunReturn
<1>2. CASE /\ state = run[i].ctx /\ journal = NoJournal
           /\ Goto(i, "begin") /\ UNCHANGED <<run, state, journal>>
  <2>1. pc'[i] = "begin"
        BY <1>2 DEF Goto, TypeOK
  <2>2. RunAt(i)'
        BY <2>1, <1>2 DEF RunAt, AfterBegin
  <2> QED BY <1>2, <2>2, RunOne
<1> QED BY <1>1, <1>2 DEF Validate, Writable, SameContext, NoPendingJournal, disk

LEMMA RunBegin == ASSUME IInv, NEW i \in Instance, Begin(i) PROVE RunInv'
<1>. TypeOK /\ LeaseInv /\ RunInv /\ IdsInv /\ pc[i] = "begin"
     BY DEF IInv, Begin
<1>1. CASE Return(i)
      BY <1>1, RunReturn
<1>2. CASE /\ Holds(run[i], run[i].before)
           /\ journal' = [id |-> run[i].id, targets |-> run[i].targets,
                          before |-> run[i].before, after |-> run[i].after,
                          phase |-> "Prepared"]
           /\ begun' = [begun EXCEPT ![run[i].id] = @ + 1]
           /\ Goto(i, "write") /\ UNCHANGED run
  <2>1. run[i] \in Plan /\ run[i].id \in PlanId
        BY Executing, PlanFields
  <2>2. pc'[i] = "write" /\ UNCHANGED <<state, content, audited, stray>>
        BY <1>2 DEF Begin, Goto, TypeOK
  <2>3. journal' # NoJournal
        BY <2>1, <1>2, PlanIdFacts DEF NoJournal
  <2>4. OfPlan(run[i])'
        BY <1>2, <2>3 DEF OfPlan
  <2>5. Waiting(run[i].id)
        BY DEF IdsInv, BeforeBegin
  <2>6. begun'[run[i].id] = 1 /\ run[i].id \notin audited'
        BY <1>2, <2>1, <2>2, <2>5 DEF Waiting, TypeOK
  <2>7. state' = run[i].ctx
        BY <2>2 DEF RunInv, RunAt
  <2>8. RunAt(i)'
        BY <1>2, <2>2, <2>4, <2>6, <2>7 DEF RunAt, Holds, AfterBegin
  <2> QED BY <1>2, <2>8, RunOne
<1> QED BY <1>1, <1>2 DEF Begin

\* A new phase leaves the journal that of the plan.
LEMMA PhaseOfPlan ==
    ASSUME Typed, NEW p \in Plan, OfPlan(p), NEW ph \in Phase,
           journal' = [journal EXCEPT !.phase = ph]
    PROVE  /\ journal' # NoJournal /\ journal'.id = p.id /\ journal'.targets = p.targets
           /\ journal'.before = p.before /\ journal'.after = p.after
           /\ journal'.phase = ph /\ journal' \in Journal
<1>1. journal \in Journal
      BY DEF OfPlan, Typed, TypeOK
<1>2. journal' \in Journal
      BY <1>1, PhaseFields
<1> QED BY <1>1, <1>2, PhaseFields, JournalFields DEF OfPlan

LEMMA RunWrite == ASSUME IInv, NEW i \in Instance, Write(i) PROVE RunInv'
<1>. Typed /\ TypeOK /\ LeaseInv /\ RunInv /\ pc[i] = "write"
     BY DEF IInv, Typed, Write
<1>1. run[i] \in Plan /\ OfPlan(run[i])
      BY Executing DEF RunInv, RunAt, AfterBegin
<1>2. PICK ph \in {"Applying", "RolledBack", "RecoveryRequired"} :
         journal' = [journal EXCEPT !.phase = ph]
      BY DEF Write, Compensated
<1>3. OfPlan(run[i])' /\ journal'.phase = ph
      BY <1>1, <1>2, PhaseOfPlan DEF Phase, OfPlan, Write
<1>4. PICK label \in {"audit", "failed"} : Goto(i, label)
      BY DEF Write
<1>5. pc'[i] = label /\ UNCHANGED <<run, state, begun, audited>>
      BY <1>4 DEF Write, Goto, TypeOK, aux
<1>6. RunAt(i)'
      BY <1>3, <1>5 DEF RunInv, RunAt, AfterBegin
<1> QED BY <1>4, <1>6, RunOne

LEMMA RunAudit == ASSUME IInv, NEW i \in Instance, Audit(i) PROVE RunInv'
<1>. Typed /\ TypeOK /\ LeaseInv /\ RunInv /\ pc[i] \in {"audit", "failed"}
     BY DEF IInv, Typed, Audit
<1>1. CASE Return(i)
      BY <1>1, RunReturn
<1>2. CASE ~Failed(i) /\ Goto(i, "complete") /\ UNCHANGED run /\ audited' = Recorded(i)
           /\ UNCHANGED journal
  <2>1. pc'[i] = "complete" /\ begun' = begun
        BY <1>2 DEF Audit, Goto, TypeOK
  <2>2. RunAt(i)'
        BY <1>2, <2>1 DEF RunInv, RunAt, AfterBegin, Recorded, OfPlan
  <2> QED BY <1>2, <2>2, RunOne
<1>3. CASE journal.phase = "RolledBack" /\ Goto(i, "clear") /\ UNCHANGED <<run, journal>>
  <2>1. pc'[i] = "clear" /\ begun' = begun
        BY <1>3 DEF Audit, Goto, TypeOK
  <2>2. RunAt(i)'
        BY <1>3, <2>1 DEF RunInv, RunAt, AfterBegin, OfPlan
  <2> QED BY <1>3, <2>2, RunOne
<1> QED BY <1>1, <1>2, <1>3 DEF Audit

LEMMA RunComplete == ASSUME IInv, NEW i \in Instance, Complete(i) PROVE RunInv'
<1>. Typed /\ TypeOK /\ LeaseInv /\ RunInv /\ pc[i] = "complete"
     BY DEF IInv, Typed, Complete
<1>1. CASE Return(i)
      BY <1>1, RunReturn
<1>2. CASE journal' = [journal EXCEPT !.phase = "Committed"] /\ Goto(i, "clear") /\ run' = run
  <2>1. run[i] \in Plan /\ OfPlan(run[i])
        BY Executing DEF RunInv, RunAt, AfterBegin
  <2>2. OfPlan(run[i])' /\ journal'.phase = "Committed"
        BY <1>2, <2>1, PhaseOfPlan DEF Phase, OfPlan
  <2>3. pc'[i] = "clear" /\ begun' = begun
        BY <1>2 DEF Complete, Goto, TypeOK, aux
  <2>4. RunAt(i)'
        BY <1>2, <2>2, <2>3 DEF RunInv, RunAt, AfterBegin
  <2> QED BY <1>2, <2>4, RunOne
<1> QED BY <1>1, <1>2 DEF Complete

LEMMA RunStep == ASSUME IInv, Next PROVE RunInv'
<1>. TypeOK /\ LeaseInv /\ RunInv
     BY DEF IInv
<1>1. ASSUME NEW i \in Instance, NEW c \in Connection, NEW purpose \in Purpose,
             NEW ts \in SUBSET Target, PreviewContext(i, c, purpose, ts)
      PROVE  RunInv'
      BY <1>1, RunFrame DEF PreviewContext, disk, aux
<1>2. ASSUME NEW i \in Instance, PreviewTargets(i) \/ PreviewRecovery(i)
      PROVE  RunInv'
      BY <1>2, RunFrame DEF PreviewTargets, PreviewRecovery, disk, aux
<1>3. ASSUME NEW i \in Instance, NEW p \in plans[i], Apply(i, p)
      PROVE  RunInv'
  <2>1. CASE UNCHANGED <<lease, pc, run>>
        BY <1>3, <2>1, RunFrame DEF Apply, disk, aux
  <2>2. CASE lease = Nobody /\ Goto(i, "validate")
    <3>1. \A j \in Instance : pc'[j] \in {"idle", "validate"}
          BY <2>2, AllIdle DEF Goto, TypeOK
    <3> QED BY <3>1 DEF RunInv, RunAt, AfterBegin
  <2> QED BY <1>3, <2>1, <2>2 DEF Apply
<1>4. ASSUME NEW i \in Instance, Execute(i)
      PROVE  RunInv'
      BY <1>4, RunValidate, RunBegin, RunWrite, RunAudit, RunComplete, RunReturn
         DEF Execute, Clear
<1>5. ASSUME NEW i \in Instance, NEW c \in Connection,
             Upsert(i, c) \/ Toggle(i, c) \/ Detach(i, c)
      PROVE  RunInv'
      BY <1>5, AllIdle, AllIdleRun DEF Upsert, Toggle, Detach, Save, CanSave
<1>6. ASSUME NEW i \in Instance, RecoverRestore(i) \/ RecoverKeep(i)
      PROVE  RunInv'
      BY <1>6, AllIdle, AllIdleRun DEF RecoverRestore, RecoverKeep, Reviewed
<1>7. ASSUME NEW i \in Instance, Restart(i)
      PROVE  RunInv'
  <2>1. \A j \in Instance : IF j = i THEN pc'[j] = "idle"
                                     ELSE pc'[j] = pc[j] /\ run'[j] = run[j]
        BY <1>7 DEF Restart, Goto, TypeOK
  <2> QED BY <1>7, <2>1 DEF Restart, RunInv, RunAt, OfPlan, AfterBegin, disk, aux
<1>8. CASE Edit
  <2>1. PICK t \in Target : /\ \A u \in Target : u # t => content'[u] = content[u]
                            /\ stray' = stray \cup {t}
        BY <1>8 DEF Edit, TypeOK, Contents
  <2>2. UNCHANGED <<state, journal, run, pc, begun, audited>>
        BY <1>8 DEF Edit, local
  <2>3. ASSUME NEW i \in Instance, pc[i] = "write"
        PROVE  \A u \in run[i].targets \ stray' : content'[u] = run[i].before[u]
    <3>1. run[i].targets \subseteq Target
          BY <2>3, Executing, PlanFields
    <3> QED BY <2>1, <2>3, <3>1 DEF RunInv, RunAt
  <2> QED BY <2>2, <2>3 DEF RunInv, RunAt, OfPlan
<1> QED BY <1>1, <1>2, <1>3, <1>4, <1>5, <1>6, <1>7, <1>8 DEF Next

-----------------------------------------------------------------------------
(***************************************************************************)
(* The journal and the ownership of targets.                               *)
(***************************************************************************)
OwnInv == JournalInv /\ OwnershipIsTrue

LEMMA OwnFrame ==
    ASSUME OwnInv, UNCHANGED <<content, journal, stray, undone, audited>>,
           state'.proofs = state.proofs
    PROVE  OwnInv'
BY DEF OwnInv, JournalInv, OwnershipIsTrue, Agrees

LEMMA OwnBegin == ASSUME IInv, NEW i \in Instance, Begin(i) PROVE OwnInv'
<1>. Typed /\ TypeOK /\ LeaseInv /\ RunInv /\ IdsInv /\ OwnInv /\ pc[i] = "begin"
     BY DEF IInv, Typed, Begin, OwnInv
<1> DEFINE p == run[i]
<1>1. CASE UNCHANGED journal
      BY <1>1, OwnFrame DEF Begin
<1>2. CASE /\ Holds(p, p.before)
           /\ journal' = [id |-> p.id, targets |-> p.targets, before |-> p.before,
                          after |-> p.after, phase |-> "Prepared"]
  <2>1. UNCHANGED <<state, content, audited, stray, undone>>
        BY DEF Begin
  <2>2. p.id \notin audited /\ journal = NoJournal
        BY DEF IdsInv, Waiting, BeforeBegin, RunInv, RunAt
  <2>3. p.targets \subseteq Target
        BY Executing, PlanFields
  <2>4. \A t \in p.targets \ stray : Agrees(p.before[t], state.proofs, t)
        BY <1>2, <2>2, <2>3 DEF OwnInv, OwnershipIsTrue, Agrees, Holds
  <2>5. JournalInv'
        BY <1>2, <2>1, <2>2, <2>4 DEF JournalInv, Holds, Agrees
  <2>6. OwnershipIsTrue'
        BY <2>1, <2>2 DEF OwnInv, OwnershipIsTrue
  <2> QED BY <2>5, <2>6 DEF OwnInv
<1> QED BY <1>1, <1>2 DEF Begin

\* While its journal is pending, the targets of a plan may hold either side of it.
LEMMA OwnTargets ==
    ASSUME OwnInv, journal # NoJournal, journal' # NoJournal,
           journal'.targets = journal.targets,
           UNCHANGED <<stray, undone>>, state'.proofs = state.proofs,
           \A t \in Target \ journal.targets : content'[t] = content[t]
    PROVE  OwnershipIsTrue'
BY DEF OwnInv, OwnershipIsTrue

LEMMA OwnWrite == ASSUME IInv, NEW i \in Instance, Write(i) PROVE OwnInv'
<1>. Typed /\ TypeOK /\ LeaseInv /\ RunInv /\ OwnInv /\ pc[i] = "write"
     BY DEF IInv, Typed, Write, OwnInv
<1> DEFINE p == run[i]
<1>1. p \in Plan /\ OfPlan(p) /\ p.id \notin audited
      BY Executing DEF RunInv, RunAt, AfterBegin
<1>2. UNCHANGED <<state, stray, undone, audited>>
      BY DEF Write, aux
<1>3. p.targets \subseteq Target /\ \A t \in p.targets \ stray : content[t] = p.before[t]
      BY <1>1, PlanFields DEF RunInv, RunAt
<1>4. PICK ph \in {"Applying", "RolledBack", "RecoveryRequired"} :
         journal' = [journal EXCEPT !.phase = ph]
      BY DEF Write, Compensated
<1>5. /\ journal' # NoJournal /\ journal'.id = p.id /\ journal'.targets = p.targets
      /\ journal'.before = p.before /\ journal'.after = p.after /\ journal'.phase = ph
      BY <1>1, <1>4, PhaseOfPlan DEF Phase
<1>6. journal # NoJournal /\ journal.targets = p.targets /\ journal.id = p.id
      /\ journal.before = p.before
      BY <1>1 DEF OfPlan
<1>7. \A t \in p.targets \ stray : Agrees(p.before[t], state.proofs, t)
      BY <1>1, <1>6 DEF OwnInv, JournalInv
<1> DEFINE Written ==
       /\ \A t \in Target \ p.targets : content'[t] = content[t]
       /\ \A t \in p.targets \ stray : content'[t] \in {p.before[t], p.after[t]}
       /\ ph = "RolledBack" => \A t \in p.targets \ stray : content'[t] = p.before[t]
<1>8. Written
  <2>1. CASE /\ content' = [t \in Target |-> IF t \in p.targets THEN p.after[t] ELSE content[t]]
             /\ journal' = [journal EXCEPT !.phase = "Applying"]
    <3>1. ph = "Applying"
          BY <1>1, <1>5, <2>1, PhaseOfPlan DEF Phase
    <3> QED BY <1>3, <2>1, <3>1
  <2>2. ASSUME NEW left \in SUBSET {t \in p.targets : content[t] = p.before[t]},
               content' = [t \in Target |-> IF t \in left THEN p.after[t] ELSE content[t]],
               NEW phase \in {"Applying", Compensated(left)},
               journal' = [journal EXCEPT !.phase = phase]
        PROVE  Written
    <3>1. ph = "RolledBack" => left = {}
          BY <1>1, <1>5, <2>2, PhaseOfPlan DEF Compensated, Phase
    <3> QED BY <1>3, <2>2, <3>1
  <2>3. CASE UNCHANGED content
        BY <1>3, <2>3
  <2> QED BY <2>1, <2>2, <2>3 DEF Write
<1>9. JournalInv'
      BY <1>1, <1>2, <1>5, <1>7, <1>8 DEF JournalInv, Agrees
<1>10. OwnershipIsTrue'
      BY <1>2, <1>5, <1>6, <1>8, OwnTargets
<1> QED BY <1>9, <1>10 DEF OwnInv

\* What a recorded plan leaves undone: what it did not decide anew.
LEMMA UndoneFacts ==
    ASSUME NEW i \in Instance, ~Failed(i)
    PROVE  \A t \in Target, c \in Connection :
              LET p == run[i] IN
              <<c, t>> \notin StillUndone(i) =>
                 \/ <<c, t>> \notin undone
                 \/ t \in p.targets /\ (t \in Route \/ c = p.conn)
BY DEF StillUndone, Settled, Proof

LEMMA OwnAudit == ASSUME IInv, NEW i \in Instance, Audit(i) PROVE OwnInv'
<1>. Typed /\ TypeOK /\ LeaseInv /\ PlansInv /\ RunInv /\ OwnInv /\ pc[i] \in {"audit", "failed"}
     BY DEF IInv, Typed, Audit, OwnInv
<1> DEFINE p == run[i]
<1>1. p \in Plan /\ WellMade(p) /\ OfPlan(p) /\ p.id \notin audited /\ state = p.ctx
      BY Executing, PlanFields DEF RunInv, RunAt, AfterBegin, PlansInv
<1>2. /\ journal # NoJournal /\ journal.targets = p.targets /\ journal.id = p.id
      /\ journal.before = p.before /\ journal.after = p.after
      /\ p.targets \subseteq Target /\ journal \in Journal /\ journal.phase # "Committed"
      BY <1>1, PlanFields DEF OfPlan, TypeOK, RunInv, RunAt
<1>3. /\ \A t \in p.targets \ stray : content[t] \in {p.before[t], p.after[t]}
      /\ \A t \in p.targets \ stray : Agrees(p.before[t], state.proofs, t)
      /\ journal.phase = "RolledBack" => \A t \in p.targets \ stray : content[t] = p.before[t]
      BY <1>1, <1>2 DEF OwnInv, JournalInv
\* Recording the plan tells what its targets hold now.
<1>4. ASSUME ~Failed(i), NEW t \in p.targets \ stray, NEW c \in Connection,
             <<c, t>> \notin StillUndone(i)
      PROVE  p.after[t][c] # 0 <=> <<c, t>> \in p.proofs
  <2>1. <<c, t>> \notin undone \/ t \in Route \/ c = p.conn
        BY <1>2, <1>4, UndoneFacts
  <2>2. <<c, t>> \notin undone => (p.before[t][c] # 0 <=> <<c, t>> \in p.ctx.proofs)
        BY <1>1, <1>3, <1>4 DEF Agrees
  <2> QED BY <1>1, <1>4, <2>1, <2>2, PlanAgrees
<1>5. Committed(i).proofs = IF Failed(i) THEN state.proofs ELSE p.proofs
      BY <1>1, CommittedFields
\* Recording the plan leaves the targets it does not name as they were described.
<1>6. ASSUME ~Failed(i), NEW t \in Target \ stray, t \notin p.targets, NEW c \in Connection,
             <<c, t>> \notin StillUndone(i)
      PROVE  content[t][c] # 0 <=> <<c, t>> \in p.proofs
  <2>1. content[t][c] # 0 <=> <<c, t>> \in state.proofs
        BY <1>2, <1>6, UndoneFacts DEF OwnInv, OwnershipIsTrue
  <2> QED BY <1>1, <1>6, <2>1, ProofsElsewhere DEF WellMade
<1> HIDE DEF p
<1>7. CASE /\ Failed(i) \/ Holds(p, p.after)
           /\ state' = Committed(i) /\ audited' = Recorded(i) /\ undone' = StillUndone(i)
           /\ UNCHANGED <<content, journal>>
  <2>1. CASE Failed(i)
        BY <1>5, <1>7, <2>1, OwnFrame DEF Audit, Recorded, StillUndone
  <2>2. CASE ~Failed(i)
    <3>1. state'.proofs = p.proofs /\ audited' = audited \cup {p.id} /\ stray' = stray
          BY <1>5, <1>7, <2>2 DEF Audit, Recorded, p
    <3>2. \A t \in p.targets \ stray : Agrees(content[t], state.proofs, t)'
          BY <1>4, <1>7, <2>2, <3>1 DEF Holds, Agrees
    <3>3. JournalInv'
          BY <1>2, <1>3, <1>7, <2>2, <3>1, <3>2 DEF JournalInv, Agrees
    <3>4. OwnershipIsTrue'
          BY <1>2, <1>6, <1>7, <2>2, <3>1 DEF OwnershipIsTrue
    <3> QED BY <3>3, <3>4 DEF OwnInv
  <2> QED BY <2>1, <2>2
<1>8. ASSUME NEW left \in SUBSET p.targets, NEW phase \in {journal.phase, Compensated(left)},
             Conflicting(p) \subseteq left, Restore(p, left),
             journal' = [journal EXCEPT !.phase = phase],
             \/ UNCHANGED <<state, audited, undone>>
             \/ /\ Failed(i) \/ Holds(p, p.after)
                /\ state' = Committed(i) /\ audited' = Recorded(i)
                /\ undone' = StillUndone(i) \cup (IF Failed(i) THEN {} ELSE PutBack)
      PROVE  OwnInv'
  <2>1. phase \in Phase /\ phase # "Committed"
        BY <1>2, JournalFields DEF Compensated, Phase
  <2>2. /\ journal' # NoJournal /\ journal'.id = p.id /\ journal'.targets = p.targets
        /\ journal'.before = p.before /\ journal'.after = p.after
        /\ journal'.phase = phase /\ stray' = stray
        BY <1>1, <1>8, <2>1, PhaseOfPlan DEF Audit
  <2>3. /\ \A t \in Target \ p.targets : content'[t] = content[t]
        /\ \A t \in p.targets \ stray : content'[t] \in {p.before[t], p.after[t]}
        /\ \A t \in p.targets \ (stray \cup left) : content'[t] = p.before[t]
        /\ \A t \in p.targets : content[t] = p.before[t] => content'[t] = p.before[t]
        BY <1>2, <1>3, <1>8 DEF Restore
  <2>4. phase = "RolledBack" => \A t \in p.targets \ stray : content'[t] = p.before[t]
        BY <1>3, <1>8, <2>3 DEF Compensated
  <2>5. CASE state'.proofs = state.proofs /\ UNCHANGED <<audited, undone>>
    <3>1. JournalInv'
          BY <1>1, <1>3, <2>1, <2>2, <2>3, <2>4, <2>5 DEF JournalInv, Agrees
    <3>2. OwnershipIsTrue'
          BY <1>2, <2>2, <2>3, <2>5, OwnTargets
    <3> QED BY <3>1, <3>2 DEF OwnInv
  <2>6. CASE /\ ~Failed(i) /\ Holds(p, p.after) /\ state'.proofs = p.proofs
             /\ audited' = audited \cup {p.id} /\ undone' = StillUndone(i) \cup PutBack
    <3>1. ASSUME NEW t \in p.targets \ stray, NEW c \in Connection, <<c, t>> \notin undone'
          PROVE  content'[t][c] # 0 <=> <<c, t>> \in state'.proofs
      <4>1. content'[t][c] # 0 <=> content[t][c] # 0
            BY <1>2, <2>6, <3>1 DEF PutBack, Proof
      <4>2. content[t] = p.after[t] /\ <<c, t>> \notin StillUndone(i)
            BY <2>6, <3>1 DEF Holds
      <4> QED BY <1>4, <2>6, <3>1, <4>1, <4>2
    <3>2. JournalInv'
          BY <2>1, <2>2, <2>3, <2>4, <2>6, <3>1 DEF JournalInv, Agrees
    <3>3. ASSUME NEW t \in Target \ stray, NEW c \in Connection, t \notin p.targets,
                 <<c, t>> \notin undone'
          PROVE  content'[t][c] # 0 <=> <<c, t>> \in state'.proofs
      <4>1. <<c, t>> \notin StillUndone(i)
            BY <2>6, <3>3
      <4>2. content[t][c] # 0 <=> <<c, t>> \in p.proofs
            BY <1>6, <2>6, <3>3, <4>1
      <4>3. content'[t] = content[t]
            BY <2>3, <3>3
      <4> QED BY <2>6, <4>2, <4>3
    <3>4. OwnershipIsTrue'
          BY <2>2, <3>3 DEF OwnershipIsTrue
    <3> QED BY <3>2, <3>4 DEF OwnInv
  <2> QED BY <1>5, <1>8, <2>5, <2>6 DEF Recorded, StillUndone, p
<1> QED BY <1>7, <1>8 DEF Audit, p

LEMMA OwnComplete == ASSUME IInv, NEW i \in Instance, Complete(i) PROVE OwnInv'
<1>. Typed /\ TypeOK /\ LeaseInv /\ RunInv /\ OwnInv /\ pc[i] = "complete"
     BY DEF IInv, Typed, Complete, OwnInv
<1> DEFINE p == run[i]
<1>1. p \in Plan /\ OfPlan(p) /\ p.id \in audited
      BY Executing DEF RunInv, RunAt, AfterBegin
<1>2. UNCHANGED <<state, content, stray, undone, audited>>
      BY DEF Complete, aux
<1>3. CASE UNCHANGED journal
      BY <1>2, <1>3, OwnFrame
<1>4. CASE journal' = [journal EXCEPT !.phase = "Committed"]
  <2>1. /\ journal' # NoJournal /\ journal'.id = p.id /\ journal'.targets = p.targets
        /\ journal'.before = p.before /\ journal'.after = p.after
        /\ journal'.phase = "Committed"
        BY <1>1, <1>4, PhaseOfPlan DEF Phase
  <2>2. /\ journal # NoJournal /\ journal.targets = p.targets /\ journal.id = p.id
        /\ journal.before = p.before /\ journal.after = p.after
        BY <1>1 DEF OfPlan
  <2>3. JournalInv'
        BY <1>1, <1>2, <2>1, <2>2 DEF OwnInv, JournalInv, Agrees
  <2>4. OwnershipIsTrue'
        BY <1>2, <2>1, <2>2, OwnTargets
  <2> QED BY <2>3, <2>4 DEF OwnInv
<1> QED BY <1>3, <1>4 DEF Complete

LEMMA OwnClear == ASSUME IInv, NEW i \in Instance, Clear(i) PROVE OwnInv'
<1>. Typed /\ TypeOK /\ LeaseInv /\ RunInv /\ OwnInv /\ pc[i] = "clear"
     BY DEF IInv, Typed, Clear, OwnInv
<1>1. UNCHANGED <<state, content, stray, undone, audited>>
      BY DEF Clear, aux
<1>2. CASE UNCHANGED journal
      BY <1>1, <1>2, OwnFrame
<1>3. CASE journal' = NoJournal
  <2>1. journal # NoJournal /\ journal.phase \in {"Committed", "RolledBack"}
        BY DEF RunInv, RunAt, AfterBegin, OfPlan
  <2>2. \A t \in journal.targets \ stray : Agrees(content[t], state.proofs, t)
        BY <2>1 DEF OwnInv, JournalInv
  <2>3. OwnershipIsTrue'
        BY <1>1, <2>2 DEF OwnInv, OwnershipIsTrue, Agrees
  <2> QED BY <1>3, <2>3 DEF OwnInv, JournalInv
<1> QED BY <1>2, <1>3 DEF Clear

LEMMA OwnSave ==
    ASSUME IInv, NEW i \in Instance, NEW next \in State, Save(i, next),
           next.proofs = state.proofs, stray' = stray
    PROVE  OwnInv'
<1>1. state'.proofs = state.proofs
      BY DEF Save, State
<1> QED BY <1>1, OwnFrame DEF IInv, OwnInv, Save

LEMMA OwnDetach ==
    ASSUME IInv, NEW i \in Instance, NEW d \in Connection, Detach(i, d)
    PROVE  OwnInv'
<1>. Typed /\ OwnInv
     BY DEF IInv, Typed, OwnInv
<1> DEFINE next == [state EXCEPT !.conns[d] = 0, !.proofs = {p \in @ : p[1] # d}]
<1>1. next \in State /\ next.proofs = {p \in state.proofs : p[1] # d}
      BY DetachNext
<1>2. state' = [next EXCEPT !.rev = @ + 1] /\ journal = NoJournal
      BY DEF Detach, Disowned, Save, CanSave, NoPendingJournal
<1> HIDE DEF next
<1>3. state'.proofs = {p \in state.proofs : p[1] # d}
      BY <1>1, <1>2 DEF State
<1>4. UNCHANGED <<content, journal, undone>> /\ stray' = stray \cup {t \in Target : content[t][d] # 0}
      BY DEF Detach, Save
<1>5. ASSUME NEW t \in Target \ stray', NEW c \in Connection, <<c, t>> \notin undone'
      PROVE  content'[t][c] # 0 <=> <<c, t>> \in state'.proofs
  <2>1. content[t][c] # 0 <=> <<c, t>> \in state.proofs
        BY <1>2, <1>4, <1>5 DEF OwnInv, OwnershipIsTrue
  <2>2. c = d => content[t][c] = 0
        BY <1>4, <1>5
  <2> QED BY <1>3, <1>4, <2>1, <2>2
<1> QED BY <1>2, <1>4, <1>5 DEF OwnInv, OwnershipIsTrue, JournalInv

LEMMA OwnRecoverRestore ==
    ASSUME IInv, NEW i \in Instance, RecoverRestore(i)
    PROVE  OwnInv'
<1>. Typed /\ TypeOK /\ OwnInv
     BY DEF IInv, Typed, OwnInv
<1>1. journal \in Journal /\ journal # NoJournal /\ journal.targets \subseteq Target
      BY JournalFields DEF RecoverRestore, Reviewed, TypeOK
<1>2. UNCHANGED <<state, audited, stray>>
      BY DEF RecoverRestore
<1>3. CASE /\ journal.phase = "Committed" /\ journal' \in {NoJournal, journal}
           /\ UNCHANGED <<content, undone>>
  <2>1. \A t \in journal.targets \ stray : Agrees(content[t], state.proofs, t)
        BY <1>1, <1>3 DEF OwnInv, JournalInv
  <2>2. CASE journal' = journal
        BY <1>2, <1>3, <2>2, OwnFrame
  <2>3. CASE journal' = NoJournal
        BY <1>2, <1>3, <2>1, <2>3 DEF OwnInv, OwnershipIsTrue, JournalInv, Agrees
  <2> QED BY <1>3, <2>2, <2>3
<1>4. ASSUME NEW left \in SUBSET journal.targets, Conflicting(journal) \subseteq left,
             Restore(journal, left), journal.phase # "Committed",
             NEW phase \in {journal.phase, Compensated(left)},
             \/ left = {} /\ journal' = NoJournal
             \/ journal' = [journal EXCEPT !.phase = phase],
             undone' = IF journal.id \in audited THEN undone \cup PutBack ELSE undone
      PROVE  OwnInv'
  <2>1. /\ \A t \in journal.targets \ stray :
               content[t] \in {journal.before[t], journal.after[t]}
        /\ journal.phase = "RolledBack" =>
               \A t \in journal.targets \ stray : content[t] = journal.before[t]
        BY <1>1 DEF OwnInv, JournalInv
  <2>2. /\ \A t \in Target \ journal.targets : content'[t] = content[t]
        /\ \A t \in journal.targets \ stray : content'[t] \in {journal.before[t], journal.after[t]}
        /\ \A t \in journal.targets \ (stray \cup left) : content'[t] = journal.before[t]
        /\ \A t \in journal.targets : content[t] = journal.before[t]
                                       => content'[t] = journal.before[t]
        BY <1>1, <1>4, <2>1 DEF Restore
  <2>3. phase = "RolledBack" => \A t \in journal.targets \ stray : content'[t] = journal.before[t]
        BY <1>4, <2>1, <2>2 DEF Compensated
  <2>4. \A pair : pair \notin undone' => pair \notin undone
        BY <1>4
  <2>5. ASSUME NEW t \in journal.targets \ stray, NEW c \in Connection, <<c, t>> \notin undone'
        PROVE  IF journal.id \in audited
               THEN content'[t][c] # 0 <=> <<c, t>> \in state.proofs
               ELSE journal.before[t][c] # 0 <=> <<c, t>> \in state.proofs
    <3>1. IF journal.id \in audited
          THEN content[t][c] # 0 <=> <<c, t>> \in state.proofs
          ELSE journal.before[t][c] # 0 <=> <<c, t>> \in state.proofs
          BY <1>1, <2>4, <2>5 DEF OwnInv, JournalInv, Agrees
    <3>2. journal.id \in audited => (content'[t][c] # 0 <=> content[t][c] # 0)
          BY <1>1, <1>4, <2>5 DEF PutBack, Proof
    <3> QED BY <3>1, <3>2
  <2>6. ASSUME NEW t \in Target \ stray, t \notin journal.targets,
               NEW c \in Connection, <<c, t>> \notin undone'
        PROVE  content'[t][c] # 0 <=> <<c, t>> \in state.proofs
        BY <2>2, <2>4, <2>6 DEF OwnInv, OwnershipIsTrue
  <2>7. CASE left = {} /\ journal' = NoJournal
    <3>1. ASSUME NEW t \in Target \ stray, NEW c \in Connection, <<c, t>> \notin undone'
          PROVE  content'[t][c] # 0 <=> <<c, t>> \in state.proofs
          BY <2>2, <2>5, <2>6, <2>7, <3>1
    <3> QED BY <1>2, <2>7, <3>1 DEF OwnInv, OwnershipIsTrue, JournalInv
  <2>8. CASE journal' = [journal EXCEPT !.phase = phase]
    <3>1. phase \in Phase /\ phase # "Committed"
          BY <1>1, <1>4, JournalFields DEF Compensated, Phase
    <3>2. /\ journal' # NoJournal /\ journal'.id = journal.id
          /\ journal'.targets = journal.targets /\ journal'.before = journal.before
          /\ journal'.after = journal.after /\ journal'.phase = phase
      <4>1. journal' \in Journal
            BY <1>1, <2>8, <3>1, PhaseFields
      <4> QED BY <1>1, <2>8, <3>1, <4>1, PhaseFields, JournalFields
    <3>3. JournalInv'
          BY <1>2, <2>2, <2>3, <2>5, <3>1, <3>2 DEF JournalInv, Agrees
    <3>4. OwnershipIsTrue'
          BY <1>2, <2>6, <3>2 DEF OwnershipIsTrue
    <3> QED BY <3>3, <3>4 DEF OwnInv
  <2> QED BY <1>4, <2>7, <2>8
<1>5. CASE journal.phase = "Committed"
      BY <1>3, <1>5 DEF RecoverRestore
<1>6. CASE journal.phase # "Committed"
  <2>1. PICK left \in SUBSET journal.targets, phase \in Phase :
           /\ Conflicting(journal) \subseteq left /\ Restore(journal, left)
           /\ phase \in {journal.phase, Compensated(left)}
           /\ \/ left = {} /\ journal' = NoJournal
              \/ journal' = [journal EXCEPT !.phase = phase]
        BY <1>6 DEF RecoverRestore
  <2> QED BY <1>4, <1>6, <2>1 DEF RecoverRestore
<1> QED BY <1>5, <1>6

LEMMA OwnRecoverKeep == ASSUME IInv, NEW i \in Instance, RecoverKeep(i) PROVE OwnInv'
BY DEF IInv, RecoverKeep, OwnInv, JournalInv, OwnershipIsTrue

LEMMA OwnEdit == ASSUME IInv, Edit PROVE OwnInv'
<1>. TypeOK /\ OwnInv
     BY DEF IInv, OwnInv
<1>1. PICK t \in Target : /\ \A u \in Target : u # t => content'[u] = content[u]
                          /\ stray' = stray \cup {t}
      BY DEF Edit, TypeOK, Contents
<1>2. UNCHANGED <<state, journal, audited, undone>>
      BY DEF Edit
<1>3. journal # NoJournal => journal.targets \subseteq Target
      BY JournalFields DEF TypeOK
<1>4. JournalInv'
      BY <1>1, <1>2, <1>3 DEF OwnInv, JournalInv, Agrees
<1>5. OwnershipIsTrue'
      BY <1>1, <1>2 DEF OwnInv, OwnershipIsTrue
<1> QED BY <1>4, <1>5 DEF OwnInv

LEMMA OwnStep == ASSUME IInv, Next PROVE OwnInv'
<1>. Typed /\ TypeOK /\ OwnInv
     BY DEF IInv, Typed, OwnInv
<1>1. ASSUME NEW i \in Instance, NEW c \in Connection, NEW purpose \in Purpose,
             NEW ts \in SUBSET Target, PreviewContext(i, c, purpose, ts)
      PROVE  OwnInv'
      BY <1>1, OwnFrame DEF PreviewContext, disk, aux
<1>2. ASSUME NEW i \in Instance,
             \/ PreviewTargets(i) \/ Validate(i) \/ PreviewRecovery(i) \/ Restart(i)
             \/ \E p \in plans[i] : Apply(i, p)
      PROVE  OwnInv'
      BY <1>2, OwnFrame DEF PreviewTargets, Validate, PreviewRecovery, Restart, Apply, disk, aux
<1>3. ASSUME NEW i \in Instance,
             Begin(i) \/ Write(i) \/ Audit(i) \/ Complete(i) \/ Clear(i)
      PROVE  OwnInv'
      BY <1>3, OwnBegin, OwnWrite, OwnAudit, OwnComplete, OwnClear
<1>4. ASSUME NEW i \in Instance, NEW c \in Connection, Upsert(i, c)
      PROVE  OwnInv'
  <2>1. budget.save > 0
        BY <1>4 DEF Upsert, Save, Spend
  <2> QED BY <1>4, <2>1, UpsertNext, OwnSave DEF Upsert
<1>5. ASSUME NEW i \in Instance, NEW c \in Connection, Toggle(i, c)
      PROVE  OwnInv'
      BY <1>5, ToggleNext, OwnSave DEF Toggle
<1>6. ASSUME NEW i \in Instance, NEW c \in Connection, Detach(i, c)
      PROVE  OwnInv'
      BY <1>6, OwnDetach
<1>7. ASSUME NEW i \in Instance, RecoverRestore(i) \/ RecoverKeep(i)
      PROVE  OwnInv'
      BY <1>7, OwnRecoverRestore, OwnRecoverKeep
<1>8. CASE Edit
      BY <1>8, OwnEdit
<1> QED BY <1>1, <1>2, <1>3, <1>4, <1>5, <1>6, <1>7, <1>8 DEF Next, Execute

-----------------------------------------------------------------------------
(***************************************************************************)
(* The proofs themselves.                                                  *)
(***************************************************************************)
LEMMA SoundFrame ==
    ASSUME ProofsAreSound, state'.proofs = state.proofs,
           \A p \in state.proofs : state.conns[p[1]] # 0 => state'.conns[p[1]] # 0
    PROVE  ProofsAreSound'
BY DEF ProofsAreSound

LEMMA SoundSave ==
    ASSUME IInv, NEW i \in Instance, NEW next \in State, Save(i, next),
           next.proofs \subseteq state.proofs,
           \A p \in next.proofs : state.conns[p[1]] # 0 => next.conns[p[1]] # 0
    PROVE  ProofsAreSound'
<1>1. state'.proofs = next.proofs /\ state'.conns = next.conns
      BY DEF Save, State
<1> QED BY <1>1 DEF IInv, ProofsAreSound

LEMMA SoundAudit ==
    ASSUME IInv, NEW i \in Instance, Audit(i), state' = Committed(i)
    PROVE  ProofsAreSound'
<1>. TypeOK /\ LeaseInv /\ PlansInv /\ RunInv /\ ProofsAreSound /\ pc[i] \in {"audit", "failed"}
     BY DEF IInv, Audit
<1> DEFINE p == run[i]
<1>1. p \in Plan /\ WellMade(p) /\ state = p.ctx
      BY Executing, PlanFields DEF RunInv, RunAt, PlansInv
<1>2. p.conn \in Connection /\ state \in State /\ state.proofs \subseteq Proof
      BY <1>1, PlanFields, StateFields DEF TypeOK
<1>3. CASE Failed(i)
      BY <1>1, <1>3, CommittedFields, SoundFrame
<1>4. CASE ~Failed(i)
  <2>1. /\ state'.proofs = ProofsAfter(state.proofs, p.conn, p.targets, p.purpose)
        /\ state'.conns = IF p.purpose = "revoke" THEN [state.conns EXCEPT ![p.conn] = 0]
                                                  ELSE state.conns
        BY <1>1, <1>4, CommittedFields DEF WellMade
  <2>2. ASSUME NEW q \in state'.proofs
        PROVE  \/ /\ q \in state.proofs
                  /\ ~(q[2] \in p.targets /\ (q[2] \in Route \/ q[1] = p.conn))
               \/ p.purpose = "deploy" /\ q[1] = p.conn /\ q[2] \in p.targets /\ q = <<q[1], q[2]>>
        BY <2>1 DEF ProofsAfter, KeptProofs
  <2>3. ASSUME NEW q \in state'.proofs
        PROVE  state'.conns[q[1]] # 0
    <3>1. CASE p.purpose = "deploy"
          BY <1>1, <2>1, <2>2, <2>3, <3>1 DEF WellMade, Requested, ProofsAreSound, Purpose
    <3>2. CASE p.purpose # "deploy"
      <4>1. p.purpose = "revoke" /\ p.targets = Owned(state, p.conn)
            BY <1>1, <3>2, PlanFields DEF WellMade, Requested, Purpose
      <4>2. q \in state.proofs /\ q = <<q[1], q[2]>> /\ q[1] \in Connection /\ q[2] \in Target
            BY <1>2, <2>2, <2>3, <3>2 DEF Proof
      <4>3. q[1] # p.conn
            BY <2>2, <2>3, <3>2, <4>1, <4>2 DEF Owned
      <4>4. state'.conns[q[1]] = state.conns[q[1]]
            BY <1>2, <2>1, <4>1, <4>2, <4>3, StateFields
      <4> QED BY <4>2, <4>4 DEF ProofsAreSound
    <3> QED BY <3>1, <3>2
  <2>4. ASSUME NEW t \in Route, NEW q \in state'.proofs, NEW r \in state'.proofs,
               q[2] = t, r[2] = t
        PROVE  q = r
    <3>1. CASE t \in p.targets
          BY <2>2, <2>4, <3>1
    <3>2. CASE t \notin p.targets
          BY <2>2, <2>4, <3>2 DEF ProofsAreSound
    <3> QED BY <3>1, <3>2
  <2> QED BY <2>3, <2>4 DEF ProofsAreSound
<1> QED BY <1>3, <1>4

LEMMA SoundStep == ASSUME IInv, Next PROVE ProofsAreSound'
<1>. Typed /\ TypeOK /\ ProofsAreSound
     BY DEF IInv, Typed
<1>1. CASE state' = state
      BY <1>1, SoundFrame
<1>2. ASSUME NEW i \in Instance, Audit(i)
      PROVE  ProofsAreSound'
      BY <1>2, <1>1, SoundAudit DEF Audit
<1>3. ASSUME NEW i \in Instance, NEW c \in Connection, Upsert(i, c)
      PROVE  ProofsAreSound'
  <2>1. budget.save > 0
        BY <1>3 DEF Upsert, Save, Spend
  <2>2. \A p \in state.proofs : p[1] \in Connection
        BY StateFields DEF TypeOK, Proof
  <2> QED BY <1>3, <2>1, <2>2, UpsertNext, SoundSave DEF Upsert
<1>4. ASSUME NEW i \in Instance, NEW c \in Connection, Toggle(i, c)
      PROVE  ProofsAreSound'
      BY <1>4, ToggleNext, SoundSave DEF Toggle
<1>5. ASSUME NEW i \in Instance, NEW c \in Connection, Detach(i, c)
      PROVE  ProofsAreSound'
  <2> DEFINE next == [state EXCEPT !.conns[c] = 0, !.proofs = {p \in @ : p[1] # c}]
  <2>1. \A p \in state.proofs : p[1] \in Connection
        BY StateFields DEF TypeOK, Proof
  <2>2. /\ next \in State /\ next.proofs = {p \in state.proofs : p[1] # c}
        /\ \A d \in Connection : d # c => next.conns[d] = state.conns[d]
        BY DetachNext
  <2>3. Save(i, next)
        BY <1>5 DEF Detach, Disowned
  <2> HIDE DEF next
  <2>4. \A p \in next.proofs : state.conns[p[1]] # 0 => next.conns[p[1]] # 0
        BY <2>1, <2>2
  <2> QED BY <2>2, <2>3, <2>4, SoundSave
<1>6. ASSUME NEW i \in Instance, NEW c \in Connection, NEW purpose \in Purpose,
             NEW ts \in SUBSET Target, PreviewContext(i, c, purpose, ts)
      PROVE  state' = state
      BY <1>6 DEF PreviewContext, disk
<1>7. ASSUME NEW i \in Instance,
             \/ PreviewTargets(i) \/ PreviewRecovery(i) \/ RecoverRestore(i)
             \/ RecoverKeep(i) \/ Restart(i) \/ \E p \in plans[i] : Apply(i, p)
      PROVE  state' = state
      BY <1>7 DEF PreviewTargets, PreviewRecovery, RecoverRestore, RecoverKeep, Restart,
                  Apply, disk
<1>8. ASSUME NEW i \in Instance,
             Validate(i) \/ Begin(i) \/ Write(i) \/ Complete(i) \/ Clear(i)
      PROVE  state' = state
      BY <1>8 DEF Validate, Begin, Write, Complete, Clear, disk
<1>9. CASE Edit
      BY <1>1, <1>9 DEF Edit
<1> QED BY <1>1, <1>2, <1>3, <1>4, <1>5, <1>6, <1>7, <1>8, <1>9 DEF Next, Execute

-----------------------------------------------------------------------------
(***************************************************************************)
(* The invariant is inductive.                                             *)
(***************************************************************************)
LEMMA InitIInv == Init => IInv
<1>. SUFFICES ASSUME Init PROVE IInv
     OBVIOUS
<1>1. state \in State /\ state.proofs = {}
      BY PlanIdFacts DEF Init, State, Version
<1>2. content \in Contents /\ \A t \in Target, c \in Connection : content[t][c] = 0
  <2>. 0 \in Version /\ 1 \in Version
       BY PlanIdFacts DEF Version
  <2>1. \A t \in Target : content[t] \in {[h \in Holder |-> 0],
                                        [h \in Holder |-> IF h = Foreign THEN 1 ELSE 0]}
        BY DEF Init
  <2>2. content \in Contents
        BY DEF Init, Contents
  <2> QED BY <2>1, <2>2, ForeignAssumption DEF Holder
<1>3. budget \in Budget /\ budget.plan = MaxPlans
      BY PlanIdFacts, BoundAssumption DEF Init, Budget
<1>4. TypeOK
      BY <1>1, <1>2 DEF Init, TypeOK, Label
<1>5. LeaseInv
      BY NobodyAssumption DEF Init, LeaseInv
<1>6. PlansInv
      BY DEF Init, PlansInv
<1>7. IdsInv
      BY DEF Init, IdsInv, BeforeBegin
<1>8. RunInv
      BY DEF Init, RunInv, RunAt, AfterBegin
<1>9. JournalInv /\ OwnershipIsTrue /\ ProofsAreSound
      BY <1>1, <1>2 DEF Init, JournalInv, OwnershipIsTrue, ProofsAreSound
<1> QED BY <1>3, <1>4, <1>5, <1>6, <1>7, <1>8, <1>9 DEF IInv

LEMMA StepIInv == ASSUME IInv, [Next]_vars PROVE IInv'
<1>1. CASE Next
      BY <1>1, TypeStep, LeaseStep, PlansStep, IdsStep, RunStep, OwnStep,
         SoundStep DEF IInv, Typed, OwnInv
<1>2. CASE UNCHANGED vars
  <2>. /\ UNCHANGED <<state, content, journal, lease, loaded, preview, plans, run, pc, review>>
       /\ UNCHANGED <<begun, audited, stray, undone, budget>>
       BY <1>2 DEF vars, disk, local, aux
  <2>1. TypeOK' /\ budget' \in Budget
        BY DEF IInv, TypeOK
  <2>2. LeaseInv' /\ PlansInv'
        BY LeaseFrame, PlansFrame DEF IInv
  <2>3. IdsInv' /\ RunInv'
        BY IdsFrame, RunFrame DEF IInv
  <2>4. OwnInv'
        BY OwnFrame DEF IInv, OwnInv
  <2>5. ProofsAreSound'
        BY SoundFrame DEF IInv
  <2> QED BY <2>1, <2>2, <2>3, <2>4, <2>5 DEF IInv, OwnInv
<1> QED BY <1>1, <1>2

\* Lease, plans, identifiers, the executing thread, the journal and the proofs always
\* agree: the strengthening from which the results below follow.
THEOREM Invariance == Spec => []IInv
BY InitIInv, StepIInv, PTL DEF Spec

\* Only one action begins to write, and only one saves beside a pending journal.
LEMMA OnlyBegin ==
    ASSUME Next, begun' # begun
    PROVE  \E i \in Instance : Begin(i)
<1>1. ASSUME NEW i \in Instance, NEW c \in Connection, NEW purpose \in Purpose,
             NEW ts \in SUBSET Target, PreviewContext(i, c, purpose, ts)
      PROVE  FALSE
      BY <1>1 DEF PreviewContext, aux
<1>2. ASSUME NEW i \in Instance, NEW p \in plans[i], Apply(i, p)
      PROVE  FALSE
      BY <1>2 DEF Apply, aux
<1>3. ASSUME NEW i \in Instance,
             Validate(i) \/ Write(i) \/ Audit(i) \/ Complete(i) \/ Clear(i)
      PROVE  FALSE
      BY <1>3 DEF Validate, Write, Audit, Complete, Clear, aux
<1>4. ASSUME NEW i \in Instance, NEW c \in Connection,
             Upsert(i, c) \/ Toggle(i, c) \/ Detach(i, c)
      PROVE  FALSE
      BY <1>4 DEF Upsert, Toggle, Detach, Save
<1>5. ASSUME NEW i \in Instance,
             \/ PreviewTargets(i) \/ PreviewRecovery(i) \/ RecoverRestore(i)
             \/ RecoverKeep(i) \/ Restart(i)
      PROVE  FALSE
      BY <1>5 DEF PreviewTargets, PreviewRecovery, RecoverRestore, RecoverKeep, Restart, aux
<1>6. CASE Edit
      BY <1>6 DEF Edit
<1> QED BY <1>1, <1>2, <1>3, <1>4, <1>5, <1>6 DEF Next, Execute

LEMMA OnlyAudit ==
    ASSUME Next, journal # NoJournal, state' # state
    PROVE  \E i \in Instance : Audit(i)
<1>1. ASSUME NEW i \in Instance, NEW c \in Connection, NEW purpose \in Purpose,
             NEW ts \in SUBSET Target, PreviewContext(i, c, purpose, ts)
      PROVE  FALSE
      BY <1>1 DEF PreviewContext, disk
<1>2. ASSUME NEW i \in Instance, NEW p \in plans[i], Apply(i, p)
      PROVE  FALSE
      BY <1>2 DEF Apply, disk
<1>3. ASSUME NEW i \in Instance,
             Validate(i) \/ Begin(i) \/ Write(i) \/ Complete(i) \/ Clear(i)
      PROVE  FALSE
      BY <1>3 DEF Validate, Begin, Write, Complete, Clear, disk
<1>4. ASSUME NEW i \in Instance, NEW c \in Connection,
             Upsert(i, c) \/ Toggle(i, c) \/ Detach(i, c)
      PROVE  FALSE
      BY <1>4 DEF Upsert, Toggle, Detach, Save, CanSave, NoPendingJournal
<1>5. ASSUME NEW i \in Instance,
             \/ PreviewTargets(i) \/ PreviewRecovery(i) \/ RecoverRestore(i)
             \/ RecoverKeep(i) \/ Restart(i)
      PROVE  FALSE
      BY <1>5 DEF PreviewTargets, PreviewRecovery, RecoverRestore, RecoverKeep, Restart, disk
<1>6. CASE Edit
      BY <1>6 DEF Edit
<1> QED BY <1>1, <1>2, <1>3, <1>4, <1>5, <1>6 DEF Next, Execute

-----------------------------------------------------------------------------
(***************************************************************************)
(* The theorems.                                                           *)
(***************************************************************************)

\* Every variable keeps its type, whatever the instances, plans and failures.
THEOREM TypeCorrect == Spec => []TypeOK
BY Invariance, PTL DEF IInv

\* What no pending journal names and the user left alone, a client holds exactly when
\* state.json says we own it, those configurations aside that a compensation or a recovery
\* put back after they had been recorded and that no later plan has decided.
THEOREM Ownership == Spec => []OwnershipIsTrue
BY Invariance, PTL DEF IInv

\* Proofs never outlive their connection, and a route has at most one owner.
THEOREM SoundProofs == Spec => []ProofsAreSound
BY Invariance, PTL DEF IInv

\* No reviewed plan begins to write twice.
THEOREM AtMostOnce == Spec => []WritesOnce
<1>1. IInv => WritesOnce
      BY DEF IInv, IdsInv, WritesOnce
<1> QED BY <1>1, Invariance, PTL

\* What a plan begins to write was reviewed against this very state and these very
\* contents: the lease keeps both from changing after they were validated.
THEOREM OnlyAsReviewed == Spec => BeginsAsReviewed
<1> DEFINE Step == \A p \in PlanId : begun'[p] > begun[p] =>
                      \E i \in Instance : /\ run[i].id = p
                                          /\ state = run[i].ctx
                                          /\ Holds(run[i], run[i].before)
<1>1. IInv /\ [Next]_vars => [Step]_vars
  <2>. SUFFICES ASSUME IInv, Next, NEW p \in PlanId, begun'[p] > begun[p]
                PROVE  \E i \in Instance : /\ run[i].id = p /\ state = run[i].ctx
                                           /\ Holds(run[i], run[i].before)
       OBVIOUS
  <2>1. PICK i \in Instance : Begin(i) /\ begun' # begun
        BY OnlyBegin DEF IInv, TypeOK
  <2>2. /\ Holds(run[i], run[i].before)
        /\ begun' = [begun EXCEPT ![run[i].id] = @ + 1]
        BY <2>1 DEF Begin
  <2>3. state = run[i].ctx
        BY <2>1 DEF IInv, RunInv, RunAt, Begin
  <2>4. run[i].id = p
        BY <2>2 DEF IInv, TypeOK
  <2> QED BY <2>2, <2>3, <2>4
<1> QED BY <1>1, Invariance, PTL DEF Spec, BeginsAsReviewed

\* While a journal is pending, state.json changes only by the audit of the instance
\* that wrote the journal and still holds the lease.
THEOREM OthersWait == Spec => PendingJournalBlocks
<1> DEFINE Step == (journal # NoJournal /\ state' # state) =>
                      \E i \in Instance : lease = i /\ run[i] # NoPlan /\ run[i].id = journal.id
<1>1. IInv /\ [Next]_vars => [Step]_vars
  <2>. SUFFICES ASSUME IInv, Next, journal # NoJournal, state' # state
                PROVE  \E i \in Instance : lease = i /\ run[i] # NoPlan /\ run[i].id = journal.id
       OBVIOUS
  <2>1. PICK i \in Instance : Audit(i)
        BY OnlyAudit
  <2>2. pc[i] \in {"audit", "failed"}
        BY <2>1 DEF Audit
  <2> QED BY <2>2 DEF IInv, LeaseInv, RunInv, RunAt, OfPlan, AfterBegin
<1> QED BY <1>1, Invariance, PTL DEF Spec, PendingJournalBlocks
=============================================================================
