----------------------------- MODULE Deployment -----------------------------
(***************************************************************************)
(* Reviewed publication and revocation of connections (commands.rs,        *)
(* deployment.rs, deployment/planner.rs, deployment/ownership.rs), by      *)
(* several running instances of the application that share state.json, the *)
(* managed-write lease, the journal and the clients' configuration.        *)
(*                                                                         *)
(* A write of all targets of a plan is one step here, with the outcomes    *)
(* that Transaction shows possible; so is a save of state.json, with the   *)
(* outcomes that StateStore shows possible.  What remains interleaved is   *)
(* what the user reviews, the lease, the validation, the publication, its  *)
(* audit, its journal, a restart between any two of them, and recovery.    *)
(***************************************************************************)
EXTENDS Naturals

CONSTANTS
    Instance,    \* running instances of the application
    Connection,  \* provider connections
    Target,      \* client configurations
    Route,       \* the targets that hold a single route (Copilot CLI)
    Foreign,     \* whoever else configures a target
    Unix,        \* a save may replace state.json and still report a failure
    MaxPlans, MaxSaves, MaxEdits, MaxFaults, MaxRestarts  \* bounds

ASSUME RouteAssumption == Route \subseteq Target
ASSUME UnixAssumption == Unix \in BOOLEAN
ASSUME ForeignAssumption == Foreign \notin Connection
ASSUME BoundAssumption ==
    {MaxPlans, MaxSaves, MaxEdits, MaxFaults, MaxRestarts} \subseteq Nat

Nobody  == "nobody"
Holder  == Connection \cup {Foreign}
Version == 0..(MaxSaves + 1)    \* 0: absent; a save of a connection is a new version

ASSUME NobodyAssumption == Nobody \notin Instance

NoPlan    == [id |-> 0]
NoJournal == [id |-> 0]

VARIABLES
    state,     \* state.json: revision, version of each connection, disabled ones, proofs
    loaded,    \* the revision each instance loaded and works with
    content,   \* live content of each target: the version each holder has in it
    journal,   \* deployment-journal.json, or NoJournal
    lease,     \* the instance that holds managed-writes.lock, or Nobody
    preview,   \* the preview an instance is preparing, or NoPlan
    plans,     \* the reviewed plans each instance stores
    run,       \* the plan an instance executes, or NoPlan
    pc,        \* where its execution stands
    review,    \* the recovery preview of an instance: the journal it showed
    begun,     \* auxiliary: how often each plan began to write
    audited,   \* auxiliary: the plans recorded as applied
    stray,     \* auxiliary: targets edited, kept or detached by the user's own choice
    undone,    \* auxiliary: what was put back although state.json records it as applied
    budget     \* what is left of each bound

disk == <<state, content, journal>>
local == <<loaded, preview, plans, run, pc, review>>
aux  == <<begun, audited, stray, undone>>
vars == <<disk, lease, local, aux, budget>>

Purpose == {"deploy", "revoke"}
Label   == {"idle", "validate", "begin", "write", "audit", "failed", "complete", "clear"}
Phase   == {"Prepared", "Applying", "Committed", "RolledBack", "RecoveryRequired"}
PlanId  == 1..MaxPlans
Proof   == Connection \X Target

State == [rev : Nat, conns : [Connection -> Version], off : SUBSET Connection,
          proofs : SUBSET Proof]
Contents == [Target -> [Holder -> Version]]
Plan == [id : PlanId, purpose : Purpose, conn : Connection, targets : SUBSET Target,
         ctx : State, before : Contents, after : Contents, proofs : SUBSET Proof]
Journal == [id : PlanId, targets : SUBSET Target, before : Contents, after : Contents,
            phase : Phase]

-----------------------------------------------------------------------------
Spend(k) == budget[k] > 0 /\ budget' = [budget EXCEPT ![k] = @ - 1]
Fault == Spend("fault")
Works == UNCHANGED budget

Present(c) == state.conns[c] # 0

\* ensure_writable(): state.json is the revision this instance loaded.
Writable(i) == state = loaded[i]

\* ensure_no_pending_journal().
AnyJournal == TRUE
NoPendingJournal == journal = NoJournal

\* The targets a connection owns.
Owned(s, c) == {t \in Target : <<c, t>> \in s.proofs}

\* A client's configuration is prepared only with proof that it is ours: a group
\* that exists needs a proof, and a revoked route must still be held by c.
Conflict(s, live, c, t, purpose) ==
    IF t \in Route
    THEN /\ purpose = "revoke"
         /\ live[t][c] = 0 /\ \E h \in Holder : live[t][h] # 0
    ELSE live[t][c] # 0 /\ <<c, t>> \notin s.proofs

\* What a target will hold: publishing a route replaces every other holder.
Desired(live, c, t, v) ==
    IF t \in Route THEN [h \in Holder |-> IF h = c THEN v ELSE 0]
                   ELSE [live[t] EXCEPT ![c] = v]

\* The proofs once the plan is applied; a route has one owner.
KeptProofs(proofs, c, ts) ==
    {p \in proofs : ~(p[2] \in ts /\ (p[2] \in Route \/ p[1] = c))}
ProofsAfter(proofs, c, ts, purpose) ==
    KeptProofs(proofs, c, ts) \cup (IF purpose = "deploy" THEN {c} \X ts ELSE {})

\* Every target of the plan holds these contents.
Holds(p, contents) == \A t \in p.targets : content[t] = contents[t]

Goto(i, label) == pc' = [pc EXCEPT ![i] = label]

\* The command returns: its guards drop the write mutex and the lease.
Return(i) == /\ Goto(i, "idle")
             /\ run' = [run EXCEPT ![i] = NoPlan]
             /\ lease' = Nobody

Init == /\ state = [rev |-> 1, conns |-> [c \in Connection |-> 1], off |-> {}, proofs |-> {}]
        /\ loaded = [i \in Instance |-> state]
        /\ content \in [Target -> {[h \in Holder |-> 0],
                                   [h \in Holder |-> IF h = Foreign THEN 1 ELSE 0]}]
        /\ journal = NoJournal /\ lease = Nobody
        /\ preview = [i \in Instance |-> NoPlan]
        /\ plans = [i \in Instance |-> {}]
        /\ run = [i \in Instance |-> NoPlan]
        /\ pc = [i \in Instance |-> "idle"]
        /\ review = [i \in Instance |-> NoJournal]
        /\ begun = [p \in PlanId |-> 0] /\ audited = {} /\ stray = {} /\ undone = {}
        /\ budget = [plan |-> MaxPlans, save |-> MaxSaves, edit |-> MaxEdits,
                     fault |-> MaxFaults, restart |-> MaxRestarts]

-----------------------------------------------------------------------------
(***************************************************************************)
(* Preview: the context is read first, the targets later, without a lease. *)
(***************************************************************************)

\* preview_deployment / preview_revoke_and_delete read the connection and the state.
PreviewContext(i, c, purpose, ts) ==
    /\ preview[i] = NoPlan
    /\ Writable(i) /\ NoPendingJournal
    /\ Present(c)
    /\ purpose = "deploy" => c \notin state.off /\ ts # {}
    /\ purpose = "revoke" => ts = Owned(state, c)
    /\ Spend("plan")
    /\ preview' = [preview EXCEPT ![i] =
           [id |-> MaxPlans - budget.plan + 1, purpose |-> purpose, conn |-> c,
            targets |-> ts, ctx |-> state]]
    /\ UNCHANGED <<disk, lease, loaded, plans, run, pc, review, aux>>

\* PlanStore::insert / prepare_writes read and snapshot every target.
PreviewTargets(i) ==
    /\ preview[i] # NoPlan
    /\ LET p == preview[i]
           v == IF p.purpose = "deploy" THEN p.ctx.conns[p.conn] ELSE 0
           stored ==
               [id |-> p.id, purpose |-> p.purpose, conn |-> p.conn, targets |-> p.targets,
                ctx |-> p.ctx, before |-> content,
                after |-> [t \in Target |-> IF t \in p.targets
                                            THEN Desired(content, p.conn, t, v)
                                            ELSE content[t]],
                proofs |-> ProofsAfter(p.ctx.proofs, p.conn, p.targets, p.purpose)]
       IN plans' = [plans EXCEPT ![i] =
              IF \E t \in p.targets : Conflict(p.ctx, content, p.conn, t, p.purpose)
              THEN @ ELSE @ \cup {stored}]
    /\ preview' = [preview EXCEPT ![i] = NoPlan]
    /\ UNCHANGED <<disk, lease, loaded, run, pc, review, aux, budget>>

-----------------------------------------------------------------------------
(***************************************************************************)
(* apply_deployment_plan and execute_stored_plan.                          *)
(***************************************************************************)

KeptPlan(i, p)     == plans
WithoutPlan(i, p)  == [plans EXCEPT ![i] = @ \ {p}]

\* The plan is consumed before anything else; then the write mutex and the lease
\* are tried.  A refused, unconfirmed or expired plan is gone as well.
Apply(i, p) ==
    /\ p \in plans[i]
    /\ plans' = WithoutPlan(i, p)
    /\ \/ /\ pc[i] = "idle" /\ lease = Nobody
          /\ lease' = i /\ Goto(i, "validate") /\ run' = [run EXCEPT ![i] = p]
       \/ UNCHANGED <<lease, pc, run>>
    /\ UNCHANGED <<disk, loaded, preview, review, aux, budget>>

\* The state is the reviewed one, no journal is pending, and the targets still
\* hold what was reviewed (validate_plan).
SameConnection(i, p) == loaded[i].conns[p.conn] = p.ctx.conns[p.conn]
SameContext(i, p) == loaded[i] = p.ctx
Validate(i) ==
    /\ pc[i] = "validate"
    /\ LET p == run[i] IN
       IF /\ Writable(i) /\ NoPendingJournal
          /\ SameContext(i, p) /\ Holds(p, p.before)
       THEN Goto(i, "begin") /\ UNCHANGED <<run, lease>>
       ELSE Return(i)
    /\ UNCHANGED <<disk, loaded, preview, plans, review, aux, budget>>

\* Transaction::begin checks every target again and persists the journal.
Begin(i) ==
    /\ pc[i] = "begin"
    /\ LET p == run[i] IN
       \/ /\ Works /\ Holds(p, p.before)
          /\ journal' = [id |-> p.id, targets |-> p.targets, before |-> p.before,
                         after |-> p.after, phase |-> "Prepared"]
          /\ begun' = [begun EXCEPT ![p.id] = @ + 1]
          /\ Goto(i, "write") /\ UNCHANGED <<run, lease>>
       \/ (Fault \/ (Works /\ ~Holds(p, p.before))) /\ Return(i) /\ UNCHANGED <<journal, begun>>
    /\ UNCHANGED <<state, content, loaded, preview, plans, review, audited, stray, undone>>

\* The attempted targets that compensation could not restore keep what they hold.
Restore(p, left) ==
    content' = [t \in Target |-> IF t \in p.targets \ left /\ content[t] = p.after[t]
                                 THEN p.before[t] ELSE content[t]]

\* What compensation must leave: a target another program wrote meanwhile.
Conflicting(p) == {t \in p.targets : content[t] \notin {p.before[t], p.after[t]}}

Compensated(left) == IF left = {} THEN "RolledBack" ELSE "RecoveryRequired"

\* The configurations that this step adds to or removes from a target.
PutBack == {p \in Proof : (content[p[2]][p[1]] = 0) # (content'[p[2]][p[1]] = 0)}

\* Transaction::apply publishes every target, or some step of it fails and
\* Transaction::rollback compensates for what it published, as far as it can.  If the
\* phase of the compensation cannot be saved, the journal keeps showing Applying (or
\* Prepared, which recovery treats alike).
Write(i) ==
    /\ pc[i] = "write"
    /\ LET p == run[i] IN
       \/ /\ Works /\ Holds(p, p.before)
          /\ content' = [t \in Target |-> IF t \in p.targets THEN p.after[t] ELSE content[t]]
          /\ journal' = [journal EXCEPT !.phase = "Applying"]
          /\ Goto(i, "audit")
       \/ /\ Fault
          /\ \E left \in SUBSET {t \in p.targets : content[t] = p.before[t]} :
                /\ content' = [t \in Target |-> IF t \in left THEN p.after[t] ELSE content[t]]
                /\ \E phase \in {"Applying", Compensated(left)} :
                      journal' = [journal EXCEPT !.phase = phase]
          /\ Goto(i, "failed")
       \/ /\ Works /\ ~Holds(p, p.before)
          /\ \E phase \in {"RolledBack", "RecoveryRequired"} :
                journal' = [journal EXCEPT !.phase = phase]
          /\ Goto(i, "failed") /\ UNCHANGED content
    /\ UNCHANGED <<state, lease, loaded, preview, plans, run, review, aux>>

Failed(i) == pc[i] = "failed"

\* commit_deployment: the records, the proofs and, for a revocation, the removal of
\* the connection are one revision of state.json.
Applied(i) ==
    [state EXCEPT !.rev = @ + 1, !.proofs = run[i].proofs,
                  !.conns = IF run[i].purpose = "revoke"
                            THEN [@ EXCEPT ![run[i].conn] = 0] ELSE @]
Committed(i) ==
    IF Failed(i) THEN [state EXCEPT !.rev = @ + 1] ELSE Applied(i)

Recorded(i) == IF Failed(i) THEN audited ELSE audited \cup {run[i].id}

\* What the recorded plan decides anew: its connection in each target, all of a route.
Settled(p) == {q \in Proof : q[2] \in p.targets /\ (q[2] \in Route \/ q[1] = p.conn)}
StillUndone(i) == IF Failed(i) THEN undone ELSE undone \ Settled(run[i])

\* The audit re-reads every published target first; if it fails, what was published is
\* compensated, as far as that works, and the journal stays.  On Unix it may report a
\* failure after state.json was replaced.
Audit(i) ==
    /\ pc[i] \in {"audit", "failed"}
    /\ LET p == run[i] IN
       \/ /\ Works /\ (Failed(i) \/ Holds(p, p.after))
          /\ state' = Committed(i)
          /\ loaded' = [loaded EXCEPT ![i] = Committed(i)]
          /\ audited' = Recorded(i) /\ undone' = StillUndone(i)
          /\ \/ ~Failed(i) /\ Goto(i, "complete") /\ UNCHANGED <<run, lease>>
             \/ /\ Failed(i) /\ journal.phase = "RolledBack"
                /\ Goto(i, "clear") /\ UNCHANGED <<run, lease>>
             \/ Failed(i) /\ journal.phase # "RolledBack" /\ Return(i)
          /\ UNCHANGED <<content, journal>>
       \/ /\ \E left \in SUBSET p.targets, phase \in Phase :
                /\ Conflicting(p) \subseteq left /\ Restore(p, left)
                /\ journal' = [journal EXCEPT !.phase = phase]
                /\ \/ Fault /\ phase \in {journal.phase, Compensated(left)}
                   \/ /\ Works /\ ~Failed(i) /\ ~Holds(p, p.after)
                      /\ left = Conflicting(p) /\ phase = Compensated(left)
          /\ Return(i)
          /\ \/ UNCHANGED <<state, audited, undone>>
             \/ /\ Unix /\ (Failed(i) \/ Holds(p, p.after))
                /\ state' = Committed(i) /\ audited' = Recorded(i)
                /\ undone' = StillUndone(i) \cup (IF Failed(i) THEN {} ELSE PutBack)
          /\ UNCHANGED loaded
    /\ UNCHANGED <<preview, plans, review, begun, stray>>

\* Transaction::complete.
Complete(i) ==
    /\ pc[i] = "complete"
    /\ \/ /\ Works /\ journal' = [journal EXCEPT !.phase = "Committed"]
          /\ Goto(i, "clear") /\ UNCHANGED <<run, lease>>
       \/ Fault /\ Return(i) /\ UNCHANGED journal
    /\ UNCHANGED <<state, content, loaded, preview, plans, review, aux>>

\* Transaction::clear.
Clear(i) ==
    /\ pc[i] = "clear"
    /\ (Works /\ journal' = NoJournal) \/ (Fault /\ UNCHANGED journal)
    /\ Return(i)
    /\ UNCHANGED <<state, content, loaded, preview, plans, review, aux>>

-----------------------------------------------------------------------------
(***************************************************************************)
(* The other managed writes of state.json, each under the lease.           *)
(***************************************************************************)
CanSave(i) == pc[i] = "idle" /\ lease = Nobody /\ NoPendingJournal /\ Writable(i)

Save(i, next) == /\ CanSave(i) /\ Spend("save")
                 /\ state' = [next EXCEPT !.rev = @ + 1]
                 /\ \/ loaded' = [loaded EXCEPT ![i] = state']
                    \/ Unix /\ UNCHANGED loaded
                 /\ UNCHANGED <<content, journal, lease, preview, plans, run, pc, review,
                                begun, audited, undone>>

\* upsert_connection: a new version of the connection or of its credential.
Upsert(i, c) == /\ Present(c)
                /\ Save(i, [state EXCEPT !.conns[c] = MaxSaves - budget.save + 2])
                /\ UNCHANGED stray

\* set_connection_enabled.
Toggle(i, c) == /\ Present(c)
                /\ Save(i, [state EXCEPT !.off = IF c \in @ THEN @ \ {c} ELSE @ \cup {c}])
                /\ UNCHANGED stray

KeptEvery(proofs, c) == proofs
Disowned(proofs, c)  == {p \in proofs : p[1] # c}

\* delete_connection ("Stop managing only"): the clients keep what they hold.
Detach(i, c) == /\ Present(c)
                /\ Save(i, [state EXCEPT !.conns[c] = 0,
                                         !.proofs = Disowned(@, c)])
                /\ stray' = stray \cup {t \in Target : content[t][c] # 0}

-----------------------------------------------------------------------------
(***************************************************************************)
(* Reviewed recovery of a journal, by any instance.                        *)
(***************************************************************************)
PreviewRecovery(i) == /\ journal # NoJournal /\ review[i] # journal
                      /\ review' = [review EXCEPT ![i] = journal]
                      /\ UNCHANGED <<disk, lease, loaded, preview, plans, run, pc, aux, budget>>

\* The lease is free and the reviewed journal is the one on disk.
Reviewed(i) == /\ pc[i] = "idle" /\ lease = Nobody
               /\ review[i] # NoJournal /\ review[i] = journal

\* recover(): a Committed journal is only cleared; any other is rolled back, and
\* stays if a target could not be restored, or if the journal could not be changed.
RecoverRestore(i) ==
    /\ Reviewed(i)
    /\ review' = [review EXCEPT ![i] = NoJournal]
    /\ \/ /\ journal.phase = "Committed"
          /\ (Works /\ journal' = NoJournal) \/ (Fault /\ UNCHANGED journal)
          /\ UNCHANGED <<content, undone>>
       \/ /\ journal.phase # "Committed"
          /\ \E left \in SUBSET journal.targets, phase \in Phase :
                /\ Conflicting(journal) \subseteq left /\ Restore(journal, left)
                /\ \/ /\ Works /\ left = Conflicting(journal) /\ phase = Compensated(left)
                      /\ journal' = IF left = {} THEN NoJournal
                                    ELSE [journal EXCEPT !.phase = phase]
                   \/ /\ Fault /\ phase \in {journal.phase, Compensated(left)}
                      /\ journal' = [journal EXCEPT !.phase = phase]
          /\ undone' = IF journal.id \in audited THEN undone \cup PutBack ELSE undone
    /\ UNCHANGED <<state, lease, loaded, preview, plans, run, pc, begun, audited, stray>>

\* keep_current(): the journal is removed, no target is touched.
RecoverKeep(i) ==
    /\ Reviewed(i)
    /\ review' = [review EXCEPT ![i] = NoJournal]
    /\ journal' = NoJournal
    /\ stray' = stray \cup journal.targets
    /\ UNCHANGED <<state, content, lease, loaded, preview, plans, run, pc, begun, audited,
                   undone, budget>>

-----------------------------------------------------------------------------
(***************************************************************************)
(* The environment.                                                        *)
(***************************************************************************)

\* Another program or the user edits a client's configuration.
Edit == /\ Spend("edit")
        /\ \E t \in Target :
              /\ \/ \E h \in Holder : content[t][h] # 0
                                      /\ content' = [content EXCEPT ![t][h] = 0]
                 \/ content' = [content EXCEPT ![t] =
                        [h \in Holder |-> IF h = Foreign THEN 1
                                          ELSE IF t \in Route THEN 0 ELSE @[h]]]
              /\ stray' = stray \cup {t}
        /\ UNCHANGED <<state, journal, lease, local, begun, audited, undone>>

\* An instance dies, or is closed, and is opened again.
Restart(i) == /\ Spend("restart")
              /\ Goto(i, "idle")
              /\ run' = [run EXCEPT ![i] = NoPlan]
              /\ lease' = IF lease = i THEN Nobody ELSE lease
              /\ loaded' = [loaded EXCEPT ![i] = state]
              /\ preview' = [preview EXCEPT ![i] = NoPlan]
              /\ plans' = [plans EXCEPT ![i] = {}]
              /\ review' = [review EXCEPT ![i] = NoJournal]
              /\ UNCHANGED <<disk, aux>>

Execute(i) == Validate(i) \/ Begin(i) \/ Write(i) \/ Audit(i) \/ Complete(i) \/ Clear(i)

Next ==
    \/ \E i \in Instance :
          \/ \E c \in Connection, purpose \in Purpose, ts \in SUBSET Target :
                PreviewContext(i, c, purpose, ts)
          \/ PreviewTargets(i)
          \/ \E p \in plans[i] : Apply(i, p)
          \/ Execute(i)
          \/ \E c \in Connection : Upsert(i, c) \/ Toggle(i, c) \/ Detach(i, c)
          \/ PreviewRecovery(i) \/ RecoverRestore(i) \/ RecoverKeep(i)
          \/ Restart(i)
    \/ Edit

Spec == Init /\ [][Next]_vars

-----------------------------------------------------------------------------
(***************************************************************************)
(* Properties.                                                             *)
(***************************************************************************)
Preview == [id : PlanId, purpose : Purpose, conn : Connection, targets : SUBSET Target,
            ctx : State]

TypeOK ==
    /\ state \in State /\ loaded \in [Instance -> State]
    /\ content \in Contents
    /\ journal \in Journal \cup {NoJournal}
    /\ lease \in Instance \cup {Nobody}
    /\ preview \in [Instance -> Preview \cup {NoPlan}]
    /\ plans \in [Instance -> SUBSET Plan]
    /\ run \in [Instance -> Plan \cup {NoPlan}]
    /\ pc \in [Instance -> Label]
    /\ review \in [Instance -> Journal \cup {NoJournal}]
    /\ begun \in [PlanId -> Nat] /\ audited \subseteq PlanId
    /\ stray \subseteq Target /\ undone \subseteq Proof

\* PlanStore::consume removes a plan before anything else: no reviewed plan ever
\* writes twice, whatever fails, is recovered or is submitted again.
WritesOnce == \A p \in PlanId : begun[p] <= 1

\* A plan begins to write only against the state, the connection and the target
\* contents that were reviewed, in whichever instance it was reviewed.
BeginsAsReviewed ==
    [][\A p \in PlanId : begun'[p] > begun[p] =>
          \E i \in Instance : /\ run[i].id = p
                              /\ state = run[i].ctx
                              /\ Holds(run[i], run[i].before)]_vars

\* While a journal is pending, only the instance that wrote it and still holds the
\* lease changes state.json: every other managed write waits for recovery.
PendingJournalBlocks ==
    [][(journal # NoJournal /\ state' # state) =>
          \E i \in Instance : lease = i /\ run[i] # NoPlan /\ run[i].id = journal.id]_vars

\* A target that no pending journal names, and that the user did not edit, keep or
\* detach, holds the configuration of a connection if and only if state.json records
\* that we own it.  One thing is exempt: what a compensation or a recovery put back after
\* state.json had recorded it (a crash between the audit and Committed, or an audit that
\* reports a failure after it replaced state.json), that one connection in that one
\* target, until a later plan that decides it is recorded there.
OwnershipIsTrue ==
    \A t \in Target \ stray, c \in Connection :
        \/ journal # NoJournal /\ t \in journal.targets
        \/ <<c, t>> \in undone
        \/ content[t][c] # 0 <=> <<c, t>> \in state.proofs

\* Proofs never outlive their connection, and a route has at most one owner.
ProofsAreSound ==
    /\ \A p \in state.proofs : state.conns[p[1]] # 0
    /\ \A t \in Route : \A p, q \in state.proofs : (p[2] = t /\ q[2] = t) => p = q

\* user-guide.md: revocation "Removes the connection after successful revocation".
\* When state.json no longer knows a connection and no journal is pending, no target
\* holds its configuration, unless the user edited, kept or detached it.
RemovedAfterRevocation ==
    journal = NoJournal =>
        \A t \in Target \ stray, c \in Connection :
            state.conns[c] = 0 => content[t][c] = 0
=============================================================================
