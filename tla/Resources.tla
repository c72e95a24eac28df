------------------------------ MODULE Resources ------------------------------
(***************************************************************************)
(* Authored resources (MCP servers, skills, instructions) that are written *)
(* to several clients after a review (resources/mod.rs,                    *)
(* resources/commands.rs, state.rs), by several running instances.         *)
(*                                                                         *)
(* The MCP servers of a client share one file with each other and with the *)
(* user's own; every other resource has a file of its own in each target.  *)
(* A publication writes all its files in one step here, with the outcomes  *)
(* that Transaction shows possible.                                        *)
(***************************************************************************)
EXTENDS Naturals, Sequences, FiniteSets

CONSTANTS
    Instance, \* running instances
    Record,   \* authored resources; the identity of one is never used again
    Mcp,      \* those that are MCP servers
    Skill,    \* those that are skills: one target serves every client
    Target,   \* client targets, Shared among them
    Shared,   \* the shared skills directory
    Foreign,  \* whoever else writes to a file
    Nobody,
    Unix,     \* a save may replace state.json and still report a failure
    MaxActive, MaxTombs,  \* MAX_RESOURCES, and the tombstones that are kept
    MaxPlans, MaxSaves, MaxEdits, MaxFaults, MaxRestarts  \* bounds

ASSUME KindAssumption == Mcp \cap Skill = {} /\ (Mcp \cup Skill) \subseteq Record
ASSUME NameAssumption == Shared \in Target /\ Foreign \notin Record /\ Nobody \notin Instance
ASSUME BoundAssumption == /\ {MaxActive, MaxPlans, MaxSaves, MaxEdits, MaxFaults, MaxRestarts}
                                \subseteq Nat
                          /\ MaxTombs \in Nat \ {0}

Version  == 0..(MaxSaves + 2) \* 0: absent, 1: an edited or foreign entry, 2..: a body
Holder   == Record \cup {Foreign}
File     == Target \X (Record \cup {"mcp"})
NoPlan    == [id |-> 0]
NoJournal == [id |-> 0]

VARIABLES
    state,    \* state.json: revision, body of each active record, tombstones, bindings
    loaded,   \* the state each instance works with
    content,  \* live content of each file: the version of each holder's entry in it
    detected, \* the targets whose client is detected
    journal,  \* deployment-journal.json, or NoJournal
    lease,    \* the instance that holds managed-writes.lock, or Nobody
    plans,    \* the reviewed plans each instance stores
    run,      \* the plan the lease's holder executes, or NoPlan
    pc,       \* where its execution stands
    recorded, \* auxiliary: state.json records what the last journal is of
    stray,    \* auxiliary: files edited, or kept by the user's choice
    undone,   \* auxiliary: files restored although state.json records the publication
    budget

disk  == <<state, content, journal>>
apply == <<lease, run, pc>>
aux   == <<recorded, stray, undone>>
vars  == <<disk, loaded, detected, plans, apply, aux, budget>>

Spend(b) == budget[b] > 0 /\ budget' = [budget EXCEPT ![b] = @ - 1]
Fault == Spend("fault")
Works == UNCHANGED budget

Active(s) == {r \in Record : s.body[r] # 0}
Known(s)  == Active(s) \cup {s.tombs[n] : n \in DOMAIN s.tombs}
NoPendingJournal == journal = NoJournal
Writable(i) == state = loaded[i]

\* targets_at: where a record can be written.
Targets(r) == IF r \in Skill THEN {Shared} ELSE Target \ {Shared}
FileOf(t, r) == <<t, IF r \in Mcp THEN "mcp" ELSE r>>

\* A skill is supported by any client, anything else by the target's own.
Supported(r) == IF r \in Skill THEN {Shared : t \in detected} ELSE detected

\* recovery_resources: the files of all records, the archived ones included.
Recoverable(s) == UNION {{FileOf(t, r) : t \in Targets(r)} : r \in Known(s)}

Proofs(s, t, r) == {b \in s.bindings : b.rec = r /\ b.target = t}
Bound(s, r) == {b.target : b \in {x \in s.bindings : x.rec = r}}

\* All files of p hold these contents.
Holds(p, contents) == \A f \in p.files : content[f] = contents[f]

Init ==
    /\ \E S \in SUBSET Record :
          state = [rev |-> 1, body |-> [r \in Record |-> IF r \in S THEN 2 ELSE 0],
                   fresh |-> Record \ S, tombs |-> <<>>, bindings |-> {}]
    /\ loaded = [i \in Instance |-> state]
    /\ content = [f \in File |-> [h \in Holder |-> IF h = Foreign /\ f[2] = "mcp" THEN 1 ELSE 0]]
    /\ detected \in (SUBSET (Target \ {Shared})) \ {{}}
    /\ journal = NoJournal /\ lease = Nobody /\ run = NoPlan /\ pc = "idle"
    /\ plans = [i \in Instance |-> {}]
    /\ recorded = FALSE /\ stray = {} /\ undone = {}
    /\ budget = [plan |-> MaxPlans, save |-> MaxSaves, edit |-> MaxEdits,
                 fault |-> MaxFaults, restart |-> MaxRestarts]

-----------------------------------------------------------------------------
(***************************************************************************)
(* Preview.                                                                *)
(***************************************************************************)

\* prepare: an entry that exists must be the one that was written last, as it was written;
\* one that is missing may be revoked, or published for the first time.
Owns(s, t, r, revoke) ==
    LET current == content[FileOf(t, r)][r]
        proofs  == Proofs(s, t, r)
    IN IF current # 0 THEN \E b \in proofs : b.projection = current
                      ELSE proofs = {} \/ revoke

ProjectedAlone(f, r, version) == [h \in Holder |-> IF h = r THEN version ELSE 0]

\* The entry of r alone is replaced or removed.
Projected(f, r, version) == [content[f] EXCEPT ![r] = version]

\* preview_resolved: a revocation is of every target that is bound, a publication of every
\* one that is supported.
Chosen(s, r, revoke) == IF revoke THEN Bound(s, r) ELSE Supported(r)

BindingsAfter(s, r, ts, revoke) ==
    {b \in s.bindings : ~(b.rec = r /\ b.target \in ts)}
    \cup IF revoke THEN {} ELSE {[rec |-> r, target |-> t, projection |-> s.body[r]] : t \in ts}

Preview(i, r, revoke) ==
    LET s  == loaded[i]
        ts == Chosen(s, r, revoke)
        files == {FileOf(t, r) : t \in ts}
    IN
    /\ Writable(i) /\ NoPendingJournal /\ r \in Active(s)
    /\ ts \subseteq Supported(r)
    /\ revoke \/ ts # {}
    /\ \A t \in ts : Owns(s, t, r, revoke)
    /\ Spend("plan")
    /\ plans' = [plans EXCEPT ![i] = @ \cup
           {[id |-> MaxPlans - budget.plan + 1, rec |-> r, revoke |-> revoke, ctx |-> s,
             supported |-> Supported(r), files |-> files, before |-> content,
             after |-> [f \in File |->
                 IF f \in files THEN Projected(f, r, IF revoke THEN 0 ELSE s.body[r])
                                ELSE content[f]],
             bindings |-> BindingsAfter(s, r, ts, revoke)]}]
    /\ UNCHANGED <<disk, loaded, detected, apply, aux>>

-----------------------------------------------------------------------------
(***************************************************************************)
(* apply_resource_plan.                                                    *)
(***************************************************************************)
Return == lease' = Nobody /\ run' = NoPlan /\ pc' = "idle"
Goto(label) == pc' = label /\ UNCHANGED <<lease, run>>

\* The plan is consumed first; a refused or unconfirmed one is gone as well.
Apply(i, p) ==
    /\ p \in plans[i]
    /\ plans' = [plans EXCEPT ![i] = @ \ {p}]
    /\ \/ lease = Nobody /\ lease' = i /\ run' = p /\ pc' = "validate"
       \/ UNCHANGED apply
    /\ UNCHANGED <<disk, loaded, detected, aux, budget>>

SameRecord(p) == loaded[lease].body[p.rec] = p.ctx.body[p.rec]

\* The bindings of the plan are all bindings, so the state must be the reviewed one.
SameState(p) == loaded[lease] = p.ctx

\* The state, what is detected and the files are the reviewed ones.
Validate ==
    /\ pc = "validate"
    /\ IF /\ Writable(lease) /\ NoPendingJournal
          /\ run.rec \in Active(loaded[lease])
          /\ SameState(run) /\ Supported(run.rec) = run.supported
          /\ Holds(run, run.before)
       THEN Goto("begin")
       ELSE Return
    /\ UNCHANGED <<disk, loaded, detected, plans, aux, budget>>

\* Transaction::begin checks the files again and persists the journal.
Begin ==
    /\ pc = "begin"
    /\ \/ /\ Works /\ Holds(run, run.before)
          /\ journal' = [id |-> run.id, rec |-> run.rec, files |-> run.files,
                         before |-> run.before, after |-> run.after, phase |-> "Applying"]
          /\ recorded' = FALSE /\ Goto("write")
       \/ /\ Fault \/ (Works /\ ~Holds(run, run.before))
          /\ Return /\ UNCHANGED <<journal, recorded>>
    /\ UNCHANGED <<state, content, loaded, detected, plans, stray, undone>>

\* What compensation must leave: a file that someone else wrote meanwhile.
Conflicting(p) == {f \in p.files : content[f] \notin {p.before[f], p.after[f]}}

Restored(p, left) ==
    [f \in File |-> IF f \in p.files \ left /\ content[f] = p.after[f] THEN p.before[f]
                                                                       ELSE content[f]]
Compensated(left) == IF left = {} THEN "RolledBack" ELSE "RecoveryRequired"

\* Transaction::rollback leaves at least the files that conflict, and the journal's phase
\* if the new one cannot be saved.
Rollback(p, left) ==
    /\ Conflicting(p) \subseteq left
    /\ content' = Restored(p, left)
    /\ \E phase \in {journal.phase, Compensated(left)} :
          journal' = [journal EXCEPT !.phase = phase]

PutBack == {f \in File : content'[f] # content[f]}

\* Transaction::apply writes every file, and each is read once more; a failure is
\* compensated for, as far as that works, and the journal is cleared if everything was
\* restored.
Write ==
    /\ pc = "write"
    /\ \/ /\ Works /\ Holds(run, run.before)
          /\ content' = [f \in File |-> IF f \in run.files THEN run.after[f] ELSE content[f]]
          /\ Goto("commit") /\ UNCHANGED journal
       \/ /\ \/ /\ Fault
                /\ \E left \in SUBSET {f \in run.files : content[f] = run.before[f]} :
                      /\ content' = [f \in File |-> IF f \in left THEN run.after[f]
                                                                  ELSE content[f]]
                      /\ \E phase \in {journal.phase, Compensated(left \cup Conflicting(run))} :
                            journal' = [journal EXCEPT !.phase = phase]
             \/ /\ Works /\ ~Holds(run, run.before) /\ UNCHANGED content
                /\ \E phase \in {"RolledBack", "RecoveryRequired"} :
                      journal' = [journal EXCEPT !.phase = phase]
          /\ IF journal'.phase = "RolledBack" THEN Goto("clear") ELSE Return
    /\ UNCHANGED <<state, loaded, detected, plans, aux>>

NoTombs(tombs, r) == <<>>

\* The newest tombstones stay, so that recovery still knows the files of a record that
\* was revoked.
Tombs(tombs, r) ==
    LET all == <<r>> \o tombs
    IN SubSeq(all, 1, IF Len(all) > MaxTombs THEN MaxTombs ELSE Len(all))

\* commit_resource: bindings and, for a revocation, the archiving are one revision.
Committed(p) ==
    [state EXCEPT !.rev = @ + 1, !.bindings = p.bindings,
                  !.body = IF p.revoke THEN [@ EXCEPT ![p.rec] = 0] ELSE @,
                  !.tombs = IF p.revoke THEN Tombs(@, p.rec) ELSE @]

\* If the state cannot be saved, the files are restored, as far as that works, and the
\* journal stays; on Unix state.json may have been replaced nevertheless.
Commit ==
    /\ pc = "commit"
    /\ \/ /\ Works /\ state' = Committed(run) /\ recorded' = TRUE
          /\ loaded' = [loaded EXCEPT ![lease] = state']
          /\ Goto("complete") /\ UNCHANGED <<content, journal, undone>>
       \/ /\ Fault
          /\ \E left \in SUBSET run.files : Rollback(run, left)
          /\ Return
          /\ \/ UNCHANGED <<state, recorded, undone>>
             \/ Unix /\ state' = Committed(run) /\ recorded' = TRUE /\ undone' = undone \cup PutBack
          /\ UNCHANGED loaded
    /\ UNCHANGED <<detected, plans, stray>>

\* Transaction::complete marks the journal and clears it.
Complete ==
    /\ pc = "complete"
    /\ \/ Works /\ journal' = [journal EXCEPT !.phase = "Committed"] /\ Goto("clear")
       \/ Fault /\ Return /\ UNCHANGED journal
    /\ UNCHANGED <<state, content, loaded, detected, plans, aux>>

Clear ==
    /\ pc = "clear"
    /\ (Works /\ journal' = NoJournal) \/ (Fault /\ UNCHANGED journal)
    /\ Return
    /\ UNCHANGED <<state, content, loaded, detected, plans, aux>>

-----------------------------------------------------------------------------
(***************************************************************************)
(* The other commands.                                                     *)
(***************************************************************************)

\* upsert_resource creates a record or changes the body of an active one; validate_state
\* bounds the active ones.
Upsert(i, r) ==
    /\ lease = Nobody /\ NoPendingJournal /\ Writable(i)
    /\ r \in Active(state) \cup state.fresh
    /\ Cardinality(Active(state) \cup {r}) <= MaxActive
    /\ Spend("save")
    /\ state' = [state EXCEPT !.rev = @ + 1, !.body[r] = MaxSaves - budget.save + 3,
                              !.fresh = @ \ {r}]
    /\ loaded' = [loaded EXCEPT ![i] = state']
    /\ UNCHANGED <<content, journal, detected, plans, apply, aux>>

\* recover(), reviewed (as Deployment shows): a Committed journal is only cleared; any
\* other is rolled back if all its files are known to this instance, and stays if a file
\* could not be restored or the journal could not be changed.
RecoverRestore(i) ==
    /\ lease = Nobody /\ journal # NoJournal
    /\ \/ /\ journal.phase = "Committed"
          /\ (Works /\ journal' = NoJournal) \/ (Fault /\ UNCHANGED journal)
          /\ UNCHANGED <<content, undone>>
       \/ /\ journal.phase # "Committed" /\ journal.files \subseteq Recoverable(loaded[i])
          /\ \/ /\ Works /\ Conflicting(journal) = {}
                /\ content' = Restored(journal, {}) /\ journal' = NoJournal
             \/ /\ Works /\ Conflicting(journal) # {}
                /\ content' = Restored(journal, Conflicting(journal))
                /\ journal' = [journal EXCEPT !.phase = "RecoveryRequired"]
             \/ Fault /\ \E left \in SUBSET journal.files : Rollback(journal, left)
          /\ undone' = IF recorded THEN undone \cup PutBack ELSE undone
    /\ UNCHANGED <<state, loaded, detected, plans, apply, recorded, stray>>

\* keep_current(): no file is touched.
RecoverKeep ==
    /\ lease = Nobody /\ journal # NoJournal
    /\ journal' = NoJournal /\ stray' = stray \cup journal.files
    /\ UNCHANGED <<state, content, loaded, detected, plans, apply, recorded, undone, budget>>

\* Another program or the user writes to a file, or removes an entry.
Edit ==
    /\ Spend("edit")
    /\ \E f \in File, h \in Holder, v \in {0, 1} :
          /\ content[f][h] # v /\ (h = Foreign => f[2] = "mcp")
          /\ (h \in Record => content[f][h] > 1)
          /\ content' = [content EXCEPT ![f][h] = v]
          /\ stray' = stray \cup {f}
    /\ UNCHANGED <<state, journal, loaded, detected, plans, apply, recorded, undone>>

\* A client is installed or removed.
Detect ==
    /\ Spend("edit")
    /\ \E d \in (SUBSET (Target \ {Shared})) \ {detected} : detected' = d
    /\ UNCHANGED <<disk, loaded, plans, apply, aux>>

\* An instance dies, or is closed, and is opened again.
Restart(i) ==
    /\ Spend("restart")
    /\ IF lease = i THEN Return ELSE UNCHANGED apply
    /\ loaded' = [loaded EXCEPT ![i] = state]
    /\ plans' = [plans EXCEPT ![i] = {}]
    /\ UNCHANGED <<disk, detected, aux>>

Next ==
    \/ \E i \in Instance :
          \/ \E r \in Record, revoke \in BOOLEAN : Preview(i, r, revoke)
          \/ \E p \in plans[i] : Apply(i, p)
          \/ \E r \in Record : Upsert(i, r)
          \/ RecoverRestore(i) \/ Restart(i)
    \/ Validate \/ Begin \/ Write \/ Commit \/ Complete \/ Clear
    \/ RecoverKeep \/ Edit \/ Detect

Spec == Init /\ [][Next]_vars

-----------------------------------------------------------------------------
(***************************************************************************)
(* Properties.                                                             *)
(***************************************************************************)

\* A record is written where, and only where, state.json says so, as it says: so a binding
\* is enough to revoke, and nothing of a deleted record is left behind.  Exempt are the
\* files of a pending publication, those that the user edited or kept, and those that a
\* compensation or a recovery put back after state.json had recorded the publication.
BindingsAreTrue ==
    \A r \in Record : \A t \in Targets(r) :
        LET f == FileOf(t, r) IN
        \/ f \in stray \cup undone
        \/ journal # NoJournal /\ f \in journal.files
        \/ {b.projection : b \in Proofs(state, t, r)} = {content[f][r]} \ {0}

\* Whatever is published, revoked, restored or recovered, in a file that is shared with
\* other records and the user's own entries only the entry of the reviewed record changes,
\* and not even that one if the user changed it: then it is a conflict.
OnlyTheReviewedEntry ==
    [][\A f \in File, h \in Holder :
          (content'[f][h] # content[f][h] /\ budget'.edit = budget.edit)
             => /\ journal # NoJournal /\ f \in journal.files /\ h = journal.rec
                /\ content[f][h] # 1]_vars

\* An instance that is started while a journal is pending can restore all its files, also
\* those of a record that the interrupted revocation has archived already.
RecoveryKnowsTheFiles == journal # NoJournal => journal.files \subseteq Recoverable(state)
=============================================================================
