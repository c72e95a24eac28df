---------------------------- MODULE Transaction ----------------------------
(***************************************************************************)
(* The journaled publication of transaction.rs, with the two callers that  *)
(* drive it (execute_stored_plan in commands.rs, apply_resource_plan in    *)
(* resources/commands.rs) and the reviewed recovery of an interrupted      *)
(* journal.  Every read or replacement of a file is a step of its own, so  *)
(* that another program may edit a target, and the process may die,        *)
(* between any two of them.                                                *)
(***************************************************************************)
EXTENDS Naturals

CONSTANTS
    N,          \* physical resources 1..N, numbered in the order of their keys
    Content,    \* what a resource can hold (a missing file is a content too)
    MaxFaults,  \* bound: failing reads and writes
    MaxEdits,   \* bound: edits of a target by another program
    MaxCrashes, \* bound: deaths of the process
    MaxPlans    \* bound: reviewed plans

ASSUME NAssumption == N \in Nat \ {0}
ASSUME BoundAssumption ==
    MaxFaults \in Nat /\ MaxEdits \in Nat /\ MaxCrashes \in Nat /\ MaxPlans \in Nat

Resource == 1..N

NoPlan    == [id |-> 0]
NoJournal == [id |-> 0]
NoReview  == [action |-> "none"]

Phase == {"Prepared", "Applying", "Committed", "RolledBack", "RecoveryRequired"}

PlanId   == 1..MaxPlans
Contents == [Resource -> Content]

\* The prepared writes of a plan: the snapshot and the desired content of each target.
Writes == [id : PlanId, before : Contents, after : Contents]

\* A journal; its id is the plan id, its attempted writes are 1..attempted.
Journal == [id : PlanId, phase : Phase, attempted : 0..N,
            before : Contents, after : Contents]

\* A recovery preview; the digest fingerprints every byte of the journal, so the
\* journal itself stands for it.
Review == [action : {"restore", "keepCurrent"}, digest : Journal]

VARIABLES
    file,     \* live content of each target
    journal,  \* the journal on disk, or NoJournal
    audit,    \* the outcome state.json records for each plan
    plan,     \* the prepared writes under review, or NoPlan
    tx,       \* the Transaction in memory, or NoJournal
    caller,   \* who drives tx
    pc, idx,  \* where the managed-write thread stands, and at which write
    goal,     \* what the caller does once rollback() returns
    failures, \* failures rollback() counted, one more if its result was not persisted
    review,   \* the recovery preview under review, or NoReview
    edited,   \* auxiliary: targets another program wrote since the journal began
    dirty,    \* auxiliary: targets another program wrote since their last check
    lost,     \* auxiliary: targets where a managed write replaced such an edit
    last,     \* auxiliary: the writes of the last journal that was begun
    kept,     \* auxiliary: "yes" once "keep current files" dismissed that journal
    budget    \* what is left of each bound

disk == <<file, journal, audit>>
thread == <<tx, caller, pc, idx, goal, failures>>
aux  == <<edited, dirty, lost, last, kept>>
vars == <<disk, plan, thread, review, aux, budget>>

Caller == {"deployment", "resources", "recovery"}
Goal   == {"none", "audit", "clear", "keep"}
Label  == {"idle", "begin", "beginPersist", "applyRead", "intent", "write", "verify",
           "reverify", "rbRead", "rbWrite", "rbVerify", "rbPersist",
           "audit", "complete", "clear"}

-----------------------------------------------------------------------------
(***************************************************************************)
(* Helpers.                                                                *)
(***************************************************************************)
Changed(w, r) == w.before[r] # w.after[r]

\* The journal of an intent to write resource i.
IntentAheadOfWrite(t, i) == [t EXCEPT !.attempted = i - 1, !.phase = "Applying"]
Intent(t, i)             == [t EXCEPT !.attempted = i, !.phase = "Applying"]

\* rollback() walks writes[..attempted], the one that may have failed included.
CompletedOnly(t) == IF t.attempted = 0 THEN 0 ELSE t.attempted - 1
Attempted(t)     == t.attempted

\* rollback() replaces the expected after bytes only.
MayRestoreAnything(w, r) == file[r] # w.before[r]
MayRestore(w, r)         == file[r] = w.after[r]

Spend(k) == /\ budget[k] > 0
            /\ budget' = [budget EXCEPT ![k] = @ - 1]

\* A read or a replacement fails; what is on disk stays as it was.
Fault == Spend("fault")
Works == UNCHANGED budget

\* The command returns and its Transaction is dropped.
Return == /\ pc' = "idle" /\ tx' = NoJournal
          /\ UNCHANGED <<caller, idx, goal, failures>>

Goto(label, i) == /\ pc' = label /\ idx' = i
                  /\ UNCHANGED <<tx, caller, goal, failures>>

\* rollback() starts at the last attempted write of t; g is what follows it.
StartRollback(t, g) == /\ tx' = t
                       /\ goal' = g
                       /\ failures' = 0
                       /\ idx' = Attempted(t)
                       /\ pc' = IF Attempted(t) = 0 THEN "rbPersist" ELSE "rbRead"
                       /\ UNCHANGED caller

\* apply() or the check that follows it returned Err.
ApplyFailed(t) ==
    StartRollback(t, IF caller = "deployment" THEN "audit" ELSE "clear")


NextWrite(t) == /\ tx' = t
                /\ pc' = IF idx = N THEN "reverify" ELSE "applyRead"
                /\ idx' = IF idx = N THEN 1 ELSE idx + 1
                /\ UNCHANGED <<caller, goal, failures>>

Init == /\ file \in [Resource -> Content]
        /\ journal = NoJournal
        /\ audit = [p \in PlanId |-> "none"]
        /\ plan = NoPlan
        /\ tx = NoJournal /\ caller = "deployment"
        /\ pc = "idle" /\ idx = 1 /\ goal = "none" /\ failures = 0
        /\ review = NoReview
        /\ edited = {} /\ dirty = {} /\ lost = {}
        /\ last = NoPlan /\ kept = "no"
        /\ budget = [fault |-> MaxFaults, edit |-> MaxEdits,
                     crash |-> MaxCrashes, plan |-> MaxPlans]

-----------------------------------------------------------------------------
(***************************************************************************)
(* The review of a plan.                                                   *)
(***************************************************************************)

\* PreparedWrite::file snapshots every target; the plan waits for its review.
Prepare == /\ plan = NoPlan
           /\ Spend("plan")
           /\ \E after \in Contents :
                 plan' = [id |-> MaxPlans - budget.plan + 1,
                          before |-> file, after |-> after]
           /\ UNCHANGED <<disk, thread, review, aux>>

\* A plan is consumed unconfirmed, expired, or while another write holds the lock.
Discard == /\ plan # NoPlan
           /\ plan' = NoPlan
           /\ UNCHANGED <<disk, thread, review, aux, budget>>

\* The confirmed plan is consumed; begin() refuses it while a journal exists.
Start == /\ pc = "idle"
         /\ plan # NoPlan
         /\ plan' = NoPlan
         /\ IF journal = NoJournal
            THEN /\ tx' = [id |-> plan.id, phase |-> "Prepared", attempted |-> 0,
                           before |-> plan.before, after |-> plan.after]
                 /\ caller' \in {"deployment", "resources"}
                 /\ pc' = "begin" /\ idx' = 1 /\ goal' = "none" /\ failures' = 0
            ELSE UNCHANGED thread
         /\ UNCHANGED <<disk, review, aux, budget>>

-----------------------------------------------------------------------------
(***************************************************************************)
(* Transaction::begin and Transaction::apply.                              *)
(***************************************************************************)

\* begin(): each target must still hold its before bytes.
BeginRead ==
    /\ pc = "begin"
    /\ \/ Works /\ file[idx] = tx.before[idx]
          /\ IF idx = N THEN Goto("beginPersist", 1) ELSE Goto("begin", idx + 1)
       \/ Works /\ file[idx] # tx.before[idx] /\ Return
       \/ Fault /\ Return
    /\ UNCHANGED <<disk, plan, review, aux>>

\* begin(): the Prepared journal becomes durable before anything is written.
BeginPersist ==
    /\ pc = "beginPersist"
    /\ \/ /\ Works
          /\ journal' = tx
          /\ edited' = {r \in Resource : file[r] # tx.before[r]}
          /\ lost' = {} /\ kept' = "no"
          /\ last' = [id |-> tx.id, before |-> tx.before, after |-> tx.after]
          /\ Goto("applyRead", 1)
       \/ Fault /\ Return /\ UNCHANGED <<journal, edited, lost, last, kept>>
    /\ UNCHANGED <<file, audit, plan, review, dirty>>

\* apply(): the before bytes are checked again immediately before the write.
ApplyRead ==
    /\ pc = "applyRead"
    /\ \/ /\ Works /\ file[idx] = tx.before[idx]
          /\ Goto("intent", idx) /\ dirty' = dirty \ {idx}
       \/ Works /\ file[idx] # tx.before[idx] /\ ApplyFailed(tx) /\ UNCHANGED dirty
       \/ Fault /\ ApplyFailed(tx) /\ UNCHANGED dirty
    /\ UNCHANGED <<disk, plan, review, edited, lost, last, kept>>

\* apply(): the intent is recorded before the mutation; a no-op is only recorded.
ApplyIntent ==
    /\ pc = "intent"
    /\ LET t == Intent(tx, idx) IN
       \/ /\ Works /\ journal' = t
          /\ IF Changed(t, idx)
             THEN tx' = t /\ pc' = "write" /\ UNCHANGED <<caller, idx, goal, failures>>
             ELSE NextWrite(t)
       \/ Fault /\ ApplyFailed(t) /\ UNCHANGED journal
    /\ UNCHANGED <<file, audit, plan, review, aux>>

\* apply(): the replacement itself, of whatever the target holds by now.
ApplyWrite ==
    /\ pc = "write"
    /\ \/ /\ Works
          /\ file' = [file EXCEPT ![idx] = tx.after[idx]]
          /\ lost' = IF file[idx] \in {tx.before[idx], tx.after[idx]}
                     THEN lost ELSE lost \cup {idx}
          /\ Goto("verify", idx)
       \/ Fault /\ ApplyFailed(tx) /\ UNCHANGED <<file, lost>>
    /\ UNCHANGED <<journal, audit, plan, review, edited, dirty, last, kept>>

\* apply(): post-write verification.
ApplyVerify ==
    /\ pc = "verify"
    /\ \/ Works /\ file[idx] = tx.after[idx] /\ NextWrite(tx)
       \/ Works /\ file[idx] # tx.after[idx] /\ ApplyFailed(tx)
       \/ Fault /\ ApplyFailed(tx)
    /\ UNCHANGED <<disk, plan, review, aux>>

\* Both callers read every target once more before they record success.  A
\* difference fails the audit of a deployment and the apply of a resource.
Reverify ==
    /\ pc = "reverify"
    /\ LET mismatch == StartRollback(tx, IF caller = "deployment" THEN "keep" ELSE "clear")
       IN \/ Works /\ file[idx] = tx.after[idx]
             /\ IF idx = N THEN Goto("audit", idx) ELSE Goto("reverify", idx + 1)
          \/ Works /\ file[idx] # tx.after[idx] /\ mismatch
          \/ Fault /\ mismatch
    /\ UNCHANGED <<disk, plan, review, aux>>

-----------------------------------------------------------------------------
(***************************************************************************)
(* Transaction::rollback, over the attempted writes in reverse order.      *)
(***************************************************************************)
ForgetfulRollbackNext(failed) == /\ failures' = failed
                                 /\ pc' = IF idx = 1 THEN "rbPersist" ELSE "rbRead"
                                 /\ idx' = idx - 1
                                 /\ UNCHANGED <<tx, caller, goal>>

RollbackNext(failed) == /\ failures' = failures + failed
                        /\ pc' = IF idx = 1 THEN "rbPersist" ELSE "rbRead"
                        /\ idx' = idx - 1
                        /\ UNCHANGED <<tx, caller, goal>>

\* Only the expected after bytes are replaced; any other content is a failure.
RollbackRead ==
    /\ pc = "rbRead"
    /\ \/ /\ Works
          /\ ~Changed(tx, idx) \/ file[idx] = tx.before[idx]
          /\ RollbackNext(0) /\ UNCHANGED dirty
       \/ /\ Works
          /\ Changed(tx, idx) /\ file[idx] # tx.before[idx] /\ ~MayRestore(tx, idx)
          /\ RollbackNext(1) /\ UNCHANGED dirty
       \/ /\ Works
          /\ Changed(tx, idx) /\ file[idx] # tx.before[idx] /\ MayRestore(tx, idx)
          /\ Goto("rbWrite", idx) /\ dirty' = dirty \ {idx}
       \/ Fault /\ Changed(tx, idx) /\ RollbackNext(1) /\ UNCHANGED dirty
    /\ UNCHANGED <<disk, plan, review, edited, lost, last, kept>>

RollbackWrite ==
    /\ pc = "rbWrite"
    /\ \/ /\ Works
          /\ file' = [file EXCEPT ![idx] = tx.before[idx]]
          /\ lost' = IF file[idx] \in {tx.before[idx], tx.after[idx]}
                     THEN lost ELSE lost \cup {idx}
          /\ Goto("rbVerify", idx)
       \/ Fault /\ RollbackNext(1) /\ UNCHANGED <<file, lost>>
    /\ UNCHANGED <<journal, audit, plan, review, edited, dirty, last, kept>>

RollbackVerify ==
    /\ pc = "rbVerify"
    /\ \/ Works /\ file[idx] = tx.before[idx] /\ RollbackNext(0)
       \/ Works /\ file[idx] # tx.before[idx] /\ RollbackNext(1)
       \/ Fault /\ RollbackNext(1)
    /\ UNCHANGED <<disk, plan, review, aux>>

RolledBack(t, failed) ==
    [t EXCEPT !.phase = IF failed = 0 THEN "RolledBack" ELSE "RecoveryRequired"]

\* rollback() records its result; the caller then audits, clears or stops.
AfterRollback(t, failed) ==
    \/ /\ goal = "audit" \/ (goal = "clear" /\ failed = 0)
       /\ pc' = goal
       /\ tx' = t /\ failures' = failed /\ UNCHANGED <<caller, idx, goal>>
    \/ /\ goal = "keep" \/ (goal = "clear" /\ failed # 0)
       /\ Return

RollbackPersist ==
    /\ pc = "rbPersist"
    /\ LET t == RolledBack(tx, failures) IN
       \/ Works /\ journal' = t /\ AfterRollback(t, failures)
       \/ Fault /\ UNCHANGED journal /\ AfterRollback(t, failures + 1)
    /\ UNCHANGED <<file, audit, plan, review, aux>>

-----------------------------------------------------------------------------
(***************************************************************************)
(* The audit, Transaction::complete and Transaction::clear.                *)
(***************************************************************************)

\* What state.json says once the publication, or its failure, is recorded in it.
Recorded == [audit EXCEPT ![tx.id] = IF goal = "audit" THEN "failed" ELSE "applied"]

\* commit_deployment / commit_resource.  A failed audit compensates and keeps
\* the journal, whatever the compensation achieved; on Unix a save may be reported
\* as failed after it replaced state.json.
Audit ==
    /\ pc = "audit"
    /\ \/ /\ Works
          /\ audit' = Recorded
          /\ \/ goal # "audit" /\ Goto("complete", idx)
             \/ goal = "audit" /\ failures = 0 /\ Goto("clear", idx)
             \/ goal = "audit" /\ failures # 0 /\ Return
       \/ Fault /\ StartRollback(tx, "keep") /\ audit' \in {audit, Recorded}
    /\ UNCHANGED <<file, journal, plan, review, aux>>

\* complete(): Committed becomes durable only after the audit.
Complete ==
    /\ pc = "complete"
    /\ LET t == [tx EXCEPT !.phase = "Committed"] IN
       \/ /\ Works /\ journal' = t
          /\ tx' = t /\ pc' = "clear" /\ UNCHANGED <<caller, idx, goal, failures>>
       \/ Fault /\ UNCHANGED journal /\ Return
    /\ UNCHANGED <<file, audit, plan, review, aux>>

Clear ==
    /\ pc = "clear"
    /\ \/ Works /\ journal' = NoJournal
       \/ Fault /\ UNCHANGED journal
    /\ Return
    /\ UNCHANGED <<file, audit, plan, review, aux>>

-----------------------------------------------------------------------------
(***************************************************************************)
(* Reviewed recovery.                                                      *)
(***************************************************************************)
PreviewRecovery ==
    /\ journal # NoJournal
    /\ \E action \in {"restore", "keepCurrent"} :
          review' = [action |-> action, digest |-> journal]
    /\ UNCHANGED <<disk, plan, thread, aux, budget>>

\* A confirmed review is consumed and refused: the lock is taken, the review
\* expired, the journal changed, or a target is no longer discovered.
RecoveryRefused ==
    /\ review # NoReview
    /\ review' = NoReview
    /\ UNCHANGED <<disk, plan, thread, aux, budget>>

ReviewedUnlessFailed(action) ==
    /\ pc = "idle"
    /\ review # NoReview /\ review.action = action /\ review.digest = journal
    /\ journal.phase # "RecoveryRequired"

\* The write lock is free and the reviewed journal is the one on disk.
Reviewed(action) ==
    /\ pc = "idle"
    /\ review # NoReview /\ review.action = action /\ review.digest = journal

\* recover(): the journal reviewed is loaded and rolled back, unless Committed.
RecoverRestore ==
    /\ Reviewed("restore")
    /\ review' = NoReview
    /\ caller' = "recovery"
    /\ IF journal.phase = "Committed"
       THEN /\ tx' = journal /\ pc' = "clear" /\ goal' = "clear"
            /\ UNCHANGED <<idx, failures>>
       ELSE /\ tx' = journal /\ goal' = "clear" /\ failures' = 0
            /\ idx' = Attempted(journal)
            /\ pc' = IF Attempted(journal) = 0 THEN "rbPersist" ELSE "rbRead"
    /\ UNCHANGED <<disk, plan, aux, budget>>

\* keep_current(): only the journal reviewed is removed; no target is accessed.
RecoverKeep ==
    /\ Reviewed("keepCurrent")
    /\ review' = NoReview
    /\ \/ Works /\ journal' = NoJournal /\ kept' = "yes"
       \/ Fault /\ UNCHANGED <<journal, kept>>
    /\ UNCHANGED <<file, audit, plan, thread, edited, dirty, lost, last>>

-----------------------------------------------------------------------------
(***************************************************************************)
(* The environment: other programs, and the death of the process.          *)
(***************************************************************************)
Edit == /\ Spend("edit")
        /\ \E r \in Resource, c \in Content :
              /\ file' = [file EXCEPT ![r] = c]
              /\ edited' = edited \cup {r}
              /\ dirty' = dirty \cup {r}
        /\ UNCHANGED <<journal, audit, plan, thread, review, lost, last, kept>>

Crash == /\ Spend("crash")
         /\ Return
         /\ plan' = NoPlan
         /\ review' = NoReview
         /\ UNCHANGED <<disk, aux>>

Thread == \/ BeginRead \/ BeginPersist
          \/ ApplyRead \/ ApplyIntent \/ ApplyWrite \/ ApplyVerify \/ Reverify
          \/ RollbackRead \/ RollbackWrite \/ RollbackVerify \/ RollbackPersist
          \/ Audit \/ Complete \/ Clear

User == \/ Prepare \/ Discard \/ Start
        \/ PreviewRecovery \/ RecoveryRefused \/ RecoverRestore \/ RecoverKeep

Next == Thread \/ User \/ Edit \/ Crash

Spec == Init /\ [][Next]_vars

-----------------------------------------------------------------------------
(***************************************************************************)
(* Safety.                                                                 *)
(***************************************************************************)
Budget == [fault : Nat, edit : Nat, crash : Nat, plan : 0..MaxPlans]

TypeOK ==
    /\ file \in Contents
    /\ journal \in Journal \cup {NoJournal}
    /\ audit \in [PlanId -> {"none", "applied", "failed"}]
    /\ plan \in Writes \cup {NoPlan}
    /\ tx \in Journal \cup {NoJournal}
    /\ caller \in Caller /\ pc \in Label /\ idx \in 0..N
    /\ goal \in Goal /\ failures \in Nat
    /\ review \in Review \cup {NoReview}
    /\ edited \subseteq Resource /\ dirty \subseteq Resource /\ lost \subseteq Resource
    /\ last \in Writes \cup {NoPlan}
    /\ kept \in {"yes", "no"}
    /\ budget \in Budget

\* A target no other program wrote.
Ours == Resource \ edited

\* Write-ahead rule: a target the publication changed is named by the attempted
\* prefix of the durable journal until the audit records success or the user
\* keeps the files, whatever fails, dies or is restored in between
\* (Transaction::apply persists the intent before each write).
WriteAhead ==
    last # NoPlan =>
        \A r \in Ours : file[r] # last.before[r] =>
            \/ /\ journal # NoJournal
               /\ journal.id = last.id /\ r <= journal.attempted
            \/ audit[last.id] = "applied"
            \/ kept = "yes"

\* All or nothing: once the journal is gone, and unless the user kept the files,
\* every target holds its before bytes or every target holds its after bytes,
\* and the before bytes if no success was recorded (begin ... complete/clear).
AllOrNothing ==
    (journal = NoJournal /\ last # NoPlan /\ kept = "no") =>
        \/ \A r \in Ours : file[r] = last.before[r]
        \/ /\ audit[last.id] = "applied"
           /\ \A r \in Ours : file[r] = last.after[r]

\* The comment in Transaction::complete: a journal says Committed, so that recovery
\* will not restore it, only when the audit is durable and the targets are published.
CommittedIsAudited ==
    (journal # NoJournal /\ journal.phase = "Committed") =>
        /\ audit[journal.id] = "applied"
        /\ \A r \in Ours : file[r] = journal.after[r]

\* A managed write replaces another program's bytes only when they arrived between
\* the check of that target and its replacement (apply, rollback).
LostOnlyInWindow == [][lost' \ lost \subseteq dirty]_vars

-----------------------------------------------------------------------------
(***************************************************************************)
(* Refinement: a publication is open while its journal is on disk.         *)
(***************************************************************************)
Abstract == INSTANCE AtomicPublication WITH
    None <- NoPlan,
    kept <- kept = "yes",
    publication <- IF journal = NoJournal THEN NoPlan ELSE last

\* The journaled, failing and crashing publication keeps the promise of
\* AtomicPublication: it never ends half published behind the user's back.
IsAtomic == Abstract!Spec

-----------------------------------------------------------------------------
(***************************************************************************)
(* Liveness.  The managed-write thread is a running thread; the user of    *)
(* KeepSpec asks again and again to keep the current files.                *)
(***************************************************************************)
AskKeep == pc = "idle" /\ PreviewRecovery /\ review'.action = "keepCurrent"

FairSpec == Spec /\ WF_vars(Thread)
KeepSpec == FairSpec /\ SF_vars(AskKeep) /\ SF_vars(RecoverKeep)

\* architecture.md: a missing client "cannot trap the user in a repeated restore
\* failure"; keeping the current files ends every recovery.
KeepEndsRecovery == journal # NoJournal ~> journal = NoJournal
=============================================================================
