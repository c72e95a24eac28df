----------------------------- MODULE InstallJobs -----------------------------
(***************************************************************************)
(* Reviewed installation of components (installer.rs, installer/history.rs *)
(* and apply_install_plan of commands.rs).  One thread at a time executes  *)
(* a plan: before each installer it saves where it stands, afterwards it   *)
(* detects the component again and saves the result.  Meanwhile the user   *)
(* cancels, the machine changes, the history file fails or is damaged, and *)
(* the application dies.  Installations run on Windows only, where lib.rs  *)
(* allows one instance.                                                    *)
(***************************************************************************)
EXTENDS Integers, Sequences, FiniteSets, FiniteSetsExt

CONSTANTS
    Component,   \* numbered as operation_rank() orders them
    Extension,   \* those installed with VS Code, the others with WinGet
    Host,        \* VS Code
    MaxHistory,  \* runs the history keeps (50)
    MaxPlans, MaxChanges, MaxMishaps  \* bounds; failures, damages and crashes are mishaps

ASSUME ComponentAssumption ==
    /\ IsFiniteSet(Component) /\ Component \subseteq Nat \ {0}
    /\ Extension \subseteq Component /\ Host \in Component \ Extension
ASSUME BoundAssumption ==
    /\ {MaxPlans, MaxChanges, MaxMishaps} \subseteq Nat
    /\ MaxHistory \in Nat \ {0}

VARIABLES
    version,   \* what the machine has of each component, 0 for nothing
    winget,    \* WinGet and its repository, as fingerprinted
    plans,     \* the reviewed plans in memory
    file,      \* installation-history.json
    known,     \* its bytes when they were last read or written
    runs,      \* the runs in memory, latest first
    active,    \* the run that can be cancelled, 0 for none
    cancel,    \* its flag
    thread,    \* the command that executes a plan
    installer, \* the component whose installer runs, 0 for none
    blind,     \* auxiliary: whether the history was damaged during the active run
    budget     \* what is left of each bound

machine == <<version, winget>>
history == <<file, known, runs>>
vars    == <<machine, plans, history, active, cancel, thread, installer, blind, budget>>

PlanId    == 1..MaxPlans
Version   == 0..2
RunStatus == {"Running", "Complete", "Partial", "Failed", "Cancelled", "Interrupted"}
Result    == {"SkippedAlreadyReady", "CompletedAndVerified", "Unverified", "Failed",
              "DependencyFailed", "Cancelled", "TimedOut"}
Results   == [Component -> Result \cup {"none"}]
Plan      == [id : PlanId, requested : SUBSET Component, seen : [Component -> Version],
              winget : Nat]
Run       == [id : PlanId, status : RunStatus, requested : SUBSET Component,
              current : Component \cup {0}, results : Results]
Damaged   == <<[id |-> 0]>>    \* a file that is not a history

\* The components a plan installs: those its review did not find ready.
Operations(p) == {c \in p.requested : p.seen[c] = 0}

NoResults == [c \in Component |-> "none"]
NoPlan    == [id |-> 0]
Idle      == [at |-> "idle", plan |-> NoPlan, todo |-> {}, on |-> 0, result |-> "none",
              results |-> NoResults, failed |-> FALSE]

Spend(k) == budget[k] > 0 /\ budget' = [budget EXCEPT ![k] = @ - 1]
Fault == Spend("mishap")
Works == UNCHANGED budget

Init == /\ version \in [Component -> 0..1] /\ winget = 0
        /\ plans = {} /\ file = <<>> /\ known = <<>> /\ runs = <<>>
        /\ active = 0 /\ cancel = FALSE /\ thread = Idle /\ installer = 0
        /\ blind = FALSE
        /\ budget = [plan |-> MaxPlans, change |-> MaxChanges, mishap |-> MaxMishaps]

-----------------------------------------------------------------------------
(***************************************************************************)
(* The history: History::save, History::open.                              *)
(***************************************************************************)

\* Nothing is saved over bytes this instance did not read or write, nor in recovery.
CanSave == file = known /\ known # Damaged
Save(next) == Works /\ CanSave /\ runs' = next /\ file' = next /\ known' = next
SaveFails  == (Fault \/ (Works /\ ~CanSave)) /\ UNCHANGED history

\* The run under way, and the history with it changed.
IsActive(r) == r.id = active /\ r.status = "Running"
ActiveRun   == runs[CHOOSE k \in DOMAIN runs : IsActive(runs[k])]
Changed(r)  == [k \in DOMAIN runs |-> IF IsActive(runs[k]) THEN r ELSE runs[k]]

\* A run another process left Running is Interrupted, in memory.
Reopened(r) ==
    IF r.status = "Running" THEN [r EXCEPT !.status = "Interrupted", !.current = 0] ELSE r

-----------------------------------------------------------------------------
(***************************************************************************)
(* Plans: InstallPlanStore.                                                *)
(***************************************************************************)

\* preview() detects every requested component; one that is unknown refuses it.
Preview(requested) ==
    /\ requested # {} /\ Spend("plan")
    /\ plans' = plans \cup
           {[id |-> MaxPlans - budget.plan + 1, requested |-> requested,
             seen |-> version, winget |-> winget]}
    /\ UNCHANGED <<machine, history, active, cancel, thread, installer, blind>>

\* What was detected for the review is what is detected now, WinGet included.
SameVersions(p) == \A c \in p.requested : version[c] = p.seen[c]
StillReviewed(p) == /\ SameVersions(p)
                    /\ Operations(p) \ Extension # {} => winget = p.winget

WithoutPlan(p) == plans \ {p}

\* consume(): the plan is gone before it is compared; it may be expired, and a failed
\* detection is a difference.
Consume(p) ==
    /\ thread = Idle
    /\ plans' = WithoutPlan(p)
    /\ \/ /\ Works /\ StillReviewed(p)
          /\ thread' = [Idle EXCEPT !.at = "begin", !.plan = p, !.todo = p.requested]
       \/ Works /\ UNCHANGED thread
    /\ UNCHANGED <<machine, history, active, cancel, installer, blind>>

-----------------------------------------------------------------------------
(***************************************************************************)
(* The thread: apply_install_plan, InstallJobs, apply_windows_plan.        *)
(***************************************************************************)
On(label) == thread.at = label
Goto(label) == thread' = [thread EXCEPT !.at = label]
Abort == thread' = [thread EXCEPT !.at = "finish", !.failed = TRUE]

\* The result of a component, to be recorded next.
Conclude(c, result) == thread' = [thread EXCEPT !.at = "record", !.on = c, !.result = result]

\* begin(): the run is durable before anything else of it exists.  Then WinGet is
\* looked up, which may end the run at once.
NewRun(p) == [id |-> p.id, status |-> "Running", requested |-> p.requested, current |-> 0,
              results |-> NoResults]
Latest(s) == SubSeq(s, 1, IF Len(s) < MaxHistory THEN Len(s) ELSE MaxHistory)
BeginRun ==
    /\ On("begin")
    /\ \/ /\ Save(Latest(<<NewRun(thread.plan)>> \o runs))
          /\ active' = thread.plan.id /\ cancel' = FALSE
          /\ Goto("next") \/ (Operations(thread.plan) \ Extension # {} /\ Abort)
       \/ SaveFails /\ thread' = Idle /\ UNCHANGED <<active, cancel>>
    /\ UNCHANGED <<machine, plans, installer, blind>>

\* The components that were ready come first (by name in the code, in any order here:
\* nothing depends on it), then the operations by rank.
ReadyFirst == thread.todo \ Operations(thread.plan)
Next1st == Min(thread.todo)

LookAnyway  == thread' = [thread EXCEPT !.at = "look", !.on = Next1st]
Unannounced == Abort

\* progress(component, None) is durable before the component is looked at.
Turn ==
    /\ On("next")
    /\ \/ thread.todo = {} /\ Goto("finish") /\ Works /\ UNCHANGED history
       \/ /\ \E c \in ReadyFirst : Conclude(c, "SkippedAlreadyReady")
          /\ Works /\ UNCHANGED history
       \/ /\ thread.todo # {} /\ ReadyFirst = {} /\ cancel
          /\ Conclude(Next1st, "Cancelled") /\ Works /\ UNCHANGED history
       \/ /\ thread.todo # {} /\ ReadyFirst = {} /\ ~cancel
          /\ \/ /\ Save(Changed([ActiveRun EXCEPT !.current = Next1st]))
                /\ thread' = [thread EXCEPT !.at = "look", !.on = Next1st]
             \/ SaveFails /\ Unannounced
    /\ UNCHANGED <<machine, plans, active, cancel, installer, blind>>

\* The component is detected again; its prerequisites and WinGet are checked.  A
\* check of WinGet that fails or is cancelled ends the run, unlike one of an extension.
Look ==
    /\ On("look")
    /\ LET c == thread.on IN
       \/ Works /\ version[c] # 0 /\ Conclude(c, "SkippedAlreadyReady")
       \/ Fault /\ Conclude(c, "Failed")
       \/ /\ Works /\ version[c] = 0
          /\ IF c \in Extension
             THEN IF version[Host] = 0 THEN Conclude(c, "DependencyFailed") ELSE Goto("launch")
             ELSE IF winget # thread.plan.winget \/ cancel THEN Abort ELSE Goto("launch")
       \/ /\ Fault /\ version[c] = 0 /\ c \notin Extension
          /\ Abort \/ (~cancel /\ Conclude(c, "DependencyFailed"))
    /\ UNCHANGED <<machine, plans, history, active, cancel, installer, blind>>

\* run_capture_cancelable(): the flag is read before the process is started.
Launch ==
    /\ On("launch")
    /\ LET c == thread.on IN
       \/ ~cancel /\ Works /\ installer' = c /\ Goto("running")
       \/ cancel /\ Works /\ Conclude(c, "Cancelled") /\ UNCHANGED installer
       \/ Fault /\ Conclude(c, "Failed") /\ UNCHANGED installer
    /\ UNCHANGED <<machine, plans, history, active, cancel, blind>>

\* The deadline of an installer (20 minutes) stands whatever it does.
NoDeadline == FALSE
Deadline   == TRUE

\* A cancelled or late installer is killed, with its children.
Kill ==
    /\ On("running")
    /\ Conclude(thread.on, IF cancel THEN "Cancelled" ELSE "TimedOut")
    /\ cancel \/ Deadline
    /\ installer' = 0
    /\ UNCHANGED <<machine, plans, history, active, cancel, blind, budget>>

\* The installer exits; the component counts when it is detected, whatever it said.
Exit(success) ==
    /\ On("running") /\ ~cancel
    /\ thread' = [thread EXCEPT !.at = "after", !.result = IF success THEN "Unverified"
                                                                      ELSE "Failed"]
    /\ installer' = 0
    /\ UNCHANGED <<machine, plans, history, active, cancel, blind, budget>>

Verify ==
    /\ On("after")
    /\ LET c == thread.on IN
       \/ Works /\ version[c] # 0 /\ Conclude(c, "CompletedAndVerified")
       \/ (Fault \/ (Works /\ version[c] = 0)) /\ Goto("record")
    /\ UNCHANGED <<machine, plans, history, active, cancel, installer, blind>>

\* record_result(): saved first, then remembered; an unsaved result ends the run.
Record ==
    /\ On("record")
    /\ LET c == thread.on IN
          \/ /\ Save(Changed([ActiveRun EXCEPT !.current = c, !.results[c] = thread.result]))
             /\ thread' = [thread EXCEPT !.at = "next", !.todo = @ \ {c}, !.on = 0,
                                         !.result = "none", !.results[c] = thread.result]
          \/ SaveFails /\ Abort
    /\ UNCHANGED <<machine, plans, active, cancel, installer, blind>>

Successes(r) == {c \in Component :
                    r.results[c] \in {"CompletedAndVerified", "SkippedAlreadyReady"}}

Outcome(r, failed, cancelled) ==
    LET n == Cardinality(Successes(r)) IN
    CASE cancelled                                                        -> "Cancelled"
      [] ~cancelled /\ n = 0                                              -> "Failed"
      [] ~cancelled /\ n > 0 /\ (n < Cardinality(r.requested) \/ failed)  -> "Partial"
      [] ~cancelled /\ n = Cardinality(r.requested) /\ n > 0 /\ ~failed   -> "Complete"

\* finish(): a run that failed keeps the results its progress saved.
ForgottenResults(r) == IF thread.failed THEN NoResults ELSE thread.results
FinalResults(r) == IF thread.failed THEN r.results ELSE thread.results
Finish ==
    /\ On("finish")
    /\ LET r == [ActiveRun EXCEPT !.results = FinalResults(ActiveRun)]
       IN \/ Save(Changed([r EXCEPT !.current = 0,
                                    !.status = Outcome(r, thread.failed, cancel)]))
          \/ SaveFails
    /\ Goto("drop")
    /\ UNCHANGED <<machine, plans, active, cancel, installer, blind>>

\* The ticket is dropped and the command returns.
Drop == /\ On("drop")
        /\ active' = 0 /\ cancel' = FALSE /\ thread' = Idle
        /\ blind' = FALSE
        /\ UNCHANGED <<machine, plans, history, installer, budget>>

\* cancel() acknowledges as long as the run is active.
Cancel == /\ active # 0 /\ ~cancel
          /\ cancel' = TRUE
          /\ UNCHANGED <<machine, plans, history, active, thread, installer, blind, budget>>

-----------------------------------------------------------------------------
(***************************************************************************)
(* The environment.                                                        *)
(***************************************************************************)

\* The running installer installs its component.
Installs == /\ installer # 0 /\ version[installer] = 0
            /\ version' = [version EXCEPT ![installer] = 1]
            /\ UNCHANGED <<winget, plans, history, active, cancel, thread, installer, blind,
                           budget>>

\* The user installs, updates or removes a component, or WinGet changes.
Change == /\ Spend("change")
          /\ \/ \E c \in Component : \E v \in Version \ {version[c]} :
                   version' = [version EXCEPT ![c] = v] /\ UNCHANGED winget
             \/ winget' = winget + 1 /\ UNCHANGED version
          /\ UNCHANGED <<plans, history, active, cancel, thread, installer, blind>>

\* Something else overwrites the history file.
Damage == /\ Spend("mishap") /\ file # Damaged
          /\ file' = Damaged
          /\ blind' = (active # 0)
          /\ UNCHANGED <<machine, plans, known, runs, active, cancel, thread, installer>>

\* The application dies, its installer with it (job object), and is opened again.
Restart == /\ Spend("mishap")
           /\ known' = file
           /\ runs' = IF file = Damaged THEN <<>> ELSE [k \in DOMAIN file |-> Reopened(file[k])]
           /\ plans' = {} /\ active' = 0 /\ cancel' = FALSE /\ thread' = Idle
           /\ installer' = 0 /\ blind' = FALSE
           /\ UNCHANGED <<machine, file>>

Thread == BeginRun \/ Turn \/ Look \/ Launch \/ Kill \/ Verify \/ Record \/ Finish \/ Drop

Next == \/ \E requested \in SUBSET Component : Preview(requested)
        \/ \E p \in plans : Consume(p)
        \/ Thread \/ Cancel
        \/ Installs \/ (\E success \in BOOLEAN : Exit(success))
        \/ Change \/ Damage \/ Restart

Spec == Init /\ [][Next]_vars

\* The command is a running native thread: its reads, saves and waits return.  Nothing
\* is assumed of the installer, which may hang.
FairSpec == Spec /\ WF_vars(Thread)

-----------------------------------------------------------------------------
(***************************************************************************)
(* Properties.                                                             *)
(***************************************************************************)

\* architecture.md: a run is persisted before execution.  Whenever an installer runs,
\* the history on disk says so, in the Running run that Cancel reaches, unless the
\* file was damaged during that very run: a crash at any moment leaves a trace.
Prepared ==
    installer # 0 =>
        \/ blind
        \/ /\ file # Damaged
           /\ \E k \in DOMAIN file : /\ file[k].id = active /\ file[k].status = "Running"
                                     /\ file[k].current = installer
                                     /\ installer \in file[k].requested

\* The history stands: a run leaves it only as the oldest of a full history, a run
\* that ended never changes, and the result of a component is never lost or changed.
HistoryStands ==
    [][(file # Damaged /\ file' # Damaged) =>
          \A k \in DOMAIN file :
             LET r == file[k] IN
             \/ k = MaxHistory /\ Len(file') = MaxHistory /\ file'[1].id # file[1].id
             \/ \E j \in DOMAIN file' :
                   /\ file'[j].id = r.id
                   /\ r.status # "Running" => file'[j] = r
                   /\ \A c \in Component :
                         r.results[c] # "none" => file'[j].results[c] = r.results[c]]_vars

\* A run ends, even if its installer hangs: it is killed when it is cancelled, or at
\* its deadline.
RunEnds == active # 0 ~> active = 0
=============================================================================
