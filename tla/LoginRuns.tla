----------------------------- MODULE LoginRuns ------------------------------
(***************************************************************************)
(* Assisted sign-in (account.rs, account/lifecycle.rs and its commands in  *)
(* commands.rs): a run opens official clients, is followed by probes of    *)
(* the CLI's account, cancelled, timed out, or cut short by a restart.     *)
(* Its history, login-runs.json, is rewritten as a whole: compared with    *)
(* what was last read, and then replaced, without a lease.                 *)
(* Module LoginPlans adds the reviewed plans and the machine they are      *)
(* about, and composes the next-state relation.                            *)
(***************************************************************************)
EXTENDS Naturals, FiniteSets

CONSTANTS
    Instance,  \* running instances of the application
    RunId,     \* sign-in runs
    Surface,   \* clients a run can open
    Cli,       \* the one whose account can be probed
    Unix,      \* a replacement also syncs the directory, and that may fail
    Window,    \* how long a run is followed (15 minutes)
    Recent,    \* how long an observation is shown (5 minutes)
    MaxRuns,   \* so many runs are kept in the history (100)
    MaxTime, MaxFollowUps, MaxFaults, MaxCrashes  \* bounds

ASSUME CliAssumption == Cli \in Surface
ASSUME UnixAssumption == Unix \in BOOLEAN
ASSUME TimeAssumption == Window \in Nat /\ Recent \in Nat /\ Recent < Window
ASSUME RunsAssumption == MaxRuns \in Nat \ {0}
ASSUME BoundAssumption == {MaxTime, MaxFollowUps, MaxFaults, MaxCrashes} \subseteq Nat

VARIABLES
    disk,      \* login-runs.json
    mem,       \* the history each instance works with
    seen,      \* what it last read or wrote (disk_bytes)
    recovery,  \* whether its history is read-only
    thread,    \* the launch or probe that holds its logins mutex
    saving,    \* the save it makes under the store's mutex
    now,       \* the time
    probed,    \* auxiliary: the last recorded probe of each run, and its time
    overlap,   \* auxiliary: an instance replaced what another saved after the comparison
    budget     \* what is left of each bound

mems == <<mem, seen, recovery>>
vars == <<disk, mems, thread, saving, now, probed, overlap, budget>>

RunStatus  == {"none", "InProgress", "ActionRequired", "Partial", "Failed", "Completed",
               "Interrupted", "Conflict", "Cancelled", "TimedOut"}
StepStatus == {"none", "Pending", "ActionRequired", "SkippedNotInstalled", "Unsupported",
               "Failed", "Verified", "Conflict", "Cancelled", "TimedOut"}
\* What a probe of the official CLI may report; "none" is a probe that was not made.
Observation == {"none", "unavailable", "same", "other"}
Seen == {"same", "other"}

Time  == 0 .. MaxTime
Run   == [status : RunStatus, steps : [Surface -> StepStatus],
          login : Seen \cup {"none"}, started : Time, finished : Time,
          born : Nat]  \* its place in the list: the newest run is the first
NoRun == [status |-> "none", steps |-> [s \in Surface |-> "none"],
          login |-> "none", started |-> 0, finished |-> 0, born |-> 0]

\* Every save carries new timestamps: a stamp makes its bytes new.  An identity that a
\* history has forgotten may stand for another run, born later.
Doc   == [runs : [RunId -> Run], stamp : Nat]
Empty == [runs |-> [r \in RunId |-> NoRun], stamp |-> 0]

Cause  == {"none", "open", "begin", "finish", "verify", "cancel"}
NoSave == [cause |-> "none", run |-> "none", obs |-> "none", next |-> Empty, checked |-> FALSE]
Idle   == [at |-> "idle", run |-> "none"]
Closed == [at |-> "closed", run |-> "none"]

Spend(k) == budget[k] > 0 /\ budget' = [budget EXCEPT ![k] = @ - 1]
Fault == Spend("fault")
Works == UNCHANGED budget

Init ==
    /\ disk = Empty
    /\ mem = [i \in Instance |-> Empty] /\ seen = [i \in Instance |-> Empty]
    /\ recovery = [i \in Instance |-> FALSE]
    /\ thread = [i \in Instance |-> Closed] /\ saving = [i \in Instance |-> NoSave]
    /\ now = 0 /\ probed = [r \in RunId |-> [obs |-> "none", time |-> 0]]
    /\ overlap = FALSE
    /\ budget = [follow |-> MaxFollowUps, fault |-> MaxFaults, crash |-> MaxCrashes]

-----------------------------------------------------------------------------
(***************************************************************************)
(* The records: lifecycle.rs.                                              *)
(***************************************************************************)
Final == {"Cancelled", "Completed", "Failed", "TimedOut"}
Asked(run) == {s \in Surface : run.steps[s] # "none"}

\* Steps that a probe still follows.
Followed == {"ActionRequired", "Conflict", "Verified"}

FollowUp(run, obs) ==
    LET followed == run.steps[Cli] \in Followed
        steps == [run.steps EXCEPT ![Cli] =
            CASE ~followed                    -> @
              [] followed /\ obs = "same"     -> "Verified"
              [] followed /\ obs = "other"    -> "Conflict"
              [] followed /\ obs \notin Seen  -> "ActionRequired"]
    IN [run EXCEPT
          !.steps = steps, !.finished = now,
          !.login = CASE ~followed                    -> @
                      [] followed /\ obs \in Seen     -> obs
                      [] followed /\ obs \notin Seen  -> "none",
          !.status = CASE steps[Cli] = "Conflict" -> "Conflict"
                       [] steps[Cli] = "Verified" -> IF Asked(run) = {Cli} THEN "Completed"
                                                                           ELSE "Partial"
                       [] steps[Cli] \notin {"Conflict", "Verified"} -> "ActionRequired"]

\* Steps that have no result yet when the verification window is over.
Unsettled == {"ActionRequired", "Conflict", "Pending"}
TimeOut(run) ==
    [run EXCEPT !.status = "TimedOut", !.finished = now,
                !.steps = [s \in Surface |-> IF @[s] \in Unsettled THEN "TimedOut" ELSE @[s]]]

\* reconcile(): a final run is returned as it is.
Late(run) == now - run.started >= Window
ReconcileAnyRun(run, obs) == IF Late(run) THEN TimeOut(run) ELSE FollowUp(run, obs)
Reconcile(run, obs) == IF run.status \in Final THEN run ELSE ReconcileAnyRun(run, obs)

\* cancel().
CancelRun(run) ==
    IF run.status \in Final THEN run
    ELSE [run EXCEPT !.status = "Cancelled", !.finished = now,
                     !.steps = [s \in Surface |->
                         IF @[s] \in {"none", "Verified", "SkippedNotInstalled", "Unsupported",
                                   "Failed"}
                         THEN @[s] ELSE "Cancelled"]]

\* execute_plan(): the status of a run once its clients were opened, or not.
Launched(run, steps) ==
    LET some(x) == \E s \in Surface : steps[s] = x IN
    [run EXCEPT !.steps = steps, !.finished = now,
                !.status = CASE ~some("ActionRequired")                      -> "Failed"
                             [] some("ActionRequired") /\ ~some("Failed")    -> "ActionRequired"
                             [] some("ActionRequired") /\ some("Failed")     -> "Partial"]

-----------------------------------------------------------------------------
(***************************************************************************)
(* The history file: LoginStore::persist, safe_file::write_expected.       *)
(***************************************************************************)
Free(i) == saving[i] = NoSave /\ thread[i] # Closed

Listed(runs) == {r \in RunId : runs[r] # NoRun}
Oldest(runs) == {r \in Listed(runs) : \A q \in Listed(runs) : runs[r].born <= runs[q].born}

\* begin_run puts the new run first and truncates the list: the oldest leaves a full one.
Truncated(runs) ==
    IF Cardinality(Listed(runs)) < MaxRuns THEN runs
    ELSE [r \in RunId |-> IF r \in Oldest(runs) THEN NoRun ELSE runs[r]]

\* ensure_writable(), and a save of the history with one run changed, or begun.
Save(i, cause, r, run, obs) ==
    LET runs == IF cause = "begin" THEN Truncated(mem[i].runs) ELSE mem[i].runs IN
    /\ Free(i) /\ ~recovery[i]
    /\ saving' = [saving EXCEPT ![i] =
           [cause |-> cause, run |-> r, obs |-> obs, checked |-> FALSE,
            next |-> IF mem[i].runs[r] = run /\ run.status \in Final THEN mem[i]
                     ELSE [runs |-> [runs EXCEPT ![r] = run],
                           stamp |-> mem[i].stamp + 1]]]

LaunchAnyway(i) ==
    /\ UNCHANGED mem
    /\ saving' = [saving EXCEPT ![i] = NoSave]
    /\ thread' = [thread EXCEPT ![i] = IF saving[i].cause = "begin"
                                       THEN [@ EXCEPT !.at = "launch"] ELSE Idle]
    /\ UNCHANGED recovery

NotRestored(i) == saving[i].next
Restored(i) == mem[i]

\* A save that is refused: the command returns its error, and memory is what it was;
\* only open_at keeps its changes in memory and becomes read-only.
Refuse(i) ==
    /\ mem' = [mem EXCEPT ![i] = Restored(i)]
    /\ saving' = [saving EXCEPT ![i] = NoSave]
    /\ thread' = [thread EXCEPT ![i] = IF saving[i].cause = "cancel" THEN @ ELSE Idle]
    /\ recovery' = [recovery EXCEPT ![i] = @ \/ saving[i].cause = "open"]

Unchanged(i) == disk = seen[i]

\* The staged bytes are ready and the file is compared a last time.
CheckSave(i) ==
    /\ saving[i] # NoSave /\ ~saving[i].checked
    /\ \/ /\ Works /\ Unchanged(i)
          /\ saving' = [saving EXCEPT ![i].checked = TRUE]
          /\ UNCHANGED <<mem, recovery, thread>>
       \/ (Fault \/ (Works /\ ~Unchanged(i))) /\ Refuse(i)
    /\ UNCHANGED <<disk, seen, now, probed, overlap>>

\* The replacement; on Unix it may happen and still be reported as failed.
Replace(i) ==
    LET save == saving[i] IN
    /\ disk' = save.next /\ overlap' = (overlap \/ ~Unchanged(i))
    /\ probed' = IF save.cause = "verify" /\ disk' # disk /\ save.next.runs[save.run].status # "TimedOut"
                 THEN [probed EXCEPT ![save.run] = [obs |-> save.obs, time |-> now]]
                 ELSE probed

CommitSave(i) ==
    /\ saving[i].checked
    /\ \/ /\ Works /\ Replace(i)
          /\ mem' = [mem EXCEPT ![i] = saving[i].next]
          /\ seen' = [seen EXCEPT ![i] = saving[i].next]
          /\ saving' = [saving EXCEPT ![i] = NoSave]
          /\ thread' = [thread EXCEPT ![i] = CASE saving[i].cause = "begin" ->
                                                      [@ EXCEPT !.at = "launch"]
                                               [] saving[i].cause = "cancel" -> @
                                               [] saving[i].cause \notin {"begin", "cancel"} ->
                                                      Idle]
          /\ UNCHANGED recovery
       \/ /\ Fault /\ Refuse(i)
          /\ UNCHANGED <<disk, probed, overlap>> \/ (Unix /\ Replace(i))
          /\ UNCHANGED seen
    /\ UNCHANGED now

\* open_at marks the runs that another life of the process left in progress.
Abandoned(run)  == run.status = "InProgress"

Open(i) ==
    /\ Works
    /\ thread[i] = Closed /\ saving[i] = NoSave
    /\ LET runs == [r \in RunId |-> IF Abandoned(disk.runs[r])
                                    THEN [disk.runs[r] EXCEPT !.status = "Interrupted",
                                                              !.finished = now]
                                    ELSE disk.runs[r]]
           marked == [runs |-> runs, stamp |-> disk.stamp + 1]
       IN IF runs = disk.runs
          THEN /\ mem' = [mem EXCEPT ![i] = disk]
               /\ thread' = [thread EXCEPT ![i] = Idle] /\ UNCHANGED saving
          ELSE /\ mem' = [mem EXCEPT ![i] = marked]
               /\ saving' = [saving EXCEPT ![i] =
                      [NoSave EXCEPT !.cause = "open", !.next = marked]]
               /\ UNCHANGED thread
    /\ seen' = [seen EXCEPT ![i] = disk]
    /\ recovery' = [recovery EXCEPT ![i] = FALSE]
    /\ UNCHANGED <<disk, now, probed, overlap>>

\* load_history cannot read the file, or refuses what it says.
OpenUnread(i) ==
    /\ thread[i] = Closed /\ saving[i] = NoSave /\ Fault
    /\ mem' = [mem EXCEPT ![i] = Empty] /\ seen' = [seen EXCEPT ![i] = Empty]
    /\ recovery' = [recovery EXCEPT ![i] = TRUE]
    /\ thread' = [thread EXCEPT ![i] = Idle]
    /\ UNCHANGED <<disk, saving, now, probed, overlap>>

-----------------------------------------------------------------------------
(***************************************************************************)
(* The commands.                                                           *)
(***************************************************************************)

\* apply_login_plan holds the logins mutex; the run is on disk before any client opens.
Apply(i, r, surfaces) ==
    /\ thread[i] = Idle
    /\ disk.runs[r] = NoRun /\ \A j \in Instance : mem[j].runs[r] = NoRun /\ thread[j].run # r
    /\ surfaces # {}
    /\ Save(i, "begin", r,
            [NoRun EXCEPT !.status = "InProgress", !.started = now, !.born = mem[i].stamp + 1,
                          !.steps = [s \in Surface |-> IF s \in surfaces THEN "Pending"
                                                                         ELSE "none"]],
            "none")
    /\ thread' = [thread EXCEPT ![i] = [at |-> "begin", run |-> r]]
    /\ UNCHANGED <<disk, mems, now, probed, overlap, budget>>

\* The clients were opened; the result of the run is saved.
Finish(i, steps) ==
    /\ thread[i].at = "launch"
    /\ Save(i, "finish", thread[i].run, Launched(mem[i].runs[thread[i].run], steps), "none")
    /\ thread' = [thread EXCEPT ![i].at = "finish"]
    /\ UNCHANGED <<disk, mems, now, probed, overlap, budget>>

\* verify_login_run reads the run, and probes the CLI without the store's mutex.
NeedsCliProbe(run) ==
    run.status \notin Final /\ ~Late(run) /\ run.steps[Cli] \in Followed

\* An authentication variable in the environment would override the account.
Verify(i, r, overridden) ==
    /\ thread[i] = Idle /\ Free(i)
    /\ mem[i].runs[r] # NoRun
    /\ Spend("follow")
    /\ thread' = [thread EXCEPT ![i] =
           [at |-> IF NeedsCliProbe(mem[i].runs[r]) /\ ~overridden THEN "probe" ELSE "skip",
            run |-> r]]
    /\ UNCHANGED <<disk, mems, saving, now, probed, overlap>>

\* The probe has answered, or was skipped: the run is read again and reconciled.
Answer(i, obs) ==
    /\ thread[i].at \in {"probe", "skip"}
    /\ (thread[i].at = "skip") <=> (obs = "none")
    /\ LET r == thread[i].run IN
       \/ /\ Save(i, "verify", r, Reconcile(mem[i].runs[r], obs), obs)
          /\ thread' = [thread EXCEPT ![i].at = "verify"]
       \/ /\ Free(i) /\ recovery[i]
          /\ thread' = [thread EXCEPT ![i] = Idle] /\ UNCHANGED saving
    /\ UNCHANGED <<disk, mems, now, probed, overlap, budget>>

\* cancel_login_run takes only the store's mutex, and waits for a launch to end.
Cancel(i, r) ==
    /\ mem[i].runs[r] # NoRun /\ mem[i].runs[r].status # "InProgress"
    /\ Save(i, "cancel", r, CancelRun(mem[i].runs[r]), "none")
    /\ Spend("follow")
    /\ UNCHANGED <<disk, mems, thread, now, probed, overlap>>

Tick == /\ now < MaxTime /\ now' = now + 1
        /\ UNCHANGED <<disk, mems, thread, saving, probed, overlap, budget>>

\* A process dies or is closed.
Crash(i) == /\ thread[i] # Closed \/ saving[i] # NoSave
            /\ Spend("crash")
            /\ thread' = [thread EXCEPT ![i] = Closed]
            /\ saving' = [saving EXCEPT ![i] = NoSave]
            /\ UNCHANGED <<disk, mems, now, probed, overlap>>

-----------------------------------------------------------------------------
(***************************************************************************)
(* Properties.                                                             *)
(***************************************************************************)
\* The history is full of runs that began later than this one.
PushedOut(runs, born) ==
    /\ Cardinality(Listed(runs)) >= MaxRuns
    /\ \A q \in Listed(runs) : runs[q].born > born

\* A run that is cancelled, completed, failed or timed out in the history stays exactly
\* that, whatever late answers, failing saves, follow-ups or restarts come, until as many
\* later runs as the history keeps have pushed it out (unless two instances save at once:
\* the comparison and the replacement are two steps).
FinalRunsStand ==
    [][\A r \in RunId : disk.runs[r].status \in Final =>
          \/ disk'.runs[r] = disk.runs[r]
          \/ disk'.runs[r].born # disk.runs[r].born /\ PushedOut(disk'.runs, disk.runs[r].born)
          \/ overlap']_vars

\* What discover_status shows: the recent runs that say what the CLI's account is.
Shown(i) ==
    {r \in RunId : LET run == mem[i].runs[r] IN
        /\ run.login # "none" /\ run.steps[Cli] \in {"Verified", "Conflict"}
        /\ now - run.finished <= Recent}
Running(i) == thread[i] # Closed
=============================================================================
