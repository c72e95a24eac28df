----------------------------- MODULE LoginPlans -----------------------------
(***************************************************************************)
(* The reviewed plans of assisted sign-in (account.rs: LoginPlanStore,     *)
(* discover_status, execute_plan), composed with the runs they start       *)
(* (LoginRuns).  A plan is made of what the machine shows: the account of  *)
(* the GitHub CLI, the clients that are installed and their executables.   *)
(* It is taken once, compared with what the machine shows then, recorded   *)
(* as a run, and only then are its clients opened, one after the other.    *)
(***************************************************************************)
EXTENDS LoginRuns

CONSTANTS
    Guided,      \* surfaces that get instructions and are never opened (JetBrains)
    Focused,     \* surfaces whose open window is focused and that are never started
    Standard,    \* the surfaces of a plan that asks for none
    Requests,    \* the sets of surfaces a user asks for
    Account,     \* accounts the GitHub CLI may be signed in to
    Nobody,      \* no account
    Life,        \* how long a plan is kept (15 minutes)
    MaxPending,  \* so many plans are kept (16)
    MaxPreviews  \* bound; MaxFaults bounds the changes of the machine as well

ASSUME SurfaceAssumption == /\ Guided \cup Focused \cup Standard \subseteq Surface
                            /\ Requests \subseteq SUBSET Surface
ASSUME AccountAssumption == Nobody \notin Account
ASSUME PlanAssumption == {Life, MaxPending, MaxPreviews} \subseteq Nat

VARIABLES
    machine,  \* what the machine shows
    plans,    \* the plans each instance keeps, in memory
    launch,   \* the plan that its launch carries out, and the steps so far
    opened,   \* auxiliary: the clients that were opened, for which plan and run
    left      \* how many previews are left

lvars == <<vars, machine, plans, launch, opened, left>>

\* What `gh api user` may answer: there is no gh, it fails or is not understood, it is
\* not signed in, or it names an account.
Gh == {"absent", "fails", "signedOut"} \cup Account

\* clients: installed; exe: the version of each client's executable, 0 if none is
\* resolved; overridden: an authentication variable is set.
Machine == [gh : Gh, clients : SUBSET Surface, exe : [Surface -> 0 .. (MaxFaults + 1)],
            overridden : BOOLEAN]

NoPlan == [id |-> 0]
Resting == [plan |-> NoPlan, steps |-> [s \in Surface |-> "none"], changed |-> {}]

-----------------------------------------------------------------------------
(***************************************************************************)
(* What is observed: discover_status.                                      *)
(***************************************************************************)

\* observe_github_cli_account.
Anchor ==
    [state |-> CASE machine.gh = "absent"    -> "NotInstalled"
                 [] machine.gh = "fails"     -> "Unknown"
                 [] machine.gh = "signedOut" -> "ActionRequired"
                 [] machine.gh \in Account   -> "Verified",
     who   |-> IF machine.gh \in Account THEN machine.gh ELSE Nobody]

\* observe_surface: only the CLI's account is inferred from the anchor.
Observed(s) ==
    LET state == CASE s \notin machine.clients -> "NotInstalled"
                   [] s \in machine.clients /\ s # Cli -> "ActionRequired"
                   [] s \in machine.clients /\ s = Cli ->
                        IF machine.overridden THEN "Unknown"
                        ELSE IF Anchor.state = "Verified" THEN "Inferred" ELSE "ActionRequired"
    IN [state |-> state,
        who   |-> IF state = "Inferred" THEN Anchor.who ELSE Nobody,
        \* the evidence of a guided surface names its installed profiles
        profiles |-> IF s \in Guided \cap machine.clients THEN machine.exe[s] ELSE 0]

\* account_fingerprint.
Fingerprint == [anchor |-> Anchor, surfaces |-> [s \in Surface |-> Observed(s)]]

\* What a plan does for a surface.
Operation(s) ==
    CASE s \notin machine.clients -> "SkippedNotInstalled"
      [] s \in machine.clients \cap Guided -> "ActionRequired"
      [] OTHER -> IF machine.exe[s] = 0 THEN "Unsupported" ELSE "open"

\* What the user is shown of the last probe of the CLI.
ShownNow(i) == IF machine.overridden \/ Cli \notin machine.clients THEN {} ELSE Shown(i)

LInit ==
    /\ Init
    /\ \E gh \in {"signedOut"} \cup Account :
          machine = [gh |-> gh, clients |-> Surface, exe |-> [s \in Surface |-> 1],
                     overridden |-> FALSE]
    /\ plans = [i \in Instance |-> {}] /\ launch = [i \in Instance |-> Resting]
    /\ opened = {}
    /\ left = MaxPreviews

-----------------------------------------------------------------------------
(***************************************************************************)
(* The plans: LoginPlanStore.                                              *)
(***************************************************************************)
\* purge_expired.
Live(i) == {p \in plans[i] : now < p.until}

\* canonical_surfaces.
Canonical(wanted) == IF wanted = {} THEN Standard ELSE wanted

Preview(i, wanted) ==
    /\ left > 0 /\ left' = left - 1
    /\ thread[i] # Closed
    /\ IF Cardinality(Live(i)) >= MaxPending THEN plans' = [plans EXCEPT ![i] = Live(i)]
       ELSE plans' = [plans EXCEPT ![i] = Live(i) \cup
                {[id |-> left, until |-> now + Life,
                  operations |-> [s \in Canonical(wanted) |-> Operation(s)],
                  exe |-> machine.exe, shown |-> Fingerprint]}]
    /\ UNCHANGED <<vars, machine, launch, opened>>

Opens(p) == {s \in DOMAIN p.operations : p.operations[s] = "open"}

AsShown(p) == p.shown = Fingerprint

\* consume compares what is shown, and the executables, with the plan.
Fits(p) == AsShown(p) /\ \A s \in Opens(p) : machine.exe[s] = p.exe[s]

Kept(i, p)  == Live(i)
Taken(i, p) == Live(i) \ {p}

\* apply_login_plan takes the plan, whatever comes of it.
ApplyPlan(i, p, r) ==
    /\ thread[i] = Idle /\ Free(i)
    /\ plans' = [plans EXCEPT ![i] = Taken(i, p)]
    /\ \/ /\ p \in Live(i) /\ Fits(p)
          /\ Apply(i, r, DOMAIN p.operations)
          /\ launch' = [launch EXCEPT ![i] = [Resting EXCEPT !.plan = p]]
       \/ /\ p \notin Live(i) \/ ~Fits(p) \/ recovery[i]
          /\ UNCHANGED <<vars, launch>>
    /\ UNCHANGED <<machine, opened, left>>

\* execute_plan, one operation after the other; the order is of no consequence here.
\* What was opened is remembered with whether its executable is the reviewed one, or was
\* changed after the plan had been compared.
OpenClient(i, s) ==
    LET p == launch[i].plan
        r == thread[i].run
    IN
    /\ thread[i].at = "launch"
    /\ s \in DOMAIN p.operations /\ launch[i].steps[s] = "none"
    /\ \/ /\ s \notin Opens(p)
          /\ launch' = [launch EXCEPT ![i].steps[s] = p.operations[s]]
          /\ Works /\ UNCHANGED opened
       \/ /\ s \in Opens(p) /\ s \in Focused
          /\ launch' = [launch EXCEPT ![i].steps[s] = "ActionRequired"]
          /\ Works /\ UNCHANGED opened
       \/ /\ s \in Opens(p) \ Focused /\ machine.exe[s] # 0
          /\ launch' = [launch EXCEPT ![i].steps[s] = "ActionRequired"]
          /\ opened' = opened \cup
                {[plan |-> p.id, run |-> r, born |-> mem[i].runs[r].born, surface |-> s,
                  reviewed |-> machine.exe[s] = p.exe[s] \/ s \in launch[i].changed]}
          /\ Works
       \/ /\ s \in Opens(p) \ Focused
          /\ launch' = [launch EXCEPT ![i].steps[s] = "Failed"]
          /\ Fault \/ (machine.exe[s] = 0 /\ Works)
          /\ UNCHANGED opened
    /\ UNCHANGED <<disk, mems, thread, saving, now, probed, overlap, machine, plans, left>>

FinishPlan(i) ==
    /\ thread[i].at = "launch"
    /\ \A s \in DOMAIN launch[i].plan.operations : launch[i].steps[s] # "none"
    /\ Finish(i, launch[i].steps)
    /\ UNCHANGED <<machine, plans, launch, opened, left>>

-----------------------------------------------------------------------------
(***************************************************************************)
(* The other actions, and the machine.                                     *)
(***************************************************************************)
\* A launch that is over is forgotten.
Rest == launch' = [i \in Instance |-> IF thread'[i].at \in {"begin", "launch"}
                                      THEN launch[i] ELSE Resting]

SaveStep(i)   == (CheckSave(i) \/ CommitSave(i)) /\ Rest
                 /\ UNCHANGED <<machine, plans, opened, left>>
CrashPlans(i) == Crash(i) /\ Rest /\ plans' = [plans EXCEPT ![i] = {}]
                 /\ UNCHANGED <<machine, opened, left>>
RunStep(i) ==
    /\ \/ Open(i) \/ OpenUnread(i)
       \/ \E r \in RunId : Verify(i, r, machine.overridden) \/ Cancel(i, r)
       \/ \E obs \in Observation : Answer(i, obs)
    /\ UNCHANGED <<machine, plans, launch, opened, left>>
TickPlans == Tick /\ UNCHANGED <<machine, plans, launch, opened, left>>

\* The user signs gh in or out, installs, updates or removes a client, sets a variable.
Change ==
    /\ Fault
    /\ \/ \E gh \in Gh \ {machine.gh} :
             machine' = [machine EXCEPT !.gh = gh] /\ UNCHANGED launch
       \/ \E s \in Surface : \E v \in {0, machine.exe[s] + 1}, stays \in BOOLEAN :
             /\ stays \/ v = 0
             /\ machine' = [machine EXCEPT !.exe[s] = v,
                     !.clients = IF stays THEN @ \cup {s} ELSE @ \ {s}]
             /\ launch' = [i \in Instance |->
                    IF launch[i] = Resting THEN Resting
                    ELSE [launch[i] EXCEPT !.changed = @ \cup {s}]]
       \/ machine' = [machine EXCEPT !.overridden = ~@] /\ UNCHANGED launch
    /\ UNCHANGED <<disk, mems, thread, saving, now, probed, overlap, plans, opened, left>>

LNext ==
    \/ TickPlans \/ Change
    \/ \E i \in Instance :
          \/ RunStep(i) \/ SaveStep(i) \/ FinishPlan(i) \/ CrashPlans(i)
          \/ \E wanted \in Requests : Preview(i, wanted)
          \/ \E p \in plans[i], r \in RunId : ApplyPlan(i, p, r)
          \/ \E s \in Surface : OpenClient(i, s)

LSpec == LInit /\ [][LNext]_lvars

-----------------------------------------------------------------------------
(***************************************************************************)
(* Properties.                                                             *)
(***************************************************************************)

\* The account a run is shown with is the one that the last probe recorded for it saw,
\* through failing saves, late answers, cancellations, timeouts and restarts.
ShownWasObserved ==
    \A i \in Instance : Running(i) =>
        \A r \in ShownNow(i) :
            \/ probed[r].obs = mem[i].runs[r].login
            \/ disk # seen[i]  \* another instance's, or one that was reported as failed
            \/ overlap

\* A plan opens each client at most once, for one run, and only with the executable that
\* was reviewed (or one that replaced it after the plan had been compared: the code does
\* not look again), however often it is applied and whatever fails or dies.
OpensOnceAsReviewed ==
    \A o \in opened :
        /\ o.reviewed
        /\ \A q \in opened : (q.plan = o.plan /\ q.surface = o.surface) => q = o

\* "the final local run summary could not be persisted; the prepared history entry
\* remains": every client that was ever opened has a run in the history on disk, and in
\* that of an instance that loads it, which asked for it, until as many later runs as the
\* history keeps have pushed that run out (unless, as above, two instances saved at once).
OpenedIsRecorded ==
    \A o \in opened :
        \/ disk.runs[o.run].born = o.born /\ disk.runs[o.run].steps[o.surface] # "none"
        \/ PushedOut(disk.runs, o.born)
        \/ overlap
=============================================================================
