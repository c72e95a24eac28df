--------------------------- MODULE LoginPlansProofs ---------------------------
(***************************************************************************)
(* Theorems of LoginPlans: what is opened was reviewed, once, and is in    *)
(* the history; what is shown was observed; a final run stands.            *)
(*                                                                         *)
(* They follow from the inductive invariant IInv.  Its heart is that every *)
(* save an instance prepares continues the history this instance last      *)
(* read or wrote (SaveInv): so a replacement that is not beside another's  *)
(* continues what is on disk, whoever made the steps in between.  A run is *)
(* known by its birth: a history that was full has forgotten one only for  *)
(* as many that were born later (Dated, Continues).                        *)
(***************************************************************************)
EXTENDS LoginPlans, FiniteSetTheorems, TLAPS

Label     == {"closed", "idle", "begin", "launch", "finish", "probe", "skip", "verify"}
Operations == {"SkippedNotInstalled", "ActionRequired", "Unsupported", "open"}
Who       == Account \cup {Nobody}
Evidence  == [anchor : [state : {"NotInstalled", "Unknown", "ActionRequired", "Verified"},
                        who : Who],
              surfaces : [Surface -> [state : {"NotInstalled", "Unknown", "ActionRequired",
                                               "Inferred"},
                                      who : Who, profiles : Nat]]]
Plan      == [id : 1..MaxPreviews, until : Nat,
              operations : UNION {[S -> Operations] : S \in SUBSET Surface},
              exe : [Surface -> Nat], shown : Evidence]
Launching == [plan : Plan \cup {NoPlan}, steps : [Surface -> StepStatus],
              changed : SUBSET Surface]
Saving    == [cause : Cause, run : RunId \cup {"none"}, obs : Observation, next : Doc,
              checked : BOOLEAN]
Opened    == [plan : 1..MaxPreviews, run : RunId, born : Nat, surface : Surface,
              reviewed : BOOLEAN]

TypeInv ==
    /\ disk \in Doc /\ mem \in [Instance -> Doc] /\ seen \in [Instance -> Doc]
    /\ recovery \in [Instance -> BOOLEAN]
    /\ thread \in [Instance -> [at : Label, run : RunId \cup {"none"}]]
    /\ saving \in [Instance -> Saving]
    /\ now \in Time
    /\ probed \in [RunId -> [obs : Observation, time : Time]]
    /\ overlap \in BOOLEAN
    /\ budget \in [{"follow", "fault", "crash"} -> Nat]
    /\ machine \in [gh : Gh, clients : SUBSET Surface, exe : [Surface -> Nat],
                    overridden : BOOLEAN]
    /\ plans \in [Instance -> SUBSET Plan]
    /\ launch \in [Instance -> Launching]
    /\ opened \subseteq Opened
    /\ left \in 0..MaxPreviews

\* A run that says what the CLI's account is was probed, and is followed or final.
Sound(run) == run.login # "none" => /\ run.status # "InProgress"
                                    /\ run.steps[Cli] \in Followed \/ run.status \in Final
\* The runs of a history were born one after the other.
Dated(d) ==
    /\ IsFiniteSet(Listed(d.runs))
    /\ \A x \in RunId : /\ d.runs[x].born = 0 => d.runs[x] = NoRun
                        /\ d.runs[x].born \leq d.stamp
    /\ \A x, y \in RunId : d.runs[x].born = d.runs[y].born /\ d.runs[x].born # 0 => x = y

SoundDoc(d) == Dated(d) /\ \A x \in RunId : Sound(d.runs[x])
SoundAt(i) == SoundDoc(mem[i]) /\ SoundDoc(seen[i]) /\ SoundDoc(saving[i].next)
SoundInv == SoundDoc(disk) /\ \A i \in Instance : SoundAt(i)

\* A run that keeps what is final, and the steps, of another.
Keeps(run, new) ==
    /\ new.born = run.born
    /\ run.status \in Final => new = run
    /\ \A s \in Surface : run.steps[s] # "none" => new.steps[s] # "none"

\* A history that keeps the runs of another, or has as many later ones instead.
Continues(d, e) ==
    /\ d.stamp \leq e.stamp
    /\ \A x \in RunId : d.runs[x].born # 0 =>
          \/ Keeps(d.runs[x], e.runs[x])
          \/ e.runs[x].born # d.runs[x].born /\ PushedOut(e.runs, d.runs[x].born)
    /\ \A b \in 0..d.stamp : PushedOut(d.runs, b) => PushedOut(e.runs, b)

\* The run born at b asks for the surfaces S, or was pushed out.
StillRecorded(d, x, b, S) ==
    \/ d.runs[x].born = b /\ \A s \in S : d.runs[x].steps[s] # "none"
    \/ PushedOut(d.runs, b)

\* What the saved history says of an account is what the probe saw that it records, or
\* what was said before.
Probing(s, x, old) == /\ s.cause = "verify" /\ x = s.run /\ s.next # old
                      /\ s.next.runs[x].status # "TimedOut"
Attested(s, old) ==
    \A x \in RunId : s.next.runs[x].login # "none" =>
        s.next.runs[x].login = IF Probing(s, x, old) THEN s.obs ELSE old.runs[x].login

SaveAt(i) ==
    saving[i] # NoSave =>
        /\ saving[i].cause # "none"
        /\ Continues(seen[i], saving[i].next) /\ Attested(saving[i], seen[i])
SaveInv == \A i \in Instance : SaveAt(i)

\* The label of a thread and the save that its instance makes.
LabelAt(i) ==
    /\ \A l \in {"begin", "finish", "verify"} : thread[i].at = l <=> saving[i].cause = l
    /\ thread[i].at = "closed" => thread[i] = Closed
    /\ thread[i] = Closed => saving[i] = NoSave \/ saving[i].cause = "open"
    /\ saving[i].cause = "open" => thread[i] = Closed
    /\ saving[i].cause = "verify" => saving[i].run \in RunId
    /\ thread[i].at \in {"probe", "skip"} =>
          thread[i].run \in RunId /\ mem[i].runs[thread[i].run].born # 0
    /\ saving[i].cause = "cancel" =>
          \A x \in RunId : saving[i].next.runs[x].born = mem[i].runs[x].born
LabelInv == \A i \in Instance : LabelAt(i)

\* An instance works with what it last read or wrote, unless its history is read-only.
MemAt(i) ==
    /\ thread[i] # Closed =>
          /\ \A x \in RunId : mem[i].runs[x].login = seen[i].runs[x].login
          /\ ~recovery[i] => mem[i] = seen[i]
          /\ saving[i] # NoSave => ~recovery[i]
    /\ saving[i].cause = "open" =>
          /\ mem[i] = saving[i].next
          /\ \A x \in RunId : mem[i].runs[x].login = seen[i].runs[x].login
MemInv == \A i \in Instance : MemAt(i)

\* The run of a plan: it is in progress, and asks for the surfaces of the plan.
OfPlan(run, p) ==
    /\ run.status = "InProgress" /\ run.born # 0
    /\ \A s \in Surface : run.steps[s] # "none" <=> s \in DOMAIN p.operations

RecordedAt(i) ==
    /\ thread[i].at \in {"begin", "launch"} =>
          launch[i].plan # NoPlan /\ thread[i].run \in RunId
    /\ thread[i].at = "begin" => OfPlan(saving[i].next.runs[thread[i].run], launch[i].plan)
    /\ thread[i].at = "launch" =>
          /\ OfPlan(mem[i].runs[thread[i].run], launch[i].plan)
          /\ saving[i] # NoSave =>
                saving[i].next.runs[thread[i].run] = mem[i].runs[thread[i].run]
          /\ ~overlap =>
                /\ mem[i].runs[thread[i].run].born \leq disk.stamp
                /\ StillRecorded(disk, thread[i].run, mem[i].runs[thread[i].run].born,
                                 DOMAIN launch[i].plan.operations)
CarriedAt(i) ==
    /\ launch[i].plan = NoPlan => launch[i] = Resting
    /\ launch[i].plan # NoPlan =>
          /\ \A s \in Surface : launch[i].steps[s] # "none"
                                   => s \in DOMAIN launch[i].plan.operations
          /\ \A s \in Opens(launch[i].plan) :
                machine.exe[s] = launch[i].plan.exe[s] \/ s \in launch[i].changed
LaunchInv == \A i \in Instance : RecordedAt(i) /\ CarriedAt(i)

\* A plan is stored or launched once, and has a number of its own.
PlansInv ==
    /\ \A i, j \in Instance : \A p \in plans[i], q \in plans[j] : p.id = q.id => i = j /\ p = q
    /\ \A i \in Instance : \A p \in plans[i] : p.id > left
    /\ \A i \in Instance : launch[i].plan # NoPlan =>
          /\ launch[i].plan.id > left
          /\ \A j \in Instance :
                /\ \A p \in plans[j] : p.id # launch[i].plan.id
                /\ launch[j].plan.id = launch[i].plan.id => j = i

OpenedInv ==
    /\ \A o \in opened :
          /\ o.plan > left /\ o.born # 0 /\ (~overlap => o.born \leq disk.stamp)
          /\ \A i \in Instance :
                /\ \A p \in plans[i] : p.id # o.plan
                /\ launch[i].plan.id = o.plan => launch[i].steps[o.surface] # "none"
    /\ OpensOnceAsReviewed /\ OpenedIsRecorded

\* What is on disk of an account was seen by the last probe that was recorded.
ProbedInv ==
    ~overlap => \A x \in RunId : disk.runs[x].login # "none"
                                    => probed[x].obs = disk.runs[x].login

IInv == /\ TypeInv /\ SoundInv /\ SaveInv /\ LabelInv /\ MemInv /\ LaunchInv /\ PlansInv
        /\ OpenedInv /\ ProbedInv

-----------------------------------------------------------------------------
(***************************************************************************)
(* The types of what is written.                                           *)
(***************************************************************************)
\* A plan is about some of the surfaces, and is not the absence of one.
LEMMA PlanFacts ==
    ASSUME NEW p \in Plan
    PROVE  /\ p # NoPlan /\ p.id \in 1..MaxPreviews /\ p.id # 0 /\ p.exe \in [Surface -> Nat]
           /\ DOMAIN p.operations \subseteq Surface
           /\ \A s \in DOMAIN p.operations : p.operations[s] \in Operations
           /\ Opens(p) \subseteq DOMAIN p.operations
<1>1. p.id \in 1..MaxPreviews /\ p.id # 0
  BY DEF Plan
<1>2. PICK S \in SUBSET Surface : p.operations \in [S -> Operations]
  BY DEF Plan
<1>3. NoPlan.id = 0
  BY DEF NoPlan
<1> QED BY <1>1, <1>2, <1>3 DEF Opens, Plan

\* What is there when nothing is done.
LEMMA RestFacts ==
    /\ Resting \in Launching /\ Resting.plan = NoPlan /\ NoPlan.id = 0
    /\ \A s \in Surface : Resting.steps[s] = "none"
    /\ Idle # Closed /\ Idle.at = "idle" /\ Closed.at = "closed"
    /\ Idle \in [at : Label, run : RunId \cup {"none"}]
    /\ Closed \in [at : Label, run : RunId \cup {"none"}]
<1>1. Idle.at = "idle" /\ Closed.at = "closed"
  BY DEF Idle, Closed
<1> QED BY <1>1 DEF Resting, Launching, NoPlan, StepStatus, Idle, Closed, Label

\* The absence of a run, of a history, of a save.
LEMMA EmptyFacts ==
    /\ NoRun \in Run /\ NoRun.login = "none" /\ NoRun.status = "none" /\ NoRun.born = 0
    /\ \A s \in Surface : NoRun.steps[s] = "none"
    /\ Empty \in Doc /\ \A x \in RunId : Empty.runs[x] = NoRun
    /\ SoundDoc(Empty)
    /\ NoSave \in Saving /\ NoSave.cause = "none" /\ NoSave.next = Empty /\ ~NoSave.checked
<1>1. MaxTime \in Nat /\ 0 \in Time
  BY BoundAssumption DEF Time
<1>2. [s \in Surface |-> "none"] \in [Surface -> StepStatus]
  BY DEF StepStatus
<1>3. /\ NoRun \in Run /\ NoRun.login = "none" /\ NoRun.status = "none" /\ NoRun.born = 0
      /\ \A s \in Surface : NoRun.steps[s] = "none"
  BY <1>1, <1>2 DEF NoRun, Run, RunStatus
<1>4. /\ Empty \in Doc /\ \A x \in RunId : Empty.runs[x] = NoRun
      /\ Empty.stamp = 0
  BY <1>3 DEF Empty, Doc
<1>5. SoundDoc(Empty)
  <2>1. Listed(Empty.runs) = {}
    BY <1>4 DEF Listed
  <2>2. IsFiniteSet(Listed(Empty.runs))
    BY <2>1, FS_EmptySet
  <2>3. Dated(Empty)
    BY <1>3, <1>4, <2>2 DEF Dated
  <2> QED BY <1>3, <1>4, <2>3 DEF SoundDoc, Sound
<1>6. /\ NoSave \in Saving /\ NoSave.cause = "none" /\ NoSave.next = Empty /\ ~NoSave.checked
  BY <1>4 DEF NoSave, Saving, Cause, Observation
<1> QED BY <1>3, <1>4, <1>5, <1>6

\* What is spent was there.
LEMMA SpendFacts ==
    ASSUME budget \in [{"follow", "fault", "crash"} -> Nat]
    PROVE  /\ \A k \in {"follow", "fault", "crash"} :
                 Spend(k) => budget' \in [{"follow", "fault", "crash"} -> Nat]
           /\ Fault \/ Works => budget' \in [{"follow", "fault", "crash"} -> Nat]
<1>1. \A k \in {"follow", "fault", "crash"} :
         Spend(k) => budget' \in [{"follow", "fault", "crash"} -> Nat]
  BY DEF Spend
<1> QED BY <1>1 DEF Fault, Works

\* What the machine shows.
LEMMA ShownFacts ==
    ASSUME TypeInv
    PROVE  /\ Fingerprint \in Evidence
           /\ \A s \in Surface : Operation(s) \in Operations
<1>1. machine \in [gh : Gh, clients : SUBSET Surface, exe : [Surface -> Nat],
                   overridden : BOOLEAN]
  BY DEF TypeInv
<1>2. Anchor \in [state : {"NotInstalled", "Unknown", "ActionRequired", "Verified"}, who : Who]
  <2>1. Anchor.who \in Who
    BY DEF Anchor, Who
  <2>2. Anchor.state \in {"NotInstalled", "Unknown", "ActionRequired", "Verified"}
    BY <1>1 DEF Anchor, Gh
  <2> QED BY <2>1, <2>2 DEF Anchor
<1>3. ASSUME NEW s \in Surface
      PROVE  Observed(s) \in [state : {"NotInstalled", "Unknown", "ActionRequired", "Inferred"},
                              who : Who, profiles : Nat]
  <2>1. Anchor.who \in Who
    BY <1>2
  <2>2. Nobody \in Who /\ machine.exe[s] \in Nat
    BY <1>1 DEF Who
  <2>3. Observed(s).state \in {"NotInstalled", "Unknown", "ActionRequired", "Inferred"}
    BY DEF Observed
  <2>4. Observed(s).who \in Who
    BY <2>1, <2>2 DEF Observed
  <2>5. Observed(s).profiles \in Nat
    BY <2>2 DEF Observed
  <2> QED BY <2>3, <2>4, <2>5 DEF Observed
<1>4. Fingerprint \in Evidence
  BY <1>2, <1>3 DEF Fingerprint, Evidence
<1>5. \A s \in Surface : Operation(s) \in Operations
  BY DEF Operation, Operations
<1> QED BY <1>4, <1>5

-----------------------------------------------------------------------------
(***************************************************************************)
(* What becomes of a run.                                                  *)
(***************************************************************************)
\* The next version of a run keeps its steps, and the run if it is final.
Goes(run, new) == new \in Run /\ Sound(new) /\ Keeps(run, new)

\* A run that is not final is followed: it shows what this probe saw, or nothing.
LEMMA FollowUpFacts ==
    ASSUME NEW run \in Run, Sound(run), run.status \notin Final, NEW obs \in Observation,
           now \in Time
    PROVE  /\ Goes(run, FollowUp(run, obs))
           /\ FollowUp(run, obs).login # "none" => FollowUp(run, obs).login = obs
           /\ FollowUp(run, obs).status # "TimedOut"
<1> DEFINE followed == run.steps[Cli] \in Followed
           cli == CASE ~followed                    -> run.steps[Cli]
                    [] followed /\ obs = "same"     -> "Verified"
                    [] followed /\ obs = "other"    -> "Conflict"
                    [] followed /\ obs \notin Seen  -> "ActionRequired"
           steps == [run.steps EXCEPT ![Cli] = cli]
           login == CASE ~followed                    -> run.login
                      [] followed /\ obs \in Seen     -> obs
                      [] followed /\ obs \notin Seen  -> "none"
           status == CASE steps[Cli] = "Conflict" -> "Conflict"
                       [] steps[Cli] = "Verified" -> IF Asked(run) = {Cli} THEN "Completed"
                                                                           ELSE "Partial"
                       [] steps[Cli] \notin {"Conflict", "Verified"} -> "ActionRequired"
           s1 == [run EXCEPT !.steps = steps]
           s2 == [s1 EXCEPT !.finished = now]
           s3 == [s2 EXCEPT !.login = login]
           new == [s3 EXCEPT !.status = status]
<1>1. /\ run.steps \in [Surface -> StepStatus] /\ Cli \in Surface
      /\ run.login \in {"none", "same", "other"}
  BY CliAssumption DEF Run, Seen
<1>2. /\ cli \in StepStatus /\ (run.steps[Cli] # "none" => cli # "none")
      /\ (followed => cli \in Followed) /\ (~followed => cli = run.steps[Cli])
  BY <1>1 DEF StepStatus, Followed, Seen, Observation
<1>3. /\ login \in Seen \cup {"none"} /\ (login # "none" => followed /\ login = obs)
  <2>1. ~followed => run.login = "none"
    BY DEF Sound
  <2> QED BY <1>1, <2>1 DEF Seen
<1>4. FollowUp(run, obs) = [run EXCEPT !.steps = steps, !.finished = now, !.login = login,
                                       !.status = status]
  BY DEF FollowUp
<1> HIDE DEF cli
<1>5. /\ steps \in [Surface -> StepStatus] /\ steps[Cli] = cli
      /\ \A s \in Surface : run.steps[s] # "none" => steps[s] # "none"
  BY <1>1, <1>2
<1>6. status \in RunStatus /\ status # "InProgress" /\ status # "TimedOut"
  BY DEF RunStatus
<1> HIDE DEF steps, login, status
<1>7. s1 \in Run /\ s1.steps = steps /\ s1.born = run.born
  BY <1>5 DEF Run
<1>8. [run EXCEPT !.steps = steps, !.finished = now, !.login = login, !.status = status] = new
  OBVIOUS
<1> HIDE DEF s1
<1>9. s2 \in Run /\ s2.steps = steps /\ s2.born = run.born
  BY <1>7 DEF Run
<1> HIDE DEF s2
<1>10. s3 \in Run /\ s3.steps = steps /\ s3.login = login /\ s3.born = run.born
  BY <1>3, <1>9 DEF Run
<1> HIDE DEF s3
<1>11. /\ new \in Run /\ new.steps = steps /\ new.login = login /\ new.status = status
       /\ new.born = run.born
  BY <1>6, <1>10 DEF Run
<1> HIDE DEF new
<1>12. Sound(new)
  BY <1>2, <1>3, <1>5, <1>6, <1>11 DEF Sound
<1> QED BY <1>3, <1>4, <1>5, <1>6, <1>8, <1>11, <1>12 DEF Goes, Keeps

\* A run that is not final is timed out: it still shows what it showed.
LEMMA TimeOutFacts ==
    ASSUME NEW run \in Run, run.status \notin Final, Sound(run), now \in Time
    PROVE  /\ Goes(run, TimeOut(run)) /\ TimeOut(run).login = run.login
           /\ TimeOut(run).status = "TimedOut"
<1> DEFINE steps == [s \in Surface |-> IF run.steps[s] \in Unsettled THEN "TimedOut"
                                                                   ELSE run.steps[s]]
           s1 == [run EXCEPT !.status = "TimedOut"]
           s2 == [s1 EXCEPT !.finished = now]
           new == [s2 EXCEPT !.steps = steps]
<1>1. run.steps \in [Surface -> StepStatus]
  BY DEF Run
<1>2. /\ steps \in [Surface -> StepStatus]
      /\ \A s \in Surface : run.steps[s] # "none" => steps[s] # "none"
  BY <1>1 DEF StepStatus
<1>3. TimeOut(run) = new
  BY DEF TimeOut
<1> HIDE DEF steps
<1>4. s1 \in Run /\ s1.login = run.login /\ s1.status = "TimedOut" /\ s1.born = run.born
  BY DEF Run, RunStatus
<1> HIDE DEF s1
<1>5. s2 \in Run /\ s2.login = run.login /\ s2.status = "TimedOut" /\ s2.born = run.born
  BY <1>4 DEF Run
<1> HIDE DEF s2
<1>6. /\ new \in Run /\ new.steps = steps /\ new.login = run.login
      /\ new.status = "TimedOut" /\ new.born = run.born
  BY <1>2, <1>5 DEF Run
<1> HIDE DEF new
<1>7. Sound(new)
  BY <1>6 DEF Sound, Final
<1> QED BY <1>2, <1>3, <1>6, <1>7 DEF Goes, Keeps

\* A run is cancelled, unless it is final: it still shows what it showed.
LEMMA CancelFacts ==
    ASSUME NEW run \in Run, Sound(run), now \in Time
    PROVE  Goes(run, CancelRun(run)) /\ CancelRun(run).login = run.login
<1>1. CASE run.status \in Final
  BY <1>1 DEF CancelRun, Goes, Keeps
<1>2. CASE run.status \notin Final
  <2> DEFINE steps == [s \in Surface |->
                         IF run.steps[s] \in {"none", "Verified", "SkippedNotInstalled",
                                              "Unsupported", "Failed"}
                         THEN run.steps[s] ELSE "Cancelled"]
             s1 == [run EXCEPT !.status = "Cancelled"]
             s2 == [s1 EXCEPT !.finished = now]
             new == [s2 EXCEPT !.steps = steps]
  <2>1. run.steps \in [Surface -> StepStatus]
    BY DEF Run
  <2>2. /\ steps \in [Surface -> StepStatus]
        /\ \A s \in Surface : run.steps[s] # "none" => steps[s] # "none"
    BY <2>1 DEF StepStatus
  <2>3. CancelRun(run) = new
    BY <1>2 DEF CancelRun
  <2> HIDE DEF steps
  <2>4. s1 \in Run /\ s1.login = run.login /\ s1.status = "Cancelled" /\ s1.born = run.born
    BY DEF Run, RunStatus
  <2> HIDE DEF s1
  <2>5. s2 \in Run /\ s2.login = run.login /\ s2.status = "Cancelled" /\ s2.born = run.born
    BY <2>4 DEF Run
  <2> HIDE DEF s2
  <2>6. /\ new \in Run /\ new.steps = steps /\ new.login = run.login
        /\ new.status = "Cancelled" /\ new.born = run.born
    BY <2>2, <2>5 DEF Run
  <2> HIDE DEF new
  <2>7. Sound(new)
    BY <2>6 DEF Sound, Final
  <2> QED BY <1>2, <2>2, <2>3, <2>6, <2>7 DEF Goes, Keeps
<1> QED BY <1>1, <1>2

\* A run in progress has ended: nothing is known of the account.
LEMMA LaunchedFacts ==
    ASSUME NEW run \in Run, Sound(run), run.status = "InProgress", now \in Time,
           NEW steps \in [Surface -> StepStatus],
           \A s \in Surface : run.steps[s] # "none" => steps[s] # "none"
    PROVE  Goes(run, Launched(run, steps)) /\ Launched(run, steps).login = "none"
<1> DEFINE some(x) == \E s \in Surface : steps[s] = x
           status == CASE ~some("ActionRequired")                      -> "Failed"
                       [] some("ActionRequired") /\ ~some("Failed")    -> "ActionRequired"
                       [] some("ActionRequired") /\ some("Failed")     -> "Partial"
           s1 == [run EXCEPT !.steps = steps]
           s2 == [s1 EXCEPT !.finished = now]
           new == [s2 EXCEPT !.status = status]
<1>1. Launched(run, steps) = new
  BY DEF Launched
<1>2. status \in RunStatus /\ run.login = "none"
  BY DEF RunStatus, Sound
<1> HIDE DEF status
<1>3. s1 \in Run /\ s1.steps = steps /\ s1.login = "none" /\ s1.born = run.born
  BY <1>2 DEF Run
<1> HIDE DEF s1
<1>4. s2 \in Run /\ s2.steps = steps /\ s2.login = "none" /\ s2.born = run.born
  BY <1>3 DEF Run
<1> HIDE DEF s2
<1>5. new \in Run /\ new.steps = steps /\ new.login = "none" /\ new.born = run.born
  BY <1>2, <1>4 DEF Run
<1> HIDE DEF new
<1> QED BY <1>1, <1>5 DEF Goes, Keeps, Sound, Final

\* A new run asks for these surfaces, is in progress, and has a birth of its own.
Begun(surfaces, born) ==
    [NoRun EXCEPT !.status = "InProgress", !.started = now, !.born = born,
                  !.steps = [s \in Surface |-> IF s \in surfaces THEN "Pending" ELSE "none"]]

\* A new run is sound, and says nothing of the account.
LEMMA BegunFacts ==
    ASSUME NEW surfaces \in SUBSET Surface, NEW born \in Nat, now \in Time
    PROVE  LET run == Begun(surfaces, born) IN
           /\ run \in Run /\ Sound(run) /\ run.login = "none" /\ run.born = born
           /\ run.status = "InProgress"
           /\ \A s \in Surface : run.steps[s] # "none" <=> s \in surfaces
<1> DEFINE steps == [s \in Surface |-> IF s \in surfaces THEN "Pending" ELSE "none"]
           s1 == [NoRun EXCEPT !.status = "InProgress"]
           s2 == [s1 EXCEPT !.started = now]
           s3 == [s2 EXCEPT !.born = born]
           new == [s3 EXCEPT !.steps = steps]
<1>1. Begun(surfaces, born) = new
  BY DEF Begun
<1>2. /\ steps \in [Surface -> StepStatus]
      /\ \A s \in Surface : steps[s] # "none" <=> s \in surfaces
  BY DEF StepStatus
<1> HIDE DEF steps
<1>3. s1 \in Run /\ s1.status = "InProgress" /\ s1.login = "none"
  BY EmptyFacts DEF Run, RunStatus
<1> HIDE DEF s1
<1>4. s2 \in Run /\ s2.status = "InProgress" /\ s2.login = "none"
  BY <1>3 DEF Run
<1> HIDE DEF s2
<1>5. s3 \in Run /\ s3.status = "InProgress" /\ s3.login = "none" /\ s3.born = born
  BY <1>4 DEF Run
<1> HIDE DEF s3
<1>6. /\ new \in Run /\ new.steps = steps /\ new.status = "InProgress"
      /\ new.login = "none" /\ new.born = born
  BY <1>2, <1>5 DEF Run
<1> HIDE DEF new
<1> QED BY <1>1, <1>2, <1>6 DEF Sound

\* What open_at makes of a run says nothing new.
Marked(run) ==
    IF Abandoned(run) THEN [run EXCEPT !.status = "Interrupted", !.finished = now] ELSE run

\* A marked run keeps its steps and says what it said.
LEMMA MarkedFacts ==
    ASSUME NEW run \in Run, Sound(run), now \in Time
    PROVE  Goes(run, Marked(run)) /\ Marked(run).login = run.login
<1>1. CASE ~Abandoned(run)
  BY <1>1 DEF Marked, Goes, Keeps
<1>2. CASE Abandoned(run)
  <2> DEFINE s1 == [run EXCEPT !.status = "Interrupted"]
             new == [s1 EXCEPT !.finished = now]
  <2>1. Marked(run) = new
    BY <1>2 DEF Marked
  <2>2. /\ s1 \in Run /\ s1.steps = run.steps /\ s1.login = run.login
        /\ s1.born = run.born
    BY DEF Run, RunStatus
  <2> HIDE DEF s1
  <2>3. /\ new \in Run /\ new.steps = run.steps /\ new.login = run.login
        /\ new.born = run.born
    BY <2>2 DEF Run
  <2> HIDE DEF new
  <2>4. run.login = "none" /\ run.status \notin Final
    BY <1>2 DEF Sound, Abandoned, Final
  <2> QED BY <2>1, <2>3, <2>4 DEF Goes, Keeps, Sound
<1> QED BY <1>1, <1>2

\* What an answer makes of a run.
LEMMA ReconcileFacts ==
    ASSUME NEW run \in Run, Sound(run), NEW obs \in Observation, now \in Time
    PROVE  LET new == Reconcile(run, obs) IN
           /\ Goes(run, new)
           /\ new.login # "none" =>
                 new.login = IF new.status = "TimedOut" \/ run.status \in Final THEN run.login
                                                                                ELSE obs
<1>1. CASE run.status \in Final
  BY <1>1 DEF Reconcile, Goes, Keeps
<1>2. CASE run.status \notin Final /\ Late(run)
  BY <1>2, TimeOutFacts DEF Reconcile, ReconcileAnyRun
<1>3. CASE run.status \notin Final /\ ~Late(run)
  <2>1. Reconcile(run, obs) = FollowUp(run, obs)
    BY <1>3 DEF Reconcile, ReconcileAnyRun
  <2> QED BY <1>3, <2>1, FollowUpFacts
<1> QED BY <1>1, <1>2, <1>3

-----------------------------------------------------------------------------
(***************************************************************************)
(* What the actions do, in short.                                          *)
(***************************************************************************)
\* A history that is rewritten without a birth has the runs it had.
LEMMA SameBirths ==
    ASSUME NEW d \in Doc, NEW e \in Doc, Dated(d), d.stamp \leq e.stamp,
           \A x \in RunId : /\ e.runs[x].born = d.runs[x].born
                            /\ d.runs[x] = NoRun => e.runs[x] = NoRun
    PROVE  /\ Dated(e)
           /\ \A b \in Nat : PushedOut(d.runs, b) => PushedOut(e.runs, b)
<1>1. \A x \in RunId : d.runs[x].born \in Nat /\ e.runs[x].born \in Nat
  BY DEF Doc, Run
<1>2. d.stamp \in Nat /\ e.stamp \in Nat
  BY DEF Doc
<1>3. \A x \in RunId : d.runs[x] = NoRun <=> d.runs[x].born = 0
  BY EmptyFacts DEF Dated
<1>4. \A x \in RunId : e.runs[x] = NoRun <=> e.runs[x].born = 0
  BY <1>3, EmptyFacts
<1>5. Listed(e.runs) = Listed(d.runs)
  BY <1>3, <1>4 DEF Listed
<1>6. Dated(e)
  BY <1>1, <1>2, <1>4, <1>5 DEF Dated
<1>7. \A b \in Nat : PushedOut(d.runs, b) => PushedOut(e.runs, b)
  <2>1. \A q \in Listed(d.runs) : q \in RunId
    BY DEF Listed
  <2> QED BY <1>5, <2>1 DEF PushedOut
<1> QED BY <1>6, <1>7

\* A history whose runs go on is sound and continues what it was.
LEMMA GoesOn ==
    ASSUME NEW d \in Doc, NEW e \in Doc, SoundDoc(d), d.stamp \leq e.stamp,
           \A x \in RunId : \/ e.runs[x] = d.runs[x]
                            \/ d.runs[x] # NoRun /\ Goes(d.runs[x], e.runs[x])
    PROVE  SoundDoc(e) /\ Continues(d, e) /\ \A x \in RunId : e.runs[x].born = d.runs[x].born
<1>1. \A x \in RunId : Keeps(d.runs[x], e.runs[x]) /\ Sound(e.runs[x])
  BY DEF Goes, Keeps, SoundDoc
<1>2. \A x \in RunId : /\ e.runs[x].born = d.runs[x].born
                       /\ d.runs[x] = NoRun => e.runs[x] = NoRun
  BY <1>1 DEF Keeps
<1>3. /\ Dated(e)
      /\ \A b \in Nat : PushedOut(d.runs, b) => PushedOut(e.runs, b)
  BY <1>2, SameBirths DEF SoundDoc
<1>4. \A b \in 0..d.stamp : b \in Nat
  BY DEF Doc
<1> QED BY <1>1, <1>2, <1>3, <1>4 DEF SoundDoc, Continues

\* A history continues itself.
LEMMA ContinuesItself ==
    ASSUME NEW d \in Doc
    PROVE  Continues(d, d)
<1>1. d.stamp \leq d.stamp
  BY DEF Doc
<1> QED BY <1>1 DEF Continues, Keeps

\* What was recorded, or pushed out, stays so.
LEMMA RecordedOn ==
    ASSUME NEW d \in Doc, NEW e \in Doc, Continues(d, e), NEW x \in RunId, NEW b \in Nat,
           b # 0, b \leq d.stamp, NEW S \in SUBSET Surface, StillRecorded(d, x, b, S)
    PROVE  StillRecorded(e, x, b, S) /\ b \leq e.stamp
<1>1. b \in 0..d.stamp /\ b \leq e.stamp
  BY DEF Doc, Continues
<1> QED BY <1>1 DEF StillRecorded, Continues, Keeps

\* At most one run leaves a history that is truncated, the first born of a full one.
LEMMA TruncatedFacts ==
    ASSUME NEW d \in Doc, Dated(d)
    PROVE  /\ \A x \in RunId : Truncated(d.runs)[x] \in {d.runs[x], NoRun}
           /\ \A x \in RunId : Truncated(d.runs)[x] # d.runs[x] =>
                 \A q \in Listed(d.runs) : q # x => d.runs[q].born > d.runs[x].born
           /\ Cardinality(Listed(d.runs)) \in Nat
           /\ Cardinality(Listed(d.runs)) < MaxRuns => Truncated(d.runs) = d.runs
           /\ IsFiniteSet(Listed(Truncated(d.runs)))
           /\ Cardinality(Listed(d.runs)) \geq MaxRuns =>
                 Cardinality(Listed(Truncated(d.runs))) + 1 \geq MaxRuns
<1> DEFINE L == Listed(d.runs)
           O == Oldest(d.runs)
           T == Truncated(d.runs)
<1>1. IsFiniteSet(L) /\ Cardinality(L) \in Nat /\ MaxRuns \in Nat
  BY FS_CardinalityType, RunsAssumption DEF Dated
<1>2. O \subseteq L /\ L \subseteq RunId
  BY DEF Oldest, Listed
<1>3. \A x \in RunId : d.runs[x].born \in Nat
  BY DEF Doc, Run
<1>4. \A x \in L : d.runs[x].born # 0
  BY DEF Dated, Listed
<1>5. \A x \in O : \A q \in L : q # x => d.runs[q].born > d.runs[x].born
  BY <1>2, <1>3, <1>4 DEF Oldest, Dated
<1>6. CASE Cardinality(L) < MaxRuns
  <2>1. T = d.runs
    BY <1>6 DEF Truncated
  <2>2. ~(Cardinality(L) \geq MaxRuns)
    BY <1>1, <1>6
  <2> QED BY <1>1, <2>1, <2>2
<1>7. CASE ~(Cardinality(L) < MaxRuns)
  <2>1. T = [x \in RunId |-> IF x \in O THEN NoRun ELSE d.runs[x]]
    BY <1>7 DEF Truncated
  <2>2. Listed(T) = L \ O
    BY <2>1 DEF Listed
  <2>3. IsFiniteSet(L \ O) /\ Cardinality(L \ O) + 1 \geq Cardinality(L)
    <3>1. CASE O = {}
      <4>1. L \ O = L
        BY <3>1
      <4> QED BY <1>1, <4>1
    <3>2. ASSUME NEW x \in O
          PROVE  IsFiniteSet(L \ O) /\ Cardinality(L \ O) + 1 \geq Cardinality(L)
      <4>1. O = {x}
        <5>1. ASSUME NEW y \in O, y # x PROVE FALSE
          <6>1. d.runs[y].born > d.runs[x].born /\ d.runs[x].born > d.runs[y].born
            BY <1>2, <1>5, <5>1
          <6> QED BY <1>2, <1>3, <6>1
        <5> QED BY <5>1
      <4>2. L \ O = L \ {x}
        BY <4>1
      <4>3. IsFiniteSet(L \ {x}) /\ Cardinality(L \ {x}) = Cardinality(L) - 1
        BY <1>1, <1>2, FS_RemoveElement
      <4>4. IsFiniteSet(L \ O) /\ Cardinality(L \ O) = Cardinality(L) - 1
        BY <4>2, <4>3, Zenon
      <4> HIDE DEF L, O
      <4> QED BY <1>1, <4>4
    <3> QED BY <3>1, <3>2
  <2>4. Cardinality(L \ O) \in Nat
    BY <2>3, FS_CardinalityType
  <2>5. Cardinality(L) \geq MaxRuns => Cardinality(L \ O) + 1 \geq MaxRuns
    BY <1>1, <2>3, <2>4
  <2>6. \A x \in RunId : T[x] # d.runs[x] => x \in O
    BY <2>1
  <2>7. \A x \in RunId : T[x] \in {d.runs[x], NoRun}
    BY <2>1
  <2>8. \A x \in RunId : T[x] # d.runs[x] =>
           \A q \in L : q # x => d.runs[q].born > d.runs[x].born
    BY <1>5, <2>6
  <2> QED BY <1>1, <1>7, <2>2, <2>3, <2>5, <2>7, <2>8
<1> QED BY <1>6, <1>7

\* A run begins: the history continues what it was, without the oldest run of a full one.
LEMMA BeginsOn ==
    ASSUME NEW d \in Doc, NEW e \in Doc, SoundDoc(d), NEW r \in RunId, d.runs[r] = NoRun,
           NEW run \in Run, Sound(run), run.born = d.stamp + 1, e.stamp = d.stamp + 1,
           \A x \in RunId : e.runs[x] = IF x = r THEN run ELSE Truncated(d.runs)[x]
    PROVE  SoundDoc(e) /\ Continues(d, e)
<1> DEFINE L == Listed(d.runs)
           T == Truncated(d.runs)
           N == Listed(e.runs)
<1>1. Dated(d) /\ d.stamp \in Nat /\ MaxRuns \in Nat
  BY RunsAssumption DEF SoundDoc, Doc
<1>2. /\ \A x \in RunId : T[x] \in {d.runs[x], NoRun}
      /\ \A x \in RunId : T[x] # d.runs[x] =>
            \A q \in L : q # x => d.runs[q].born > d.runs[x].born
      /\ Cardinality(L) \in Nat /\ (Cardinality(L) < MaxRuns => T = d.runs)
      /\ IsFiniteSet(Listed(T))
      /\ Cardinality(L) \geq MaxRuns => Cardinality(Listed(T)) + 1 \geq MaxRuns
  BY <1>1, TruncatedFacts
<1>a. \A x \in RunId : e.runs[x] = IF x = r THEN run ELSE T[x]
  OBVIOUS
<1> HIDE DEF T
<1>3. \A x \in RunId : d.runs[x].born \in Nat /\ d.runs[x].born \leq d.stamp
  BY <1>1 DEF Dated, Doc, Run
<1>4. r \notin Listed(T) /\ N = Listed(T) \cup {r} /\ run # NoRun
  <2>1. run # NoRun
    BY <1>1, EmptyFacts
  <2>2. T[r] = NoRun
    BY <1>2
  <2> QED BY <1>a, <2>1, <2>2 DEF Listed
<1>5. /\ IsFiniteSet(N) /\ Cardinality(N) = Cardinality(Listed(T)) + 1
  BY <1>2, <1>4, FS_AddElement
<1>6. \A q \in N : q \in RunId /\ (q = r \/ (q \in L /\ e.runs[q] = d.runs[q] /\ q # r))
  BY <1>2, <1>a DEF Listed
<1>7. e.runs[r].born = d.stamp + 1
  OBVIOUS
<1>8. \A x \in RunId \ {r} : e.runs[x] = d.runs[x] \/ e.runs[x] = NoRun
  BY <1>2, <1>a
<1>9. Dated(e)
  <2>1. \A x \in RunId : /\ e.runs[x].born = 0 => e.runs[x] = NoRun
                         /\ e.runs[x].born \leq e.stamp
    BY <1>1, <1>3, <1>7, <1>8, EmptyFacts DEF Dated
  <2>2. ASSUME NEW x \in RunId, NEW y \in RunId, e.runs[x].born = e.runs[y].born,
               e.runs[x].born # 0
        PROVE  x = y
    <3>1. CASE x = r \/ y = r
      BY <1>1, <1>3, <1>7, <1>8, <2>2, <3>1, EmptyFacts
    <3>2. CASE x # r /\ y # r
      BY <1>1, <1>8, <2>2, <3>2, EmptyFacts DEF Dated
    <3> QED BY <3>1, <3>2
  <2> QED BY <1>5, <2>1, <2>2 DEF Dated
<1>10. SoundDoc(e)
  BY <1>8, <1>9, EmptyFacts DEF SoundDoc, Sound
<1>11. \A q \in N : q = r \/ e.runs[q].born = d.runs[q].born
  BY <1>6
<1>12. ASSUME NEW b \in 0..d.stamp, PushedOut(d.runs, b) PROVE PushedOut(e.runs, b)
  <2>1. Cardinality(L) \geq MaxRuns /\ \A q \in L : d.runs[q].born > b
    BY <1>12 DEF PushedOut
  <2>2. Cardinality(N) \geq MaxRuns
    BY <1>2, <1>5, <2>1
  <2>3. \A q \in N : e.runs[q].born > b
    <3>1. ASSUME NEW q \in N PROVE e.runs[q].born > b
      <4>1. CASE q = r
        BY <1>1, <1>7, <4>1
      <4>2. CASE q # r
        BY <1>6, <2>1, <4>2
      <4> QED BY <4>1, <4>2
    <3> QED BY <3>1
  <2> QED BY <2>2, <2>3 DEF PushedOut
<1>13. ASSUME NEW x \in RunId, d.runs[x].born # 0
       PROVE  \/ Keeps(d.runs[x], e.runs[x])
              \/ e.runs[x].born # d.runs[x].born /\ PushedOut(e.runs, d.runs[x].born)
  <2>1. x # r
    BY <1>13, EmptyFacts
  <2>2. CASE e.runs[x] = d.runs[x]
    BY <2>2 DEF Keeps
  <2>3. CASE e.runs[x] # d.runs[x]
    <3>1. e.runs[x] = NoRun /\ T[x] # d.runs[x]
      BY <1>8, <1>a, <2>1, <2>3
    <3>2. \A q \in L : q # x => d.runs[q].born > d.runs[x].born
      BY <1>2, <3>1
    <3>3. Cardinality(L) \geq MaxRuns
      BY <1>1, <1>2, <3>1
    <3>4. Cardinality(N) \geq MaxRuns
      BY <1>2, <1>5, <3>3
    <3>5. x \notin N
      BY <3>1 DEF Listed
    <3>6. ASSUME NEW q \in N PROVE e.runs[q].born > d.runs[x].born
      <4>1. CASE q = r
        BY <1>1, <1>3, <1>7, <4>1
      <4>2. CASE q # r
        BY <1>6, <3>2, <3>5, <4>2
      <4> QED BY <4>1, <4>2
    <3>7. PushedOut(e.runs, d.runs[x].born)
      BY <3>4, <3>6 DEF PushedOut
    <3>8. e.runs[x].born # d.runs[x].born
      BY <1>13, <3>1, EmptyFacts
    <3> QED BY <3>7, <3>8
  <2> QED BY <2>2, <2>3
<1>14. d.stamp \leq e.stamp
  BY <1>1
<1> QED BY <1>10, <1>12, <1>13, <1>14 DEF Continues

\* A save is prepared of an instance that has none, and changes or begins one run.
LEMMA SaveFacts ==
    ASSUME TypeInv, NEW i \in Instance, NEW cause \in Cause, NEW r \in RunId,
           NEW run \in Run, NEW obs \in Observation, Save(i, cause, r, run, obs)
    PROVE  LET runs == IF cause = "begin" THEN Truncated(mem[i].runs) ELSE mem[i].runs IN
           /\ saving[i] = NoSave /\ thread[i] # Closed /\ ~recovery[i]
           /\ saving' \in [Instance -> Saving]
           /\ \A j \in Instance : j # i => saving'[j] = saving[j]
           /\ saving'[i].cause = cause /\ saving'[i].run = r /\ saving'[i].obs = obs
           /\ ~saving'[i].checked
           /\ mem[i].runs[r] = run /\ run.status \in Final => saving'[i].next = mem[i]
           /\ \/ saving'[i].next = mem[i] /\ mem[i].runs[r] = run /\ run.status \in Final
              \/ /\ saving'[i].next.stamp = mem[i].stamp + 1
                 /\ \A x \in RunId : saving'[i].next.runs[x] = IF x = r THEN run ELSE runs[x]
<1> DEFINE runs == IF cause = "begin" THEN Truncated(mem[i].runs) ELSE mem[i].runs
           new  == [runs |-> [runs EXCEPT ![r] = run], stamp |-> mem[i].stamp + 1]
           same == mem[i].runs[r] = run /\ run.status \in Final
           next == IF same THEN mem[i] ELSE new
           save == [cause |-> cause, run |-> r, obs |-> obs, checked |-> FALSE, next |-> next]
<1>1. saving \in [Instance -> Saving] /\ mem[i] \in Doc
  BY DEF TypeInv
<1>2. mem[i].runs \in [RunId -> Run] /\ mem[i].stamp + 1 \in Nat
  BY <1>1 DEF Doc
<1>3. runs \in [RunId -> Run]
  BY <1>2, EmptyFacts DEF Truncated
<1>4. /\ saving[i] = NoSave /\ thread[i] # Closed /\ ~recovery[i]
      /\ saving' = [saving EXCEPT ![i] = save]
  BY DEF Save, Free
<1> HIDE DEF runs
<1>5. /\ new \in Doc /\ new.stamp = mem[i].stamp + 1
      /\ \A x \in RunId : new.runs[x] = IF x = r THEN run ELSE runs[x]
  BY <1>2, <1>3 DEF Doc
<1> HIDE DEF new
<1>6. /\ next \in Doc /\ (same => next = mem[i])
      /\ (next = mem[i] /\ same) \/ next = new
  BY <1>1, <1>5
<1> HIDE DEF next
<1>7. /\ save \in Saving /\ save.cause = cause /\ save.run = r /\ save.obs = obs
      /\ ~save.checked /\ save.next = next
  BY <1>6 DEF Saving
<1> HIDE DEF save
<1>8. saving'[i] = save /\ saving' \in [Instance -> Saving]
      /\ \A j \in Instance : j # i => saving'[j] = saving[j]
  BY <1>1, <1>4, <1>7
<1> QED BY <1>4, <1>5, <1>6, <1>7, <1>8 DEF runs

\* What a prepared save is: sound, it continues what the instance last read or wrote, and
\* says of the account what it saw or what was said before.
Saved(i) == /\ SoundDoc(saving'[i].next) /\ saving'[i].cause # "none"
            /\ Continues(seen[i], saving'[i].next) /\ Attested(saving'[i], seen[i])

\* A save of what a run goes on to.
LEMMA SavedFacts ==
    ASSUME TypeInv, SoundInv, MemInv, NEW i \in Instance, NEW cause \in Cause \ {"none", "begin"},
           NEW r \in RunId, NEW run \in Run, NEW obs \in Observation,
           Save(i, cause, r, run, obs), mem[i].runs[r].born # 0, Goes(mem[i].runs[r], run),
           run.login # "none" =>
              run.login = IF /\ cause = "verify" /\ run.status # "TimedOut"
                             /\ mem[i].runs[r].status \notin Final
                          THEN obs ELSE mem[i].runs[r].login
    PROVE  /\ Saved(i)
           /\ \A x \in RunId : saving'[i].next.runs[x] = IF x = r THEN run ELSE mem[i].runs[x]
           /\ \A x \in RunId : saving'[i].next.runs[x].born = mem[i].runs[x].born
<1> DEFINE s == saving'[i]
<1>1. /\ s.cause = cause /\ s.run = r /\ s.obs = obs
      /\ \A x \in RunId : s.next.runs[x] = IF x = r THEN run ELSE mem[i].runs[x]
      /\ mem[i].runs[r] = run /\ run.status \in Final => s.next = mem[i]
      /\ s.next = mem[i] \/ s.next.stamp = mem[i].stamp + 1
      /\ thread[i] # Closed /\ ~recovery[i] /\ s.next \in Doc
  BY SaveFacts DEF Saving
<1>2. mem[i] = seen[i] /\ mem[i] \in Doc /\ mem[i].stamp \in Nat
  BY <1>1 DEF MemInv, MemAt, TypeInv, Doc
<1>3. SoundDoc(mem[i])
  BY DEF SoundInv, SoundAt
<1> HIDE DEF s
<1>4. mem[i].stamp \leq s.next.stamp
  BY <1>1, <1>2
<1>5. mem[i].runs[r] # NoRun
  BY EmptyFacts
<1>6. /\ SoundDoc(s.next) /\ Continues(seen[i], s.next)
      /\ \A x \in RunId : s.next.runs[x].born = mem[i].runs[x].born
  BY <1>1, <1>2, <1>3, <1>4, <1>5, GoesOn
<1>7. ASSUME NEW x \in RunId, s.next.runs[x].login # "none"
      PROVE  s.next.runs[x].login = IF Probing(s, x, seen[i]) THEN s.obs
                                                              ELSE seen[i].runs[x].login
  <2>1. CASE x # r
    BY <1>1, <1>2, <2>1 DEF Probing
  <2>2. CASE x = r /\ Probing(s, x, seen[i])
    <3>1. cause = "verify" /\ run.status # "TimedOut" /\ s.next # seen[i]
      BY <1>1, <2>2 DEF Probing
    <3>2. mem[i].runs[r].status \notin Final
      BY <1>1, <1>2, <3>1 DEF Goes, Keeps
    <3> QED BY <1>1, <1>7, <2>2, <3>1, <3>2
  <2>3. CASE x = r /\ ~Probing(s, x, seen[i])
    <3>1. s.next = seen[i] \/ cause # "verify" \/ run.status = "TimedOut"
      BY <1>1, <2>3 DEF Probing
    <3> QED BY <1>1, <1>2, <1>7, <2>3, <3>1
  <2> QED BY <2>1, <2>2, <2>3
<1>8. Attested(s, seen[i])
  BY <1>7 DEF Attested
<1> QED BY <1>1, <1>6, <1>8 DEF s, Saved

\* A save of a run that begins.
LEMMA BegunSaved ==
    ASSUME TypeInv, SoundInv, MemInv, NEW i \in Instance, NEW r \in RunId, NEW run \in Run,
           NEW obs \in Observation, Save(i, "begin", r, run, obs), mem[i].runs[r] = NoRun,
           Sound(run), run.login = "none", run.born = mem[i].stamp + 1
    PROVE  Saved(i) /\ saving'[i].next.runs[r] = run
<1> DEFINE s == saving'[i]
<1>1. mem[i] \in Doc /\ mem[i].stamp \in Nat /\ SoundDoc(mem[i]) /\ Dated(mem[i])
  BY DEF TypeInv, Doc, SoundInv, SoundAt, SoundDoc
<1>2. run # NoRun /\ "begin" \in Cause
  BY <1>1, EmptyFacts DEF Cause
<1>3. /\ s.cause = "begin" /\ s.next.stamp = mem[i].stamp + 1 /\ s.next \in Doc
      /\ \A x \in RunId : s.next.runs[x] = IF x = r THEN run ELSE Truncated(mem[i].runs)[x]
      /\ thread[i] # Closed /\ ~recovery[i]
  BY <1>2, SaveFacts DEF Saving
<1>4. mem[i] = seen[i]
  BY <1>3 DEF MemInv, MemAt
<1> HIDE DEF s
<1>5. SoundDoc(s.next) /\ Continues(seen[i], s.next)
  BY <1>1, <1>3, <1>4, BeginsOn
<1>6. \A x \in RunId : Truncated(mem[i].runs)[x] \in {mem[i].runs[x], NoRun}
  BY <1>1, TruncatedFacts
<1>7. Attested(s, seen[i])
  BY <1>3, <1>4, <1>6, EmptyFacts DEF Attested, Probing
<1> QED BY <1>3, <1>5, <1>7 DEF s, Saved

\* The launches that are over when a save has ended.
LEMMA RestStep ==
    ASSUME TypeInv, Rest
    PROVE  \A j \in Instance :
              /\ launch'[j] \in Launching
              /\ \/ launch'[j] = launch[j]
                 \/ launch'[j] = Resting /\ thread'[j].at \notin {"begin", "launch"}
BY RestFacts DEF TypeInv, Rest

\* A replacement writes the saved history; unless it meets another's, it continues what
\* was there, and what it says of an account was seen by the recorded probe.
LEMMA ReplaceFacts ==
    ASSUME TypeInv, SaveInv, ProbedInv, NEW i \in Instance, saving[i] # NoSave,
           now \in Time, Replace(i)
    PROVE  /\ disk' = saving[i].next /\ disk' \in Doc /\ overlap' \in BOOLEAN
           /\ probed' \in [RunId -> [obs : Observation, time : Time]]
           /\ ~overlap' => /\ ~overlap /\ Continues(disk, disk')
           /\ ProbedInv'
<1> DEFINE save == saving[i]
<1>1. /\ save \in Saving /\ probed \in [RunId -> [obs : Observation, time : Time]]
      /\ overlap \in BOOLEAN
  BY DEF TypeInv
<1>2. save.next \in Doc /\ save.run \in RunId \cup {"none"} /\ save.obs \in Observation
  BY <1>1 DEF Saving
<1>3. disk' = save.next
  BY DEF Replace
<1>4. overlap' = (overlap \/ ~(disk = seen[i]))
  BY DEF Replace, Unchanged
<1>5. overlap' \in BOOLEAN /\ (~overlap' => ~overlap /\ disk = seen[i])
  BY <1>1, <1>4
<1>6. ~overlap' => Continues(disk, disk')
  BY <1>3, <1>5 DEF SaveInv, SaveAt
<1>7. probed' \in [RunId -> [obs : Observation, time : Time]]
  <2>1. [obs |-> save.obs, time |-> now] \in [obs : Observation, time : Time]
    BY <1>2
  <2> QED BY <1>1, <2>1 DEF Replace
<1>8. ASSUME ~overlap', NEW x \in RunId, disk'.runs[x].login # "none"
      PROVE  probed'[x].obs = disk'.runs[x].login
  <2>1. /\ disk = seen[i] /\ ~overlap /\ Attested(save, disk)
    BY <1>5, <1>8 DEF SaveInv, SaveAt
  <2>2. disk'.runs[x].login = IF Probing(save, x, disk) THEN save.obs ELSE disk.runs[x].login
    BY <1>3, <1>8, <2>1 DEF Attested
  <2>3. CASE Probing(save, x, disk)
    <3>1. /\ save.cause = "verify" /\ x = save.run /\ disk' # disk
          /\ save.next.runs[save.run].status # "TimedOut"
      BY <1>3, <2>3 DEF Probing
    <3>2. probed' = [probed EXCEPT ![x] = [obs |-> save.obs, time |-> now]]
      BY <3>1 DEF Replace
    <3> QED BY <1>1, <2>2, <2>3, <3>2
  <2>4. CASE ~Probing(save, x, disk)
    <3>1. probed'[x] = probed[x]
      BY <1>1, <1>3, <2>4 DEF Replace, Probing
    <3>2. disk'.runs[x].login = disk.runs[x].login
      BY <2>2, <2>4
    <3> QED BY <1>8, <2>1, <3>1, <3>2 DEF ProbedInv
  <2> QED BY <2>3, <2>4
<1>9. ProbedInv'
  BY <1>8 DEF ProbedInv
<1> QED BY <1>3, <1>5, <1>6, <1>7, <1>9, <1>2

\* A step that continues the history on disk, unless two instances saved at once.
KeepsDisk == ~overlap' => ~overlap /\ Continues(disk, disk')

\* A step that leaves the history on disk alone.
LEMMA DiskStill ==
    ASSUME TypeInv, ProbedInv, UNCHANGED <<disk, probed, overlap>>
    PROVE  KeepsDisk /\ ProbedInv'
<1>1. Continues(disk, disk)
  BY ContinuesItself DEF TypeInv
<1> QED BY <1>1 DEF KeepsDisk, ProbedInv

\* What a step makes of the history on disk continues it, and says of an account what
\* the recorded probe saw, unless two instances saved at once.
LEMMA DiskStep == ASSUME TypeInv, SaveInv, ProbedInv, [LNext]_lvars PROVE KeepsDisk /\ ProbedInv'
<1>1. ASSUME TickPlans PROVE KeepsDisk /\ ProbedInv'
  BY <1>1, DiskStill DEF TickPlans, Tick, mems
<1>2. ASSUME Change PROVE KeepsDisk /\ ProbedInv'
  BY <1>2, DiskStill DEF Change, mems
<1>3. ASSUME NEW i \in Instance, Open(i),
             UNCHANGED <<machine, plans, launch, opened, left>>
           PROVE KeepsDisk /\ ProbedInv'
  BY <1>3, DiskStill DEF Open, mems
<1>4. ASSUME NEW i \in Instance, OpenUnread(i), UNCHANGED <<machine, plans, launch, opened,
           left>> PROVE KeepsDisk /\ ProbedInv'
  BY <1>4, DiskStill DEF OpenUnread, mems
<1>5. ASSUME NEW i \in Instance, NEW r \in RunId, Verify(i, r, machine.overridden), UNCHANGED
           <<machine, plans, launch, opened, left>> PROVE KeepsDisk /\ ProbedInv'
  BY <1>5, DiskStill DEF Verify, mems
<1>6. ASSUME NEW i \in Instance, NEW r \in RunId, Cancel(i, r), UNCHANGED <<machine, plans,
           launch, opened, left>> PROVE KeepsDisk /\ ProbedInv'
  BY <1>6, DiskStill DEF Cancel, mems
<1>7. ASSUME NEW i \in Instance, NEW obs \in Observation, Answer(i, obs), UNCHANGED <<machine,
           plans, launch, opened, left>> PROVE KeepsDisk /\ ProbedInv'
  BY <1>7, DiskStill DEF Answer, mems
<1>8. ASSUME NEW i \in Instance, CheckSave(i), Rest, UNCHANGED <<machine, plans, opened, left>>
           PROVE KeepsDisk /\ ProbedInv'
  BY <1>8, DiskStill DEF CheckSave, mems
<1>9. ASSUME NEW i \in Instance, CommitSave(i), Rest, UNCHANGED <<machine, plans, opened, left>>
           PROVE KeepsDisk /\ ProbedInv'
  <2>1. saving[i] # NoSave
    BY <1>9, EmptyFacts DEF CommitSave
  <2>2. now \in Time
    BY DEF TypeInv
  <2>3. CASE Replace(i)
    BY <2>1, <2>2, <2>3, ReplaceFacts DEF KeepsDisk
  <2>4. CASE UNCHANGED <<disk, probed, overlap>>
    BY <2>4, DiskStill
  <2> QED BY <1>9, <2>3, <2>4 DEF CommitSave
<1>10. ASSUME NEW i \in Instance, FinishPlan(i) PROVE KeepsDisk /\ ProbedInv'
  BY <1>10, DiskStill DEF FinishPlan, Finish, mems
<1>11. ASSUME NEW i \in Instance, CrashPlans(i) PROVE KeepsDisk /\ ProbedInv'
  BY <1>11, DiskStill DEF CrashPlans, Crash, mems
<1>12. ASSUME NEW i \in Instance, NEW wanted \in Requests, Preview(i, wanted) PROVE KeepsDisk /\
           ProbedInv'
  BY <1>12, DiskStill DEF Preview, mems, vars
<1>13. ASSUME NEW i \in Instance, NEW p \in plans[i], NEW r \in RunId, ApplyPlan(i, p, r) PROVE
           KeepsDisk /\ ProbedInv'
  BY <1>13, DiskStill DEF ApplyPlan, Apply, mems, vars
<1>14. ASSUME NEW i \in Instance, NEW s \in Surface, OpenClient(i, s) PROVE KeepsDisk /\
           ProbedInv'
  BY <1>14, DiskStill DEF OpenClient, mems
<1>15. ASSUME UNCHANGED lvars PROVE KeepsDisk /\ ProbedInv'
  BY <1>15, DiskStill DEF vars, lvars, mems
<1> QED BY <1>1, <1>2, <1>3, <1>4, <1>5, <1>6, <1>7, <1>8, <1>9, <1>10, <1>11, <1>12, <1>13,
           <1>14, <1>15 DEF LNext, RunStep, SaveStep

-----------------------------------------------------------------------------
(***************************************************************************)
(* One instance moves: its histories, its thread, its save.                *)
(***************************************************************************)
Typed ==
    /\ mem \in [Instance -> Doc] /\ seen \in [Instance -> Doc]
    /\ recovery \in [Instance -> BOOLEAN]
    /\ thread \in [Instance -> [at : Label, run : RunId \cup {"none"}]]
    /\ saving \in [Instance -> Saving]
Good(i) == SoundAt(i) /\ SaveAt(i) /\ LabelAt(i) /\ MemAt(i)
Same(i) == /\ mem'[i] = mem[i] /\ seen'[i] = seen[i] /\ recovery'[i] = recovery[i]
           /\ thread'[i] = thread[i] /\ saving'[i] = saving[i]
Moves(i) == Typed' /\ Good(i)' /\ \A j \in Instance : j # i => Same(j)

\* What holds of every instance, and stays true of those that do not move.
LEMMA GoodFacts ==
    ASSUME TypeInv, SoundInv, SaveInv, LabelInv, MemInv
    PROVE  /\ Typed /\ \A i \in Instance : Good(i)
           /\ \A i \in Instance : Same(i) => Good(i)'
<1>1. Typed /\ \A i \in Instance : Good(i)
  BY DEF TypeInv, Typed, SoundInv, SaveInv, LabelInv, MemInv, Good
<1>2. ASSUME NEW i \in Instance, Same(i) PROVE Good(i)'
  BY <1>1, <1>2 DEF Same, Good, SoundAt, SaveAt, LabelAt, MemAt, Attested, Probing
<1> QED BY <1>1, <1>2

\* The history is opened: abandoned runs are marked, and saved.
LEMMA OpenMoves ==
    ASSUME TypeInv, SoundInv, SaveInv, LabelInv, MemInv, NEW i \in Instance, Open(i)
    PROVE  Moves(i) /\ (thread'[i] = Idle \/ thread'[i] = Closed)
<1> DEFINE runs   == [r \in RunId |-> Marked(disk.runs[r])]
           marked == [runs |-> runs, stamp |-> disk.stamp + 1]
           save   == [NoSave EXCEPT !.cause = "open", !.next = marked]
           s1     == [NoSave EXCEPT !.cause = "open"]
           s2     == [s1 EXCEPT !.next = marked]
<1>1. disk \in Doc /\ disk.runs \in [RunId -> Run] /\ disk.stamp \in Nat /\ now \in Time
  BY DEF TypeInv, Doc
<1>2. SoundDoc(disk)
  BY DEF SoundInv
<1>3. \A x \in RunId : /\ Goes(disk.runs[x], runs[x])
                       /\ disk.runs[x] = NoRun => runs[x] = disk.runs[x]
                       /\ runs[x].login = disk.runs[x].login
  BY <1>1, <1>2, MarkedFacts, EmptyFacts DEF SoundDoc, Marked, Abandoned
<1>4. /\ thread[i] = Closed /\ saving[i] = NoSave
      /\ \/ runs = disk.runs /\ mem' = [mem EXCEPT ![i] = disk]
            /\ thread' = [thread EXCEPT ![i] = Idle] /\ UNCHANGED saving
         \/ mem' = [mem EXCEPT ![i] = marked] /\ saving' = [saving EXCEPT ![i] = save]
            /\ UNCHANGED thread
      /\ seen' = [seen EXCEPT ![i] = disk] /\ recovery' = [recovery EXCEPT ![i] = FALSE]
  BY DEF Open, Marked, Abandoned
<1> HIDE DEF runs
<1>5. runs \in [RunId -> Run]
  BY <1>3 DEF Goes, runs
<1>6. marked \in Doc /\ marked.runs = runs /\ disk.stamp \leq marked.stamp
  BY <1>1, <1>5 DEF Doc
<1> HIDE DEF marked
<1>7. SoundDoc(marked) /\ Continues(disk, marked)
  BY <1>1, <1>2, <1>3, <1>6, GoesOn
<1>8. s1 \in Saving /\ s1.cause = "open"
  BY EmptyFacts DEF Saving, Cause
<1> HIDE DEF s1
<1>9. s2 \in Saving /\ s2.cause = "open" /\ s2.next = marked
  BY <1>6, <1>8 DEF Saving
<1>10. save = s2
  BY DEF s1
<1> HIDE DEF s2, save
<1>11. Attested(s2, disk)
  BY <1>3, <1>6, <1>9 DEF Attested, Probing
<1>12. s2 # NoSave
  BY <1>9, EmptyFacts
<1>13. Typed /\ Good(i)
  BY GoodFacts
<1>14. CASE /\ mem' = [mem EXCEPT ![i] = disk]
            /\ thread' = [thread EXCEPT ![i] = Idle] /\ UNCHANGED saving
  <2>1. /\ mem'[i] = disk /\ seen'[i] = disk /\ recovery'[i] = FALSE /\ thread'[i] = Idle
        /\ saving'[i] = NoSave
    BY <1>4, <1>13, <1>14 DEF Typed
  <2>2. Typed' /\ \A j \in Instance : j # i => Same(j)
    BY <1>1, <1>4, <1>13, <1>14, RestFacts DEF Typed, Same
  <2>3. SoundAt(i)' /\ SaveAt(i)'
    BY <1>2, <2>1, EmptyFacts DEF SoundAt, SaveAt
  <2>4. LabelAt(i)' /\ MemAt(i)'
    BY <2>1, EmptyFacts, RestFacts DEF LabelAt, MemAt
  <2> QED BY <2>1, <2>2, <2>3, <2>4 DEF Moves, Good
<1>15. CASE /\ mem' = [mem EXCEPT ![i] = marked] /\ saving' = [saving EXCEPT ![i] = s2]
            /\ UNCHANGED thread
  <2>1. /\ mem'[i] = marked /\ seen'[i] = disk /\ recovery'[i] = FALSE
        /\ thread'[i] = Closed /\ saving'[i] = s2
    BY <1>4, <1>13, <1>15 DEF Typed
  <2>2. Typed' /\ \A j \in Instance : j # i => Same(j)
    BY <1>1, <1>4, <1>6, <1>9, <1>13, <1>15 DEF Typed, Same
  <2>3. SoundAt(i)' /\ SaveAt(i)'
    BY <1>2, <1>7, <1>9, <1>11, <2>1 DEF SoundAt, SaveAt
  <2>4. LabelAt(i)'
    BY <1>9, <2>1, RestFacts DEF LabelAt
  <2>5. MemAt(i)'
    BY <1>3, <1>6, <1>9, <2>1 DEF MemAt
  <2> QED BY <2>1, <2>2, <2>3, <2>4, <2>5 DEF Moves, Good
<1> QED BY <1>4, <1>10, <1>14, <1>15

\* The history cannot be read.
LEMMA UnreadMoves ==
    ASSUME TypeInv, SoundInv, SaveInv, LabelInv, MemInv, NEW i \in Instance, OpenUnread(i)
    PROVE  Moves(i) /\ thread'[i] = Idle
<1>1. Typed /\ Good(i)
  BY GoodFacts
<1>2. /\ mem'[i] = Empty /\ seen'[i] = Empty /\ recovery'[i] = TRUE /\ thread'[i] = Idle
      /\ saving'[i] = NoSave
  BY <1>1 DEF OpenUnread, Typed
<1>3. Typed' /\ \A j \in Instance : j # i => Same(j)
  BY <1>1, EmptyFacts, RestFacts DEF OpenUnread, Typed, Same
<1>4. SoundAt(i)' /\ SaveAt(i)'
  BY <1>2, EmptyFacts DEF SoundAt, SaveAt
<1>5. LabelAt(i)' /\ MemAt(i)'
  BY <1>2, EmptyFacts, RestFacts DEF LabelAt, MemAt
<1> QED BY <1>2, <1>3, <1>4, <1>5 DEF Moves, Good

\* A thread starts a probe, or skips it.
LEMMA VerifyMoves ==
    ASSUME TypeInv, SoundInv, SaveInv, LabelInv, MemInv, NEW i \in Instance, NEW r \in RunId,
           NEW overridden, Verify(i, r, overridden)
    PROVE  Moves(i) /\ thread'[i].at \in {"probe", "skip"}
<1>1. Typed /\ Good(i)
  BY GoodFacts
<1>2. PICK at \in {"probe", "skip"} : thread' = [thread EXCEPT ![i] = [at |-> at, run |-> r]]
  BY DEF Verify
<1>3. [at |-> at, run |-> r] \in [at : Label, run : RunId \cup {"none"}]
  BY DEF Label
<1>4. /\ thread'[i].at \in {"probe", "skip"} /\ thread'[i].run = r
      /\ thread[i] = Idle /\ saving[i] = NoSave
      /\ mem[i].runs[r] # NoRun
      /\ UNCHANGED <<mem, seen, recovery, saving>>
  BY <1>1, <1>2 DEF Typed, Verify, Free, mems
<1>5. Typed' /\ \A j \in Instance : j # i => Same(j)
  BY <1>1, <1>2, <1>3, <1>4 DEF Typed, Same
<1>6. SoundAt(i)' /\ SaveAt(i)'
  BY <1>1, <1>4 DEF SoundAt, SaveAt, Good
<1>7. mem[i].runs[r].born # 0
  BY <1>1, <1>4 DEF Good, SoundAt, SoundDoc, Dated
<1>8. LabelAt(i)'
  BY <1>1, <1>4, <1>7, EmptyFacts, RestFacts DEF LabelAt, Good
<1>9. MemAt(i)'
  BY <1>1, <1>4, EmptyFacts, RestFacts DEF MemAt, Good
<1> QED BY <1>4, <1>5, <1>6, <1>8, <1>9 DEF Moves, Good

\* A process dies.
LEMMA CrashMoves ==
    ASSUME TypeInv, SoundInv, SaveInv, LabelInv, MemInv, NEW i \in Instance, Crash(i)
    PROVE  Moves(i) /\ thread'[i] = Closed
<1>1. Typed /\ Good(i)
  BY GoodFacts
<1>2. /\ thread'[i] = Closed /\ saving'[i] = NoSave /\ UNCHANGED <<mem, seen, recovery>>
  BY <1>1 DEF Typed, Crash, mems
<1>3. Typed' /\ \A j \in Instance : j # i => Same(j)
  BY <1>1, EmptyFacts, RestFacts DEF Crash, mems, Typed, Same
<1>4. SoundAt(i)' /\ SaveAt(i)'
  BY <1>1, <1>2, EmptyFacts DEF SoundAt, SaveAt, Good
<1>5. LabelAt(i)' /\ MemAt(i)'
  BY <1>2, EmptyFacts, RestFacts DEF LabelAt, MemAt
<1> QED BY <1>2, <1>3, <1>4, <1>5 DEF Moves, Good

\* A save is prepared, by a thread that is labelled for it.
LEMMA SaveMoves ==
    ASSUME TypeInv, SoundInv, SaveInv, LabelInv, MemInv, NEW i \in Instance,
           NEW cause \in Cause \ {"none", "open"}, NEW r \in RunId, NEW run \in Run,
           NEW obs \in Observation, Save(i, cause, r, run, obs), UNCHANGED mems, Saved(i),
           cause = "cancel" =>
              \A x \in RunId : saving'[i].next.runs[x].born = mem[i].runs[x].born,
           thread' \in [Instance -> [at : Label, run : RunId \cup {"none"}]],
           \A j \in Instance : j # i => thread'[j] = thread[j],
           thread'[i].at # "closed",
           thread'[i].at \in {"probe", "skip"} =>
              thread'[i].run \in RunId /\ mem[i].runs[thread'[i].run].born # 0,
           \A l \in {"begin", "finish", "verify"} : thread'[i].at = l <=> cause = l
    PROVE  Moves(i)
<1>1. Typed /\ Good(i)
  BY GoodFacts
<1>2. /\ saving[i] = NoSave /\ thread[i] # Closed /\ ~recovery[i]
      /\ saving' \in [Instance -> Saving]
      /\ \A j \in Instance : j # i => saving'[j] = saving[j]
      /\ saving'[i].cause = cause /\ saving'[i].run = r
  BY SaveFacts
<1>3. UNCHANGED <<mem, seen, recovery>>
  BY DEF mems
<1>4. Typed' /\ \A j \in Instance : j # i => Same(j)
  BY <1>1, <1>2, <1>3 DEF Typed, Same
<1>5. SoundAt(i)' /\ SaveAt(i)'
  BY <1>1, <1>3 DEF SoundAt, SaveAt, Good, Saved
<1>6. LabelAt(i)'
  BY <1>2, <1>3, RestFacts DEF LabelAt
<1>7. MemAt(i)'
  BY <1>1, <1>2, <1>3 DEF MemAt, Good
<1> QED BY <1>4, <1>5, <1>6, <1>7 DEF Moves, Good

\* A save is refused.
LEMMA RefuseMoves ==
    ASSUME TypeInv, SoundInv, SaveInv, LabelInv, MemInv, NEW i \in Instance,
           saving[i] # NoSave, Refuse(i), UNCHANGED seen
    PROVE  /\ Moves(i) /\ mem'[i] = mem[i] /\ saving'[i] = NoSave
           /\ thread'[i] = IF saving[i].cause = "cancel" THEN thread[i] ELSE Idle
<1>1. Typed /\ Good(i)
  BY GoodFacts
<1>2. /\ mem'[i] = mem[i] /\ saving'[i] = NoSave
      /\ thread'[i] = IF saving[i].cause = "cancel" THEN thread[i] ELSE Idle
  BY <1>1 DEF Typed, Refuse, Restored
<1>3. recovery'[i] = (recovery[i] \/ saving[i].cause = "open")
  BY <1>1 DEF Typed, Refuse
<1>4. \A b \in BOOLEAN, c \in BOOLEAN : (b \/ c) \in BOOLEAN
  OBVIOUS
<1>5. recovery' \in [Instance -> BOOLEAN]
  <2>1. recovery[i] \in BOOLEAN /\ (saving[i].cause = "open") \in BOOLEAN
    BY <1>1 DEF Typed
  <2>2. (recovery[i] \/ saving[i].cause = "open") \in BOOLEAN
    BY <2>1, <1>4
  <2> QED BY <1>1, <2>2 DEF Typed, Refuse
<1>6. Typed' /\ \A j \in Instance : j # i => Same(j)
  BY <1>1, <1>5, EmptyFacts, RestFacts DEF Refuse, Restored, Typed, Same
<1>7. SoundAt(i)' /\ SaveAt(i)'
  BY <1>1, <1>2, EmptyFacts DEF SoundAt, SaveAt, Good
<1>8. LabelAt(i)'
  BY <1>1, <1>2, EmptyFacts, RestFacts DEF LabelAt, Good
<1>9. MemAt(i)'
  <2>1. recovery'[i] \/ (saving[i].cause # "open" /\ ~recovery[i])
    BY <1>3
  <2>2. saving[i].cause # "open" => thread[i] # Closed
    BY <1>1 DEF Good, LabelAt
  <2>3. \A x \in RunId : mem'[i].runs[x].login = seen'[i].runs[x].login
    BY <1>1, <1>2, <2>2 DEF Good, MemAt
  <2>4. ~recovery'[i] => mem'[i] = seen'[i]
    BY <1>1, <1>2, <2>1, <2>2 DEF Good, MemAt
  <2> QED BY <1>2, <2>3, <2>4, EmptyFacts DEF MemAt
<1> QED BY <1>2, <1>6, <1>7, <1>8, <1>9 DEF Moves, Good

\* A save was compared with the file, and goes on.
Compared(i) == /\ saving' = [saving EXCEPT ![i].checked = TRUE]
               /\ UNCHANGED <<mem, seen, recovery, thread>>

\* A save that was compared is as good as it was.
LEMMA ComparedMoves ==
    ASSUME TypeInv, SoundInv, SaveInv, LabelInv, MemInv, NEW i \in Instance,
           saving[i] # NoSave, Compared(i)
    PROVE  /\ Moves(i) /\ saving'[i].next = saving[i].next
           /\ UNCHANGED <<mem, thread>>
<1> DEFINE save == [saving[i] EXCEPT !.checked = TRUE]
<1>1. Typed /\ Good(i)
  BY GoodFacts
<1>2. saving[i] \in Saving /\ saving' = [saving EXCEPT ![i] = save]
  BY <1>1 DEF Typed, Compared
<1>3. /\ save \in Saving /\ save.cause = saving[i].cause /\ save.run = saving[i].run
      /\ save.obs = saving[i].obs /\ save.next = saving[i].next
  BY <1>2 DEF Saving
<1> HIDE DEF save
<1>4. saving'[i] = save /\ UNCHANGED <<mem, seen, recovery, thread>>
  BY <1>1, <1>2 DEF Typed, Compared
<1>5. Typed' /\ \A j \in Instance : j # i => Same(j)
  BY <1>1, <1>2, <1>3, <1>4 DEF Typed, Same
<1>6. SoundAt(i)'
  BY <1>1, <1>3, <1>4 DEF SoundAt, Good
<1>7. SaveAt(i)'
  BY <1>1, <1>3, <1>4 DEF SaveAt, Good, Attested, Probing
<1>8. LabelAt(i)'
  <2>1. thread[i] = Closed => saving[i].cause = "open"
    BY <1>1 DEF Good, LabelAt
  <2> QED BY <1>1, <1>3, <1>4, <2>1 DEF LabelAt, Good
<1>9. MemAt(i)'
  BY <1>1, <1>3, <1>4 DEF MemAt, Good
<1> QED BY <1>3, <1>4, <1>5, <1>6, <1>7, <1>8, <1>9 DEF Moves, Good

\* A save has replaced the file.
Replaced(i) ==
    /\ mem' = [mem EXCEPT ![i] = saving[i].next] /\ seen' = [seen EXCEPT ![i] = saving[i].next]
    /\ saving' = [saving EXCEPT ![i] = NoSave]
    /\ thread' = [thread EXCEPT ![i] = CASE saving[i].cause = "begin" -> [@ EXCEPT !.at = "launch"]
                                         [] saving[i].cause = "cancel" -> @
                                         [] saving[i].cause \notin {"begin", "cancel"} -> Idle]
    /\ UNCHANGED recovery

\* An instance whose save has replaced the file works with what it wrote.
LEMMA ReplacedMoves ==
    ASSUME TypeInv, SoundInv, SaveInv, LabelInv, MemInv, NEW i \in Instance,
           saving[i] # NoSave, Replaced(i)
    PROVE  /\ Moves(i) /\ mem'[i] = saving[i].next /\ saving'[i] = NoSave
           /\ \/ /\ saving[i].cause = "begin" /\ thread'[i].at = "launch"
                 /\ thread'[i].run = thread[i].run
              \/ saving[i].cause = "cancel" /\ thread'[i] = thread[i]
              \/ thread'[i] = Idle
<1> DEFINE begun == [thread[i] EXCEPT !.at = "launch"]
           next  == CASE saving[i].cause = "begin" -> begun
                      [] saving[i].cause = "cancel" -> thread[i]
                      [] saving[i].cause \notin {"begin", "cancel"} -> Idle
<1>1. Typed /\ Good(i)
  BY GoodFacts
<1>2. /\ begun \in [at : Label, run : RunId \cup {"none"}]
      /\ begun.at = "launch" /\ begun.run = thread[i].run
  BY <1>1 DEF Typed, Label
<1>3. thread' = [thread EXCEPT ![i] = next]
  BY <1>1 DEF Replaced, Typed
<1> HIDE DEF begun
<1>4. /\ next \in [at : Label, run : RunId \cup {"none"}]
      /\ \/ saving[i].cause = "begin" /\ next = begun
         \/ saving[i].cause = "cancel" /\ next = thread[i]
         \/ next = Idle
  BY <1>1, <1>2, RestFacts DEF Typed
<1> HIDE DEF next
<1>5. saving[i].next \in Doc
  BY <1>1 DEF Typed, Saving
<1>6. /\ mem'[i] = saving[i].next /\ seen'[i] = saving[i].next /\ saving'[i] = NoSave
      /\ thread'[i] = next
  BY <1>1, <1>3 DEF Replaced, Typed
<1>7. Typed' /\ \A j \in Instance : j # i => Same(j)
  BY <1>1, <1>3, <1>4, <1>5, EmptyFacts DEF Replaced, Typed, Same
<1>8. SoundAt(i)' /\ SaveAt(i)'
  BY <1>1, <1>6, EmptyFacts DEF SoundAt, SaveAt, Good
<1>9. LabelAt(i)'
  BY <1>1, <1>2, <1>4, <1>6, EmptyFacts, RestFacts DEF LabelAt, Good
<1>10. MemAt(i)'
  BY <1>6, EmptyFacts DEF MemAt
<1> QED BY <1>2, <1>4, <1>6, <1>7, <1>8, <1>9, <1>10 DEF Moves, Good

\* A save moves on: it is compared, refused, or has replaced the file.
LEMMA CheckMoves ==
    ASSUME TypeInv, SoundInv, SaveInv, LabelInv, MemInv, NEW i \in Instance,
           CheckSave(i) \/ CommitSave(i)
    PROVE  /\ Moves(i) /\ saving[i] # NoSave
           /\ \/ Compared(i) /\ UNCHANGED <<disk, overlap>>
              \/ Refuse(i) /\ UNCHANGED seen
              \/ Replaced(i) /\ Replace(i)
<1>1. saving[i] # NoSave
  BY EmptyFacts DEF CheckSave, CommitSave
<1>2. \/ Compared(i) /\ UNCHANGED <<disk, overlap>>
      \/ Refuse(i) /\ UNCHANGED seen
      \/ Replaced(i) /\ Replace(i)
  BY DEF CheckSave, CommitSave, Compared, Replaced
<1> QED BY <1>1, <1>2, ComparedMoves, RefuseMoves, ReplacedMoves

\* A run is cancelled; one that is in progress is not.
LEMMA CancelMoves ==
    ASSUME TypeInv, SoundInv, SaveInv, LabelInv, MemInv, NEW i \in Instance, NEW r \in RunId,
           Cancel(i, r)
    PROVE  /\ Moves(i) /\ UNCHANGED <<mem, thread>>
           /\ \A x \in RunId : mem[i].runs[x].status = "InProgress"
                                  => saving'[i].next.runs[x] = mem[i].runs[x]
<1> DEFINE run == CancelRun(mem[i].runs[r])
<1>1. Typed /\ Good(i) /\ now \in Time
  BY GoodFacts DEF TypeInv
<1>2. mem[i].runs[r] \in Run /\ Sound(mem[i].runs[r])
  BY <1>1 DEF Typed, Doc, Good, SoundAt, SoundDoc
<1>3. Goes(mem[i].runs[r], run) /\ run.login = mem[i].runs[r].login
  BY <1>1, <1>2, CancelFacts
<1>4. /\ Save(i, "cancel", r, run, "none") /\ UNCHANGED mems /\ UNCHANGED thread
      /\ mem[i].runs[r].status # "InProgress"
  BY DEF Cancel
<1> HIDE DEF run
<1>5. /\ run \in Run /\ "none" \in Observation
      /\ "cancel" \in Cause \ {"none", "open"} /\ "cancel" \in Cause \ {"none", "begin"}
  BY <1>3 DEF Goes, Observation, Cause
<1>a. mem[i].runs[r].born # 0
  BY <1>1 DEF Cancel, Good, SoundAt, SoundDoc, Dated
<1>b. /\ Saved(i)
      /\ \A x \in RunId : saving'[i].next.runs[x].born = mem[i].runs[x].born
      /\ \A x \in RunId : saving'[i].next.runs[x] = IF x = r THEN run ELSE mem[i].runs[x]
  BY <1>3, <1>4, <1>5, <1>a, SavedFacts
<1>6. /\ saving[i] = NoSave /\ thread[i] # Closed
  BY <1>4, <1>5, SaveFacts
<1>7. /\ thread'[i].at # "closed"
      /\ thread'[i].at \in {"probe", "skip"} =>
            thread'[i].run \in RunId /\ mem[i].runs[thread'[i].run].born # 0
      /\ \A l \in {"begin", "finish", "verify"} : thread'[i].at = l <=> "cancel" = l
  BY <1>1, <1>4, <1>6, EmptyFacts DEF Good, LabelAt
<1>8. /\ thread' \in [Instance -> [at : Label, run : RunId \cup {"none"}]]
      /\ \A j \in Instance : j # i => thread'[j] = thread[j]
  BY <1>1, <1>4 DEF Typed
<1>9. Moves(i)
  BY <1>4, <1>5, <1>7, <1>8, <1>b, SaveMoves
<1> QED BY <1>4, <1>9, <1>b DEF mems

\* A probe has answered.
LEMMA AnswerMoves ==
    ASSUME TypeInv, SoundInv, SaveInv, LabelInv, MemInv, NEW i \in Instance,
           NEW obs \in Observation, Answer(i, obs)
    PROVE  Moves(i) /\ thread'[i].at \in {"verify", "idle"}
<1> DEFINE r   == thread[i].run
           run == Reconcile(mem[i].runs[r], obs)
<1>1. Typed /\ Good(i) /\ now \in Time
  BY GoodFacts DEF TypeInv
<1>2. thread[i].at \in {"probe", "skip"} /\ UNCHANGED mems
  BY DEF Answer
<1>3. CASE Save(i, "verify", r, run, obs) /\ thread' = [thread EXCEPT ![i].at = "verify"]
  <2> HIDE DEF run
  <2>1. /\ thread' \in [Instance -> [at : Label, run : RunId \cup {"none"}]]
        /\ \A j \in Instance : j # i => thread'[j] = thread[j]
        /\ thread'[i].at = "verify"
    BY <1>1, <1>3 DEF Typed, Label
  <2>2. r \in RunId /\ mem[i].runs[r].born # 0
    BY <1>1, <1>2 DEF Good, LabelAt
  <2>3. mem[i].runs[r] \in Run /\ Sound(mem[i].runs[r])
    BY <1>1, <2>2 DEF Typed, Doc, Good, SoundAt, SoundDoc
  <2>4. /\ Goes(mem[i].runs[r], run)
        /\ run.login # "none" =>
              run.login = IF run.status = "TimedOut" \/ mem[i].runs[r].status \in Final
                          THEN mem[i].runs[r].login ELSE obs
    BY <1>1, <2>3, ReconcileFacts DEF run
  <2>5. /\ run \in Run
        /\ "verify" \in Cause \ {"none", "open"} /\ "verify" \in Cause \ {"none", "begin"}
    BY <2>4 DEF Goes, Cause
  <2>6. run.login # "none" =>
            run.login = IF /\ "verify" = "verify" /\ run.status # "TimedOut"
                           /\ mem[i].runs[r].status \notin Final
                        THEN obs ELSE mem[i].runs[r].login
    BY <2>4
  <2>7. Saved(i)
    BY <1>3, <2>2, <2>4, <2>5, <2>6, SavedFacts
  <2>8. Moves(i)
    BY <1>2, <1>3, <2>1, <2>2, <2>5, <2>7, SaveMoves
  <2> QED BY <2>1, <2>8
<1>4. CASE Free(i) /\ recovery[i] /\ thread' = [thread EXCEPT ![i] = Idle] /\ UNCHANGED saving
  <2>1. /\ thread'[i] = Idle /\ saving[i] = NoSave /\ thread[i] # Closed
        /\ UNCHANGED <<mem, seen, recovery, saving>>
    BY <1>1, <1>2, <1>4 DEF Typed, Free, mems
  <2>2. Typed' /\ \A j \in Instance : j # i => Same(j)
    BY <1>1, <1>4, <2>1, RestFacts DEF Typed, Same
  <2>3. SoundAt(i)' /\ SaveAt(i)'
    BY <1>1, <2>1 DEF SoundAt, SaveAt, Good
  <2>4. LabelAt(i)' /\ MemAt(i)'
    BY <1>1, <2>1, EmptyFacts, RestFacts DEF LabelAt, MemAt, Good
  <2> QED BY <2>1, <2>2, <2>3, <2>4, RestFacts DEF Moves, Good
<1> QED BY <1>3, <1>4 DEF Answer

\* The clients of a run were opened.
LEMMA FinishMoves ==
    ASSUME TypeInv, SoundInv, SaveInv, LabelInv, MemInv, LaunchInv, NEW i \in Instance,
           FinishPlan(i)
    PROVE  Moves(i) /\ thread'[i].at = "finish"
<1> DEFINE r     == thread[i].run
           steps == launch[i].steps
           run   == Launched(mem[i].runs[r], steps)
<1>1. Typed /\ Good(i) /\ now \in Time /\ launch[i] \in Launching
  BY GoodFacts DEF TypeInv
<1>2. /\ thread[i].at = "launch" /\ UNCHANGED mems
      /\ \A s \in DOMAIN launch[i].plan.operations : steps[s] # "none"
      /\ Save(i, "finish", r, run, "none") /\ thread' = [thread EXCEPT ![i].at = "finish"]
  BY DEF FinishPlan, Finish
<1>3. r \in RunId /\ OfPlan(mem[i].runs[r], launch[i].plan)
  BY <1>2 DEF LaunchInv, RecordedAt
<1>4. mem[i].runs[r] \in Run /\ Sound(mem[i].runs[r])
  BY <1>1, <1>3 DEF Typed, Doc, Good, SoundAt, SoundDoc
<1>5. /\ mem[i].runs[r].status = "InProgress" /\ steps \in [Surface -> StepStatus]
      /\ \A s \in Surface : mem[i].runs[r].steps[s] # "none" => steps[s] # "none"
      /\ mem[i].runs[r].born # 0
  BY <1>1, <1>2, <1>3 DEF OfPlan, Launching
<1> HIDE DEF steps
<1>6. Goes(mem[i].runs[r], run) /\ run.login = "none"
  BY <1>1, <1>4, <1>5, LaunchedFacts
<1> HIDE DEF run
<1>7. /\ run \in Run /\ "none" \in Observation
      /\ "finish" \in Cause \ {"none", "open"} /\ "finish" \in Cause \ {"none", "begin"}
  BY <1>6 DEF Goes, Observation, Cause
<1>8. /\ thread' \in [Instance -> [at : Label, run : RunId \cup {"none"}]]
      /\ \A j \in Instance : j # i => thread'[j] = thread[j]
      /\ thread'[i].at = "finish"
  BY <1>1, <1>2 DEF Typed, Label
<1>9. Saved(i)
  BY <1>2, <1>3, <1>5, <1>6, <1>7, SavedFacts
<1>10. Moves(i)
  BY <1>2, <1>3, <1>7, <1>8, <1>9, SaveMoves
<1> QED BY <1>8, <1>10

\* A run begins.
LEMMA ApplyMoves ==
    ASSUME TypeInv, SoundInv, SaveInv, LabelInv, MemInv, NEW i \in Instance, NEW r \in RunId,
           NEW surfaces \in SUBSET Surface, Apply(i, r, surfaces)
    PROVE  /\ Moves(i) /\ thread'[i].at = "begin" /\ thread'[i].run = r
           /\ saving'[i].next.runs[r] = Begun(surfaces, mem[i].stamp + 1)
           /\ mem[i].stamp \in Nat
<1> DEFINE run == Begun(surfaces, mem[i].stamp + 1)
<1>1. Typed /\ Good(i) /\ now \in Time
  BY GoodFacts DEF TypeInv
<1>2. /\ thread[i] = Idle /\ mem[i].runs[r] = NoRun /\ UNCHANGED mems
      /\ Save(i, "begin", r, run, "none")
      /\ thread' = [thread EXCEPT ![i] = [at |-> "begin", run |-> r]]
  BY DEF Apply, Begun
<1>3. mem[i].stamp \in Nat /\ mem[i].stamp + 1 \in Nat
  BY <1>1 DEF Typed, Doc
<1>4. run \in Run /\ Sound(run) /\ run.login = "none" /\ run.born = mem[i].stamp + 1
  BY <1>1, <1>3, BegunFacts
<1> HIDE DEF run
<1>5. "none" \in Observation /\ "begin" \in Cause \ {"none", "open"}
  BY DEF Observation, Cause
<1>6. /\ thread' \in [Instance -> [at : Label, run : RunId \cup {"none"}]]
      /\ \A j \in Instance : j # i => thread'[j] = thread[j]
      /\ thread'[i].at = "begin" /\ thread'[i].run = r
  BY <1>1, <1>2 DEF Typed, Label
<1>7. Saved(i) /\ saving'[i].next.runs[r] = run
  BY <1>2, <1>4, <1>5, BegunSaved
<1>8. Moves(i)
  BY <1>2, <1>4, <1>5, <1>6, <1>7, SaveMoves
<1> QED BY <1>3, <1>6, <1>7, <1>8 DEF run

\* When one instance moves, all that is true of the instances stays true.
LEMMA MovedFacts ==
    ASSUME TypeInv, SoundInv, SaveInv, LabelInv, MemInv, NEW i \in Instance, Moves(i)
    PROVE  Typed' /\ \A j \in Instance : Good(j)'
<1>1. ASSUME NEW j \in Instance PROVE Good(j)'
  <2>1. CASE j = i
    BY <2>1 DEF Moves
  <2>2. CASE j # i
    BY <2>2, GoodFacts DEF Moves
  <2> QED BY <2>1, <2>2
<1> QED BY <1>1 DEF Moves

\* When nothing of an instance changes, either.
LEMMA StillFacts ==
    ASSUME TypeInv, SoundInv, SaveInv, LabelInv, MemInv, UNCHANGED <<mems, thread, saving>>
    PROVE  Typed' /\ \A j \in Instance : Good(j)'
<1>1. UNCHANGED <<mem, seen, recovery, thread, saving>>
  BY DEF mems
<1>2. \A j \in Instance : Same(j)
  BY <1>1 DEF Same
<1>3. Typed'
  BY <1>1, GoodFacts DEF Typed
<1> QED BY <1>2, <1>3, GoodFacts

\* Every step keeps what is true of the instances.
LEMMA InstancesStep ==
    ASSUME TypeInv, SoundInv, SaveInv, LabelInv, MemInv, LaunchInv, [LNext]_lvars
    PROVE  Typed' /\ (\A j \in Instance : Good(j)')
<1>1. ASSUME TickPlans PROVE Typed' /\ (\A j \in Instance : Good(j)')
  BY <1>1, StillFacts DEF TickPlans, Tick
<1>2. ASSUME Change PROVE Typed' /\ (\A j \in Instance : Good(j)')
  BY <1>2, StillFacts DEF Change
<1>3. ASSUME NEW i \in Instance, Open(i),
             UNCHANGED <<machine, plans, launch, opened, left>>
           PROVE Typed' /\ (\A j \in Instance : Good(j)')
  BY <1>3, OpenMoves, MovedFacts
<1>4. ASSUME NEW i \in Instance, OpenUnread(i), UNCHANGED <<machine, plans, launch, opened,
           left>> PROVE Typed' /\ (\A j \in Instance : Good(j)')
  BY <1>4, UnreadMoves, MovedFacts
<1>5. ASSUME NEW i \in Instance, NEW r \in RunId, Verify(i, r, machine.overridden), UNCHANGED
           <<machine, plans, launch, opened, left>> PROVE Typed' /\ (\A j \in Instance :
           Good(j)')
  BY <1>5, VerifyMoves, MovedFacts
<1>6. ASSUME NEW i \in Instance, NEW r \in RunId, Cancel(i, r), UNCHANGED <<machine, plans,
           launch, opened, left>> PROVE Typed' /\ (\A j \in Instance : Good(j)')
  BY <1>6, CancelMoves, MovedFacts
<1>7. ASSUME NEW i \in Instance, NEW obs \in Observation, Answer(i, obs), UNCHANGED <<machine,
           plans, launch, opened, left>> PROVE Typed' /\ (\A j \in Instance : Good(j)')
  BY <1>7, AnswerMoves, MovedFacts
<1>8. ASSUME NEW i \in Instance, CheckSave(i), Rest, UNCHANGED <<machine, plans, opened, left>>
           PROVE Typed' /\ (\A j \in Instance : Good(j)')
  BY <1>8, CheckMoves, MovedFacts
<1>9. ASSUME NEW i \in Instance, CommitSave(i), Rest, UNCHANGED <<machine, plans, opened, left>>
           PROVE Typed' /\ (\A j \in Instance : Good(j)')
  BY <1>9, CheckMoves, MovedFacts
<1>10. ASSUME NEW i \in Instance, FinishPlan(i) PROVE Typed' /\ (\A j \in Instance : Good(j)')
  BY <1>10, FinishMoves, MovedFacts
<1>11. ASSUME NEW i \in Instance, CrashPlans(i) PROVE Typed' /\ (\A j \in Instance : Good(j)')
  BY <1>11, CrashMoves, MovedFacts DEF CrashPlans
<1>12. ASSUME NEW i \in Instance, NEW wanted \in Requests, Preview(i, wanted) PROVE Typed' /\
           (\A j \in Instance : Good(j)')
  BY <1>12, StillFacts DEF Preview, vars
<1>13. ASSUME NEW i \in Instance, NEW p \in plans[i], NEW r \in RunId, ApplyPlan(i, p, r) PROVE
           Typed' /\ (\A j \in Instance : Good(j)')
  <2>1. CASE UNCHANGED vars
    BY <2>1, StillFacts DEF vars
  <2>2. CASE Apply(i, r, DOMAIN p.operations)
    <3>1. p \in Plan
      BY DEF TypeInv
    <3>2. DOMAIN p.operations \in SUBSET Surface
      BY <3>1, PlanFacts
    <3> QED BY <2>2, <3>2, ApplyMoves, MovedFacts
  <2> QED BY <1>13, <2>1, <2>2 DEF ApplyPlan
<1>14. ASSUME NEW i \in Instance, NEW s \in Surface, OpenClient(i, s) PROVE Typed' /\ (\A j \in
           Instance : Good(j)')
  BY <1>14, StillFacts DEF OpenClient
<1>15. ASSUME UNCHANGED lvars PROVE Typed' /\ (\A j \in Instance : Good(j)')
  BY <1>15, StillFacts DEF lvars, vars
<1> QED BY <1>1, <1>2, <1>3, <1>4, <1>5, <1>6, <1>7, <1>8, <1>9, <1>10, <1>11, <1>12, <1>13,
           <1>14, <1>15 DEF LNext, RunStep, SaveStep

\* The history on disk is a sound one.
LEMMA SoundDisk ==
    ASSUME TypeInv, SoundInv
    PROVE  disk \in Doc /\ SoundDoc(disk)
BY DEF TypeInv, SoundInv

\* What is on disk is what a save wrote.
LEMMA DiskSoundStep ==
    ASSUME TypeInv, SoundInv, SaveInv, LabelInv, MemInv, [LNext]_lvars
    PROVE  disk' \in Doc /\ SoundDoc(disk')
<1>1. ASSUME TickPlans PROVE disk' \in Doc /\ SoundDoc(disk')
  BY <1>1, SoundDisk DEF TickPlans, Tick, mems
<1>2. ASSUME Change PROVE disk' \in Doc /\ SoundDoc(disk')
  BY <1>2, SoundDisk DEF Change, mems
<1>3. ASSUME NEW i \in Instance, Open(i),
             UNCHANGED <<machine, plans, launch, opened, left>>
           PROVE disk' \in Doc /\ SoundDoc(disk')
  BY <1>3, SoundDisk DEF Open, mems
<1>4. ASSUME NEW i \in Instance, OpenUnread(i), UNCHANGED <<machine, plans, launch, opened,
           left>> PROVE disk' \in Doc /\ SoundDoc(disk')
  BY <1>4, SoundDisk DEF OpenUnread, mems
<1>5. ASSUME NEW i \in Instance, NEW r \in RunId, Verify(i, r, machine.overridden), UNCHANGED
           <<machine, plans, launch, opened, left>> PROVE disk' \in Doc /\ SoundDoc(disk')
  BY <1>5, SoundDisk DEF Verify, mems
<1>6. ASSUME NEW i \in Instance, NEW r \in RunId, Cancel(i, r), UNCHANGED <<machine, plans,
           launch, opened, left>> PROVE disk' \in Doc /\ SoundDoc(disk')
  BY <1>6, SoundDisk DEF Cancel, mems
<1>7. ASSUME NEW i \in Instance, NEW obs \in Observation, Answer(i, obs), UNCHANGED <<machine,
           plans, launch, opened, left>> PROVE disk' \in Doc /\ SoundDoc(disk')
  BY <1>7, SoundDisk DEF Answer, mems
<1>8. ASSUME NEW i \in Instance, CheckSave(i), Rest, UNCHANGED <<machine, plans, opened, left>>
           PROVE disk' \in Doc /\ SoundDoc(disk')
  BY <1>8, SoundDisk DEF CheckSave, mems
<1>9. ASSUME NEW i \in Instance, CommitSave(i), Rest, UNCHANGED <<machine, plans, opened, left>>
           PROVE disk' \in Doc /\ SoundDoc(disk')
  <2>1. CASE UNCHANGED disk
    BY <2>1, SoundDisk
  <2>2. CASE Replace(i)
    BY <2>2 DEF Replace, TypeInv, Saving, SoundInv, SoundAt
  <2> QED BY <1>9, <2>1, <2>2 DEF CommitSave
<1>10. ASSUME NEW i \in Instance, FinishPlan(i) PROVE disk' \in Doc /\ SoundDoc(disk')
  BY <1>10, SoundDisk DEF FinishPlan, Finish, mems
<1>11. ASSUME NEW i \in Instance, CrashPlans(i) PROVE disk' \in Doc /\ SoundDoc(disk')
  BY <1>11, SoundDisk DEF CrashPlans, Crash, mems
<1>12. ASSUME NEW i \in Instance, NEW wanted \in Requests, Preview(i, wanted) PROVE disk' \in
           Doc /\ SoundDoc(disk')
  BY <1>12, SoundDisk DEF Preview, mems, vars
<1>13. ASSUME NEW i \in Instance, NEW p \in plans[i], NEW r \in RunId, ApplyPlan(i, p, r) PROVE
           disk' \in Doc /\ SoundDoc(disk')
  BY <1>13, SoundDisk DEF ApplyPlan, Apply, mems, vars
<1>14. ASSUME NEW i \in Instance, NEW s \in Surface, OpenClient(i, s) PROVE disk' \in Doc /\
           SoundDoc(disk')
  BY <1>14, SoundDisk DEF OpenClient, mems
<1>15. ASSUME UNCHANGED lvars PROVE disk' \in Doc /\ SoundDoc(disk')
  BY <1>15, SoundDisk DEF lvars, vars
<1> QED BY <1>1, <1>2, <1>3, <1>4, <1>5, <1>6, <1>7, <1>8, <1>9, <1>10, <1>11, <1>12, <1>13,
           <1>14, <1>15 DEF LNext, RunStep, SaveStep

-----------------------------------------------------------------------------
(***************************************************************************)
(* The machine and the clients that are opened.                            *)
(***************************************************************************)
\* The machine changes: a launch that goes on knows of the executables that did.
LEMMA ChangeFacts ==
    ASSUME TypeInv, Change
    PROVE  /\ machine' \in [gh : Gh, clients : SUBSET Surface, exe : [Surface -> Nat],
                            overridden : BOOLEAN]
           /\ launch' \in [Instance -> Launching]
           /\ \A j \in Instance :
                 /\ launch'[j].plan = launch[j].plan /\ launch'[j].steps = launch[j].steps
                 /\ launch[j] = Resting => launch'[j] = Resting
                 /\ \A x \in launch[j].changed : x \in launch'[j].changed
                 /\ launch[j] # Resting =>
                       \A x \in Surface : machine'.exe[x] = machine.exe[x]
                                             \/ x \in launch'[j].changed
<1>1. /\ machine \in [gh : Gh, clients : SUBSET Surface, exe : [Surface -> Nat],
                      overridden : BOOLEAN]
      /\ launch \in [Instance -> Launching]
  BY DEF TypeInv
<1>2. ASSUME NEW gh \in Gh, machine' = [machine EXCEPT !.gh = gh]
      PROVE  /\ machine' \in [gh : Gh, clients : SUBSET Surface, exe : [Surface -> Nat],
                              overridden : BOOLEAN]
             /\ machine'.exe = machine.exe
  BY <1>1, <1>2
<1>3. ASSUME machine' = [machine EXCEPT !.overridden = ~@]
      PROVE  /\ machine' \in [gh : Gh, clients : SUBSET Surface, exe : [Surface -> Nat],
                              overridden : BOOLEAN]
             /\ machine'.exe = machine.exe
  <2> DEFINE b == ~machine.overridden
  <2>1. b \in BOOLEAN /\ machine' = [machine EXCEPT !.overridden = b]
    BY <1>1, <1>3
  <2> HIDE DEF b
  <2> QED BY <1>1, <2>1
<1>4. ASSUME NEW s \in Surface, NEW v \in {0, machine.exe[s] + 1}, NEW stays \in BOOLEAN,
             machine' = [machine EXCEPT !.exe[s] = v,
                           !.clients = IF stays THEN @ \cup {s} ELSE @ \ {s}],
             launch' = [i \in Instance |->
                           IF launch[i] = Resting THEN Resting
                           ELSE [launch[i] EXCEPT !.changed = @ \cup {s}]]
      PROVE  /\ machine' \in [gh : Gh, clients : SUBSET Surface, exe : [Surface -> Nat],
                              overridden : BOOLEAN]
             /\ \A x \in Surface \ {s} : machine'.exe[x] = machine.exe[x]
             /\ launch' \in [Instance -> Launching]
             /\ \A j \in Instance :
                   \/ launch[j] = Resting /\ launch'[j] = Resting
                   \/ launch[j] # Resting /\ launch'[j].plan = launch[j].plan
                      /\ launch'[j].steps = launch[j].steps
                      /\ launch'[j].changed = launch[j].changed \cup {s}
  <2> DEFINE exe == [machine.exe EXCEPT ![s] = v]
             clients == IF stays THEN machine.clients \cup {s} ELSE machine.clients \ {s}
             m1 == [machine EXCEPT !.exe = exe]
             m2 == [m1 EXCEPT !.clients = clients]
  <2>1. exe \in [Surface -> Nat] /\ clients \in SUBSET Surface
    BY <1>1
  <2>2. machine' = m2
    BY <1>4
  <2>3. \A x \in Surface \ {s} : exe[x] = machine.exe[x]
    BY <1>1
  <2> HIDE DEF exe, clients
  <2>4. /\ m1 \in [gh : Gh, clients : SUBSET Surface, exe : [Surface -> Nat],
                   overridden : BOOLEAN]
        /\ m1.exe = exe
    BY <1>1, <2>1
  <2> HIDE DEF m1
  <2>5. /\ m2 \in [gh : Gh, clients : SUBSET Surface, exe : [Surface -> Nat],
                   overridden : BOOLEAN]
        /\ m2.exe = exe
    BY <2>1, <2>4
  <2> HIDE DEF m2
  <2>6. ASSUME NEW j \in Instance
        PROVE  /\ launch'[j] \in Launching
               /\ \/ launch[j] = Resting /\ launch'[j] = Resting
                  \/ launch[j] # Resting /\ launch'[j].plan = launch[j].plan
                     /\ launch'[j].steps = launch[j].steps
                     /\ launch'[j].changed = launch[j].changed \cup {s}
    <3>1. CASE launch[j] = Resting
      BY <1>4, <3>1, RestFacts
    <3>2. CASE launch[j] # Resting
      <4>1. launch[j] \in Launching /\ launch'[j] = [launch[j] EXCEPT !.changed = @ \cup {s}]
        BY <1>1, <1>4, <3>2
      <4> QED BY <3>2, <4>1 DEF Launching
    <3> QED BY <3>1, <3>2
  <2>7. launch' \in [Instance -> Launching]
    BY <1>4, <2>6
  <2> QED BY <2>2, <2>3, <2>5, <2>6, <2>7
<1>5. CASE UNCHANGED launch /\ \E gh \in Gh \ {machine.gh} : machine' = [machine EXCEPT !.gh = gh]
  BY <1>1, <1>2, <1>5
<1>6. CASE UNCHANGED launch /\ machine' = [machine EXCEPT !.overridden = ~@]
  BY <1>1, <1>3, <1>6
<1>7. CASE \E s \in Surface : \E v \in {0, machine.exe[s] + 1}, stays \in BOOLEAN :
             /\ machine' = [machine EXCEPT !.exe[s] = v,
                     !.clients = IF stays THEN @ \cup {s} ELSE @ \ {s}]
             /\ launch' = [i \in Instance |->
                    IF launch[i] = Resting THEN Resting
                    ELSE [launch[i] EXCEPT !.changed = @ \cup {s}]]
  <2>1. PICK s \in Surface : \E v \in {0, machine.exe[s] + 1}, stays \in BOOLEAN :
             /\ machine' = [machine EXCEPT !.exe[s] = v,
                     !.clients = IF stays THEN @ \cup {s} ELSE @ \ {s}]
             /\ launch' = [i \in Instance |->
                    IF launch[i] = Resting THEN Resting
                    ELSE [launch[i] EXCEPT !.changed = @ \cup {s}]]
    BY <1>7
  <2>2. /\ machine' \in [gh : Gh, clients : SUBSET Surface, exe : [Surface -> Nat],
                         overridden : BOOLEAN]
        /\ \A x \in Surface \ {s} : machine'.exe[x] = machine.exe[x]
        /\ launch' \in [Instance -> Launching]
        /\ \A j \in Instance :
              \/ launch[j] = Resting /\ launch'[j] = Resting
              \/ launch[j] # Resting /\ launch'[j].plan = launch[j].plan
                 /\ launch'[j].steps = launch[j].steps
                 /\ launch'[j].changed = launch[j].changed \cup {s}
    BY <1>4, <2>1
  <2> QED BY <2>2
<1> QED BY <1>5, <1>6, <1>7 DEF Change

\* A client of the plan is dealt with: only one that was reviewed is opened.
LEMMA ClientFacts ==
    ASSUME TypeInv, LaunchInv, NEW i \in Instance, NEW s \in Surface, OpenClient(i, s)
    PROVE  LET p == launch[i].plan IN
           /\ launch' \in [Instance -> Launching]
           /\ \A j \in Instance : j # i => launch'[j] = launch[j]
           /\ p # NoPlan /\ p \in Plan /\ s \in DOMAIN p.operations /\ launch[i].steps[s] = "none"
           /\ launch'[i].plan = p /\ launch'[i].changed = launch[i].changed
           /\ launch'[i].steps[s] # "none"
           /\ \A x \in Surface : x # s => launch'[i].steps[x] = launch[i].steps[x]
           /\ \/ UNCHANGED opened
              \/ opened' = opened \cup
                    {[plan |-> p.id, run |-> thread[i].run,
                      born |-> mem[i].runs[thread[i].run].born, surface |-> s,
                      reviewed |-> TRUE]}
           /\ thread[i].run \in RunId
           /\ mem[i].runs[thread[i].run].born \in Nat \ {0}
           /\ ~overlap =>
                 /\ mem[i].runs[thread[i].run].born \leq disk.stamp
                 /\ StillRecorded(disk, thread[i].run, mem[i].runs[thread[i].run].born, {s})
<1> DEFINE p == launch[i].plan
           b == mem[i].runs[thread[i].run].born
<1>1. /\ launch \in [Instance -> Launching] /\ launch[i] \in Launching
      /\ RecordedAt(i) /\ CarriedAt(i) /\ mem[i] \in Doc
  BY DEF TypeInv, LaunchInv
<1>2. thread[i].at = "launch" /\ s \in DOMAIN p.operations /\ launch[i].steps[s] = "none"
  BY DEF OpenClient
<1>3. /\ p # NoPlan /\ p \in Plan /\ thread[i].run \in RunId
      /\ b # 0
      /\ ~overlap => /\ b \leq disk.stamp
                     /\ StillRecorded(disk, thread[i].run, b, DOMAIN p.operations)
  BY <1>1, <1>2 DEF RecordedAt, OfPlan, Launching
<1>a. b \in Nat \ {0}
  BY <1>1, <1>3 DEF Doc, Run
<1>b. ~overlap => StillRecorded(disk, thread[i].run, b, {s})
  BY <1>2, <1>3 DEF StillRecorded
<1> HIDE DEF b
<1>4. \A x \in DOMAIN p.operations : p.operations[x] \in Operations
  BY <1>3, PlanFacts
<1>5. PICK v \in {"SkippedNotInstalled", "ActionRequired", "Unsupported", "Failed"} :
         launch' = [launch EXCEPT ![i].steps[s] = v]
  <2>1. s \notin Opens(p) =>
           p.operations[s] \in {"SkippedNotInstalled", "ActionRequired", "Unsupported", "Failed"}
    BY <1>2, <1>4 DEF Opens, Operations
  <2> QED BY <2>1 DEF OpenClient
<1>6. v \in StepStatus /\ v # "none"
  BY DEF StepStatus
<1> DEFINE steps == [launch[i].steps EXCEPT ![s] = v]
           new   == [launch[i] EXCEPT !.steps = steps]
<1>7. launch' = [launch EXCEPT ![i] = new]
  BY <1>5
<1>8. /\ steps \in [Surface -> StepStatus] /\ steps[s] = v
      /\ \A x \in Surface : x # s => steps[x] = launch[i].steps[x]
  BY <1>1, <1>6 DEF Launching
<1> HIDE DEF steps
<1>9. /\ new \in Launching /\ new.plan = p /\ new.changed = launch[i].changed
      /\ new.steps = steps
  BY <1>1, <1>8 DEF Launching
<1> HIDE DEF new
<1>10. launch'[i] = new /\ launch' \in [Instance -> Launching]
       /\ \A j \in Instance : j # i => launch'[j] = launch[j]
  BY <1>1, <1>7, <1>9
<1>11. s \in Opens(p) => (machine.exe[s] = p.exe[s] \/ s \in launch[i].changed) = TRUE
  <2>1. s \in Opens(p) => machine.exe[s] = p.exe[s] \/ s \in launch[i].changed
    BY <1>1, <1>3 DEF CarriedAt
  <2> QED BY <2>1
<1>12. \/ UNCHANGED opened
       \/ opened' = opened \cup {[plan |-> p.id, run |-> thread[i].run, born |-> b,
                                  surface |-> s, reviewed |-> TRUE]}
  <2>1. CASE s \in Opens(p) \ Focused
             /\ opened' = opened \cup
                {[plan |-> p.id, run |-> thread[i].run, born |-> b, surface |-> s,
                  reviewed |-> machine.exe[s] = p.exe[s] \/ s \in launch[i].changed]}
    BY <1>11, <2>1
  <2> QED BY <2>1 DEF OpenClient, b
<1> QED BY <1>2, <1>3, <1>6, <1>8, <1>9, <1>10, <1>12, <1>a, <1>b DEF b

-----------------------------------------------------------------------------
(***************************************************************************)
(* The launches.                                                           *)
(***************************************************************************)
\* What is recorded of a launch stays so.
LEMMA StandingOn ==
    ASSUME TypeInv, LaunchInv, KeepsDisk, disk' \in Doc, ~overlap', NEW i \in Instance,
           thread[i].at = "launch"
    PROVE  LET run == mem[i].runs[thread[i].run] IN
           /\ run.born \leq disk'.stamp
           /\ StillRecorded(disk', thread[i].run, run.born, DOMAIN launch[i].plan.operations)
<1> DEFINE run == mem[i].runs[thread[i].run]
           S == DOMAIN launch[i].plan.operations
<1>1. /\ launch[i].plan \in Plan \cup {NoPlan} /\ disk \in Doc /\ mem[i] \in Doc
      /\ RecordedAt(i)
  BY DEF TypeInv, Launching, LaunchInv
<1>2. /\ ~overlap /\ Continues(disk, disk') /\ launch[i].plan # NoPlan
      /\ thread[i].run \in RunId /\ run.born # 0 /\ run.born \leq disk.stamp
      /\ StillRecorded(disk, thread[i].run, run.born, S)
  BY <1>1 DEF KeepsDisk, RecordedAt, OfPlan
<1>3. S \in SUBSET Surface
  BY <1>1, <1>2, PlanFacts
<1>4. run.born \in Nat
  BY <1>1, <1>2 DEF Doc, Run
<1> QED BY <1>1, <1>2, <1>3, <1>4, RecordedOn

\* A launch that did not move is still recorded.
LEMMA RecordedKept ==
    ASSUME TypeInv, LaunchInv, KeepsDisk, disk' \in Doc, NEW j \in Instance,
           \/ Same(j) /\ launch'[j].plan = launch[j].plan
           \/ thread'[j].at \notin {"begin", "launch"}
    PROVE  RecordedAt(j)'
<1>1. CASE thread'[j].at \notin {"begin", "launch"}
  BY <1>1 DEF RecordedAt
<1>2. CASE Same(j) /\ launch'[j].plan = launch[j].plan
  <2>1. /\ mem'[j] = mem[j] /\ thread'[j] = thread[j] /\ saving'[j] = saving[j]
        /\ launch'[j].plan = launch[j].plan /\ RecordedAt(j)
    BY <1>2 DEF Same, LaunchInv
  <2> QED BY <2>1, StandingOn DEF RecordedAt, OfPlan
<1> QED BY <1>1, <1>2

\* What a run that is cancelled leaves of the launch of its instance.
LEMMA CancelRecorded ==
    ASSUME TypeInv, SoundInv, SaveInv, LabelInv, MemInv, LaunchInv, KeepsDisk,
           NEW i \in Instance, NEW r \in RunId, Cancel(i, r), UNCHANGED <<launch, disk, overlap>>
    PROVE  RecordedAt(i)'
<1>1. /\ UNCHANGED <<mem, thread, launch, disk, overlap>>
      /\ \A x \in RunId : mem[i].runs[x].status = "InProgress"
                             => saving'[i].next.runs[x] = mem[i].runs[x]
  BY CancelMoves
<1>2. thread[i].at # "begin"
  BY EmptyFacts DEF Cancel, Save, Free, LabelInv, LabelAt
<1>3. /\ mem' = mem /\ thread' = thread /\ launch' = launch /\ disk' = disk
      /\ overlap' = overlap /\ RecordedAt(i)
  BY <1>1 DEF LaunchInv
<1>4. ASSUME thread[i].at = "launch"
      PROVE  saving'[i].next.runs[thread[i].run] = mem[i].runs[thread[i].run]
  BY <1>1, <1>3, <1>4 DEF RecordedAt, OfPlan
<1> QED BY <1>2, <1>3, <1>4 DEF RecordedAt

\* What a save leaves of the launch of its instance.
LEMMA SaveRecorded ==
    ASSUME TypeInv, SoundInv, SaveInv, LabelInv, MemInv, LaunchInv, KeepsDisk, disk' \in Doc,
           NEW i \in Instance, CheckSave(i) \/ CommitSave(i), Rest
    PROVE  RecordedAt(i)'
<1> DEFINE at == thread'[i].at
<1> SUFFICES ASSUME at \in {"begin", "launch"} PROVE RecordedAt(i)'
  BY DEF RecordedAt
<1>1. launch'[i] = launch[i]
  BY RestStep
<1>2. /\ saving[i] # NoSave
      /\ \/ Compared(i) /\ UNCHANGED <<disk, overlap>>
         \/ Refuse(i) /\ UNCHANGED seen
         \/ Replaced(i) /\ Replace(i)
  BY CheckMoves
<1>3. RecordedAt(i) /\ LabelAt(i) /\ launch[i].plan \in Plan \cup {NoPlan}
  BY DEF LaunchInv, LabelInv, TypeInv, Launching
<1>4. CASE Compared(i) /\ UNCHANGED <<disk, overlap>>
  <2>1. saving'[i].next = saving[i].next /\ UNCHANGED <<mem, thread, disk, overlap>>
    BY <1>2, <1>4, ComparedMoves
  <2> QED BY <1>1, <1>2, <1>3, <2>1 DEF RecordedAt, OfPlan
<1>5. ASSUME ~overlap', thread[i].at = "launch"
      PROVE  LET run == mem[i].runs[thread[i].run] IN
             /\ run.born \leq disk'.stamp
             /\ StillRecorded(disk', thread[i].run, run.born, DOMAIN launch[i].plan.operations)
  BY <1>5, StandingOn
<1>6. CASE Refuse(i) /\ UNCHANGED seen
  <2>1. /\ mem'[i] = mem[i] /\ saving'[i] = NoSave
        /\ thread'[i] = thread[i] /\ saving[i].cause = "cancel"
    BY <1>2, <1>6, RefuseMoves, RestFacts
  <2>2. thread[i].at = "launch"
    BY <1>3, <2>1 DEF LabelAt
  <2> QED BY <1>1, <1>3, <1>5, <2>1, <2>2 DEF RecordedAt, OfPlan
<1>7. CASE Replaced(i) /\ Replace(i)
  <2>1. /\ mem'[i] = saving[i].next /\ saving'[i] = NoSave /\ disk' = saving[i].next
        /\ \/ /\ saving[i].cause = "begin" /\ thread'[i].at = "launch"
              /\ thread'[i].run = thread[i].run
           \/ saving[i].cause = "cancel" /\ thread'[i] = thread[i]
    BY <1>2, <1>7, ReplacedMoves, RestFacts DEF Replace
  <2>2. CASE /\ saving[i].cause = "begin" /\ thread'[i].at = "launch"
             /\ thread'[i].run = thread[i].run
    <3>1. thread[i].at = "begin"
      BY <1>3, <2>2 DEF LabelAt
    <3>2. /\ launch[i].plan # NoPlan /\ thread[i].run \in RunId
          /\ OfPlan(saving[i].next.runs[thread[i].run], launch[i].plan)
      BY <1>3, <3>1 DEF RecordedAt
    <3>3. DOMAIN launch[i].plan.operations \subseteq Surface
      BY <1>3, <3>2, PlanFacts
    <3>4. saving[i].next.runs[thread[i].run].born \leq saving[i].next.stamp
      BY <3>2 DEF SoundInv, SoundAt, SoundDoc, Dated
    <3> QED BY <1>1, <2>1, <2>2, <3>2, <3>3, <3>4 DEF RecordedAt, OfPlan, StillRecorded
  <2>3. CASE saving[i].cause = "cancel" /\ thread'[i] = thread[i]
    <3>1. thread[i].at = "launch"
      BY <1>3, <2>3 DEF LabelAt
    <3> QED BY <1>1, <1>2, <1>3, <1>5, <2>1, <2>3, <3>1 DEF RecordedAt, OfPlan
  <2> QED BY <2>1, <2>2, <2>3
<1> QED BY <1>2, <1>4, <1>6, <1>7

\* Every launch stays recorded.
LEMMA RecordedStep ==
    ASSUME TypeInv, SoundInv, SaveInv, LabelInv, MemInv, LaunchInv, ProbedInv, [LNext]_lvars
    PROVE  \A i \in Instance : RecordedAt(i)'
<1>a. KeepsDisk /\ disk' \in Doc
  BY DiskStep, DiskSoundStep
<1>b. /\ launch \in [Instance -> Launching]
        /\ \A j \in Instance : launch[j].plan \in Plan \cup {NoPlan}
  BY DEF TypeInv, Launching
<1>1. ASSUME TickPlans PROVE \A i \in Instance : RecordedAt(i)'
  <2>1. \A j \in Instance : Same(j)
    BY <1>1 DEF TickPlans, Tick, mems, Same
  <2> QED BY <1>1, <1>a, <1>b, <2>1, RecordedKept DEF TickPlans, Tick
<1>2. ASSUME Change PROVE \A i \in Instance : RecordedAt(i)'
  <2>1. \A j \in Instance : Same(j)
    BY <1>2 DEF Change, mems, Same
  <2>2. \A j \in Instance : launch'[j].plan = launch[j].plan
    BY <1>2, ChangeFacts
  <2> QED BY <1>a, <1>b, <2>1, <2>2, RecordedKept
<1>3. ASSUME NEW i \in Instance, Open(i),
             UNCHANGED <<machine, plans, launch, opened, left>>
      PROVE  \A j \in Instance : RecordedAt(j)'
  <2>1. Moves(i) /\ UNCHANGED launch /\ thread'[i].at \notin {"begin", "launch"}
    BY <1>3, OpenMoves, RestFacts
  <2> QED BY <1>a, <1>b, <2>1, RecordedKept DEF Moves
<1>4. ASSUME NEW i \in Instance, OpenUnread(i),
             UNCHANGED <<machine, plans, launch, opened, left>>
      PROVE  \A j \in Instance : RecordedAt(j)'
  <2>1. Moves(i) /\ UNCHANGED launch /\ thread'[i].at \notin {"begin", "launch"}
    BY <1>4, UnreadMoves, RestFacts
  <2> QED BY <1>a, <1>b, <2>1, RecordedKept DEF Moves
<1>5. ASSUME NEW i \in Instance, NEW r \in RunId, Verify(i, r, machine.overridden),
             UNCHANGED <<machine, plans, launch, opened, left>>
      PROVE  \A j \in Instance : RecordedAt(j)'
  <2>1. Moves(i) /\ UNCHANGED launch /\ thread'[i].at \notin {"begin", "launch"}
    BY <1>5, VerifyMoves
  <2> QED BY <1>a, <1>b, <2>1, RecordedKept DEF Moves
<1>6. ASSUME NEW i \in Instance, NEW r \in RunId, Cancel(i, r),
             UNCHANGED <<machine, plans, launch, opened, left>>
      PROVE  \A j \in Instance : RecordedAt(j)'
  <2>1. Moves(i) /\ UNCHANGED launch
    BY <1>6, CancelMoves
  <2>2. RecordedAt(i)'
    BY <1>6, <1>a, CancelRecorded DEF Cancel
  <2>3. ASSUME NEW j \in Instance, j # i PROVE RecordedAt(j)'
    BY <1>a, <1>b, <2>1, <2>3, RecordedKept DEF Moves
  <2> QED BY <2>2, <2>3
<1>7. ASSUME NEW i \in Instance, NEW obs \in Observation, Answer(i, obs),
             UNCHANGED <<machine, plans, launch, opened, left>>
      PROVE  \A j \in Instance : RecordedAt(j)'
  <2>1. Moves(i) /\ UNCHANGED launch /\ thread'[i].at \notin {"begin", "launch"}
    BY <1>7, AnswerMoves
  <2> QED BY <1>a, <1>b, <2>1, RecordedKept DEF Moves
<1>8. ASSUME NEW i \in Instance, CheckSave(i), Rest, UNCHANGED <<machine, plans, opened, left>>
      PROVE  \A j \in Instance : RecordedAt(j)'
  <2>1. Moves(i)
    BY <1>8, CheckMoves
  <2>2. RecordedAt(i)'
    BY <1>8, <1>a, SaveRecorded
  <2>3. ASSUME NEW j \in Instance, j # i PROVE RecordedAt(j)'
    BY <1>8, <1>a, <1>b, <2>1, <2>3, RestStep, RestFacts, RecordedKept DEF Moves
  <2> QED BY <2>2, <2>3
<1>9. ASSUME NEW i \in Instance, CommitSave(i), Rest, UNCHANGED <<machine, plans, opened, left>>
      PROVE  \A j \in Instance : RecordedAt(j)'
  <2>1. Moves(i)
    BY <1>9, CheckMoves
  <2>2. RecordedAt(i)'
    BY <1>9, <1>a, SaveRecorded
  <2>3. ASSUME NEW j \in Instance, j # i PROVE RecordedAt(j)'
    BY <1>9, <1>a, <1>b, <2>1, <2>3, RestStep, RestFacts, RecordedKept DEF Moves
  <2> QED BY <2>2, <2>3
<1>10. ASSUME NEW i \in Instance, FinishPlan(i)
       PROVE  \A j \in Instance : RecordedAt(j)'
  <2>1. Moves(i) /\ UNCHANGED launch /\ thread'[i].at \notin {"begin", "launch"}
    BY <1>10, FinishMoves DEF FinishPlan
  <2> QED BY <1>a, <1>b, <2>1, RecordedKept DEF Moves
<1>11. ASSUME NEW i \in Instance, CrashPlans(i)
       PROVE  \A j \in Instance : RecordedAt(j)'
  <2>1. Moves(i) /\ thread'[i].at \notin {"begin", "launch"} /\ Rest
    BY <1>11, CrashMoves, RestFacts DEF CrashPlans
  <2>2. ASSUME NEW j \in Instance PROVE RecordedAt(j)'
    BY <1>a, <1>b, <2>1, RestStep, RestFacts, RecordedKept DEF Moves
  <2> QED BY <2>2
<1>12. ASSUME NEW i \in Instance, NEW wanted \in Requests, Preview(i, wanted)
       PROVE  \A j \in Instance : RecordedAt(j)'
  <2>1. \A j \in Instance : Same(j)
    BY <1>12 DEF Preview, vars, mems, Same
  <2> QED BY <1>12, <1>a, <1>b, <2>1, RecordedKept DEF Preview, vars
<1>13. ASSUME NEW i \in Instance, NEW p \in plans[i], NEW r \in RunId, ApplyPlan(i, p, r)
       PROVE  \A j \in Instance : RecordedAt(j)'
  <2>1. CASE UNCHANGED <<vars, launch>>
    <3>1. \A j \in Instance : Same(j)
      BY <2>1 DEF vars, mems, Same
    <3> QED BY <1>a, <1>b, <2>1, <3>1, RecordedKept
  <2>2. CASE /\ Apply(i, r, DOMAIN p.operations)
             /\ launch' = [launch EXCEPT ![i] = [Resting EXCEPT !.plan = p]]
    <3>1. p \in Plan
      BY DEF TypeInv
    <3>2. DOMAIN p.operations \in SUBSET Surface /\ p # NoPlan
      BY <3>1, PlanFacts
    <3>3. /\ Moves(i) /\ thread'[i].at = "begin" /\ thread'[i].run = r
          /\ saving'[i].next.runs[r] = Begun(DOMAIN p.operations, mem[i].stamp + 1)
          /\ mem[i].stamp \in Nat
      BY <2>2, <3>2, ApplyMoves
    <3>4. launch'[i].plan = p /\ \A j \in Instance : j # i => launch'[j] = launch[j]
      BY <1>b, <2>2 DEF Resting
    <3>5. OfPlan(Begun(DOMAIN p.operations, mem[i].stamp + 1), p)
      <4>1. mem[i].stamp + 1 \in Nat /\ mem[i].stamp + 1 # 0 /\ now \in Time
        BY <3>3 DEF TypeInv
      <4> QED BY <3>2, <4>1, BegunFacts DEF OfPlan
    <3>6. RecordedAt(i)'
      BY <3>2, <3>3, <3>4, <3>5 DEF RecordedAt, OfPlan
    <3>7. ASSUME NEW j \in Instance, j # i PROVE RecordedAt(j)'
      BY <1>a, <1>b, <3>3, <3>4, <3>7, RecordedKept DEF Moves
    <3> QED BY <3>6, <3>7
  <2> QED BY <1>13, <2>1, <2>2 DEF ApplyPlan
<1>14. ASSUME NEW i \in Instance, NEW s \in Surface, OpenClient(i, s)
       PROVE  \A j \in Instance : RecordedAt(j)'
  <2>1. \A j \in Instance : Same(j)
    BY <1>14 DEF OpenClient, mems, Same
  <2>2. \A j \in Instance : launch'[j].plan = launch[j].plan
    BY <1>14, <1>b DEF OpenClient, Launching
  <2> QED BY <1>a, <1>b, <2>1, <2>2, RecordedKept
<1>15. ASSUME UNCHANGED lvars PROVE \A i \in Instance : RecordedAt(i)'
  <2>1. \A j \in Instance : Same(j)
    BY <1>15 DEF lvars, vars, mems, Same
  <2> QED BY <1>15, <1>a, <1>b, <2>1, RecordedKept DEF lvars, vars
<1> QED BY <1>1, <1>2, <1>3, <1>4, <1>5, <1>6, <1>7, <1>8, <1>9, <1>10, <1>11, <1>12, <1>13,
           <1>14, <1>15 DEF LNext, RunStep, SaveStep

\* A launch goes on as it was, or is over.
LEMMA CarriedKept ==
    ASSUME NEW j \in Instance, CarriedAt(j), UNCHANGED machine,
           launch'[j] = launch[j] \/ launch'[j] = Resting
    PROVE  CarriedAt(j)'
BY RestFacts DEF CarriedAt

\* Every launch opens what was reviewed.
LEMMA CarriedStep ==
    ASSUME TypeInv, LaunchInv, [LNext]_lvars
    PROVE  \A i \in Instance : CarriedAt(i)'
<1>a. /\ launch \in [Instance -> Launching] /\ \A j \in Instance : CarriedAt(j)
      /\ \A j \in Instance : launch[j].plan \in Plan \cup {NoPlan}
  BY DEF TypeInv, LaunchInv, Launching
<1>1. ASSUME TickPlans PROVE \A i \in Instance : CarriedAt(i)'
  BY <1>1, <1>a, CarriedKept DEF TickPlans, Tick
<1>2. ASSUME Change PROVE \A i \in Instance : CarriedAt(i)'
  <2>1. ASSUME NEW j \in Instance PROVE CarriedAt(j)'
    <3>1. /\ launch'[j].plan = launch[j].plan /\ launch'[j].steps = launch[j].steps
          /\ launch[j] = Resting => launch'[j] = Resting
          /\ launch[j] # Resting =>
                \A x \in Surface : machine'.exe[x] = machine.exe[x] \/ x \in launch'[j].changed
          /\ \A x \in launch[j].changed : x \in launch'[j].changed
      BY <1>2, ChangeFacts
    <3>2. CASE launch[j].plan = NoPlan
      BY <1>a, <3>1, <3>2 DEF CarriedAt
    <3>3. CASE launch[j].plan # NoPlan
      <4>1. launch[j] # Resting
        BY <3>3, RestFacts
      <4>2. Opens(launch[j].plan) \subseteq Surface
        BY <1>a, <3>3, PlanFacts
      <4> QED BY <1>a, <3>1, <3>3, <4>1, <4>2 DEF CarriedAt
    <3> QED BY <3>2, <3>3
  <2> QED BY <2>1
<1>3. ASSUME NEW i \in Instance, Open(i),
             UNCHANGED <<machine, plans, launch, opened, left>>
      PROVE  \A j \in Instance : CarriedAt(j)'
  BY <1>3, <1>a, CarriedKept
<1>4. ASSUME NEW i \in Instance, OpenUnread(i),
             UNCHANGED <<machine, plans, launch, opened, left>>
      PROVE  \A j \in Instance : CarriedAt(j)'
  BY <1>4, <1>a, CarriedKept
<1>5. ASSUME NEW i \in Instance, NEW r \in RunId, Verify(i, r, machine.overridden),
             UNCHANGED <<machine, plans, launch, opened, left>>
      PROVE  \A j \in Instance : CarriedAt(j)'
  BY <1>5, <1>a, CarriedKept
<1>6. ASSUME NEW i \in Instance, NEW r \in RunId, Cancel(i, r),
             UNCHANGED <<machine, plans, launch, opened, left>>
      PROVE  \A j \in Instance : CarriedAt(j)'
  BY <1>6, <1>a, CarriedKept
<1>7. ASSUME NEW i \in Instance, NEW obs \in Observation, Answer(i, obs),
             UNCHANGED <<machine, plans, launch, opened, left>>
      PROVE  \A j \in Instance : CarriedAt(j)'
  BY <1>7, <1>a, CarriedKept
<1>8. ASSUME NEW i \in Instance, CheckSave(i), Rest, UNCHANGED <<machine, plans, opened, left>>
      PROVE  \A j \in Instance : CarriedAt(j)'
  BY <1>8, <1>a, RestStep, CarriedKept
<1>9. ASSUME NEW i \in Instance, CommitSave(i), Rest, UNCHANGED <<machine, plans, opened, left>>
      PROVE  \A j \in Instance : CarriedAt(j)'
  BY <1>9, <1>a, RestStep, CarriedKept
<1>10. ASSUME NEW i \in Instance, FinishPlan(i)
       PROVE  \A j \in Instance : CarriedAt(j)'
  BY <1>10, <1>a, CarriedKept DEF FinishPlan
<1>11. ASSUME NEW i \in Instance, CrashPlans(i)
       PROVE  \A j \in Instance : CarriedAt(j)'
  BY <1>11, <1>a, RestStep, CarriedKept DEF CrashPlans
<1>12. ASSUME NEW i \in Instance, NEW wanted \in Requests, Preview(i, wanted)
       PROVE  \A j \in Instance : CarriedAt(j)'
  BY <1>12, <1>a, CarriedKept DEF Preview
<1>13. ASSUME NEW i \in Instance, NEW p \in plans[i], NEW r \in RunId, ApplyPlan(i, p, r)
       PROVE  \A j \in Instance : CarriedAt(j)'
  <2>1. UNCHANGED machine
    BY <1>13 DEF ApplyPlan
  <2>2. CASE UNCHANGED launch
    BY <1>a, <2>1, <2>2, CarriedKept
  <2>3. CASE Fits(p) /\ launch' = [launch EXCEPT ![i] = [Resting EXCEPT !.plan = p]]
    <3>1. p \in Plan
      BY DEF TypeInv
    <3>2. /\ launch'[i].plan = p /\ launch'[i].steps = Resting.steps
          /\ \A j \in Instance : j # i => launch'[j] = launch[j]
      BY <1>a, <2>3 DEF Resting
    <3>3. CarriedAt(i)'
      BY <2>1, <2>3, <3>1, <3>2, PlanFacts, RestFacts DEF CarriedAt, Fits
    <3>4. ASSUME NEW j \in Instance, j # i PROVE CarriedAt(j)'
      BY <1>a, <2>1, <3>2, <3>4, CarriedKept
    <3> QED BY <3>3, <3>4
  <2> QED BY <1>13, <2>2, <2>3 DEF ApplyPlan
<1>14. ASSUME NEW i \in Instance, NEW s \in Surface, OpenClient(i, s)
       PROVE  \A j \in Instance : CarriedAt(j)'
  <2>1. UNCHANGED machine
    BY <1>14 DEF OpenClient
  <2>2. CarriedAt(i)'
    BY <1>14, <1>a, <2>1, ClientFacts DEF CarriedAt
  <2>3. ASSUME NEW j \in Instance, j # i PROVE CarriedAt(j)'
    BY <1>14, <1>a, <2>1, <2>3, ClientFacts, CarriedKept
  <2> QED BY <2>2, <2>3
<1>15. ASSUME UNCHANGED lvars PROVE \A i \in Instance : CarriedAt(i)'
  BY <1>15, <1>a, CarriedKept DEF lvars, vars
<1> QED BY <1>1, <1>2, <1>3, <1>4, <1>5, <1>6, <1>7, <1>8, <1>9, <1>10, <1>11, <1>12, <1>13,
           <1>14, <1>15 DEF LNext, RunStep, SaveStep

\* Plans are only taken away, and launches only end.
Settles ==
    /\ \A j \in Instance : \A p \in plans'[j] : p \in plans[j]
    /\ \A j \in Instance : launch'[j].plan = NoPlan
                              \/ /\ launch'[j].plan = launch[j].plan
                                 /\ launch'[j].steps = launch[j].steps
    /\ left' = left

\* What a plan that is taken away leaves.
LEMMA SettlesFacts ==
    ASSUME TypeInv, PlansInv, Settles
    PROVE  PlansInv'
<1>1. NoPlan.id = 0 /\ left \in Nat
  BY RestFacts, BoundAssumption, PlanAssumption DEF TypeInv
<1>2. \A j \in Instance : \A p \in plans'[j] : p \in plans[j]
  BY DEF Settles
<1>3. /\ \A i, j \in Instance : \A p \in plans'[i], q \in plans'[j] : p.id = q.id => i = j /\ p = q
      /\ \A i \in Instance : \A p \in plans'[i] : p.id > left'
  BY <1>2 DEF PlansInv, Settles
<1>4. ASSUME NEW i \in Instance, launch'[i].plan # NoPlan
      PROVE  /\ launch'[i].plan.id > left'
             /\ \A j \in Instance :
                   /\ \A p \in plans'[j] : p.id # launch'[i].plan.id
                   /\ launch'[j].plan.id = launch'[i].plan.id => j = i
  <2>1. launch'[i].plan = launch[i].plan /\ launch[i].plan # NoPlan /\ left' = left
    BY <1>4 DEF Settles
  <2>2. launch[i].plan.id > left /\ launch[i].plan.id # 0
    <3>1. launch[i].plan \in Plan
      BY <2>1 DEF TypeInv, Launching
    <3> QED BY <2>1, <3>1, PlanFacts DEF PlansInv
  <2>3. ASSUME NEW j \in Instance
        PROVE  /\ \A p \in plans'[j] : p.id # launch'[i].plan.id
               /\ launch'[j].plan.id = launch'[i].plan.id => j = i
    <3>1. \A p \in plans'[j] : p.id # launch'[i].plan.id
      BY <1>2, <2>1 DEF PlansInv
    <3>2. launch'[j].plan = NoPlan \/ launch'[j].plan = launch[j].plan
      BY DEF Settles
    <3> QED BY <1>1, <2>1, <2>2, <3>1, <3>2 DEF PlansInv
  <2> QED BY <2>1, <2>2, <2>3
<1> QED BY <1>3, <1>4 DEF PlansInv

\* Most steps only take plans away, and end launches.
LEMMA SettlesStep ==
    ASSUME TypeInv, NEW i \in Instance,
           \/ TickPlans \/ Change \/ RunStep(i) \/ SaveStep(i) \/ FinishPlan(i) \/ CrashPlans(i)
           \/ UNCHANGED lvars
    PROVE  Settles /\ UNCHANGED opened
<1> USE DEF Settles
<1>1. CASE TickPlans \/ RunStep(i) \/ FinishPlan(i)
  BY <1>1 DEF TickPlans, RunStep, FinishPlan
<1>2. CASE Change
  BY <1>2, ChangeFacts DEF Change
<1>3. CASE SaveStep(i)
  BY <1>3, RestStep, RestFacts DEF SaveStep
<1>4. CASE CrashPlans(i)
  <2>1. \A j \in Instance : \A p \in plans'[j] : p \in plans[j]
    BY <1>4 DEF CrashPlans, TypeInv
  <2> QED BY <1>4, <2>1, RestStep, RestFacts DEF CrashPlans
<1>5. CASE UNCHANGED lvars
  BY <1>5 DEF lvars
<1> QED BY <1>1, <1>2, <1>3, <1>4, <1>5

\* A preview stores a plan of its own number, or none.
LEMMA PreviewFacts ==
    ASSUME TypeInv, NEW i \in Instance, NEW wanted \in Requests, Preview(i, wanted)
    PROVE  /\ left > 0 /\ left' = left - 1 /\ left' \in 0..MaxPreviews
           /\ plans' \in [Instance -> SUBSET Plan] /\ UNCHANGED <<machine, launch, opened>>
           /\ \A j \in Instance : j # i => plans'[j] = plans[j]
           /\ \E new \in Plan : /\ new.id = left
                                /\ \A p \in plans'[i] : p \in plans[i] \/ p = new
<1> DEFINE new == [id |-> left, until |-> now + Life,
                  operations |-> [s \in Canonical(wanted) |-> Operation(s)],
                  exe |-> machine.exe, shown |-> Fingerprint]
<1>1. /\ left \in 0..MaxPreviews /\ MaxPreviews \in Nat /\ Life \in Nat
      /\ now \in Nat /\ plans \in [Instance -> SUBSET Plan]
      /\ machine.exe \in [Surface -> Nat]
  BY PlanAssumption, BoundAssumption DEF TypeInv, Time
<1>2. /\ left > 0 /\ left' = left - 1
      /\ \/ plans' = [plans EXCEPT ![i] = Live(i)]
         \/ plans' = [plans EXCEPT ![i] = Live(i) \cup {new}]
      /\ UNCHANGED <<machine, launch, opened>>
  BY DEF Preview
<1>3. left \in 1..MaxPreviews /\ left' \in 0..MaxPreviews
  BY <1>1, <1>2
<1>4. Canonical(wanted) \in SUBSET Surface
  BY SurfaceAssumption DEF Canonical
<1>5. [s \in Canonical(wanted) |-> Operation(s)] \in [Canonical(wanted) -> Operations]
  BY <1>4, ShownFacts
<1>6. [s \in Canonical(wanted) |-> Operation(s)]
         \in UNION {[S -> Operations] : S \in SUBSET Surface}
  BY <1>4, <1>5
<1>7. now + Life \in Nat /\ Fingerprint \in Evidence
  BY <1>1, ShownFacts
<1>8. new \in Plan /\ new.id = left
  BY <1>1, <1>3, <1>6, <1>7 DEF Plan
<1> HIDE DEF new
<1>9. Live(i) \subseteq plans[i]
  BY DEF Live
<1>10. /\ plans' \in [Instance -> SUBSET Plan]
       /\ \A j \in Instance : j # i => plans'[j] = plans[j]
       /\ \A p \in plans'[i] : p \in plans[i] \/ p = new
  BY <1>1, <1>2, <1>8, <1>9
<1> QED BY <1>2, <1>3, <1>8, <1>10

\* A plan that is applied is taken away, and launched or not.
LEMMA ApplyFacts ==
    ASSUME TypeInv, NEW i \in Instance, NEW p \in plans[i], NEW r \in RunId, ApplyPlan(i, p, r)
    PROVE  /\ p \in Plan /\ plans' \in [Instance -> SUBSET Plan]
           /\ \A j \in Instance : \A q \in plans'[j] : q \in plans[j] /\ (j = i => q # p)
           /\ UNCHANGED <<machine, opened, left>>
           /\ \/ UNCHANGED launch
              \/ /\ launch' \in [Instance -> Launching] /\ launch'[i].plan = p
                 /\ \A j \in Instance : j # i => launch'[j] = launch[j]
<1> DEFINE new == [Resting EXCEPT !.plan = p]
<1>1. /\ plans \in [Instance -> SUBSET Plan] /\ launch \in [Instance -> Launching] /\ p \in Plan
  BY DEF TypeInv
<1>2. /\ plans' = [plans EXCEPT ![i] = Live(i) \ {p}] /\ UNCHANGED <<machine, opened, left>>
      /\ UNCHANGED launch \/ launch' = [launch EXCEPT ![i] = new]
  BY DEF ApplyPlan, Taken
<1>3. Live(i) \subseteq plans[i]
  BY DEF Live
<1>4. /\ plans' \in [Instance -> SUBSET Plan]
      /\ \A j \in Instance : \A q \in plans'[j] : q \in plans[j] /\ (j = i => q # p)
  BY <1>1, <1>2, <1>3
<1>5. new \in Launching /\ new.plan = p
  BY <1>1, RestFacts DEF Launching, Resting
<1> HIDE DEF new
<1> QED BY <1>1, <1>2, <1>4, <1>5

\* A plan that is stored, launched and taken away is the only one of its number.
LEMMA PlansStep ==
    ASSUME TypeInv, PlansInv, LaunchInv, [LNext]_lvars
    PROVE  PlansInv'
<1>1. ASSUME NEW i \in Instance,
             \/ TickPlans \/ Change \/ RunStep(i) \/ SaveStep(i) \/ FinishPlan(i)
             \/ CrashPlans(i) \/ UNCHANGED lvars
      PROVE  PlansInv'
  BY <1>1, SettlesStep, SettlesFacts
<1>2. ASSUME NEW i \in Instance, NEW wanted \in Requests, Preview(i, wanted)
      PROVE  PlansInv'
  <2>1. /\ left > 0 /\ left' = left - 1 /\ left \in Nat /\ left' \in Nat /\ UNCHANGED launch
        /\ \A j \in Instance : j # i => plans'[j] = plans[j]
    BY <1>2, PreviewFacts, PlanAssumption DEF TypeInv
  <2>2. PICK new \in Plan : new.id = left /\ \A p \in plans'[i] : p \in plans[i] \/ p = new
    BY <1>2, PreviewFacts
  <2>3. \A j \in Instance : \A p \in plans'[j] : p \in plans[j] \/ (j = i /\ p = new)
    BY <2>1, <2>2
  <2>4. \A j \in Instance : \A p \in plans[j] : p \in Plan /\ p.id > left /\ p.id \in Nat
    BY DEF TypeInv, PlansInv, Plan
  <2>5. \A j \in Instance : \A p \in plans[j] : p.id # new.id
    BY <2>1, <2>2, <2>4
  <2>6. \A j, k \in Instance : \A p \in plans'[j], q \in plans'[k] : p.id = q.id => j = k /\ p = q
    BY <2>3, <2>5 DEF PlansInv
  <2>7. \A j \in Instance : \A p \in plans'[j] : p.id > left'
    BY <2>1, <2>2, <2>3, <2>4
  <2>8. ASSUME NEW k \in Instance, launch[k].plan # NoPlan
        PROVE  /\ launch[k].plan.id > left'
               /\ \A j \in Instance :
                     /\ \A p \in plans'[j] : p.id # launch[k].plan.id
                     /\ launch[j].plan.id = launch[k].plan.id => j = k
    <3>1. launch[k].plan.id > left /\ launch[k].plan.id \in Nat
      BY <2>8 DEF PlansInv, TypeInv, Launching, Plan
    <3>2. launch[k].plan.id > left' /\ launch[k].plan.id # new.id
      BY <2>1, <2>2, <3>1
    <3> QED BY <2>3, <2>8, <3>2 DEF PlansInv
  <2> QED BY <2>1, <2>6, <2>7, <2>8 DEF PlansInv
<1>3. ASSUME NEW i \in Instance, NEW p \in plans[i], NEW r \in RunId, ApplyPlan(i, p, r)
      PROVE  PlansInv'
  <2>1. /\ p \in Plan /\ UNCHANGED left
        /\ \A j \in Instance : \A q \in plans'[j] : q \in plans[j] /\ (j = i => q # p)
        /\ \/ UNCHANGED launch
           \/ /\ launch'[i].plan = p /\ \A j \in Instance : j # i => launch'[j] = launch[j]
    BY <1>3, ApplyFacts
  <2>2. CASE UNCHANGED launch
    <3>1. Settles
      BY <2>1, <2>2 DEF Settles
    <3> QED BY <3>1, SettlesFacts
  <2>3. CASE launch'[i].plan = p /\ \A j \in Instance : j # i => launch'[j] = launch[j]
    <3>1. p.id > left' /\ p.id # 0 /\ p # NoPlan /\ NoPlan.id = 0
      BY <2>1, PlanFacts, RestFacts DEF PlansInv
    <3>2. \A j \in Instance : \A q \in plans'[j] : q \in plans[j] /\ q.id # p.id
      BY <2>1 DEF PlansInv
    <3>3. \A j \in Instance : j # i => launch'[j].plan.id # p.id
      BY <2>3, <3>1 DEF PlansInv
    <3>4. \A j, k \in Instance : \A a \in plans'[j], b \in plans'[k] : a.id = b.id => j = k /\ a = b
      BY <3>2 DEF PlansInv
    <3>5. \A j \in Instance : \A q \in plans'[j] : q.id > left'
      BY <2>1, <3>2 DEF PlansInv
    <3>6. ASSUME NEW k \in Instance, launch'[k].plan # NoPlan
          PROVE  /\ launch'[k].plan.id > left'
                 /\ \A j \in Instance :
                       /\ \A q \in plans'[j] : q.id # launch'[k].plan.id
                       /\ launch'[j].plan.id = launch'[k].plan.id => j = k
      <4>1. CASE k = i
        BY <2>3, <3>1, <3>2, <3>3, <4>1
      <4>2. CASE k # i
        <5>1. launch'[k].plan = launch[k].plan /\ launch'[k].plan.id # p.id
          BY <2>3, <3>3, <4>2
        <5> QED BY <2>1, <2>3, <3>2, <3>6, <5>1 DEF PlansInv
      <4> QED BY <4>1, <4>2
    <3> QED BY <3>4, <3>5, <3>6 DEF PlansInv
  <2> QED BY <2>1, <2>2, <2>3
<1>4. ASSUME NEW i \in Instance, NEW s \in Surface, OpenClient(i, s)
      PROVE  PlansInv'
  <2>1. /\ UNCHANGED <<plans, left>> /\ launch'[i].plan = launch[i].plan
        /\ \A j \in Instance : j # i => launch'[j] = launch[j]
    BY <1>4, ClientFacts DEF OpenClient
  <2>2. \A j \in Instance : launch'[j].plan = launch[j].plan
    BY <2>1
  <2> QED BY <2>1, <2>2 DEF PlansInv
<1>5. CASE Instance = {}
  BY <1>5 DEF PlansInv
<1> QED BY <1>1, <1>2, <1>3, <1>4, <1>5 DEF LNext

\* What was opened stays reviewed, once, and recorded.
LEMMA OpenedKept ==
    ASSUME TypeInv, OpenedInv, KeepsDisk, disk' \in Doc, UNCHANGED opened, left' \in Nat,
           left' \leq left,
           \A j \in Instance : \A p \in plans'[j] : p \in plans[j] \/ p.id = left,
           \A j \in Instance :
              \/ launch'[j].plan = NoPlan
              \/ launch'[j].plan \in plans[j]
              \/ launch'[j].plan = launch[j].plan /\ launch'[j].steps = launch[j].steps
    PROVE  OpenedInv'
<1>1. NoPlan.id = 0 /\ left \in Nat
  BY RestFacts, PlanAssumption DEF TypeInv
<1>2. ASSUME NEW o \in opened
      PROVE  /\ o.plan > left' /\ o.born # 0
             /\ \A j \in Instance :
                   /\ \A p \in plans'[j] : p.id # o.plan
                   /\ launch'[j].plan.id = o.plan => launch'[j].steps[o.surface] # "none"
             /\ ~overlap' => /\ o.born \leq disk'.stamp
                             /\ StillRecorded(disk', o.run, o.born, {o.surface})
  <2>1. /\ o.plan > left /\ o.plan \in Nat /\ o.run \in RunId /\ o.surface \in Surface
        /\ o.born \in Nat /\ o.born # 0
    BY DEF OpenedInv, TypeInv, Opened
  <2>2. o.plan > left' /\ o.plan # left /\ o.plan # 0
    BY <1>1, <2>1
  <2>3. ASSUME ~overlap'
        PROVE  o.born \leq disk'.stamp /\ StillRecorded(disk', o.run, o.born, {o.surface})
    <3>1. ~overlap /\ Continues(disk, disk') /\ disk \in Doc
      BY <2>3 DEF KeepsDisk, TypeInv
    <3>2. o.born \leq disk.stamp /\ StillRecorded(disk, o.run, o.born, {o.surface})
      BY <3>1 DEF OpenedInv, OpenedIsRecorded, StillRecorded
    <3> QED BY <2>1, <3>1, <3>2, RecordedOn
  <2>4. \A j \in Instance : \A p \in plans[j] : p.id # o.plan
    BY DEF OpenedInv
  <2>5. \A j \in Instance : \A p \in plans'[j] : p.id # o.plan
    BY <2>2, <2>4
  <2>6. \A j \in Instance : launch'[j].plan.id = o.plan => launch'[j].steps[o.surface] # "none"
    BY <1>1, <2>2, <2>4 DEF OpenedInv
  <2> QED BY <2>1, <2>2, <2>3, <2>5, <2>6
<1>3. OpensOnceAsReviewed'
  BY DEF OpenedInv, OpensOnceAsReviewed
<1>4. OpenedIsRecorded'
  BY <1>2 DEF OpenedIsRecorded, StillRecorded
<1> QED BY <1>2, <1>3, <1>4 DEF OpenedInv

\* Only a client of the plan is opened, and once.
LEMMA OpenedStep ==
    ASSUME TypeInv, SoundInv, SaveInv, LabelInv, MemInv, LaunchInv, PlansInv, OpenedInv, ProbedInv,
           [LNext]_lvars
    PROVE  OpenedInv' /\ opened' \subseteq Opened
<1>1. /\ KeepsDisk /\ disk' \in Doc /\ left \in Nat /\ left \leq left
      /\ opened \subseteq Opened /\ overlap \in BOOLEAN
  BY DiskStep, DiskSoundStep, PlanAssumption DEF TypeInv
<1>2. ASSUME NEW i \in Instance,
             \/ TickPlans \/ Change \/ RunStep(i) \/ SaveStep(i) \/ FinishPlan(i)
             \/ CrashPlans(i) \/ UNCHANGED lvars
      PROVE  OpenedInv' /\ opened' \subseteq Opened
  <2>1. Settles /\ UNCHANGED opened
    BY <1>2, SettlesStep
  <2> QED BY <1>1, <2>1, OpenedKept DEF Settles
<1>3. ASSUME NEW i \in Instance, NEW wanted \in Requests, Preview(i, wanted)
      PROVE  OpenedInv' /\ opened' \subseteq Opened
  <2>1. /\ left > 0 /\ left' = left - 1 /\ UNCHANGED <<launch, opened>>
        /\ \A j \in Instance : j # i => plans'[j] = plans[j]
    BY <1>3, PreviewFacts
  <2>2. \A j \in Instance : \A p \in plans'[j] : p \in plans[j] \/ p.id = left
    BY <1>3, <2>1, PreviewFacts
  <2>3. left' \in Nat /\ left' \leq left
    BY <1>1, <2>1
  <2> QED BY <1>1, <2>1, <2>2, <2>3, OpenedKept
<1>4. ASSUME NEW i \in Instance, NEW p \in plans[i], NEW r \in RunId, ApplyPlan(i, p, r)
      PROVE  OpenedInv' /\ opened' \subseteq Opened
  <2>1. /\ UNCHANGED <<opened, left>>
        /\ \A j \in Instance : \A q \in plans'[j] : q \in plans[j]
        /\ \A j \in Instance : launch'[j] = launch[j] \/ launch'[j].plan \in plans[j]
    BY <1>4, ApplyFacts
  <2> QED BY <1>1, <2>1, OpenedKept
<1>5. ASSUME NEW i \in Instance, NEW s \in Surface, OpenClient(i, s)
      PROVE  OpenedInv' /\ opened' \subseteq Opened
  <2> DEFINE p == launch[i].plan
             b == mem[i].runs[thread[i].run].born
             o == [plan |-> p.id, run |-> thread[i].run, born |-> b, surface |-> s,
                   reviewed |-> TRUE]
  <2>1. /\ \A j \in Instance : j # i => launch'[j] = launch[j]
        /\ p # NoPlan /\ p \in Plan /\ launch[i].steps[s] = "none"
        /\ launch'[i].plan = p /\ launch'[i].steps[s] # "none"
        /\ \A x \in Surface : x # s => launch'[i].steps[x] = launch[i].steps[x]
        /\ UNCHANGED opened \/ opened' = opened \cup {o}
        /\ thread[i].run \in RunId /\ b \in Nat \ {0}
        /\ ~overlap => b \leq disk.stamp /\ StillRecorded(disk, thread[i].run, b, {s})
    BY <1>5, ClientFacts
  <2> HIDE DEF b
  <2>2. UNCHANGED <<disk, overlap, plans, left>>
    BY <1>5 DEF OpenClient
  <2>3. p.id \in 1..MaxPreviews /\ p.id > left
    BY <2>1, PlanFacts DEF PlansInv
  <2>4. /\ o \in Opened /\ o.plan = p.id /\ o.run = thread[i].run /\ o.surface = s
        /\ o.reviewed /\ o.born = b
    BY <2>1, <2>3 DEF Opened
  <2>5. \A q \in opened : q.surface \in Surface /\ (q.plan = p.id => q.surface # s)
    BY <1>1, <2>1 DEF OpenedInv, Opened
  <2> HIDE DEF o
  <2>6. ASSUME NEW q \in opened'
        PROVE  /\ q.plan > left' /\ q.reviewed /\ q.born # 0
               /\ ~overlap' => /\ q.born \leq disk'.stamp
                               /\ StillRecorded(disk', q.run, q.born, {q.surface})
               /\ \A j \in Instance :
                     /\ \A x \in plans'[j] : x.id # q.plan
                     /\ launch'[j].plan.id = q.plan => launch'[j].steps[q.surface] # "none"
               /\ \A z \in opened' : (z.plan = q.plan /\ z.surface = q.surface) => z = q
    <3>1. CASE q \in opened
      <4>1. \A z \in opened' : (z.plan = q.plan /\ z.surface = q.surface) => z = q
        BY <2>1, <2>4, <2>5, <3>1 DEF OpenedInv, OpensOnceAsReviewed
      <4>2. \A j \in Instance :
               launch'[j].plan.id = q.plan => launch'[j].steps[q.surface] # "none"
        BY <2>1, <2>5, <3>1 DEF OpenedInv
      <4>3. /\ q.born # 0
            /\ ~overlap' => /\ q.born \leq disk'.stamp
                            /\ StillRecorded(disk', q.run, q.born, {q.surface})
        BY <2>2, <3>1 DEF OpenedInv, OpenedIsRecorded, StillRecorded
      <4>4. q.reviewed
        BY <3>1 DEF OpenedInv, OpensOnceAsReviewed
      <4> QED BY <2>2, <3>1, <4>1, <4>2, <4>3, <4>4 DEF OpenedInv
    <3>2. CASE q = o /\ opened' = opened \cup {o}
      <4>1. \A z \in opened' : (z.plan = q.plan /\ z.surface = q.surface) => z = q
        BY <2>4, <2>5, <3>2
      <4>2. \A j \in Instance : launch[j].plan.id = p.id => j = i
        BY <2>1 DEF PlansInv
      <4>3. \A j \in Instance :
               launch'[j].plan.id = q.plan => launch'[j].steps[q.surface] # "none"
        BY <2>1, <2>4, <3>2, <4>2
      <4>4. \A j \in Instance : \A x \in plans'[j] : x.id # q.plan
        BY <2>1, <2>2, <2>4, <3>2 DEF PlansInv
      <4>5. /\ q.born # 0
            /\ ~overlap' => /\ q.born \leq disk'.stamp
                            /\ StillRecorded(disk', q.run, q.born, {q.surface})
        BY <2>1, <2>2, <2>4, <3>2
      <4> QED BY <2>2, <2>3, <2>4, <3>2, <4>1, <4>3, <4>4, <4>5
    <3> QED BY <2>1, <3>1, <3>2
  <2>7. opened' \subseteq Opened
    BY <1>1, <2>1, <2>4
  <2> QED BY <2>6, <2>7 DEF OpenedInv, OpensOnceAsReviewed, OpenedIsRecorded, StillRecorded
<1>6. CASE TickPlans \/ Change \/ UNCHANGED lvars
  <2>1. CASE Instance = {}
    <3>1. UNCHANGED opened
      BY <1>6 DEF TickPlans, Change, lvars
    <3>2. UNCHANGED left
      BY <1>6 DEF TickPlans, Change, lvars
    <3> QED BY <1>1, <2>1, <3>1, <3>2, OpenedKept
  <2> QED BY <1>2, <1>6, <2>1
<1> QED BY <1>2, <1>3, <1>4, <1>5, <1>6 DEF LNext

-----------------------------------------------------------------------------
(***************************************************************************)
(* The types, and the invariant.                                           *)
(***************************************************************************)

\* What is remembered of the world has its type.
WorldTyped ==
    /\ overlap \in BOOLEAN /\ probed \in [RunId -> [obs : Observation, time : Time]]
    /\ now \in Time /\ budget \in [{"follow", "fault", "crash"} -> Nat]

\* Time, the records of the probes and the bounds have their types.
LEMMA WorldStep == ASSUME TypeInv, SaveInv, ProbedInv, [LNext]_lvars PROVE WorldTyped'
<1> USE DEF WorldTyped
<1>a. /\ overlap \in BOOLEAN /\ probed \in [RunId -> [obs : Observation, time : Time]]
      /\ now \in Time /\ budget \in [{"follow", "fault", "crash"} -> Nat]
  BY DEF TypeInv
<1>1. ASSUME TickPlans PROVE WorldTyped'
  <2>1. now' \in Time
    BY <1>1, BoundAssumption, <1>a DEF TickPlans, Tick, Time
  <2> QED BY <1>1, <1>a, <2>1 DEF TickPlans, Tick
<1>2. ASSUME Change PROVE WorldTyped'
  BY <1>2, <1>a, SpendFacts DEF Change
<1>3. ASSUME NEW i \in Instance, Open(i),
             UNCHANGED <<machine, plans, launch, opened, left>>
           PROVE WorldTyped'
  BY <1>3, <1>a, SpendFacts DEF Open
<1>4. ASSUME NEW i \in Instance, OpenUnread(i), UNCHANGED <<machine, plans, launch, opened,
           left>> PROVE WorldTyped'
  BY <1>4, <1>a, SpendFacts DEF OpenUnread
<1>5. ASSUME NEW i \in Instance, NEW r \in RunId, Verify(i, r, machine.overridden), UNCHANGED
           <<machine, plans, launch, opened, left>> PROVE WorldTyped'
  BY <1>5, <1>a, SpendFacts DEF Verify
<1>6. ASSUME NEW i \in Instance, NEW r \in RunId, Cancel(i, r), UNCHANGED <<machine, plans,
           launch, opened, left>> PROVE WorldTyped'
  BY <1>6, <1>a, SpendFacts DEF Cancel
<1>7. ASSUME NEW i \in Instance, NEW obs \in Observation, Answer(i, obs), UNCHANGED <<machine,
           plans, launch, opened, left>> PROVE WorldTyped'
  BY <1>7, <1>a DEF Answer
<1>8. ASSUME NEW i \in Instance, CheckSave(i), Rest, UNCHANGED <<machine, plans, opened, left>>
           PROVE WorldTyped'
  BY <1>8, <1>a, SpendFacts DEF CheckSave
<1>9. ASSUME NEW i \in Instance, CommitSave(i), Rest, UNCHANGED <<machine, plans, opened, left>>
           PROVE WorldTyped'
  <2>1. saving[i] # NoSave /\ UNCHANGED now
    BY <1>9, EmptyFacts DEF CommitSave
  <2>2. budget' \in [{"follow", "fault", "crash"} -> Nat]
    BY <1>9, <1>a, SpendFacts DEF CommitSave
  <2>3. CASE Replace(i)
    BY <1>a, <2>1, <2>2, <2>3, ReplaceFacts
  <2>4. CASE UNCHANGED <<probed, overlap>>
    BY <1>a, <2>1, <2>2, <2>4
  <2> QED BY <1>9, <2>3, <2>4 DEF CommitSave
<1>10. ASSUME NEW i \in Instance, FinishPlan(i) PROVE WorldTyped'
  BY <1>10, <1>a DEF FinishPlan, Finish
<1>11. ASSUME NEW i \in Instance, CrashPlans(i) PROVE WorldTyped'
  BY <1>11, <1>a, SpendFacts DEF CrashPlans, Crash
<1>12. ASSUME NEW i \in Instance, NEW wanted \in Requests, Preview(i, wanted) PROVE WorldTyped'
  BY <1>12, <1>a DEF Preview, vars
<1>13. ASSUME NEW i \in Instance, NEW p \in plans[i], NEW r \in RunId, ApplyPlan(i, p, r) PROVE
           WorldTyped'
  BY <1>13, <1>a DEF ApplyPlan, Apply, vars
<1>14. ASSUME NEW i \in Instance, NEW s \in Surface, OpenClient(i, s) PROVE WorldTyped'
  BY <1>14, <1>a, SpendFacts DEF OpenClient
<1>15. ASSUME UNCHANGED lvars PROVE WorldTyped'
  BY <1>15, <1>a DEF lvars, vars
<1> QED BY <1>1, <1>2, <1>3, <1>4, <1>5, <1>6, <1>7, <1>8, <1>9, <1>10, <1>11, <1>12, <1>13,
           <1>14, <1>15 DEF LNext, RunStep, SaveStep

\* What the machine shows, the plans and the launches have their types.
PlansTyped ==
    /\ machine \in [gh : Gh, clients : SUBSET Surface, exe : [Surface -> Nat],
                    overridden : BOOLEAN]
    /\ plans \in [Instance -> SUBSET Plan] /\ launch \in [Instance -> Launching]
    /\ left \in 0..MaxPreviews

\* The plans and the launches keep their types.
LEMMA PlansTypedStep == ASSUME TypeInv, LaunchInv, [LNext]_lvars PROVE PlansTyped'
<1> USE DEF PlansTyped
<1>a. PlansTyped
  BY DEF TypeInv
<1>b. Rest => launch' \in [Instance -> Launching]
  BY RestFacts, <1>a DEF Rest
<1>1. ASSUME TickPlans PROVE PlansTyped'
  BY <1>1, <1>a DEF TickPlans
<1>2. ASSUME Change PROVE PlansTyped'
  BY <1>2, <1>a, ChangeFacts DEF Change
<1>3. ASSUME NEW i \in Instance, Open(i),
             UNCHANGED <<machine, plans, launch, opened, left>>
           PROVE PlansTyped'
  BY <1>3, <1>a
<1>4. ASSUME NEW i \in Instance, OpenUnread(i), UNCHANGED <<machine, plans, launch, opened,
           left>> PROVE PlansTyped'
  BY <1>4, <1>a
<1>5. ASSUME NEW i \in Instance, NEW r \in RunId, Verify(i, r, machine.overridden), UNCHANGED
           <<machine, plans, launch, opened, left>> PROVE PlansTyped'
  BY <1>5, <1>a
<1>6. ASSUME NEW i \in Instance, NEW r \in RunId, Cancel(i, r), UNCHANGED <<machine, plans,
           launch, opened, left>> PROVE PlansTyped'
  BY <1>6, <1>a
<1>7. ASSUME NEW i \in Instance, NEW obs \in Observation, Answer(i, obs), UNCHANGED <<machine,
           plans, launch, opened, left>> PROVE PlansTyped'
  BY <1>7, <1>a
<1>8. ASSUME NEW i \in Instance, CheckSave(i), Rest, UNCHANGED <<machine, plans, opened, left>>
           PROVE PlansTyped'
  BY <1>8, <1>a, <1>b, RestStep
<1>9. ASSUME NEW i \in Instance, CommitSave(i), Rest, UNCHANGED <<machine, plans, opened, left>>
           PROVE PlansTyped'
  BY <1>9, <1>a, <1>b, RestStep
<1>10. ASSUME NEW i \in Instance, FinishPlan(i) PROVE PlansTyped'
  BY <1>10, <1>a DEF FinishPlan
<1>11. ASSUME NEW i \in Instance, CrashPlans(i) PROVE PlansTyped'
  BY <1>11, <1>a, <1>b, RestStep DEF CrashPlans
<1>12. ASSUME NEW i \in Instance, NEW wanted \in Requests, Preview(i, wanted) PROVE PlansTyped'
  BY <1>12, <1>a, PreviewFacts
<1>13. ASSUME NEW i \in Instance, NEW p \in plans[i], NEW r \in RunId, ApplyPlan(i, p, r) PROVE
           PlansTyped'
  BY <1>13, <1>a, ApplyFacts
<1>14. ASSUME NEW i \in Instance, NEW s \in Surface, OpenClient(i, s) PROVE PlansTyped'
  BY <1>14, <1>a, ClientFacts DEF OpenClient
<1>15. ASSUME UNCHANGED lvars PROVE PlansTyped'
  BY <1>15, <1>a DEF lvars
<1> QED BY <1>1, <1>2, <1>3, <1>4, <1>5, <1>6, <1>7, <1>8, <1>9, <1>10, <1>11, <1>12, <1>13,
           <1>14, <1>15 DEF LNext, RunStep, SaveStep

\* The invariant holds at the start.
LEMMA InitInv == LInit => IInv
<1> SUFFICES ASSUME LInit PROVE IInv
  OBVIOUS
<1>1. 0 \in Time /\ MaxTime \in Nat /\ MaxFollowUps \in Nat /\ MaxFaults \in Nat
      /\ MaxCrashes \in Nat
  BY BoundAssumption DEF Time
<1>2. MaxPreviews \in Nat /\ MaxPreviews \in 0..MaxPreviews
  BY PlanAssumption
<1>3. /\ disk = Empty /\ mem = [i \in Instance |-> Empty] /\ seen = [i \in Instance |-> Empty]
      /\ recovery = [i \in Instance |-> FALSE]
      /\ thread = [i \in Instance |-> Closed] /\ saving = [i \in Instance |-> NoSave]
      /\ now = 0 /\ probed = [r \in RunId |-> [obs |-> "none", time |-> 0]]
      /\ overlap = FALSE
      /\ budget = [follow |-> MaxFollowUps, fault |-> MaxFaults, crash |-> MaxCrashes]
      /\ plans = [i \in Instance |-> {}] /\ launch = [i \in Instance |-> Resting]
      /\ opened = {} /\ left = MaxPreviews
  BY DEF LInit, Init
<1>4. PICK gh \in {"signedOut"} \cup Account :
         machine = [gh |-> gh, clients |-> Surface, exe |-> [s \in Surface |-> 1],
                    overridden |-> FALSE]
  BY DEF LInit
<1>5. machine \in [gh : Gh, clients : SUBSET Surface, exe : [Surface -> Nat],
                   overridden : BOOLEAN]
  BY <1>4 DEF Gh
<1>6. probed \in [RunId -> [obs : Observation, time : Time]]
  BY <1>1, <1>3 DEF Observation
<1>7. budget \in [{"follow", "fault", "crash"} -> Nat]
  BY <1>1, <1>3
<1>8. TypeInv
  BY <1>1, <1>2, <1>3, <1>5, <1>6, <1>7, EmptyFacts, RestFacts DEF TypeInv
<1>9. SoundInv
  BY <1>3, EmptyFacts DEF SoundInv, SoundAt
<1>10. SaveInv
  BY <1>3 DEF SaveInv, SaveAt
<1>11. LabelInv
  BY <1>3, EmptyFacts, RestFacts DEF LabelInv, LabelAt
<1>12. MemInv
  BY <1>3, EmptyFacts, RestFacts DEF MemInv, MemAt
<1>13. LaunchInv
  BY <1>3, RestFacts DEF LaunchInv, RecordedAt, CarriedAt
<1>14. PlansInv
  BY <1>3, RestFacts DEF PlansInv
<1>15. OpenedInv
  BY <1>3 DEF OpenedInv, OpensOnceAsReviewed, OpenedIsRecorded
<1>16. ProbedInv
  BY <1>3, EmptyFacts DEF ProbedInv
<1> QED BY <1>8, <1>9, <1>10, <1>11, <1>12, <1>13, <1>14, <1>15, <1>16 DEF IInv

\* Every step keeps it.
LEMMA StepInv == IInv /\ [LNext]_lvars => IInv'
<1> SUFFICES ASSUME IInv, [LNext]_lvars PROVE IInv'
  OBVIOUS
<1>1. /\ TypeInv /\ SoundInv /\ SaveInv /\ LabelInv /\ MemInv /\ LaunchInv /\ PlansInv
      /\ OpenedInv /\ ProbedInv
  BY DEF IInv
<1>2. Typed' /\ \A i \in Instance : Good(i)'
  BY <1>1, InstancesStep
<1>3. disk' \in Doc /\ SoundDoc(disk')
  BY <1>1, DiskSoundStep
<1>4. WorldTyped' /\ PlansTyped'
  BY <1>1, WorldStep, PlansTypedStep
<1>5. OpenedInv' /\ opened' \subseteq Opened
  BY <1>1, OpenedStep
<1>6. TypeInv'
  BY <1>2, <1>3, <1>4, <1>5 DEF TypeInv, Typed, WorldTyped, PlansTyped
<1>7. SoundInv' /\ SaveInv' /\ LabelInv' /\ MemInv'
  BY <1>2, <1>3 DEF SoundInv, SaveInv, LabelInv, MemInv, Good
<1>8. LaunchInv'
  BY <1>1, RecordedStep, CarriedStep DEF LaunchInv
<1>9. PlansInv' /\ ProbedInv'
  BY <1>1, PlansStep, DiskStep
<1> QED BY <1>5, <1>6, <1>7, <1>8, <1>9 DEF IInv

\* IInv holds in every reachable state of the reviewed plans and their runs.
THEOREM Inductive == LSpec => []IInv
<1> QED BY InitInv, StepInv, PTL DEF LSpec

-----------------------------------------------------------------------------
(***************************************************************************)
(* What the invariant is for.                                              *)
(***************************************************************************)
\* The account a run is shown with is what the last recorded probe of it saw, however its
\* saves fail, whichever instance wrote the history last.
THEOREM ShownHolds == LSpec => []ShownWasObserved
<1>1. IInv => ShownWasObserved
  <2> SUFFICES ASSUME IInv, NEW i \in Instance, Running(i), NEW r \in ShownNow(i),
                      disk = seen[i], ~overlap
               PROVE  probed[r].obs = mem[i].runs[r].login
    BY DEF ShownWasObserved
  <2>1. r \in RunId /\ mem[i].runs[r].login # "none"
    BY DEF ShownNow, Shown
  <2>2. mem[i].runs[r].login = seen[i].runs[r].login
    BY <2>1 DEF IInv, MemInv, MemAt, Running
  <2> QED BY <2>1, <2>2 DEF IInv, ProbedInv
<1> QED BY <1>1, Inductive, PTL

\* A plan opens each client at most once, and only with a reviewed executable.
THEOREM OpensOnceHolds == LSpec => []OpensOnceAsReviewed
<1>1. IInv => OpensOnceAsReviewed
  BY DEF IInv, OpenedInv
<1> QED BY <1>1, Inductive, PTL

\* Every client that was opened has its run in the history on disk, which asked for it,
\* until as many later runs as the history keeps have pushed that run out.
THEOREM RecordedHolds == LSpec => []OpenedIsRecorded
<1>1. IInv => OpenedIsRecorded
  BY DEF IInv, OpenedInv
<1> QED BY <1>1, Inductive, PTL

\* A final run of the history stays what it is until it is pushed out, unless two
\* instances saved at once.
THEOREM FinalHolds == LSpec => FinalRunsStand
<1>1. IInv /\ [LNext]_lvars =>
         [\A r \in RunId : disk.runs[r].status \in Final =>
             \/ disk'.runs[r] = disk.runs[r]
             \/ disk'.runs[r].born # disk.runs[r].born
                /\ PushedOut(disk'.runs, disk.runs[r].born)
             \/ overlap']_vars
  <2> SUFFICES ASSUME IInv, [LNext]_lvars, NEW r \in RunId, disk.runs[r].status \in Final,
                      ~overlap'
               PROVE  \/ disk'.runs[r] = disk.runs[r]
                      \/ disk'.runs[r].born # disk.runs[r].born
                         /\ PushedOut(disk'.runs, disk.runs[r].born)
    OBVIOUS
  <2>1. KeepsDisk
    BY DiskStep DEF IInv
  <2>2. disk.runs[r].born # 0
    BY EmptyFacts DEF IInv, SoundInv, SoundDoc, Dated, Final
  <2> QED BY <2>1, <2>2 DEF KeepsDisk, Continues, Keeps
<1> QED BY <1>1, Inductive, PTL DEF LSpec, FinalRunsStand
=============================================================================
