------------------------- MODULE TransactionProofs -------------------------
(***************************************************************************)
(* Proofs about Transaction, for every number of targets, every set of     *)
(* contents and every bound: type correctness, the write-ahead rule, all   *)
(* or nothing, what a Committed journal means, that another program's      *)
(* bytes are replaced only when they arrived after the check of a target,  *)
(* and that the journaled transaction implements AtomicPublication.        *)
(***************************************************************************)
EXTENDS Transaction, TLAPS

-----------------------------------------------------------------------------
(***************************************************************************)
(* The inductive invariant.                                                *)
(***************************************************************************)
AtBefore(r) == file[r] = last.before[r]
AtAfter(r)  == file[r] = last.after[r]

ApplyLabels    == {"applyRead", "intent", "write", "verify", "reverify"}
RollbackLabels == {"rbRead", "rbWrite", "rbVerify", "rbPersist"}
JournalLabels  == ApplyLabels \cup RollbackLabels \cup {"audit", "complete", "clear"}

\* A journal, on disk or in memory, is that of the last publication.
OfLast(j) == j.id = last.id /\ j.before = last.before /\ j.after = last.after

\* A journal on disk names every target that may have left its before bytes, and
\* a final phase says where all of them are.
JournalInv ==
    journal # NoJournal =>
        /\ last # NoPlan /\ kept = "no"
        /\ OfLast(journal)
        /\ \A r \in Ours : AtBefore(r) \/ (r <= journal.attempted /\ AtAfter(r))
        /\ journal.phase = "RolledBack" => \A r \in Ours : AtBefore(r)
        /\ journal.phase = "Committed" =>
              audit[last.id] = "applied" /\ \A r \in Ours : AtAfter(r)

\* Which transaction the thread holds at each label.
ThreadInv ==
    /\ pc = "idle" <=> tx = NoJournal
    /\ pc \in {"begin", "beginPersist"} =>
          /\ journal = NoJournal /\ goal = "none"
          /\ tx.attempted = 0 /\ tx.phase = "Prepared"
    /\ pc \in JournalLabels =>
          /\ journal # NoJournal /\ OfLast(tx)
          /\ journal.attempted <= tx.attempted
    /\ pc \in JournalLabels \ {"clear"} => journal.phase # "Committed"
    /\ pc = "clear" => journal.phase \in {"Committed", "RolledBack"}
    /\ pc \in {"begin", "applyRead", "intent", "write", "verify", "reverify",
               "rbRead", "rbWrite", "rbVerify"} => idx \in 1..N
    /\ pc \in RollbackLabels => goal # "none"
    /\ pc = "audit" => goal \in {"none", "audit"}
    /\ pc = "complete" => goal = "none"
    /\ pc \in ApplyLabels => goal = "none" /\ journal.phase \in {"Prepared", "Applying"}

\* apply() has published exactly the targets before the one it stands at.
ApplyInv ==
    /\ pc \in {"applyRead", "intent"} =>
          /\ journal.attempted = idx - 1
          /\ \A r \in Ours : IF r < idx THEN AtAfter(r) ELSE AtBefore(r)
    /\ pc = "write" =>
          /\ journal.attempted = idx
          /\ \A r \in Ours : IF r < idx THEN AtAfter(r) ELSE AtBefore(r)
    /\ pc = "verify" =>
          /\ journal.attempted = idx
          /\ \A r \in Ours : IF r <= idx THEN AtAfter(r) ELSE AtBefore(r)
    /\ pc = "reverify" => \A r \in Ours : AtAfter(r)
    /\ (pc = "audit" /\ goal = "none") => \A r \in Ours : AtAfter(r)
    /\ pc = "complete" => audit[last.id] = "applied" /\ \A r \in Ours : AtAfter(r)

\* rollback() has restored every target after the one it stands at, unless it
\* counted a failure.
RollbackInv ==
    /\ (pc \in {"rbRead", "rbWrite"} /\ failures = 0) =>
          \A r \in Ours : r > idx => AtBefore(r)
    /\ (pc = "rbVerify" /\ failures = 0) => \A r \in Ours : r >= idx => AtBefore(r)
    /\ (pc = "rbPersist" /\ failures = 0) => \A r \in Ours : AtBefore(r)
    /\ (pc = "audit" /\ goal = "audit" /\ failures = 0) => journal.phase = "RolledBack"

DiskInv == JournalInv /\ AllOrNothing
PcInv   == ThreadInv /\ ApplyInv /\ RollbackInv

IInv == TypeOK /\ DiskInv /\ PcInv

-----------------------------------------------------------------------------
(***************************************************************************)
(* Lemmas about the records of Transaction.                                *)
(***************************************************************************)
LEMMA JournalFields ==
    ASSUME NEW j \in Journal
    PROVE  /\ j # NoJournal /\ j.id \in PlanId /\ j.phase \in Phase /\ j.attempted \in 0..N
           /\ j.before \in Contents /\ j.after \in Contents
BY DEF Journal, NoJournal, PlanId

LEMMA WritesFields ==
    ASSUME NEW w \in Writes
    PROVE  w # NoPlan /\ w.id \in PlanId /\ w.before \in Contents /\ w.after \in Contents
BY DEF Writes, NoPlan, PlanId

\* Marking an intent touches the attempted count and the phase only.
LEMMA IntentFields ==
    ASSUME NEW j \in Journal, NEW i \in 1..N
    PROVE  /\ Intent(j, i) \in Journal
           /\ Intent(j, i).id = j.id /\ Intent(j, i).attempted = i
           /\ Intent(j, i).before = j.before /\ Intent(j, i).after = j.after
           /\ Intent(j, i).phase = "Applying"
<1> DEFINE k == [j EXCEPT !.attempted = i]
<1>1. /\ k \in Journal /\ k.id = j.id /\ k.attempted = i
      /\ k.before = j.before /\ k.after = j.after
      BY NAssumption DEF Journal
<1>2. Intent(j, i) = [k EXCEPT !.phase = "Applying"]
      BY DEF Intent
<1> HIDE DEF k
<1> QED BY <1>1, <1>2 DEF Journal, Phase

\* Recording a phase touches the phase only.
LEMMA PhaseFields ==
    ASSUME NEW j \in Journal, NEW p \in Phase
    PROVE  LET k == [j EXCEPT !.phase = p] IN
           /\ k \in Journal /\ k.id = j.id /\ k.attempted = j.attempted
           /\ k.before = j.before /\ k.after = j.after /\ k.phase = p
BY DEF Journal

\* Spending a bound keeps the budget a budget.
LEMMA SpendType ==
    ASSUME budget \in Budget, NEW k \in {"fault", "edit", "crash", "plan"}, Spend(k)
    PROVE  budget' \in Budget
<1>1. CASE k = "fault" BY <1>1 DEF Budget, Spend
<1>2. CASE k = "edit"  BY <1>2 DEF Budget, Spend
<1>3. CASE k = "crash" BY <1>3 DEF Budget, Spend
<1>4. CASE k = "plan"  BY <1>4, BoundAssumption DEF Budget, Spend
<1> QED BY <1>1, <1>2, <1>3, <1>4

LEMMA FaultType == ASSUME TypeOK, Fault \/ Works PROVE budget' \in Budget
BY SpendType DEF Fault, Works, TypeOK

-----------------------------------------------------------------------------
(***************************************************************************)
(* Lemmas about the helpers: what a step that leaves the disk alone, that  *)
(* returns or that enters rollback() keeps.                                *)
(***************************************************************************)
diskVars == <<file, journal, audit, edited, last, kept>>

LEMMA DiskUnchanged == ASSUME DiskInv, UNCHANGED diskVars PROVE DiskInv'
BY DEF DiskInv, JournalInv, AllOrNothing, diskVars, Ours, AtBefore, AtAfter, OfLast

LEMMA PcUnchanged == ASSUME PcInv, UNCHANGED <<diskVars, thread>> PROVE PcInv'
BY DEF PcInv, ThreadInv, ApplyInv, RollbackInv, diskVars, thread, Ours, AtBefore, AtAfter,
       OfLast

LEMMA ReturnIdle == ASSUME Return PROVE PcInv'
BY DEF Return, PcInv, ThreadInv, ApplyInv, RollbackInv, JournalLabels, ApplyLabels, RollbackLabels

\* rollback() may start whenever its transaction is that of the journal and
\* attempted at least what the journal says.
LEMMA RollbackStarts ==
    ASSUME TypeOK, DiskInv, NEW t \in Journal, NEW g \in Goal \ {"none"},
           StartRollback(t, g), UNCHANGED <<file, journal, edited, last>>,
           OfLast(t), journal # NoJournal, journal.phase # "Committed",
           journal.attempted <= t.attempted
    PROVE  PcInv'
<1>1. t.attempted \in 0..N /\ t # NoJournal /\ journal.attempted \in 0..N
      BY JournalFields DEF TypeOK
<1>2. \A r \in Ours : r > t.attempted => AtBefore(r)
      BY <1>1 DEF DiskInv, JournalInv, Ours, Resource
<1>3. ThreadInv'
      BY <1>1 DEF StartRollback, Attempted, ThreadInv, OfLast, JournalLabels,
                  ApplyLabels, RollbackLabels
<1>4. ApplyInv'
      BY DEF StartRollback, ApplyInv
<1>5. RollbackInv'
  <2>1. CASE t.attempted = 0
        BY <2>1, <1>1, <1>2 DEF StartRollback, Attempted, RollbackInv, Ours, AtBefore,
                                Resource
  <2>2. CASE t.attempted # 0
        BY <2>2, <1>2 DEF StartRollback, Attempted, RollbackInv, Ours, AtBefore
  <2> QED BY <2>1, <2>2
<1> QED BY <1>3, <1>4, <1>5 DEF PcInv

LEMMA StartRollbackType ==
    ASSUME TypeOK, NEW t \in Journal, NEW g \in Goal, StartRollback(t, g)
    PROVE  /\ tx' \in Journal \cup {NoJournal} /\ caller' \in Caller /\ pc' \in Label
           /\ idx' \in 0..N /\ goal' \in Goal /\ failures' \in Nat
BY JournalFields DEF StartRollback, Attempted, TypeOK, Label

LEMMA ThreadType ==
    ASSUME TypeOK,
           \/ Return \/ UNCHANGED thread
           \/ \E label \in Label, i \in 0..N : Goto(label, i)
           \/ pc # "idle" /\ idx \in 1..N /\ \E t \in Journal : NextWrite(t)
           \/ idx \in 1..N /\ \E f \in {0, 1} : RollbackNext(f)
    PROVE  /\ tx' \in Journal \cup {NoJournal} /\ caller' \in Caller /\ pc' \in Label
           /\ idx' \in 0..N /\ goal' \in Goal /\ failures' \in Nat
<1>1. CASE Return \/ UNCHANGED thread
      BY <1>1 DEF Return, thread, TypeOK, Label
<1>2. ASSUME NEW label \in Label, NEW i \in 0..N, Goto(label, i)
      PROVE  /\ tx' \in Journal \cup {NoJournal} /\ caller' \in Caller /\ pc' \in Label
             /\ idx' \in 0..N /\ goal' \in Goal /\ failures' \in Nat
      BY <1>2 DEF Goto, TypeOK
<1>3. ASSUME idx \in 1..N, NEW t \in Journal, NextWrite(t)
      PROVE  /\ tx' \in Journal \cup {NoJournal} /\ caller' \in Caller /\ pc' \in Label
             /\ idx' \in 0..N /\ goal' \in Goal /\ failures' \in Nat
      BY <1>3, NAssumption DEF NextWrite, TypeOK, Label
<1>4. ASSUME idx \in 1..N, NEW f \in {0, 1}, RollbackNext(f)
      PROVE  /\ tx' \in Journal \cup {NoJournal} /\ caller' \in Caller /\ pc' \in Label
             /\ idx' \in 0..N /\ goal' \in Goal /\ failures' \in Nat
      BY <1>4, NAssumption DEF RollbackNext, TypeOK, Label
<1> QED BY <1>1, <1>2, <1>3, <1>4

\* The transaction the thread holds at a label of a begun publication.
LEMMA HeldJournal ==
    ASSUME TypeOK, PcInv, pc # "idle"
    PROVE  tx \in Journal
BY DEF TypeOK, PcInv, ThreadInv

LEMMA OnDisk ==
    ASSUME TypeOK, PcInv, DiskInv, pc \in JournalLabels
    PROVE  /\ tx \in Journal /\ journal \in Journal /\ last \in Writes
           /\ OfLast(tx) /\ OfLast(journal) /\ journal.attempted <= tx.attempted
BY HeldJournal DEF TypeOK, PcInv, ThreadInv, DiskInv, JournalInv, JournalLabels, ApplyLabels,
                   RollbackLabels

-----------------------------------------------------------------------------
(***************************************************************************)
(* One lemma per action.                                                   *)
(***************************************************************************)
LEMMA PrepareStep == ASSUME IInv, Prepare PROVE IInv'
<1>1. PICK after \in Contents :
         plan' = [id |-> MaxPlans - budget.plan + 1, before |-> file, after |-> after]
      BY DEF Prepare
<1>2. plan' \in Writes
  <2>1. budget.plan \in 1..MaxPlans
        BY DEF IInv, TypeOK, Budget, Prepare, Spend
  <2>2. MaxPlans - budget.plan + 1 \in PlanId
        BY <2>1, BoundAssumption DEF PlanId
  <2> QED BY <1>1, <2>2 DEF IInv, TypeOK, Writes
<1>3. TypeOK'
      BY <1>2, SpendType DEF Prepare, IInv, TypeOK, disk, thread, aux
<1> QED BY <1>3, DiskUnchanged, PcUnchanged DEF IInv, Prepare, disk, thread, aux, diskVars

LEMMA DiscardStep == ASSUME IInv, Discard PROVE IInv'
<1>1. TypeOK'
      BY DEF Discard, IInv, TypeOK, disk, thread, aux
<1> QED BY <1>1, DiskUnchanged, PcUnchanged DEF IInv, Discard, disk, thread, aux, diskVars

LEMMA StartStep == ASSUME IInv, Start PROVE IInv'
<1>1. DiskInv'
      BY DiskUnchanged DEF IInv, Start, disk, aux, diskVars
<1>2. CASE journal # NoJournal
  <2>1. TypeOK'
        BY <1>2 DEF Start, IInv, TypeOK, disk, thread, aux
  <2> QED BY <1>1, <1>2, <2>1, PcUnchanged DEF IInv, Start, disk, aux, diskVars
<1>3. CASE journal = NoJournal
  <2> DEFINE t == [id |-> plan.id, phase |-> "Prepared", attempted |-> 0,
                   before |-> plan.before, after |-> plan.after]
  <2>1. t \in Journal /\ t.attempted = 0 /\ t.phase = "Prepared"
        BY WritesFields, NAssumption DEF Start, IInv, TypeOK, Journal, Phase
  <2>2. /\ tx' = t /\ pc' = "begin" /\ idx' = 1 /\ goal' = "none" /\ failures' = 0
        /\ caller' \in {"deployment", "resources"}
        BY <1>3 DEF Start
  <2> HIDE DEF t
  <2>3. TypeOK'
        BY <2>1, <2>2, NAssumption DEF Start, IInv, TypeOK, disk, aux, Label, Goal, Caller
  <2>4. PcInv'
        BY <1>3, <2>1, <2>2, NAssumption, JournalFields
        DEF Start, disk, PcInv, ThreadInv, ApplyInv, RollbackInv, JournalLabels, ApplyLabels,
            RollbackLabels
  <2> QED BY <1>1, <2>3, <2>4 DEF IInv
<1> QED BY <1>2, <1>3

LEMMA BeginReadStep == ASSUME IInv, BeginRead PROVE IInv'
<1>1. DiskInv'
      BY DiskUnchanged DEF IInv, BeginRead, disk, aux, diskVars
<1>2. idx \in 1..N /\ tx # NoJournal
      BY DEF IInv, PcInv, ThreadInv, BeginRead
<1>3. CASE Return
  <2>1. TypeOK'
        BY <1>3, FaultType, ThreadType DEF BeginRead, IInv, TypeOK, disk, aux
  <2> QED BY <1>1, <1>3, <2>1, ReturnIdle DEF IInv
<1>4. CASE idx = N /\ Works /\ Goto("beginPersist", 1)
  <2>1. TypeOK'
        BY <1>4, FaultType, ThreadType, NAssumption DEF BeginRead, IInv, TypeOK, disk, aux, Label
  <2>2. PcInv'
        BY <1>2, <1>4 DEF BeginRead, Goto, IInv, disk, aux, PcInv, ThreadInv, ApplyInv,
                          RollbackInv, JournalLabels, ApplyLabels, RollbackLabels
  <2> QED BY <1>1, <2>1, <2>2 DEF IInv
<1>5. CASE idx # N /\ Works /\ Goto("begin", idx + 1)
  <2>1. TypeOK'
        BY <1>2, <1>5, FaultType, ThreadType, NAssumption
        DEF BeginRead, IInv, TypeOK, disk, aux, Label
  <2>2. PcInv'
        BY <1>2, <1>5, NAssumption
        DEF BeginRead, Goto, IInv, disk, aux, PcInv, ThreadInv, ApplyInv,
            RollbackInv, JournalLabels, ApplyLabels, RollbackLabels
  <2> QED BY <1>1, <2>1, <2>2 DEF IInv
<1> QED BY <1>3, <1>4, <1>5 DEF BeginRead

LEMMA BeginPersistStep == ASSUME IInv, BeginPersist PROVE IInv'
<1>1. tx \in Journal /\ tx.attempted = 0 /\ tx.phase = "Prepared"
      BY HeldJournal DEF IInv, BeginPersist, PcInv, ThreadInv
<1>2. CASE Fault /\ Return /\ UNCHANGED <<journal, edited, lost, last, kept>>
  <2>1. TypeOK'
        BY <1>2, FaultType, ThreadType DEF BeginPersist, IInv, TypeOK
  <2> QED BY <1>2, <2>1, DiskUnchanged, ReturnIdle DEF BeginPersist, IInv, diskVars
<1>3. CASE /\ Works /\ journal' = tx /\ lost' = {} /\ kept' = "no"
           /\ edited' = {r \in Resource : file[r] # tx.before[r]}
           /\ last' = [id |-> tx.id, before |-> tx.before, after |-> tx.after]
           /\ Goto("applyRead", 1)
  <2> DEFINE w == [id |-> tx.id, before |-> tx.before, after |-> tx.after]
  <2>1. /\ journal' = tx /\ last' = w /\ kept' = "no" /\ lost' = {}
        /\ edited' = {r \in Resource : file[r] # tx.before[r]}
        /\ tx' = tx /\ idx' = 1 /\ pc' = "applyRead"
        /\ UNCHANGED <<file, audit, plan, review, dirty, caller, goal, failures>>
        BY <1>3 DEF BeginPersist, Goto
  <2>2. w \in Writes /\ w.id = tx.id /\ w.before = tx.before /\ w.after = tx.after /\ w # NoPlan
        BY <1>1, JournalFields, WritesFields DEF Writes
  <2> HIDE DEF w
  <2>3. TypeOK'
        BY <1>1, <1>3, <2>1, <2>2, FaultType, NAssumption DEF IInv, TypeOK, Label
  <2>4. Ours' = {r \in Resource : file[r] = tx.before[r]}
        BY <2>1 DEF Ours
  <2>5. OfLast(tx)' /\ journal' # NoJournal /\ \A r \in Ours' : AtBefore(r)'
        BY <1>1, <2>1, <2>2, <2>4, JournalFields DEF OfLast, AtBefore
  <2>6. DiskInv'
        BY <1>1, <2>1, <2>2, <2>5 DEF DiskInv, JournalInv, AllOrNothing, OfLast
  <2>7. PcInv'
        BY <1>1, <2>1, <2>5, NAssumption
        DEF IInv, BeginPersist, PcInv, ThreadInv, ApplyInv, RollbackInv, JournalLabels,
            ApplyLabels, RollbackLabels, OfLast, Ours, Resource
  <2> QED BY <2>3, <2>6, <2>7 DEF IInv
<1> QED BY <1>2, <1>3 DEF BeginPersist

LEMMA ApplyReadStep == ASSUME IInv, ApplyRead PROVE IInv'
<1>1. DiskInv'
      BY DiskUnchanged DEF IInv, ApplyRead, disk, diskVars
<1>2. idx \in 1..N /\ goal = "none" /\ journal.phase # "Committed" /\ journal # NoJournal
      BY DEF IInv, PcInv, ThreadInv, ApplyRead, JournalLabels, ApplyLabels
<1>3. tx \in Journal /\ OfLast(tx) /\ journal.attempted <= tx.attempted
      BY OnDisk DEF IInv, ApplyRead, JournalLabels, ApplyLabels
<1>4. CASE ApplyFailed(tx)
  <2>1. PICK g \in {"audit", "clear"} : StartRollback(tx, g)
        BY <1>4 DEF ApplyFailed
  <2>2. TypeOK'
        BY <1>3, <2>1, StartRollbackType, FaultType
        DEF ApplyRead, IInv, TypeOK, disk, aux, Goal
  <2>3. PcInv'
        BY <1>2, <1>3, <2>1, RollbackStarts DEF ApplyRead, IInv, disk, diskVars, Goal
  <2> QED BY <1>1, <2>2, <2>3 DEF IInv
<1>5. CASE Works /\ Goto("intent", idx) /\ dirty' = dirty \ {idx}
  <2>1. TypeOK'
        BY <1>2, <1>5, FaultType, ThreadType DEF ApplyRead, IInv, TypeOK, disk, Label
  <2>2. PcInv'
        BY <1>2, <1>5 DEF ApplyRead, Goto, IInv, disk, PcInv, ThreadInv, ApplyInv, RollbackInv,
           JournalLabels, ApplyLabels, RollbackLabels, OfLast, Ours, AtBefore, AtAfter
  <2> QED BY <1>1, <2>1, <2>2 DEF IInv
<1> QED BY <1>4, <1>5 DEF ApplyRead

\* apply() moves past a write it has made, or that changes nothing.
LEMMA NextWriteMoves ==
    ASSUME TypeOK, NEW t \in Journal, NextWrite(t), idx \in 1..N, goal = "none",
           UNCHANGED <<file, edited, last>>, OfLast(t), journal' # NoJournal,
           journal'.attempted = idx, journal'.phase \in {"Prepared", "Applying"}, idx <= t.attempted,
           \A r \in Ours : IF r <= idx THEN AtAfter(r) ELSE AtBefore(r)
    PROVE  PcInv'
<1>1. t # NoJournal
      BY JournalFields
<1>2. CASE idx = N
      BY <1>1, <1>2, NAssumption
      DEF NextWrite, PcInv, ThreadInv, ApplyInv, RollbackInv, JournalLabels, ApplyLabels,
          RollbackLabels, OfLast, Ours, AtBefore, AtAfter, Resource
<1>3. CASE idx # N
      BY <1>1, <1>3, NAssumption
      DEF NextWrite, PcInv, ThreadInv, ApplyInv, RollbackInv, JournalLabels, ApplyLabels,
          RollbackLabels, OfLast, Ours, AtBefore, AtAfter, Resource
<1> QED BY <1>2, <1>3

LEMMA ApplyIntentStep == ASSUME IInv, ApplyIntent PROVE IInv'
<1> DEFINE t == Intent(tx, idx)
<1>1. /\ pc = "intent" /\ idx \in 1..N /\ goal = "none" /\ journal.phase # "Committed"
      /\ journal # NoJournal
      BY DEF IInv, PcInv, ThreadInv, ApplyIntent, JournalLabels, ApplyLabels
<1>2. /\ tx \in Journal /\ journal \in Journal /\ OfLast(tx) /\ last \in Writes
      /\ OfLast(journal)
      BY <1>1, OnDisk DEF IInv, JournalLabels, ApplyLabels
<1>3. t \in Journal /\ OfLast(t) /\ t.attempted = idx /\ t.phase = "Applying"
      BY <1>1, <1>2, IntentFields DEF OfLast
<1>4. /\ journal.attempted = idx - 1
      /\ \A r \in Ours : IF r < idx THEN AtAfter(r) ELSE AtBefore(r)
      BY <1>1 DEF IInv, PcInv, ApplyInv
<1> HIDE DEF t
<1>5. CASE ApplyFailed(t) /\ Fault /\ UNCHANGED journal
  <2>1. PICK g \in {"audit", "clear"} : StartRollback(t, g)
        BY <1>5 DEF ApplyFailed
  <2>2. TypeOK'
        BY <1>3, <1>5, <2>1, StartRollbackType, FaultType
        DEF ApplyIntent, IInv, TypeOK, aux, Goal
  <2>3. PcInv'
        BY <1>1, <1>3, <1>4, <1>5, <2>1, RollbackStarts
        DEF ApplyIntent, IInv, aux, diskVars, Goal
  <2>4. DiskInv'
        BY <1>5, DiskUnchanged DEF ApplyIntent, IInv, aux, diskVars
  <2> QED BY <2>2, <2>3, <2>4 DEF IInv
<1>6. ASSUME Works, journal' = t PROVE DiskInv'
  <2>1. \A r \in Ours : AtBefore(r) \/ (r <= idx /\ AtAfter(r))
        BY <1>1, <1>4, NAssumption DEF Ours, Resource, AtBefore, AtAfter
  <2>2. JournalInv'
        BY <1>1, <1>3, <1>6, <2>1 DEF ApplyIntent, IInv, DiskInv, JournalInv, aux, Ours, AtBefore,
           AtAfter, OfLast
  <2>3. AllOrNothing'
        BY <1>3, <1>6, JournalFields DEF AllOrNothing
  <2> QED BY <2>2, <2>3 DEF DiskInv
<1>7. CASE Works /\ journal' = t /\ Changed(t, idx)
           /\ tx' = t /\ pc' = "write" /\ UNCHANGED <<caller, idx, goal, failures>>
  <2>1. TypeOK'
        BY <1>3, <1>7, FaultType DEF ApplyIntent, IInv, TypeOK, aux, Label
  <2>2. PcInv'
        BY <1>1, <1>3, <1>4, <1>7, JournalFields
        DEF ApplyIntent, IInv, PcInv, ThreadInv, ApplyInv, RollbackInv, aux, JournalLabels,
            ApplyLabels, RollbackLabels, OfLast, Ours, AtBefore, AtAfter
  <2> QED BY <1>6, <1>7, <2>1, <2>2 DEF IInv
<1>8. CASE Works /\ journal' = t /\ ~Changed(t, idx) /\ NextWrite(t)
  <2>1. TypeOK'
        BY <1>1, <1>3, <1>8, FaultType, ThreadType DEF ApplyIntent, IInv, TypeOK, aux
  <2>2. \A r \in Ours : IF r <= idx THEN AtAfter(r) ELSE AtBefore(r)
        BY <1>1, <1>3, <1>4, <1>8 DEF Changed, OfLast, AtBefore, AtAfter, Ours, Resource
  <2>3. PcInv'
        BY <1>1, <1>3, <1>8, <2>2, NextWriteMoves, JournalFields DEF ApplyIntent, IInv, aux
  <2> QED BY <1>6, <1>8, <2>1, <2>3 DEF IInv
<1> QED BY <1>5, <1>7, <1>8 DEF ApplyIntent, t

\* What is known while apply() runs.
LEMMA ApplyingFacts ==
    ASSUME IInv, pc \in ApplyLabels
    PROVE  /\ idx \in 1..N /\ goal = "none" /\ journal # NoJournal
           /\ journal.phase \in {"Prepared", "Applying"}
           /\ journal.phase # "Committed" /\ journal.attempted <= tx.attempted
           /\ tx \in Journal /\ journal \in Journal /\ last \in Writes
           /\ OfLast(tx) /\ OfLast(journal)
<1>1. /\ tx \in Journal /\ journal \in Journal /\ last \in Writes
      /\ OfLast(tx) /\ OfLast(journal) /\ journal.attempted <= tx.attempted
      BY OnDisk DEF IInv, JournalLabels
<1> QED BY <1>1 DEF IInv, PcInv, ThreadInv, ApplyLabels, JournalLabels

\* A failure while apply() runs enters rollback().
LEMMA ApplyFails ==
    ASSUME IInv, pc \in ApplyLabels, Fault \/ Works, UNCHANGED <<diskVars, plan, review>>,
           dirty' \subseteq Resource, lost' \subseteq Resource,
           NEW g \in {"audit", "clear", "keep"}, StartRollback(tx, g)
    PROVE  IInv'
<1>1. TypeOK'
      BY ApplyingFacts, StartRollbackType, FaultType DEF IInv, TypeOK, diskVars, Goal
<1>2. PcInv'
      BY ApplyingFacts, RollbackStarts DEF IInv, diskVars, Goal
<1> QED BY <1>1, <1>2, DiskUnchanged DEF IInv, diskVars

LEMMA ApplyWriteStep == ASSUME IInv, ApplyWrite PROVE IInv'
<1>1. pc = "write" /\ pc \in ApplyLabels
      BY DEF ApplyWrite, ApplyLabels
<1>2. CASE Fault /\ ApplyFailed(tx) /\ UNCHANGED <<file, lost>>
  <2>1. PICK g \in {"audit", "clear"} : StartRollback(tx, g)
        BY <1>2 DEF ApplyFailed
  <2> QED BY <1>1, <1>2, <2>1, ApplyFails DEF ApplyWrite, diskVars, IInv, TypeOK
<1>3. CASE /\ Works /\ Goto("verify", idx)
           /\ file' = [file EXCEPT ![idx] = tx.after[idx]]
           /\ lost' = IF file[idx] \in {tx.before[idx], tx.after[idx]}
                      THEN lost ELSE lost \cup {idx}
  <2>1. /\ idx \in 1..N /\ OfLast(tx) /\ OfLast(journal) /\ journal \in Journal
        /\ tx \in Journal /\ last \in Writes /\ goal = "none" /\ journal # NoJournal
        /\ journal.attempted <= tx.attempted /\ journal.phase \in {"Prepared", "Applying"}
        BY <1>1, ApplyingFacts
  <2>2. /\ journal.attempted = idx
        /\ \A r \in Ours : IF r < idx THEN AtAfter(r) ELSE AtBefore(r)
        BY <1>1 DEF IInv, PcInv, ApplyInv
  <2>3. file' \in Contents
        BY <1>3, <2>1, JournalFields DEF IInv, TypeOK, Contents, Resource
  <2>4. TypeOK'
        BY <1>3, <2>1, <2>3, FaultType, ThreadType
        DEF ApplyWrite, IInv, TypeOK, Label, Resource
  <2>5. \A r \in Ours : IF r <= idx THEN AtAfter(r)' ELSE AtBefore(r)'
    <3>1. file'[idx] = last.after[idx] /\ \A r \in Resource \ {idx} : file'[r] = file[r]
          BY <1>3, <2>1 DEF IInv, TypeOK, Contents, OfLast, Resource
    <3> QED BY <2>1, <2>2, <3>1 DEF ApplyWrite, AtAfter, AtBefore, Ours, Resource
  <2>6. Ours' = Ours /\ UNCHANGED <<journal, last, kept, audit>>
        BY DEF ApplyWrite, Ours
  <2>7. DiskInv'
    <3>1. journal.phase # "RolledBack"
          BY <1>1, ApplyingFacts
    <3>2. \A r \in Ours : AtBefore(r)' \/ (r <= journal.attempted /\ AtAfter(r)')
          BY <2>1, <2>2, <2>5 DEF Ours, Resource
    <3> QED BY <2>1, <2>6, <3>1, <3>2 DEF IInv, DiskInv, JournalInv, AllOrNothing, OfLast
  <2>8. PcInv'
        BY <1>3, <2>1, <2>2, <2>5, <2>6, JournalFields
        DEF ApplyWrite, Goto, PcInv, ThreadInv, ApplyInv, RollbackInv, JournalLabels,
            ApplyLabels, RollbackLabels, OfLast
  <2> QED BY <2>4, <2>7, <2>8 DEF IInv
<1> QED BY <1>2, <1>3 DEF ApplyWrite

LEMMA ApplyVerifyStep == ASSUME IInv, ApplyVerify PROVE IInv'
<1>1. pc = "verify" /\ pc \in ApplyLabels
      BY DEF ApplyVerify, ApplyLabels
<1>2. CASE ApplyFailed(tx)
  <2>1. PICK g \in {"audit", "clear"} : StartRollback(tx, g)
        BY <1>2 DEF ApplyFailed
  <2> QED BY <1>1, <2>1, ApplyFails DEF ApplyVerify, disk, aux, diskVars, IInv, TypeOK
<1>3. CASE Works /\ NextWrite(tx)
  <2>1. /\ journal.attempted = idx
        /\ \A r \in Ours : IF r <= idx THEN AtAfter(r) ELSE AtBefore(r)
        BY <1>1 DEF IInv, PcInv, ApplyInv
  <2>2. idx <= tx.attempted
        BY <1>1, <2>1, ApplyingFacts
  <2>3. TypeOK'
        BY <1>1, <1>3, ApplyingFacts, FaultType, ThreadType DEF ApplyVerify, IInv, TypeOK, disk, aux
  <2>4. PcInv'
        BY <1>1, <1>3, <2>1, <2>2, ApplyingFacts, NextWriteMoves
        DEF ApplyVerify, IInv, disk, aux
  <2> QED BY <2>3, <2>4, DiskUnchanged DEF ApplyVerify, IInv, disk, aux, diskVars
<1> QED BY <1>2, <1>3 DEF ApplyVerify

LEMMA ReverifyStep == ASSUME IInv, Reverify PROVE IInv'
<1>1. pc = "reverify" /\ pc \in ApplyLabels
      BY DEF Reverify, ApplyLabels
<1>2. ASSUME NEW g \in {"keep", "clear"}, StartRollback(tx, g)
      PROVE  IInv'
      BY <1>1, <1>2, ApplyFails DEF Reverify, disk, aux, diskVars, IInv, TypeOK
<1>3. ASSUME Works, NEW label \in {"audit", "reverify"}, NEW i \in 1..N, Goto(label, i)
      PROVE  IInv'
  <2>1. TypeOK'
        BY <1>3, FaultType, ThreadType, NAssumption DEF Reverify, IInv, TypeOK, disk, aux, Label
  <2>2. PcInv'
        BY <1>1, <1>3, ApplyingFacts
        DEF Reverify, Goto, IInv, disk, aux, PcInv, ThreadInv, ApplyInv, RollbackInv,
            JournalLabels, ApplyLabels, RollbackLabels, OfLast, Ours, AtBefore, AtAfter
  <2> QED BY <2>1, <2>2, DiskUnchanged DEF Reverify, IInv, disk, aux, diskVars
<1>4. idx \in 1..N
      BY <1>1, ApplyingFacts
<1>5. \/ \E g \in {"keep", "clear"} : StartRollback(tx, g)
      \/ Works /\ idx = N /\ Goto("audit", idx)
      \/ Works /\ idx # N /\ Goto("reverify", idx + 1)
      BY DEF Reverify
<1>6. idx # N => idx + 1 \in 1..N
      BY <1>4, NAssumption
<1> QED BY <1>2, <1>3, <1>4, <1>5, <1>6

-----------------------------------------------------------------------------
\* What is known while rollback() runs.
LEMMA RollingFacts ==
    ASSUME IInv, pc \in RollbackLabels
    PROVE  /\ goal # "none" /\ journal # NoJournal
           /\ journal.phase # "Committed" /\ journal.attempted <= tx.attempted
           /\ tx \in Journal /\ journal \in Journal /\ last \in Writes
           /\ OfLast(tx) /\ OfLast(journal)
           /\ pc # "rbPersist" => idx \in 1..N
           /\ failures \in Nat
<1>1. /\ tx \in Journal /\ journal \in Journal /\ last \in Writes
      /\ OfLast(tx) /\ OfLast(journal) /\ journal.attempted <= tx.attempted
      BY OnDisk DEF IInv, JournalLabels
<1> QED BY <1>1 DEF IInv, PcInv, ThreadInv, RollbackLabels, JournalLabels, ApplyLabels, TypeOK

\* rollback() moves to the write before, having counted f failures here.
LEMMA RollbackMoves ==
    ASSUME IInv, pc \in RollbackLabels, pc # "rbPersist", Fault \/ Works,
           UNCHANGED <<diskVars, plan, review>>,
           dirty' \subseteq Resource, lost' \subseteq Resource,
           NEW f \in {0, 1}, RollbackNext(f),
           (failures = 0 /\ f = 0) =>
               \A r \in Ours : r >= idx => AtBefore(r)
    PROVE  IInv'
<1>1. TypeOK'
      BY RollingFacts, ThreadType, FaultType DEF IInv, TypeOK, diskVars
<1>2. ThreadInv'
  <2>1. CASE idx = 1
        BY <2>1, RollingFacts, JournalFields
        DEF RollbackNext, ThreadInv, diskVars, OfLast, JournalLabels, ApplyLabels, RollbackLabels
  <2>2. CASE idx # 1
        BY <2>2, RollingFacts, JournalFields, NAssumption
        DEF RollbackNext, ThreadInv, diskVars, OfLast, JournalLabels, ApplyLabels, RollbackLabels
  <2> QED BY <2>1, <2>2
<1>3. ApplyInv'
      BY DEF RollbackNext, ApplyInv
<1>4. failures' = 0 => failures = 0 /\ f = 0
      BY RollingFacts DEF RollbackNext
<1>5. RollbackInv'
  <2>1. CASE idx = 1
        BY <1>4, <2>1 DEF RollbackNext, RollbackInv, diskVars, Ours, AtBefore, Resource
  <2>2. CASE idx # 1
        BY <1>4, <2>2, RollingFacts
        DEF RollbackNext, RollbackInv, diskVars, Ours, AtBefore, Resource
  <2> QED BY <2>1, <2>2
<1> QED BY <1>1, <1>2, <1>3, <1>5, DiskUnchanged DEF IInv, PcInv, diskVars

LEMMA RollbackReadStep == ASSUME IInv, RollbackRead PROVE IInv'
<1>1. pc = "rbRead" /\ pc \in RollbackLabels /\ idx \in 1..N
      BY RollingFacts DEF RollbackRead, RollbackLabels
<1>2. failures = 0 => \A r \in Ours : r > idx => AtBefore(r)
      BY <1>1 DEF IInv, PcInv, RollbackInv
<1>3. UNCHANGED <<diskVars, plan, review>> /\ lost' \subseteq Resource
      BY DEF RollbackRead, disk, diskVars, IInv, TypeOK
<1>4. CASE RollbackNext(1) /\ (Fault \/ Works) /\ UNCHANGED dirty
      BY <1>1, <1>3, <1>4, RollbackMoves DEF IInv, TypeOK
<1>5. CASE /\ Works /\ (~Changed(tx, idx) \/ file[idx] = tx.before[idx])
           /\ RollbackNext(0) /\ UNCHANGED dirty
  <2>1. idx \in Ours => AtBefore(idx)
    <3>1. journal # NoJournal /\ OfLast(tx) /\ OfLast(journal)
          BY <1>1, RollingFacts
    <3>2. idx \in Ours => AtBefore(idx) \/ AtAfter(idx)
          BY <3>1 DEF IInv, DiskInv, JournalInv
    <3> QED BY <1>5, <3>1, <3>2 DEF Changed, OfLast, AtBefore, AtAfter
  <2>2. failures = 0 => \A r \in Ours : r >= idx => AtBefore(r)
        BY <1>1, <1>2, <2>1, NAssumption DEF Ours, Resource
  <2> QED BY <1>1, <1>3, <1>5, <2>2, RollbackMoves DEF IInv, TypeOK
<1>6. CASE Works /\ Goto("rbWrite", idx) /\ dirty' = dirty \ {idx}
  <2>1. TypeOK'
        BY <1>1, <1>3, <1>6, FaultType, ThreadType DEF RollbackRead, IInv, TypeOK, disk, Label
  <2>2. PcInv'
        BY <1>1, <1>2, <1>3, <1>6, RollingFacts, JournalFields
        DEF Goto, diskVars, PcInv, ThreadInv, ApplyInv, RollbackInv, JournalLabels,
            ApplyLabels, RollbackLabels, OfLast, Ours, AtBefore
  <2> QED BY <1>3, <2>1, <2>2, DiskUnchanged DEF IInv
<1> QED BY <1>4, <1>5, <1>6 DEF RollbackRead

LEMMA RollbackWriteStep == ASSUME IInv, RollbackWrite PROVE IInv'
<1>1. pc = "rbWrite" /\ pc \in RollbackLabels /\ idx \in 1..N
      BY RollingFacts DEF RollbackWrite, RollbackLabels
<1>2. failures = 0 => \A r \in Ours : r > idx => AtBefore(r)
      BY <1>1 DEF IInv, PcInv, RollbackInv
<1>3. CASE Fault /\ RollbackNext(1) /\ UNCHANGED <<file, lost>>
      BY <1>1, <1>3, RollbackMoves DEF RollbackWrite, diskVars, IInv, TypeOK
<1>4. CASE /\ Works /\ Goto("rbVerify", idx)
           /\ file' = [file EXCEPT ![idx] = tx.before[idx]]
           /\ lost' = IF file[idx] \in {tx.before[idx], tx.after[idx]}
                      THEN lost ELSE lost \cup {idx}
  <2>1. /\ goal # "none" /\ journal # NoJournal /\ OfLast(tx) /\ OfLast(journal)
        /\ journal.phase # "Committed" /\ journal.attempted <= tx.attempted
        /\ tx \in Journal /\ last \in Writes
        BY <1>1, RollingFacts
  <2>2. file' \in Contents
        BY <1>1, <1>4, <2>1, JournalFields DEF IInv, TypeOK, Contents, Resource
  <2>3. TypeOK'
        BY <1>1, <1>4, <2>2, FaultType, ThreadType
        DEF RollbackWrite, IInv, TypeOK, Label, Resource
  <2>4. Ours' = Ours /\ UNCHANGED <<journal, last, kept, audit>>
        BY DEF RollbackWrite, Ours
  <2>5. /\ \A r \in Ours : (AtBefore(r) \/ r = idx) => AtBefore(r)'
        /\ \A r \in Ours : AtAfter(r) => (AtAfter(r)' \/ AtBefore(r)')
    <3>1. idx \in Resource /\ Ours \subseteq Resource
          BY <1>1 DEF Resource, Ours
    <3>2. file'[idx] = tx.before[idx] /\ \A r \in Resource \ {idx} : file'[r] = file[r]
          BY <1>4, <3>1 DEF IInv, TypeOK, Contents
    <3>3. tx.before = last.before
          BY <2>1 DEF OfLast
    <3> QED BY <2>4, <3>1, <3>2, <3>3 DEF AtBefore, AtAfter
  <2>6. DiskInv'
    <3>1. \A r \in Ours : AtBefore(r)' \/ (r <= journal.attempted /\ AtAfter(r)')
      <4>1. \A r \in Ours : AtBefore(r) \/ (r <= journal.attempted /\ AtAfter(r))
            BY <2>1 DEF IInv, DiskInv, JournalInv
      <4> QED BY <2>5, <4>1
    <3>2. journal.phase = "RolledBack" => \A r \in Ours : AtBefore(r)'
          BY <2>1, <2>5 DEF IInv, DiskInv, JournalInv
    <3> QED BY <2>1, <2>4, <3>1, <3>2
            DEF IInv, DiskInv, JournalInv, AllOrNothing, OfLast
  <2>7. failures = 0 => \A r \in Ours : r >= idx => AtBefore(r)'
    <3>1. \A r \in Ours : r >= idx => r > idx \/ r = idx
          BY <1>1 DEF Ours, Resource
    <3> QED BY <1>2, <2>5, <3>1
  <2>8. PcInv'
        BY <1>1, <1>4, <2>1, <2>4, <2>7, JournalFields
        DEF Goto, PcInv, ThreadInv, ApplyInv, RollbackInv, JournalLabels,
            ApplyLabels, RollbackLabels, OfLast
  <2> QED BY <2>3, <2>6, <2>8 DEF IInv
<1> QED BY <1>3, <1>4 DEF RollbackWrite

LEMMA RollbackVerifyStep == ASSUME IInv, RollbackVerify PROVE IInv'
<1>1. pc = "rbVerify" /\ pc \in RollbackLabels /\ pc # "rbPersist"
      BY DEF RollbackVerify, RollbackLabels
<1>2. failures = 0 => \A r \in Ours : r >= idx => AtBefore(r)
      BY <1>1 DEF IInv, PcInv, RollbackInv
<1>3. PICK f \in {0, 1} : RollbackNext(f) /\ (Fault \/ Works)
      BY DEF RollbackVerify
<1> QED BY <1>1, <1>2, <1>3, RollbackMoves
        DEF RollbackVerify, disk, aux, diskVars, IInv, TypeOK

LEMMA RollbackPersistStep == ASSUME IInv, RollbackPersist PROVE IInv'
<1> DEFINE t == RolledBack(tx, failures)
<1>1. /\ pc = "rbPersist" /\ goal # "none" /\ journal # NoJournal /\ failures \in Nat
      /\ OfLast(tx) /\ OfLast(journal) /\ journal.phase # "Committed"
      /\ journal.attempted <= tx.attempted
      /\ tx \in Journal /\ journal \in Journal /\ last \in Writes
      BY RollingFacts DEF RollbackPersist, RollbackLabels
<1>2. /\ t \in Journal /\ OfLast(t) /\ t.attempted = tx.attempted
      /\ t.phase = IF failures = 0 THEN "RolledBack" ELSE "RecoveryRequired"
  <2>1. ASSUME NEW p \in Phase, t = [tx EXCEPT !.phase = p]
        PROVE  t \in Journal /\ OfLast(t) /\ t.attempted = tx.attempted /\ t.phase = p
        BY <1>1, <2>1 DEF Journal, OfLast
  <2> QED BY <2>1 DEF RolledBack, Phase
<1>3. failures = 0 => \A r \in Ours : AtBefore(r)
      BY <1>1 DEF IInv, PcInv, RollbackInv
<1>4. UNCHANGED <<file, audit, plan, review, aux>>
      BY DEF RollbackPersist
<1> HIDE DEF t
<1>5. ASSUME NEW f \in Nat, AfterRollback(t, f) PROVE
         /\ tx' \in Journal \cup {NoJournal} /\ caller' \in Caller /\ pc' \in Label
         /\ idx' \in 0..N /\ goal' \in Goal /\ failures' \in Nat
      BY <1>2, <1>5 DEF AfterRollback, Return, IInv, TypeOK, Label
<1>6. ASSUME NEW f \in Nat, AfterRollback(t, f), journal' \in Journal, OfLast(journal'),
             journal'.attempted <= t.attempted, journal'.phase # "Committed",
             f = 0 => journal'.phase = "RolledBack"
      PROVE  PcInv'
  <2>1. CASE Return
        BY <2>1, ReturnIdle
  <2>2. CASE /\ pc' = goal /\ tx' = t /\ failures' = f /\ UNCHANGED <<caller, idx, goal>>
             /\ goal = "audit" \/ (goal = "clear" /\ f = 0)
        BY <1>2, <1>4, <1>6, <2>2, JournalFields
        DEF PcInv, ThreadInv, ApplyInv, RollbackInv, JournalLabels, ApplyLabels,
            RollbackLabels, OfLast, aux
  <2> QED BY <1>6, <2>1, <2>2 DEF AfterRollback
<1>7. CASE Works /\ journal' = t /\ AfterRollback(t, failures)
  <2>1. TypeOK'
        BY <1>1, <1>2, <1>4, <1>5, <1>7, FaultType DEF IInv, TypeOK, aux
  <2>2. PcInv'
        BY <1>1, <1>2, <1>6, <1>7, JournalFields
  <2>3. \A r \in Ours : AtBefore(r) \/ (r <= t.attempted /\ AtAfter(r))
        BY <1>1, <1>2, JournalFields DEF IInv, DiskInv, JournalInv, Ours, Resource
  <2>4. DiskInv'
        BY <1>1, <1>2, <1>3, <1>4, <1>7, <2>3, JournalFields
        DEF IInv, DiskInv, JournalInv, AllOrNothing, aux, Ours, AtBefore, AtAfter, OfLast
  <2> QED BY <2>1, <2>2, <2>4 DEF IInv
<1>8. CASE Fault /\ UNCHANGED journal /\ AfterRollback(t, failures + 1)
  <2>1. failures + 1 \in Nat /\ failures + 1 # 0
        BY <1>1
  <2>2. TypeOK'
        BY <1>4, <1>5, <1>8, <2>1, FaultType DEF IInv, TypeOK, aux
  <2>3. PcInv'
        BY <1>1, <1>2, <1>6, <1>8, <2>1
  <2> QED BY <1>4, <1>8, <2>2, <2>3, DiskUnchanged DEF IInv, aux, diskVars
<1> QED BY <1>7, <1>8 DEF RollbackPersist, t

-----------------------------------------------------------------------------
\* The audit can only be reached by a verified publication or a rolled back one.
LEMMA AuditStep == ASSUME IInv, Audit PROVE IInv'
<1>1. /\ pc = "audit" /\ journal # NoJournal /\ OfLast(tx) /\ OfLast(journal)
      /\ journal.phase # "Committed" /\ journal.attempted <= tx.attempted
      /\ tx \in Journal /\ journal \in Journal /\ last \in Writes /\ goal \in {"none", "audit"}
      BY OnDisk DEF IInv, PcInv, ThreadInv, Audit, JournalLabels, ApplyLabels, RollbackLabels
<1>2. UNCHANGED <<file, journal, plan, review, aux>>
      BY DEF Audit
<1>a. Recorded \in [PlanId -> {"none", "applied", "failed"}]
      BY DEF IInv, TypeOK, Recorded
\* The journal is not Committed and still on disk: what is recorded does not matter yet.
<1>b. ASSUME audit' \in {audit, Recorded}
      PROVE  DiskInv'
      BY <1>1, <1>2, <1>b DEF IInv, DiskInv, JournalInv, AllOrNothing, aux, Ours, AtBefore,
         AtAfter, OfLast
<1>3. CASE Fault /\ StartRollback(tx, "keep") /\ audit' \in {audit, Recorded}
  <2>1. TypeOK'
        BY <1>1, <1>2, <1>3, <1>a, StartRollbackType, FaultType DEF IInv, TypeOK, aux, Goal
  <2>2. PcInv'
        BY <1>1, <1>2, <1>3, RollbackStarts DEF IInv, aux, Goal
  <2> QED BY <1>3, <1>b, <2>1, <2>2 DEF IInv
<1>4. CASE /\ Works
           /\ audit' = Recorded
           /\ \/ goal # "audit" /\ Goto("complete", idx)
              \/ goal = "audit" /\ failures = 0 /\ Goto("clear", idx)
              \/ goal = "audit" /\ failures # 0 /\ Return
  <2>2. TypeOK'
        BY <1>2, <1>4, <1>a, FaultType, ThreadType DEF IInv, TypeOK, aux, Label
  <2>3. DiskInv'
        BY <1>4, <1>b
  <2>4. goal # "audit" => audit'[last.id] = "applied"
        BY <1>1, <1>4, WritesFields DEF IInv, TypeOK, OfLast, Recorded
  <2>5. CASE goal # "audit" /\ Goto("complete", idx)
    <3>1. \A r \in Ours : AtAfter(r)
          BY <1>1, <2>5 DEF IInv, PcInv, ApplyInv
    <3> QED BY <1>1, <1>2, <2>2, <2>3, <2>4, <2>5, <3>1, JournalFields
            DEF IInv, Goto, PcInv, ThreadInv, ApplyInv, RollbackInv, JournalLabels, ApplyLabels,
                RollbackLabels, OfLast, aux, Ours, AtAfter
  <2>6. CASE goal = "audit" /\ failures = 0 /\ Goto("clear", idx)
    <3>1. journal.phase = "RolledBack"
          BY <1>1, <2>6 DEF IInv, PcInv, RollbackInv
    <3> QED BY <1>1, <1>2, <2>2, <2>3, <2>6, <3>1, JournalFields
            DEF IInv, Goto, PcInv, ThreadInv, ApplyInv, RollbackInv, JournalLabels, ApplyLabels,
                RollbackLabels, OfLast, aux
  <2>7. CASE Return
        BY <2>2, <2>3, <2>7, ReturnIdle DEF IInv
  <2> QED BY <1>4, <2>5, <2>6, <2>7
<1> QED BY <1>3, <1>4 DEF Audit

LEMMA CompleteStep == ASSUME IInv, Complete PROVE IInv'
<1> DEFINE t == [tx EXCEPT !.phase = "Committed"]
<1>1. /\ pc = "complete" /\ journal # NoJournal /\ OfLast(tx) /\ OfLast(journal)
      /\ tx \in Journal /\ journal \in Journal /\ journal.attempted <= tx.attempted
      BY OnDisk DEF IInv, PcInv, ThreadInv, Complete, JournalLabels, ApplyLabels, RollbackLabels
<1>2. /\ t \in Journal /\ OfLast(t) /\ t.attempted = tx.attempted /\ t.phase = "Committed"
      BY <1>1 DEF Journal, Phase, OfLast
<1>3. audit[last.id] = "applied" /\ \A r \in Ours : AtAfter(r)
      BY <1>1 DEF IInv, PcInv, ApplyInv
<1>4. UNCHANGED <<file, audit, plan, review, aux>>
      BY DEF Complete
<1> HIDE DEF t
<1>5. CASE Fault /\ UNCHANGED journal /\ Return
  <2>1. TypeOK'
        BY <1>4, <1>5, FaultType, ThreadType DEF IInv, TypeOK, aux
  <2> QED BY <1>4, <1>5, <2>1, DiskUnchanged, ReturnIdle DEF IInv, aux, diskVars
<1>6. CASE /\ Works /\ journal' = t
           /\ tx' = t /\ pc' = "clear" /\ UNCHANGED <<caller, idx, goal, failures>>
  <2>1. TypeOK'
        BY <1>2, <1>4, <1>6, FaultType DEF IInv, TypeOK, aux, Label
  <2>2. \A r \in Ours : AtBefore(r) \/ (r <= t.attempted /\ AtAfter(r))
        BY <1>1, <1>2, JournalFields DEF IInv, DiskInv, JournalInv, Ours, Resource
  <2>3. DiskInv'
        BY <1>1, <1>2, <1>3, <1>4, <1>6, <2>2, JournalFields
        DEF IInv, DiskInv, JournalInv, AllOrNothing, aux, Ours, AtBefore, AtAfter, OfLast
  <2>4. PcInv'
        BY <1>2, <1>4, <1>6, JournalFields
        DEF PcInv, ThreadInv, ApplyInv, RollbackInv, JournalLabels, ApplyLabels, RollbackLabels,
            OfLast, aux
  <2> QED BY <2>1, <2>3, <2>4 DEF IInv
<1> QED BY <1>5, <1>6 DEF Complete, t

\* The journal is cleared only in a final phase, which says where every target is.
LEMMA ClearStep == ASSUME IInv, Clear PROVE IInv'
<1>1. journal # NoJournal /\ journal.phase \in {"Committed", "RolledBack"}
      BY DEF IInv, PcInv, ThreadInv, Clear, JournalLabels
<1>2. TypeOK'
      BY FaultType, ThreadType DEF Clear, IInv, TypeOK, aux
<1>3. DiskInv'
  <2>1. CASE UNCHANGED journal
        BY <2>1, DiskUnchanged DEF IInv, Clear, aux, diskVars
  <2>2. CASE journal' = NoJournal
        BY <1>1, <2>2 DEF IInv, Clear, DiskInv, JournalInv, AllOrNothing, aux, Ours, AtBefore,
                          AtAfter
  <2> QED BY <2>1, <2>2 DEF Clear
<1> QED BY <1>2, <1>3, ReturnIdle DEF IInv, Clear

-----------------------------------------------------------------------------
LEMMA PreviewRecoveryStep == ASSUME IInv, PreviewRecovery PROVE IInv'
<1>1. TypeOK'
      BY DEF PreviewRecovery, IInv, TypeOK, Review, disk, thread, aux
<1> QED BY <1>1, DiskUnchanged, PcUnchanged
        DEF IInv, PreviewRecovery, disk, thread, aux, diskVars

LEMMA RecoveryRefusedStep == ASSUME IInv, RecoveryRefused PROVE IInv'
<1>1. TypeOK'
      BY DEF RecoveryRefused, IInv, TypeOK, disk, thread, aux
<1> QED BY <1>1, DiskUnchanged, PcUnchanged
        DEF IInv, RecoveryRefused, disk, thread, aux, diskVars

LEMMA RecoverRestoreStep == ASSUME IInv, RecoverRestore PROVE IInv'
<1>1. journal \in Journal
      BY DEF RecoverRestore, Reviewed, IInv, TypeOK, Review, NoReview
<1>2. journal # NoJournal /\ journal.attempted \in 0..N
      BY <1>1, JournalFields
<1>3. OfLast(journal) /\ DiskInv'
      BY <1>2, DiskUnchanged DEF RecoverRestore, disk, aux, diskVars, IInv, DiskInv, JournalInv
<1>4. CASE journal.phase = "Committed"
  <2>1. TypeOK'
        BY <1>1, <1>4 DEF RecoverRestore, IInv, TypeOK, disk, aux, Caller, Goal, Label
  <2>2. PcInv'
        BY <1>2, <1>3, <1>4
        DEF RecoverRestore, disk, aux, PcInv, ThreadInv, ApplyInv, RollbackInv, JournalLabels,
            ApplyLabels, RollbackLabels, OfLast
  <2> QED BY <1>3, <2>1, <2>2 DEF IInv
<1>5. CASE journal.phase # "Committed"
  <2>1. TypeOK'
        BY <1>1, <1>2, <1>5
        DEF RecoverRestore, Attempted, IInv, TypeOK, disk, aux, Caller, Goal, Label
  <2>2. \A r \in Ours : r > journal.attempted => AtBefore(r)
        BY <1>2 DEF IInv, DiskInv, JournalInv, Ours, Resource
  <2>3. ThreadInv' /\ ApplyInv'
        BY <1>2, <1>3, <1>5
        DEF RecoverRestore, Attempted, disk, aux, ThreadInv, ApplyInv, JournalLabels,
            ApplyLabels, RollbackLabels, OfLast
  <2>4. RollbackInv'
    <3>1. CASE journal.attempted = 0
          BY <1>2, <1>5, <2>2, <3>1 DEF RecoverRestore, Attempted, disk, aux, RollbackInv, Ours,
                                        AtBefore, Resource
    <3>2. CASE journal.attempted # 0
          BY <1>5, <2>2, <3>2 DEF RecoverRestore, Attempted, disk, aux, RollbackInv, Ours, AtBefore
    <3> QED BY <3>1, <3>2
  <2> QED BY <1>3, <2>1, <2>3, <2>4 DEF IInv, PcInv
<1> QED BY <1>4, <1>5

LEMMA RecoverKeepStep == ASSUME IInv, RecoverKeep PROVE IInv'
<1>1. tx = NoJournal /\ pc = "idle" /\ UNCHANGED <<thread, file, audit, plan, edited, dirty, lost, last>>
      BY DEF RecoverKeep, Reviewed, IInv, PcInv, ThreadInv
<1>2. TypeOK'
      BY <1>1, FaultType DEF RecoverKeep, IInv, TypeOK, thread
<1>3. DiskInv'
  <2>1. CASE UNCHANGED <<journal, kept>>
        BY <1>1, <2>1, DiskUnchanged DEF IInv, diskVars
  <2>2. CASE journal' = NoJournal /\ kept' = "yes"
        BY <2>2 DEF DiskInv, JournalInv, AllOrNothing
  <2> QED BY <2>1, <2>2 DEF RecoverKeep
<1>4. PcInv'
      BY <1>1 DEF thread, PcInv, ThreadInv, ApplyInv, RollbackInv, JournalLabels, ApplyLabels,
                  RollbackLabels
<1> QED BY <1>2, <1>3, <1>4 DEF IInv

-----------------------------------------------------------------------------
\* Another program's edit only takes a target out of the ones promised.
LEMMA EditStep == ASSUME IInv, Edit PROVE IInv'
<1>1. PICK r \in Resource, c \in Content :
         /\ file' = [file EXCEPT ![r] = c]
         /\ edited' = edited \cup {r} /\ dirty' = dirty \cup {r}
      BY DEF Edit
<1>2. UNCHANGED <<journal, audit, plan, thread, review, lost, last, kept>>
      BY DEF Edit
<1>3. TypeOK'
  <2>1. file' \in Contents
        BY <1>1 DEF IInv, TypeOK, Contents
  <2>2. budget' \in Budget
        BY SpendType DEF Edit, IInv, TypeOK
  <2> QED BY <1>1, <1>2, <2>1, <2>2 DEF IInv, TypeOK, thread
<1>4. /\ Ours' \subseteq Ours
      /\ \A q \in Ours' : (AtBefore(q) <=> AtBefore(q)') /\ (AtAfter(q) <=> AtAfter(q)')
                          /\ file'[q] = file[q]
      BY <1>1, <1>2 DEF IInv, TypeOK, Contents, Ours, AtBefore, AtAfter
<1>5. JournalInv'
      BY <1>2, <1>4 DEF IInv, DiskInv, JournalInv, OfLast
<1>6. AllOrNothing'
      BY <1>2, <1>4 DEF IInv, DiskInv, AllOrNothing
<1>7. ThreadInv'
      BY <1>2 DEF IInv, PcInv, ThreadInv, thread, OfLast
<1>8. ApplyInv'
      BY <1>2, <1>4 DEF IInv, PcInv, ApplyInv, thread
<1>9. RollbackInv'
      BY <1>2, <1>4 DEF IInv, PcInv, RollbackInv, thread
<1> QED BY <1>3, <1>5, <1>6, <1>7, <1>8, <1>9 DEF IInv, DiskInv, PcInv

LEMMA CrashStep == ASSUME IInv, Crash PROVE IInv'
<1>1. TypeOK'
      BY SpendType, ThreadType DEF Crash, IInv, TypeOK, disk, aux
<1> QED BY <1>1, DiskUnchanged, ReturnIdle DEF IInv, Crash, disk, aux, diskVars

-----------------------------------------------------------------------------
(***************************************************************************)
(* The inductive invariant holds.                                          *)
(***************************************************************************)
LEMMA InitInv == Init => IInv
<1> SUFFICES ASSUME Init PROVE IInv
    OBVIOUS
<1>1. budget \in Budget
      BY BoundAssumption DEF Init, Budget
<1>2. audit \in [PlanId -> {"none", "applied", "failed"}]
      BY DEF Init
<1>3. idx \in 0..N
      BY NAssumption DEF Init
<1>4. caller \in Caller /\ pc \in Label /\ goal \in Goal /\ failures \in Nat
      BY DEF Init, Caller, Label, Goal
<1>5. /\ file \in Contents /\ journal = NoJournal /\ plan = NoPlan /\ tx = NoJournal
      /\ review = NoReview /\ last = NoPlan /\ kept \in {"yes", "no"}
      /\ edited = {} /\ dirty = {} /\ lost = {}
      BY DEF Init, Contents
<1>6. TypeOK
      BY <1>1, <1>2, <1>3, <1>4, <1>5 DEF TypeOK
<1>7. DiskInv /\ PcInv
      BY <1>5 DEF Init, DiskInv, JournalInv, AllOrNothing, PcInv, ThreadInv, ApplyInv,
                  RollbackInv, JournalLabels, ApplyLabels, RollbackLabels
<1> QED BY <1>6, <1>7 DEF IInv

LEMMA NextInv == IInv /\ [Next]_vars => IInv'
<1> SUFFICES ASSUME IInv, [Next]_vars PROVE IInv'
    OBVIOUS
<1>1. CASE Thread
      BY <1>1, BeginReadStep, BeginPersistStep, ApplyReadStep, ApplyIntentStep, ApplyWriteStep,
         ApplyVerifyStep, ReverifyStep, RollbackReadStep, RollbackWriteStep, RollbackVerifyStep,
         RollbackPersistStep, AuditStep, CompleteStep, ClearStep
      DEF Thread
<1>2. CASE User
      BY <1>2, PrepareStep, DiscardStep, StartStep, PreviewRecoveryStep, RecoveryRefusedStep,
         RecoverRestoreStep, RecoverKeepStep
      DEF User
<1>3. CASE Edit
      BY <1>3, EditStep
<1>4. CASE Crash
      BY <1>4, CrashStep
<1>5. CASE UNCHANGED vars
  <2>1. TypeOK'
        BY <1>5 DEF IInv, TypeOK, vars, disk, thread, aux
  <2> QED BY <1>5, <2>1, DiskUnchanged, PcUnchanged DEF IInv, vars, disk, thread, aux, diskVars
<1> QED BY <1>1, <1>2, <1>3, <1>4, <1>5 DEF Next

\* The inductive invariant: what the journal, the labels and the counters of the
\* thread say about the targets (transaction.rs as a whole).
THEOREM Inductive == Spec => []IInv
BY InitInv, NextInv, PTL DEF Spec

-----------------------------------------------------------------------------
(***************************************************************************)
(* The theorems.                                                           *)
(***************************************************************************)
LEMMA WriteAheadFollows == IInv => WriteAhead
<1> SUFFICES ASSUME IInv, last # NoPlan, kept = "no",
                    NEW r \in Ours, file[r] # last.before[r]
             PROVE  \/ journal # NoJournal /\ journal.id = last.id /\ r <= journal.attempted
                    \/ audit[last.id] = "applied"
    BY DEF WriteAhead, IInv, TypeOK
<1>1. CASE journal # NoJournal
      BY <1>1 DEF IInv, DiskInv, JournalInv, OfLast, AtBefore
<1>2. CASE journal = NoJournal
      BY <1>2 DEF IInv, DiskInv, AllOrNothing
<1> QED BY <1>1, <1>2

\* Type correctness of every variable of Transaction.
THEOREM TypeCorrect == Spec => []TypeOK
<1>1. IInv => TypeOK
      BY DEF IInv
<1> QED BY <1>1, Inductive, PTL

\* The write-ahead rule of Transaction::apply, whatever fails, dies or is restored.
THEOREM WriteAheadHolds == Spec => []WriteAhead
BY WriteAheadFollows, Inductive, PTL

\* Once its journal is gone, a publication that was not dismissed happened as a
\* whole or not at all.
THEOREM AllOrNothingHolds == Spec => []AllOrNothing
<1>1. IInv => AllOrNothing
      BY DEF IInv, DiskInv
<1> QED BY <1>1, Inductive, PTL

\* A Committed journal is audited and published: recovery may clear it.
THEOREM CommittedIsAuditedHolds == Spec => []CommittedIsAudited
<1>1. IInv => CommittedIsAudited
      BY DEF IInv, DiskInv, JournalInv, CommittedIsAudited, OfLast, AtAfter
<1> QED BY <1>1, Inductive, PTL

-----------------------------------------------------------------------------
(***************************************************************************)
(* The window between the check of a target and its replacement.           *)
(***************************************************************************)

\* Unless another program wrote it since the check, the target still holds the
\* bytes that were checked.
WindowInv ==
    /\ (pc \in {"intent", "write"} /\ idx \notin dirty) => file[idx] = tx.before[idx]
    /\ (pc = "rbWrite" /\ idx \notin dirty) => file[idx] = tx.after[idx]

Checked == {"intent", "write", "rbWrite"}

LEMMA WindowElsewhere == ASSUME pc' \notin Checked PROVE WindowInv'
BY DEF WindowInv, Checked

LEMMA WindowUnchanged ==
    ASSUME WindowInv, UNCHANGED <<file, dirty, thread>>
    PROVE  WindowInv'
BY DEF WindowInv, thread

LEMMA NextWriteLeaves == ASSUME NEW t, NextWrite(t) PROVE pc' \notin Checked
BY DEF NextWrite, Checked

LEMMA RollbackLeaves ==
    /\ \A f : RollbackNext(f) => pc' \notin Checked
    /\ \A t, g : StartRollback(t, g) => pc' \notin Checked
    /\ \A t : ApplyFailed(t) => pc' \notin Checked
    /\ Return => pc' \notin Checked
BY DEF RollbackNext, StartRollback, ApplyFailed, Return, Checked

LEMMA WindowThread == ASSUME IInv, WindowInv, Thread PROVE WindowInv'
<1>1. CASE BeginRead
      BY <1>1, WindowElsewhere, RollbackLeaves DEF BeginRead, Goto, Checked
<1>2. CASE BeginPersist
      BY <1>2, WindowElsewhere, RollbackLeaves DEF BeginPersist, Goto, Checked
<1>3. CASE ApplyRead
  <2>1. CASE ApplyFailed(tx)
        BY <2>1, WindowElsewhere, RollbackLeaves
  <2>2. CASE file[idx] = tx.before[idx] /\ Goto("intent", idx)
        BY <1>3, <2>2 DEF ApplyRead, Goto, disk, WindowInv
  <2> QED BY <1>3, <2>1, <2>2 DEF ApplyRead
<1>4. CASE ApplyIntent
  <2> DEFINE t == Intent(tx, idx)
  <2>1. CASE ApplyFailed(t)
        BY <2>1, WindowElsewhere, RollbackLeaves
  <2>2. CASE NextWrite(t)
        BY <2>2, WindowElsewhere, NextWriteLeaves
  <2>3. CASE tx' = t /\ pc' = "write" /\ idx' = idx
    <3>1. t.before = tx.before
          BY <1>4, OnDisk, IntentFields
          DEF ApplyIntent, IInv, PcInv, ThreadInv, JournalLabels, ApplyLabels
    <3> HIDE DEF t
    <3> QED BY <1>4, <2>3, <3>1 DEF ApplyIntent, aux, WindowInv
  <2> QED BY <1>4, <2>1, <2>2, <2>3 DEF ApplyIntent
<1>5. CASE ApplyWrite
      BY <1>5, WindowElsewhere, RollbackLeaves DEF ApplyWrite, Goto, Checked
<1>6. CASE ApplyVerify
      BY <1>6, WindowElsewhere, RollbackLeaves, NextWriteLeaves DEF ApplyVerify
<1>7. CASE Reverify
      BY <1>7, WindowElsewhere, RollbackLeaves DEF Reverify, Goto, Checked
<1>8. CASE RollbackRead
  <2>1. CASE RollbackNext(0) \/ RollbackNext(1)
        BY <2>1, WindowElsewhere, RollbackLeaves
  <2>2. CASE MayRestore(tx, idx) /\ Goto("rbWrite", idx)
        BY <1>8, <2>2 DEF RollbackRead, MayRestore, Goto, disk, WindowInv
  <2> QED BY <1>8, <2>1, <2>2 DEF RollbackRead
<1>9. CASE RollbackWrite
      BY <1>9, WindowElsewhere, RollbackLeaves DEF RollbackWrite, Goto, Checked
<1>10. CASE RollbackVerify
       BY <1>10, WindowElsewhere, RollbackLeaves DEF RollbackVerify
<1>11. CASE RollbackPersist
  <2>1. PICK t, f : AfterRollback(t, f)
        BY <1>11 DEF RollbackPersist
  <2> QED BY <2>1, WindowElsewhere, RollbackLeaves DEF AfterRollback, Checked
<1>12. CASE Audit
       BY <1>12, WindowElsewhere, RollbackLeaves DEF Audit, Goto, Checked
<1>13. CASE Complete
       BY <1>13, WindowElsewhere, RollbackLeaves DEF Complete, Checked
<1>14. CASE Clear
       BY <1>14, WindowElsewhere, RollbackLeaves DEF Clear
<1> QED BY <1>1, <1>2, <1>3, <1>4, <1>5, <1>6, <1>7, <1>8, <1>9, <1>10, <1>11, <1>12,
           <1>13, <1>14, WindowElsewhere DEF Thread

LEMMA WindowNext == IInv /\ WindowInv /\ [Next]_vars => WindowInv'
<1> SUFFICES ASSUME IInv, WindowInv, [Next]_vars PROVE WindowInv'
    OBVIOUS
<1>1. CASE Thread
      BY <1>1, WindowThread
<1>2. CASE Start
      BY <1>2, WindowElsewhere, WindowUnchanged DEF Start, disk, aux, Checked
<1>3. CASE RecoverRestore
      BY <1>3, WindowElsewhere DEF RecoverRestore, Checked
<1>4. CASE Prepare \/ Discard \/ PreviewRecovery \/ RecoveryRefused \/ RecoverKeep
           \/ UNCHANGED vars
      BY <1>4, WindowUnchanged
      DEF Prepare, Discard, PreviewRecovery, RecoveryRefused, RecoverKeep, disk, aux, vars
<1>5. CASE Edit
  <2>1. PICK r \in Resource, c \in Content :
           file' = [file EXCEPT ![r] = c] /\ dirty' = dirty \cup {r}
        BY <1>5 DEF Edit
  <2>2. \A q : q \notin dirty' => q \notin dirty /\ file'[q] = file[q]
        BY <2>1 DEF IInv, TypeOK, Contents
  <2> QED BY <1>5, <2>2 DEF Edit, thread, WindowInv
<1>6. CASE Crash
      BY <1>6, WindowElsewhere, RollbackLeaves DEF Crash
<1> QED BY <1>1, <1>2, <1>3, <1>4, <1>5, <1>6 DEF Next, User

LEMMA LossIsRaced == IInv /\ WindowInv /\ [Next]_vars => [lost' \ lost \subseteq dirty]_vars
<1> SUFFICES ASSUME IInv, WindowInv, [Next]_vars PROVE lost' \ lost \subseteq dirty
    OBVIOUS
<1>1. CASE ApplyWrite
      BY <1>1 DEF ApplyWrite, WindowInv
<1>2. CASE RollbackWrite
      BY <1>2 DEF RollbackWrite, WindowInv
<1>3. CASE BeginPersist
      BY <1>3 DEF BeginPersist
<1>4. CASE Thread /\ ~ApplyWrite /\ ~RollbackWrite /\ ~BeginPersist
      BY <1>4 DEF Thread, aux, BeginRead, ApplyRead, ApplyIntent, ApplyVerify, Reverify,
         RollbackRead, RollbackVerify, RollbackPersist, Audit, Complete, Clear
<1>5. CASE User \/ Edit \/ Crash \/ UNCHANGED vars
      BY <1>5 DEF User, Prepare, Discard, Start, PreviewRecovery, RecoveryRefused,
         RecoverRestore, RecoverKeep, Edit, Crash, vars, aux
<1> QED BY <1>1, <1>2, <1>3, <1>4, <1>5 DEF Next

\* A managed write replaces bytes of another program only when they arrived
\* between the check of that target and its replacement.
THEOREM LostOnlyInWindowHolds == Spec => LostOnlyInWindow
<1>1. Init => WindowInv
      BY DEF Init, WindowInv
<1> QED BY <1>1, InitInv, NextInv, WindowNext, LossIsRaced, PTL DEF Spec, LostOnlyInWindow

-----------------------------------------------------------------------------
(***************************************************************************)
(* The refinement.                                                         *)
(***************************************************************************)
publication == IF journal = NoJournal THEN NoPlan ELSE last

LEMMA AbstractStutters ==
    ASSUME UNCHANGED <<file, edited, kept, publication>>
    PROVE  UNCHANGED Abstract!vars
BY DEF Abstract!vars, publication

\* A replacement of a target by its before or its after bytes is a Move.
LEMMA WriteMoves ==
    ASSUME IInv, journal # NoJournal, idx \in 1..N,
           UNCHANGED <<journal, last, edited, kept>>,
           NEW c \in {last.before[idx], last.after[idx]},
           file' = [file EXCEPT ![idx] = c]
    PROVE  Abstract!Move
<1>1. last # NoPlan /\ publication = last /\ publication' = last
      BY DEF IInv, DiskInv, JournalInv, publication
<1>2. idx \in Resource
      BY DEF Resource
<1>3. file[idx] \in {last.before[idx], last.after[idx]} \/ idx \in edited
      BY <1>2 DEF IInv, DiskInv, JournalInv, Ours, AtBefore, AtAfter
<1> QED BY <1>1, <1>2, <1>3 DEF Abstract!Move, publication

LEMMA StepRefines == IInv /\ [Next]_vars => [Abstract!Next]_(Abstract!vars)
<1> SUFFICES ASSUME IInv, [Next]_vars PROVE Abstract!Next \/ UNCHANGED Abstract!vars
    OBVIOUS
<1>1. CASE BeginPersist
  <2>1. CASE UNCHANGED <<journal, edited, last, kept>>
        BY <1>1, <2>1, AbstractStutters DEF BeginPersist, publication
  <2>2. CASE /\ journal' = tx /\ kept' = "no"
             /\ edited' = {r \in Resource : file[r] # tx.before[r]}
             /\ last' = [id |-> tx.id, before |-> tx.before, after |-> tx.after]
    <3>1. tx \in Journal /\ journal = NoJournal
          BY <1>1, HeldJournal DEF IInv, BeginPersist, PcInv, ThreadInv
    <3>2. last' # NoPlan /\ last'.before = tx.before /\ journal' # NoJournal
          BY <2>2, <3>1, JournalFields DEF NoPlan, PlanId
    <3> QED BY <1>1, <2>2, <3>1, <3>2 DEF BeginPersist, Abstract!Next, Abstract!Open
  <2> QED BY <1>1, <2>1, <2>2 DEF BeginPersist
<1>2. CASE ApplyWrite
  <2>1. CASE UNCHANGED file
        BY <1>2, <2>1, AbstractStutters DEF ApplyWrite, publication
  <2>2. CASE file' = [file EXCEPT ![idx] = tx.after[idx]]
        BY <1>2, <2>2, ApplyingFacts, WriteMoves
        DEF ApplyWrite, ApplyLabels, OfLast, Abstract!Next
  <2> QED BY <1>2, <2>1, <2>2 DEF ApplyWrite
<1>3. CASE RollbackWrite
  <2>1. CASE UNCHANGED file
        BY <1>3, <2>1, AbstractStutters DEF RollbackWrite, publication
  <2>2. CASE file' = [file EXCEPT ![idx] = tx.before[idx]]
        BY <1>3, <2>2, RollingFacts, WriteMoves
        DEF RollbackWrite, RollbackLabels, OfLast, Abstract!Next
  <2> QED BY <1>3, <2>1, <2>2 DEF RollbackWrite
<1>4. CASE Clear
  <2>1. CASE UNCHANGED journal
        BY <1>4, <2>1, AbstractStutters DEF Clear, aux, publication
  <2>2. CASE journal' = NoJournal
    <3>1. journal # NoJournal /\ journal.phase \in {"Committed", "RolledBack"}
          BY <1>4 DEF IInv, PcInv, ThreadInv, Clear, JournalLabels
    <3>2. /\ last # NoPlan
          /\ \/ \A r \in Ours : AtBefore(r)
             \/ \A r \in Ours : AtAfter(r)
          BY <3>1 DEF IInv, DiskInv, JournalInv
    <3> QED BY <1>4, <2>2, <3>1, <3>2
            DEF Clear, aux, Abstract!Next, Abstract!Settle, Abstract!Settled, Ours, AtBefore, AtAfter
  <2> QED BY <1>4, <2>1, <2>2 DEF Clear
<1>5. CASE RecoverKeep
  <2>1. CASE UNCHANGED <<journal, kept>>
        BY <1>5, <2>1, AbstractStutters DEF RecoverKeep, publication
  <2>2. CASE journal' = NoJournal /\ kept' = "yes"
    <3>1. journal # NoJournal
          BY <1>5, JournalFields DEF RecoverKeep, Reviewed, IInv, TypeOK, Review, NoReview
    <3>2. last # NoPlan
          BY <3>1 DEF IInv, DiskInv, JournalInv
    <3> QED BY <1>5, <2>2, <3>1, <3>2 DEF RecoverKeep, Abstract!Next, Abstract!Keep
  <2> QED BY <1>5, <2>1, <2>2 DEF RecoverKeep
<1>6. CASE Edit
      BY <1>6 DEF Edit, Abstract!Next, Abstract!Edit
<1>7. CASE ApplyIntent \/ RollbackPersist \/ Complete
  <2>1. journal # NoJournal /\ tx \in Journal
        BY <1>7, OnDisk DEF ApplyIntent, RollbackPersist, Complete, IInv, PcInv, ThreadInv,
           JournalLabels, ApplyLabels, RollbackLabels
  <2>2. journal' # NoJournal
    <3>1. CASE ApplyIntent
          BY <2>1, <3>1, ApplyingFacts, IntentFields, JournalFields DEF ApplyIntent, ApplyLabels
    <3>2. ASSUME NEW p \in Phase, journal' = [tx EXCEPT !.phase = p]
          PROVE  journal' \in Journal
          BY <2>1, <3>2 DEF Journal
    <3>3. CASE RollbackPersist
          BY <2>1, <3>2, <3>3, JournalFields DEF RollbackPersist, RolledBack, Phase
    <3>4. CASE Complete
          BY <2>1, <3>2, <3>4, JournalFields DEF Complete, Phase
    <3> QED BY <1>7, <3>1, <3>3, <3>4
  <2> QED BY <1>7, <2>1, <2>2, AbstractStutters
          DEF ApplyIntent, RollbackPersist, Complete, aux, publication
<1>8. CASE BeginRead \/ ApplyRead \/ ApplyVerify \/ Reverify \/ RollbackRead \/ RollbackVerify
           \/ Audit
      BY <1>8, AbstractStutters
      DEF BeginRead, ApplyRead, ApplyVerify, Reverify, RollbackRead, RollbackVerify, Audit, disk,
          aux, publication
<1>9. CASE Prepare \/ Discard \/ Start \/ PreviewRecovery \/ RecoveryRefused \/ RecoverRestore
           \/ Crash \/ UNCHANGED vars
      BY <1>9, AbstractStutters
      DEF Prepare, Discard, Start, PreviewRecovery, RecoveryRefused, RecoverRestore, Crash,
          disk, aux, vars, publication
<1> QED BY <1>1, <1>2, <1>3, <1>4, <1>5, <1>6, <1>7, <1>8, <1>9 DEF Next, Thread, User

\* The journaled transaction implements AtomicPublication: a publication is never
\* left half made behind the user's back.
THEOREM TransactionIsAtomic == Spec => IsAtomic
<1>1. Init => Abstract!Init
      BY DEF Init, Abstract!Init, Contents
<1> QED BY <1>1, InitInv, NextInv, StepRefines, PTL DEF Spec, IsAtomic, Abstract!Spec
=============================================================================
