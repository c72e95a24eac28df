--------------------------- MODULE ResourcesProofs ---------------------------
(***************************************************************************)
(* Proofs about Resources: a record is written where and as state.json     *)
(* says, recovery knows every file of a pending publication, and no other  *)
(* entry of a shared file is touched, for any instances, records, targets, *)
(* users' edits and bounds.                                                *)
(***************************************************************************)
EXTENDS Resources, SequenceTheorems, TLAPS

Binding  == [rec : Record, target : Target, projection : Nat \ {0, 1}]
Body     == Nat \ {1}
State    == [rev : Nat, body : [Record -> Body], fresh : SUBSET Record, tombs : Seq(Record),
             bindings : SUBSET Binding]
Contents == [File -> [Holder -> Nat]]
Plan     == [id : Nat \ {0}, rec : Record, revoke : BOOLEAN, ctx : State,
             supported : SUBSET Target, files : SUBSET File, before : Contents,
             after : Contents, bindings : SUBSET Binding]
Phase    == {"Applying", "RolledBack", "RecoveryRequired", "Committed"}
Journal  == [id : Nat \ {0}, rec : Record, files : SUBSET File, before : Contents,
             after : Contents, phase : Phase]
Label    == {"validate", "begin", "write", "commit", "complete", "clear"}
Budget   == [plan : 0..MaxPlans, save : 0..MaxSaves, edit : Nat, fault : Nat, restart : Nat]

TypeInv ==
    /\ state \in State /\ loaded \in [Instance -> State] /\ content \in Contents
    /\ detected \subseteq Target \ {Shared}
    /\ journal \in Journal \cup {NoJournal} /\ lease \in Instance \cup {Nobody}
    /\ plans \in [Instance -> SUBSET Plan] /\ run \in Plan \cup {NoPlan}
    /\ pc \in Label \cup {"idle"}
    /\ recorded \in BOOLEAN /\ stray \subseteq File /\ undone \subseteq File
    /\ budget \in Budget

\* What the bindings say is written of r in t.
Written(s, t, r) == {b.projection : b \in Proofs(s, t, r)}

\* A plan, or its journal, changes the entry of its record alone, in files of that record,
\* and never an entry that the user changed.
Narrow(p) ==
    /\ \A f \in p.files : \E t \in Targets(p.rec) : f = FileOf(t, p.rec)
    /\ \A f \in p.files :
          /\ \A h \in Holder \ {p.rec} : p.after[f][h] = p.before[f][h]
          /\ p.before[f][p.rec] # 1 /\ p.after[f][p.rec] # 1

\* A plan is for an active record of the state it was reviewed with, and its bindings
\* are that state's, except where its record is written.
Sound(p) ==
    /\ Narrow(p) /\ p.rec \in Active(p.ctx)
    /\ \A r \in Record : \A t \in Targets(r) :
          IF r = p.rec /\ FileOf(t, r) \in p.files
          THEN Written(p, t, r) = {p.after[FileOf(t, r)][r]} \ {0}
          ELSE Written(p, t, r) = Written(p.ctx, t, r)
PlansInv == \A i \in Instance : \A p \in plans[i] : Sound(p)

\* Nobody but the application has touched these files of p.
Intact(p) == p.files \ (stray \cup undone)

\* The bindings of s say that these files of p hold the contents c.
Agrees(s, p, c) ==
    \A r \in Record : \A t \in Targets(r) :
        FileOf(t, r) \in Intact(p) => Written(s, t, r) = {c[FileOf(t, r)][r]} \ {0}

IsBefore(p) == Agrees(state, p, p.before) /\ \A f \in Intact(p) : content[f] = p.before[f]
IsBetween(p) == Agrees(state, p, p.before)
                /\ \A f \in Intact(p) : content[f] \in {p.before[f], p.after[f]}
IsWritten(p) == Agrees(state, p, p.before) /\ \A f \in Intact(p) : content[f] = p.after[f]
IsAfter(p) == Agrees(state, p, p.after) /\ \A f \in Intact(p) : content[f] = p.after[f]

\* A pending journal is of a known record; what state.json records of it is written, and
\* what it does not can be rolled back.
JournalInv ==
    journal # NoJournal =>
        /\ Narrow(journal) /\ journal.rec \in Known(state)
        /\ IF recorded THEN IsAfter(journal)
                       ELSE journal.phase # "Committed" /\ IsBetween(journal)

OfRun == /\ journal # NoJournal /\ journal.rec = run.rec /\ journal.files = run.files
         /\ journal.before = run.before /\ journal.after = run.after

\* The execution of a plan, at each label.
RunInv ==
    /\ lease = Nobody <=> pc = "idle"
    /\ pc # "idle" => run \in Plan /\ Sound(run)
    /\ pc = "begin" => journal = NoJournal
    /\ pc \in {"begin", "write", "commit"} => state = run.ctx
    /\ pc \in {"write", "commit", "complete", "clear"} => OfRun
    /\ pc = "write" => ~recorded /\ journal.phase = "Applying" /\ IsBefore(run)
    /\ pc = "commit" => ~recorded /\ journal.phase # "Committed" /\ IsWritten(run)
    /\ pc = "complete" => recorded /\ IsAfter(run)
    /\ pc = "clear" => \/ journal.phase = "Committed" /\ IsAfter(run)
                       \/ journal.phase = "RolledBack" /\ IsBefore(run)

IInv == TypeInv /\ PlansInv /\ JournalInv /\ RunInv /\ BindingsAreTrue

-----------------------------------------------------------------------------
(***************************************************************************)
(* The model's operators.                                                  *)
(***************************************************************************)
\* Where a record can be written, and that one file of it belongs to one target.
LEMMA FileFacts ==
    ASSUME NEW r \in Record
    PROVE  /\ Targets(r) \subseteq Target
           /\ \A t \in Target : FileOf(t, r) \in File
           /\ \A t, u \in Target : FileOf(t, r) = FileOf(u, r) => t = u
           /\ detected \subseteq Target \ {Shared} => Supported(r) \subseteq Targets(r)
BY NameAssumption DEF Targets, FileOf, File, Supported

\* What is written follows from the bindings alone.
LEMMA WrittenFacts ==
    ASSUME NEW s, NEW q, s.bindings = q.bindings
    PROVE  \A t, r : Written(s, t, r) = Written(q, t, r)
BY DEF Written, Proofs

\* The newest tombstone is kept.
LEMMA TombsFacts ==
    ASSUME NEW tombs \in Seq(Record), NEW r \in Record
    PROVE  /\ Tombs(tombs, r) \in Seq(Record)
           /\ r \in {Tombs(tombs, r)[n] : n \in DOMAIN Tombs(tombs, r)}
<1> DEFINE all == <<r>> \o tombs
           last == IF Len(all) > MaxTombs THEN MaxTombs ELSE Len(all)
<1>1. all \in Seq(Record) /\ Len(all) = Len(tombs) + 1 /\ all[1] = r
  OBVIOUS
<1>2. last \in 1..Len(all)
  BY <1>1, BoundAssumption
<1> HIDE DEF all, last
<1>3. /\ SubSeq(all, 1, last) \in Seq(Record) /\ Len(SubSeq(all, 1, last)) = last
      /\ SubSeq(all, 1, last)[1] = all[1]
  BY <1>1, <1>2, SubSeqProperties
<1>4. Tombs(tombs, r) = SubSeq(all, 1, last)
  BY DEF Tombs, all, last
<1>5. 1 \in DOMAIN SubSeq(all, 1, last)
  BY <1>2, <1>3
<1> QED BY <1>1, <1>3, <1>4, <1>5

\* commit_resource keeps the record known, also one that it archives.
LEMMA CommittedFacts ==
    ASSUME NEW p \in Plan, state \in State, p.rec \in Active(state)
    PROVE  /\ Committed(p) \in State /\ Committed(p).bindings = p.bindings
           /\ p.rec \in Known(Committed(p))
<1>1. Tombs(state.tombs, p.rec) \in Seq(Record)
  BY TombsFacts DEF State, Plan
<1> DEFINE body  == IF p.revoke THEN [state.body EXCEPT ![p.rec] = 0] ELSE state.body
           tombs == IF p.revoke THEN Tombs(state.tombs, p.rec) ELSE state.tombs
<1>2. body \in [Record -> Body] /\ tombs \in Seq(Record)
  BY <1>1 DEF State, Plan, Body
<1> HIDE DEF body, tombs
<1> DEFINE s1 == [state EXCEPT !.rev = state.rev + 1]
           s2 == [s1 EXCEPT !.bindings = p.bindings]
           s3 == [s2 EXCEPT !.body = body]
           s4 == [s3 EXCEPT !.tombs = tombs]
<1>5. Committed(p) = s4
  BY DEF Committed, body, tombs
<1>6. s1 \in State
  BY DEF State
<1>7. \A s \in State : /\ [s EXCEPT !.bindings = p.bindings] \in State
                       /\ [s EXCEPT !.bindings = p.bindings].bindings = p.bindings
  BY DEF State, Plan
<1>8. \A s \in State : /\ [s EXCEPT !.body = body] \in State
                       /\ [s EXCEPT !.body = body].body = body
                       /\ [s EXCEPT !.body = body].bindings = s.bindings
  BY <1>2 DEF State
<1>9. \A s \in State : /\ [s EXCEPT !.tombs = tombs] \in State
                       /\ [s EXCEPT !.tombs = tombs].tombs = tombs
                       /\ [s EXCEPT !.tombs = tombs].body = s.body
                       /\ [s EXCEPT !.tombs = tombs].bindings = s.bindings
  BY <1>2 DEF State
<1> HIDE DEF s1
<1>11. s2 \in State /\ s2.bindings = p.bindings
  BY <1>6, <1>7
<1> HIDE DEF s2
<1>12. s3 \in State /\ s3.bindings = p.bindings /\ s3.body = body
  BY <1>8, <1>11
<1> HIDE DEF s3
<1>10. /\ Committed(p) \in State /\ Committed(p).bindings = p.bindings
       /\ Committed(p).body = body /\ Committed(p).tombs = tombs
  BY <1>5, <1>9, <1>12
<1>3. CASE p.revoke
  <2>1. Committed(p).tombs = Tombs(state.tombs, p.rec)
    BY <1>3, <1>10 DEF tombs
  <2>2. p.rec \in {Tombs(state.tombs, p.rec)[n] : n \in DOMAIN Tombs(state.tombs, p.rec)}
    BY TombsFacts DEF State, Plan
  <2> QED BY <1>10, <2>1, <2>2 DEF Known
<1>4. CASE ~p.revoke
  <2>1. Committed(p).body = state.body
    BY <1>4, <1>10 DEF body
  <2> QED BY <1>10, <2>1 DEF Known, Active
<1> QED BY <1>3, <1>4, <1>10

\* upsert_resource leaves the bindings.
LEMMA UpsertFacts ==
    ASSUME NEW i \in Instance, NEW r \in Record, Upsert(i, r), state \in State, budget \in Budget
    PROVE  state' \in State /\ state'.bindings = state.bindings /\ budget' \in Budget
<1>1. MaxSaves \in Nat
  BY BoundAssumption
<1>2. /\ budget.save \in 1..MaxSaves /\ budget' = [budget EXCEPT !["save"] = @ - 1]
      /\ budget["save"] = budget.save
  BY <1>1 DEF Upsert, Spend, Budget
<1>5. MaxSaves - budget.save + 3 \in Body
  BY <1>1, <1>2 DEF Body
<1>3. state' = [state EXCEPT !.rev = @ + 1, !.body[r] = MaxSaves - budget.save + 3,
                             !.fresh = @ \ {r}]
  BY DEF Upsert
<1> DEFINE body  == [state.body EXCEPT ![r] = MaxSaves - budget.save + 3]
           fresh == state.fresh \ {r}
<1>6. body \in [Record -> Body] /\ fresh \in SUBSET Record
  BY <1>5 DEF State
<1>7. state' = [[[state EXCEPT !.rev = state.rev + 1] EXCEPT !.body = body] EXCEPT !.fresh = fresh]
  BY <1>3
<1> HIDE DEF body, fresh
<1>8. /\ [state EXCEPT !.rev = state.rev + 1] \in State
      /\ [state EXCEPT !.rev = state.rev + 1].bindings = state.bindings
  BY DEF State
<1>9. \A s \in State : /\ [s EXCEPT !.body = body] \in State
                       /\ [s EXCEPT !.body = body].bindings = s.bindings
  BY <1>6 DEF State
<1>10. \A s \in State : /\ [s EXCEPT !.fresh = fresh] \in State
                        /\ [s EXCEPT !.fresh = fresh].bindings = s.bindings
  BY <1>6 DEF State
<1>4. state' \in State /\ state'.bindings = state.bindings
  BY <1>7, <1>8, <1>9, <1>10
<1> QED BY <1>1, <1>2, <1>4 DEF Budget

\* The bounds.
LEMMA SpendFacts ==
    ASSUME budget \in Budget
    PROVE  /\ \A k \in {"plan", "save", "edit", "fault", "restart"} : Spend(k) => budget' \in Budget
           /\ Works => budget' \in Budget
<1>1. MaxPlans \in Nat /\ MaxSaves \in Nat
  BY BoundAssumption
<1> QED BY <1>1 DEF Spend, Works, Budget

\* Compensation writes what was there before into files of the plan, and nothing else.
LEMMA RestoredFacts ==
    ASSUME NEW p, NEW left, p.files \subseteq File, content \in Contents,
           p.before \in Contents, p.after \in Contents
    PROVE  /\ Restored(p, left) \in Contents
           /\ \A f \in File :
                 \/ Restored(p, left)[f] = content[f]
                 \/ /\ f \in p.files \ left /\ content[f] = p.after[f]
                    /\ Restored(p, left)[f] = p.before[f]
           /\ \A f \in p.files \ left :
                 f \notin Conflicting(p) => Restored(p, left)[f] = p.before[f]
BY DEF Restored, Contents, Conflicting

\* A rollback leaves the plan's journal that, but for its phase.
LEMMA RollbackFacts ==
    ASSUME NEW p, NEW left, journal \in Journal, journal.phase # "Committed", Rollback(p, left)
    PROVE  /\ journal' \in Journal /\ journal'.phase # "Committed" /\ journal' # NoJournal
           /\ journal'.files = journal.files /\ journal'.before = journal.before
           /\ journal'.after = journal.after /\ journal'.rec = journal.rec
           /\ journal'.id = journal.id
           /\ content' = Restored(p, left) /\ Conflicting(p) \subseteq left
BY DEF Rollback, Journal, Phase, Compensated, NoJournal

\* A recovery puts back what it can; a journal that stays is the same, but for its phase.
LEMMA RestoreOutcome ==
    ASSUME NEW i \in Instance, RecoverRestore(i), journal \in Journal,
           journal.phase # "Committed"
    PROVE  \E left \in SUBSET journal.files :
              /\ Conflicting(journal) \subseteq left /\ content' = Restored(journal, left)
              /\ \/ journal' = NoJournal /\ left = {}
                 \/ /\ journal' \in Journal /\ journal'.phase # "Committed"
                    /\ journal'.files = journal.files /\ journal'.before = journal.before
                    /\ journal'.after = journal.after /\ journal'.rec = journal.rec
<1>1. Conflicting(journal) \in SUBSET journal.files
  BY DEF Conflicting
<1>2. CASE Works /\ Conflicting(journal) = {} /\ content' = Restored(journal, {})
           /\ journal' = NoJournal
  BY <1>2
<1>3. CASE /\ Works /\ Conflicting(journal) # {}
           /\ content' = Restored(journal, Conflicting(journal))
           /\ journal' = [journal EXCEPT !.phase = "RecoveryRequired"]
  <2>1. /\ journal' \in Journal /\ journal'.phase # "Committed"
        /\ journal'.files = journal.files /\ journal'.before = journal.before
        /\ journal'.after = journal.after /\ journal'.rec = journal.rec
    BY <1>3 DEF Journal, Phase
  <2> QED BY <1>1, <1>3, <2>1
<1>4. CASE \E left \in SUBSET journal.files : Rollback(journal, left)
  BY <1>4, RollbackFacts
<1> QED BY <1>2, <1>3, <1>4 DEF RecoverRestore

-----------------------------------------------------------------------------
(***************************************************************************)
(* What a preview promises.                                                *)
(***************************************************************************)
\* A reviewed plan is sound: it is of an active record, in files of that record whose
\* entries the user has not changed, and its bindings are what it will write.
LEMMA PreviewPlan ==
    ASSUME TypeInv, NEW i \in Instance, NEW r \in Record, NEW revoke \in BOOLEAN,
           Preview(i, r, revoke)
    PROVE  \E p \in Plan : Sound(p) /\ plans' = [plans EXCEPT ![i] = @ \cup {p}]
<1> DEFINE s == loaded[i]
           ts == Chosen(s, r, revoke)
           files == {FileOf(t, r) : t \in ts}
           version == IF revoke THEN 0 ELSE s.body[r]
           after == [f \in File |-> IF f \in files THEN Projected(f, r, version)
                                    ELSE content[f]]
           p == [id |-> MaxPlans - budget.plan + 1, rec |-> r, revoke |-> revoke, ctx |-> s,
                 supported |-> Supported(r), files |-> files, before |-> content,
                 after |-> after, bindings |-> BindingsAfter(s, r, ts, revoke)]
<1>1. plans' = [plans EXCEPT ![i] = @ \cup {p}]
  BY DEF Preview
<1>2. /\ s \in State /\ s.body[r] # 0 /\ s.body[r] \in Body /\ ts \subseteq Supported(r)
      /\ \A t \in ts : Owns(s, t, r, revoke)
      /\ ~revoke => ts = Supported(r) /\ (revoke => ts = Bound(s, r))
  BY DEF Preview, TypeInv, State, Active, Chosen
<1>3. revoke => ts = Bound(s, r)
  BY DEF Chosen
<1>4. MaxPlans - budget.plan + 1 \in Nat \ {0}
  <2>1. MaxPlans \in Nat
    BY BoundAssumption
  <2> QED BY <2>1 DEF Preview, Spend, TypeInv, Budget
<1>5. ts \subseteq Targets(r) /\ Supported(r) \subseteq Targets(r) /\ Targets(r) \subseteq Target
  BY <1>2, FileFacts DEF TypeInv
<1>6. files \subseteq File
  BY <1>5, FileFacts
<1>7. version \in Body
  BY <1>2 DEF Body
<1>8. content \in Contents
  BY DEF TypeInv
<1> HIDE DEF s, ts, version
<1>9. /\ after \in Contents /\ \A f \in files : after[f] = [content[f] EXCEPT ![r] = version]
      /\ \A f \in files : after[f][r] = version
      /\ \A f \in files : \A h \in Holder \ {r} : after[f][h] = content[f][h]
  BY <1>6, <1>7, <1>8 DEF Contents, Projected, Body, Holder
<1>10. BindingsAfter(s, r, ts, revoke) \subseteq Binding
  BY <1>2, <1>5 DEF BindingsAfter, State, Binding, Body
<1> HIDE DEF files, after
<1>11. p \in Plan
  BY <1>2, <1>4, <1>5, <1>6, <1>8, <1>9, <1>10 DEF Plan
<1>12. /\ p.rec = r /\ p.files = files /\ p.before = content /\ p.after = after /\ p.ctx = s
       /\ p.bindings = BindingsAfter(s, r, ts, revoke)
  OBVIOUS
<1> HIDE DEF p
<1>13. Narrow(p)
  <2>1. ASSUME NEW f \in files PROVE \E t \in Targets(r) : f = FileOf(t, r)
    BY <1>5 DEF files
  <2>2. ASSUME NEW f \in files PROVE content[f][r] # 1
    <3>1. PICK t \in ts : f = FileOf(t, r)
      BY DEF files
    <3>2. content[f][r] # 0 => \E b \in s.bindings : b.projection = content[f][r]
      BY <1>2, <3>1 DEF Owns, Proofs
    <3> QED BY <1>2, <3>2 DEF State, Binding
  <2> QED BY <1>7, <1>9, <1>12, <2>1, <2>2 DEF Narrow, Body
<1>14. ASSUME NEW q \in Record, NEW t \in Targets(q)
       PROVE  IF q = p.rec /\ FileOf(t, q) \in p.files
              THEN Written(p, t, q) = {p.after[FileOf(t, q)][q]} \ {0}
              ELSE Written(p, t, q) = Written(p.ctx, t, q)
  <2>0. t \in Target
    BY <1>14, FileFacts
  <2>1. CASE q = r /\ t \in ts
    <3>0. FileOf(t, r) \in files
      BY <2>1 DEF files
    <3>1. FileOf(t, r) \in files /\ after[FileOf(t, r)][r] = version
      BY <1>9, <3>0
    <3>2. Written(p, t, r) = IF revoke THEN {} ELSE {s.body[r]}
      <4>1. Proofs(p, t, r) = IF revoke THEN {}
                              ELSE {[rec |-> r, target |-> t, projection |-> s.body[r]]}
        BY <1>12, <2>0, <2>1 DEF Proofs, BindingsAfter
      <4>2. CASE revoke
        BY <4>1, <4>2 DEF Written
      <4>3. CASE ~revoke
        <5>1. Proofs(p, t, r) = {[rec |-> r, target |-> t, projection |-> s.body[r]]}
          BY <4>1, <4>3
        <5> QED BY <4>3, <5>1 DEF Written
      <4> QED BY <4>2, <4>3
    <3> QED BY <1>2, <1>12, <2>1, <3>1, <3>2 DEF version
  <2>2. CASE ~(q = r /\ t \in ts)
    <3>1. ~(q = r /\ FileOf(t, q) \in files)
      BY <1>5, <2>0, <2>2, FileFacts DEF files
    <3>2. Proofs(p, t, q) = Proofs(s, t, q)
      BY <1>12, <2>2 DEF Proofs, BindingsAfter
    <3> QED BY <1>12, <3>1, <3>2 DEF Written
  <2> QED BY <2>1, <2>2
<1>15. p.rec \in Active(p.ctx)
  BY <1>2, <1>12 DEF Active
<1> QED BY <1>1, <1>11, <1>13, <1>14, <1>15 DEF Sound

-----------------------------------------------------------------------------
(***************************************************************************)
(* Each conjunct is preserved.                                             *)
(***************************************************************************)

\* Every step keeps the types.
LEMMA TypeStep == ASSUME TypeInv, RunInv, [Next]_vars PROVE TypeInv'
<1> USE DEF Goto, Return, disk, apply, aux
<1>1. ASSUME NEW i \in Instance, NEW r \in Record, NEW revoke \in BOOLEAN,
           Preview(i,
           r, revoke) PROVE TypeInv'
  <2>1. PICK p \in Plan : Sound(p) /\ plans' = [plans EXCEPT ![i] = @ \cup {p}]
    BY <1>1, PreviewPlan
  <2> QED BY <1>1, <2>1, SpendFacts DEF Preview, TypeInv
<1>2. ASSUME NEW i \in Instance, NEW p \in plans[i], Apply(i, p) PROVE TypeInv'
  BY <1>2, SpendFacts DEF Apply, TypeInv, Fault, Label
<1>3. ASSUME NEW i \in Instance, NEW r \in Record, Upsert(i, r) PROVE TypeInv'
  <2>1. state' \in State /\ budget' \in Budget
    BY <1>3, UpsertFacts DEF TypeInv
  <2> QED BY <1>3, <2>1 DEF Upsert, TypeInv
<1>4. ASSUME NEW i \in Instance, RecoverRestore(i) PROVE TypeInv'
  <2>1. budget' \in Budget
    BY <1>4, SpendFacts DEF RecoverRestore, Fault, TypeInv
  <2>2. CASE journal.phase = "Committed"
    BY <1>4, <2>1, <2>2 DEF RecoverRestore, TypeInv
  <2>3. CASE journal.phase # "Committed"
    <3>1. journal \in Journal /\ journal.files \subseteq File
      BY <1>4 DEF RecoverRestore, TypeInv, Journal
    <3>2. PICK left \in SUBSET journal.files : content' = Restored(journal, left)
      BY <1>4, <2>3, <3>1, RestoreOutcome
    <3>3. content' \in Contents
      BY <3>1, <3>2, RestoredFacts DEF TypeInv, Journal
    <3>5. journal' \in Journal \cup {NoJournal}
      BY <1>4, <2>3, <3>1, RestoreOutcome
    <3>6. undone' \subseteq File
      BY <1>4, <2>3, <3>1 DEF RecoverRestore, TypeInv, PutBack
    <3> QED BY <1>4, <2>1, <3>3, <3>5, <3>6 DEF RecoverRestore, TypeInv
  <2> QED BY <2>2, <2>3
<1>5. ASSUME NEW i \in Instance, Restart(i) PROVE TypeInv'
  BY <1>5, SpendFacts DEF Restart, TypeInv, Fault, Label
<1>6. ASSUME Validate PROVE TypeInv'
  BY <1>6, SpendFacts DEF Validate, NoPendingJournal, Writable, SameState, TypeInv, Fault, Label
<1>7. ASSUME Begin PROVE TypeInv'
  <2>1. run \in Plan
    BY <1>7 DEF Begin, RunInv
  <2>2. [id |-> run.id, rec |-> run.rec, files |-> run.files, before |-> run.before,
         after |-> run.after, phase |-> "Applying"] \in Journal
    BY <2>1 DEF Plan, Journal, Phase
  <2> QED BY <1>7, <2>2, SpendFacts DEF Begin, TypeInv, Label, Fault
<1>8. ASSUME Write PROVE TypeInv'
  <2>1. run \in Plan /\ journal \in Journal /\ run.after \in Contents /\ run.files \subseteq File
    BY <1>8 DEF Write, RunInv, OfRun, TypeInv, Plan
  <2>2. \A phase \in Phase : [journal EXCEPT !.phase = phase] \in Journal
    BY <2>1 DEF Journal
  <2>3. \A S : [f \in File |-> IF f \in S THEN run.after[f] ELSE content[f]] \in Contents
    BY <2>1 DEF TypeInv, Contents
  <2>4. content' \in Contents
    <3>1. CASE Goto("commit")
      <4>1. content' = [f \in File |-> IF f \in run.files THEN run.after[f] ELSE content[f]]
        BY <1>8, <3>1 DEF Write
      <4> QED BY <2>3, <4>1
    <3>2. CASE ~Goto("commit")
      <4>1. \/ content' = content
            \/ \E left \in SUBSET run.files :
                  content' = [f \in File |-> IF f \in left THEN run.after[f] ELSE content[f]]
        BY <1>8, <3>2 DEF Write
      <4> QED BY <2>3, <4>1 DEF TypeInv
    <3> QED BY <3>1, <3>2
  <2>5. journal.phase \in Phase /\ \A left : Compensated(left) \in Phase
    BY <2>1 DEF Journal, Phase, Compensated
  <2>6. journal' \in Journal
    <3>1. \/ journal' = journal
          \/ \E phase : /\ journal' = [journal EXCEPT !.phase = phase]
                         /\ \/ phase = journal.phase
                            \/ \E left : phase = Compensated(left)
                            \/ phase \in {"RolledBack", "RecoveryRequired"}
      BY <1>8 DEF Write
    <3> QED BY <2>1, <2>2, <2>5, <3>1 DEF Phase
  <2> QED BY <1>8, <2>4, <2>6, SpendFacts DEF Write, TypeInv, Label, Fault
<1>9. ASSUME Commit PROVE TypeInv'
  <2>1. /\ run \in Plan /\ journal \in Journal /\ run.files \subseteq File
        /\ run.before \in Contents /\ run.after \in Contents
        /\ run.rec \in Active(state) /\ lease \in Instance
    BY <1>9 DEF Commit, RunInv, OfRun, TypeInv, Plan, Sound
  <2>2. Committed(run) \in State
    BY <2>1, CommittedFacts DEF TypeInv
  <2>3. \A left \in SUBSET run.files : Restored(run, left) \in Contents
    BY <2>1, RestoredFacts DEF TypeInv
  <2>4. journal.phase # "Committed"
    BY <1>9 DEF Commit, RunInv
  <2>5. state' \in State /\ content' \in Contents /\ journal' \in Journal
    BY <1>9, <2>1, <2>2, <2>3, <2>4, RollbackFacts DEF Commit, TypeInv
  <2>6. undone' \subseteq File /\ recorded' \in BOOLEAN /\ loaded' \in [Instance -> State]
    BY <1>9, <2>1, <2>2 DEF Commit, TypeInv, PutBack
  <2> QED BY <1>9, <2>5, <2>6, SpendFacts DEF Commit, TypeInv, Label, Fault
<1>10. ASSUME Complete PROVE TypeInv'
  <2>1. journal \in Journal
    BY <1>10 DEF Complete, RunInv, OfRun, TypeInv
  <2>2. [journal EXCEPT !.phase = "Committed"] \in Journal
    BY <2>1 DEF Journal, Phase
  <2> QED BY <1>10, <2>1, <2>2, SpendFacts DEF Complete, TypeInv, Label, Fault
<1>11. ASSUME Clear PROVE TypeInv'
  BY <1>11, SpendFacts DEF Clear, TypeInv, Fault, Label
<1>12. ASSUME RecoverKeep PROVE TypeInv'
  <2>1. journal.files \subseteq File
    BY <1>12 DEF RecoverKeep, TypeInv, Journal
  <2> QED BY <1>12, <2>1, SpendFacts DEF RecoverKeep, TypeInv
<1>13. ASSUME Edit PROVE TypeInv'
  BY <1>13, SpendFacts DEF Edit, TypeInv, Fault, Label, Contents
<1>14. ASSUME Detect PROVE TypeInv'
  BY <1>14, SpendFacts DEF Detect, TypeInv, Fault, Label
<1>15. ASSUME UNCHANGED vars PROVE TypeInv'
  BY <1>15, SpendFacts DEF vars, disk, apply, aux, TypeInv, Works
<1> QED BY <1>1, <1>2, <1>3, <1>4, <1>5, <1>6, <1>7, <1>8, <1>9, <1>10, <1>11, <1>12, <1>13,
           <1>14, <1>15 DEF Next

\* Every step keeps the plans that are stored sound.
LEMMA PlansStep == ASSUME TypeInv, PlansInv, [Next]_vars PROVE PlansInv'
<1> USE DEF Goto, Return, disk, apply, aux
<1>1. ASSUME NEW i \in Instance, NEW r \in Record, NEW revoke \in BOOLEAN,
           Preview(i,
           r, revoke) PROVE PlansInv'
  <2>1. PICK p \in Plan : Sound(p) /\ plans' = [plans EXCEPT ![i] = @ \cup {p}]
    BY <1>1, PreviewPlan
  <2> QED BY <1>1, <2>1 DEF PlansInv, TypeInv
<1>2. ASSUME NEW i \in Instance, NEW p \in plans[i], Apply(i, p) PROVE PlansInv'
  BY <1>2 DEF Apply, TypeInv, PlansInv
<1>3. ASSUME NEW i \in Instance, NEW r \in Record, Upsert(i, r) PROVE PlansInv'
  BY <1>3 DEF Upsert, NoPendingJournal, Writable, TypeInv, PlansInv
<1>4. ASSUME NEW i \in Instance, RecoverRestore(i) PROVE PlansInv'
  BY <1>4 DEF RecoverRestore, TypeInv, PlansInv
<1>5. ASSUME NEW i \in Instance, Restart(i) PROVE PlansInv'
  BY <1>5 DEF Restart, TypeInv, PlansInv
<1>6. ASSUME Validate PROVE PlansInv'
  BY <1>6 DEF Validate, NoPendingJournal, Writable, SameState, TypeInv, PlansInv
<1>7. ASSUME Begin PROVE PlansInv'
  BY <1>7 DEF Begin, TypeInv, PlansInv
<1>8. ASSUME Write PROVE PlansInv'
  BY <1>8 DEF Write, TypeInv, PlansInv
<1>9. ASSUME Commit PROVE PlansInv'
  BY <1>9 DEF Commit, TypeInv, PlansInv
<1>10. ASSUME Complete PROVE PlansInv'
  BY <1>10 DEF Complete, TypeInv, PlansInv
<1>11. ASSUME Clear PROVE PlansInv'
  BY <1>11 DEF Clear, TypeInv, PlansInv
<1>12. ASSUME RecoverKeep PROVE PlansInv'
  BY <1>12 DEF RecoverKeep, TypeInv, PlansInv
<1>13. ASSUME Edit PROVE PlansInv'
  BY <1>13 DEF Edit, TypeInv, PlansInv
<1>14. ASSUME Detect PROVE PlansInv'
  BY <1>14 DEF Detect, TypeInv, PlansInv
<1>15. ASSUME UNCHANGED vars PROVE PlansInv'
  BY <1>15 DEF vars, disk, apply, aux, TypeInv, PlansInv
<1> QED BY <1>1, <1>2, <1>3, <1>4, <1>5, <1>6, <1>7, <1>8, <1>9, <1>10, <1>11, <1>12, <1>13,
           <1>14, <1>15 DEF Next

-----------------------------------------------------------------------------
(***************************************************************************)
(* What a step that leaves the bindings and the application's files alone  *)
(* keeps.                                                                  *)
(***************************************************************************)
Quiet == /\ state'.bindings = state.bindings
         /\ stray \subseteq stray' /\ undone \subseteq undone'
         /\ \A f \in File \ (stray' \cup undone') : content'[f] = content[f]

\* Where the files of a publication stand.
LEMMA QuietFacts ==
    ASSUME Quiet
    PROVE  \A p : p.files \subseteq File =>
              /\ IsBefore(p) => IsBefore(p)'
              /\ IsBetween(p) => IsBetween(p)'
              /\ IsWritten(p) => IsWritten(p)'
              /\ IsAfter(p) => IsAfter(p)'
<1>1. \A t, r : Written(state', t, r) = Written(state, t, r)
  BY DEF Quiet, Written, Proofs
<1>2. ASSUME NEW p, p.files \subseteq File
      PROVE  /\ \A c : Agrees(state, p, c) => Agrees(state, p, c)'
             /\ \A f \in Intact(p)' : f \in Intact(p) /\ content'[f] = content[f]
  BY <1>1, <1>2 DEF Quiet, Agrees, Intact
<1> QED BY <1>2 DEF IsBefore, IsBetween, IsWritten, IsAfter

\* The same, of a plan and of its journal.
LEMMA SameFiles ==
    ASSUME NEW p, NEW q, p.files = q.files, p.before = q.before, p.after = q.after
    PROVE  /\ (IsBefore(p) <=> IsBefore(q)) /\ (IsBefore(p)' <=> IsBefore(q)')
           /\ (IsBetween(p) <=> IsBetween(q)) /\ (IsBetween(p)' <=> IsBetween(q)')
           /\ (IsWritten(p) <=> IsWritten(q)) /\ (IsWritten(p)' <=> IsWritten(q)')
           /\ (IsAfter(p) <=> IsAfter(q)) /\ (IsAfter(p)' <=> IsAfter(q)')
           /\ p.rec = q.rec => (Narrow(p) <=> Narrow(q))
BY DEF IsBefore, IsBetween, IsWritten, IsAfter, Agrees, Intact, Narrow

\* Files that hold what was there before, or what was written, could be either.
LEMMA BetweenFacts ==
    \A p : /\ IsBefore(p) => IsBetween(p)
           /\ IsWritten(p) => IsBetween(p)
BY DEF IsBefore, IsBetween, IsWritten

\* The bindings are true of every file, pending or not.
AllTrue ==
    \A r \in Record : \A t \in Targets(r) :
        \/ FileOf(t, r) \in stray \cup undone
        \/ Written(state, t, r) = {content[FileOf(t, r)][r]} \ {0}

\* So they are when nothing is pending, or what is can be closed.
LEMMA ClosedFacts ==
    ASSUME BindingsAreTrue,
           journal # NoJournal => IsBefore(journal) \/ IsAfter(journal)
    PROVE  AllTrue
BY DEF AllTrue, BindingsAreTrue, Written, IsBefore, IsAfter, Agrees, Intact

\* They stay true, except of a file that a step puts on the journal.
LEMMA TrueKept ==
    ASSUME Quiet, BindingsAreTrue, TypeInv,
           \/ AllTrue
           \/ /\ journal # NoJournal => journal' # NoJournal /\ journal'.files = journal.files
    PROVE  BindingsAreTrue'
<1>1. \A t, r : Written(state', t, r) = Written(state, t, r)
  BY DEF Quiet, Written, Proofs
<1>2. \A r \in Record : \A t \in Targets(r) : FileOf(t, r) \in File
  BY FileFacts
<1> QED BY <1>1, <1>2 DEF AllTrue, BindingsAreTrue, Written, Quiet

-----------------------------------------------------------------------------
(***************************************************************************)
(* A publication and its journal.                                          *)
(***************************************************************************)
\* The bindings that a publication stores are true of what it has written, except where
\* that is put back in the same step.
LEMMA RecordedAfter ==
    ASSUME TypeInv, RunInv, pc = "commit", state' = Committed(run), stray' = stray,
           undone' = undone \cup PutBack
    PROVE  \A p : p.files = run.files /\ p.before = run.before /\ p.after = run.after
                     => IsAfter(p)'
<1>1. /\ run \in Plan /\ IsWritten(run) /\ Sound(run) /\ Narrow(run) /\ state = run.ctx
      /\ run.rec \in Active(state) /\ run.files \subseteq File
  BY DEF RunInv, Sound, Plan
<1>2. \A t, r : Written(state', t, r) = Written(run, t, r)
  BY <1>1, CommittedFacts, WrittenFacts DEF TypeInv
<1>3. \A r \in Record : r \in Holder
  BY DEF Holder
<1>4. ASSUME NEW r \in Record, NEW t \in Targets(r), FileOf(t, r) \in Intact(run)
      PROVE  Written(state', t, r) = {run.after[FileOf(t, r)][r]} \ {0}
  <2>1. CASE r = run.rec
    BY <1>1, <1>2, <1>4, <2>1 DEF Sound, Intact
  <2>2. CASE r # run.rec
    <3>1. Written(state', t, r) = Written(state, t, r)
      BY <1>1, <1>2, <2>2 DEF Sound
    <3>2. Written(state, t, r) = {run.before[FileOf(t, r)][r]} \ {0}
      BY <1>1, <1>4 DEF IsWritten, Agrees
    <3>3. run.after[FileOf(t, r)][r] = run.before[FileOf(t, r)][r]
      BY <1>1, <1>3, <1>4, <2>2 DEF Narrow, Intact
    <3> QED BY <3>1, <3>2, <3>3
  <2> QED BY <2>1, <2>2
<1>5. ASSUME NEW p, p.files = run.files, p.before = run.before, p.after = run.after
      PROVE  IsAfter(p)'
  <2>1. \A f \in Intact(p)' : f \in Intact(run) /\ content'[f] = content[f]
    BY <1>1, <1>5 DEF Intact, PutBack
  <2> QED BY <1>1, <1>4, <1>5, <2>1 DEF IsAfter, Agrees, IsWritten
<1> QED BY <1>5

\* The same, of a publication whose files stay.
LEMMA CommitAfter ==
    ASSUME TypeInv, RunInv, Commit, Goto("complete")
    PROVE  \A p : p.files = run.files /\ p.before = run.before /\ p.after = run.after
                     => IsAfter(p)'
<1>1. /\ pc = "commit" /\ state' = Committed(run)
      /\ UNCHANGED <<content, stray, undone>>
  BY DEF Commit, Goto, Return
<1>2. undone' = undone \cup PutBack
  BY <1>1 DEF PutBack
<1> QED BY <1>1, <1>2, RecordedAfter

\* Every step keeps a pending journal of a known record, and its files in one of the two
\* states that recovery can start from.
LEMMA JournalStep ==
    ASSUME TypeInv, TypeInv', JournalInv, RunInv, BindingsAreTrue, [Next]_vars
    PROVE  JournalInv'
<1> USE DEF Goto, Return, disk, apply, aux
<1>1. ASSUME NEW i \in Instance, NEW r \in Record, NEW revoke \in BOOLEAN,
           Preview(i,
           r, revoke) PROVE JournalInv'
  <2>0. Quiet
    BY <1>1 DEF Preview, Quiet
  <2>1. journal # NoJournal => journal.files \subseteq File
    BY DEF TypeInv, Journal
  <2> QED BY <1>1, <2>0, <2>1, QuietFacts DEF Preview, JournalInv
<1>2. ASSUME NEW i \in Instance, NEW p \in plans[i], Apply(i, p) PROVE JournalInv'
  <2>0. Quiet
    BY <1>2 DEF Apply, Quiet
  <2>1. journal # NoJournal => journal.files \subseteq File
    BY DEF TypeInv, Journal
  <2> QED BY <1>2, <2>0, <2>1, QuietFacts DEF Apply, JournalInv
<1>3. ASSUME NEW i \in Instance, NEW r \in Record, Upsert(i, r) PROVE JournalInv'
  <2>0. Quiet
    BY <1>3, UpsertFacts DEF Upsert, Quiet, TypeInv
  <2>1. journal # NoJournal => journal.files \subseteq File
    BY DEF TypeInv, Journal
  <2> QED BY <1>3, <2>0, <2>1, QuietFacts DEF Upsert, NoPendingJournal, Writable, JournalInv
<1>4. ASSUME NEW i \in Instance, RecoverRestore(i) PROVE JournalInv'
  <2>1. journal \in Journal /\ journal # NoJournal /\ journal.files \subseteq File
    BY <1>4 DEF RecoverRestore, TypeInv, Journal
  <2>2. CASE journal' = NoJournal
    BY <2>2 DEF JournalInv
  <2>3. CASE journal' # NoJournal
    <3>1. CASE journal.phase = "Committed"
      <4>1. journal' = journal /\ Quiet /\ UNCHANGED <<state, recorded>>
        BY <1>4, <2>3, <3>1 DEF RecoverRestore, Quiet
      <4> QED BY <2>1, <4>1, QuietFacts DEF JournalInv
    <3>2. CASE journal.phase # "Committed"
      <4>1. PICK left \in SUBSET journal.files :
               /\ Conflicting(journal) \subseteq left /\ content' = Restored(journal, left)
               /\ journal'.files = journal.files /\ journal'.before = journal.before
               /\ journal'.after = journal.after /\ journal'.rec = journal.rec
               /\ journal'.phase # "Committed"
        BY <1>4, <2>1, <2>3, <3>2, RestoreOutcome
      <4>2. /\ UNCHANGED <<state, recorded, stray>>
            /\ undone' = IF recorded THEN undone \cup PutBack ELSE undone
        BY <1>4, <3>2 DEF RecoverRestore
      <4>3. Narrow(journal')
        BY <2>1, <4>1, SameFiles DEF JournalInv
      <4>4. CASE recorded
        <5>1. \A f \in Intact(journal)' : f \in Intact(journal) /\ content'[f] = content[f]
          BY <2>1, <4>1, <4>2, <4>4 DEF Intact, PutBack
        <5>2. IsAfter(journal)'
          BY <2>1, <4>1, <4>2, <4>4, <5>1 DEF JournalInv, IsAfter, Agrees
        <5> QED BY <2>1, <4>1, <4>2, <4>3, <4>4, <5>2 DEF JournalInv
      <4>5. CASE ~recorded
        <5>1. Intact(journal)' = Intact(journal)
          BY <4>1, <4>2, <4>5 DEF Intact
        <5>2. \A f \in Intact(journal) : content'[f] \in {content[f], journal.before[f]}
          BY <2>1, <4>1, RestoredFacts DEF TypeInv, Journal, Intact
        <5>3. IsBetween(journal)'
          BY <2>1, <4>1, <4>2, <4>5, <5>1, <5>2 DEF JournalInv, IsBetween, Agrees
        <5> QED BY <2>1, <4>1, <4>2, <4>3, <4>5, <5>3 DEF JournalInv
      <4> QED BY <4>4, <4>5
    <3> QED BY <3>1, <3>2
  <2> QED BY <2>2, <2>3
<1>5. ASSUME NEW i \in Instance, Restart(i) PROVE JournalInv'
  <2>0. Quiet
    BY <1>5 DEF Restart, Quiet
  <2>1. journal # NoJournal => journal.files \subseteq File
    BY DEF TypeInv, Journal
  <2> QED BY <1>5, <2>0, <2>1, QuietFacts DEF Restart, JournalInv
<1>6. ASSUME Validate PROVE JournalInv'
  <2>0. Quiet
    BY <1>6 DEF Validate, NoPendingJournal, Writable, SameState, Quiet
  <2>1. journal # NoJournal => journal.files \subseteq File
    BY DEF TypeInv, Journal
  <2> QED BY <1>6, <2>0, <2>1, QuietFacts DEF Validate, NoPendingJournal, Writable, SameState,
             JournalInv
<1>7. ASSUME Begin PROVE JournalInv'
  <2>0. Quiet
    BY <1>7 DEF Begin, Quiet
  <2>1. CASE journal' = journal
    BY <1>7, <2>0, <2>1, QuietFacts DEF Begin, RunInv, JournalInv
  <2>2. CASE journal' # journal
    <3>1. /\ run \in Plan /\ Sound(run) /\ journal = NoJournal /\ Holds(run, run.before)
          /\ state = run.ctx /\ run.files \subseteq File
      BY <1>7, <2>2 DEF Begin, RunInv, Plan
    <3>2. IsBefore(run)
      <4>1. AllTrue
        BY <3>1, ClosedFacts
      <4> QED BY <3>1, <4>1 DEF AllTrue, IsBefore, Agrees, Intact, Holds
    <3>3. \A p : p = run => IsBetween(p)'
      BY <2>0, <3>1, <3>2, QuietFacts, BetweenFacts
    <3>4. /\ journal'.files = run.files /\ journal'.before = run.before
          /\ journal'.after = run.after /\ journal'.rec = run.rec
          /\ journal'.phase = "Applying"
      BY <1>7, <2>2 DEF Begin
    <3>5. UNCHANGED <<run, state>> /\ recorded' = FALSE
      BY <1>7, <2>2 DEF Begin
    <3>6. IsBetween(journal)' /\ Narrow(journal')
      BY <3>1, <3>3, <3>4, <3>5, SameFiles DEF Sound
    <3>7. run.rec \in Known(state)
      BY <3>1 DEF Sound, Known
    <3> QED BY <3>4, <3>5, <3>6, <3>7 DEF JournalInv
  <2> QED BY <2>1, <2>2
<1>8. ASSUME Write PROVE JournalInv'
  <2>1. /\ run \in Plan /\ OfRun /\ IsBefore(run) /\ journal \in Journal
        /\ run.files \subseteq File /\ journal.phase # "Committed" /\ ~recorded
    BY <1>8 DEF Write, RunInv, TypeInv, OfRun, Plan
  <2>2. /\ UNCHANGED <<state, recorded, stray, undone>>
        /\ \A f \in run.files : content'[f] \in {content[f], run.after[f]}
    BY <1>8, <2>1 DEF Write
  <2>3. /\ journal'.phase # "Committed" /\ journal' # NoJournal
        /\ journal'.files = journal.files /\ journal'.before = journal.before
        /\ journal'.after = journal.after /\ journal'.rec = journal.rec
    BY <1>8, <2>1 DEF Write, Journal, OfRun, Compensated, NoJournal
  <2>4. IsBetween(journal)'
    <3>1. Intact(journal)' = Intact(journal) /\ Intact(journal) = Intact(run)
      BY <2>1, <2>2, <2>3 DEF Intact, OfRun
    <3>2. \A f \in Intact(run) : content'[f] \in {run.before[f], run.after[f]}
      BY <2>1, <2>2 DEF IsBefore, Intact
    <3>3. Agrees(state, journal, journal.before)'
      BY <2>1, <2>2, <2>3, <3>1 DEF IsBefore, Agrees, OfRun
    <3> QED BY <2>1, <2>3, <3>1, <3>2, <3>3 DEF IsBetween, OfRun
  <2> QED BY <2>1, <2>2, <2>3, <2>4, SameFiles DEF JournalInv, OfRun
<1>9. ASSUME Commit PROVE JournalInv'
  <2>1. /\ run \in Plan /\ OfRun /\ IsWritten(run) /\ journal \in Journal
        /\ run.files \subseteq File /\ journal.phase # "Committed" /\ Sound(run)
        /\ state = run.ctx /\ run.before \in Contents /\ run.after \in Contents
        /\ run.rec \in Active(state)
    BY <1>9 DEF Commit, RunInv, TypeInv, OfRun, Plan, Sound
  <2>2. run.rec \in Known(Committed(run)) /\ Committed(run).bindings = run.bindings
    BY <2>1, CommittedFacts DEF TypeInv
  <2>3. run.rec \in Known(state')
    BY <1>9, <2>1, <2>2 DEF Commit, Known
  <2>4. /\ journal'.phase # "Committed" /\ journal' # NoJournal
        /\ journal'.files = journal.files /\ journal'.before = journal.before
        /\ journal'.after = journal.after /\ journal'.rec = journal.rec
    BY <1>9, <2>1, RollbackFacts DEF Commit, OfRun
  <2>5. Narrow(journal')
    BY <2>1, <2>4, SameFiles DEF OfRun, Sound
  <2>6. CASE Goto("complete")
    <3>1. IsAfter(journal)' /\ recorded'
      BY <1>9, <2>1, <2>4, <2>6, CommitAfter DEF OfRun, Commit
    <3> QED BY <2>1, <2>3, <2>4, <2>5, <3>1 DEF JournalInv, OfRun
  <2>7. CASE ~Goto("complete")
    <3>1. PICK left \in SUBSET run.files : content' = Restored(run, left)
      BY <1>9, <2>1, <2>7, RollbackFacts DEF Commit
    <3>2. UNCHANGED stray
      BY <1>9 DEF Commit
    <3>3. CASE UNCHANGED <<state, recorded, undone>>
      <4>1. Intact(journal)' = Intact(run)
        BY <2>1, <2>4, <3>2, <3>3 DEF Intact, OfRun
      <4>2. \A f \in Intact(run) : content'[f] \in {run.before[f], run.after[f]}
        BY <2>1, <3>1, RestoredFacts DEF TypeInv, IsWritten, Intact
      <4>3. Agrees(state, journal, journal.before)'
        BY <2>1, <2>4, <3>3, <4>1 DEF IsWritten, Agrees, OfRun
      <4>4. IsBetween(journal)' /\ ~recorded'
        BY <1>9, <2>1, <2>4, <3>3, <4>1, <4>2, <4>3 DEF IsBetween, OfRun, Commit, RunInv
      <4> QED BY <2>1, <2>3, <2>4, <2>5, <4>4 DEF JournalInv, OfRun
    <3>4. CASE state' = Committed(run) /\ recorded' = TRUE /\ undone' = undone \cup PutBack
      <4>1. IsAfter(journal)'
        BY <1>9, <2>1, <2>4, <3>2, <3>4, RecordedAfter DEF OfRun, Commit
      <4> QED BY <2>1, <2>3, <2>4, <2>5, <3>4, <4>1 DEF JournalInv, OfRun
    <3> QED BY <1>9, <2>7, <3>3, <3>4 DEF Commit
  <2> QED BY <2>6, <2>7
<1>10. ASSUME Complete PROVE JournalInv'
  <2>0. Quiet
    BY <1>10 DEF Complete, Quiet
  <2>1. /\ OfRun /\ IsAfter(run) /\ journal.files \subseteq File /\ journal \in Journal
        /\ recorded' = TRUE
    BY <1>10 DEF Complete, RunInv, TypeInv, Journal, OfRun
  <2>2. IsAfter(journal)'
    <3>1. IsAfter(journal)
      BY <2>1, SameFiles DEF OfRun
    <3>2. \A p : p = journal => IsAfter(p)'
      BY <2>0, <2>1, <3>1, QuietFacts
    <3>3. /\ journal'.files = journal.files /\ journal'.before = journal.before
          /\ journal'.after = journal.after
      BY <1>10, <2>1 DEF Complete, Journal
    <3> QED BY <3>2, <3>3, SameFiles
  <2>3. journal # NoJournal /\ UNCHANGED state
    BY <1>10, <2>1 DEF Complete, OfRun
  <2>4. journal'.rec = journal.rec /\ Narrow(journal')
    <3>1. /\ journal'.files = journal.files /\ journal'.before = journal.before
          /\ journal'.after = journal.after /\ journal'.rec = journal.rec
      BY <1>10, <2>1 DEF Complete, Journal
    <3> QED BY <2>3, <3>1, SameFiles DEF JournalInv
  <2> QED BY <2>1, <2>2, <2>3, <2>4 DEF JournalInv
<1>11. ASSUME Clear PROVE JournalInv'
  <2>0. Quiet
    BY <1>11 DEF Clear, Quiet
  <2>1. journal # NoJournal => journal.files \subseteq File
    BY DEF TypeInv, Journal
  <2> QED BY <1>11, <2>0, <2>1, QuietFacts DEF Clear, JournalInv
<1>12. ASSUME RecoverKeep PROVE JournalInv'
  BY <1>12 DEF RecoverKeep, JournalInv
<1>13. ASSUME Edit PROVE JournalInv'
  <2>0. Quiet
    BY <1>13 DEF Edit, Quiet, TypeInv, Contents
  <2>1. journal # NoJournal => journal.files \subseteq File
    BY DEF TypeInv, Journal
  <2> QED BY <1>13, <2>0, <2>1, QuietFacts DEF Edit, JournalInv
<1>14. ASSUME Detect PROVE JournalInv'
  <2>0. Quiet
    BY <1>14 DEF Detect, Quiet
  <2>1. journal # NoJournal => journal.files \subseteq File
    BY DEF TypeInv, Journal
  <2> QED BY <1>14, <2>0, <2>1, QuietFacts DEF Detect, JournalInv
<1>15. ASSUME UNCHANGED vars PROVE JournalInv'
  <2>0. Quiet
    BY <1>15 DEF vars, disk, apply, aux, Quiet
  <2>1. journal # NoJournal => journal.files \subseteq File
    BY DEF TypeInv, Journal
  <2> QED BY <1>15, <2>0, <2>1, QuietFacts DEF vars, JournalInv
<1> QED BY <1>1, <1>2, <1>3, <1>4, <1>5, <1>6, <1>7, <1>8, <1>9, <1>10, <1>11, <1>12, <1>13,
           <1>14, <1>15 DEF Next

\* Every step keeps each label of an execution at what the journal, the state and the
\* files then are.
LEMMA RunStep == ASSUME TypeInv, PlansInv, RunInv, BindingsAreTrue, [Next]_vars PROVE RunInv'
<1> USE DEF Goto, Return, disk, apply, aux
<1>1. ASSUME NEW i \in Instance, NEW r \in Record, NEW revoke \in BOOLEAN,
           Preview(i,
           r, revoke) PROVE RunInv'
  <2>0. Quiet
    BY <1>1 DEF Preview, Quiet
  <2>1. pc # "idle" => run \in Plan /\ run.files \subseteq File
    BY DEF RunInv, Plan
  <2> QED BY <1>1, <2>0, <2>1, QuietFacts, NameAssumption DEF Preview, RunInv, OfRun
<1>2. ASSUME NEW i \in Instance, NEW p \in plans[i], Apply(i, p) PROVE RunInv'
  <2>0. Quiet
    BY <1>2 DEF Apply, Quiet
  <2>1. pc # "idle" => run \in Plan /\ run.files \subseteq File
    BY DEF RunInv, Plan
  <2>2. p \in Plan /\ Sound(p)
    BY DEF TypeInv, PlansInv
  <2> QED BY <1>2, <2>0, <2>1, <2>2, QuietFacts, NameAssumption DEF Apply, RunInv, OfRun
<1>3. ASSUME NEW i \in Instance, NEW r \in Record, Upsert(i, r) PROVE RunInv'
  BY <1>3 DEF Upsert, RunInv
<1>4. ASSUME NEW i \in Instance, RecoverRestore(i) PROVE RunInv'
  BY <1>4 DEF RecoverRestore, RunInv
<1>5. ASSUME NEW i \in Instance, Restart(i) PROVE RunInv'
  <2>0. Quiet
    BY <1>5 DEF Restart, Quiet
  <2>1. pc # "idle" => run \in Plan /\ run.files \subseteq File
    BY DEF RunInv, Plan
  <2> QED BY <1>5, <2>0, <2>1, QuietFacts, NameAssumption DEF Restart, RunInv, OfRun
<1>6. ASSUME Validate PROVE RunInv'
  BY <1>6, NameAssumption DEF Validate, NoPendingJournal, Writable, SameState, RunInv, TypeInv
<1>7. ASSUME Begin PROVE RunInv'
  <2>0. Quiet
    BY <1>7 DEF Begin, Quiet
  <2>1. CASE journal' = journal
    BY <1>7, <2>0, <2>1, NameAssumption DEF Begin, RunInv, NoJournal
  <2>2. CASE journal' # journal
    <3>1. /\ run \in Plan /\ Sound(run) /\ journal = NoJournal /\ Holds(run, run.before)
          /\ state = run.ctx /\ run.files \subseteq File /\ lease # Nobody
      BY <1>7, <2>2 DEF Begin, RunInv, Plan
    <3>2. IsBefore(run)
      <4>1. AllTrue
        BY <3>1, ClosedFacts
      <4> QED BY <3>1, <4>1 DEF AllTrue, IsBefore, Agrees, Intact, Holds
    <3>3. \A p : p = run => IsBefore(p)'
      BY <2>0, <3>1, <3>2, QuietFacts
    <3>4. /\ journal'.files = run.files /\ journal'.before = run.before
          /\ journal'.after = run.after /\ journal'.rec = run.rec
          /\ journal'.phase = "Applying" /\ UNCHANGED <<run, state, lease>> /\ pc' = "write"
          /\ recorded' = FALSE
      BY <1>7, <2>2 DEF Begin
    <3>5. journal' # NoJournal
      BY <1>7, <2>2 DEF Begin, NoJournal, RunInv
    <3> QED BY <3>1, <3>3, <3>4, <3>5 DEF RunInv, OfRun
  <2> QED BY <2>1, <2>2
<1>8. ASSUME Write PROVE RunInv'
  <2>1. /\ run \in Plan /\ OfRun /\ IsBefore(run) /\ journal \in Journal /\ Sound(run)
        /\ run.files \subseteq File /\ lease # Nobody /\ state = run.ctx
        /\ journal.phase = "Applying" /\ ~recorded
    BY <1>8 DEF Write, RunInv, TypeInv, OfRun, Plan
  <2>2. UNCHANGED <<state, recorded, stray, undone>>
    BY <1>8 DEF Write
  <2>3. CASE Goto("commit") /\ UNCHANGED journal
    <3>1. Intact(run)' = Intact(run) /\ run' = run
      BY <2>2, <2>3 DEF Intact
    <3>2. \A f \in run.files : content'[f] = run.after[f]
      BY <1>8, <2>1, <2>3 DEF Write
    <3>3. Agrees(state, run, run.before)'
      BY <2>1, <2>2, <3>1 DEF IsBefore, Agrees
    <3>4. IsWritten(run)'
      BY <3>1, <3>2, <3>3 DEF IsWritten, Intact
    <3> QED BY <2>1, <2>2, <2>3, <3>4 DEF RunInv, OfRun
  <2>4. CASE Goto("clear")
    <3>1. /\ content' = content /\ run' = run
          /\ journal' = [journal EXCEPT !.phase = "RolledBack"]
      <4>1. journal'.phase = "RolledBack" /\ run' = run
        BY <1>8, <2>4 DEF Write
      <4>2. \A phase : [journal EXCEPT !.phase = phase].phase = phase
        BY <2>1 DEF Journal
      <4>3. CASE content' = content
        <5>1. \E phase : journal' = [journal EXCEPT !.phase = phase]
          BY <1>8, <2>4 DEF Write
        <5> QED BY <4>1, <4>2, <4>3, <5>1
      <4>4. CASE content' # content
        <5>1. PICK left \in SUBSET run.files :
                 /\ content' = [f \in File |-> IF f \in left THEN run.after[f] ELSE content[f]]
                 /\ \E phase \in {journal.phase, Compensated(left \cup Conflicting(run))} :
                       journal' = [journal EXCEPT !.phase = phase]
          BY <1>8, <2>4, <4>4 DEF Write
        <5>2. left = {}
          BY <2>1, <4>1, <4>2, <5>1 DEF Compensated
        <5> QED BY <4>4, <5>1, <5>2 DEF TypeInv, Contents
      <4> QED BY <4>3, <4>4
    <3>2. /\ journal'.phase = "RolledBack" /\ journal' # NoJournal
          /\ journal'.files = journal.files /\ journal'.before = journal.before
          /\ journal'.after = journal.after /\ journal'.rec = journal.rec
      BY <2>1, <3>1 DEF Journal, NoJournal, OfRun
    <3>3. IsBefore(run)'
      BY <2>1, <2>2, <3>1 DEF IsBefore, Agrees, Intact
    <3> QED BY <2>1, <2>2, <2>4, <3>1, <3>2, <3>3 DEF RunInv, OfRun
  <2>5. CASE Return
    BY <2>5 DEF RunInv
  <2> QED BY <1>8, <2>3, <2>4, <2>5 DEF Write
<1>9. ASSUME Commit PROVE RunInv'
  <2>1. CASE Return
    BY <2>1 DEF RunInv
  <2>2. CASE ~Return
    <3>1. /\ run \in Plan /\ OfRun /\ Sound(run) /\ lease # Nobody
      BY <1>9 DEF Commit, RunInv
    <3>2. Goto("complete") /\ UNCHANGED journal /\ recorded' = TRUE
      BY <1>9, <2>2 DEF Commit
    <3>3. \A p : p = run => IsAfter(p)'
      BY <1>9, <3>2, CommitAfter
    <3> QED BY <3>1, <3>2, <3>3 DEF RunInv, OfRun
  <2> QED BY <2>1, <2>2
<1>10. ASSUME Complete PROVE RunInv'
  <2>0. Quiet
    BY <1>10 DEF Complete, Quiet
  <2>1. CASE Return
    BY <2>1 DEF RunInv
  <2>2. CASE ~Return
    <3>1. /\ run \in Plan /\ OfRun /\ Sound(run) /\ lease # Nobody /\ IsAfter(run)
          /\ run.files \subseteq File /\ journal \in Journal
      BY <1>10 DEF Complete, RunInv, Plan, TypeInv, OfRun
    <3>2. Goto("clear") /\ journal' = [journal EXCEPT !.phase = "Committed"]
      BY <1>10, <2>2 DEF Complete
    <3>3. \A p : p = run => IsAfter(p)'
      BY <2>0, <3>1, QuietFacts
    <3>4. /\ journal'.phase = "Committed" /\ journal' # NoJournal
          /\ journal'.files = journal.files /\ journal'.before = journal.before
          /\ journal'.after = journal.after /\ journal'.rec = journal.rec
      BY <3>1, <3>2 DEF Journal, NoJournal, OfRun
    <3> QED BY <3>1, <3>2, <3>3, <3>4 DEF RunInv, OfRun
  <2> QED BY <2>1, <2>2
<1>11. ASSUME Clear PROVE RunInv'
  BY <1>11 DEF Clear, RunInv
<1>12. ASSUME RecoverKeep PROVE RunInv'
  BY <1>12 DEF RecoverKeep, RunInv
<1>13. ASSUME Edit PROVE RunInv'
  <2>0. Quiet
    BY <1>13 DEF Edit, Quiet, TypeInv, Contents
  <2>1. pc # "idle" => run \in Plan /\ run.files \subseteq File
    BY DEF RunInv, Plan
  <2> QED BY <1>13, <2>0, <2>1, QuietFacts, NameAssumption DEF Edit, RunInv, OfRun
<1>14. ASSUME Detect PROVE RunInv'
  <2>0. Quiet
    BY <1>14 DEF Detect, Quiet
  <2>1. pc # "idle" => run \in Plan /\ run.files \subseteq File
    BY DEF RunInv, Plan
  <2> QED BY <1>14, <2>0, <2>1, QuietFacts, NameAssumption DEF Detect, RunInv, OfRun
<1>15. ASSUME UNCHANGED vars PROVE RunInv'
  <2>0. Quiet
    BY <1>15 DEF vars, disk, apply, aux, Quiet
  <2>1. pc # "idle" => run \in Plan /\ run.files \subseteq File
    BY DEF RunInv, Plan
  <2> QED BY <1>15, <2>0, <2>1, QuietFacts DEF vars, RunInv, OfRun
<1> QED BY <1>1, <1>2, <1>3, <1>4, <1>5, <1>6, <1>7, <1>8, <1>9, <1>10, <1>11, <1>12, <1>13,
           <1>14, <1>15 DEF Next

\* Every step keeps the bindings true.
LEMMA TrueStep ==
    ASSUME TypeInv, JournalInv, RunInv, BindingsAreTrue, [Next]_vars
    PROVE  BindingsAreTrue'
<1> USE DEF Goto, Return, disk, apply, aux
<1>1. ASSUME NEW i \in Instance, NEW r \in Record, NEW revoke \in BOOLEAN,
           Preview(i,
           r, revoke) PROVE BindingsAreTrue'
  <2>0. Quiet
    BY <1>1 DEF Preview, Quiet
  <2>1. journal # NoJournal => journal' = journal
    BY <1>1 DEF Preview, RunInv
  <2> QED BY <2>0, <2>1, TrueKept
<1>2. ASSUME NEW i \in Instance, NEW p \in plans[i], Apply(i, p) PROVE BindingsAreTrue'
  <2>0. Quiet
    BY <1>2 DEF Apply, Quiet
  <2>1. journal # NoJournal => journal' = journal
    BY <1>2 DEF Apply, RunInv
  <2> QED BY <2>0, <2>1, TrueKept
<1>3. ASSUME NEW i \in Instance, NEW r \in Record, Upsert(i, r) PROVE BindingsAreTrue'
  <2>0. Quiet
    BY <1>3, UpsertFacts DEF Upsert, Quiet, TypeInv
  <2>1. journal # NoJournal => journal' = journal
    BY <1>3 DEF Upsert, NoPendingJournal, Writable, RunInv
  <2> QED BY <2>0, <2>1, TrueKept
<1>4. ASSUME NEW i \in Instance, RecoverRestore(i) PROVE BindingsAreTrue'
  <2>1. /\ journal \in Journal /\ journal # NoJournal /\ journal.files \subseteq File
        /\ journal.before \in Contents /\ journal.after \in Contents
    BY <1>4 DEF RecoverRestore, TypeInv, Journal
  <2>2. \A r \in Record : \A t \in Targets(r) : FileOf(t, r) \in File
    BY FileFacts
  <2>3. UNCHANGED <<state, stray>>
    BY <1>4 DEF RecoverRestore
  <2>4. CASE journal.phase = "Committed"
    <3>1. UNCHANGED <<content, undone>>
      BY <1>4, <2>4 DEF RecoverRestore
    <3>2. Quiet /\ IsAfter(journal)
      BY <2>1, <2>3, <2>4, <3>1 DEF Quiet, JournalInv
    <3>3. AllTrue
      BY <3>2, ClosedFacts
    <3> QED BY <3>2, <3>3, TrueKept
  <2>5. CASE journal.phase # "Committed"
    <3>1. PICK left \in SUBSET journal.files :
             /\ Conflicting(journal) \subseteq left /\ content' = Restored(journal, left)
             /\ \/ journal' = NoJournal /\ left = {}
                \/ journal' \in Journal /\ journal'.files = journal.files
      BY <1>4, <2>1, <2>5, RestoreOutcome
    <3>2. undone' = IF recorded THEN undone \cup PutBack ELSE undone
      BY <1>4, <2>5 DEF RecoverRestore
    <3>3. \A f \in File \ journal.files : content'[f] = content[f]
      BY <2>1, <3>1, RestoredFacts DEF TypeInv
    <3>4. ASSUME NEW r \in Record, NEW t \in Targets(r),
                 FileOf(t, r) \notin stray' \cup undone'
          PROVE  /\ FileOf(t, r) \notin stray \cup undone /\ FileOf(t, r) \in File
                 /\ Written(state', t, r) = Written(state, t, r)
                 /\ FileOf(t, r) \notin journal.files
                       => Written(state', t, r) = {content'[FileOf(t, r)][r]} \ {0}
      <4>1. FileOf(t, r) \notin stray \cup undone /\ FileOf(t, r) \in File
        BY <2>2, <2>3, <3>2, <3>4
      <4>2. Written(state', t, r) = Written(state, t, r)
        BY <2>3
      <4> QED BY <3>3, <4>1, <4>2 DEF BindingsAreTrue, Written
    <3>5. CASE journal' # NoJournal
      <4>1. journal'.files = journal.files
        BY <3>1, <3>5
      <4> QED BY <3>4, <3>5, <4>1 DEF BindingsAreTrue, Written
    <3>6. CASE journal' = NoJournal
      <4>0. left = {}
        BY <3>1, <3>6 DEF Journal, NoJournal
      <4>1. \A f \in journal.files : content'[f] = journal.before[f]
        BY <2>1, <3>1, <4>0, RestoredFacts DEF TypeInv
      <4>2. ASSUME NEW r \in Record, NEW t \in Targets(r),
                   FileOf(t, r) \notin stray' \cup undone', FileOf(t, r) \in journal.files
            PROVE  Written(state', t, r) = {content'[FileOf(t, r)][r]} \ {0}
        <5>1. FileOf(t, r) \in Intact(journal) /\ Written(state', t, r) = Written(state, t, r)
          BY <3>4, <4>2 DEF Intact
        <5>2. CASE recorded
          <6>1. content'[FileOf(t, r)] = content[FileOf(t, r)]
            BY <3>2, <3>4, <4>2, <5>2 DEF PutBack
          <6> QED BY <2>1, <5>1, <5>2, <6>1 DEF JournalInv, IsAfter, Agrees
        <5>3. CASE ~recorded
          BY <2>1, <4>1, <4>2, <5>1, <5>3 DEF JournalInv, IsBetween, Agrees
        <5> QED BY <5>2, <5>3
      <4> QED BY <3>4, <4>2 DEF BindingsAreTrue, Written
    <3> QED BY <3>5, <3>6
  <2> QED BY <2>4, <2>5
<1>5. ASSUME NEW i \in Instance, Restart(i) PROVE BindingsAreTrue'
  <2>0. Quiet
    BY <1>5 DEF Restart, Quiet
  <2>1. journal # NoJournal => journal' = journal
    BY <1>5 DEF Restart, RunInv
  <2> QED BY <2>0, <2>1, TrueKept
<1>6. ASSUME Validate PROVE BindingsAreTrue'
  <2>0. Quiet
    BY <1>6 DEF Validate, NoPendingJournal, Writable, SameState, Quiet
  <2>1. journal # NoJournal => journal' = journal
    BY <1>6 DEF Validate, NoPendingJournal, Writable, SameState, RunInv
  <2> QED BY <2>0, <2>1, TrueKept
<1>7. ASSUME Begin PROVE BindingsAreTrue'
  <2>0. Quiet
    BY <1>7 DEF Begin, Quiet
  <2>1. journal # NoJournal => journal' = journal
    BY <1>7 DEF Begin, RunInv
  <2> QED BY <2>0, <2>1, TrueKept
<1>8. ASSUME Write PROVE BindingsAreTrue'
  <2>1. run.files = journal.files /\ journal # NoJournal /\ journal \in Journal
    BY <1>8 DEF Write, RunInv, OfRun, TypeInv
  <2>2. journal'.files = journal.files /\ journal' # NoJournal
    BY <1>8, <2>1 DEF Write, Journal, NoJournal
  <2>3. UNCHANGED <<state, stray, undone>>
    BY <1>8 DEF Write
  <2>4. \A f \in File \ run.files : content'[f] = content[f]
    BY <1>8 DEF Write
  <2>5. \A r \in Record : \A t \in Targets(r) : FileOf(t, r) \in File
    BY FileFacts
  <2> QED BY <2>1, <2>2, <2>3, <2>4, <2>5 DEF BindingsAreTrue, Proofs
<1>9. ASSUME Commit PROVE BindingsAreTrue'
  <2>1. /\ run.files = journal.files /\ journal # NoJournal /\ journal \in Journal
        /\ run \in Plan /\ run.files \subseteq File /\ run.before \in Contents
        /\ run.after \in Contents /\ Sound(run) /\ state = run.ctx /\ run.rec \in Active(state)
        /\ journal.phase # "Committed"
    BY <1>9 DEF Commit, RunInv, OfRun, TypeInv, Plan, Sound
  <2>2. journal'.files = journal.files /\ journal' # NoJournal
    BY <1>9, <2>1, RollbackFacts DEF Commit
  <2>3. stray' = stray /\ undone \subseteq undone'
    BY <1>9 DEF Commit
  <2>4. \A f \in File \ run.files : content'[f] = content[f]
    <3>1. content' = content \/ \E left \in SUBSET run.files : content' = Restored(run, left)
      BY <1>9, <2>1, RollbackFacts DEF Commit
    <3> QED BY <2>1, <3>1, RestoredFacts DEF TypeInv
  <2>5. \A r \in Record : \A t \in Targets(r) : FileOf(t, r) \in File
    BY FileFacts
  <2>6. \A r \in Record : \A t \in Targets(r) :
           FileOf(t, r) \notin run.files => Written(state', t, r) = Written(state, t, r)
    <3>1. state' = state \/ state' = Committed(run)
      BY <1>9 DEF Commit
    <3>2. \A t, r : Written(Committed(run), t, r) = Written(run, t, r)
      BY <2>1, CommittedFacts, WrittenFacts DEF TypeInv
    <3> QED BY <2>1, <3>1, <3>2 DEF Sound
  <2> QED BY <2>1, <2>2, <2>3, <2>4, <2>5, <2>6 DEF BindingsAreTrue, Written
<1>10. ASSUME Complete PROVE BindingsAreTrue'
  <2>0. Quiet
    BY <1>10 DEF Complete, Quiet
  <2>1. journal \in Journal /\ journal # NoJournal
    BY <1>10 DEF Complete, RunInv, OfRun, TypeInv
  <2>2. journal'.files = journal.files /\ journal' # NoJournal
    BY <1>10, <2>1 DEF Complete, Journal, NoJournal
  <2> QED BY <2>0, <2>2, TrueKept
<1>11. ASSUME Clear PROVE BindingsAreTrue'
  <2>0. Quiet
    BY <1>11 DEF Clear, Quiet
  <2>1. IsBefore(journal) \/ IsAfter(journal)
    BY <1>11, SameFiles DEF Clear, RunInv, OfRun
  <2>2. AllTrue
    BY <2>1, ClosedFacts
  <2> QED BY <2>0, <2>2, TrueKept
<1>12. ASSUME RecoverKeep PROVE BindingsAreTrue'
  <2>1. UNCHANGED <<state, content, undone>> /\ stray' = stray \cup journal.files
    BY <1>12 DEF RecoverKeep
  <2> QED BY <2>1 DEF BindingsAreTrue, Proofs
<1>13. ASSUME Edit PROVE BindingsAreTrue'
  <2>0. Quiet
    BY <1>13 DEF Edit, Quiet, TypeInv, Contents
  <2>1. journal # NoJournal => journal' = journal
    BY <1>13 DEF Edit, RunInv
  <2> QED BY <2>0, <2>1, TrueKept
<1>14. ASSUME Detect PROVE BindingsAreTrue'
  <2>0. Quiet
    BY <1>14 DEF Detect, Quiet
  <2>1. journal # NoJournal => journal' = journal
    BY <1>14 DEF Detect, RunInv
  <2> QED BY <2>0, <2>1, TrueKept
<1>15. ASSUME UNCHANGED vars PROVE BindingsAreTrue'
  <2>0. Quiet
    BY <1>15 DEF vars, disk, apply, aux, Quiet
  <2>1. journal' = journal
    BY <1>15 DEF vars
  <2> QED BY <2>0, <2>1, TrueKept
<1> QED BY <1>1, <1>2, <1>3, <1>4, <1>5, <1>6, <1>7, <1>8, <1>9, <1>10, <1>11, <1>12, <1>13,
           <1>14, <1>15 DEF Next

-----------------------------------------------------------------------------
(***************************************************************************)
(* The theorems.                                                           *)
(***************************************************************************)
\* The invariant holds at first.
LEMMA InitInv == ASSUME Init PROVE IInv
<1>1. /\ loaded = [i \in Instance |-> state] /\ journal = NoJournal /\ lease = Nobody
      /\ run = NoPlan /\ pc = "idle" /\ plans = [i \in Instance |-> {}]
      /\ recorded = FALSE /\ stray = {} /\ undone = {} /\ detected \subseteq Target \ {Shared}
      /\ content = [f \in File |-> [h \in Holder |->
                       IF h = Foreign /\ f[2] = "mcp" THEN 1 ELSE 0]]
  BY DEF Init
<1>2. PICK S \in SUBSET Record :
         state = [rev |-> 1, body |-> [r \in Record |-> IF r \in S THEN 2 ELSE 0],
                  fresh |-> Record \ S, tombs |-> <<>>, bindings |-> {}]
  BY DEF Init
<1>3. state \in State /\ state.bindings = {}
  BY <1>2 DEF State, Body
<1>4. budget \in Budget
  <2>1. /\ MaxPlans \in Nat /\ MaxSaves \in Nat /\ MaxEdits \in Nat /\ MaxFaults \in Nat
        /\ MaxRestarts \in Nat
    BY BoundAssumption
  <2> QED BY <2>1 DEF Init, Budget
<1>5. content \in Contents
  BY <1>1 DEF Contents
<1>6. TypeInv
  BY <1>1, <1>3, <1>4, <1>5 DEF TypeInv
<1>7. PlansInv /\ JournalInv /\ RunInv
  BY <1>1 DEF PlansInv, JournalInv, RunInv
<1>8. BindingsAreTrue
  <2>1. \A r \in Record : r \in Holder /\ r # Foreign
    BY NameAssumption DEF Holder
  <2>2. \A r \in Record : \A t \in Targets(r) : content[FileOf(t, r)][r] = 0
    BY <1>1, <2>1, FileFacts
  <2>3. \A r \in Record : \A t \in Targets(r) : Proofs(state, t, r) = {}
    BY <1>3 DEF Proofs
  <2> QED BY <2>2, <2>3 DEF BindingsAreTrue
<1> QED BY <1>6, <1>7, <1>8 DEF IInv

\* Every step keeps it.
LEMMA StepInv == ASSUME IInv, [Next]_vars PROVE IInv'
<1> USE DEF IInv
<1>1. TypeInv' /\ PlansInv'
  BY TypeStep, PlansStep
<1>2. JournalInv'
  BY <1>1, JournalStep
<1>3. RunInv' /\ BindingsAreTrue'
  BY RunStep, TrueStep
<1> QED BY <1>1, <1>2, <1>3

\* Every stored plan is sound, every label of an execution agrees with the journal, the
\* state and the files, and a pending journal can be rolled back or was committed, in
\* every reachable state.
THEOREM Inductive == Spec => []IInv
<1>1. Init => IInv
  BY InitInv
<1>2. IInv /\ [Next]_vars => IInv'
  BY StepInv
<1> QED BY <1>1, <1>2, PTL DEF Spec

\* A record is written where, and only where, state.json says so, and as it says: a
\* binding is enough to revoke, and nothing of a deleted record stays behind.
THEOREM BindingsHold == Spec => []BindingsAreTrue
<1>1. IInv => BindingsAreTrue
  BY DEF IInv
<1> QED BY <1>1, Inductive, PTL

\* An instance that starts while a journal is pending knows all its files, also those of
\* a record that the interrupted revocation has archived.
THEOREM RecoveryHolds == Spec => []RecoveryKnowsTheFiles
<1>1. ASSUME IInv PROVE RecoveryKnowsTheFiles
  BY <1>1 DEF IInv, JournalInv, Narrow, RecoveryKnowsTheFiles, Recoverable
<1> QED BY <1>1, Inductive, PTL

\* Whatever is published, revoked, restored or recovered, only the entry of the reviewed
\* record changes in a shared file, and not even that one if the user changed it.
THEOREM OnlyReviewedHolds == Spec => OnlyTheReviewedEntry
<1> DEFINE Entry(f, h) ==
       (content'[f][h] # content[f][h] /\ budget'.edit = budget.edit)
          => /\ journal # NoJournal /\ f \in journal.files /\ h = journal.rec
             /\ content[f][h] # 1
<1>1. ASSUME IInv, [Next]_vars, NEW f \in File, NEW h \in Holder PROVE Entry(f, h)
  <2> SUFFICES ASSUME content'[f][h] # content[f][h], budget'.edit = budget.edit
               PROVE  /\ journal # NoJournal /\ f \in journal.files /\ h = journal.rec
                      /\ content[f][h] # 1
    OBVIOUS
  <2>1. TypeInv /\ RunInv /\ JournalInv
    BY <1>1 DEF IInv
  <2>2. CASE Write
    <3>1. /\ run \in Plan /\ OfRun /\ Narrow(run)
      BY <2>1, <2>2 DEF Write, RunInv, Sound
    <3>2. f \in run.files /\ content[f] = run.before[f] /\ content'[f] = run.after[f]
      BY <2>2 DEF Write, Holds
    <3> QED BY <3>1, <3>2 DEF OfRun, Narrow
  <2>3. CASE Commit
    <3>1. /\ run \in Plan /\ OfRun /\ Narrow(run) /\ run.files \subseteq File
          /\ run.before \in Contents /\ run.after \in Contents
      BY <2>1, <2>3 DEF Commit, RunInv, Sound, Plan
    <3>2. PICK left : content' = Restored(run, left)
      BY <2>3 DEF Commit, Rollback
    <3>3. f \in run.files /\ content[f] = run.after[f] /\ content'[f] = run.before[f]
      BY <2>1, <3>1, <3>2, RestoredFacts DEF TypeInv
    <3> QED BY <3>1, <3>3 DEF OfRun, Narrow
  <2>4. ASSUME NEW i \in Instance, RecoverRestore(i)
        PROVE  /\ journal # NoJournal /\ f \in journal.files /\ h = journal.rec
               /\ content[f][h] # 1
    <3>1. /\ journal \in Journal /\ journal # NoJournal /\ journal.files \subseteq File
          /\ journal.before \in Contents /\ journal.after \in Contents /\ Narrow(journal)
      BY <2>1, <2>4 DEF RecoverRestore, TypeInv, Journal, JournalInv
    <3>2. PICK left : content' = Restored(journal, left)
      BY <2>4 DEF RecoverRestore, Rollback
    <3>3. /\ f \in journal.files /\ content[f] = journal.after[f]
          /\ content'[f] = journal.before[f]
      BY <2>1, <3>1, <3>2, RestoredFacts DEF TypeInv
    <3> QED BY <3>1, <3>3 DEF Narrow
  <2>5. CASE Edit
    <3>1. budget'.edit # budget.edit
      BY <2>1, <2>5 DEF Edit, Spend, TypeInv, Budget
    <3> QED BY <3>1
  <2>6. content' # content
    OBVIOUS
  <2>7. ASSUME NEW i \in Instance,
               \/ \E r \in Record, revoke \in BOOLEAN : Preview(i, r, revoke)
               \/ \E p \in plans[i] : Apply(i, p)
               \/ \E r \in Record : Upsert(i, r)
               \/ Restart(i)
        PROVE  FALSE
    BY <2>6, <2>7 DEF Preview, Apply, Upsert, Restart, disk
  <2>8. ~(Validate \/ Begin \/ Complete \/ Clear \/ RecoverKeep \/ Detect)
    BY <2>6 DEF Validate, Begin, Complete, Clear, RecoverKeep, Detect, disk
  <2>9. Next
    BY <1>1, <2>6 DEF vars, disk
  <2> QED BY <2>2, <2>3, <2>4, <2>5, <2>7, <2>8, <2>9 DEF Next
<1>2. IInv /\ [Next]_vars => \A f \in File, h \in Holder : Entry(f, h)
  BY <1>1
<1> QED BY <1>2, Inductive, PTL DEF Spec, OnlyTheReviewedEntry
=============================================================================
