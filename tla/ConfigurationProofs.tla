------------------------ MODULE ConfigurationProofs ------------------------
(***************************************************************************)
(* Proofs about the two kinds of configuration the application keeps: its  *)
(* own state (StateStore), and what it writes for the clients              *)
(* (ClientDocuments), each for any constants that satisfy its assumptions. *)
(*                                                                         *)
(* StateStore: no save of any instance is lost, the last-good copy is the  *)
(* previous revision, and the credential in the store belongs to the       *)
(* connection in state.json.                                               *)
(*                                                                         *)
(* ClientDocuments: what state.json has proofs of is what the documents    *)
(* and the environment have, and can be taken back; what is shown as in    *)
(* sync is; JetBrains calls the URL that was entered; and what others have *)
(* in the same documents is kept.                                          *)
(***************************************************************************)
EXTENDS StateStore, ClientDocuments, SequenceTheorems, FiniteSetTheorems,
        WellFoundedInduction, TLAPS

-----------------------------------------------------------------------------
(***************************************************************************)
(* The state of the application.                                           *)
(***************************************************************************)

Working  == {"get", "secret", "backup", "check", "replace", "undo", "cleanup"}
ValidDoc == [form : {"valid"}, rev : Nat, conn : Life, key : Key]
AnyDoc   == ValidDoc \cup {Absent, Damaged}

TypeInv ==
    /\ primary \in AnyDoc /\ good \in AnyDoc /\ keyring \in Key
    /\ lease \in Instance \cup {Nobody}
    /\ loaded \in [Instance -> AnyDoc] /\ shown \in [Instance -> ValidDoc]
    /\ recovery \in [Instance -> BOOLEAN]
    /\ pc \in [Instance -> Working \cup {"idle", "closed", "open"}]
    /\ op \in [Instance -> Op] /\ old \in [Instance -> Key]
    /\ torn \in BOOLEAN /\ edited \in BOOLEAN /\ unsynced \in BOOLEAN

\* The lease is held by exactly the instance that is inside a command.
LeaseInv == \A i \in Instance : lease = i <=> pc[i] \in Working

\* What an instance works with is what it read.
Agree(i) == IF loaded[i].form = "valid" THEN shown[i] = loaded[i]
                                        ELSE loaded[i] = Absent /\ shown[i] = Default
ReadInv ==
    \A i \in Instance :
        /\ pc[i] \in Working \cup {"idle"} => recovery[i] \/ Agree(i)
        /\ pc[i] \in Working => ~recovery[i]
        /\ pc[i] = "open" => loaded[i].form # "valid"

\* From its last comparison on, only another program can change what a save compared.
SaveInv ==
    \A i \in Instance :
        /\ pc[i] = "replace" => primary = loaded[i] \/ (edited /\ primary.form # "valid")
        /\ pc[i] \in {"check", "replace"} => good = Previous(i) \/ good.form # "valid"

\* Without another program, nothing is damaged.
CleanInv ==
    ~edited => \A i \in Instance : loaded[i] # Damaged

\* At each label, which credential belongs to state.json: the one in the store, or, once
\* a command has changed it, the one the command found.
Known == ~torn /\ ~edited /\ ~unsynced
Fits(key) == (primary.form = "valid" /\ primary.conn = "live") => key = primary.key
Changed(i) == pc[i] \in {"backup", "check", "replace"} /\ op[i].kind = "upsert"

KeyInv ==
    /\ lease = Nobody /\ Known => Fits(keyring)
    /\ \A i \in Instance :
          /\ pc[i] = "secret" => old[i] = keyring
          /\ pc[i] \in {"get", "secret"} => op[i].kind = "upsert"
          /\ pc[i] = "undo" => op[i].kind = "upsert"
          /\ pc[i] \in {"get", "secret"} /\ Known => Fits(keyring)
          /\ Changed(i) => keyring = NewKey(i)
          /\ (Changed(i) \/ pc[i] = "undo") /\ Known => Fits(old[i])
          /\ pc[i] \in {"backup", "check", "replace"} /\ ~Changed(i) /\ Known => Fits(keyring)
          /\ pc[i] = "cleanup" /\ Known => primary.conn # "live"

IInv == TypeInv /\ LeaseInv /\ ReadInv /\ SaveInv /\ CleanInv /\ LastGoodIsPrevious /\ KeyInv

USE DEF Nobody

-----------------------------------------------------------------------------
(***************************************************************************)
(* What a command writes.                                                  *)
(***************************************************************************)
\* What a command will commit is one revision after what its instance works with.
LEMMA NextDocFacts ==
    ASSUME TypeInv, NEW i \in Instance
    PROVE  /\ NextDoc(i) \in ValidDoc /\ NextDoc(i).rev = shown[i].rev + 1
           /\ op[i].kind = "upsert" => NextDoc(i).conn = "live" /\ NextDoc(i).key = NewKey(i)
           /\ op[i].kind = "toggle" => /\ NextDoc(i).conn = shown[i].conn
                                       /\ NextDoc(i).key = shown[i].key
           /\ op[i].kind = "delete" => NextDoc(i).conn = "gone"
<1>1. /\ op[i] \in Op /\ shown[i] \in ValidDoc /\ old[i] \in Key
  BY DEF TypeInv
<1>2. NewKey(i) \in Key
  BY <1>1 DEF NewKey, Op, Effect, Key
<1>3. CASE op[i].kind = "upsert"
  BY <1>1, <1>2, <1>3 DEF NextDoc, ValidDoc, Life
<1>4. CASE op[i].kind = "toggle"
  BY <1>1, <1>4 DEF NextDoc, ValidDoc, Life
<1>5. CASE op[i].kind = "delete"
  <2>1. NextDoc(i) = [shown[i] EXCEPT !.rev = @ + 1, !.conn = "gone", !.key = NoSecret]
    BY <1>5 DEF NextDoc
  <2>2. NextDoc(i) = [form |-> "valid", rev |-> shown[i].rev + 1, conn |-> "gone",
                      key |-> NoSecret]
    BY <1>1, <2>1 DEF ValidDoc
  <2> QED BY <1>1, <1>5, <2>2 DEF ValidDoc, Life, Key
<1> QED BY <1>1, <1>3, <1>4, <1>5 DEF Op

\* The last-good copy a command writes is the revision its instance works with.
LEMMA PreviousFacts ==
    ASSUME TypeInv, ReadInv, NEW i \in Instance, pc[i] \in Working
    PROVE  /\ Previous(i) \in ValidDoc /\ Previous(i).rev = shown[i].rev
           /\ loaded[i] = Absent => Previous(i) = Default
           /\ loaded[i].form = "valid" => Previous(i) = loaded[i] /\ shown[i] = loaded[i]
           /\ loaded[i] = Absent \/ loaded[i].form = "valid"
           /\ loaded[i] = Absent => shown[i] = Default
<1>1. loaded[i] \in AnyDoc /\ shown[i] \in ValidDoc
  BY DEF TypeInv
<1>2. Agree(i)
  BY DEF ReadInv
<1> QED BY <1>1, <1>2 DEF Agree, Previous, AnyDoc, ValidDoc, Absent, Damaged, Default, Void,
           Life, Key

\* A missing or damaged file, and the state of a first start.
LEMMA VoidFacts ==
    /\ Absent.form = "absent" /\ Damaged.form = "damaged" /\ Default.form = "valid"
    /\ Default \in ValidDoc /\ Default.rev = 0 /\ Default.conn = "none"
    /\ \A d \in AnyDoc : d.form = "valid" => d \in ValidDoc
    /\ \A d \in AnyDoc : d.form = "absent" => d = Absent
    /\ \A d \in AnyDoc : d.form = "damaged" => d = Damaged
    /\ \A d \in ValidDoc : d.form = "valid" /\ d \in AnyDoc /\ d.rev \in Nat
BY DEF Absent, Damaged, Default, Void, ValidDoc, AnyDoc, Life, Key

-----------------------------------------------------------------------------
(***************************************************************************)
(* Each conjunct is preserved.                                             *)
(***************************************************************************)
\* Every step keeps the types.
LEMMA TypeStep == ASSUME TypeInv, ReadInv, [Next]_vars PROVE TypeInv'
<1> USE DEF Goto, Return, Failed
<1>1. ASSUME NEW i \in Instance, OpenPrimary(i) PROVE TypeInv'
  BY <1>1, VoidFacts DEF OpenPrimary, TypeInv, Working, files, cmd, aux
<1>2. ASSUME NEW i \in Instance, OpenBackup(i) PROVE TypeInv'
  BY <1>2, VoidFacts DEF OpenBackup, TypeInv, Working, files, cmd, aux
<1>3. ASSUME NEW i \in Instance, NEW o \in Ops, Start(i, o) PROVE TypeInv'
  BY <1>3 DEF Start, Ops, TypeInv, Working, files, mem, aux
<1>4. ASSUME NEW i \in Instance, SecretGet(i) PROVE TypeInv'
  BY <1>4 DEF SecretGet, TypeInv, Working, files, mem, aux
<1>5. ASSUME NEW i \in Instance, SecretChange(i) PROVE TypeInv'
  BY <1>5 DEF SecretChange, NewKey, TypeInv, Working, files, mem, cmd, aux, Op, Effect, Key
<1>6. ASSUME NEW i \in Instance, Backup(i) PROVE TypeInv'
  <2>1. Previous(i) \in AnyDoc
    BY <1>6, PreviousFacts, VoidFacts DEF Backup, Working
  <2> QED BY <1>6, <2>1 DEF Backup, TypeInv, Working, mem, cmd, aux
<1>7. ASSUME NEW i \in Instance, Check(i) PROVE TypeInv'
  BY <1>7 DEF Check, TypeInv, Working, files, mem, cmd, aux
<1>8. ASSUME NEW i \in Instance, Replace(i) PROVE TypeInv'
  <2>1. NextDoc(i) \in ValidDoc /\ NextDoc(i) \in AnyDoc
    BY NextDocFacts, VoidFacts
  <2> QED BY <1>8, <2>1 DEF Replace, TypeInv, Working, cmd
<1>9. ASSUME NEW i \in Instance, Undo(i) PROVE TypeInv'
  BY <1>9 DEF Undo, Restored, TypeInv, Working, files, mem, cmd
<1>10. ASSUME NEW i \in Instance, Cleanup(i) PROVE TypeInv'
  BY <1>10 DEF Cleanup, TypeInv, Working, files, mem, cmd, aux, Key
<1>11. ASSUME NEW i \in Instance, Crash(i) PROVE TypeInv'
  BY <1>11 DEF Crash, TypeInv, Working, files, mem, cmd
<1>12. ASSUME Edit PROVE TypeInv'
  BY <1>12 DEF Edit, TypeInv, mem, cmd, AnyDoc
<1>13. ASSUME UNCHANGED vars PROVE TypeInv'
  BY <1>13 DEF vars, TypeInv, files, mem, cmd, aux
<1> QED BY <1>1, <1>2, <1>3, <1>4, <1>5, <1>6, <1>7, <1>8, <1>9, <1>10, <1>11, <1>12, <1>13 DEF
           Next, Command

\* The lease is taken by Start and given back by every end of a command.
LEMMA LeaseStep == ASSUME TypeInv, LeaseInv, [Next]_vars PROVE LeaseInv'
<1> USE DEF Goto, Return, Failed
<1>1. ASSUME NEW i \in Instance, OpenPrimary(i) PROVE LeaseInv'
  BY <1>1, NobodyAssumption DEF OpenPrimary, LeaseInv, TypeInv, Working, files, cmd, aux
<1>2. ASSUME NEW i \in Instance, OpenBackup(i) PROVE LeaseInv'
  BY <1>2, NobodyAssumption DEF OpenBackup, LeaseInv, TypeInv, Working, files, cmd, aux
<1>3. ASSUME NEW i \in Instance, NEW o \in Ops, Start(i, o) PROVE LeaseInv'
  BY <1>3, NobodyAssumption DEF Start, Ops, FreeLease, LeaseInv, TypeInv, Working, files, mem,
     aux
<1>4. ASSUME NEW i \in Instance, SecretGet(i) PROVE LeaseInv'
  BY <1>4, NobodyAssumption DEF SecretGet, LeaseInv, TypeInv, Working, files, mem, aux
<1>5. ASSUME NEW i \in Instance, SecretChange(i) PROVE LeaseInv'
  BY <1>5, NobodyAssumption DEF SecretChange, LeaseInv, TypeInv, Working, files, mem, cmd, aux
<1>6. ASSUME NEW i \in Instance, Backup(i) PROVE LeaseInv'
  BY <1>6, NobodyAssumption DEF Backup, LeaseInv, TypeInv, Working, mem, cmd, aux
<1>7. ASSUME NEW i \in Instance, Check(i) PROVE LeaseInv'
  BY <1>7, NobodyAssumption DEF Check, LeaseInv, TypeInv, Working, files, mem, cmd, aux
<1>8. ASSUME NEW i \in Instance, Replace(i) PROVE LeaseInv'
  BY <1>8, NobodyAssumption DEF Replace, LeaseInv, TypeInv, Working, cmd
<1>9. ASSUME NEW i \in Instance, Undo(i) PROVE LeaseInv'
  BY <1>9, NobodyAssumption DEF Undo, LeaseInv, TypeInv, Working, files, mem, cmd
<1>10. ASSUME NEW i \in Instance, Cleanup(i) PROVE LeaseInv'
  BY <1>10, NobodyAssumption DEF Cleanup, LeaseInv, TypeInv, Working, files, mem, cmd, aux
<1>11. ASSUME NEW i \in Instance, Crash(i) PROVE LeaseInv'
  BY <1>11, NobodyAssumption DEF Crash, LeaseInv, TypeInv, Working, files, mem, cmd
<1>12. ASSUME Edit PROVE LeaseInv'
  BY <1>12, NobodyAssumption DEF Edit, LeaseInv, TypeInv, Working, mem, cmd
<1>13. ASSUME UNCHANGED vars PROVE LeaseInv'
  BY <1>13 DEF vars, LeaseInv, TypeInv, Working, files, mem, cmd, aux
<1> QED BY <1>1, <1>2, <1>3, <1>4, <1>5, <1>6, <1>7, <1>8, <1>9, <1>10, <1>11, <1>12, <1>13 DEF
           Next, Command

\* What an instance works with stays what it read or wrote.
LEMMA ReadStep == ASSUME TypeInv, LeaseInv, ReadInv, [Next]_vars PROVE ReadInv'
<1> USE DEF Goto, Return, Failed
<1>1. ASSUME NEW i \in Instance, OpenPrimary(i) PROVE ReadInv'
  BY <1>1, VoidFacts DEF OpenPrimary, ReadInv, LeaseInv, TypeInv, Agree, Working, files, cmd,
     aux
<1>2. ASSUME NEW i \in Instance, OpenBackup(i) PROVE ReadInv'
  BY <1>2, VoidFacts DEF OpenBackup, ReadInv, LeaseInv, TypeInv, Agree, Working, files, cmd, aux
<1>3. ASSUME NEW i \in Instance, NEW o \in Ops, Start(i, o) PROVE ReadInv'
  BY <1>3, VoidFacts DEF Start, Ops, FreeLease, Writable, ReadInv, LeaseInv, TypeInv, Agree,
     Working, files, mem, aux
<1>4. ASSUME NEW i \in Instance, SecretGet(i) PROVE ReadInv'
  BY <1>4 DEF SecretGet, ReadInv, LeaseInv, TypeInv, Agree, Working, files, mem, aux
<1>5. ASSUME NEW i \in Instance, SecretChange(i) PROVE ReadInv'
  BY <1>5 DEF SecretChange, ReadInv, LeaseInv, TypeInv, Agree, Working, files, mem, cmd, aux
<1>6. ASSUME NEW i \in Instance, Backup(i) PROVE ReadInv'
  BY <1>6 DEF Backup, ReadInv, LeaseInv, TypeInv, Agree, Working, mem, cmd, aux
<1>7. ASSUME NEW i \in Instance, Check(i) PROVE ReadInv'
  BY <1>7 DEF Check, ReadInv, LeaseInv, TypeInv, Agree, Working, files, mem, cmd, aux
<1>8. ASSUME NEW i \in Instance, Replace(i) PROVE ReadInv'
  <2>1. NextDoc(i) \in ValidDoc /\ NextDoc(i).form = "valid"
    BY NextDocFacts, VoidFacts
  <2> QED BY <1>8, <2>1 DEF Replace, ReadInv, LeaseInv, TypeInv, Agree, Working, cmd
<1>9. ASSUME NEW i \in Instance, Undo(i) PROVE ReadInv'
  BY <1>9 DEF Undo, ReadInv, LeaseInv, TypeInv, Agree, Working, files, mem, cmd
<1>10. ASSUME NEW i \in Instance, Cleanup(i) PROVE ReadInv'
  BY <1>10 DEF Cleanup, ReadInv, LeaseInv, TypeInv, Agree, Working, files, mem, cmd, aux
<1>11. ASSUME NEW i \in Instance, Crash(i) PROVE ReadInv'
  BY <1>11 DEF Crash, ReadInv, LeaseInv, TypeInv, Agree, Working, files, mem, cmd
<1>12. ASSUME Edit PROVE ReadInv'
  BY <1>12 DEF Edit, ReadInv, LeaseInv, TypeInv, Agree, Working, mem, cmd
<1>13. ASSUME UNCHANGED vars PROVE ReadInv'
  BY <1>13 DEF vars, ReadInv, LeaseInv, TypeInv, Agree, Working, files, mem, cmd, aux
<1> QED BY <1>1, <1>2, <1>3, <1>4, <1>5, <1>6, <1>7, <1>8, <1>9, <1>10, <1>11, <1>12, <1>13 DEF
           Next, Command

\* Between the last comparison and the replacement only Edit touches state.json.
LEMMA SaveStep == ASSUME TypeInv, LeaseInv, ReadInv, SaveInv, [Next]_vars PROVE SaveInv'
<1> USE DEF Goto, Return, Failed
<1>1. ASSUME NEW i \in Instance, OpenPrimary(i) PROVE SaveInv'
  BY <1>1 DEF OpenPrimary, SaveInv, LeaseInv, TypeInv, Previous, Working, files, cmd, aux
<1>2. ASSUME NEW i \in Instance, OpenBackup(i) PROVE SaveInv'
  BY <1>2 DEF OpenBackup, SaveInv, LeaseInv, TypeInv, Previous, Working, files, cmd, aux
<1>3. ASSUME NEW i \in Instance, NEW o \in Ops, Start(i, o) PROVE SaveInv'
  BY <1>3 DEF Start, Ops, FreeLease, SaveInv, LeaseInv, TypeInv, Previous, Working, files, mem,
     aux
<1>4. ASSUME NEW i \in Instance, SecretGet(i) PROVE SaveInv'
  BY <1>4 DEF SecretGet, SaveInv, LeaseInv, TypeInv, Previous, Working, files, mem, aux
<1>5. ASSUME NEW i \in Instance, SecretChange(i) PROVE SaveInv'
  BY <1>5 DEF SecretChange, SaveInv, LeaseInv, TypeInv, Previous, Working, files, mem, cmd, aux
<1>6. ASSUME NEW i \in Instance, Backup(i) PROVE SaveInv'
  <2>1. Previous(i) \in ValidDoc
    BY <1>6, PreviousFacts DEF Backup, Working
  <2> QED BY <1>6, <2>1 DEF Backup, SaveInv, LeaseInv, TypeInv, Previous, Working, mem, cmd, aux
<1>7. ASSUME NEW i \in Instance, Check(i) PROVE SaveInv'
  BY <1>7 DEF Check, SaveInv, LeaseInv, TypeInv, Previous, Working, files, mem, cmd, aux
<1>8. ASSUME NEW i \in Instance, Replace(i) PROVE SaveInv'
  BY <1>8 DEF Replace, SaveInv, LeaseInv, TypeInv, Previous, Working, cmd
<1>9. ASSUME NEW i \in Instance, Undo(i) PROVE SaveInv'
  BY <1>9 DEF Undo, SaveInv, LeaseInv, TypeInv, Previous, Working, files, mem, cmd
<1>10. ASSUME NEW i \in Instance, Cleanup(i) PROVE SaveInv'
  BY <1>10 DEF Cleanup, SaveInv, LeaseInv, TypeInv, Previous, Working, files, mem, cmd, aux
<1>11. ASSUME NEW i \in Instance, Crash(i) PROVE SaveInv'
  BY <1>11 DEF Crash, SaveInv, LeaseInv, TypeInv, Previous, Working, files, mem, cmd
<1>12. ASSUME Edit PROVE SaveInv'
  BY <1>12, VoidFacts DEF Edit, SaveInv, LeaseInv, TypeInv, Previous, Working, mem, cmd
<1>13. ASSUME UNCHANGED vars PROVE SaveInv'
  BY <1>13 DEF vars, SaveInv, LeaseInv, TypeInv, Previous, Working, files, mem, cmd, aux
<1> QED BY <1>1, <1>2, <1>3, <1>4, <1>5, <1>6, <1>7, <1>8, <1>9, <1>10, <1>11, <1>12, <1>13 DEF
           Next, Command

\* Only Edit damages a file.
LEMMA CleanStep == ASSUME TypeInv, CleanInv, LastGoodIsPrevious, [Next]_vars PROVE CleanInv'
<1> USE DEF Goto, Return, Failed
<1>1. ASSUME NEW i \in Instance, OpenPrimary(i) PROVE CleanInv'
  BY <1>1, VoidFacts DEF OpenPrimary, CleanInv, LastGoodIsPrevious, TypeInv, files, cmd, aux
<1>2. ASSUME NEW i \in Instance, OpenBackup(i) PROVE CleanInv'
  BY <1>2 DEF OpenBackup, CleanInv, LastGoodIsPrevious, TypeInv, files, cmd, aux
<1>3. ASSUME NEW i \in Instance, NEW o \in Ops, Start(i, o) PROVE CleanInv'
  BY <1>3 DEF Start, Ops, CleanInv, LastGoodIsPrevious, TypeInv, files, mem, aux
<1>4. ASSUME NEW i \in Instance, SecretGet(i) PROVE CleanInv'
  BY <1>4 DEF SecretGet, CleanInv, LastGoodIsPrevious, TypeInv, files, mem, aux
<1>5. ASSUME NEW i \in Instance, SecretChange(i) PROVE CleanInv'
  BY <1>5 DEF SecretChange, CleanInv, LastGoodIsPrevious, TypeInv, files, mem, cmd, aux
<1>6. ASSUME NEW i \in Instance, Backup(i) PROVE CleanInv'
  BY <1>6 DEF Backup, CleanInv, LastGoodIsPrevious, TypeInv, mem, cmd, aux
<1>7. ASSUME NEW i \in Instance, Check(i) PROVE CleanInv'
  BY <1>7 DEF Check, CleanInv, LastGoodIsPrevious, TypeInv, files, mem, cmd, aux
<1>8. ASSUME NEW i \in Instance, Replace(i) PROVE CleanInv'
  <2>1. NextDoc(i) # Damaged
    BY NextDocFacts, VoidFacts
  <2> QED BY <1>8, <2>1 DEF Replace, CleanInv, TypeInv, cmd
<1>9. ASSUME NEW i \in Instance, Undo(i) PROVE CleanInv'
  BY <1>9 DEF Undo, CleanInv, LastGoodIsPrevious, TypeInv, files, mem, cmd
<1>10. ASSUME NEW i \in Instance, Cleanup(i) PROVE CleanInv'
  BY <1>10 DEF Cleanup, CleanInv, LastGoodIsPrevious, TypeInv, files, mem, cmd, aux
<1>11. ASSUME NEW i \in Instance, Crash(i) PROVE CleanInv'
  BY <1>11 DEF Crash, CleanInv, LastGoodIsPrevious, TypeInv, files, mem, cmd
<1>12. ASSUME Edit PROVE CleanInv'
  BY <1>12 DEF Edit, CleanInv, LastGoodIsPrevious, TypeInv, mem, cmd
<1>13. ASSUME UNCHANGED vars PROVE CleanInv'
  BY <1>13 DEF vars, CleanInv, LastGoodIsPrevious, TypeInv, files, mem, cmd, aux
<1> QED BY <1>1, <1>2, <1>3, <1>4, <1>5, <1>6, <1>7, <1>8, <1>9, <1>10, <1>11, <1>12, <1>13 DEF
           Next, Command

\* The last-good copy follows each save; only another program parts the two.
LEMMA CopyStep ==
    ASSUME TypeInv, LeaseInv, ReadInv, SaveInv, CleanInv, LastGoodIsPrevious, [Next]_vars
    PROVE  LastGoodIsPrevious'
<1> USE DEF Goto, Return, Failed
<1>1. ASSUME NEW i \in Instance, OpenPrimary(i) PROVE LastGoodIsPrevious'
  BY <1>1, VoidFacts DEF OpenPrimary, LastGoodIsPrevious, TypeInv, files, cmd, aux
<1>2. ASSUME NEW i \in Instance, OpenBackup(i) PROVE LastGoodIsPrevious'
  <2>1. loaded[i].form # "valid" /\ loaded[i] \in AnyDoc
    BY <1>2 DEF OpenBackup, ReadInv, TypeInv
  <2>2. ~edited => loaded[i] = Absent
    BY <2>1, VoidFacts DEF CleanInv, AnyDoc, ValidDoc
  <2> QED BY <1>2, <2>2 DEF OpenBackup, LastGoodIsPrevious, TypeInv, files, cmd, aux
<1>3. ASSUME NEW i \in Instance, NEW o \in Ops, Start(i, o) PROVE LastGoodIsPrevious'
  BY <1>3 DEF Start, Ops, LastGoodIsPrevious, TypeInv, files, mem, aux
<1>4. ASSUME NEW i \in Instance, SecretGet(i) PROVE LastGoodIsPrevious'
  BY <1>4 DEF SecretGet, LastGoodIsPrevious, TypeInv, files, mem, aux
<1>5. ASSUME NEW i \in Instance, SecretChange(i) PROVE LastGoodIsPrevious'
  BY <1>5 DEF SecretChange, LastGoodIsPrevious, TypeInv, files, mem, cmd, aux
<1>6. ASSUME NEW i \in Instance, Backup(i) PROVE LastGoodIsPrevious'
  <2>1. /\ Previous(i) \in ValidDoc
        /\ loaded[i] = Absent => Previous(i) = Default
        /\ loaded[i].form = "valid" => Previous(i) = loaded[i]
        /\ loaded[i] = Absent \/ loaded[i].form = "valid"
    BY <1>6, PreviousFacts DEF Backup, Working
  <2>2. good' = good \/ (primary = loaded[i] /\ good' = Previous(i))
    BY <1>6 DEF Backup
  <2>3. UNCHANGED <<primary, loaded, recovery, edited>>
    BY <1>6 DEF Backup, mem, aux
  <2> QED BY <2>1, <2>2, <2>3, VoidFacts DEF LastGoodIsPrevious, ValidDoc
<1>7. ASSUME NEW i \in Instance, Check(i) PROVE LastGoodIsPrevious'
  BY <1>7 DEF Check, LastGoodIsPrevious, TypeInv, files, mem, cmd, aux
<1>8. ASSUME NEW i \in Instance, Replace(i) PROVE LastGoodIsPrevious'
  <2>1. /\ Previous(i) \in ValidDoc /\ Previous(i).rev = shown[i].rev
        /\ ~recovery[i]
    BY <1>8, PreviousFacts DEF Replace, Working, ReadInv
  <2>2. NextDoc(i) \in ValidDoc /\ NextDoc(i).rev = shown[i].rev + 1
    BY NextDocFacts
  <2>3. good = Previous(i) \/ good.form # "valid"
    BY <1>8 DEF Replace, SaveInv
  <2>4. primary' = primary \/ primary' = NextDoc(i)
    BY <1>8 DEF Replace
  <2>5. UNCHANGED <<good, recovery, edited>>
    BY <1>8 DEF Replace
  <2>6. \A j \in Instance : recovery[j] => loaded'[j] = loaded[j]
    BY <1>8, <2>1 DEF Replace, TypeInv
  <2> QED BY <2>1, <2>2, <2>3, <2>4, <2>5, <2>6, VoidFacts DEF LastGoodIsPrevious, ValidDoc
<1>9. ASSUME NEW i \in Instance, Undo(i) PROVE LastGoodIsPrevious'
  BY <1>9 DEF Undo, LastGoodIsPrevious, TypeInv, files, mem, cmd
<1>10. ASSUME NEW i \in Instance, Cleanup(i) PROVE LastGoodIsPrevious'
  BY <1>10 DEF Cleanup, LastGoodIsPrevious, TypeInv, files, mem, cmd, aux
<1>11. ASSUME NEW i \in Instance, Crash(i) PROVE LastGoodIsPrevious'
  BY <1>11 DEF Crash, LastGoodIsPrevious, TypeInv, files, mem, cmd
<1>12. ASSUME Edit PROVE LastGoodIsPrevious'
  BY <1>12, VoidFacts DEF Edit, LastGoodIsPrevious, TypeInv, mem, cmd
<1>13. ASSUME UNCHANGED vars PROVE LastGoodIsPrevious'
  BY <1>13 DEF vars, LastGoodIsPrevious, TypeInv, files, mem, cmd, aux
<1> QED BY <1>1, <1>2, <1>3, <1>4, <1>5, <1>6, <1>7, <1>8, <1>9, <1>10, <1>11, <1>12, <1>13 DEF
           Next, Command

\* The credential follows each command, or is put back.
LEMMA KeyStep == ASSUME TypeInv, LeaseInv, ReadInv, SaveInv, KeyInv, [Next]_vars PROVE KeyInv'
<1> USE DEF Goto, Return, Failed
<1>1. ASSUME NEW i \in Instance, OpenPrimary(i) PROVE KeyInv'
  <2>1. pc[i] \notin Working /\ pc'[i] \notin Working
    BY <1>1 DEF OpenPrimary, TypeInv, Working
  <2>2. /\ \A j \in Instance \ {i} : pc'[j] = pc[j]
        /\ UNCHANGED <<primary, keyring, lease, op, old, torn, edited, unsynced>>
    BY <1>1 DEF OpenPrimary, TypeInv, files, cmd, aux
  <2> QED BY <2>1, <2>2 DEF KeyInv, Fits, Known, Changed, NewKey, Working
<1>2. ASSUME NEW i \in Instance, OpenBackup(i) PROVE KeyInv'
  BY <1>2, NobodyAssumption DEF OpenBackup, KeyInv, Fits, Known, Changed, NewKey, LeaseInv,
     TypeInv, Working, files, cmd, aux
<1>3. ASSUME NEW i \in Instance, NEW o \in Ops, Start(i, o) PROVE KeyInv'
  BY <1>3, NobodyAssumption DEF Start, Ops, FreeLease, Op, KeyInv, Fits, Known, Changed, NewKey,
     LeaseInv, TypeInv, Working, files, mem, aux
<1>4. ASSUME NEW i \in Instance, SecretGet(i) PROVE KeyInv'
  BY <1>4, NobodyAssumption DEF SecretGet, Op, KeyInv, Fits, Known, Changed, NewKey, LeaseInv,
     TypeInv, Working, files, mem, aux
<1>5. ASSUME NEW i \in Instance, SecretChange(i) PROVE KeyInv'
  BY <1>5, NobodyAssumption DEF SecretChange, Op, Effect, KeyInv, Fits, Known, Changed, NewKey,
     LeaseInv, TypeInv, Working, files, mem, cmd, aux
<1>6. ASSUME NEW i \in Instance, Backup(i) PROVE KeyInv'
  <2>1. /\ lease = i /\ pc[i] \in {"backup", "check"}
        /\ \A j \in Instance \ {i} : pc[j] \notin Working /\ pc'[j] = pc[j]
    BY <1>6, NobodyAssumption DEF Backup, LeaseInv, TypeInv, Working
  <2>2. UNCHANGED <<primary, keyring, op, old, torn, edited, unsynced>>
    BY <1>6 DEF Backup, mem, cmd, aux
  <2>3. IF op[i].kind = "upsert" THEN keyring = NewKey(i) /\ (Known => Fits(old[i]))
                                 ELSE Known => Fits(keyring)
    BY <2>1 DEF KeyInv, Changed
  <2>4. \/ pc'[i] \in {"check", "replace"} /\ lease' = lease
        \/ pc'[i] = "undo" /\ lease' = lease /\ op[i].kind = "upsert"
        \/ pc'[i] = "idle" /\ lease' = Nobody /\ op[i].kind # "upsert"
    BY <1>6 DEF Backup, TypeInv
  <2> QED BY <2>1, <2>2, <2>3, <2>4, NobodyAssumption DEF KeyInv, Fits, Known, Changed, NewKey,
             Working
<1>7. ASSUME NEW i \in Instance, Check(i) PROVE KeyInv'
  <2>1. /\ lease = i /\ pc[i] \in {"backup", "check"}
        /\ \A j \in Instance \ {i} : pc[j] \notin Working /\ pc'[j] = pc[j]
    BY <1>7, NobodyAssumption DEF Check, LeaseInv, TypeInv, Working
  <2>2. UNCHANGED <<primary, keyring, op, old, torn, edited, unsynced>>
    BY <1>7 DEF Check, mem, cmd, aux, files
  <2>3. IF op[i].kind = "upsert" THEN keyring = NewKey(i) /\ (Known => Fits(old[i]))
                                 ELSE Known => Fits(keyring)
    BY <2>1 DEF KeyInv, Changed
  <2>4. \/ pc'[i] \in {"check", "replace"} /\ lease' = lease
        \/ pc'[i] = "undo" /\ lease' = lease /\ op[i].kind = "upsert"
        \/ pc'[i] = "idle" /\ lease' = Nobody /\ op[i].kind # "upsert"
    BY <1>7 DEF Check, TypeInv
  <2> QED BY <2>1, <2>2, <2>3, <2>4, NobodyAssumption DEF KeyInv, Fits, Known, Changed, NewKey,
             Working
<1>8. ASSUME NEW i \in Instance, Replace(i) PROVE KeyInv'
  <2>1. /\ NextDoc(i) \in ValidDoc
        /\ op[i].kind = "upsert" => NextDoc(i).conn = "live" /\ NextDoc(i).key = NewKey(i)
        /\ op[i].kind = "toggle" => /\ NextDoc(i).conn = shown[i].conn
                                    /\ NextDoc(i).key = shown[i].key
        /\ op[i].kind = "delete" => NextDoc(i).conn = "gone"
    BY NextDocFacts
  <2>2. /\ loaded[i].form = "valid" => shown[i] = loaded[i]
        /\ loaded[i] = Absent \/ loaded[i].form = "valid"
        /\ loaded[i] = Absent => shown[i] = Default
    BY <1>8, PreviousFacts DEF Replace, Working
  <2>3. primary = loaded[i] \/ edited
    BY <1>8 DEF Replace, SaveInv
  <2>4. /\ lease = i /\ lease # Nobody /\ pc[i] = "replace"
        /\ \A j \in Instance \ {i} : pc[j] \notin Working /\ pc'[j] = pc[j]
    BY <1>8, NobodyAssumption DEF Replace, LeaseInv, TypeInv, Working
  <2>5. op[i].kind \in {"upsert", "toggle", "delete"} /\ UNCHANGED <<keyring, op, old, edited>>
    BY <1>8 DEF Replace, TypeInv, Op, cmd
  <2>6. CASE op[i].kind = "upsert"
    <3>1. keyring = NewKey(i) /\ (Known => Fits(old[i]))
      BY <2>4, <2>6 DEF KeyInv, Changed
    <3> QED BY <1>8, <2>1, <2>4, <2>5, <2>6, <3>1, VoidFacts DEF Replace, KeyInv, Fits, Known,
               Changed,
                                                          TypeInv, Working
  <2>7. CASE op[i].kind = "toggle"
    <3>1. Known => Fits(keyring)
      BY <2>4, <2>7 DEF KeyInv, Changed
    <3> QED BY <1>8, <2>1, <2>2, <2>3, <2>4, <2>5, <2>7, <3>1, VoidFacts DEF Replace, KeyInv,
               Fits, Known,
                                                          Changed, TypeInv, Working
  <2>8. CASE op[i].kind = "delete"
    <3>1. Known => Fits(keyring)
      BY <2>4, <2>8 DEF KeyInv, Changed
    <3> QED BY <1>8, <2>1, <2>4, <2>5, <2>8, <3>1, VoidFacts DEF Replace, KeyInv, Fits, Known, 
                                                          Changed, TypeInv, Working
  <2> QED BY <2>5, <2>6, <2>7, <2>8
<1>9. ASSUME NEW i \in Instance, Undo(i) PROVE KeyInv'
  BY <1>9, NobodyAssumption DEF Undo, Restored, KeyInv, Fits, Known, Changed, NewKey, LeaseInv,
     TypeInv, Working, files, mem, cmd
<1>10. ASSUME NEW i \in Instance, Cleanup(i) PROVE KeyInv'
  BY <1>10, NobodyAssumption DEF Cleanup, KeyInv, Fits, Known, Changed, NewKey, LeaseInv,
     TypeInv, Working, files, mem, cmd, aux
<1>11. ASSUME NEW i \in Instance, Crash(i) PROVE KeyInv'
  <2>1. /\ \A j \in Instance \ {i} : pc'[j] = pc[j]
        /\ pc'[i] = "closed" /\ lease' = IF lease = i THEN Nobody ELSE lease
        /\ UNCHANGED <<primary, keyring, op, old, edited, unsynced>>
    BY <1>11 DEF Crash, TypeInv, files, cmd
  <2>2. /\ torn => torn'
        /\ torn' \/ keyring = old[i] \/ op[i].kind # "upsert"
                 \/ pc[i] \notin {"backup", "check", "replace", "undo"}
    BY <1>11 DEF Crash
  <2>3. CASE lease = i
    <3>1. Known' => Fits(keyring)
      BY <2>1, <2>2, <2>3 DEF KeyInv, Known, Fits, Changed, LeaseInv, Working
    <3>2. \A j \in Instance : pc'[j] \notin Working
      BY <2>1, <2>3 DEF LeaseInv, Working
    <3> QED BY <2>1, <2>3, <3>1, <3>2 DEF KeyInv, Fits, Changed, Working
  <2>4. CASE lease # i
    <3>1. pc[i] \notin Working
      BY <2>4 DEF LeaseInv
    <3>2. Known' => Known
      BY <2>1, <2>2 DEF Known
    <3> QED BY <2>1, <2>4, <3>1, <3>2 DEF KeyInv, Fits, Changed, NewKey, Working
  <2> QED BY <2>3, <2>4
<1>12. ASSUME Edit PROVE KeyInv'
  BY <1>12, NobodyAssumption DEF Edit, KeyInv, Fits, Known, Changed, NewKey, LeaseInv, TypeInv,
     Working, mem, cmd
<1>13. ASSUME UNCHANGED vars PROVE KeyInv'
  BY <1>13 DEF vars, KeyInv, Fits, Known, Changed, NewKey, LeaseInv, TypeInv, Working, files,
     mem, cmd, aux
<1> QED BY <1>1, <1>2, <1>3, <1>4, <1>5, <1>6, <1>7, <1>8, <1>9, <1>10, <1>11, <1>12, <1>13 DEF
           Next, Command

-----------------------------------------------------------------------------
(***************************************************************************)
(* The theorems.                                                           *)
(***************************************************************************)
\* The invariant holds when no instance runs.
LEMMA InitInv == Init => IInv
<1> SUFFICES ASSUME Init PROVE IInv
  OBVIOUS
<1>1. PICK key \in Key, first \in BOOLEAN :
          /\ primary = IF first THEN Absent
                       ELSE [form |-> "valid", rev |-> 1, conn |-> "live", key |-> key]
          /\ good = IF first THEN Absent ELSE Default
          /\ keyring = IF first THEN NoSecret ELSE key
  BY DEF Init
<1>2. NoOp \in Op
  BY DEF NoOp, Op, Effect, Key
<1>3. /\ primary = Absent \/ (primary \in ValidDoc /\ primary.rev = 1 /\ primary.key = keyring)
      /\ primary = Absent => good = Absent
      /\ primary # Absent => good = Default
  BY <1>1, VoidFacts DEF ValidDoc, Life
<1>4. TypeInv
  BY <1>1, <1>2, <1>3, VoidFacts DEF Init, TypeInv, AnyDoc, Key
<1>5. LeaseInv /\ ReadInv /\ SaveInv /\ CleanInv
  BY NobodyAssumption, VoidFacts DEF Init, LeaseInv, ReadInv, SaveInv, CleanInv, Working
<1>6. LastGoodIsPrevious
  BY <1>3, VoidFacts DEF Init, LastGoodIsPrevious
<1>7. KeyInv
  BY <1>3, VoidFacts DEF Init, KeyInv, Fits, Changed
<1> QED BY <1>4, <1>5, <1>6, <1>7 DEF IInv

\* Every step keeps the invariant.
LEMMA StepInv == IInv /\ [Next]_vars => IInv'
BY TypeStep, LeaseStep, ReadStep, SaveStep, CleanStep, CopyStep, KeyStep DEF IInv

\* Lease, reads, saves and credentials agree at every step of every instance: the
\* strengthening the properties below follow from.
THEOREM Inductive == Spec => []IInv
<1>1. Init => IInv
  BY InitInv
<1>2. IInv /\ [Next]_vars => IInv'
  BY StepInv
<1> QED BY <1>1, <1>2, PTL DEF Spec

\* state.rs: the last-good copy is at most one revision behind state.json, and nothing
\* but another program damages either, for any number of instances, keys and failures.
THEOREM LastGoodHolds == Spec => []LastGoodIsPrevious
<1>1. IInv => LastGoodIsPrevious
  BY DEF IInv
<1> QED BY <1>1, Inductive, PTL

\* upsert_connection, delete_connection: whenever no command is active, the credential in
\* the store is the one the connection in state.json was saved with, outside the windows
\* that the auxiliary variables name.
THEOREM CredentialHolds == Spec => []CredentialBelongs
<1>1. IInv => CredentialBelongs
  BY DEF IInv, KeyInv, Known, Fits, CredentialBelongs, Together
<1> QED BY <1>1, Inductive, PTL

\* The lease makes the lock-free compare and replace of write_expected safe: no save of
\* any instance skips or replaces a revision it has not loaded.
THEOREM NoSaveIsLost == Spec => SavesExtend
<1> DEFINE A == (primary.form = "valid" /\ primary'.form = "valid" /\ primary' # primary)
                    => primary'.rev = primary.rev + 1
<1>1. IInv /\ [Next]_vars => A
  <2> SUFFICES ASSUME IInv, [Next]_vars, primary.form = "valid", primary'.form = "valid",
                      primary' # primary
               PROVE  primary'.rev = primary.rev + 1
    OBVIOUS
  <2>1. PICK i \in Instance : Replace(i)
    BY VoidFacts DEF Next, Command, OpenPrimary, OpenBackup, Start, SecretGet, SecretChange,
       Backup,
       Check, Undo, Cleanup, Crash, Edit, vars, files
  <2>2. primary = loaded[i] /\ primary' = NextDoc(i)
    BY <2>1 DEF Replace, IInv, SaveInv
  <2>3. shown[i] = loaded[i]
    BY <2>1, <2>2, PreviousFacts DEF Replace, Working, IInv
  <2> QED BY <2>2, <2>3, NextDocFacts DEF IInv
<1>2. IInv /\ [Next]_vars => [A]_vars
  BY <1>1
<1> QED BY <1>2, Inductive, PTL DEF Spec, SavesExtend

-----------------------------------------------------------------------------
(***************************************************************************)
(* The clients' documents.                                                 *)
(***************************************************************************)
Text   == (SUBSET Entry) \cup {Missing, Bad}
Client == {"own", "inherits", "found", Nothing} \cup Idea
RcLine == [kind : {"user", "start", "mark", "source", "end"},
           owner : {Self, Other, None}, conn : Conn \cup {None}]
EnvText == RouteOf \cup {None, Foreign}
Resource == Document \cup {Cli}

\* A proof names a resource that its target may be written to.
Binding == {p \in [conn : Conn, target : Target, res : Resource] :
               /\ p.target \in VsCode => p.res \in VsCode
               /\ p.target \in Ide => p.res = Byok
               /\ p.target = Cli => p.res = Cli
               /\ p.target # App}

\* What a deployment is recorded with: nothing, or the client and what configures it.
Sight == {<<>>} \cup
    (Client \X ({<<>>} \cup [1..1 -> Text] \cup (BOOLEAN \X EnvText \X Seq(RcLine))))
Result == [conn : Conn, status : {"applied", "failed", "skipped"}, body : Body \cup {None},
           seen : Sight]

DocsTypeInv ==
    /\ Conn # {} /\ conns \in [Conn -> Body \cup {None}]
    /\ proofs \subseteq Binding /\ records \in [Target -> Seq(Result)]
    /\ client \in [Target -> Client] /\ registry \in BOOLEAN
    /\ docs \in [Document -> Text] /\ backup \subseteq Document
    /\ env \in EnvText /\ rc \in Seq(RcLine)
    /\ stray \subseteq Resource \X (Conn \cup {None})
    /\ left \in [{"all", "plan", "change", "edit", "move", "fail"} -> Nat]

\* A proof is of a connection that is there; what was deleted stays so.
ProofInv == \A p \in proofs : conns[p.conn] # None
GoneInv  == gone \subseteq Conn /\ detached \subseteq gone /\ \A c \in gone : conns[c] = None

\* What nobody else touched is at most one entry, as the application writes it.
EntryInv ==
    \A d \in Document, c \in Conn : Undisturbed(d, c) =>
        /\ docs[d] # Bad
        /\ \A e \in Claimed(d, c) : e.owner = Self /\ e.sound
        /\ \A e, f \in Claimed(d, c) : e = f

\* What is published to the JetBrains IDEs keeps its endpoint.
EndpointInv ==
    \A e \in Entries(Byok) :
        (e.owner = Self /\ e.body # None) => e.body \in Body /\ Faithful(e.body)

\* What a deployment left for its connection in a text it wrote.
EntriesIn(text)   == IF text \in {Missing, Bad} THEN {} ELSE text
EntryOf(c, b)     == [conn |-> c, owner |-> Self, sound |-> TRUE, body |-> b]
EntriesLeft(t, r) == IF t \in Ide \/ r.body.models THEN {EntryOf(r.conn, r.body)} ELSE {}

HasBlock(lines, c) == \E n \in DOMAIN lines : SubSeq(lines, n, n + 3) = Block(Self, c)

SawDocument(t, r) == {e \in EntriesIn(r.seen[2][1]) : e.conn = r.conn} = EntriesLeft(t, r)
SawRoute(r) ==
    /\ r.seen[2][1] = FALSE
    /\ r.seen[2][2] = [owner |-> Self, conn |-> r.conn, body |-> r.body]
    /\ HasBlock(r.seen[2][3], r.conn)

IsTrueResult(t, r) ==
    r.status = "applied" => /\ r.body \in Body
                            /\ t \in VsCode \cup Ide => SawDocument(t, r)
                            /\ t = Cli => SawRoute(r)

ResultInv == \A t \in Target : \A n \in DOMAIN records[t] : IsTrueResult(t, records[t][n])

\* What nobody else touched is there exactly if there is a proof of it.
DocProofInv ==
    \A c \in Conn \ detached : \A d \in Document :
        Undisturbed(d, c) => (IsBound(c, d) <=> Claimed(d, c) # {})
RouteProofInv ==
    \A c \in Conn \ detached : Undisturbed(Cli, c) => (IsBound(c, Cli) <=> IsRoute(c))

\* Where the lines of a kind are, and what it is to have at most one complete block.
AtIn(lines, kind) == {n \in DOMAIN lines : lines[n].kind = kind}
OneBlock(lines) ==
    /\ \A m, n \in AtIn(lines, "start") : m = n
    /\ \A m, n \in AtIn(lines, "end") : m = n
    /\ \/ AtIn(lines, "start") = {} /\ AtIn(lines, "end") = {}
       \/ \E s \in AtIn(lines, "start"), e \in AtIn(lines, "end") : s < e
NoBlock(lines) == AtIn(lines, "start") = {} /\ AtIn(lines, "end") = {}
IsMarked(lines, c) == \E n \in DOMAIN lines : lines[n] = Line("mark", Self, c)

\* A shell profile that nobody else touched has no block, or one; that of the route.
BlockInv ==
    \A c \in Conn : Undisturbed(Cli, c) =>
        /\ OneBlock(rc)
        /\ IsRoute(c) => AtIn(rc, "start") = {} \/ IsMarked(rc, c)

DocsInv == /\ DocsTypeInv /\ ProofInv /\ GoneInv /\ EntryInv /\ DocProofInv /\ RouteProofInv
           /\ EndpointInv /\ BlockInv /\ ResultInv
-----------------------------------------------------------------------------
(***************************************************************************)
(* Endpoints.                                                              *)
(***************************************************************************)

\* Tuples of one and of two elements.
LEMMA TupleFacts ==
    ASSUME NEW S
    PROVE  /\ \A x \in S : <<x>> \in Seq(S)
           /\ \A x, y \in S : <<x, y>> \in Seq(S) /\ <<x, y>> = <<x>> \o <<y>>
<1>1. \A x \in S : <<x>> \in Seq(S)
  OBVIOUS
<1>2. ASSUME NEW x \in S, NEW y \in S
      PROVE  <<x, y>> \in Seq(S) /\ <<x, y>> = <<x>> \o <<y>>
  <2> DEFINE u == <<x>>
             w == <<y>>
             v == <<x, y>>
  <2>1. /\ u \in Seq(S) /\ Len(u) = 1 /\ u[1] = x
        /\ w \in Seq(S) /\ Len(w) = 1 /\ w[1] = y
        /\ v \in Seq(S) /\ Len(v) = 2 /\ v[1] = x /\ v[2] = y
    OBVIOUS
  <2> HIDE DEF u, w, v
  <2>2. u \o w \in Seq(S) /\ Len(u \o w) = 2 /\ (u \o w)[1] = x /\ (u \o w)[2] = y
    <3>1. /\ u \o w \in Seq(S) /\ Len(u \o w) = Len(u) + Len(w)
          /\ \A k \in 1..Len(u) + Len(w) :
                (u \o w)[k] = IF k <= Len(u) THEN u[k] ELSE w[k - Len(u)]
      BY <2>1, ConcatProperties
    <3> QED BY <2>1, <3>1
  <2>3. v = u \o w
    <3>1. \A k \in 1..2 : v[k] = (u \o w)[k]
      <4>1. \A k \in 1..2 : k = 1 \/ k = 2
        OBVIOUS
      <4> QED BY <2>1, <2>2, <4>1
    <3>2. Len(v) = Len(u \o w) /\ \A k \in 1..Len(v) : v[k] = (u \o w)[k]
      BY <2>1, <2>2, <3>1
    <3> QED BY <2>1, <2>2, <3>2, SeqEqual
  <2> QED BY <2>1, <2>3 DEF u, w, v
<1> QED BY <1>1, <1>2

\* The ends of a URL are sequences of segments.
LEMMA RouteFacts ==
    /\ <<>> \in Seq(Segment) /\ <<"v1">> \in Seq(Segment) /\ <<"messages">> \in Seq(Segment)
    /\ <<"v1", "messages">> \in Seq(Segment) /\ <<"chat", "completions">> \in Seq(Segment)
    /\ <<"responses">> \in Seq(Segment)
<1>1. "v1" \in Segment /\ "messages" \in Segment /\ "chat" \in Segment
      /\ "completions" \in Segment /\ "responses" \in Segment
  BY BodyAssumption
<1> QED BY <1>1, TupleFacts, EmptySeq

\* A sequence ends with what was appended to it.
LEMMA SuffixFacts ==
    ASSUME NEW S, NEW u \in Seq(S), NEW s \in Seq(S)
    PROVE  IsSuffix(s, u \o s)
<1> DEFINE t == u \o s
<1>1. /\ t \in Seq(S) /\ Len(t) = Len(u) + Len(s)
      /\ \A i \in 1..Len(u) + Len(s) : t[i] = IF i <= Len(u) THEN u[i] ELSE s[i - Len(u)]
  BY ConcatProperties
<1>2. Len(s) \in Nat /\ Len(u) \in Nat
  OBVIOUS
<1> HIDE DEF t
<1>3. \A i \in 1..Len(s) : Reverse(t)[i] = Reverse(s)[i]
  BY <1>1, <1>2 DEF Reverse
<1>4. Len(Reverse(s)) = Len(s) /\ Len(Reverse(t)) = Len(t)
  BY <1>1, <1>2 DEF Reverse
<1>5. SubSeq(Reverse(s), 1, Len(s)) = SubSeq(Reverse(t), 1, Len(s))
  <2>1. /\ Reverse(s) \in Seq(S) /\ Reverse(t) \in Seq(S)
    BY <1>1, <1>2 DEF Reverse
  <2>2. /\ SubSeq(Reverse(s), 1, Len(s)) = [i \in 1..Len(s) |-> Reverse(s)[i]]
        /\ SubSeq(Reverse(t), 1, Len(s)) = [i \in 1..Len(s) |-> Reverse(t)[i]]
    BY <1>1, <1>2, <1>4, <2>1
  <2> QED BY <1>3, <2>2
<1> QED BY <1>1, <1>2, <1>4, <1>5 DEF IsSuffix, IsPrefix, t

\* What a path without its ending is.
LEMMA BaseFacts ==
    ASSUME NEW path \in Seq(Segment)
    PROVE  /\ Base(path) \in Seq(Segment)
           /\ Terminal(path) = <<>> => Base(path) = path
<1>1. Terminal(path) = <<>> \/ (Len(Terminal(path)) \in 0..Len(path))
  <2> DEFINE I == {i \in 1..Len(Endings) : IsSuffix(Endings[i], path)}
             n == IF I # {} THEN Min(I) ELSE 0
  <2>1. Terminal(path) = IF n = 0 THEN <<>> ELSE Endings[n]
    BY DEF Terminal, SelectInSeq
  <2>2. Len(Endings) = 4
    BY DEF Endings
  <2>3. CASE I # {}
    <3>1. Min(I) \in I
      <4>1. \E i \in I : \A j \in I : i <= j
        BY <2>2, <2>3
      <4> QED BY <4>1 DEF Min
    <3>2. n \in 1..4 /\ IsSuffix(Endings[n], path)
      BY <2>2, <2>3, <3>1
    <3>3. Terminal(path) = Endings[n] /\ Endings[n] \in Seq(Segment)
      <4>1. \A k \in 1..4 : Endings[k] \in Seq(Segment)
        <5>1. /\ Endings[1] = <<"v1", "messages">> /\ Endings[2] = <<"chat", "completions">>
              /\ Endings[3] = <<"responses">> /\ Endings[4] = <<"messages">>
          BY DEF Endings
        <5>2. /\ Endings[1] \in Seq(Segment) /\ Endings[2] \in Seq(Segment)
              /\ Endings[3] \in Seq(Segment) /\ Endings[4] \in Seq(Segment)
          BY <5>1, RouteFacts
        <5> HIDE DEF n, I
        <5> QED BY <5>2
      <4>2. n # 0
        BY <3>2
      <4> HIDE DEF n
      <4> QED BY <2>1, <3>2, <4>1, <4>2
    <3>4. Len(Reverse(Endings[n])) = Len(Endings[n]) /\ Len(Reverse(path)) = Len(path)
      BY <3>3 DEF Reverse
    <3> HIDE DEF n
    <3> QED BY <3>2, <3>3, <3>4 DEF IsSuffix, IsPrefix
  <2> QED BY <2>1, <2>3
<1>2. \A m \in 0..Len(path) : SubSeq(path, 1, Len(path) - m) \in Seq(Segment)
  OBVIOUS
<1>3. SubSeq(path, 1, Len(path)) = path
  OBVIOUS
<1>4. Len(<<>>) = 0
  OBVIOUS
<1> QED BY <1>1, <1>2, <1>3, <1>4 DEF Base

\* A faithful endpoint is the URL that was entered, with its protocol's route.
LEMMA EndpointFacts ==
    ASSUME NEW b \in Body, Faithful(b)
    PROVE  LET wire == IF b.protocol = "messages" THEN <<"messages">> ELSE Route(b.protocol)
           IN /\ IsSuffix(wire, Effective(b))
              /\ \/ b.path = <<>> /\ Effective(b) = <<"v1">> \o wire
                 \/ Effective(b) \in {b.path, b.path \o wire}
<1> DEFINE wire == IF b.protocol = "messages" THEN <<"messages">> ELSE Route(b.protocol)
           base == Base(b.path)
           stem == IF IsVersioned(base) THEN Front(base) ELSE base
           host == base \o (IF IsVersioned(base) THEN <<>> ELSE <<"v1">>)
<1>1. b.path \in Seq(Segment) /\ b.protocol \in Protocol
  BY BodyAssumption
<1>2. base \in Seq(Segment) /\ (Terminal(b.path) = <<>> => base = b.path)
  BY <1>1, BaseFacts
<1>3. ASSUME IsVersioned(base)
      PROVE  /\ Front(base) \in Seq(Segment) /\ Len(base) \in Nat \ {0}
             /\ Len(Front(base)) = Len(base) - 1
             /\ \A i \in 1..Len(base) - 1 : Front(base)[i] = base[i]
  <2> HIDE DEF base
  <2>1. Len(base) \in Nat /\ Len(base) # 0
    BY <1>2, <1>3, EmptySeq DEF IsVersioned
  <2>2. \A i \in 1..Len(base) - 1 : base[i] \in Segment
    BY <1>2, <2>1
  <2> DEFINE k == Len(base) - 1
  <2>3. k \in Nat /\ Front(base) = SubSeq(base, 1, k)
    BY <2>1 DEF Front
  <2> HIDE DEF k
  <2>4. /\ SubSeq(base, 1, k) \in Seq(Segment)
        /\ Len(SubSeq(base, 1, k)) = IF 1 <= k THEN k - 1 + 1 ELSE 0
        /\ \A i \in 1..k - 1 + 1 : SubSeq(base, 1, k)[i] = base[1 + i - 1]
    BY <2>2, <2>3, SubSeqProperties DEF k
  <2>5. Len(Front(base)) = k /\ \A i \in 1..k : Front(base)[i] = base[i]
    BY <2>3, <2>4
  <2> QED BY <2>1, <2>3, <2>4, <2>5 DEF k
<1>4. stem \in Seq(Segment) /\ host \in Seq(Segment)
  <2> HIDE DEF base
  <2>1. <<>> \in Seq(Segment) /\ <<"v1">> \in Seq(Segment)
    BY RouteFacts
  <2>2. base \o <<>> \in Seq(Segment) /\ base \o <<"v1">> \in Seq(Segment)
    BY <1>2, <2>1, ConcatProperties
  <2> QED BY <1>2, <1>3, <2>2
<1> HIDE DEF base
<1>5. CASE b.protocol = "messages"
  <2>1. /\ wire = <<"messages">> /\ Effective(b) = stem \o <<"v1", "messages">>
        /\ <<"messages">> \in Seq(Segment) /\ <<"v1">> \in Seq(Segment)
    <3>1. Route(b.protocol) = <<"v1", "messages">>
      BY <1>5 DEF Route
    <3>2. Effective(b) = (IF IsVersioned(base) THEN Front(base) ELSE base) \o Route(b.protocol)
      BY <1>5 DEF Effective, base
    <3> QED BY <1>5, <3>1, <3>2, RouteFacts
  <2> HIDE DEF stem
  <2>2. /\ <<"v1", "messages">> = <<"v1">> \o <<"messages">>
        /\ Effective(b) = (stem \o <<"v1">>) \o <<"messages">>
        /\ stem \o <<"v1">> \in Seq(Segment)
    <3>1. <<"v1", "messages">> = <<"v1">> \o <<"messages">>
      BY TupleFacts, BodyAssumption
    <3> QED BY <1>4, <2>1, <3>1, ConcatAssociative, ConcatProperties
  <2>3. IsSuffix(wire, Effective(b))
    BY <2>1, <2>2, SuffixFacts
  <2>4. CASE Terminal(b.path) # <<>>
    BY <2>3, <2>4 DEF Faithful
  <2>5. CASE Terminal(b.path) = <<>> /\ b.path = <<>>
    <3>1. stem = <<>>
      BY <1>2, <2>5 DEF stem, IsVersioned
    <3> QED BY <2>1, <2>2, <2>3, <2>5, <3>1, ConcatEmptySeq
  <2>6. CASE Terminal(b.path) = <<>> /\ b.path # <<>>
    <3>1. base = b.path /\ IsVersioned(base) /\ Last(base) = "v1" /\ stem = Front(base)
      BY <1>2, <1>5, <2>6 DEF Faithful, base, stem
    <3>2. stem \o <<"v1">> = base
      <4>1. /\ Len(stem \o <<"v1">>) = Len(base)
            /\ \A i \in 1..Len(base) : (stem \o <<"v1">>)[i] = base[i]
        BY <1>3, <1>4, <2>1, <3>1, ConcatProperties DEF Last
      <4> QED BY <1>2, <2>2, <4>1, SeqEqual
    <3> QED BY <2>1, <2>2, <2>3, <3>1, <3>2
  <2> QED BY <2>4, <2>5, <2>6
<1>6. CASE b.protocol # "messages"
  <2>1. /\ wire = Route(b.protocol) /\ Effective(b) = host \o wire
        /\ wire \in Seq(Segment) /\ <<"v1">> \in Seq(Segment)
    <3>1. Route(b.protocol) \in {<<"chat", "completions">>, <<"responses">>}
      BY <1>1, <1>6 DEF Route, Protocol
    <3>2. Effective(b) = (base \o (IF IsVersioned(base) THEN <<>> ELSE <<"v1">>)) \o Route(b.protocol)
      BY <1>6 DEF Effective, base
    <3>3. wire = Route(b.protocol)
      BY <1>6
    <3> HIDE DEF wire
    <3> QED BY <3>1, <3>2, <3>3, RouteFacts
  <2> HIDE DEF wire
  <2>2. IsSuffix(wire, Effective(b))
    BY <1>4, <2>1, SuffixFacts
  <2>3. CASE Terminal(b.path) # <<>>
    BY <2>2, <2>3 DEF Faithful, wire
  <2>4. CASE Terminal(b.path) = <<>> /\ b.path = <<>>
    <3>1. ~IsVersioned(base) /\ base = <<>>
      BY <1>2, <2>4 DEF IsVersioned
    <3>2. host = <<"v1">>
      BY <2>1, <3>1, ConcatEmptySeq
    <3> QED BY <2>1, <2>2, <2>4, <3>2 DEF wire
  <2>5. CASE Terminal(b.path) = <<>> /\ b.path # <<>>
    <3>1. base = b.path /\ IsVersioned(base)
      BY <1>2, <2>5 DEF Faithful, base
    <3>2. host = base
      BY <1>2, <3>1, ConcatEmptySeq
    <3> QED BY <2>1, <2>2, <3>1, <3>2 DEF wire
  <2> QED BY <2>3, <2>4, <2>5
<1> QED BY <1>5, <1>6

-----------------------------------------------------------------------------
(***************************************************************************)
(* The shell profile.                                                      *)
(***************************************************************************)
\* Outside, of any lines.
OutsideOf(lines) ==
    IF AtIn(lines, "start") = {} THEN <<lines, <<>>>>
    ELSE LET s == CHOOSE n \in AtIn(lines, "start") : TRUE
             e == CHOOSE n \in AtIn(lines, "end") : TRUE
         IN <<SubSeq(lines, 1, s - 1), SubSeq(lines, e + 1, Len(lines))>>

\* A set has at most one element if its elements are equal, and only then.
LEMMA AtMostOne ==
    ASSUME NEW S, \A x, y \in S : x = y
    PROVE  Cardinality(S) <= 1
<1>1. CASE S = {}
  BY <1>1, FS_EmptySet
<1>2. CASE S # {}
  <2>1. PICK x \in S : TRUE
    BY <1>2
  <2>2. S = {x}
    BY <2>1
  <2> QED BY <2>2, FS_Singleton
<1> QED BY <1>1, <1>2

\* The other direction.
LEMMA OneAtMost ==
    ASSUME NEW S, IsFiniteSet(S), Cardinality(S) <= 1
    PROVE  \A x, y \in S : x = y
<1> SUFFICES ASSUME NEW x \in S, NEW y \in S, x # y PROVE FALSE
  OBVIOUS
<1>1. /\ IsFiniteSet(S \ {x}) /\ Cardinality(S \ {x}) = Cardinality(S) - 1
      /\ Cardinality(S) \in Nat /\ Cardinality(S \ {x}) \in Nat
  BY FS_RemoveElement, FS_CardinalityType
<1>2. Cardinality(S \ {x}) = 0
  BY <1>1
<1>3. S \ {x} = {}
  BY <1>1, <1>2, FS_EmptySet
<1> QED BY <1>3

\* What replace_bounded_block asks of the lines.
LEMMA ReplaceableFacts ==
    ASSUME rc \in Seq(RcLine)
    PROVE  /\ \A kind : At(kind) = AtIn(rc, kind)
           /\ IsReplaceable <=> OneBlock(rc)
           /\ Outside = OutsideOf(rc)
<1>1. \A kind : At(kind) = AtIn(rc, kind)
  BY DEF At, AtIn
<1>2. ASSUME NEW kind
      PROVE  Cardinality(At(kind)) <= 1 <=> \A m, n \in AtIn(rc, kind) : m = n
  <2>1. AtIn(rc, kind) \subseteq 1..Len(rc) /\ Len(rc) \in Nat
    BY DEF AtIn
  <2>2. IsFiniteSet(AtIn(rc, kind))
    <3>1. IsFiniteSet(1..Len(rc))
      BY <2>1, FS_Interval
    <3> QED BY <2>1, <3>1, FS_Subset
  <2> QED BY <1>1, <2>2, AtMostOne, OneAtMost
<1>3. IsReplaceable <=> OneBlock(rc)
  <2>1. At("start") = AtIn(rc, "start") /\ At("end") = AtIn(rc, "end")
    BY <1>1
  <2>2. Cardinality(At("start")) <= 1 <=> \A m, n \in AtIn(rc, "start") : m = n
    BY <1>2
  <2>3. Cardinality(At("end")) <= 1 <=> \A m, n \in AtIn(rc, "end") : m = n
    BY <1>2
  <2> QED BY <2>1, <2>2, <2>3 DEF IsReplaceable, OneBlock
<1>4. Outside = OutsideOf(rc)
  BY DEF Outside, OutsideOf, At, AtIn
<1> QED BY <1>1, <1>3, <1>4

\* The three parts of lines put together.
LEMMA PartsFacts ==
    ASSUME NEW S, NEW a \in Seq(S), NEW b \in Seq(S), NEW z \in Seq(S)
    PROVE  LET all == a \o b \o z
           IN /\ all \in Seq(S) /\ Len(all) = Len(a) + Len(b) + Len(z)
              /\ Len(a) \in Nat /\ Len(b) \in Nat /\ Len(z) \in Nat
              /\ \A n \in 1..Len(a) : all[n] = a[n]
              /\ \A n \in 1..Len(b) : all[Len(a) + n] = b[n]
              /\ \A n \in 1..Len(z) : all[Len(a) + Len(b) + n] = z[n]
<1> DEFINE ab == a \o b
<1>1. /\ ab \in Seq(S) /\ Len(ab) = Len(a) + Len(b)
      /\ \A n \in 1..Len(a) + Len(b) : ab[n] = IF n <= Len(a) THEN a[n] ELSE b[n - Len(a)]
  <2>1. /\ a \o b \in Seq(S) /\ Len(a \o b) = Len(a) + Len(b)
        /\ \A n \in 1..Len(a) + Len(b) :
              (a \o b)[n] = IF n <= Len(a) THEN a[n] ELSE b[n - Len(a)]
    BY ConcatProperties
  <2> QED BY <2>1
<1>2. Len(a) \in Nat /\ Len(b) \in Nat /\ Len(z) \in Nat
  BY LenProperties
<1> HIDE DEF ab
<1>3. /\ ab \o z \in Seq(S) /\ Len(ab \o z) = Len(ab) + Len(z)
      /\ \A n \in 1..Len(ab) + Len(z) :
            (ab \o z)[n] = IF n <= Len(ab) THEN ab[n] ELSE z[n - Len(ab)]
  <2>1. ab \in Seq(S)
    BY <1>1
  <2>2. /\ ab \o z \in Seq(S) /\ Len(ab \o z) = Len(ab) + Len(z)
        /\ \A n \in 1..Len(ab) + Len(z) :
              (ab \o z)[n] = IF n <= Len(ab) THEN ab[n] ELSE z[n - Len(ab)]
    BY <2>1, ConcatProperties
  <2> QED BY <2>2
<1>4. \A n \in 1..Len(a) : (ab \o z)[n] = a[n]
  BY <1>1, <1>2, <1>3
<1>5. \A n \in 1..Len(b) : (ab \o z)[Len(a) + n] = b[n]
  BY <1>1, <1>2, <1>3
<1>6. ASSUME NEW n \in 1..Len(z) PROVE (ab \o z)[Len(a) + Len(b) + n] = z[n]
  <2>1. /\ Len(ab) + n \in 1..Len(ab) + Len(z) /\ ~(Len(ab) + n <= Len(ab))
        /\ Len(ab) + n - Len(ab) = n
    BY <1>1, <1>2
  <2> QED BY <1>1, <1>3, <2>1
<1> QED BY <1>1, <1>2, <1>3, <1>4, <1>5, <1>6 DEF ab

\* What is outside the block has no block.
LEMMA OutsideFacts ==
    ASSUME NEW lines \in Seq(RcLine), OneBlock(lines)
    PROVE  /\ OutsideOf(lines)[1] \in Seq(RcLine) /\ OutsideOf(lines)[2] \in Seq(RcLine)
           /\ NoBlock(OutsideOf(lines)[1]) /\ NoBlock(OutsideOf(lines)[2])
           /\ NoBlock(lines) => OutsideOf(lines) = <<lines, <<>>>>
<1>1. /\ <<>> \in Seq(RcLine) /\ NoBlock(<<>>)
      /\ Len(lines) \in Nat /\ DOMAIN lines = 1..Len(lines)
      /\ \A n \in 1..Len(lines) : lines[n] \in RcLine
  BY DEF NoBlock, AtIn
<1>2. CASE AtIn(lines, "start") = {}
  <2>1. OutsideOf(lines) = <<lines, <<>>>>
    BY <1>2 DEF OutsideOf
  <2> QED BY <1>1, <1>2, <2>1 DEF OneBlock, NoBlock
<1>3. CASE AtIn(lines, "start") # {}
  <2>1. PICK s \in AtIn(lines, "start"), e \in AtIn(lines, "end") : s < e
    BY <1>3 DEF OneBlock
  <2>2. /\ \A n \in AtIn(lines, "start") : n = s
        /\ \A n \in AtIn(lines, "end") : n = e
    BY <2>1 DEF OneBlock
  <2> DEFINE u == SubSeq(lines, 1, s - 1)
             w == SubSeq(lines, e + 1, Len(lines))
  <2>3. OutsideOf(lines) = <<u, w>>
    <3>1. (CHOOSE n \in AtIn(lines, "start") : TRUE) = s
      BY <2>1, <2>2
    <3>2. (CHOOSE n \in AtIn(lines, "end") : TRUE) = e
      BY <2>1, <2>2
    <3> QED BY <1>3, <3>1, <3>2 DEF OutsideOf
  <2>4. s \in 1..Len(lines) /\ e \in 1..Len(lines)
    BY <1>1, <2>1 DEF AtIn
  <2>5. /\ u \in Seq(RcLine) /\ Len(u) = s - 1
        /\ \A n \in 1..s - 1 : u[n] = lines[n]
    <3>1. \A n \in 1..s - 1 : lines[n] \in RcLine
      BY <1>1, <2>4
    <3> DEFINE k == s - 1
    <3>2. k \in Nat
      BY <2>4
    <3>3. \A n \in 1..k : lines[n] \in RcLine
      BY <3>1
    <3> HIDE DEF k
    <3>4. /\ SubSeq(lines, 1, k) \in Seq(RcLine)
          /\ Len(SubSeq(lines, 1, k)) = IF 1 <= k THEN k - 1 + 1 ELSE 0
          /\ \A n \in 1..k - 1 + 1 : SubSeq(lines, 1, k)[n] = lines[1 + n - 1]
      BY <3>2, <3>3, SubSeqProperties
    <3>5. /\ SubSeq(lines, 1, k) \in Seq(RcLine) /\ Len(SubSeq(lines, 1, k)) = k
          /\ \A n \in 1..k : SubSeq(lines, 1, k)[n] = lines[n]
      BY <3>2, <3>4
    <3> QED BY <3>5 DEF k
  <2>6. /\ w \in Seq(RcLine) /\ Len(w) = Len(lines) - e
        /\ \A n \in 1..Len(lines) - e : w[n] = lines[e + n]
    <3> DEFINE k == e + 1
               m == Len(lines)
    <3>1. k \in Nat /\ m \in Nat /\ k <= m + 1 /\ e = k - 1
      BY <2>4
    <3>2. \A n \in k..m : lines[n] \in RcLine
      BY <1>1, <2>4
    <3> HIDE DEF k, m
    <3>3. /\ SubSeq(lines, k, m) \in Seq(RcLine)
          /\ Len(SubSeq(lines, k, m)) = IF k <= m THEN m - k + 1 ELSE 0
          /\ \A n \in 1..m - k + 1 : SubSeq(lines, k, m)[n] = lines[k + n - 1]
      BY <3>1, <3>2, SubSeqProperties
    <3>4. /\ Len(SubSeq(lines, k, m)) = m - e
          /\ \A n \in 1..m - e : SubSeq(lines, k, m)[n] = lines[e + n]
      BY <3>1, <3>3
    <3> QED BY <3>3, <3>4 DEF k, m
  <2> HIDE DEF u, w
  <2>7. NoBlock(u)
    <3>1. ASSUME NEW n \in 1..s - 1
          PROVE  lines[n].kind # "start" /\ lines[n].kind # "end"
      BY <1>1, <2>1, <2>2, <2>4 DEF AtIn
    <3>2. DOMAIN u = 1..s - 1
      BY <2>5
    <3> QED BY <2>5, <3>1, <3>2 DEF NoBlock, AtIn
  <2>8. NoBlock(w)
    <3>1. ASSUME NEW n \in 1..Len(lines) - e
          PROVE  lines[e + n].kind # "start" /\ lines[e + n].kind # "end"
      BY <1>1, <2>1, <2>2, <2>4 DEF AtIn
    <3>2. DOMAIN w = 1..Len(lines) - e
      BY <2>6
    <3> QED BY <2>6, <3>1, <3>2 DEF NoBlock, AtIn
  <2>9. ~NoBlock(lines)
    BY <1>3 DEF NoBlock
  <2> QED BY <2>3, <2>5, <2>6, <2>7, <2>8, <2>9
<1> QED BY <1>2, <1>3

\* A block between lines without one is the only one, and what is outside it is those.
LEMMA BlockFacts ==
    ASSUME NEW a \in Seq(RcLine), NEW z \in Seq(RcLine), NoBlock(a), NoBlock(z),
           NEW o \in {Self, Other}, NEW c \in Conn
    PROVE  LET all == a \o Block(o, c) \o z
           IN /\ all \in Seq(RcLine) /\ OneBlock(all) /\ OutsideOf(all) = <<a, z>>
              /\ Len(a) + 1 \in DOMAIN all
              /\ SubSeq(all, Len(a) + 1, Len(a) + 4) = Block(o, c)
              /\ Len(a) + 2 \in DOMAIN all /\ all[Len(a) + 2] = Line("mark", o, c)
<1> DEFINE b == Block(o, c)
           all == a \o b \o z
<1>1. /\ b \in Seq(RcLine) /\ Len(b) = 4
      /\ b[1] = Plain("start") /\ b[2] = Line("mark", o, c)
      /\ b[3] = Plain("source") /\ b[4] = Plain("end")
  <2>1. /\ Plain("start") \in RcLine /\ Line("mark", o, c) \in RcLine
        /\ Plain("source") \in RcLine /\ Plain("end") \in RcLine
    BY DEF Plain, Line, RcLine
  <2> QED BY <2>1 DEF Block
<1> HIDE DEF b
<1>2. /\ all \in Seq(RcLine) /\ Len(all) = Len(a) + Len(b) + Len(z)
      /\ Len(a) \in Nat /\ Len(b) \in Nat /\ Len(z) \in Nat
      /\ \A n \in 1..Len(a) : all[n] = a[n]
      /\ \A n \in 1..Len(b) : all[Len(a) + n] = b[n]
      /\ \A n \in 1..Len(z) : all[Len(a) + Len(b) + n] = z[n]
  <2>1. b \in Seq(RcLine)
    BY <1>1
  <2>2. /\ a \o b \o z \in Seq(RcLine) /\ Len(a \o b \o z) = Len(a) + Len(b) + Len(z)
        /\ Len(a) \in Nat /\ Len(b) \in Nat /\ Len(z) \in Nat
        /\ \A n \in 1..Len(a) : (a \o b \o z)[n] = a[n]
        /\ \A n \in 1..Len(b) : (a \o b \o z)[Len(a) + n] = b[n]
        /\ \A n \in 1..Len(z) : (a \o b \o z)[Len(a) + Len(b) + n] = z[n]
    BY <2>1, PartsFacts
  <2> QED BY <2>2
<1> HIDE DEF all
<1> DEFINE k == Len(a)
<1>3. DOMAIN all = 1..k + 4 + Len(z) /\ k \in Nat
  BY <1>1, <1>2
<1>4. /\ all[k + 1] = Plain("start") /\ all[k + 2] = Line("mark", o, c)
      /\ all[k + 3] = Plain("source") /\ all[k + 4] = Plain("end")
  BY <1>1, <1>2
<1>5. ASSUME NEW n \in DOMAIN all, n \notin k + 1..k + 4
      PROVE  all[n].kind # "start" /\ all[n].kind # "end"
  <2>1. CASE n <= k
    <3>1. n \in 1..Len(a) /\ n \in DOMAIN a
      BY <1>2, <1>3, <2>1
    <3> QED BY <1>2, <3>1 DEF NoBlock, AtIn
  <2>2. CASE n > k + 4
    <3>1. /\ n - (k + 4) \in 1..Len(z) /\ n - (k + 4) \in DOMAIN z
          /\ n = Len(a) + Len(b) + (n - (k + 4))
      BY <1>1, <1>2, <1>3, <2>2
    <3>2. all[n] = z[n - (k + 4)]
      BY <1>2, <3>1
    <3> QED BY <3>1, <3>2 DEF NoBlock, AtIn
  <2> QED BY <1>3, <1>5, <2>1, <2>2
<1>6. /\ Plain("start").kind = "start" /\ Line("mark", o, c).kind = "mark"
      /\ Plain("source").kind = "source" /\ Plain("end").kind = "end"
  BY DEF Plain, Line
<1>7. AtIn(all, "start") = {k + 1} /\ AtIn(all, "end") = {k + 4}
  <2>1. \A n \in k + 1..k + 4 : n = k + 1 \/ n = k + 2 \/ n = k + 3 \/ n = k + 4
    BY <1>3
  <2>2. k + 1 \in DOMAIN all /\ k + 4 \in DOMAIN all
    BY <1>2, <1>3
  <2>3. ASSUME NEW n \in DOMAIN all
        PROVE  (all[n].kind = "start" <=> n = k + 1) /\ (all[n].kind = "end" <=> n = k + 4)
    <3>1. CASE n \notin k + 1..k + 4
      BY <1>3, <1>5, <3>1
    <3>2. CASE n \in k + 1..k + 4
      <4>1. n = k + 1 \/ n = k + 2 \/ n = k + 3 \/ n = k + 4
        BY <2>1, <3>2
      <4> HIDE DEF k
      <4> QED BY <1>3, <1>4, <1>6, <4>1
    <3> QED BY <3>1, <3>2
  <2> HIDE DEF k
  <2> QED BY <2>2, <2>3 DEF AtIn
<1>8. OneBlock(all)
  <2>1. k + 1 < k + 4
    BY <1>3
  <2> HIDE DEF k
  <2> QED BY <1>7, <2>1 DEF OneBlock
<1>9. SubSeq(all, 1, k) = a
  <2>1. \A n \in 1..k : all[n] \in RcLine
    BY <1>2, <1>3
  <2>2. /\ SubSeq(all, 1, k) \in Seq(RcLine) /\ Len(SubSeq(all, 1, k)) = k
        /\ \A n \in 1..k : SubSeq(all, 1, k)[n] = all[n]
    <3> HIDE DEF k
    <3>1. /\ SubSeq(all, 1, k) \in Seq(RcLine)
          /\ Len(SubSeq(all, 1, k)) = IF 1 <= k THEN k - 1 + 1 ELSE 0
          /\ \A n \in 1..k - 1 + 1 : SubSeq(all, 1, k)[n] = all[1 + n - 1]
      BY <1>3, <2>1, SubSeqProperties
    <3> QED BY <1>3, <3>1
  <2> QED BY <1>2, <2>2, SeqEqual
<1>10. SubSeq(all, k + 5, Len(all)) = z
  <2> DEFINE f == k + 5
             l == Len(all)
  <2>1. /\ f \in Nat /\ l \in Nat /\ f <= l + 1 /\ l - f + 1 = Len(z)
        /\ \A n \in f..l : all[n] \in RcLine
    BY <1>1, <1>2, <1>3
  <2>2. \A n \in 1..Len(z) : all[f + n - 1] = z[n]
    <3>1. \A n \in 1..Len(z) : f + n - 1 = Len(a) + Len(b) + n
      BY <1>1, <1>2
    <3> QED BY <1>2, <3>1
  <2> HIDE DEF f, l
  <2>3. /\ SubSeq(all, f, l) \in Seq(RcLine)
        /\ Len(SubSeq(all, f, l)) = IF f <= l THEN l - f + 1 ELSE 0
        /\ \A n \in 1..l - f + 1 : SubSeq(all, f, l)[n] = all[f + n - 1]
    BY <2>1, SubSeqProperties
  <2>4. /\ Len(SubSeq(all, f, l)) = Len(z)
        /\ \A n \in 1..Len(z) : SubSeq(all, f, l)[n] = z[n]
    BY <2>1, <2>2, <2>3
  <2>5. SubSeq(all, f, l) = z
    BY <2>3, <2>4, SeqEqual
  <2> QED BY <2>5 DEF f, l
<1>11. OutsideOf(all) = <<a, z>>
  <2> DEFINE f == k + 1
             l == k + 4
  <2>1. f - 1 = k /\ l + 1 = k + 5
    BY <1>3
  <2>2. AtIn(all, "start") = {f} /\ AtIn(all, "end") = {l}
    BY <1>7
  <2> HIDE DEF f, l
  <2>3. /\ (CHOOSE n \in AtIn(all, "start") : TRUE) = f
        /\ (CHOOSE n \in AtIn(all, "end") : TRUE) = l
        /\ AtIn(all, "start") # {}
    BY <2>2
  <2>4. OutsideOf(all) = <<SubSeq(all, 1, f - 1), SubSeq(all, l + 1, Len(all))>>
    BY <2>3 DEF OutsideOf
  <2> QED BY <1>9, <1>10, <2>1, <2>4
<1>12. SubSeq(all, k + 1, k + 4) = b
  <2> DEFINE f == k + 1
             l == k + 4
  <2>1. /\ f \in Nat /\ l \in Nat /\ f <= l /\ l - f + 1 = Len(b)
        /\ \A n \in f..l : all[n] \in RcLine
    BY <1>1, <1>2, <1>3
  <2>2. \A n \in 1..Len(b) : all[f + n - 1] = b[n]
    <3>1. \A n \in 1..Len(b) : f + n - 1 = Len(a) + n
      BY <1>1, <1>2
    <3> QED BY <1>2, <3>1
  <2> HIDE DEF f, l
  <2>3. /\ SubSeq(all, f, l) \in Seq(RcLine)
        /\ Len(SubSeq(all, f, l)) = IF f <= l THEN l - f + 1 ELSE 0
        /\ \A n \in 1..l - f + 1 : SubSeq(all, f, l)[n] = all[f + n - 1]
    BY <2>1, SubSeqProperties
  <2>4. /\ Len(SubSeq(all, f, l)) = Len(b)
        /\ \A n \in 1..Len(b) : SubSeq(all, f, l)[n] = b[n]
    BY <2>1, <2>2, <2>3
  <2>5. SubSeq(all, f, l) = b
    BY <1>1, <2>3, <2>4, SeqEqual
  <2> QED BY <2>5 DEF f, l
<1>13. Len(a) + 1 \in DOMAIN all /\ Len(a) + 2 \in DOMAIN all
  BY <1>2, <1>3
<1> QED BY <1>2, <1>4, <1>8, <1>11, <1>12, <1>13 DEF b, all

\* Lines without a block, put together.
LEMMA UnblockedFacts ==
    ASSUME NEW a \in Seq(RcLine), NEW z \in Seq(RcLine), NoBlock(a), NoBlock(z)
    PROVE  LET all == a \o <<>> \o z
           IN /\ all = a \o z /\ all \in Seq(RcLine) /\ NoBlock(all)
              /\ OutsideOf(all) = <<all, <<>>>> /\ all \o <<>> = all
<1> DEFINE all == a \o z
<1>1. a \o <<>> = a
  BY ConcatEmptySeq
<1>2. /\ a \o z \in Seq(RcLine) /\ Len(a \o z) = Len(a) + Len(z)
      /\ \A n \in 1..Len(a) + Len(z) :
            (a \o z)[n] = IF n <= Len(a) THEN a[n] ELSE z[n - Len(a)]
  BY ConcatProperties
<1>3. /\ Len(a) \in Nat /\ Len(z) \in Nat /\ DOMAIN a = 1..Len(a) /\ DOMAIN z = 1..Len(z)
      /\ all \in Seq(RcLine) /\ DOMAIN all = 1..Len(a) + Len(z)
  BY <1>2
<1>4. ASSUME NEW n \in DOMAIN all
      PROVE  all[n].kind # "start" /\ all[n].kind # "end"
  <2>1. CASE n <= Len(a)
    <3>1. n \in DOMAIN a /\ all[n] = a[n]
      BY <1>2, <1>3, <2>1
    <3> QED BY <3>1 DEF NoBlock, AtIn
  <2>2. CASE n > Len(a)
    <3>1. n - Len(a) \in DOMAIN z /\ all[n] = z[n - Len(a)]
      BY <1>2, <1>3, <2>2
    <3> QED BY <3>1 DEF NoBlock, AtIn
  <2> QED BY <1>3, <2>1, <2>2
<1> HIDE DEF all
<1>5. NoBlock(all)
  BY <1>4 DEF NoBlock, AtIn
<1>6. OutsideOf(all) = <<all, <<>>>>
  BY <1>5 DEF OutsideOf, NoBlock
<1>7. all \o <<>> = all
  BY <1>3, ConcatEmptySeq
<1> QED BY <1>1, <1>3, <1>5, <1>6, <1>7 DEF all

\* A line of the user moves those after it, and is no part of a block.
LEMMA InsertFacts ==
    ASSUME NEW lines \in Seq(RcLine), NEW n \in 0..Len(lines), NEW x \in RcLine
    PROVE  /\ InsertAt(lines, n + 1, x) \in Seq(RcLine)
           /\ Len(InsertAt(lines, n + 1, x)) = Len(lines) + 1
           /\ \A k \in 1..n : InsertAt(lines, n + 1, x)[k] = lines[k]
           /\ InsertAt(lines, n + 1, x)[n + 1] = x
           /\ \A k \in n + 1..Len(lines) : InsertAt(lines, n + 1, x)[k + 1] = lines[k]
<1> DEFINE u == SubSeq(lines, 1, n)
           w == SubSeq(lines, n + 1, Len(lines))
           l == Len(lines)
           m == n + 1
<1>1. l \in Nat /\ n \in Nat /\ m \in Nat /\ n <= l /\ m <= l + 1 /\ m - 1 = n
      /\ \A k \in 1..l : lines[k] \in RcLine
  OBVIOUS
<1>2. /\ u \in Seq(RcLine) /\ Len(u) = n
      /\ \A k \in 1..n : u[k] = lines[k]
  <2>1. \A k \in 1..n : lines[k] \in RcLine
    BY <1>1
  <2>2. /\ SubSeq(lines, 1, n) \in Seq(RcLine)
        /\ Len(SubSeq(lines, 1, n)) = IF 1 <= n THEN n - 1 + 1 ELSE 0
        /\ \A k \in 1..n - 1 + 1 : SubSeq(lines, 1, n)[k] = lines[1 + k - 1]
    BY <1>1, <2>1, SubSeqProperties
  <2> QED BY <1>1, <2>2
<1>3. /\ w \in Seq(RcLine) /\ Len(w) = l - n
      /\ \A k \in 1..l - n : w[k] = lines[n + k]
  <2>1. \A k \in m..l : lines[k] \in RcLine
    BY <1>1
  <2> HIDE DEF m, l
  <2>2. /\ SubSeq(lines, m, l) \in Seq(RcLine)
        /\ Len(SubSeq(lines, m, l)) = IF m <= l THEN l - m + 1 ELSE 0
        /\ \A k \in 1..l - m + 1 : SubSeq(lines, m, l)[k] = lines[m + k - 1]
    BY <1>1, <2>1, SubSeqProperties
  <2>3. /\ Len(SubSeq(lines, m, l)) = l - n
        /\ \A k \in 1..l - n : SubSeq(lines, m, l)[k] = lines[n + k]
    BY <1>1, <2>2
  <2> QED BY <2>2, <2>3 DEF m, l
<1>4. InsertAt(lines, n + 1, x) = u \o <<x>> \o w
  <2> HIDE DEF m
  <2>1. InsertAt(lines, m, x) = SubSeq(lines, 1, m - 1) \o <<x>> \o SubSeq(lines, m, Len(lines))
    BY DEF InsertAt
  <2>2. InsertAt(lines, m, x) = SubSeq(lines, 1, n) \o <<x>> \o SubSeq(lines, m, Len(lines))
    BY <1>1, <2>1
  <2> QED BY <2>2 DEF m
<1>5. <<x>> \in Seq(RcLine) /\ Len(<<x>>) = 1 /\ <<x>>[1] = x
  OBVIOUS
<1> HIDE DEF u, w, l, m
<1> DEFINE b == <<x>>
           all == u \o b \o w
<1>6. b \in Seq(RcLine) /\ Len(b) = 1 /\ b[1] = x
  BY <1>5
<1> HIDE DEF b
<1>7. /\ u \o b \o w \in Seq(RcLine) /\ Len(u \o b \o w) = Len(u) + Len(b) + Len(w)
      /\ \A k \in 1..Len(u) : (u \o b \o w)[k] = u[k]
      /\ \A k \in 1..Len(b) : (u \o b \o w)[Len(u) + k] = b[k]
      /\ \A k \in 1..Len(w) : (u \o b \o w)[Len(u) + Len(b) + k] = w[k]
  <2>1. u \in Seq(RcLine) /\ b \in Seq(RcLine) /\ w \in Seq(RcLine)
    BY <1>2, <1>3, <1>6
  <2> QED BY <2>1, PartsFacts
<1> HIDE DEF all
<1>8. /\ all \in Seq(RcLine) /\ Len(all) = l + 1
      /\ \A k \in 1..n : all[k] = lines[k]
      /\ all[n + 1] = x
  BY <1>1, <1>2, <1>3, <1>6, <1>7 DEF all
<1>9. ASSUME NEW k \in n + 1..l PROVE all[k + 1] = lines[k]
  <2>1. k - n \in 1..Len(w) /\ Len(u) + Len(b) + (k - n) = k + 1 /\ n + (k - n) = k
    BY <1>1, <1>2, <1>3, <1>6
  <2>2. all[Len(u) + Len(b) + (k - n)] = w[k - n]
    BY <1>7, <2>1 DEF all
  <2>3. w[k - n] = lines[n + (k - n)]
    BY <1>3, <2>1
  <2> QED BY <2>1, <2>2, <2>3
<1>10. InsertAt(lines, n + 1, x) = all
  BY <1>4 DEF all, b
<1> QED BY <1>8, <1>9, <1>10 DEF l

\* A line that is taken out, too, leaves lines.
LEMMA RemoveFacts ==
    ASSUME NEW lines \in Seq(RcLine), NEW n \in 1..Len(lines)
    PROVE  RemoveAt(lines, n) \in Seq(RcLine)
<1> DEFINE m == n - 1
           k == n + 1
           l == Len(lines)
<1>1. m \in Nat /\ k \in Nat /\ l \in Nat
      /\ (\A i \in 1..m : lines[i] \in RcLine) /\ \A i \in k..l : lines[i] \in RcLine
  OBVIOUS
<1> HIDE DEF m, k, l
<1>2. SubSeq(lines, 1, m) \in Seq(RcLine) /\ SubSeq(lines, k, l) \in Seq(RcLine)
  BY <1>1, SubSeqProperties
<1>3. SubSeq(lines, 1, m) \o SubSeq(lines, k, l) \in Seq(RcLine)
  BY <1>2, ConcatProperties
<1> QED BY <1>3 DEF RemoveAt, m, k, l

\* What an untouched profile was, it stays when the user writes a line.
LEMMA UserFacts ==
    ASSUME NEW lines \in Seq(RcLine), NEW n \in 0..Len(lines), OneBlock(lines)
    PROVE  LET all == InsertAt(lines, n + 1, Plain("user"))
           IN /\ OneBlock(all)
              /\ AtIn(lines, "start") = {} => AtIn(all, "start") = {}
              /\ \A c : IsMarked(lines, c) => IsMarked(all, c)
<1> DEFINE all == InsertAt(lines, n + 1, Plain("user"))
           New(k) == IF k <= n THEN k ELSE k + 1
<1>1. /\ all \in Seq(RcLine) /\ Len(all) = Len(lines) + 1
      /\ \A k \in 1..n : all[k] = lines[k]
      /\ all[n + 1] = Plain("user")
      /\ \A k \in n + 1..Len(lines) : all[k + 1] = lines[k]
  <2>1. Plain("user") \in RcLine
    BY DEF Plain, Line, RcLine
  <2> QED BY <2>1, InsertFacts
<1>2. /\ Len(lines) \in Nat /\ n \in Nat /\ DOMAIN lines = 1..Len(lines)
      /\ DOMAIN all = 1..Len(lines) + 1
  BY <1>1
<1> HIDE DEF all
<1>3. ASSUME NEW k \in DOMAIN lines PROVE New(k) \in DOMAIN all /\ all[New(k)] = lines[k]
  BY <1>1, <1>2
<1>4. ASSUME NEW k \in DOMAIN all, all[k].kind # "user"
      PROVE  \E i \in DOMAIN lines : k = New(i) /\ all[k] = lines[i]
  <2>1. Plain("user").kind = "user"
    BY DEF Plain, Line
  <2>2. CASE k <= n
    BY <1>1, <1>2, <2>2
  <2>3. CASE k > n + 1
    <3>1. k - 1 \in DOMAIN lines /\ k - 1 \in n + 1..Len(lines) /\ k = New(k - 1)
      BY <1>2, <2>3
    <3>2. all[k] = lines[k - 1]
      BY <1>1, <1>2, <3>1
    <3> QED BY <3>1, <3>2
  <2>4. k # n + 1
    BY <1>1, <1>4, <2>1
  <2> QED BY <1>2, <2>2, <2>3, <2>4
<1>5. \A i, k \in DOMAIN lines : i < k => New(i) < New(k)
  BY <1>2
<1> HIDE DEF New
<1>6. ASSUME NEW kind \in {"start", "end"}, NEW k \in AtIn(all, kind)
      PROVE  \E i \in AtIn(lines, kind) : k = New(i)
  BY <1>4, <1>6 DEF AtIn
<1>7. ASSUME NEW kind, NEW i \in AtIn(lines, kind) PROVE New(i) \in AtIn(all, kind)
  BY <1>3 DEF AtIn
<1>8. ASSUME NEW kind \in {"start", "end"} PROVE AtIn(lines, kind) = {} => AtIn(all, kind) = {}
  BY <1>6
<1>9. OneBlock(all)
  <2>1. \A i, k \in AtIn(all, "start") : i = k
    BY <1>6 DEF OneBlock
  <2>2. \A i, k \in AtIn(all, "end") : i = k
    BY <1>6 DEF OneBlock
  <2>3. CASE AtIn(lines, "start") = {} /\ AtIn(lines, "end") = {}
    BY <1>8, <2>1, <2>2, <2>3 DEF OneBlock
  <2>4. ASSUME NEW s \in AtIn(lines, "start"), NEW e \in AtIn(lines, "end"), s < e
        PROVE  OneBlock(all)
    <3>1. New(s) < New(e)
      BY <1>5, <2>4 DEF AtIn
    <3>2. New(s) \in AtIn(all, "start") /\ New(e) \in AtIn(all, "end")
      BY <1>7
    <3> QED BY <2>1, <2>2, <3>1, <3>2 DEF OneBlock
  <2> QED BY <2>3, <2>4 DEF OneBlock
<1>10. ASSUME NEW c, IsMarked(lines, c) PROVE IsMarked(all, c)
  BY <1>3, <1>10 DEF IsMarked
<1> QED BY <1>8, <1>9, <1>10 DEF all

-----------------------------------------------------------------------------
(***************************************************************************)
(* The documents.                                                          *)
(***************************************************************************)
ResourcesOf(T) == {ResourceOf(t) : t \in T}

\* Where a target is written to.
LEMMA ResourceFacts ==
    ASSUME NEW t \in Target
    PROVE  /\ t \in VsCode => ResourceOf(t) \in VsCode
           /\ t \in Ide => ResourceOf(t) = Byok
           /\ t = Cli => ResourceOf(t) = Cli
           /\ (t # App /\ t # Cli) => ResourceOf(t) \in Document
           /\ (t # App /\ ResourceOf(t) = Cli) => t = Cli
           /\ t # App => ResourceOf(t) \in Resource
           /\ ~(t \in VsCode /\ t \in Ide) /\ (t \in VsCode \cup Ide => t # Cli /\ t # App)
           /\ (t # App /\ t # Cli) => t \in VsCode \cup Ide
           /\ Byok \notin VsCode /\ Cli \notin Document
<1>1. /\ VsCode \cap Ide = {} /\ Cli \notin VsCode \cup Ide /\ App \notin VsCode \cup Ide
      /\ Byok \notin VsCode \cup Ide /\ Cli # App /\ Cli # Byok
  BY TargetAssumption
<1>2. DefaultProfile \in VsCode
  BY DEF VsCode
<1>3. CASE t \in VsCode
  <2>1. ResourceOf(t) \in VsCode
    BY <1>1, <1>2, <1>3 DEF ResourceOf
  <2> QED BY <1>1, <1>3, <2>1 DEF Document, Resource
<1>4. CASE t \in Ide
  <2>1. ResourceOf(t) = Byok
    BY <1>1, <1>4 DEF ResourceOf
  <2> QED BY <1>1, <1>4, <2>1 DEF Document, Resource
<1>5. CASE t = Cli \/ t = App
  <2>1. ResourceOf(t) = t
    BY <1>1, <1>5 DEF ResourceOf
  <2> QED BY <1>1, <1>5, <2>1 DEF Document, Resource
<1> QED BY <1>3, <1>4, <1>5 DEF Target

\* A text is no entry, and what is neither missing nor unreadable are entries.
LEMMA TextFacts ==
    /\ \A text \in SUBSET Entry : text # Missing /\ text # Bad /\ EntriesIn(text) = text
    /\ EntriesIn(Missing) = {} /\ EntriesIn(Bad) = {} /\ Missing # Bad
    /\ \A text \in Text : EntriesIn(text) \subseteq Entry
    /\ \A text \in Text : text \notin {Missing, Bad} => text \in SUBSET Entry
BY TextAssumption DEF EntriesIn, Text

\* The entries of a document are those in its text.
LEMMA EntriesFacts ==
    ASSUME DocsTypeInv, NEW d \in Document
    PROVE  /\ Entries(d) = EntriesIn(docs[d]) /\ Entries(d) \subseteq Entry
           /\ docs[d] \in Text
<1>1. docs[d] \in Text
  BY DEF DocsTypeInv
<1> QED BY <1>1, TextFacts DEF Entries, EntriesIn, IsReadable

\* What a connection has in a document after its operation.
LEMMA RenderedFacts ==
    ASSUME DocsTypeInv, NEW d \in Document, NEW c \in Conn, NEW revoke \in BOOLEAN,
           ~revoke => conns[c] # None
    PROVE  /\ Rendered(d, c, revoke) \subseteq Entry
           /\ \A k : k # c => {e \in Rendered(d, c, revoke) : e.conn = k} = Claimed(d, k)
           /\ Rendered(d, c, revoke) \ {e \in Rendered(d, c, revoke) : e.conn = c}
                 = Entries(d) \ Claimed(d, c)
           /\ {e \in Rendered(d, c, revoke) : e.conn = c}
                 = IF revoke \/ ~IsRendered(d, c) THEN {} ELSE {EntryOf(c, conns[c])}
<1>1. Entries(d) \subseteq Entry
  BY EntriesFacts
<1>2. ~revoke => EntryOf(c, conns[c]) \in Entry
  BY DEF EntryOf, Entry, DocsTypeInv
<1>3. EntryOf(c, conns[c]).conn = c
  BY DEF EntryOf
<1>4. Rendered(d, c, revoke) = (Entries(d) \ Claimed(d, c)) \cup
          (IF revoke \/ ~IsRendered(d, c) THEN {} ELSE {EntryOf(c, conns[c])})
  BY DEF Rendered, EntryOf
<1>5. \A k, e : e \in Claimed(d, k) <=> e \in Entries(d) /\ e.conn = k
  BY DEF Claimed
<1> HIDE DEF Rendered
<1>6. CASE revoke \/ ~IsRendered(d, c)
  <2>1. \A e : e \in Rendered(d, c, revoke) <=> e \in Entries(d) /\ e.conn # c
    BY <1>4, <1>5, <1>6
  <2> QED BY <1>1, <1>5, <1>6, <2>1
<1>7. CASE ~(revoke \/ ~IsRendered(d, c))
  <2>1. \A e : e \in Rendered(d, c, revoke)
                 <=> (e \in Entries(d) /\ e.conn # c) \/ e = EntryOf(c, conns[c])
    BY <1>4, <1>5, <1>7
  <2> HIDE DEF EntryOf
  <2>2. Rendered(d, c, revoke) \subseteq Entry
    BY <1>1, <1>2, <1>7, <2>1
  <2>3. \A k, e : k # c =>
            (e \in Rendered(d, c, revoke) /\ e.conn = k <=> e \in Claimed(d, k))
    BY <1>3, <1>5, <2>1
  <2>4. \A e : e \in Rendered(d, c, revoke) /\ e.conn # c
                 <=> e \in Entries(d) /\ e \notin Claimed(d, c)
    BY <1>3, <1>5, <2>1
  <2>5. \A e : e \in Rendered(d, c, revoke) /\ e.conn = c <=> e = EntryOf(c, conns[c])
    BY <1>3, <2>1
  <2>6. \A k : k # c => {e \in Rendered(d, c, revoke) : e.conn = k} = Claimed(d, k)
    BY <2>3
  <2>7. Rendered(d, c, revoke) \ {e \in Rendered(d, c, revoke) : e.conn = c}
           = Entries(d) \ Claimed(d, c)
    BY <2>4
  <2>8. {e \in Rendered(d, c, revoke) : e.conn = c} = {EntryOf(c, conns[c])}
    BY <2>5
  <2> QED BY <1>7, <2>2, <2>6, <2>7, <2>8
<1> QED BY <1>6, <1>7

\* What a transaction leaves in the documents.
LEMMA WriteFacts ==
    ASSUME DocsTypeInv, NEW c \in Conn, NEW revoke \in BOOLEAN, NEW T \in SUBSET Target,
           ~revoke => conns[c] # None,
           \A t \in T : t # Cli => t # App /\ Owned(ResourceOf(t), c),
           WriteDocuments(T, c, revoke)
    PROVE  /\ docs' \in [Document -> Text] /\ backup' \subseteq Document
           /\ \A d \in Document :
                 /\ d \notin ResourcesOf(T) => docs'[d] = docs[d]
                 /\ d \in ResourcesOf(T) => /\ docs[d] # Bad /\ docs'[d] # Bad
                                            /\ Owned(d, c)
                                            /\ EntriesIn(docs'[d]) = Rendered(d, c, revoke)
                 /\ docs'[d] = docs[d] \/ d \in backup' \/ docs[d] = Missing \/ d = Byok
<1> DEFINE changed == {d \in Document : /\ d \in ResourcesOf(T)
                                        /\ After(d, c, revoke) # docs[d]}
<1>1. /\ docs' = [d \in Document |-> IF d \in changed THEN After(d, c, revoke) ELSE docs[d]]
      /\ backup' = backup \cup {d \in changed \cap VsCode : docs[d] # Missing}
  BY DEF WriteDocuments, ResourcesOf
<1>2. ASSUME NEW d \in Document, d \in ResourcesOf(T)
      PROVE  /\ docs[d] # Bad /\ Owned(d, c)
             /\ After(d, c, revoke) \in Text /\ After(d, c, revoke) # Bad
             /\ EntriesIn(After(d, c, revoke)) = Rendered(d, c, revoke)
  <2>1. PICK t \in T : d = ResourceOf(t)
    BY <1>2 DEF ResourcesOf
  <2>2. Owned(d, c)
    <3>1. t # Cli
      BY <2>1, ResourceFacts
    <3> QED BY <2>1, <3>1
  <2>3. docs[d] # Bad /\ Entries(d) = EntriesIn(docs[d]) /\ docs[d] \in Text
    BY <2>2, EntriesFacts DEF Owned, IsReadable
  <2>4. Rendered(d, c, revoke) \subseteq Entry
    BY RenderedFacts
  <2>5. CASE Rendered(d, c, revoke) = Entries(d)
    <3>1. After(d, c, revoke) = docs[d]
      BY <2>5 DEF After
    <3> QED BY <2>2, <2>3, <2>5, <3>1
  <2>6. CASE Rendered(d, c, revoke) # Entries(d) /\ d = Byok /\ Rendered(d, c, revoke) = {}
    <3>1. After(d, c, revoke) = Missing
      BY <2>6 DEF After
    <3> QED BY <2>2, <2>3, <2>6, <3>1, TextFacts DEF Text
  <2>7. CASE /\ Rendered(d, c, revoke) # Entries(d)
             /\ ~(d = Byok /\ Rendered(d, c, revoke) = {})
    <3>1. After(d, c, revoke) = Rendered(d, c, revoke)
      BY <2>7 DEF After
    <3> QED BY <2>2, <2>3, <2>4, <3>1, TextFacts DEF Text
  <2> QED BY <2>5, <2>6, <2>7
<1>3. docs \in [Document -> Text] /\ backup \subseteq Document
  BY DEF DocsTypeInv
<1>4. docs' \in [Document -> Text]
  BY <1>1, <1>2, <1>3
<1>5. backup' \subseteq Document
  BY <1>1, <1>3
<1>6. ASSUME NEW d \in Document
      PROVE  /\ d \notin ResourcesOf(T) => docs'[d] = docs[d]
             /\ d \in ResourcesOf(T) => /\ docs[d] # Bad /\ docs'[d] # Bad /\ Owned(d, c)
                                        /\ EntriesIn(docs'[d]) = Rendered(d, c, revoke)
             /\ docs'[d] = docs[d] \/ d \in backup' \/ docs[d] = Missing \/ d = Byok
  <2>1. docs'[d] = IF d \in changed THEN After(d, c, revoke) ELSE docs[d]
    BY <1>1
  <2>2. d \notin changed => d \notin ResourcesOf(T) \/ After(d, c, revoke) = docs[d]
    OBVIOUS
  <2>3. d \in changed => d \in ResourcesOf(T)
    OBVIOUS
  <2>4. d \in changed /\ d # Byok => d \in backup' \/ docs[d] = Missing
    BY <1>1 DEF Document
  <2> HIDE DEF changed
  <2> QED BY <1>2, <2>1, <2>2, <2>3, <2>4
<1> QED BY <1>4, <1>5, <1>6

-----------------------------------------------------------------------------
(***************************************************************************)
(* Positions.                                                              *)
(***************************************************************************)
\* Of some numbers one is the least.
LEMMA LeastOf ==
    ASSUME NEW S, S \subseteq Nat, S # {}
    PROVE  \E m \in S : \A k \in S : m <= k
<1>1. PICK m \in S : \A k \in S : ~(<<k, m>> \in OpToRel(<, Nat))
  BY NatLessThanWellFounded, WFMin
<1>2. ASSUME NEW k \in S PROVE m <= k
  <2>1. m \in Nat /\ k \in Nat
    OBVIOUS
  <2>2. ~(k < m)
    BY <1>1, <2>1 DEF OpToRel
  <2> QED BY <2>1, <2>2
<1> QED BY <1>2

\* Of some positions of a sequence one is the greatest.
LEMMA GreatestOf ==
    ASSUME NEW n \in Nat, NEW S, S \subseteq 1..n, S # {}
    PROVE  \E m \in S : \A k \in S : k <= m
<1> DEFINE T == {n - k : k \in S}
<1>1. T \subseteq Nat /\ T # {}
  <2>1. \A k \in S : n - k \in Nat
    OBVIOUS
  <2> QED BY <2>1
<1>2. PICK t \in T : \A u \in T : t <= u
  <2> HIDE DEF T
  <2> QED BY <1>1, LeastOf
<1>3. PICK m \in S : t = n - m
  BY <1>2
<1>4. ASSUME NEW k \in S PROVE k <= m
  <2>1. n - k \in T /\ n \in Int /\ k \in Int /\ m \in Int
    OBVIOUS
  <2>2. n - m <= n - k
    <3> HIDE DEF T
    <3> QED BY <1>2, <1>3, <2>1
  <2> HIDE DEF T
  <2> QED BY <2>1, <2>2
<1> QED BY <1>4

\* The members of a finite set of numbers up to one of them.
UpTo(S, o) == {q \in S : q <= o}

\* What it is to be one of them.
LEMMA UpToFacts == \A S, o, q : q \in UpTo(S, o) <=> q \in S /\ q <= o
BY DEF UpTo

\* Their number, the rank, counts up from the first member to the last.
LEMMA RankFacts ==
    ASSUME NEW n \in Nat, NEW S, S \subseteq 1..n
    PROVE  /\ IsFiniteSet(S) /\ Cardinality(S) \in Nat
           /\ \A o \in S : Rank(S, o) \in 1..Cardinality(S)
           /\ \A o, q \in S : Rank(S, o) = Rank(S, q) => o = q
           /\ \A r \in 1..Cardinality(S) : \E o \in S : Rank(S, o) = r
<1>1. IsFiniteSet(S) /\ Cardinality(S) \in Nat
  <2>1. IsFiniteSet(1..n)
    BY FS_Interval
  <2>2. IsFiniteSet(S)
    BY <2>1, FS_Subset
  <2> QED BY <2>2, FS_CardinalityType
<1>2. S \subseteq Nat
  OBVIOUS
<1>3. ASSUME NEW o \in S
      PROVE  /\ Rank(S, o) = Cardinality(UpTo(S, o))
             /\ IsFiniteSet(UpTo(S, o)) /\ Rank(S, o) \in 1..Cardinality(S)
  <2>1. UpTo(S, o) \subseteq S /\ o \in UpTo(S, o)
    BY <1>2, UpToFacts
  <2>2. IsFiniteSet(UpTo(S, o)) /\ Cardinality(UpTo(S, o)) \in Nat
    BY <1>1, <2>1, FS_Subset, FS_CardinalityType
  <2>3. Cardinality(UpTo(S, o)) # 0
    BY <2>1, <2>2, FS_EmptySet
  <2>4. Cardinality(UpTo(S, o)) <= Cardinality(S)
    BY <1>1, <2>1, FS_Subset
  <2>5. Rank(S, o) = Cardinality(UpTo(S, o))
    BY DEF Rank, UpTo
  <2> QED BY <1>1, <2>2, <2>3, <2>4, <2>5
<1>4. ASSUME NEW o \in S, NEW q \in S, o < q
      PROVE  Rank(S, o) < Rank(S, q)
  <2>1. UpTo(S, o) \subseteq UpTo(S, q) /\ q \in UpTo(S, q) /\ q \notin UpTo(S, o)
    <3>1. \A x \in S : x <= o => x <= q
      BY <1>2, <1>4
    <3>2. q <= q /\ ~(q <= o)
      BY <1>2, <1>4
    <3> QED BY <3>1, <3>2, UpToFacts
  <2>2. Cardinality(UpTo(S, o)) <= Cardinality(UpTo(S, q))
    BY <1>3, <2>1, FS_Subset
  <2>3. Cardinality(UpTo(S, o)) # Cardinality(UpTo(S, q))
    <3>1. IsFiniteSet(UpTo(S, q))
      BY <1>3
    <3>2. Cardinality(UpTo(S, q)) = Cardinality(UpTo(S, o)) => UpTo(S, q) = UpTo(S, o)
      BY <2>1, <3>1, FS_Subset
    <3> QED BY <2>1, <3>2
  <2> QED BY <1>1, <1>3, <2>2, <2>3
<1>5. \A o, q \in S : Rank(S, o) = Rank(S, q) => o = q
  <2> SUFFICES ASSUME NEW o \in S, NEW q \in S, o # q
               PROVE  Rank(S, o) # Rank(S, q)
    OBVIOUS
  <2>1. o < q \/ q < o
    BY <1>2
  <2>2. Rank(S, o) \in Nat /\ Rank(S, q) \in Nat
    BY <1>3
  <2> QED BY <1>4, <2>1, <2>2
<1> DEFINE Unranked == {r \in 1..Cardinality(S) : \A o \in S : Rank(S, o) # r}
<1>6. ASSUME Unranked # {} PROVE FALSE
  <2>1. PICK r \in Unranked : \A k \in Unranked : r <= k
    <3>1. Unranked \subseteq Nat
      OBVIOUS
    <3> HIDE DEF Unranked
    <3> QED BY <1>6, <3>1, LeastOf
  <2>2. r \in 1..Cardinality(S) /\ \A o \in S : Rank(S, o) # r
    BY <2>1
  <2>3. CASE r = 1
    <3>1. S # {}
      BY <1>1, <2>2, FS_EmptySet
    <3>2. PICK o \in S : \A k \in S : o <= k
      BY <1>2, <3>1, LeastOf
    <3>3. UpTo(S, o) = {o}
      <4>1. \A x \in S : x <= o <=> x = o
        BY <1>2, <3>2
      <4> QED BY <4>1, UpToFacts
    <3>4. Rank(S, o) = 1
      BY <1>3, <3>3, FS_Singleton
    <3> QED BY <2>2, <2>3, <3>4
  <2>4. CASE r > 1
    <3>1. r - 1 \notin Unranked /\ r - 1 \in 1..Cardinality(S)
      <4>1. r \in Nat /\ r - 1 \in 1..Cardinality(S)
        BY <1>1, <2>2, <2>4
      <4> HIDE DEF Unranked
      <4>2. r - 1 \notin Unranked
        BY <2>1, <4>1
      <4> QED BY <4>1, <4>2
    <3>2. PICK o \in S : Rank(S, o) = r - 1
      BY <3>1
    <3> DEFINE Above == {q \in S : o < q}
    <3>3. Above # {}
      <4>1. ASSUME Above = {} PROVE UpTo(S, o) = S
        <5>1. \A x \in S : x <= o
          BY <1>2, <4>1
        <5>2. \A x : x \in UpTo(S, o) <=> x \in S
          BY <5>1, UpToFacts
        <5> QED BY <5>2
      <4>2. Cardinality(UpTo(S, o)) # Cardinality(S)
        BY <1>1, <1>3, <2>2, <3>2
      <4> HIDE DEF Above
      <4> QED BY <4>1, <4>2
    <3>4. PICK q \in Above : \A k \in Above : q <= k
      <4>1. Above \subseteq Nat
        BY <1>2
      <4> HIDE DEF Above
      <4> QED BY <3>3, <4>1, LeastOf
    <3>5. q \in S /\ o < q /\ \A k \in S : o < k => q <= k
      BY <3>4
    <3> HIDE DEF Above
    <3>6. UpTo(S, q) = UpTo(S, o) \cup {q} /\ q \notin UpTo(S, o)
      <4>1. \A x \in S : x <= q <=> x <= o \/ x = q
        BY <1>2, <3>5
      <4>2. ~(q <= o)
        BY <1>2, <3>5
      <4>3. \A x : x \in UpTo(S, q) <=> x \in UpTo(S, o) \/ x = q
        BY <3>5, <4>1, UpToFacts
      <4> QED BY <4>2, <4>3, UpToFacts
    <3>7. Cardinality(UpTo(S, q)) = Cardinality(UpTo(S, o)) + 1
      BY <1>3, <3>6, FS_AddElement
    <3>8. Rank(S, q) = r
      BY <1>1, <1>3, <2>2, <3>2, <3>5, <3>7
    <3> QED BY <2>2, <3>5, <3>8
  <2> QED BY <1>1, <2>2, <2>3, <2>4
<1>7. \A r \in 1..Cardinality(S) : \E o \in S : Rank(S, o) = r
  BY <1>6
<1> QED BY <1>1, <1>3, <1>5, <1>7

\* Pick keeps what is at the positions it is given, and nothing else.
LEMMA PickFacts ==
    ASSUME NEW T, NEW all \in Seq(T), NEW keep, keep \subseteq DOMAIN all
    PROVE  /\ Pick(all, keep) \in Seq(T)
           /\ \A m \in DOMAIN Pick(all, keep) : \E o \in keep :
                  Pick(all, keep)[m] = all[o]
<1> DEFINE c == Cardinality(keep)
           Place(n) == CHOOSE o \in keep : Rank(keep, o) = n
<1>1. Len(all) \in Nat /\ keep \subseteq 1..Len(all)
  OBVIOUS
<1>2. Pick(all, keep) = [n \in 1..c |-> all[Place(n)]]
  BY DEF Pick
<1>3. /\ c \in Nat
      /\ \A o \in keep : Rank(keep, o) \in 1..c
      /\ \A o, q \in keep : Rank(keep, o) = Rank(keep, q) => o = q
      /\ \A r \in 1..c : \E o \in keep : Rank(keep, o) = r
  BY <1>1, RankFacts
<1>4. ASSUME NEW n \in 1..c
      PROVE  Place(n) \in keep /\ Rank(keep, Place(n)) = n
  <2>1. \E o \in keep : Rank(keep, o) = n
    BY <1>3
  <2> QED BY <2>1
<1> HIDE DEF c, Place
<1>5. Pick(all, keep) \in Seq(T)
  <2>1. \A n \in 1..c : all[Place(n)] \in T
    BY <1>1, <1>4
  <2> QED BY <1>2, <1>3, <2>1
<1>6. DOMAIN Pick(all, keep) = 1..c
  BY <1>2
<1> QED BY <1>2, <1>4, <1>5, <1>6

-----------------------------------------------------------------------------
(***************************************************************************)
(* The actions.                                                            *)
(***************************************************************************)
Kind == {"plan", "change", "edit", "move", "fail"}

\* An action takes from its own bound.
LEMMA TakeFacts ==
    ASSUME DocsTypeInv, NEW b \in Kind, Take(b)
    PROVE  /\ left' \in [{"all", "plan", "change", "edit", "move", "fail"} -> Nat]
           /\ left'.edit = left.edit <=> b # "edit"
<1> DEFINE cost == IF b \in {"edit", "move", "fail"} THEN 2 ELSE 1
           K == {"all", "plan", "change", "edit", "move", "fail"}
<1>1. /\ left \in [K -> Nat] /\ b \in K /\ b # "all" /\ "all" \in K
      /\ left[b] > 0 /\ left.all >= cost
      /\ left' = [left EXCEPT ![b] = @ - 1, !.all = @ - cost]
  BY DEF Take, DocsTypeInv, Kind
<1>2. cost \in Nat
  OBVIOUS
<1> HIDE DEF cost, K
<1>3. left[b] - 1 \in Nat /\ left["all"] - cost \in Nat
  <2>1. left[b] \in Nat /\ left[b] > 0
    BY <1>1
  <2>2. left["all"] \in Nat /\ left["all"] >= cost
    BY <1>1
  <2>3. \A n \in Nat : n > 0 => n - 1 \in Nat
    OBVIOUS
  <2>4. \A n \in Nat : n >= cost => n - cost \in Nat
    BY <1>2
  <2> QED BY <2>1, <2>2, <2>3, <2>4
<1>4. left' \in [K -> Nat]
  BY <1>1, <1>3
<1>5. \A k \in K \ {"all"} : left'[k] = IF k = b THEN left[k] - 1 ELSE left[k]
  BY <1>1
<1>6. left'.edit = left.edit <=> b # "edit"
  <2>1. "edit" \in K \ {"all"} /\ left.edit = left["edit"] /\ left'.edit = left'["edit"]
    BY DEF K
  <2>2. left'["edit"] = IF "edit" = b THEN left["edit"] - 1 ELSE left["edit"]
    BY <1>5, <2>1
  <2>3. left["edit"] \in Nat
    BY <1>1, <2>1
  <2> QED BY <2>1, <2>2, <2>3
<1> QED BY <1>4, <1>6 DEF K

\* What is in the environment is nothing, a file written by hand, or a route.
LEMMA EnvFacts ==
    ASSUME DocsTypeInv, NEW c \in Conn
    PROVE  /\ IsRoute(c) <=> env \in RouteOf /\ env.owner = Self /\ env.conn = c
           /\ \A o \in {Self, Other}, b \in Body \cup {None} :
                 [owner |-> o, conn |-> c, body |-> b] \in RouteOf
           /\ None \notin RouteOf /\ Foreign \notin RouteOf
BY TextAssumption DEF DocsTypeInv, EnvText, IsRoute, RouteOf

\* What is outside is a pair.
LEMMA PairFacts ==
    ASSUME NEW lines PROVE OutsideOf(lines) = <<OutsideOf(lines)[1], OutsideOf(lines)[2]>>
<1> DEFINE s == CHOOSE n \in AtIn(lines, "start") : TRUE
           e == CHOOSE n \in AtIn(lines, "end") : TRUE
           a == SubSeq(lines, 1, s - 1)
           z == SubSeq(lines, e + 1, Len(lines))
<1>1. OutsideOf(lines) = IF AtIn(lines, "start") = {} THEN <<lines, <<>>>> ELSE <<a, z>>
  BY DEF OutsideOf
<1> HIDE DEF a, z
<1>2. CASE AtIn(lines, "start") = {}
  BY <1>1, <1>2
<1>3. CASE AtIn(lines, "start") # {}
  BY <1>1, <1>3
<1> QED BY <1>2, <1>3

\* A route that is written leaves one block, with its mark, and what was outside.
LEMMA ActivateFacts ==
    ASSUME DocsTypeInv, IsReplaceable, NEW o \in {Self, Other}, NEW c \in Conn,
           rc' = Replaced(Block(o, c))
    PROVE  /\ rc' \in Seq(RcLine) /\ OneBlock(rc') /\ OutsideOf(rc') = OutsideOf(rc)
           /\ o = Self => IsMarked(rc', c) /\ HasBlock(rc', c)
<1> DEFINE a == OutsideOf(rc)[1]
           z == OutsideOf(rc)[2]
<1>1. rc \in Seq(RcLine) /\ OneBlock(rc) /\ Outside = OutsideOf(rc)
  BY ReplaceableFacts DEF DocsTypeInv
<1>2. a \in Seq(RcLine) /\ z \in Seq(RcLine) /\ NoBlock(a) /\ NoBlock(z)
  BY <1>1, OutsideFacts
<1>3. rc' = a \o Block(o, c) \o z
  BY <1>1 DEF Replaced
<1>4. OutsideOf(rc) = <<a, z>>
  BY PairFacts
<1> HIDE DEF a, z
<1>5. /\ a \o Block(o, c) \o z \in Seq(RcLine) /\ OneBlock(a \o Block(o, c) \o z)
      /\ OutsideOf(a \o Block(o, c) \o z) = <<a, z>>
      /\ Len(a) + 1 \in DOMAIN (a \o Block(o, c) \o z)
      /\ SubSeq(a \o Block(o, c) \o z, Len(a) + 1, Len(a) + 4) = Block(o, c)
      /\ Len(a) + 2 \in DOMAIN (a \o Block(o, c) \o z)
      /\ (a \o Block(o, c) \o z)[Len(a) + 2] = Line("mark", o, c)
  BY <1>2, BlockFacts
<1>6. /\ Len(a) + 1 \in DOMAIN rc' /\ SubSeq(rc', Len(a) + 1, Len(a) + 4) = Block(o, c)
      /\ Len(a) + 2 \in DOMAIN rc' /\ rc'[Len(a) + 2] = Line("mark", o, c)
  BY <1>3, <1>5
<1>7. Len(a) + 4 = Len(a) + 1 + 3
  BY <1>2
<1>8. o = Self => IsMarked(rc', c) /\ HasBlock(rc', c)
  BY <1>6, <1>7 DEF IsMarked, HasBlock
<1> QED BY <1>3, <1>4, <1>5, <1>8

\* A route that is removed leaves what was outside its block, if there was one.
LEMMA RemoveRouteFacts ==
    ASSUME DocsTypeInv, IsRemovable, RemoveRoute
    PROVE  /\ env' = None /\ rc' \in Seq(RcLine) /\ (OneBlock(rc) => OneBlock(rc'))
           /\ rc' # rc => OutsideOf(rc)[1] \o OutsideOf(rc)[2]
                             = OutsideOf(rc')[1] \o OutsideOf(rc')[2]
<1> DEFINE a == OutsideOf(rc)[1]
           z == OutsideOf(rc)[2]
<1>1. CASE At("start") = {}
  BY <1>1 DEF RemoveRoute, DocsTypeInv
<1>2. CASE At("start") # {}
  <2>1. /\ rc \in Seq(RcLine) /\ OneBlock(rc) /\ Outside = OutsideOf(rc)
    BY <1>2, ReplaceableFacts DEF DocsTypeInv, IsRemovable
  <2>2. a \in Seq(RcLine) /\ z \in Seq(RcLine) /\ NoBlock(a) /\ NoBlock(z)
    BY <2>1, OutsideFacts
  <2>3. rc' = a \o <<>> \o z /\ env' = None
    BY <1>2, <2>1 DEF RemoveRoute, Replaced
  <2> HIDE DEF a, z
  <2>4. /\ a \o <<>> \o z = a \o z /\ a \o <<>> \o z \in Seq(RcLine) /\ NoBlock(a \o <<>> \o z)
        /\ OutsideOf(a \o <<>> \o z) = <<a \o <<>> \o z, <<>>>>
        /\ (a \o <<>> \o z) \o <<>> = a \o <<>> \o z
    BY <2>2, UnblockedFacts
  <2>5. OutsideOf(rc') = <<rc', <<>>>> /\ rc' \o <<>> = rc' /\ rc' = a \o z
    BY <2>3, <2>4
  <2>6. OutsideOf(rc')[1] \o OutsideOf(rc')[2] = a \o z
    BY <2>5
  <2>7. OneBlock(rc')
    BY <2>3, <2>4 DEF NoBlock, OneBlock
  <2> QED BY <2>3, <2>4, <2>6, <2>7 DEF a, z
<1> QED BY <1>1, <1>2

\* The proofs after a publication are those before that no operation replaces, and proofs
\* of the operations; each resource that gets the connection gets a proof of it.
LEMMA ProofsAfterFacts ==
    ASSUME NEW c \in Conn, NEW ts \in Request
    PROVE  LET S == SupportedOf(ts, c) IN
           /\ \A p \in ProofsAfter(ts, c) :
                 \/ p \in proofs /\ \A t \in S : ~Supersedes(t, c, p)
                 \/ \E t \in S : p = ProofOf(t, c) /\ IsProven(t, c)
           /\ \A p \in proofs : (\A t \in S : ~Supersedes(t, c, p)) => p \in ProofsAfter(ts, c)
           /\ \A r \in ResourcesOf(S) :
                 (\A t \in S : ResourceOf(t) = r => IsProven(t, c))
                    => \E p \in ProofsAfter(ts, c) : p.conn = c /\ p.res = r
<1> DEFINE S == SupportedOf(ts, c)
           N == {n \in DOMAIN ts : ts[n] \in S}
           lasts == {n \in N : \A m \in N : m > n => ~Supersedes(ts[m], c, ProofOf(ts[n], c))}
           new == {ProofOf(ts[n], c) : n \in {m \in lasts : IsProven(ts[m], c)}}
<1>1. ProofsAfter(ts, c) = ProofsLeft(S, c) \cup new
  BY DEF ProofsAfter
<1>2. ts \in Seq(Target) /\ Len(ts) \in Nat /\ DOMAIN ts = 1..Len(ts)
  BY RequestAssumption
<1>3. \A n \in N : ts[n] \in S
  OBVIOUS
<1>4. ASSUME NEW r \in ResourcesOf(S), \A t \in S : ResourceOf(t) = r => IsProven(t, c)
      PROVE  \E p \in new : p.conn = c /\ p.res = r
  <2> DEFINE M == {n \in N : ResourceOf(ts[n]) = r}
  <2>1. PICK t \in S : r = ResourceOf(t)
    BY DEF ResourcesOf
  <2>2. t \in ToSet(ts)
    BY <2>1 DEF SupportedOf
  <2>3. PICK k \in DOMAIN ts : ts[k] = t
    BY <2>2 DEF ToSet
  <2>4. k \in M
    BY <2>1, <2>3
  <2>5. M \subseteq 1..Len(ts) /\ M # {}
    BY <1>2, <2>4
  <2>6. PICK n \in M : \A m \in M : m <= n
    <3> HIDE DEF M
    <3> QED BY <1>2, <2>5, GreatestOf
  <2>7. n \in N /\ ts[n] \in S /\ ResourceOf(ts[n]) = r
    BY <2>6
  <2>8. /\ ProofOf(ts[n], c).conn = c /\ ProofOf(ts[n], c).res = r
    BY <2>7 DEF ProofOf
  <2>9. n \in lasts
    <3> SUFFICES ASSUME NEW m \in N, m > n, Supersedes(ts[m], c, ProofOf(ts[n], c))
                 PROVE  FALSE
      BY <2>7
    <3>1. ResourceOf(ts[m]) = r
      BY <2>8 DEF Supersedes
    <3>2. m \in M /\ m \in Nat /\ n \in Nat
      BY <1>2, <2>7, <3>1
    <3> QED BY <2>6, <3>2
  <2>10. IsProven(ts[n], c)
    BY <1>4, <2>7
  <2> QED BY <2>8, <2>9, <2>10
<1>5. ASSUME NEW p \in new PROVE \E t \in S : p = ProofOf(t, c) /\ IsProven(t, c)
  BY <1>3
<1> HIDE DEF new, S
<1>6. \A p \in ProofsLeft(S, c) : p \in proofs /\ \A t \in S : ~Supersedes(t, c, p)
  BY DEF ProofsLeft
<1>7. \A p \in proofs : (\A t \in S : ~Supersedes(t, c, p)) => p \in ProofsLeft(S, c)
  BY DEF ProofsLeft
<1>8. \A p \in ProofsAfter(ts, c) :
          \/ p \in proofs /\ \A t \in S : ~Supersedes(t, c, p)
          \/ \E t \in S : p = ProofOf(t, c) /\ IsProven(t, c)
  BY <1>1, <1>5, <1>6
<1>9. \A p \in proofs : (\A t \in S : ~Supersedes(t, c, p)) => p \in ProofsAfter(ts, c)
  BY <1>1, <1>7
<1>10. \A r \in ResourcesOf(S) :
           (\A t \in S : ResourceOf(t) = r => IsProven(t, c))
              => \E p \in ProofsAfter(ts, c) : p.conn = c /\ p.res = r
  BY <1>1, <1>4
<1> QED BY <1>8, <1>9, <1>10 DEF S

\* What is supported is written to, at a document or as the route.
LEMMA SupportedFacts ==
    ASSUME NEW c \in Conn, NEW ts \in Request
    PROVE  /\ SupportedOf(ts, c) \in SUBSET Target
           /\ \A t \in SupportedOf(ts, c) :
                 t # App /\ IsWritable(t) /\ (t \in Ide => Compatible(conns[c]))
<1>1. ts \in Seq(Target)
  BY RequestAssumption
<1>2. \A t \in SupportedOf(ts, c) : t \in ToSet(ts) /\ IsSupported(t, c, FALSE)
  BY DEF SupportedOf
<1>3. \A t \in ToSet(ts) : t \in Target
  BY <1>1 DEF ToSet
<1> QED BY <1>2, <1>3 DEF IsSupported, IsWritable, IdeSupports

\* A publication.
LEMMA PublishFacts ==
    ASSUME DocsTypeInv, NEW c \in Conn, NEW ts \in Request, Publish(c, ts)
    PROVE  LET S == SupportedOf(ts, c) IN
           /\ conns[c] \in Body /\ conns[c] # None
           /\ docs' \in [Document -> Text] /\ backup' \subseteq Document
           /\ \A d \in Document :
                 /\ d \notin ResourcesOf(S) => docs'[d] = docs[d]
                 /\ d \in ResourcesOf(S) => /\ docs[d] # Bad /\ docs'[d] # Bad
                                            /\ Owned(d, c)
                                            /\ EntriesIn(docs'[d]) = Rendered(d, c, FALSE)
                 /\ docs'[d] = docs[d] \/ d \in backup' \/ docs[d] = Missing \/ d = Byok
           /\ Cli \notin S => env' = env /\ rc' = rc
           /\ Cli \in S => ~registry /\ IsReplaceable /\ ActivateRoute(c)
           /\ proofs' = ProofsAfter(ts, c)
           /\ conns' = conns /\ gone' = gone /\ client' = client /\ registry' = registry
           /\ stray' = stray /\ detached' = detached
           /\ RecordAll(c, ts, S, "applied")
           /\ left' \in [{"all", "plan", "change", "edit", "move", "fail"} -> Nat]
<1> DEFINE S == SupportedOf(ts, c)
<1>1. /\ conns[c] # None /\ \A t \in S : CanWrite(t, c, FALSE)
      /\ WriteAll(S, c, FALSE) /\ proofs' = ProofsAfter(ts, c)
      /\ conns' = conns /\ gone' = gone /\ client' = client /\ registry' = registry
      /\ stray' = stray /\ detached' = detached
      /\ RecordAll(c, ts, S, "applied") /\ Take("plan")
  BY DEF Publish, CanPublish, clients, marks
<1>2. S \in SUBSET Target /\ \A t \in S : t # App
  BY SupportedFacts
<1>3. conns[c] \in Body
  BY <1>1 DEF DocsTypeInv
<1> HIDE DEF S
<1>4. \A t \in S : t # Cli => t # App /\ Owned(ResourceOf(t), c)
  BY <1>1, <1>2 DEF CanWrite
<1>5. WriteDocuments(S, c, FALSE)
  BY <1>1 DEF WriteAll
<1>6. /\ docs' \in [Document -> Text] /\ backup' \subseteq Document
      /\ \A d \in Document :
            /\ d \notin ResourcesOf(S) => docs'[d] = docs[d]
            /\ d \in ResourcesOf(S) => /\ docs[d] # Bad /\ docs'[d] # Bad
                                       /\ Owned(d, c)
                                       /\ EntriesIn(docs'[d]) = Rendered(d, c, FALSE)
            /\ docs'[d] = docs[d] \/ d \in backup' \/ docs[d] = Missing \/ d = Byok
  BY <1>1, <1>2, <1>4, <1>5, WriteFacts
<1>7. Cli \in S => ~registry /\ IsReplaceable
  BY <1>1 DEF CanWrite
<1>8. /\ Cli \notin S => env' = env /\ rc' = rc
      /\ Cli \in S => ActivateRoute(c)
  BY <1>1 DEF WriteAll
<1>9. left' \in [{"all", "plan", "change", "edit", "move", "fail"} -> Nat]
  BY <1>1, TakeFacts DEF Kind
<1> QED BY <1>1, <1>3, <1>6, <1>7, <1>8, <1>9 DEF S

\* A revocation.
LEMMA RevokeFacts ==
    ASSUME DocsTypeInv, NEW c \in Conn, Revoke(c)
    PROVE  LET T == ProvenTargets(c) IN
           /\ conns[c] # None /\ conns' = [conns EXCEPT ![c] = None] /\ gone' = gone \cup {c}
           /\ docs' \in [Document -> Text] /\ backup' \subseteq Document
           /\ \A d \in Document :
                 /\ d \notin ResourcesOf(T) => docs'[d] = docs[d]
                 /\ d \in ResourcesOf(T) => /\ docs[d] # Bad /\ docs'[d] # Bad
                                            /\ Owned(d, c)
                                            /\ EntriesIn(docs'[d]) = Rendered(d, c, TRUE)
                 /\ docs'[d] = docs[d] \/ d \in backup' \/ docs[d] = Missing \/ d = Byok
           /\ Cli \notin T => env' = env /\ rc' = rc
           /\ Cli \in T => IsCurrentOwner(c) /\ IsRemovable /\ RemoveRoute
           /\ proofs' = {p \in proofs : p.conn # c}
           /\ \A p \in proofs : p.conn = c => p.res \in ResourcesOf(T)
           /\ T \in SUBSET Target /\ \A t \in T : t # App
           /\ client' = client /\ registry' = registry
           /\ stray' = stray /\ detached' = detached
           /\ ForgetRecords(c)
           /\ left' \in [{"all", "plan", "change", "edit", "move", "fail"} -> Nat]
<1> DEFINE T == ProvenTargets(c)
<1>1. /\ conns[c] # None /\ conns' = [conns EXCEPT ![c] = None] /\ gone' = gone \cup {c}
      /\ \A t \in T : CanWrite(t, c, TRUE)
      /\ \A p \in ProofsLeft(T, c) : p.conn # c
      /\ WriteAll(T, c, TRUE) /\ proofs' = {p \in proofs : p.conn # c}
      /\ client' = client /\ registry' = registry
      /\ stray' = stray /\ detached' = detached
      /\ ForgetRecords(c) /\ Take("plan")
  BY DEF Revoke, CanRevoke, clients, marks
<1>2. T \in SUBSET Target /\ \A t \in T : t # App
  BY DEF ProvenTargets, DocsTypeInv, Binding
<1>3. \A p \in proofs : p.conn = c => \E t \in T : Supersedes(t, c, p)
  BY <1>1 DEF ProofsLeft
<1>4. \A p \in proofs : p.conn = c => p.res \in ResourcesOf(T)
  BY <1>3 DEF Supersedes, ResourcesOf
<1> HIDE DEF T
<1>5. \A t \in T : t # Cli => t # App /\ Owned(ResourceOf(t), c)
  BY <1>1, <1>2 DEF CanWrite
<1>6. WriteDocuments(T, c, TRUE)
  BY <1>1 DEF WriteAll
<1>7. /\ docs' \in [Document -> Text] /\ backup' \subseteq Document
      /\ \A d \in Document :
            /\ d \notin ResourcesOf(T) => docs'[d] = docs[d]
            /\ d \in ResourcesOf(T) => /\ docs[d] # Bad /\ docs'[d] # Bad
                                       /\ Owned(d, c)
                                       /\ EntriesIn(docs'[d]) = Rendered(d, c, TRUE)
            /\ docs'[d] = docs[d] \/ d \in backup' \/ docs[d] = Missing \/ d = Byok
  BY <1>2, <1>5, <1>6, WriteFacts
<1>8. Cli \in T => IsCurrentOwner(c) /\ IsRemovable
  BY <1>1 DEF CanWrite
<1>9. /\ Cli \notin T => env' = env /\ rc' = rc
      /\ Cli \in T => RemoveRoute
  BY <1>1 DEF WriteAll
<1>10. left' \in [{"all", "plan", "change", "edit", "move", "fail"} -> Nat]
  BY <1>1, TakeFacts DEF Kind
<1> QED BY <1>1, <1>2, <1>4, <1>7, <1>8, <1>9, <1>10 DEF T

\* A deletion without a revocation, and a change of a connection.
LEMMA DetachFacts ==
    ASSUME DocsTypeInv, NEW c \in Conn, Detach(c)
    PROVE  /\ conns[c] # None /\ conns' = [conns EXCEPT ![c] = None] /\ gone' = gone \cup {c}
           /\ proofs' = {p \in proofs : p.conn # c} /\ detached' = detached \cup {c}
           /\ ForgetRecords(c)
           /\ client' = client /\ registry' = registry /\ docs' = docs /\ backup' = backup
           /\ env' = env /\ rc' = rc /\ stray' = stray
           /\ left' \in [{"all", "plan", "change", "edit", "move", "fail"} -> Nat]
<1>1. Take("change")
  BY DEF Detach
<1>2. left' \in [{"all", "plan", "change", "edit", "move", "fail"} -> Nat]
  BY <1>1, TakeFacts DEF Kind
<1> QED BY <1>2 DEF Detach, clients, written

\* The records of other connections are kept, in their order.
LEMMA ForgetFacts ==
    ASSUME DocsTypeInv, NEW c \in Conn, ForgetRecords(c)
    PROVE  /\ records' \in [Target -> Seq(Result)]
           /\ \A t \in Target : \A n \in DOMAIN records'[t] :
                 \E m \in DOMAIN records[t] : records'[t][n] = records[t][m]
<1> DEFINE Kept(t) == {n \in DOMAIN records[t] : records[t][n].conn # c}
<1>1. records' = [t \in Target |-> Pick(records[t], Kept(t))]
  BY DEF ForgetRecords
<1>2. ASSUME NEW t \in Target
      PROVE  /\ Pick(records[t], Kept(t)) \in Seq(Result)
             /\ \A n \in DOMAIN Pick(records[t], Kept(t)) :
                   \E m \in DOMAIN records[t] : Pick(records[t], Kept(t))[n] = records[t][m]
  <2>1. records[t] \in Seq(Result)
    BY DEF DocsTypeInv
  <2>2. Kept(t) \subseteq DOMAIN records[t]
    OBVIOUS
  <2> HIDE DEF Kept
  <2> QED BY <2>1, <2>2, PickFacts
<1> HIDE DEF Kept
<1>3. records' \in [Target -> Seq(Result)]
  BY <1>1, <1>2
<1>4. ASSUME NEW t \in Target, NEW n \in DOMAIN records'[t]
      PROVE  \E m \in DOMAIN records[t] : records'[t][n] = records[t][m]
  <2>1. records'[t] = Pick(records[t], Kept(t))
    BY <1>1
  <2> QED BY <1>2, <1>4, <2>1
<1> QED BY <1>3, <1>4

\* A result of a deployment comes before those there are; an applied one has what the
\* client is configured by now.
LEMMA RecordAllFacts ==
    ASSUME DocsTypeInv, NEW c \in Conn, NEW ts \in Request, NEW T \in SUBSET Target,
           NEW status \in {"applied", "failed"}, RecordAll(c, ts, T, status),
           \A t \in T : t # App, client' = client,
           docs' \in [Document -> Text], env' \in EnvText, rc' \in Seq(RcLine),
           registry' \in BOOLEAN
    PROVE  /\ records' \in [Target -> Seq(Result)]
           /\ \A t \in Target : \A n \in DOMAIN records'[t] :
                 \/ \E m \in DOMAIN records[t] : records'[t][n] = records[t][m]
                 \/ records'[t][n].status # "applied"
                 \/ /\ t \in T /\ status = "applied"
                    /\ records'[t][n].conn = c /\ records'[t][n].body = conns[c]
                    /\ t = Cli => records'[t][n].seen[2] = <<registry', env', rc'>>
                    /\ t # Cli => records'[t][n].seen[2] = <<docs'[ResourceOf(t)]>>
<1> DEFINE s(t) == IF t \in T THEN status ELSE "skipped"
           r(t) == Record(c, t, s(t))
<1>1. records' = [t \in Target |-> IF t \notin ToSet(ts) THEN records[t]
                                   ELSE <<r(t)>> \o records[t]]
  BY DEF RecordAll
<1>2. ASSUME NEW t \in Target
      PROVE  /\ r(t) \in Result /\ r(t).conn = c
             /\ r(t).status = "applied" =>
                   /\ t \in T /\ status = "applied" /\ r(t).body = conns[c]
                   /\ t = Cli => r(t).seen[2] = <<registry', env', rc'>>
                   /\ t # Cli => r(t).seen[2] = <<docs'[ResourceOf(t)]>>
  <2>1. conns[c] \in Body \cup {None} /\ client[t] \in Client
    BY DEF DocsTypeInv
  <2>2. CASE s(t) = "applied"
    <3>1. t \in T /\ status = "applied" /\ t # App
      BY <2>2
    <3> DEFINE text == IF t = Cli THEN <<registry', env', rc'>> ELSE <<docs'[ResourceOf(t)]>>
    <3>2. ResourceOf(t)' = ResourceOf(t)
      BY DEF ResourceOf
    <3>3. Fingerprint(t)' = <<client[t], text>>
      BY <3>1, <3>2 DEF Fingerprint
    <3>4. r(t) = [conn |-> c, status |-> "applied", body |-> conns[c],
                  seen |-> <<client[t], text>>]
      BY <2>2, <3>3 DEF Record
    <3>5. text \in [1..1 -> Text] \cup (BOOLEAN \X EnvText \X Seq(RcLine))
      <4>1. CASE t = Cli
        BY <4>1
      <4>2. CASE t # Cli
        <5>1. docs'[ResourceOf(t)] \in Text
          BY <3>1, <4>2, ResourceFacts
        <5> DEFINE x == docs'[ResourceOf(t)]
        <5>2. <<x>> \in [1..1 -> Text]
          <6> HIDE DEF x
          <6>1. x \in Text
            BY <5>1 DEF x
          <6> QED BY <6>1
        <5> QED BY <4>2, <5>2
      <4> QED BY <4>1, <4>2
    <3> HIDE DEF text, r
    <3>6. <<client[t], text>> \in Sight /\ <<client[t], text>>[2] = text
      BY <2>1, <3>5 DEF Sight
    <3>7. r(t) \in Result
      BY <2>1, <3>4, <3>6 DEF Result
    <3>8. r(t).conn = c /\ r(t).body = conns[c] /\ r(t).seen[2] = text
      BY <3>4, <3>6
    <3> QED BY <3>1, <3>7, <3>8 DEF text
  <2>3. CASE s(t) # "applied"
    <3>1. s(t) \in {"failed", "skipped"}
      BY <2>3
    <3>2. r(t) = [conn |-> c, status |-> s(t), body |-> None, seen |-> <<>>]
      BY <2>3 DEF Record
    <3>3. <<>> \in Sight
      BY DEF Sight
    <3> HIDE DEF r, s
    <3>4. r(t) \in Result /\ r(t).conn = c /\ r(t).status = s(t)
      BY <3>1, <3>2, <3>3 DEF Result
    <3> QED BY <2>3, <3>4
  <2> QED BY <2>2, <2>3
<1> HIDE DEF s, r
<1>3. ASSUME NEW t \in Target
      PROVE  /\ records'[t] \in Seq(Result)
             /\ \A n \in DOMAIN records'[t] :
                   \/ \E m \in DOMAIN records[t] : records'[t][n] = records[t][m]
                   \/ records'[t][n] = r(t)
  <2>1. records[t] \in Seq(Result)
    BY DEF DocsTypeInv
  <2>2. CASE t \notin ToSet(ts)
    <3>1. records'[t] = records[t]
      BY <1>1, <2>2
    <3> QED BY <2>1, <3>1
  <2>3. CASE t \in ToSet(ts)
    <3> DEFINE u == <<r(t)>>
               w == records[t]
    <3>1. records'[t] = u \o w
      BY <1>1, <2>3
    <3>2. u \in Seq(Result) /\ Len(u) = 1 /\ u[1] = r(t)
      BY <1>2
    <3>3. w \in Seq(Result) /\ Len(w) \in Nat /\ DOMAIN w = 1..Len(w)
      BY <2>1
    <3> HIDE DEF u, w
    <3>4. /\ u \o w \in Seq(Result) /\ Len(u \o w) = Len(u) + Len(w)
          /\ \A n \in 1..Len(u) + Len(w) :
                (u \o w)[n] = IF n <= Len(u) THEN u[n] ELSE w[n - Len(u)]
      BY <3>2, <3>3, ConcatProperties
    <3>5. ASSUME NEW n \in DOMAIN (u \o w)
          PROVE  (\E m \in DOMAIN w : (u \o w)[n] = w[m]) \/ (u \o w)[n] = r(t)
      <4>1. n \in 1..1 + Len(w)
        BY <3>2, <3>4
      <4>2. CASE n = 1
        BY <3>2, <3>3, <3>4, <4>2
      <4>3. CASE n # 1
        <5>1. n - 1 \in DOMAIN w /\ ~(n <= 1)
          BY <3>3, <4>1, <4>3
        <5>2. (u \o w)[n] = w[n - 1]
          BY <3>2, <3>4, <4>1, <5>1
        <5> QED BY <5>1, <5>2
      <4> QED BY <4>2, <4>3
    <3> QED BY <3>1, <3>4, <3>5 DEF w
  <2> QED BY <2>2, <2>3
<1>4. records' \in [Target -> Seq(Result)]
  BY <1>1, <1>3
<1>5. ASSUME NEW t \in Target, NEW n \in DOMAIN records'[t]
      PROVE  \/ \E m \in DOMAIN records[t] : records'[t][n] = records[t][m]
             \/ records'[t][n].status # "applied"
             \/ /\ t \in T /\ status = "applied"
                /\ records'[t][n].conn = c /\ records'[t][n].body = conns[c]
                /\ t = Cli => records'[t][n].seen[2] = <<registry', env', rc'>>
                /\ t # Cli => records'[t][n].seen[2] = <<docs'[ResourceOf(t)]>>
  <2>1. CASE \E m \in DOMAIN records[t] : records'[t][n] = records[t][m]
    BY <2>1
  <2>2. CASE records'[t][n] = r(t)
    <3> DEFINE x == records'[t][n]
               new == <<registry', env', rc'>>
               text == <<docs'[ResourceOf(t)]>>
    <3>1. /\ r(t).conn = c
          /\ r(t).status = "applied" =>
                /\ t \in T /\ status = "applied" /\ r(t).body = conns[c]
                /\ t = Cli => r(t).seen[2] = new
                /\ t # Cli => r(t).seen[2] = text
      BY <1>2
    <3> HIDE DEF new, text, x
    <3>2. x = r(t)
      BY <2>2 DEF x
    <3>3. \/ x.status # "applied"
          \/ /\ t \in T /\ status = "applied" /\ x.conn = c /\ x.body = conns[c]
             /\ t = Cli => x.seen[2] = new
             /\ t # Cli => x.seen[2] = text
      BY <3>1, <3>2
    <3> QED BY <3>3 DEF x, new, text
  <2> QED BY <1>3, <2>1, <2>2
<1> QED BY <1>4, <1>5

-----------------------------------------------------------------------------
(***************************************************************************)
(* The invariant, part by part.                                            *)
(***************************************************************************)

\* An edit of a document concerns one connection, or all.
LEMMA EditFacts ==
    ASSUME DocsTypeInv, EditDocument
    PROVE  /\ docs' \in [Document -> Text] /\ stray \subseteq stray'
           /\ stray' \subseteq Resource \X (Conn \cup {None})
           /\ conns' = conns /\ proofs' = proofs /\ records' = records /\ gone' = gone
           /\ client' = client /\ registry' = registry /\ backup' = backup
           /\ env' = env /\ rc' = rc /\ detached' = detached
           /\ left' \in [{"all", "plan", "change", "edit", "move", "fail"} -> Nat]
           /\ left'.edit # left.edit
           /\ \A d \in Document, c \in Conn : <<d, c>> \notin stray' =>
                 /\ docs'[d] = Bad => docs[d] = Bad
                 /\ {e \in EntriesIn(docs'[d]) : e.conn = c} = Claimed(d, c)
           /\ \A e \in EntriesIn(docs'[Byok]) : e \in Entries(Byok) \/ e.body = None
<1>1. /\ left' \in [{"all", "plan", "change", "edit", "move", "fail"} -> Nat]
      /\ left'.edit # left.edit
  <2>1. Take("edit")
    BY DEF EditDocument
  <2> QED BY <2>1, TakeFacts DEF Kind
<1>2. /\ conns' = conns /\ proofs' = proofs /\ records' = records /\ gone' = gone
      /\ client' = client /\ registry' = registry /\ backup' = backup
      /\ env' = env /\ rc' = rc /\ detached' = detached
  BY DEF EditDocument, clients
<1>3. /\ docs \in [Document -> Text] /\ stray \subseteq Resource \X (Conn \cup {None})
      /\ Byok \in Document /\ Document \subseteq Resource
  BY DEF DocsTypeInv, Document, Resource
<1>4. \A d \in Document, c \in Conn : Claimed(d, c) = {e \in EntriesIn(docs[d]) : e.conn = c}
  BY EntriesFacts DEF Claimed
<1> DEFINE Good == /\ docs' \in [Document -> Text] /\ stray \subseteq stray'
                   /\ stray' \subseteq Resource \X (Conn \cup {None})
                   /\ \A d \in Document, c \in Conn : <<d, c>> \notin stray' =>
                         /\ docs'[d] = Bad => docs[d] = Bad
                         /\ {e \in EntriesIn(docs'[d]) : e.conn = c} = Claimed(d, c)
                   /\ \A e \in EntriesIn(docs'[Byok]) : e \in Entries(Byok) \/ e.body = None
<1>5. ASSUME NEW d \in Document, NEW text \in SUBSET Entry, NEW x \in Entry,
             docs' = [docs EXCEPT ![d] = text], stray' = stray \cup {<<d, x.conn>>},
             \A e : e # x => (e \in text <=> e \in Entries(d)),
             x \in text => x.body = None
      PROVE  Good
  <2>1. x.conn \in Conn \cup {None}
    BY DEF Entry
  <2>2. /\ docs' \in [Document -> Text] /\ docs'[d] = text
        /\ \A b \in Document \ {d} : docs'[b] = docs[b]
    BY <1>3, <1>5 DEF Text
  <2>3. stray \subseteq stray' /\ stray' \subseteq Resource \X (Conn \cup {None})
    BY <1>3, <1>5, <2>1
  <2>4. EntriesIn(text) = text /\ text # Bad
    BY TextFacts
  <2>5. Entries(d) = EntriesIn(docs[d])
    BY EntriesFacts
  <2>6. ASSUME NEW b \in Document, NEW c \in Conn, <<b, c>> \notin stray'
        PROVE  /\ docs'[b] = Bad => docs[b] = Bad
               /\ {e \in EntriesIn(docs'[b]) : e.conn = c} = Claimed(b, c)
    <3>1. CASE b # d
      BY <1>4, <2>2, <3>1
    <3>2. CASE b = d
      <4>1. x.conn # c
        BY <1>5, <2>6, <3>2
      <4>2. \A e : e \in text /\ e.conn = c <=> e \in Entries(d) /\ e.conn = c
        BY <1>5, <4>1
      <4> QED BY <2>2, <2>4, <3>2, <4>2 DEF Claimed
    <3> QED BY <3>1, <3>2
  <2>7. ASSUME NEW e \in EntriesIn(docs'[Byok]) PROVE e \in Entries(Byok) \/ e.body = None
    <3>1. CASE d = Byok
      BY <1>5, <2>2, <2>4, <2>7, <3>1
    <3>2. CASE d # Byok
      BY <1>3, <2>2, <2>7, <3>2, EntriesFacts
    <3> QED BY <3>1, <3>2
  <2> QED BY <2>2, <2>3, <2>6, <2>7
<1>6. ASSUME NEW d \in Document, NEW e \in Entries(d),
             docs' = [docs EXCEPT ![d] = @ \ {e}], stray' = stray \cup {<<d, e.conn>>}
      PROVE  Good
  <2>1. docs[d] \in SUBSET Entry /\ Entries(d) = docs[d] /\ e \in Entry
    BY <1>6, EntriesFacts, TextFacts DEF EntriesIn
  <2> DEFINE text == docs[d] \ {e}
  <2>2. /\ text \in SUBSET Entry /\ docs' = [docs EXCEPT ![d] = text]
        /\ e \notin text /\ \A x : x # e => (x \in text <=> x \in Entries(d))
    BY <1>6, <2>1
  <2> HIDE DEF text, Good
  <2> QED BY <1>5, <1>6, <2>1, <2>2
<1>7. ASSUME NEW d \in Document, NEW e \in Alien,
             docs' = [docs EXCEPT ![d] = Entries(d) \cup {e}], stray' = stray \cup {<<d, e.conn>>}
      PROVE  Good
  <2>1. Entries(d) \subseteq Entry
    BY EntriesFacts
  <2>2. e \in Entry /\ e.body = None
    <3>1. CASE e = Users
      BY <3>1 DEF Users, Entry
    <3>2. CASE e # Users
      <4>1. PICK c \in Conn, o \in {Self, Other}, s \in BOOLEAN :
                e = [conn |-> c, owner |-> o, sound |-> s, body |-> None]
        BY <3>2 DEF Alien
      <4> QED BY <4>1 DEF Entry
    <3> QED BY <3>1, <3>2
  <2> DEFINE text == Entries(d) \cup {e}
  <2>3. /\ text \in SUBSET Entry /\ docs' = [docs EXCEPT ![d] = text]
        /\ \A x : x # e => (x \in text <=> x \in Entries(d))
    BY <1>7, <2>1, <2>2
  <2> HIDE DEF text, Good
  <2> QED BY <1>5, <1>7, <2>2, <2>3
<1>8. ASSUME NEW d \in Document, NEW text \in {Missing, Bad},
             docs' = [docs EXCEPT ![d] = text], stray' = stray \cup ({d} \X Conn)
      PROVE  Good
  <2>1. /\ docs' \in [Document -> Text] /\ docs'[d] = text
        /\ \A b \in Document \ {d} : docs'[b] = docs[b]
    BY <1>3, <1>8 DEF Text
  <2>2. stray \subseteq stray' /\ stray' \subseteq Resource \X (Conn \cup {None})
    BY <1>3, <1>8
  <2>3. EntriesIn(text) = {}
    BY TextFacts
  <2>4. ASSUME NEW b \in Document, NEW c \in Conn, <<b, c>> \notin stray'
        PROVE  /\ docs'[b] = Bad => docs[b] = Bad
               /\ {e \in EntriesIn(docs'[b]) : e.conn = c} = Claimed(b, c)
    <3>1. b # d
      BY <1>8, <2>4
    <3> QED BY <1>4, <2>1, <3>1
  <2>5. ASSUME NEW e \in EntriesIn(docs'[Byok]) PROVE e \in Entries(Byok) \/ e.body = None
    <3>1. d # Byok
      BY <2>1, <2>3, <2>5
    <3> QED BY <1>3, <2>1, <2>5, <3>1, EntriesFacts
  <2> QED BY <2>1, <2>2, <2>4, <2>5
<1>9. Good
  <2> HIDE DEF Good
  <2> QED BY <1>6, <1>7, <1>8 DEF EditDocument
<1> QED BY <1>1, <1>2, <1>9

\* An edit of the shell profile or the environment that is the user's own line changes
\* nothing of the application's; any other concerns all connections.
LEMMA EditCliFacts ==
    ASSUME DocsTypeInv, EditCli
    PROVE  /\ env' \in EnvText /\ rc' \in Seq(RcLine) /\ stray \subseteq stray'
           /\ stray' \subseteq stray \cup ({Cli} \X Conn)
           /\ conns' = conns /\ proofs' = proofs /\ records' = records /\ gone' = gone
           /\ client' = client /\ registry' = registry /\ docs' = docs /\ backup' = backup
           /\ detached' = detached
           /\ left' \in [{"all", "plan", "change", "edit", "move", "fail"} -> Nat]
           /\ left'.edit # left.edit
           /\ \/ {Cli} \X Conn \subseteq stray'
              \/ env' = env /\ \E n \in 0..Len(rc) : rc' = InsertAt(rc, n + 1, Plain("user"))
<1>1. /\ left' \in [{"all", "plan", "change", "edit", "move", "fail"} -> Nat]
      /\ left'.edit # left.edit
  <2>1. Take("edit")
    BY DEF EditCli
  <2> QED BY <2>1, TakeFacts DEF Kind
<1>2. /\ conns' = conns /\ proofs' = proofs /\ records' = records /\ gone' = gone
      /\ client' = client /\ registry' = registry /\ docs' = docs /\ backup' = backup
      /\ detached' = detached
  BY DEF EditCli, clients
<1>3. rc \in Seq(RcLine) /\ env \in EnvText
  BY DEF DocsTypeInv
<1>4. Plain("user") \in RcLine /\ Plain("start") \in RcLine /\ Plain("end") \in RcLine
  BY DEF Plain, Line, RcLine
<1> DEFINE Disturbs == stray' = stray \cup ({Cli} \X Conn)
<1>5. CASE \E n \in 0..Len(rc) : /\ rc' = InsertAt(rc, n + 1, Plain("user"))
                                 /\ UNCHANGED <<env, stray>>
  <2>1. rc' \in Seq(RcLine)
    BY <1>3, <1>4, <1>5, InsertFacts
  <2> QED BY <1>1, <1>2, <1>3, <1>5, <2>1
<1>6. CASE \E n \in 1..Len(rc) : rc' = RemoveAt(rc, n) /\ UNCHANGED env /\ Disturbs
  <2>1. rc' \in Seq(RcLine)
    BY <1>3, <1>6, RemoveFacts
  <2> QED BY <1>1, <1>2, <1>3, <1>6, <2>1
<1>7. CASE \E n \in 0..Len(rc), kind \in {"start", "end"} :
              rc' = InsertAt(rc, n + 1, Plain(kind)) /\ UNCHANGED env /\ Disturbs
  <2>1. rc' \in Seq(RcLine)
    <3>1. PICK n \in 0..Len(rc), kind \in {"start", "end"} :
              rc' = InsertAt(rc, n + 1, Plain(kind))
      BY <1>7
    <3>2. Plain(kind) \in RcLine
      BY <1>4, <3>1
    <3> QED BY <1>3, <3>1, <3>2, InsertFacts
  <2> QED BY <1>1, <1>2, <1>3, <1>7, <2>1
<1>8. CASE env' \in {None, Foreign} /\ UNCHANGED rc /\ Disturbs
  BY <1>1, <1>2, <1>3, <1>8 DEF EnvText
<1>9. CASE \E c \in Conn : /\ IsReplaceable /\ rc' = Replaced(Block(Other, c))
                           /\ env' = [owner |-> Other, conn |-> c, body |-> None]
                           /\ Disturbs
  <2>1. PICK c \in Conn : /\ IsReplaceable /\ rc' = Replaced(Block(Other, c))
                          /\ env' = [owner |-> Other, conn |-> c, body |-> None]
                          /\ Disturbs
    BY <1>9
  <2>2. rc' \in Seq(RcLine) /\ env' \in EnvText
    BY <2>1, ActivateFacts, EnvFacts DEF EnvText
  <2> QED BY <1>1, <1>2, <2>1, <2>2
<1> QED BY <1>5, <1>6, <1>7, <1>8, <1>9 DEF EditCli

\* A publication that fails only leaves its records.
LEMMA PublishFailsFacts ==
    ASSUME DocsTypeInv, NEW c \in Conn, NEW ts \in Request, PublishFails(c, ts)
    PROVE  /\ RecordAll(c, ts, SupportedOf(ts, c), "failed")
           /\ conns' = conns /\ proofs' = proofs /\ gone' = gone /\ client' = client
           /\ registry' = registry /\ docs' = docs /\ backup' = backup /\ env' = env
           /\ rc' = rc /\ stray' = stray /\ detached' = detached
           /\ left' \in [{"all", "plan", "change", "edit", "move", "fail"} -> Nat]
<1>1. Take("fail")
  BY DEF PublishFails
<1>2. left' \in [{"all", "plan", "change", "edit", "move", "fail"} -> Nat]
  BY <1>1, TakeFacts DEF Kind
<1> QED BY <1>2 DEF PublishFails, clients, written, marks

\* A change of a connection is of one that was not deleted.
LEMMA UpsertFacts ==
    ASSUME DocsTypeInv, NEW c \in Conn, NEW b \in Usual, Upsert(c, b)
    PROVE  /\ conns' \in [Conn -> Body \cup {None}] /\ c \notin gone
           /\ \A k \in Conn : conns'[k] = IF k = c THEN b ELSE conns[k]
           /\ b \in Body /\ b # None
           /\ proofs' = proofs /\ records' = records /\ gone' = gone /\ client' = client
           /\ registry' = registry /\ docs' = docs /\ backup' = backup /\ env' = env
           /\ rc' = rc /\ stray' = stray /\ detached' = detached
           /\ left' \in [{"all", "plan", "change", "edit", "move", "fail"} -> Nat]
<1>1. Take("change")
  BY DEF Upsert
<1>2. left' \in [{"all", "plan", "change", "edit", "move", "fail"} -> Nat]
  BY <1>1, TakeFacts DEF Kind
<1>3. b \in Body /\ b # None
  BY BodyAssumption
<1>4. conns \in [Conn -> Body \cup {None}] /\ conns' = [conns EXCEPT ![c] = b]
  BY DEF Upsert, DocsTypeInv
<1> QED BY <1>2, <1>3, <1>4 DEF Upsert, clients, written, marks

\* What is installed changes on its own.
LEMMA ClientChangesFacts ==
    ASSUME DocsTypeInv, ClientChanges
    PROVE  /\ client' \in [Target -> Client]
           /\ conns' = conns /\ proofs' = proofs /\ records' = records /\ gone' = gone
           /\ registry' = registry /\ docs' = docs /\ backup' = backup /\ env' = env
           /\ rc' = rc /\ stray' = stray /\ detached' = detached
           /\ left' \in [{"all", "plan", "change", "edit", "move", "fail"} -> Nat]
<1>1. Take("move")
  BY DEF ClientChanges
<1>2. left' \in [{"all", "plan", "change", "edit", "move", "fail"} -> Nat]
  BY <1>1, TakeFacts DEF Kind
<1>3. client \in [Target -> Client]
  BY DEF DocsTypeInv
<1>4. client' \in [Target -> Client]
  <2>1. \A t \in Target, x \in Client : [client EXCEPT ![t] = x] \in [Target -> Client]
    BY <1>3
  <2>2. \E t \in Target, x \in Client : client' = [client EXCEPT ![t] = x]
    BY DEF ClientChanges, Client, Target, VsCode
  <2> QED BY <2>1, <2>2
<1> QED BY <1>2, <1>4 DEF ClientChanges, written, marks

\* So does what takes precedence over the environment.
LEMMA RegistryChangesFacts ==
    ASSUME DocsTypeInv, RegistryChanges
    PROVE  /\ registry' \in BOOLEAN
           /\ conns' = conns /\ proofs' = proofs /\ records' = records /\ gone' = gone
           /\ client' = client /\ docs' = docs /\ backup' = backup /\ env' = env
           /\ rc' = rc /\ stray' = stray /\ detached' = detached
           /\ left' \in [{"all", "plan", "change", "edit", "move", "fail"} -> Nat]
<1>1. Take("move")
  BY DEF RegistryChanges
<1>2. left' \in [{"all", "plan", "change", "edit", "move", "fail"} -> Nat]
  BY <1>1, TakeFacts DEF Kind
<1> QED BY <1>2 DEF RegistryChanges, written, marks, DocsTypeInv

\* What documents have for a connection after a step.
LEMMA NextEntries ==
    \A d : /\ Entries(d)' = EntriesIn(docs'[d])
           /\ \A k : Claimed(d, k)' = {e \in EntriesIn(docs'[d]) : e.conn = k}
BY DEF Entries, Claimed, IsReadable, EntriesIn

\* After a publication the documents have its connection, and of others what they had.
LEMMA PublishClaims ==
    ASSUME DocsTypeInv, NEW c \in Conn, NEW ts \in Request, Publish(c, ts),
           NEW d \in Document
    PROVE  LET R == ResourcesOf(SupportedOf(ts, c)) IN
           /\ docs'[d] = Bad => docs[d] = Bad
           /\ \A k \in Conn : (d \notin R \/ k # c) => Claimed(d, k)' = Claimed(d, k)
           /\ d \in R => Claimed(d, c)' = IF IsRendered(d, c) THEN {EntryOf(c, conns[c])} ELSE {}
<1> DEFINE R == ResourcesOf(SupportedOf(ts, c))
<1>1. /\ conns[c] # None
      /\ d \notin R => docs'[d] = docs[d]
      /\ d \in R => docs'[d] # Bad /\ EntriesIn(docs'[d]) = Rendered(d, c, FALSE)
  BY PublishFacts
<1>2. \A k : Claimed(d, k)' = {e \in EntriesIn(docs'[d]) : e.conn = k}
  BY NextEntries
<1>3. \A k : Claimed(d, k) = {e \in EntriesIn(docs[d]) : e.conn = k}
  BY EntriesFacts DEF Claimed
<1>4. /\ \A k : k # c => {e \in Rendered(d, c, FALSE) : e.conn = k} = Claimed(d, k)
      /\ {e \in Rendered(d, c, FALSE) : e.conn = c}
            = IF FALSE \/ ~IsRendered(d, c) THEN {} ELSE {EntryOf(c, conns[c])}
  BY <1>1, RenderedFacts
<1> HIDE DEF R
<1>5. CASE d \notin R
  BY <1>1, <1>2, <1>3, <1>5 DEF R
<1>6. CASE d \in R
  BY <1>1, <1>2, <1>4, <1>6 DEF R
<1> QED BY <1>5, <1>6

\* After a revocation they have nothing of its connection.
LEMMA RevokeClaims ==
    ASSUME DocsTypeInv, NEW c \in Conn, Revoke(c), NEW d \in Document
    PROVE  LET R == ResourcesOf(ProvenTargets(c)) IN
           /\ docs'[d] = Bad => docs[d] = Bad
           /\ \A k \in Conn : (d \notin R \/ k # c) => Claimed(d, k)' = Claimed(d, k)
           /\ d \in R => Claimed(d, c)' = {}
<1> DEFINE R == ResourcesOf(ProvenTargets(c))
<1>1. /\ conns[c] # None
      /\ d \notin R => docs'[d] = docs[d]
      /\ d \in R => docs'[d] # Bad /\ EntriesIn(docs'[d]) = Rendered(d, c, TRUE)
  BY RevokeFacts
<1>2. \A k : Claimed(d, k)' = {e \in EntriesIn(docs'[d]) : e.conn = k}
  BY NextEntries
<1>3. \A k : Claimed(d, k) = {e \in EntriesIn(docs[d]) : e.conn = k}
  BY EntriesFacts DEF Claimed
<1>4. /\ \A k : k # c => {e \in Rendered(d, c, TRUE) : e.conn = k} = Claimed(d, k)
      /\ {e \in Rendered(d, c, TRUE) : e.conn = c}
            = IF TRUE \/ ~IsRendered(d, c) THEN {} ELSE {EntryOf(c, conns[c])}
  BY <1>1, RenderedFacts
<1> HIDE DEF R
<1>5. CASE d \notin R
  BY <1>1, <1>2, <1>3, <1>5 DEF R
<1>6. CASE d \in R
  BY <1>1, <1>2, <1>4, <1>6 DEF R
<1> QED BY <1>5, <1>6

-----------------------------------------------------------------------------
(***************************************************************************)
(* Every step keeps each part of the invariant.                            *)
(***************************************************************************)
\* The types.
LEMMA DocsTypeStep ==
    ASSUME DocsInv, CNext
    PROVE  DocsTypeInv'
<1> USE DEF DocsInv
<1>1. /\ Conn # {} /\ conns \in [Conn -> Body \cup {None}]
      /\ proofs \subseteq Binding /\ records \in [Target -> Seq(Result)]
      /\ client \in [Target -> Client] /\ registry \in BOOLEAN
      /\ docs \in [Document -> Text] /\ backup \subseteq Document
      /\ env \in EnvText /\ rc \in Seq(RcLine)
      /\ stray \subseteq Resource \X (Conn \cup {None})
  BY DEF DocsTypeInv
<1>2. \A k \in Conn : [conns EXCEPT ![k] = None] \in [Conn -> Body \cup {None}]
  BY <1>1
<1>3. ASSUME NEW c \in Conn, NEW ts \in Request, Publish(c, ts) PROVE DocsTypeInv'
  <2> DEFINE S == SupportedOf(ts, c)
  <2>1. /\ conns[c] \in Body /\ docs' \in [Document -> Text] /\ backup' \subseteq Document
        /\ Cli \notin S => env' = env /\ rc' = rc
        /\ Cli \in S => IsReplaceable /\ ActivateRoute(c)
        /\ proofs' = ProofsAfter(ts, c) /\ RecordAll(c, ts, S, "applied")
        /\ conns' = conns /\ client' = client /\ registry' = registry /\ stray' = stray
        /\ left' \in [{"all", "plan", "change", "edit", "move", "fail"} -> Nat]
    BY <1>3, PublishFacts
  <2>2. S \in SUBSET Target /\ \A t \in S : t # App
    BY SupportedFacts
  <2>3. env' \in EnvText /\ rc' \in Seq(RcLine)
    <3>1. CASE Cli \notin S
      BY <1>1, <2>1, <3>1
    <3>2. CASE Cli \in S
      <4>1. /\ rc' = Replaced(Block(Self, c))
            /\ env' = [owner |-> Self, conn |-> c, body |-> conns[c]]
        BY <2>1, <3>2 DEF ActivateRoute, Environment
      <4>2. rc' \in Seq(RcLine)
        BY <2>1, <3>2, <4>1, ActivateFacts
      <4>3. env' \in RouteOf
        BY <2>1, <4>1, EnvFacts
      <4> QED BY <4>2, <4>3 DEF EnvText
    <3> QED BY <3>1, <3>2
  <2>4. proofs' \subseteq Binding
    <3>1. ASSUME NEW t \in S PROVE ProofOf(t, c) \in Binding
      <4>1. t \in Target /\ t # App
        BY <2>2
      <4>2. /\ t \in VsCode => ResourceOf(t) \in VsCode
            /\ t \in Ide => ResourceOf(t) = Byok
            /\ t = Cli => ResourceOf(t) = Cli
            /\ ResourceOf(t) \in Resource
        BY <4>1, ResourceFacts
      <4> QED BY <4>1, <4>2 DEF Binding, ProofOf
    <3>2. \A p \in ProofsAfter(ts, c) : p \in proofs \/ \E t \in S : p = ProofOf(t, c)
      BY ProofsAfterFacts
    <3> HIDE DEF S
    <3> QED BY <1>1, <2>1, <3>1, <3>2
  <2>5. records' \in [Target -> Seq(Result)]
    <3>1. registry' \in BOOLEAN
      BY <1>1, <2>1
    <3> HIDE DEF S
    <3> QED BY <2>1, <2>2, <2>3, <3>1, RecordAllFacts
  <2> QED BY <1>1, <2>1, <2>3, <2>4, <2>5 DEF DocsTypeInv
<1>4. ASSUME NEW c \in Conn, NEW ts \in Request, PublishFails(c, ts) PROVE DocsTypeInv'
  <2> DEFINE S == SupportedOf(ts, c)
  <2>1. /\ RecordAll(c, ts, S, "failed")
        /\ conns' = conns /\ proofs' = proofs /\ client' = client
        /\ registry' = registry /\ docs' = docs /\ backup' = backup /\ env' = env
        /\ rc' = rc /\ stray' = stray
        /\ left' \in [{"all", "plan", "change", "edit", "move", "fail"} -> Nat]
    BY <1>4, PublishFailsFacts
  <2>2. S \in SUBSET Target /\ \A t \in S : t # App
    BY SupportedFacts
  <2>3. records' \in [Target -> Seq(Result)]
    <3>1. /\ docs' \in [Document -> Text] /\ env' \in EnvText /\ rc' \in Seq(RcLine)
          /\ registry' \in BOOLEAN
      BY <1>1, <2>1
    <3> HIDE DEF S
    <3> QED BY <2>1, <2>2, <3>1, RecordAllFacts
  <2> QED BY <1>1, <2>1, <2>3 DEF DocsTypeInv
<1>5. ASSUME NEW c \in Conn, NEW b \in Usual, Upsert(c, b) PROVE DocsTypeInv'
  BY <1>1, <1>5, UpsertFacts DEF DocsTypeInv
<1>6. ASSUME NEW c \in Conn, Revoke(c) PROVE DocsTypeInv'
  <2> DEFINE T == ProvenTargets(c)
  <2>1. /\ conns' = [conns EXCEPT ![c] = None]
        /\ docs' \in [Document -> Text] /\ backup' \subseteq Document
        /\ Cli \notin T => env' = env /\ rc' = rc
        /\ Cli \in T => IsRemovable /\ RemoveRoute
        /\ proofs' = {p \in proofs : p.conn # c} /\ ForgetRecords(c)
        /\ client' = client /\ registry' = registry /\ stray' = stray
        /\ left' \in [{"all", "plan", "change", "edit", "move", "fail"} -> Nat]
    BY <1>6, RevokeFacts
  <2> HIDE DEF T
  <2>2. env' \in EnvText /\ rc' \in Seq(RcLine)
    <3>1. CASE Cli \notin T
      BY <1>1, <2>1, <3>1
    <3>2. CASE Cli \in T
      BY <2>1, <3>2, RemoveRouteFacts DEF EnvText
    <3> QED BY <3>1, <3>2
  <2>3. records' \in [Target -> Seq(Result)]
    BY <2>1, ForgetFacts
  <2> QED BY <1>1, <1>2, <2>1, <2>2, <2>3 DEF DocsTypeInv
<1>7. ASSUME NEW c \in Conn, Detach(c) PROVE DocsTypeInv'
  <2>1. records' \in [Target -> Seq(Result)]
    BY <1>7, DetachFacts, ForgetFacts
  <2> QED BY <1>1, <1>2, <1>7, <2>1, DetachFacts DEF DocsTypeInv
<1>8. CASE ClientChanges
  BY <1>1, <1>8, ClientChangesFacts DEF DocsTypeInv
<1>9. CASE RegistryChanges
  BY <1>1, <1>9, RegistryChangesFacts DEF DocsTypeInv
<1>10. CASE EditDocument
  BY <1>1, <1>10, EditFacts DEF DocsTypeInv
<1>11. CASE EditCli
  <2>1. stray' \subseteq Resource \X (Conn \cup {None})
    BY <1>1, <1>11, EditCliFacts DEF Resource
  <2> QED BY <1>1, <1>11, <2>1, EditCliFacts DEF DocsTypeInv
<1> QED BY <1>3, <1>4, <1>5, <1>6, <1>7, <1>8, <1>9, <1>10, <1>11 DEF CNext

\* Proofs are of connections that are there, and what was deleted stays so.
LEMMA ProofsStep ==
    ASSUME DocsInv, CNext
    PROVE  ProofInv' /\ GoneInv'
<1> USE DEF DocsInv
<1>1. /\ conns \in [Conn -> Body \cup {None}] /\ proofs \subseteq Binding
      /\ \A p \in proofs : p.conn \in Conn
      /\ \A p \in proofs : conns[p.conn] # None
      /\ gone \subseteq Conn /\ detached \subseteq gone /\ \A c \in gone : conns[c] = None
  BY DEF DocsTypeInv, Binding, ProofInv, GoneInv
<1>2. ASSUME NEW c \in Conn, conns' = [conns EXCEPT ![c] = None], gone' = gone \cup {c},
             proofs' = {p \in proofs : p.conn # c}, detached' \subseteq detached \cup {c}
      PROVE  ProofInv' /\ GoneInv'
  <2>1. \A k \in Conn : conns'[k] = IF k = c THEN None ELSE conns[k]
    BY <1>1, <1>2
  <2> QED BY <1>1, <1>2, <2>1 DEF ProofInv, GoneInv
<1>3. ASSUME NEW c \in Conn, NEW ts \in Request, Publish(c, ts) PROVE ProofInv' /\ GoneInv'
  <2>1. /\ conns[c] # None /\ proofs' = ProofsAfter(ts, c)
        /\ conns' = conns /\ gone' = gone /\ detached' = detached
    BY <1>3, PublishFacts
  <2>2. \A p \in ProofsAfter(ts, c) : p \in proofs \/ p.conn = c
    BY ProofsAfterFacts DEF ProofOf
  <2> QED BY <1>1, <2>1, <2>2 DEF ProofInv, GoneInv
<1>4. ASSUME NEW c \in Conn, NEW ts \in Request, PublishFails(c, ts) PROVE ProofInv' /\ GoneInv'
  BY <1>1, <1>4, PublishFailsFacts DEF ProofInv, GoneInv
<1>5. ASSUME NEW c \in Conn, NEW b \in Usual, Upsert(c, b) PROVE ProofInv' /\ GoneInv'
  <2>1. /\ \A k \in Conn : conns'[k] = IF k = c THEN b ELSE conns[k]
        /\ c \notin gone /\ b # None /\ proofs' = proofs /\ gone' = gone /\ detached' = detached
    BY <1>5, UpsertFacts
  <2> QED BY <1>1, <2>1 DEF ProofInv, GoneInv
<1>6. ASSUME NEW c \in Conn, Revoke(c) PROVE ProofInv' /\ GoneInv'
  <2>1. /\ conns' = [conns EXCEPT ![c] = None] /\ gone' = gone \cup {c}
        /\ proofs' = {p \in proofs : p.conn # c} /\ detached' = detached
    BY <1>6, RevokeFacts
  <2> QED BY <1>2, <2>1
<1>7. ASSUME NEW c \in Conn, Detach(c) PROVE ProofInv' /\ GoneInv'
  <2>1. /\ conns' = [conns EXCEPT ![c] = None] /\ gone' = gone \cup {c}
        /\ proofs' = {p \in proofs : p.conn # c} /\ detached' = detached \cup {c}
    BY <1>7, DetachFacts
  <2> QED BY <1>2, <2>1
<1>8. CASE ClientChanges
  BY <1>1, <1>8, ClientChangesFacts DEF ProofInv, GoneInv
<1>9. CASE RegistryChanges
  BY <1>1, <1>9, RegistryChangesFacts DEF ProofInv, GoneInv
<1>10. CASE EditDocument
  BY <1>1, <1>10, EditFacts DEF ProofInv, GoneInv
<1>11. CASE EditCli
  BY <1>1, <1>11, EditCliFacts DEF ProofInv, GoneInv
<1> QED BY <1>3, <1>4, <1>5, <1>6, <1>7, <1>8, <1>9, <1>10, <1>11 DEF CNext

\* What nobody else touched stays one entry, as the application writes it.
LEMMA EntryStep ==
    ASSUME DocsInv, CNext
    PROVE  EntryInv'
<1> USE DEF DocsInv
<1> DEFINE Good(d, k) == /\ docs[d] # Bad
                         /\ \A e \in Claimed(d, k) : e.owner = Self /\ e.sound
                         /\ \A e, f \in Claimed(d, k) : e = f
<1>1. \A d \in Document, k \in Conn : <<d, k>> \notin stray => Good(d, k)
  BY DEF EntryInv, Undisturbed
<1>2. SUFFICES ASSUME NEW d \in Document, NEW k \in Conn, <<d, k>> \notin stray'
               PROVE  Good(d, k)'
  BY DEF EntryInv, Undisturbed
<1>3. ASSUME <<d, k>> \notin stray, docs'[d] = Bad => docs[d] = Bad,
             Claimed(d, k)' = Claimed(d, k)
      PROVE  Good(d, k)'
  BY <1>1, <1>3
<1>4. /\ \A q : Claimed(d, q)' = {e \in EntriesIn(docs'[d]) : e.conn = q}
      /\ \A q : Claimed(d, q) = {e \in EntriesIn(docs[d]) : e.conn = q}
  BY NextEntries, EntriesFacts DEF Claimed
<1>5. ASSUME docs' = docs, stray \subseteq stray' PROVE Good(d, k)'
  <2>1. <<d, k>> \notin stray /\ Claimed(d, k)' = Claimed(d, k) /\ docs'[d] = docs[d]
    BY <1>2, <1>4, <1>5
  <2> QED BY <1>3, <2>1
<1>6. ASSUME NEW c \in Conn, NEW ts \in Request, Publish(c, ts) PROVE Good(d, k)'
  <2> DEFINE R == ResourcesOf(SupportedOf(ts, c))
  <2>1. stray' = stray
    BY <1>6, PublishFacts
  <2>2. /\ docs'[d] = Bad => docs[d] = Bad
        /\ \A q \in Conn : (d \notin R \/ q # c) => Claimed(d, q)' = Claimed(d, q)
        /\ d \in R => Claimed(d, c)' = IF IsRendered(d, c) THEN {EntryOf(c, conns[c])} ELSE {}
    BY <1>6, PublishClaims
  <2>3. CASE d \notin R \/ k # c
    BY <1>2, <1>3, <2>1, <2>2, <2>3
  <2>4. CASE d \in R /\ k = c
    <3>1. docs'[d] # Bad
      BY <1>1, <1>2, <2>1, <2>2
    <3>2. EntryOf(c, conns[c]).owner = Self /\ EntryOf(c, conns[c]).sound
      BY DEF EntryOf
    <3> HIDE DEF R
    <3>3. Claimed(d, k)' \subseteq {EntryOf(c, conns[c])}
      BY <2>2, <2>4
    <3> QED BY <3>1, <3>2, <3>3
  <2> QED BY <2>3, <2>4
<1>7. ASSUME NEW c \in Conn, Revoke(c) PROVE Good(d, k)'
  <2> DEFINE R == ResourcesOf(ProvenTargets(c))
  <2>1. stray' = stray
    BY <1>7, RevokeFacts
  <2>2. /\ docs'[d] = Bad => docs[d] = Bad
        /\ \A q \in Conn : (d \notin R \/ q # c) => Claimed(d, q)' = Claimed(d, q)
        /\ d \in R => Claimed(d, c)' = {}
    BY <1>7, RevokeClaims
  <2>3. CASE d \notin R \/ k # c
    BY <1>2, <1>3, <2>1, <2>2, <2>3
  <2>4. CASE d \in R /\ k = c
    <3>1. docs'[d] # Bad
      BY <1>1, <1>2, <2>1, <2>2
    <3> HIDE DEF R
    <3>2. Claimed(d, k)' = {}
      BY <2>2, <2>4
    <3> QED BY <3>1, <3>2
  <2> QED BY <2>3, <2>4
<1>8. CASE EditDocument
  <2>1. /\ stray \subseteq stray'
        /\ docs'[d] = Bad => docs[d] = Bad
        /\ {e \in EntriesIn(docs'[d]) : e.conn = k} = Claimed(d, k)
    BY <1>2, <1>8, EditFacts
  <2> QED BY <1>2, <1>3, <1>4, <2>1
<1>9. ASSUME NEW c \in Conn, NEW ts \in Request, PublishFails(c, ts) PROVE Good(d, k)'
  BY <1>5, <1>9, PublishFailsFacts
<1>10. ASSUME NEW c \in Conn, NEW b \in Usual, Upsert(c, b) PROVE Good(d, k)'
  BY <1>5, <1>10, UpsertFacts
<1>11. ASSUME NEW c \in Conn, Detach(c) PROVE Good(d, k)'
  BY <1>5, <1>11, DetachFacts
<1>12. CASE ClientChanges
  BY <1>5, <1>12, ClientChangesFacts
<1>13. CASE RegistryChanges
  BY <1>5, <1>13, RegistryChangesFacts
<1>14. CASE EditCli
  BY <1>5, <1>14, EditCliFacts
<1> QED BY <1>6, <1>7, <1>8, <1>9, <1>10, <1>11, <1>12, <1>13, <1>14 DEF CNext

\* The proofs of a connection at a resource are changed by its own operations only, or
\* where a route replaces another.
LEMMA PublishBound ==
    ASSUME DocsTypeInv, NEW c \in Conn, NEW ts \in Request, Publish(c, ts),
           NEW k \in Conn, NEW r \in Resource, r \notin ResourcesOf(SupportedOf(ts, c)) \/ k # c,
           r = Cli => Cli \notin SupportedOf(ts, c)
    PROVE  IsBound(k, r)' <=> IsBound(k, r)
<1> DEFINE S == SupportedOf(ts, c)
<1>1. proofs' = ProofsAfter(ts, c)
  BY PublishFacts
<1>2. S \in SUBSET Target /\ \A t \in S : t # App
  BY SupportedFacts
<1>3. /\ \A p \in ProofsAfter(ts, c) : p \in proofs \/ \E t \in S : p = ProofOf(t, c)
      /\ \A p \in proofs : (\A t \in S : ~Supersedes(t, c, p)) => p \in ProofsAfter(ts, c)
  BY ProofsAfterFacts
<1> HIDE DEF S
<1>4. ASSUME NEW p \in proofs, p.conn = k, p.res = r, NEW t \in S, Supersedes(t, c, p)
      PROVE  FALSE
  <2>1. r = ResourceOf(t) /\ (t = Cli \/ k = c)
    BY <1>4 DEF Supersedes
  <2>2. r \in ResourcesOf(S)
    BY <2>1 DEF ResourcesOf
  <2>3. t = Cli /\ r = Cli
    BY <1>2, <2>1, <2>2, ResourceFacts DEF S
  <2> QED BY <1>4, <2>3 DEF S
<1>5. ASSUME NEW t \in S, ProofOf(t, c).conn = k, ProofOf(t, c).res = r PROVE FALSE
  <2>1. k = c /\ r = ResourceOf(t)
    BY <1>5 DEF ProofOf
  <2> QED BY <2>1 DEF ResourcesOf, S
<1>6. IsBound(k, r)' <=> \E p \in ProofsAfter(ts, c) : p.conn = k /\ p.res = r
  BY <1>1 DEF IsBound
<1>7. ASSUME IsBound(k, r) PROVE IsBound(k, r)'
  <2>1. PICK p \in proofs : p.conn = k /\ p.res = r
    BY <1>7 DEF IsBound
  <2>2. \A t \in S : ~Supersedes(t, c, p)
    BY <1>4, <2>1
  <2> QED BY <1>3, <1>6, <2>1, <2>2
<1>8. ASSUME IsBound(k, r)' PROVE IsBound(k, r)
  <2>1. PICK p \in ProofsAfter(ts, c) : p.conn = k /\ p.res = r
    BY <1>6, <1>8
  <2>2. p \in proofs
    BY <1>3, <1>5, <2>1
  <2> QED BY <2>1, <2>2 DEF IsBound
<1> QED BY <1>7, <1>8

\* Where the connection is published to, it has a proof exactly if it has an entry.
LEMMA PublishBinds ==
    ASSUME DocsTypeInv, NEW c \in Conn, NEW ts \in Request, Publish(c, ts),
           NEW r \in ResourcesOf(SupportedOf(ts, c)), r \in Resource
    PROVE  /\ r \in Document => (IsBound(c, r)' <=> IsRendered(r, c))
           /\ r = Cli => IsBound(c, r)'
<1> DEFINE S == SupportedOf(ts, c)
<1>1. proofs' = ProofsAfter(ts, c)
  BY PublishFacts
<1>2. S \in SUBSET Target /\ \A t \in S : t # App
  BY SupportedFacts
<1>3. /\ \A p \in ProofsAfter(ts, c) :
            \/ p \in proofs /\ \A t \in S : ~Supersedes(t, c, p)
            \/ \E t \in S : p = ProofOf(t, c) /\ IsProven(t, c)
      /\ (\A t \in S : ResourceOf(t) = r => IsProven(t, c))
            => \E p \in ProofsAfter(ts, c) : p.conn = c /\ p.res = r
  BY ProofsAfterFacts
<1>4. IsBound(c, r)' <=> \E p \in ProofsAfter(ts, c) : p.conn = c /\ p.res = r
  BY <1>1 DEF IsBound
<1>5. PICK u \in S : ResourceOf(u) = r
  BY DEF ResourcesOf
<1> HIDE DEF S
<1>6. ASSUME r \in Document, IsRendered(r, c) PROVE IsBound(c, r)'
  <2>1. \A t \in S : ResourceOf(t) = r => IsProven(t, c)
    BY <1>6 DEF IsProven
  <2> QED BY <1>3, <1>4, <2>1
<1>7. ASSUME r = Cli PROVE IsBound(c, r)'
  <2>1. ASSUME NEW t \in S, ResourceOf(t) = r PROVE IsProven(t, c)
    BY <1>2, <1>7, <2>1, ResourceFacts DEF IsProven
  <2> QED BY <1>3, <1>4, <2>1
<1>8. ASSUME r \in Document, ~IsRendered(r, c), IsBound(c, r)' PROVE FALSE
  <2>1. r # Byok
    BY <1>8 DEF IsRendered
  <2>2. ASSUME NEW t \in S, ResourceOf(t) = r PROVE t \in VsCode /\ t \notin Ide
    BY <1>2, <1>8, <2>1, <2>2, ResourceFacts
  <2>3. PICK p \in ProofsAfter(ts, c) : p.conn = c /\ p.res = r
    BY <1>4, <1>8
  <2>4. CASE p \in proofs /\ \A t \in S : ~Supersedes(t, c, p)
    <3>1. Supersedes(u, c, p)
      BY <1>5, <2>2, <2>3 DEF Supersedes
    <3> QED BY <1>5, <2>4, <3>1
  <2>5. CASE \E t \in S : p = ProofOf(t, c) /\ IsProven(t, c)
    <3>1. PICK t \in S : p = ProofOf(t, c) /\ IsProven(t, c)
      BY <2>5
    <3>2. ResourceOf(t) = r
      BY <2>3, <3>1 DEF ProofOf
    <3> QED BY <1>8, <2>2, <3>1, <3>2 DEF IsProven
  <2> QED BY <1>3, <2>3, <2>4, <2>5
<1> QED BY <1>6, <1>7, <1>8

\* The proofs of other connections survive a deletion, and those of the connection do not.
LEMMA ForgottenBound ==
    ASSUME NEW c, proofs' = {p \in proofs : p.conn # c}
    PROVE  \A k, r : IsBound(k, r)' <=> k # c /\ IsBound(k, r)
BY DEF IsBound

\* A document has an entry exactly if there is a proof of it, if nobody else touched it.
LEMMA DocProofStep ==
    ASSUME DocsInv, CNext
    PROVE  DocProofInv'
<1> USE DEF DocsInv
<1>1. \A k \in Conn \ detached, d \in Document :
          <<d, k>> \notin stray => (IsBound(k, d) <=> Claimed(d, k) # {})
  BY DEF DocProofInv, Undisturbed
<1>2. SUFFICES ASSUME NEW k \in Conn, k \notin detached', NEW d \in Document,
                      <<d, k>> \notin stray'
               PROVE  IsBound(k, d)' <=> Claimed(d, k)' # {}
  BY DEF DocProofInv, Undisturbed
<1>3. ASSUME k \notin detached, <<d, k>> \notin stray,
             IsBound(k, d)' <=> IsBound(k, d), Claimed(d, k)' = Claimed(d, k)
      PROVE  IsBound(k, d)' <=> Claimed(d, k)' # {}
  BY <1>1, <1>3
<1>4. /\ \A q : Claimed(d, q)' = {e \in EntriesIn(docs'[d]) : e.conn = q}
      /\ \A q : Claimed(d, q) = {e \in EntriesIn(docs[d]) : e.conn = q}
  BY NextEntries, EntriesFacts DEF Claimed
<1>5. ASSUME docs' = docs, stray \subseteq stray', proofs' = proofs, detached' = detached
      PROVE  IsBound(k, d)' <=> Claimed(d, k)' # {}
  <2>1. /\ <<d, k>> \notin stray /\ k \notin detached
        /\ Claimed(d, k)' = Claimed(d, k) /\ docs'[d] = docs[d]
    BY <1>2, <1>4, <1>5
  <2>2. IsBound(k, d)' <=> IsBound(k, d)
    BY <1>5 DEF IsBound
  <2> QED BY <1>3, <2>1, <2>2
<1>6. d \in Resource /\ d # Cli
  BY ResourceFacts, TargetAssumption DEF Resource, Document
<1>7. ASSUME NEW c \in Conn, NEW ts \in Request, Publish(c, ts)
      PROVE  IsBound(k, d)' <=> Claimed(d, k)' # {}
  <2> DEFINE R == ResourcesOf(SupportedOf(ts, c))
  <2>1. stray' = stray /\ detached' = detached
    BY <1>7, PublishFacts
  <2>2. /\ \A q \in Conn : (d \notin R \/ q # c) => Claimed(d, q)' = Claimed(d, q)
        /\ d \in R => Claimed(d, c)' = IF IsRendered(d, c) THEN {EntryOf(c, conns[c])} ELSE {}
    BY <1>7, PublishClaims
  <2>3. CASE d \notin R \/ k # c
    <3>1. IsBound(k, d)' <=> IsBound(k, d)
      BY <1>6, <1>7, <2>3, PublishBound
    <3> QED BY <1>2, <1>3, <2>1, <2>2, <2>3, <3>1
  <2>4. CASE d \in R /\ k = c
    <3>1. IsBound(c, d)' <=> IsRendered(d, c)
      BY <1>6, <1>7, <2>4, PublishBinds
    <3> HIDE DEF R
    <3>2. Claimed(d, c)' # {} <=> IsRendered(d, c)
      BY <2>2, <2>4
    <3> QED BY <2>4, <3>1, <3>2
  <2> QED BY <2>3, <2>4
<1>8. ASSUME NEW c \in Conn, Revoke(c)
      PROVE  IsBound(k, d)' <=> Claimed(d, k)' # {}
  <2> DEFINE R == ResourcesOf(ProvenTargets(c))
  <2>1. /\ stray' = stray /\ detached' = detached /\ proofs' = {p \in proofs : p.conn # c}
        /\ \A p \in proofs : p.conn = c => p.res \in R
    BY <1>8, RevokeFacts
  <2>2. /\ \A q \in Conn : (d \notin R \/ q # c) => Claimed(d, q)' = Claimed(d, q)
        /\ d \in R => Claimed(d, c)' = {}
    BY <1>8, RevokeClaims
  <2>3. IsBound(k, d)' <=> k # c /\ IsBound(k, d)
    BY <2>1, ForgottenBound
  <2>4. CASE k # c
    BY <1>2, <1>3, <2>1, <2>2, <2>3, <2>4
  <2>5. CASE k = c /\ d \in R
    BY <2>2, <2>3, <2>5
  <2>6. CASE k = c /\ d \notin R
    <3> HIDE DEF R
    <3>1. ~IsBound(c, d)
      BY <2>1, <2>6 DEF IsBound
    <3>2. Claimed(d, c) = {}
      BY <1>1, <1>2, <2>1, <2>6, <3>1
    <3> QED BY <2>2, <2>3, <2>6, <3>2
  <2> QED BY <2>4, <2>5, <2>6
<1>9. ASSUME NEW c \in Conn, Detach(c)
      PROVE  IsBound(k, d)' <=> Claimed(d, k)' # {}
  <2>1. /\ stray' = stray /\ detached' = detached \cup {c} /\ docs' = docs
        /\ proofs' = {p \in proofs : p.conn # c}
    BY <1>9, DetachFacts
  <2>2. IsBound(k, d)' <=> k # c /\ IsBound(k, d)
    BY <2>1, ForgottenBound
  <2>3. k # c /\ k \notin detached
    BY <1>2, <2>1
  <2>4. Claimed(d, k)' = Claimed(d, k)
    BY <1>4, <2>1
  <2> QED BY <1>2, <1>3, <2>1, <2>2, <2>3, <2>4
<1>10. CASE EditDocument
  <2>1. /\ stray \subseteq stray' /\ proofs' = proofs /\ detached' = detached
        /\ {e \in EntriesIn(docs'[d]) : e.conn = k} = Claimed(d, k)
    BY <1>2, <1>10, EditFacts
  <2>2. IsBound(k, d)' <=> IsBound(k, d)
    BY <2>1 DEF IsBound
  <2> QED BY <1>2, <1>3, <1>4, <2>1, <2>2
<1>11. ASSUME NEW c \in Conn, NEW ts \in Request, PublishFails(c, ts)
       PROVE  IsBound(k, d)' <=> Claimed(d, k)' # {}
  BY <1>5, <1>11, PublishFailsFacts
<1>12. ASSUME NEW c \in Conn, NEW b \in Usual, Upsert(c, b)
       PROVE  IsBound(k, d)' <=> Claimed(d, k)' # {}
  BY <1>5, <1>12, UpsertFacts
<1>13. CASE ClientChanges
  BY <1>5, <1>13, ClientChangesFacts
<1>14. CASE RegistryChanges
  BY <1>5, <1>14, RegistryChangesFacts
<1>15. CASE EditCli
  BY <1>5, <1>15, EditCliFacts
<1> QED BY <1>7, <1>8, <1>9, <1>10, <1>11, <1>12, <1>13, <1>14, <1>15 DEF CNext

\* The route is there exactly if there is a proof of it, if nobody else touched it.
LEMMA RouteProofStep ==
    ASSUME DocsInv, CNext
    PROVE  RouteProofInv'
<1> USE DEF DocsInv
<1>1. \A k \in Conn \ detached : <<Cli, k>> \notin stray => (IsBound(k, Cli) <=> IsRoute(k))
  BY DEF RouteProofInv, Undisturbed
<1>2. SUFFICES ASSUME NEW k \in Conn, k \notin detached', <<Cli, k>> \notin stray'
               PROVE  IsBound(k, Cli)' <=> IsRoute(k)'
  BY DEF RouteProofInv, Undisturbed
<1>3. IsRoute(k)' <=> env' \notin {None, Foreign} /\ env'.owner = Self /\ env'.conn = k
  BY DEF IsRoute
<1>4. env' = env => (IsRoute(k)' <=> IsRoute(k))
  BY <1>3 DEF IsRoute
<1>5. ASSUME env' = env, stray \subseteq stray', proofs' = proofs, detached' = detached
      PROVE  IsBound(k, Cli)' <=> IsRoute(k)'
  <2>1. IsBound(k, Cli)' <=> IsBound(k, Cli)
    BY <1>5 DEF IsBound
  <2> QED BY <1>1, <1>2, <1>4, <1>5, <2>1
<1>6. Cli \in Resource
  BY DEF Resource
<1>7. ASSUME NEW c \in Conn, NEW ts \in Request, Publish(c, ts)
      PROVE  IsBound(k, Cli)' <=> IsRoute(k)'
  <2> DEFINE S == SupportedOf(ts, c)
  <2>1. /\ stray' = stray /\ detached' = detached /\ conns[c] \in Body
        /\ Cli \notin S => env' = env
        /\ Cli \in S => ActivateRoute(c)
        /\ proofs' = ProofsAfter(ts, c)
    BY <1>7, PublishFacts
  <2>2. S \in SUBSET Target /\ \A t \in S : t # App
    BY SupportedFacts
  <2>3. CASE Cli \notin S
    <3>1. Cli \notin ResourcesOf(S)
      <4> HIDE DEF S
      <4> QED BY <2>2, <2>3, ResourceFacts DEF ResourcesOf
    <3>2. IsBound(k, Cli)' <=> IsBound(k, Cli)
      BY <1>6, <1>7, <2>3, <3>1, PublishBound
    <3> QED BY <1>1, <1>2, <1>4, <2>1, <2>3, <3>2
  <2>4. CASE Cli \in S
    <3>1. env' = [owner |-> Self, conn |-> c, body |-> conns[c]]
      BY <2>1, <2>4 DEF ActivateRoute, Environment
    <3>2. env' \notin {None, Foreign}
      BY <2>1, <3>1, EnvFacts
    <3>3. IsRoute(k)' <=> k = c
      BY <1>3, <3>1, <3>2
    <3>4. ResourceOf(Cli) = Cli /\ Cli \notin Ide /\ Cli \notin VsCode
      BY ResourceFacts DEF Target
    <3>5. CASE k = c
      <4>1. Cli \in ResourcesOf(S)
        BY <2>4, <3>4 DEF ResourcesOf
      <4>2. IsBound(c, Cli)'
        BY <1>6, <1>7, <4>1, PublishBinds
      <4> QED BY <3>3, <3>5, <4>2
    <3>6. CASE k # c
      <4>1. ASSUME NEW p \in ProofsAfter(ts, c), p.conn = k, p.res = Cli PROVE FALSE
        <5>1. \/ \A t \in S : ~Supersedes(t, c, p)
              \/ \E t \in S : p = ProofOf(t, c)
          BY ProofsAfterFacts
        <5>2. Supersedes(Cli, c, p)
          BY <3>4, <4>1 DEF Supersedes
        <5>3. \A t : ProofOf(t, c).conn = c
          BY DEF ProofOf
        <5> HIDE DEF S
        <5> QED BY <2>4, <3>6, <4>1, <5>1, <5>2, <5>3
      <4>2. ~IsBound(k, Cli)'
        BY <2>1, <4>1 DEF IsBound
      <4> QED BY <3>3, <3>6, <4>2
    <3> QED BY <3>5, <3>6
  <2> QED BY <2>3, <2>4
<1>8. ASSUME NEW c \in Conn, Revoke(c)
      PROVE  IsBound(k, Cli)' <=> IsRoute(k)'
  <2> DEFINE T == ProvenTargets(c)
  <2>1. /\ stray' = stray /\ detached' = detached /\ proofs' = {p \in proofs : p.conn # c}
        /\ \A p \in proofs : p.conn = c => p.res \in ResourcesOf(T)
        /\ T \in SUBSET Target /\ \A t \in T : t # App
        /\ Cli \notin T => env' = env
        /\ Cli \in T => IsCurrentOwner(c) /\ RemoveRoute
    BY <1>8, RevokeFacts
  <2>2. IsBound(k, Cli)' <=> k # c /\ IsBound(k, Cli)
    BY <2>1, ForgottenBound
  <2>3. k \notin detached /\ <<Cli, k>> \notin stray
    BY <1>2, <2>1
  <2> HIDE DEF T
  <2>4. CASE Cli \in T
    <3>1. ~IsRoute(k)'
      BY <1>3, <2>1, <2>4 DEF RemoveRoute
    <3>2. k # c => ~IsRoute(k)
      BY <2>1, <2>4 DEF IsCurrentOwner, IsRoute
    <3> QED BY <1>1, <2>2, <2>3, <3>1, <3>2
  <2>5. CASE Cli \notin T
    <3>1. Cli \notin ResourcesOf(T)
      BY <2>1, <2>5, ResourceFacts DEF ResourcesOf
    <3>2. ~IsBound(c, Cli)
      BY <2>1, <3>1 DEF IsBound
    <3>3. IsRoute(k)' <=> IsRoute(k)
      BY <1>4, <2>1, <2>5
    <3> QED BY <1>1, <2>2, <2>3, <3>2, <3>3
  <2> QED BY <2>4, <2>5
<1>9. ASSUME NEW c \in Conn, Detach(c)
      PROVE  IsBound(k, Cli)' <=> IsRoute(k)'
  <2>1. /\ stray' = stray /\ detached' = detached \cup {c} /\ env' = env
        /\ proofs' = {p \in proofs : p.conn # c}
    BY <1>9, DetachFacts
  <2>2. IsBound(k, Cli)' <=> k # c /\ IsBound(k, Cli)
    BY <2>1, ForgottenBound
  <2>3. k # c /\ k \notin detached
    BY <1>2, <2>1
  <2> QED BY <1>1, <1>2, <1>4, <2>1, <2>2, <2>3
<1>10. CASE EditCli
  <2>1. /\ stray \subseteq stray' /\ proofs' = proofs /\ detached' = detached
        /\ {Cli} \X Conn \subseteq stray' \/ env' = env
    BY <1>10, EditCliFacts
  <2> QED BY <1>2, <1>5, <2>1
<1>11. ASSUME NEW c \in Conn, NEW ts \in Request, PublishFails(c, ts)
       PROVE  IsBound(k, Cli)' <=> IsRoute(k)'
  BY <1>5, <1>11, PublishFailsFacts
<1>12. ASSUME NEW c \in Conn, NEW b \in Usual, Upsert(c, b)
       PROVE  IsBound(k, Cli)' <=> IsRoute(k)'
  BY <1>5, <1>12, UpsertFacts
<1>13. CASE ClientChanges
  BY <1>5, <1>13, ClientChangesFacts
<1>14. CASE RegistryChanges
  BY <1>5, <1>14, RegistryChangesFacts
<1>15. CASE EditDocument
  BY <1>5, <1>15, EditFacts
<1> QED BY <1>7, <1>8, <1>9, <1>10, <1>11, <1>12, <1>13, <1>14, <1>15 DEF CNext

\* An entry that this application has in byok.json keeps the endpoint that was entered.
LEMMA EndpointStep ==
    ASSUME DocsInv, CNext
    PROVE  EndpointInv'
<1> USE DEF DocsInv
<1> DEFINE Good(e) == (e.owner = Self /\ e.body # None) => e.body \in Body /\ Faithful(e.body)
<1>1. \A e \in Entries(Byok) : Good(e)
  BY DEF EndpointInv
<1>2. SUFFICES ASSUME NEW e \in EntriesIn(docs'[Byok]) PROVE Good(e)
  BY NextEntries DEF EndpointInv
<1> HIDE DEF Good
<1>3. Byok \in Document /\ Entries(Byok) = EntriesIn(docs[Byok])
  BY EntriesFacts DEF Document
<1>4. ASSUME docs' = docs PROVE Good(e)
  BY <1>1, <1>2, <1>3, <1>4
<1>5. ASSUME NEW c \in Conn, NEW ts \in Request, Publish(c, ts) PROVE Good(e)
  <2> DEFINE S == SupportedOf(ts, c)
  <2>1. /\ conns[c] \in Body
        /\ Byok \notin ResourcesOf(S) => docs'[Byok] = docs[Byok]
        /\ Byok \in ResourcesOf(S) => EntriesIn(docs'[Byok]) = Rendered(Byok, c, FALSE)
    BY <1>3, <1>5, PublishFacts
  <2>2. S \in SUBSET Target /\ \A t \in S : t # App /\ (t \in Ide => Compatible(conns[c]))
    BY SupportedFacts
  <2> HIDE DEF S
  <2>3. CASE Byok \notin ResourcesOf(S)
    BY <1>1, <1>2, <1>3, <2>1, <2>3
  <2>4. CASE Byok \in ResourcesOf(S)
    <3>1. PICK t \in S : ResourceOf(t) = Byok
      BY <2>4 DEF ResourcesOf
    <3>2. t \in Ide
      BY <2>2, <3>1, ResourceFacts, TargetAssumption
    <3>3. Faithful(conns[c])
      BY <2>2, <3>2 DEF Compatible
    <3>4. \/ e \in Entries(Byok)
          \/ e = [conn |-> c, owner |-> Self, sound |-> TRUE, body |-> conns[c]]
      BY <1>2, <2>1, <2>4 DEF Rendered
    <3> QED BY <1>1, <2>1, <3>3, <3>4 DEF Good
  <2> QED BY <2>3, <2>4
<1>6. ASSUME NEW c \in Conn, Revoke(c) PROVE Good(e)
  <2> DEFINE R == ResourcesOf(ProvenTargets(c))
  <2>1. /\ Byok \notin R => docs'[Byok] = docs[Byok]
        /\ Byok \in R => EntriesIn(docs'[Byok]) = Rendered(Byok, c, TRUE)
    BY <1>3, <1>6, RevokeFacts
  <2>2. Rendered(Byok, c, TRUE) \subseteq Entries(Byok)
    BY DEF Rendered
  <2> HIDE DEF R
  <2> QED BY <1>1, <1>2, <1>3, <2>1, <2>2
<1>7. CASE EditDocument
  <2>1. e \in Entries(Byok) \/ e.body = None
    BY <1>2, <1>7, EditFacts
  <2> QED BY <1>1, <2>1 DEF Good
<1>8. ASSUME NEW c \in Conn, NEW ts \in Request, PublishFails(c, ts) PROVE Good(e)
  BY <1>4, <1>8, PublishFailsFacts
<1>9. ASSUME NEW c \in Conn, NEW b \in Usual, Upsert(c, b) PROVE Good(e)
  BY <1>4, <1>9, UpsertFacts
<1>10. ASSUME NEW c \in Conn, Detach(c) PROVE Good(e)
  BY <1>4, <1>10, DetachFacts
<1>11. CASE ClientChanges
  BY <1>4, <1>11, ClientChangesFacts
<1>12. CASE RegistryChanges
  BY <1>4, <1>12, RegistryChangesFacts
<1>13. CASE EditCli
  BY <1>4, <1>13, EditCliFacts
<1> QED BY <1>5, <1>6, <1>7, <1>8, <1>9, <1>10, <1>11, <1>12, <1>13 DEF CNext

\* A shell profile that nobody else touched keeps at most one block, that of the route.
LEMMA BlockStep ==
    ASSUME DocsInv, CNext
    PROVE  BlockInv'
<1> USE DEF DocsInv
<1> DEFINE Good(k) == /\ OneBlock(rc)
                      /\ IsRoute(k) => AtIn(rc, "start") = {} \/ IsMarked(rc, k)
<1>1. \A k \in Conn : <<Cli, k>> \notin stray => Good(k)
  BY DEF BlockInv, Undisturbed
<1>2. SUFFICES ASSUME NEW k \in Conn, <<Cli, k>> \notin stray' PROVE Good(k)'
  BY DEF BlockInv, Undisturbed
<1>3. /\ rc \in Seq(RcLine)
      /\ IsRoute(k)' <=> env' \notin {None, Foreign} /\ env'.owner = Self /\ env'.conn = k
      /\ OneBlock(rc)' <=> OneBlock(rc')
      /\ AtIn(rc, "start")' = AtIn(rc', "start") /\ (IsMarked(rc, k)' <=> IsMarked(rc', k))
  BY DEF IsRoute, DocsTypeInv, OneBlock, AtIn, IsMarked, Line
<1>4. env' = env => (IsRoute(k)' <=> IsRoute(k))
  BY <1>3 DEF IsRoute
<1>5. ASSUME env' = env, rc' = rc, stray \subseteq stray' PROVE Good(k)'
  <2>1. Good(k)
    BY <1>1, <1>2, <1>5
  <2> QED BY <1>3, <1>4, <1>5, <2>1
<1>6. ASSUME NEW c \in Conn, NEW ts \in Request, Publish(c, ts) PROVE Good(k)'
  <2> DEFINE S == SupportedOf(ts, c)
  <2>1. /\ stray' = stray /\ conns[c] \in Body
        /\ Cli \notin S => env' = env /\ rc' = rc
        /\ Cli \in S => IsReplaceable /\ ActivateRoute(c)
    BY <1>6, PublishFacts
  <2>2. CASE Cli \notin S
    BY <1>5, <2>1, <2>2
  <2>3. CASE Cli \in S
    <3>1. IsReplaceable /\ env' = Environment(c) /\ rc' = Replaced(Block(Self, c))
      BY <2>1, <2>3 DEF ActivateRoute
    <3>2. OneBlock(rc') /\ IsMarked(rc', c)
      BY <3>1, ActivateFacts
    <3>3. IsRoute(k)' => k = c
      BY <1>3, <3>1 DEF Environment
    <3> QED BY <1>3, <3>2, <3>3
  <2> QED BY <2>2, <2>3
<1>7. ASSUME NEW c \in Conn, Revoke(c) PROVE Good(k)'
  <2> DEFINE T == ProvenTargets(c)
  <2>1. /\ stray' = stray
        /\ Cli \notin T => env' = env /\ rc' = rc
        /\ Cli \in T => IsRemovable /\ RemoveRoute
    BY <1>7, RevokeFacts
  <2>2. CASE Cli \notin T
    BY <1>5, <2>1, <2>2
  <2>3. CASE Cli \in T
    <3>1. OneBlock(rc)
      BY <1>1, <1>2, <2>1
    <3>2. env' = None /\ OneBlock(rc')
      BY <2>1, <2>3, <3>1, RemoveRouteFacts
    <3> QED BY <1>3, <3>2
  <2> QED BY <2>2, <2>3
<1>8. CASE EditCli
  <2>1. /\ stray \subseteq stray'
        /\ \/ {Cli} \X Conn \subseteq stray'
           \/ env' = env /\ \E n \in 0..Len(rc) : rc' = InsertAt(rc, n + 1, Plain("user"))
    BY <1>8, EditCliFacts
  <2>2. PICK n \in 0..Len(rc) : env' = env /\ rc' = InsertAt(rc, n + 1, Plain("user"))
    BY <1>2, <2>1
  <2>3. Good(k)
    BY <1>1, <1>2, <2>1
  <2>4. /\ OneBlock(rc')
        /\ AtIn(rc, "start") = {} => AtIn(rc', "start") = {}
        /\ \A c : IsMarked(rc, c) => IsMarked(rc', c)
    BY <1>3, <2>2, <2>3, UserFacts
  <2> QED BY <1>3, <1>4, <2>2, <2>3, <2>4
<1>9. ASSUME NEW c \in Conn, NEW ts \in Request, PublishFails(c, ts) PROVE Good(k)'
  BY <1>5, <1>9, PublishFailsFacts
<1>10. ASSUME NEW c \in Conn, NEW b \in Usual, Upsert(c, b) PROVE Good(k)'
  BY <1>5, <1>10, UpsertFacts
<1>11. ASSUME NEW c \in Conn, Detach(c) PROVE Good(k)'
  BY <1>5, <1>11, DetachFacts
<1>12. CASE ClientChanges
  BY <1>5, <1>12, ClientChangesFacts
<1>13. CASE RegistryChanges
  BY <1>5, <1>13, RegistryChangesFacts
<1>14. CASE EditDocument
  BY <1>5, <1>14, EditFacts
<1> QED BY <1>6, <1>7, <1>8, <1>9, <1>10, <1>11, <1>12, <1>13, <1>14 DEF CNext

\* What is recorded as applied was written.
LEMMA ResultStep ==
    ASSUME DocsInv, CNext
    PROVE  ResultInv'
<1> USE DEF DocsInv
<1>1. \A t \in Target : \A n \in DOMAIN records[t] : IsTrueResult(t, records[t][n])
  BY DEF ResultInv
<1>2. SUFFICES ASSUME NEW t \in Target, NEW n \in DOMAIN records'[t]
               PROVE  IsTrueResult(t, records'[t][n])
  BY DEF ResultInv, IsTrueResult, SawDocument, SawRoute, EntriesIn, EntriesLeft, EntryOf,
         HasBlock, Block, Plain, Line
<1> DEFINE x == records'[t][n]
<1>3. ASSUME \E m \in DOMAIN records[t] : x = records[t][m] PROVE IsTrueResult(t, x)
  BY <1>1, <1>3
<1>4. ASSUME records' = records PROVE IsTrueResult(t, x)
  BY <1>1, <1>2, <1>4
<1>5. /\ docs \in [Document -> Text] /\ env \in EnvText /\ rc \in Seq(RcLine)
      /\ registry \in BOOLEAN
  BY DEF DocsTypeInv
<1>6. ASSUME NEW c \in Conn, NEW ts \in Request, Publish(c, ts) PROVE IsTrueResult(t, x)
  <2> DEFINE S == SupportedOf(ts, c)
  <2>1. /\ conns[c] \in Body /\ conns[c] # None
        /\ Cli \in S => ~registry /\ IsReplaceable /\ ActivateRoute(c)
        /\ RecordAll(c, ts, S, "applied") /\ docs' \in [Document -> Text]
        /\ client' = client /\ registry' = registry
        /\ \A d \in Document :
              d \in ResourcesOf(S) => EntriesIn(docs'[d]) = Rendered(d, c, FALSE)
    BY <1>6, PublishFacts
  <2>2. env' \in EnvText /\ rc' \in Seq(RcLine) /\ registry' \in BOOLEAN
    BY <1>5, <2>1, DocsTypeStep, <1>6 DEF DocsTypeInv, CNext
  <2>3. S \in SUBSET Target /\ \A u \in S : u # App
    BY SupportedFacts
  <2>4. \/ \E m \in DOMAIN records[t] : x = records[t][m]
        \/ x.status # "applied"
        \/ /\ t \in S /\ x.conn = c /\ x.body = conns[c]
           /\ t = Cli => x.seen[2] = <<registry', env', rc'>>
           /\ t # Cli => x.seen[2] = <<docs'[ResourceOf(t)]>>
    <3> HIDE DEF S
    <3> QED BY <1>2, <2>1, <2>2, <2>3, RecordAllFacts
  <2> HIDE DEF x, S
  <2>5. CASE x.status # "applied"
    BY <2>5 DEF IsTrueResult
  <2>6. CASE /\ t \in S /\ x.conn = c /\ x.body = conns[c]
             /\ t = Cli => x.seen[2] = <<registry', env', rc'>>
             /\ t # Cli => x.seen[2] = <<docs'[ResourceOf(t)]>>
    <3>1. ASSUME t \in VsCode \cup Ide PROVE SawDocument(t, x)
      <4> DEFINE d == ResourceOf(t)
      <4>1. /\ t # Cli /\ d \in Document /\ (d = Byok <=> t \in Ide)
        BY <2>3, <2>6, <3>1, ResourceFacts
      <4>2. x.seen[2][1] = docs'[d]
        BY <2>6, <4>1
      <4>3. d \in ResourcesOf(S)
        BY <2>6 DEF ResourcesOf
      <4> HIDE DEF d
      <4>4. EntriesIn(docs'[d]) = Rendered(d, c, FALSE)
        BY <2>1, <4>1, <4>3
      <4>5. {e \in Rendered(d, c, FALSE) : e.conn = c}
               = IF FALSE \/ ~IsRendered(d, c) THEN {} ELSE {EntryOf(c, conns[c])}
        BY <2>1, <4>1, RenderedFacts
      <4>6. EntriesLeft(t, x) = IF IsRendered(d, c) THEN {EntryOf(c, conns[c])} ELSE {}
        BY <2>6, <4>1 DEF EntriesLeft, IsRendered
      <4>7. {e \in EntriesIn(x.seen[2][1]) : e.conn = x.conn} = EntriesLeft(t, x)
        BY <2>6, <4>2, <4>4, <4>5, <4>6
      <4> QED BY <4>7 DEF SawDocument
    <3>2. ASSUME t = Cli PROVE SawRoute(x)
      <4>1. /\ ~registry /\ IsReplaceable /\ env' = Environment(c)
            /\ rc' = Replaced(Block(Self, c))
        BY <2>1, <2>6, <3>2 DEF ActivateRoute
      <4>2. HasBlock(rc', c)
        BY <4>1, ActivateFacts
      <4>3. x.seen[2][1] = registry' /\ x.seen[2][2] = env' /\ x.seen[2][3] = rc'
        BY <2>6, <3>2
      <4>4. registry' = FALSE
        BY <1>5, <2>1, <4>1
      <4> QED BY <2>6, <4>1, <4>2, <4>3, <4>4 DEF SawRoute, Environment
    <3> QED BY <2>1, <2>6, <3>1, <3>2 DEF IsTrueResult
  <2> QED BY <1>3, <2>4, <2>5, <2>6
<1>7. ASSUME NEW c \in Conn, NEW ts \in Request, PublishFails(c, ts) PROVE IsTrueResult(t, x)
  <2> DEFINE S == SupportedOf(ts, c)
  <2>1. /\ RecordAll(c, ts, S, "failed") /\ client' = client
        /\ docs' \in [Document -> Text] /\ env' \in EnvText /\ rc' \in Seq(RcLine)
        /\ registry' \in BOOLEAN
    BY <1>5, <1>7, PublishFailsFacts
  <2>2. S \in SUBSET Target /\ \A u \in S : u # App
    BY SupportedFacts
  <2>3. \/ \E m \in DOMAIN records[t] : x = records[t][m]
        \/ x.status # "applied"
    <3> HIDE DEF S
    <3> QED BY <1>2, <2>1, <2>2, RecordAllFacts
  <2> QED BY <1>3, <2>3 DEF IsTrueResult
<1>8. ASSUME NEW c \in Conn, Revoke(c) PROVE IsTrueResult(t, x)
  BY <1>2, <1>3, <1>8, RevokeFacts, ForgetFacts
<1>9. ASSUME NEW c \in Conn, Detach(c) PROVE IsTrueResult(t, x)
  BY <1>2, <1>3, <1>9, DetachFacts, ForgetFacts
<1>10. ASSUME NEW c \in Conn, NEW b \in Usual, Upsert(c, b) PROVE IsTrueResult(t, x)
  BY <1>4, <1>10, UpsertFacts
<1>11. CASE ClientChanges
  BY <1>4, <1>11, ClientChangesFacts
<1>12. CASE RegistryChanges
  BY <1>4, <1>12, RegistryChangesFacts
<1>13. CASE EditDocument
  BY <1>4, <1>13, EditFacts
<1>14. CASE EditCli
  BY <1>4, <1>14, EditCliFacts
<1> QED BY <1>6, <1>7, <1>8, <1>9, <1>10, <1>11, <1>12, <1>13, <1>14 DEF CNext

\* What the application starts from.
LEMMA DocsInit ==
    ASSUME CInit
    PROVE  DocsInv
<1> DEFINE first == Line("user", None, None)
<1>1. PICK c \in Conn, b \in Body : conns = [d \in Conn |-> IF d = c THEN b ELSE None]
  BY DEF CInit
<1>2. /\ proofs = {} /\ gone = {} /\ records = [t \in Target |-> <<>>]
      /\ registry = FALSE /\ backup = {} /\ env = None
      /\ rc = <<first>> /\ stray = {} /\ detached = {}
  BY DEF CInit, Line
<1>3. PICK text \in {Missing, {Users}} : docs = [d \in Document |-> text]
  BY DEF CInit
<1>4. client \in [Target -> Client]
  <2>1. PICK s \in {"own", "inherits"}, d \in Descriptor :
            client = [t \in Target |-> CASE t \in Profile -> s
                                         [] t \in Ide -> [plugins |-> {d}, disabled |-> FALSE]
                                         [] OTHER -> "found"]
    BY DEF CInit
  <2>2. [plugins |-> {d}, disabled |-> FALSE] \in Client
    <3>1. {d} \in SUBSET Descriptor /\ Cardinality({d}) = 1
      BY FS_Singleton
    <3> QED BY <3>1 DEF Client, Idea
  <2>3. s \in Client /\ "found" \in Client
    BY DEF Client
  <2> DEFINE ide == [plugins |-> {d}, disabled |-> FALSE]
  <2>4. ide \in Client /\ \A t \in Target : client[t] \in {s, "found", ide}
    BY <2>1, <2>2
  <2>5. client = [t \in Target |-> client[t]]
    BY <2>1
  <2> HIDE DEF ide
  <2> QED BY <2>3, <2>4, <2>5
<1>5. left \in [{"all", "plan", "change", "edit", "move", "fail"} -> Nat]
  BY StepAssumption DEF CInit
<1>6. Users \in Entry /\ Users.conn = None /\ None \notin Conn
  BY BodyAssumption DEF Users, Entry
<1>7. /\ docs \in [Document -> Text]
      /\ \A d \in Document : docs[d] # Bad /\ EntriesIn(docs[d]) \subseteq {Users}
  <2>1. text \in Text /\ text # Bad /\ EntriesIn(text) \subseteq {Users}
    <3>1. {Users} \in SUBSET Entry
      BY <1>6
    <3> QED BY <1>3, <3>1, TextFacts DEF Text
  <2> QED BY <1>3, <2>1
<1>8. first \in RcLine /\ first.kind = "user" /\ rc = <<first>>
  BY <1>2 DEF Line, RcLine
<1> HIDE DEF first
<1>9. /\ rc \in Seq(RcLine) /\ DOMAIN rc = {1} /\ rc[1] = first
  BY <1>8
<1>10. DocsTypeInv
  <2>1. conns \in [Conn -> Body \cup {None}] /\ Conn # {}
    BY <1>1
  <2>2. env \in EnvText
    BY <1>2 DEF EnvText
  <2>3. records \in [Target -> Seq(Result)]
    BY <1>2
  <2> QED BY <1>2, <1>4, <1>5, <1>7, <1>9, <2>1, <2>2, <2>3 DEF DocsTypeInv
<1>11. ProofInv /\ GoneInv
  BY <1>2 DEF ProofInv, GoneInv
<1>12. \A d \in Document, k \in Conn : Claimed(d, k) = {}
  <2>1. ASSUME NEW d \in Document, NEW k \in Conn PROVE Claimed(d, k) = {}
    <3>1. Entries(d) \subseteq {Users}
      BY <1>7, <1>10, EntriesFacts
    <3> QED BY <1>6, <3>1 DEF Claimed
  <2> QED BY <2>1
<1>13. \A k, r : ~IsBound(k, r)
  BY <1>2 DEF IsBound
<1>14. \A k : ~IsRoute(k)
  BY <1>2 DEF IsRoute
<1>15. EntryInv
  BY <1>7, <1>12 DEF EntryInv
<1>16. DocProofInv /\ RouteProofInv
  BY <1>12, <1>13, <1>14 DEF DocProofInv, RouteProofInv
<1>17. EndpointInv
  <2>1. Byok \in Document
    BY DEF Document
  <2>2. Entries(Byok) \subseteq {Users}
    BY <1>7, <1>10, <2>1, EntriesFacts
  <2>3. Users.body = None
    BY DEF Users
  <2> QED BY <2>2, <2>3 DEF EndpointInv
<1>18. BlockInv
  <2>1. AtIn(rc, "start") = {} /\ AtIn(rc, "end") = {}
    BY <1>8, <1>9 DEF AtIn
  <2>2. OneBlock(rc)
    BY <2>1 DEF OneBlock
  <2> QED BY <1>14, <2>2 DEF BlockInv
<1>19. ResultInv
  BY <1>2 DEF ResultInv
<1> QED BY <1>10, <1>11, <1>15, <1>16, <1>17, <1>18, <1>19 DEF DocsInv

\* The invariant of the clients' documents, their clients and the state.
THEOREM DocumentsInductive == CSpec => []DocsInv
<1>1. DocsInv /\ CNext => DocsInv'
  BY DocsTypeStep, ProofsStep, EntryStep, DocProofStep, RouteProofStep, EndpointStep,
     BlockStep, ResultStep DEF DocsInv
<1>2. DocsInv /\ UNCHANGED cvars => DocsInv'
  <2> SUFFICES ASSUME DocsInv, UNCHANGED cvars PROVE DocsInv'
    OBVIOUS
  <2>1. /\ conns' = conns /\ proofs' = proofs /\ records' = records /\ gone' = gone
        /\ client' = client /\ registry' = registry /\ docs' = docs /\ backup' = backup
        /\ env' = env /\ rc' = rc /\ stray' = stray /\ detached' = detached /\ left' = left
    BY DEF cvars, clients, written, marks
  <2>2. /\ \A c, r : IsBound(c, r)' <=> IsBound(c, r)
        /\ \A c : IsRoute(c)' <=> IsRoute(c)
        /\ \A d : Entries(d)' = Entries(d)
        /\ \A d, c : Claimed(d, c)' = Claimed(d, c)
    BY <2>1 DEF IsBound, IsRoute, Claimed, Entries, IsReadable
  <2>3. DocsTypeInv' /\ ProofInv' /\ GoneInv'
    BY <2>1 DEF DocsInv, DocsTypeInv, ProofInv, GoneInv
  <2>4. EntryInv' /\ DocProofInv' /\ RouteProofInv' /\ EndpointInv'
    BY <2>1, <2>2 DEF DocsInv, EntryInv, DocProofInv, RouteProofInv, EndpointInv, Undisturbed
  <2>5. BlockInv' /\ ResultInv'
    BY <2>1, <2>2 DEF DocsInv, BlockInv, ResultInv, Undisturbed
  <2> QED BY <2>3, <2>4, <2>5 DEF DocsInv
<1> QED BY <1>1, <1>2, DocsInit, PTL DEF CSpec

-----------------------------------------------------------------------------
(***************************************************************************)
(* The properties of the runs.                                             *)
(***************************************************************************)

\* ProofsAreTrue: where nobody else interfered, state.json has a proof for a connection
\* exactly if the document, or the environment, has its entry, and shows it.
THEOREM ProofsHold == CSpec => []ProofsAreTrue
<1>1. DocsInv => ProofsAreTrue
  <2> SUFFICES ASSUME DocsInv PROVE ProofsAreTrue
    OBVIOUS
  <2> USE DEF DocsInv
  <2>1. SUFFICES ASSUME NEW c \in Conn, c \notin detached
        PROVE  /\ \A d \in Document :
                     Undisturbed(d, c) => (IsBound(c, d) <=> Claimed(d, c) # {})
               /\ \A t \in VsCode \cup Ide :
                     Undisturbed(ResourceOf(t), c)
                         => (c \in Observed(t) <=> IsBound(c, ResourceOf(t)))
               /\ Undisturbed(Cli, c) => (IsBound(c, Cli) <=> IsRoute(c))
    BY DEF ProofsAreTrue
  <2>2. \A d \in Document : Undisturbed(d, c) => (IsBound(c, d) <=> Claimed(d, c) # {})
    BY <2>1 DEF DocProofInv
  <2>3. Undisturbed(Cli, c) => (IsBound(c, Cli) <=> IsRoute(c))
    BY <2>1 DEF RouteProofInv
  <2>4. ASSUME NEW t \in VsCode \cup Ide, Undisturbed(ResourceOf(t), c)
        PROVE  c \in Observed(t) <=> IsBound(c, ResourceOf(t))
    <3>1. t \in Target /\ t # Cli /\ ResourceOf(t) \in Document
      BY ResourceFacts DEF Target
    <3>2. c \in Observed(t) <=> conns[c] # None /\ Claimed(ResourceOf(t), c) # {}
      BY <3>1 DEF Observed, ObservedIn
    <3>3. IsBound(c, ResourceOf(t)) => conns[c] # None
      BY DEF IsBound, ProofInv
    <3> QED BY <2>2, <2>4, <3>1, <3>2, <3>3
  <2> QED BY <2>2, <2>3, <2>4
<1> QED BY <1>1, DocumentsInductive, PTL

\* StillRevocable: what was published can be revoked, if its targets are there and write
\* to the same documents, and nobody touched what was written.
THEOREM RevocationStaysPossible == CSpec => []StillRevocable
<1>1. DocsInv => StillRevocable
  <2> SUFFICES ASSUME DocsInv PROVE StillRevocable
    OBVIOUS
  <2> USE DEF DocsInv
  <2>1. SUFFICES ASSUME NEW c \in Conn, conns[c] # None,
                        \A p \in proofs : p.conn = c =>
                            /\ Undisturbed(p.res, c)
                            /\ IsWritable(p.target) /\ ResourceOf(p.target) = p.res
                 PROVE  CanRevoke(c)
    BY DEF StillRevocable
  <2>2. c \notin detached
    BY <2>1 DEF GoneInv
  <2>3. ASSUME NEW t \in ProvenTargets(c)
        PROVE  Listed(t) /\ IsSupported(t, c, TRUE) /\ CanWrite(t, c, TRUE)
    <3>1. PICK p \in proofs : p.conn = c /\ p.target = t
      BY DEF ProvenTargets
    <3>2. /\ t \in Target /\ t # App /\ IsWritable(t) /\ ResourceOf(t) = p.res
          /\ Undisturbed(p.res, c)
      BY <2>1, <3>1 DEF DocsTypeInv, Binding
    <3>3. Listed(t) /\ IsSupported(t, c, TRUE)
      BY <3>2 DEF Listed, IsWritable, IsSupported, IdeSupports
    <3>4. IsBound(c, p.res)
      BY <3>1 DEF IsBound
    <3>5. CASE t # Cli
      <4>1. p.res \in Document
        BY <3>2, <3>5, ResourceFacts
      <4>2. /\ docs[p.res] # Bad
            /\ \A e \in Claimed(p.res, c) : e.owner = Self /\ e.sound
            /\ \A e, f \in Claimed(p.res, c) : e = f
        BY <3>2, <4>1 DEF EntryInv
      <4>3. Cardinality(Claimed(p.res, c)) <= 1
        BY <4>2, AtMostOne
      <4>4. Owned(ResourceOf(t), c)
        BY <3>2, <3>4, <4>2, <4>3 DEF Owned, IsReadable
      <4> QED BY <3>3, <3>5, <4>4 DEF CanWrite
    <3>6. CASE t = Cli
      <4>1. p.res = Cli
        BY <3>2, <3>6, ResourceFacts
      <4>2. IsRoute(c)
        BY <2>2, <3>2, <3>4, <4>1 DEF RouteProofInv
      <4>3. rc \in Seq(RcLine) /\ OneBlock(rc) /\ (AtIn(rc, "start") = {} \/ IsMarked(rc, c))
        BY <3>2, <4>1, <4>2 DEF BlockInv, DocsTypeInv
      <4>4. IsReplaceable /\ At("start") = AtIn(rc, "start")
        BY <4>3, ReplaceableFacts
      <4>5. IsCurrentOwner(c)
        BY <4>2, <4>3, <4>4 DEF IsCurrentOwner, IsMarked
      <4> QED BY <3>3, <3>4, <3>6, <4>1, <4>4, <4>5 DEF CanWrite, IsRemovable
    <3> QED BY <3>5, <3>6
  <2>4. ASSUME NEW p \in ProofsLeft(ProvenTargets(c), c), p.conn = c PROVE FALSE
    <3>1. p \in proofs /\ \A t \in ProvenTargets(c) : ~Supersedes(t, c, p)
      BY DEF ProofsLeft
    <3>2. p.target \in ProvenTargets(c)
      BY <2>4, <3>1 DEF ProvenTargets
    <3>3. ResourceOf(p.target) = p.res
      BY <2>1, <2>4, <3>1
    <3>4. Supersedes(p.target, c, p)
      BY <2>4, <3>3 DEF Supersedes
    <3> QED BY <3>1, <3>2, <3>4
  <2> QED BY <2>1, <2>3, <2>4 DEF CanRevoke
<1> QED BY <1>1, DocumentsInductive, PTL

\* EndpointKept: the JetBrains plugin calls the URL the user entered, extended by no more
\* than its protocol's route.
THEOREM EndpointHolds == CSpec => []EndpointKept
<1>1. DocsInv => EndpointKept
  BY EndpointFacts DEF DocsInv, EndpointInv, EndpointKept
<1> QED BY <1>1, DocumentsInductive, PTL

\* InSyncIsTrue: a target that is shown as in sync has the connection as it is now, as
\* this installation writes it, where the client reads it.
THEOREM InSyncHolds == CSpec => []InSyncIsTrue
<1>1. DocsInv => InSyncIsTrue
  <2> SUFFICES ASSUME DocsInv PROVE InSyncIsTrue
    OBVIOUS
  <2> USE DEF DocsInv
  <2>1. SUFFICES ASSUME NEW t \in Target, NEW c \in Conn, conns[c] # None,
                        Drift(t, c) = "inSync"
        PROVE  IF t = Cli
               THEN /\ ~registry /\ env = Environment(c)
                    /\ \E n \in DOMAIN rc : SubSeq(rc, n, n + 3) = Block(Self, c)
               ELSE Claimed(ResourceOf(t), c) =
                       {e \in Rendered(ResourceOf(t), c, FALSE) : e.conn = c}
    BY DEF InSyncIsTrue
  <2> DEFINE r == Head(records[t])
  <2>2. IsWritable(t) /\ records[t] # <<>>
    BY <2>1 DEF Drift
  <2>3. records[t] \in Seq(Result)
    BY DEF DocsTypeInv
  <2>4. 1 \in DOMAIN records[t] /\ r = records[t][1]
    BY <2>2, <2>3
  <2>5. IsTrueResult(t, r)
    BY <2>4 DEF ResultInv
  <2> HIDE DEF r
  <2>6. Drift(t, c) = CASE r.status # "applied" -> "conflict"
           [] r.status = "applied" /\ ~IsCurrent(r, c) -> "outOfDate"
           [] r.status = "applied" /\ IsCurrent(r, c) ->
                IF r.seen = Fingerprint(t) THEN "inSync" ELSE "conflict"
    BY <2>2 DEF Drift, r
  <2>7. /\ r.status = "applied" /\ r.conn = c /\ r.body = conns[c]
        /\ r.seen = Fingerprint(t)
    BY <2>1, <2>6 DEF IsCurrent
  <2>8. t # App
    BY <2>2 DEF IsWritable
  <2>9. CASE t = Cli
    <3>1. r.seen = <<client[t], <<registry, env, rc>>>>
      BY <2>7, <2>9 DEF Fingerprint
    <3>2. r.seen[2][1] = registry /\ r.seen[2][2] = env /\ r.seen[2][3] = rc
      BY <3>1
    <3>3. SawRoute(r)
      BY <2>5, <2>7, <2>9 DEF IsTrueResult
    <3> QED BY <2>7, <2>9, <3>2, <3>3 DEF SawRoute, HasBlock, Environment
  <2>10. CASE t # Cli
    <3> DEFINE d == ResourceOf(t)
    <3>1. t \in VsCode \cup Ide /\ d \in Document /\ (d = Byok <=> t \in Ide)
      BY <2>8, <2>10, ResourceFacts
    <3>2. r.seen = <<client[t], <<docs[d]>>>>
      BY <2>7, <2>8, <2>10 DEF Fingerprint
    <3>3. r.seen[2][1] = docs[d]
      BY <3>2
    <3>4. SawDocument(t, r)
      BY <2>5, <2>7, <3>1 DEF IsTrueResult
    <3> HIDE DEF d
    <3>5. Claimed(d, c) = EntriesLeft(t, r)
      BY <2>7, <3>1, <3>3, <3>4, EntriesFacts DEF SawDocument, Claimed
    <3>6. EntriesLeft(t, r) = IF IsRendered(d, c) THEN {EntryOf(c, conns[c])} ELSE {}
      BY <2>7, <3>1 DEF EntriesLeft, IsRendered
    <3>7. {e \in Rendered(d, c, FALSE) : e.conn = c}
             = IF FALSE \/ ~IsRendered(d, c) THEN {} ELSE {EntryOf(c, conns[c])}
      BY <2>1, <3>1, RenderedFacts
    <3> QED BY <2>10, <3>5, <3>6, <3>7 DEF d
  <2> QED BY <2>9, <2>10
<1> QED BY <1>1, DocumentsInductive, PTL

\* What a publication or a revocation leaves in each document.
LEMMA WrittenKeeps ==
    ASSUME DocsTypeInv, NEW c \in Conn, NEW d \in Document, NEW revoke \in BOOLEAN,
           conns[c] # None, docs[d] # Bad, Owned(d, c),
           EntriesIn(docs'[d]) = Rendered(d, c, revoke)
    PROVE  /\ Entries(d)' \ Claimed(d, c)' = Entries(d) \ Claimed(d, c)
           /\ \A e \in Claimed(d, c) : e.owner = Self /\ IsBound(c, d)
<1>1. /\ Entries(d)' = EntriesIn(docs'[d])
      /\ Claimed(d, c)' = {e \in EntriesIn(docs'[d]) : e.conn = c}
  BY NextEntries
<1>2. Rendered(d, c, revoke) \ {e \in Rendered(d, c, revoke) : e.conn = c}
         = Entries(d) \ Claimed(d, c)
  BY RenderedFacts
<1>3. \A e \in Claimed(d, c) : e.owner = Self /\ IsBound(c, d)
  BY DEF Owned
<1> QED BY <1>1, <1>2, <1>3

\* OthersKept: a publication or a revocation replaces only its own proven entry, keeps
\* every line outside its block, the original of what it changes in VS Code, and files it
\* cannot read, and only a revocation removes a route, its own.
THEOREM OthersStay == CSpec => OthersKept
<1> DEFINE OneKept ==
               \E c \in Conn : \A d \in Document :
                  \/ docs'[d] = docs[d]
                  \/ /\ docs[d] # Bad
                     /\ Entries(d)' \ Claimed(d, c)' = Entries(d) \ Claimed(d, c)
                     /\ \A e \in Claimed(d, c) : e.owner = Self /\ IsBound(c, d)
                     /\ d \in backup' \/ docs[d] = Missing \/ d = Byok
           LinesKept == rc' # rc => Outside[1] \o Outside[2] = (Outside[1] \o Outside[2])'
           OwnRemoved == (env # None /\ env' = None)
                            => \E c \in Conn : IsRoute(c) /\ conns[c] # None /\ conns'[c] = None
           Kept == OneKept /\ LinesKept /\ OwnRemoved
<1>1. DocsInv /\ CNext /\ left'.edit = left.edit => Kept
  <2> SUFFICES ASSUME DocsInv, CNext, left'.edit = left.edit PROVE Kept
    OBVIOUS
  <2>1. DocsTypeInv /\ Conn # {} /\ rc \in Seq(RcLine)
    BY DEF DocsInv, DocsTypeInv
  <2>2. Outside = OutsideOf(rc) /\ Outside' = OutsideOf(rc')
    BY <2>1, ReplaceableFacts DEF Outside, OutsideOf, At, AtIn
  <2>3. ASSUME docs' = docs, rc' = rc, env' = env PROVE Kept
    BY <2>1, <2>3
  <2>4. ASSUME NEW c \in Conn, NEW ts \in Request, Publish(c, ts) PROVE Kept
    <3> DEFINE S == SupportedOf(ts, c)
    <3>1. /\ conns[c] \in Body /\ conns[c] # None
          /\ \A d \in Document :
                /\ d \notin ResourcesOf(S) => docs'[d] = docs[d]
                /\ d \in ResourcesOf(S) => /\ docs[d] # Bad /\ Owned(d, c)
                                           /\ EntriesIn(docs'[d]) = Rendered(d, c, FALSE)
                /\ docs'[d] = docs[d] \/ d \in backup' \/ docs[d] = Missing \/ d = Byok
          /\ Cli \notin S => env' = env /\ rc' = rc
          /\ Cli \in S => IsReplaceable /\ ActivateRoute(c)
      BY <2>1, <2>4, PublishFacts
    <3> HIDE DEF S
    <3>2. OneKept
      <4>1. \A d \in Document : d \in ResourcesOf(S) =>
                /\ Entries(d)' \ Claimed(d, c)' = Entries(d) \ Claimed(d, c)
                /\ \A e \in Claimed(d, c) : e.owner = Self /\ IsBound(c, d)
        BY <2>1, <3>1, WrittenKeeps
      <4> QED BY <3>1, <4>1
    <3>3. LinesKept
      <4>1. CASE Cli \in S
        <5>1. OutsideOf(rc') = OutsideOf(rc)
          BY <2>1, <3>1, <4>1, ActivateFacts DEF ActivateRoute
        <5> QED BY <2>2, <5>1
      <4> QED BY <3>1, <4>1
    <3>4. OwnRemoved
      <4>1. CASE Cli \in S
        <5>1. env' = [owner |-> Self, conn |-> c, body |-> conns[c]]
          BY <3>1, <4>1 DEF ActivateRoute, Environment
        <5>2. env' # None
          BY <2>1, <3>1, <5>1, EnvFacts
        <5> QED BY <5>2
      <4> QED BY <3>1, <4>1
    <3> QED BY <3>2, <3>3, <3>4
  <2>5. ASSUME NEW c \in Conn, Revoke(c) PROVE Kept
    <3> DEFINE T == ProvenTargets(c)
    <3>1. /\ conns[c] # None /\ conns' = [conns EXCEPT ![c] = None]
          /\ \A d \in Document :
                /\ d \notin ResourcesOf(T) => docs'[d] = docs[d]
                /\ d \in ResourcesOf(T) => /\ docs[d] # Bad /\ Owned(d, c)
                                           /\ EntriesIn(docs'[d]) = Rendered(d, c, TRUE)
                /\ docs'[d] = docs[d] \/ d \in backup' \/ docs[d] = Missing \/ d = Byok
          /\ Cli \notin T => env' = env /\ rc' = rc
          /\ Cli \in T => IsCurrentOwner(c) /\ IsRemovable /\ RemoveRoute
      BY <2>1, <2>5, RevokeFacts
    <3> HIDE DEF T
    <3>2. OneKept
      <4>1. \A d \in Document : d \in ResourcesOf(T) =>
                /\ Entries(d)' \ Claimed(d, c)' = Entries(d) \ Claimed(d, c)
                /\ \A e \in Claimed(d, c) : e.owner = Self /\ IsBound(c, d)
        BY <2>1, <3>1, WrittenKeeps
      <4> QED BY <3>1, <4>1
    <3>3. LinesKept
      <4>1. CASE Cli \in T
        <5>1. rc' # rc => OutsideOf(rc)[1] \o OutsideOf(rc)[2]
                             = OutsideOf(rc')[1] \o OutsideOf(rc')[2]
          BY <2>1, <3>1, <4>1, RemoveRouteFacts
        <5> QED BY <2>2, <5>1
      <4> QED BY <3>1, <4>1
    <3>4. OwnRemoved
      <4>1. CASE Cli \in T
        <5>1. env # None => IsRoute(c)
          BY <3>1, <4>1 DEF IsCurrentOwner
        <5>2. conns'[c] = None
          BY <2>1, <3>1 DEF DocsTypeInv
        <5> QED BY <3>1, <5>1, <5>2
      <4> QED BY <3>1, <4>1
    <3> QED BY <3>2, <3>3, <3>4
  <2> HIDE DEF Kept
  <2>6. ASSUME NEW c \in Conn, NEW ts \in Request, PublishFails(c, ts) PROVE Kept
    BY <2>1, <2>3, <2>6, PublishFailsFacts
  <2>7. ASSUME NEW c \in Conn, NEW b \in Usual, Upsert(c, b) PROVE Kept
    BY <2>1, <2>3, <2>7, UpsertFacts
  <2>8. ASSUME NEW c \in Conn, Detach(c) PROVE Kept
    BY <2>1, <2>3, <2>8, DetachFacts
  <2>9. CASE ClientChanges
    BY <2>1, <2>3, <2>9, ClientChangesFacts
  <2>10. CASE RegistryChanges
    BY <2>1, <2>3, <2>10, RegistryChangesFacts
  <2>11. ~EditDocument /\ ~EditCli
    BY <2>1, EditFacts, EditCliFacts
  <2> QED BY <2>4, <2>5, <2>6, <2>7, <2>8, <2>9, <2>10, <2>11 DEF CNext
<1>2. DocsInv /\ [CNext]_cvars => [left'.edit = left.edit => Kept]_cvars
  BY <1>1
<1> QED BY <1>2, DocumentsInductive, PTL DEF CSpec, OthersKept
=============================================================================
