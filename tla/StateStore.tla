----------------------------- MODULE StateStore -----------------------------
(***************************************************************************)
(* state.json, its last-good copy and the credential of a connection in    *)
(* the operating system's store (state.rs, safe_file.rs, secrets.rs,       *)
(* write_lock.rs), used by several running instances.                      *)
(*                                                                         *)
(* A revision of the state keeps what the properties compare: its number,  *)
(* the life of one connection, and the credential the connection was saved *)
(* with (the file holds only whether there is one).                        *)
(***************************************************************************)
EXTENDS Naturals

CONSTANTS
    Instance,  \* running instances of the application
    Secret,    \* API keys
    NoSecret,  \* no entry in the credential store
    Unix,      \* a replacement also syncs the directory, and that may fail
    MaxSaves, MaxFaults, MaxCrashes, MaxEdits  \* bounds

ASSUME SecretAssumption == NoSecret \notin Secret
ASSUME UnixAssumption == Unix \in BOOLEAN
ASSUME BoundAssumption == {MaxSaves, MaxFaults, MaxCrashes, MaxEdits} \subseteq Nat

VARIABLES
    primary,   \* state.json
    good,      \* state.json.last-good
    keyring,   \* the connection's entry in the credential store
    lease,     \* the instance that holds managed-writes.lock, or Nobody
    loaded,    \* what each instance read from state.json (loaded_bytes)
    shown,     \* the state each instance works with
    recovery,  \* whether it is in read-only recovery
    pc,        \* where its command or its start stands
    op,        \* the command it executes
    old,       \* the credential that command found
    torn,      \* auxiliary: a crash or a failed restore parted file and credential
    edited,    \* auxiliary: another program damaged or removed a file
    unsynced,  \* auxiliary: a save replaced state.json and was reported as failed
    budget     \* what is left of each bound

files == <<primary, good>>
mem   == <<loaded, shown, recovery>>
cmd   == <<op, old>>
aux   == <<torn, edited, unsynced>>
vars  == <<files, keyring, lease, mem, pc, cmd, aux, budget>>

Nobody == "nobody"
ASSUME NobodyAssumption == Nobody \notin Instance
Key    == Secret \cup {NoSecret}
Life   == {"none", "live", "gone"}
Rev    == 0..(MaxSaves + 1)
Doc    == [form : {"absent", "damaged", "valid"}, rev : Rev, conn : Life, key : Key]

Void(form) == [form |-> form, rev |-> 0, conn |-> "none", key |-> NoSecret]
Absent  == Void("absent")
Damaged == Void("damaged")
Default == Void("valid")

\* What the user asks of the credential: keep it, clear it, or set a new one.
Effect == {"keep", "clear", "set"}
Op     == [kind : {"upsert", "toggle", "delete"}, effect : Effect, secret : Key]
NoOp   == [kind |-> "toggle", effect |-> "keep", secret |-> NoSecret]

Spend(k) == budget[k] > 0 /\ budget' = [budget EXCEPT ![k] = @ - 1]
Fault == Spend("fault")
Works == UNCHANGED budget

Goto(i, label) == pc' = [pc EXCEPT ![i] = label]
Return(i) == Goto(i, "idle") /\ lease' = Nobody

Init ==
    /\ \E key \in Key, first \in BOOLEAN :
          /\ primary = IF first THEN Absent
                       ELSE [form |-> "valid", rev |-> 1, conn |-> "live", key |-> key]
          /\ good = IF first THEN Absent ELSE Default
          /\ keyring = IF first THEN NoSecret ELSE key
    /\ lease = Nobody
    /\ loaded = [i \in Instance |-> Absent] /\ shown = [i \in Instance |-> Default]
    /\ recovery = [i \in Instance |-> FALSE]
    /\ pc = [i \in Instance |-> "closed"]
    /\ op = [i \in Instance |-> NoOp] /\ old = [i \in Instance |-> NoSecret]
    /\ torn = FALSE /\ edited = FALSE /\ unsynced = FALSE
    /\ budget = [save |-> MaxSaves, fault |-> MaxFaults, crash |-> MaxCrashes,
                 edit |-> MaxEdits]

-----------------------------------------------------------------------------
(***************************************************************************)
(* StateStore::open_at and try_load read state.json, then the last-good    *)
(* copy, without the lease.                                                *)
(***************************************************************************)
OpenPrimary(i) ==
    /\ pc[i] = "closed"
    /\ loaded' = [loaded EXCEPT ![i] = primary]
    /\ IF primary.form = "valid"
       THEN /\ shown' = [shown EXCEPT ![i] = primary]
            /\ recovery' = [recovery EXCEPT ![i] = FALSE]
            /\ Goto(i, "idle")
       ELSE Goto(i, "open") /\ UNCHANGED <<shown, recovery>>
    /\ UNCHANGED <<files, keyring, lease, cmd, aux, budget>>

OpenBackup(i) ==
    /\ pc[i] = "open"
    /\ shown' = [shown EXCEPT ![i] = IF good.form = "valid" THEN good ELSE Default]
    /\ recovery' = [recovery EXCEPT ![i] =
                        ~(good.form = "absent" /\ loaded[i].form = "absent")]
    /\ Goto(i, "idle")
    /\ UNCHANGED <<files, keyring, lease, loaded, cmd, aux, budget>>

-----------------------------------------------------------------------------
(***************************************************************************)
(* A managed command: the lease, the checks, the credential, the files.    *)
(***************************************************************************)
AnyLease  == TRUE
FreeLease == lease = Nobody

\* ensure_writable().
Writable(i) == ~recovery[i] /\ primary = loaded[i]

\* An unknown connection is not updated; a new one has an id, and so an entry in
\* the credential store, of its own.
Possible(i, o) == CASE o.kind = "upsert" -> \/ shown[i].conn = "live"
                                            \/ /\ shown[i].conn = "none"
                                               /\ keyring = NoSecret
                    [] OTHER -> shown[i].conn = "live"

Start(i, o) ==
    /\ pc[i] = "idle" /\ FreeLease
    /\ Writable(i) /\ Possible(i, o)
    /\ Spend("save")
    /\ lease' = i
    /\ op' = [op EXCEPT ![i] = o]
    /\ Goto(i, IF o.kind = "upsert" THEN "get" ELSE "backup")
    /\ UNCHANGED <<files, keyring, mem, old, aux>>

\* upsert_connection reads the old credential before it changes anything.
SecretGet(i) ==
    /\ pc[i] = "get"
    /\ \/ /\ Works /\ old' = [old EXCEPT ![i] = keyring]
          /\ Goto(i, "secret") /\ UNCHANGED lease
       \/ Fault /\ Return(i) /\ UNCHANGED old
    /\ UNCHANGED <<files, keyring, mem, op, aux>>

\* The credential changes before the state that describes it.
NewKey(i) == CASE op[i].effect = "keep"  -> old[i]
               [] op[i].effect = "clear" -> NoSecret
               [] op[i].effect = "set"   -> op[i].secret

SecretChange(i) ==
    /\ pc[i] = "secret"
    /\ \/ Works /\ keyring' = NewKey(i) /\ Goto(i, "backup") /\ UNCHANGED lease
       \/ Fault /\ op[i].effect # "keep" /\ Return(i) /\ UNCHANGED keyring
    /\ UNCHANGED <<files, mem, cmd, aux>>

\* The revision the command will commit.
NextDoc(i) ==
    CASE op[i].kind = "upsert" -> [form |-> "valid", rev |-> shown[i].rev + 1,
                                   conn |-> "live", key |-> NewKey(i)]
      [] op[i].kind = "toggle" -> [shown[i] EXCEPT !.rev = @ + 1]
      [] op[i].kind = "delete" -> [shown[i] EXCEPT !.rev = @ + 1, !.conn = "gone",
                                                   !.key = NoSecret]

\* The validated revision that is replaced; before the first save, an empty one.
Upcoming(i) == NextDoc(i)
Previous(i) == IF loaded[i].form = "absent" THEN Default ELSE loaded[i]

\* A failed save restores the old credential; the other commands just return.
Failed(i) == IF op[i].kind = "upsert" THEN Goto(i, "undo") /\ UNCHANGED lease
                                      ELSE Return(i)

\* write_state_checked keeps the previous revision in the last-good copy first.
Backup(i) ==
    /\ pc[i] = "backup"
    /\ \/ /\ Works /\ primary = loaded[i]
          /\ good' = Previous(i)
          /\ Goto(i, "check") /\ UNCHANGED lease
       \/ Works /\ primary # loaded[i] /\ Failed(i) /\ UNCHANGED good
       \/ /\ Fault /\ primary = loaded[i] /\ Failed(i)
          /\ UNCHANGED good \/ (Unix /\ good' = Previous(i))
    /\ UNCHANGED <<primary, keyring, mem, cmd, aux>>

\* write_expected stages the new bytes and compares the file a last time.
Check(i) ==
    /\ pc[i] = "check"
    /\ \/ Works /\ primary = loaded[i] /\ Goto(i, "replace") /\ UNCHANGED lease
       \/ (Fault \/ (Works /\ primary # loaded[i])) /\ Failed(i)
    /\ UNCHANGED <<files, keyring, mem, cmd, aux>>

\* The replacement.  On Unix the directory is synced afterwards, and a failure of
\* that is returned although state.json has been replaced.
Replace(i) ==
    /\ pc[i] = "replace"
    /\ \/ /\ Works
          /\ primary' = NextDoc(i)
          /\ loaded' = [loaded EXCEPT ![i] = NextDoc(i)]
          /\ shown' = [shown EXCEPT ![i] = NextDoc(i)]
          /\ torn' = (torn /\ op[i].kind # "upsert")
          /\ unsynced' = (unsynced /\ op[i].kind # "upsert")
          /\ IF op[i].kind = "delete" THEN Goto(i, "cleanup") /\ UNCHANGED lease
                                      ELSE Return(i)
       \/ /\ Fault /\ Failed(i)
          /\ \/ UNCHANGED <<primary, unsynced>>
             \/ Unix /\ primary' = NextDoc(i) /\ unsynced' = TRUE
          /\ UNCHANGED <<loaded, shown, torn>>
    /\ UNCHANGED <<good, keyring, recovery, cmd, edited>>

NotRestored(i) == keyring
Restored(i)    == old[i]

\* upsert_connection puts the old credential back when the save failed.
Undo(i) ==
    /\ pc[i] = "undo"
    /\ \/ Works /\ keyring' = Restored(i) /\ UNCHANGED torn
       \/ Fault /\ torn' = TRUE /\ UNCHANGED keyring
    /\ Return(i)
    /\ UNCHANGED <<files, mem, cmd, edited, unsynced>>

\* delete_connection removes the credential after the connection is gone; that it
\* could not is only a warning.
Cleanup(i) ==
    /\ pc[i] = "cleanup"
    /\ (Works /\ keyring' = NoSecret) \/ (Fault /\ UNCHANGED keyring)
    /\ Return(i)
    /\ UNCHANGED <<files, mem, cmd, aux>>

-----------------------------------------------------------------------------
(***************************************************************************)
(* The environment.                                                        *)
(***************************************************************************)

\* A process dies or is closed; the operating system releases its lease.  Between
\* the change of the credential and that of state.json the two are parted.
Crash(i) ==
    /\ pc[i] # "closed" /\ Spend("crash")
    /\ Goto(i, "closed")
    /\ lease' = IF lease = i THEN Nobody ELSE lease
    /\ torn' = (torn \/ (/\ pc[i] \in {"backup", "check", "replace", "undo"}
                         /\ op[i].kind = "upsert" /\ keyring # old[i]))
    /\ UNCHANGED <<files, keyring, mem, cmd, edited, unsynced>>

\* Another program damages or removes a file.
Edit == /\ Spend("edit")
        /\ \/ primary.form = "valid" /\ primary' \in {Absent, Damaged} /\ UNCHANGED good
           \/ good.form = "valid" /\ good' = Damaged /\ UNCHANGED primary
        /\ edited' = TRUE
        /\ UNCHANGED <<keyring, lease, mem, pc, cmd, torn, unsynced>>

Command(i) == \/ SecretGet(i) \/ SecretChange(i) \/ Backup(i) \/ Check(i) \/ Replace(i)
              \/ Undo(i) \/ Cleanup(i)

Ops == {o \in Op : /\ o.kind # "upsert" => o = [NoOp EXCEPT !.kind = o.kind]
                   /\ o.effect = "set" <=> o.secret # NoSecret}

Next == \/ \E i \in Instance : \/ OpenPrimary(i) \/ OpenBackup(i)
                               \/ \E o \in Ops : Start(i, o)
                               \/ Command(i) \/ Crash(i)
        \/ Edit

Spec == Init /\ [][Next]_vars

-----------------------------------------------------------------------------
(***************************************************************************)
(* Properties.                                                             *)
(***************************************************************************)

\* No save of any instance skips or replaces a revision it has not loaded: state.json
\* is checked, staged and replaced without locking it, only the lease excludes another
\* save in between.
SavesExtend ==
    [][(primary.form = "valid" /\ primary'.form = "valid" /\ primary' # primary)
          => primary'.rev = primary.rev + 1]_vars

\* The credential in the store is the one the connection in state.json was saved with.
Together == (primary.form = "valid" /\ primary.conn = "live") => keyring = primary.key

\* Whenever no command is active, credential and connection belong together: the
\* credential changes first, and a save that fails restores it (upsert_connection),
\* unless a crash between the two, a failed restore or an edited file parted them, or
\* the save was reported as failed after it replaced state.json.
CredentialBelongs == (lease = Nobody /\ ~torn /\ ~edited /\ ~unsynced) => Together

\* state.rs: "Preserve the validated previous revision before touching the primary": the
\* last-good copy is at most one revision behind state.json and never ahead.  As long as
\* no other program damages a file, state.json itself is missing only before the very first
\* save, and only a start beside that save enters read-only recovery.
LastGoodIsPrevious ==
    /\ (primary.form = "valid" /\ good.form = "valid")
           => good.rev <= primary.rev /\ primary.rev <= good.rev + 1
    /\ ~edited => /\ primary.form = "valid" \/ (primary = Absent /\ good \in {Absent, Default})
                  /\ \A i \in Instance : recovery[i] => loaded[i] = Absent

=============================================================================
