# PilotWeave: a verification development

PilotWeave ("CopilotBYOKManager") is a Tauri desktop application. It keeps provider
connections, publishes them to the configuration of AI clients after a review, follows
sign-ins of official clients, keeps a separate GitHub authorization, and imports usage
logs into a local database. The native core is Rust under
`src/apps/desktop/src-tauri/src/`; file names below are relative to that directory. The
interface is JavaScript under `src/apps/desktop/web/`.

This directory holds TLA+ specifications of that core, the TLC configurations that
model-check them and TLAPS proofs of their safety properties. `PROJECT.json` lists components, runs, mutants, the source lines of every
definition, findings, hazards and theorems.

## 1. Inventory

| component | state it keeps | operations | works with | what is hard | what makes it correct | module |
|---|---|---|---|---|---|---|
| Journaled transaction (`transaction.rs`, `safe_io.rs`) | `deployment-journal.json`, the targets, the Transaction in memory | begin, apply, rollback, complete, clear, preview / restore / keep of a journal | called by publications and by resources | a crash or a failure between any two file operations, other programs editing the targets, recovery that fails itself | intent before write, all or nothing, success recorded before the journal says so, no edit overwritten after its check, recovery can end | `Transaction`, `AtomicPublication` |
| Publication and revocation (`commands.rs`, `deployment/*`) | reviewed plans in memory, proofs of ownership and deployment records in `state.json` | preview, apply, detach, revoke and delete, recovery | Transaction, StateStore, adapters | the world changes between review and confirmation; several instances; a crash between state and journal | what was reviewed is what is written, once; the proofs say what is in the clients | `Deployment` |
| State and credentials (`state.rs`, `safe_file.rs`, `secrets.rs`, `write_lock.rs`) | `state.json`, its last-good copy, the credential store, the lease, the revision loaded by each instance | open, save, enable, delete, commit of a deployment or resource | everything that is saved | two stores changed without a transaction; lock-free compare and replace; damage by others | no lost revision, credential and connection belong together, a start finds the last commit | `StateStore` |
| GitHub authorization (`github_auth.rs`) | token in the credential store, identity on disk, revision in memory | authorize, refresh, clear | usage jobs take its token | answers arrive in any order; two stores; a second instance | the identity is the token's, cleared stays cleared | `GithubAuthorization` |
| Assisted sign-in (`account.rs`, `account/lifecycle.rs`) | one-shot plans in memory, the history of runs on disk and in memory | discover, preview, apply, verify, cancel, time out, open | the CLI probe, the clients it opens | a machine that changes after the review, a Cancel beside a probe, restarts, saves that fail | a plan opens what was reviewed, once and recorded; final runs stand, what is shown was observed | `LoginRuns`, `LoginPlans` |
| Usage import and pricing (`usage/importer.rs`, `store.rs`, `pricing.rs`) | records, cursors, sources, catalogs in SQLite | sync, cancel, enable, clear, refresh of prices | usage jobs, parsers | logs that grow, rotate and shrink while they are read; a price bound beside an import | the cursor never passes what was not stored, totals grow, bound prices stand | `UsageImport` |
| Client adapters (`adapters/*`) and the target states of the setup assistant (`setup.rs`) | the configuration of the clients; deployment records in `state.json` | discover, render, observe, publish, revoke | Publication | documents shared by targets, the user and other installations; connections and clients that change under what is published | only owned entries change, what is published can be revoked, what is shown in sync is | `ClientDocuments` |
| Shared resources (`resources/*`) | authored resources, tombstones and bindings in `state.json`, one-shot plans | save, preview, apply, revoke, recovery | Transaction, StateStore | as for publications; several records in one file | bindings say what was projected, a neighbour's entry is left alone | `Resources` |
| Installer (`installer.rs`, `installer/*`) | one-shot plans, the history of runs | preview, apply, cancel, progress, finish | package managers | cancellation between steps, hanging installers, a history that cannot be saved | no installer starts before its run is on disk, a run ends, what ended stands | `InstallJobs` |
| Usage jobs (`usage/commands.rs`, `usage/runtime.rs`) | busy and cancel flags, cooldown, rows of runs | begin, finish, cancel | importer, pricing, billing, authorization | cancel beside begin, a changed authorization beside an answer | usage belongs to the account it is stored for, jobs end, what is recorded stands | `UsageJobs` |
| GitHub billing (`github_billing*.rs`) | snapshots in SQLite | fetch, insert with retention, view | usage jobs | partial answers, retention | the last success of a period is kept | `UsageJobs` |
| Rest of setup, model discovery, processes, database schema, window, redaction, web interface, scripts | see `PROJECT.json` | | | | | not modelled |

How the parts interact. Every managed write of `state.json` runs under one lease file
(`managed-writes.lock`) and a mutex of the process, and first checks that `state.json` is
what this instance loaded and that no journal is pending. A publication writes the clients
through the transaction, then records itself in `state.json`, then marks its journal
Committed and removes it: three files that a crash can part. The sign-in history, the
installer history and the GitHub authorization are files of their own with a compare and
replace each; only the last takes a lease. Usage data are in SQLite, which several
instances open. `lib.rs` excludes a second instance on Windows only, so the models run
several instances wherever the state is shared.

## 2. Plan

Order: what the program must never get wrong first.

Written:

1. `Transaction` and its abstract specification `AtomicPublication`; proofs in
   `TransactionProofs`, the refinement among them.
2. `Deployment`, which composes publications, `state.json`, the lease and recovery, with
   the outcomes of `Transaction` and `StateStore` as the outcomes of single steps; proofs in
   `DeploymentProofs`.
3. `StateStore`; proofs in `ConfigurationProofs`.
4. `GithubAuthorization`; proofs in `GithubAuthorizationProofs`.
5. `LoginRuns`, and `LoginPlans` composed with it; proofs of both in `LoginPlansProofs`.
6. `UsageImport`, and 7. `UsageJobs`, with the authorization as one instance sees it; proofs of
   both in `UsageProofs`. The two specifications describe different parts of one subsystem and
   share no variable; the initial states and steps of `UsageJobs` have names of their own
   (`JInit`, `JNext`, `JSpec`, `jvars`) so that one module can extend both.
8. `InstallJobs`; proofs in `InstallJobsProofs`.
9. `Resources`; proofs in `ResourcesProofs`.
10. `ClientDocuments`; proofs in `ConfigurationProofs`, which has the two configurations the
    application keeps: its own, and what it writes for the clients. They share no variable;
    the initial states and steps of `ClientDocuments` have names of their own (`CInit`, `CNext`,
    `CSpec`, `cvars`) so that one module can extend both.

What composes what: `Deployment` and `Resources` take the outcomes of `Transaction` and
`StateStore` as the outcomes of single steps; `ClientDocuments` takes a whole publication as
one step, which succeeds or fails, because `Deployment` has its parts; `LoginPlans` extends
`LoginRuns`; `UsageJobs` sees what `GithubAuthorization` does to the token as changes that
may come at any time.

Every safety and action property of a passing run is proved. What a further step could state:
that a publication of `ClientDocuments` implements the single step `Deployment` takes it for,
which needs one state for the two; and the caps listed under "Not modelled".

## 3. The modules

Conventions. A read or a replacement of a file, a call of the credential store and a
transaction of the database are atomic steps; between two of them anything else may
happen. Every module bounds rare events with a `budget` (field names say of what; `left` in
`ClientDocuments`); `Spend`, `Take` and `Fault` take from it, `Works` leaves it. Variables marked *auxiliary* record history
for the properties and are never read by an action's guard. A stamp or a revision stands
for "these bytes differ".

**Transaction** — one managed-write thread. `pc` and `idx` say before which file operation
of `begin`, `apply`, `rollback`, `complete` or `clear` it stands, and `goal` what its caller
does after a rollback: a failed deployment is audited, a failed resource write is cleared, a
failed audit keeps the journal. `file` are the live targets, `journal` the file on disk and
`tx` the copy in memory, which differ after a failed write of the journal. `review` is the
recovery preview; its digest fingerprints the journal, so the journal stands for it. `Edit`
and `Crash` happen at any time. Both callers (`execute_stored_plan`,
`apply_resource_plan`) are modelled, since they drive the same protocol differently.
**AtomicPublication** is the promise to the user: a publication is open, moves its targets,
and ends with all of them before, all of them after, or kept by the user. A publication is
open exactly while its journal exists.

**Deployment** — several instances. `state` is `state.json` (revision, versions and enabled
flags of the connections, proofs of ownership), `content` who is configured in which target
and from which version of the connection, `plans` the reviewed plans of `PlanStore`. A
target in `Route` holds one connection at a time (the environment of the Copilot CLI), any
other holds one group per connection. Preview reads the context first and the targets later.
A write of all targets is one step with the outcomes of `Transaction`: published,
compensated or incompletely compensated, with a phase that was saved or was not; a save is
one step with the outcomes of `StateStore`, including the one that took effect and was
reported as failed. A deployment that failed is audited too (label `failed`), and a failed
audit compensates what was published, of which any part may fail again. `undone` records
what a compensation or a recovery put back although `state.json` had recorded the plan: one
connection in one target, until a later plan that decides it is recorded there. What the
adapters render is abstracted to `Conflict`, `Desired` and `ProofsAfter`.

**InstallJobs** — one instance, since installations run on Windows only. `version` is what a
detection of each component finds. `thread` executes a plan: `BeginRun` saves the run,
`Turn` passes over the components that were ready and announces the next one durably, `Look` detects it and checks its prerequisites,
`Launch` starts its installer, which `Exit`s, or is killed (`Kill`) when the run is
cancelled or its deadline passes; `Verify` detects the component again, `Record` saves the
result and `Finish` the summary. A save that fails aborts the run with what was saved.

**StateStore** — several instances. A revision keeps its number, the life of one
connection and the credential it was saved with. `OpenPrimary`/`OpenBackup` are a start
with its fallback; a command is `Start`, `SecretGet`, `SecretChange`, `Backup`, `Check`,
`Replace`, then `Undo` after a failure or `Cleanup` after a delete. `Check` and `Replace`
are two steps because `write_expected` compares the file and replaces it without a lock.

**GithubAuthorization** — requests in `flight` are validated by GitHub without a lock;
`Answer` takes any of them at any time, applies `ensure_current` and
`lease_and_check_disk`, and the change is then made in the two steps of the code, with its
undo. `Response` are pairs of answers that GitHub may give to the two calls of a
validation, `Outcome` what the code makes of them, and `Shown` the status an instance shows.
After a write the bytes of the file are read back (`capture_committed_bytes`), which may fail
although the write took effect. A file that cannot be read, or is of a newer version, is never
written; another program may damage or remove it at any moment, also between the comparison
and the write of a change (`Damage`, `mixed`). A token is its own
identity, so "the identity belongs to the token" is an equality.

**LoginRuns** — `thread` is the command that holds the logins mutex (a launch or a probe),
`saving` the save in progress under the store's mutex. `Reconcile`, `CancelRun` and
`Launched` are the rules of `lifecycle.rs` on one run. `Verify` reads a run before the probe
and `Answer` reads it again afterwards; a Cancel may come between. The history is read
without a lock and replaced after one comparison; the lease that other files have is
missing, which `overlap` records. A run has the time it was begun (`born`); the history keeps
the newest `MaxRuns` (100 in the code), and `PushedOut` says that a run left it for later ones.

**LoginPlans** extends it with what comes before a run. `machine` is what discovery finds:
the answer of the GitHub CLI, the clients, the version of their executables, an
authentication variable. `Preview` stores a plan, `Apply` takes it, expired or not, compares
it with what the machine shows now, and only a run that was recorded opens its clients, one
step each, while the machine may change again.

**UsageImport** — one log, as the files it has been (`inode`) and the one that has its name
(`path`). `Resets` is the rule of `sync_file` that decides from identity, size, time and the
hashed prefix whether a log is the one the cursor is about. An import reads lines from the
file it opened, opens the path again to hash the prefix (`Persist`), and commits the batch
and the cursor in one transaction (`Commit`). `Select` and `Bind` are the binding of prices
with its comparison of the stored row. The environment appends complete and incomplete
lines, truncates the file in place and rotates it. A line starts a session, reports usage or
cannot be understood; `session` is what the parser remembers from one batch to the next.

**UsageJobs** — one instance and its four kinds of jobs. `busy` and `cancel` are the flags of
`UsageJobs`, `rows` the table of runs, `shots` and `quotas` the stored answers by time. A job
is begun (`BeginRemote`, `BeginLocal`), resets its flag (`Reset`), fetches, and records its outcome
(`SettlePrices`, `SettleQuota`, `StoreBilling`, `SettleLocal`); `Drop` is the guard that gives
the slot back and settles a row that is still in progress, unless the database cannot be opened
or written just then, which the code skips or logs: the row stays (`lost`) until an instance
starts. The billing job takes the revision of the authorization when it is asked and
compares it when it stores; the token it sends is read later from the credential store, and
`of` says whose answer it got. Two things are as the code has them and are not properties: an
import has no row while it runs, so one whose last save fails leaves its row in progress; and
the five seconds between two jobs of a kind are checked before the slot is taken.

**Resources** — several instances. MCP servers share one file of a client with each other and
with the user's entries; a skill has one file in a directory that several clients read.
`Preview` fixes the bindings that the plan will write, all of them, `Validate` compares the
state and the files again, `Write` projects with the outcomes of `Transaction`, and `Commit`
saves body, tombstones and bindings, or puts the files back, of which any part may fail
(`Rollback`). `recorded` says whether `state.json` has the publication of the last journal. `Recoverable` are the files an instance can restore: those
of active records and of tombstones, which is why a revoked record leaves one. A published
file that the user deleted is a conflict; it can be revoked and not published again.

**ClientDocuments** — the documents behind a target. A document is a set of entries, each with
the owner and the connection its name or markers claim; a VS Code profile has its own or, if it
inherits, the default profile's; the JetBrains profiles share one; Copilot CLI has an
environment file and a block in the shell profile. `Owned` is the rule by which an adapter
takes an entry for its own, `After` what a publication or a revocation leaves, and
`ProofsAfter` the proofs that `prepare_writes` derives: its loop drops, for each target in turn,
the proofs that `Supersedes` names and adds one, so what is left are the proofs no operation
supersedes and those of the operations that no later one supersedes. `Effective` is the resolver of
endpoints that the JetBrains plugin applies, on path segments, and `Faithful` the rule that
refuses an endpoint it would change. `records` are the deployment records, and `Drift` is the
state the setup assistant shows. A text that is missing or cannot be read is no set of entries
(`TextAssumption`); the configuration gives both as sets of one value that no entry is, so
that TLC can compare them with sets. `Segment` are the segments of paths. The environment of Windows is the environment file without the
profile block; hosts are taken not to be named like versions; the last 200 records are all
records. What an entry contains is its connection's contents, so a configuration that the code
shows as out of date because only its form or its time differs is still current here.

## 4. Runs

| run | question | bounds |
|---|---|---|
| `publication` | can a publication end half done behind the user's back, whatever fails, dies or is edited? | 2 targets, 3 contents, 1 failing call, 1 edit, 2 crashes, 1 plan |
| `publication_liveness` | does keeping the files end every recovery? | 1 target, 1 failure, 1 edit, 1 crash |
| `publications` | do proofs, plans and clients stay together when two instances publish and revoke on a route and in a second client? | 2 instances, 2 connections, 2 plans; two of a save, an edit, a failure and a restart (one when the second client takes part, which starts without foreign entries), saves of Unix |
| `state_and_credential` | can a revision be lost, or a credential be left with another connection? | 2 instances, 2 keys, 3 commands, 2 failures, 1 crash, 1 damaged file, directory syncs of Unix |
| `authorization` | can an identity be shown for another token, an older request win, or a damaged file be overwritten? | 2 instances, 2 tokens, the 5 kinds of answers the code tells apart, 4 of 3 requests, 2 failures or damages and 1 restart |
| `login_runs` | can a client be opened that was not reviewed, or without a trace, a final run change, or an account be shown that was not observed? | 2 instances, 2 runs, a history of 1 run, 3 clients, 2 previews; three of 2 follow-ups, a failure, a change of the machine and a crash (one when the second plan is used); window of 1 |
| `usage_import` | can a line be skipped, usage be given to another session, a total fall or a price change? | 2 instances, 2 records, both kinds of logs, 2 catalogs, 2 lines, 2 files, 1 truncation, 2 imports, 1 price refresh, 1 mishap |
| `usage_jobs` | can usage be stored for another account, an outcome change, a success be forgotten, a Cancel be lost, or a job go on for ever? | 2 tokens, 2 months, 2 jobs of billing alone, prices beside an import, or prices beside the quota; 1 row and 1 snapshot of each family kept, 1 incident (Cancel, failure, other authorization, other instance, restart) |
| `resources` | do bindings and files agree, can a file be restored after a restart, and is a neighbour's entry ever touched? | 2 instances, 2 servers and a skill, 2 targets, 1 tombstone, 2 plans; one or two of a save, an edit, a failure and a restart |
| `client_documents` | are the proofs true, is everything published revocable, are others' entries kept, is "in sync" true? | 2 connections of 4 contents, 5 targets and 4 documents, 3 plans among 4 steps; two changes, an edit, a move or a failure; 312 endpoints, each published once |
| `install_jobs` | can an installer run without a trace or for ever, or a run that ended change? | 2 components, 2 plans, a history of 1 run, 1 change of the machine, 2 mishaps (failures, damaged history, death) |
| `revoked_and_restored` | see Findings | smallest that shows it |

Why the bounds are enough. Two targets show every split of a publication into written,
attempted and unwritten targets (first, middle and last writes coincide with N = 2, and the
proofs cover every N); three contents are before, after and a stranger's. Two instances give
every pairwise race; each race needs one command per instance and one event beside it.
Three commands in `state_and_credential` are what it takes to create, change and delete a
connection. In `usage_import`, two lines with a batch of two and a hashed prefix of one
show a batch that is full and one that is not, a line outside the prefix, and an import
that resumes in the middle. Symmetry is used for interchangeable values and instances in
safety runs only. `publications` also uses a VIEW that forgets recovery reviews that can no
longer be confirmed, and the CONSTRAINT `Bounded` on how many events one behaviour holds;
its properties are proved for every bound; so do `authorization` and `login_runs`, where four,
or three, events make up every race of two requests, or of a follow-up with a save, a failure
and a restart. In `install_jobs` and `login_runs` a history of one run makes
every second run push out the first, and in `usage_jobs` one row and one snapshot make every
second one meet the retention. `usage_jobs` runs at most two kinds at once because kinds share
only the flags' mutex, the rows and the authorization, and the two that share most are
together. In `client_documents` an edit, a move of a client and a failure cost two of the
four steps, so that three plans (a publication or a revocation each) and a change, or two
plans and one of these, fit; an endpoint that is not one of the four usual contents is
published once, to JetBrains, since only its form matters (CONSTRAINT `Bounded`). Deadlock is
not checked: every bound ends in a state where nothing is left to do, and a program without a
request rests.

Every property of a passing run has a mutant in `PROJECT.json`: a dropped guard, a missing
undo, a wrong order or a skipped comparison that makes TLC find it violated.

Exemptions are auxiliary variables with the narrowest meaning: `torn` (a crash or a failed
restore between two stores), `unsynced` (a save reported as failed after it took effect),
`edited` and `stray` (another program, or the user's own choice), `undone` (what was put back
although `state.json` had recorded it: after a crash behind the audit, or an audit that reports a
failure after it replaced `state.json`), `lost` (a row that a dropped guard could not settle),
`blind` (the history was damaged during the run), `mixed` (an instance works with what one
revision says and compares with the bytes of another, or had compared a file just before it was
damaged), `raced` (a clear by another instance, or a truncation,
beside an import that reads on), `overlap` (two saves of a history without a lease), `changed`
(an executable replaced after it was compared), `again` (a file that became once more what an
instance had observed: cleared, removed or damaged). Each is a known gap of the code and is
listed as a hazard.

Three of them have part of their extent from the proofs, where a step could not be proved with
less: `mixed` includes an instance that could
not read the file when it opened, when the file is then damaged and removed (two failures);
`again` includes a file that is damaged twice; `raced` includes a truncation beside an import
that commits a batch which is not its last, since it goes on reading at an offset of the old
contents.

### Fairness

Three runs assume fairness. `WF_vars(Thread)`, in `publication_liveness` and `install_jobs`:
the managed write, or the installation, is a running native thread; each of its file
operations and waits returns. In `usage_jobs` the same holds of the worker of each kind of
job, whose requests have deadlines. An installer is not part of it and may hang. `KeepSpec` adds strong fairness
of asking for "keep current files" when the thread is idle and of confirming that review:
a user who asks again and again. Strong fairness is needed because another review or a
refused confirmation may disable the step in between; the removal itself can fail a bounded
number of times. Nothing is assumed of crashes, edits, failures or of any other command.

## 5. Findings

`revoked_and_restored` — a revocation is committed to `state.json` before its journal is
Committed; after a crash in between, the reviewed Restore puts the configuration of the
deleted connection back into its client.

Gaps that are recorded as hazards, with the exemption of the property that meets them:

- an edit in the window between a check and its replacement is lost;
- a publication recorded as applied has its targets restored after a crash, or, on Unix, after
  an audit that reports a failure although it replaced `state.json`: the proofs say otherwise
  until a later plan for the connection is recorded there (`undone`);
- a guard whose database cannot be opened or written leaves its row in progress;
- on Unix a save of `state.json` that fails in the sync of the directory, after the
  replacement, is reported as failed, and the old credential is put back under the new
  connection (`safe_file.rs:218`, `state.rs:367`; `safe_io.rs:146` avoids exactly this for the
  clients' files and says why);
- cancelling a sign-in, or its timeout, stamps an old observation with the present time, so
  that it is shown as recent again; two instances that save the history at once lose a run;
- an open of the authorization beside a change reads the two stores at different moments;
- a log truncated and rewritten between the reading of a batch and its commit leaves a cursor
  behind lines that were never imported, since the prefix is hashed from the path as it is
  then; a clear of a usage source beside another instance's import does the same;
- a Cancel that comes between the beginning of a job and the reset of its flag is forgotten,
  and one during the list of models leaves the quota recorded as available.

Met while modelling, with no property: a start of another instance marks the rows of running
jobs interrupted; GitHub's request to wait is forgotten with an answer that is not stored; after
a VS Code profile begins to inherit, a connection that was published to it and to the default
profile cannot be published again (two proofs of one target), each attempt is rolled back and
leaves a journal to recover, and its revocation waits for that; a publication to a document that
two targets share shows the other target as changed externally; the preview of a revocation says
that the projection's fingerprint is verified where only the binding is (`commands.rs:641`).

## 6. Proofs

`TransactionProofs` proves, for every number of targets, every set of contents and every
bound, that `Transaction`'s `Spec` implies its type invariant `[]TypeOK`, `[]WriteAhead`, `[]AllOrNothing` and
`[]CommittedIsAudited`. The assumptions are `NAssumption` (at least one target) and
`BoundAssumption`.

None of the three safety properties is inductive: a state in which the thread stands before a write says
nothing, by itself, of the targets before it. The inductive invariant `IInv` adds

- `JournalInv`: a journal on disk belongs to the last publication, every target that left
  its before bytes is within its attempted prefix, and the phases RolledBack and Committed
  say where all targets are;
- `ThreadInv`: at each label, which transaction the thread holds, that its attempted prefix
  is at least the one on disk, and that no rollback ever starts from a Committed journal;
- `ApplyInv`: at each label of `apply()`, exactly which targets hold their after bytes;
- `RollbackInv`: at each label of `rollback()`, while no failure was counted, which targets
  are restored.

There is one lemma per action (`ApplyWriteStep`, `RollbackPersistStep`, ...), over lemmas
about returning, entering a rollback and moving to the next write; `WriteAheadFollows`
derives the write-ahead rule from `IInv`. Targets another program wrote are excluded
(`Ours`), in the proofs as in the runs.

The same module proves `Spec => LostOnlyInWindow`, with an extra invariant on
the labels between a check and a replacement, and `Spec => IsAtomic`: every step of the
journaled, failing, crashing transaction is a step of `AtomicPublication` or leaves it
alone.

`DeploymentProofs` proves, for any sets of instances, connections, targets and routes and
any bounds, that `Deployment`'s `Spec` implies `[]TypeOK`, `[]OwnershipIsTrue`,
`[]ProofsAreSound`, `[]WritesOnce`, `BeginsAsReviewed` and `PendingJournalBlocks`. The
assumptions are that routes are targets, that `Foreign` is no connection, that `Nobody` is
no instance, and that the bounds are numbers. The inductive invariant `IInv` adds

- `LeaseInv`: exactly the instance that executes a plan holds the lease, so the state and
  the journal it validated are the ones it writes beside;
- `PlansInv`: what a plan will write, and the proofs it will record, follow from the state
  and the contents it read; without it nothing relates `state.proofs` after an audit to the
  contents that were written earlier;
- `IdsInv`: an identifier belongs to one preview, stored plan or execution, and none of
  those that are still waiting has begun;
- `RunInv`: at each label of an execution, whose journal is pending, that `state.json` is
  the reviewed one, and what the targets hold;
- `JournalInv`: what the targets of a pending journal may hold in each of its phases, and
  which of its two sides, before or after, the proofs in `state.json` describe (`Agrees`): the
  audit is the moment they change sides, so that a restore, a clear and a keep leave true
  proofs, except of what is then `undone`.

`OwnershipIsTrue` is proved with that exemption and no other than the user's own choices: it
says nothing of the configuration that a recovery puts back behind a recorded publication.

Each conjunct is preserved by a lemma of its own (`TypeStep`, `LeaseStep`, `PlansStep`,
`IdsStep`, `RunStep`, `OwnStep`, `SoundStep`), with one step per action. The two action
properties follow from `IInv` and from the lemmas `OnlyBegin` and `OnlyAudit`, which say
that no other action begins a plan or changes `state.json` beside a journal.

Of `StateStore`, `ConfigurationProofs` proves, for any instances, keys and bounds, that its `Spec`
implies `[]LastGoodIsPrevious`, `[]CredentialBelongs` and `SavesExtend`. The assumption it
uses is that `Nobody` is no instance. A save reads, compares and replaces in separate steps,
so the inductive invariant `IInv` says what is still true between them:

- `LeaseInv`: exactly the instance inside a command holds the lease;
- `ReadInv`: an instance that is not in recovery works with what it read;
- `SaveInv`: from the last comparison on, only another program can have changed what was
  compared, and the last-good copy is already the revision about to be replaced;
- `CleanInv`: what an instance read is damaged only if another program damaged it;
- `KeyInv`: at each label, whether the credential in the store or the one the command found
  belongs to the connection in `state.json`.

Again each conjunct has its lemma (`TypeStep`, `LeaseStep`, `ReadStep`, `SaveStep`,
`CleanStep`, `CopyStep`, `KeyStep`), with one step per action. `SavesExtend` follows from
`SaveInv` at the one action that replaces `state.json`.

Of `ClientDocuments` the same module proves, for any connections, profiles, IDEs, descriptors,
endpoints with paths of any length, requests and bounds, `[]ProofsAreTrue`, `[]StillRevocable`,
`[]EndpointKept`, `[]InSyncIsTrue` and `OthersKept`. The assumptions are that the kinds of
targets are disjoint (`TargetAssumption`), what a connection contains (`BodyAssumption`), that a
request names targets once (`RequestAssumption`), that texts without entries are told from
sets of them (`TextAssumption`), and that bounds are numbers (`StepAssumption`). A publication
writes documents, environment, profile, proofs and records at once, but the user, other
installations, deletions and moves of clients come between two of them, so `DocsInv` says what
stays true of each part:

- `DocProofInv` and `RouteProofInv`: a document, or the environment, has an entry of a
  connection exactly if there is a proof, unless somebody else touched it. A publication to
  targets that share a document keeps the proof of the last (`PublishBinds`), one to a route
  takes the proofs of the others away, and no other connection's are affected (`PublishBound`);
- `EntryInv`: what nobody else touched is at most one entry, with the marker of this
  installation, so an adapter will take it for its own;
- `BlockInv`: a shell profile to which others only added lines has at most one block, that of
  the route; it rests on lemmas about sequences of lines: what `Outside` returns has no
  block (`OutsideFacts`), a block put between two such parts is the only one and leaves
  them outside (`BlockFacts`), and a line of the user's changes none of it (`UserFacts`);
- `EndpointInv`: an entry in `byok.json` is of a connection whose endpoint `Faithful` accepts.
  That this keeps the endpoint is a fact of the resolver alone (`EndpointFacts`, from what
  `Base` leaves of any path, `BaseFacts`);
- `ResultInv`: a record of an applied deployment holds the document, or the environment and
  the profile, with the connection's contents in it, whichever records were since forgotten
  (`ForgetFacts`, over `PickFacts`) or added (`RecordAllFacts`);
- `ProofInv` and `GoneInv`: proofs are of connections that exist, and a deleted one never
  comes back.

Each has its lemma with one step per action, over one lemma per action that says what it
changes (`PublishFacts`, `RevokeFacts`, `EditFacts`, ...). `StillRevocable` then follows without
another step: where nothing was touched, every guard of a revocation holds. `InSyncIsTrue`
follows because what is shown as in sync is what the last record holds. `OthersKept` follows from
`WriteFacts`, what a step leaves in each document, and from the lemmas about lines.

`GithubAuthorizationProofs` proves, for any instances, tokens, sets of answers and bounds,
`[]StatusIsOfToken`, `LatestStartedWins` and `DamagedIsKept`, from `TokenAssumption`,
`NobodyAssumption` and `BoundAssumption`. Validation runs without a lock
and two stores are changed one after the other, so `IInv` says what an answer may still rely on:

- `LeaseInv`: exactly the instance that changes something holds the lease;
- `FlightInv`: while an instance stores an answer, none of its requests in flight is current;
- `FreshInv`: what an answer will write was never seen before, so equal bytes mean an
  unchanged file;
- `ViewInv`: an instance that sees the file as it observed it works with what the file says;
- `SecretInv`: at each label, which token the file is about, the stored one or the previous;
- `RefreshInv`: a refresh that can still be recorded was sent with the token the file is about;
- `LatestInv`: a request that can still be stored began after the one stored last.

`LoginPlansProofs` proves, for any instances, surfaces, accounts, plans, runs and bounds,
`[]ShownWasObserved`, `[]OpensOnceAsReviewed`, `[]OpenedIsRecorded` and `FinalRunsStand` of the
composed specification. Its assumptions are `CliAssumption`, `SurfaceAssumption`,
`PlanAssumption` and `BoundAssumption`. The history is read without a lock, so the heart of `IInv` is

- `SaveInv`: the history that a save will write continues the one this instance last read or
  wrote: final runs and steps stay, and an account is only named as the probe saw it. If the
  comparison still holds when the file is replaced, that is the history on disk;
- `MemInv`: an instance works with what it last read or wrote, unless its history is
  read-only; `LabelInv`: which save belongs to which label of the thread; `SoundInv`: only a
  run that was probed names an account;
- `SoundInv` also dates the runs of a history (`Dated`): no two were begun at once, so that
  truncation drops exactly the oldest (`TruncatedFacts`), and a history continues another if it
  keeps its runs or has as many later ones instead (`Continues`, `ContinuesItself`, `GoesOn`);
- `LaunchInv`: the run of a plan that is being launched is on disk with the steps of that plan,
  or was pushed out (`StillRecorded`), and its clients are the reviewed ones or were replaced
  since;
- `PlansInv` and `OpenedInv`: a number belongs to one plan, which is stored or launched or has
  been, and never opens a client twice; `ProbedInv`: what the disk says was probed.

`UsageProofs` proves, of `UsageImport`, for any instances, records, catalogs, sizes of batches
and prefixes and any bounds, `[]CursorCoversRecords`, `[]UsageOfItsSession`, `PriceStands` and
`TotalsGrow`, from `EventAssumption`, `BatchAssumption`, `BoundAssumption` and
`ObservationAssumption` (no observation is None). A cursor says nothing of the lines before it unless it is known which file they
were read from, so `ImportInv`, the heart of `IInv`, states that a cursor, stored or of a
running import, either follows the file it names (each line before it is stored or in the
batch, and its session is the one started last) or was outlived by it: the file was truncated
in place, and every line of it is younger than the prefix the cursor remembers, so that the
comparison of the prefix must fail. `FileInv` is what the other program writes: lines in order
of time, and the identity of a session from its start on. The lemmas `FollowsKept`,
`FaithfulKept` and `ResumedCovers` say that a cursor stays faithful while files grow, and what
the rule `Resets` decides with it. `RecordInv`, `OpenInv` and `OwnerInv` relate records, open
files and sessions. `PriceStands` and `TotalsGrow` follow from `StoredStep`: each step replaces
what is stored by later observations that keep the price, or clears the source.

Of `UsageJobs` it proves, for any tokens, months, kinds of jobs, limits and bounds,
`[]UsageIsOfOwner`, `OutcomesStand`, `CancelIsKept` and `LastSuccessKept`, from
`JobBoundAssumption` alone. `JobsInv` adds to the types

- `OwnersInv`: the reports a job holds are about the account they will be stored for, as those
  in the database are;
- `RowsInv`: each job works under an identifier of its own, below the next one, and the row of
  a job that has not settled is in progress or interrupted, so that nobody writes over an
  outcome;
- `ToldInv`: a job that was cancelled while it fetched finds its flag raised and has no success
  in hand.

Retention keeps a set of positions in their order, so the proofs rest on lemmas about the
operators `Rank` and `Pick`: the rank is a bijection from the kept positions to an initial
segment (`RankFacts`), `Pick` returns exactly the kept elements (`PickFacts`), and hence what an
insertion (`InsertedKeeps`), the list of quotas (`KeptFacts`), a save (`SavedFacts`), a guard
(`AbandonedFacts`) and a start (`RecoveredFacts`) keep. `Effects` reduces the actions to the
six things a step can do to the rows.

`InstallJobsProofs` proves, for any components, plans, lengths of the history and bounds,
`[]Prepared` and `HistoryStands`, from `ComponentAssumption` and `BoundAssumption`. `HistoryInv`:
the file is what was last read or written unless it was damaged, and the runs in memory are
those; `FreshInv`: no plan that can still be executed has the identifier of a run; `ThreadInv`:
the run that the thread executes is the one Running run of the history, with the component and
the results the thread knows. A start of an installer is then always announced on disk.

`ResourcesProofs` proves, for any instances, records, targets and bounds, `[]BindingsAreTrue`,
`[]RecoveryKnowsTheFiles` and `OnlyTheReviewedEntry`, from `NameAssumption` and
`BoundAssumption`. `PlansInv`: a plan changes the entry of its record alone, in files of
that record, and the bindings it will save are those of the state it was reviewed with except
where it writes; `JournalInv`: a pending journal is of a record that is active or has a
tombstone, and its files are all after, with the bindings, or can be rolled back; `RunInv`: at
each label, what the files hold and which side the bindings describe.

The type invariants of the proofs, those of `Transaction` and `Deployment` among them, and
`CommittedIsAudited` are stated in the proofs only: they hold for every bound, so no run
repeats them.

Only model-checked: liveness (`KeepEndsRecovery`, `RunEnds`, `JobsEnd`; it needs ENABLED, which
the prover does not handle); and `RemovedAfterRevocation`, which fails.

## 7. Not modelled

`PROJECT.json` gives the reason for each component. In short:

- the contents of the documents the adapters read and write, the fields of usage records, the
  parsers of lines, the arithmetic of prices and of totals are data of which the models keep
  what the properties compare; the queries over the database only read it;
- HTTP, child processes, windows and the operating system are an environment that answers,
  fails or does not; the native window and its saved size hold nothing the rest depends on;
- of the setup assistant, its summaries of other components are reads, and its preferences
  are one row that is read, changed and saved under one mutex;
- model discovery asks one provider once, within limits, and keeps nothing;
- what `identity.rs`, `source.rs` and `catalog.rs` verify of an installer is one fingerprint;
- caps that only drop the oldest of very many (200 deployment records, 16 pending plans of the
  installer) are left out; those that a property is about are modelled (the histories of
  sign-ins and of installations, the rows and snapshots of usage);
- the interface holds views, and the commands check again whatever it asks; the scripts of
  releases and tests are not part of the running system.
