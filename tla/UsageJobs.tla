------------------------------ MODULE UsageJobs ------------------------------
(***************************************************************************)
(* The background jobs of one running instance: the import of logs, and    *)
(* the refreshes of the price catalog, of the quota of the official        *)
(* runtime and of the personal GitHub billing (usage/commands.rs,          *)
(* usage/runtime.rs, github_billing.rs, github_billing_store.rs).          *)
(*                                                                         *)
(* A job of each kind has a busy and a cancel flag in memory and a row in  *)
(* the database, which other instances open too.  The authorization is     *)
(* what GithubAuthorization models, seen from one instance: a token is its *)
(* own identity.                                                           *)
(***************************************************************************)
EXTENDS Naturals, Sequences, FiniteSets

CONSTANTS
    Token,    \* GitHub tokens, each of another account
    NoToken,  \* no token, no identity
    Period,   \* billing months
    KindSets, \* the combinations of kinds that a behaviour asks for
    MaxRows,  \* usage_jobs keeps so many rows
    MaxShots, \* MAX_BILLING_SNAPSHOTS_PER_FAMILY, and the limit of the quota snapshots
    MaxJobs, MaxIncidents, MaxTime \* bounds; an incident is a cancel, a failure, a change, ...

\* Both limits of the database are positive.
ASSUME JobBoundAssumption == /\ {MaxRows, MaxShots} \subseteq Nat \ {0}
                             /\ {MaxJobs, MaxIncidents, MaxTime} \subseteq Nat

Remote == {"price", "runtime", "billing"}
Kind   == Remote \cup {"local"}
Family == {"ai-credit", "premium-request"}

VARIABLES
    kinds,   \* the kinds of jobs that are asked for
    busy,    \* the busy flag of each kind
    cancel,  \* the cancel flag of each kind
    cooling, \* the kinds that were begun within the last five seconds
    job,     \* the command of each kind: where it is, and what it holds
    rows,    \* usage_jobs, by rowid
    shots,   \* github_billing_snapshots, by time
    quotas,  \* official_quota_snapshots, by time
    auth,    \* the authorization as this instance has it: identity, failure, revision
    keyring, \* the stored token, shared by all instances
    now,     \* hours, say: GitHub asks to wait for some of them
    told,    \* auxiliary: the kinds whose fetch the user cancelled
    lost,    \* auxiliary: the jobs whose rows a guard could not settle, until a start does
    left     \* what is left of the bounds

flags  == <<busy, cancel, cooling, told, lost>>
tables == <<rows, shots, quotas>>
who    == <<auth, keyring>>
jvars  == <<kinds, flags, job, tables, who, now, left>>

Failures == {"unavailable", "schema-error", "rate-limited"} \* and the like
Good     == {"available", "successful-empty"}
Status   == Good \cup Failures \cup {"canceled", "partial", "interrupted", "in-progress"}

Somebody == CHOOSE t \in Token : TRUE

Row   == [id : 1..MaxJobs, kind : Kind, status : Status]
Shot  == [owner : Token, family : Family, period : Period, of : Token \cup {NoToken},
          status : Good \cup Failures, retry : 0..(MaxTime + 1)]
Quota == Status

NoJob == [at |-> "idle", id |-> 0, owner |-> NoToken, token |-> NoToken, rev |-> 0,
          period |-> CHOOSE p \in Period : TRUE, status |-> "in-progress",
          shots |-> <<>>, stage |-> 0, quota |-> "in-progress"]

Take(b) == left[b] > 0 /\ left' = [left EXCEPT ![b] = @ - 1]
Incident == Take("incident")
NoIncident == UNCHANGED left

Do(k, new) == job' = [job EXCEPT ![k] = new]

JInit ==
    /\ kinds \in KindSets
    /\ busy = [k \in Kind |-> FALSE] /\ cancel = [k \in Kind |-> FALSE]
    /\ cooling = {} /\ told = {} /\ lost = {}
    /\ job = [k \in Kind |-> NoJob]
    /\ rows = <<>> /\ shots = <<>> /\ quotas = <<>>
    /\ auth = [who |-> Somebody, failed |-> FALSE, rev |-> 0] /\ keyring = Somebody
    /\ now = 0
    /\ left = [job |-> MaxJobs, incident |-> MaxIncidents]

-----------------------------------------------------------------------------
(***************************************************************************)
(* Rows and snapshots.                                                     *)
(***************************************************************************)
Newest(s, n) == IF Len(s) <= n THEN s ELSE SubSeq(s, Len(s) - n + 1, Len(s))

\* save_run updates the row or adds it as the newest, and keeps the newest.
Saved(row) ==
    LET same == {n \in DOMAIN rows : rows[n].id = row.id} IN
    Newest(IF same # {} THEN [n \in DOMAIN rows |-> IF n \in same THEN row ELSE rows[n]]
                        ELSE Append(rows, row), MaxRows)

RowOf(k, status) == [id |-> job[k].id, kind |-> k, status |-> status]

AbandonedAnyway(k) ==
    [n \in DOMAIN rows |-> IF rows[n].id = job[k].id THEN RowOf(k, "unavailable") ELSE rows[n]]

AbandonedNever(k) == rows

\* finish_abandoned changes only the row of a job that has no outcome yet.
Abandoned(k) ==
    [n \in DOMAIN rows |->
        IF rows[n] = RowOf(k, "in-progress") THEN RowOf(k, "unavailable") ELSE rows[n]]

\* store::recover, when an instance starts, of the rows that any instance left.
Recovered ==
    [n \in DOMAIN rows |->
        IF rows[n].status = "in-progress" THEN [rows[n] EXCEPT !.status = "interrupted"]
                                          ELSE rows[n]]

Alike(a, b) == a.owner = b.owner /\ a.family = b.family

\* The snapshots n of all that are beyond the limit of their owner and family ...
Excess(all) ==
    {n \in DOMAIN all :
        Cardinality({o \in DOMAIN all : o > n /\ Alike(all[o], all[n])}) >= MaxShots}

NoLastSuccesses(all) == {}

\* ... except the last success of each period.
LastSuccesses(all) ==
    {n \in DOMAIN all :
        /\ all[n].status \in Good
        /\ \A o \in DOMAIN all :
              (o > n /\ Alike(all[o], all[n]) /\ all[o].status \in Good)
                 => all[o].period # all[n].period}

\* The elements of all at the positions in keep, in their order.
Rank(keep, o) == Cardinality({q \in keep : q <= o})
Pick(all, keep) ==
    [n \in 1..Cardinality(keep) |-> all[CHOOSE o \in keep : Rank(keep, o) = n]]

\* insert_snapshots adds an answer of each of one or two families, and trims them.
Inserted(new) ==
    LET all == shots \o new IN Pick(all, DOMAIN all \ (Excess(all) \ LastSuccesses(all)))

\* What load_snapshot finds newest, of one period or of any.
LatestOf(t, f, P) ==
    {shots[n] : n \in {m \in DOMAIN shots :
        /\ shots[m].owner = t /\ shots[m].family = f /\ shots[m].period \in P
        /\ \A o \in DOMAIN shots : (o > m /\ Alike(shots[o], shots[m])) => shots[o].period \notin P}}

MustWait(t, p) ==
    \E f \in Family : \E s \in LatestOf(t, f, Period) : s.retry > now

\* runtime::save keeps the newest and the newest successes.
KeptQuotas(all) ==
    LET good == {n \in DOMAIN all : all[n] \in Good}
        keep == {n \in DOMAIN all : Cardinality({o \in DOMAIN all : o > n}) < MaxShots}
                \cup {n \in good : Cardinality({o \in good : o > n}) < MaxShots}
    IN Pick(all, keep)

-----------------------------------------------------------------------------
(***************************************************************************)
(* The beginning and the end of a job.                                     *)
(***************************************************************************)

\* refresh_personal_github_usage reads the authorization and the previous answers; the
\* token is in the credential store, the identity in this instance's memory.
AskBilling(p) ==
    /\ "billing" \in kinds /\ job["billing"].at = "idle"
    /\ auth.who # NoToken /\ ~auth.failed /\ keyring # NoToken
    /\ ~MustWait(auth.who, p)
    /\ Do("billing", [NoJob EXCEPT !.at = "asked", !.owner = auth.who, !.token = keyring,
                                   !.rev = auth.rev, !.period = p])
    /\ UNCHANGED <<kinds, flags, tables, who, now, left>>

NextId == 1 + MaxJobs - left.job

\* JobGuard::begin takes the busy flag and begin_remote saves the row, unless the last
\* attempt is too recent or the row cannot be saved: the guard is dropped again.
BeginRemote(k) ==
    /\ k \in kinds \cap Remote
    /\ job[k].at = IF k = "billing" THEN "asked" ELSE "idle"
    /\ ~busy[k]
    /\ \/ /\ k \notin cooling /\ Take("job")
          /\ busy' = [busy EXCEPT ![k] = TRUE]
          /\ cooling' = cooling \cup {k}
          /\ Do(k, [job[k] EXCEPT !.at = "begun", !.id = NextId])
          /\ rows' = Saved([id |-> NextId, kind |-> k, status |-> "in-progress"])
       \/ /\ k = "billing" /\ (Incident \/ (NoIncident /\ k \in cooling))
          /\ Do(k, NoJob)
          /\ UNCHANGED <<busy, cooling, rows>>
    /\ UNCHANGED <<kinds, cancel, told, lost, shots, quotas, who, now>>

\* sync_local_usage has no row of its own: importer::sync saves one for each source.
BeginLocal ==
    /\ "local" \in kinds /\ job["local"].at = "idle" /\ ~busy["local"]
    /\ Take("job")
    /\ busy' = [busy EXCEPT !["local"] = TRUE]
    /\ Do("local", [NoJob EXCEPT !.at = "begun", !.id = NextId])
    /\ UNCHANGED <<kinds, cancel, cooling, told, lost, tables, who, now>>

\* A cancellation of the previous job is forgotten, and one that came just before.
Reset(k) ==
    /\ job[k].at = "begun"
    /\ cancel' = [cancel EXCEPT ![k] = FALSE] /\ told' = told \ {k}
    /\ Do(k, [job[k] EXCEPT !.at = "fetch"])
    /\ UNCHANGED <<kinds, busy, cooling, lost, tables, who, now, left>>

StillTaken(k) == busy
Released(k) == [busy EXCEPT ![k] = FALSE]

\* The guard is dropped however the command ends: first the row, then the slot.  If the
\* database fails just then, that is at most logged, and the row stays as it is.
Drop(k) ==
    /\ job[k].at = "drop"
    /\ \/ rows' = (IF k \in Remote THEN Abandoned(k) ELSE rows) /\ UNCHANGED lost
       \/ /\ k \in Remote /\ Abandoned(k) # rows
          /\ lost' = lost \cup {job[k].id} /\ UNCHANGED rows
    /\ busy' = Released(k)
    /\ Do(k, NoJob)
    /\ UNCHANGED <<kinds, cancel, cooling, told, shots, quotas, who, now, left>>

\* finish_remote, or a failure before or in it.
FinishWith(k, status) ==
    /\ \/ NoIncident /\ rows' = Saved(RowOf(k, status))
       \/ Incident /\ UNCHANGED rows
    /\ Do(k, [job[k] EXCEPT !.at = "drop"])

-----------------------------------------------------------------------------
(***************************************************************************)
(* The price catalog.                                                      *)
(***************************************************************************)
FetchPrices ==
    /\ job["price"].at = "fetch"
    /\ \E status \in {"available", "unavailable"} :
          Do("price", [job["price"] EXCEPT !.at = "answered", !.status = status])
    /\ UNCHANGED <<kinds, flags, tables, who, now, left>>

OutcomeIgnoringCancel == job["price"].status
OutcomeOfPrices == IF cancel["price"] THEN "canceled" ELSE job["price"].status

\* The flag is read once, after the answer.  (The save of the catalog and the binding
\* are those of UsageImport.)
SettlePrices ==
    /\ job["price"].at = "answered"
    /\ FinishWith("price", OutcomeOfPrices)
    /\ UNCHANGED <<kinds, flags, shots, quotas, who, now>>

-----------------------------------------------------------------------------
(***************************************************************************)
(* The quota of the official runtime: four requests to a child process,    *)
(* each of which the flag and the common deadline of 35 seconds can end.   *)
(***************************************************************************)
\* The requests are connect, auth.getStatus, account.getQuota and models.list; a failure
\* of the first two ends the snapshot, the models are asked for even without a quota and
\* decide nothing else.
Request ==
    LET j == job["runtime"]
        answer == IF cancel["runtime"] THEN {"canceled"} ELSE {"available", "unavailable"}
    IN
    /\ j.at = "fetch" /\ j.stage < 4
    /\ \E a \in answer :
          Do("runtime", CASE j.stage < 2 /\ a # "available" ->
                                [j EXCEPT !.stage = 4, !.quota = a]
                          [] j.stage = 2 -> [j EXCEPT !.stage = 3, !.quota = a]
                          [] OTHER -> [j EXCEPT !.stage = @ + 1])
    /\ UNCHANGED <<kinds, flags, tables, who, now, left>>

\* An account without quotas is a success too.
StatusOfQuota == IF job["runtime"].quota = "available" THEN Good ELSE {job["runtime"].quota}

\* The snapshot is saved whatever it says, and then the outcome.
SaveQuota ==
    LET j == job["runtime"] IN
    /\ j.at = "fetch" /\ j.stage = 4
    /\ \/ /\ NoIncident
          /\ \E status \in StatusOfQuota :
                /\ quotas' = KeptQuotas(Append(quotas, status))
                /\ Do("runtime", [j EXCEPT !.at = "answered", !.status = status])
       \/ Incident /\ Do("runtime", [j EXCEPT !.at = "drop"]) /\ UNCHANGED quotas
    /\ UNCHANGED <<kinds, flags, rows, shots, who, now>>

SettleQuota ==
    /\ job["runtime"].at = "answered"
    /\ FinishWith("runtime", job["runtime"].status)
    /\ UNCHANGED <<kinds, flags, shots, quotas, who, now>>

-----------------------------------------------------------------------------
(***************************************************************************)
(* The personal billing.                                                   *)
(***************************************************************************)
NextFamily(j) == IF j.shots = <<>> THEN "ai-credit" ELSE "premium-request"

AcceptsAny(j, reported) == TRUE

\* parse_report accepts only a report about the login it was asked for.
Accepts(j, reported) == reported = j.owner

\* fetch_family: what GitHub answers to the token, for the owner's report.
Answers(j) ==
    LET shot(status, of, retry) ==
            [owner |-> j.owner, family |-> NextFamily(j), period |-> j.period,
             of |-> of, status |-> status, retry |-> retry]
    IN {shot("unavailable", NoToken, 0), shot("rate-limited", NoToken, now + 1)}
       \cup IF Accepts(j, j.token) THEN {shot("available", j.token, 0)}
                                   ELSE {shot("schema-error", NoToken, 0)}

\* fetch_personal_billing looks at the flag before each family.
FetchFamily ==
    LET j == job["billing"] IN
    /\ j.at = "fetch"
    /\ IF cancel["billing"] \/ Len(j.shots) = 2
       THEN Do("billing", [j EXCEPT !.at = "answered"])
       ELSE \E s \in Answers(j) : Do("billing", [j EXCEPT !.shots = Append(@, s)])
    /\ UNCHANGED <<kinds, flags, tables, who, now, left>>

\* After the answer the flag is read once more ...
CheckCancel ==
    /\ job["billing"].at = "answered"
    /\ IF cancel["billing"]
       THEN FinishWith("billing", "canceled")
       ELSE Do("billing", [job["billing"] EXCEPT !.at = "store"]) /\ NoIncident /\ UNCHANGED rows
    /\ UNCHANGED <<kinds, flags, shots, quotas, who, now>>

\* ... and the authorization must be the one whose token was sent: it stays locked until
\* the answer is stored.
SameAuthorization(j) == auth.rev = j.rev /\ auth.who = j.owner /\ keyring # NoToken

StoreBilling ==
    LET j == job["billing"]
        outcome == IF \A n \in DOMAIN j.shots : j.shots[n].status \in Good
                   THEN "available" ELSE "partial"
    IN
    /\ j.at = "store"
    /\ IF SameAuthorization(j)
       THEN \/ shots' = Inserted(j.shots) /\ FinishWith("billing", outcome)
            \/ /\ Incident /\ Do("billing", [j EXCEPT !.at = "drop"])
               /\ UNCHANGED <<rows, shots>>
       ELSE FinishWith("billing", "canceled") /\ UNCHANGED shots
    /\ UNCHANGED <<kinds, flags, quotas, who, now>>

-----------------------------------------------------------------------------
(***************************************************************************)
(* The import of logs, as UsageImport describes it, seen as a job.         *)
(***************************************************************************)
SaveLocalRow ==
    /\ job["local"].at = "fetch" /\ job["local"].stage = 0
    /\ \/ NoIncident /\ rows' = Saved(RowOf("local", "in-progress"))
          /\ Do("local", [job["local"] EXCEPT !.stage = 1])
       \/ Incident /\ Do("local", [job["local"] EXCEPT !.at = "drop"]) /\ UNCHANGED rows
    /\ UNCHANGED <<kinds, flags, shots, quotas, who, now>>

\* sync_source reads the flag a last time after the last log.
SyncSource ==
    /\ job["local"].at = "fetch" /\ job["local"].stage = 1
    /\ \E status \in IF cancel["local"] THEN {"canceled"} ELSE Good \cup {"partial"} :
          Do("local", [job["local"] EXCEPT !.at = "answered", !.status = status])
    /\ UNCHANGED <<kinds, flags, tables, who, now, left>>

SettleLocal ==
    /\ job["local"].at = "answered"
    /\ FinishWith("local", job["local"].status)
    /\ UNCHANGED <<kinds, flags, shots, quotas, who, now>>

-----------------------------------------------------------------------------
(***************************************************************************)
(* Everything else that happens.                                           *)
(***************************************************************************)

\* The last look at the flag of a job of this kind is still to come; of a runtime, the
\* last that decides the outcome: the models may be cancelled and the quota be stored.
WillLook(k) ==
    CASE k = "runtime" -> job[k].at = "fetch" /\ job[k].stage < 3
      [] k = "local"   -> job[k].at = "fetch"
      [] OTHER         -> job[k].at \in {"fetch", "answered"}

\* cancel_usage_sync cancels every kind.
Cancel ==
    /\ Incident
    /\ cancel' = [k \in Kind |-> TRUE]
    /\ told' = told \cup {k \in Kind : WillLook(k)}
    /\ UNCHANGED <<kinds, busy, cooling, lost, job, tables, who, now>>

\* begin_attempt raises the revision; then the authorization is replaced or cleared, or
\* a rejected validation is recorded with the identity it is about.
ChangeAuthorization ==
    /\ Incident
    /\ \/ \E t \in Token \cup {NoToken} :
             /\ auth' = [who |-> t, failed |-> FALSE, rev |-> auth.rev + 1]
             /\ keyring' = t
       \/ /\ auth' = [auth EXCEPT !.failed = auth.who # NoToken, !.rev = @ + 1]
          /\ UNCHANGED keyring
    /\ UNCHANGED <<kinds, flags, job, tables, now>>

\* Another instance stores another token, or none; this one does not look.
ElsewhereChanges ==
    /\ Incident
    /\ \E t \in Token \cup {NoToken} : keyring' = t
    /\ UNCHANGED <<kinds, flags, job, tables, auth, now>>

\* Another instance starts, and takes the running jobs for abandoned ones.
ElsewhereStarts ==
    /\ Incident /\ rows' = Recovered /\ lost' = {}
    /\ UNCHANGED <<kinds, busy, cancel, cooling, told, job, shots, quotas, who, now>>

\* This instance dies and is started again.
Restart ==
    /\ Incident
    /\ busy' = [k \in Kind |-> FALSE] /\ cancel' = [k \in Kind |-> FALSE]
    /\ cooling' = {} /\ told' = {} /\ lost' = {}
    /\ job' = [k \in Kind |-> NoJob]
    /\ rows' = Recovered
    /\ auth' = [auth EXCEPT !.rev = 0]
    /\ UNCHANGED <<kinds, shots, quotas, keyring, now>>

FiveSecondsPass(k) ==
    /\ k \in cooling /\ cooling' = cooling \ {k}
    /\ UNCHANGED <<kinds, busy, cancel, told, lost, job, tables, who, now, left>>

TimePasses ==
    /\ now < MaxTime /\ now' = now + 1
    /\ UNCHANGED <<kinds, flags, job, tables, who, left>>

\* The steps of the command of one kind.
Work(k) ==
    \/ BeginRemote(k) \/ Reset(k) \/ Drop(k)
    \/ k = "price" /\ (FetchPrices \/ SettlePrices)
    \/ k = "runtime" /\ (Request \/ SaveQuota \/ SettleQuota)
    \/ k = "billing" /\ (FetchFamily \/ CheckCancel \/ StoreBilling)
    \/ k = "local" /\ (SaveLocalRow \/ SyncSource \/ SettleLocal)

JNext == \/ \E p \in Period : AskBilling(p)
         \/ BeginLocal
         \/ \E k \in Kind : Work(k)
         \/ Cancel \/ ChangeAuthorization \/ ElsewhereChanges \/ ElsewhereStarts \/ Restart
         \/ \E k \in Remote : FiveSecondsPass(k)
         \/ TimePasses

JSpec == JInit /\ [][JNext]_jvars

\* The workers are threads, and every request they make has a deadline.
JFairSpec == JSpec /\ \A k \in Kind : WF_jvars(job[k].at # "idle" /\ Work(k))

-----------------------------------------------------------------------------
(***************************************************************************)
(* Properties.                                                             *)
(***************************************************************************)

\* The usage stored for an account is that account's, although the token and the identity
\* are read from two stores and another instance may change one of them in between.
UsageIsOfOwner == \A n \in DOMAIN shots : shots[n].status \in Good => shots[n].of = shots[n].owner

\* An outcome that was recorded stands; only a row that a start of another instance gave
\* up may still get its real outcome.
OutcomesStand ==
    [][\A n \in DOMAIN rows, m \in DOMAIN rows' :
          (rows'[m].id = rows[n].id /\ rows[n].status \notin {"in-progress", "interrupted"})
             => rows'[m] = rows[n]]_rows

\* However many later answers fail, the last success of an account and month is kept, and
\* the last success of the quota.
LastSuccessKept ==
    [][/\ \A n \in DOMAIN shots : shots[n].status \in Good =>
             \E m \in DOMAIN shots' : /\ Alike(shots[n], shots'[m])
                                      /\ shots'[m].period = shots[n].period
                                      /\ shots'[m].status \in Good
       /\ (\E n \in DOMAIN quotas : quotas[n] \in Good) => \E n \in DOMAIN quotas' : quotas'[n] \in Good]_<<shots, quotas>>

\* A job that is cancelled while it fetches is never recorded as a success.  (A Cancel
\* between its beginning and the reset of its flag is forgotten.)
CancelIsKept ==
    [][\A m \in DOMAIN rows' :
          (rows'[m].kind \in told /\ \A n \in DOMAIN rows : rows[n] # rows'[m])
             => rows'[m].status \notin Good]_jvars

\* Every job ends and gives its slot back, and by then no row of its kind is left in
\* progress (JobGuard::drop: "must not leave an InProgress row"), except one that a guard
\* could not settle because the database failed as it was dropped, and that no instance
\* has settled by starting since.  The row of an import has no such guard.
JobsEnd ==
    \A k \in Kind :
        busy[k] ~> /\ ~busy[k]
                   /\ k \in Remote =>
                         \A n \in DOMAIN rows :
                             rows[n].kind = k /\ rows[n].status = "in-progress"
                                => rows[n].id \in lost
=============================================================================
