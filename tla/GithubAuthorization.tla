------------------------ MODULE GithubAuthorization ------------------------
(***************************************************************************)
(* The separate GitHub authorization (github_auth.rs and its commands in   *)
(* commands.rs): a token in the credential store and its validated         *)
(* identity in github-authorization.json, changed by requests that are     *)
(* validated by GitHub without a lock and may answer in any order, in      *)
(* several running instances; the status that each of them shows; and a    *)
(* file that was damaged or written by a newer version.                    *)
(***************************************************************************)
EXTENDS Naturals

CONSTANTS
    Instance,  \* running instances of the application
    Token,     \* GitHub tokens; the identity of a token is the token itself
    NoToken,   \* no token, no identity
    Response,  \* what GitHub may answer to the two calls of a validation
    MaxRequests, MaxFaults, MaxRestarts  \* bounds

ASSUME TokenAssumption == NoToken \notin Token
\* The calls are GET /user and, if it identified the token's account, GET of its billing.
UserAnswer    == {"user", "401", "403", "unexpected", "unreachable",
                  "invalid scopes", "invalid body", "invalid identity"}
BillingAnswer == {"report", "403", "404", "unexpected", "unreachable", "invalid report"}
ASSUME ResponseAssumption == Response \subseteq [user : UserAnswer, billing : BillingAnswer]
ASSUME BoundAssumption == {MaxRequests, MaxFaults, MaxRestarts} \subseteq Nat

VARIABLES
    meta,      \* github-authorization.json
    keyring,   \* the token in the credential store
    lease,     \* the instance that holds the write lease, or Nobody
    state,     \* the metadata each instance works with
    observed,  \* the bytes it last read or wrote (observed_bytes)
    rev,       \* its revision: the latest-started request wins
    flight,    \* its requests that GitHub has not answered
    pc,        \* where the change it makes under the store's mutex stands
    job,       \* the answered request it stores
    prev,      \* the token found before that
    recovery,  \* it could not load the file: it must not write it
    latest,    \* auxiliary: the latest request whose outcome, or clearing, is stored
    torn,      \* auxiliary: a crash or a failed restore parted token and identity
    mixed,     \* auxiliary: an instance works with the state of one revision and the
               \* bytes of another, refreshed a token between two writes, or had compared
               \* the file just before it was damaged
    again,     \* auxiliary: the file became again what another instance had observed
    budget     \* what is left of each bound

disk == <<meta, keyring>>
mem  == <<state, observed, rev, flight, recovery>>
aux  == <<latest, torn, mixed, again>>
vars == <<disk, lease, mem, pc, job, prev, aux, budget>>

Nobody  == "nobody"
None    == "none"
ASSUME NobodyAssumption == Nobody \notin Instance

Who     == Token \cup {NoToken}
Stamp   == 0..(MaxRequests + 2)

\* GithubAuthorizationState and GithubBillingCapability.
Failure    == {"unauthorized", "forbidden", "network", "schema"}
Capability == {"available", "denied", "notCovered", "unavailable", "unknown"}

\* The file.  Every write differs from all others (stamp) by the time it records, except
\* that a cleared file is always the same.  of (auxiliary) is the token that failed.
Meta    == [ok : BOOLEAN, who : Who, cap : Capability, failure : Failure \cup {None},
            of : Who, stamp : Stamp]
NoFile  == [ok |-> TRUE, who |-> NoToken, cap |-> "unknown", failure |-> None,
            of |-> NoToken, stamp |-> 0]
Cleared == [NoFile EXCEPT !.stamp = 1]
Damaged == [NoFile EXCEPT !.ok = FALSE]

Id      == 1..MaxRequests
\* calm (auxiliary): no instance was between its two writes when the request began.
Request == [id : Id, kind : {"authorize", "refresh"}, token : Token, rev : Nat,
            calm : BOOLEAN]
NoJob   == [id |-> 0]

Spend(k) == budget[k] > 0 /\ budget' = [budget EXCEPT ![k] = @ - 1]
Fault == Spend("fault")
Works == UNCHANGED budget
NewId == MaxRequests - budget.request + 1

Goto(i, label) == pc' = [pc EXCEPT ![i] = label]
Return(i) == /\ Goto(i, "idle") /\ lease' = Nobody
             /\ job' = [job EXCEPT ![i] = NoJob]

Init ==
    /\ \/ meta \in {NoFile, Cleared} /\ keyring = NoToken
       \/ \E t \in Token :
             /\ meta = [NoFile EXCEPT !.who = t, !.cap = "available", !.stamp = 2]
             /\ keyring = t
    /\ lease = Nobody
    /\ state = [i \in Instance |-> NoFile] /\ observed = [i \in Instance |-> NoFile]
    /\ rev = [i \in Instance |-> 0] /\ flight = [i \in Instance |-> {}]
    /\ recovery = [i \in Instance |-> FALSE]
    /\ pc = [i \in Instance |-> "closed"]
    /\ job = [i \in Instance |-> NoJob] /\ prev = [i \in Instance |-> NoToken]
    /\ latest = 0 /\ torn = FALSE /\ mixed = FALSE /\ again = FALSE
    /\ budget = [request |-> MaxRequests, fault |-> MaxFaults, restart |-> MaxRestarts]

-----------------------------------------------------------------------------
(***************************************************************************)
(* open_at_with_backend parses the file, and then reads its bytes again.   *)
(***************************************************************************)

\* load_state: of a file that it cannot read or refuses, nothing is known.
OpenState(i) ==
    /\ pc[i] = "closed"
    /\ \E loads \in BOOLEAN :
          /\ IF loads THEN meta.ok /\ Works ELSE Fault \/ (~meta.ok /\ Works)
          /\ state' = [state EXCEPT ![i] = IF loads THEN meta ELSE NoFile]
          /\ recovery' = [recovery EXCEPT ![i] = ~loads]
          /\ Goto(i, IF loads THEN "opening" ELSE "idle")
    /\ observed' = [observed EXCEPT ![i] = NoFile]
    /\ rev' = [rev EXCEPT ![i] = 0]
    /\ UNCHANGED <<disk, lease, flight, job, prev, aux>>

OpenBytes(i) ==
    /\ pc[i] = "opening"
    /\ \/ Works /\ observed' = [observed EXCEPT ![i] = meta]
       \/ Fault /\ UNCHANGED observed
    /\ mixed' = (mixed \/ meta # state[i])
    /\ Goto(i, "idle")
    /\ UNCHANGED <<disk, lease, state, rev, flight, recovery, job, prev, latest, torn,
                   again>>

\* What the user is shown, of the metadata the instance works with and the token that
\* is stored now (readable: the credential store answers).
Recorded(i) == state[i].who # NoToken
RefusalOr(i, shown) == IF state[i].failure = None THEN shown ELSE state[i].failure
StoredState(i, readable) ==
    CASE recovery[i] -> "readOnlyRecovery"
      [] ~recovery[i] /\ ~readable -> "credentialUnavailable"
      [] OTHER -> CASE Recorded(i) /\ keyring # NoToken  -> RefusalOr(i, "verified")
                    [] Recorded(i) /\ keyring = NoToken  -> "missing"
                    [] ~Recorded(i) /\ keyring # NoToken -> "conflict"
                    [] OTHER -> "missing"
Status(i, readable) ==
    LET shown == StoredState(i, readable) IN
    [state |-> shown, identity |-> state[i].who,
     cap |-> IF shown \in {"verified", "credentialUnavailable"} THEN state[i].cap
             ELSE "unknown"]

-----------------------------------------------------------------------------
(***************************************************************************)
(* A request: begun under the store's mutex, validated without it.         *)
(***************************************************************************)
Begin(i, kind, t) ==
    /\ pc[i] = "idle" /\ Spend("request")
    /\ rev' = [rev EXCEPT ![i] = @ + 1]
    /\ flight' = [flight EXCEPT ![i] =
           @ \cup {[id |-> NewId, kind |-> kind, token |-> t, rev |-> rev[i] + 1,
                    calm |-> lease = Nobody]}]
    /\ UNCHANGED <<disk, lease, state, observed, recovery, pc, job, prev, aux>>

\* authorize_github, with a token the user enters.
Authorize(i, t) == Begin(i, "authorize", t)

\* refresh_github_authorization, with the stored token; without one it does nothing.
Refresh(i) == keyring # NoToken /\ ~recovery[i] /\ Begin(i, "refresh", keyring)

\* validate_token_native: GitHub verifies the token, rejects it for a reason that a
\* refresh records, or answers something that ends the request with an error.
ReasonOf(w) == CASE w.user = "401" -> "unauthorized"
                 [] w.user = "403" -> "forbidden"
                 [] w.user \in {"unexpected", "unreachable"} -> "network"
                 [] w.user \in {"invalid body", "invalid identity"} -> "schema"
Verifies(w) == w.user = "user"
Rejects(w)  == w.user \in {"401", "403", "unexpected", "unreachable", "invalid body",
                           "invalid identity"}

\* probe_personal_billing, with the token that was just verified.
Probed(w) == CASE w.billing = "report" -> "available"
               [] w.billing = "403" -> "denied"
               [] w.billing = "404" -> "notCovered"
               [] OTHER -> "unavailable"

Answered(r, w) == [id |-> r.id, kind |-> r.kind, token |-> r.token, rev |-> r.rev,
                   calm |-> r.calm, answer |-> w]

\* ensure_current.
Current(i, r) == r.rev = rev[i]

AnyBytes(i) == TRUE

\* lease_and_check_disk: the lease is tried, and the file is as last observed.
Unchanged(i) == meta = observed[i]
Checked(i) == lease = Nobody /\ Unchanged(i)

\* ensure_writable.
Writable(i) == ~recovery[i]

\* GitHub's answers w arrive, in any order.  A stale one is discarded; a rejected
\* authorization is only reported; a rejected refresh is recorded.
Answer(i, r, w) ==
    /\ pc[i] = "idle" /\ r \in flight[i]
    /\ flight' = [flight EXCEPT ![i] = @ \ {r}]
    /\ IF /\ Current(i, r) /\ Writable(i) /\ Checked(i)
          /\ Verifies(w) \/ (Rejects(w) /\ r.kind = "refresh")
       THEN /\ lease' = i /\ job' = [job EXCEPT ![i] = Answered(r, w)]
            /\ Goto(i, IF Verifies(w) THEN "set" ELSE "fail")
       ELSE UNCHANGED <<lease, job, pc>>
    /\ UNCHANGED <<disk, state, observed, rev, recovery, prev, aux, budget>>

\* A new revision of the file.  Its bytes are read again (capture_committed_bytes), and
\* if that fails, so does the command: the instance no longer knows the file.
StampOf(r) == r.id + 2
Write(i, m) == meta' = m /\ state' = [state EXCEPT ![i] = m]
Capture(i, m) == Works /\ observed' = [observed EXCEPT ![i] = m]
Commit(i, m) == Write(i, m) /\ (Capture(i, m) \/ (Fault /\ UNCHANGED observed))

\* The file becomes what an instance has observed, but is not what it works with.
Confuses(m) == \E j \in Instance : pc[j] # "closed" /\ observed[j] = m /\ state[j] # m

\* What the file says of a verified token, and of the refusal of a refresh.
Verified(r)   == [NoFile EXCEPT !.who = r.token, !.cap = Probed(r.answer), !.stamp = StampOf(r)]
Refused(m, r) == [m EXCEPT !.failure = ReasonOf(r.answer), !.of = r.token, !.stamp = StampOf(r)]

\* save_verified stores the token, and then the identity it was validated for.
SetToken(i) ==
    /\ pc[i] = "set"
    /\ \/ /\ Works /\ prev' = [prev EXCEPT ![i] = keyring]
          /\ keyring' = job[i].token /\ Goto(i, "save") /\ UNCHANGED <<lease, job>>
       \/ Fault /\ Return(i) /\ UNCHANGED <<keyring, prev>>
    /\ UNCHANGED <<meta, mem, aux>>

SaveIdentity(i) ==
    /\ pc[i] = "save"
    /\ \/ /\ Commit(i, Verified(job[i]))
          /\ latest' = job[i].id /\ torn' = FALSE /\ Return(i)
       \/ /\ Fault /\ Goto(i, "undo")
          /\ UNCHANGED <<meta, state, observed, latest, torn, lease, job>>
    /\ UNCHANGED <<keyring, rev, flight, recovery, prev, mixed, again>>

NewToken(i) == keyring
OldToken(i) == prev[i]

\* A failed save restores the previous token.
Undo(i) ==
    /\ pc[i] = "undo"
    /\ \/ Works /\ keyring' = OldToken(i) /\ UNCHANGED torn
       \/ Fault /\ torn' = TRUE /\ UNCHANGED keyring
    /\ Return(i)
    /\ UNCHANGED <<meta, mem, prev, latest, mixed, again>>

\* record_refresh_failure marks the stored identity.
RecordFailure(i) ==
    /\ pc[i] = "fail"
    /\ \/ /\ Commit(i, Refused(state[i], job[i]))
          /\ latest' = job[i].id /\ mixed' = (mixed \/ ~job[i].calm)
       \/ Fault /\ UNCHANGED <<meta, state, observed, latest, mixed>>
    /\ Return(i)
    /\ UNCHANGED <<keyring, rev, flight, recovery, prev, torn, again>>

SameRevision(i) == rev[i]
NextRevision(i) == rev[i] + 1

\* clear invalidates the requests in flight, removes the identity, then the token.
\* MaxRequests bounds the clears as well.
Clear(i) ==
    /\ pc[i] = "idle" /\ Spend("request")
    /\ rev' = [rev EXCEPT ![i] = NextRevision(i)]
    /\ IF Writable(i) /\ Checked(i) THEN lease' = i /\ Goto(i, "erase")
                                   ELSE UNCHANGED <<lease, pc>>
    /\ UNCHANGED <<disk, state, observed, flight, recovery, job, prev, aux>>

EraseIdentity(i) ==
    /\ pc[i] = "erase"
    /\ \/ /\ Write(i, Cleared)
          /\ \/ Capture(i, Cleared) /\ Goto(i, "delete") /\ UNCHANGED <<lease, job>>
             \/ Fault /\ Return(i) /\ UNCHANGED observed
          /\ latest' = NewId - 1
          /\ again' = (again \/ \E j \in Instance \ {i} : observed[j] = Cleared)
          /\ mixed' = (mixed \/ Confuses(Cleared))
       \/ Fault /\ Return(i) /\ UNCHANGED <<meta, state, observed, latest, again, mixed>>
    /\ UNCHANGED <<keyring, rev, flight, recovery, prev, torn>>

\* That the token could not be deleted is only a warning.
DeleteToken(i) ==
    /\ pc[i] = "delete"
    /\ (Works /\ keyring' = NoToken) \/ (Fault /\ UNCHANGED keyring)
    /\ Return(i)
    /\ UNCHANGED <<meta, mem, prev, aux>>

\* The file is damaged, or written by a newer version; the user removes it.  An instance
\* that holds the lease has compared it, and replaces it without another look.
Damage ==
    /\ meta.ok /\ Fault
    /\ meta' = Damaged
    /\ again' = (again \/ \E j \in Instance : Writable(j) /\ observed[j] = Damaged)
    /\ mixed' = (mixed \/ lease # Nobody)
    /\ UNCHANGED <<keyring, lease, mem, pc, job, prev, latest, torn>>

Remove ==
    /\ ~meta.ok
    /\ meta' = NoFile
    /\ again' = (again \/ \E j \in Instance : Writable(j) /\ observed[j] = NoFile)
    /\ mixed' = (mixed \/ Confuses(NoFile))
    /\ UNCHANGED <<keyring, lease, mem, pc, job, prev, latest, torn, budget>>

\* A process dies; the operating system releases its lease.
Crash(i) ==
    /\ pc[i] # "closed" /\ Spend("restart")
    /\ Goto(i, "closed")
    /\ lease' = IF lease = i THEN Nobody ELSE lease
    /\ job' = [job EXCEPT ![i] = NoJob]
    /\ flight' = [flight EXCEPT ![i] = {}]
    /\ torn' = (torn \/ (pc[i] \in {"save", "undo"} /\ keyring # prev[i]))
    /\ UNCHANGED <<disk, state, observed, rev, recovery, prev, latest, mixed, again>>

Store(i) == \/ SetToken(i) \/ SaveIdentity(i) \/ Undo(i) \/ RecordFailure(i)
            \/ EraseIdentity(i) \/ DeleteToken(i)

Next == \/ Damage \/ Remove
        \/ \E i \in Instance :
            \/ OpenState(i) \/ OpenBytes(i)
            \/ \E t \in Token : Authorize(i, t)
            \/ Refresh(i) \/ Clear(i)
            \/ \E r \in flight[i], w \in Response : Answer(i, r, w)
            \/ Store(i) \/ Crash(i)

Spec == Init /\ [][Next]_vars

-----------------------------------------------------------------------------
(***************************************************************************)
(* Properties.                                                             *)
(***************************************************************************)

Settled(i) == pc[i] = "idle" /\ lease = Nobody /\ Unchanged(i) /\ ~torn /\ ~mixed

\* Whenever no change is under way, the status that an instance shows is about the stored
\* token: the account and the billing capability it calls verified were stored last and
\* are the token's, and a refusal it reports is what GitHub answered to that token,
\* however many requests, instances and failures changed them meanwhile.  Exempt are an
\* instance that another one has overtaken (it must restart), a crash or failed restore
\* between the two writes (torn), and what was read or damaged between them (mixed).
StatusIsOfToken ==
    \A i \in Instance :
        Settled(i) =>
            LET s == Status(i, TRUE) IN
            /\ s.state = "verified" => s.identity = keyring /\ state[i] = meta
            /\ s.state \in Failure => state[i].of = keyring /\ s.cap = "unknown"

\* "Latest-started request wins. Clearing also invalidates in-flight work": what is
\* stored, or erased, never comes from a request that began before the one whose outcome
\* is stored, in any instance.  Exempt (again): a file that was cleared or removed twice
\* is the same, so an instance that had seen it so takes no notice.
LatestStartedWins == [][latest' # latest => (latest' > latest \/ again)]_vars

\* "it has not been overwritten": no instance writes over a file that it could not load,
\* nor does one that had loaded it before it was damaged (unless it was damaged while that
\* instance, which had just compared it, was writing: mixed).
DamagedIsKept == [][~meta.ok => (meta'.ok => (Remove \/ mixed))]_vars
=============================================================================
