---------------------- MODULE GithubAuthorizationProofs ----------------------
(***************************************************************************)
(* Proofs about GithubAuthorization: what an instance shows is about the   *)
(* stored token, the latest-started request wins, and a damaged file is    *)
(* kept, for any instances, tokens, answers of GitHub and bounds.          *)
(***************************************************************************)
EXTENDS GithubAuthorization, TLAPS

Storing == {"set", "save", "undo", "fail"}
Holding == Storing \cup {"erase", "delete"}
Job     == [id : Id, kind : {"authorize", "refresh"}, token : Token, rev : Nat,
            calm : BOOLEAN, answer : Response]
Budget  == [request : 0..MaxRequests, fault : Nat, restart : Nat]

TypeInv ==
    /\ meta \in Meta /\ keyring \in Who /\ lease \in Instance \cup {Nobody}
    /\ state \in [Instance -> Meta] /\ observed \in [Instance -> Meta]
    /\ rev \in [Instance -> Nat] /\ flight \in [Instance -> SUBSET Request]
    /\ recovery \in [Instance -> BOOLEAN]
    /\ pc \in [Instance -> Holding \cup {"closed", "opening", "idle"}]
    /\ job \in [Instance -> Job \cup {NoJob}] /\ prev \in [Instance -> Who]
    /\ \A i \in Instance : pc[i] \in Storing => job[i] \in Job
    /\ latest \in Nat /\ latest < NewId
    /\ torn \in BOOLEAN /\ mixed \in BOOLEAN /\ again \in BOOLEAN
    /\ budget \in Budget

\* The lease is held by the instance that changes something.
LeaseInv == \A i \in Instance : lease = i <=> pc[i] \in Holding

\* A request is current only if nothing began after it at its instance, so that none is
\* while that instance stores an answer, or forgets the token.
FlightInv ==
    \A i \in Instance :
        /\ pc[i] \in {"closed", "opening"} => flight[i] = {}
        /\ \A r \in flight[i] : /\ r.rev <= rev[i]
                                /\ pc[i] \in Holding => r.rev < rev[i]
        /\ \A r, q \in flight[i] : r.rev = q.rev => r = q

\* What an answer will write was never seen before.
Unseen(id) == /\ id < NewId /\ meta.stamp # id + 2
              /\ \A k \in Instance : observed[k].stamp # id + 2
Seen(m) == m.stamp < NewId + 2
FreshInv ==
    /\ Seen(meta) /\ \A i \in Instance : Seen(observed[i])
    /\ \A i \in Instance :
          /\ \A r \in flight[i] : Unseen(r.id)
          /\ pc[i] \in Storing => Unseen(job[i].id)
          /\ \A j \in Instance : \A r \in flight[i] :
                /\ \A q \in flight[j] : r.id = q.id => i = j /\ r = q
                /\ pc[j] \in Storing => r.id # job[j].id

\* An instance that sees the file as it observed it works with what the file says, and
\* it never took a damaged file for one it knows.
ViewInv ==
    \A i \in Instance :
        /\ state[i].ok
        /\ pc[i] = "opening" => observed[i] = NoFile
        /\ pc[i] \in Holding => ~recovery[i]
        /\ ~mixed => /\ observed[i].ok
                     /\ (pc[i] \notin {"closed", "opening"} /\ ~recovery[i]
                            /\ observed[i] = meta) => state[i] = meta
                     /\ pc[i] \in Holding => meta.ok
                     /\ pc[i] \in Storing \cup {"erase"} => observed[i] = meta

\* The account, or the refusal, that the file records is that of the token `key'.
Attributed(key) ==
    (meta.who # NoToken /\ key # NoToken)
        => IF meta.failure = None THEN meta.who = key ELSE meta.of = key

\* At each label, which token the file is about: the stored one, or the one that was
\* stored before.
Known == ~torn /\ ~mixed
SecretInv ==
    /\ lease = Nobody /\ Known => Attributed(keyring)
    /\ \A i \in Instance :
          /\ pc[i] \in {"set", "fail", "erase"} /\ Known => Attributed(keyring)
          /\ pc[i] \in {"save", "undo"} /\ Known => Attributed(prev[i])
          /\ pc[i] = "save" => keyring = job[i].token
          /\ pc[i] = "delete" => meta.who = NoToken

\* The token the file is about, while one may be on the way.
Tokened(t) == /\ \A k \in Instance : pc[k] \in {"save", "undo"} => prev[k] = t
              /\ (\A k \in Instance : pc[k] \notin {"save", "undo"}) => keyring = t

\* A refresh that can still be recorded is about that token.
Recordable(i, r) == /\ r.kind = "refresh" /\ r.calm /\ r.rev = rev[i] /\ ~recovery[i]
                    /\ Known /\ observed[i] = meta /\ meta.who # NoToken
RefreshInv ==
    \A i \in Instance :
        /\ \A r \in flight[i] : Recordable(i, r) => Tokened(r.token)
        /\ pc[i] = "fail" =>
              /\ job[i].kind = "refresh" /\ Rejects(job[i].answer)
              /\ (job[i].calm /\ Known /\ meta.who # NoToken) => keyring = job[i].token

\* A request that can still be stored began after the one that was stored last.
LatestInv ==
    ~again => \A i \in Instance :
        /\ \A r \in flight[i] :
              (r.rev = rev[i] /\ ~recovery[i] /\ observed[i] = meta) => r.id > latest
        /\ pc[i] \in Storing => job[i].id > latest

IInv == TypeInv /\ LeaseInv /\ FlightInv /\ FreshInv /\ ViewInv /\ SecretInv /\ RefreshInv
        /\ LatestInv

-----------------------------------------------------------------------------
(***************************************************************************)
(* What is written.                                                        *)
(***************************************************************************)
\* The files the application does not write on an answer, and their differences.
LEMMA FileFacts ==
    /\ NoFile \in Meta /\ NoFile.ok /\ NoFile.who = NoToken /\ NoFile.stamp = 0
    /\ NoFile.failure = None
    /\ Cleared \in Meta /\ Cleared.ok /\ Cleared.who = NoToken /\ Cleared.stamp = 1
    /\ Damaged \in Meta /\ ~Damaged.ok /\ Damaged.who = NoToken /\ Damaged.stamp = 0
<1>1. MaxRequests \in Nat
  BY BoundAssumption
<1>2. 0 \in Stamp /\ 1 \in Stamp /\ "unknown" \in Capability /\ NoToken \in Who
  BY <1>1 DEF Stamp, Capability, Who
<1>3. NoFile \in Meta
  BY <1>2 DEF NoFile, Meta
<1> QED BY <1>2, <1>3 DEF NoFile, Cleared, Damaged, Meta

\* A stamp is a number.
LEMMA StampFacts == ASSUME NEW m \in Meta PROVE m.stamp \in Nat
<1>1. MaxRequests \in Nat
  BY BoundAssumption
<1> QED BY <1>1 DEF Meta, Stamp

\* A verified token is recorded with itself, under the stamp of its request.
LEMMA VerifiedFacts ==
    ASSUME NEW r \in Job
    PROVE  /\ Verified(r) \in Meta /\ Verified(r).ok /\ Verified(r).who = r.token
           /\ Verified(r).failure = None /\ Verified(r).stamp = r.id + 2
<1>1. Probed(r.answer) \in Capability
  BY DEF Probed, Capability
<1>2. r.token \in Who /\ r.id + 2 \in Stamp
  BY BoundAssumption DEF Job, Who, Id, Stamp
<1> QED BY <1>1, <1>2, FileFacts DEF Verified, StampOf, Meta, NoFile

\* A refusal is recorded with the token it is about, and leaves the identity.
LEMMA RefusedFacts ==
    ASSUME NEW r \in Job, NEW m \in Meta, Rejects(r.answer)
    PROVE  /\ Refused(m, r) \in Meta /\ Refused(m, r).ok = m.ok /\ Refused(m, r).who = m.who
           /\ Refused(m, r).failure # None /\ Refused(m, r).of = r.token
           /\ Refused(m, r).stamp = r.id + 2
<1>1. ReasonOf(r.answer) \in Failure /\ ReasonOf(r.answer) # None
  BY DEF ReasonOf, Rejects, Failure, None
<1>2. r.token \in Who /\ r.id + 2 \in Stamp
  BY BoundAssumption DEF Job, Who, Id, Stamp
<1> QED BY <1>1, <1>2 DEF Refused, StampOf, Meta

\* Identifiers are handed out once.
LEMMA BudgetFacts ==
    ASSUME budget \in Budget
    PROVE  /\ NewId \in Nat /\ NewId >= 1 /\ NewId <= MaxRequests + 1
           /\ \A k \in {"fault", "restart"} : Spend(k) => budget' \in Budget /\ NewId' = NewId
           /\ Works => budget' \in Budget /\ NewId' = NewId
           /\ Spend("request") => budget' \in Budget /\ NewId' = NewId + 1 /\ NewId \in Id
<1>1. MaxRequests \in Nat
  BY BoundAssumption
<1> QED BY <1>1 DEF Budget, NewId, Id, Spend, Works

-----------------------------------------------------------------------------
(***************************************************************************)
(* Each conjunct is preserved.                                             *)
(***************************************************************************)

\* Every step keeps the types.
LEMMA TypeStep == ASSUME TypeInv, FreshInv, RefreshInv, [Next]_vars PROVE TypeInv'
<1> USE DEF Goto, Return, disk, mem, aux
<1>1. ASSUME NEW i \in Instance, OpenState(i) PROVE TypeInv'
  BY <1>1, BudgetFacts, FileFacts DEF OpenState, TypeInv, Fault, Holding, Storing
<1>2. ASSUME NEW i \in Instance, OpenBytes(i) PROVE TypeInv'
  BY <1>2, BudgetFacts, FileFacts DEF OpenBytes, TypeInv, Fault, Holding, Storing
<1>3. ASSUME NEW i \in Instance, NEW kind \in {"authorize", "refresh"}, NEW t \in Token,
           Begin(i, kind, t),
           kind = "refresh" => t = keyring /\ ~recovery[i] PROVE
           TypeInv'
  <2>1. NewId \in Nat /\ NewId \in Id /\ NewId' = NewId + 1 /\ budget' \in Budget
    BY <1>3, BudgetFacts DEF Begin, TypeInv
  <2>2. [id |-> NewId, kind |-> kind, token |-> t, rev |-> rev[i] + 1,
         calm |-> lease = Nobody] \in Request
    BY <1>3, <2>1 DEF Begin, TypeInv, Request
  <2> QED BY <1>3, <2>1, <2>2 DEF Begin, TypeInv, Holding, Storing
<1>4. ASSUME NEW i \in Instance, Clear(i) PROVE TypeInv'
  BY <1>4, BudgetFacts, FileFacts DEF Clear, Checked, Unchanged, Writable, NextRevision,
     TypeInv, Fault, Holding, Storing
<1>5. ASSUME NEW i \in Instance, NEW r \in flight[i], NEW w \in Response, Answer(i, r, w) PROVE
           TypeInv'
  BY <1>5, BudgetFacts DEF Answer, Answered, Checked, Unchanged, Writable, Current, TypeInv,
     Fault, Holding, Storing, Job, Request, Works
<1>6. ASSUME NEW i \in Instance, SetToken(i) PROVE TypeInv'
  BY <1>6, BudgetFacts DEF SetToken, TypeInv, Fault, Holding, Storing, Job, Who
<1>7. ASSUME NEW i \in Instance, SaveIdentity(i) PROVE TypeInv'
  <2>1. job[i] \in Job /\ pc[i] \in Storing /\ job[i].id \in Nat /\ job[i].id < NewId
    BY <1>7 DEF SaveIdentity, TypeInv, FreshInv, Unseen, Storing, Job, Id
  <2>2. Verified(job[i]) \in Meta
    BY <2>1, VerifiedFacts
  <2>3. NewId \in Nat /\ NewId' = NewId /\ budget' \in Budget
    BY <1>7, BudgetFacts DEF SaveIdentity, Commit, Capture, TypeInv, Fault
  <2>4. /\ meta' \in Meta /\ state' \in [Instance -> Meta]
        /\ observed' \in [Instance -> Meta] /\ latest' \in Nat /\ latest' < NewId'
    BY <1>7, <2>1, <2>2, <2>3 DEF SaveIdentity, Commit, Write, Capture, TypeInv
  <2> QED BY <1>7, <2>1, <2>3, <2>4 DEF SaveIdentity, TypeInv, Storing, Holding
<1>8. ASSUME NEW i \in Instance, Undo(i) PROVE TypeInv'
  BY <1>8, BudgetFacts, FileFacts DEF Undo, OldToken, TypeInv, Fault, Holding, Storing
<1>9. ASSUME NEW i \in Instance, RecordFailure(i) PROVE TypeInv'
  <2>1. /\ job[i] \in Job /\ pc[i] \in Storing /\ Rejects(job[i].answer)
        /\ job[i].id \in Nat /\ job[i].id < NewId
    BY <1>9 DEF RecordFailure, TypeInv, FreshInv, RefreshInv, Unseen, Storing, Job, Id
  <2>2. Refused(state[i], job[i]) \in Meta
    BY <2>1, RefusedFacts DEF TypeInv
  <2>3. NewId \in Nat /\ NewId' = NewId /\ budget' \in Budget
    BY <1>9, BudgetFacts DEF RecordFailure, Commit, Capture, TypeInv, Fault
  <2>4. mixed' \in BOOLEAN
    BY <1>9 DEF RecordFailure, TypeInv
  <2> QED BY <1>9, <2>1, <2>2, <2>3, <2>4 DEF RecordFailure, Commit, Write, Capture, TypeInv,
             Storing, Holding
<1>10. ASSUME NEW i \in Instance, EraseIdentity(i) PROVE TypeInv'
  <2>1. NewId \in Nat /\ NewId >= 1 /\ NewId' = NewId /\ budget' \in Budget
    BY <1>10, BudgetFacts DEF EraseIdentity, Capture, TypeInv, Fault
  <2>2. latest' \in Nat /\ latest' < NewId'
    BY <1>10, <2>1 DEF EraseIdentity, Write, TypeInv
  <2>3. mixed' \in BOOLEAN /\ again' \in BOOLEAN
    BY <1>10 DEF EraseIdentity, TypeInv
  <2> QED BY <1>10, <2>1, <2>2, <2>3, FileFacts DEF EraseIdentity, Write, Capture, TypeInv,
          Holding, Storing
<1>11. ASSUME NEW i \in Instance, DeleteToken(i) PROVE TypeInv'
  BY <1>11, BudgetFacts DEF DeleteToken, TypeInv, Fault, Holding, Storing, Who
<1>12. ASSUME NEW i \in Instance, Crash(i) PROVE TypeInv'
  BY <1>12, BudgetFacts, FileFacts DEF Crash, TypeInv, Fault, Holding, Storing
<1>13. ASSUME Damage PROVE TypeInv'
  BY <1>13, BudgetFacts, FileFacts DEF Damage, TypeInv, Fault, Holding, Storing
<1>14. ASSUME Remove PROVE TypeInv'
  BY <1>14, BudgetFacts, FileFacts DEF Remove, TypeInv, Fault, Holding, Storing, Works
<1>15. ASSUME UNCHANGED vars PROVE TypeInv'
  BY <1>15, BudgetFacts DEF vars, disk, mem, aux, TypeInv, Works, Holding, Storing
<1> QED BY <1>1, <1>2, <1>3, <1>4, <1>5, <1>6, <1>7, <1>8, <1>9, <1>10, <1>11, <1>12, <1>13,
           <1>14, <1>15 DEF Next, Store, Authorize, Refresh, TypeInv, Who

\* Every step keeps the lease with the instance that changes something: it is taken only
\* when nobody holds it, and returned with the last write.
LEMMA LeaseStep == ASSUME TypeInv, LeaseInv, [Next]_vars PROVE LeaseInv'
<1> USE DEF Goto, Return, disk, mem, aux
<1>1. ASSUME NEW i \in Instance, OpenState(i) PROVE LeaseInv'
  BY <1>1, NobodyAssumption DEF OpenState, TypeInv, LeaseInv, Holding, Storing
<1>2. ASSUME NEW i \in Instance, OpenBytes(i) PROVE LeaseInv'
  BY <1>2, NobodyAssumption DEF OpenBytes, TypeInv, LeaseInv, Holding, Storing
<1>3. ASSUME NEW i \in Instance, NEW kind \in {"authorize", "refresh"}, NEW t \in Token,
           Begin(i, kind, t),
           kind = "refresh" => t = keyring /\ ~recovery[i] PROVE
           LeaseInv'
  BY <1>3, NobodyAssumption DEF Begin, TypeInv, LeaseInv, Holding, Storing
<1>4. ASSUME NEW i \in Instance, Clear(i) PROVE LeaseInv'
  BY <1>4, NobodyAssumption DEF Clear, Checked, Unchanged, Writable, NextRevision, TypeInv,
     LeaseInv, Holding, Storing
<1>5. ASSUME NEW i \in Instance, NEW r \in flight[i], NEW w \in Response, Answer(i, r, w) PROVE
           LeaseInv'
  BY <1>5, NobodyAssumption DEF Answer, Answered, Checked, Unchanged, Writable, Current,
     TypeInv, LeaseInv, Holding, Storing
<1>6. ASSUME NEW i \in Instance, SetToken(i) PROVE LeaseInv'
  BY <1>6, NobodyAssumption DEF SetToken, TypeInv, LeaseInv, Holding, Storing
<1>7. ASSUME NEW i \in Instance, SaveIdentity(i) PROVE LeaseInv'
  BY <1>7, NobodyAssumption DEF SaveIdentity, Commit, Write, Capture, TypeInv, LeaseInv,
     Holding, Storing
<1>8. ASSUME NEW i \in Instance, Undo(i) PROVE LeaseInv'
  BY <1>8, NobodyAssumption DEF Undo, OldToken, TypeInv, LeaseInv, Holding, Storing
<1>9. ASSUME NEW i \in Instance, RecordFailure(i) PROVE LeaseInv'
  BY <1>9, NobodyAssumption DEF RecordFailure, Commit, Write, Capture, TypeInv, LeaseInv,
     Holding, Storing
<1>10. ASSUME NEW i \in Instance, EraseIdentity(i) PROVE LeaseInv'
  BY <1>10, NobodyAssumption DEF EraseIdentity, Write, Capture, TypeInv, LeaseInv, Holding,
     Storing
<1>11. ASSUME NEW i \in Instance, DeleteToken(i) PROVE LeaseInv'
  BY <1>11, NobodyAssumption DEF DeleteToken, TypeInv, LeaseInv, Holding, Storing
<1>12. ASSUME NEW i \in Instance, Crash(i) PROVE LeaseInv'
  BY <1>12, NobodyAssumption DEF Crash, TypeInv, LeaseInv, Holding, Storing
<1>13. ASSUME Damage PROVE LeaseInv'
  BY <1>13, NobodyAssumption DEF Damage, TypeInv, LeaseInv, Holding, Storing
<1>14. ASSUME Remove PROVE LeaseInv'
  BY <1>14, NobodyAssumption DEF Remove, TypeInv, LeaseInv, Holding, Storing
<1>15. ASSUME UNCHANGED vars PROVE LeaseInv'
  BY <1>15 DEF vars, disk, mem, aux, TypeInv, LeaseInv, Holding, Storing
<1> QED BY <1>1, <1>2, <1>3, <1>4, <1>5, <1>6, <1>7, <1>8, <1>9, <1>10, <1>11, <1>12, <1>13,
           <1>14, <1>15 DEF Next, Store, Authorize, Refresh, TypeInv, Who

\* Every step keeps the order of the requests in flight.
LEMMA FlightStep == ASSUME TypeInv, FlightInv, [Next]_vars PROVE FlightInv'
<1> USE DEF Goto, Return, disk, mem, aux
<1>1. ASSUME NEW i \in Instance, OpenState(i) PROVE FlightInv'
  BY <1>1 DEF OpenState, TypeInv, FlightInv, Request, Holding, Storing
<1>2. ASSUME NEW i \in Instance, OpenBytes(i) PROVE FlightInv'
  BY <1>2 DEF OpenBytes, TypeInv, FlightInv, Request, Holding, Storing
<1>3. ASSUME NEW i \in Instance, NEW kind \in {"authorize", "refresh"}, NEW t \in Token,
           Begin(i, kind, t),
           kind = "refresh" => t = keyring /\ ~recovery[i] PROVE
           FlightInv'
  BY <1>3 DEF Begin, TypeInv, FlightInv, Request, Holding, Storing
<1>4. ASSUME NEW i \in Instance, Clear(i) PROVE FlightInv'
  BY <1>4 DEF Clear, Checked, Unchanged, Writable, NextRevision, TypeInv, FlightInv, Request,
     Holding, Storing
<1>5. ASSUME NEW i \in Instance, NEW r \in flight[i], NEW w \in Response, Answer(i, r, w) PROVE
           FlightInv'
  BY <1>5 DEF Answer, Answered, Checked, Unchanged, Writable, Current, TypeInv, FlightInv,
     Request, Holding, Storing
<1>6. ASSUME NEW i \in Instance, SetToken(i) PROVE FlightInv'
  BY <1>6 DEF SetToken, TypeInv, FlightInv, Request, Holding, Storing
<1>7. ASSUME NEW i \in Instance, SaveIdentity(i) PROVE FlightInv'
  BY <1>7 DEF SaveIdentity, Commit, Write, Capture, TypeInv, FlightInv, Request, Holding,
     Storing
<1>8. ASSUME NEW i \in Instance, Undo(i) PROVE FlightInv'
  BY <1>8 DEF Undo, OldToken, TypeInv, FlightInv, Request, Holding, Storing
<1>9. ASSUME NEW i \in Instance, RecordFailure(i) PROVE FlightInv'
  BY <1>9 DEF RecordFailure, Commit, Write, Capture, TypeInv, FlightInv, Request, Holding,
     Storing
<1>10. ASSUME NEW i \in Instance, EraseIdentity(i) PROVE FlightInv'
  BY <1>10 DEF EraseIdentity, Write, Capture, TypeInv, FlightInv, Request, Holding, Storing
<1>11. ASSUME NEW i \in Instance, DeleteToken(i) PROVE FlightInv'
  BY <1>11 DEF DeleteToken, TypeInv, FlightInv, Request, Holding, Storing
<1>12. ASSUME NEW i \in Instance, Crash(i) PROVE FlightInv'
  BY <1>12 DEF Crash, TypeInv, FlightInv, Request, Holding, Storing
<1>13. ASSUME Damage PROVE FlightInv'
  BY <1>13 DEF Damage, TypeInv, FlightInv, Request, Holding, Storing
<1>14. ASSUME Remove PROVE FlightInv'
  BY <1>14 DEF Remove, TypeInv, FlightInv, Request, Holding, Storing
<1>15. ASSUME UNCHANGED vars PROVE FlightInv'
  BY <1>15 DEF vars, disk, mem, aux, TypeInv, FlightInv, Request, Holding, Storing
<1> QED BY <1>1, <1>2, <1>3, <1>4, <1>5, <1>6, <1>7, <1>8, <1>9, <1>10, <1>11, <1>12, <1>13,
           <1>14, <1>15 DEF Next, Store, Authorize, Refresh, TypeInv, Who

\* So they are by a step that begins nothing, answers nothing and writes no answer.
LEMMA FreshKept ==
    ASSUME TypeInv, TypeInv', FreshInv, NewId \in Nat, NewId' \in Nat, NewId' >= NewId,
           meta'.stamp \in {meta.stamp, 0, 1},
           \A k \in Instance : observed'[k].stamp \in {observed[k].stamp, meta.stamp, 0, 1},
           \A j \in Instance : flight'[j] \subseteq flight[j],
           \A j \in Instance : pc'[j] \in Storing => pc[j] \in Storing /\ job'[j] = job[j]
    PROVE  FreshInv'
<1>1. \A j \in Instance : /\ \A r \in flight[j] : r.id \in Nat /\ r.id >= 1
                          /\ pc[j] \in Storing => job[j].id \in Nat /\ job[j].id >= 1
  BY DEF TypeInv, Request, Job, Id
<1>0. meta.stamp \in Nat /\ \A k \in Instance : observed[k].stamp \in Nat
  BY StampFacts DEF TypeInv
<1>2. Seen(meta)' /\ \A k \in Instance : Seen(observed[k])'
  BY <1>0 DEF FreshInv, Seen
<1>3. \A id \in Nat : id >= 1 /\ Unseen(id) => Unseen(id)'
  BY <1>0 DEF Unseen
<1>4. \A j \in Instance : /\ \A r \in flight'[j] : Unseen(r.id)'
                          /\ pc'[j] \in Storing => Unseen(job[j].id)'
  BY <1>1, <1>3 DEF FreshInv
<1> QED BY <1>2, <1>4 DEF FreshInv, Seen

\* And by a step that writes an answer.
LEMMA FreshWritten ==
    ASSUME TypeInv, TypeInv', LeaseInv, FreshInv, NewId \in Nat, NewId' = NewId,
           NEW i \in Instance, pc[i] \in Storing, pc' = [pc EXCEPT ![i] = "idle"],
           meta'.stamp = job[i].id + 2,
           \A k \in Instance : observed'[k] \in {observed[k], meta'},
           flight' = flight, \A j \in Instance : j # i => job'[j] = job[j]
    PROVE  FreshInv'
<1>1. \A j \in Instance : \A r \in flight[j] : r.id \in Nat
  BY DEF TypeInv, Request, Id
<1>2. \A j \in Instance : pc'[j] \notin Storing
  BY DEF TypeInv, LeaseInv, Holding, Storing
<1>3. job[i].id \in Nat /\ job[i].id < NewId
  BY DEF TypeInv, FreshInv, Unseen, Job, Id
<1>4. Seen(meta)' /\ \A k \in Instance : Seen(observed[k])'
  <2>1. \A k \in Instance : meta.stamp \in Nat /\ observed[k].stamp \in Nat
    BY StampFacts DEF TypeInv
  <2> QED BY <1>3, <2>1 DEF FreshInv, Seen
<1>5. \A j \in Instance : \A r \in flight'[j] : Unseen(r.id)'
  BY <1>1, <1>3 DEF FreshInv, Unseen
<1> QED BY <1>2, <1>4, <1>5 DEF FreshInv, Seen

\* Every step keeps the stamps of what is yet to be written unseen.
LEMMA FreshStep ==
    ASSUME TypeInv, TypeInv', LeaseInv, FreshInv, RefreshInv, [Next]_vars
    PROVE  FreshInv'
<1> USE DEF Goto, Return, disk, mem, aux
<1>1. ASSUME NEW i \in Instance, OpenState(i) PROVE FreshInv'
  <2>1. NewId \in Nat /\ NewId' \in Nat /\ NewId' >= NewId
    BY <1>1, BudgetFacts DEF OpenState, TypeInv, Fault, Works
  <2> QED BY <1>1, <2>1, FileFacts, FreshKept DEF OpenState, TypeInv, Holding, Storing
<1>2. ASSUME NEW i \in Instance, OpenBytes(i) PROVE FreshInv'
  <2>1. NewId \in Nat /\ NewId' \in Nat /\ NewId' >= NewId
    BY <1>2, BudgetFacts DEF OpenBytes, TypeInv, Fault, Works
  <2> QED BY <1>2, <2>1, FileFacts, FreshKept DEF OpenBytes, TypeInv, Holding, Storing
<1>3. ASSUME NEW i \in Instance, NEW kind \in {"authorize", "refresh"}, NEW t \in Token,
           Begin(i, kind, t),
           kind = "refresh" => t = keyring /\ ~recovery[i] PROVE
           FreshInv'
  <2> DEFINE new == [id |-> NewId, kind |-> kind, token |-> t, rev |-> rev[i] + 1,
                     calm |-> lease = Nobody]
  <2>1. NewId \in Nat /\ NewId' = NewId + 1
    BY <1>3, BudgetFacts DEF Begin, TypeInv
  <2>2. \A j \in Instance : /\ \A r \in flight[j] : r.id \in Nat /\ r.id < NewId
                            /\ pc[j] \in Storing => job[j].id \in Nat /\ job[j].id < NewId
    BY DEF TypeInv, FreshInv, Unseen, Request, Job, Id
  <2>3. new.id = NewId /\ flight' = [flight EXCEPT ![i] = @ \cup {new}]
    BY <1>3 DEF Begin
  <2>4. UNCHANGED <<meta, observed, pc, job>>
    BY <1>3 DEF Begin
  <2> HIDE DEF new
  <2>0. meta.stamp \in Nat /\ \A k \in Instance : observed[k].stamp \in Nat
    BY StampFacts DEF TypeInv
  <2>5. Seen(meta)' /\ \A k \in Instance : Seen(observed[k])'
    BY <2>0, <2>1, <2>4 DEF FreshInv, Seen
  <2>6. \A id \in Nat : Unseen(id) => Unseen(id)'
    BY <2>1, <2>4 DEF Unseen
  <2>7. \A id \in Nat : id = NewId => Unseen(id)'
    BY <2>0, <2>1, <2>4 DEF FreshInv, Unseen, Seen
  <2>8. \A j \in Instance : /\ \A r \in flight'[j] : Unseen(r.id)'
                            /\ pc'[j] \in Storing => Unseen(job[j].id)'
    <3>1. \A j \in Instance : \A r \in flight'[j] : r \in flight[j] \/ r = new
      BY <2>3 DEF TypeInv
    <3>2. \A j \in Instance : \A r \in flight[j] : Unseen(r.id)'
      BY <2>2, <2>6 DEF FreshInv
    <3>3. \A j \in Instance : pc[j] \in Storing => Unseen(job[j].id)
      BY DEF FreshInv
    <3>4. \A j \in Instance : pc[j] \in Storing => \A id \in Nat : id = job[j].id => Unseen(id)'
      BY <2>2, <2>6, <3>3
    <3>5. \A id \in Nat : id = new.id => Unseen(id)'
      BY <2>1, <2>3, <2>7
    <3> QED BY <2>1, <2>2, <2>3, <2>4, <3>1, <3>2, <3>4, <3>5
  <2>9. \A k, j \in Instance : \A r \in flight'[k] :
           /\ \A q \in flight'[j] : r.id = q.id => k = j /\ r = q
           /\ pc'[j] \in Storing => r.id # job'[j].id
    BY <2>1, <2>2, <2>3, <2>4 DEF FreshInv, TypeInv
  <2> QED BY <2>5, <2>8, <2>9 DEF FreshInv
<1>4. ASSUME NEW i \in Instance, Clear(i) PROVE FreshInv'
  <2>1. NewId \in Nat /\ NewId' \in Nat /\ NewId' >= NewId
    BY <1>4, BudgetFacts DEF Clear, Checked, Unchanged, Writable, NextRevision, TypeInv, Fault,
       Works
  <2> QED BY <1>4, <2>1, FileFacts, FreshKept DEF Clear, Checked, Unchanged, Writable,
          NextRevision, TypeInv, Holding, Storing
<1>5. ASSUME NEW i \in Instance, NEW r \in flight[i], NEW w \in Response, Answer(i, r, w) PROVE
           FreshInv'
  <2>1. NewId \in Nat /\ NewId' = NewId /\ UNCHANGED <<meta, observed>>
    BY <1>5, BudgetFacts DEF Answer, TypeInv, Works
  <2>2. \A id \in Nat : Unseen(id)' <=> Unseen(id)
    BY <2>1 DEF Unseen
  <2>3. \A j \in Instance : \A q \in flight[j] : q.id \in Nat
    BY DEF TypeInv, Request, Id
  <2>4. \A j \in Instance : pc'[j] \in Storing =>
           \/ pc[j] \in Storing /\ job'[j] = job[j]
           \/ j = i /\ job'[j].id = r.id
    BY <1>5 DEF Answer, Answered, TypeInv
  <2>5. flight' = [flight EXCEPT ![i] = @ \ {r}] /\ r \in flight[i]
    BY <1>5 DEF Answer
  <2>6. Seen(meta)' /\ \A k \in Instance : Seen(observed[k])'
    BY <2>1 DEF FreshInv, Seen
  <2>7. \A j \in Instance : \A q \in flight'[j] : q \in flight[j] /\ (j = i => q # r)
    BY <2>5 DEF TypeInv
  <2>8. \A j \in Instance : pc[j] \in Storing => job[j].id \in Nat
    BY DEF TypeInv, Job, Id
  <2>9. \A j \in Instance : /\ \A q \in flight'[j] : Unseen(q.id)'
                            /\ pc'[j] \in Storing => Unseen(job[j].id)'
    BY <2>2, <2>3, <2>4, <2>5, <2>7, <2>8 DEF FreshInv
  <2>10. \A k, j \in Instance : \A p \in flight'[k] :
           /\ \A q \in flight'[j] : p.id = q.id => k = j /\ p = q
           /\ pc'[j] \in Storing => p.id # job'[j].id
    BY <2>4, <2>5, <2>7 DEF FreshInv
  <2> QED BY <2>6, <2>9, <2>10 DEF FreshInv
<1>6. ASSUME NEW i \in Instance, SetToken(i) PROVE FreshInv'
  <2>1. NewId \in Nat /\ NewId' \in Nat /\ NewId' >= NewId
    BY <1>6, BudgetFacts DEF SetToken, TypeInv, Fault, Works
  <2> QED BY <1>6, <2>1, FileFacts, FreshKept DEF SetToken, TypeInv, Holding, Storing
<1>7. ASSUME NEW i \in Instance, SaveIdentity(i) PROVE FreshInv'
  <2>1. NewId \in Nat /\ NewId' = NewId /\ pc[i] \in Storing /\ job[i] \in Job
    BY <1>7, BudgetFacts DEF SaveIdentity, Commit, Capture, TypeInv, Fault, Storing
  <2>2. Verified(job[i]).stamp = job[i].id + 2
    BY <2>1, VerifiedFacts
  <2>3. CASE meta' = meta
    BY <1>7, <2>1, <2>2, <2>3, FreshKept DEF SaveIdentity, Commit, Write, Capture, TypeInv,
             Storing,
       FreshInv, Unseen
  <2>4. CASE meta' # meta
    BY <1>7, <2>1, <2>2, <2>4, FreshWritten DEF SaveIdentity, Commit, Write, Capture, TypeInv
  <2> QED BY <2>3, <2>4
<1>8. ASSUME NEW i \in Instance, Undo(i) PROVE FreshInv'
  <2>1. NewId \in Nat /\ NewId' \in Nat /\ NewId' >= NewId
    BY <1>8, BudgetFacts DEF Undo, OldToken, TypeInv, Fault, Works
  <2> QED BY <1>8, <2>1, FileFacts, FreshKept DEF Undo, OldToken, TypeInv, Holding, Storing
<1>9. ASSUME NEW i \in Instance, RecordFailure(i) PROVE FreshInv'
  <2>1. NewId \in Nat /\ NewId' = NewId /\ pc[i] \in Storing /\ job[i] \in Job
    BY <1>9, BudgetFacts DEF RecordFailure, Commit, Capture, TypeInv, Fault, Storing
  <2>2. Refused(state[i], job[i]).stamp = job[i].id + 2
    BY <1>9, <2>1, RefusedFacts DEF RecordFailure, RefreshInv, TypeInv
  <2>3. CASE meta' = meta
    BY <1>9, <2>1, <2>2, <2>3, FreshKept DEF RecordFailure, Commit, Write, Capture, TypeInv,
             Storing,
       FreshInv, Unseen
  <2>4. CASE meta' # meta
    BY <1>9, <2>1, <2>2, <2>4, FreshWritten DEF RecordFailure, Commit, Write, Capture, TypeInv
  <2> QED BY <2>3, <2>4
<1>10. ASSUME NEW i \in Instance, EraseIdentity(i) PROVE FreshInv'
  <2>1. NewId \in Nat /\ NewId' \in Nat /\ NewId' >= NewId
    BY <1>10, BudgetFacts DEF EraseIdentity, Write, Capture, TypeInv, Fault, Works
  <2> QED BY <1>10, <2>1, FileFacts, FreshKept DEF EraseIdentity, Write, Capture, TypeInv,
             Holding,
          Storing
<1>11. ASSUME NEW i \in Instance, DeleteToken(i) PROVE FreshInv'
  <2>1. NewId \in Nat /\ NewId' \in Nat /\ NewId' >= NewId
    BY <1>11, BudgetFacts DEF DeleteToken, TypeInv, Fault, Works
  <2> QED BY <1>11, <2>1, FileFacts, FreshKept DEF DeleteToken, TypeInv, Holding, Storing
<1>12. ASSUME NEW i \in Instance, Crash(i) PROVE FreshInv'
  <2>1. NewId \in Nat /\ NewId' \in Nat /\ NewId' >= NewId
    BY <1>12, BudgetFacts DEF Crash, TypeInv, Fault, Works
  <2> QED BY <1>12, <2>1, FileFacts, FreshKept DEF Crash, TypeInv, Holding, Storing
<1>13. ASSUME Damage PROVE FreshInv'
  <2>1. NewId \in Nat /\ NewId' \in Nat /\ NewId' >= NewId
    BY <1>13, BudgetFacts DEF Damage, TypeInv, Fault, Works
  <2> QED BY <1>13, <2>1, FileFacts, FreshKept DEF Damage, TypeInv, Holding, Storing
<1>14. ASSUME Remove PROVE FreshInv'
  <2>1. NewId \in Nat /\ NewId' \in Nat /\ NewId' >= NewId
    BY <1>14, BudgetFacts DEF Remove, TypeInv, Fault, Works
  <2> QED BY <1>14, <2>1, FileFacts, FreshKept DEF Remove, TypeInv, Holding, Storing
<1>15. ASSUME UNCHANGED vars PROVE FreshInv'
  <2>1. NewId \in Nat /\ NewId' \in Nat /\ NewId' >= NewId
    BY <1>15, BudgetFacts DEF TypeInv, Works, vars
  <2> QED BY <1>15, <2>1, FreshKept DEF vars, disk, mem, aux
<1> QED BY <1>1, <1>2, <1>3, <1>4, <1>5, <1>6, <1>7, <1>8, <1>9, <1>10, <1>11, <1>12, <1>13,
           <1>14, <1>15 DEF Next, Store, Authorize, Refresh, TypeInv, Who

\* Every step keeps each view of the file true: a new revision is unlike all that was
\* ever observed, and a file that becomes what an instance has observed is either what
\* it works with or confuses it.
LEMMA ViewStep ==
    ASSUME TypeInv, TypeInv', LeaseInv, FreshInv, ViewInv, RefreshInv, [Next]_vars
    PROVE  ViewInv'
<1> USE DEF Goto, Return, disk, mem, aux
<1>1. ASSUME NEW i \in Instance, OpenState(i) PROVE ViewInv'
  BY <1>1, FileFacts, NobodyAssumption DEF OpenState, TypeInv, LeaseInv, ViewInv, Holding,
     Storing
<1>2. ASSUME NEW i \in Instance, OpenBytes(i) PROVE ViewInv'
  <2>1. /\ \A j \in Instance : j # i => observed'[j] = observed[j] /\ pc'[j] = pc[j]
        /\ pc'[i] = "idle" /\ observed'[i] \in {meta, NoFile}
        /\ ~mixed' => ~mixed /\ state[i] = meta
        /\ UNCHANGED <<meta, state, recovery>>
    BY <1>2 DEF OpenBytes, TypeInv, ViewInv
  <2> QED BY <2>1, FileFacts DEF ViewInv, Holding, Storing
<1>3. ASSUME NEW i \in Instance, NEW kind \in {"authorize", "refresh"}, NEW t \in Token,
           Begin(i, kind, t),
           kind = "refresh" => t = keyring /\ ~recovery[i] PROVE
           ViewInv'
  BY <1>3, FileFacts, NobodyAssumption DEF Begin, TypeInv, LeaseInv, ViewInv, Holding, Storing
<1>4. ASSUME NEW i \in Instance, Clear(i) PROVE ViewInv'
  BY <1>4, FileFacts, NobodyAssumption DEF Clear, Checked, Unchanged, Writable, NextRevision,
     TypeInv, LeaseInv, ViewInv, Holding, Storing
<1>5. ASSUME NEW i \in Instance, NEW r \in flight[i], NEW w \in Response, Answer(i, r, w) PROVE
           ViewInv'
  BY <1>5, FileFacts, NobodyAssumption DEF Answer, Answered, Checked, Unchanged, Writable,
     Current, TypeInv, LeaseInv, ViewInv, Holding, Storing
<1>6. ASSUME NEW i \in Instance, SetToken(i) PROVE ViewInv'
  BY <1>6, FileFacts, NobodyAssumption DEF SetToken, TypeInv, LeaseInv, ViewInv, Holding,
     Storing
<1>7. ASSUME NEW i \in Instance, SaveIdentity(i) PROVE ViewInv'
  <2>1. /\ pc[i] = "save" /\ pc[i] \in Storing /\ job[i] \in Job
        /\ \A k \in Instance : observed[k].stamp # job[i].id + 2
    BY <1>7 DEF SaveIdentity, TypeInv, FreshInv, Unseen, Storing
  <2>2. /\ Verified(job[i]).ok /\ Verified(job[i]).stamp = job[i].id + 2
        /\ Verified(job[i]) \in Meta
    BY <2>1, VerifiedFacts
  <2>3. \A k \in Instance : observed[k] # Verified(job[i])
    BY <2>1, <2>2
  <2> QED BY <1>7, <2>1, <2>2, <2>3 DEF SaveIdentity, Commit, Write, Capture, TypeInv, LeaseInv,
             ViewInv, Holding, Storing
<1>8. ASSUME NEW i \in Instance, Undo(i) PROVE ViewInv'
  BY <1>8, FileFacts, NobodyAssumption DEF Undo, OldToken, TypeInv, LeaseInv, ViewInv, Holding,
     Storing
<1>9. ASSUME NEW i \in Instance, RecordFailure(i) PROVE ViewInv'
  <2>1. /\ pc[i] = "fail" /\ pc[i] \in Storing /\ job[i] \in Job /\ Rejects(job[i].answer)
        /\ \A k \in Instance : observed[k].stamp # job[i].id + 2
    BY <1>9 DEF RecordFailure, TypeInv, FreshInv, RefreshInv, Unseen, Storing
  <2>2. /\ Refused(state[i], job[i]).ok = state[i].ok
        /\ Refused(state[i], job[i]).stamp = job[i].id + 2
    BY <2>1, RefusedFacts DEF TypeInv
  <2>3. \A k \in Instance : observed[k] # Refused(state[i], job[i])
    BY <2>1, <2>2
  <2> QED BY <1>9, <2>1, <2>2, <2>3 DEF RecordFailure, Commit, Write, Capture, TypeInv,
             LeaseInv, ViewInv, Holding, Storing
<1>10. ASSUME NEW i \in Instance, EraseIdentity(i) PROVE ViewInv'
  BY <1>10, FileFacts, NobodyAssumption DEF EraseIdentity, Write, Capture, TypeInv, LeaseInv,
     ViewInv, Holding, Storing, Confuses
<1>11. ASSUME NEW i \in Instance, DeleteToken(i) PROVE ViewInv'
  BY <1>11, FileFacts, NobodyAssumption DEF DeleteToken, TypeInv, LeaseInv, ViewInv, Holding,
     Storing
<1>12. ASSUME NEW i \in Instance, Crash(i) PROVE ViewInv'
  BY <1>12, FileFacts, NobodyAssumption DEF Crash, TypeInv, LeaseInv, ViewInv, Holding, Storing
<1>13. ASSUME Damage PROVE ViewInv'
  <2>1. /\ UNCHANGED <<state, observed, pc, recovery>> /\ meta' = Damaged
        /\ ~mixed' => ~mixed /\ lease = Nobody
    BY <1>13 DEF Damage, mem
  <2>2. ~mixed' => \A i \in Instance : pc[i] \notin Holding
    BY <2>1, NobodyAssumption DEF LeaseInv
  <2>3. Storing \cup {"erase"} \subseteq Holding
    BY DEF Holding, Storing
  <2>4. \A i \in Instance : observed[i].ok => observed[i] # Damaged
    BY FileFacts
  <2> QED BY <2>1, <2>2, <2>3, <2>4 DEF ViewInv
<1>14. ASSUME Remove PROVE ViewInv'
  BY <1>14, FileFacts, NobodyAssumption DEF Remove, TypeInv, LeaseInv, ViewInv, Holding,
     Storing, Confuses
<1>15. ASSUME UNCHANGED vars PROVE ViewInv'
  BY <1>15 DEF vars, disk, mem, aux, TypeInv, LeaseInv, ViewInv, Holding, Storing
<1> QED BY <1>1, <1>2, <1>3, <1>4, <1>5, <1>6, <1>7, <1>8, <1>9, <1>10, <1>11, <1>12, <1>13,
           <1>14, <1>15 DEF Next, Store, Authorize, Refresh, TypeInv, Who

\* Every step keeps, at each label, the file about the token it is about: the stored
\* one, or the one that was stored before.
LEMMA SecretStep ==
    ASSUME TypeInv, LeaseInv, ViewInv, SecretInv, RefreshInv, [Next]_vars
    PROVE  SecretInv'
<1> USE DEF Goto, Return, disk, mem, aux
<1>1. ASSUME NEW i \in Instance, OpenState(i) PROVE SecretInv'
  BY <1>1, FileFacts, NobodyAssumption, TokenAssumption DEF OpenState, TypeInv, LeaseInv,
     SecretInv, Attributed, Known, Holding, Storing
<1>2. ASSUME NEW i \in Instance, OpenBytes(i) PROVE SecretInv'
  BY <1>2, FileFacts, NobodyAssumption, TokenAssumption DEF OpenBytes, TypeInv, LeaseInv,
     SecretInv, Attributed, Known, Holding, Storing
<1>3. ASSUME NEW i \in Instance, NEW kind \in {"authorize", "refresh"}, NEW t \in Token,
           Begin(i, kind, t),
           kind = "refresh" => t = keyring /\ ~recovery[i] PROVE
           SecretInv'
  BY <1>3, FileFacts, NobodyAssumption, TokenAssumption DEF Begin, TypeInv, LeaseInv, SecretInv,
     Attributed, Known, Holding, Storing
<1>4. ASSUME NEW i \in Instance, Clear(i) PROVE SecretInv'
  BY <1>4, FileFacts, NobodyAssumption, TokenAssumption DEF Clear, Checked, Unchanged, Writable,
     NextRevision, TypeInv, LeaseInv, SecretInv, Attributed, Known, Holding, Storing
<1>5. ASSUME NEW i \in Instance, NEW r \in flight[i], NEW w \in Response, Answer(i, r, w) PROVE
           SecretInv'
  BY <1>5, FileFacts, NobodyAssumption, TokenAssumption DEF Answer, Answered, Checked,
     Unchanged, Writable, Current, TypeInv, LeaseInv, SecretInv, Attributed, Known, Holding,
     Storing
<1>6. ASSUME NEW i \in Instance, SetToken(i) PROVE SecretInv'
  BY <1>6, FileFacts, NobodyAssumption, TokenAssumption DEF SetToken, TypeInv, LeaseInv,
     SecretInv, Attributed, Known, Holding, Storing
<1>7. ASSUME NEW i \in Instance, SaveIdentity(i) PROVE SecretInv'
  <2>1. job[i] \in Job
    BY <1>7 DEF SaveIdentity, TypeInv, Storing
  <2>2. /\ Verified(job[i]).who = job[i].token /\ Verified(job[i]).failure = None
    BY <2>1, VerifiedFacts
  <2> QED BY <1>7, <2>1, <2>2, NobodyAssumption DEF SaveIdentity, Commit, Write, Capture,
             TypeInv, LeaseInv, SecretInv, Attributed, Known, Holding, Storing
<1>8. ASSUME NEW i \in Instance, Undo(i) PROVE SecretInv'
  BY <1>8, FileFacts, NobodyAssumption, TokenAssumption DEF Undo, OldToken, TypeInv, LeaseInv,
     SecretInv, Attributed, Known, Holding, Storing
<1>9. ASSUME NEW i \in Instance, RecordFailure(i) PROVE SecretInv'
  <2>1. /\ pc[i] = "fail" /\ pc[i] \in Storing /\ job[i] \in Job /\ Rejects(job[i].answer)
    BY <1>9 DEF RecordFailure, TypeInv, RefreshInv, Storing
  <2>2. /\ Refused(state[i], job[i]).who = state[i].who
        /\ Refused(state[i], job[i]).failure # None
        /\ Refused(state[i], job[i]).of = job[i].token
    BY <2>1, RefusedFacts DEF TypeInv
  <2>3. Known => state[i] = meta
    BY <2>1 DEF Known, ViewInv, Storing, Holding
  <2> QED BY <1>9, <2>1, <2>2, <2>3, NobodyAssumption DEF RecordFailure, Commit, Write, Capture,
             TypeInv, LeaseInv, SecretInv, RefreshInv, Attributed, Known, Holding, Storing
<1>10. ASSUME NEW i \in Instance, EraseIdentity(i) PROVE SecretInv'
  BY <1>10, FileFacts, NobodyAssumption, TokenAssumption DEF EraseIdentity, Write, Capture,
     TypeInv, LeaseInv, SecretInv, Attributed, Known, Holding, Storing
<1>11. ASSUME NEW i \in Instance, DeleteToken(i) PROVE SecretInv'
  BY <1>11, FileFacts, NobodyAssumption, TokenAssumption DEF DeleteToken, TypeInv, LeaseInv,
     SecretInv, Attributed, Known, Holding, Storing
<1>12. ASSUME NEW i \in Instance, Crash(i) PROVE SecretInv'
  BY <1>12, FileFacts, NobodyAssumption, TokenAssumption DEF Crash, TypeInv, LeaseInv,
     SecretInv, Attributed, Known, Holding, Storing
<1>13. ASSUME Damage PROVE SecretInv'
  BY <1>13, FileFacts, NobodyAssumption, TokenAssumption DEF Damage, TypeInv, LeaseInv,
     SecretInv, Attributed, Known, Holding, Storing
<1>14. ASSUME Remove PROVE SecretInv'
  BY <1>14, FileFacts, NobodyAssumption, TokenAssumption DEF Remove, TypeInv, LeaseInv,
     SecretInv, Attributed, Known, Holding, Storing
<1>15. ASSUME UNCHANGED vars PROVE SecretInv'
  BY <1>15 DEF vars, disk, mem, aux, TypeInv, LeaseInv, SecretInv, Attributed, Known, Holding,
     Storing
<1> QED BY <1>1, <1>2, <1>3, <1>4, <1>5, <1>6, <1>7, <1>8, <1>9, <1>10, <1>11, <1>12, <1>13,
           <1>14, <1>15 DEF Next, Store, Authorize, Refresh, TypeInv, Who

\* Every step keeps each refresh that can still be recorded about the token that the
\* file is about.
LEMMA RefreshStep ==
    ASSUME TypeInv, TypeInv', LeaseInv, FlightInv, FreshInv, ViewInv, SecretInv, RefreshInv,
           [Next]_vars
    PROVE  RefreshInv'
<1> USE DEF Goto, Return, disk, mem, aux
<1>1. ASSUME NEW i \in Instance, OpenState(i) PROVE RefreshInv'
  BY <1>1, FileFacts, NobodyAssumption DEF OpenState, TypeInv, LeaseInv, RefreshInv, Recordable,
     Tokened, Known, Holding, Storing, Request
<1>2. ASSUME NEW i \in Instance, OpenBytes(i) PROVE RefreshInv'
  BY <1>2 DEF OpenBytes, TypeInv, LeaseInv, RefreshInv, Recordable, Tokened, Known, Holding,
     Storing, Request, FlightInv
<1>3. ASSUME NEW i \in Instance, NEW kind \in {"authorize", "refresh"}, NEW t \in Token,
           Begin(i, kind, t),
           kind = "refresh" => t = keyring /\ ~recovery[i] PROVE
           RefreshInv'
  <2> DEFINE new == [id |-> NewId, kind |-> kind, token |-> t, rev |-> rev[i] + 1,
                     calm |-> lease = Nobody]
  <2>1. /\ flight' = [flight EXCEPT ![i] = @ \cup {new}] /\ rev' = [rev EXCEPT ![i] = @ + 1]
        /\ UNCHANGED <<disk, lease, state, observed, recovery, pc, job, prev, aux>>
    BY <1>3 DEF Begin
  <2>2. /\ new.id = NewId /\ new.kind = kind /\ new.token = t /\ new.rev = rev[i] + 1
        /\ new.calm = (lease = Nobody)
    OBVIOUS
  <2> HIDE DEF new
  <2>3. \A r \in flight[i] : r.rev # rev'[i]
    BY <2>1 DEF TypeInv, FlightInv, Request
  <2>4. \A j \in Instance : \A r \in flight'[j] : r.rev = rev'[j] =>
           \/ r \in flight[j] /\ rev'[j] = rev[j]
           \/ j = i /\ r = new
    BY <2>1, <2>3 DEF TypeInv
  <2>5. new.kind = "refresh" /\ new.calm => Tokened(new.token)
    BY <1>3, <2>2, NobodyAssumption DEF LeaseInv, Tokened, Holding, Storing
  <2>6. \A x : Tokened(x)' <=> Tokened(x)
    BY <2>1 DEF Tokened
  <2>7. \A j \in Instance : \A r \in flight'[j] : Recordable(j, r)' => Tokened(r.token)'
    BY <2>1, <2>4, <2>5, <2>6 DEF Recordable, RefreshInv, Known
  <2> QED BY <2>1, <2>7 DEF RefreshInv, Known
<1>4. ASSUME NEW i \in Instance, Clear(i) PROVE RefreshInv'
  BY <1>4 DEF Clear, Checked, Unchanged, Writable, NextRevision, TypeInv, LeaseInv, RefreshInv,
     Recordable, Tokened, Known, Holding, Storing, Request, FlightInv
<1>5. ASSUME NEW i \in Instance, NEW r \in flight[i], NEW w \in Response, Answer(i, r, w) PROVE
           RefreshInv'
  BY <1>5, FileFacts, NobodyAssumption DEF Answer, Answered, Checked, Unchanged, Writable,
     Current, TypeInv, LeaseInv, RefreshInv, Recordable, Tokened, Known, Holding, Storing,
     Request
<1>6. ASSUME NEW i \in Instance, SetToken(i) PROVE RefreshInv'
  BY <1>6, FileFacts, NobodyAssumption DEF SetToken, TypeInv, LeaseInv, RefreshInv, Recordable,
     Tokened, Known, Holding, Storing, Request
<1>7. ASSUME NEW i \in Instance, SaveIdentity(i) PROVE RefreshInv'
  <2>1. /\ pc[i] = "save" /\ pc[i] \in Storing /\ job[i] \in Job
        /\ \A k \in Instance : observed[k].stamp # job[i].id + 2
    BY <1>7 DEF SaveIdentity, TypeInv, FreshInv, Unseen, Storing
  <2>2. /\ Verified(job[i]).ok /\ Verified(job[i]).stamp = job[i].id + 2
        /\ Verified(job[i]) \in Meta
    BY <2>1, VerifiedFacts
  <2>3. \A k \in Instance : observed[k] # Verified(job[i])
    BY <2>1, <2>2
  <2> QED BY <1>7, <2>1, <2>2, <2>3, NobodyAssumption DEF SaveIdentity, Commit, Write, Capture,
             TypeInv, LeaseInv, FlightInv, RefreshInv, Recordable, Tokened, Known, Holding,
             Storing, Request
<1>8. ASSUME NEW i \in Instance, Undo(i) PROVE RefreshInv'
  BY <1>8, FileFacts, NobodyAssumption DEF Undo, OldToken, TypeInv, LeaseInv, RefreshInv,
     Recordable, Tokened, Known, Holding, Storing, Request
<1>9. ASSUME NEW i \in Instance, RecordFailure(i) PROVE RefreshInv'
  <2>1. /\ pc[i] = "fail" /\ pc[i] \in Storing /\ job[i] \in Job /\ Rejects(job[i].answer)
        /\ \A k \in Instance : observed[k].stamp # job[i].id + 2
    BY <1>9 DEF RecordFailure, TypeInv, FreshInv, RefreshInv, Unseen, Storing
  <2>2. /\ Refused(state[i], job[i]).ok = state[i].ok
        /\ Refused(state[i], job[i]).stamp = job[i].id + 2
    BY <2>1, RefusedFacts DEF TypeInv
  <2>3. \A k \in Instance : observed[k] # Refused(state[i], job[i])
    BY <2>1, <2>2
  <2> QED BY <1>9, <2>1, <2>2, <2>3, NobodyAssumption DEF RecordFailure, Commit, Write, Capture,
             TypeInv, LeaseInv, FlightInv, RefreshInv, Recordable, Tokened, Known, Holding,
             Storing, Request
<1>10. ASSUME NEW i \in Instance, EraseIdentity(i) PROVE RefreshInv'
  BY <1>10, FileFacts, NobodyAssumption DEF EraseIdentity, Write, Capture, TypeInv, LeaseInv,
     RefreshInv, Recordable, Tokened, Known, Holding, Storing, Request
<1>11. ASSUME NEW i \in Instance, DeleteToken(i) PROVE RefreshInv'
  BY <1>11, NobodyAssumption DEF DeleteToken, TypeInv, LeaseInv, RefreshInv, Recordable,
     Tokened, Known, Holding, Storing, Request, SecretInv
<1>12. ASSUME NEW i \in Instance, Crash(i) PROVE RefreshInv'
  BY <1>12, FileFacts, NobodyAssumption DEF Crash, TypeInv, LeaseInv, RefreshInv, Recordable,
     Tokened, Known, Holding, Storing, Request
<1>13. ASSUME Damage PROVE RefreshInv'
  BY <1>13, FileFacts, NobodyAssumption DEF Damage, TypeInv, LeaseInv, RefreshInv, Recordable,
     Tokened, Known, Holding, Storing, Request
<1>14. ASSUME Remove PROVE RefreshInv'
  BY <1>14, FileFacts, NobodyAssumption DEF Remove, TypeInv, LeaseInv, RefreshInv, Recordable,
     Tokened, Known, Holding, Storing, Request
<1>15. ASSUME UNCHANGED vars PROVE RefreshInv'
  BY <1>15 DEF vars, disk, mem, aux, TypeInv, LeaseInv, RefreshInv, Recordable, Tokened, Known,
     Holding, Storing, Request
<1> QED BY <1>1, <1>2, <1>3, <1>4, <1>5, <1>6, <1>7, <1>8, <1>9, <1>10, <1>11, <1>12, <1>13,
           <1>14, <1>15 DEF Next, Store, Authorize, Refresh, TypeInv, Who

\* Every step keeps the requests that can still be stored later than the one that was
\* stored last.
LEMMA LatestStep ==
    ASSUME TypeInv, TypeInv', LeaseInv, FlightInv, FreshInv, ViewInv, SecretInv, RefreshInv,
           LatestInv, [Next]_vars
    PROVE  LatestInv'
<1> USE DEF Goto, Return, disk, mem, aux
<1>1. ASSUME NEW i \in Instance, OpenState(i) PROVE LatestInv'
  BY <1>1 DEF OpenState, TypeInv, LeaseInv, LatestInv, Holding, Storing, Request, FlightInv
<1>2. ASSUME NEW i \in Instance, OpenBytes(i) PROVE LatestInv'
  BY <1>2 DEF OpenBytes, TypeInv, LeaseInv, LatestInv, Holding, Storing, Request, FlightInv
<1>3. ASSUME NEW i \in Instance, NEW kind \in {"authorize", "refresh"}, NEW t \in Token,
           Begin(i, kind, t),
           kind = "refresh" => t = keyring /\ ~recovery[i] PROVE
           LatestInv'
  <2> DEFINE new == [id |-> NewId, kind |-> kind, token |-> t, rev |-> rev[i] + 1,
                     calm |-> lease = Nobody]
  <2>1. /\ flight' = [flight EXCEPT ![i] = @ \cup {new}] /\ rev' = [rev EXCEPT ![i] = @ + 1]
        /\ UNCHANGED <<disk, lease, state, observed, recovery, pc, job, prev, aux>>
    BY <1>3 DEF Begin
  <2>2. /\ new.id = NewId /\ new.kind = kind /\ new.token = t /\ new.rev = rev[i] + 1
        /\ new.calm = (lease = Nobody)
    OBVIOUS
  <2> HIDE DEF new
  <2>3. \A r \in flight[i] : r.rev # rev'[i]
    BY <2>1 DEF TypeInv, FlightInv, Request
  <2>4. \A j \in Instance : \A r \in flight'[j] : r.rev = rev'[j] =>
           \/ r \in flight[j] /\ rev'[j] = rev[j]
           \/ j = i /\ r = new
    BY <2>1, <2>3 DEF TypeInv
  <2> QED BY <2>1, <2>2, <2>4 DEF LatestInv, TypeInv
<1>4. ASSUME NEW i \in Instance, Clear(i) PROVE LatestInv'
  BY <1>4 DEF Clear, Checked, Unchanged, Writable, NextRevision, TypeInv, LeaseInv, LatestInv,
     Holding, Storing, Request, FlightInv
<1>5. ASSUME NEW i \in Instance, NEW r \in flight[i], NEW w \in Response, Answer(i, r, w) PROVE
           LatestInv'
  BY <1>5, BudgetFacts, FileFacts, NobodyAssumption DEF Answer, Answered, Checked, Unchanged,
     Writable, Current, TypeInv, LeaseInv, LatestInv, Holding, Storing, Request
<1>6. ASSUME NEW i \in Instance, SetToken(i) PROVE LatestInv'
  BY <1>6, BudgetFacts, FileFacts, NobodyAssumption DEF SetToken, TypeInv, LeaseInv, LatestInv,
     Holding, Storing, Request
<1>7. ASSUME NEW i \in Instance, SaveIdentity(i) PROVE LatestInv'
  <2>1. /\ pc[i] = "save" /\ pc[i] \in Storing /\ job[i] \in Job
        /\ \A k \in Instance : observed[k].stamp # job[i].id + 2
    BY <1>7 DEF SaveIdentity, TypeInv, FreshInv, Unseen, Storing
  <2>2. /\ Verified(job[i]).ok /\ Verified(job[i]).stamp = job[i].id + 2
        /\ Verified(job[i]) \in Meta
    BY <2>1, VerifiedFacts
  <2>3. \A k \in Instance : observed[k] # Verified(job[i])
    BY <2>1, <2>2
  <2> QED BY <1>7, <2>1, <2>2, <2>3, NobodyAssumption DEF SaveIdentity, Commit, Write, Capture,
             TypeInv, LeaseInv, FlightInv, LatestInv, Holding, Storing, Request
<1>8. ASSUME NEW i \in Instance, Undo(i) PROVE LatestInv'
  BY <1>8, BudgetFacts, FileFacts, NobodyAssumption DEF Undo, OldToken, TypeInv, LeaseInv,
     LatestInv, Holding, Storing, Request
<1>9. ASSUME NEW i \in Instance, RecordFailure(i) PROVE LatestInv'
  <2>1. /\ pc[i] = "fail" /\ pc[i] \in Storing /\ job[i] \in Job /\ Rejects(job[i].answer)
        /\ \A k \in Instance : observed[k].stamp # job[i].id + 2
    BY <1>9 DEF RecordFailure, TypeInv, FreshInv, RefreshInv, Unseen, Storing
  <2>2. /\ Refused(state[i], job[i]).ok = state[i].ok
        /\ Refused(state[i], job[i]).stamp = job[i].id + 2
    BY <2>1, RefusedFacts DEF TypeInv
  <2>3. \A k \in Instance : observed[k] # Refused(state[i], job[i])
    BY <2>1, <2>2
  <2> QED BY <1>9, <2>1, <2>2, <2>3, NobodyAssumption DEF RecordFailure, Commit, Write, Capture,
             TypeInv, LeaseInv, FlightInv, LatestInv, Holding, Storing, Request
<1>10. ASSUME NEW i \in Instance, EraseIdentity(i) PROVE LatestInv'
  BY <1>10, NobodyAssumption DEF EraseIdentity, Write, Capture, TypeInv, LeaseInv, LatestInv,
     Holding, Storing, Request, FlightInv
<1>11. ASSUME NEW i \in Instance, DeleteToken(i) PROVE LatestInv'
  BY <1>11, BudgetFacts, FileFacts, NobodyAssumption DEF DeleteToken, TypeInv, LeaseInv,
     LatestInv, Holding, Storing, Request
<1>12. ASSUME NEW i \in Instance, Crash(i) PROVE LatestInv'
  BY <1>12, BudgetFacts, FileFacts, NobodyAssumption DEF Crash, TypeInv, LeaseInv, LatestInv,
     Holding, Storing, Request
<1>13. ASSUME Damage PROVE LatestInv'
  BY <1>13 DEF Damage, TypeInv, LeaseInv, LatestInv, Holding, Storing, Request, Writable
<1>14. ASSUME Remove PROVE LatestInv'
  BY <1>14 DEF Remove, TypeInv, LeaseInv, LatestInv, Holding, Storing, Request, Writable
<1>15. ASSUME UNCHANGED vars PROVE LatestInv'
  BY <1>15 DEF vars, disk, mem, aux, TypeInv, LeaseInv, LatestInv, Holding, Storing, Request
<1> QED BY <1>1, <1>2, <1>3, <1>4, <1>5, <1>6, <1>7, <1>8, <1>9, <1>10, <1>11, <1>12, <1>13,
           <1>14, <1>15 DEF Next, Store, Authorize, Refresh, TypeInv, Who

-----------------------------------------------------------------------------
(***************************************************************************)
(* The theorems.                                                           *)
(***************************************************************************)
\* The invariant holds at first.
LEMMA InitInv == ASSUME Init PROVE IInv
<1>0. MaxRequests \in Nat /\ MaxFaults \in Nat /\ MaxRestarts \in Nat
  BY BoundAssumption
<1>1. budget = [request |-> MaxRequests, fault |-> MaxFaults, restart |-> MaxRestarts]
  BY DEF Init
<1>2. budget \in Budget /\ NewId = 1
  BY <1>0, <1>1 DEF Budget, NewId
<1>3. /\ meta \in Meta /\ meta.stamp \in 0..2 /\ meta.failure = None /\ meta.ok
      /\ meta.who # NoToken => meta.who = keyring
  <2>1. CASE meta \in {NoFile, Cleared}
    <3>1. NoFile.failure = None /\ Cleared.failure = None
      BY DEF NoFile, Cleared
    <3> QED BY <2>1, <3>1, FileFacts
  <2>2. ASSUME NEW t \in Token,
               meta = [NoFile EXCEPT !.who = t, !.cap = "available", !.stamp = 2], keyring = t
        PROVE  /\ meta \in Meta /\ meta.stamp \in 0..2 /\ meta.failure = None /\ meta.ok
               /\ meta.who # NoToken => meta.who = keyring
    <3>1. 2 \in Stamp /\ "available" \in Capability /\ t \in Who
      BY <1>0 DEF Stamp, Capability, Who
    <3>2. NoFile \in Meta /\ NoFile.ok /\ NoFile.failure = None
      BY FileFacts
    <3>3. meta \in Meta
      BY <2>2, <3>1, <3>2 DEF Meta
    <3>4. meta.stamp = 2 /\ meta.failure = None /\ meta.ok /\ meta.who = t
      BY <2>2, <3>2 DEF NoFile
    <3> QED BY <2>2, <3>3, <3>4
  <2> QED BY <2>1, <2>2 DEF Init
<1>4. keyring \in Who
  BY DEF Init, Who
<1>5. /\ lease = Nobody /\ latest = 0 /\ torn = FALSE /\ mixed = FALSE /\ again = FALSE
      /\ state = [i \in Instance |-> NoFile] /\ observed = [i \in Instance |-> NoFile]
      /\ rev = [i \in Instance |-> 0] /\ flight = [i \in Instance |-> {}]
      /\ recovery = [i \in Instance |-> FALSE] /\ pc = [i \in Instance |-> "closed"]
      /\ job = [i \in Instance |-> NoJob] /\ prev = [i \in Instance |-> NoToken]
  BY DEF Init
<1>6. TypeInv
  <2>1. latest \in Nat /\ latest < NewId /\ lease \in Instance \cup {Nobody}
    BY <1>2, <1>5
  <2>4. torn \in BOOLEAN /\ mixed \in BOOLEAN /\ again \in BOOLEAN
    BY <1>5
  <2>2. /\ state \in [Instance -> Meta] /\ observed \in [Instance -> Meta]
        /\ prev \in [Instance -> Who] /\ rev \in [Instance -> Nat]
        /\ recovery \in [Instance -> BOOLEAN] /\ job \in [Instance -> Job \cup {NoJob}]
    BY <1>5, FileFacts DEF Who
  <2>3. /\ flight \in [Instance -> SUBSET Request]
        /\ pc \in [Instance -> Holding \cup {"closed", "opening", "idle"}]
        /\ \A i \in Instance : pc[i] \notin Storing
    BY <1>5 DEF Storing
  <2> QED BY <1>2, <1>3, <1>4, <2>1, <2>2, <2>3, <2>4 DEF TypeInv
<1>7. LeaseInv /\ FlightInv
  BY <1>5, NobodyAssumption DEF LeaseInv, FlightInv, Holding, Storing
<1>8. ViewInv
  BY <1>5, FileFacts DEF ViewInv, Holding, Storing
<1>9. FreshInv
  BY <1>2, <1>3, <1>5, FileFacts DEF FreshInv, Seen, Storing
<1>10. SecretInv /\ RefreshInv /\ LatestInv
  BY <1>3, <1>5 DEF SecretInv, RefreshInv, LatestInv, Attributed, Storing
<1> QED BY <1>6, <1>7, <1>8, <1>9, <1>10 DEF IInv

\* Every step keeps it.
LEMMA StepInv == ASSUME IInv, [Next]_vars PROVE IInv'
<1> USE DEF IInv
<1>1. TypeInv'
  BY TypeStep
<1>2. LeaseInv' /\ FlightInv'
  BY LeaseStep, FlightStep
<1>3. FreshInv' /\ ViewInv'
  BY <1>1, FreshStep, ViewStep
<1>4. SecretInv'
  BY SecretStep
<1>5. RefreshInv' /\ LatestInv'
  BY <1>1, RefreshStep, LatestStep
<1> QED BY <1>1, <1>2, <1>3, <1>4, <1>5

\* A change holds the lease, a request that began before another at its instance is not
\* current, what an answer will write is new, and each view of the file and each token is
\* what the changes under way make of it, in every reachable state.
THEOREM Inductive == Spec => []IInv
<1>1. Init => IInv
  BY InitInv
<1>2. IInv /\ [Next]_vars => IInv'
  BY StepInv
<1> QED BY <1>1, <1>2, PTL DEF Spec

\* The status that an instance shows is about the stored token: what it calls verified was
\* stored last and is that token's, and a refusal is what GitHub answered to that token,
\* however many instances, requests, faults and crashes there were.
THEOREM StatusHolds == Spec => []StatusIsOfToken
<1>1. ASSUME IInv PROVE StatusIsOfToken
  <2> SUFFICES ASSUME NEW i \in Instance, Settled(i)
               PROVE  /\ Status(i, TRUE).state = "verified"
                            => Status(i, TRUE).identity = keyring /\ state[i] = meta
                      /\ Status(i, TRUE).state \in Failure
                            => state[i].of = keyring /\ Status(i, TRUE).cap = "unknown"
    BY DEF StatusIsOfToken
  <2>1. pc[i] = "idle" /\ lease = Nobody /\ observed[i] = meta /\ ~torn /\ ~mixed
    BY DEF Settled, Unchanged
  <2>2. (~recovery[i] => state[i] = meta) /\ Attributed(keyring)
    BY <1>1, <2>1 DEF IInv, ViewInv, SecretInv, Known
  <2>3. state[i].failure \in Failure \cup {None}
    BY <1>1 DEF IInv, TypeInv, Meta
  <2> DEFINE shown == StoredState(i, TRUE)
  <2>4. /\ Status(i, TRUE).state = shown /\ Status(i, TRUE).identity = state[i].who
        /\ shown \in Failure => Status(i, TRUE).cap = "unknown"
    BY DEF Status, Failure
  <2>5. shown \in Failure \cup {"verified"} =>
           /\ ~recovery[i] /\ state[i].who # NoToken /\ keyring # NoToken
           /\ shown = RefusalOr(i, "verified")
    BY DEF StoredState, Recorded, Failure
  <2>6. /\ RefusalOr(i, "verified") = "verified" <=> state[i].failure = None
        /\ RefusalOr(i, "verified") \in Failure <=> state[i].failure # None
    BY <2>3 DEF RefusalOr, Failure, None
  <2> HIDE DEF shown
  <2> QED BY <2>2, <2>4, <2>5, <2>6 DEF Attributed
<1> QED BY <1>1, Inductive, PTL

\* "Latest-started request wins": what is stored, or erased, comes of a later request than
\* what was stored before, in every instance.
THEOREM LatestWins == Spec => LatestStartedWins
<1>1. ASSUME IInv, [Next]_vars PROVE latest' # latest => (latest' > latest \/ again)
  <2> SUFFICES ASSUME latest' # latest, ~again PROVE latest' > latest
    OBVIOUS
  <2>1. PICK i \in Instance : SaveIdentity(i) \/ RecordFailure(i) \/ EraseIdentity(i)
    BY <1>1 DEF Next, Store, Authorize, Refresh, OpenState, OpenBytes, Begin, Clear, Answer,
       SetToken, Undo, DeleteToken, Crash, Damage, Remove, vars, disk, mem, aux
  <2>2. CASE SaveIdentity(i) \/ RecordFailure(i)
    BY <1>1, <2>2 DEF IInv, LatestInv, SaveIdentity, RecordFailure, Storing
  <2>3. CASE EraseIdentity(i)
    <3>1. latest \in Nat /\ latest < NewId /\ NewId \in Nat
      BY <1>1, BudgetFacts DEF IInv, TypeInv
    <3> QED BY <2>3, <3>1 DEF EraseIdentity
  <2> QED BY <2>1, <2>2, <2>3
<1> QED BY <1>1, Inductive, PTL DEF Spec, LatestStartedWins

\* "It has not been overwritten": nothing is written over a file that could not be loaded,
\* or was damaged since.
THEOREM DamagedHolds == Spec => DamagedIsKept
<1>1. ASSUME IInv, [Next]_vars PROVE ~meta.ok => (meta'.ok => (Remove \/ mixed))
  <2> SUFFICES ASSUME ~meta.ok, meta' # meta, ~Remove PROVE mixed
    BY <1>1
  <2>1. \A i \in Instance : pc[i] \in Holding => mixed
    BY <1>1 DEF IInv, ViewInv, TypeInv
  <2>2. CASE Damage
    BY <2>2 DEF Damage
  <2>3. CASE ~Damage
    BY <1>1, <2>1, <2>3 DEF Next, Store, Authorize, Refresh, OpenState, OpenBytes, Begin, Clear,
       Answer, SetToken, SaveIdentity, Undo, RecordFailure, EraseIdentity, DeleteToken, Crash,
       vars, disk, mem, aux, Holding, Storing
  <2> QED BY <2>2, <2>3
<1> QED BY <1>1, Inductive, PTL DEF Spec, DamagedIsKept
=============================================================================
