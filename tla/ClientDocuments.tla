--------------------------- MODULE ClientDocuments ---------------------------
(***************************************************************************)
(* What the adapters do to the clients' own configuration (adapters/,      *)
(* deployment.rs): the model groups of VS Code profiles, the providers of  *)
(* the JetBrains IDEs, and the environment and shell profile of Copilot    *)
(* CLI on Unix.  The user and other installations edit the same documents, *)
(* clients come and go, and connections change under what is published.    *)
(*                                                                         *)
(* A publication is one step: Deployment has its review, its interleavings *)
(* and its failures, and treats a document as a version; this module has   *)
(* the documents.  What the setup assistant says of a target (setup.rs:    *)
(* drift) is derived from them and from the record of the last deployment. *)
(***************************************************************************)
EXTENDS Naturals, SequencesExt

CONSTANTS
    Self, Other, \* this installation and another one, the owners of entries
    Conn,        \* connections; the identity of one is never used again
    None,        \* no connection, no owner, or no route in the environment
    DefaultProfile, Profile, \* VS Code's default profile and named ones
    Ide, Byok,   \* JetBrains profiles, and the document they share
    Cli, App,    \* Copilot CLI, and the app no provider can be written to
    Segment,     \* segments of the path of a URL
    Body,        \* contents of a connection
    Usual,       \* those among Body a connection is created or changed with
    Descriptor,  \* plugin descriptors
    Reviewed,    \* supported_version: the reviewed plugin versions
    Nothing,     \* a client that is not there
    Missing, Bad, \* the text of a document that is not there, or cannot be read
    Foreign,     \* an environment file written by hand
    Request,     \* the selections of targets that are published to
    MaxSteps, MaxPlans, MaxChanges, MaxDocEdits, MaxMoves, MaxFails \* bounds

VsCode   == {DefaultProfile} \cup Profile
Document == VsCode \cup {Byok}
Target   == VsCode \cup Ide \cup {Cli, App}

Protocol == {"chat", "responses", "messages"}

ASSUME TargetAssumption ==
    /\ VsCode \cap Ide = {} /\ {Cli, App, Byok} \cap (VsCode \cup Ide) = {}
    /\ Cli # App /\ Cli # Byok
ASSUME BodyAssumption ==
    /\ None \notin Conn /\ None \notin Body /\ Usual \subseteq Body
    /\ {"v1", "chat", "completions", "responses", "messages"} \subseteq Segment
    /\ Body \subseteq [protocol : Protocol, path : Seq(Segment), query : BOOLEAN,
                       models : BOOLEAN, key : BOOLEAN, enabled : BOOLEAN]
ASSUME RequestAssumption == \A ts \in Request : ts \in Seq(Target) /\ IsInjective(ts)
ASSUME StepAssumption ==
    {MaxSteps, MaxPlans, MaxChanges, MaxDocEdits, MaxMoves, MaxFails} \subseteq Nat

\* An entry that a user or a tool wrote has no connection.  In byok.json the name of an
\* entry stands for its owner and connection; it is sound if it has just the three keys
\* the application writes, with its markers.
Entry == [conn : Conn \cup {None}, owner : {Self, Other, None}, sound : BOOLEAN,
          body : Body \cup {None}]

\* A route: the variables of the environment file, and whose they are.
RouteOf == [owner : {Self, Other}, conn : Conn, body : Body \cup {None}]

ASSUME TextAssumption ==
    /\ {Missing, Bad} \cap SUBSET Entry = {} /\ Missing # Bad
    /\ {None, Foreign} \cap RouteOf = {} /\ None # Foreign

Users == [conn |-> None, owner |-> None, sound |-> FALSE, body |-> None]

VARIABLES
    conns,    \* state.json: the contents of each connection, or None
    proofs,   \* state.json: which connection was written to which resource for which target
    records,  \* state.json: what became of the deployments to each target, the last one first
    gone,     \* connections that were deleted
    client,   \* what is installed for each target
    registry, \* providers.json, or an override, takes precedence over the environment
    docs,     \* the entries of each document, or Missing, or Bad
    backup,   \* documents with a backup of their original content
    env,      \* the route in the environment file, or None, or Foreign
    rc,       \* the lines of the shell profile
    stray,    \* auxiliary: resources someone else changed, for the connections it concerns
    detached, \* auxiliary: connections deleted while they were published
    left

clients == <<client, registry>>
written == <<docs, backup, env, rc>>
marks   == <<stray, detached>>
cvars   == <<conns, proofs, records, gone, clients, written, marks, left>>

\* What others do, and a failure, counts twice, so that the runs of this application can
\* be longer.
Take(b) ==
    LET cost == IF b \in {"edit", "move", "fail"} THEN 2 ELSE 1
    IN /\ left[b] > 0 /\ left.all >= cost
       /\ left' = [left EXCEPT ![b] = @ - 1, !.all = @ - cost]

-----------------------------------------------------------------------------
(***************************************************************************)
(* The JetBrains resolver of endpoints, on the segments of a path.         *)
(***************************************************************************)
Versions == {"v1", "v2"}
Endings == <<<<"v1", "messages">>, <<"chat", "completions">>, <<"responses">>, <<"messages">>>>
Route(protocol) ==
    CASE protocol = "chat" -> <<"chat", "completions">>
      [] protocol = "responses" -> <<"responses">>
      [] protocol = "messages" -> <<"v1", "messages">>

\* The first of these that the URL ends with, or <<>>.
Terminal(path) ==
    LET n == SelectInSeq(Endings, LAMBDA suffix : IsSuffix(suffix, path))
    IN IF n = 0 THEN <<>> ELSE Endings[n]

Base(path) == SubSeq(path, 1, Len(path) - Len(Terminal(path)))
IsVersioned(base) == base # <<>> /\ Last(base) \in Versions

\* effective_endpoint: the URL the plugin will call.
Effective(b) ==
    LET base == Base(b.path)
    IN IF b.protocol = "messages"
       THEN (IF IsVersioned(base) THEN Front(base) ELSE base) \o Route(b.protocol)
       ELSE base \o (IF IsVersioned(base) THEN <<>> ELSE <<"v1">>) \o Route(b.protocol)

FaithfulIfVersioned(b) == b.path = <<>> \/ Terminal(b.path) # <<>> \/ IsVersioned(Base(b.path))

\* A full inference URL must survive, and a base must be a root or end in a version.
Faithful(b) ==
    LET base == Base(b.path)
    IN IF Terminal(b.path) # <<>> THEN Effective(b) = b.path
       ELSE \/ b.path = <<>>
            \/ IsVersioned(base) /\ (b.protocol = "messages" => Last(base) = "v1")

Compatible(b) == ~b.query /\ Faithful(b) /\ b.key

-----------------------------------------------------------------------------
(***************************************************************************)
(* Discovery.                                                              *)
(***************************************************************************)

\* descriptor::parse: the plugin's version, "other" for another plugin, or "error".
Parse(d) ==
    LET Value(f) == IF d[f] = <<>> THEN "" ELSE d[f][1]
    IN IF \/ ~d.wellformed
          \/ \E f \in {"id", "name", "vendor", "version"} : Len(d[f]) > 1
       THEN "error"
       ELSE IF Value("id") # "com.github.copilot" THEN "other"
       ELSE IF Value("vendor") # "GitHub" \/ "" \in {Value("name"), Value("version")}
       THEN "error"
       ELSE Value("version")

\* inspect_profile, discover_at: one descriptor of the plugin, of a reviewed version; a
\* directory that cannot be read is one with a bad descriptor.
IsReviewed(ide) ==
    LET ours == {d \in ide.plugins : Parse(d) # "other"}
    IN /\ ~ide.disabled
       /\ Cardinality(ours) = 1
       /\ \A d \in ours : Parse(d) \in Reviewed

Idea == [plugins : {P \in SUBSET Descriptor : Cardinality(P) <= 2}, disabled : BOOLEAN]

IsDetected(t) == client[t] # Nothing

\* discover_all: Copilot CLI and the app are targets although they are not there, and so
\* is a VS Code profile that inherits its language models.
Listed(t) == t \in VsCode \cup Ide => IsDetected(t)

IsWritable(t) ==
    /\ IsDetected(t) /\ t # App
    /\ t \in Ide => IsReviewed(client[t])

\* The document that a target is written to; Cli stands for its environment and profile.
ResourceOf(t) ==
    CASE t \in Ide    -> Byok
      [] t \in VsCode -> IF client[t] = "inherits" THEN DefaultProfile ELSE t
      [] OTHER        -> t

CInit ==
    /\ \E c \in Conn, b \in Body : conns = [d \in Conn |-> IF d = c THEN b ELSE None]
    /\ proofs = {} /\ gone = {} /\ records = [t \in Target |-> <<>>]
    /\ \E s \in {"own", "inherits"}, d \in Descriptor :
          /\ Parse(d) \in Reviewed
          /\ client = [t \in Target |->
                 CASE t \in Profile -> s
                   [] t \in Ide -> [plugins |-> {d}, disabled |-> FALSE]
                   [] OTHER -> "found"]
    /\ registry = FALSE
    /\ \E text \in {Missing, {Users}} : docs = [d \in Document |-> text]
    /\ backup = {} /\ env = None
    /\ rc = <<[kind |-> "user", conn |-> None, owner |-> None]>>
    /\ stray = {} /\ detached = {}
    /\ left = [all |-> MaxSteps, plan |-> MaxPlans, change |-> MaxChanges, edit |-> MaxDocEdits,
                 move |-> MaxMoves, fail |-> MaxFails]

-----------------------------------------------------------------------------
(***************************************************************************)
(* The documents of VS Code and JetBrains.                                 *)
(***************************************************************************)
IsReadable(d) == docs[d] # Bad
Entries(d) == IF docs[d] = Missing \/ ~IsReadable(d) THEN {} ELSE docs[d]
Claimed(d, c) == {e \in Entries(d) : e.conn = c}

\* verify_binding: a marker alone is no authority to replace.
IsBound(c, r) == \E p \in proofs : p.conn = c /\ p.res = r

OwnedByMarker(d, c) ==
    /\ IsReadable(d)
    /\ Cardinality(Claimed(d, c)) <= 1
    /\ \A e \in Claimed(d, c) : e.sound

\* prepare_owned, prepare_at: what claims to be of the connection is one entry, as this
\* installation writes it, with a proof in the state.
Owned(d, c) ==
    /\ IsReadable(d)
    /\ Cardinality(Claimed(d, c)) <= 1
    /\ \A e \in Claimed(d, c) : e.owner = Self /\ e.sound /\ IsBound(c, d)

\* VS Code gets no group if no model is enabled.
IsRendered(d, c) == d = Byok \/ conns[c].models

Rendered(d, c, revoke) ==
    (Entries(d) \ Claimed(d, c)) \cup
        IF revoke \/ ~IsRendered(d, c) THEN {}
        ELSE {[conn |-> c, owner |-> Self, sound |-> TRUE, body |-> conns[c]]}

\* A document without a change keeps its form; an empty byok.json is removed.
After(d, c, revoke) ==
    LET entries == Rendered(d, c, revoke)
    IN IF entries = Entries(d) THEN docs[d]
       ELSE IF d = Byok /\ entries = {} THEN Missing ELSE entries

-----------------------------------------------------------------------------
(***************************************************************************)
(* The environment and shell profile of Copilot CLI.                       *)
(***************************************************************************)
Line(kind, owner, c) == [kind |-> kind, owner |-> owner, conn |-> c]
Plain(kind) == Line(kind, None, None)
Block(owner, c) ==
    <<Plain("start"), Line("mark", owner, c), Plain("source"), Plain("end")>>
At(kind) == {n \in DOMAIN rc : rc[n].kind = kind}

\* replace_bounded_block: at most one block, and a complete one.
IsReplaceable ==
    /\ Cardinality(At("start")) <= 1 /\ Cardinality(At("end")) <= 1
    /\ \/ At("start") = {} /\ At("end") = {}
       \/ \E s \in At("start"), e \in At("end") : s < e

\* A revocation leaves a profile without the first line of a block as it is.
IsRemovable == At("start") = {} \/ IsReplaceable

Outside ==
    IF At("start") = {} THEN <<rc, <<>>>>
    ELSE LET s == CHOOSE n \in At("start") : TRUE
             e == CHOOSE n \in At("end") : TRUE
         IN <<SubSeq(rc, 1, s - 1), SubSeq(rc, e + 1, Len(rc))>>

Replaced(block) == Outside[1] \o block \o Outside[2]

\* verify_current_owner: what is there bears the marker of the connection.
IsRoute(c) == env \notin {None, Foreign} /\ env.owner = Self /\ env.conn = c

IsCurrentOwner(c) ==
    /\ env # None => IsRoute(c)
    /\ At("start") = {} \/ \E n \in DOMAIN rc : rc[n] = Line("mark", Self, c)

-----------------------------------------------------------------------------
(***************************************************************************)
(* Publication and revocation.                                             *)
(***************************************************************************)
IsSupportedNow(t, c, revoke) == IsWritable(t) /\ (t \in Ide => Compatible(conns[c]))

\* preview, preview_revocation: a revocation does not ask whether the endpoint or the key
\* would do.
IdeSupports(c, revoke) == revoke \/ Compatible(conns[c])
IsSupported(t, c, revoke) == IsWritable(t) /\ (t \in Ide => IdeSupports(c, revoke))

\* prepare_writes for one operation.  A CLI publication replaces any route, but not
\* where another configuration takes precedence; its revocation needs an owned route.
CanWrite(t, c, revoke) ==
    IF t # Cli THEN Owned(ResourceOf(t), c)
    ELSE IF revoke THEN IsBound(c, Cli) /\ IsCurrentOwner(c) /\ IsRemovable
    ELSE ~registry /\ conns[c].models /\ IsReplaceable

\* The proofs that an operation on the target t replaces.
SupersedesOfTarget(t, c, p) == p.target = t /\ (t = Cli \/ p.conn = c)
Supersedes(t, c, p) == /\ p.res = ResourceOf(t)
                       /\ t = Cli \/ p.conn = c
                       /\ t \in Ide => p.target = t
ProofsLeft(T, c) == {p \in proofs : \A t \in T : ~Supersedes(t, c, p)}

ProofOf(t, c)  == [conn |-> c, target |-> t, res |-> ResourceOf(t)]
IsProven(t, c) == t \in VsCode => IsRendered(ResourceOf(t), c)

\* Targets that cannot be written to are reported, and skipped.
SupportedOf(ts, c) == {t \in ToSet(ts) : IsSupported(t, c, FALSE)}

\* The proofs after a publication: of the operations on targets that share a document,
\* a later one replaces the proof of an earlier one.
ProofsAfter(ts, c) ==
    LET N == {n \in DOMAIN ts : ts[n] \in SupportedOf(ts, c)}
        lasts == {n \in N : \A m \in N : m > n => ~Supersedes(ts[m], c, ProofOf(ts[n], c))}
    IN ProofsLeft(SupportedOf(ts, c), c)
          \cup {ProofOf(ts[n], c) : n \in {m \in lasts : IsProven(ts[m], c)}}

\* ownership::validate, on commit: a target has one proof for a connection.  A refused
\* commit is compensated for, and leaves its journal for a reviewed recovery.
AreValid(ps) ==
    \A p, q \in ps : (p.target = q.target /\ p.conn = q.conn) => p = q

\* Transaction writes each resource once; the original of a VS Code document that
\* changes is kept, once.
WriteDocuments(T, c, revoke) ==
    LET changed == {d \in Document : /\ d \in {ResourceOf(t) : t \in T}
                                     /\ After(d, c, revoke) # docs[d]}
    IN /\ docs' = [d \in Document |-> IF d \in changed THEN After(d, c, revoke) ELSE docs[d]]
       /\ backup' = backup \cup {d \in changed \cap VsCode : docs[d] # Missing}

\* desired_environment: all variables are of one connection.
Environment(c) == [owner |-> Self, conn |-> c, body |-> conns[c]]

ActivateRoute(c) == env' = Environment(c) /\ rc' = Replaced(Block(Self, c))

RemoveRoute == /\ env' = None
               /\ rc' = IF At("start") = {} THEN rc ELSE Replaced(<<>>)

WriteAll(T, c, revoke) ==
    /\ WriteDocuments(T, c, revoke)
    /\ IF Cli \notin T THEN UNCHANGED <<env, rc>>
       ELSE IF revoke THEN RemoveRoute ELSE ActivateRoute(c)

\* fingerprint_target: the target and all it is configured by.  What is equal here may
\* differ in form, which the code would notice.
Fingerprint(t) ==
    <<client[t], IF t = Cli THEN <<registry, env, rc>>
                 ELSE IF t = App THEN <<>> ELSE <<docs[ResourceOf(t)]>>>>

\* Only an applied deployment is recorded with what was deployed, and where.
Record(c, t, status) ==
    [conn |-> c, status |-> status,
     body |-> IF status = "applied" THEN conns[c] ELSE None,
     seen |-> IF status = "applied" THEN Fingerprint(t)' ELSE <<>>]

\* commit_deployment: every operation of the plan is recorded.
RecordAll(c, ts, T, status) ==
    records' = [t \in Target |->
        IF t \notin ToSet(ts) THEN records[t]
        ELSE <<Record(c, t, IF t \in T THEN status ELSE "skipped")>> \o records[t]]

\* The elements of a sequence at the positions N, in their order.
Rank(N, n) == Cardinality({m \in N : m <= n})
Pick(s, N) == [k \in 1..Cardinality(N) |-> s[CHOOSE n \in N : Rank(N, n) = k]]

\* A connection is deleted with the records of its deployments.
ForgetRecords(c) ==
    records' = [t \in Target |->
        Pick(records[t], {n \in DOMAIN records[t] : records[t][n].conn # c})]

CanPublish(c, ts) ==
    /\ conns[c] # None /\ conns[c].enabled
    /\ \A t \in ToSet(ts) : Listed(t)
    /\ SupportedOf(ts, c) # {}
    /\ \A t \in SupportedOf(ts, c) : CanWrite(t, c, FALSE)

Publish(c, ts) ==
    /\ Take("plan")
    /\ CanPublish(c, ts)
    /\ AreValid(ProofsAfter(ts, c))
    /\ WriteAll(SupportedOf(ts, c), c, FALSE)
    /\ proofs' = ProofsAfter(ts, c)
    /\ UNCHANGED <<conns, gone, clients, marks>>
    /\ RecordAll(c, ts, SupportedOf(ts, c), "applied")

\* A publication that fails and is restored is recorded as well.
PublishFails(c, ts) ==
    /\ Take("fail")
    /\ CanPublish(c, ts)
    /\ RecordAll(c, ts, SupportedOf(ts, c), "failed")
    /\ UNCHANGED <<conns, proofs, gone, clients, written, marks>>

ProvenTargets(c) == {p.target : p \in {q \in proofs : q.conn = c}}

\* A revocation is of every target with a proof, and must leave no proof.
CanRevoke(c) ==
    /\ conns[c] # None
    /\ \A t \in ProvenTargets(c) :
          Listed(t) /\ IsSupported(t, c, TRUE) /\ CanWrite(t, c, TRUE)
    /\ \A p \in ProofsLeft(ProvenTargets(c), c) : p.conn # c

Revoke(c) ==
    /\ Take("plan")
    /\ CanRevoke(c)
    /\ WriteAll(ProvenTargets(c), c, TRUE)
    /\ proofs' = {p \in proofs : p.conn # c}
    /\ conns' = [conns EXCEPT ![c] = None] /\ gone' = gone \cup {c}
    /\ ForgetRecords(c)
    /\ UNCHANGED <<clients, marks>>

\* delete_connection: what was written stays, and is nobody's from now on.
Detach(c) ==
    /\ conns[c] # None
    /\ Take("change")
    /\ conns' = [conns EXCEPT ![c] = None] /\ gone' = gone \cup {c}
    /\ proofs' = {p \in proofs : p.conn # c}
    /\ detached' = detached \cup {c}
    /\ ForgetRecords(c)
    /\ UNCHANGED <<clients, written, stray>>

\* upsert_connection, set_connection_enabled: no document is touched.
Upsert(c, b) ==
    /\ c \notin gone /\ conns[c] # b
    /\ Take("change")
    /\ conns' = [conns EXCEPT ![c] = b]
    /\ UNCHANGED <<proofs, records, gone, clients, written, marks>>

-----------------------------------------------------------------------------
(***************************************************************************)
(* Others.                                                                 *)
(***************************************************************************)

\* A client is installed, removed or updated, or a profile's inheritance is switched.
ClientChanges ==
    /\ Take("move")
    /\ \/ \E t \in Profile, s \in {"own", "inherits", Nothing} :
             client' = [client EXCEPT ![t] = s]
       \/ \E t \in {DefaultProfile, Cli, App} : client' = [client EXCEPT ![t] = Nothing]
       \/ \E t \in Ide, idea \in Idea \cup {Nothing} : client' = [client EXCEPT ![t] = idea]
    /\ client' # client
    /\ UNCHANGED <<conns, proofs, records, gone, registry, written, marks>>

RegistryChanges ==
    /\ Take("move")
    /\ registry' = ~registry
    /\ UNCHANGED <<conns, proofs, records, gone, client, written, marks>>

\* What others write into a document: their own, another installation's, one of this
\* installation's changed or copied.
Alien ==
    {Users} \cup
    {[conn |-> c, owner |-> o, sound |-> s, body |-> None] :
        c \in Conn, o \in {Self, Other}, s \in BOOLEAN}

EditDocument ==
    /\ Take("edit")
    /\ \E d \in Document :
          \/ \E e \in Entries(d) : /\ docs' = [docs EXCEPT ![d] = @ \ {e}]
                                   /\ stray' = stray \cup {<<d, e.conn>>}
          \/ \E e \in Alien \ Entries(d) :
                /\ docs[d] # Bad
                /\ docs' = [docs EXCEPT ![d] = Entries(d) \cup {e}]
                /\ stray' = stray \cup {<<d, e.conn>>}
          \/ \E text \in {Missing, Bad} : /\ docs' = [docs EXCEPT ![d] = text]
                                          /\ stray' = stray \cup ({d} \X Conn)
    /\ UNCHANGED <<conns, proofs, records, gone, clients, backup, env, rc, detached>>

\* The user edits the shell profile, or another route is written.
EditCli ==
    /\ Take("edit")
    /\ \/ \E n \in 0..Len(rc) : /\ rc' = InsertAt(rc, n + 1, Plain("user"))
                                /\ UNCHANGED <<env, stray>>
       \/ \E n \in 1..Len(rc) : /\ rc' = RemoveAt(rc, n) /\ UNCHANGED env
                                /\ stray' = stray \cup ({Cli} \X Conn)
       \/ \E n \in 0..Len(rc), kind \in {"start", "end"} :
             /\ rc' = InsertAt(rc, n + 1, Plain(kind)) /\ UNCHANGED env
             /\ stray' = stray \cup ({Cli} \X Conn)
       \/ /\ env' \in {None, Foreign} /\ UNCHANGED rc
          /\ stray' = stray \cup ({Cli} \X Conn)
       \/ \E c \in Conn : /\ IsReplaceable /\ rc' = Replaced(Block(Other, c))
                          /\ env' = [owner |-> Other, conn |-> c, body |-> None]
                          /\ stray' = stray \cup ({Cli} \X Conn)
    /\ UNCHANGED <<conns, proofs, records, gone, clients, docs, backup, detached>>

CNext ==
    \/ \E c \in Conn :
          \/ \E ts \in Request : Publish(c, ts) \/ PublishFails(c, ts)
          \/ \E b \in Usual : Upsert(c, b)
          \/ Revoke(c) \/ Detach(c)
    \/ ClientChanges \/ RegistryChanges \/ EditDocument \/ EditCli

CSpec == CInit /\ [][CNext]_cvars

-----------------------------------------------------------------------------
(***************************************************************************)
(* What is observed.                                                       *)
(***************************************************************************)
PublicFields(b) == <<b.protocol, b.path, b.query, b.models>>

Candidates(b) == {c \in Conn : /\ conns[c] # None /\ conns[c].models
                               /\ PublicFields(conns[c]) = PublicFields(b)}

\* publication::observe: the connections shown for a target, if it can be read.  A CLI
\* route has no readable identity: it is of the one connection with the same public fields.
ObservedIn(d) == {c \in Conn : conns[c] # None /\ Claimed(d, c) # {}}

Observed(t) ==
    IF t # Cli THEN ObservedIn(ResourceOf(t))
    ELSE IF registry \/ env \in {None, Foreign} \/ env.body = None
            \/ Cardinality(Candidates(env.body)) # 1
         THEN {} ELSE Candidates(env.body)

IsOfConnection(r, c) == r.conn = c

\* The record is of the connection as it is now.
IsCurrent(r, c) == r.conn = c /\ r.body = conns[c]

\* drift: what the setup assistant says of a target, for the connection selected there.
Drift(t, c) ==
    IF ~IsWritable(t) THEN "notWritable" \* not installed, manual or unknown
    ELSE IF records[t] = <<>> THEN "notDeployed"
    ELSE LET r == Head(records[t]) IN
         CASE r.status # "applied" -> "conflict"
           [] r.status = "applied" /\ ~IsCurrent(r, c) -> "outOfDate"
           [] r.status = "applied" /\ IsCurrent(r, c) ->
                IF r.seen = Fingerprint(t) THEN "inSync" ELSE "conflict"

-----------------------------------------------------------------------------
(***************************************************************************)
(* Properties.                                                             *)
(***************************************************************************)
Undisturbed(r, c) == <<r, c>> \notin stray

\* Whatever is published or revoked, in documents it shares with the user and with other
\* installations the application replaces only its own proven entry of one connection,
\* keeps every line outside its block, keeps the original of what it changes in VS Code,
\* and never touches a file it cannot read; a revocation removes only its own route.
OthersKept ==
    [][left'.edit = left.edit =>
          /\ \E c \in Conn : \A d \in Document :
                \/ docs'[d] = docs[d]
                \/ /\ docs[d] # Bad
                   /\ Entries(d)' \ Claimed(d, c)' = Entries(d) \ Claimed(d, c)
                   /\ \A e \in Claimed(d, c) : e.owner = Self /\ IsBound(c, d)
                   /\ d \in backup' \/ docs[d] = Missing \/ d = Byok
          /\ rc' # rc => Outside[1] \o Outside[2] = (Outside[1] \o Outside[2])'
          /\ (env # None /\ env' = None)
                => \E c \in Conn : IsRoute(c) /\ conns[c] # None /\ conns'[c] = None]_cvars

\* Where nobody else interfered, state.json has a proof for a connection exactly if the
\* document has its entry, whatever became of targets and connections meanwhile: the
\* proofs, and what is shown for a target, are what can be taken back.
ProofsAreTrue ==
    \A c \in Conn \ detached :
        /\ \A d \in Document : Undisturbed(d, c) => (IsBound(c, d) <=> Claimed(d, c) # {})
        /\ \A t \in VsCode \cup Ide :
              Undisturbed(ResourceOf(t), c) => (c \in Observed(t) <=> IsBound(c, ResourceOf(t)))
        /\ Undisturbed(Cli, c) =>
              (IsBound(c, Cli) <=> IsRoute(c))

\* What was published can be revoked, although the connection has since lost its key,
\* its models or its endpoint, or others' entries and lines came and went, if its targets
\* are there and write to the same documents, and nobody touched what was written.
StillRevocable ==
    \A c \in Conn :
        (/\ conns[c] # None
         /\ \A p \in proofs : p.conn = c =>
               /\ Undisturbed(p.res, c)
               /\ IsWritable(p.target) /\ ResourceOf(p.target) = p.res)
            => CanRevoke(c)

\* "Live configuration matches the recorded deployment": a target that is shown as in
\* sync has the connection as it is now and as this installation writes it, at the
\* document the client reads, and nothing takes precedence over it, whoever published,
\* failed, was deleted or edited the documents meanwhile.
InSyncIsTrue ==
    \A t \in Target, c \in Conn :
        (conns[c] # None /\ Drift(t, c) = "inSync") =>
            IF t = Cli
            THEN /\ ~registry /\ env = Environment(c)
                 /\ \E n \in DOMAIN rc : SubSeq(rc, n, n + 3) = Block(Self, c)
            ELSE Claimed(ResourceOf(t), c) =
                    {e \in Rendered(ResourceOf(t), c, FALSE) : e.conn = c}

\* A connection that was published to the JetBrains IDEs is called at the URL the user
\* entered, extended by no more than its protocol's route: only a bare host gets a version.
EndpointKept ==
    \A e \in Entries(Byok) :
        (e.owner = Self /\ e.body # None) =>
            LET wire == IF e.body.protocol = "messages" THEN <<"messages">>
                        ELSE Route(e.body.protocol)
            IN /\ IsSuffix(wire, Effective(e.body))
               /\ \/ e.body.path = <<>> /\ Effective(e.body) = <<"v1">> \o wire
                  \/ Effective(e.body) \in {e.body.path, e.body.path \o wire}
=============================================================================
