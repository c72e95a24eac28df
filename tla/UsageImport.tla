---------------------------- MODULE UsageImport ----------------------------
(***************************************************************************)
(* The import of one usage log into the database, and the binding of the   *)
(* imported observations to price catalogs (usage/importer.rs,             *)
(* usage/parsers.rs, usage/store.rs, usage/pricing.rs), by several running *)
(* instances, and the status that the source is shown with.                *)
(*                                                                         *)
(* The log is a sequence of lines, of the sessions of Copilot CLI or of    *)
(* the spans of VS Code.  A line starts a session, reports the usage of    *)
(* the session or of a span at some time, is of no concern, or malformed.  *)
(* Another program creates the log, appends to it, leaves its last line    *)
(* incomplete, truncates or rotates it.                                    *)
(***************************************************************************)
EXTENDS Naturals, Sequences, FiniteSets

CONSTANTS
    Instance,    \* running instances of the application
    Id,          \* records: a session with its model, or a span
    Kinds,       \* what the log may be: "sessions" or "spans"
    Event,       \* what its lines may be
    Catalog,     \* price catalogs, named by their content
    None,        \* no record, no price, no catalog, no session
    PrefixLines, \* how many lines the hashed prefix of 4096 bytes covers
    BatchLines,  \* a batch is committed after so many lines
    MaxLines, MaxInodes, MaxTruncations, MaxSyncs, MaxRefreshes,
    MaxMishaps   \* bounds; a mishap is a stop, a clear, a failure, half a line, ...

ASSUME NoneAssumption == None \notin Id \cup Catalog
ASSUME EventAssumption == /\ Kinds \subseteq {"sessions", "spans"}
                          /\ Event \subseteq {"start", "usage", "other", "bad"}
ASSUME BatchAssumption == {PrefixLines, BatchLines} \subseteq Nat \ {0}
ASSUME BoundAssumption ==
    /\ {MaxLines, MaxTruncations, MaxSyncs, MaxRefreshes, MaxMishaps} \subseteq Nat
    /\ MaxInodes \in Nat \ {0}

VARIABLES
    inode,    \* the contents of every file the log has been
    path,     \* the one that has the log's name, 0 before the log exists
    written,  \* how many lines were ever written, the time of the last one
    rec,      \* usage_records: the stored observation of each record
    cursor,   \* usage_file_cursors: how far the log was imported
    source,   \* usage_sources: its kind, whether it is enabled, and how it was imported
    current,  \* current_price_catalog, the catalog and when it was checked
    clock,    \* when the last catalog was fetched
    sync,     \* the import each instance runs
    refresh,  \* the price refresh each instance runs
    raced,    \* auxiliary: what happened beside an import that it cannot see
    budget    \* what is left of each bound

log   == <<inode, path, written>>
db    == <<rec, cursor, source>>
price == <<current, clock>>
vars  == <<log, db, price, sync, refresh, raced, budget>>

\* The id of a line is a session's, or of (auxiliary) the session whose usage it is.
Line  == [event : {"start", "usage", "other", "bad"}, id : Id, fin : 1..MaxLines]
File  == [lines : Seq(Line), part : BOOLEAN, mtime : 0..MaxTruncations]
Obs   == [id : Id, of : Id, fin : 1..MaxLines, price : Catalog \cup {None}]
ASSUME ObservationAssumption == None \notin Obs
Cursor == [offset : 0..MaxLines, ident : 0..MaxInodes, size : 0..(2 * MaxLines),
           mtime : 0..MaxTruncations, prefix : Seq(Line), session : Id \cup {None}]
NoCursor == [offset |-> 0, ident |-> 0, size |-> 0, mtime |-> 0, prefix |-> <<>>,
             session |-> None]

DataStatus == {"disabled", "unavailable", "missing", "schemaError", "canceled", "partial",
               "empty", "available"}
Source == [kind : {"sessions", "spans"}, enabled : BOOLEAN, status : DataStatus,
           scanned : BOOLEAN]

\* The length of a file, to which an incomplete last line adds less than a line.
Size(f) == 2 * Len(f.lines) - (IF f.part THEN 1 ELSE 0)
Complete(f) == IF f.part THEN Len(f.lines) - 1 ELSE Len(f.lines)
Prefix(f, offset) ==
    SubSeq(f.lines, 1, IF offset < PrefixLines THEN offset ELSE PrefixLines)

NoSync    == [at |-> "idle", catalog |-> None, limit |-> 0, cursor |-> NoCursor,
              batch |-> {}, pending |-> 0, last |-> FALSE, ok |-> TRUE,
              missing |-> FALSE, listed |-> TRUE, stop |-> "no"]
NoRefresh == [at |-> "idle", catalog |-> None, time |-> 0, rows |-> {}]

Spend(k) == budget[k] > 0 /\ budget' = [budget EXCEPT ![k] = @ - 1]
Mishap == Spend("mishap")
Works == UNCHANGED budget

Init ==
    /\ inode = [n \in 1..MaxInodes |-> [lines |-> <<>>, part |-> FALSE, mtime |-> 0]]
    /\ path = 0 /\ written = 0
    /\ rec = [x \in Id |-> None] /\ cursor = NoCursor
    /\ source \in [kind : Kinds, enabled : {FALSE}, status : {"disabled"}, scanned : {FALSE}]
    /\ current = [id |-> None, time |-> 0] /\ clock = 0
    /\ sync = [i \in Instance |-> NoSync]
    /\ refresh = [i \in Instance |-> NoRefresh]
    /\ raced = {}
    /\ budget = [sync |-> MaxSyncs, refresh |-> MaxRefreshes, mishap |-> MaxMishaps]

-----------------------------------------------------------------------------
(***************************************************************************)
(* The import of one source by importer::sync.                             *)
(***************************************************************************)
Update(i, new) == sync' = [sync EXCEPT ![i] = new]

\* What the source is shown as.
Shown ==
    CASE ~source.enabled -> "disabled"
      [] source.enabled /\ path = 0 -> "missing"
      [] source.enabled /\ path # 0 /\ ~source.scanned -> "unavailable"
      [] OTHER -> source.status

\* local_busy excludes a second import of the instance; cancellation starts afresh;
\* sync takes what the source is shown as, and sync_source the current catalog, once.
Begin(i) ==
    /\ sync[i].at = "idle" /\ source.enabled
    /\ Spend("sync")
    /\ Update(i, [NoSync EXCEPT !.at = "inspect", !.catalog = current.id,
                                 !.missing = Shown = "missing"])
    /\ UNCHANGED <<log, db, price, refresh, raced>>

\* candidates: the directory of the sessions cannot be read, or does not exist.
Unlisted(i) ==
    /\ sync[i].at = "inspect" /\ source.kind = "sessions"
    /\ Mishap \/ (path = 0 /\ Works)
    /\ Update(i, [sync[i] EXCEPT !.at = "finish", !.ok = FALSE, !.listed = FALSE])
    /\ UNCHANGED <<log, db, price, refresh, raced>>

ResetsIfShorter(c, f, ident) == c = NoCursor \/ 2 * c.offset > Size(f)

\* The log is not the one the cursor is about: it starts over.
Resets(c, f, ident) ==
    \/ c = NoCursor
    \/ 2 * c.offset > Size(f) \/ c.ident # ident
    \/ c.prefix # Prefix(f, c.offset)
    \/ c.size = Size(f) /\ c.mtime # f.mtime

Failed(i) == Update(i, [sync[i] EXCEPT !.at = "finish", !.ok = FALSE, !.batch = {},
                                      !.missing = FALSE])

Kept(session)      == session
Forgotten(session) == None

\* Where the import of a log begins, and in which session.
Resumed(c, f, ident) ==
    IF Resets(c, f, ident) THEN [offset |-> 0, session |-> Forgotten(c.session)]
    ELSE [offset |-> c.offset, session |-> c.session]

\* sync_file opens the log and compares it with its cursor; it will read no further
\* than the file reaches now.  What the source was shown as no longer matters.
Inspect(i) ==
    /\ sync[i].at = "inspect"
    /\ \/ Works /\ sync[i].stop # "no"
          /\ Update(i, [sync[i] EXCEPT !.at = "finish", !.missing = FALSE])
       \/ /\ Works /\ sync[i].stop = "no" /\ path # 0
          /\ LET f == inode[path]
                 from == Resumed(cursor, f, path)
             IN Update(i, [sync[i] EXCEPT
                    !.at = "read", !.missing = FALSE, !.limit = Complete(f),
                    !.cursor = [offset |-> from.offset, session |-> from.session,
                                ident |-> path, size |-> Size(f), mtime |-> f.mtime,
                                prefix |-> <<>>]])
       \/ (Mishap \/ (path = 0 /\ Works)) /\ sync[i].stop = "no" /\ Failed(i)
    /\ UNCHANGED <<log, db, price, refresh, raced>>

\* parse_line, cli and vscode.  The events of a session carry its identity only at its
\* start, and the parser remembers it.
Fails(line, session) ==
    line.event = "bad"
    \/ (source.kind = "sessions" /\ line.event = "usage" /\ session = None)
SessionAfter(line, session) ==
    IF source.kind = "sessions" /\ line.event = "start" THEN line.id ELSE session
RecordOf(line, session) == IF source.kind = "sessions" THEN session ELSE line.id

\* pricing::bind keeps the price a record already has.
Bound(old, id, line, catalog) ==
    [id |-> id, of |-> line.id, fin |-> line.fin,
     price |-> IF old # None /\ old.price # None THEN old.price ELSE catalog]

\* One turn of the loop of sync_file over the lines of the open file.
ReadLine(i) ==
    LET s == sync[i]
        f == inode[s.cursor.ident]
        k == s.cursor.offset + 1
        end == s.stop # "no" \/ k > s.limit \/ k > Complete(f)
    IN
    /\ s.at = "read"
    /\ \/ end /\ Update(i, [s EXCEPT !.at = "persist", !.last = TRUE])
       \/ /\ ~end /\ ~Fails(f.lines[k], s.cursor.session)
          /\ LET line == f.lines[k]
                 id   == RecordOf(line, s.cursor.session)
                 skip == \/ line.event # "usage"
                         \/ rec[id] # None /\ rec[id].fin > line.fin
                 full == s.pending + 1 = BatchLines
             IN Update(i, [s EXCEPT
                    !.batch = IF skip THEN @ ELSE @ \cup {Bound(rec[id], id, line, s.catalog)},
                    !.cursor.offset = k,
                    !.cursor.session = SessionAfter(line, @),
                    !.pending = @ + 1,
                    !.at = IF full THEN "persist" ELSE "read"])
       \* A malformed line, or the middle of one after the file was truncated in place.
       \/ /\ ~end /\ (Fails(f.lines[k], s.cursor.session) \/ f.mtime # s.cursor.mtime)
          /\ Failed(i)
    /\ UNCHANGED <<log, db, price, refresh, raced, budget>>

\* persist opens the log again, compares its identity and hashes its prefix.
Reopened(i) ==
    LET s == sync[i] IN
    /\ s.cursor.ident = path
    /\ 2 * (IF s.cursor.offset < PrefixLines THEN s.cursor.offset ELSE PrefixLines)
          <= Size(inode[path])

Persist(i) ==
    /\ sync[i].at = "persist"
    /\ \/ /\ Works /\ Reopened(i)
          /\ Update(i, [sync[i] EXCEPT
                !.at = "commit",
                !.cursor.prefix = Prefix(inode[path], sync[i].cursor.offset)])
       \/ (Mishap \/ (Works /\ ~Reopened(i))) /\ Failed(i)
    /\ UNCHANGED <<log, db, price, refresh, raced>>

\* What commit_batch writes of a batch: not what is older than the stored observation.
Applied(i) ==
    {r \in sync[i].batch : rec[r.id] = None \/ r.fin >= rec[r.id].fin}

StoredObs == {rec[x] : x \in Id} \ {None}

NoPriceChanged(i) == FALSE

\* A bound price would change: of the stored observation, or within the batch.
PriceChanged(i) ==
    \E r \in Applied(i), o \in Applied(i) \cup StoredObs :
        o.id = r.id /\ o.fin <= r.fin /\ o.price \notin {None, r.price}

Latest(rs) == CHOOSE r \in rs : \A o \in rs : o.fin <= r.fin

CommittedKeepingBatch(s) == [s EXCEPT !.at = IF s.last THEN "finish" ELSE "read",
                                      !.pending = 0]
Committed(s) == [CommittedKeepingBatch(s) EXCEPT !.batch = {}]

\* One transaction: the observations and the cursor.
Commit(i) ==
    LET s == sync[i]
        of(x) == {r \in Applied(i) : r.id = x}
    IN
    /\ s.at = "commit"
    /\ \/ /\ Works /\ ~PriceChanged(i)
          /\ rec' = [x \in Id |-> IF of(x) = {} THEN rec[x] ELSE Latest(of(x))]
          /\ cursor' = s.cursor
          /\ Update(i, Committed(s))
       \/ /\ Mishap \/ (Works /\ PriceChanged(i))
          /\ Failed(i)
          /\ UNCHANGED <<rec, cursor>>
    /\ UNCHANGED <<log, source, price, refresh, raced>>

Imported == IF StoredObs = {} THEN "empty" ELSE "available"

\* What sync_source and sync record as the outcome of the import.
Outcome(i) ==
    CASE ~sync[i].listed -> IF sync[i].missing THEN "missing" ELSE "schemaError"
      [] sync[i].listed /\ sync[i].stop = "cancel" -> "canceled"
      [] sync[i].listed /\ sync[i].stop = "limit"  -> "partial"
      [] OTHER -> IF sync[i].ok THEN Imported ELSE "partial"

Finish(i) ==
    /\ sync[i].at = "finish"
    /\ source' = [source EXCEPT !.status = Outcome(i), !.scanned = TRUE]
    /\ Update(i, NoSync)
    /\ UNCHANGED <<log, rec, cursor, price, refresh, raced, budget>>

\* cancel_usage_sync, or a limit of the run (its time, bytes, events or entries).
Stop(i) ==
    /\ sync[i].at # "idle" /\ sync[i].stop = "no"
    /\ Mishap
    /\ \E why \in {"cancel", "limit"} : Update(i, [sync[i] EXCEPT !.stop = why])
    /\ UNCHANGED <<log, db, price, refresh, raced>>

-----------------------------------------------------------------------------
(***************************************************************************)
(* The other commands on a source: local_busy excludes them from an import *)
(* of the same instance.                                                   *)
(***************************************************************************)
SetEnabled(i) ==
    /\ sync[i].at = "idle"
    /\ \/ /\ ~source.enabled /\ Works
          /\ source' = [source EXCEPT !.enabled = TRUE, !.status = "unavailable"]
       \/ /\ source.enabled /\ Mishap
          /\ source' = [source EXCEPT !.enabled = FALSE, !.status = "disabled"]
    /\ UNCHANGED <<log, rec, cursor, price, sync, refresh, raced>>

Importing == {i \in Instance : sync[i].at # "idle"}

Clear(i) ==
    /\ sync[i].at = "idle"
    /\ Mishap
    /\ rec' = [x \in Id |-> None] /\ cursor' = NoCursor
    /\ source' = [source EXCEPT !.enabled = FALSE, !.status = "disabled", !.scanned = FALSE]
    /\ raced' = IF Importing # {} THEN raced \cup {"clear"} ELSE raced
    /\ UNCHANGED <<log, price, sync, refresh>>

-----------------------------------------------------------------------------
(***************************************************************************)
(* refresh_price_catalog: the catalog is fetched, saved as the current one *)
(* and bound to the observations without a price.                          *)
(***************************************************************************)
Refresh(i, new) == refresh' = [refresh EXCEPT ![i] = new]

Fetch(i) ==
    /\ refresh[i].at = "idle"
    /\ Spend("refresh")
    /\ clock' = clock + 1
    /\ \E c \in Catalog :
          Refresh(i, [NoRefresh EXCEPT !.at = "save", !.catalog = c, !.time = clock'])
    /\ UNCHANGED <<log, db, current, sync, raced>>

\* An older answer does not displace a newer one.
Supersedes(i) == refresh[i].time >= current.time

SaveCatalog(i) ==
    /\ refresh[i].at = "save"
    /\ \/ /\ Works
          /\ current' = IF Supersedes(i)
                        THEN [id |-> refresh[i].catalog, time |-> refresh[i].time]
                        ELSE current
          /\ Refresh(i, [NoRefresh EXCEPT !.at = "select"])
       \* It was cancelled, or cannot be saved.
       \/ /\ Mishap
          /\ Refresh(i, NoRefresh) /\ UNCHANGED current
    /\ UNCHANGED <<log, db, clock, sync, raced>>

\* price_unbound reads the observations without a price, for the current catalog.
Select(i) ==
    /\ refresh[i].at = "select"
    /\ Refresh(i, [refresh[i] EXCEPT
            !.at = "bind", !.catalog = current.id,
            !.rows = {o \in StoredObs : o.price = None}])
    /\ UNCHANGED <<log, db, price, sync, raced, budget>>

StillUnpriced(o) == rec[o.id] # None /\ rec[o.id].price = None

\* persist_price_updates changes an observation only if it is the one that was read.
Unchanged(o) == rec[o.id] = o

Bind(i) ==
    /\ refresh[i].at = "bind"
    /\ \/ \E o \in refresh[i].rows :
             /\ Works
             /\ rec' = IF Unchanged(o)
                       THEN [rec EXCEPT ![o.id] = [o EXCEPT !.price = refresh[i].catalog]]
                       ELSE rec
             /\ Refresh(i, [refresh[i] EXCEPT !.rows = @ \ {o}])
       \/ /\ (Works /\ refresh[i].rows = {}) \/ Mishap
          /\ Refresh(i, NoRefresh) /\ UNCHANGED rec
    /\ UNCHANGED <<log, cursor, source, price, sync, raced>>

-----------------------------------------------------------------------------
(***************************************************************************)
(* The environment.                                                        *)
(***************************************************************************)

\* The session that the last start of a file is of.
Starts(f) == {k \in 1..Len(f.lines) : f.lines[k].event = "start"}
Current(f) == IF Starts(f) = {} THEN Id
              ELSE {f.lines[CHOOSE k \in Starts(f) : \A j \in Starts(f) : j <= k].id}

\* The program that writes the log adds a line, perhaps not all of it yet.
WriteLine ==
    LET at == IF path = 0 THEN 1 ELSE path IN
    /\ written < MaxLines /\ ~inode[at].part
    /\ written' = written + 1 /\ path' = at
    /\ \E event \in IF source.kind = "spans" THEN Event \ {"start"} ELSE Event,
          part \in BOOLEAN :
       /\ IF part THEN Mishap ELSE Works
       /\ \E x \in IF event = "start" \/ source.kind = "spans" THEN Id
                   ELSE Current(inode[at]) :
             inode' = [inode EXCEPT ![at].lines =
                          Append(@, [event |-> event, id |-> x, fin |-> written']),
                                    ![at].part = part]
    /\ UNCHANGED <<db, price, sync, refresh, raced>>

EndLine ==
    /\ path # 0 /\ inode[path].part
    /\ inode' = [inode EXCEPT ![path].part = FALSE]
    /\ UNCHANGED <<path, written, db, price, sync, refresh, raced, budget>>

\* An import that has lines of its log still to commit, or goes on reading it.
ReadsOn(s) == s.at \in {"read", "persist"} \/ (s.at = "commit" /\ ~s.last)

\* It starts the log over in the same file, which an import of it does not see.
Truncate ==
    LET f == inode[path] IN
    /\ path # 0
    /\ f.mtime < MaxTruncations /\ f.lines # <<>> /\ Mishap
    /\ inode' = [inode EXCEPT ![path] =
                    [lines |-> <<>>, part |-> FALSE, mtime |-> f.mtime + 1]]
    /\ raced' = IF \E i \in Importing : sync[i].cursor.ident = path /\ ReadsOn(sync[i])
                THEN raced \cup {"truncate"} ELSE raced
    /\ UNCHANGED <<path, written, db, price, sync, refresh>>

\* It starts over in a new file, or in a copy of the beginning of the old one.
Rotate ==
    /\ path \in 1 .. (MaxInodes - 1) /\ inode[path].lines # <<>> /\ Mishap
    /\ path' = path + 1
    /\ \E k \in 0..Complete(inode[path]) :
          inode' = [inode EXCEPT ![path'].lines = SubSeq(inode[path].lines, 1, k)]
    /\ UNCHANGED <<written, db, price, sync, refresh, raced>>

Crash(i) ==
    /\ sync[i] # NoSync \/ refresh[i] # NoRefresh
    /\ Mishap
    /\ Update(i, NoSync) /\ Refresh(i, NoRefresh)
    /\ UNCHANGED <<log, db, price, raced>>

Next ==
    \/ WriteLine \/ EndLine \/ Truncate \/ Rotate
    \/ \E i \in Instance :
          \/ Begin(i) \/ Unlisted(i) \/ Inspect(i) \/ ReadLine(i) \/ Persist(i) \/ Commit(i) \/ Finish(i)
          \/ Stop(i) \/ SetEnabled(i) \/ Clear(i)
          \/ Fetch(i) \/ SaveCatalog(i) \/ Select(i) \/ Bind(i)
          \/ Crash(i)

Spec == Init /\ [][Next]_vars

-----------------------------------------------------------------------------
(***************************************************************************)
(* Properties.                                                             *)
(***************************************************************************)
\* A line that was taken notice of: its observation is stored, or was replaced by a later
\* one.
Stored(line) ==
    /\ line.event # "bad"
    /\ line.event = "usage" => rec[line.id] # None /\ rec[line.id].fin >= line.fin

Resumable == path # 0 /\ cursor # NoCursor /\ ~Resets(cursor, inode[path], path)
Covered == Resumable => \A k \in 1..cursor.offset : Stored(inode[path].lines[k])

\* usage-sources.md: the cursor that the next import resumes from covers nothing that
\* was not stored and never a malformed line, whatever fails, stops, dies or replaces
\* the log in between; unless, beside a running import, another instance cleared the
\* source or the log was truncated in place.
CursorCoversRecords == raced = {} => Covered

\* Usage is recorded for the session whose usage it is, though only the start of a
\* session names it and an import may begin anywhere in a log that was rotated,
\* truncated or half read.
UsageOfItsSession == \A x \in Id : (rec[x] # None /\ raced = {}) => rec[x].of = x

\* "A cumulative observation preserves its bound snapshot": a record keeps the price it
\* was first given until its source is cleared.
PriceStands ==
    [][\A x \in Id : (rec[x] # None /\ rec[x].price # None /\ rec'[x] # None)
                        => rec'[x].price = rec[x].price]_vars

\* "Older totals cannot overwrite a newer finish time", from no file, instance or price
\* refresh.
TotalsGrow ==
    [][\A x \in Id : (rec[x] # None /\ rec'[x] # None) => rec'[x].fin >= rec[x].fin]_vars
=============================================================================
