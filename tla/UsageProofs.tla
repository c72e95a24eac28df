----------------------------- MODULE UsageProofs -----------------------------
(***************************************************************************)
(* Theorems of UsageImport: the cursor that an import resumes from covers  *)
(* only what was stored, usage is recorded for its session, and neither    *)
(* prices nor totals are taken back, by any number of instances.           *)
(*                                                                         *)
(* They follow from the inductive invariant IInv.  Its heart is ImportInv: *)
(* a cursor, stored or of a running import, either follows the file that   *)
(* it names or was outlived by it, and then every line of the file is      *)
(* younger than the prefix that the cursor remembers.                      *)
(*                                                                         *)
(* Then theorems of UsageJobs: the jobs of one instance, whose usage they  *)
(* store, which outcomes stand and which successes are kept.               *)
(***************************************************************************)
EXTENDS UsageImport, UsageJobs, FiniteSetTheorems, WellFoundedInduction, TLAPS

Label   == {"idle", "inspect", "read", "persist", "commit", "finish"}
Import  == [at : Label, catalog : Catalog \cup {None}, limit : Nat, cursor : Cursor,
            batch : SUBSET Obs, pending : Nat, last : BOOLEAN, ok : BOOLEAN,
            missing : BOOLEAN, listed : BOOLEAN, stop : {"no", "cancel", "limit"}]
Pricing == [at : {"idle", "save", "select", "bind"}, catalog : Catalog \cup {None},
            time : Nat, rows : SUBSET Obs]

TypeInv ==
    /\ inode \in [1..MaxInodes -> File] /\ path \in 0..MaxInodes /\ written \in 0..MaxLines
    /\ rec \in [Id -> Obs \cup {None}] /\ cursor \in Cursor /\ source \in Source
    /\ current \in [id : Catalog \cup {None}, time : Nat] /\ clock \in Nat
    /\ sync \in [Instance -> Import] /\ refresh \in [Instance -> Pricing]
    /\ raced \subseteq {"clear", "truncate"}
    /\ budget \in [{"sync", "refresh", "mishap"} -> Nat]

\* The last of the first k lines of a file that starts a session is its line j.
LastStart(f, j, k) ==
    /\ j \in 1..k /\ f.lines[j].event = "start"
    /\ \A m \in 1..k : m > j => f.lines[m].event # "start"

\* What the other program has written in a file.
WellWritten(f) ==
    /\ f.lines = <<>> => ~f.part
    /\ Len(f.lines) <= written
    /\ \A k \in 1..Len(f.lines) : f.lines[k].fin <= written
    /\ \A k \in 1..Len(f.lines) : f.lines[k].event = "start" => source.kind = "sessions"
    /\ source.kind = "sessions" =>
          \A k \in 1..Len(f.lines), j \in 1..Len(f.lines) :
              LastStart(f, j, k - 1) /\ f.lines[k].event # "start"
                  => f.lines[k].id = f.lines[j].id
FileInv == \A n \in 1..MaxInodes :
               WellWritten(inode[n]) /\ (n > path => inode[n].lines = <<>>)

\* A record has its own identifier, and what is to be priced has no price.
RecordInv == /\ \A x \in Id : rec[x] # None => rec[x].id = x
             /\ \A i \in Instance : \A o \in refresh[i].rows : o.price = None

\* An import reads a file that exists.
OpenAt(s) == s.at \in {"read", "persist", "commit"} => s.cursor.ident \in 1..path
OpenInv == \A i \in Instance : OpenAt(sync[i])

\* A line that was taken notice of, in the database or in a batch.
Noted(line, batch) ==
    /\ line.event # "bad"
    /\ line.event = "usage" => \/ rec[line.id] # None /\ rec[line.id].fin >= line.fin
                               \/ \E r \in batch : r.id = line.id /\ r.fin >= line.fin

\* A cursor follows a file: every line before it was taken notice of, and its session is
\* the one that the line before it is in.
InSession(c, f) == \E j \in 1..c.offset : /\ LastStart(f, j, c.offset)
                                          /\ f.lines[j].id = c.session
Covers(c, f, batch) ==
    /\ c.offset <= Complete(f)
    /\ \A k \in 1..c.offset : Noted(f.lines[k], batch)
    /\ c.session # None => source.kind = "sessions" /\ InSession(c, f)
Follows(c, f, batch) == c.mtime = f.mtime /\ Covers(c, f, batch)

\* The file was truncated in place, and all of it is younger than the cursor.
Outlived(c, f) ==
    /\ c.mtime < f.mtime
    /\ c.offset > 0 => \A k \in 1..Len(f.lines) : f.lines[k].fin > c.prefix[1].fin

\* A cursor remembers the beginning of what it covers, and a session only from there.
Headed(c) == /\ c.offset > 0 => c.prefix # <<>> /\ c.prefix[1].fin <= written
             /\ c.offset = 0 => c.session = None

Faithful(c, batch) ==
    /\ c.ident \in 1..path /\ Headed(c)
    /\ Follows(c, inode[c.ident], batch) \/ Outlived(c, inode[c.ident])

ImportAt(s) == /\ ReadsOn(s) => Follows(s.cursor, inode[s.cursor.ident], s.batch)
               /\ s.at = "commit" => Faithful(s.cursor, s.batch)
CursorInv == cursor.ident # 0 => Faithful(cursor, {})
ImportInv == raced = {} => CursorInv /\ \A i \in Instance : ImportAt(sync[i])

\* The usage of a record, stored or in a batch, is of the session it is recorded for.
OwnerAt(s) == \A r \in s.batch : r.of = r.id
OwnerInv == raced = {} => /\ \A x \in Id : rec[x] # None => rec[x].of = x
                          /\ \A i \in Instance : OwnerAt(sync[i])

IInv == TypeInv /\ FileInv /\ RecordInv /\ OpenInv /\ ImportInv /\ OwnerInv

-----------------------------------------------------------------------------
(***************************************************************************)
(* The operators.                                                          *)
(***************************************************************************)
\* A nonempty set of bounded numbers has a greatest.
LEMMA Greatest ==
    ASSUME NEW n \in Nat, NEW S, S \subseteq 0..n, S # {}
    PROVE  \E m \in S : \A k \in S : k <= m
<1> DEFINE T == {n - k : k \in S}
<1>1. T \subseteq Nat /\ T # {}
  <2>1. \A k \in S : n - k \in Nat
    OBVIOUS
  <2> QED BY <2>1
<1>2. PICK t \in T : \A u \in T : ~(<<u, t>> \in OpToRel(<, Nat))
  <2> HIDE DEF T
  <2> QED BY <1>1, NatLessThanWellFounded, WFMin
<1>3. PICK m \in S : t = n - m
  BY <1>2
<1>4. ASSUME NEW k \in S PROVE k <= m
  <2>1. n - k \in T /\ n - k \in Nat /\ t \in Nat
    OBVIOUS
  <2>2. ~(n - k < t)
    BY <1>2, <2>1 DEF OpToRel
  <2> QED BY <1>3, <2>1, <2>2
<1> QED BY <1>3, <1>4

\* Of some observations one is the latest.
LEMMA LatestFacts ==
    ASSUME NEW rs, rs \subseteq Obs, rs # {}
    PROVE  Latest(rs) \in rs /\ \A o \in rs : o.fin <= Latest(rs).fin
<1> DEFINE S == {r.fin : r \in rs}
<1>1. S \subseteq 0..MaxLines /\ S # {} /\ MaxLines \in Nat
  BY BoundAssumption DEF Obs
<1>2. PICK m \in S : \A k \in S : k <= m
  <2> HIDE DEF S
  <2> QED BY <1>1, Greatest
<1>3. PICK r \in rs : r.fin = m
  BY <1>2
<1>4. \A o \in rs : o.fin <= r.fin
  BY <1>2, <1>3
<1> QED BY <1>4 DEF Latest

\* What is stored is an observation.
LEMMA StoredFacts ==
    ASSUME TypeInv, NEW x \in Id
    PROVE  /\ rec[x] # None => rec[x] \in Obs
           /\ \A o \in Obs : o # None
BY ObservationAssumption DEF TypeInv

\* The length of a file, its complete lines, and whole lines that fit in it.
LEMMA FileFacts ==
    ASSUME NEW f \in File, f.lines = <<>> => ~f.part
    PROVE  /\ Len(f.lines) \in Nat /\ f.lines \in Seq(Line)
           /\ DOMAIN f.lines = 1..Len(f.lines)
           /\ Complete(f) \in 0..Len(f.lines) /\ Size(f) \in 0..(2 * Len(f.lines))
           /\ \A k \in Nat : 2 * k <= Size(f) => k <= Complete(f)
           /\ \A k \in 1..Len(f.lines) : f.lines[k] \in Line
<1>1. Len(f.lines) \in Nat /\ f.lines \in Seq(Line) /\ f.part \in BOOLEAN
  BY DEF File
<1>2. DOMAIN f.lines = 1..Len(f.lines) /\ \A k \in 1..Len(f.lines) : f.lines[k] \in Line
  BY <1>1
<1>3. f.part => Len(f.lines) > 0
  <2>1. f.lines # <<>> => Len(f.lines) > 0
    BY <1>1
  <2> QED BY <1>1, <2>1
<1>4. /\ Complete(f) \in 0..Len(f.lines) /\ Size(f) \in 0..(2 * Len(f.lines))
      /\ \A k \in Nat : 2 * k <= Size(f) => k <= Complete(f)
  <2>1. CASE f.part
    <3>1. Complete(f) = Len(f.lines) - 1 /\ Size(f) = 2 * Len(f.lines) - 1
      BY <2>1 DEF Complete, Size
    <3> QED BY <1>1, <1>3, <2>1, <3>1
  <2>2. CASE ~f.part
    <3>1. Complete(f) = Len(f.lines) /\ Size(f) = 2 * Len(f.lines)
      BY <1>1, <2>2 DEF Complete, Size
    <3> QED BY <1>1, <3>1
  <2> QED BY <2>1, <2>2
<1> QED BY <1>1, <1>2, <1>4

\* The hashed prefix of a file begins with its first line.
LEMMA PrefixFacts ==
    ASSUME NEW f \in File, NEW n \in Nat,
           n <= Len(f.lines) \/ PrefixLines <= Len(f.lines)
    PROVE  /\ Prefix(f, n) \in Seq(Line)
           /\ n > 0 => Prefix(f, n) # <<>> /\ Prefix(f, n)[1] = f.lines[1]
<1> DEFINE m == IF n < PrefixLines THEN n ELSE PrefixLines
<1>1. f.lines \in Seq(Line) /\ Len(f.lines) \in Nat
  BY DEF File
<1>2. m \in 0..Len(f.lines) /\ (n > 0 => m > 0)
  <2>1. PrefixLines \in Nat \ {0}
    BY BatchAssumption
  <2> QED BY <1>1, <2>1
<1> HIDE DEF m
<1>3. SubSeq(f.lines, 1, m) \in Seq(Line)
  BY <1>1, <1>2
<1>5. m > 0 => /\ Len(SubSeq(f.lines, 1, m)) = m
               /\ SubSeq(f.lines, 1, m)[1] = f.lines[1]
  BY <1>1, <1>2
<1>4. Prefix(f, n) = SubSeq(f.lines, 1, m)
  BY DEF Prefix, m
<1>6. m > 0 => SubSeq(f.lines, 1, m) # <<>>
  BY <1>2, <1>3, <1>5
<1> QED BY <1>2, <1>3, <1>4, <1>5, <1>6

\* A spent budget is one.
LEMMA BudgetFacts ==
    ASSUME TypeInv
    PROVE  (Mishap \/ Works \/ Spend("sync") \/ Spend("refresh"))
               => budget' \in [{"sync", "refresh", "mishap"} -> Nat]
<1>1. \A k \in {"sync", "refresh", "mishap"} :
         Spend(k) => budget' \in [{"sync", "refresh", "mishap"} -> Nat]
  BY DEF TypeInv, Spend
<1>2. Works => budget' \in [{"sync", "refresh", "mishap"} -> Nat]
  BY DEF TypeInv, Works
<1> QED BY <1>1, <1>2 DEF Mishap

-----------------------------------------------------------------------------
(***************************************************************************)
(* How the log and the database evolve, and what that leaves true.         *)
(***************************************************************************)
\* A file grows by lines that are younger than all that were written.
Extends(f, g) ==
    /\ g.mtime = f.mtime /\ Complete(f) <= Complete(g) /\ Len(f.lines) <= Len(g.lines)
    /\ \A k \in 1..Len(f.lines) : g.lines[k] = f.lines[k]
    /\ \A k \in 1..Len(g.lines) : k > Len(f.lines) => g.lines[k].fin > written

\* A file starts over in place.
Restarts(f, g) == f.mtime < g.mtime /\ g.lines = <<>>

\* Observations are replaced by later ones.
Grows == \A x \in Id : rec[x] # None => rec'[x] # None /\ rec'[x].fin >= rec[x].fin

Evolves ==
    /\ path <= path' /\ written <= written' /\ source'.kind = source.kind /\ Grows
    /\ raced' = {} => raced = {}
    /\ \A n \in 1..path :
          \/ Extends(inode[n], inode'[n])
          \/ /\ Restarts(inode[n], inode'[n])
             /\ raced' = {} =>
                   \A i \in Instance : ReadsOn(sync[i]) => sync[i].cursor.ident # n

\* Nothing changes of the log but that the budget may be spent.
LEMMA StillEvolves ==
    ASSUME TypeInv, UNCHANGED log, source'.kind = source.kind, Grows,
           raced' = {} => raced = {}
    PROVE  Evolves
<1>1. UNCHANGED <<inode, path, written>> /\ path \in Nat /\ written \in Nat
  BY BoundAssumption DEF log, TypeInv
<1>2. \A n \in 1..path : inode[n] \in File
  <2>1. path \in 0..MaxInodes /\ MaxInodes \in Nat
    BY BoundAssumption DEF TypeInv
  <2> QED BY <2>1 DEF TypeInv
<1>3. ASSUME NEW f \in File PROVE Extends(f, f)
  <2>1. Len(f.lines) \in Nat /\ Complete(f) <= Complete(f)
    BY DEF File, Complete
  <2> QED BY <2>1 DEF Extends
<1> QED BY <1>1, <1>2, <1>3 DEF Evolves

\* What was taken notice of remains so.
LEMMA NotedKept ==
    ASSUME Grows, TypeInv, TypeInv', NEW line \in Line, NEW batch, Noted(line, batch)
    PROVE  Noted(line, batch)'
<1>1. line.id \in Id /\ line.fin \in Nat
  BY DEF Line
<1>2. rec[line.id] # None /\ rec[line.id].fin >= line.fin
        => rec'[line.id] # None /\ rec'[line.id].fin >= line.fin
  <2> SUFFICES ASSUME rec[line.id] # None, rec[line.id].fin >= line.fin
               PROVE  rec'[line.id] # None /\ rec'[line.id].fin >= line.fin
    OBVIOUS
  <2>1. rec'[line.id] # None /\ rec'[line.id].fin >= rec[line.id].fin
    BY <1>1 DEF Grows
  <2>2. rec[line.id].fin \in Int /\ rec'[line.id].fin \in Int
    BY <1>1, <2>1 DEF TypeInv, Obs
  <2> QED BY <1>1, <2>1, <2>2
<1> QED BY <1>2 DEF Noted

\* A cursor goes on following a file that grows.
LEMMA FollowsKept ==
    ASSUME TypeInv, TypeInv', Grows, source'.kind = source.kind,
           NEW f \in File, NEW g \in File, f.lines = <<>> => ~f.part, Extends(f, g),
           NEW c \in Cursor, NEW batch, Follows(c, f, batch)
    PROVE  Follows(c, g, batch)'
<1>1. /\ c.offset \in Nat /\ Len(f.lines) \in Nat /\ Complete(f) \in 0..Len(f.lines)
      /\ Complete(g) \in Int
  BY FileFacts DEF Cursor, File, Complete
<1>2. c.mtime = g.mtime /\ c.offset <= Complete(g) /\ c.offset <= Len(f.lines)
  BY <1>1 DEF Follows, Covers, Extends
<1>3. \A k \in 1..c.offset : k \in 1..Len(f.lines) /\ g.lines[k] = f.lines[k]
  BY <1>1, <1>2 DEF Extends
<1>4. \A k \in 1..c.offset : Noted(g.lines[k], batch)'
  <2>1. TAKE k \in 1..c.offset
  <2>2. f.lines[k] \in Line /\ g.lines[k] = f.lines[k] /\ Noted(f.lines[k], batch)
    BY <1>3, FileFacts DEF Follows, Covers
  <2> QED BY <2>2, NotedKept
<1>5. InSession(c, f) => InSession(c, g)
  BY <1>3 DEF InSession, LastStart
<1> QED BY <1>2, <1>4, <1>5 DEF Follows, Covers

\* A cursor that was outlived remains so.
LEMMA OutlivedKept ==
    ASSUME NEW f \in File, NEW g \in File, Extends(f, g), NEW c \in Cursor, Headed(c),
           written \in Nat, Outlived(c, f)
    PROVE  Outlived(c, g)
<1>1. c.mtime < g.mtime
  BY DEF Outlived, Extends
<1>2. ASSUME c.offset > 0, NEW k \in 1..Len(g.lines) PROVE g.lines[k].fin > c.prefix[1].fin
  <2>1. c.prefix # <<>> /\ c.prefix[1].fin <= written /\ c.prefix \in Seq(Line)
    BY <1>2 DEF Headed, Cursor
  <2>2. c.prefix[1].fin \in Nat /\ g.lines[k].fin \in Nat /\ Len(f.lines) \in Nat
    <3>1. c.prefix[1] \in Line /\ g.lines[k] \in Line
      BY <1>2, <2>1 DEF File
    <3> QED BY <3>1 DEF Line, File
  <2>3. CASE k \in 1..Len(f.lines)
    BY <1>2, <2>3 DEF Outlived, Extends
  <2>4. CASE k > Len(f.lines)
    BY <1>2, <2>1, <2>2, <2>4 DEF Extends
  <2> QED BY <1>2, <2>2, <2>3, <2>4
<1> QED BY <1>1, <1>2 DEF Outlived

\* A cursor of a file that starts over is outlived.
LEMMA RestartOutlives ==
    ASSUME NEW f \in File, NEW g \in File, Restarts(f, g), NEW c \in Cursor, NEW batch,
           Follows(c, f, batch) \/ Outlived(c, f)
    PROVE  Outlived(c, g)
<1>1. c.mtime \in Int /\ f.mtime \in Int /\ g.mtime \in Int /\ c.mtime <= f.mtime
  BY DEF Cursor, File, Follows, Outlived
<1>2. Len(g.lines) = 0
  BY DEF Restarts
<1> QED BY <1>1, <1>2 DEF Restarts, Outlived

\* What was said of a cursor remains true, whatever the log does.
LEMMA FaithfulKept ==
    ASSUME TypeInv, TypeInv', FileInv, Evolves,
           NEW c \in Cursor, NEW batch, Faithful(c, batch)
    PROVE  Faithful(c, batch)'
<1>0. PICK f, g : f = inode[c.ident] /\ g = inode'[c.ident]
  OBVIOUS
<1>1. /\ path \in Nat /\ path' \in Nat /\ written \in Nat /\ written' \in Nat
      /\ path <= path' /\ written <= written' /\ c.ident \in 1..path
      /\ path <= MaxInodes /\ MaxInodes \in Nat
  BY BoundAssumption DEF TypeInv, Evolves, Faithful
<1>2. c.ident \in 1..path' /\ c.ident \in 1..MaxInodes /\ f \in File /\ g \in File
      /\ (f.lines = <<>> => ~f.part)
  BY <1>0, <1>1 DEF TypeInv, FileInv, WellWritten
<1>3. Headed(c) /\ Headed(c)'
  <2>1. c.offset > 0 => c.prefix # <<>> /\ c.prefix[1].fin <= written
    BY DEF Faithful, Headed
  <2>2. c.offset > 0 => c.prefix[1].fin \in Int
    <3> SUFFICES ASSUME c.offset > 0 PROVE c.prefix[1].fin \in Int
      OBVIOUS
    <3>1. c.prefix # <<>> /\ c.prefix \in Seq(Line)
      BY <2>1 DEF Cursor
    <3>2. c.prefix[1] \in Line
      BY <3>1
    <3> QED BY <3>2 DEF Line
  <2> QED BY <1>1, <2>1, <2>2 DEF Faithful, Headed
<1>4. Follows(c, f, batch) \/ Outlived(c, f)
  BY <1>0 DEF Faithful
<1>5. Extends(f, g) \/ Restarts(f, g)
  BY <1>0, <1>1 DEF Evolves
<1>6. Grows /\ source'.kind = source.kind
  BY DEF Evolves
<1>7. Follows(c, g, batch)' \/ Outlived(c, g)
  <2>1. CASE Restarts(f, g)
    BY <1>2, <1>4, <2>1, RestartOutlives
  <2>2. CASE Extends(f, g) /\ Follows(c, f, batch)
    BY <1>2, <1>6, <2>2, FollowsKept
  <2>3. CASE Extends(f, g) /\ Outlived(c, f)
    BY <1>1, <1>2, <1>3, <2>3, OutlivedKept
  <2> QED BY <1>4, <1>5, <2>1, <2>2, <2>3
<1>8. Follows(c, inode[c.ident], batch)' \/ Outlived(c, inode[c.ident])'
  BY <1>0, <1>7 DEF Follows, Covers, Outlived, InSession, LastStart
<1> QED BY <1>2, <1>3, <1>8 DEF Faithful

\* An import of which nothing happened is as right as it was, if the file that it reads
\* on in did not start over.
LEMMA ImportKept ==
    ASSUME TypeInv, TypeInv', FileInv, Evolves,
           NEW s \in Import, OpenAt(s), ImportAt(s),
           ReadsOn(s) => Extends(inode[s.cursor.ident], inode'[s.cursor.ident])
    PROVE  ImportAt(s)'
<1>0. PICK c, f, g : c = s.cursor /\ f = inode[c.ident] /\ g = inode'[c.ident]
  OBVIOUS
<1>1. c \in Cursor
  BY <1>0 DEF Import
<1>2. s.at = "commit" => Faithful(s.cursor, s.batch)'
  BY <1>0, <1>1, FaithfulKept DEF ImportAt
<1>3. ASSUME ReadsOn(s) PROVE Follows(c, g, s.batch)'
  <2>1. c.ident \in 1..path /\ path <= MaxInodes /\ path \in Nat /\ MaxInodes \in Nat
    <3>1. path \in 0..MaxInodes /\ MaxInodes \in Nat
      BY BoundAssumption DEF TypeInv
    <3>2. s.at \in {"read", "persist", "commit"}
      BY <1>3 DEF ReadsOn
    <3>3. c.ident \in 1..path
      BY <1>0, <3>2 DEF OpenAt
    <3> QED BY <3>1, <3>3
  <2>2. f \in File /\ g \in File /\ (f.lines = <<>> => ~f.part)
    <3>1. c.ident \in 1..MaxInodes
      BY <2>1
    <3> QED BY <1>0, <3>1 DEF TypeInv, FileInv, WellWritten
  <2>4. Extends(f, g)
    BY <1>0, <1>3
  <2>5. Follows(c, f, s.batch)
    BY <1>0, <1>3 DEF ImportAt
  <2>3. Grows /\ source'.kind = source.kind
    BY DEF Evolves
  <2> QED BY <1>1, <2>2, <2>3, <2>4, <2>5, FollowsKept
<1>4. ReadsOn(s) => Follows(s.cursor, inode[s.cursor.ident], s.batch)'
  BY <1>0, <1>3 DEF Follows, Covers, InSession, LastStart
<1> QED BY <1>2, <1>4 DEF ImportAt, ReadsOn

-----------------------------------------------------------------------------
(***************************************************************************)
(* What the steps of an import make of it.                                 *)
(***************************************************************************)
\* An instance that does not import.
LEMMA IdleFacts == /\ NoSync \in Import /\ NoSync.at = "idle" /\ NoSync.batch = {}
                   /\ NoCursor \in Cursor /\ NoCursor.ident = 0
                   /\ NoRefresh \in Pricing /\ NoRefresh.rows = {}
<1>1. /\ 0 \in 0..MaxLines /\ 0 \in 0..MaxInodes /\ 0 \in 0..(2 * MaxLines)
      /\ 0 \in 0..MaxTruncations
  BY BoundAssumption
<1>2. NoCursor \in Cursor /\ NoCursor.ident = 0
  BY <1>1 DEF NoCursor, Cursor
<1>3. NoSync \in Import /\ NoSync.at = "idle" /\ NoSync.batch = {}
  BY <1>2 DEF NoSync, Import, Label
<1>4. NoRefresh \in Pricing /\ NoRefresh.rows = {}
  BY DEF NoRefresh, Pricing
<1> QED BY <1>2, <1>3, <1>4

\* The file that an import reads, and the one that has the name of the log.
LEMMA OpenFacts ==
    ASSUME TypeInv, FileInv, NEW n \in 1..path
    PROVE  /\ inode[n] \in File /\ WellWritten(inode[n])
           /\ inode[n].lines = <<>> => ~inode[n].part
           /\ n \in 0..MaxInodes /\ path \in Nat /\ written \in Nat /\ written <= MaxLines
           /\ MaxLines \in Nat
<1>1. path \in 0..MaxInodes /\ MaxInodes \in Nat /\ written \in 0..MaxLines /\ MaxLines \in Nat
  BY BoundAssumption DEF TypeInv
<1>2. n \in 1..MaxInodes
  BY <1>1
<1>3. inode[n] \in File /\ WellWritten(inode[n])
  BY <1>2 DEF TypeInv, FileInv
<1> QED BY <1>1, <1>2, <1>3 DEF WellWritten

\* What is taken notice of in a batch is so in a larger one.
LEMMA NotedMore ==
    ASSUME NEW line, NEW a, NEW b, a \subseteq b, Noted(line, a) PROVE Noted(line, b)
BY DEF Noted

\* A cursor that an import does not reset covers only what was taken notice of.
LEMMA ResumedCovers ==
    ASSUME TypeInv, FileInv, CursorInv, path # 0, ~Resets(cursor, inode[path], path)
    PROVE  Covers(cursor, inode[path], {})
<1> DEFINE f == inode[path]
<1> SUFFICES Covers(cursor, f, {})
  OBVIOUS
<1>1. path \in 1..path /\ cursor.ident = path /\ cursor \in Cursor
  BY BoundAssumption DEF TypeInv, Resets
<1>2. f \in File /\ (f.lines = <<>> => ~f.part)
  BY <1>1, OpenFacts
<1>3. Headed(cursor) /\ (Follows(cursor, f, {}) \/ Outlived(cursor, f))
  BY <1>1 DEF CursorInv, Faithful
<1>4. ~(2 * cursor.offset > Size(f)) /\ cursor.prefix = Prefix(f, cursor.offset)
  BY DEF Resets
<1> HIDE DEF f
<1>5. cursor.offset \in Nat /\ cursor.offset <= Complete(f) /\ Complete(f) \in 0..Len(f.lines)
  <2>1. cursor.offset \in Nat /\ Size(f) \in Nat
    BY <1>1, <1>2, FileFacts DEF Cursor
  <2> QED BY <1>2, <1>4, <2>1, FileFacts
<1>6. CASE cursor.offset = 0
  BY <1>3, <1>5, <1>6 DEF Headed, Covers
<1>7. CASE cursor.offset > 0
  <2>1. Len(f.lines) \in Nat /\ cursor.offset <= Len(f.lines) /\ 1 \in 1..Len(f.lines)
    BY <1>2, <1>5, <1>7, FileFacts
  <2>2. cursor.prefix[1] = f.lines[1]
    BY <1>2, <1>4, <1>5, <1>7, <2>1, PrefixFacts
  <2>3. f.lines[1].fin \in Nat
    BY <1>2, <2>1, FileFacts DEF Line
  <2>4. ~Outlived(cursor, f)
    BY <1>7, <2>1, <2>2, <2>3 DEF Outlived
  <2> QED BY <1>3, <2>4 DEF Follows
<1> QED BY <1>5, <1>6, <1>7

\* What a step of an import leaves behind.
Fits(s) == s \in Import /\ OpenAt(s) /\ (raced = {} => ImportAt(s) /\ OwnerAt(s))
Imports(i) == \E s : Fits(s) /\ Update(i, s)

\* An import that ends or starts has nothing to do with the log.
LEMMA RestFits ==
    ASSUME NEW s \in Import, s.at \in {"idle", "inspect", "finish"}, s.batch = {}
    PROVE  Fits(s)
BY DEF Fits, OpenAt, ImportAt, OwnerAt, ReadsOn

\* An import that fails forgets its batch.
LEMMA FailedImports ==
    ASSUME TypeInv, NEW i \in Instance, Failed(i) PROVE Imports(i)
<1> DEFINE s1 == [sync[i] EXCEPT !.at = "finish"]
           s2 == [s1 EXCEPT !.ok = FALSE]
           s3 == [s2 EXCEPT !.batch = {}]
           s4 == [s3 EXCEPT !.missing = FALSE]
<1>1. sync[i] \in Import
  BY DEF TypeInv
<1>2. s1 \in Import /\ s1.at = "finish"
  BY <1>1 DEF Import, Label
<1>3. s2 \in Import /\ s2.at = "finish"
  <2> HIDE DEF s1
  <2> QED BY <1>2 DEF Import
<1>4. s3 \in Import /\ s3.at = "finish" /\ s3.batch = {}
  <2> HIDE DEF s2
  <2> QED BY <1>3 DEF Import
<1>5. s4 \in Import /\ s4.at = "finish" /\ s4.batch = {}
  <2> HIDE DEF s3
  <2> QED BY <1>4 DEF Import
<1>6. Update(i, s4)
  BY DEF Failed, Update
<1> HIDE DEF s4
<1>7. Fits(s4)
  BY <1>5, RestFits
<1> QED BY <1>6, <1>7 DEF Imports

\* An import that is stopped, or fails before it has read anything, is what it was but for
\* what it ends with.
LEMMA StoppedFits ==
    ASSUME NEW s \in Import, Fits(s), NEW t \in Import, t.cursor = s.cursor,
           t.batch = s.batch, t.last = s.last,
           t.at = s.at \/ t.at \in {"idle", "inspect", "finish"}
    PROVE  Fits(t)
BY DEF Fits, OpenAt, ImportAt, OwnerAt, ReadsOn

\* The import of an instance is right.
LEMMA ImportFits == ASSUME IInv, NEW i \in Instance PROVE Fits(sync[i]) /\ sync[i] \in Import
BY DEF IInv, TypeInv, OpenInv, ImportInv, OwnerInv, Fits

\* An import that begins has nothing of the log yet.
LEMMA BeginImports == ASSUME IInv, NEW i \in Instance, Begin(i) PROVE Imports(i)
<1> DEFINE s1 == [NoSync EXCEPT !.at = "inspect"]
           s2 == [s1 EXCEPT !.catalog = current.id]
           s3 == [s2 EXCEPT !.missing = (Shown = "missing")]
<1>1. s1 \in Import /\ s1.at = "inspect" /\ s1.batch = {}
  BY IdleFacts DEF Import, Label
<1>2. s2 \in Import /\ s2.at = "inspect" /\ s2.batch = {}
  <2>1. current.id \in Catalog \cup {None}
    BY DEF IInv, TypeInv
  <2> HIDE DEF s1
  <2> QED BY <1>1, <2>1 DEF Import
<1>3. s3 \in Import /\ s3.at = "inspect" /\ s3.batch = {}
  <2>1. (Shown = "missing") \in BOOLEAN
    OBVIOUS
  <2> HIDE DEF s2
  <2> QED BY <1>2, <2>1 DEF Import
<1>4. Update(i, s3)
  BY DEF Begin, Update
<1> HIDE DEF s3
<1> QED BY <1>3, <1>4, RestFits DEF Imports

\* An import whose source cannot be listed ends.
LEMMA UnlistedImports == ASSUME IInv, NEW i \in Instance, Unlisted(i) PROVE Imports(i)
<1> DEFINE s1 == [sync[i] EXCEPT !.at = "finish"]
           s2 == [s1 EXCEPT !.ok = FALSE]
           s3 == [s2 EXCEPT !.listed = FALSE]
<1>1. sync[i] \in Import /\ Fits(sync[i])
  BY ImportFits
<1>2. s1 \in Import /\ s1.at = "finish" /\ s1.cursor = sync[i].cursor
      /\ s1.batch = sync[i].batch /\ s1.last = sync[i].last
  BY <1>1 DEF Import, Label
<1>3. s2 \in Import /\ s2.at = "finish" /\ s2.cursor = sync[i].cursor
      /\ s2.batch = sync[i].batch /\ s2.last = sync[i].last
  <2> HIDE DEF s1
  <2> QED BY <1>2 DEF Import
<1>4. s3 \in Import /\ s3.at = "finish" /\ s3.cursor = sync[i].cursor
      /\ s3.batch = sync[i].batch /\ s3.last = sync[i].last
  <2> HIDE DEF s2
  <2> QED BY <1>3 DEF Import
<1>5. Update(i, s3)
  BY DEF Unlisted, Update
<1> HIDE DEF s3
<1> QED BY <1>1, <1>4, <1>5, StoppedFits DEF Imports

\* A stopped import has what it had.
LEMMA StopImports == ASSUME IInv, NEW i \in Instance, Stop(i) PROVE Imports(i)
<1>1. PICK why \in {"cancel", "limit"} : Update(i, [sync[i] EXCEPT !.stop = why])
  BY DEF Stop
<1> DEFINE t == [sync[i] EXCEPT !.stop = why]
<1>2. sync[i] \in Import /\ Fits(sync[i])
  BY ImportFits
<1>3. t \in Import /\ t.at = sync[i].at /\ t.cursor = sync[i].cursor
      /\ t.batch = sync[i].batch /\ t.last = sync[i].last
  BY <1>2 DEF Import
<1> HIDE DEF t
<1>4. Fits(t)
  BY <1>2, <1>3, StoppedFits
<1> QED BY <1>1, <1>4 DEF Imports, t

\* An import that finished, or died, leaves no import behind.
LEMMA RestImports ==
    ASSUME IInv, NEW i \in Instance, Finish(i) \/ Crash(i) PROVE Imports(i)
<1>1. Update(i, NoSync)
  BY DEF Finish, Crash
<1>2. Fits(NoSync)
  BY IdleFacts, RestFits
<1> QED BY <1>1, <1>2 DEF Imports

\* An import begins where its cursor is, if the cursor is about the log, or starts over.
LEMMA InspectImports == ASSUME IInv, NEW i \in Instance, Inspect(i) PROVE Imports(i)
<1>1. sync[i] \in Import /\ Fits(sync[i])
  BY ImportFits
<1>2. CASE Update(i, [sync[i] EXCEPT !.at = "finish", !.missing = FALSE])
  <2> DEFINE s1 == [sync[i] EXCEPT !.at = "finish"]
             s2 == [s1 EXCEPT !.missing = FALSE]
  <2>1. s1 \in Import /\ s1.at = "finish" /\ s1.cursor = sync[i].cursor
        /\ s1.batch = sync[i].batch /\ s1.last = sync[i].last
    BY <1>1 DEF Import, Label
  <2>2. s2 \in Import /\ s2.at = "finish" /\ s2.cursor = sync[i].cursor
        /\ s2.batch = sync[i].batch /\ s2.last = sync[i].last
    <3> HIDE DEF s1
    <3> QED BY <2>1 DEF Import
  <2>3. Update(i, s2)
    BY <1>2 DEF Update
  <2> HIDE DEF s2
  <2> QED BY <1>1, <2>2, <2>3, StoppedFits DEF Imports
<1>3. CASE Failed(i)
  BY <1>3, FailedImports DEF IInv
<1>4. ASSUME path # 0,
             NEW f, f = inode[path], NEW from, from = Resumed(cursor, f, path),
             NEW c, c = [offset |-> from.offset, session |-> from.session, ident |-> path,
                         size |-> Size(f), mtime |-> f.mtime, prefix |-> <<>>],
             Update(i, [sync[i] EXCEPT !.at = "read", !.missing = FALSE,
                                       !.limit = Complete(f), !.cursor = c])
      PROVE  Imports(i)
  <2> DEFINE s1 == [sync[i] EXCEPT !.at = "read"]
             s2 == [s1 EXCEPT !.missing = FALSE]
             s3 == [s2 EXCEPT !.limit = Complete(f)]
             s4 == [s3 EXCEPT !.cursor = c]
  <2>1. TypeInv /\ FileInv /\ path \in 1..path
    BY <1>4, BoundAssumption DEF IInv, TypeInv
  <2>2. /\ f \in File /\ (f.lines = <<>> => ~f.part) /\ path \in 0..MaxInodes
        /\ Len(f.lines) <= MaxLines /\ MaxLines \in Nat
    BY <1>4, <2>1, OpenFacts, FileFacts DEF WellWritten
  <2>3. /\ Size(f) \in 0..(2 * MaxLines) /\ Complete(f) \in Nat
        /\ f.mtime \in 0..MaxTruncations
    <3>1. /\ Size(f) \in 0..(2 * Len(f.lines)) /\ Complete(f) \in 0..Len(f.lines)
          /\ Len(f.lines) \in Nat
      BY <2>2, FileFacts
    <3> QED BY <2>2, <3>1 DEF File
  <2>4. from.offset \in 0..MaxLines /\ from.session \in Id \cup {None}
    BY <1>4, <2>1, <2>2 DEF Resumed, Forgotten, TypeInv, Cursor
  <2>5. c \in Cursor /\ c.offset = from.offset /\ c.session = from.session
        /\ c.mtime = f.mtime /\ c.ident = path
    BY <1>4, <2>2, <2>3, <2>4 DEF Cursor
  <2>6. s1 \in Import /\ s1.at = "read" /\ s1.batch = sync[i].batch
    BY <1>1 DEF Import, Label
  <2>7. s2 \in Import /\ s2.at = "read" /\ s2.batch = sync[i].batch
    <3> HIDE DEF s1
    <3> QED BY <2>6 DEF Import
  <2>8. s3 \in Import /\ s3.at = "read" /\ s3.batch = sync[i].batch
    <3> HIDE DEF s2
    <3> QED BY <2>3, <2>7 DEF Import
  <2>9. s4 \in Import /\ s4.at = "read" /\ s4.batch = sync[i].batch /\ s4.cursor = c
    <3> HIDE DEF s3
    <3> QED BY <2>5, <2>8 DEF Import
  <2>10. Update(i, s4)
    BY <1>4 DEF Update
  <2>11. raced = {} => Covers(c, f, sync[i].batch)
    <3>1. CASE Resets(cursor, f, path)
      <4>1. c.offset = 0 /\ c.session = None
        BY <1>4, <2>5, <3>1 DEF Resumed, Forgotten
      <4> QED BY <2>3, <4>1 DEF Covers
    <3>2. CASE ~Resets(cursor, f, path) /\ raced = {}
      <4>1. Covers(cursor, f, {})
        BY <1>4, <2>1, <3>2, ResumedCovers DEF IInv, ImportInv
      <4>2. c.offset = cursor.offset /\ c.session = cursor.session
        BY <1>4, <2>5, <3>2 DEF Resumed
      <4> QED BY <4>1, <4>2, NotedMore DEF Covers, InSession
    <3> QED BY <3>1, <3>2
  <2> HIDE DEF s4
  <2>12. OpenAt(s4)
    BY <2>1, <2>5, <2>9 DEF OpenAt
  <2>13. raced = {} => Follows(s4.cursor, inode[s4.cursor.ident], s4.batch)
    BY <1>4, <2>5, <2>9, <2>11 DEF Follows
  <2>14. raced = {} => OwnerAt(s4)
    BY <1>1, <2>9 DEF Fits, OwnerAt
  <2>15. Fits(s4)
    BY <2>9, <2>12, <2>13, <2>14 DEF Fits, ImportAt
  <2> QED BY <2>10, <2>15 DEF Imports
<1> QED BY <1>2, <1>3, <1>4 DEF Inspect

\* The line that an import reads next belongs to the record that it is recorded for.
LEMMA LineFacts ==
    ASSUME NEW f \in File, WellWritten(f), NEW c \in Cursor, NEW batch,
           c.offset + 1 <= Complete(f), Covers(c, f, batch),
           ~Fails(f.lines[c.offset + 1], c.session)
    PROVE  LET k == c.offset + 1
               line == f.lines[k]
           IN /\ line.event = "usage" => RecordOf(line, c.session) = line.id
              /\ line.event # "bad"
              /\ SessionAfter(line, c.session) # None =>
                    /\ source.kind = "sessions"
                    /\ \E j \in 1..k : /\ LastStart(f, j, k)
                                       /\ f.lines[j].id = SessionAfter(line, c.session)
<1> DEFINE k == c.offset + 1
           line == f.lines[k]
<1>1. /\ c.offset \in Nat /\ k \in Nat /\ k - 1 = c.offset /\ Len(f.lines) \in Nat
      /\ k \in 1..Len(f.lines) /\ 1..c.offset \subseteq 1..Len(f.lines)
  <2>1. Len(f.lines) \in Nat /\ Complete(f) \in 0..Len(f.lines) /\ c.offset \in Nat
    BY FileFacts DEF WellWritten, Cursor
  <2> QED BY <2>1
<1>2. line \in Line
  BY <1>1, FileFacts DEF WellWritten
<1>3. line.event # "bad"
  BY DEF Fails
<1>4. ASSUME c.session # None, line.event # "start"
      PROVE  /\ source.kind = "sessions" /\ line.id = c.session
             /\ \E j \in 1..k : LastStart(f, j, k) /\ f.lines[j].id = c.session
  <2>1. PICK j \in 1..c.offset : LastStart(f, j, c.offset) /\ f.lines[j].id = c.session
    BY <1>4 DEF Covers, InSession
  <2>2. source.kind = "sessions"
    BY <1>4 DEF Covers
  <2>3. line.id = f.lines[j].id
    BY <1>1, <1>4, <2>1, <2>2 DEF WellWritten
  <2>4. LastStart(f, j, k)
    <3>1. \A m \in 1..k : m > j => f.lines[m].event # "start"
      <4>1. \A m \in 1..k : m = k \/ m \in 1..c.offset
        BY <1>1
      <4> QED BY <1>4, <2>1, <4>1 DEF LastStart
    <3> QED BY <1>1, <2>1, <3>1 DEF LastStart
  <2> QED BY <1>1, <2>1, <2>2, <2>3, <2>4
<1>5. line.event = "usage" => RecordOf(line, c.session) = line.id
  BY <1>4 DEF RecordOf, Fails
<1>6. ASSUME SessionAfter(line, c.session) # None
      PROVE  /\ source.kind = "sessions"
             /\ \E j \in 1..k : /\ LastStart(f, j, k)
                                /\ f.lines[j].id = SessionAfter(line, c.session)
  <2>1. CASE line.event = "start"
    <3>1. source.kind = "sessions" /\ SessionAfter(line, c.session) = line.id
      BY <1>1, <2>1 DEF WellWritten, SessionAfter
    <3>2. LastStart(f, k, k) /\ k \in 1..k
      BY <1>1, <2>1 DEF LastStart
    <3> QED BY <3>1, <3>2
  <2>2. CASE line.event # "start"
    BY <1>4, <1>6, <2>2 DEF SessionAfter
  <2> QED BY <2>1, <2>2
<1> QED BY <1>3, <1>5, <1>6

\* An import takes notice of a line, or fails on it.
LEMMA ReadImports == ASSUME IInv, NEW i \in Instance, ReadLine(i) PROVE Imports(i)
<1>1. PICK s, f, k, line, id :
         /\ s = sync[i] /\ f = inode[s.cursor.ident] /\ k = s.cursor.offset + 1
         /\ line = f.lines[k] /\ id = RecordOf(line, s.cursor.session)
  OBVIOUS
<1> DEFINE skip == line.event # "usage" \/ (rec[id] # None /\ rec[id].fin > line.fin)
           new == Bound(rec[id], id, line, s.catalog)
<1>2. PICK b, z, l :
         /\ b = IF skip THEN s.batch ELSE s.batch \cup {new}
         /\ z = SessionAfter(line, s.cursor.session)
         /\ l = IF s.pending + 1 = BatchLines THEN "persist" ELSE "read"
  OBVIOUS
<1>3. s \in Import /\ Fits(s) /\ s.at = "read"
  BY <1>1, ImportFits DEF ReadLine
<1>4. TypeInv /\ FileInv /\ s.cursor.ident \in 1..path /\ s.cursor \in Cursor
  BY <1>3 DEF IInv, Fits, OpenAt, Import
<1>5. f \in File /\ WellWritten(f) /\ (f.lines = <<>> => ~f.part) /\ written <= MaxLines
      /\ written \in Nat /\ MaxLines \in Nat
  BY <1>1, <1>4, OpenFacts
<1>6. CASE Update(i, [s EXCEPT !.at = "persist", !.last = TRUE])
  <2> DEFINE s1 == [s EXCEPT !.at = "persist"]
             s2 == [s1 EXCEPT !.last = TRUE]
  <2>1. s1 \in Import /\ s1.at = "persist" /\ s1.cursor = s.cursor /\ s1.batch = s.batch
    BY <1>3 DEF Import, Label
  <2>2. s2 \in Import /\ s2.at = "persist" /\ s2.cursor = s.cursor /\ s2.batch = s.batch
    <3> HIDE DEF s1
    <3> QED BY <2>1 DEF Import
  <2>3. Update(i, s2)
    BY <1>6
  <2> HIDE DEF s2
  <2>4. Fits(s2)
    BY <1>3, <1>4, <2>2 DEF Fits, OpenAt, ImportAt, OwnerAt, ReadsOn
  <2> QED BY <2>3, <2>4 DEF Imports
<1>7. ASSUME ~(k > Complete(f)), ~Fails(line, s.cursor.session),
             NEW t, t = [s EXCEPT !.batch = b, !.cursor.offset = k, !.cursor.session = z,
                                  !.pending = s.pending + 1, !.at = l],
             Update(i, t)
      PROVE  Imports(i)
  <2>1. k \in 1..Len(f.lines) /\ k <= Complete(f) /\ k \in 0..MaxLines /\ Len(f.lines) \in Nat
        /\ s.cursor.offset \in Nat
    <3>1. s.cursor.offset \in Nat /\ Len(f.lines) \in Nat /\ Complete(f) \in 0..Len(f.lines)
          /\ Len(f.lines) <= written
      BY <1>4, <1>5, FileFacts DEF Cursor, WellWritten
    <3>2. k = s.cursor.offset + 1 /\ ~(k > Complete(f))
      BY <1>1, <1>7
    <3>3. k \in Nat /\ 1 <= k /\ k <= Complete(f) /\ k <= Len(f.lines)
      BY <3>1, <3>2
    <3> QED BY <1>5, <3>1, <3>3
  <2>2. line \in Line /\ line.id \in Id /\ line.fin \in 1..MaxLines /\ line.fin \in Nat
    <3>1. line \in Line
      BY <1>1, <1>5, <2>1, FileFacts
    <3> QED BY <3>1 DEF Line
  <2>3. z \in Id \cup {None} /\ (line.event = "usage" => id \in Id)
    BY <1>1, <1>2, <1>4, <1>7, <2>2 DEF SessionAfter, RecordOf, Fails, Cursor
  <2>4. /\ line.event = "usage" => new \in Obs
        /\ new.id = id /\ new.of = line.id /\ new.fin = line.fin
    <3>1. new.id = id /\ new.of = line.id /\ new.fin = line.fin
      BY DEF Bound
    <3>2. ASSUME line.event = "usage" PROVE new \in Obs
      <4>1. s.catalog \in Catalog \cup {None} /\ id \in Id
        BY <1>3, <2>3, <3>2 DEF Import
      <4>2. rec[id] # None => rec[id].price \in Catalog \cup {None}
        BY <1>4, <4>1, StoredFacts DEF Obs
      <4> QED BY <2>2, <4>1, <4>2 DEF Bound, Obs
    <3> QED BY <3>1, <3>2
  <2> HIDE DEF new
  <2>5. b \in SUBSET Obs /\ s.batch \subseteq b /\ s.pending + 1 \in Nat /\ l \in Label
    <3>1. s.batch \subseteq Obs /\ s.pending \in Nat
      BY <1>3 DEF Import
    <3>2. b \in SUBSET Obs /\ s.batch \subseteq b
      BY <1>2, <2>4, <3>1
    <3> QED BY <1>2, <3>1, <3>2 DEF Label
  <2>6. /\ t \in Import /\ t.at = l /\ t.batch = b /\ t.last = s.last
        /\ t.cursor \in Cursor /\ t.cursor.offset = k /\ t.cursor.session = z
        /\ t.cursor.mtime = s.cursor.mtime /\ t.cursor.ident = s.cursor.ident
    <3> DEFINE s1 == [s EXCEPT !.batch = b]
               s2 == [s1 EXCEPT !.cursor.offset = k]
               s3 == [s2 EXCEPT !.cursor.session = z]
               s4 == [s3 EXCEPT !.pending = s.pending + 1]
               s5 == [s4 EXCEPT !.at = l]
    <3>1. s1 \in Import /\ s1.batch = b /\ s1.last = s.last /\ s1.cursor = s.cursor
          /\ s1.cursor \in Cursor
      BY <1>3, <2>5 DEF Import
    <3>2. /\ s2 \in Import /\ s2.batch = b /\ s2.last = s.last
          /\ s2.cursor \in Cursor /\ s2.cursor.offset = k
          /\ s2.cursor.mtime = s.cursor.mtime /\ s2.cursor.ident = s.cursor.ident
      <4> HIDE DEF s1
      <4>1. s2.cursor = [s1.cursor EXCEPT !.offset = k]
        BY <3>1 DEF Import
      <4>2. s2.cursor \in Cursor /\ s2.cursor.offset = k
            /\ s2.cursor.mtime = s.cursor.mtime /\ s2.cursor.ident = s.cursor.ident
        BY <2>1, <3>1, <4>1 DEF Cursor
      <4>3. s2 \in Import /\ s2.batch = b /\ s2.last = s.last
        BY <3>1, <4>1, <4>2 DEF Import
      <4> QED BY <4>2, <4>3
    <3>3. /\ s3 \in Import /\ s3.batch = b /\ s3.last = s.last
          /\ s3.cursor \in Cursor /\ s3.cursor.offset = k /\ s3.cursor.session = z
          /\ s3.cursor.mtime = s.cursor.mtime /\ s3.cursor.ident = s.cursor.ident
      <4> HIDE DEF s2
      <4>1. s3.cursor = [s2.cursor EXCEPT !.session = z]
        BY <3>2 DEF Import
      <4>2. s3.cursor \in Cursor /\ s3.cursor.offset = k /\ s3.cursor.session = z
            /\ s3.cursor.mtime = s.cursor.mtime /\ s3.cursor.ident = s.cursor.ident
        BY <2>3, <3>2, <4>1 DEF Cursor
      <4>3. s3 \in Import /\ s3.batch = b /\ s3.last = s.last
        BY <3>2, <4>1, <4>2 DEF Import
      <4> QED BY <4>2, <4>3
    <3>4. s4 \in Import /\ s4.batch = b /\ s4.last = s.last /\ s4.cursor = s3.cursor
      <4> HIDE DEF s3
      <4> QED BY <2>5, <3>3 DEF Import
    <3>5. s5 \in Import /\ s5.at = l /\ s5.batch = b /\ s5.last = s.last
          /\ s5.cursor = s3.cursor
      <4> HIDE DEF s3, s4
      <4> QED BY <2>5, <3>4 DEF Import
    <3>6. t = s5
      BY <1>7
    <3> HIDE DEF s1, s2, s3, s4, s5
    <3> QED BY <3>3, <3>5, <3>6
  <2>7. OpenAt(t) /\ t.at # "commit"
    BY <1>2, <1>4, <2>6 DEF OpenAt
  <2>8. ASSUME raced = {} PROVE Follows(t.cursor, f, b) /\ OwnerAt(t)
    <3>1. Follows(s.cursor, f, s.batch) /\ OwnerAt(s)
      BY <1>1, <1>3, <2>8 DEF Fits, ImportAt, ReadsOn
    <3>2. /\ line.event = "usage" => id = line.id
          /\ line.event # "bad"
          /\ z # None => /\ source.kind = "sessions"
                         /\ \E j \in 1..k : LastStart(f, j, k) /\ f.lines[j].id = z
      <4>1. s.cursor.offset + 1 <= Complete(f) /\ Covers(s.cursor, f, s.batch)
        BY <1>1, <2>1, <3>1 DEF Follows
      <4> QED BY <1>1, <1>2, <1>4, <1>5, <1>7, <4>1, LineFacts
    <3>3. Noted(line, b)
      <4>1. CASE line.event # "usage"
        BY <3>2, <4>1 DEF Noted
      <4>2. CASE line.event = "usage" /\ skip
        <5>1. id = line.id /\ id \in Id /\ rec[id] # None /\ rec[id].fin > line.fin
          BY <2>3, <3>2, <4>2
        <5>2. rec[id].fin \in Nat
          BY <1>4, <5>1, StoredFacts DEF Obs
        <5> QED BY <2>2, <3>2, <5>1, <5>2 DEF Noted
      <4>3. CASE line.event = "usage" /\ ~skip
        <5>1. new \in b /\ new.id = line.id /\ new.fin = line.fin
          BY <1>2, <2>4, <3>2, <4>3
        <5> QED BY <2>2, <3>2, <5>1 DEF Noted
      <4> QED BY <4>1, <4>2, <4>3
    <3>4. \A m \in 1..k : Noted(f.lines[m], b)
      <4>1. \A m \in 1..k : m = k \/ m \in 1..s.cursor.offset
        BY <1>1, <2>1
      <4>2. \A m \in 1..s.cursor.offset : Noted(f.lines[m], b)
        BY <2>5, <3>1, NotedMore DEF Follows, Covers
      <4> QED BY <1>1, <3>3, <4>1, <4>2
    <3>5. Follows(t.cursor, f, b)
      BY <2>1, <2>6, <3>1, <3>2, <3>4 DEF Follows, Covers, InSession
    <3>6. \A r \in b : r.of = r.id
      <4>1. line.event = "usage" => new.of = new.id
        BY <2>4, <3>2
      <4> QED BY <1>2, <3>1, <4>1 DEF OwnerAt
    <3> QED BY <2>6, <3>5, <3>6 DEF OwnerAt
  <2>9. Fits(t)
    BY <1>1, <2>6, <2>7, <2>8 DEF Fits, ImportAt
  <2> QED BY <1>7, <2>9 DEF Imports
<1>8. CASE Failed(i)
  BY <1>4, <1>8, FailedImports
<1> QED BY <1>1, <1>2, <1>6, <1>7, <1>8 DEF ReadLine

\* An import goes on to commit only what is of the log, with the prefix it has now.
LEMMA PersistImports == ASSUME IInv, NEW i \in Instance, Persist(i) PROVE Imports(i)
<1>1. sync[i] \in Import /\ Fits(sync[i]) /\ sync[i].at = "persist"
  BY ImportFits DEF Persist
<1>2. CASE Failed(i)
  BY <1>2, FailedImports DEF IInv
<1>3. ASSUME Reopened(i), NEW s, s = sync[i], NEW f, f = inode[path],
             NEW p, p = Prefix(f, s.cursor.offset),
             Update(i, [s EXCEPT !.at = "commit", !.cursor.prefix = p])
      PROVE  Imports(i)
  <2> DEFINE s1 == [s EXCEPT !.at = "commit"]
             t == [s1 EXCEPT !.cursor.prefix = p]
  <2>1. TypeInv /\ FileInv /\ s.cursor.ident = path /\ path \in 1..path /\ s.cursor \in Cursor
        /\ s.cursor.offset \in Nat
    BY <1>1, <1>3 DEF IInv, Fits, OpenAt, Reopened, Import, Cursor
  <2>2. f \in File /\ WellWritten(f) /\ (f.lines = <<>> => ~f.part)
    BY <1>3, <2>1, OpenFacts
  <2>3. s.cursor.offset <= Len(f.lines) \/ PrefixLines <= Len(f.lines)
    <3>1. 2 * (IF s.cursor.offset < PrefixLines THEN s.cursor.offset ELSE PrefixLines)
             <= Size(f)
      BY <1>3 DEF Reopened
    <3>2. Size(f) \in 0..(2 * Len(f.lines)) /\ Len(f.lines) \in Nat /\ PrefixLines \in Nat
      BY <2>2, FileFacts, BatchAssumption
    <3> QED BY <2>1, <3>1, <3>2
  <2>4. p \in Seq(Line) /\ (s.cursor.offset > 0 => p # <<>> /\ p[1] = f.lines[1])
    BY <1>3, <2>1, <2>2, <2>3, PrefixFacts
  <2>5. s1 \in Import /\ s1.at = "commit" /\ s1.batch = s.batch /\ s1.cursor = s.cursor
    BY <1>1, <1>3 DEF Import, Label
  <2>6. t \in Import /\ t.at = "commit" /\ t.batch = s.batch
        /\ t.cursor \in Cursor /\ t.cursor.offset = s.cursor.offset /\ t.cursor.prefix = p
        /\ t.cursor.session = s.cursor.session /\ t.cursor.mtime = s.cursor.mtime
        /\ t.cursor.ident = path
    <3> HIDE DEF s1
    <3>1. t.cursor = [s1.cursor EXCEPT !.prefix = p]
      BY <2>5 DEF Import
    <3>2. t.cursor \in Cursor /\ t.cursor.offset = s.cursor.offset /\ t.cursor.prefix = p
          /\ t.cursor.session = s.cursor.session /\ t.cursor.mtime = s.cursor.mtime
          /\ t.cursor.ident = path
      BY <2>1, <2>4, <2>5, <3>1 DEF Cursor
    <3>3. t \in Import /\ t.at = "commit" /\ t.batch = s.batch
      BY <2>5, <3>1, <3>2 DEF Import
    <3> QED BY <3>2, <3>3
  <2>7. Update(i, t)
    BY <1>3
  <2> HIDE DEF t
  <2>8. ASSUME raced = {} PROVE ImportAt(t) /\ OwnerAt(t)
    <3>1. Follows(s.cursor, f, s.batch) /\ OwnerAt(s)
      BY <1>1, <1>3, <2>1, <2>8 DEF Fits, ImportAt, ReadsOn
    <3>2. Follows(t.cursor, f, t.batch)
      BY <2>6, <3>1 DEF Follows, Covers, InSession
    <3>3. Headed(t.cursor)
      <4>1. ASSUME t.cursor.offset > 0
            PROVE  t.cursor.prefix # <<>> /\ t.cursor.prefix[1].fin <= written
        <5>1. /\ Complete(f) \in 0..Len(f.lines) /\ Len(f.lines) \in Nat
              /\ s.cursor.offset <= Complete(f)
          BY <2>2, <3>1, FileFacts DEF Follows, Covers
        <5>2. 1 \in 1..Len(f.lines)
          BY <2>1, <2>6, <4>1, <5>1
        <5> QED BY <2>2, <2>4, <2>6, <4>1, <5>2 DEF WellWritten
      <4>2. t.cursor.offset = 0 => t.cursor.session = None
        BY <3>2 DEF Follows, Covers, InSession
      <4> QED BY <4>1, <4>2 DEF Headed
    <3>4. Faithful(t.cursor, t.batch)
      BY <1>3, <2>1, <2>6, <3>2, <3>3 DEF Faithful
    <3> QED BY <1>3, <2>6, <3>1, <3>2, <3>4 DEF ImportAt, OwnerAt
  <2>9. Fits(t)
    BY <2>1, <2>6, <2>8 DEF Fits, OpenAt
  <2> QED BY <2>7, <2>9 DEF Imports
<1> QED BY <1>2, <1>3 DEF Persist

-----------------------------------------------------------------------------
(***************************************************************************)
(* What the steps make of the database.                                    *)
(***************************************************************************)
\* What is stored is replaced by later observations of the same record, which keep the
\* price.
Replaces ==
    /\ rec' \in [Id -> Obs \cup {None}] /\ Grows
    /\ \A x \in Id : rec'[x] # None => rec'[x].id = x
    /\ \A x \in Id : rec[x] # None /\ rec[x].price # None => rec'[x].price = rec[x].price

\* A step that leaves the records alone replaces none.
LEMMA NothingReplaced == ASSUME TypeInv, RecordInv, UNCHANGED rec PROVE Replaces
<1>1. \A x \in Id : rec[x] # None => rec[x].fin \in Nat
  BY StoredFacts DEF Obs
<1> QED BY <1>1 DEF Replaces, Grows, TypeInv, RecordInv

\* What a commit writes.
Stores(i) == rec' = [x \in Id |-> IF {r \in Applied(i) : r.id = x} = {} THEN rec[x]
                                  ELSE Latest({r \in Applied(i) : r.id = x})]

\* A batch is stored, but for what is older than what is stored.
LEMMA CommitStores ==
    ASSUME TypeInv, RecordInv, NEW i \in Instance, ~PriceChanged(i), Stores(i)
    PROVE  /\ Replaces
           /\ \A x \in Id : rec'[x] = rec[x] \/ rec'[x] \in sync[i].batch
           /\ \A r \in sync[i].batch : rec'[r.id] # None /\ rec'[r.id].fin >= r.fin
<1> DEFINE of == [x \in Id |-> {r \in Applied(i) : r.id = x}]
<1>0. \A x \in Id : of[x] = {r \in Applied(i) : r.id = x}
  OBVIOUS
<1> HIDE DEF of
<1>1. /\ sync[i].batch \subseteq Obs /\ Applied(i) \subseteq sync[i].batch
  BY DEF TypeInv, Import, Applied
<1>2. ASSUME NEW x \in Id
      PROVE  \/ of[x] = {} /\ rec'[x] = rec[x]
             \/ /\ of[x] # {} /\ rec'[x] \in Applied(i) /\ rec'[x].id = x
                /\ \A r \in of[x] : r.fin <= rec'[x].fin
  <2>1. of[x] \subseteq Obs /\ of[x] = {r \in Applied(i) : r.id = x}
    BY <1>0, <1>1
  <2>2. of[x] # {} => /\ Latest(of[x]) \in of[x]
                      /\ \A r \in of[x] : r.fin <= Latest(of[x]).fin
    BY <2>1, LatestFacts
  <2>3. rec'[x] = IF of[x] = {} THEN rec[x] ELSE Latest(of[x])
    BY <2>1 DEF Stores
  <2> QED BY <2>1, <2>2, <2>3
<1>3. \A o \in Obs : o # None /\ o.id \in Id /\ o.fin \in Nat
  BY ObservationAssumption DEF Obs
<1>4. ASSUME NEW x \in Id
      PROVE  /\ rec[x] # None => rec'[x] # None /\ rec'[x].fin >= rec[x].fin
             /\ rec'[x] # None => rec'[x].id = x
             /\ rec[x] # None /\ rec[x].price # None => rec'[x].price = rec[x].price
  <2>1. rec[x] # None => rec[x] \in Obs /\ rec[x].id = x /\ rec[x].fin \in Nat
    BY <1>3, StoredFacts DEF RecordInv
  <2>2. CASE rec'[x] = rec[x]
    BY <2>1, <2>2
  <2>3. CASE rec'[x] \in Applied(i) /\ rec'[x].id = x
    <3>1. rec'[x] \in Obs /\ rec'[x] # None /\ rec'[x].fin \in Nat
      BY <1>1, <1>3, <2>3
    <3>2. rec[x] # None => rec'[x].fin >= rec[x].fin
      BY <2>3 DEF Applied
    <3>3. ASSUME rec[x] # None, rec[x].price # None PROVE rec'[x].price = rec[x].price
      <4>1. rec[x] \in Applied(i) \cup StoredObs
        BY <3>3 DEF StoredObs
      <4>2. rec[x].id = rec'[x].id /\ rec[x].fin <= rec'[x].fin
        BY <2>1, <2>3, <3>1, <3>2, <3>3
      <4>3. ~(rec[x].price \notin {None, rec'[x].price})
        BY <2>3, <4>1, <4>2 DEF PriceChanged
      <4> QED BY <3>3, <4>3
    <3> QED BY <2>3, <3>1, <3>2, <3>3
  <2> QED BY <1>2, <2>2, <2>3
<1>5. rec' \in [Id -> Obs \cup {None}]
  <2>1. \A x \in Id : rec'[x] \in Obs \cup {None}
    BY <1>1, <1>2 DEF TypeInv
  <2> QED BY <2>1 DEF Stores
<1>6. ASSUME NEW r \in sync[i].batch PROVE rec'[r.id] # None /\ rec'[r.id].fin >= r.fin
  <2>1. r \in Obs /\ r.id \in Id /\ r.fin \in Nat
    BY <1>1, <1>3
  <2>2. CASE rec[r.id] = None \/ r.fin >= rec[r.id].fin
    <3>1. r \in Applied(i)
      BY <2>2 DEF Applied
    <3>2. r \in of[r.id]
      BY <1>0, <2>1, <3>1
    <3>3. rec'[r.id] \in Applied(i) /\ r.fin <= rec'[r.id].fin
      BY <1>2, <2>1, <3>2
    <3>4. rec'[r.id] \in Obs
      BY <1>1, <3>3
    <3> QED BY <1>3, <2>1, <3>3, <3>4
  <2>3. CASE rec[r.id] # None /\ ~(r.fin >= rec[r.id].fin)
    <3>1. rec'[r.id] # None /\ rec'[r.id].fin >= rec[r.id].fin
      BY <1>4, <2>1, <2>3
    <3>2. rec'[r.id].fin \in Nat /\ rec[r.id].fin \in Nat
      BY <1>3, <1>5, <2>1, <2>3, <3>1, StoredFacts
    <3> QED BY <2>1, <2>3, <3>1, <3>2
  <2> QED BY <2>2, <2>3
<1>7. Replaces
  BY <1>4, <1>5 DEF Replaces, Grows
<1>8. \A x \in Id : rec'[x] = rec[x] \/ rec'[x] \in sync[i].batch
  BY <1>1, <1>2
<1> QED BY <1>6, <1>7, <1>8

\* An import commits its batch with its cursor, or fails.
LEMMA CommitFacts ==
    ASSUME TypeInv, RecordInv, NEW i \in Instance, Commit(i)
    PROVE  \/ Imports(i) /\ UNCHANGED <<rec, cursor>>
           \/ /\ Replaces /\ cursor' = sync[i].cursor
              /\ \A x \in Id : rec'[x] = rec[x] \/ rec'[x] \in sync[i].batch
              /\ \A r \in sync[i].batch : rec'[r.id] # None /\ rec'[r.id].fin >= r.fin
              /\ \E t \in Import :
                    /\ Update(i, t) /\ t.cursor = sync[i].cursor /\ t.batch = {}
                    /\ t.last = sync[i].last
                    /\ t.at = IF sync[i].last THEN "finish" ELSE "read"
<1>1. CASE Failed(i) /\ UNCHANGED <<rec, cursor>>
  BY <1>1, FailedImports
<1>2. CASE ~Failed(i) \/ ~UNCHANGED <<rec, cursor>>
  <2> DEFINE s == sync[i]
             s1 == [s EXCEPT !.at = IF s.last THEN "finish" ELSE "read"]
             s2 == [s1 EXCEPT !.pending = 0]
             s3 == [s2 EXCEPT !.batch = {}]
  <2>1. /\ ~PriceChanged(i) /\ cursor' = s.cursor /\ Update(i, Committed(s)) /\ Stores(i)
    BY <1>2 DEF Commit, Stores
  <2>3. /\ Replaces
        /\ \A x \in Id : rec'[x] = rec[x] \/ rec'[x] \in sync[i].batch
        /\ \A r \in sync[i].batch : rec'[r.id] # None /\ rec'[r.id].fin >= r.fin
    <3> HIDE DEF s
    <3> QED BY <2>1, CommitStores
  <2>4. s \in Import
    BY DEF TypeInv
  <2>5. s1 \in Import /\ s1.at = (IF s.last THEN "finish" ELSE "read")
        /\ s1.cursor = s.cursor /\ s1.last = s.last
    BY <2>4 DEF Import, Label
  <2>6. s2 \in Import /\ s2.at = s1.at /\ s2.cursor = s.cursor /\ s2.last = s.last
    <3> HIDE DEF s1
    <3> QED BY <2>5 DEF Import
  <2>7. s3 \in Import /\ s3.at = s1.at /\ s3.cursor = s.cursor /\ s3.last = s.last
        /\ s3.batch = {}
    <3> HIDE DEF s1, s2
    <3> QED BY <2>6 DEF Import
  <2>8. Update(i, s3)
    BY <2>1 DEF Committed, CommittedKeepingBatch
  <2> HIDE DEF s1, s3
  <2> QED BY <2>1, <2>3, <2>5, <2>7, <2>8
<1> QED BY <1>1, <1>2

\* A price is bound to an observation that has none and is still the one that was read.
LEMMA BindFacts ==
    ASSUME TypeInv, RecordInv, NEW i \in Instance, Bind(i)
    PROVE  /\ Replaces /\ \A x \in Id : rec[x] = None => rec'[x] = None
           /\ \A x \in Id : rec[x] # None => rec'[x].of = rec[x].of
           /\ \E r \in Pricing : /\ Refresh(i, r) /\ r.rows \subseteq refresh[i].rows
<1>1. CASE Refresh(i, NoRefresh) /\ UNCHANGED rec
  BY <1>1, NothingReplaced, IdleFacts
<1>2. ASSUME NEW o \in refresh[i].rows,
             rec' = IF Unchanged(o)
                    THEN [rec EXCEPT ![o.id] = [o EXCEPT !.price = refresh[i].catalog]]
                    ELSE rec,
             NEW t, t = [refresh[i] EXCEPT !.rows = @ \ {o}], Refresh(i, t)
      PROVE  /\ Replaces /\ \A x \in Id : rec[x] = None => rec'[x] = None
             /\ \A x \in Id : rec[x] # None => rec'[x].of = rec[x].of
             /\ \E r \in Pricing : /\ Refresh(i, r) /\ r.rows \subseteq refresh[i].rows
  <2>1. refresh[i] \in Pricing /\ o \in Obs /\ o.price = None
        /\ refresh[i].catalog \in Catalog \cup {None}
    BY DEF TypeInv, Pricing, RecordInv
  <2>2. t \in Pricing /\ t.rows \subseteq refresh[i].rows
    BY <1>2, <2>1 DEF Pricing
  <2>3. CASE ~Unchanged(o)
    BY <1>2, <2>2, <2>3, NothingReplaced
  <2>4. CASE Unchanged(o)
    <3> DEFINE n == [o EXCEPT !.price = refresh[i].catalog]
    <3>1. n \in Obs /\ n # None /\ n.id = o.id /\ n.fin = o.fin /\ n.of = o.of
      BY <2>1, ObservationAssumption DEF Obs
    <3>2. rec[o.id] = o /\ o.id \in Id /\ o # None /\ o.fin \in Nat
      BY <2>1, <2>4, ObservationAssumption DEF Unchanged, Obs
    <3>3. rec' = [rec EXCEPT ![o.id] = n]
      BY <1>2, <2>4
    <3> HIDE DEF n
    <3>4. rec \in [Id -> Obs \cup {None}] /\ rec'[o.id] = n
          /\ \A x \in Id : x # o.id => rec'[x] = rec[x]
      BY <3>2, <3>3 DEF TypeInv
    <3>5. rec' \in [Id -> Obs \cup {None}]
      BY <3>1, <3>3, <3>4
    <3>6. \A x \in Id : rec[x] # None => rec[x].id = x /\ rec[x].fin \in Nat
      BY StoredFacts DEF RecordInv, Obs
    <3>7. Replaces
      BY <2>1, <3>1, <3>2, <3>4, <3>5, <3>6 DEF Replaces, Grows
    <3> QED BY <1>2, <2>2, <3>1, <3>2, <3>4, <3>7
  <2> QED BY <2>3, <2>4
<1> QED BY <1>1, <1>2 DEF Bind

-----------------------------------------------------------------------------
(***************************************************************************)
(* What the other program makes of the log.                                *)
(***************************************************************************)
\* The one session that a line may be of is that of the last start.
LEMMA CurrentFacts ==
    ASSUME NEW f \in File, NEW j, LastStart(f, j, Len(f.lines)), NEW x \in Current(f)
    PROVE  x = f.lines[j].id
<1>1. Len(f.lines) \in Nat /\ Starts(f) \subseteq 1..Len(f.lines) /\ j \in Starts(f)
  BY DEF File, Starts, LastStart
<1>2. \A k \in Starts(f) : k <= j
  <2>1. TAKE k \in Starts(f)
  <2>2. k \in 1..Len(f.lines) /\ f.lines[k].event = "start"
    BY DEF Starts
  <2>3. ~(k > j)
    BY <2>2 DEF LastStart
  <2> QED BY <1>1, <2>2, <2>3
<1>3. \A m \in Starts(f) : (\A k \in Starts(f) : k <= m) => m = j
  <2>1. TAKE m \in Starts(f)
  <2>2. m \in Nat /\ j \in Nat
    BY <1>1
  <2> QED BY <1>1, <1>2, <2>2
<1>4. (CHOOSE k \in Starts(f) : \A m \in Starts(f) : m <= k) = j
  BY <1>1, <1>2, <1>3
<1> QED BY <1>1, <1>4 DEF Current

\* What a step of the other program leaves behind.
LogFits == /\ inode' \in [1..MaxInodes -> File] /\ path' \in 0..MaxInodes
           /\ written' \in 0..MaxLines /\ raced' \subseteq {"clear", "truncate"}
           /\ FileInv' /\ Evolves
           /\ UNCHANGED <<db, price, sync, refresh>>

\* One file is replaced by one that it may become.
LEMMA OneFile ==
    ASSUME TypeInv, FileInv, NEW n \in 1..MaxInodes, NEW g \in File,
           inode' = [inode EXCEPT ![n] = g],
           path' \in 0..MaxInodes, written' \in 0..MaxLines, path <= path', n <= path',
           written <= written', raced \subseteq raced', raced' \subseteq {"clear", "truncate"},
           WellWritten(g)', UNCHANGED <<db, price, sync, refresh>>,
           \/ path < n \/ Extends(inode[n], g)
           \/ /\ Restarts(inode[n], g)
              /\ raced' = {} =>
                    \A i \in Instance : ReadsOn(sync[i]) => sync[i].cursor.ident # n
    PROVE  LogFits
<1>1. inode' \in [1..MaxInodes -> File] /\ inode'[n] = g
      /\ \A m \in 1..MaxInodes : m # n => inode'[m] = inode[m]
  BY DEF TypeInv
<1>2. source' = source /\ rec' = rec /\ sync' = sync
  BY DEF db
<1>3. path \in Nat /\ path' \in Nat /\ written \in Nat /\ written' \in Nat
      /\ MaxInodes \in Nat /\ path <= MaxInodes
  BY BoundAssumption DEF TypeInv
<1>4. FileInv'
  <2> SUFFICES ASSUME NEW m \in 1..MaxInodes
               PROVE  WellWritten(inode[m])' /\ (m > path => inode[m].lines = <<>>)'
    BY DEF FileInv
  <2>1. CASE m = n
    <3>1. WellWritten(inode[m])'
      BY <1>1, <2>1 DEF WellWritten, LastStart
    <3> QED BY <1>1, <1>3, <2>1, <3>1
  <2>2. CASE m # n
    <3>1. PICK f : f = inode[m]
      OBVIOUS
    <3>2. f \in File /\ WellWritten(f) /\ (m > path => f.lines = <<>>)
      BY <3>1 DEF TypeInv, FileInv
    <3>3. Len(f.lines) \in Nat /\ \A k \in 1..Len(f.lines) : f.lines[k].fin \in Nat
      <4>1. Len(f.lines) \in Nat /\ f.lines \in Seq(Line)
        BY <3>2 DEF File
      <4>2. \A k \in 1..Len(f.lines) : f.lines[k] \in Line
        BY <4>1
      <4> QED BY <4>1, <4>2 DEF Line
    <3>4. WellWritten(f)'
      <4>1. Len(f.lines) <= written' /\ \A k \in 1..Len(f.lines) : f.lines[k].fin <= written'
        BY <1>3, <3>2, <3>3 DEF WellWritten
      <4> QED BY <1>2, <3>2, <4>1 DEF WellWritten, LastStart
    <3>5. f = inode'[m] /\ (m > path' => f.lines = <<>>)
      BY <1>1, <1>3, <2>2, <3>1, <3>2
    <3> QED BY <3>4, <3>5 DEF WellWritten, LastStart
  <2> QED BY <2>1, <2>2
<1>5. Evolves
  <2>1. Grows
    BY <1>2, NothingReplaced, StoredFacts DEF Grows, Obs
  <2>2. ASSUME NEW m \in 1..path
        PROVE  \/ Extends(inode[m], inode'[m])
               \/ /\ Restarts(inode[m], inode'[m])
                  /\ raced' = {} =>
                        \A i \in Instance : ReadsOn(sync[i]) => sync[i].cursor.ident # m
    <3>1. CASE m = n
      BY <1>1, <1>3, <3>1
    <3>2. CASE m # n
      <4>1. inode'[m] = inode[m] /\ inode[m] \in File
        BY <1>1, <1>3, <3>2 DEF TypeInv
      <4>2. Len(inode[m].lines) \in Nat /\ Complete(inode[m]) <= Complete(inode[m])
        BY <4>1 DEF File, Complete
      <4> QED BY <4>1, <4>2 DEF Extends
    <3> QED BY <3>1, <3>2
  <2> QED BY <1>2, <2>1, <2>2 DEF Evolves
<1> QED BY <1>1, <1>4, <1>5 DEF LogFits

\* A line is written after all others, for the session that the last start is of.
LEMMA WriteFits == ASSUME TypeInv, FileInv, WriteLine PROVE LogFits
<1> DEFINE at == IF path = 0 THEN 1 ELSE path
           f == inode[at]
<1>1. at = (IF path = 0 THEN 1 ELSE path) /\ f = inode[at]
  OBVIOUS
<1>2. PICK event, part, x :
         /\ event \in IF source.kind = "spans" THEN Event \ {"start"} ELSE Event
         /\ part \in BOOLEAN
         /\ x \in IF event = "start" \/ source.kind = "spans" THEN Id ELSE Current(f)
         /\ inode' = [inode EXCEPT ![at].lines =
                         Append(@, [event |-> event, id |-> x, fin |-> written']),
                                   ![at].part = part]
  BY Zenon DEF WriteLine
<1>3. /\ written < MaxLines /\ ~f.part /\ written' = written + 1 /\ path' = at
      /\ UNCHANGED <<db, price, sync, refresh, raced>>
  BY DEF WriteLine
<1> HIDE DEF at, f
<1>4. /\ at \in 1..MaxInodes /\ at \in Nat /\ path \in Nat /\ path <= at
      /\ f \in File /\ WellWritten(f)
      /\ Len(f.lines) \in Nat /\ f.lines \in Seq(Line) /\ written \in Nat
      /\ MaxLines \in Nat /\ MaxInodes \in Nat /\ written <= MaxLines /\ path <= MaxInodes
      /\ Len(f.lines) <= written /\ source \in Source
  <2>1. at \in 1..MaxInodes /\ at \in Nat /\ path \in Nat /\ path <= at
        /\ written \in Nat /\ MaxLines \in Nat /\ MaxInodes \in Nat
        /\ written <= MaxLines /\ path <= MaxInodes /\ source \in Source
    BY <1>1, BoundAssumption DEF TypeInv
  <2>2. f \in File /\ WellWritten(f)
    BY <1>1, <2>1 DEF TypeInv, FileInv
  <2> QED BY <2>1, <2>2 DEF File, WellWritten
<1>5. PICK line : line = [event |-> event, id |-> x, fin |-> written']
  OBVIOUS
<1>6. x \in Id
  <2>1. CASE Starts(f) = {}
    BY <1>2, <2>1 DEF Current
  <2>2. CASE Starts(f) # {}
    <3>1. Starts(f) \subseteq 0..Len(f.lines)
      BY <1>4 DEF Starts
    <3>2. \E m \in Starts(f) : \A k \in Starts(f) : k <= m
      BY <1>4, <2>2, <3>1, Greatest
    <3>3. PICK m \in Starts(f) : Current(f) = {f.lines[m].id}
      BY <2>2, <3>2 DEF Current
    <3>4. m \in 1..Len(f.lines)
      BY DEF Starts
    <3>5. f.lines[m] \in Line
      BY <1>4, <3>4
    <3> QED BY <1>2, <3>3, <3>5 DEF Line
  <2> QED BY <2>1, <2>2
<1>7. /\ line \in Line /\ line.fin = written' /\ line.event = event /\ line.id = x
      /\ written' \in 0..MaxLines /\ written <= written'
  <2>1. event \in {"start", "usage", "other", "bad"}
    BY <1>2, EventAssumption
  <2>2. written' \in 1..MaxLines /\ written <= written'
    BY <1>4, <1>3
  <2> QED BY <1>5, <1>6, <2>1, <2>2 DEF Line
<1>8. PICK g : /\ g \in File /\ g.lines = Append(f.lines, line) /\ g.part = part
               /\ g.mtime = f.mtime /\ inode' = [inode EXCEPT ![at] = g]
  <2> DEFINE g1 == [f EXCEPT !.lines = Append(f.lines, line)]
             g2 == [g1 EXCEPT !.part = part]
             i1 == [inode EXCEPT ![at] = g1]
  <2>1. Append(f.lines, line) \in Seq(Line)
    BY <1>4, <1>7
  <2>2. g1 \in File /\ g1.lines = Append(f.lines, line) /\ g1.mtime = f.mtime
    BY <1>4, <2>1 DEF File
  <2>3. g2 \in File /\ g2.lines = Append(f.lines, line) /\ g2.mtime = f.mtime
        /\ g2.part = part
    <3> HIDE DEF g1
    <3> QED BY <1>2, <2>2 DEF File
  <2>4. inode' = [inode EXCEPT ![at].lines = Append(@, line), ![at].part = part]
    BY <1>2, <1>5
  <2>5. inode' = [i1 EXCEPT ![at].part = part]
    BY <1>1, <2>4
  <2>6. i1[at] = g1 /\ i1 \in [1..MaxInodes -> File]
    <3> HIDE DEF g1
    <3> QED BY <1>4, <2>2 DEF TypeInv
  <2>7. inode' = [i1 EXCEPT ![at] = g2]
    <3> HIDE DEF i1, g1
    <3> QED BY <2>5, <2>6
  <2>8. [i1 EXCEPT ![at] = g2] = [inode EXCEPT ![at] = g2]
    <3> HIDE DEF g1, g2
    <3> QED BY <1>4 DEF TypeInv
  <2> HIDE DEF g1, g2, i1
  <2> QED BY <2>3, <2>7, <2>8
<1>9. /\ Len(g.lines) = Len(f.lines) + 1 /\ g.lines[Len(f.lines) + 1] = line
      /\ \A k \in 1..Len(f.lines) : g.lines[k] = f.lines[k]
      /\ \A k \in 1..Len(g.lines) : k = Len(f.lines) + 1 \/ k \in 1..Len(f.lines)
  BY <1>4, <1>7, <1>8
<1>10. Extends(f, g)
  <2>1. Complete(f) <= Complete(g)
    BY <1>4, <1>3, <1>9 DEF Complete
  <2>2. \A k \in 1..Len(g.lines) : k > Len(f.lines) => g.lines[k].fin > written
    BY <1>4, <1>3, <1>7, <1>9
  <2> QED BY <1>4, <1>8, <1>9, <2>1, <2>2 DEF Extends
<1>11. WellWritten(g)'
  <2>1. g.lines # <<>> /\ Len(g.lines) <= written'
    BY <1>4, <1>3, <1>9
  <2>2. \A k \in 1..Len(g.lines) : g.lines[k].fin <= written'
    <3>1. \A k \in 1..Len(f.lines) : f.lines[k].fin <= written'
      <4>1. \A k \in 1..Len(f.lines) : f.lines[k] \in Line
        BY <1>4
      <4>2. \A k \in 1..Len(f.lines) : f.lines[k].fin \in Nat /\ f.lines[k].fin <= written
        BY <1>4, <4>1 DEF WellWritten, Line
      <4>3. written' = written + 1
        BY <1>3
      <4>4. \A n \in Nat : n <= written => n <= written'
        BY <1>4, <4>3, SMTT(60)
      <4> QED BY <4>2, <4>4
    <3>2. TAKE k \in 1..Len(g.lines)
    <3>3. CASE k = Len(f.lines) + 1
      <4>1. g.lines[k] = line
        BY <1>9, <3>3
      <4>2. written' \in Nat
        BY <1>4, <1>3
      <4> QED BY <1>7, <4>1, <4>2
    <3>4. CASE k \in 1..Len(f.lines)
      <4>1. g.lines[k] = f.lines[k]
        BY <1>9, <3>4
      <4> QED BY <3>1, <3>4, <4>1
    <3> QED BY <1>9, <3>3, <3>4
  <2>3. source.kind \in {"sessions", "spans"} /\ source' = source
    BY <1>4, <1>3 DEF Source, db
  <2>4. event = "start" => source.kind = "sessions"
    BY <1>2, <2>3
  <2>5. \A k \in 1..Len(g.lines) : g.lines[k].event = "start" => source.kind = "sessions"
    BY <1>4, <1>7, <1>9, <2>4 DEF WellWritten
  <2>6. ASSUME source.kind = "sessions", NEW k \in 1..Len(g.lines), NEW j \in 1..Len(g.lines),
               LastStart(g, j, k - 1), g.lines[k].event # "start"
        PROVE  g.lines[k].id = g.lines[j].id
    <3>1. /\ j \in 1..(k - 1) /\ 1..(k - 1) \subseteq 1..Len(f.lines)
          /\ j \in 1..Len(f.lines) /\ g.lines[j] = f.lines[j]
      BY <1>4, <1>9, <2>6 DEF LastStart
    <3>2. LastStart(f, j, k - 1)
      BY <1>9, <2>6, <3>1 DEF LastStart
    <3>3. CASE k = Len(f.lines) + 1
      <4>1. k - 1 = Len(f.lines) /\ g.lines[k] = line
        BY <1>4, <1>9, <3>3
      <4>2. x \in Current(f)
        BY <1>2, <1>7, <2>6, <4>1
      <4>3. x = f.lines[j].id
        BY <1>4, <3>2, <4>1, <4>2, CurrentFacts
      <4> QED BY <1>7, <3>1, <4>1, <4>3
    <3>4. CASE k \in 1..Len(f.lines)
      BY <1>4, <1>9, <2>6, <3>1, <3>2, <3>4 DEF WellWritten
    <3> QED BY <1>9, <3>3, <3>4
  <2> QED BY <2>1, <2>2, <2>3, <2>5, <2>6 DEF WellWritten, LastStart
<1>12. path' \in 0..MaxInodes /\ path <= path' /\ at <= path'
  BY <1>4, <1>3
<1>13. raced \subseteq raced' /\ raced' \subseteq {"clear", "truncate"}
  BY <1>3 DEF TypeInv
<1> QED BY <1>1, <1>4, <1>3, <1>7, <1>8, <1>10, <1>11, <1>12, <1>13, OneFile

\* The last line of the log is completed.
LEMMA EndFits == ASSUME TypeInv, FileInv, EndLine PROVE LogFits
<1>1. /\ path \in 1..path /\ path \in 1..MaxInodes /\ path \in Nat /\ path \in 0..MaxInodes
      /\ written \in 0..MaxLines /\ written \in Nat
  BY BoundAssumption DEF TypeInv, EndLine
<1>2. PICK f, g : f = inode[path] /\ g = [f EXCEPT !.part = FALSE]
  OBVIOUS
<1>3. f \in File /\ WellWritten(f) /\ (f.lines = <<>> => ~f.part)
  BY <1>1, <1>2, OpenFacts
<1>4. g \in File /\ g.lines = f.lines /\ ~g.part /\ g.mtime = f.mtime
  BY <1>2, <1>3 DEF File
<1>5. UNCHANGED <<path, written, db, price, sync, refresh, raced>>
  BY DEF EndLine
<1>6. inode' = [inode EXCEPT ![path] = g]
  BY <1>2 DEF EndLine
<1>7. Extends(f, g)
  <2>1. Len(f.lines) \in Nat /\ Complete(f) \in 0..Len(f.lines) /\ Complete(g) = Len(f.lines)
    BY <1>3, <1>4, FileFacts DEF Complete
  <2> QED BY <1>4, <2>1 DEF Extends
<1>8. WellWritten(g)'
  <2>1. source' = source
    BY <1>5 DEF db
  <2> QED BY <1>3, <1>4, <1>5, <2>1 DEF WellWritten, LastStart
<1>9. raced \subseteq raced' /\ raced' \subseteq {"clear", "truncate"}
  BY <1>5 DEF TypeInv
<1>10. /\ path' \in 0..MaxInodes /\ written' \in 0..MaxLines /\ path <= path'
       /\ written <= written'
  BY <1>1, <1>5
<1> QED BY <1>1, <1>2, <1>4, <1>5, <1>6, <1>7, <1>8, <1>9, <1>10, OneFile

\* The log starts over in place, and what reads on in it is known to be raced.
LEMMA TruncateFits == ASSUME TypeInv, FileInv, Truncate PROVE LogFits
<1>1. /\ path \in 1..path /\ path \in 1..MaxInodes /\ path \in Nat /\ path \in 0..MaxInodes
      /\ written \in 0..MaxLines /\ written \in Nat
  BY BoundAssumption DEF TypeInv, Truncate
<1>2. PICK f, g : f = inode[path] /\ g = [lines |-> <<>>, part |-> FALSE, mtime |-> f.mtime + 1]
  OBVIOUS
<1>3. f \in File /\ f.mtime < MaxTruncations /\ f.mtime \in Nat /\ MaxTruncations \in Nat
  BY <1>1, <1>2, OpenFacts, BoundAssumption DEF File, Truncate
<1>4. g \in File /\ g.lines = <<>> /\ ~g.part /\ f.mtime < g.mtime
  <2>1. f.mtime + 1 \in 0..MaxTruncations /\ f.mtime < f.mtime + 1
    BY <1>3
  <2> QED BY <1>2, <2>1 DEF File
<1>5. UNCHANGED <<path, written, db, price, sync, refresh>>
  BY DEF Truncate
<1>6. inode' = [inode EXCEPT ![path] = g]
  BY <1>2 DEF Truncate
<1>7. Restarts(f, g)
  BY <1>4 DEF Restarts
<1>8. raced' = {} => \A i \in Instance : ReadsOn(sync[i]) => sync[i].cursor.ident # path
  <2>1. SUFFICES ASSUME NEW i \in Instance, ReadsOn(sync[i]), sync[i].cursor.ident = path
                 PROVE  raced' # {}
    OBVIOUS
  <2>2. i \in Importing
    BY <2>1 DEF Importing, ReadsOn
  <2> QED BY <2>1, <2>2 DEF Truncate
<1>9. raced \subseteq raced' /\ raced' \subseteq {"clear", "truncate"}
  BY DEF TypeInv, Truncate
<1>10. /\ path' \in 0..MaxInodes /\ written' \in 0..MaxLines /\ path <= path'
       /\ written <= written'
  BY <1>1, <1>5
<1>11. WellWritten(g)'
  <2>1. Len(g.lines) = 0 /\ written' \in Nat
    BY <1>1, <1>4, <1>5
  <2> QED BY <1>4, <2>1 DEF WellWritten
<1> QED BY <1>1, <1>2, <1>4, <1>5, <1>6, <1>7, <1>8, <1>9, <1>10, <1>11, OneFile

\* The log goes on in a copy of its beginning; the old file stays what it is.
LEMMA RotateFits == ASSUME TypeInv, FileInv, Rotate PROVE LogFits
<1> DEFINE n == path + 1
<1>1. /\ path \in 1..path /\ path \in 1..MaxInodes /\ path \in Nat /\ path' = n
      /\ n \in 1..MaxInodes /\ n \in Nat /\ path < n /\ MaxInodes \in Nat
      /\ written \in 0..MaxLines /\ written \in Nat
      /\ UNCHANGED <<written, db, price, sync, refresh, raced>>
  BY BoundAssumption DEF TypeInv, Rotate
<1>2. PICK k \in 0..Complete(inode[path]) :
         inode' = [inode EXCEPT ![path'].lines = SubSeq(inode[path].lines, 1, k)]
  BY Zenon DEF Rotate
<1>3. PICK f, old, g : /\ f = inode[path] /\ old = inode[n]
                       /\ g = [old EXCEPT !.lines = SubSeq(f.lines, 1, k)]
  OBVIOUS
<1> HIDE DEF n
<1>4. f \in File /\ WellWritten(f) /\ (f.lines = <<>> => ~f.part)
  BY <1>1, <1>3, OpenFacts
<1>5. old \in File /\ ~old.part
  <2>1. old \in File /\ WellWritten(old) /\ old.lines = <<>>
    BY <1>1, <1>3 DEF TypeInv, FileInv
  <2> QED BY <2>1 DEF WellWritten
<1>6. /\ k \in 0..Len(f.lines) /\ f.lines \in Seq(Line) /\ Len(f.lines) \in Nat
  <2>1. Complete(f) \in 0..Len(f.lines) /\ f.lines \in Seq(Line) /\ Len(f.lines) \in Nat
    BY <1>4, FileFacts
  <2> QED BY <1>2, <1>3, <2>1
<1>7. /\ SubSeq(f.lines, 1, k) \in Seq(Line) /\ Len(SubSeq(f.lines, 1, k)) = k
      /\ \A m \in 1..k : SubSeq(f.lines, 1, k)[m] = f.lines[m] /\ m \in 1..Len(f.lines)
  BY <1>6
<1>8. g \in File /\ g.lines = SubSeq(f.lines, 1, k) /\ ~g.part
  BY <1>3, <1>5, <1>7 DEF File
<1>9. inode' = [inode EXCEPT ![n] = g]
  BY <1>1, <1>2, <1>3
<1>10. WellWritten(g)'
  <2>1. source' = source /\ written' = written
    BY <1>1 DEF db
  <2>2. Len(g.lines) = k /\ k <= Len(f.lines) /\ k \in Nat
        /\ \A m \in 1..k : g.lines[m] = f.lines[m] /\ m \in 1..Len(f.lines)
    BY <1>6, <1>7, <1>8
  <2>3. Len(g.lines) <= written
    BY <1>1, <1>4, <1>6, <2>2 DEF WellWritten
  <2>4. ASSUME NEW m \in 1..k, NEW j \in 1..k, LastStart(g, j, m - 1) PROVE LastStart(f, j, m - 1)
    <3>1. \A o \in 1..(m - 1) : o \in 1..k
      BY <2>2, <2>4
    <3> QED BY <2>2, <2>4, <3>1 DEF LastStart
  <2> QED BY <1>4, <1>8, <2>1, <2>2, <2>3, <2>4 DEF WellWritten, LastStart
<1>11. raced \subseteq raced' /\ raced' \subseteq {"clear", "truncate"}
  BY <1>1 DEF TypeInv
<1>12. /\ path' \in 0..MaxInodes /\ written' \in 0..MaxLines /\ path <= path'
       /\ written <= written' /\ n <= path'
  BY <1>1
<1> QED BY <1>1, <1>8, <1>9, <1>10, <1>11, <1>12, OneFile

-----------------------------------------------------------------------------
(***************************************************************************)
(* What any step is.                                                       *)
(***************************************************************************)
\* What the price refreshes are after a step, and the source.
RefreshFits == /\ refresh' \in [Instance -> Pricing]
               /\ \A i \in Instance : \A o \in refresh'[i].rows : o.price = None
SourceFits  == source' \in Source /\ source'.kind = source.kind

\* A step of an import that leaves the database alone.
ImportsOn(i) == /\ Imports(i) /\ UNCHANGED <<log, rec, cursor, raced>>
             /\ SourceFits /\ RefreshFits

\* A step that commits.
Commits(i) ==
    /\ sync[i].at = "commit" /\ Replaces /\ cursor' = sync[i].cursor
    /\ \A x \in Id : rec'[x] = rec[x] \/ rec'[x] \in sync[i].batch
    /\ \A r \in sync[i].batch : rec'[r.id] # None /\ rec'[r.id].fin >= r.fin
    /\ \E t \in Import : /\ Update(i, t) /\ t.cursor = sync[i].cursor /\ t.batch = {}
                         /\ t.last = sync[i].last
                         /\ t.at = IF sync[i].last THEN "finish" ELSE "read"
    /\ UNCHANGED <<log, source, refresh, raced>>

\* A step that changes no more of what was imported than its prices.
Prices == /\ UNCHANGED <<log, cursor, raced, sync>> /\ SourceFits /\ RefreshFits /\ Replaces
          /\ \A x \in Id : rec[x] = None => rec'[x] = None
          /\ \A x \in Id : rec[x] # None => rec'[x].of = rec[x].of

\* Another instance's refresh goes on as it was.
LEMMA OneRefresh ==
    ASSUME TypeInv, RecordInv, NEW i \in Instance, NEW r \in Pricing, Refresh(i, r),
           \A o \in r.rows : o.price = None
    PROVE  RefreshFits
BY DEF TypeInv, RecordInv, Refresh, RefreshFits

\* What is to be priced is what it was.
LEMMA SameRefresh == ASSUME TypeInv, RecordInv, UNCHANGED refresh PROVE RefreshFits
BY DEF TypeInv, RecordInv, RefreshFits

\* Every step of an instance is of one of four kinds.
LEMMA InstanceSteps ==
    ASSUME IInv, NEW i \in Instance,
           \/ Begin(i) \/ Unlisted(i) \/ Inspect(i) \/ ReadLine(i) \/ Persist(i) \/ Commit(i)
           \/ Finish(i) \/ Stop(i) \/ SetEnabled(i) \/ Clear(i)
           \/ Fetch(i) \/ SaveCatalog(i) \/ Select(i) \/ Bind(i) \/ Crash(i)
    PROVE  ImportsOn(i) \/ Commits(i) \/ Clear(i) \/ Prices
<1>1. TypeInv /\ RecordInv /\ source \in Source /\ refresh[i] \in Pricing
      /\ source.kind \in {"sessions", "spans"}
  BY DEF IInv, TypeInv, Source
<1>2. UNCHANGED refresh => RefreshFits
  BY <1>1, SameRefresh
<1>3. UNCHANGED source => SourceFits
  BY <1>1 DEF SourceFits
<1>4. UNCHANGED rec => /\ Replaces
                       /\ \A x \in Id : rec[x] = None => rec'[x] = None
                       /\ \A x \in Id : rec[x] # None => rec'[x].of = rec[x].of
  BY <1>1, NothingReplaced
<1>5. CASE Begin(i) \/ Unlisted(i) \/ Inspect(i) \/ ReadLine(i) \/ Persist(i) \/ Stop(i)
  <2>1. Imports(i)
    BY <1>5, BeginImports, UnlistedImports, InspectImports, ReadImports, PersistImports,
       StopImports
  <2>2. UNCHANGED <<log, db, refresh, raced>>
    BY <1>5 DEF Begin, Unlisted, Inspect, ReadLine, Persist, Stop
  <2> QED BY <1>2, <1>3, <2>1, <2>2 DEF ImportsOn, db
<1>6. CASE Commit(i)
  <2>1. UNCHANGED <<log, source, refresh, raced>> /\ sync[i].at = "commit"
    BY <1>6 DEF Commit
  <2> QED BY <1>1, <1>2, <1>3, <1>6, <2>1, CommitFacts DEF ImportsOn, Commits
<1>7. CASE Finish(i)
  <2>1. Imports(i)
    BY <1>7, RestImports
  <2>2. Outcome(i) \in DataStatus
    BY DEF Outcome, Imported, DataStatus
  <2>3. source' = [source EXCEPT !.status = Outcome(i), !.scanned = TRUE]
    BY <1>7 DEF Finish
  <2>4. SourceFits
    <3> DEFINE s1 == [source EXCEPT !.status = Outcome(i)]
    <3>1. s1 \in Source /\ s1.kind = source.kind
      BY <1>1, <2>2 DEF Source
    <3>2. source' = [s1 EXCEPT !.scanned = TRUE]
      BY <2>3
    <3> HIDE DEF s1
    <3> QED BY <3>1, <3>2 DEF SourceFits, Source
  <2> QED BY <1>2, <1>7, <2>1, <2>4 DEF ImportsOn, Finish
<1>8. CASE SetEnabled(i)
  <2>1. \/ source' = [source EXCEPT !.enabled = TRUE, !.status = "unavailable"]
        \/ source' = [source EXCEPT !.enabled = FALSE, !.status = "disabled"]
    BY <1>8 DEF SetEnabled
  <2>2. SourceFits
    BY <1>1, <2>1 DEF SourceFits, Source, DataStatus
  <2> QED BY <1>2, <1>4, <1>8, <2>2 DEF SetEnabled, Prices
<1>9. CASE Fetch(i)
  <2>1. PICK c \in Catalog :
           Refresh(i, [NoRefresh EXCEPT !.at = "save", !.catalog = c, !.time = clock'])
    BY <1>9 DEF Fetch
  <2>2. clock' \in Nat
    <3>1. clock \in Nat /\ clock' = clock + 1
      BY <1>1, <1>9 DEF Fetch, TypeInv
    <3> QED BY <3>1
  <2> DEFINE r == [NoRefresh EXCEPT !.at = "save", !.catalog = c, !.time = clock']
  <2>3. r \in Pricing /\ r.rows = {}
    BY <2>2 DEF NoRefresh, Pricing
  <2> HIDE DEF r
  <2>4. RefreshFits
    <3>1. Refresh(i, r)
      BY <2>1 DEF r
    <3> QED BY <1>1, <2>3, <3>1, OneRefresh
  <2> QED BY <1>3, <1>4, <1>9, <2>4 DEF Fetch, Prices, db
<1>10. CASE SaveCatalog(i)
  <2>1. PICK r : r \in {[NoRefresh EXCEPT !.at = "select"], NoRefresh} /\ Refresh(i, r)
    BY <1>10 DEF SaveCatalog
  <2>2. r \in Pricing /\ r.rows = {}
    BY <2>1 DEF NoRefresh, Pricing
  <2>3. RefreshFits
    BY <1>1, <2>1, <2>2, OneRefresh
  <2> QED BY <1>3, <1>4, <1>10, <2>3 DEF SaveCatalog, Prices, db
<1>11. CASE Select(i)
  <2> DEFINE free == {o \in StoredObs : o.price = None}
             r1 == [refresh[i] EXCEPT !.at = "bind"]
             r2 == [r1 EXCEPT !.catalog = current.id]
             r3 == [r2 EXCEPT !.rows = free]
  <2>1. free \subseteq Obs /\ \A o \in free : o.price = None
    BY <1>1 DEF StoredObs, TypeInv
  <2>2. current.id \in Catalog \cup {None}
    BY <1>1 DEF TypeInv
  <2> HIDE DEF free
  <2>3. r1 \in Pricing
    BY <1>1 DEF Pricing
  <2>4. r2 \in Pricing
    <3> HIDE DEF r1
    <3> QED BY <2>2, <2>3 DEF Pricing
  <2>5. r3 \in Pricing /\ r3.rows = free
    <3> HIDE DEF r2
    <3> QED BY <2>1, <2>4 DEF Pricing
  <2>6. Refresh(i, r3)
    BY <1>11 DEF Select, Refresh, free
  <2> HIDE DEF r3
  <2>7. RefreshFits
    BY <1>1, <2>1, <2>5, <2>6, OneRefresh
  <2> QED BY <1>3, <1>4, <1>11, <2>7 DEF Select, Prices, db
<1>12. CASE Bind(i)
  <2>1. PICK r \in Pricing : Refresh(i, r) /\ r.rows \subseteq refresh[i].rows
    BY <1>1, <1>12, BindFacts
  <2>2. RefreshFits
    BY <1>1, <2>1, OneRefresh DEF RecordInv
  <2>3. UNCHANGED <<log, cursor, source, sync, raced>>
    BY <1>12 DEF Bind
  <2> QED BY <1>1, <1>3, <1>12, <2>2, <2>3, BindFacts DEF Prices
<1>13. CASE Crash(i)
  <2>1. Imports(i)
    BY <1>13, RestImports
  <2>2. RefreshFits
    <3>1. Refresh(i, NoRefresh)
      BY <1>13 DEF Crash
    <3> QED BY <1>1, <3>1, IdleFacts, OneRefresh
  <2> QED BY <1>3, <1>13, <2>1, <2>2 DEF ImportsOn, Crash, db
<1> QED BY <1>5, <1>6, <1>7, <1>8, <1>9, <1>10, <1>11, <1>12, <1>13

\* Every step of the program is one of its instances', of the log's or of none.
LEMMA StepKinds ==
    ASSUME IInv, [Next]_vars
    PROVE  \/ LogFits \/ Prices
           \/ \E i \in Instance : ImportsOn(i) \/ Commits(i) \/ Clear(i)
<1>1. TypeInv /\ FileInv /\ RecordInv
  BY DEF IInv
<1>2. CASE WriteLine \/ EndLine \/ Truncate \/ Rotate
  BY <1>1, <1>2, WriteFits, EndFits, TruncateFits, RotateFits
<1>3. CASE UNCHANGED vars
  <2>1. UNCHANGED <<log, rec, cursor, source, raced, sync, refresh>>
    BY <1>3 DEF vars, db
  <2>2. SourceFits /\ RefreshFits /\ Replaces
    BY <1>1, <2>1, SameRefresh, NothingReplaced DEF SourceFits, TypeInv
  <2> QED BY <2>1, <2>2 DEF Prices
<1>4. CASE Next /\ ~(WriteLine \/ EndLine \/ Truncate \/ Rotate)
  <2>1. PICK i \in Instance :
           \/ Begin(i) \/ Unlisted(i) \/ Inspect(i) \/ ReadLine(i) \/ Persist(i) \/ Commit(i)
           \/ Finish(i) \/ Stop(i) \/ SetEnabled(i) \/ Clear(i)
           \/ Fetch(i) \/ SaveCatalog(i) \/ Select(i) \/ Bind(i) \/ Crash(i)
    BY <1>4 DEF Next
  <2> QED BY <2>1, InstanceSteps
<1> QED BY <1>2, <1>3, <1>4

-----------------------------------------------------------------------------
(***************************************************************************)
(* The invariant holds of what every step leaves behind.                   *)
(***************************************************************************)
\* The catalogs, the clock and what is left of each bound.
LEMMA RestTypes ==
    ASSUME TypeInv, [Next]_vars
    PROVE  /\ current' \in [id : Catalog \cup {None}, time : Nat] /\ clock' \in Nat
           /\ budget' \in [{"sync", "refresh", "mishap"} -> Nat]
<1> DEFINE Rest == /\ current' \in [id : Catalog \cup {None}, time : Nat] /\ clock' \in Nat
                   /\ budget' \in [{"sync", "refresh", "mishap"} -> Nat]
<1>1. current \in [id : Catalog \cup {None}, time : Nat] /\ clock \in Nat
      /\ budget \in [{"sync", "refresh", "mishap"} -> Nat]
  BY DEF TypeInv
<1> DEFINE Spent == budget' = budget \/ Mishap \/ Works \/ Spend("sync") \/ Spend("refresh")
<1>2. UNCHANGED price /\ Spent => Rest
  BY <1>1, BudgetFacts DEF price
<1>3. CASE WriteLine \/ EndLine \/ Truncate \/ Rotate \/ UNCHANGED vars
  <2>1. UNCHANGED price /\ Spent
    BY <1>3 DEF WriteLine, EndLine, Truncate, Rotate, vars
  <2> QED BY <1>2, <2>1
<1>4. ASSUME NEW i \in Instance,
             \/ Begin(i) \/ Unlisted(i) \/ Inspect(i) \/ ReadLine(i) \/ Persist(i)
             \/ Commit(i) \/ Finish(i) \/ Stop(i) \/ SetEnabled(i) \/ Clear(i)
             \/ Select(i) \/ Bind(i) \/ Crash(i)
      PROVE  Rest
  <2>1. UNCHANGED price
    BY <1>4 DEF Begin, Unlisted, Inspect, ReadLine, Persist, Commit, Finish, Stop, SetEnabled,
       Clear, Select, Bind, Crash
  <2>2. Spent
    BY <1>4 DEF Begin, Unlisted, Inspect, ReadLine, Persist, Commit, Finish, Stop, SetEnabled,
       Clear, Select, Bind, Crash
  <2> QED BY <1>2, <2>1, <2>2
<1>5. ASSUME NEW i \in Instance, Fetch(i) PROVE Rest
  <2>1. clock' = clock + 1 /\ UNCHANGED current /\ Spend("refresh")
    BY <1>5 DEF Fetch
  <2> QED BY <1>1, <2>1, BudgetFacts
<1>6. ASSUME NEW i \in Instance, SaveCatalog(i) PROVE Rest
  <2>1. UNCHANGED clock /\ (Works \/ Mishap)
        /\ (current' = current
            \/ current' = [id |-> refresh[i].catalog, time |-> refresh[i].time])
    BY <1>6 DEF SaveCatalog
  <2>2. refresh[i].catalog \in Catalog \cup {None} /\ refresh[i].time \in Nat
    BY DEF TypeInv, Pricing
  <2> QED BY <1>1, <2>1, <2>2, BudgetFacts
<1> QED BY <1>3, <1>4, <1>5, <1>6 DEF Next

\* A cleared source.
LEMMA ClearFacts ==
    ASSUME IInv, NEW i \in Instance, Clear(i)
    PROVE  /\ rec' = [x \in Id |-> None] /\ cursor' = NoCursor /\ SourceFits /\ RefreshFits
           /\ UNCHANGED <<log, sync, refresh>> /\ raced' \subseteq {"clear", "truncate"}
           /\ raced' = {} => raced = {} /\ \A j \in Instance : sync[j].at = "idle"
<1>1. TypeInv /\ RecordInv /\ source \in Source
  BY DEF IInv, TypeInv
<1>2. source' = [source EXCEPT !.enabled = FALSE, !.status = "disabled", !.scanned = FALSE]
  BY DEF Clear
<1>3. SourceFits
  <2> DEFINE s1 == [source EXCEPT !.enabled = FALSE]
             s2 == [s1 EXCEPT !.status = "disabled"]
             s3 == [s2 EXCEPT !.scanned = FALSE]
  <2>1. s1 \in Source /\ s1.kind = source.kind
    BY <1>1 DEF Source
  <2>2. s2 \in Source /\ s2.kind = source.kind
    <3> HIDE DEF s1
    <3> QED BY <2>1 DEF Source, DataStatus
  <2>3. s3 \in Source /\ s3.kind = source.kind
    <3> HIDE DEF s2
    <3> QED BY <2>2 DEF Source
  <2>4. source' = s3
    BY <1>2
  <2> HIDE DEF s3
  <2> QED BY <2>3, <2>4 DEF SourceFits
<1>4. RefreshFits
  BY <1>1, SameRefresh DEF Clear
<1>5. raced' = IF Importing # {} THEN raced \cup {"clear"} ELSE raced
  BY DEF Clear
<1>6. raced' = {} => raced = {} /\ \A j \in Instance : sync[j].at = "idle"
  BY <1>5 DEF Importing
<1>7. raced' \subseteq {"clear", "truncate"}
  BY <1>1, <1>5 DEF TypeInv
<1> QED BY <1>3, <1>4, <1>6, <1>7 DEF Clear

\* Every step keeps the types.
LEMMA TypeStep == ASSUME IInv, [Next]_vars PROVE TypeInv'
<1>1. TypeInv
  BY DEF IInv
<1>2. /\ current' \in [id : Catalog \cup {None}, time : Nat] /\ clock' \in Nat
      /\ budget' \in [{"sync", "refresh", "mishap"} -> Nat]
  BY <1>1, RestTypes
<1>3. CASE LogFits
  BY <1>1, <1>2, <1>3 DEF LogFits, TypeInv, db
<1>4. UNCHANGED log => inode' \in [1..MaxInodes -> File] /\ path' \in 0..MaxInodes
                       /\ written' \in 0..MaxLines
  BY <1>1 DEF TypeInv, log
<1>5. SourceFits /\ RefreshFits => source' \in Source /\ refresh' \in [Instance -> Pricing]
  BY DEF SourceFits, RefreshFits
<1>6. CASE Prices
  BY <1>1, <1>2, <1>4, <1>5, <1>6 DEF Prices, Replaces, TypeInv
<1>7. ASSUME NEW i \in Instance, ImportsOn(i) PROVE TypeInv'
  <2>1. PICK s : s \in Import /\ Update(i, s)
    BY <1>7 DEF ImportsOn, Imports, Fits
  <2>2. sync' \in [Instance -> Import]
    BY <1>1, <2>1 DEF Update, TypeInv
  <2> QED BY <1>1, <1>2, <1>4, <1>5, <1>7, <2>2 DEF ImportsOn, TypeInv
<1>8. ASSUME NEW i \in Instance, Commits(i) PROVE TypeInv'
  <2>1. PICK t \in Import : Update(i, t)
    BY <1>8 DEF Commits
  <2>2. sync' \in [Instance -> Import]
    BY <1>1, <2>1 DEF Update, TypeInv
  <2>3. cursor' \in Cursor
    <3>1. sync[i] \in Import /\ cursor' = sync[i].cursor
      BY <1>1, <1>8 DEF TypeInv, Commits
    <3> QED BY <3>1 DEF Import
  <2>4. rec' \in [Id -> Obs \cup {None}] /\ UNCHANGED <<log, source, refresh, raced>>
    BY <1>8 DEF Commits, Replaces
  <2> QED BY <1>1, <1>2, <1>4, <2>2, <2>3, <2>4 DEF TypeInv
<1>9. ASSUME NEW i \in Instance, Clear(i) PROVE TypeInv'
  <2>1. rec' \in [Id -> Obs \cup {None}] /\ cursor' \in Cursor
    BY <1>9, ClearFacts, IdleFacts
  <2>2. /\ SourceFits /\ RefreshFits /\ UNCHANGED <<log, sync>>
        /\ raced' \subseteq {"clear", "truncate"}
    BY <1>9, ClearFacts
  <2> QED BY <1>1, <1>2, <1>4, <1>5, <2>1, <2>2 DEF TypeInv
<1> QED BY <1>3, <1>6, <1>7, <1>8, <1>9, StepKinds

\* Every step keeps the files as the other program writes them.
LEMMA FileStep == ASSUME IInv, [Next]_vars PROVE FileInv'
<1>1. TypeInv /\ FileInv
  BY DEF IInv
<1>2. ASSUME UNCHANGED log, source'.kind = source.kind PROVE FileInv'
  <2>1. UNCHANGED <<inode, path, written>>
    BY <1>2 DEF log
  <2>2. \A f : WellWritten(f) => WellWritten(f)'
    BY <1>2, <2>1 DEF WellWritten, LastStart
  <2>3. ASSUME NEW n \in 1..MaxInodes
        PROVE  WellWritten(inode[n])' /\ (n > path => inode[n].lines = <<>>)'
    <3>1. PICK f : f = inode[n]
      OBVIOUS
    <3>2. WellWritten(f)' /\ f = inode'[n]
      BY <1>1, <2>1, <2>2, <3>1 DEF FileInv
    <3>3. WellWritten(inode[n])'
      BY <3>2 DEF WellWritten, LastStart
    <3> QED BY <1>1, <2>1, <3>3 DEF FileInv
  <2> QED BY <2>3 DEF FileInv
<1>3. CASE LogFits
  BY <1>3 DEF LogFits
<1>4. CASE ~LogFits
  <2>1. UNCHANGED log /\ source'.kind = source.kind
    BY <1>4, StepKinds, ClearFacts DEF ImportsOn, Commits, Prices, SourceFits
  <2> QED BY <1>2, <2>1
<1> QED BY <1>3, <1>4

\* Every record keeps its identifier, and what is to be priced has no price.
LEMMA RecordStep == ASSUME IInv, [Next]_vars PROVE RecordInv'
<1>1. TypeInv /\ RecordInv
  BY DEF IInv
<1> DEFINE Own == \A x \in Id : rec'[x] # None => rec'[x].id = x
<1>2. Own /\ RefreshFits => RecordInv'
  BY DEF RecordInv, RefreshFits
<1>3. UNCHANGED rec => Own
  BY <1>1 DEF RecordInv
<1>4. UNCHANGED refresh => RefreshFits
  BY <1>1, SameRefresh
<1>5. CASE LogFits
  BY <1>2, <1>3, <1>4, <1>5 DEF LogFits, db
<1>6. CASE Prices
  BY <1>2, <1>6 DEF Prices, Replaces
<1>7. ASSUME NEW i \in Instance, ImportsOn(i) PROVE RecordInv'
  BY <1>2, <1>3, <1>7 DEF ImportsOn
<1>8. ASSUME NEW i \in Instance, Commits(i) PROVE RecordInv'
  BY <1>2, <1>4, <1>8 DEF Commits, Replaces
<1>9. ASSUME NEW i \in Instance, Clear(i) PROVE RecordInv'
  <2>1. Own
    BY <1>9, ClearFacts
  <2> QED BY <1>2, <1>9, <2>1, ClearFacts
<1> QED BY <1>5, <1>6, <1>7, <1>8, <1>9, StepKinds

\* Everything evolves but when the source is cleared.
LEMMA EvolvesStep ==
    ASSUME IInv, [Next]_vars, \A i \in Instance : ~Clear(i)
    PROVE  Evolves
<1>1. TypeInv /\ RecordInv
  BY DEF IInv
<1>2. UNCHANGED rec => Grows
  BY <1>1, NothingReplaced DEF Replaces
<1>3. CASE LogFits
  BY <1>3 DEF LogFits
<1>4. CASE ~LogFits
  <2>1. UNCHANGED <<log, raced>> /\ source'.kind = source.kind /\ Grows
    BY <1>2, <1>4, StepKinds DEF ImportsOn, Commits, Prices, SourceFits, Replaces
  <2> QED BY <1>1, <2>1, StillEvolves
<1> QED BY <1>3, <1>4

\* What an import reads goes on existing.
LEMMA OpenStep == ASSUME IInv, [Next]_vars PROVE OpenInv'
<1>1. TypeInv /\ OpenInv
  BY DEF IInv
<1>2. path' \in Nat /\ path \in Nat /\ path <= path'
  <2>1. path \in Nat /\ path' \in Nat
    BY TypeStep, BoundAssumption DEF IInv, TypeInv
  <2>2. path <= path'
    <3>1. CASE \A i \in Instance : ~Clear(i)
      BY <3>1, EvolvesStep DEF Evolves
    <3>2. CASE \E i \in Instance : Clear(i)
      BY <2>1, <3>2 DEF Clear, log
    <3> QED BY <3>1, <3>2
  <2> QED BY <2>1, <2>2
<1>3. ASSUME NEW s, OpenAt(s) PROVE OpenAt(s)'
  BY <1>2, <1>3 DEF OpenAt
<1>4. ASSUME NEW i \in Instance, NEW t, OpenAt(t), Update(i, t) PROVE OpenInv'
  <2>1. \A j \in Instance : sync'[j] = IF j = i THEN t ELSE sync[j]
    BY <1>1, <1>4 DEF Update, TypeInv
  <2>2. \A j \in Instance : OpenAt(sync'[j])
    BY <1>1, <1>4, <2>1 DEF OpenInv
  <2>3. ASSUME NEW j \in Instance PROVE OpenAt(sync[j])'
    <3>1. PICK u : u = sync'[j]
      OBVIOUS
    <3>2. OpenAt(u)'
      BY <1>3, <2>2, <3>1
    <3> QED BY <3>1, <3>2 DEF OpenAt
  <2> QED BY <2>3 DEF OpenInv
<1>5. CASE UNCHANGED sync
  <2>1. ASSUME NEW j \in Instance PROVE OpenAt(sync[j])'
    <3>1. PICK u : u = sync[j]
      OBVIOUS
    <3>2. OpenAt(u)'
      BY <1>1, <1>3, <3>1 DEF OpenInv
    <3> QED BY <1>5, <3>1, <3>2 DEF OpenAt
  <2> QED BY <2>1 DEF OpenInv
<1>6. ASSUME NEW i \in Instance, ImportsOn(i) PROVE OpenInv'
  BY <1>4, <1>6 DEF ImportsOn, Imports, Fits
<1>7. ASSUME NEW i \in Instance, Commits(i) PROVE OpenInv'
  <2>1. PICK t \in Import : /\ Update(i, t) /\ t.cursor = sync[i].cursor
                            /\ t.at = IF sync[i].last THEN "finish" ELSE "read"
    BY <1>7 DEF Commits
  <2>2. OpenAt(t)
    BY <1>1, <1>7, <2>1 DEF Commits, OpenInv, OpenAt
  <2> QED BY <1>4, <2>1, <2>2
<1>8. UNCHANGED sync \/ \E i \in Instance : ImportsOn(i) \/ Commits(i)
  BY StepKinds DEF LogFits, Prices, Clear
<1> QED BY <1>5, <1>6, <1>7, <1>8

\* What was in a batch is stored once the batch is committed.
LEMMA CommitNotes ==
    ASSUME IInv, TypeInv', NEW i \in Instance, Commits(i),
           NEW line \in Line, Noted(line, sync[i].batch)
    PROVE  Noted(line, {})'
<1>1. TypeInv /\ Grows
  BY DEF IInv, Commits, Replaces
<1>2. CASE Noted(line, {})
  BY <1>1, <1>2, NotedKept
<1>3. CASE \E r \in sync[i].batch : r.id = line.id /\ r.fin >= line.fin
  <2>1. PICK r \in sync[i].batch : r.id = line.id /\ r.fin >= line.fin
    BY <1>3
  <2>2. rec'[line.id] # None /\ rec'[line.id].fin >= r.fin
    BY <2>1 DEF Commits
  <2>3. line.id \in Id /\ line.fin \in Nat /\ r.fin \in Nat
    <3>1. r \in Obs
      BY <1>1 DEF TypeInv, Import
    <3> QED BY <3>1 DEF Obs, Line
  <2>4. rec'[line.id].fin \in Nat
    BY <2>2, <2>3 DEF TypeInv, Obs
  <2> QED BY <2>1, <2>2, <2>3, <2>4 DEF Noted
<1> QED BY <1>2, <1>3 DEF Noted

\* A cursor that follows the log with a batch, follows it without once it is committed.
LEMMA CommitFollows ==
    ASSUME IInv, TypeInv', NEW i \in Instance, Commits(i), NEW f \in File, WellWritten(f),
           NEW c \in Cursor, Follows(c, f, sync[i].batch)
    PROVE  Follows(c, f, {})'
<1>1. source' = source
  BY DEF Commits
<1>2. \A k \in 1..c.offset : Noted(f.lines[k], {})'
  <2>1. c.offset \in Nat /\ c.offset <= Complete(f) /\ Complete(f) \in 0..Len(f.lines)
        /\ Len(f.lines) \in Nat
    BY FileFacts DEF Follows, Covers, Cursor, WellWritten
  <2>2. TAKE k \in 1..c.offset
  <2>3. k \in 1..Len(f.lines)
    BY <2>1
  <2>4. f.lines[k] \in Line /\ Noted(f.lines[k], sync[i].batch)
    BY <2>3, FileFacts DEF Follows, Covers, WellWritten
  <2> QED BY <2>4, CommitNotes
<1> QED BY <1>1, <1>2 DEF Follows, Covers, InSession, LastStart

\* The import of an instance of which nothing happens is as right as it was.
LEMMA OthersStep ==
    ASSUME IInv, [Next]_vars, raced' = {}, Evolves, NEW j \in Instance
    PROVE  ImportAt(sync[j]) => \A s : s = sync[j] => ImportAt(s)'
<1>1. TypeInv /\ TypeInv' /\ FileInv /\ OpenAt(sync[j]) /\ sync[j] \in Import
  BY TypeStep DEF IInv, OpenInv, TypeInv
<1>2. ASSUME ReadsOn(sync[j])
      PROVE  Extends(inode[sync[j].cursor.ident], inode'[sync[j].cursor.ident])
  <2>1. sync[j].cursor.ident \in 1..path
    BY <1>1, <1>2 DEF OpenAt, ReadsOn
  <2> QED BY <1>2, <2>1 DEF Evolves
<1>3. ASSUME ImportAt(sync[j]), NEW s, s = sync[j] PROVE ImportAt(s)'
  BY <1>1, <1>2, <1>3, ImportKept
<1> QED BY <1>3

\* The stored cursor and those of the running imports remain right: a commit takes over
\* what its import took notice of, and every other step leaves cursors right.
LEMMA ImportStep == ASSUME IInv, [Next]_vars PROVE ImportInv'
<1> SUFFICES ASSUME raced' = {} PROVE CursorInv' /\ \A j \in Instance : ImportAt(sync[j])'
  BY DEF ImportInv
<1>1. TypeInv /\ TypeInv' /\ FileInv
  BY TypeStep DEF IInv
<1>2. CASE \E i \in Instance : Clear(i)
  <2>1. /\ cursor' = NoCursor /\ sync' = sync /\ \A j \in Instance : sync[j].at = "idle"
    BY <1>2, ClearFacts
  <2>2. CursorInv'
    BY <2>1, IdleFacts DEF CursorInv
  <2> QED BY <2>1, <2>2 DEF ImportAt, ReadsOn
<1>3. CASE \A i \in Instance : ~Clear(i)
  <2>1. Evolves /\ raced = {}
    BY <1>3, EvolvesStep DEF Evolves
  <2>2. CursorInv /\ \A j \in Instance : ImportAt(sync[j])
    BY <2>1 DEF IInv, ImportInv
  <2>3. UNCHANGED cursor => CursorInv'
    <3>1. PICK c : c = cursor
      OBVIOUS
    <3>2. c \in Cursor /\ (c.ident # 0 => Faithful(c, {}))
      BY <1>1, <2>2, <3>1 DEF TypeInv, CursorInv
    <3>3. c.ident # 0 => Faithful(c, {})'
      BY <1>1, <2>1, <3>2, FaithfulKept
    <3>4. CASE UNCHANGED cursor
      <4>1. cursor' = c
        BY <3>1, <3>4
      <4> QED BY <3>3, <4>1 DEF CursorInv, Faithful, Headed, Follows, Outlived, Covers,
              InSession, LastStart
    <3> QED BY <3>4
  <2>4. ASSUME NEW j \in Instance, sync'[j] = sync[j] PROVE ImportAt(sync[j])'
    <3>1. \A s : s = sync[j] => ImportAt(s)'
      BY <2>1, <2>2, OthersStep
    <3>2. PICK s : s = sync[j]
      OBVIOUS
    <3> QED BY <2>4, <3>1, <3>2 DEF ImportAt, ReadsOn, Faithful, Headed, Follows, Outlived,
            Covers, InSession, LastStart
  <2>5. ASSUME NEW i \in Instance, NEW t, Update(i, t), ImportAt(t)'
        PROVE  \A j \in Instance : ImportAt(sync[j])'
    <3>1. sync'[i] = t /\ \A j \in Instance : j # i => sync'[j] = sync[j]
      BY <1>1, <2>5 DEF Update, TypeInv
    <3>2. ImportAt(sync[i])'
      BY <2>5, <3>1 DEF ImportAt, ReadsOn, Faithful, Headed, Follows, Outlived, Covers,
         InSession, LastStart
    <3> QED BY <2>4, <3>1, <3>2
  <2>6. CASE LogFits \/ Prices
    <3>1. UNCHANGED <<cursor, sync>>
      BY <2>6 DEF LogFits, Prices, db
    <3> QED BY <2>3, <2>4, <3>1
  <2>7. ASSUME NEW i \in Instance, ImportsOn(i)
        PROVE  CursorInv' /\ \A j \in Instance : ImportAt(sync[j])'
    <3>1. PICK s : Fits(s) /\ Update(i, s)
      BY <2>7 DEF ImportsOn, Imports
    <3>2. UNCHANGED <<inode, cursor>>
      BY <2>7 DEF ImportsOn, log
    <3>3. s \in Import /\ OpenAt(s) /\ ImportAt(s)
      BY <2>1, <3>1 DEF Fits
    <3>4. ASSUME ReadsOn(s)
          PROVE  Extends(inode[s.cursor.ident], inode'[s.cursor.ident])
      <4>1. s.cursor.ident \in 1..path
        BY <3>3, <3>4 DEF OpenAt, ReadsOn
      <4>2. s.cursor.ident \in 1..MaxInodes
        BY <1>1, <4>1, OpenFacts, BoundAssumption
      <4>3. inode[s.cursor.ident] \in File
        BY <1>1, <4>2 DEF TypeInv
      <4>4. \A f \in File : Extends(f, f)
        <5>1. \A f \in File : Len(f.lines) \in Nat /\ Complete(f) <= Complete(f)
          BY DEF File, Complete
        <5> QED BY <5>1 DEF Extends
      <4> QED BY <3>2, <4>3, <4>4
    <3>5. ImportAt(s)'
      BY <1>1, <2>1, <3>3, <3>4, ImportKept
    <3> QED BY <2>3, <2>5, <3>1, <3>2, <3>5
  <2>8. ASSUME NEW i \in Instance, Commits(i)
        PROVE  CursorInv' /\ \A j \in Instance : ImportAt(sync[j])'
    <3>1. PICK t \in Import : /\ Update(i, t) /\ t.cursor = sync[i].cursor /\ t.batch = {}
                              /\ t.at = IF sync[i].last THEN "finish" ELSE "read"
      BY <2>8 DEF Commits
    <3>2. PICK c, f : c = sync[i].cursor /\ f = inode[c.ident]
      OBVIOUS
    <3>3. /\ c \in Cursor /\ UNCHANGED <<inode, path, written>>
          /\ cursor' = c /\ t.cursor = c /\ Faithful(c, sync[i].batch)
          /\ ~sync[i].last => Follows(c, f, sync[i].batch)
      <4>1. c \in Cursor
        BY <1>1, <3>2 DEF TypeInv, Import
      <4>2. sync[i].at = "commit" /\ UNCHANGED <<inode, path, written>> /\ cursor' = c
        BY <2>8, <3>2 DEF Commits, log
      <4> QED BY <2>2, <3>1, <3>2, <4>1, <4>2 DEF ImportAt, ReadsOn
    <3>4. f \in File /\ WellWritten(f)
      BY <1>1, <3>2, <3>3, OpenFacts DEF Faithful
    <3>5. Follows(c, f, sync[i].batch) => Follows(c, f, {})'
      BY <1>1, <2>8, <3>3, <3>4, CommitFollows
    <3>6. CursorInv'
      <4>1. Headed(c) /\ (Follows(c, f, sync[i].batch) \/ Outlived(c, f)) /\ c.ident \in 1..path
        BY <3>2, <3>3 DEF Faithful
      <4>2. Follows(c, f, {})' \/ Outlived(c, f)
        BY <3>5, <4>1
      <4>3. f = inode'[c.ident] /\ c.ident \in 1..path' /\ cursor' = c /\ written' = written
        BY <3>2, <3>3, <4>1
      <4>4. Headed(cursor)'
        BY <4>1, <4>3 DEF Headed
      <4>5. Follows(cursor, inode[cursor.ident], {})' \/ Outlived(cursor, inode[cursor.ident])'
        BY <4>2, <4>3 DEF Follows, Covers, Outlived, InSession, LastStart
      <4> QED BY <4>3, <4>4, <4>5 DEF CursorInv, Faithful
    <3>7. ImportAt(t)'
      <4>1. CASE sync[i].last
        BY <3>1, <4>1 DEF ImportAt, ReadsOn
      <4>2. CASE ~sync[i].last
        <5>1. Follows(c, f, {})' /\ f = inode'[c.ident]
          BY <3>2, <3>3, <3>5, <4>2
        <5>2. Follows(t.cursor, inode[t.cursor.ident], t.batch)'
          BY <3>1, <3>3, <5>1 DEF Follows, Covers, InSession, LastStart
        <5> QED BY <3>1, <4>2, <5>2 DEF ImportAt
      <4> QED BY <4>1, <4>2
    <3> QED BY <2>5, <3>1, <3>6, <3>7
  <2> QED BY <1>3, <2>6, <2>7, <2>8, StepKinds
<1> QED BY <1>2, <1>3

\* Usage remains that of the session it is recorded for.
LEMMA OwnerStep == ASSUME IInv, [Next]_vars PROVE OwnerInv'
<1> SUFFICES ASSUME raced' = {}
             PROVE  /\ \A x \in Id : rec'[x] # None => rec'[x].of = x
                    /\ \A j \in Instance : OwnerAt(sync'[j])
  BY DEF OwnerInv, OwnerAt
<1>1. TypeInv /\ RecordInv
  BY DEF IInv
<1>2. raced = {}
  BY ClearFacts, EvolvesStep DEF Evolves
<1>3. /\ \A x \in Id : rec[x] # None => rec[x].of = x
      /\ \A j \in Instance : OwnerAt(sync[j])
  BY <1>2 DEF IInv, OwnerInv
<1>4. CASE LogFits \/ Prices
  <2>1. UNCHANGED sync /\ (UNCHANGED rec \/ Prices)
    BY <1>4 DEF LogFits, Prices, db
  <2> QED BY <1>3, <2>1 DEF Prices
<1>5. ASSUME NEW i \in Instance, NEW t, Update(i, t), OwnerAt(t)
      PROVE  \A j \in Instance : OwnerAt(sync'[j])
  BY <1>1, <1>3, <1>5 DEF Update, TypeInv
<1>6. CASE \E i \in Instance : ImportsOn(i)
  BY <1>2, <1>3, <1>5, <1>6 DEF ImportsOn, Imports, Fits
<1>7. ASSUME NEW i \in Instance, Commits(i)
      PROVE  /\ \A x \in Id : rec'[x] # None => rec'[x].of = x
             /\ \A j \in Instance : OwnerAt(sync'[j])
  <2>1. PICK t \in Import : Update(i, t) /\ t.batch = {}
    BY <1>7 DEF Commits
  <2>2. OwnerAt(t)
    BY <2>1 DEF OwnerAt
  <2>3. ASSUME NEW x \in Id, rec'[x] # None PROVE rec'[x].of = x
    <3>1. rec'[x].id = x
      BY <1>7, <2>3 DEF Commits, Replaces
    <3>2. rec'[x] = rec[x] \/ rec'[x] \in sync[i].batch
      BY <1>7 DEF Commits
    <3> QED BY <1>3, <2>3, <3>1, <3>2 DEF OwnerAt
  <2> QED BY <1>5, <2>1, <2>2, <2>3
<1>8. CASE \E i \in Instance : Clear(i)
  BY <1>3, <1>8, ClearFacts
<1> QED BY <1>4, <1>6, <1>7, <1>8, StepKinds

-----------------------------------------------------------------------------
\* At first there is neither log nor record.
LEMMA InitInv == ASSUME Init PROVE IInv
<1>1. /\ MaxLines \in Nat /\ MaxInodes \in Nat /\ 1 <= MaxInodes /\ MaxTruncations \in Nat
      /\ {MaxSyncs, MaxRefreshes, MaxMishaps} \subseteq Nat
  BY BoundAssumption
<1>2. path = 0 /\ written = 0 /\ raced = {} /\ cursor = NoCursor /\ clock = 0
      /\ rec = [x \in Id |-> None] /\ sync = [i \in Instance |-> NoSync]
      /\ refresh = [i \in Instance |-> NoRefresh] /\ current = [id |-> None, time |-> 0]
      /\ inode = [n \in 1..MaxInodes |-> [lines |-> <<>>, part |-> FALSE, mtime |-> 0]]
  BY DEF Init
<1>3. inode \in [1..MaxInodes -> File]
  <2>1. [lines |-> <<>>, part |-> FALSE, mtime |-> 0] \in File
    BY <1>1 DEF File
  <2> QED BY <1>2, <2>1
<1>4. source \in Source
  BY EventAssumption DEF Init, Source, DataStatus
<1>5. budget \in [{"sync", "refresh", "mishap"} -> Nat]
  BY <1>1 DEF Init
<1>6. TypeInv
  BY <1>1, <1>2, <1>3, <1>4, <1>5, IdleFacts DEF TypeInv
<1>7. FileInv
  <2>1. \A n \in 1..MaxInodes : inode[n].lines = <<>> /\ ~inode[n].part
    BY <1>2
  <2>2. Len(<<>>) = 0
    OBVIOUS
  <2> QED BY <1>2, <2>1, <2>2 DEF FileInv, WellWritten
<1>8. RecordInv
  BY <1>2, IdleFacts DEF RecordInv
<1>9. \A i \in Instance : sync[i].at = "idle" /\ sync[i].batch = {}
  BY <1>2, IdleFacts
<1>10. OpenInv /\ OwnerInv
  BY <1>2, <1>9 DEF OpenInv, OpenAt, OwnerInv, OwnerAt
<1>11. ImportInv
  BY <1>2, <1>9, IdleFacts DEF ImportInv, CursorInv, ImportAt, ReadsOn
<1> QED BY <1>6, <1>7, <1>8, <1>10, <1>11 DEF IInv

\* IInv is an invariant of the import and of the price refreshes beside it.
THEOREM Inductive == Spec => []IInv
<1>1. Init => IInv
  BY InitInv
<1>2. IInv /\ [Next]_vars => IInv'
  BY TypeStep, FileStep, RecordStep, OpenStep, ImportStep, OwnerStep DEF IInv
<1> QED BY <1>1, <1>2, PTL DEF Spec

\* Whatever fails, stops, dies or replaces the log, the cursor that the next import
\* resumes from covers only lines that were taken notice of: it still follows the log, or
\* its prefix would have told that the log is another.
THEOREM CoversHolds == Spec => []CursorCoversRecords
<1>1. ASSUME IInv PROVE CursorCoversRecords
  <2> SUFFICES ASSUME raced = {}, Resumable, NEW k \in 1..cursor.offset
               PROVE  Stored(inode[path].lines[k])
    BY DEF CursorCoversRecords, Covered
  <2>1. Covers(cursor, inode[path], {})
    BY <1>1, ResumedCovers DEF IInv, ImportInv, Resumable
  <2>2. Noted(inode[path].lines[k], {})
    BY <2>1 DEF Covers
  <2> QED BY <2>2 DEF Noted, Stored
<1> QED BY <1>1, Inductive, PTL

\* Usage is recorded for the session whose usage it is, wherever an import began.
THEOREM SessionHolds == Spec => []UsageOfItsSession
<1>1. IInv => UsageOfItsSession
  BY DEF IInv, OwnerInv, UsageOfItsSession
<1> QED BY <1>1, Inductive, PTL

\* Every step replaces what is stored by later observations that keep the price, or clears
\* the source.
LEMMA StoredStep ==
    ASSUME IInv, [Next]_vars, NEW x \in Id, rec[x] # None, rec'[x] # None
    PROVE  /\ rec'[x].fin >= rec[x].fin
           /\ rec[x].price # None => rec'[x].price = rec[x].price
<1>1. TypeInv /\ RecordInv
  BY DEF IInv
<1>2. UNCHANGED rec => Replaces
  BY <1>1, NothingReplaced
<1>3. \A i \in Instance : ~Clear(i)
  BY ClearFacts
<1>4. Replaces
  BY <1>2, <1>3, StepKinds DEF LogFits, Prices, ImportsOn, Commits, db
<1> QED BY <1>4 DEF Replaces, Grows

\* A record keeps the price it was first given, from no file, instance or price refresh.
THEOREM PriceHolds == Spec => PriceStands
<1>1. IInv /\ [Next]_vars =>
         [\A x \in Id : (rec[x] # None /\ rec[x].price # None /\ rec'[x] # None)
                           => rec'[x].price = rec[x].price]_vars
  BY StoredStep
<1> QED BY <1>1, Inductive, PTL DEF Spec, PriceStands

\* No observation is replaced by an older one.
THEOREM TotalsHold == Spec => TotalsGrow
<1>1. IInv /\ [Next]_vars =>
         [\A x \in Id : (rec[x] # None /\ rec'[x] # None) => rec'[x].fin >= rec[x].fin]_vars
  BY StoredStep
<1> QED BY <1>1, Inductive, PTL DEF Spec, TotalsGrow

-----------------------------------------------------------------------------
(***************************************************************************)
(* The jobs that import, price and ask: theorems of UsageJobs.  They follow*)
(* from the inductive invariant JobsInv.  Its heart is RowsInv: a job that *)
(* has a row works under an identifier of its own, so that no other job and*)
(* no guard writes over an outcome.                                        *)
(***************************************************************************)
Owner    == Token \cup {NoToken, Somebody}
Month    == Period \cup {CHOOSE p \in Period : TRUE}
Snapshot == [owner : Owner, family : Family, period : Month, of : Owner,
             status : Good \cup Failures, retry : Nat]
JobLabel == {"idle", "asked", "begun", "fetch", "answered", "store", "drop"}
JobState == [at : JobLabel, id : 0..MaxJobs, owner : Owner, token : Owner, rev : Nat,
             period : Month, status : Status, shots : Seq(Snapshot), stage : 0..4,
             quota : {"in-progress", "available", "unavailable", "canceled"}]

JobsTypeInv ==
    /\ busy \in [Kind -> BOOLEAN] /\ cancel \in [Kind -> BOOLEAN]
    /\ cooling \subseteq Kind /\ told \subseteq Kind
    /\ job \in [Kind -> JobState]
    /\ rows \in Seq(Row) /\ shots \in Seq(Snapshot) /\ quotas \in Seq(Status)
    /\ auth \in [who : Owner, failed : BOOLEAN, rev : Nat] /\ keyring \in Owner
    /\ now \in 0..MaxTime
    /\ left \in [job : 0..MaxJobs, incident : Nat]

\* A report that GitHub accepted is about the account it is stored for, in a job as in
\* the database.
OwnersInv ==
    /\ UsageIsOfOwner
    /\ \A n \in DOMAIN job["billing"].shots :
          LET s == job["billing"].shots[n] IN s.status \in Good => s.of = s.owner

\* A job that has a row works under an identifier of its own, and the row of a job that
\* has not settled says that it is in progress, or that another instance gave it up.
Unsettled == {"in-progress", "interrupted"}
Working(k) == job[k].at \notin {"idle", "asked"}
RowsInv ==
    /\ \A n, m \in DOMAIN rows : rows[n].id = rows[m].id => rows[n] = rows[m]
    /\ \A n \in DOMAIN rows : rows[n].id < NextId
    /\ \A k \in Kind : Working(k) =>
          /\ job[k].id \in 1..MaxJobs /\ job[k].id < NextId
          /\ \A l \in Kind : Working(l) /\ job[l].id = job[k].id => l = k
          /\ job[k].at # "drop" =>
                \A n \in DOMAIN rows : rows[n].id = job[k].id => rows[n].status \in Unsettled

\* A job that was cancelled still finds its flag raised, and has no success in hand.
Hopeless(k, j) ==
    /\ k = "billing" => j.at # "store"
    /\ k = "runtime" => /\ j.at = "fetch" /\ j.stage >= 3 => j.quota # "available"
                        /\ j.at = "answered" => j.status \notin Good
    /\ k = "local" => (j.at = "answered" => j.status \notin Good)
ToldInv == \A k \in told : cancel[k] /\ Hopeless(k, job[k])

JobsInv == JobsTypeInv /\ OwnersInv /\ RowsInv /\ ToldInv

-----------------------------------------------------------------------------
\* Of some numbers one is the least.
LEMMA LeastOf ==
    ASSUME NEW S, S \subseteq Nat, S # {}
    PROVE  \E m \in S : \A k \in S : m <= k
<1>1. PICK m \in S : \A k \in S : ~(<<k, m>> \in OpToRel(<, Nat))
  BY NatLessThanWellFounded, WFMin
<1>2. ASSUME NEW k \in S PROVE m <= k
  <2>1. m \in Nat /\ k \in Nat
    OBVIOUS
  <2>2. ~(k < m)
    BY <1>1, <2>1 DEF OpToRel
  <2> QED BY <2>1, <2>2
<1> QED BY <1>2

\* Of some positions of a sequence one is the greatest.
LEMMA GreatestOf ==
    ASSUME NEW n \in Nat, NEW S, S \subseteq 1..n, S # {}
    PROVE  \E m \in S : \A k \in S : k <= m
<1> DEFINE T == {n - k : k \in S}
<1>1. T \subseteq Nat /\ T # {}
  <2>1. \A k \in S : n - k \in Nat
    OBVIOUS
  <2> QED BY <2>1
<1>2. PICK t \in T : \A u \in T : t <= u
  <2> HIDE DEF T
  <2> QED BY <1>1, LeastOf
<1>3. PICK m \in S : t = n - m
  BY <1>2
<1>4. ASSUME NEW k \in S PROVE k <= m
  <2>1. n - k \in T /\ t \in Nat
    BY <1>1
  <2> QED BY <1>2, <1>3, <2>1
<1> QED BY <1>4

\* The members of a finite set of numbers up to one of them.
UpTo(S, o) == {q \in S : q <= o}

\* What it is to be one of them.
LEMMA UpToFacts == \A S, o, q : q \in UpTo(S, o) <=> q \in S /\ q <= o
BY DEF UpTo

\* Their number, the rank, counts up from the first member to the last.
LEMMA RankFacts ==
    ASSUME NEW n \in Nat, NEW S, S \subseteq 1..n
    PROVE  /\ IsFiniteSet(S) /\ Cardinality(S) \in Nat
           /\ \A o \in S : Rank(S, o) \in 1..Cardinality(S)
           /\ \A o, q \in S : Rank(S, o) = Rank(S, q) => o = q
           /\ \A r \in 1..Cardinality(S) : \E o \in S : Rank(S, o) = r
<1>1. IsFiniteSet(S) /\ Cardinality(S) \in Nat
  <2>1. IsFiniteSet(1..n)
    BY FS_Interval
  <2>2. IsFiniteSet(S)
    BY <2>1, FS_Subset
  <2> QED BY <2>2, FS_CardinalityType
<1>2. S \subseteq Nat
  OBVIOUS
<1>3. ASSUME NEW o \in S
      PROVE  /\ Rank(S, o) = Cardinality(UpTo(S, o))
             /\ IsFiniteSet(UpTo(S, o)) /\ Rank(S, o) \in 1..Cardinality(S)
  <2>1. UpTo(S, o) \subseteq S /\ o \in UpTo(S, o)
    BY <1>2, UpToFacts
  <2>2. IsFiniteSet(UpTo(S, o)) /\ Cardinality(UpTo(S, o)) \in Nat
    BY <1>1, <2>1, FS_Subset, FS_CardinalityType
  <2>3. Cardinality(UpTo(S, o)) # 0
    BY <2>1, <2>2, FS_EmptySet
  <2>4. Cardinality(UpTo(S, o)) <= Cardinality(S)
    BY <1>1, <2>1, FS_Subset
  <2>5. Rank(S, o) = Cardinality(UpTo(S, o))
    BY DEF Rank, UpTo
  <2> QED BY <1>1, <2>2, <2>3, <2>4, <2>5
<1>4. ASSUME NEW o \in S, NEW q \in S, o < q
      PROVE  Rank(S, o) < Rank(S, q)
  <2>1. UpTo(S, o) \subseteq UpTo(S, q) /\ q \in UpTo(S, q) /\ q \notin UpTo(S, o)
    <3>1. \A x \in S : x <= o => x <= q
      BY <1>2, <1>4
    <3>2. q <= q /\ ~(q <= o)
      BY <1>2, <1>4
    <3> QED BY <3>1, <3>2, UpToFacts
  <2>2. Cardinality(UpTo(S, o)) <= Cardinality(UpTo(S, q))
    BY <1>3, <2>1, FS_Subset
  <2>3. Cardinality(UpTo(S, o)) # Cardinality(UpTo(S, q))
    <3>1. IsFiniteSet(UpTo(S, q))
      BY <1>3
    <3>2. Cardinality(UpTo(S, q)) = Cardinality(UpTo(S, o)) => UpTo(S, q) = UpTo(S, o)
      BY <2>1, <3>1, FS_Subset
    <3> QED BY <2>1, <3>2
  <2> QED BY <1>1, <1>3, <2>2, <2>3
<1>5. \A o, q \in S : Rank(S, o) = Rank(S, q) => o = q
  <2> SUFFICES ASSUME NEW o \in S, NEW q \in S, o # q
               PROVE  Rank(S, o) # Rank(S, q)
    OBVIOUS
  <2>1. o < q \/ q < o
    BY <1>2
  <2>2. Rank(S, o) \in Nat /\ Rank(S, q) \in Nat
    BY <1>3
  <2> QED BY <1>4, <2>1, <2>2
<1> DEFINE Missing == {r \in 1..Cardinality(S) : \A o \in S : Rank(S, o) # r}
<1>6. ASSUME Missing # {} PROVE FALSE
  <2>1. PICK r \in Missing : \A k \in Missing : r <= k
    <3>1. Missing \subseteq Nat
      OBVIOUS
    <3> HIDE DEF Missing
    <3> QED BY <1>6, <3>1, LeastOf
  <2>2. r \in 1..Cardinality(S) /\ \A o \in S : Rank(S, o) # r
    BY <2>1
  <2>3. CASE r = 1
    <3>1. S # {}
      BY <1>1, <2>2, FS_EmptySet
    <3>2. PICK o \in S : \A k \in S : o <= k
      BY <1>2, <3>1, LeastOf
    <3>3. UpTo(S, o) = {o}
      <4>1. \A x \in S : x <= o <=> x = o
        BY <1>2, <3>2
      <4> QED BY <4>1, UpToFacts
    <3>4. Rank(S, o) = 1
      BY <1>3, <3>3, FS_Singleton
    <3> QED BY <2>2, <2>3, <3>4
  <2>4. CASE r > 1
    <3>1. r - 1 \notin Missing /\ r - 1 \in 1..Cardinality(S)
      <4>1. r \in Nat /\ r - 1 \in 1..Cardinality(S)
        BY <1>1, <2>2, <2>4
      <4> HIDE DEF Missing
      <4>2. r - 1 \notin Missing
        BY <2>1, <4>1
      <4> QED BY <4>1, <4>2
    <3>2. PICK o \in S : Rank(S, o) = r - 1
      BY <3>1
    <3> DEFINE Above == {q \in S : o < q}
    <3>3. Above # {}
      <4>1. ASSUME Above = {} PROVE UpTo(S, o) = S
        <5>1. \A x \in S : x <= o
          BY <1>2, <4>1
        <5>2. \A x : x \in UpTo(S, o) <=> x \in S
          BY <5>1, UpToFacts
        <5> QED BY <5>2
      <4>2. Cardinality(UpTo(S, o)) # Cardinality(S)
        BY <1>1, <1>3, <2>2, <3>2
      <4> HIDE DEF Above
      <4> QED BY <4>1, <4>2
    <3>4. PICK q \in Above : \A k \in Above : q <= k
      <4>1. Above \subseteq Nat
        BY <1>2
      <4> HIDE DEF Above
      <4> QED BY <3>3, <4>1, LeastOf
    <3>5. q \in S /\ o < q /\ \A k \in S : o < k => q <= k
      BY <3>4
    <3> HIDE DEF Above
    <3>6. UpTo(S, q) = UpTo(S, o) \cup {q} /\ q \notin UpTo(S, o)
      <4>1. \A x \in S : x <= q <=> x <= o \/ x = q
        BY <1>2, <3>5
      <4>2. ~(q <= o)
        BY <1>2, <3>5
      <4>3. \A x : x \in UpTo(S, q) <=> x \in UpTo(S, o) \/ x = q
        BY <3>5, <4>1, UpToFacts
      <4> QED BY <4>2, <4>3, UpToFacts
    <3>7. Cardinality(UpTo(S, q)) = Cardinality(UpTo(S, o)) + 1
      BY <1>3, <3>6, FS_AddElement
    <3>8. Rank(S, q) = r
      BY <1>1, <1>3, <2>2, <3>2, <3>5, <3>7
    <3> QED BY <2>2, <3>5, <3>8
  <2> QED BY <1>1, <2>2, <2>3, <2>4
<1>7. \A r \in 1..Cardinality(S) : \E o \in S : Rank(S, o) = r
  BY <1>6
<1> QED BY <1>1, <1>3, <1>5, <1>7

\* Pick keeps what is at the positions it is given, and nothing else.
LEMMA PickFacts ==
    ASSUME NEW T, NEW all \in Seq(T), NEW keep, keep \subseteq DOMAIN all
    PROVE  /\ Pick(all, keep) \in Seq(T)
           /\ \A m \in DOMAIN Pick(all, keep) : \E o \in keep :
                  Pick(all, keep)[m] = all[o]
           /\ \A o \in keep : \E m \in DOMAIN Pick(all, keep) :
                  Pick(all, keep)[m] = all[o]
<1> DEFINE c == Cardinality(keep)
           At(n) == CHOOSE o \in keep : Rank(keep, o) = n
<1>1. Len(all) \in Nat /\ keep \subseteq 1..Len(all)
  OBVIOUS
<1>2. Pick(all, keep) = [n \in 1..c |-> all[At(n)]]
  BY DEF Pick
<1>3. /\ c \in Nat
      /\ \A o \in keep : Rank(keep, o) \in 1..c
      /\ \A o, q \in keep : Rank(keep, o) = Rank(keep, q) => o = q
      /\ \A r \in 1..c : \E o \in keep : Rank(keep, o) = r
  BY <1>1, RankFacts
<1>4. ASSUME NEW n \in 1..c
      PROVE  At(n) \in keep /\ Rank(keep, At(n)) = n
  <2>1. \E o \in keep : Rank(keep, o) = n
    BY <1>3
  <2> QED BY <2>1
<1> HIDE DEF c, At
<1>5. Pick(all, keep) \in Seq(T)
  <2>1. \A n \in 1..c : all[At(n)] \in T
    BY <1>1, <1>4
  <2> QED BY <1>2, <1>3, <2>1
<1>6. DOMAIN Pick(all, keep) = 1..c
  BY <1>2
<1>7. ASSUME NEW o \in keep PROVE \E m \in 1..c : Pick(all, keep)[m] = all[o]
  <2>1. At(Rank(keep, o)) = o /\ Rank(keep, o) \in 1..c
    BY <1>3, <1>4
  <2> QED BY <1>2, <2>1
<1> QED BY <1>2, <1>4, <1>5, <1>6, <1>7

-----------------------------------------------------------------------------
(***************************************************************************)
(* The rows and the snapshots.                                             *)
(***************************************************************************)
\* Only the oldest elements are dropped.
LEMMA NewestFacts ==
    ASSUME NEW T, NEW s \in Seq(T), NEW n \in Nat \ {0}
    PROVE  /\ Newest(s, n) \in Seq(T)
           /\ \A m \in DOMAIN Newest(s, n) : \E o \in DOMAIN s : Newest(s, n)[m] = s[o]
<1>1. CASE Len(s) <= n
  BY <1>1 DEF Newest
<1>2. CASE ~(Len(s) <= n)
  <2> DEFINE a == Len(s) - n + 1
             u == SubSeq(s, a, Len(s))
  <2>1. Newest(s, n) = u
    BY <1>2 DEF Newest
  <2>2. Len(s) \in Nat /\ a \in 1..Len(s) /\ DOMAIN s = 1..Len(s)
    BY <1>2
  <2>3. u \in Seq(T) /\ Len(u) = Len(s) - a + 1 /\ \A m \in 1..Len(u) : u[m] = s[a + m - 1]
    BY <2>2
  <2>4. ASSUME NEW m \in DOMAIN u PROVE \E o \in DOMAIN s : u[m] = s[o]
    <3>1. m \in 1..Len(u)
      BY <2>3
    <3>2. a + m - 1 \in DOMAIN s /\ u[m] = s[a + m - 1]
      BY <2>2, <2>3, <3>1
    <3> QED BY <3>2
  <2> QED BY <2>1, <2>3, <2>4
<1> QED BY <1>1, <1>2

\* A saved row replaces the one of its job, or is added; no other row changes.
LEMMA SavedFacts ==
    ASSUME JobsTypeInv, NEW row \in Row
    PROVE  /\ Saved(row) \in Seq(Row)
           /\ \A m \in DOMAIN Saved(row) :
                 \/ Saved(row)[m] = row
                 \/ \E n \in DOMAIN rows : /\ rows[n].id # row.id
                                           /\ Saved(row)[m] = rows[n]
<1> DEFINE same == {n \in DOMAIN rows : rows[n].id = row.id}
           over == [n \in DOMAIN rows |-> IF n \in same THEN row ELSE rows[n]]
           all  == IF same # {} THEN over ELSE Append(rows, row)
<1>1. rows \in Seq(Row) /\ MaxRows \in Nat \ {0}
  BY JobBoundAssumption DEF JobsTypeInv
<1>2. Saved(row) = Newest(all, MaxRows)
  BY DEF Saved
<1>3. over \in Seq(Row) /\ DOMAIN over = DOMAIN rows
  <2>1. DOMAIN rows = 1..Len(rows) /\ Len(rows) \in Nat
    BY <1>1
  <2>2. \A n \in 1..Len(rows) : over[n] \in Row
    BY <1>1, <2>1
  <2> HIDE DEF same
  <2> QED BY <2>1, <2>2
<1>4. /\ all \in Seq(Row)
      /\ \A o \in DOMAIN all : \/ all[o] = row
                               \/ \E n \in DOMAIN rows : rows[n].id # row.id /\ all[o] = rows[n]
  <2>1. CASE same # {}
    <3>1. \A o \in DOMAIN rows : over[o] = row \/ (rows[o].id # row.id /\ over[o] = rows[o])
      OBVIOUS
    <3>2. all = over
      BY <2>1
    <3> HIDE DEF over, all, same
    <3> QED BY <1>3, <3>1, <3>2
  <2>2. CASE same = {}
    <3>1. \A n \in DOMAIN rows : rows[n].id # row.id
      BY <2>2
    <3>2. all = Append(rows, row)
      BY <2>2
    <3>3. /\ Append(rows, row) \in Seq(Row)
          /\ DOMAIN Append(rows, row) = 1..(Len(rows) + 1)
          /\ \A o \in 1..(Len(rows) + 1) :
                Append(rows, row)[o] = IF o <= Len(rows) THEN rows[o] ELSE row
      BY <1>1
    <3>4. \A o \in 1..(Len(rows) + 1) : o <= Len(rows) => o \in DOMAIN rows
      BY <1>1
    <3> HIDE DEF all, same
    <3> QED BY <3>1, <3>2, <3>3, <3>4
  <2> QED BY <2>1, <2>2
<1> HIDE DEF all
<1>5. /\ Newest(all, MaxRows) \in Seq(Row)
      /\ \A m \in DOMAIN Newest(all, MaxRows) :
            \E o \in DOMAIN all : Newest(all, MaxRows)[m] = all[o]
  BY <1>1, <1>4, NewestFacts
<1> QED BY <1>2, <1>4, <1>5

\* A guard changes only the row of a job in progress.
LEMMA AbandonedFacts ==
    ASSUME JobsTypeInv, NEW k \in Kind, job[k].id \in 1..MaxJobs
    PROVE  /\ Abandoned(k) \in Seq(Row) /\ DOMAIN Abandoned(k) = DOMAIN rows
           /\ \A n \in DOMAIN rows :
                 \/ Abandoned(k)[n] = rows[n]
                 \/ /\ rows[n] = RowOf(k, "in-progress")
                    /\ Abandoned(k)[n] = RowOf(k, "unavailable")
           /\ \A n \in DOMAIN rows : rows[n] = RowOf(k, "in-progress")
                                        => Abandoned(k)[n] = RowOf(k, "unavailable")
<1>1. rows \in Seq(Row) /\ DOMAIN rows = 1..Len(rows) /\ Len(rows) \in Nat
  BY DEF JobsTypeInv
<1>2. RowOf(k, "unavailable") \in Row
  BY DEF RowOf, Row, Status, Failures
<1>3. Abandoned(k) = [n \in 1..Len(rows) |->
          IF rows[n] = RowOf(k, "in-progress") THEN RowOf(k, "unavailable") ELSE rows[n]]
  BY <1>1 DEF Abandoned
<1>4. \A n \in 1..Len(rows) : Abandoned(k)[n] \in Row
  BY <1>1, <1>2, <1>3
<1> QED BY <1>1, <1>3, <1>4

\* A start changes only the rows of jobs in progress, and only their status.
LEMMA RecoveredFacts ==
    ASSUME JobsTypeInv
    PROVE  /\ Recovered \in Seq(Row) /\ DOMAIN Recovered = DOMAIN rows
           /\ \A n \in DOMAIN rows :
                 Recovered[n] = IF rows[n].status = "in-progress"
                                     THEN [rows[n] EXCEPT !.status = "interrupted"] ELSE rows[n]
           /\ \A n \in DOMAIN rows : /\ Recovered[n].id = rows[n].id
                                     /\ Recovered[n].kind = rows[n].kind
<1>1. rows \in Seq(Row) /\ DOMAIN rows = 1..Len(rows) /\ Len(rows) \in Nat
  BY DEF JobsTypeInv
<1>2. Recovered = [n \in 1..Len(rows) |->
          IF rows[n].status = "in-progress" THEN [rows[n] EXCEPT !.status = "interrupted"]
                                            ELSE rows[n]]
  BY <1>1 DEF Recovered
<1>3. ASSUME NEW n \in 1..Len(rows)
      PROVE  /\ Recovered[n] \in Row /\ Recovered[n].id = rows[n].id
             /\ Recovered[n].kind = rows[n].kind
  <2>1. rows[n] \in Row
    BY <1>1
  <2> QED BY <1>2, <2>1 DEF Row, Status
<1> QED BY <1>1, <1>2, <1>3

\* Every stored snapshot comes from the database or from the answer; nothing is invented.
LEMMA InsertedFacts ==
    ASSUME JobsTypeInv, NEW new \in Seq(Snapshot)
    PROVE  /\ Inserted(new) \in Seq(Snapshot)
           /\ \A m \in DOMAIN Inserted(new) :
                 \/ \E n \in DOMAIN shots : Inserted(new)[m] = shots[n]
                 \/ \E n \in DOMAIN new : Inserted(new)[m] = new[n]
<1> DEFINE all  == shots \o new
           keep == DOMAIN all \ (Excess(all) \ LastSuccesses(all))
<1>1. shots \in Seq(Snapshot)
  BY DEF JobsTypeInv
<1>2. all \in Seq(Snapshot) /\ keep \subseteq DOMAIN all
  BY <1>1
<1>3. Inserted(new) = Pick(all, keep)
  BY DEF Inserted
<1>4. \A o \in DOMAIN all : \/ \E n \in DOMAIN shots : all[o] = shots[n]
                            \/ \E n \in DOMAIN new : all[o] = new[n]
  <2> TAKE o \in DOMAIN all
  <2>1. /\ Len(shots) \in Nat /\ Len(new) \in Nat /\ o \in 1..(Len(shots) + Len(new))
        /\ DOMAIN shots = 1..Len(shots) /\ DOMAIN new = 1..Len(new)
        /\ all[o] = IF o <= Len(shots) THEN shots[o] ELSE new[o - Len(shots)]
    BY <1>1
  <2> HIDE DEF all
  <2>2. CASE o <= Len(shots)
    BY <2>1, <2>2
  <2>3. CASE ~(o <= Len(shots))
    <3>1. o - Len(shots) \in DOMAIN new /\ all[o] = new[o - Len(shots)]
      BY <2>1, <2>3
    <3> QED BY <3>1
  <2> QED BY <2>2, <2>3
<1> HIDE DEF all, keep
<1>5. /\ Pick(all, keep) \in Seq(Snapshot)
      /\ \A m \in DOMAIN Pick(all, keep) : \E o \in keep : Pick(all, keep)[m] = all[o]
  BY <1>2, PickFacts
<1> QED BY <1>2, <1>3, <1>4, <1>5

\* The last success of an owner, a family and a month that was stored before an answer is
\* still there after it, or a later one is.
LEMMA InsertedKeeps ==
    ASSUME JobsTypeInv, NEW new \in Seq(Snapshot), NEW n \in DOMAIN shots,
           shots[n].status \in Good
    PROVE  \E m \in DOMAIN Inserted(new) :
               /\ Alike(shots[n], Inserted(new)[m])
               /\ Inserted(new)[m].period = shots[n].period
               /\ Inserted(new)[m].status \in Good
<1> DEFINE all  == shots \o new
           keep == DOMAIN all \ (Excess(all) \ LastSuccesses(all))
           Such(o) == /\ Alike(shots[n], all[o]) /\ all[o].period = shots[n].period
                      /\ all[o].status \in Good
           S == {o \in DOMAIN all : Such(o)}
<1>1. shots \in Seq(Snapshot)
  BY DEF JobsTypeInv
<1>2. /\ all \in Seq(Snapshot) /\ keep \subseteq DOMAIN all
      /\ DOMAIN all = 1..Len(all) /\ Len(all) \in Nat
  BY <1>1
<1>3. Inserted(new) = Pick(all, keep)
  BY DEF Inserted
<1>4. n \in DOMAIN all /\ all[n] = shots[n]
  BY <1>1
<1> HIDE DEF all
<1>5. n \in S
  BY <1>4 DEF Alike
<1>6. PICK o \in S : \A q \in S : q <= o
  <2>1. S \subseteq 1..Len(all) /\ S # {}
    BY <1>2, <1>5
  <2> HIDE DEF S
  <2> QED BY <1>2, <2>1, GreatestOf
<1>7. o \in LastSuccesses(all)
  <2>1. o \in DOMAIN all /\ all[o].status \in Good
    BY <1>6
  <2>2. ASSUME NEW q \in DOMAIN all, q > o, Alike(all[q], all[o]),
               all[q].status \in Good
        PROVE  all[q].period # all[o].period
    <3>1. q \notin S
      <4>1. q \in Nat /\ o \in Nat
        BY <1>2, <2>1
      <4> HIDE DEF S
      <4> QED BY <1>6, <2>2, <4>1
    <3> QED BY <1>6, <2>2, <3>1 DEF Alike
  <2> QED BY <2>1, <2>2 DEF LastSuccesses
<1>8. o \in keep /\ Such(o)
  BY <1>6, <1>7
<1> HIDE DEF keep, S
<1>9. PICK m \in DOMAIN Pick(all, keep) : Pick(all, keep)[m] = all[o]
  BY <1>2, <1>8, PickFacts
<1> QED BY <1>3, <1>8, <1>9

\* Nor is a quota invented, and the last success stays.
LEMMA KeptFacts ==
    ASSUME JobsTypeInv, NEW q \in Status
    PROVE  /\ KeptQuotas(Append(quotas, q)) \in Seq(Status)
           /\ (\E n \in DOMAIN quotas : quotas[n] \in Good)
                 => \E m \in DOMAIN KeptQuotas(Append(quotas, q)) :
                        KeptQuotas(Append(quotas, q))[m] \in Good
<1> DEFINE all  == Append(quotas, q)
           good == {n \in DOMAIN all : all[n] \in Good}
           keep == {n \in DOMAIN all : Cardinality({o \in DOMAIN all : o > n}) < MaxShots}
                   \cup {n \in good : Cardinality({o \in good : o > n}) < MaxShots}
<1>1. quotas \in Seq(Status) /\ MaxShots \in Nat \ {0}
  BY JobBoundAssumption DEF JobsTypeInv
<1>2. /\ all \in Seq(Status) /\ DOMAIN all = 1..Len(all) /\ Len(all) \in Nat
      /\ \A n \in DOMAIN quotas : n \in DOMAIN all /\ all[n] = quotas[n]
  BY <1>1
<1>3. KeptQuotas(all) = Pick(all, keep)
  BY DEF KeptQuotas
<1>4. keep \subseteq DOMAIN all
  OBVIOUS
<1>5. ASSUME NEW w \in DOMAIN quotas, quotas[w] \in Good
      PROVE  \E o \in keep : all[o] \in Good
  <2>1. w \in good
    BY <1>2, <1>5
  <2>2. PICK o \in good : \A p \in good : p <= o
    <3>1. good \subseteq 1..Len(all) /\ good # {}
      BY <1>2, <2>1
    <3> HIDE DEF good
    <3> QED BY <1>2, <3>1, GreatestOf
  <2>3. {p \in good : p > o} = {}
    <3>1. \A p \in good : p \in Nat
      BY <1>2
    <3> HIDE DEF good
    <3>2. \A p \in good : ~(p > o)
      BY <2>2, <3>1
    <3> QED BY <3>2
  <2>4. Cardinality({p \in good : p > o}) = 0
    BY <2>3, FS_EmptySet
  <2>5. o \in keep
    <3> DEFINE later == Cardinality({p \in good : p > o})
    <3>1. later < MaxShots
      <4>1. later = 0
        BY <2>4
      <4> HIDE DEF later
      <4> QED BY <1>1, <4>1
    <3> HIDE DEF good
    <3>2. o \in {n \in good : Cardinality({p \in good : p > n}) < MaxShots}
      BY <2>2, <3>1, Zenon
    <3> QED BY <3>2
  <2>6. all[o] \in Good
    BY <2>2
  <2> QED BY <2>5, <2>6
<1> HIDE DEF all, good, keep
<1>6. /\ Pick(all, keep) \in Seq(Status)
      /\ \A o \in keep : \E m \in DOMAIN Pick(all, keep) : Pick(all, keep)[m] = all[o]
  BY <1>2, <1>4, PickFacts
<1>7. /\ KeptQuotas(all) \in Seq(Status)
      /\ (\E n \in DOMAIN quotas : quotas[n] \in Good)
            => \E m \in DOMAIN KeptQuotas(all) : KeptQuotas(all)[m] \in Good
  BY <1>3, <1>5, <1>6
<1> QED BY <1>7 DEF all

-----------------------------------------------------------------------------
(***************************************************************************)
(* Every step keeps the types.                                             *)
(***************************************************************************)
\* The command of one kind makes a step.
LEMMA DoFacts ==
    ASSUME JobsTypeInv, NEW k \in Kind, NEW new \in JobState, Do(k, new)
    PROVE  /\ job' \in [Kind -> JobState] /\ job'[k] = new
           /\ \A l \in Kind : l # k => job'[l] = job[l]
BY DEF JobsTypeInv, Do

\* The kinds, and what a command holds before it is asked for.
LEMMA JobFacts ==
    /\ {"price", "runtime", "billing", "local"} = Kind
    /\ Remote \subseteq Kind /\ "local" \notin Remote
    /\ NoJob \in JobState
    /\ NoJob.at = "idle" /\ NoJob.shots = <<>>
<1>1. NoJob \in JobState
  <2>1. /\ 0 \in 0..MaxJobs /\ <<>> \in Seq(Snapshot)
        /\ (CHOOSE p \in Period : TRUE) \in Month /\ NoToken \in Owner
        /\ "in-progress" \in Status
    BY JobBoundAssumption DEF Month, Owner, Status
  <2> QED BY <2>1 DEF NoJob, JobState, JobLabel
<1> QED BY <1>1 DEF Kind, Remote, NoJob

\* A new job.
LEMMA SpentFacts ==
    ASSUME JobsTypeInv, Take("job")
    PROVE  /\ left' \in [job : 0..MaxJobs, incident : Nat]
           /\ NextId \in 1..MaxJobs /\ NextId \in 0..MaxJobs
           /\ NextId' = NextId + 1
<1>1. left \in [job : 0..MaxJobs, incident : Nat] /\ MaxJobs \in Nat
  BY JobBoundAssumption DEF JobsTypeInv
<1>2. left.job > 0 /\ left' = [left EXCEPT !.job = @ - 1]
  BY DEF Take
<1>3. left'.job = left.job - 1 /\ left'.incident = left.incident
  BY <1>1, <1>2
<1>4. left' \in [job : 0..MaxJobs, incident : Nat]
  BY <1>1, <1>2
<1> QED BY <1>1, <1>2, <1>3, <1>4 DEF NextId

\* A incident takes no identifier.
LEMMA IncidentFacts ==
    ASSUME JobsTypeInv, Incident \/ NoIncident \/ UNCHANGED left
    PROVE  left' \in [job : 0..MaxJobs, incident : Nat] /\ NextId' = NextId
BY DEF JobsTypeInv, Incident, NoIncident, Take, NextId

\* The end of a job with some outcome.
LEMMA FinishFacts ==
    ASSUME JobsInv, NEW k \in Kind, NEW status \in Status,
           FinishWith(k, status), Working(k)
    PROVE  /\ left' \in [job : 0..MaxJobs, incident : Nat] /\ NextId' = NextId
           /\ job' \in [Kind -> JobState] /\ job'[k] = [job[k] EXCEPT !.at = "drop"]
           /\ \A l \in Kind : l # k => job'[l] = job[l]
           /\ RowOf(k, status) \in Row
           /\ UNCHANGED rows \/ rows' = Saved(RowOf(k, status))
           /\ rows' \in Seq(Row)
<1>1. [job[k] EXCEPT !.at = "drop"] \in JobState
  <2>1. job[k] \in JobState
    BY DEF JobsInv, JobsTypeInv
  <2> QED BY <2>1 DEF JobState, JobLabel
<1>2. RowOf(k, status) \in Row
  BY DEF JobsInv, RowsInv, RowOf, Row
<1>3. Saved(RowOf(k, status)) \in Seq(Row)
  BY <1>2, SavedFacts DEF JobsInv
<1>4. JobsTypeInv /\ (Incident \/ NoIncident) /\ Do(k, [job[k] EXCEPT !.at = "drop"])
      /\ (UNCHANGED rows \/ rows' = Saved(RowOf(k, status)))
  BY DEF JobsInv, FinishWith
<1>5. rows \in Seq(Row)
  BY <1>4 DEF JobsTypeInv
<1> QED BY <1>1, <1>2, <1>3, <1>4, <1>5, DoFacts, IncidentFacts

\* The steps, one by one.
LEMMA JobsSteps ==
    ASSUME JNext
    PROVE  \/ \E p \in Period : AskBilling(p)
           \/ BeginLocal
           \/ \E k \in Remote : BeginRemote(k)
           \/ \E k \in Kind : Reset(k)
           \/ \E k \in Kind : Drop(k)
           \/ FetchPrices \/ SettlePrices
           \/ Request \/ SaveQuota \/ SettleQuota
           \/ FetchFamily \/ CheckCancel \/ StoreBilling
           \/ SaveLocalRow \/ SyncSource \/ SettleLocal
           \/ Cancel \/ ChangeAuthorization \/ ElsewhereChanges
           \/ ElsewhereStarts \/ Restart
           \/ \E k \in Remote : FiveSecondsPass(k)
           \/ TimePasses
<1>1. ASSUME NEW k \in Kind, BeginRemote(k) PROVE k \in Remote
  BY <1>1 DEF BeginRemote
<1>2. ASSUME NEW k \in Kind, Work(k)
      PROVE  \/ \E l \in Remote : BeginRemote(l)
             \/ \E l \in Kind : Reset(l)
             \/ \E l \in Kind : Drop(l)
             \/ FetchPrices \/ SettlePrices
             \/ Request \/ SaveQuota \/ SettleQuota
             \/ FetchFamily \/ CheckCancel \/ StoreBilling
             \/ SaveLocalRow \/ SyncSource \/ SettleLocal
  BY <1>1, <1>2 DEF Work
<1> QED BY <1>2 DEF JNext

\* A report is for the month and the owner that were asked for, and about that owner.
LEMMA AnswersFacts ==
    ASSUME JobsTypeInv, NEW j \in JobState, NEW s \in Answers(j)
    PROVE  s \in Snapshot /\ (s.status \in Good => s.of = s.owner)
<1> DEFINE shot(status, of, retry) ==
              [owner |-> j.owner, family |-> NextFamily(j), period |-> j.period,
               of |-> of, status |-> status, retry |-> retry]
<1>1. \/ s = shot("unavailable", NoToken, 0) \/ s = shot("rate-limited", NoToken, now + 1)
      \/ j.token = j.owner /\ s = shot("available", j.token, 0)
      \/ s = shot("schema-error", NoToken, 0)
  BY DEF Answers, Accepts
<1>2. /\ j.owner \in Owner /\ j.token \in Owner /\ j.period \in Month /\ NoToken \in Owner
      /\ NextFamily(j) \in Family /\ now + 1 \in Nat /\ 0 \in Nat
  BY JobBoundAssumption DEF JobState, Owner, NextFamily, Family, JobsTypeInv
<1>3. /\ "unavailable" \in Failures /\ "rate-limited" \in Failures
      /\ "schema-error" \in Failures /\ "available" \in Good
      /\ "unavailable" \notin Good /\ "rate-limited" \notin Good
      /\ "schema-error" \notin Good
  BY DEF Good, Failures
<1>4. CASE s = shot("unavailable", NoToken, 0)
  BY <1>2, <1>3, <1>4 DEF Snapshot
<1>5. CASE s = shot("rate-limited", NoToken, now + 1)
  BY <1>2, <1>3, <1>5 DEF Snapshot
<1>6. CASE j.token = j.owner /\ s = shot("available", j.token, 0)
  BY <1>2, <1>3, <1>6 DEF Snapshot
<1>7. CASE s = shot("schema-error", NoToken, 0)
  BY <1>2, <1>3, <1>7 DEF Snapshot
<1> QED BY <1>1, <1>4, <1>5, <1>6, <1>7

\* Every step keeps the types of the jobs.
LEMMA JobsTypeStep ==
    ASSUME JobsInv, [JNext]_jvars
    PROVE  JobsTypeInv'
<1> USE DEF flags, tables, who
<1>0. JobsTypeInv
  BY DEF JobsInv
<1>t. /\ job \in [Kind -> JobState] /\ cancel \in [Kind -> BOOLEAN]
      /\ busy \in [Kind -> BOOLEAN]
  BY <1>0 DEF JobsTypeInv
<1>k. {"price", "runtime", "billing", "local"} = Kind /\ Remote \subseteq Kind
  BY JobFacts
<1>n. NoJob \in JobState
  BY JobFacts
<1>w. \A k \in Kind : job[k] \in JobState
  BY <1>t
<1>1. ASSUME NEW p \in Period, AskBilling(p) PROVE JobsTypeInv'
  <2> DEFINE new == [NoJob EXCEPT !.at = "asked", !.owner = auth.who, !.token = keyring,
                                       !.rev = auth.rev, !.period = p]
  <2>1. new \in JobState
    <3>1. auth.who \in Owner /\ auth.rev \in Nat /\ keyring \in Owner /\ p \in Month
      BY <1>0 DEF JobsTypeInv, Month
    <3> QED BY <1>n, <3>1 DEF JobState, JobLabel
  <2>2. Do("billing", new) /\ UNCHANGED <<kinds, flags, tables, who, now, left>>
    BY <1>1 DEF AskBilling
  <2> HIDE DEF new
  <2>3. job' \in [Kind -> JobState]
    BY <1>0, <1>k, <2>1, <2>2, DoFacts
  <2> QED BY <1>0, <2>2, <2>3 DEF JobsTypeInv
<1>2. ASSUME BeginLocal PROVE JobsTypeInv'
  <2> DEFINE new == [NoJob EXCEPT !.at = "begun", !.id = NextId]
  <2>1. left' \in [job : 0..MaxJobs, incident : Nat] /\ NextId \in 0..MaxJobs
    BY <1>0, <1>2, SpentFacts DEF BeginLocal
  <2>2. new \in JobState
    BY <1>n, <2>1 DEF JobState, JobLabel
  <2>3. /\ Do("local", new) /\ busy' = [busy EXCEPT !["local"] = TRUE]
        /\ UNCHANGED <<kinds, cancel, cooling, told, tables, who, now>>
    BY <1>2 DEF BeginLocal
  <2> HIDE DEF new
  <2>4. job' \in [Kind -> JobState]
    BY <1>0, <1>k, <2>2, <2>3, DoFacts
  <2> QED BY <1>0, <1>k, <2>1, <2>3, <2>4 DEF JobsTypeInv
<1>3. ASSUME NEW k \in Remote, BeginRemote(k) PROVE JobsTypeInv'
  <2>1. CASE Take("job") /\ busy' = [busy EXCEPT ![k] = TRUE] /\ cooling' = cooling \cup {k}
             /\ Do(k, [job[k] EXCEPT !.at = "begun", !.id = NextId])
             /\ rows' = Saved([id |-> NextId, kind |-> k, status |-> "in-progress"])
    <3> DEFINE row == [id |-> NextId, kind |-> k, status |-> "in-progress"]
    <3>1. /\ left' \in [job : 0..MaxJobs, incident : Nat]
          /\ NextId \in 1..MaxJobs /\ NextId \in 0..MaxJobs
      BY <1>0, <2>1, SpentFacts
    <3>2. [job[k] EXCEPT !.at = "begun", !.id = NextId] \in JobState
      <4>1. job[k] \in JobState
        BY <1>k, <1>w
      <4> QED BY <3>1, <4>1 DEF JobState, JobLabel
    <3>3. row \in Row
      BY <1>k, <3>1 DEF Row, Status
    <3>4. rows' \in Seq(Row)
      <4> HIDE DEF row
      <4>1. Saved(row) \in Seq(Row)
        BY <1>0, <3>3, SavedFacts
      <4> QED BY <2>1, <4>1 DEF row
    <3>5. job' \in [Kind -> JobState]
      BY <1>0, <1>k, <2>1, <3>2, DoFacts
    <3>6. UNCHANGED <<kinds, cancel, told, shots, quotas, auth, keyring, now>>
      BY <1>3 DEF BeginRemote
    <3> QED BY <1>0, <1>k, <2>1, <3>1, <3>4, <3>5, <3>6 DEF JobsTypeInv
  <2>2. CASE /\ k = "billing" /\ (Incident \/ NoIncident) /\ Do(k, NoJob)
             /\ UNCHANGED <<busy, cooling, rows>>
    <3>1. job' \in [Kind -> JobState]
      BY <1>0, <1>k, <1>n, <2>2, DoFacts
    <3>2. left' \in [job : 0..MaxJobs, incident : Nat]
      BY <1>0, <2>2, IncidentFacts
    <3>3. UNCHANGED <<kinds, cancel, told, shots, quotas, auth, keyring, now>>
      BY <1>3 DEF BeginRemote
    <3> QED BY <1>0, <2>2, <3>1, <3>2, <3>3 DEF JobsTypeInv
  <2> QED BY <1>3, <2>1, <2>2 DEF BeginRemote
<1>4. ASSUME NEW k \in Kind, Reset(k) PROVE JobsTypeInv'
  <2>1. [job[k] EXCEPT !.at = "fetch"] \in JobState
    BY <1>w DEF JobState, JobLabel
  <2>2. /\ Do(k, [job[k] EXCEPT !.at = "fetch"]) /\ cancel' = [cancel EXCEPT ![k] = FALSE]
        /\ told' = told \ {k}
        /\ UNCHANGED <<kinds, busy, cooling, tables, who, now, left>>
    BY <1>4 DEF Reset
  <2>3. job' \in [Kind -> JobState]
    BY <1>0, <2>1, <2>2, DoFacts
  <2> QED BY <1>0, <2>2, <2>3 DEF JobsTypeInv
<1>5. ASSUME NEW k \in Kind, Drop(k) PROVE JobsTypeInv'
  <2>1. /\ Do(k, NoJob) /\ busy' = [busy EXCEPT ![k] = FALSE]
        /\ rows' \in {rows, Abandoned(k)}
        /\ job[k].at = "drop"
        /\ UNCHANGED <<kinds, cancel, cooling, told, shots, quotas, who, now, left>>
    BY <1>5 DEF Drop, Released
  <2>2. job[k].id \in 1..MaxJobs
    BY <2>1 DEF JobsInv, RowsInv, Working
  <2>3. rows' \in Seq(Row)
    BY <1>0, <2>1, <2>2, AbandonedFacts DEF JobsTypeInv
  <2>4. job' \in [Kind -> JobState]
    BY <1>0, <1>n, <2>1, DoFacts
  <2> QED BY <1>0, <2>1, <2>3, <2>4 DEF JobsTypeInv
<1>6. ASSUME FetchPrices PROVE JobsTypeInv'
  <2>1. PICK status \in {"available", "unavailable"} :
            Do("price", [job["price"] EXCEPT !.at = "answered", !.status = status])
    BY <1>6 DEF FetchPrices
  <2>2. [job["price"] EXCEPT !.at = "answered", !.status = status] \in JobState
    BY <1>k, <1>w DEF JobState, JobLabel, Status, Good, Failures
  <2>3. job' \in [Kind -> JobState]
    BY <1>0, <1>k, <2>1, <2>2, DoFacts
  <2> QED BY <1>0, <1>6, <2>3 DEF JobsTypeInv, FetchPrices
<1>7. ASSUME SettlePrices PROVE JobsTypeInv'
  <2>1. job["price"].at = "answered" /\ FinishWith("price", OutcomeOfPrices)
        /\ UNCHANGED <<kinds, flags, shots, quotas, who, now>>
    BY <1>7 DEF SettlePrices
  <2>2. OutcomeOfPrices \in Status /\ "price" \in Kind /\ Working("price")
    BY <1>k, <1>w, <2>1 DEF OutcomeOfPrices, Status, JobState, Working
  <2>3. /\ left' \in [job : 0..MaxJobs, incident : Nat] /\ job' \in [Kind -> JobState]
        /\ rows' \in Seq(Row)
    BY <2>1, <2>2, FinishFacts
  <2> QED BY <1>0, <2>1, <2>3 DEF JobsTypeInv
<1>8. ASSUME Request PROVE JobsTypeInv'
  <2>1. /\ UNCHANGED <<kinds, flags, tables, who, now, left>>
        /\ \E new \in JobState : Do("runtime", new)
    <3> DEFINE j == job["runtime"]
    <3>1. PICK a \in {"canceled", "available", "unavailable"} :
              Do("runtime", CASE j.stage < 2 /\ a # "available" ->
                                          [j EXCEPT !.stage = 4, !.quota = a]
                                   [] j.stage = 2 -> [j EXCEPT !.stage = 3, !.quota = a]
                                   [] OTHER -> [j EXCEPT !.stage = @ + 1])
      BY <1>8 DEF Request
    <3>2. j \in JobState /\ j.stage \in 0..3
      BY <1>8, <1>k, <1>w DEF Request, JobState
    <3> HIDE DEF j
    <3>3. /\ [j EXCEPT !.stage = 4, !.quota = a] \in JobState
          /\ [j EXCEPT !.stage = 3, !.quota = a] \in JobState
          /\ [j EXCEPT !.stage = @ + 1] \in JobState
      <4>1. j.stage + 1 \in 0..4 /\ 3 \in 0..4 /\ 4 \in 0..4
        BY <3>2
      <4> QED BY <3>2, <4>1 DEF JobState
    <3>4. UNCHANGED <<kinds, flags, tables, who, now, left>>
      BY <1>8 DEF Request
    <3>5. CASE j.stage < 2 /\ a # "available"
      BY <3>1, <3>3, <3>4, <3>5
    <3>6. CASE j.stage = 2
      BY <3>1, <3>2, <3>3, <3>4, <3>6
    <3>7. CASE ~(j.stage < 2 /\ a # "available") /\ j.stage # 2
      BY <3>1, <3>3, <3>4, <3>7
    <3> QED BY <3>5, <3>6, <3>7
  <2>2. job' \in [Kind -> JobState]
    BY <1>0, <1>k, <2>1, DoFacts
  <2> QED BY <1>0, <2>1, <2>2 DEF JobsTypeInv
<1>9. ASSUME SaveQuota PROVE JobsTypeInv'
  <2>1. UNCHANGED <<kinds, flags, rows, shots, who, now>>
    BY <1>9 DEF SaveQuota
  <2>2. CASE /\ NoIncident
             /\ \E status \in StatusOfQuota :
                   /\ quotas' = KeptQuotas(Append(quotas, status))
                   /\ Do("runtime", [job["runtime"] EXCEPT !.at = "answered",
                                                                 !.status = status])
    <3>1. PICK status \in StatusOfQuota :
                   /\ quotas' = KeptQuotas(Append(quotas, status))
                   /\ Do("runtime", [job["runtime"] EXCEPT !.at = "answered",
                                                                 !.status = status])
      BY <2>2
    <3>2. status \in Status
      BY <1>k, <1>w DEF StatusOfQuota, Status, Good, Failures, JobState
    <3>3. quotas' \in Seq(Status)
      BY <1>0, <3>1, <3>2, KeptFacts
    <3>4. [job["runtime"] EXCEPT !.at = "answered", !.status = status] \in JobState
      BY <1>k, <1>w, <3>2 DEF JobState, JobLabel
    <3>5. job' \in [Kind -> JobState]
      BY <1>0, <1>k, <3>1, <3>4, DoFacts
    <3> QED BY <1>0, <2>1, <2>2, <3>3, <3>5 DEF JobsTypeInv, NoIncident
  <2>3. CASE /\ Incident /\ Do("runtime", [job["runtime"] EXCEPT !.at = "drop"])
             /\ UNCHANGED quotas
    <3>1. [job["runtime"] EXCEPT !.at = "drop"] \in JobState
      BY <1>k, <1>w DEF JobState, JobLabel
    <3>2. job' \in [Kind -> JobState]
      BY <1>0, <1>k, <2>3, <3>1, DoFacts
    <3>3. left' \in [job : 0..MaxJobs, incident : Nat]
      BY <1>0, <2>3, IncidentFacts
    <3> QED BY <1>0, <2>1, <2>3, <3>2, <3>3 DEF JobsTypeInv
  <2> QED BY <1>9, <2>2, <2>3 DEF SaveQuota
<1>10. ASSUME SettleQuota PROVE JobsTypeInv'
  <2>1. job["runtime"].at = "answered" /\ FinishWith("runtime", job["runtime"].status)
        /\ UNCHANGED <<kinds, flags, shots, quotas, who, now>>
    BY <1>10 DEF SettleQuota
  <2>2. job["runtime"].status \in Status /\ "runtime" \in Kind /\ Working("runtime")
    BY <1>k, <1>w, <2>1 DEF JobState, Working
  <2>3. /\ left' \in [job : 0..MaxJobs, incident : Nat] /\ job' \in [Kind -> JobState]
        /\ rows' \in Seq(Row)
    BY <2>1, <2>2, FinishFacts
  <2> QED BY <1>0, <2>1, <2>3 DEF JobsTypeInv
<1>11. ASSUME FetchFamily PROVE JobsTypeInv'
  <2> DEFINE j == job["billing"]
  <2>1. /\ UNCHANGED <<kinds, flags, tables, who, now, left>>
        /\ \/ Do("billing", [j EXCEPT !.at = "answered"])
           \/ \E s \in Answers(j) : Do("billing", [j EXCEPT !.shots = Append(@, s)])
    BY <1>11 DEF FetchFamily
  <2>2. j \in JobState
    BY <1>k, <1>w
  <2> HIDE DEF j
  <2>3. [j EXCEPT !.at = "answered"] \in JobState
    BY <2>2 DEF JobState, JobLabel
  <2>4. ASSUME NEW s \in Answers(j) PROVE [j EXCEPT !.shots = Append(@, s)] \in JobState
    <3>1. s \in Snapshot /\ j.shots \in Seq(Snapshot)
      BY <1>0, <2>2, AnswersFacts DEF JobState
    <3>2. Append(j.shots, s) \in Seq(Snapshot)
      BY <3>1
    <3> QED BY <2>2, <3>2 DEF JobState
  <2>5. \E new \in JobState : Do("billing", new)
    BY <2>1, <2>3, <2>4
  <2>6. job' \in [Kind -> JobState]
    BY <1>0, <1>k, <2>5, DoFacts
  <2> QED BY <1>0, <2>1, <2>6 DEF JobsTypeInv
<1>12. ASSUME CheckCancel PROVE JobsTypeInv'
  <2>1. /\ job["billing"].at = "answered"
        /\ UNCHANGED <<kinds, flags, shots, quotas, who, now>>
    BY <1>12 DEF CheckCancel
  <2>2. CASE FinishWith("billing", "canceled")
    <3>1. "canceled" \in Status /\ "billing" \in Kind /\ Working("billing")
      BY <1>k, <2>1 DEF Status, Working
    <3>2. /\ left' \in [job : 0..MaxJobs, incident : Nat] /\ job' \in [Kind -> JobState]
          /\ rows' \in Seq(Row)
      BY <2>2, <3>1, FinishFacts
    <3> QED BY <1>0, <2>1, <3>2 DEF JobsTypeInv
  <2>3. CASE /\ Do("billing", [job["billing"] EXCEPT !.at = "store"])
             /\ NoIncident /\ UNCHANGED rows
    <3>1. [job["billing"] EXCEPT !.at = "store"] \in JobState
      BY <1>k, <1>w DEF JobState, JobLabel
    <3>2. job' \in [Kind -> JobState]
      BY <1>0, <1>k, <2>3, <3>1, DoFacts
    <3> QED BY <1>0, <2>1, <2>3, <3>2 DEF JobsTypeInv, NoIncident
  <2> QED BY <1>12, <2>2, <2>3 DEF CheckCancel
<1>13. ASSUME StoreBilling PROVE JobsTypeInv'
  <2>1. /\ job["billing"].at = "store" /\ UNCHANGED <<kinds, flags, quotas, who, now>>
        /\ \/ /\ shots' = Inserted(job["billing"].shots) \/ UNCHANGED shots
              /\ \E status \in {"available", "partial", "canceled"} :
                    FinishWith("billing", status)
           \/ /\ Incident /\ Do("billing", [job["billing"] EXCEPT !.at = "drop"])
              /\ UNCHANGED <<rows, shots>>
    BY <1>13 DEF StoreBilling
  <2>2. shots' = Inserted(job["billing"].shots) => shots' \in Seq(Snapshot)
    <3>1. job["billing"].shots \in Seq(Snapshot)
      BY <1>k, <1>w DEF JobState
    <3> QED BY <1>0, <3>1, InsertedFacts
  <2>3. UNCHANGED shots => shots' \in Seq(Snapshot)
    BY <1>0 DEF JobsTypeInv
  <2>4. ASSUME NEW status \in {"available", "partial", "canceled"},
               FinishWith("billing", status), shots' \in Seq(Snapshot)
        PROVE  JobsTypeInv'
    <3>1. status \in Status /\ "billing" \in Kind /\ Working("billing")
      BY <1>k, <2>1 DEF Status, Good, Working
    <3>2. /\ left' \in [job : 0..MaxJobs, incident : Nat] /\ job' \in [Kind -> JobState]
          /\ rows' \in Seq(Row)
      BY <2>4, <3>1, FinishFacts
    <3> QED BY <1>0, <2>1, <2>4, <3>2 DEF JobsTypeInv
  <2>5. CASE /\ Incident /\ Do("billing", [job["billing"] EXCEPT !.at = "drop"])
             /\ UNCHANGED <<rows, shots>>
    <3>1. [job["billing"] EXCEPT !.at = "drop"] \in JobState
      BY <1>k, <1>w DEF JobState, JobLabel
    <3>2. job' \in [Kind -> JobState]
      BY <1>0, <1>k, <2>5, <3>1, DoFacts
    <3>3. left' \in [job : 0..MaxJobs, incident : Nat]
      BY <1>0, <2>5, IncidentFacts
    <3> QED BY <1>0, <2>1, <2>5, <3>2, <3>3 DEF JobsTypeInv
  <2> QED BY <2>1, <2>2, <2>3, <2>4, <2>5
<1>14. ASSUME SaveLocalRow PROVE JobsTypeInv'
  <2>1. /\ job["local"].at = "fetch"
        /\ UNCHANGED <<kinds, flags, shots, quotas, who, now>>
    BY <1>14 DEF SaveLocalRow
  <2>2. /\ [job["local"] EXCEPT !.at = "drop"] \in JobState
        /\ [job["local"] EXCEPT !.stage = 1] \in JobState
    BY <1>k, <1>w DEF JobState, JobLabel
  <2>3. Saved(RowOf("local", "in-progress")) \in Seq(Row)
    <3>1. RowOf("local", "in-progress") \in Row
      BY <1>k, <2>1 DEF JobsInv, RowsInv, Working, RowOf, Row, Status
    <3> QED BY <1>0, <3>1, SavedFacts
  <2>4. /\ NoIncident \/ Incident
        /\ UNCHANGED rows \/ rows' = Saved(RowOf("local", "in-progress"))
        /\ \E new \in JobState : Do("local", new)
    BY <1>14, <2>2 DEF SaveLocalRow
  <2>5. job' \in [Kind -> JobState]
    BY <1>0, <1>k, <2>4, DoFacts
  <2>6. left' \in [job : 0..MaxJobs, incident : Nat]
    BY <1>0, <2>4, IncidentFacts
  <2> QED BY <1>0, <2>1, <2>3, <2>4, <2>5, <2>6 DEF JobsTypeInv
<1>15. ASSUME SyncSource PROVE JobsTypeInv'
  <2>1. PICK status \in {"canceled", "partial"} \cup Good :
            Do("local", [job["local"] EXCEPT !.at = "answered", !.status = status])
    BY <1>15 DEF SyncSource
  <2>2. [job["local"] EXCEPT !.at = "answered", !.status = status] \in JobState
    BY <1>k, <1>w DEF JobState, JobLabel, Status
  <2>3. job' \in [Kind -> JobState]
    BY <1>0, <1>k, <2>1, <2>2, DoFacts
  <2> QED BY <1>0, <1>15, <2>3 DEF JobsTypeInv, SyncSource
<1>16. ASSUME SettleLocal PROVE JobsTypeInv'
  <2>1. job["local"].at = "answered" /\ FinishWith("local", job["local"].status)
        /\ UNCHANGED <<kinds, flags, shots, quotas, who, now>>
    BY <1>16 DEF SettleLocal
  <2>2. job["local"].status \in Status /\ "local" \in Kind /\ Working("local")
    BY <1>k, <1>w, <2>1 DEF JobState, Working
  <2>3. /\ left' \in [job : 0..MaxJobs, incident : Nat] /\ job' \in [Kind -> JobState]
        /\ rows' \in Seq(Row)
    BY <2>1, <2>2, FinishFacts
  <2> QED BY <1>0, <2>1, <2>3 DEF JobsTypeInv
<1>17. ASSUME Cancel PROVE JobsTypeInv'
  <2>1. left' \in [job : 0..MaxJobs, incident : Nat]
    BY <1>0, <1>17, IncidentFacts DEF Cancel
  <2>2. cancel' = [k \in Kind |-> TRUE] /\ told' \subseteq Kind
        /\ UNCHANGED <<kinds, busy, cooling, job, tables, who, now>>
    BY <1>0, <1>17 DEF Cancel, JobsTypeInv
  <2> QED BY <1>0, <2>1, <2>2 DEF JobsTypeInv
<1>18. ASSUME ChangeAuthorization PROVE JobsTypeInv'
  <2>1. left' \in [job : 0..MaxJobs, incident : Nat]
    BY <1>0, <1>18, IncidentFacts DEF ChangeAuthorization
  <2>2. UNCHANGED <<kinds, flags, job, tables, now>>
    BY <1>18 DEF ChangeAuthorization
  <2>3. auth' \in [who : Owner, failed : BOOLEAN, rev : Nat] /\ keyring' \in Owner
    <3>1. auth \in [who : Owner, failed : BOOLEAN, rev : Nat] /\ keyring \in Owner
      BY <1>0 DEF JobsTypeInv
    <3>2. CASE \E t \in Token \cup {NoToken} :
                  /\ auth' = [who |-> t, failed |-> FALSE, rev |-> auth.rev + 1]
                  /\ keyring' = t
      BY <3>1, <3>2 DEF Owner
    <3>3. CASE /\ auth' = [auth EXCEPT !.failed = auth.who # NoToken, !.rev = @ + 1]
               /\ UNCHANGED keyring
      <4> DEFINE failed == auth.who # NoToken
      <4>1. /\ failed \in BOOLEAN /\ keyring' = keyring
            /\ auth' = [auth EXCEPT !.failed = failed, !.rev = @ + 1]
        BY <3>3
      <4> HIDE DEF failed
      <4>2. auth.rev + 1 \in Nat
        BY <3>1
      <4>3. \E b \in BOOLEAN, n \in Nat : auth' = [auth EXCEPT !.failed = b, !.rev = n]
        BY <4>1, <4>2, Zenon
      <4> QED BY <3>1, <4>1, <4>3
    <3> QED BY <1>18, <3>2, <3>3 DEF ChangeAuthorization
  <2> QED BY <1>0, <2>1, <2>2, <2>3 DEF JobsTypeInv
<1>19. ASSUME ElsewhereChanges PROVE JobsTypeInv'
  <2>1. left' \in [job : 0..MaxJobs, incident : Nat]
    BY <1>0, <1>19, IncidentFacts DEF ElsewhereChanges
  <2>2. UNCHANGED <<kinds, flags, job, tables, auth, now>> /\ keyring' \in Owner
    BY <1>19 DEF ElsewhereChanges, Owner
  <2> QED BY <1>0, <2>1, <2>2 DEF JobsTypeInv
<1>20. ASSUME ElsewhereStarts PROVE JobsTypeInv'
  <2>1. left' \in [job : 0..MaxJobs, incident : Nat]
    BY <1>0, <1>20, IncidentFacts DEF ElsewhereStarts
  <2>2. /\ rows' \in Seq(Row)
        /\ UNCHANGED <<kinds, busy, cancel, cooling, told, job, shots, quotas, who, now>>
    BY <1>0, <1>20, RecoveredFacts DEF ElsewhereStarts
  <2> QED BY <1>0, <2>1, <2>2 DEF JobsTypeInv
<1>21. ASSUME Restart PROVE JobsTypeInv'
  <2>1. left' \in [job : 0..MaxJobs, incident : Nat]
    BY <1>0, <1>21, IncidentFacts DEF Restart
  <2>2. rows' \in Seq(Row)
    BY <1>0, <1>21, RecoveredFacts DEF Restart
  <2>3. /\ busy' = [k \in Kind |-> FALSE] /\ cancel' = [k \in Kind |-> FALSE]
        /\ cooling' = {} /\ told' = {} /\ job' = [k \in Kind |-> NoJob]
        /\ auth' = [auth EXCEPT !.rev = 0] /\ UNCHANGED <<kinds, shots, quotas, keyring, now>>
    BY <1>21 DEF Restart
  <2>4. auth' \in [who : Owner, failed : BOOLEAN, rev : Nat]
    BY <1>0, <2>3 DEF JobsTypeInv
  <2> QED BY <1>0, <1>n, <2>1, <2>2, <2>3, <2>4 DEF JobsTypeInv
<1>22. ASSUME NEW k \in Remote, FiveSecondsPass(k) PROVE JobsTypeInv'
  BY <1>0, <1>22 DEF JobsTypeInv, FiveSecondsPass
<1>23. ASSUME TimePasses PROVE JobsTypeInv'
  <2>1. now' \in 0..MaxTime /\ UNCHANGED <<kinds, flags, job, tables, who, left>>
    BY <1>0, <1>23, JobBoundAssumption DEF JobsTypeInv, TimePasses
  <2> QED BY <1>0, <2>1 DEF JobsTypeInv
<1>24. ASSUME UNCHANGED jvars PROVE JobsTypeInv'
  BY <1>0, <1>24 DEF JobsTypeInv, jvars
<1> QED BY <1>1, <1>2, <1>3, <1>4, <1>5, <1>6, <1>7, <1>8, <1>9, <1>10, <1>11, <1>12, <1>13,
           <1>14, <1>15, <1>16, <1>17, <1>18, <1>19, <1>20, <1>21, <1>22, <1>23, <1>24, JobsSteps

-----------------------------------------------------------------------------
(***************************************************************************)
(* Every step keeps the reports with their owners, and the rows with their *)
(* jobs; a cancelled job gets no success.                                  *)
(***************************************************************************)
\* Only an answer, which is about its owner, and the store of one add reports.
LEMMA OwnersStep ==
    ASSUME JobsInv, [JNext]_jvars
    PROVE  OwnersInv'
<1> USE DEF flags, tables, who
<1> DEFINE Rightly(s) == \A n \in DOMAIN s : s[n].status \in Good => s[n].of = s[n].owner
<1>0. JobsTypeInv /\ Rightly(shots) /\ Rightly(job["billing"].shots) /\ job \in [Kind -> JobState]
  BY DEF JobsInv, OwnersInv, JobsTypeInv, UsageIsOfOwner
<1>k. /\ {"price", "runtime", "billing", "local"} = Kind /\ Remote \subseteq Kind
      /\ NoJob \in JobState /\ NoJob.shots = <<>>
  BY JobFacts
<1>w. \A k \in Kind : job[k] \in JobState
  BY <1>0
<1>g. Rightly(<<>>)
  OBVIOUS
<1> SUFFICES Rightly(shots') /\ Rightly(job'["billing"].shots)
  BY DEF OwnersInv, UsageIsOfOwner
<1>u. ASSUME UNCHANGED shots PROVE Rightly(shots')
  BY <1>0, <1>u
<1> HIDE DEF Rightly
<1>d. ASSUME NEW k \in Kind, NEW new \in JobState, Do(k, new),
             k = "billing" => Rightly(new.shots)
      PROVE  Rightly(job'["billing"].shots)
  BY <1>0, <1>k, <1>d, DoFacts
<1>f. ASSUME NEW k \in Kind, NEW status, FinishWith(k, status)
      PROVE  Rightly(job'["billing"].shots)
  <2>1. Do(k, [job[k] EXCEPT !.at = "drop"])
    BY <1>f DEF FinishWith
  <2>2. /\ [job[k] EXCEPT !.at = "drop"] \in JobState
        /\ [job[k] EXCEPT !.at = "drop"].shots = job[k].shots
    BY <1>w DEF JobState, JobLabel
  <2> QED BY <1>0, <1>d, <2>1, <2>2
<1>e. ASSUME UNCHANGED job PROVE Rightly(job'["billing"].shots)
  BY <1>0, <1>e
<1>1. ASSUME NEW p \in Period, AskBilling(p) PROVE Rightly(shots') /\ Rightly(job'["billing"].shots)
  <2> DEFINE new == [NoJob EXCEPT !.at = "asked", !.owner = auth.who, !.token = keyring,
                                       !.rev = auth.rev, !.period = p]
  <2>1. Do("billing", new) /\ UNCHANGED shots
    BY <1>1 DEF AskBilling
  <2>2. new.shots = <<>>
    BY <1>k DEF NoJob
  <2>3. job'["billing"] = new
    BY <1>0, <1>k, <2>1 DEF Do
  <2> QED BY <1>g, <1>u, <2>1, <2>2, <2>3
<1>2. ASSUME BeginLocal PROVE Rightly(shots') /\ Rightly(job'["billing"].shots)
  <2>1. job'["billing"] = job["billing"] /\ UNCHANGED shots
    BY <1>0, <1>2, <1>k DEF BeginLocal, Do
  <2> QED BY <1>0, <1>u, <2>1
<1>3. ASSUME NEW k \in Remote, BeginRemote(k)
      PROVE  Rightly(shots') /\ Rightly(job'["billing"].shots)
  <2>1. UNCHANGED shots
    BY <1>3 DEF BeginRemote
  <2>2. \/ job' = [job EXCEPT ![k] = [job[k] EXCEPT !.at = "begun", !.id = NextId]]
        \/ job' = [job EXCEPT ![k] = NoJob]
    BY <1>3 DEF BeginRemote, Do
  <2>3. job'["billing"].shots \in {job["billing"].shots, <<>>}
    <3>1. job["billing"] \in JobState
      BY <1>k, <1>w
    <3>2. CASE k = "billing"
      <4>1. ASSUME job' = [job EXCEPT ![k] = [job[k] EXCEPT !.at = "begun", !.id = NextId]]
            PROVE  job'["billing"].shots = job["billing"].shots
        BY <1>0, <1>k, <3>1, <3>2, <4>1 DEF JobState
      <4>2. ASSUME job' = [job EXCEPT ![k] = NoJob] PROVE job'["billing"].shots = <<>>
        BY <1>0, <1>k, <3>2, <4>2
      <4> QED BY <2>2, <4>1, <4>2
    <3>3. CASE k # "billing"
      BY <1>0, <1>k, <2>2, <3>3
    <3> QED BY <3>2, <3>3
  <2> QED BY <1>0, <1>g, <1>u, <2>1, <2>3
<1>4. ASSUME NEW k \in Kind, Reset(k) PROVE Rightly(shots') /\ Rightly(job'["billing"].shots)
  <2>1. UNCHANGED shots /\ job' = [job EXCEPT ![k] = [job[k] EXCEPT !.at = "fetch"]]
    BY <1>4 DEF Reset, Do
  <2>2. job'["billing"].shots = job["billing"].shots
    <3>1. job["billing"] \in JobState
      BY <1>k, <1>w
    <3> QED BY <1>0, <1>k, <2>1, <3>1 DEF JobState
  <2> QED BY <1>0, <1>u, <2>1, <2>2
<1>5. ASSUME NEW k \in Kind, Drop(k) PROVE Rightly(shots') /\ Rightly(job'["billing"].shots)
  <2>1. UNCHANGED shots /\ Do(k, NoJob)
    BY <1>5 DEF Drop
  <2> QED BY <1>d, <1>g, <1>k, <1>u, <2>1
<1>6. ASSUME \/ FetchPrices \/ SettlePrices \/ Request \/ SettleQuota
             \/ SaveQuota \/ SaveLocalRow \/ SyncSource \/ SettleLocal
      PROVE  Rightly(shots') /\ Rightly(job'["billing"].shots)
  <2>1. /\ UNCHANGED shots
        /\ \E k \in {"price", "runtime", "local"} : \E new : Do(k, new)
    <3>1. ASSUME Request PROVE \E new : Do("runtime", new)
      BY <3>1 DEF Request
    <3>2. ASSUME SaveQuota PROVE \E new : Do("runtime", new)
      BY <3>2 DEF SaveQuota
    <3>3. ASSUME FetchPrices \/ SettlePrices PROVE \E new : Do("price", new)
      BY <3>3 DEF FetchPrices, SettlePrices, FinishWith
    <3>4. ASSUME SettleQuota PROVE \E new : Do("runtime", new)
      BY <3>4 DEF SettleQuota, FinishWith
    <3>5. ASSUME SaveLocalRow \/ SyncSource \/ SettleLocal
          PROVE  \E new : Do("local", new)
      BY <3>5 DEF SaveLocalRow, SyncSource, SettleLocal, FinishWith
    <3>6. UNCHANGED shots
      BY <1>6 DEF FetchPrices, SettlePrices, Request, SettleQuota,
                  SaveQuota, SaveLocalRow, SyncSource, SettleLocal
    <3> QED BY <1>6, <3>1, <3>2, <3>3, <3>4, <3>5, <3>6
  <2>2. job'["billing"] = job["billing"]
    BY <1>0, <1>k, <2>1 DEF Do
  <2> QED BY <1>0, <1>u, <2>1, <2>2
<1>7. ASSUME FetchFamily PROVE Rightly(shots') /\ Rightly(job'["billing"].shots)
  <2> DEFINE j == job["billing"]
  <2>1. /\ UNCHANGED shots
        /\ \/ job' = [job EXCEPT !["billing"] = [j EXCEPT !.at = "answered"]]
           \/ \E s \in Answers(j) :
                 job' = [job EXCEPT !["billing"] = [j EXCEPT !.shots = Append(@, s)]]
    BY <1>7 DEF FetchFamily, Do
  <2>2. j \in JobState /\ j.shots \in Seq(Snapshot) /\ Rightly(j.shots)
    BY <1>0, <1>k, <1>w DEF JobState
  <2> HIDE DEF j
  <2>3. ASSUME NEW s \in Answers(j) PROVE Rightly(Append(j.shots, s))
    <3>1. s.status \in Good => s.of = s.owner
      BY <1>0, <2>2, AnswersFacts
    <3> QED BY <2>2, <3>1 DEF Rightly
  <2>4. CASE job' = [job EXCEPT !["billing"] = [j EXCEPT !.at = "answered"]]
    <3>1. job'["billing"].shots = j.shots
      BY <1>0, <1>k, <2>2, <2>4 DEF JobState
    <3> QED BY <1>u, <2>1, <2>2, <3>1
  <2>5. CASE \E s \in Answers(j) :
                job' = [job EXCEPT !["billing"] = [j EXCEPT !.shots = Append(@, s)]]
    <3>1. PICK s \in Answers(j) :
                job' = [job EXCEPT !["billing"] = [j EXCEPT !.shots = Append(@, s)]]
      BY <2>5
    <3>2. job'["billing"].shots = Append(j.shots, s)
      BY <1>0, <1>k, <2>2, <3>1 DEF JobState
    <3> QED BY <1>u, <2>1, <2>3, <3>2
  <2> QED BY <2>1, <2>4, <2>5
<1>8. ASSUME CheckCancel PROVE Rightly(shots') /\ Rightly(job'["billing"].shots)
  <2>1. /\ UNCHANGED shots
        /\ \/ FinishWith("billing", "canceled")
           \/ Do("billing", [job["billing"] EXCEPT !.at = "store"])
    BY <1>8 DEF CheckCancel
  <2>2. /\ [job["billing"] EXCEPT !.at = "store"] \in JobState
        /\ [job["billing"] EXCEPT !.at = "store"].shots = job["billing"].shots
    BY <1>k, <1>w DEF JobState, JobLabel
  <2> QED BY <1>0, <1>d, <1>f, <1>k, <1>u, <2>1, <2>2
<1>9. ASSUME StoreBilling PROVE Rightly(shots') /\ Rightly(job'["billing"].shots)
  <2>1. /\ shots' = Inserted(job["billing"].shots) \/ UNCHANGED shots
        /\ \/ \E status : FinishWith("billing", status)
           \/ Do("billing", [job["billing"] EXCEPT !.at = "drop"])
    BY <1>9 DEF StoreBilling
  <2>2. Rightly(shots')
    <3>1. ASSUME shots' = Inserted(job["billing"].shots) PROVE Rightly(shots')
      <4>1. job["billing"].shots \in Seq(Snapshot)
        BY <1>k, <1>w DEF JobState
      <4>2. \A m \in DOMAIN shots' :
               \/ \E n \in DOMAIN shots : shots'[m] = shots[n]
               \/ \E n \in DOMAIN job["billing"].shots : shots'[m] = job["billing"].shots[n]
        BY <1>0, <3>1, <4>1, InsertedFacts
      <4> QED BY <1>0, <4>2 DEF Rightly
    <3> QED BY <1>u, <2>1, <3>1
  <2>3. /\ [job["billing"] EXCEPT !.at = "drop"] \in JobState
        /\ [job["billing"] EXCEPT !.at = "drop"].shots = job["billing"].shots
    BY <1>k, <1>w DEF JobState, JobLabel
  <2> QED BY <1>0, <1>d, <1>f, <1>k, <2>1, <2>2, <2>3
<1>10. ASSUME \/ Cancel \/ ChangeAuthorization \/ ElsewhereChanges
              \/ ElsewhereStarts \/ (\E k \in Remote : FiveSecondsPass(k))
              \/ TimePasses \/ UNCHANGED jvars
       PROVE  Rightly(shots') /\ Rightly(job'["billing"].shots)
  <2>1. UNCHANGED <<shots, job>>
    BY <1>10 DEF Cancel, ChangeAuthorization, ElsewhereChanges,
                 ElsewhereStarts, FiveSecondsPass, TimePasses, jvars
  <2> QED BY <1>e, <1>u, <2>1
<1>11. ASSUME Restart PROVE Rightly(shots') /\ Rightly(job'["billing"].shots)
  <2>1. UNCHANGED shots /\ job' = [k \in Kind |-> NoJob]
    BY <1>11 DEF Restart
  <2>2. job'["billing"].shots = <<>>
    BY <1>k, <2>1
  <2> QED BY <1>g, <1>u, <2>1, <2>2
<1> QED BY <1>1, <1>2, <1>3, <1>4, <1>5, <1>6, <1>7, <1>8, <1>9, <1>10, <1>11, JobsSteps

\* The commands go on: none begins, or takes another identifier.
Quiet == /\ NextId' = NextId
         /\ \A k \in Kind : Working(k)' => /\ Working(k) /\ job'[k].id = job[k].id
                                           /\ job[k].at = "drop" => job'[k].at = "drop"
Alone(k) == \A l \in Kind : l # k => job'[l] = job[l]

\* What a step may do to the rows: nothing; nothing beside the beginning of an import;
\* the save of a job that has not settled; of one that begins; a guard; a start.
Untouched == UNCHANGED rows /\ Quiet
Joins == /\ UNCHANGED rows /\ ~Working("local") /\ Alone("local")
         /\ NextId \in 1..MaxJobs /\ NextId' = NextId + 1
         /\ job'["local"].at = "begun" /\ job'["local"].id = NextId
Saves(k, status) ==
    /\ rows' = Saved(RowOf(k, status)) /\ RowOf(k, status) \in Row
    /\ Working(k) /\ job[k].at # "drop" /\ Alone(k) /\ NextId' = NextId
    /\ job'[k].id = job[k].id /\ (job'[k].at = "drop" \/ status \in Unsettled)
    /\ k \in told => status \notin Good
Begins(k) ==
    /\ rows' = Saved([id |-> NextId, kind |-> k, status |-> "in-progress"])
    /\ ~Working(k) /\ Alone(k)
    /\ NextId \in 1..MaxJobs /\ NextId' = NextId + 1
    /\ job'[k].at = "begun" /\ job'[k].id = NextId
Guards(k) == /\ rows' = Abandoned(k) /\ job[k].at = "drop" /\ Alone(k)
             /\ job'[k].at = "idle" /\ NextId' = NextId
Recovers == rows' = Recovered /\ Quiet

\* Every step does one of these to the rows.
LEMMA Effects ==
    ASSUME JobsInv, [JNext]_jvars
    PROVE  \/ Untouched \/ Joins \/ Recovers
           \/ \E k \in Kind : \/ Begins(k) \/ Guards(k)
                              \/ \E status \in Status : Saves(k, status)
<1> USE DEF flags, tables, who
<1>0. JobsTypeInv /\ job \in [Kind -> JobState] /\ ToldInv
  BY DEF JobsInv, JobsTypeInv
<1>k. /\ {"price", "runtime", "billing", "local"} = Kind /\ Remote \subseteq Kind
      /\ NoJob \in JobState /\ NoJob.at = "idle"
  BY JobFacts
<1>w. \A k \in Kind : job[k] \in JobState
  BY <1>0
<1>m. ASSUME Incident \/ NoIncident \/ UNCHANGED left PROVE NextId' = NextId
  BY <1>0, <1>m, IncidentFacts
<1>d. ASSUME NEW k \in Kind, NEW new \in JobState, Do(k, new),
             Incident \/ NoIncident \/ UNCHANGED left,
             \/ new.at \in {"idle", "asked"}
             \/ /\ Working(k) /\ new.id = job[k].id
                /\ job[k].at = "drop" => new.at = "drop"
      PROVE  Quiet
  <2>1. job'[k] = new /\ \A l \in Kind : l # k => job'[l] = job[l]
    BY <1>0, <1>d, DoFacts
  <2> QED BY <1>d, <1>m, <2>1 DEF Quiet, Working
<1>f. ASSUME NEW k \in Kind, NEW status \in Status, FinishWith(k, status),
             job[k].at \in {"answered", "store"}, k \in told => status \notin Good
      PROVE  Untouched \/ Saves(k, status)
  <2>1. Working(k) /\ job[k] \in JobState
    BY <1>f, <1>w DEF Working
  <2>2. /\ NextId' = NextId /\ job'[k] = [job[k] EXCEPT !.at = "drop"]
        /\ \A l \in Kind : l # k => job'[l] = job[l]
        /\ RowOf(k, status) \in Row
        /\ UNCHANGED rows \/ rows' = Saved(RowOf(k, status))
    BY <1>f, <2>1, FinishFacts
  <2>3. job'[k].at = "drop" /\ job'[k].id = job[k].id
    BY <2>1, <2>2 DEF JobState
  <2>4. ASSUME UNCHANGED rows PROVE Untouched
    BY <2>1, <2>2, <2>3, <2>4 DEF Untouched, Quiet, Working
  <2>5. ASSUME rows' = Saved(RowOf(k, status)) PROVE Saves(k, status)
    BY <1>f, <2>1, <2>2, <2>3, <2>5 DEF Saves, Alone
  <2> QED BY <2>2, <2>4, <2>5
<1>r. ASSUME NEW k \in Kind, NEW label \in {"fetch", "answered", "store", "drop"},
             Working(k), job[k].at # "drop"
      PROVE  /\ [job[k] EXCEPT !.at = label] \in JobState
             /\ [job[k] EXCEPT !.at = label].id = job[k].id
  <2>1. job[k] \in JobState
    BY <1>w
  <2> QED BY <2>1 DEF JobState, JobLabel
<1>1. ASSUME NEW p \in Period, AskBilling(p) PROVE Untouched
  <2>1. /\ job' = [job EXCEPT !["billing"] =
                       [NoJob EXCEPT !.at = "asked", !.owner = auth.who, !.token = keyring,
                                          !.rev = auth.rev, !.period = p]]
        /\ UNCHANGED rows /\ UNCHANGED left
    BY <1>1 DEF AskBilling, Do
  <2>2. job'["billing"].at = "asked"
    BY <1>0, <1>k, <2>1 DEF NoJob
  <2>3. \A l \in Kind : l # "billing" => job'[l] = job[l]
    BY <1>0, <1>k, <2>1
  <2>4. NextId' = NextId
    BY <1>m, <2>1
  <2> QED BY <2>1, <2>2, <2>3, <2>4 DEF Untouched, Quiet, Working
<1>2. ASSUME BeginLocal PROVE Joins
  <2>1. /\ job["local"].at = "idle" /\ UNCHANGED rows /\ Take("job")
        /\ job' = [job EXCEPT !["local"] = [NoJob EXCEPT !.at = "begun", !.id = NextId]]
    BY <1>2 DEF BeginLocal, Do
  <2>2. NextId \in 1..MaxJobs /\ NextId' = NextId + 1
    BY <1>0, <2>1, SpentFacts
  <2>3. job'["local"].at = "begun" /\ job'["local"].id = NextId
    BY <1>0, <1>k, <2>1 DEF NoJob
  <2>4. \A l \in Kind : l # "local" => job'[l] = job[l]
    BY <1>0, <1>k, <2>1
  <2> QED BY <2>1, <2>2, <2>3, <2>4 DEF Joins, Alone, Working
<1>3. ASSUME NEW k \in Remote, BeginRemote(k) PROVE Untouched \/ Begins(k)
  <2>1. ~Working(k) /\ k \in Kind /\ job[k] \in JobState
    BY <1>3, <1>k, <1>w DEF BeginRemote, Working
  <2>2. CASE Take("job")
             /\ job' = [job EXCEPT ![k] = [job[k] EXCEPT !.at = "begun", !.id = NextId]]
             /\ rows' = Saved([id |-> NextId, kind |-> k, status |-> "in-progress"])
    <3>1. NextId \in 1..MaxJobs /\ NextId' = NextId + 1
      BY <1>0, <2>2, SpentFacts
    <3>2. job'[k].at = "begun" /\ job'[k].id = NextId
      BY <1>0, <2>1, <2>2 DEF JobState
    <3>3. \A l \in Kind : l # k => job'[l] = job[l]
      BY <1>0, <2>2
    <3> QED BY <2>1, <2>2, <3>1, <3>2, <3>3 DEF Begins, Alone
  <2>3. CASE Do(k, NoJob) /\ (Incident \/ NoIncident) /\ UNCHANGED rows
    BY <1>d, <1>k, <2>1, <2>3 DEF Untouched
  <2> QED BY <1>3, <2>2, <2>3 DEF BeginRemote, Do
<1>4. ASSUME NEW k \in Kind, Reset(k) PROVE Untouched
  <2>1. /\ job[k].at = "begun" /\ UNCHANGED rows /\ UNCHANGED left
        /\ Do(k, [job[k] EXCEPT !.at = "fetch"])
    BY <1>4 DEF Reset
  <2>2. Working(k)
    BY <2>1 DEF Working
  <2> QED BY <1>d, <1>r, <2>1, <2>2 DEF Untouched
<1>5. ASSUME NEW k \in Kind, Drop(k) PROVE Untouched \/ Guards(k)
  <2>1. /\ job[k].at = "drop" /\ Do(k, NoJob) /\ UNCHANGED left
        /\ UNCHANGED rows \/ rows' = Abandoned(k)
    BY <1>5 DEF Drop
  <2>2. Quiet
    BY <1>d, <1>k, <2>1
  <2>3. job'[k].at = "idle" /\ \A l \in Kind : l # k => job'[l] = job[l]
    BY <1>0, <1>k, <2>1, DoFacts
  <2> QED BY <2>1, <2>2, <2>3 DEF Untouched, Guards, Alone, Quiet
<1>6. ASSUME FetchPrices PROVE Untouched
  <2>1. PICK status \in {"available", "unavailable"} :
            Do("price", [job["price"] EXCEPT !.at = "answered", !.status = status])
    BY <1>6 DEF FetchPrices
  <2>2. job["price"].at = "fetch" /\ UNCHANGED rows /\ UNCHANGED left
    BY <1>6 DEF FetchPrices
  <2>3. job["price"] \in JobState /\ Working("price")
    BY <1>k, <1>w, <2>2 DEF Working
  <2>4. /\ [job["price"] EXCEPT !.at = "answered", !.status = status] \in JobState
        /\ [job["price"] EXCEPT !.at = "answered", !.status = status].id = job["price"].id
    BY <2>3 DEF JobState, JobLabel, Status, Good, Failures
  <2> QED BY <1>d, <1>k, <2>1, <2>2, <2>3, <2>4 DEF Untouched
<1>7. ASSUME SettlePrices PROVE \E status \in Status : Untouched \/ Saves("price", status)
  <2>1. job["price"].at = "answered" /\ FinishWith("price", OutcomeOfPrices)
    BY <1>7 DEF SettlePrices
  <2>2. OutcomeOfPrices \in Status
    BY <1>k, <1>w DEF OutcomeOfPrices, Status, JobState
  <2>3. "price" \in told => OutcomeOfPrices \notin Good
    BY <1>0 DEF ToldInv, Hopeless, OutcomeOfPrices, Good
  <2> QED BY <1>f, <1>k, <2>1, <2>2, <2>3
<1>8. ASSUME Request PROVE Untouched
  <2> DEFINE j == job["runtime"]
  <2>1. j \in JobState /\ j.at = "fetch" /\ Working("runtime") /\ UNCHANGED rows /\ UNCHANGED left
    BY <1>8, <1>k, <1>w DEF Request, Working
  <2>2. PICK a : Do("runtime", CASE j.stage < 2 /\ a # "available" ->
                                              [j EXCEPT !.stage = 4, !.quota = a]
                                       [] j.stage = 2 -> [j EXCEPT !.stage = 3, !.quota = a]
                                       [] OTHER -> [j EXCEPT !.stage = @ + 1])
    BY <1>8 DEF Request
  <2>3. NextId' = NextId
    BY <1>m, <2>1
  <2> HIDE DEF j
  <2>4. \E new : /\ Do("runtime", new) /\ new.id = j.id /\ new.at = j.at
    <3>1. ASSUME NEW s PROVE /\ [j EXCEPT !.stage = s].id = j.id /\ [j EXCEPT !.stage = s].at = j.at
                             /\ [j EXCEPT !.stage = s, !.quota = a].id = j.id
                             /\ [j EXCEPT !.stage = s, !.quota = a].at = j.at
      BY <2>1 DEF JobState
    <3>2. CASE j.stage < 2 /\ a # "available"
      BY <2>2, <3>1, <3>2
    <3>3. CASE j.stage = 2
      BY <2>2, <3>1, <3>3
    <3>4. CASE ~(j.stage < 2 /\ a # "available") /\ j.stage # 2
      BY <2>2, <3>1, <3>4
    <3> QED BY <3>2, <3>3, <3>4
  <2>5. /\ job'["runtime"].id = j.id /\ job'["runtime"].at = "fetch"
        /\ \A l \in Kind : l # "runtime" => job'[l] = job[l]
    BY <1>0, <1>k, <2>1, <2>4 DEF Do
  <2> QED BY <2>1, <2>3, <2>5 DEF Untouched, Quiet, Working, j
<1>9. ASSUME SaveQuota PROVE Untouched
  <2> DEFINE j == job["runtime"]
  <2>1. j \in JobState /\ j.at = "fetch" /\ Working("runtime") /\ UNCHANGED rows
    BY <1>9, <1>k, <1>w DEF SaveQuota, Working
  <2>2. /\ Incident \/ NoIncident
        /\ \/ \E status \in StatusOfQuota :
                 Do("runtime", [j EXCEPT !.at = "answered", !.status = status])
           \/ Do("runtime", [j EXCEPT !.at = "drop"])
    BY <1>9 DEF SaveQuota
  <2>3. \A status \in StatusOfQuota : status \in Status
    BY <1>k, <1>w DEF StatusOfQuota, Status, Good, Failures, JobState
  <2> HIDE DEF j
  <2>4. ASSUME NEW status \in Status
        PROVE  /\ [j EXCEPT !.at = "answered", !.status = status] \in JobState
               /\ [j EXCEPT !.at = "answered", !.status = status].id = j.id
    BY <2>1 DEF JobState, JobLabel
  <2>5. [j EXCEPT !.at = "drop"] \in JobState /\ [j EXCEPT !.at = "drop"].id = j.id
    BY <2>1 DEF JobState, JobLabel
  <2>6. \E new \in JobState : Do("runtime", new) /\ new.id = j.id
    BY <2>2, <2>3, <2>4, <2>5
  <2> QED BY <1>d, <1>k, <2>1, <2>2, <2>6 DEF Untouched, j
<1>10. ASSUME SettleQuota
        PROVE  \E status \in Status : Untouched \/ Saves("runtime", status)
  <2>1. job["runtime"].at = "answered" /\ FinishWith("runtime", job["runtime"].status)
    BY <1>10 DEF SettleQuota
  <2>2. job["runtime"].status \in Status
    BY <1>k, <1>w DEF JobState
  <2>3. "runtime" \in told => job["runtime"].status \notin Good
    BY <1>0, <2>1 DEF ToldInv, Hopeless
  <2> QED BY <1>f, <1>k, <2>1, <2>2, <2>3
<1>11. ASSUME FetchFamily PROVE Untouched
  <2> DEFINE j == job["billing"]
  <2>1. j \in JobState /\ j.at = "fetch" /\ Working("billing") /\ UNCHANGED rows /\ UNCHANGED left
    BY <1>11, <1>k, <1>w DEF FetchFamily, Working
  <2>2. \/ Do("billing", [j EXCEPT !.at = "answered"])
        \/ \E s \in Answers(j) : Do("billing", [j EXCEPT !.shots = Append(@, s)])
    BY <1>11 DEF FetchFamily
  <2> HIDE DEF j
  <2>3. [j EXCEPT !.at = "answered"] \in JobState /\ [j EXCEPT !.at = "answered"].id = j.id
    BY <2>1 DEF JobState, JobLabel
  <2>4. ASSUME NEW s \in Answers(j)
        PROVE  /\ [j EXCEPT !.shots = Append(@, s)] \in JobState
               /\ [j EXCEPT !.shots = Append(@, s)].id = j.id
    <3>1. s \in Snapshot /\ j.shots \in Seq(Snapshot)
      BY <1>0, <2>1, AnswersFacts DEF JobState
    <3>2. Append(j.shots, s) \in Seq(Snapshot)
      BY <3>1
    <3> QED BY <2>1, <3>2 DEF JobState
  <2>5. \E new \in JobState : Do("billing", new) /\ new.id = j.id
    BY <2>2, <2>3, <2>4
  <2> QED BY <1>d, <1>k, <2>1, <2>5 DEF Untouched, j
<1>12. ASSUME CheckCancel
        PROVE  \E status \in Status : Untouched \/ Saves("billing", status)
  <2>1. job["billing"].at = "answered" /\ "canceled" \in Status /\ "canceled" \notin Good
    BY <1>12 DEF CheckCancel, Status, Good
  <2>2. CASE FinishWith("billing", "canceled")
    BY <1>f, <1>k, <2>1, <2>2
  <2>3. CASE /\ Do("billing", [job["billing"] EXCEPT !.at = "store"]) /\ NoIncident
             /\ UNCHANGED rows
    <3>1. Working("billing")
      BY <2>1 DEF Working
    <3> QED BY <1>d, <1>k, <1>r, <2>1, <2>3, <3>1 DEF Untouched
  <2> QED BY <1>12, <2>2, <2>3 DEF CheckCancel
<1>13. ASSUME StoreBilling
       PROVE  \E status \in Status : Untouched \/ Saves("billing", status)
  <2>1. /\ job["billing"].at = "store" /\ "billing" \notin told
        /\ {"available", "partial", "canceled"} \subseteq Status
    BY <1>0, <1>13 DEF StoreBilling, ToldInv, Hopeless, Status, Good
  <2>2. \/ \E status \in {"available", "partial", "canceled"} : FinishWith("billing", status)
        \/ /\ Incident /\ Do("billing", [job["billing"] EXCEPT !.at = "drop"])
           /\ UNCHANGED rows
    BY <1>13 DEF StoreBilling
  <2>3. ASSUME NEW status \in {"available", "partial", "canceled"},
               FinishWith("billing", status)
        PROVE  Untouched \/ Saves("billing", status)
    BY <1>f, <1>k, <2>1, <2>3
  <2>4. CASE /\ Incident /\ Do("billing", [job["billing"] EXCEPT !.at = "drop"])
             /\ UNCHANGED rows
    <3>1. Working("billing")
      BY <2>1 DEF Working
    <3> QED BY <1>d, <1>k, <1>r, <2>1, <2>4, <3>1 DEF Untouched
  <2> QED BY <2>1, <2>2, <2>3, <2>4
<1>14. ASSUME SaveLocalRow PROVE Untouched \/ Saves("local", "in-progress")
  <2>1. job["local"].at = "fetch" /\ Working("local") /\ job["local"] \in JobState
    BY <1>14, <1>k, <1>w DEF SaveLocalRow, Working
  <2>2. /\ [job["local"] EXCEPT !.stage = 1] \in JobState
        /\ [job["local"] EXCEPT !.stage = 1].id = job["local"].id
        /\ [job["local"] EXCEPT !.stage = 1].at = "fetch"
    BY <2>1 DEF JobState
  <2>3. CASE /\ NoIncident /\ rows' = Saved(RowOf("local", "in-progress"))
             /\ Do("local", [job["local"] EXCEPT !.stage = 1])
    <3>1. /\ job'["local"].id = job["local"].id
          /\ \A l \in Kind : l # "local" => job'[l] = job[l]
      BY <1>0, <1>k, <2>2, <2>3, DoFacts
    <3>2. RowOf("local", "in-progress") \in Row
      BY <1>k, <2>1 DEF JobsInv, RowsInv, RowOf, Row, Status
    <3>3. NextId' = NextId
      BY <1>m, <2>3
    <3> QED BY <2>1, <2>3, <3>1, <3>2, <3>3 DEF Saves, Alone, Unsettled, Good
  <2>4. CASE Incident /\ Do("local", [job["local"] EXCEPT !.at = "drop"]) /\ UNCHANGED rows
    BY <1>d, <1>k, <1>r, <2>1, <2>4 DEF Untouched
  <2> QED BY <1>14, <2>3, <2>4 DEF SaveLocalRow
<1>15. ASSUME SyncSource PROVE Untouched
  <2>1. PICK status \in {"canceled", "partial"} \cup Good :
            Do("local", [job["local"] EXCEPT !.at = "answered", !.status = status])
    BY <1>15 DEF SyncSource
  <2>2. job["local"].at = "fetch" /\ UNCHANGED rows /\ UNCHANGED left
    BY <1>15 DEF SyncSource
  <2>3. job["local"] \in JobState /\ Working("local")
    BY <1>k, <1>w, <2>2 DEF Working
  <2>4. /\ [job["local"] EXCEPT !.at = "answered", !.status = status] \in JobState
        /\ [job["local"] EXCEPT !.at = "answered", !.status = status].id = job["local"].id
    BY <2>3 DEF JobState, JobLabel, Status
  <2> QED BY <1>d, <1>k, <2>1, <2>2, <2>3, <2>4 DEF Untouched
<1>16. ASSUME SettleLocal PROVE \E status \in Status : Untouched \/ Saves("local", status)
  <2>1. job["local"].at = "answered" /\ FinishWith("local", job["local"].status)
    BY <1>16 DEF SettleLocal
  <2>2. job["local"].status \in Status
    BY <1>k, <1>w DEF JobState
  <2>3. "local" \in told => job["local"].status \notin Good
    BY <1>0, <2>1 DEF ToldInv, Hopeless
  <2> QED BY <1>f, <1>k, <2>1, <2>2, <2>3
<1>e. ASSUME UNCHANGED job, NextId' = NextId PROVE Quiet
  BY <1>e DEF Quiet, Working
<1>17. ASSUME Cancel \/ ChangeAuthorization \/ ElsewhereChanges PROVE Untouched
  <2>1. Incident /\ UNCHANGED <<rows, job>>
    BY <1>17 DEF Cancel, ChangeAuthorization, ElsewhereChanges
  <2> QED BY <1>e, <1>m, <2>1 DEF Untouched
<1>18. ASSUME ElsewhereStarts PROVE Recovers
  <2>1. Incident /\ rows' = Recovered /\ UNCHANGED job
    BY <1>18 DEF ElsewhereStarts
  <2> QED BY <1>e, <1>m, <2>1 DEF Recovers
<1>19. ASSUME Restart PROVE Recovers
  <2>1. Incident /\ rows' = Recovered /\ job' = [k \in Kind |-> NoJob]
    BY <1>19 DEF Restart
  <2>2. \A k \in Kind : job'[k].at = "idle"
    BY <1>k, <2>1
  <2> QED BY <1>m, <2>1, <2>2 DEF Recovers, Quiet, Working
<1>20. ASSUME (\E k \in Remote : FiveSecondsPass(k)) \/ TimePasses
              \/ UNCHANGED jvars
       PROVE  Untouched
  <2>1. UNCHANGED <<rows, job, left>>
    BY <1>20 DEF FiveSecondsPass, TimePasses, jvars
  <2> QED BY <1>e, <1>m, <2>1 DEF Untouched
<1> QED
  <2>1. /\ {"price", "runtime", "billing", "local"} \subseteq Kind
        /\ Remote \subseteq Kind /\ "in-progress" \in Status
    BY <1>k DEF Status
  <2> QED BY <1>1, <1>2, <1>3, <1>4, <1>5, <1>6, <1>7, <1>8, <1>9, <1>10, <1>11, <1>12, <1>13,
             <1>14, <1>15, <1>16, <1>17, <1>18, <1>19, <1>20, <2>1, JobsSteps

\* Jobs keep identifiers of their own, and the rows of those that have not settled.
LEMMA RowsStep ==
    ASSUME JobsInv, [JNext]_jvars
    PROVE  RowsInv'
<1>0. JobsTypeInv /\ RowsInv /\ rows \in Seq(Row) /\ "local" \in Kind
  BY JobFacts DEF JobsInv, JobsTypeInv
<1>b. \A n \in DOMAIN rows : rows[n] \in Row /\ rows[n].id \in 1..MaxJobs
  <2>1. \A n \in DOMAIN rows : rows[n] \in Row
    BY <1>0
  <2> QED BY <2>1 DEF Row
<1>n. MaxJobs \in Nat /\ NextId \in Nat
  BY <1>0, JobBoundAssumption DEF JobsTypeInv, NextId
<1>2. CASE Joins
  <2>1. /\ UNCHANGED rows /\ ~Working("local")
        /\ \A l \in Kind : l # "local" => job'[l] = job[l]
        /\ NextId \in 1..MaxJobs /\ NextId' = NextId + 1
        /\ job'["local"].at = "begun" /\ job'["local"].id = NextId
    BY <1>2 DEF Joins, Alone
  <2>2. \A k \in Kind : k # "local" => (Working(k)' <=> Working(k))
    BY <2>1 DEF Working
  <2>4. \A n, m \in DOMAIN rows' : rows'[n].id = rows'[m].id => rows'[n] = rows'[m]
    BY <1>0, <2>1 DEF RowsInv
  <2>5. \A n \in DOMAIN rows' : rows'[n].id < NextId' /\ rows'[n].id # NextId
    BY <1>0, <1>b, <1>n, <2>1 DEF RowsInv
  <2>6. ASSUME NEW k \in Kind, Working(k)'
        PROVE  /\ job'[k].id \in 1..MaxJobs /\ job'[k].id < NextId'
               /\ \A l \in Kind : Working(l)' /\ job'[l].id = job'[k].id => l = k
               /\ job'[k].at # "drop" =>
                     \A n \in DOMAIN rows' : rows'[n].id = job'[k].id
                                                => rows'[n].status \in Unsettled
    <3>1. \A l \in Kind : Working(l) => job[l].id < NextId /\ job[l].id \in 1..MaxJobs
      BY <1>0 DEF RowsInv
    <3>2. CASE k = "local"
      <4>1. \A l \in Kind : Working(l)' /\ job'[l].id = job'[k].id => l = k
        <5> SUFFICES ASSUME NEW l \in Kind, Working(l)', l # "local"
                     PROVE  job'[l].id # job'[k].id
          BY <3>2
        <5>1. job'[l] = job[l] /\ job[l].id < NextId /\ job[l].id \in 1..MaxJobs
          BY <2>1, <2>2, <3>1
        <5> QED BY <1>n, <2>1, <3>2, <5>1
      <4> QED BY <1>n, <2>1, <2>5, <3>2, <4>1
    <3>3. CASE k # "local"
      <4>1. /\ Working(k) /\ job'[k] = job[k]
            /\ job[k].id < NextId /\ job[k].id \in 1..MaxJobs
        BY <2>1, <2>2, <2>6, <3>1, <3>3
      <4>2. \A l \in Kind : Working(l)' /\ job'[l].id = job'[k].id => l = k
        <5>1. job'["local"].id # job'[k].id
          BY <1>n, <2>1, <4>1
        <5> QED BY <1>0, <2>1, <2>2, <4>1, <5>1 DEF RowsInv
      <4>3. job[k].at # "drop" => \A n \in DOMAIN rows : rows[n].id = job[k].id
                                                             => rows[n].status \in Unsettled
        BY <1>0, <4>1 DEF RowsInv
      <4> QED BY <1>n, <2>1, <4>1, <4>2, <4>3
    <3> QED BY <3>2, <3>3
  <2> QED BY <2>4, <2>5, <2>6 DEF RowsInv
<1>3. ASSUME NEW k \in Kind, NEW status \in Status, Saves(k, status) PROVE RowsInv'
  <2> DEFINE row == RowOf(k, status)
  <2>1. /\ rows' = Saved(row) /\ row \in Row
        /\ Working(k) /\ job[k].at # "drop" /\ NextId' = NextId
        /\ \A l \in Kind : l # k => job'[l] = job[l]
        /\ job'[k].id = job[k].id /\ (job'[k].at = "drop" \/ status \in Unsettled)
        /\ row.id = job[k].id /\ row.status = status
    BY <1>3 DEF Saves, Alone, RowOf
  <2> HIDE DEF row
  <2>2. \A m \in DOMAIN rows' :
            rows'[m] = row \/ \E n \in DOMAIN rows : rows[n].id # row.id /\ rows'[m] = rows[n]
    BY <1>0, <2>1, SavedFacts
  <2>3. /\ \A n, m \in DOMAIN rows : rows[n].id = rows[m].id => rows[n] = rows[m]
        /\ \A n \in DOMAIN rows : rows[n].id < NextId
        /\ \A l \in Kind : Working(l) =>
              /\ job[l].id \in 1..MaxJobs /\ job[l].id < NextId
              /\ \A j \in Kind : Working(j) /\ job[j].id = job[l].id => j = l
              /\ job[l].at # "drop" =>
                    \A n \in DOMAIN rows : rows[n].id = job[l].id => rows[n].status \in Unsettled
    BY <1>0 DEF RowsInv
  <2>4. \A n, m \in DOMAIN rows' : rows'[n].id = rows'[m].id => rows'[n] = rows'[m]
    BY <2>2, <2>3
  <2>5. \A n \in DOMAIN rows' : rows'[n].id < NextId'
    BY <2>1, <2>2, <2>3
  <2>6. \A l \in Kind : Working(l)' => Working(l) /\ job'[l].id = job[l].id
    BY <2>1 DEF Working
  <2>7. ASSUME NEW l \in Kind, Working(l)'
        PROVE  /\ job'[l].id \in 1..MaxJobs /\ job'[l].id < NextId'
               /\ \A j \in Kind : Working(j)' /\ job'[j].id = job'[l].id => j = l
               /\ job'[l].at # "drop" =>
                     \A n \in DOMAIN rows' : rows'[n].id = job'[l].id
                                                => rows'[n].status \in Unsettled
    <3>1. /\ job'[l].id \in 1..MaxJobs /\ job'[l].id < NextId'
          /\ \A j \in Kind : Working(j)' /\ job'[j].id = job'[l].id => j = l
      BY <2>1, <2>3, <2>6, <2>7
    <3>2. CASE l = k
      BY <2>1, <2>2, <3>1, <3>2
    <3>3. CASE l # k
      <4>1. job'[l] = job[l] /\ job[l].id # row.id /\ Working(l)
        BY <2>1, <2>3, <2>6, <2>7, <3>3
      <4> QED BY <2>2, <2>3, <3>1, <4>1
    <3> QED BY <3>2, <3>3
  <2> QED BY <2>4, <2>5, <2>7 DEF RowsInv
<1>4. ASSUME NEW k \in Kind, Begins(k) PROVE RowsInv'
  <2> DEFINE row == [id |-> NextId, kind |-> k, status |-> "in-progress"]
  <2>1. /\ rows' = Saved(row) /\ ~Working(k)
        /\ \A l \in Kind : l # k => job'[l] = job[l]
        /\ NextId \in 1..MaxJobs /\ NextId' = NextId + 1
        /\ job'[k].at = "begun" /\ job'[k].id = NextId
    BY <1>4 DEF Begins, Alone
  <2>2. row \in Row /\ row.id = NextId /\ row.status \in Unsettled
    BY <2>1 DEF Row, Status, Unsettled
  <2> HIDE DEF row
  <2>3. \A m \in DOMAIN rows' :
            rows'[m] = row \/ \E n \in DOMAIN rows : rows[n].id # row.id /\ rows'[m] = rows[n]
    BY <1>0, <2>1, <2>2, SavedFacts
  <2>4. /\ \A n, m \in DOMAIN rows : rows[n].id = rows[m].id => rows[n] = rows[m]
        /\ \A n \in DOMAIN rows : rows[n].id < NextId
        /\ \A l \in Kind : Working(l) =>
              /\ job[l].id \in 1..MaxJobs /\ job[l].id < NextId
              /\ \A j \in Kind : Working(j) /\ job[j].id = job[l].id => j = l
              /\ job[l].at # "drop" =>
                    \A n \in DOMAIN rows : rows[n].id = job[l].id => rows[n].status \in Unsettled
    BY <1>0 DEF RowsInv
  <2>5. \A n, m \in DOMAIN rows' : rows'[n].id = rows'[m].id => rows'[n] = rows'[m]
    BY <2>3, <2>4
  <2>6. \A n \in DOMAIN rows' : rows'[n].id < NextId'
    <3>1. \A n \in DOMAIN rows : rows[n].id < NextId + 1
      BY <1>b, <1>n, <2>4
    <3>2. NextId < NextId + 1
      BY <1>n
    <3> QED BY <2>1, <2>2, <2>3, <3>1, <3>2
  <2>7. \A l \in Kind : l # k => (Working(l)' <=> Working(l))
    BY <2>1 DEF Working
  <2>8. ASSUME NEW l \in Kind, Working(l)'
        PROVE  /\ job'[l].id \in 1..MaxJobs /\ job'[l].id < NextId'
               /\ \A j \in Kind : Working(j)' /\ job'[j].id = job'[l].id => j = l
               /\ job'[l].at # "drop" =>
                     \A n \in DOMAIN rows' : rows'[n].id = job'[l].id
                                                => rows'[n].status \in Unsettled
    <3>1. CASE l = k
      <4>1. \A j \in Kind : Working(j)' /\ job'[j].id = job'[l].id => j = l
        BY <1>n, <2>1, <2>4, <2>7, <3>1
      <4>2. \A n \in DOMAIN rows' : rows'[n].id = NextId => rows'[n].status \in Unsettled
        BY <2>2, <2>3
      <4> QED BY <1>n, <2>1, <3>1, <4>1, <4>2
    <3>2. CASE l # k
      <4>1. /\ Working(l) /\ job'[l] = job[l]
            /\ job[l].id < NextId /\ job[l].id \in 1..MaxJobs
        BY <2>1, <2>4, <2>7, <2>8, <3>2
      <4>2. job[l].id # NextId /\ job[l].id < NextId'
        BY <1>n, <2>1, <4>1
      <4>3. \A j \in Kind : Working(j)' /\ job'[j].id = job'[l].id => j = l
        BY <2>1, <2>4, <2>7, <4>1, <4>2
      <4>4. job[l].at # "drop" => \A n \in DOMAIN rows' : rows'[n].id = job[l].id
                                                              => rows'[n].status \in Unsettled
        BY <2>2, <2>3, <2>4, <4>1, <4>2
      <4> QED BY <4>1, <4>2, <4>3, <4>4
    <3> QED BY <3>1, <3>2
  <2> QED BY <2>5, <2>6, <2>8 DEF RowsInv
<1>5. ASSUME NEW f, DOMAIN rows' = DOMAIN rows, \A n \in DOMAIN rows : rows'[n] = f[rows[n]],
             \A n \in DOMAIN rows : f[rows[n]].id = rows[n].id,
             \A n \in DOMAIN rows, k \in Kind :
                 (Working(k)' /\ job'[k].id = rows[n].id /\ rows[n].status \in Unsettled)
                     => f[rows[n]].status \in Unsettled,
             Quiet
      PROVE  RowsInv'
  <2>1. /\ NextId' = NextId
        /\ \A k \in Kind : Working(k)' =>
              /\ Working(k) /\ job'[k].id = job[k].id
              /\ job[k].at = "drop" => job'[k].at = "drop"
    <3>1. Quiet
      BY <1>5
    <3> QED BY <3>1 DEF Quiet
  <2>2. \A n, m \in DOMAIN rows' : rows'[n].id = rows'[m].id => rows'[n] = rows'[m]
    BY <1>0, <1>5 DEF RowsInv
  <2>3. \A n \in DOMAIN rows' : rows'[n].id < NextId'
    BY <1>0, <1>5, <2>1 DEF RowsInv
  <2>4. ASSUME NEW k \in Kind, Working(k)'
        PROVE  /\ job'[k].id \in 1..MaxJobs /\ job'[k].id < NextId'
               /\ \A l \in Kind : Working(l)' /\ job'[l].id = job'[k].id => l = k
               /\ job'[k].at # "drop" =>
                     \A n \in DOMAIN rows' : rows'[n].id = job'[k].id
                                                => rows'[n].status \in Unsettled
    <3>1. /\ job'[k].id \in 1..MaxJobs /\ job'[k].id < NextId'
          /\ \A l \in Kind : Working(l)' /\ job'[l].id = job'[k].id => l = k
      BY <1>0, <2>1, <2>4 DEF RowsInv
    <3>2. job'[k].at # "drop" => \A n \in DOMAIN rows : rows[n].id = job'[k].id
                                                            => rows[n].status \in Unsettled
      BY <1>0, <2>1, <2>4 DEF RowsInv
    <3> QED BY <1>5, <2>4, <3>1, <3>2
  <2> QED BY <2>2, <2>3, <2>4 DEF RowsInv
<1>6. ASSUME NEW k \in Kind, Guards(k) PROVE RowsInv'
  <2>1. /\ rows' = Abandoned(k) /\ job[k].at = "drop" /\ job'[k].at = "idle"
        /\ \A l \in Kind : l # k => job'[l] = job[l]
        /\ NextId' = NextId
    BY <1>6 DEF Guards, Alone
  <2>2. Quiet /\ Working(k) /\ job[k].id \in 1..MaxJobs
    BY <1>0, <2>1 DEF Quiet, Working, RowsInv
  <2>3. /\ DOMAIN rows' = DOMAIN rows
        /\ \A n \in DOMAIN rows : rows'[n] = IF rows[n] = RowOf(k, "in-progress")
                                             THEN RowOf(k, "unavailable") ELSE rows[n]
    BY <1>0, <2>1, <2>2, AbandonedFacts
  <2> DEFINE f == [r \in Row |-> IF r = RowOf(k, "in-progress")
                                      THEN RowOf(k, "unavailable") ELSE r]
  <2>4. \A n \in DOMAIN rows : rows'[n] = f[rows[n]]
    BY <1>b, <2>3
  <2>5. \A n \in DOMAIN rows : f[rows[n]].id = rows[n].id
    BY <1>b DEF RowOf
  <2>6. ASSUME NEW n \in DOMAIN rows, NEW l \in Kind, Working(l)', job'[l].id = rows[n].id,
               rows[n].status \in Unsettled
        PROVE  f[rows[n]].status \in Unsettled
    <3>1. l # k /\ job'[l] = job[l] /\ Working(l)
      BY <2>1, <2>6 DEF Working
    <3>2. rows[n].id # job[k].id
      BY <1>0, <2>2, <2>6, <3>1 DEF RowsInv
    <3>3. rows[n] # RowOf(k, "in-progress")
      BY <3>2 DEF RowOf
    <3> QED BY <1>b, <2>6, <3>3
  <2> HIDE DEF f
  <2> QED BY <1>5, <2>2, <2>3, <2>4, <2>5, <2>6
<1>1. CASE Untouched
  <2> DEFINE f == [r \in Row |-> r]
  <2>1. UNCHANGED rows /\ Quiet
    BY <1>1 DEF Untouched
  <2>2. \A n \in DOMAIN rows : f[rows[n]] = rows[n]
    BY <1>b
  <2> HIDE DEF f
  <2> QED BY <1>5, <2>1, <2>2
<1>7. CASE Recovers
  <2>1. rows' = Recovered /\ Quiet
    BY <1>7 DEF Recovers
  <2>2. /\ DOMAIN rows' = DOMAIN rows
        /\ \A n \in DOMAIN rows : rows'[n] = IF rows[n].status = "in-progress"
                                             THEN [rows[n] EXCEPT !.status = "interrupted"]
                                             ELSE rows[n]
        /\ \A n \in DOMAIN rows : rows'[n].id = rows[n].id
    BY <1>0, <2>1, RecoveredFacts
  <2> DEFINE f == [r \in Row |-> IF r.status = "in-progress"
                                      THEN [r EXCEPT !.status = "interrupted"] ELSE r]
  <2>3. \A n \in DOMAIN rows : rows'[n] = f[rows[n]] /\ f[rows[n]].id = rows[n].id
    BY <1>b, <2>2
  <2>4. \A n \in DOMAIN rows : rows[n].status \in Unsettled => f[rows[n]].status \in Unsettled
    BY <1>b DEF Unsettled, Row
  <2> HIDE DEF f
  <2> QED BY <1>5, <2>1, <2>2, <2>3, <2>4
<1> QED BY <1>1, <1>2, <1>3, <1>4, <1>6, <1>7, Effects

\* A cancelled job keeps its flag, and gets no success, until the next one resets it.
LEMMA ToldStep ==
    ASSUME JobsInv, [JNext]_jvars
    PROVE  ToldInv'
<1> USE DEF flags, tables, who
<1>0. /\ JobsTypeInv /\ job \in [Kind -> JobState] /\ cancel \in [Kind -> BOOLEAN]
      /\ told \subseteq Kind
      /\ \A k \in told : cancel[k] /\ Hopeless(k, job[k])
  BY DEF JobsInv, JobsTypeInv, ToldInv
<1>k. /\ {"price", "runtime", "billing", "local"} = Kind /\ Remote \subseteq Kind
      /\ NoJob \in JobState /\ NoJob.at = "idle"
  BY JobFacts
<1>w. \A k \in Kind : job[k] \in JobState
  BY <1>0
<1>d. ASSUME UNCHANGED <<told, cancel>>, NEW k \in Kind, NEW new, Do(k, new),
             k \in told => Hopeless(k, new)
      PROVE  ToldInv'
  <2>1. job' = [job EXCEPT ![k] = new]
    BY <1>d DEF Do
  <2>2. job'[k] = new /\ \A l \in Kind : l # k => job'[l] = job[l]
    BY <1>0, <2>1
  <2> QED BY <1>0, <1>d, <2>2 DEF ToldInv
<1>h. \A k : Hopeless(k, NoJob)
  BY <1>k DEF Hopeless
<1>a. ASSUME NEW k \in Kind, NEW label \in JobLabel
      PROVE  [job[k] EXCEPT !.at = label].at = label
  BY <1>w DEF JobState
<1>f. ASSUME UNCHANGED <<told, cancel>>, NEW k \in Kind, NEW status,
             FinishWith(k, status)
      PROVE  ToldInv'
  <2>1. Do(k, [job[k] EXCEPT !.at = "drop"])
    BY <1>f DEF FinishWith
  <2>2. [job[k] EXCEPT !.at = "drop"].at = "drop"
    BY <1>a DEF JobLabel
  <2>3. Hopeless(k, [job[k] EXCEPT !.at = "drop"])
    BY <2>2 DEF Hopeless
  <2> QED BY <1>d, <1>f, <2>1, <2>3
<1>1. ASSUME NEW p \in Period, AskBilling(p) PROVE ToldInv'
  <2> DEFINE new == [NoJob EXCEPT !.at = "asked", !.owner = auth.who, !.token = keyring,
                                       !.rev = auth.rev, !.period = p]
  <2>1. Do("billing", new) /\ UNCHANGED <<told, cancel>>
    BY <1>1 DEF AskBilling
  <2>2. Hopeless("billing", new)
    <3>1. new.at = "asked"
      BY DEF NoJob
    <3> QED BY <3>1 DEF Hopeless
  <2> QED BY <1>d, <1>k, <2>1, <2>2
<1>2. ASSUME BeginLocal PROVE ToldInv'
  <2> DEFINE new == [NoJob EXCEPT !.at = "begun", !.id = NextId]
  <2>1. Do("local", new) /\ UNCHANGED <<told, cancel>>
    BY <1>2 DEF BeginLocal
  <2>2. Hopeless("local", new)
    <3>1. new.at = "begun"
      BY DEF NoJob
    <3> QED BY <3>1 DEF Hopeless
  <2> QED BY <1>d, <1>k, <2>1, <2>2
<1>3. ASSUME NEW k \in Remote, BeginRemote(k) PROVE ToldInv'
  <2> DEFINE new == [job[k] EXCEPT !.at = "begun", !.id = NextId]
  <2>1. (Do(k, new) \/ Do(k, NoJob)) /\ UNCHANGED <<told, cancel>>
    BY <1>3 DEF BeginRemote
  <2>2. Hopeless(k, new) /\ Hopeless(k, NoJob)
    <3>1. job[k] \in JobState
      BY <1>k, <1>w
    <3>2. new.at = "begun"
      BY <3>1 DEF JobState
    <3>3. Hopeless(k, new)
      BY <3>2 DEF Hopeless
    <3> QED BY <1>h, <3>3
  <2> QED BY <1>d, <1>k, <2>1, <2>2
<1>4. ASSUME NEW k \in Kind, Reset(k) PROVE ToldInv'
  <2>1. /\ job' = [job EXCEPT ![k] = [job[k] EXCEPT !.at = "fetch"]]
        /\ cancel' = [cancel EXCEPT ![k] = FALSE] /\ told' = told \ {k}
    BY <1>4 DEF Reset, Do
  <2>2. \A l \in told' : l \in told /\ job'[l] = job[l] /\ cancel'[l] = cancel[l]
    BY <1>0, <2>1
  <2> QED BY <1>0, <2>2 DEF ToldInv
<1>5. ASSUME NEW k \in Kind, Drop(k) PROVE ToldInv'
  BY <1>5, <1>d, <1>h, <1>k DEF Drop
<1>6. ASSUME FetchPrices PROVE ToldInv'
  <2>1. PICK new : Do("price", new)
    BY <1>6 DEF FetchPrices
  <2>2. Hopeless("price", new) /\ UNCHANGED <<told, cancel>>
    BY <1>6 DEF Hopeless, FetchPrices
  <2> QED BY <1>d, <1>k, <2>1, <2>2
<1>7. ASSUME SettlePrices \/ SettleQuota \/ SettleLocal PROVE ToldInv'
  <2>1. \E k \in Kind : \E status : FinishWith(k, status)
    BY <1>7, <1>k DEF SettlePrices, SettleQuota, SettleLocal
  <2>2. UNCHANGED <<told, cancel>>
    BY <1>7 DEF SettlePrices, SettleQuota, SettleLocal
  <2> QED BY <1>f, <2>1, <2>2
<1>8. ASSUME Request PROVE ToldInv'
  <2> DEFINE j == job["runtime"]
  <2>1. /\ j \in JobState /\ j.at = "fetch" /\ j.stage \in 0..3 /\ UNCHANGED <<told, cancel>>
        /\ "runtime" \in told => cancel["runtime"] /\ Hopeless("runtime", j)
    BY <1>0, <1>8, <1>k, <1>w DEF Request, JobState
  <2>2. PICK a : /\ cancel["runtime"] => a = "canceled"
                 /\ Do("runtime", CASE j.stage < 2 /\ a # "available" ->
                                              [j EXCEPT !.stage = 4, !.quota = a]
                                         [] j.stage = 2 -> [j EXCEPT !.stage = 3, !.quota = a]
                                         [] OTHER -> [j EXCEPT !.stage = @ + 1])
    BY <1>8 DEF Request
  <2> HIDE DEF j
  <2>3. CASE j.stage < 2 /\ a # "available"
    <3>1. Do("runtime", [j EXCEPT !.stage = 4, !.quota = a])
      BY <2>2, <2>3
    <3>2. Hopeless("runtime", [j EXCEPT !.stage = 4, !.quota = a])
      <4>1. /\ [j EXCEPT !.stage = 4, !.quota = a].at = "fetch"
            /\ [j EXCEPT !.stage = 4, !.quota = a].quota = a
        BY <2>1 DEF JobState
      <4> QED BY <2>3, <4>1 DEF Hopeless
    <3> QED BY <1>d, <1>k, <2>1, <3>1, <3>2
  <2>4. CASE j.stage = 2
    <3>1. Do("runtime", [j EXCEPT !.stage = 3, !.quota = a])
      BY <2>1, <2>2, <2>4
    <3>2. "runtime" \in told => Hopeless("runtime", [j EXCEPT !.stage = 3, !.quota = a])
      <4>1. /\ [j EXCEPT !.stage = 3, !.quota = a].at = "fetch"
            /\ [j EXCEPT !.stage = 3, !.quota = a].quota = a
        BY <2>1 DEF JobState
      <4> QED BY <2>1, <2>2, <4>1 DEF Hopeless
    <3> QED BY <1>d, <1>k, <2>1, <3>1, <3>2
  <2>5. CASE ~(j.stage < 2 /\ a # "available") /\ j.stage # 2
    <3>1. Do("runtime", [j EXCEPT !.stage = @ + 1])
      BY <2>2, <2>5
    <3>2. "runtime" \in told => Hopeless("runtime", [j EXCEPT !.stage = @ + 1])
      <4>1. /\ [j EXCEPT !.stage = @ + 1].at = "fetch"
            /\ [j EXCEPT !.stage = @ + 1].quota = j.quota
        BY <2>1 DEF JobState
      <4>2. "runtime" \in told => j.stage = 3 /\ j.quota # "available"
        BY <2>1, <2>2, <2>5 DEF Hopeless
      <4> QED BY <4>1, <4>2 DEF Hopeless
    <3> QED BY <1>d, <1>k, <2>1, <3>1, <3>2
  <2> QED BY <2>3, <2>4, <2>5
<1>9. ASSUME SaveQuota PROVE ToldInv'
  <2> DEFINE j == job["runtime"]
  <2>1. /\ j \in JobState /\ j.at = "fetch" /\ j.stage = 4 /\ UNCHANGED <<told, cancel>>
        /\ "runtime" \in told => Hopeless("runtime", j)
    BY <1>0, <1>9, <1>k, <1>w DEF SaveQuota
  <2>2. \/ \E status \in StatusOfQuota :
              Do("runtime", [j EXCEPT !.at = "answered", !.status = status])
        \/ Do("runtime", [j EXCEPT !.at = "drop"])
    BY <1>9 DEF SaveQuota
  <2>3. "runtime" \in told => \A status \in StatusOfQuota : status \notin Good
    BY <2>1 DEF StatusOfQuota, Hopeless, JobState, Good
  <2> HIDE DEF j
  <2>4. ASSUME NEW status \in StatusOfQuota,
               Do("runtime", [j EXCEPT !.at = "answered", !.status = status])
        PROVE  ToldInv'
    <3>1. /\ [j EXCEPT !.at = "answered", !.status = status].at = "answered"
          /\ [j EXCEPT !.at = "answered", !.status = status].status = status
      BY <2>1 DEF JobState
    <3>2. "runtime" \in told => Hopeless("runtime", [j EXCEPT !.at = "answered", !.status = status])
      BY <2>3, <3>1 DEF Hopeless
    <3> QED BY <1>d, <1>k, <2>1, <2>4, <3>2
  <2>5. ASSUME Do("runtime", [j EXCEPT !.at = "drop"]) PROVE ToldInv'
    <3>1. [j EXCEPT !.at = "drop"].at = "drop"
      BY <2>1 DEF JobState
    <3>2. Hopeless("runtime", [j EXCEPT !.at = "drop"])
      BY <3>1 DEF Hopeless
    <3> QED BY <1>d, <1>k, <2>1, <2>5, <3>2
  <2> QED BY <2>2, <2>4, <2>5
<1>10. ASSUME FetchFamily PROVE ToldInv'
  <2> DEFINE j == job["billing"]
  <2>1. /\ j \in JobState /\ j.at = "fetch" /\ UNCHANGED <<told, cancel>>
        /\ \/ Do("billing", [j EXCEPT !.at = "answered"])
           \/ \E s \in Answers(j) : Do("billing", [j EXCEPT !.shots = Append(@, s)])
    BY <1>10, <1>k, <1>w DEF FetchFamily
  <2> HIDE DEF j
  <2>2. [j EXCEPT !.at = "answered"].at = "answered"
    BY <2>1 DEF JobState
  <2>3. \A s : [j EXCEPT !.shots = Append(@, s)].at = "fetch"
    BY <2>1 DEF JobState
  <2>4. \E new : Do("billing", new) /\ Hopeless("billing", new)
    BY <2>1, <2>2, <2>3 DEF Hopeless
  <2> QED BY <1>d, <1>k, <2>1, <2>4
<1>11. ASSUME CheckCancel PROVE ToldInv'
  <2>1. UNCHANGED <<told, cancel>>
    BY <1>11 DEF CheckCancel
  <2>2. CASE cancel["billing"]
    BY <1>11, <1>f, <1>k, <2>1, <2>2 DEF CheckCancel
  <2>3. CASE ~cancel["billing"]
    <3>1. Do("billing", [job["billing"] EXCEPT !.at = "store"])
      BY <1>11, <2>3 DEF CheckCancel
    <3>2. "billing" \notin told
      BY <1>0, <2>3
    <3> QED BY <1>d, <1>k, <2>1, <3>1, <3>2
  <2> QED BY <2>2, <2>3
<1>12. ASSUME StoreBilling PROVE ToldInv'
  <2>1. UNCHANGED <<told, cancel>>
    BY <1>12 DEF StoreBilling
  <2>2. \/ \E status : FinishWith("billing", status)
        \/ Do("billing", [job["billing"] EXCEPT !.at = "drop"])
    BY <1>12 DEF StoreBilling
  <2>3. Hopeless("billing", [job["billing"] EXCEPT !.at = "drop"])
    <3>1. [job["billing"] EXCEPT !.at = "drop"].at = "drop"
      BY <1>a, <1>k DEF JobLabel
    <3> QED BY <3>1 DEF Hopeless
  <2> QED BY <1>d, <1>f, <1>k, <2>1, <2>2, <2>3
<1>13. ASSUME SaveLocalRow PROVE ToldInv'
  <2>1. /\ UNCHANGED <<told, cancel>> /\ job["local"].at = "fetch"
        /\ \/ Do("local", [job["local"] EXCEPT !.stage = 1])
           \/ Do("local", [job["local"] EXCEPT !.at = "drop"])
    BY <1>13 DEF SaveLocalRow
  <2>2. Hopeless("local", [job["local"] EXCEPT !.at = "drop"])
    <3>1. [job["local"] EXCEPT !.at = "drop"].at = "drop"
      BY <1>a, <1>k DEF JobLabel
    <3> QED BY <3>1 DEF Hopeless
  <2>3. [job["local"] EXCEPT !.stage = 1].at = "fetch"
    BY <1>k, <1>w, <2>1 DEF JobState
  <2>4. Hopeless("local", [job["local"] EXCEPT !.stage = 1])
    BY <2>3 DEF Hopeless
  <2> QED BY <1>d, <1>k, <2>1, <2>2, <2>4
<1>14. ASSUME SyncSource PROVE ToldInv'
  <2> DEFINE j == job["local"]
  <2>1. PICK status : /\ cancel["local"] => status = "canceled"
                      /\ Do("local", [j EXCEPT !.at = "answered", !.status = status])
    BY <1>14 DEF SyncSource
  <2>2. UNCHANGED <<told, cancel>> /\ j \in JobState
    BY <1>14, <1>k, <1>w DEF SyncSource
  <2>3. "local" \in told => status = "canceled"
    BY <1>0, <2>1
  <2> HIDE DEF j
  <2>4. [j EXCEPT !.at = "answered", !.status = status].status = status
    BY <2>2 DEF JobState
  <2>5. "local" \in told => Hopeless("local", [j EXCEPT !.at = "answered", !.status = status])
    BY <2>3, <2>4 DEF Hopeless, Good
  <2> QED BY <1>d, <1>k, <2>1, <2>2, <2>5
<1>15. ASSUME Cancel PROVE ToldInv'
  <2>1. /\ cancel' = [k \in Kind |-> TRUE] /\ UNCHANGED job
        /\ told' = told \cup {k \in Kind : WillLook(k)}
    BY <1>15 DEF Cancel
  <2>2. ASSUME NEW k \in Kind, WillLook(k) PROVE Hopeless(k, job[k])
    <3>1. job[k] \in JobState /\ job[k].stage \in 0..4
      BY <1>w DEF JobState
    <3>2. CASE k = "runtime"
      <4>1. job[k].at = "fetch" /\ job[k].stage < 3
        BY <2>2, <3>2 DEF WillLook
      <4> QED BY <3>1, <3>2, <4>1 DEF Hopeless
    <3>3. CASE k = "local"
      BY <2>2, <3>3 DEF WillLook, Hopeless
    <3>4. CASE k = "billing" \/ k = "price"
      BY <2>2, <3>4 DEF WillLook, Hopeless
    <3> QED BY <1>k, <3>2, <3>3, <3>4
  <2>3. \A k \in told' : k \in Kind /\ cancel'[k]
    BY <1>0, <2>1
  <2>4. \A k \in told' : Hopeless(k, job'[k])
    BY <1>0, <2>1, <2>2
  <2> QED BY <2>3, <2>4 DEF ToldInv
<1>16. ASSUME Restart PROVE ToldInv'
  BY <1>16 DEF Restart, ToldInv
<1>17. ASSUME \/ ChangeAuthorization \/ ElsewhereChanges \/ ElsewhereStarts
              \/ (\E k \in Remote : FiveSecondsPass(k)) \/ TimePasses
              \/ UNCHANGED jvars
       PROVE  ToldInv'
  <2>1. UNCHANGED <<told, cancel, job>>
    BY <1>17 DEF ChangeAuthorization, ElsewhereChanges, ElsewhereStarts,
                 FiveSecondsPass, TimePasses, jvars
  <2> QED BY <1>0, <2>1 DEF ToldInv
<1> QED BY <1>1, <1>2, <1>3, <1>4, <1>5, <1>6, <1>7, <1>8, <1>9, <1>10, <1>11, <1>12, <1>13,
           <1>14, <1>15, <1>16, <1>17, JobsSteps

\* At first nothing is stored and no job works.
LEMMA JobsInit ==
    ASSUME JInit
    PROVE  JobsInv
<1>k. /\ {"price", "runtime", "billing", "local"} = Kind
      /\ NoJob \in JobState /\ NoJob.at = "idle" /\ NoJob.shots = <<>>
  BY JobFacts
<1>1. /\ busy = [k \in Kind |-> FALSE] /\ cancel = [k \in Kind |-> FALSE]
      /\ cooling = {} /\ told = {}
      /\ job = [k \in Kind |-> NoJob]
      /\ rows = <<>> /\ shots = <<>> /\ quotas = <<>>
      /\ auth = [who |-> Somebody, failed |-> FALSE, rev |-> 0] /\ keyring = Somebody
      /\ now = 0 /\ left = [job |-> MaxJobs, incident |-> MaxIncidents]
  BY DEF JInit
<1>2. /\ MaxJobs \in Nat /\ MaxIncidents \in Nat /\ MaxTime \in Nat
  BY JobBoundAssumption
<1>3. \A k \in Kind : job[k] = NoJob
  BY <1>1
<1>4. JobsTypeInv
  <2>1. busy \in [Kind -> BOOLEAN] /\ cancel \in [Kind -> BOOLEAN]
    BY <1>1
  <2>2. job \in [Kind -> JobState]
    BY <1>1, <1>k
  <2>3. rows \in Seq(Row) /\ shots \in Seq(Snapshot) /\ quotas \in Seq(Status)
    BY <1>1
  <2>4. auth \in [who : Owner, failed : BOOLEAN, rev : Nat] /\ keyring \in Owner
    BY <1>1 DEF Owner
  <2>5. now \in 0..MaxTime /\ left \in [job : 0..MaxJobs, incident : Nat]
    BY <1>1, <1>2
  <2> QED BY <1>1, <2>1, <2>2, <2>3, <2>4, <2>5 DEF JobsTypeInv
<1>5. OwnersInv
  <2>1. job["billing"].shots = <<>>
    BY <1>3, <1>k
  <2> QED BY <1>1, <2>1 DEF OwnersInv, UsageIsOfOwner
<1>6. RowsInv
  BY <1>1, <1>3, <1>k DEF RowsInv, Working
<1>7. ToldInv
  BY <1>1 DEF ToldInv
<1> QED BY <1>4, <1>5, <1>6, <1>7 DEF JobsInv

\* Every step keeps the invariant of the jobs.
THEOREM JobsInductive == JSpec => []JobsInv
<1>1. JInit => JobsInv
  BY JobsInit
<1>2. JobsInv /\ [JNext]_jvars => JobsInv'
  <2> SUFFICES ASSUME JobsInv, [JNext]_jvars PROVE JobsInv'
    OBVIOUS
  <2>1. JobsTypeInv' /\ OwnersInv' /\ RowsInv' /\ ToldInv'
    BY JobsTypeStep, OwnersStep, RowsStep, ToldStep
  <2> QED BY <2>1 DEF JobsInv
<1> QED BY <1>1, <1>2, PTL DEF JSpec

\* The usage stored for an account is that account's (UsageIsOfOwner).
THEOREM OwnerHolds == JSpec => []UsageIsOfOwner
<1>1. JobsInv => UsageIsOfOwner
  BY DEF JobsInv, OwnersInv
<1> QED BY <1>1, JobsInductive, PTL

\* A row that has an outcome keeps it, whichever save, guard or start comes next.
LEMMA OutcomesStep ==
    ASSUME JobsInv, [JNext]_jvars,
           NEW n \in DOMAIN rows, NEW m \in DOMAIN rows',
           rows'[m].id = rows[n].id, rows[n].status \notin Unsettled
    PROVE  rows'[m] = rows[n]
<1>0. JobsTypeInv /\ RowsInv /\ rows \in Seq(Row) /\ rows[n] \in Row
  BY DEF JobsInv, JobsTypeInv
<1>1. \A o \in DOMAIN rows : rows[o].id = rows[n].id => rows[o] = rows[n]
  BY <1>0 DEF RowsInv
<1>2. CASE UNCHANGED rows
  BY <1>1, <1>2
<1>3. ASSUME NEW k \in Kind, NEW status \in Status, Saves(k, status)
      PROVE  rows'[m] = rows[n]
  <2> DEFINE row == RowOf(k, status)
  <2>1. rows' = Saved(row) /\ row \in Row /\ Working(k) /\ job[k].at # "drop"
    BY <1>3 DEF Saves
  <2>2. row.id = job[k].id
    BY DEF RowOf
  <2>3. rows[n].id # row.id
    BY <1>0, <2>1, <2>2 DEF RowsInv
  <2> HIDE DEF row
  <2>4. rows'[m] = row \/ \E o \in DOMAIN rows : rows'[m] = rows[o]
    BY <1>0, <2>1, SavedFacts
  <2> QED BY <1>1, <2>3, <2>4
<1>4. ASSUME NEW k \in Kind, Begins(k) PROVE rows'[m] = rows[n]
  <2> DEFINE row == [id |-> NextId, kind |-> k, status |-> "in-progress"]
  <2>1. rows' = Saved(row) /\ NextId \in 1..MaxJobs
    BY <1>4 DEF Begins
  <2>2. row \in Row
    BY <2>1 DEF Row, Status
  <2>3. rows[n].id < NextId /\ rows[n].id \in 1..MaxJobs /\ MaxJobs \in Nat
    BY <1>0, JobBoundAssumption DEF RowsInv, Row
  <2>4. rows[n].id # row.id
    BY <2>1, <2>3
  <2> HIDE DEF row
  <2>5. rows'[m] = row \/ \E o \in DOMAIN rows : rows'[m] = rows[o]
    BY <1>0, <2>1, <2>2, SavedFacts
  <2> QED BY <1>1, <2>4, <2>5
<1>5. ASSUME NEW k \in Kind, Guards(k) PROVE rows'[m] = rows[n]
  <2>1. rows' = Abandoned(k) /\ Working(k)
    BY <1>5 DEF Guards, Working
  <2>2. job[k].id \in 1..MaxJobs
    BY <1>0, <2>1 DEF RowsInv
  <2>3. /\ m \in DOMAIN rows
        /\ \/ rows'[m] = rows[m]
           \/ /\ rows[m] = RowOf(k, "in-progress")
              /\ rows'[m] = RowOf(k, "unavailable")
    BY <1>0, <2>1, <2>2, AbandonedFacts
  <2>4. ASSUME rows[m] = RowOf(k, "in-progress"), rows'[m] = RowOf(k, "unavailable")
        PROVE  FALSE
    <3>1. rows[m].id = rows'[m].id /\ rows[m].status \in Unsettled
      BY <2>4 DEF RowOf, Unsettled
    <3> QED BY <1>1, <2>3, <3>1
  <2> QED BY <1>1, <2>3, <2>4
<1>6. CASE Recovers
  <2>1. rows' = Recovered
    BY <1>6 DEF Recovers
  <2>2. /\ m \in DOMAIN rows /\ rows'[m].id = rows[m].id
        /\ rows[m].status # "in-progress" => rows'[m] = rows[m]
    BY <1>0, <2>1, RecoveredFacts
  <2> QED BY <1>1, <2>2 DEF Unsettled
<1> QED BY <1>2, <1>3, <1>4, <1>5, <1>6, Effects DEF Untouched, Joins

\* An outcome that was recorded stands (OutcomesStand).
THEOREM OutcomesHold == JSpec => OutcomesStand
<1>1. JobsInv /\ [JNext]_jvars =>
         \A n \in DOMAIN rows, m \in DOMAIN rows' :
            (rows'[m].id = rows[n].id /\ rows[n].status \notin {"in-progress", "interrupted"})
               => rows'[m] = rows[n]
  BY OutcomesStep DEF Unsettled
<1> QED BY <1>1, JobsInductive, PTL DEF JSpec, OutcomesStand

\* A new row of a kind that was cancelled is no success, whatever saves it.
LEMMA CancelStep ==
    ASSUME JobsInv, [JNext]_jvars,
           NEW m \in DOMAIN rows', rows'[m].kind \in told,
           \A n \in DOMAIN rows : rows[n] # rows'[m]
    PROVE  rows'[m].status \notin Good
<1>0. JobsTypeInv /\ RowsInv
  BY DEF JobsInv
<1>1. ~ UNCHANGED rows
  OBVIOUS
<1>2. ASSUME NEW k \in Kind, NEW status \in Status, Saves(k, status)
      PROVE  rows'[m].status \notin Good
  <2> DEFINE row == RowOf(k, status)
  <2>1. rows' = Saved(row) /\ row \in Row /\ (k \in told => status \notin Good)
    BY <1>2 DEF Saves
  <2>2. row.kind = k /\ row.status = status
    BY DEF RowOf
  <2> HIDE DEF row
  <2>3. rows'[m] = row
    BY <1>0, <2>1, SavedFacts
  <2> QED BY <2>1, <2>2, <2>3
<1>3. ASSUME NEW k \in Kind, Begins(k) PROVE rows'[m].status \notin Good
  <2> DEFINE row == [id |-> NextId, kind |-> k, status |-> "in-progress"]
  <2>1. rows' = Saved(row) /\ NextId \in 1..MaxJobs
    BY <1>3 DEF Begins
  <2>2. row \in Row /\ row.status \notin Good
    BY <2>1 DEF Row, Status, Good
  <2> HIDE DEF row
  <2>3. rows'[m] = row
    BY <1>0, <2>1, <2>2, SavedFacts
  <2> QED BY <2>2, <2>3
<1>4. ASSUME NEW k \in Kind, Guards(k) PROVE rows'[m].status \notin Good
  <2>1. rows' = Abandoned(k) /\ job[k].id \in 1..MaxJobs
    BY <1>0, <1>4 DEF Guards, Working, RowsInv
  <2>2. m \in DOMAIN rows /\ rows'[m] # rows[m]
    BY <1>0, <2>1, AbandonedFacts
  <2>3. rows'[m] = RowOf(k, "unavailable")
    BY <1>0, <2>1, <2>2, AbandonedFacts
  <2> QED BY <2>3 DEF RowOf, Good
<1>5. CASE Recovers
  <2>1. rows' = Recovered
    BY <1>5 DEF Recovers
  <2>2. /\ m \in DOMAIN rows /\ rows'[m] # rows[m]
        /\ rows'[m] = IF rows[m].status = "in-progress"
                      THEN [rows[m] EXCEPT !.status = "interrupted"] ELSE rows[m]
    BY <1>0, <2>1, RecoveredFacts
  <2>3. rows \in Seq(Row)
    BY <1>0 DEF JobsTypeInv
  <2>4. rows[m] \in Row
    BY <2>2, <2>3
  <2>5. rows'[m].status = "interrupted"
    BY <2>2, <2>4 DEF Row
  <2> QED BY <2>5 DEF Good
<1> QED BY <1>1, <1>2, <1>3, <1>4, <1>5, Effects DEF Untouched, Joins

\* A job that is cancelled while it fetches is never recorded as a success (CancelIsKept).
THEOREM CancelHolds == JSpec => CancelIsKept
<1>1. JobsInv /\ [JNext]_jvars =>
         \A m \in DOMAIN rows' :
            (rows'[m].kind \in told /\ \A n \in DOMAIN rows : rows[n] # rows'[m])
               => rows'[m].status \notin Good
  BY CancelStep
<1> QED BY <1>1, JobsInductive, PTL DEF JSpec, CancelIsKept

\* The snapshots change only where an answer is stored, and the trim spares successes.
LEMMA SuccessStep ==
    ASSUME JobsInv, [JNext]_jvars
    PROVE  /\ \A n \in DOMAIN shots : shots[n].status \in Good =>
                 \E m \in DOMAIN shots' : /\ Alike(shots[n], shots'[m])
                                          /\ shots'[m].period = shots[n].period
                                          /\ shots'[m].status \in Good
           /\ (\E n \in DOMAIN quotas : quotas[n] \in Good)
                 => \E n \in DOMAIN quotas' : quotas'[n] \in Good
<1> USE DEF flags, tables, who
<1>0. JobsTypeInv /\ job \in [Kind -> JobState]
  BY DEF JobsInv, JobsTypeInv
<1>w. job["runtime"] \in JobState /\ job["billing"] \in JobState
  BY <1>0, JobFacts
<1>1. \/ UNCHANGED shots
      \/ \E new \in Seq(Snapshot) : shots' = Inserted(new)
  <2>1. CASE StoreBilling
    <3>1. job["billing"].shots \in Seq(Snapshot)
      BY <1>w DEF JobState
    <3> QED BY <2>1, <3>1 DEF StoreBilling
  <2>2. CASE ~StoreBilling
    BY <2>2, JobsSteps DEF AskBilling, BeginLocal, BeginRemote, Reset, Drop,
          FetchPrices, SettlePrices, Request, SaveQuota, SettleQuota,
          FetchFamily, CheckCancel, SaveLocalRow, SyncSource,
          SettleLocal, Cancel, ChangeAuthorization, ElsewhereChanges,
          ElsewhereStarts, Restart, FiveSecondsPass, TimePasses, jvars
  <2> QED BY <2>1, <2>2
<1>2. UNCHANGED quotas \/ \E q \in Status : quotas' = KeptQuotas(Append(quotas, q))
  <2>1. CASE SaveQuota
    <3>1. \A q \in StatusOfQuota : q \in Status
      BY <1>w DEF StatusOfQuota, Status, Good, Failures, JobState
    <3> QED BY <2>1, <3>1 DEF SaveQuota
  <2>2. CASE ~SaveQuota
    BY <2>2, JobsSteps DEF AskBilling, BeginLocal, BeginRemote, Reset, Drop,
          FetchPrices, SettlePrices, Request, SettleQuota,
          FetchFamily, CheckCancel, StoreBilling, SaveLocalRow,
          SyncSource, SettleLocal, Cancel, ChangeAuthorization,
          ElsewhereChanges, ElsewhereStarts, Restart, FiveSecondsPass,
          TimePasses, jvars
  <2> QED BY <2>1, <2>2
<1>3. ASSUME NEW n \in DOMAIN shots, shots[n].status \in Good
      PROVE  \E m \in DOMAIN shots' : /\ Alike(shots[n], shots'[m])
                                      /\ shots'[m].period = shots[n].period
                                      /\ shots'[m].status \in Good
  <2>1. CASE UNCHANGED shots
    <3>1. Alike(shots[n], shots[n])
      BY DEF Alike
    <3> QED BY <1>3, <2>1, <3>1
  <2>2. ASSUME NEW new \in Seq(Snapshot), shots' = Inserted(new)
        PROVE  \E m \in DOMAIN shots' : /\ Alike(shots[n], shots'[m])
                                        /\ shots'[m].period = shots[n].period
                                        /\ shots'[m].status \in Good
    BY <1>0, <1>3, <2>2, InsertedKeeps
  <2> QED BY <1>1, <2>1, <2>2
<1>4. ASSUME \E n \in DOMAIN quotas : quotas[n] \in Good
      PROVE  \E n \in DOMAIN quotas' : quotas'[n] \in Good
  <2>1. CASE UNCHANGED quotas
    BY <1>4, <2>1
  <2>2. ASSUME NEW q \in Status, quotas' = KeptQuotas(Append(quotas, q))
        PROVE  \E n \in DOMAIN quotas' : quotas'[n] \in Good
    BY <1>0, <1>4, <2>2, KeptFacts
  <2> QED BY <1>2, <2>1, <2>2
<1> QED BY <1>3, <1>4

\* The last successes survive every later answer (LastSuccessKept).
THEOREM SuccessHolds == JSpec => LastSuccessKept
<1>1. JobsInv /\ [JNext]_jvars =>
         /\ \A n \in DOMAIN shots : shots[n].status \in Good =>
               \E m \in DOMAIN shots' : /\ Alike(shots[n], shots'[m])
                                        /\ shots'[m].period = shots[n].period
                                        /\ shots'[m].status \in Good
         /\ (\E n \in DOMAIN quotas : quotas[n] \in Good)
               => \E n \in DOMAIN quotas' : quotas'[n] \in Good
  BY SuccessStep
<1> QED BY <1>1, JobsInductive, PTL DEF JSpec, LastSuccessKept
==============================================================================
