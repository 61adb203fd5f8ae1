------------------------------ MODULE Captures ------------------------------
(***************************************************************************)
(* The table captures and upsert_captures of repository.py, which every    *)
(* writer of the table calls: the steps of the pipeline, the WebDAV job    *)
(* and the requests for favourites and dates.                              *)
(*                                                                         *)
(* The function reads the ids of the destinations it is given, merges its  *)
(* records in memory and writes them.  Between the read and the write      *)
(* other writers may write: the read takes no lock, and no index makes a   *)
(* destination unique.  Rows are never deleted.                            *)
(***************************************************************************)
EXTENDS Integers, Sequences

CONSTANTS
  Threads,   \* writers of the table
  Sources,   \* where photos come from
  Names,     \* file names
  Days,      \* the days photos were taken on
  MaxRows    \* bound: rows of the table

ASSUME CapturesAssumption ==
  /\ MaxRows \in Nat
  /\ "" \notin Sources /\ "" \notin Days /\ "" \notin Names /\ Names # {}
  /\ "incoming" \notin Days

NoSource == ""
NoDay    == ""
NoPath   == <<"", "">>
Paths    == (Days \cup {"incoming"}) \X Names

\* A capture, in memory or as a row. id is 0 before the first write, ver
\* stands for size and mtime, zip for the archive of that day.
Capture ==
  [id: Nat, name: Names, src: Sources \cup {NoSource}, ver: Nat,
   dest: Paths \cup {NoPath}, zip: Days \cup {NoDay}]

WithId(c, i) ==
  [id |-> i, name |-> c.name, src |-> c.src, ver |-> c.ver, dest |-> c.dest, zip |-> c.zip]
WithDest(c, d) ==
  [id |-> c.id, name |-> c.name, src |-> c.src, ver |-> c.ver, dest |-> d, zip |-> c.zip]
WithZip(c, z) ==
  [id |-> c.id, name |-> c.name, src |-> c.src, ver |-> c.ver, dest |-> c.dest, zip |-> z]

VARIABLES
  rows,   \* the table; the id of a row is its index
  favs,   \* ids of the rows with is_favourite
  stage,  \* stage[t]: where thread t is
  caps,   \* caps[t]: the records t works on
  known   \* known[t]: existing_by_dest

table   == <<rows, favs>>
writers == <<stage, caps, known>>

\* Records lead to rows.
HaveRows(C) == \A c \in C : c.id \in 0 .. Len(rows)

Loaded == {rows[i] : i \in DOMAIN rows}
RowsAt(dest) == {i \in DOMAIN rows : rows[i].dest = dest}
RowsOf(src)  == {i \in DOMAIN rows : rows[i].src = src}

CapturesInit ==
  /\ rows = <<>>
  /\ favs = {}
  /\ stage = [t \in Threads |-> "idle"]
  /\ caps = [t \in Threads |-> {}]
  /\ known = [t \in Threads |-> <<>>]

Goto(t, label, records) ==
  /\ stage' = [stage EXCEPT ![t] = label]
  /\ caps' = [caps EXCEPT ![t] = records]
  /\ known' = [known EXCEPT ![t] = <<>>]

\* The call: nothing to write, nothing done.
Upsert(t, records) == Goto(t, IF records = {} THEN "idle" ELSE "lookup", records)

\* When several rows have one destination, the dictionary keeps one of them.
Lookups(t) ==
  LET dests == {c.dest : c \in caps[t]} \ {NoPath}
      taken == {d \in dests : RowsAt(d) # {}}
  IN  {k \in [taken -> DOMAIN rows] : \A d \in taken : k[d] \in RowsAt(d)}

Lookup(t) ==
  /\ stage[t] = "lookup"
  /\ \E k \in Lookups(t) : known' = [known EXCEPT ![t] = k]
  /\ stage' = [stage EXCEPT ![t] = "write"]
  /\ UNCHANGED <<table, caps>>

\* The id a record is written under; 0 is a fresh one.
Identified(t, c) ==
  WithId(c, IF c.dest \in DOMAIN known[t] THEN known[t][c.dest] ELSE c.id)

\* Mutated form: records are merged by id only.
AllDests(C) == {C}

\* The record that comes last under a destination wins, then the one that comes
\* last under an id. The order of the records is that of a query without ORDER
\* BY, or of a directory: any.
OnePerDest(C) ==
  {W \in SUBSET C :
     /\ \A c, d \in W : c.dest = d.dest /\ c.dest # NoPath => c = d
     /\ \A c \in C : \E d \in W : d.dest = c.dest /\ (c.dest = NoPath => d = c)}

OnePerId(C) ==
  {W \in SUBSET C :
     /\ \A c, d \in W : c.id = d.id /\ c.id # 0 => c = d
     /\ \A c \in C : \E d \in W : d.id = c.id /\ (c.id = 0 => d = c)}

\* Mutated form: an id before the first row.
FreshFromZero(i) == Len(rows)

Fresh(i) == Len(rows) + i

\* The n records without an id, one after the other.
Unstored(W) == {c \in W : c.id = 0}
Insertions(W, n) ==
  {f \in [1 .. n -> Unstored(W)] :
     /\ \A i, j \in 1 .. n : f[i] = f[j] => i = j
     /\ \A c \in Unstored(W) : \E i \in 1 .. n : f[i] = c}

Updated(W, i) ==
  IF \E c \in W : c.id = i THEN CHOOSE c \in W : c.id = i ELSE rows[i]

Stored(W, n, new) ==
  [i \in 1 .. Len(rows) + n |->
     IF i <= Len(rows) THEN Updated(W, i)
     ELSE WithId(new[i - Len(rows)], Fresh(i - Len(rows)))]

\* ON CONFLICT DO UPDATE leaves id and is_favourite.
Write(t, after) ==
  /\ stage[t] = "write"
  /\ \E P \in OnePerDest({Identified(t, c) : c \in caps[t]}) :
       \E W \in OnePerId(P) :
         \E n \in 0 .. MaxRows - Len(rows) :
           \E new \in Insertions(W, n) : rows' = Stored(W, n, new)
  /\ UNCHANGED favs
  /\ Goto(t, after, {})

\* The transaction is refused, and the exception ends the caller.
UpsertFails(t) ==
  /\ stage[t] \in {"lookup", "write"}
  /\ Goto(t, "idle", {})
  /\ UNCHANGED table

-----------------------------------------------------------------------------
(***************************************************************************)
(* Properties.                                                             *)
(***************************************************************************)

OneRowPerDest ==
  \A i, j \in DOMAIN rows :
    rows[i].dest = rows[j].dest /\ rows[i].dest # NoPath => i = j

Stages ==
  {"idle", "lookup", "write", "organize", "copy", "compress", "zip", "favourite"}

\* The id of a row is its index.
TableOK ==
  /\ rows \in Seq(Capture)
  /\ \A i \in DOMAIN rows : rows[i].id = i
  /\ favs \subseteq DOMAIN rows

WritersOK ==
  /\ stage \in [Threads -> Stages]
  /\ caps \in [Threads -> SUBSET Capture]
  /\ \A t \in Threads : HaveRows(caps[t])
  /\ known = [t \in Threads |-> known[t]]
  /\ \A t \in Threads : /\ DOMAIN known[t] \subseteq Paths
                        /\ known[t] \in [DOMAIN known[t] -> DOMAIN rows]

\* What t read is what the table says now.
UpToDate(t) == known[t] \in Lookups(t)
Writes(t)   == stage[t] = "write" /\ rows' # rows

\* A write whose lookup is still right leaves one row for each destination,
\* whatever the records are: the point of existing_by_dest and of the merge by
\* destination (repository.py 720-775). A second row takes another writer in between.
UpsertKeepsOneRow ==
  [][ \A t \in Threads :
        Writes(t) /\ stage'[t] # "write" /\ UpToDate(t) /\ OneRowPerDest
          => OneRowPerDest' ]_<<table, writers>>

\* Writing back what the table holds changes nothing, so that a sync without
\* changes, a classification and a second run of any step are harmless.
UpsertIsIdempotent ==
  [][ \A t \in Threads :
        UpToDate(t) /\ OneRowPerDest /\ caps[t] \subseteq Loaded
          => ~(Writes(t) /\ stage'[t] # "write") ]_<<table, writers>>
=============================================================================
