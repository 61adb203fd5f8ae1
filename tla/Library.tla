------------------------------ MODULE Library -------------------------------
(***************************************************************************)
(* The writers of the table captures over one library folder:              *)
(*   "pipeline": the steps sync, organize, classify and compress, one at a *)
(*     time and in any selection;                                          *)
(*   "webdav": the job that stores files under incoming/ and registers     *)
(*     them (its own steps are those of WebDAVJob);                        *)
(*   "page": a request that marks a favourite or fixes dates, besides      *)
(*     those that delete photos, at any moment.                            *)
(* A file of the library is known by the source and version it was copied  *)
(* from, and whether it is whole.  What becomes of a deleted photo, and a  *)
(* restore, which may replace a file, are in Trash.                        *)
(***************************************************************************)
EXTENDS Captures

CONSTANTS
  Folder,      \* photos in source folders
  Remote,      \* photos on SSH servers
  Phone,       \* photos the WebDAV job brings
  Name,        \* Name[s]: its file name
  DayOf,       \* DayOf[n]: the day the name or the timestamp tells, or NoDay
  MaxSteps,    \* bound: steps of the pipeline
  MaxEvents,   \* bound: edits of photos, requests, errors and crashes
  MaxDeletes   \* bound: photos moved to the trash

ASSUME LibraryAssumption ==
  /\ Threads = {"pipeline", "webdav", "page"}
  /\ Sources = Folder \cup Remote \cup Phone
  /\ Name \in [Sources -> Names]
  /\ DayOf \in [Names -> Days \cup {NoDay}]
  /\ {MaxSteps, MaxEvents, MaxDeletes} \subseteq Nat

LibraryFile == [src: Sources, ver: Nat, whole: BOOLEAN]

VARIABLES
  version,  \* version[s]: what the source holds, 0 for nothing
  lib,      \* lib[path]: the file there
  zips,     \* zips[d]: the archive of a day
  deleted,  \* history: paths a photo was moved to the trash from
  todo,     \* captures that organize or the date fix has not come to
  days,     \* days that compress has not come to
  hand,     \* the capture being copied, or Nothing
  wish,     \* the favourite asked for: a path and the flag
  left      \* what the bounds leave: steps, events, deletions

files == <<version, lib, zips, deleted>>
local == <<todo, days, hand, wish>>
vars  == <<table, writers, files, local, left>>

Nothing == [id |-> 0, name |-> CHOOSE n \in Names : TRUE, src |-> NoSource,
            ver |-> 0, dest |-> NoPath, zip |-> NoDay]
NoWish  == <<NoPath, FALSE>>

Exists(path) == path \in DOMAIN lib
With(path, file) ==
  [q \in DOMAIN lib \cup {path} |-> IF q = path THEN file ELSE lib[q]]
File(s, v)   == [src |-> s, ver |-> v, whole |-> TRUE]
Part(f)      == [src |-> f.src, ver |-> f.ver, whole |-> FALSE]
Whole(f)     == [src |-> f.src, ver |-> f.ver, whole |-> TRUE]
Incoming(s)  == <<"incoming", Name[s]>>
Target(c)    == <<DayOf[c.name], c.name>>

Spend(what) == left[what] > 0 /\ left' = [left EXCEPT ![what] = @ - 1]

Init ==
  /\ CapturesInit
  /\ version = [s \in Sources |-> IF s \in Phone THEN 0 ELSE 1]
  /\ lib = <<>>
  /\ zips = [d \in Days |-> "absent"]
  /\ deleted = {}
  /\ todo = {} /\ days = {} /\ hand = Nothing /\ wish = NoWish
  /\ left = [steps |-> MaxSteps, events |-> MaxEvents, deletions |-> MaxDeletes]

\* Somebody edits a photo at its source.
SourceChanges(s) ==
  /\ s \in Folder \cup Remote
  /\ Spend("events")
  /\ version' = [version EXCEPT ![s] = @ + 1]
  /\ UNCHANGED <<table, writers, lib, zips, deleted, local>>

-----------------------------------------------------------------------------
(***************************************************************************)
(* Step 1: sync_captures.                                                  *)
(***************************************************************************)

\* Folders that are not mounted, files that cannot be read and servers that do
\* not answer are passed over.
Listings == SUBSET {s \in Folder \cup Remote : version[s] > 0}

\* previous, by source: one row of each source the table knows.
Previous(found) ==
  {p \in [found -> 0 .. Len(rows)] :
     \A s \in found : IF RowsOf(s) = {} THEN p[s] = 0 ELSE p[s] \in RowsOf(s)}

New(s, id) ==
  [id |-> id, name |-> Name[s], src |-> s, ver |-> version[s],
   dest |-> NoPath, zip |-> NoDay]

Synced(s, i) ==
  IF i = 0 THEN New(s, 0)
  ELSE IF rows[i].ver = version[s] THEN rows[i]
  ELSE IF s \in Remote
    THEN WithZip(WithDest(New(s, i), rows[i].dest), rows[i].zip)
  ELSE New(s, i)

Sync ==
  /\ stage["pipeline"] = "idle"
  /\ Spend("steps")
  /\ \E found \in Listings : \E p \in Previous(found) :
       Upsert("pipeline", {Synced(s, p[s]) : s \in found})
  /\ UNCHANGED <<table, files, local>>

\* The table cannot be read: every photo counts as new.
SyncUnread ==
  /\ stage["pipeline"] = "idle"
  /\ Spend("events")
  /\ \E found \in Listings : Upsert("pipeline", {New(s, 0) : s \in found})
  /\ UNCHANGED <<table, files, local>>

-----------------------------------------------------------------------------
(***************************************************************************)
(* Step 2: organize_captures_by_date.                                      *)
(***************************************************************************)

Organize ==
  /\ stage["pipeline"] = "idle"
  /\ Spend("steps")
  /\ rows # <<>>
  /\ todo' = Loaded
  /\ Goto("pipeline", "organize", {})
  /\ UNCHANGED <<table, files, days, hand, wish>>

\* Capture c has been dealt with, and the list now holds it as d.
Dealt(c, d) ==
  /\ todo' = todo \ {c}
  /\ Goto("pipeline", "organize", caps["pipeline"] \cup {d})

Placed(c) == WithDest(c, Target(c))

\* Mutated form: the destination is set even when the copy failed.
PlacedAnyway(c) == Placed(c)

NotPlaced(c) == c

\* Mutated form: no look at what is there.
NeverThere(c) == FALSE

AlreadyThere(c) == Exists(Target(c))

Readable(c) ==
  /\ c.src # NoSource
  /\ IF c.src \in Phone THEN Exists(Incoming(c.src)) ELSE version[c.src] > 0

Original(c) ==
  IF c.src \in Phone THEN lib[Incoming(c.src)] ELSE File(c.src, version[c.src])

Dated(c) == DayOf[c.name] # NoDay

Organizing(c) == stage["pipeline"] = "organize" /\ c \in todo

Existed(c) ==
  /\ Organizing(c)
  /\ Dated(c)
  /\ AlreadyThere(c)
  /\ Dealt(c, Placed(c))
  /\ UNCHANGED <<table, files, days, hand, wish, left>>

\* No date, or no original.
NotPlaceable(c) ==
  /\ Organizing(c)
  /\ Dated(c) => ~AlreadyThere(c) /\ ~Readable(c)
  /\ Dealt(c, NotPlaced(c))
  /\ UNCHANGED <<table, files, days, hand, wish, left>>

BeginCopy(c) ==
  /\ Organizing(c)
  /\ Dated(c) /\ ~AlreadyThere(c) /\ Readable(c)
  /\ lib' = With(Target(c), Part(Original(c)))
  /\ hand' = c
  /\ Goto("pipeline", "copy", caps["pipeline"])
  /\ UNCHANGED <<table, version, zips, deleted, todo, days, wish, left>>

\* The copy is of what was opened; its date is set last, at its path.
EndCopy ==
  /\ stage["pipeline"] = "copy"
  /\ Readable(hand) /\ Exists(Target(hand))
  /\ lib' = With(Target(hand), Whole(lib[Target(hand)]))
  /\ Dealt(hand, Placed(hand))
  /\ hand' = Nothing
  /\ UNCHANGED <<table, version, zips, deleted, days, wish, left>>

\* OSError, ValueError and RuntimeError are caught, of the copy and of the change
\* of its date, also those for an original or a copy that was deleted meanwhile;
\* what was written stays.
CopyFails ==
  /\ stage["pipeline"] = "copy"
  /\ IF Readable(hand) /\ Exists(Target(hand)) THEN Spend("events")
                                               ELSE UNCHANGED left
  /\ \/ UNCHANGED lib
     \/ /\ Exists(Target(hand))
        /\ lib' = With(Target(hand), Whole(lib[Target(hand)]))
  /\ Dealt(hand, NotPlaced(hand))
  /\ hand' = Nothing
  /\ UNCHANGED <<table, version, zips, deleted, days, wish>>

\* Other exceptions, those of paramiko, end the step before its upsert.
CopyRaises ==
  /\ stage["pipeline"] = "copy"
  /\ hand.src \in Remote
  /\ Spend("events")
  /\ Goto("pipeline", "idle", {})
  /\ todo' = {} /\ hand' = Nothing
  /\ UNCHANGED <<table, files, days, wish>>

EndOrganize ==
  /\ stage["pipeline"] = "organize"
  /\ todo = {}
  /\ Upsert("pipeline", caps["pipeline"])
  /\ UNCHANGED <<table, files, local, left>>

-----------------------------------------------------------------------------
(***************************************************************************)
(* Steps 3 and 4: classify_captures, which changes only tags, and          *)
(* compress_folders_by_day.                                                *)
(***************************************************************************)

Classify ==
  /\ stage["pipeline"] = "idle"
  /\ Spend("steps")
  /\ Upsert("pipeline", Loaded)
  /\ UNCHANGED <<table, files, local>>

HasFiles(d) == \E n \in Names : Exists(<<d, n>>)

\* A day folder stays when its photos are deleted.
DayFolders == {d \in Days : HasFiles(d) \/ \E n \in Names : <<d, n>> \in deleted}

Compress ==
  /\ stage["pipeline"] = "idle"
  /\ Spend("steps")
  /\ days' = DayFolders
  /\ Goto("pipeline", "compress", Loaded)
  /\ UNCHANGED <<table, files, todo, hand, wish>>

ZipIsValid(d) == zips[d] = "valid"

Marked(d) ==
  {IF c.dest[1] = d THEN WithZip(c, d) ELSE c : c \in caps["pipeline"]}

Zipped(d) ==
  /\ stage["pipeline"] = "compress" /\ d \in days
  /\ ZipIsValid(d)
  /\ days' = days \ {d}
  /\ Goto("pipeline", "compress", Marked(d))
  /\ UNCHANGED <<table, files, todo, hand, wish, left>>

BeginZip(d) ==
  /\ stage["pipeline"] = "compress" /\ d \in days
  /\ ~ZipIsValid(d) /\ HasFiles(d)
  /\ zips' = [zips EXCEPT ![d] = "open"]
  /\ Goto("pipeline", "zip", caps["pipeline"])
  /\ UNCHANGED <<table, version, lib, deleted, local, left>>

\* The folder is empty by now.
NothingToZip(d) ==
  /\ stage["pipeline"] = "compress" /\ d \in days
  /\ ~ZipIsValid(d) /\ ~HasFiles(d)
  /\ days' = days \ {d}
  /\ UNCHANGED <<table, writers, files, todo, hand, wish, left>>

EndZip(d) ==
  /\ stage["pipeline"] = "zip" /\ zips[d] = "open" /\ d \in days
  /\ zips' = [zips EXCEPT ![d] = "valid"]
  /\ days' = days \ {d}
  /\ Goto("pipeline", "compress", Marked(d))
  /\ UNCHANGED <<table, version, lib, deleted, todo, hand, wish, left>>

\* One of its photos was deleted meanwhile, or the disk is full. The archive is
\* closed on the way out of an exception, so that it is valid but short; or it
\* cannot be closed; or it does not pass the test and is removed.
ZipFails(d) ==
  /\ stage["pipeline"] = "zip" /\ zips[d] = "open" /\ d \in days
  /\ Spend("events")
  /\ \E z \in {"valid", "broken", "absent"} : zips' = [zips EXCEPT ![d] = z]
  /\ days' = days \ {d}
  /\ Goto("pipeline", "compress", caps["pipeline"])
  /\ UNCHANGED <<table, version, lib, deleted, todo, hand, wish>>

EndCompress ==
  /\ stage["pipeline"] = "compress"
  /\ days = {}
  /\ Upsert("pipeline", caps["pipeline"])
  /\ UNCHANGED <<table, files, local, left>>

-----------------------------------------------------------------------------
(***************************************************************************)
(* The WebDAV job, one photo at a time, and the requests of the page.      *)
(***************************************************************************)

Record(s, v) ==
  [id |-> 0, name |-> Name[s], src |-> s, ver |-> v, dest |-> Incoming(s), zip |-> NoDay]

\* existing is read when the job starts, before the file is looked at or stored.
RegisterNew(s, v) ==
  IF RowsAt(Incoming(s)) = {} THEN Upsert("webdav", {Record(s, v)})
  ELSE UNCHANGED writers

\* The phone has a new photo or a new version, or its file was deleted here.
Download(s) ==
  /\ s \in Phone
  /\ stage["webdav"] = "idle"
  /\ \E v \in {version[s], version[s] + 1} :
       /\ v > 0
       /\ IF v = version[s] THEN ~Exists(Incoming(s)) /\ UNCHANGED left
          ELSE IF version[s] = 0 THEN UNCHANGED left
          ELSE Spend("events")
       /\ version' = [version EXCEPT ![s] = v]
       /\ lib' = With(Incoming(s), File(s, v))
       /\ RegisterNew(s, v)
  /\ UNCHANGED <<table, zips, deleted, local>>

\* The file is complete, but its row may have moved to another destination.
Skip(s) ==
  /\ s \in Phone
  /\ stage["webdav"] = "idle"
  /\ Exists(Incoming(s)) /\ RowsAt(Incoming(s)) = {}
  /\ RegisterNew(s, version[s])
  /\ UNCHANGED <<table, files, local, left>>

Minimal(path) ==
  [id |-> 0, name |-> path[2], src |-> NoSource, ver |-> 0, dest |-> path, zip |-> NoDay]

\* The page may still show a photo that was deleted.
ToggleFavourite(path, flag) ==
  /\ stage["page"] = "idle"
  /\ Spend("events")
  /\ wish' = <<path, flag>>
  /\ IF RowsAt(path) = {} THEN Upsert("page", {Minimal(path)})
     ELSE Goto("page", "favourite", {})
  /\ UNCHANGED <<table, files, todo, days, hand>>

SetFavourite ==
  /\ stage["page"] = "favourite"
  /\ favs' = IF wish[2] THEN favs \cup RowsAt(wish[1]) ELSE favs \ RowsAt(wish[1])
  /\ wish' = NoWish
  /\ Goto("page", "idle", {})
  /\ UNCHANGED <<rows, files, todo, days, hand, left>>

\* bulk_action moves the photo to the trash, and its capture stays as it is.
Delete(path) ==
  /\ Exists(path)
  /\ Spend("deletions")
  /\ lib' = [q \in DOMAIN lib \ {path} |-> lib[q]]
  /\ deleted' = deleted \cup {path}
  /\ UNCHANGED <<table, writers, version, zips, local>>

\* fix_capture_dates loads all rows and upserts, one by one, those whose date is
\* wrong: one of them here.
FixDate(c) ==
  /\ stage["page"] = "idle"
  /\ Spend("events")
  /\ c \in Loaded
  /\ Upsert("page", {c})
  /\ UNCHANGED <<table, files, local>>

-----------------------------------------------------------------------------
After(t) == IF t = "page" /\ wish # NoWish THEN "favourite" ELSE "idle"

LookupBy(t) == Lookup(t) /\ UNCHANGED <<files, local, left>>
WriteBy(t)  == Write(t, After(t)) /\ UNCHANGED <<files, local, left>>

WriteFails(t) ==
  /\ Spend("events")
  /\ UpsertFails(t)
  /\ wish' = IF t = "page" THEN NoWish ELSE wish
  /\ UNCHANGED <<files, todo, days, hand>>

Crash ==
  /\ Spend("events")
  /\ stage' = [t \in Threads |-> "idle"]
  /\ caps' = [t \in Threads |-> {}]
  /\ known' = [t \in Threads |-> <<>>]
  /\ todo' = {} /\ days' = {} /\ hand' = Nothing /\ wish' = NoWish
  /\ zips' = [d \in Days |-> IF zips[d] = "open" THEN "broken" ELSE zips[d]]
  /\ UNCHANGED <<table, version, lib, deleted>>

Pipeline ==
  \/ Sync \/ SyncUnread
  \/ Organize \/ EndCopy \/ CopyFails \/ CopyRaises \/ EndOrganize
  \/ \E c \in todo : Existed(c) \/ NotPlaceable(c) \/ BeginCopy(c)
  \/ Classify \/ Compress \/ EndCompress
  \/ \E d \in days : Zipped(d) \/ BeginZip(d) \/ NothingToZip(d)
                    \/ EndZip(d) \/ ZipFails(d)

WebDAV == \E s \in Phone : Download(s) \/ Skip(s)

Page ==
  \/ \E path \in DOMAIN lib \cup deleted, flag \in BOOLEAN : ToggleFavourite(path, flag)
  \/ \E path \in DOMAIN lib : Delete(path)
  \/ \E c \in Loaded : FixDate(c)
  \/ SetFavourite

Next ==
  \/ Pipeline \/ WebDAV \/ Page
  \/ \E t \in Threads : LookupBy(t) \/ WriteBy(t) \/ WriteFails(t)
  \/ \E s \in Sources : SourceChanges(s)
  \/ Crash

Spec == Init /\ [][Next]_vars

-----------------------------------------------------------------------------
(***************************************************************************)
(* Properties.                                                             *)
(***************************************************************************)

FilesOK ==
  /\ version \in [Sources -> Nat]
  /\ deleted \subseteq Paths
  /\ DOMAIN lib \subseteq Paths /\ lib \in [DOMAIN lib -> LibraryFile]
  /\ zips \in [Days -> {"absent", "open", "broken", "valid"}]

LocalOK ==
  /\ todo \subseteq Capture
  /\ days \subseteq Days
  /\ hand \in Capture
  /\ HaveRows(todo \cup {hand})
  /\ wish \in (Paths \cup {NoPath}) \X BOOLEAN

\* Rows, records and files keep to their types, the id of a row is its index, and
\* a record that has an id leads to a row, however long ago it was loaded.
TypeOK == TableOK /\ WritersOK /\ FilesOK /\ LocalOK

\* The pipeline, the job and the favourites never make a row name a file or an
\* archive that is not there: not after a failed copy, a crash in the middle of
\* one, or a write of records loaded before somebody else wrote (organize.py
\* 57-79, compress.py 61-100). Only a file that a request deleted is missing:
\* its capture "stays but dest_path now invalid" (bulk_action.py 74), also when
\* records loaded before the deletion are written after it.
RowsNameFiles ==
  \A i \in DOMAIN rows :
    /\ rows[i].dest # NoPath => Exists(rows[i].dest) \/ rows[i].dest \in deleted
    /\ rows[i].zip # NoDay => zips[rows[i].zip] = "valid"

\* A whole file of a day folder is never written again, and no valid archive is,
\* however often the steps run, whatever fails (organize.py 63-71) and whatever
\* requests delete while they run: such a file stays as it is or goes to the trash.
NeverOverwritten ==
  [][ /\ \A p \in DOMAIN lib :
           p[1] # "incoming" /\ lib[p].whole =>
             IF Exists(p)' THEN lib'[p] = lib[p] ELSE Delete(p)
      /\ \A d \in Days : zips[d] = "valid" => zips'[d] = "valid" ]_vars

\* organize.py 18: "Copy each capture from the database to dest/YYYY/MM/DD".
OrganizeCopiesEach ==
  [][ EndOrganize =>
        \A c \in caps["pipeline"] :
          c.src # NoSource /\ c.dest = Target(c) /\ Exists(c.dest)
            => lib[c.dest].src = c.src ]_vars
=============================================================================
