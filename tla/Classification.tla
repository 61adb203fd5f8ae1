---------------------------- MODULE Classification ----------------------------
(***************************************************************************)
(* The step classify_captures: tags in the table captures, and what was     *)
(* read of each photo in the table photo_exif, which is read again only     *)
(* when the path or the mtime of the photo has changed.                     *)
(*                                                                         *)
(* Meanwhile photos are edited, replaced and removed, the date fix writes   *)
(* back rows it has read before, and the process is killed, also between    *)
(* the two tables; between the runs of the step sync and organize move the  *)
(* path of a row.  The metadata of a photo are known by its edition.        *)
(***************************************************************************)
EXTENDS Integers

CONSTANTS
  Pictures,      \* captures of the table
  Bare,          \* editions without EXIF
  LastEdition,   \* bound: editions of a photo
  LastStamp,     \* bound: different mtimes
  MaxMishaps     \* bound: rows moved or rewritten, files removed, kills

ASSUME ClassificationAssumption ==
  /\ {LastEdition, LastStamp} \subseteq Nat \ {0} /\ MaxMishaps \in Nat
  /\ Bare \subseteq 1..LastEdition

Spots == {"source", "library"}
Absent == [ed |-> 0, mtime |-> 0]

VARIABLES
  disk,       \* disk[p][l]: edition and mtime of photo p at place l
  newest,     \* newest[p]: the last edition of p
  row,        \* row[p]: the place the capture names, and its tags
  record,     \* record[p]: its row of photo_exif
  fixing,     \* fixing[p]: the row the date fix has read
  stage,      \* where the step is
  held,       \* held[p]: the row the step has read, then tagged
  meta,       \* meta[p]: the record it is classified by
  jobs,       \* photos that are read and not reused
  toSee,      \* photos the loop has not come to
  mishaps,
  ever,       \* history: ever[p], what p has had: <<place, mtime, edition>>
  lately,     \* history: lately[p], the editions at held[p].path since the last run began
  erred,      \* history: photos that run could not read
  loose,      \* history: photos it tagged without a file, or whose row was
              \* written by others after it
  finished    \* history: it came to its end

photoVars == <<disk, newest, ever, lately>>
tableVars == <<row, record, fixing>>
stepVars  == <<stage, held, meta, jobs, toSee>>
classVars == <<photoVars, tableVars, stepVars, mishaps, erred, loose, finished>>

\* An error leaves ok FALSE; a photo that was only looked at has ed 0 and ok TRUE.
Record(place, mtime, ed, ok) == [path |-> place, mtime |-> mtime, ed |-> ed, ok |-> ok]
NoRecord == Record("nowhere", 0, 0, FALSE)

NewRow(place) == [path |-> place, tags |-> {}]
NoRow == NewRow("nowhere")

\* The file of the capture that was loaded.
FileOf(p) == disk[p][held[p].path]
ThereNow(p) == FileOf(p) # Absent

ClassInit ==
  /\ disk = [p \in Pictures |-> [l \in Spots |->
               IF l = "source" THEN [ed |-> 1, mtime |-> 1] ELSE Absent]]
  /\ newest = [p \in Pictures |-> 1]
  /\ row = [p \in Pictures |-> NewRow("source")]
  /\ record = [p \in Pictures |-> NoRecord]
  /\ stage = "idle" /\ jobs = {} /\ toSee = {}
  /\ held = [p \in Pictures |-> NoRow]
  /\ fixing = [p \in Pictures |-> NoRow]
  /\ meta = [p \in Pictures |-> NoRecord]
  /\ mishaps = 0
  /\ ever = [p \in Pictures |-> {<<"source", 1, 1>>}]
  /\ lately = [p \in Pictures |-> {}]
  /\ erred = {} /\ loose = {} /\ finished = FALSE

Mishap == mishaps < MaxMishaps /\ mishaps' = mishaps + 1

-----------------------------------------------------------------------------
(***************************************************************************)
(* The step.                                                               *)
(***************************************************************************)

Classify ==
  /\ stage = "idle"
  /\ stage' = "compare" /\ toSee' = Pictures /\ jobs' = {}
  /\ held' = row
  /\ meta' = [p \in Pictures |-> NoRecord]
  /\ lately' = [p \in Pictures |-> {disk[p][row[p].path].ed} \ {0}]
  /\ erred' = {} /\ loose' = {} /\ finished' = FALSE
  /\ UNCHANGED <<disk, newest, ever, tableVars, mishaps>>

\* Mutated form: an older file is taken for the one that was read.
NotNewer(r, p) ==
  r.ok /\ r.path = held[p].path /\ ThereNow(p) /\ r.mtime >= FileOf(p).mtime

Unchanged(r, p) ==
  r.ok /\ r.path = held[p].path /\ ThereNow(p) /\ r.mtime = FileOf(p).mtime

\* load_photo_exif_cache: no other step writes the table.
Cached(p) == record[p]

Compare(p) ==
  /\ stage = "compare" /\ p \in toSee
  /\ toSee' = toSee \ {p}
  /\ IF Unchanged(Cached(p), p)
       THEN meta' = [meta EXCEPT ![p] = Cached(p)] /\ UNCHANGED jobs
       ELSE jobs' = jobs \cup {p} /\ UNCHANGED meta
  /\ stage' = IF toSee' = {} THEN "extract" ELSE stage
  /\ UNCHANGED <<photoVars, tableVars, held, mishaps, erred, loose, finished>>

\* extract_photo_exif in a thread of the pool: the mtime first, then the image.
Extract(p, r) ==
  /\ stage = "extract" /\ p \in jobs
  /\ meta' = [meta EXCEPT ![p] = r]
  /\ erred' = IF r.ok THEN erred ELSE erred \cup {p}
  /\ UNCHANGED <<photoVars, tableVars, stage, held, jobs, toSee, mishaps, loose, finished>>

LookAt(p) ==
  /\ meta[p] = NoRecord /\ p \notin erred
  /\ Extract(p, Record(held[p].path, FileOf(p).mtime, 0, ThereNow(p)))

ReadImage(p) ==
  /\ meta[p].ok /\ meta[p].ed = 0
  /\ \E legible \in {ThereNow(p), FALSE} :
       Extract(p, [meta[p] EXCEPT !.ed = IF legible THEN FileOf(p).ed ELSE 0, !.ok = legible])

\* Leaving the block waits for the pool.
ExtractsDone ==
  /\ stage = "extract"
  /\ \A p \in jobs : meta[p].ed # 0 \/ p \in erred
  /\ stage' = "tag" /\ toSee' = Pictures
  /\ UNCHANGED <<photoVars, tableVars, held, meta, jobs, mishaps, erred, loose, finished>>

ExifTags(r) == IF r.ok /\ r.ed \notin Bare THEN {"camera"} ELSE {"no_exif"}

\* classify_one, without the rules on names, which always give the same tags.
TagsOf(p) ==
  LET found == held[p].tags \cup IF ThereNow(p) THEN ExifTags(meta[p]) ELSE {}
  IN  IF found = {} THEN {"other"} ELSE found

TagOne(p) ==
  /\ stage = "tag" /\ p \in toSee
  /\ toSee' = toSee \ {p}
  /\ held' = [held EXCEPT ![p].tags = TagsOf(p)]
  /\ loose' = IF ThereNow(p) THEN loose ELSE loose \cup {p}
  /\ stage' = IF toSee' = {} THEN "save" ELSE stage
  /\ UNCHANGED <<photoVars, tableVars, meta, jobs, mishaps, erred, finished>>

SaveTags ==
  /\ stage = "save"
  /\ stage' = "store"
  /\ row' = held
  /\ UNCHANGED <<photoVars, record, fixing, held, meta, jobs, toSee, mishaps, erred, loose, finished>>

StoreRecords ==
  /\ stage = "store"
  /\ stage' = "idle"
  /\ record' = [p \in Pictures |-> IF p \in jobs THEN meta[p] ELSE record[p]]
  /\ finished' = TRUE
  /\ UNCHANGED <<photoVars, row, fixing, held, meta, jobs, toSee, mishaps, erred, loose>>

-----------------------------------------------------------------------------
(***************************************************************************)
(* What happens meanwhile.                                                 *)
(***************************************************************************)

\* An edit, or another file under the name, with any mtime.
Edit(p, l, t) ==
  /\ newest[p] < LastEdition
  /\ newest' = [newest EXCEPT ![p] = @ + 1]
  /\ disk' = [disk EXCEPT ![p][l] = [ed |-> newest'[p], mtime |-> t]]
  /\ ever' = [ever EXCEPT ![p] = @ \cup {<<l, t, newest'[p]>>}]
  /\ lately' = IF l = held[p].path THEN [lately EXCEPT ![p] = @ \cup {newest'[p]}] ELSE lately
  /\ UNCHANGED <<tableVars, stepVars, mishaps, erred, loose, finished>>

Vanish(p, l) ==
  /\ disk[p][l] # Absent
  /\ Mishap
  /\ disk' = [disk EXCEPT ![p][l] = Absent]
  /\ UNCHANGED <<newest, ever, lately, tableVars, stepVars, erred, loose, finished>>

\* The mtime that organize gives to a copy: the date the name of the photo tells.
Dated == 1

\* Organize copies, unless a file of the name is there.
MoveToLibrary(p) ==
  /\ stage = "idle" /\ row[p].path = "source"
  /\ \E l \in Spots : disk[p][l] # Absent
  /\ Mishap
  /\ row' = [row EXCEPT ![p].path = "library"]
  /\ disk' = IF disk[p]["library"] # Absent THEN disk
              ELSE [disk EXCEPT ![p]["library"] = [ed |-> disk[p]["source"].ed, mtime |-> Dated]]
  /\ ever' = [ever EXCEPT ![p] = @ \cup
                 {<<"library", disk'[p]["library"].mtime, disk'[p]["library"].ed>>}]
  /\ UNCHANGED <<newest, lately, record, fixing, stepVars, erred, loose, finished>>

\* What is written after the step has saved its own rows replaces them.
WriteRow(p, r) ==
  /\ row' = [row EXCEPT ![p] = r]
  /\ loose' = IF stage \in {"store", "idle"} THEN loose \cup {p} ELSE loose

\* Sync finds another version at the source, and starts the row anew.
BackToSource(p) ==
  /\ stage = "idle" /\ row[p].path = "library"
  /\ Mishap
  /\ WriteRow(p, NewRow("source"))
  /\ UNCHANGED <<photoVars, record, fixing, stepVars, erred, finished>>

\* fix_capture_dates reads all rows first, and writes some of them back.
ReadToFix(p) ==
  /\ fixing[p] = NoRow
  /\ Mishap
  /\ fixing' = [fixing EXCEPT ![p] = row[p]]
  /\ UNCHANGED <<photoVars, row, record, stepVars, erred, loose, finished>>

FixRow(p) ==
  /\ fixing[p] # NoRow
  /\ WriteRow(p, fixing[p])
  /\ fixing' = [fixing EXCEPT ![p] = NoRow]
  /\ UNCHANGED <<photoVars, record, stepVars, mishaps, erred, finished>>

\* An exception that nothing catches, or a kill, which also ends the date fix:
\* what was not saved is lost.
KillStep ==
  /\ stage # "idle"
  /\ Mishap
  /\ stage' = "idle" /\ jobs' = {} /\ toSee' = {}
  /\ held' = [p \in Pictures |-> NoRow]
  /\ meta' = [p \in Pictures |-> NoRecord]
  /\ fixing' \in {fixing, [p \in Pictures |-> NoRow]}
  /\ UNCHANGED <<photoVars, row, record, erred, loose, finished>>

ClassifyNext ==
  \/ Classify \/ ExtractsDone \/ SaveTags \/ StoreRecords \/ KillStep
  \/ \E p \in Pictures :
       \/ Compare(p) \/ LookAt(p) \/ ReadImage(p) \/ TagOne(p)
       \/ MoveToLibrary(p) \/ BackToSource(p)
       \/ ReadToFix(p) \/ FixRow(p)
       \/ \E l \in Spots : Vanish(p, l) \/ \E t \in 1..LastStamp : Edit(p, l, t)

ClassifySpec == ClassInit /\ [][ClassifyNext]_classVars

-----------------------------------------------------------------------------
Kept == [path: Spots \cup {"nowhere"}, mtime: 0..LastStamp, ed: 0..LastEdition, ok: BOOLEAN]
Rows == [path: Spots \cup {"nowhere"}, tags: SUBSET {"camera", "no_exif", "other"}]

ClassTypeOK ==
  /\ disk \in [Pictures -> [Spots -> [ed: 0..LastEdition, mtime: 0..LastStamp]]]
  /\ newest \in [Pictures -> 1..LastEdition]
  /\ row \in [Pictures -> Rows] /\ held \in [Pictures -> Rows] /\ fixing \in [Pictures -> Rows]
  /\ record \in [Pictures -> Kept] /\ meta \in [Pictures -> Kept]
  /\ stage \in {"idle", "compare", "extract", "tag", "save", "store"}
  /\ jobs \subseteq Pictures /\ toSee \subseteq Pictures
  /\ mishaps \in 0..MaxMishaps
  /\ ever \in [Pictures -> SUBSET (Spots \X (1..LastStamp) \X (1..LastEdition))]
  /\ lately \in [Pictures -> SUBSET (1..LastEdition)]
  /\ erred \subseteq Pictures /\ loose \subseteq Pictures /\ finished \in BOOLEAN

\* An edition that was read has had its place and its mtime in common with
\* another one, which cannot be told from it.
Ambiguous(p) ==
  \E e \in ever[p] : e[1] = record[p].path /\ e[2] = record[p].mtime /\ e[3] # record[p].ed

\* When a run of the step has ended, every capture has a row of photo_exif: of
\* an edition that its file has held since the run began (README.md:93-95,
\* "Unchanged files reuse their stored metadata on later runs; new and modified
\* files are read", classify.py 267-280), or with an error that this run met.
\* Its tags tell what that row tells, unless the file was gone when it was
\* tagged, or its row was written by others since.  Not told apart are two
\* editions that have had one path and one mtime, which organize makes - every
\* copy of a photo has the mtime its date gives -, and an edition whose image
\* was read after the mtime of the one before it.
MetadataIsCurrent ==
  finished => \A p \in Pictures :
    /\ IF record[p].ok THEN record[p].ed \in lately[p] \/ Ambiguous(p) ELSE p \in erred
    /\ record[p].ok /\ p \notin loose => ExifTags(record[p]) \subseteq row[p].tags
=============================================================================
