# Photos Sync: TLA+ models and proofs

Photos Sync is a self-hosted photo server: it pulls photos from phones (WebDAV)
and servers (SSH) into a library on disk, indexes them in a database, and
serves a gallery with albums, favourites, a trash and users. This directory
holds TLA+ modules translated from `photos_sync/`, the TLC configurations that
check them, and TLAPS proofs about them. File and line references are relative
to `src/photos_sync/` unless they start with `src/`.

## Inventory

| Part | State it keeps | Operations | What is hard about it |
|---|---|---|---|
| WebDAV ingestion job (`endpoints/webdav_download.py`) | the dictionary `_webdav_job` under `_webdav_job_lock`, a coordinator thread, a pool of up to 32 threads, records not yet flushed; files in the library and rows of `captures` | start, retry failed, list, precheck, transfer, collect, register in batches, finish, status | three kinds of threads write one dictionary; failures of the database in the middle of the pool; a crash between file and row; two requests in a row |
| One transfer (nested function `transfer`) | the destination, `<name>.webdav.part` | inspect, Range request, 200/206/416, append, size check, rename | resuming across attempts, jobs, versions of the remote file and crashes |
| Pipeline manager (`web_server.py` 123-226) | `_running`, redirected `sys.stdout` | run selected steps in a thread | one run at a time, redirect and restore, a failing step |
| Log broadcaster (`web_server.py` 74-118, `endpoints/ws_log.py`) | 2000 buffered lines, subscribed queues | emit, subscribe, replay, unsubscribe | emit in one thread, replay in another |
| Pipeline steps (`pipeline/`) | rows of `captures` and `photo_exif`, `YYYY/MM/DD` folders, ZIP files, remote folders | sync, organize, classify, compress, summary, upload | read all, work for minutes, write all back; names that collide |
| Captures repository (`repository.py` 285-870) | table `captures` | bulk upsert, pages, favourites | identity by destination and by id |
| Albums (`repository.py` 876-985) | `albums`, `album_photos` | create, add, remove, cover, delete | check and write in different transactions |
| Trash (`endpoints/*trash*.py`, `bulk_action.py`) | files under `.trash`, table `trash` | delete, restore, delete for ever, empty, purge, list (which repairs) | files and rows change in separate steps, requests overlap |
| Users (`auth.py`, `web_server.py` 300-340, `repository.py` 1052-1169) | `users`, in-memory failure counters | first setup, create, delete, login, lockout | "at most one administrator" against races, on two dialects |
| Configuration (`storage/folders.py`, `storage/connection.py`, `storage/ssh_repo.py`) | `folders`, `destination`, connections | add, remove, set | the list is rewritten as a whole |
| Serving (`serve_photo.py`, `serve_thumbnail.py`, ZIP downloads) | a thumbnail cache | read | cache key and staleness |
| Schema (`db.py`, `database_migrations.py`, `alembic/`) | the schema version | upgrade | two processes upgrading |

The endpoints run on the thread pool of FastAPI, so any two requests overlap.
The job, the pipeline and the requests share the database and the library
folders, and nothing but the two locks above orders them. `PROJECT.json`
lists every part with its status, and every hazard at its line.

What makes each part correct: *job* - the status adds up, a clean end means every
success is stored and registered, a failure is in the retry list or, when its
exception has no text, counted and not listed, no thread outlives its job, a job
ends; *transfer* - bytes at their offsets, destination changed only by a verified
rename, progress kept; *pipeline* - one run at a time, streams restored, flag
cleared; *broadcaster* - no line lost between replay and queue; *captures* - one
row per destination, ids kept, rows name files that exist or were deleted by
request; *albums* - cover is a photo of the album; *trash* - a row leads to its
photo, and a photo with a row leaves the disk by a deletion for ever only, where
requests do not overlap; *users* - at most one administrator where the database
has the index, and never none once there was one but for deletions that cross;
*configuration* - no update lost; *serving* - what is left out or stale is so for
a reason that is named.

## WebDAVJob: the ingestion job

`WebDAVJob.tla` models `endpoints/webdav_download.py` as a whole. The variables
are the fields of `_webdav_job` (`running` ... `attempt`; `active` is the key set
of `active_files`), the copy a retry request takes between its two lock blocks
(`snap`), the coordinator's position and locals (`pc`, `files` = `all_files`,
`prechecked`, `existing`, `pending` = `pending_records`, `current`), the pool
(`waiting`, `inflight`, `returned`, `collected`, `outcome`), and what survives a
crash (`disk`, `rows`).

| Action | Code |
|---|---|
| `StartFull`, `StartRetry`, `RefuseRetry`, `SnapshotFailed` | the endpoints 38-61 and the lock block 102-123; the retry endpoint takes the lock twice |
| `List`, `ListFails` | 178-249: any subset of the remote files may be found, since failed PROPFINDs are skipped in silence and videos may be excluded |
| `Precheck`, `PrecheckFails` | 268-321: files with the listed size are skipped and registered in batches |
| `BeginTransfer`, `EndTransfer` | 325-398 |
| `Collect` | the lock block 408-433 |
| `Register`, `RegisterFails` | 435-449 with `register_local` and `flush_records` |
| `FinalFlush`, `Drained`, `Finish` | 451-499; `Drained` is the pool's `__exit__` after an exception, which still runs all transfers |
| `Crash` | the process dies: only files and rows stay |

A local path is the basename, or the basename with a hash when two files of the
same job share it (232-245). Names that differ in case only are one name, the
eight hash digits are taken to be collision free. A record is its path. A part
file is not visible here: a transfer has one of four outcomes, of which
`blank` is a failure whose `str(exc)` is empty - the code counts it as failed
and then treats it as a success (429, 435).

`FailuresListed` says what becomes of failures at a clean end. The list holds
failures only, and the count of failures exceeds it by the textless ones. A file
that is not listed has a row and a file of the listed size, unless its failure was
textless: then the file that stands for it is an older one of another size, the
job ends clean all the same, and no retry will fetch it. (Where there is no older
file the `stat` of the registration raises, and the job ends with an error.)

`JobLedger.tla` is the abstract specification: jobs open one at a time, take
their files once, settle each at most once, and may only close as "done" when
all are settled. `RefinesLedger` maps the job to it.

## WebDAVTransfer: one file

`WebDAVTransfer.tla` is the nested function `transfer` for one remote file over
any number of jobs. A byte is a pair of the version of the remote file and an
offset, so that a repeated, shifted or foreign byte shows. The server may
support ranges or not, list sizes or not, close the connection without a sign
(`BodyEnds`), fail (`Broken`), and the phone may replace the file
(`RemoteChange`). A crash truncates what was written since the part file was
opened. `TransferContract.tla` is what the job relies on: the destination
changes only in an attempt that answers "downloaded" and then has the listed
size.

## Trash: files and rows in separate steps

`Trash.tla` models the delete branch of `endpoints/bulk_action.py`, `get_trash`,
`restore_from_trash`, `permanently_delete`, `empty_trash`, `purge_old_trash` and
the trash functions of `repository.py`. A file is an inode with a photo as its
content, a path is a tuple of an area, a place and what is appended to the name,
and a request is a thread whose every look at the disk, move and transaction is a
step.

| Action | Code |
|---|---|
| `AskDelete`, `MoveToBin`, `Record` | the move to `.trash`, then the row (`bulk_action.py`) |
| `AskRestore`, `Place`, `MoveFromBin` | the choice between the old path and `_restored`, then the move |
| `AskDeleteForEver`, `AskEmpty`, `NextToDelete`, `Unlink`, `Forget` | the file, then its row, for one entry or for a list read before |
| `AskList`, `Look`, `Migrate`, `Rebuild`, `Rewrite` | the listing, which moves files of an older build and rebuilds what is missing |
| `TransactionFails`, `Crash`, `Arrive` | an error of the database, the end of the process, a new photo at a free path |

Any number of requests overlap. Names in the trash collide within a *slot*, a
trash directory with a file name, and `Slot` gives the slot of each path of the
library. The history `crossed` notes the slots that two requests have been at
work at at once: had in hand, or still had to come to in a list they had read.
The promises are made wherever that has not happened, whatever requests do at
other slots meanwhile. `OwnPhoto`: as long as nothing failed, a row leads to the
photo that was deleted under it, and to no other row's. `BinMatchesList`: as long
as nothing failed, list and directory agree wherever no request is at work.
`TrashKeepsPhotos`: whatever fails, a photo that a row leads to leaves the disk
by a deletion for ever only.

At a slot that was crossed the first and the last are false: two deletions of
photos of one name both look before either moves, both take the same name, and
the second photo replaces the first, against "Avoid name collisions in trash"
(`bulk_action.py` 60). And after a failure a file may be left without a row: it is
in no list, and a later rebuild may overwrite it. Both are hazards in
`PROJECT.json`.

## LogBroadcaster and PipelineRun: one run and its log

`LogBroadcaster.tla` is `web_server.py` 74-118 with `endpoints/ws_log.py`:
`emit` is three steps (`Emit` appends to the buffer, `CopyListeners` takes the
list under the lock, `Put` schedules the line on each queue), a websocket subscribes,
replays the buffer and then sends its queue (`Subscribe`, `Replay`,
`SendReplayed`, `SendQueued`, `Disconnect`). `said` and `since` are history: the
lines so far, and how many there were when a socket subscribed.

`PipelineRun.tla` composes it with `PipelineManager` (123-226): `Run` is the
request under the lock, `RedirectOut`/`RedirectErr` save and replace the two
streams, `StartStep`, `StepPrints`, `StepReturns`, `StepRaises` execute the
selected steps, `SayFinished`/`SayError`, `RestoreOut`/`RestoreErr` and
`ClearFlag` end the run. A stream is the list of runs whose wrapper it is, so
that a wrapper left behind or put back by the wrong run shows. `OtherEmits` is
a thread of the WebDAV job. What a step prints is any number of lines; what the
steps do is in `Library`.

## Users: accounts against races

`Users.tla` models first setup, creation and deletion of accounts, login and
logout, each query of a request as a transaction of its own (`CheckName`,
`CheckAdmin`, `Insert`, `InsertRefused`; `Lookup`, `CountAdmins`,
`DeleteUser`). `engine` is the database, one of `Engines`: `db.py` makes the
partial unique index on administrators on SQLite and returns before it on
PostgreSQL (`Indexed`). Passwords and the flag `active`, which nothing clears, are
not modelled; the lock after wrong passwords is `Lockout`.

`IndexKeepsOne`: with the index there is one administrator at most. `AdminStays`:
with it or without, the last administrator goes only in a request that counted
the administrators before another of them was deleted (`stale`). On SQLite no
such request exists. On PostgreSQL two setups that overlap make two
administrators (`users_no_index`); when these delete each other, each between the
other's count and deletion, none is left, against "The sole admin cannot be
deleted" (`delete_user_endpoint.py` 20), and the public setup is open again.

## Captures and Library: every writer of one table

`Captures.tla` is the table `captures` and `upsert_captures` (`repository.py`
691-802): a call with records (`Upsert`), the query for the ids of their
destinations (`Lookup`), the merge by destination and by id and the
insert-or-update (`Write`), which leaves the id and the favourite of a row it
updates. No lock spans the two, and no index makes a destination unique. The
order in which records are merged is that of a query without `ORDER BY` or of a
directory, so it is any order.

`Library.tla` lets its callers run over one library: the pipeline thread
(`Sync`, `SyncUnread`; `Organize`, `Existed`, `NotPlaceable`, `BeginCopy`,
`EndCopy`, `CopyFails`, `CopyRaises`, `EndOrganize`; `Classify`; `Compress`,
`Zipped`, `BeginZip`, `EndZip`, `ZipFails`, `EndCompress`), the WebDAV job one
photo at a time (`Download`, `Skip`; its own steps are those of `WebDAVJob`),
and requests of the page (`ToggleFavourite`, `SetFavourite`, `FixDate`, and
`Delete` of `bulk_action`, which moves a file to the trash and leaves its capture
as it is). A file of
the library is the source and version it was copied from and whether it is
whole. Sources change, are missing or cannot be read; the table may be
unreadable; transactions fail; the process dies. Tags and EXIF are left to
`Classification`: `classify_captures` and `fix_capture_dates` are here because
they load rows and write them back.

What becomes of a deleted photo is in `Trash`, and so is a restore, which may
replace a file of the library (`trash_restore`). A row of a deleted photo keeps
its path ("capture stays but dest_path now invalid", `bulk_action.py` 74), so the
next organize or job stores the photo again. Compress is modelled with the
constant `DELETE_ORIGINALS_AFTER_COMPRESS` as it stands, off.

What holds is `RowsNameFiles` (no row names a file or an archive that is not
there, but for files that a request deleted), `NeverOverwritten` (whole photos of
day folders stay or go to the trash, valid archives stay) and `UpsertKeepsOneRow`;
and, as a theorem only, that writing the same records again changes nothing
(`UpsertIsIdempotent`). What does not is listed as a hazard: two writers whose
lookups overlap make two rows of one destination; a row that organize moved out of
`incoming/` gets a second one when the job sees its file again; a partial copy
that a crash or an error left is taken for the photo by the next run; a local
photo that changed is listed but never copied again; a short archive is a valid
one; a write-back undoes what another writer put in other columns meanwhile; a
mark is lost when its photo moves between check and set.

## Requests: what browsers ask for beside the jobs

`Requests.tla` puts `Users` and the nine modules of this section side by side.
No two of them share a variable. Where the code lets one part act on what another
reads - a trash request on a file that is being downloaded, the organizer on
one that has a thumbnail - the module that reads has an action for it
(`FileGoes`, `FoldersChange`, `EditPhoto`, `Vanish`, `Register`). So a run need
not interleave the modules: `part` chooses one at the start and `Focus` leaves
the rest alone, and their states add up instead of multiplying. This is economy
of model checking and claims nothing of its own.

**`Lockout.tla`** is `_check_lockout`, `_record_failure` and `_clear_failures`
(`web_server.py` 302-335) as `login`, `unlock_user` and `get_lockouts` call them.
`CheckLockout` and `RecordFailure`/`LoggedIn` are apart, because a password is
compared in between; the clock ticks, and `RestartServer` empties the
dictionary. `FailuresBounded`: a lock lets through at most the logins that
were under way when it began, one per browser, however they race.

**`Albums.tla`** is `create_album`, `update_album`, `album_photos` and
`delete_album`. `AskCover` checks the cover against the album it has read and
`SetCover` writes it later; `ReadMembers`/`InsertMembers` and
`ReadCover`/`RemoveMembers` are transactions that read and then write. A
request that another one overtook has `raced`. `CoverStaysIn`: only the last of
two requests that overtake each other leaves a cover that is not in its album.
Rows of an album that was deleted meanwhile stay in `album_photos`; nothing
says they may not.

**`Settings.tla`** is every endpoint that changes folders, SSH servers, drives or
the destination. Each reads, then deletes and inserts in a transaction
(`DeleteRows`; `InsertFolders`, `InsertServer`, `InsertDestination`); on
PostgreSQL two of these overlap, and the second finds rows it did not delete
(`late`). `SettingsKept`: a folder answered as added is listed, a server's key
is the one last typed although forms are saved with a blank key, and the
destination has a role that allows it - each where no other save of the same
rows overlaps (`overtaken`), the list has not become empty, and the server has
not been saved or removed since.

**`Upload.tla`** is `upload_ssh.py` with `SSHClient` and `retry`: servers, sessions
(`Connect`, `SessionFails`, `CloseSession`), files (`StatFile`, `StatFails`,
`PutFile`, `PutFails`) and the summary. A connection drops, a transfer stops and
leaves a short file at the final name, photos leave the library and the
process is killed, at any time. A file is compared by size only, so "whole" is a
file of the local size. `UploadTellsTruth`: a summary accounts for every photo,
and without errors each has a whole copy. `DroppedSessionRetried` is the
docstring's promise, and fails (see Findings).

**`Feed.tla`** is the gallery: the cards of `get_days`, and the pages of
`get_day_photos` and `get_photos`, cut out of three queries that each see
another table, with the rows that have no `capture_day` merged in Python.
Sorting and cutting are said without sequences: the rank of an entry is the
number of entries before it (`Rank`), and a page is the entries of the ranks it
spans (`Slice`).
Photos are registered, dated and starred in between. The database sorts by
`func.lower` under its collation and Python by `casefold` and code points, so
there are two orders, that of the numbers of the photos (`Before`) and `PyOrder`
(`PyBefore`), and in the run they differ. `PagesShowFeed` counts: a client that
pages to the end has missed no more of the photos that kept their places
(`strayed` are those that did not) than others left before its offset
(`departed`), and has seen no more of them again than others came before it
(`arrived`). In a gallery that stands still this is every photo, once. Two cases
are left out, in which pages do lose and repeat photos: one that moves between
the queries of one page (`cut`), and rows without a day merged with rows that the
two orders sort differently (`mixed`), against "one stable page"
(`repository.py` 535) and "Fetching the prefix is sufficient" (593). Names that
differ in case only are not modelled. The undated card is left
out: `get_days` takes an mtime of 0 for no date and shows a card, and the page
of that card is empty, since `load_captures_for_day` takes 0 for 1970-01-01.

**`Archive.tla`** is `download_days_zip` and `download_zip`: files that are there,
in a folder the settings allow (`IsFile`), are named, then written; one that goes
in between ends the download. Files go and return and folders are added and
removed meanwhile. `ArchiveKeepsAll`: what is sent holds every photo of its days
that was there and allowed from the first step to the last (`lapsed` are the
others, which are left out without a word). No two entries of a day have one name,
unless a photo's own name ends in a number: a number that is added may make that
name again (`IMG_2.jpg` beside two `IMG.jpg`).

**`Discovery.tla`** is `list_remote_files`: the choice of roots, the recursive
`PROPFIND` with a depth, the folders that cannot be read, and files that move
during the scan. Paths are compared without regard to case when roots are
chosen (`fold`, `SamePath`), and a folder's own entry is told by its href, which
fails where the server spells it otherwise than the caller (`respelt`): the root
is then listed once more. `ScanFindsAll`: a photo that stayed is found where it is
and nowhere else, if it is near enough to every folder asked for above it, no
`PROPFIND` on its way failed, and no folder asked for differs in case only from
one above it. What this leaves out is left out by the code, against "covers every
requested path" (`storage/webdav_downloader.py` 45): the depth is counted from
the topmost folder asked for, so that a photo too deep below it is not found
although a nested folder asked for is near, and of two folders whose paths
differ in case one is not searched. A folder listed twice shows nowhere, since
the job keeps what it found by href (`webdav_download.py` 201).

**`Thumbnails.tla`** is the cache of `serve_thumbnail`: the key holds the mtime in
seconds, the file is looked for, made in place and sent. Another edition of the
photo may come with any mtime: an editor sets the present second, a copy of the
organizer has that of its date (`organize.py` 74-75), a restored file keeps its
own. `ThumbsAreCurrent`: what is sent is complete and not older than its request,
unless two requests wrote one file or a kill or an error left it behind
(`torn`), or two editions had its mtime (`hasty`). Of these the code takes no
care: "so edits invalidate" (`serve_thumbnail.py` 44) is true of edits that
change the second.

**`Classification.tla`** is the step `classify_captures` with the table
`photo_exif`: `Classify` loads the rows, `Compare` decides by path and mtime
whether a record is reused, `LookAt` and `ReadImage` are `extract_photo_exif` in
a thread of the pool (the mtime is taken before the image is opened), `TagOne`
is `classify_one`, which looks for the file once more, and `SaveTags` and
`StoreRecords` are two transactions. Files are edited and removed at any time,
with any mtime; `fix_capture_dates` writes back rows it has read before; sync and
organize move the path of a row between two runs; a kill may come between the
two tables. An edition stands for all that can be read of a photo, and `Bare`
editions have no EXIF. `MetadataIsCurrent`: after a run every capture has a record
of an edition its file has held since the run began, or with an error of that
run, and its tags tell what the record tells. Left out are two editions that
have had one path and one mtime (`Ambiguous`) - a copy that organize makes anew
is one, because it gets the mtime of its date (`Dated`), and so is an edition
that replaces another between the look at its mtime and the read of its image,
whose record is kept under the older mtime - and rows tagged
without a file or written by others afterwards (`loose`). Tags are only ever
added: what an older edition or an unreadable file was given stays, so the
property says which tags are there and not which are absent.

## Runs

| Run | Instance | Shows |
|---|---|---|
| `webdav_job` | 3 files (two of one basename and different lengths, one without a size), 2 workers, batches of 2, flush every 2, 1 client, 2 jobs per process, 1 crash | `CountersAgree`, `Quiescent`, `SuccessIsStored`, `FailuresListed`, `RefinesLedger`, `JobEnds` |
| `webdav_transfer` | 3 versions of 3, 3 and 2 bytes, 2 crashes | `BytesInPlace`, `IntactUnlessChanged`, `ProgressIsKept`, `KeepsContract`, `BytesBecomeFile` |
| `webdav_stale_retry` | as `webdav_job`, 3 jobs, no crash | `RetryIsLatest` fails: the retry uses the failures of an older job |
| `webdav_same_name` | as `webdav_job`, no crash | `RetainsBoth` fails: two jobs give two files one path |
| `trash` | 2 requests at once (symmetric), 2 paths of one slot and 1 of another, 2 files, 2 entries, 1 fault | `OwnPhoto`, `BinMatchesList`, `TrashKeepsPhotos` |
| `trash_restore` | 1 request at a time, 2 paths of one slot, 4 files, 3 entries | `LibraryKeepsPhotos` fails: two restores to an occupied path get one name |
| `pipeline` | 2 runs of one step, 1 other emitter, 1 websocket, a buffer of 2 lines, 2 lines | `NoLineMissed`, `LinesInOrder`, `StreamsRestored`, `LogTellsRuns`, `RunEnds`, `ClientCatchesUp` |
| `requests` | accounts: 2 browsers, 2 names, 2 accounts, both engines; lockout: 2 browsers, 2 names, a limit of 3, locks of 2 ticks, 4 ticks; albums: 1 album, 2 photos, 2 browsers; settings: 2 browsers, 1 folder, 1 drive, 1 server, 1 key; upload: 2 servers, 2 photos, 3 faults; gallery: 3 photos in two orders, 2 days, pages of 1, 1 change; archives: 3 files, 2 days, 1 download, 1 move; discovery: 3 folders, 1 file, depth 1; thumbnails: 2 browsers, 2 mtimes, 3 editions; classification: 1 photo with a source and a copy, 3 editions, 2 mtimes, 2 mishaps | `IndexKeepsOne`, `AdminStays`, `FailuresBounded`, `CoverStaysIn`, `SettingsKept`, `UploadTellsTruth`, `PagesShowFeed`, `ArchiveKeepsAll`, `ScanFindsAll`, `ThumbsAreCurrent`, `MetadataIsCurrent` |
| `users_no_index` | 2 browsers, 2 names, 3 accounts, no index | `AtMostOneAdmin` fails: two setups overlap |
| `upload_dropped` | 1 server, 2 photos, 1 fault | `DroppedSessionRetried` fails: a connection that drops between files is no session failure |
| `library` | a photo in a folder and one on a server with one name and day, one from a phone, 3 rows, 3 steps, 1 event, 1 deletion | `RowsNameFiles`, `NeverOverwritten`, `UpsertKeepsOneRow` |
| `library_same_day` | the same, no event, no deletion | `OrganizeCopiesEach` fails: the second photo of one name and day is not copied |

Each passing run also checks the types of its variables (`RequestsOK` is the
conjunction for the parts of `Requests`), except `webdav_transfer`, where
`TransferTypeCorrect` proves them.

Bounds. Three files and two workers have a file queued while two are in flight, a
batch that fills in the middle and one that does not, and a flush every second
completion, where 25 and 250 in the code only happen less often. Two jobs of a
process are enough for every pair of an earlier job's leftovers and a new job, one
crash for files without rows. Three versions contain a change that keeps the
length and one that shortens the file. Two paths of one slot are the only way in
which names collide in the trash, and the third path is another slot for a second
request to be at work at while the first one is at work at this one; two entries
are two rows of one slot, or a row made after one was forgotten. A buffer of two
lines drops its oldest one when a third is said. Two runs are enough for a wrapper
of one to be found by the other, and a request for step 0 and step 7 has an index
that is no step. In `requests` two accounts are two setups, or a setup and a
creation: enough for two administrators that delete each other; a third one, which
TLC reaches in `users_no_index`, lets a creation follow two setups. Three steps of the
pipeline are a sync, an organize and one of them, or a compress, again; three rows
are one of each source, so that a fourth row (a duplicate) is cut off, but two
rows of one destination are not; the one event is an edit, a request, an error or
a crash anywhere, and the one deletion comes anywhere beside it. A limit of three
wrong passwords lets two browsers be under way below it and at it; two ticks of
lock in four let a lock end and begin again, which is where the counter is not
reset. One album with two photos and two browsers has every pair of overlapping
requests, and more browsers only add to who has raced. Two servers carry counters
and a dead connection from one to the other; three faults are a drop, a failed
transfer and a kill. Pages of one photo put every boundary between two photos,
with rows of both kinds before and after it, and the two orders disagree on two
pairs of three photos. Three files of one name need the number 3, and one
move is a file that goes, which may return, or a change of the folders. Three
folders make a chain longer than the depth, and two spellings of one path beside a
third. Three editions and two mtimes are one that comes later and one that brings
an earlier mtime back. One photo is enough for the classification, which treats
each photo by itself and saves all in one go; three editions with two mtimes are
one before, one with the same and one with another mtime, older or newer, and two
mishaps are a moved row and a kill, or a date fix that overlaps one of them.
`MaxAttempts`, `MaxCrashes`, `MaxFiles`, `MaxIds`, `MaxFaults`, `MaxRuns`,
`MaxSaid`, `MaxRows`, `MaxSteps`, `MaxEvents`, `MaxNow`, `MaxChanges`, `MaxZips`,
`MaxMoves`, `MaxDeletes`, `LastMtime`, `MaxEdits`, `LastEdition`, `LastStamp` and
`MaxMishaps` are bounds of the model; the program has none.

Fairness. The coordinator of a job is one thread, and a transfer ends because its
timeouts and retries are finite (`webdav_download.py` 154-168, 365); both get
weak fairness. So do the thread of a run (a step ends: it is a loop over
files), a thread in the middle of `emit`, and the event loop that serves a
connected websocket, which its 30 s keepalive wakes up. Requests, crashes,
disconnections and changes of the phone get none. `BytesBecomeFile` assumes
that bytes keep arriving, not that attempts succeed.

`CHECK_DEADLOCK FALSE`: when everything the bounds allow has happened, the system
may stop, as it may when nobody asks for anything.

## Proofs

**`WebDAVJobProofs.tla`** proves, for every set of remote files, names, lengths,
numbers of workers and clients and batch sizes (`JobAssumption`: finitely many
files, positive lengths and sizes), that `TypeOK`, `CountersAgree`,
`Quiescent`, `SuccessIsStored`, `FailuresListed` and `RowsHaveFiles` are
invariants and that the job implements `JobLedger`.

None of these is inductive alone. The inductive invariant `IInv` adds where the
files of a job are (`InvPool`: each in exactly one of waiting, in flight,
returned, collected, prechecked), that the flags follow the coordinator
(`InvFlags`), that the counters are the cardinalities of those places
(`InvCounts`), that a job on its way to a clean end has settled its files
(`InvClosed`), and that what was accounted as a success is on disk and, but for
the file in hand, in the table or the buffer (`InvStored`). `InvStored` needs
that the paths of one job are distinct (`LocalOfInjective`), which is what the
hashing of shared basenames is for: without it a later transfer could replace
the bytes of an earlier success of the same job. TLC checks the parts of
`IInv` on the instance above before they are proved.

**`AccountsProofs.tla`** proves what holds of accounts and of their locks. *Users*:
`TypeOK`, `IndexKeepsOne` and `AdminStays`, with the index or without, for any
browsers and names. The invariant adds that an administrator about to be deleted
by a request that is not `stale` leaves another one (`AnotherStays`): ids are not
given twice and roles never change, so only another deletion makes the count
untrue, and that makes the request stale.

*Lockout*: `FailuresBounded` for any limit, length of a lock and
number of browsers. It is not inductive: a count at its bound could be
followed by another. `RoomWhenLocked` says why not: while a name is locked,
there is room below the bound for every login that is under way, and no login
sets out.

**`LibraryProofs.tla`** proves every property of the run `library`, and that a
write repeated with the same records changes nothing, for any photos, names, days
and bounds.

* `LibraryTypeCorrect` needs `CopyInHand`: what is being copied is dated, its
  target exists and is not whole. The same fact carries `WholePhotosStay`:
  only the copy of organize writes in a day folder, at a path that was free
  when it began.
* `StoredOneRow` is the argument of `upsert_captures`: two rows with one
  destination come from two records (then the merge by destination kept one),
  or one of them is an old row (then the lookup gave its id to the record, and
  it was updated). `WriteKeepsOneRow` and `WriteIsIdempotent` follow, since only a
  write changes rows (`TableChanges`). Their premise `UpToDate` is the lookup
  still being right, which no lock guarantees: without it the conclusion is false.
* `RowsNameWhatIsThere` needs the same of every record in memory (`AllName`),
  as any of them may be written at any later time; a file that was there stays or
  is among the deleted, and valid archives stay valid (`NextKeepsFiles`).

**`WebDAVTransferProofs.tla`** proves every safety property of `WebDAVTransfer` for
any number and sizes of versions, and that it implements `TransferContract`.
The invariant adds that a request asks for what follows the part file
(`RequestFits`), that the body goes on where the part ends (`BodyFits`), and
that the first version comes alone as long as the phone keeps it
(`OnlyFirst`). `BytesInPlace` is inductive with these: a 206 body fits because
nothing but the one thread writes the part between the look at its size and
the answer. The rename keeps the contract because a 416 answer promotes only a
part of the listed size, and `Verify` only one of the size wanted.

**`PipelineProofs.tla`** proves the five safety properties of the run `pipeline`, for
any number of runs, steps, lines, other threads and websockets, and any buffer.
The log needs that the buffer is the end of what was said (`LastLines`), that a
thread emits its own last line and has a list of listeners only while it tells
(`OwnLine`), and `InOrder`: sent, replayed and queued lines, read in this
order, have before each line all that its author said before it. A line may be
replayed and queued; the replay comes first, so it is sent for the first time
in its place. The runs need that each stream is wrapped once or not at all,
by the run under way (`WrappedOnce`), and what each phase has said
(`PhaseTells`, `ToldInTurn`): the flag is cleared after the streams are put
back, so the next run finds the process's own.

**`TrashProofs.tla`** proves `TypeOK`, `OwnPhoto`, `BinMatchesList` and
`TrashKeepsPhotos` for any library, any slots, and any number of overlapping
requests, files, rows and failures, without a hypothesis. The argument goes slot
by slot. A request has one slot in hand at a time, and rows and listed rows
never leave theirs (`SlotsFit`). So `TrashInv` says of each slot that is not in
`crossed` what is so there (`HoldsAt`), and a step of a request either works at the
slot, alone (`Alone`), or leaves its files, rows and the other requests' hands
there as they are (`ElsewhereHolds`). At a slot, what names tell (`NamesAt`: a name
with an inode is that of its file; `RowsFit`: a name with an id is that of its
row) makes a name built because the plain one is taken free, or the row's own;
every row leads to its photo but while its request is between file and row
(`RowsAt`), every file has a row or is about to get one (`FilesAt`), and a listing
that was read once stays true for the rows not come to (`TodoHolds`), since
only its own request changes them. `TrashKeepsPhotos` holds with failures too: a
file that lost its row may be overwritten, one that a row leads to may not.

**`FilesProofs.tla`** proves what the parts do that read, copy or list files.

* *Upload*: `UploadTellsTruth` for any servers, photos and numbers of faults. During
  a session the counts cover the files it is through with
  (`SessionCounted`), and without errors these are whole at the server
  (`SessionCopied`); a put only touches the file in hand, which is still `left`.
* *Thumbnails*: `ThumbsAreCurrent` for any browsers, editions and mtimes. A key
  that is not hasty stands for one edition (`KeyTellsEdition`), which is the one
  the request began with, and the cache holds nothing older than its key says
  (`CacheIsCurrent`), unless it is torn.
* *Classification*: `MetadataIsCurrent` for any photos, editions, mtimes and
  mishaps. What a run holds of a photo depends on how far it is: not
  compared, to be reused or to be read (`InCompare`), looked at or read
  (`InExtract`, `AfterExtract`), tagged (`TagsTell`) and saved (`TagsAreSaved`);
  what is on disk has been there since the run began (`SeenSince`). The proof
  attempt failed on an edit between the look at the mtime and the read of the
  image, which is how `Ambiguous` came to name that case.
* *Archives*: `ArchiveKeepsAll` for any files, names, days, moves and folders:
  what has not lapsed is there and allowed whenever it is looked at
  (`DaysAreWhole`). The entry of a file has a number below the next one of its
  name and day (`EntriesAreNumbered`), so the entries of one name differ;
  `NameInZip` is injective in the number, and between names that do not end in
  one.
* *Discovery*: `ScanFindsAll` for any tree of folders, spellings, depth and failures.
  Every folder asked for is covered by one that is searched (`RootsCover`), calls and
  finds come from a root (`CallsAreReached`, `FoundIsReached`), and what can be
  reached was found, or a folder on its path is still to be listed at its own
  depth (`ReachedIsFound`). The path of a folder is the least set closed under the
  folder it is in (`Above`), which gives induction without recursion.

**`RequestsProofs.tla`** proves the rest of the requests and their composition.

* *Albums*: `CoverStaysIn` for any albums, photos and browsers, from what requests
  that have not raced know: a checked cover is in its album
  (`CheckedCoverIsIn`), and a removal that will not clear the cover removes
  other photos (`RemovalKnowsCover`).
* *Settings*: `SettingsKept` for any folders, servers, keys and panels: a form that
  no other save has overtaken holds what was typed (`FormsHold`, `CurrentForm`),
  and only a save that overtook inserts late (`LateIsOvertaken`).
* *Feed*: `PagesShowFeed` for any photos, days, page size and two orders. Of the
  photos that kept their places, those not shown yet but before the offset are no
  more than left before it (`NoneMissed`), those shown but after it no more than
  came (`NoneTwice`): one photo that comes or goes moves at most one other across
  the offset (`OneCrosses`). The total counts the rows as long as none moved below
  the page (`TotalCounts`). The lemmas count: ranks are bounded (`RankBounded`),
  keep the order (`RankOrders`), are Python's where the orders agree
  (`RanksAgree`), grow with the rows (`RankMonotone`), and a slice holds exactly
  the entries of its ranks (`SliceRank`, `SliceIsFull`). `MergeAgrees` is the
  argument for merging a prefix of one query with all of another: below the length
  of the prefix, ranks in the merge are ranks in the whole.
* *Composition*: only that the parts keep to their types together
  (`RequestsTypeCorrect`). A behaviour of `RequestsSpec` is one of each part
  (`RequestsAreParts`), by the way `Focus` is defined; what is proved of a part is
  proved of its own specification.

`RowsHaveFiles` of the job and the idempotence of `Write` are proved and not in a
run: the invariants of the runs are the ones worth watching.

Assumptions are those the modules name: finite sets of browsers, files, photos and
shots, bounds that are numbers (at least one file and one row in the trash, two
days in the gallery), an order of Python's that tells photos apart, a NoFile that
is no content. No theorem assumes anything else.

Model-checked only: `JobEnds`, `BytesBecomeFile`, `RunEnds` and
`ClientCatchesUp`, since liveness is out of the prover's reach. Every other property
of a passing run is a theorem. The provers have no induction over
sequences, so sorted lists are ranks in a finite set, and paths are least
closed sets.

## Findings

* A retry can run with the failures of an older job (`webdav_stale_retry`).
* Two files of one basename that different jobs list overwrite each other
  (`webdav_same_name`).
* A second restore to an occupied path replaces the first restored photo
  (`trash_restore`).
* On PostgreSQL two overlapping setups make two administrators
  (`users_no_index`).
* A connection that drops while files are sent is not a session failure: the
  promised reconnection never happens (`upload_dropped`).
* Organize takes any file of the same name and day for a capture's copy
  (`library_same_day`).

Smaller disagreements met on the way, without a run of their own: the undated
card whose page is empty (`get_days.py` 49 against `repository.py` 583);
`download_zip` says photos "don't need to be buffered" and buffers the whole
archive; `login` says 5 attempts per minute and its limiter allows 10;
`update_album` has renamed the album when it answers 400 for the cover;
`webdav_scan` counts two files of one name once and the job takes both; a copy
that organize makes anew of an edited photo keeps the EXIF of the older edition,
against "new and modified files are read" (`README.md` 93-94); a photo that was
unreadable once stays tagged `no_exif`; two deletions of one name that overlap
leave one photo in the trash, against "Avoid name collisions in trash"
(`bulk_action.py` 60); two administrators of a PostgreSQL database who delete each
other leave none, against `delete_user_endpoint.py` 20; pages that merge rows
without a day repeat and lose photos where the database sorts names otherwise
than Python, against `repository.py` 535 and 593; folders that differ in case, and
photos too deep below the topmost folder asked for, are not searched, against
`storage/webdav_downloader.py` 45; an edition with an earlier one's mtime is shown
by its thumbnail, against `serve_thumbnail.py` 44; a transfer that fails without a
text is not offered for the retry, against `webdav_download.py` 45.

## Not modelled

Rendering, logging and metrics; what a date or a field of EXIF data says; the bytes
of thumbnails and archives; passwords, cookies and CORS; `download_to_local` and
`sync_webdav_connection`, the sequential predecessor of the job that no
endpoint calls; the command line (`cli.py`), which runs the same steps in
another process; migrations run by a second process. Hazards without a property
say why in `PROJECT.json`: mostly that the code does nothing about them and no
text promises otherwise (a file without a size that is answered 416 for ever,
a thread that cannot be started, gauges reset outside the lock, a failed
`PROPFIND` taken for an empty folder). `PROJECT.json` gives the reason for each
part.

## Plan

Done: the job and its transfer, trash, pipeline and log, accounts, the captures
and their writers, and the requests above. Left, in this order:

1. An abstract trash and an abstract gallery that the modules implement.
2. The migrations of `db.py` and `alembic/`, run by two processes.
3. Pure algorithms with reference definitions: dates out of file names and EXIF,
   the rules of tags on names and sizes.
