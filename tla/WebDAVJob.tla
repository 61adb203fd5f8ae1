------------------------------ MODULE WebDAVJob ------------------------------
(***************************************************************************)
(* The WebDAV ingestion job of photos_sync/endpoints/webdav_download.py:   *)
(* two endpoints that start it under _webdav_job_lock, the coordinator     *)
(* thread (_worker) that lists, prechecks, collects and registers, and the *)
(* pool threads (transfer) that fetch one file each.  The files on disk    *)
(* and the rows of the captures table survive a crash; the job dictionary, *)
(* the threads and the records not yet flushed do not.                     *)
(*                                                                         *)
(* How one transfer treats its part file is the module WebDAVTransfer:     *)
(* here a transfer ends in the outcomes that module shows it can end in.   *)
(***************************************************************************)
EXTENDS Integers, FiniteSets

CONSTANTS
  Hrefs,        \* the remote files, by their WebDAV href
  Name,         \* Name[h]: the basename of h, case-folded
  Length,       \* Length[h]: the bytes of h
  Sized,        \* the hrefs whose listing carries a getcontentlength
  Clients,      \* concurrent requests to the retry endpoint
  Workers,      \* WEBDAV_DOWNLOAD_WORKERS
  BatchSize,    \* WEBDAV_DB_BATCH_SIZE
  FlushEvery,   \* a flush every so many completed files (25 in the code)
  MaxAttempts,  \* bound: jobs started by one process
  MaxCrashes,   \* bound: process restarts
  NoFile        \* nothing at a path

ASSUME JobAssumption ==
  /\ IsFiniteSet(Hrefs)
  /\ NoFile \notin Hrefs
  /\ DOMAIN Name = Hrefs
  /\ Length \in [Hrefs -> Nat \ {0}]
  /\ Sized \subseteq Hrefs
  /\ {Workers, BatchSize, FlushEvery} \subseteq Nat \ {0}
  /\ {MaxAttempts, MaxCrashes} \subseteq Nat

Paths == ({"plain"} \X {Name[h] : h \in Hrefs}) \cup ({"hashed"} \X Hrefs)

\* local_by_href: the basename, unless two files of this job share it.
LocalOf(fs, h) ==
  IF \E g \in fs \ {h} : Name[g] = Name[h] THEN <<"hashed", h>>
                                           ELSE <<"plain", Name[h]>>

\* local.is_file() and remote.size > 0 and local.stat().st_size == remote.size
Fits(h, content) ==
  h \in Sized /\ content # NoFile /\ Length[content] = Length[h]

VARIABLES
  \* the dictionary _webdav_job, without its display fields
  running, done, error,
  total, completed, downloaded, skipped, failed, queued, registered,
  active, failedFiles, retryAvailable, retrying, attempt,
  \* the endpoint of the retry
  snap,       \* snap[c]: the failed files a retry request copied, {} if none
  \* the coordinator thread
  pc,         \* where it is
  files,      \* all_files
  prechecked, \* files found complete before any transfer
  existing,   \* paths known to have a row, or a pending record
  pending,    \* pending_records, by path
  current,    \* the file whose future it has just accounted
  \* the pool
  waiting,    \* submitted, no thread yet
  inflight,   \* a pool thread is inside transfer
  returned,   \* transfer returned, its future is not yet collected
  collected,  \* yielded by as_completed and accounted
  outcome,    \* what transfer returned for a file
  \* what survives a crash
  disk,       \* disk[p]: the remote file whose bytes are at path p
  rows,       \* paths that have a row in captures
  crashes     \* restarts so far

flags  == <<running, done, error>>
tally  == <<total, completed, downloaded, skipped, failed>>
retry  == <<failedFiles, retryAvailable, retrying, attempt>>
lists  == <<files, prechecked>>
buffer == <<existing, pending>>
pool   == <<waiting, inflight, returned, collected, outcome>>
stable == <<disk, rows>>
vars   == <<flags, tally, queued, registered, active, retry, snap, pc, lists,
            buffer, current, pool, stable, crashes>>

Outcomes == {"skipped", "downloaded", "failed", "blank"}
Good     == {"skipped", "downloaded"}

Init ==
  /\ running = FALSE /\ done = FALSE /\ error = FALSE
  /\ total = 0 /\ completed = 0 /\ downloaded = 0 /\ skipped = 0 /\ failed = 0
  /\ queued = 0 /\ registered = 0 /\ active = {}
  /\ failedFiles = {} /\ retryAvailable = FALSE
  /\ retrying = FALSE /\ attempt = 0
  /\ snap = [c \in Clients |-> {}]
  /\ pc = "idle" /\ files = {} /\ prechecked = {}
  /\ existing = {} /\ pending = {} /\ current = NoFile
  /\ waiting = {} /\ inflight = {} /\ returned = {} /\ collected = {}
  /\ outcome = [h \in Hrefs |-> "none"]
  /\ disk = [p \in Paths |-> NoFile] /\ rows = {}
  /\ crashes = 0

\* No count, no list and no thread of an earlier job is left: when a job
\* starts, and when the process does.
Reset ==
  /\ done' = FALSE /\ error' = FALSE
  /\ total' = 0 /\ completed' = 0 /\ downloaded' = 0 /\ skipped' = 0
  /\ failed' = 0 /\ queued' = 0 /\ registered' = 0 /\ active' = {}
  /\ failedFiles' = {} /\ retryAvailable' = FALSE
  /\ prechecked' = {} /\ existing' = {} /\ pending' = {} /\ current' = NoFile
  /\ waiting' = {} /\ inflight' = {} /\ returned' = {} /\ collected' = {}
  /\ outcome' = [h \in Hrefs |-> "none"]

-----------------------------------------------------------------------------
(***************************************************************************)
(* The endpoints.                                                          *)
(***************************************************************************)

\* The lock block of _start_webdav_download and the start of its thread.
Start(again, fs) ==
  /\ ~running
  /\ attempt < MaxAttempts
  /\ Reset
  /\ running' = TRUE /\ retrying' = again /\ attempt' = attempt + 1
  /\ pc' = "list" /\ files' = fs
  /\ UNCHANGED <<stable, crashes>>

\* POST /api/webdav/download
StartFull == Start(FALSE, {}) /\ UNCHANGED snap

\* POST /api/webdav/download/retry-failed, its first lock block.
SnapshotFailed(c) ==
  /\ snap[c] = {}
  /\ ~running
  /\ failedFiles # {}
  /\ snap' = [snap EXCEPT ![c] = failedFiles]
  /\ UNCHANGED <<flags, tally, queued, registered, active, retry, pc, lists,
                 buffer, current, pool, stable, crashes>>

\* ... and the start of the retry, in a second lock block.
StartRetry(c) ==
  /\ snap[c] # {}
  /\ Start(TRUE, snap[c])
  /\ snap' = [snap EXCEPT ![c] = {}]

\* 409: a job is already running.
RefuseRetry(c) ==
  /\ snap[c] # {}
  /\ running
  /\ snap' = [snap EXCEPT ![c] = {}]
  /\ UNCHANGED <<flags, tally, queued, registered, active, retry, pc, lists,
                 buffer, current, pool, stable, crashes>>

-----------------------------------------------------------------------------
(***************************************************************************)
(* The coordinator thread.                                                 *)
(***************************************************************************)

\* Mutated form: the exception is swallowed.
FailSilently ==
  /\ pc' = "finally"
  /\ UNCHANGED flags

\* The except branch, once the pool (if there is one) has let go of it.
Fail ==
  /\ pc' = "finally"
  /\ error' = TRUE
  /\ UNCHANGED <<running, done>>

\* The file list.  A PROPFIND that fails is skipped in silence and .mp4 files
\* may be excluded, so a full scan can see any part of the phone.
TakeFiles(found) ==
  /\ files' = IF retrying THEN files ELSE found
  /\ total' = Cardinality(files')
  /\ queued' = Cardinality(files')

List ==
  /\ pc = "list"
  /\ \E found \in SUBSET Hrefs : TakeFiles(found)
  /\ pc' = IF files' = {} THEN "finally" ELSE "precheck"
  /\ existing' = {LocalOf(files', h) : h \in files'} \cap rows
  /\ UNCHANGED <<flags, completed, downloaded, skipped, failed, registered,
                 active, retry, snap, prechecked, pending, current, pool,
                 stable, crashes>>

\* The scan raises, or captures_by_destinations does after the totals are set.
ListFails ==
  /\ pc = "list"
  /\ Fail
  /\ \/ UNCHANGED <<files, total, queued>>
     \/ \E found \in SUBSET Hrefs : TakeFiles(found) /\ files' # {}
  /\ UNCHANGED <<completed, downloaded, skipped, failed, registered, active,
                 retry, snap, prechecked, buffer, current, pool, stable,
                 crashes>>

Complete == {h \in files : Fits(h, disk[LocalOf(files, h)])}

\* Mutated form: prechecked files are skipped without being registered.
NothingUnregistered == {}

\* The paths of the prechecked files that no row knows yet.
Unregistered == {LocalOf(files, h) : h \in Complete} \ existing

CountPrecheck ==
  /\ prechecked' = Complete
  /\ skipped' = Cardinality(Complete)
  /\ completed' = Cardinality(Complete)
  /\ queued' = Cardinality(files \ Complete)

\* Files complete on disk are skipped and registered; the others are
\* submitted to the pool.
Precheck ==
  /\ pc = "precheck"
  /\ CountPrecheck
  /\ rows' = rows \cup Unregistered
  /\ existing' = existing \cup Unregistered
  /\ registered' = Cardinality(Unregistered)
  /\ waiting' = files \ Complete
  /\ pc' = "collect"
  /\ UNCHANGED <<flags, total, downloaded, failed, active, retry, snap, files,
                 pending, current, inflight, returned, collected, outcome,
                 disk, crashes>>

\* One of the batches of the precheck is not stored, the earlier ones are.
PrecheckFails ==
  /\ pc = "precheck"
  /\ CountPrecheck
  /\ \E stored \in SUBSET Unregistered :
       /\ stored # Unregistered
       /\ Cardinality(stored) % BatchSize = 0
       /\ rows' = rows \cup stored
       /\ registered' = Cardinality(stored)
  /\ Fail
  /\ UNCHANGED <<total, downloaded, failed, active, retry, snap, files, buffer,
                 current, pool, disk, crashes>>

\* Mutated form: the list keeps the last failure only.
ListLastFailure(h) == IF outcome[h] = "failed" THEN {h} ELSE failedFiles

\* if error: failed_files.append(item).  str(exc) may be empty.
ListFailure(h) ==
  IF outcome[h] = "failed" THEN failedFiles \cup {h} ELSE failedFiles

One(test) == IF test THEN 1 ELSE 0

\* The lock block that follows future.result().
Collect ==
  /\ pc = "collect"
  /\ \E h \in returned :
       /\ returned' = returned \ {h}
       /\ collected' = collected \cup {h}
       /\ current' = h
       /\ active' = active \ {h}
       /\ completed' = completed + 1
       /\ downloaded' = downloaded + One(outcome[h] = "downloaded")
       /\ skipped' = skipped + One(outcome[h] = "skipped")
       /\ failed' = failed + One(outcome[h] \notin Good)
       /\ failedFiles' = ListFailure(h)
  /\ pc' = "register"
  /\ UNCHANGED <<flags, total, queued, registered, retryAvailable, retrying,
                 attempt, snap, lists, buffer, waiting, inflight, outcome,
                 stable, crashes>>

\* The record of the collected file, if it gets one: a failure is told from a
\* success by its error text alone.
NewRecord ==
  LET p == LocalOf(files, current) IN
  IF outcome[current] # "failed" /\ p \notin existing THEN {p} ELSE {}

\* register_local stats the file first.
StatFails == \E p \in NewRecord : disk[p] = NoFile

FlushDue ==
  \/ Cardinality(pending \cup NewRecord) >= BatchSize
  \/ completed % FlushEvery = 0
  \/ completed = Cardinality(files)

\* flush_records
Flush(records) ==
  /\ rows' = rows \cup records
  /\ registered' = registered + Cardinality(records)
  /\ pending' = {}

Register ==
  /\ pc = "register"
  /\ ~StatFails
  /\ existing' = existing \cup NewRecord
  /\ \/ FlushDue /\ Flush(pending \cup NewRecord)
     \/ /\ ~FlushDue
        /\ pending' = pending \cup NewRecord
        /\ UNCHANGED <<rows, registered>>
  /\ pc' = "collect"
  /\ UNCHANGED <<flags, tally, queued, active, retry, snap, lists, current,
                 pool, disk, crashes>>

\* stat or upsert_captures raises: the pool is left through its __exit__.
RegisterFails ==
  /\ pc = "register"
  /\ \/ StatFails /\ UNCHANGED buffer
     \/ /\ ~StatFails /\ FlushDue /\ pending \cup NewRecord # {}
        /\ pending' = pending \cup NewRecord
        /\ existing' = existing \cup NewRecord
  /\ pc' = "drain"
  /\ UNCHANGED <<flags, tally, queued, registered, active, retry, snap, lists,
                 current, pool, stable, crashes>>

\* Mutated form: shutdown(wait=False), threads in transfer are left behind.
PoolUnwatched == waiting = {}

\* Mutated form: waits for results that nobody collects after an error.
PoolCollected == waiting = {} /\ inflight = {} /\ returned = {}

\* Leaving the pool waits for every submitted transfer, also after an error.
PoolIdle == waiting = {} /\ inflight = {}

\* The pool is done without an exception: the last flush, which finds nothing
\* pending since the last completion was due for one.
FinalFlush ==
  /\ pc = "collect"
  /\ PoolIdle /\ returned = {}
  /\ Flush(pending)
  /\ pc' = "finally"
  /\ UNCHANGED <<flags, tally, queued, active, retry, snap, lists, existing,
                 current, pool, disk, crashes>>

Drained ==
  /\ pc = "drain"
  /\ PoolIdle
  /\ Fail
  /\ UNCHANGED <<tally, queued, registered, active, retry, snap, lists, buffer,
                 current, pool, stable, crashes>>

\* The finally block.
Finish ==
  /\ pc = "finally"
  /\ running' = FALSE /\ done' = TRUE
  /\ active' = {} /\ queued' = 0
  /\ retryAvailable' = (failedFiles # {})
  /\ pc' = "idle"
  /\ UNCHANGED <<error, tally, registered, failedFiles, retrying, attempt, snap,
                 lists, buffer, current, pool, stable, crashes>>

Coordinator ==
  \/ List \/ ListFails
  \/ Precheck \/ PrecheckFails
  \/ Collect \/ Register \/ RegisterFails
  \/ FinalFlush \/ Drained \/ Finish

-----------------------------------------------------------------------------
(***************************************************************************)
(* The pool threads: transfer(h).                                          *)
(***************************************************************************)

\* Mutated form: the queue is not decremented.
DequeueNone == queued

\* Mutated form: every thread takes the whole batch off the queue.
DequeueBatch == queued - Workers

\* max(0, queued - 1)
Dequeue == IF queued > 0 THEN queued - 1 ELSE 0

\* The lock block at the head of transfer.
BeginTransfer(h) ==
  /\ h \in waiting
  /\ Cardinality(inflight) < Workers
  /\ waiting' = waiting \ {h}
  /\ inflight' = inflight \cup {h}
  /\ active' = active \cup {h}
  /\ queued' = Dequeue
  /\ UNCHANGED <<flags, tally, registered, retry, snap, pc, lists, buffer,
                 current, returned, collected, outcome, stable, crashes>>

\* The rest of transfer.  "blank" is a failure whose exception has no text.
EndTransfer(h) ==
  LET p == LocalOf(files, h) IN
  /\ h \in inflight
  /\ inflight' = inflight \ {h}
  /\ returned' = returned \cup {h}
  /\ \/ /\ Fits(h, disk[p])
        /\ outcome' = [outcome EXCEPT ![h] = "skipped"]
        /\ UNCHANGED disk
     \/ /\ ~Fits(h, disk[p])
        /\ outcome' = [outcome EXCEPT ![h] = "downloaded"]
        /\ disk' = [disk EXCEPT ![p] = h]
     \/ /\ ~Fits(h, disk[p])
        /\ \E o \in Outcomes \ Good : outcome' = [outcome EXCEPT ![h] = o]
        /\ UNCHANGED disk
  /\ UNCHANGED <<flags, tally, queued, registered, active, retry, snap, pc,
                 lists, buffer, current, waiting, collected, rows, crashes>>

-----------------------------------------------------------------------------
\* The process is killed and started again.
Crash ==
  /\ crashes < MaxCrashes
  /\ crashes' = crashes + 1
  /\ Reset
  /\ running' = FALSE /\ retrying' = FALSE /\ attempt' = 0
  /\ snap' = [c \in Clients |-> {}]
  /\ pc' = "idle" /\ files' = {}
  /\ UNCHANGED stable

Next ==
  \/ StartFull
  \/ \E c \in Clients : SnapshotFailed(c) \/ StartRetry(c) \/ RefuseRetry(c)
  \/ Coordinator
  \/ \E h \in Hrefs : BeginTransfer(h) \/ EndTransfer(h)
  \/ Crash

\* The coordinator is one thread; a transfer ends because connect and read
\* time out after 10 and 120 seconds and are retried three times at most.
\* Requests and crashes are not owed by anyone.
Fairness ==
  /\ WF_vars(Coordinator)
  /\ \A h \in Hrefs : WF_vars(BeginTransfer(h)) /\ WF_vars(EndTransfer(h))

Spec == Init /\ [][Next]_vars /\ Fairness

-----------------------------------------------------------------------------
(***************************************************************************)
(* Properties.                                                             *)
(***************************************************************************)

\* The variables keep to their types.
TypeOK ==
  /\ running \in BOOLEAN /\ done \in BOOLEAN /\ error \in BOOLEAN
  /\ retryAvailable \in BOOLEAN /\ retrying \in BOOLEAN
  /\ {total, completed, downloaded, skipped, failed, queued, registered,
      attempt, crashes} \subseteq Nat
  /\ {active, failedFiles} \subseteq SUBSET Hrefs
  /\ snap \in [Clients -> SUBSET Hrefs]
  /\ pc \in {"idle", "list", "precheck", "collect", "register", "drain",
             "finally"}
  /\ {files, prechecked, waiting, inflight, returned, collected}
       \subseteq SUBSET Hrefs
  /\ {existing, pending, rows} \subseteq SUBSET Paths
  /\ current \in IF pc = "register" THEN Hrefs ELSE Hrefs \cup {NoFile}
  /\ outcome \in [Hrefs -> Outcomes \cup {"none"}]
  /\ disk \in [Paths -> Hrefs \cup {NoFile}]

\* What a status poll adds up to, although three kinds of threads write it:
\* every file of a job past its listing is counted exactly once, as completed,
\* queued or active, and a job that ends without an error has completed all.
CountersAgree ==
  /\ completed = downloaded + skipped + failed
  /\ pc \in {"precheck", "collect", "register", "drain"} =>
       total = completed + queued + Cardinality(active)
  /\ done /\ ~error => completed = total

\* running is cleared only when no thread of the job is left: the next job
\* never shares the disk or the dictionary with a transfer of the last one.
Quiescent ==
  ~running =>
    pc = "idle" /\ waiting = {} /\ inflight = {} /\ active = {}

Succeeded(h) == h \in prechecked \/ (h \in collected /\ outcome[h] \in Good)

\* When a job ends without an error, each file it counted as downloaded or
\* skipped is on disk at its expected size and has a row, also when an earlier
\* process died between storing the file and registering it.
SuccessIsStored ==
  done /\ ~error =>
    \A h \in files : Succeeded(h) =>
      LET p == LocalOf(files, h) IN
      /\ p \in rows
      /\ disk[p] # NoFile
      /\ h \in Sized => Length[disk[p]] = Length[h]

\* The failures accounted so far, and those whose exception has no text: counted, but not listed.
Failures == {h \in collected : outcome[h] \notin Good}
Textless == {h \in collected : outcome[h] = "blank"}

\* A file that a job ended without an error neither stored nor put on the list
\* of the retry would be lost to the user.  The list holds failures only and
\* the count of failures tells how many the list leaves out, those without a
\* text; and at such an end each file that is not listed has a row and a file
\* at its path, of the expected size unless it is one of the textless: an older
\* file of another size then stands for it, and no retry will fetch it.
FailuresListed ==
  /\ failedFiles \subseteq Failures
  /\ failed = Cardinality(failedFiles) + Cardinality(Textless)
  /\ done /\ ~error =>
       /\ retryAvailable <=> failedFiles # {}
       /\ \A h \in files \ failedFiles :
            LET p == LocalOf(files, h) IN
            /\ p \in rows /\ disk[p] # NoFile
            /\ h \in Sized \ Textless => Length[disk[p]] = Length[h]

\* A row, or a record about to become one, never names a missing file.
RowsHaveFiles == \A p \in rows \cup pending : disk[p] # NoFile

-----------------------------------------------------------------------------
(***************************************************************************)
(* The inductive invariant behind the safety properties, in named parts.   *)
(***************************************************************************)

Pooled == {"collect", "register", "drain"}

\* Where a file of the job is: in exactly one of five places once the pool has
\* been filled, in none of them before.
InvPool ==
  /\ waiting \cup inflight \cup returned \cup collected \cup prechecked
       \subseteq files
  /\ waiting \cap inflight = {} /\ waiting \cap returned = {}
  /\ waiting \cap collected = {} /\ waiting \cap prechecked = {}
  /\ inflight \cap returned = {} /\ inflight \cap collected = {}
  /\ inflight \cap prechecked = {} /\ returned \cap collected = {}
  /\ returned \cap prechecked = {} /\ collected \cap prechecked = {}
  /\ pc \in Pooled =>
       files = waiting \cup inflight \cup returned \cup collected
                 \cup prechecked
  /\ pc \in {"list", "precheck"} =>
       /\ waiting = {} /\ inflight = {} /\ returned = {}
       /\ collected = {} /\ prechecked = {}
  /\ pc \in {"idle", "finally"} => waiting = {} /\ inflight = {}
  /\ pc = "register" => current \in collected
  /\ \A h \in returned \cup collected : outcome[h] \in Outcomes

\* The flags say where the coordinator is.
InvFlags ==
  /\ running <=> pc # "idle"
  /\ done => pc = "idle"
  /\ error => pc \in {"idle", "finally"}

\* The counters are the cardinalities of those places.
InvCounts ==
  /\ completed = downloaded + skipped + failed
  /\ completed = Cardinality(prechecked) + Cardinality(collected)
  /\ pc \in Pooled => /\ active = inflight \cup returned
                      /\ queued = Cardinality(waiting)
  /\ pc \in {"list", "precheck", "idle"} => active = {}
  /\ pc = "list" => downloaded = 0 /\ skipped = 0 /\ failed = 0
  /\ pc = "precheck" => /\ queued = Cardinality(files)
                        /\ downloaded = 0 /\ failed = 0
  /\ pc \in Pooled \cup {"precheck"} => total = Cardinality(files)

InvFailed == failed = Cardinality(Failures)

\* A job on its way to a clean end, or there, has settled all its files.
Clean == (pc = "finally" \/ done) /\ ~error

InvClosed ==
  /\ Clean => /\ files = prechecked \cup collected
              /\ total = Cardinality(files)
              /\ pending = {}
  /\ failedFiles = {h \in collected : outcome[h] = "failed"}
  /\ done => (retryAvailable <=> failedFiles # {})

\* The bytes of h are at its path, as far as their number tells.
Landed(h) ==
  LET p == LocalOf(files, h) IN
  /\ disk[p] # NoFile
  /\ h \in Sized => Length[disk[p]] = Length[h]

\* Settled without an error text: whatever is at its path gets a row.
Accounted(h) ==
  h \in prechecked \/ (h \in collected /\ outcome[h] # "failed")

\* What was accounted as a success is on disk; what was settled without an
\* error text, but for the file in hand, has a row or a pending record, unless
\* the stat of it raised.
InvStored ==
  /\ RowsHaveFiles
  /\ existing \subseteq rows \cup pending
  /\ pc \in {"list", "precheck"} => pending = {}
  /\ \A h \in prechecked : Landed(h)
  /\ \A h \in returned \cup collected : outcome[h] \in Good => Landed(h)
  /\ ~error /\ pc # "drain" => \A h \in files :
       Accounted(h) /\ ~(pc = "register" /\ h = current) =>
         LocalOf(files, h) \in rows \cup pending

IInv ==
  /\ TypeOK /\ InvPool /\ InvFlags /\ InvCounts /\ InvFailed /\ InvClosed
  /\ InvStored

-----------------------------------------------------------------------------
Ledger == INSTANCE JobLedger WITH
  Files <- Hrefs,
  phase <- IF running THEN "running"
           ELSE IF ~done THEN "idle"
           ELSE IF error THEN "broken" ELSE "done",
  todo  <- IF pc = "list" THEN {} ELSE files,
  ok    <- prechecked \cup {h \in collected : outcome[h] \in Good},
  bad   <- {h \in collected : outcome[h] \notin Good}

\* The job keeps the promise of JobLedger: no file is settled twice or taken
\* back, no two jobs overlap, and "done" without an error means all settled.
RefinesLedger == Ledger!Spec

\* A started job ends, whatever the phone and the database do.
JobEnds == running ~> ~running

\* "Retry only files that failed in the latest WebDAV job."
RetryIsLatest ==
  [][attempt' > attempt /\ retrying' => files' = failedFiles]_vars

\* "... retaining both files when separate remote directories contain the same
\* basename": bytes already on disk are still somewhere on disk afterwards.
RetainsBoth ==
  [][ \A p \in Paths : disk[p] # NoFile =>
        \E q \in Paths : disk'[q] = disk[p] ]_vars
=============================================================================
