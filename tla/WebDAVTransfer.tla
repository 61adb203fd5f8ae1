---------------------------- MODULE WebDAVTransfer ----------------------------
(***************************************************************************)
(* One remote file, its destination and its part file: the nested function *)
(* transfer of photos_sync/endpoints/webdav_download.py, across any number *)
(* of jobs, lost connections and process restarts.  A byte is the pair of  *)
(* the version of the remote file it comes from and its offset there.      *)
(***************************************************************************)
EXTENDS Integers, Sequences

CONSTANTS
  LastVersion, \* bound: successive contents of the remote file
  Size,        \* Size[v]: the bytes of version v
  MaxCrashes,  \* bound: process restarts
  NoFile       \* no file at a path

Versions == 1..LastVersion

ASSUME TransferAssumption ==
  /\ LastVersion \in Nat \ {0}
  /\ Size \in [Versions -> Nat \ {0}]
  /\ MaxCrashes \in Nat
  /\ NoFile \notin Seq(Versions \X (Nat \ {0}))

VARIABLES
  sized,    \* the server's listings carry a getcontentlength
  ranged,   \* the server answers Range requests
  remote,   \* the version the phone serves now
  listed,   \* the version the job's listing saw
  pc,       \* where the transfer thread is
  resume,   \* resume_from
  body,     \* what the response still has to deliver
  part,     \* the bytes of <name>.webdav.part
  local,    \* the bytes of the destination
  answer,   \* the outcome transfer returned
  crashes   \* restarts so far

server == <<sized, ranged>>
vars   == <<server, remote, listed, pc, resume, body, part, local, answer,
            crashes>>

Bytes(v, first) == [i \in 1..(Size[v] - first + 1) |-> <<v, first + i - 1>>]

\* st_size of a path that may have no file
Stat(content) == IF content = NoFile THEN 0 ELSE Len(content)

\* remote.size, 0 when the listing does not say
Wanted == IF sized THEN Size[listed] ELSE 0

Init ==
  /\ sized \in BOOLEAN /\ ranged \in BOOLEAN
  /\ remote = 1 /\ listed = 1
  /\ pc = "idle" /\ resume = 0 /\ body = <<>>
  /\ part = NoFile /\ local = NoFile
  /\ answer = "none"
  /\ crashes = 0

-----------------------------------------------------------------------------
\* The phone's file is replaced by a later version.
RemoteChange ==
  /\ remote + 1 \in Versions
  /\ remote' = remote + 1
  /\ UNCHANGED <<server, listed, pc, resume, body, part, local, answer, crashes>>

\* A job, full or retry, submits the file: the retry keeps the size that the
\* failed job listed.
Submit ==
  /\ pc = "idle"
  /\ pc' = "begin"
  /\ \E v \in {listed, remote} : listed' = v
  /\ answer' = "none"
  /\ resume' = 0 /\ body' = <<>>
  /\ UNCHANGED <<server, remote, part, local, crashes>>

Return(result) ==
  /\ pc' = "idle"
  /\ answer' = result

\* The destination has the listed size.
Skip ==
  /\ pc = "begin"
  /\ local # NoFile /\ Wanted > 0 /\ Stat(local) = Wanted
  /\ Return("skipped")
  /\ UNCHANGED <<server, remote, listed, resume, body, part, local, crashes>>

\* Mutated form: a part of exactly the listed size is unlinked too.
TooLongOrFull == Wanted > 0 /\ Stat(part) >= Wanted

\* The part file holds more than the listed file.
TooLong == Wanted > 0 /\ Stat(part) > Wanted

\* The part file decides where to resume; one that is too long is unlinked.
InspectPart ==
  /\ pc = "begin"
  /\ ~(local # NoFile /\ Wanted > 0 /\ Stat(local) = Wanted)
  /\ IF TooLong
     THEN part' = NoFile /\ resume' = 0
     ELSE resume' = Stat(part) /\ UNCHANGED part
  /\ pc' = "request"
  /\ UNCHANGED <<server, remote, listed, body, local, answer, crashes>>

\* The rename that promotes the part file, whatever the destination holds.
Promote ==
  /\ local' = part
  /\ part' = NoFile
  /\ Return("downloaded")

\* 206: the rest of the file, appended to the part.
Answer206 ==
  /\ pc = "request"
  /\ ranged /\ resume > 0 /\ resume < Size[remote]
  /\ body' = Bytes(remote, resume + 1)
  /\ pc' = "stream"
  /\ UNCHANGED <<server, remote, listed, resume, part, local, answer, crashes>>

\* Mutated form: a 200 answer is appended like a 206.
Appended200 ==
  /\ pc = "request"
  /\ resume = 0 \/ ~ranged
  /\ body' = Bytes(remote, 1)
  /\ part' = IF part = NoFile THEN <<>> ELSE part
  /\ pc' = "stream"
  /\ UNCHANGED <<server, remote, listed, resume, local, answer, crashes>>

\* 200: the whole file; the part is truncated and starts again.
Answer200 ==
  /\ pc = "request"
  /\ resume = 0 \/ ~ranged
  /\ body' = Bytes(remote, 1)
  /\ part' = <<>>
  /\ resume' = 0
  /\ pc' = "stream"
  /\ UNCHANGED <<server, remote, listed, local, answer, crashes>>

\* Mutated form: any 416 promotes the part.
Promoting416 ==
  /\ pc = "request"
  /\ ranged /\ resume > 0 /\ resume >= Size[remote]
  /\ Promote
  /\ UNCHANGED <<server, remote, listed, resume, body, crashes>>

\* 416: nothing is left to send.  With the listed size the part is complete.
Answer416 ==
  /\ pc = "request"
  /\ ranged /\ resume > 0 /\ resume >= Size[remote]
  /\ IF Wanted = resume
     THEN Promote
     ELSE Return("failed") /\ UNCHANGED <<part, local>>
  /\ UNCHANGED <<server, remote, listed, resume, body, crashes>>

\* A chunk is appended.
Chunk ==
  /\ pc = "stream"
  /\ \E n \in 1..Len(body) :
       /\ part' = part \o SubSeq(body, 1, n)
       /\ body' = SubSeq(body, n + 1, Len(body))
  /\ UNCHANGED <<server, remote, listed, pc, resume, local, answer, crashes>>

\* The body ends: all of it was read, or the connection closed without a sign.
BodyEnds ==
  /\ pc = "stream"
  /\ pc' = "verify"
  /\ UNCHANGED <<server, remote, listed, resume, body, part, local, answer,
                 crashes>>

\* Mutated form: a failed attempt cleans up its part file.
BrokenUnlinks ==
  /\ pc \in {"request", "stream"}
  /\ Return("failed")
  /\ part' = NoFile
  /\ UNCHANGED <<server, remote, listed, resume, body, local, crashes>>

\* Any exception of the request or of the stream; the part file stays.
Broken ==
  /\ pc \in {"request", "stream"}
  /\ Return("failed")
  /\ UNCHANGED <<server, remote, listed, resume, body, part, local, crashes>>

\* Mutated form: no size check.
NeverIncomplete == FALSE

\* The size check that precedes the rename.
Incomplete == Wanted > 0 /\ Stat(part) # Wanted

Verify ==
  /\ pc = "verify"
  /\ IF Incomplete
     THEN Return("failed") /\ UNCHANGED <<part, local>>
     ELSE Promote
  /\ UNCHANGED <<server, remote, listed, resume, body, crashes>>

\* The process is killed: what it wrote since the file was opened may be lost
\* from the end, what the part file held before is not.
Crash ==
  /\ crashes < MaxCrashes
  /\ crashes' = crashes + 1
  /\ pc' = "idle" /\ answer' = "none"
  /\ resume' = 0 /\ body' = <<>>
  /\ IF pc = "stream"
     THEN \E n \in resume..Len(part) : part' = SubSeq(part, 1, n)
     ELSE UNCHANGED part
  /\ UNCHANGED <<server, remote, listed, local>>

Answered == Answer206 \/ Answer200 \/ Answer416

Thread ==
  \/ Skip \/ InspectPart
  \/ Answered \/ Broken
  \/ Chunk \/ BodyEnds
  \/ Verify

Next == RemoteChange \/ Submit \/ Thread \/ Crash

\* Only the thread is owed steps; jobs, phones and crashes are not.
Spec == Init /\ [][Next]_vars /\ WF_vars(Thread)

-----------------------------------------------------------------------------
(***************************************************************************)
(* Properties.                                                             *)
(***************************************************************************)

Contents == {NoFile} \cup Seq(Versions \X (Nat \ {0}))

\* The variables keep to their types.
TypeOK ==
  /\ {sized, ranged} \subseteq BOOLEAN
  /\ {remote, listed} \subseteq Versions
  /\ pc \in {"idle", "begin", "request", "stream", "verify"}
  /\ resume \in Nat /\ crashes \in Nat
  /\ body \in Seq(Versions \X (Nat \ {0}))
  /\ {part, local} \subseteq Contents
  /\ answer \in {"none", "skipped", "downloaded", "failed"}

Aligned(content) ==
  content # NoFile => \A i \in 1..Len(content) : content[i][2] = i

\* Every byte of the part file and of the destination sits at its offset in
\* the remote file: no resume, restart, lost connection or crash shifts,
\* repeats or drops a byte.
BytesInPlace == Aligned(part) /\ Aligned(local)

\* As long as the phone's file does not change, a destination written from a
\* listing with a size is exactly that file.
IntactUnlessChanged ==
  remote = 1 /\ sized /\ local # NoFile => local = Bytes(1, 1)

\* "the next attempt asks the server for only the missing byte range": a part
\* file loses bytes only to a crash, to a server that ignores Range, because it
\* is longer than the listed file, or by becoming the destination.
ProgressIsKept ==
  [][ Stat(part') < Stat(part) =>
        \/ crashes' > crashes
        \/ ~ranged
        \/ Wanted > 0 /\ Stat(part) > Wanted
        \/ local' = part ]_vars

Contract == INSTANCE TransferContract WITH
  busy   <- pc # "idle",
  wanted <- Wanted,
  stored <- Stat(local)

\* An attempt keeps the contract on which the job's accounting rests.
KeepsContract == Contract!Spec

\* With a server that honours Range, bytes that keep arriving become a file:
\* attempts cannot go on for ever without completing one.
BytesBecomeFile == ranged => ([]<><<Chunk>>_vars => <>(local # NoFile))
=============================================================================
