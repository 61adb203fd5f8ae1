---------------------------- MODULE FilesProofs -----------------------------
(***************************************************************************)
(* What the server reads, makes and sends of photo files, for any photos,  *)
(* browsers, servers and faults: the copies at SSH servers, thumbnails,    *)
(* metadata, ZIP downloads and the listing of a phone.                     *)
(***************************************************************************)
EXTENDS Upload, Thumbnails, Classification, Archive, Discovery, FiniteSetTheorems,
        SequenceTheorems, TLAPS

(***************************************************************************)
(* The upload.                                                             *)
(***************************************************************************)

\* The files of the listing that this session is through with are counted,
\* and, without errors, copied.
InSession == uPc \in {"file", "put", "summary"}

SessionCounted ==
  InSession => uploaded + existed + errors + Cardinality(left) >= Cardinality(listed)

SessionCopied ==
  InSession /\ errors = 0 => \A f \in listed \ left : remote[host][f] = "whole"

\* A session has a server, a transfer a file, and only they have files to do.
SessionPlace ==
  /\ uPc \in {"connect", "file", "put", "summary"} => host \in Hosts
  /\ uPc = "put" => left # {}
  /\ uPc \notin {"file", "put"} => left = {}

UploadInv == UploadTypeOK /\ SessionCounted /\ SessionCopied /\ SessionPlace

\* Types without the flags, which the steps change by logic alone.
DataTypes ==
  /\ uPc \in {"idle", "servers", "connect", "file", "put", "summary"}
  /\ servers \subseteq Hosts /\ host \in Hosts \cup {NoHost}
  /\ listed \subseteq Photos /\ left \subseteq listed /\ here \subseteq Photos
  /\ attempt \in 1..SessionTries /\ try \in 1..FileTries
  /\ uploaded \in Nat /\ existed \in Nat /\ errors \in Nat
  /\ remote \in [Hosts -> [Photos -> {"none", "short", "whole"}]]
  /\ faults \in 0..MaxFaults

Flags == alive \in BOOLEAN /\ lost \in BOOLEAN

-----------------------------------------------------------------------------
LEMMA TypeParts == UploadTypeOK <=> DataTypes /\ Flags
  BY DEF UploadTypeOK, DataTypes, Flags

LEMMA FlagStep == ASSUME Flags, [UploadNext]_upVars PROVE Flags'
  <1> USE DEF Flags
  <1>1. ASSUME NEW up, NEW had, NEW bad, FileDone(up, had, bad) PROVE Flags'
    BY <1>1 DEF FileDone
  <1>2. CASE UploadSteps
    BY <1>1, <1>2 DEF UploadSteps, StartUpload, NextServer, Connect, SessionFails, StatFile,
                      StatFails, PutFile, PutFails, GiveUp, CloseSession, Summary
  <1>3. CASE DropConnection \/ KillUpload \/ \E f \in Photos : PhotoLeaves(f)
    BY <1>3 DEF DropConnection, KillUpload, PhotoLeaves
  <1>4. CASE UNCHANGED upVars
    BY <1>4 DEF upVars
  <1> QED BY <1>2, <1>3, <1>4 DEF UploadNext

LEMMA FiniteListing == ASSUME DataTypes PROVE IsFiniteSet(listed) /\ IsFiniteSet(left)
  BY FS_Subset, UploadAssumption DEF DataTypes

LEMMA FileIsLeft == left # {} => File \in left
  BY DEF File

\* A file that is done is counted, and copied when it is no error.
LEMMA FileStep ==
  ASSUME DataTypes, SessionCounted, SessionCopied, SessionPlace,
         uPc \in {"file", "put"}, left # {},
         NEW up \in 0..1, NEW had \in 0..1, NEW bad \in 0..1, up + had + bad = 1,
         FileDone(up, had, bad),
         UNCHANGED <<here, host, listed>>,
         \/ remote' = remote
         \/ \E state \in {"none", "short", "whole"} :
              remote' = [remote EXCEPT ![host][File] = state],
         bad = 0 => remote'[host][File] = "whole",
         faults' \in 0..MaxFaults
  PROVE  DataTypes' /\ SessionCounted' /\ SessionCopied' /\ SessionPlace'
  <1>1. /\ File \in left /\ File \in Photos /\ host \in Hosts
        /\ IsFiniteSet(left) /\ IsFiniteSet(listed)
    BY FileIsLeft, FiniteListing DEF DataTypes, SessionPlace
  <1>2. /\ uPc' = "file" /\ left' = left \ {File} /\ try' = 1
        /\ uploaded' = uploaded + up /\ existed' = existed + had /\ errors' = errors + bad
        /\ servers' = servers /\ attempt' = attempt
    BY DEF FileDone
  <1>3. /\ remote' \in [Hosts -> [Photos -> {"none", "short", "whole"}]]
        /\ \A f \in Photos \ {File} : remote'[host][f] = remote[host][f]
    BY <1>1 DEF DataTypes
  <1>4. DataTypes'
    BY <1>2, <1>3 DEF DataTypes, FileTries
  <1>5. /\ Cardinality(left') = Cardinality(left) - 1
        /\ Cardinality(left) \in Nat /\ Cardinality(listed) \in Nat
    BY <1>1, <1>2, FS_RemoveElement, FS_CardinalityType
  <1>6. SessionCounted'
    BY <1>2, <1>5 DEF SessionCounted, InSession, DataTypes
  <1>7. SessionCopied'
    <2> SUFFICES ASSUME errors' = 0, NEW f \in listed \ left' PROVE remote'[host][f] = "whole"
      BY <1>2 DEF SessionCopied, InSession
    <2>1. errors = 0 /\ bad = 0
      BY <1>2 DEF DataTypes
    <2>2. CASE f = File
      BY <2>1, <2>2
    <2>3. CASE f # File
      <3>1. f \in listed \ left /\ f \in Photos
        BY <1>2, <2>3 DEF DataTypes
      <3> QED BY <1>3, <2>1, <2>3, <3>1 DEF SessionCopied, InSession
    <2> QED BY <2>2, <2>3
  <1>8. SessionPlace'
    BY <1>1, <1>2 DEF SessionPlace
  <1> QED BY <1>4, <1>6, <1>7, <1>8

LEMMA UploadStarts == ASSUME UploadInit PROVE UploadInv
  <1>1. Flags
    BY DEF UploadInit, Flags
  <1>2. DataTypes /\ SessionCounted /\ SessionCopied /\ SessionPlace
    BY UploadAssumption DEF UploadInit, DataTypes, SessionCounted, SessionCopied, SessionPlace,
       InSession, SessionTries, FileTries
  <1> QED BY <1>1, <1>2, TypeParts DEF UploadInv

\* The steps between files, and of the environment.
LEMMA UploadStep ==
  ASSUME DataTypes, SessionCounted, SessionCopied, SessionPlace, [UploadNext]_upVars
  PROVE  DataTypes' /\ SessionCounted' /\ SessionCopied' /\ SessionPlace'
  <1> DEFINE Goal == DataTypes' /\ SessionCounted' /\ SessionCopied' /\ SessionPlace'
  <1>0. /\ IsFiniteSet(left) /\ IsFiniteSet(listed)
        /\ Cardinality(left) \in Nat /\ Cardinality(listed) \in Nat /\ MaxFaults \in Nat
    BY FiniteListing, FS_CardinalityType, UploadAssumption
  <1>1. CASE UNCHANGED upVars
    BY <1>1 DEF upVars, counts, outside, DataTypes, SessionCounted, SessionCopied, SessionPlace,
                InSession
  <1>2. ASSUME NEW S \in SUBSET Hosts, StartUpload(S) PROVE Goal
    BY <1>2 DEF StartUpload, counts, outside, DataTypes, SessionCounted, SessionCopied,
                SessionPlace, InSession
  <1>3. CASE NextServer
    BY <1>3 DEF NextServer, counts, outside, DataTypes, SessionCounted, SessionCopied,
                SessionPlace, InSession, SessionTries
  <1>4. CASE Connect
    BY <1>0, <1>4 DEF Connect, counts, outside, DataTypes, SessionCounted, SessionCopied,
                SessionPlace, InSession
  <1>5. CASE SessionFails
    BY <1>0, <1>5 DEF SessionFails, Fault, counts, DataTypes, SessionCounted, SessionCopied,
                SessionPlace, InSession, SessionTries
  <1>6. CASE StatFile
    <2>1. CASE uPc' = "put"
      BY <1>6, <2>1 DEF StatFile, FileDone, counts, outside, DataTypes, SessionCounted,
                        SessionCopied, SessionPlace, InSession
    <2>2. CASE FileDone(0, 0, 1)
      <3>1. uPc = "file" /\ left # {} /\ UNCHANGED <<here, remote, faults, host, listed>>
        BY <1>6, <2>2 DEF StatFile, FileDone, outside
      <3> QED BY <2>2, <3>1, FileStep DEF DataTypes
    <2>3. CASE HasCopy /\ FileDone(0, 1, 0)
      <3>1. /\ uPc = "file" /\ left # {} /\ UNCHANGED <<here, remote, faults, host, listed>>
            /\ remote'[host][File] = "whole"
        BY <1>6, <2>3 DEF StatFile, FileDone, outside, HasCopy
      <3> QED BY <2>3, <3>1, FileStep DEF DataTypes
    <2> QED BY <1>6, <2>1, <2>2, <2>3 DEF StatFile
  <1>7. CASE StatFails
    <2>1. /\ uPc = "file" /\ left # {} /\ FileDone(0, 0, 1)
          /\ UNCHANGED <<here, remote, host, listed>> /\ faults' \in 0..MaxFaults
      BY <1>0, <1>7 DEF StatFails, Fault, FileDone, DataTypes
    <2> QED BY <2>1, FileStep
  <1>8. CASE PutFile
    <2>1. /\ uPc = "put" /\ left # {} /\ FileDone(1, 0, 0)
          /\ UNCHANGED <<here, host, listed>> /\ faults' \in 0..MaxFaults
          /\ remote' = [remote EXCEPT ![host][File] = "whole"]
      BY <1>8 DEF PutFile, FileDone, SessionPlace, DataTypes
    <2>2. remote'[host][File] = "whole"
      BY <2>1, FileIsLeft DEF DataTypes, SessionPlace
    <2> QED BY <2>1, <2>2, FileStep
  <1>9. CASE PutFails
    <2>1. /\ uPc = "put" /\ left # {} /\ File \in left /\ File \in Photos /\ host \in Hosts
          /\ here' = here /\ faults' \in 0..MaxFaults
      BY <1>0, <1>9, FileIsLeft DEF PutFails, Fault, SessionPlace, DataTypes
    <2>2. remote[host][File] \in {"none", "short", "whole"}
      BY <2>1 DEF DataTypes
    <2>3. \/ remote' = remote
          \/ \E state \in {"none", "short", "whole"} :
               remote' = [remote EXCEPT ![host][File] = state]
      BY <1>9, <2>2 DEF PutFails, PutStops
    <2>4. CASE try < FileTries
      <3>1. /\ try' = try + 1
            /\ UNCHANGED <<uPc, servers, host, listed, left, attempt, uploaded, existed, errors>>
        BY <1>9, <2>4 DEF PutFails, counts
      <3>2. /\ remote' \in [Hosts -> [Photos -> {"none", "short", "whole"}]]
            /\ \A f \in Photos \ {File} : remote'[host][f] = remote[host][f]
        BY <2>1, <2>3 DEF DataTypes
      <3>3. DataTypes'
        BY <2>1, <2>4, <3>1, <3>2 DEF DataTypes, FileTries
      <3>4. SessionCounted' /\ SessionPlace'
        BY <3>1 DEF SessionCounted, SessionPlace, InSession
      <3>5. SessionCopied'
        BY <2>1, <3>1, <3>2 DEF SessionCopied, InSession, DataTypes
      <3> QED BY <3>3, <3>4, <3>5
    <2>5. CASE ~(try < FileTries)
      <3>1. FileDone(0, 0, 1)
        BY <1>9, <2>5 DEF PutFails, GiveUp
      <3>2. UNCHANGED <<here, host, listed>>
        BY <2>1, <3>1 DEF FileDone
      <3> QED BY <2>1, <2>3, <3>1, <3>2, FileStep
    <2> QED BY <2>4, <2>5
  <1>10. CASE CloseSession \/ Summary
    BY <1>10 DEF CloseSession, Summary, counts, outside, DataTypes, SessionCounted, SessionCopied,
                 SessionPlace, InSession
  <1>11. CASE \E f \in Photos : PhotoLeaves(f)
    BY <1>0, <1>11 DEF PhotoLeaves, Fault, counts, DataTypes, SessionCounted, SessionCopied,
                       SessionPlace, InSession
  <1>12. ASSUME uPc = "put", PutStops
         PROVE  /\ remote' \in [Hosts -> [Photos -> {"none", "short", "whole"}]]
                /\ \A f \in listed \ left : remote'[host][f] = remote[host][f]
    <2>1. File \in left /\ File \in Photos /\ host \in Hosts
      BY <1>12, FileIsLeft DEF SessionPlace, DataTypes
    <2>2. remote[host][File] \in {"none", "short", "whole"}
      BY <2>1 DEF DataTypes
    <2>3. PICK state \in {"none", "short", "whole"} :
            remote' = [remote EXCEPT ![host][File] = state]
      BY <1>12, <2>2 DEF PutStops
    <2> QED BY <2>1, <2>3 DEF DataTypes
  <1>13. CASE DropConnection
    <2>1. /\ uPc \in {"file", "put"} /\ faults' \in 0..MaxFaults
          /\ UNCHANGED <<uPc, servers, host, listed, left, attempt, try, uploaded, existed,
                         errors, here>>
      BY <1>0, <1>13 DEF DropConnection, Fault, DataTypes, counts
    <2>2. /\ remote' \in [Hosts -> [Photos -> {"none", "short", "whole"}]]
          /\ \A f \in listed \ left : remote'[host][f] = remote[host][f]
      BY <1>12, <1>13 DEF DropConnection, DataTypes
    <2>3. SessionCopied'
      BY <2>1, <2>2 DEF SessionCopied, InSession
    <2> QED BY <2>1, <2>2, <2>3 DEF DataTypes, SessionCounted, SessionPlace, InSession
  <1>14. CASE KillUpload
    <2>1. /\ uPc' = "idle" /\ servers' = {} /\ host' = NoHost /\ listed' = {} /\ left' = {}
          /\ attempt' = 1 /\ try' = 1 /\ uploaded' = 0 /\ existed' = 0 /\ errors' = 0
          /\ here' = here /\ faults' \in 0..MaxFaults
      BY <1>0, <1>14 DEF KillUpload, Fault, DataTypes
    <2>2. remote' \in [Hosts -> [Photos -> {"none", "short", "whole"}]]
      BY <1>14, <1>12 DEF KillUpload, DataTypes
    <2> QED
      BY <2>1, <2>2 DEF DataTypes, SessionCounted, SessionCopied, SessionPlace, InSession,
                        SessionTries, FileTries
  <1> QED
    BY <1>1, <1>2, <1>3, <1>4, <1>5, <1>6, <1>7, <1>8, <1>9, <1>10, <1>11, <1>14, <1>13
    DEF UploadNext, UploadSteps

LEMMA UploadInvStep == ASSUME UploadInv, [UploadNext]_upVars PROVE UploadInv'
  <1>1. DataTypes /\ Flags
    BY TypeParts DEF UploadInv
  <1>2. DataTypes' /\ SessionCounted' /\ SessionCopied' /\ SessionPlace'
    BY <1>1, UploadStep DEF UploadInv
  <1>3. Flags'
    BY <1>1, FlagStep
  <1>4. UploadTypeOK'
    BY <1>2, <1>3 DEF UploadTypeOK, DataTypes, Flags
  <1> QED BY <1>2, <1>4 DEF UploadInv

LEMMA UploadInvariant == UploadSpec => []UploadInv
  <1>1. UploadInit => UploadInv
    BY UploadStarts
  <1>2. UploadInv /\ [UploadNext]_upVars => UploadInv'
    BY UploadInvStep
  <1> QED BY <1>1, <1>2, PTL DEF UploadSpec

-----------------------------------------------------------------------------
\* The variables of the upload keep to their types.
THEOREM UploadTypeCorrect == UploadSpec => []UploadTypeOK
  <1>1. UploadInv => UploadTypeOK
    BY DEF UploadInv
  <1> QED BY <1>1, UploadInvariant, PTL

\* A summary counts every photo of the listing, and without errors each has a
\* whole copy at its server, for any servers, photos, faults and kills.
THEOREM SummaryIsTrue == UploadSpec => []UploadTellsTruth
  <1>1. ASSUME UploadInv PROVE UploadTellsTruth
    <2> SUFFICES ASSUME uPc = "summary" PROVE
          /\ uploaded + existed + errors >= Cardinality(listed)
          /\ errors = 0 => \A f \in listed : remote[host][f] = "whole"
      BY DEF UploadTellsTruth
    <2>1. left = {} /\ Cardinality(left) = 0
      BY <1>1, FS_EmptySet DEF UploadInv, SessionPlace
    <2>2. DataTypes
      BY <1>1, TypeParts DEF UploadInv
    <2> QED BY <1>1, <2>1, <2>2 DEF UploadInv, SessionCounted, SessionCopied, InSession, DataTypes
  <1> QED BY <1>1, UploadInvariant, PTL

-----------------------------------------------------------------------------
(***************************************************************************)
(* The thumbnail cache.                                                    *)
(***************************************************************************)

Editions == 1..MaxEdits

\* The edition of an mtime.
BornTells ==
  /\ born[editedAt] = edition
  /\ \A k \in Seconds : born[k] \in Editions => born[k] <= edition

\* A request began with the edition of its key.
KeyTellsEdition ==
  \A v \in Viewers : vPc[v] # "idle" /\ key[v] \notin hasty => since[v] = born[key[v]]

\* What is in the cache is not older than its key.
CacheIsCurrent ==
  \A k \in Seconds \ (torn \cup hasty) : thumbs[k] \in Editions =>
    born[k] \in Editions /\ thumbs[k] >= born[k]

\* What a request has opened, and what it is about to send.
RequestKnows ==
  \A v \in Viewers :
    /\ vPc[v] # "idle" => since[v] \in Editions /\ since[v] <= edition
    /\ vPc[v] \in {"open", "save"} => loaded[v] \in Editions /\ loaded[v] >= since[v]
    /\ vPc[v] = "send" /\ key[v] \notin torn => thumbs[key[v]] \in Editions

ThumbInv ==
  /\ ThumbTypeOK /\ BornTells /\ KeyTellsEdition /\ CacheIsCurrent /\ RequestKnows
  /\ ThumbsAreCurrent

-----------------------------------------------------------------------------
\* At the start there are no requests and no files.
LEMMA ThumbStarts == ASSUME ThumbInit PROVE ThumbInv
  BY ThumbnailsAssumption
  DEF ThumbInit, ThumbInv, ThumbTypeOK, BornTells, KeyTellsEdition, CacheIsCurrent, RequestKnows,
      ThumbsAreCurrent, Seconds, NoFile, Part, Editions

LEMMA ThumbTypeStep == ASSUME ThumbTypeOK, [ThumbNext]_thumbVars PROVE ThumbTypeOK'
  <1> USE DEF ThumbTypeOK, At, photo
  <1>1. CASE UNCHANGED thumbVars
    BY <1>1 DEF thumbVars
  <1>2. ASSUME NEW v \in Viewers, AskThumb(v) \/ ThumbExists(v) \/ OpenPhoto(v) PROVE ThumbTypeOK'
    BY <1>2 DEF AskThumb, ThumbExists, OpenPhoto, KeyTime
  <1>3. ASSUME NEW v \in Viewers, BeginSave(v) \/ EndSave(v) PROVE ThumbTypeOK'
    BY <1>3 DEF BeginSave, EndSave
  <1>4. ASSUME NEW v \in Viewers, ThumbFails(v) PROVE ThumbTypeOK'
    <2>1. /\ vPc' \in [Viewers -> {"idle", "look", "open", "save", "send", "sent"}]
          /\ torn' \subseteq Seconds
          /\ thumbs' \in [Seconds -> {NoFile, Part} \cup 1..MaxEdits]
      BY <1>4 DEF ThumbFails
    <2>2. /\ loaded' \in [Viewers -> {NoFile, Part} \cup 1..MaxEdits]
          /\ since' \in [Viewers -> {NoFile} \cup 1..MaxEdits]
      BY <1>4 DEF ThumbFails
    <2> QED BY <1>4, <2>1, <2>2 DEF ThumbFails
  <1>5. ASSUME NEW v \in Viewers, SendThumb(v) \/ ThumbDone(v) PROVE ThumbTypeOK'
    BY <1>5 DEF SendThumb, ThumbDone
  <1>6. ASSUME NEW m \in Seconds, EditPhoto(m) PROVE ThumbTypeOK'
    <2>1. edition' \in 1..MaxEdits
      BY <1>6, ThumbnailsAssumption DEF EditPhoto
    <2>2. editedAt' \in Seconds /\ hasty' \subseteq Seconds
      BY <1>6 DEF EditPhoto
    <2>3. born' \in [Seconds -> {NoFile} \cup 1..MaxEdits]
      BY <1>6, <2>1 DEF EditPhoto
    <2> QED BY <1>6, <2>1, <2>2, <2>3 DEF EditPhoto
  <1>7. CASE KillServer
    BY <1>7 DEF KillServer
  <1> QED BY <1>1, <1>2, <1>3, <1>4, <1>5, <1>6, <1>7 DEF ThumbNext

\* The steps of a request.
LEMMA RequestStep ==
  ASSUME ThumbInv, ThumbTypeOK', NEW v \in Viewers,
         \/ AskThumb(v) \/ ThumbExists(v) \/ OpenPhoto(v) \/ BeginSave(v)
         \/ EndSave(v) \/ ThumbFails(v) \/ SendThumb(v) \/ ThumbDone(v)
  PROVE  ThumbInv'
  <1> USE DEF ThumbInv, ThumbTypeOK, At, photo
  <1>1. CASE AskThumb(v)
    <2>1. /\ \A w \in Viewers :
               /\ vPc'[w] = IF w = v THEN "look" ELSE vPc[w]
               /\ key'[w] = IF w = v THEN editedAt ELSE key[w]
               /\ since'[w] = IF w = v THEN edition ELSE since[w]
          /\ vPc[v] = "idle"
          /\ UNCHANGED <<edition, editedAt, born, hasty, thumbs, loaded, torn>>
      BY <1>1 DEF AskThumb, KeyTime
    <2>2. BornTells' /\ CacheIsCurrent'
      BY <2>1 DEF BornTells, CacheIsCurrent, Editions
    <2>3. KeyTellsEdition'
      BY <2>1 DEF KeyTellsEdition, BornTells
    <2>4. RequestKnows' /\ ThumbsAreCurrent'
      BY <2>1 DEF RequestKnows, ThumbsAreCurrent, Editions
    <2> QED BY <2>2, <2>3, <2>4
  <1>2. CASE ThumbExists(v)
    BY <1>2 DEF ThumbExists, BornTells, KeyTellsEdition, CacheIsCurrent, RequestKnows,
                ThumbsAreCurrent, Editions
  <1>3. CASE OpenPhoto(v)
    BY <1>3 DEF OpenPhoto, BornTells, KeyTellsEdition, CacheIsCurrent, RequestKnows,
                ThumbsAreCurrent, Editions
  <1>4. CASE BeginSave(v)
    BY <1>4 DEF BeginSave, BornTells, KeyTellsEdition, CacheIsCurrent, RequestKnows,
                ThumbsAreCurrent, Editions, Seconds, NoFile, Part
  <1>5. CASE EndSave(v)
    BY <1>5 DEF EndSave, BornTells, KeyTellsEdition, CacheIsCurrent, RequestKnows,
                ThumbsAreCurrent, Editions, Seconds
  <1>6. CASE ThumbFails(v)
    <2>1. /\ \A w \in Viewers :
               /\ vPc'[w] = IF w = v THEN "idle" ELSE vPc[w]
               /\ w # v => loaded'[w] = loaded[w] /\ since'[w] = since[w]
          /\ vPc[v] \in {"open", "save"} /\ torn \subseteq torn'
          /\ UNCHANGED <<edition, editedAt, born, hasty, key>>
      BY <1>6 DEF ThumbFails
    <2>2. /\ \A k \in Seconds : k # key[v] => thumbs'[k] = thumbs[k]
          /\ key[v] \in torn' \/ thumbs' = thumbs
          /\ thumbs'[key[v]] \in {NoFile, Part, thumbs[key[v]]}
          /\ vPc[v] = "open" => thumbs' = thumbs
      BY <1>6 DEF ThumbFails
    <2>3. BornTells'
      BY <2>1 DEF BornTells, Editions
    <2>4. KeyTellsEdition'
      BY <2>1 DEF KeyTellsEdition
    <2>5. CacheIsCurrent'
      BY <2>1, <2>2 DEF CacheIsCurrent, Editions, NoFile, Part
    <2>6. RequestKnows' /\ ThumbsAreCurrent'
      BY <2>1, <2>2 DEF RequestKnows, ThumbsAreCurrent, Editions
    <2> QED BY <2>3, <2>4, <2>5, <2>6
  <1>7. CASE SendThumb(v)
    BY <1>7 DEF SendThumb, BornTells, KeyTellsEdition, CacheIsCurrent, RequestKnows,
                ThumbsAreCurrent, Editions
  <1>8. CASE ThumbDone(v)
    BY <1>8 DEF ThumbDone, BornTells, KeyTellsEdition, CacheIsCurrent, RequestKnows,
                ThumbsAreCurrent, Editions
  <1> QED BY <1>1, <1>2, <1>3, <1>4, <1>5, <1>6, <1>7, <1>8

\* Another edition: its mtime is new, or hasty from now on.
LEMMA EditStep ==
  ASSUME ThumbInv, ThumbTypeOK', NEW m \in Seconds, EditPhoto(m)
  PROVE  ThumbInv'
  <1> USE DEF ThumbInv, ThumbTypeOK
  <1>1. /\ edition' = edition + 1 /\ editedAt' = m
        /\ \A k \in Seconds : born'[k] = IF k = m THEN edition + 1 ELSE born[k]
        /\ hasty \subseteq hasty' /\ (m \in hasty' \/ born[m] = NoFile)
        /\ UNCHANGED <<thumbs, vPc, key, loaded, since, torn>>
    BY DEF EditPhoto
  <1>2. edition + 1 \in Editions
    BY <1>1 DEF Editions
  <1>3. BornTells'
    BY <1>1, <1>2 DEF BornTells, Editions, NoFile
  <1>4. KeyTellsEdition'
    <2> SUFFICES ASSUME NEW v \in Viewers, vPc[v] # "idle", key[v] \notin hasty'
                 PROVE  since[v] = born'[key[v]]
      BY <1>1 DEF KeyTellsEdition
    <2>1. since[v] = born[key[v]] /\ since[v] \in Editions
      BY <1>1 DEF KeyTellsEdition, RequestKnows
    <2>2. key[v] # m
      BY <1>1, <2>1 DEF Editions, NoFile
    <2> QED BY <1>1, <2>1, <2>2
  <1>5. CacheIsCurrent'
    <2> SUFFICES ASSUME NEW k \in Seconds \ (torn \cup hasty'), thumbs[k] \in Editions
                 PROVE  born'[k] \in Editions /\ thumbs[k] >= born'[k]
      BY <1>1 DEF CacheIsCurrent
    <2>1. born[k] \in Editions /\ thumbs[k] >= born[k]
      BY <1>1 DEF CacheIsCurrent
    <2>2. k # m
      BY <1>1, <2>1 DEF Editions, NoFile
    <2> QED BY <1>1, <2>1, <2>2
  <1>6. RequestKnows' /\ ThumbsAreCurrent'
    BY <1>1 DEF RequestKnows, ThumbsAreCurrent, Editions
  <1> QED BY <1>3, <1>4, <1>5, <1>6

LEMMA KilledThumbs == ASSUME ThumbInv, ThumbTypeOK', KillServer PROVE ThumbInv'
  <1> USE DEF ThumbInv, ThumbTypeOK, photo
  <1>1. /\ \A v \in Viewers : vPc'[v] = "idle"
        /\ torn \subseteq torn'
        /\ UNCHANGED <<edition, editedAt, born, hasty, thumbs, key>>
    BY DEF KillServer
  <1>2. BornTells'
    BY <1>1 DEF BornTells
  <1>3. CacheIsCurrent'
    BY <1>1 DEF CacheIsCurrent
  <1>4. KeyTellsEdition' /\ RequestKnows' /\ ThumbsAreCurrent'
    BY <1>1 DEF KeyTellsEdition, RequestKnows, ThumbsAreCurrent
  <1> QED BY <1>2, <1>3, <1>4

LEMMA ThumbInvStep == ASSUME ThumbInv, [ThumbNext]_thumbVars PROVE ThumbInv'
  <1>1. ThumbTypeOK'
    BY ThumbTypeStep DEF ThumbInv
  <1>2. CASE UNCHANGED thumbVars
    <2>1. BornTells' /\ KeyTellsEdition'
      BY <1>2 DEF thumbVars, photo, ThumbInv, BornTells, KeyTellsEdition, Editions
    <2>2. CacheIsCurrent' /\ RequestKnows' /\ ThumbsAreCurrent'
      BY <1>2 DEF thumbVars, photo, ThumbInv, CacheIsCurrent, RequestKnows, ThumbsAreCurrent,
                  Editions
    <2> QED BY <1>1, <2>1, <2>2 DEF ThumbInv
  <1> QED BY <1>1, <1>2, RequestStep, EditStep, KilledThumbs DEF ThumbNext

LEMMA ThumbInvariant == ThumbSpec => []ThumbInv
  <1>1. ThumbInit => ThumbInv
    BY ThumbStarts
  <1>2. ThumbInv /\ [ThumbNext]_thumbVars => ThumbInv'
    BY ThumbInvStep
  <1> QED BY <1>1, <1>2, PTL DEF ThumbSpec

-----------------------------------------------------------------------------
\* The variables of the cache keep to their types.
THEOREM ThumbTypeCorrect == ThumbSpec => []ThumbTypeOK
  <1>1. ThumbInv => ThumbTypeOK
    BY DEF ThumbInv
  <1> QED BY <1>1, ThumbInvariant, PTL

\* A thumbnail that is sent is complete and not older than its request, for
\* any browsers, mtimes and editions in whatever order, unless its key is torn
\* or two editions have had its mtime.
THEOREM ThumbsStayCurrent == ThumbSpec => []ThumbsAreCurrent
  <1>1. ThumbInv => ThumbsAreCurrent
    BY DEF ThumbInv
  <1> QED BY <1>1, ThumbInvariant, PTL
-----------------------------------------------------------------------------
(***************************************************************************)
(* The metadata.                                                           *)
(***************************************************************************)

\* An edition that is there has a number, and is remembered with its mtime.
DiskIsKnown ==
  \A p \in Pictures : \A l \in Spots : disk[p][l] # Absent =>
    /\ disk[p][l].ed # 0
    /\ <<l, disk[p][l].mtime, disk[p][l].ed>> \in ever[p]

\* A row names a place.
RowsArePlaced ==
  \A p \in Pictures :
    /\ row[p].path \in Spots
    /\ fixing[p] # NoRow => fixing[p].path \in Spots
    /\ stage # "idle" => held[p].path \in Spots

\* A record tells an edition the file has held since the run began, or one that
\* cannot be told from such a one.
Mistakable(p, r) == \E e \in ever[p] : e[1] = r.path /\ e[2] = r.mtime /\ e[3] # r.ed
IsFresh(p, r) == r.ok /\ r.ed # 0 /\ (r.ed \in lately[p] \/ Mistakable(p, r))

\* A photo that is read has been looked at, or read, or has met an error.
Reading(p) ==
  \/ p \in erred /\ ~meta[p].ok
  \/ /\ p \notin erred
     /\ meta[p] = NoRecord \/ (meta[p].ok /\ meta[p].ed = 0) \/ IsFresh(p, meta[p])
ReadDone(p) == IF meta[p].ok THEN IsFresh(p, meta[p]) ELSE p \in erred

Reused(p) == meta[p] = record[p] /\ IsFresh(p, meta[p])
Unseen(p) == p \notin jobs /\ meta[p] = NoRecord

InCompare ==
  stage = "compare" =>
    /\ erred = {}
    /\ \A p \in Pictures :
         IF p \in toSee THEN Unseen(p)
         ELSE IF p \in jobs THEN meta[p] = NoRecord ELSE Reused(p)

InExtract ==
  stage = "extract" => \A p \in Pictures : IF p \in jobs THEN Reading(p) ELSE Reused(p)

AfterExtract ==
  stage \in {"tag", "save", "store"} =>
    \A p \in Pictures : IF p \in jobs THEN ReadDone(p) ELSE Reused(p)

RecordsRead == \A p \in Pictures : record[p].ok => record[p].ed # 0

SeenSince ==
  stage # "idle" => \A p \in Pictures : ThereNow(p) => FileOf(p).ed \in lately[p]

\* What is tagged has the tags of what was read of it, until others write its row.
TagsTell ==
  stage \in {"tag", "save", "store"} => \A p \in Pictures :
    p \notin loose /\ (stage = "tag" => p \notin toSee) =>
      ExifTags(meta[p]) \subseteq held[p].tags

TagsAreSaved == stage = "store" => \A p \in Pictures \ loose : row[p].tags = held[p].tags

EndsIdle == finished => stage = "idle"

WorldInv == DiskIsKnown /\ RowsArePlaced /\ RecordsRead /\ SeenSince
RunInv == InCompare /\ InExtract /\ AfterExtract
EndInv == TagsTell /\ TagsAreSaved /\ EndsIdle /\ MetadataIsCurrent

ClassInv == ClassTypeOK /\ WorldInv /\ RunInv /\ EndInv

\* The steps of a run, and of everybody else.
StepNext ==
  \/ Classify \/ ExtractsDone \/ SaveTags \/ StoreRecords
  \/ \E p \in Pictures : Compare(p) \/ LookAt(p) \/ ReadImage(p) \/ TagOne(p)
OtherNext ==
  \/ KillStep
  \/ \E p \in Pictures :
       \/ MoveToLibrary(p) \/ BackToSource(p) \/ ReadToFix(p) \/ FixRow(p)
       \/ \E l \in Spots : Vanish(p, l) \/ \E t \in 1..LastStamp : Edit(p, l, t)

-----------------------------------------------------------------------------
\* Nothing is read when no run has begun.
LEMMA ClassStarts == ASSUME ClassInit PROVE ClassInv
  <1> USE DEF ClassInit
  <1>1. /\ 1 \in 1..LastEdition /\ 1 \in 1..LastStamp
        /\ 0 \in 0..LastEdition /\ 0 \in 0..LastStamp /\ 0 \in 0..MaxMishaps
        /\ 1 \in 0..LastEdition /\ 1 \in 0..LastStamp
    BY ClassificationAssumption
  <1>2. ClassTypeOK
    <2>1. NoRecord \in Kept /\ NoRow \in Rows /\ NewRow("source") \in Rows
      BY <1>1 DEF Kept, Rows, NewRow, NoRow, NoRecord, Record, Spots
    <2>2. disk \in [Pictures -> [Spots -> [ed: 0..LastEdition, mtime: 0..LastStamp]]]
      BY <1>1 DEF Absent
    <2>3. ever \in [Pictures -> SUBSET (Spots \X (1..LastStamp) \X (1..LastEdition))]
      BY <1>1 DEF Spots
    <2> QED BY <1>1, <2>1, <2>2, <2>3 DEF ClassTypeOK
  <1>3. WorldInv
    BY DEF WorldInv, DiskIsKnown, RowsArePlaced, RecordsRead, SeenSince, NewRow, NoRow, NoRecord,
           Record, Absent, Spots
  <1>4. RunInv /\ EndInv
    BY DEF RunInv, EndInv, InCompare, InExtract, AfterExtract, TagsTell, TagsAreSaved, EndsIdle,
           MetadataIsCurrent
  <1> QED BY <1>2, <1>3, <1>4 DEF ClassInv

\* What the step reads, and the tags it gives, are of their types.
LEMMA StepTypes ==
  ASSUME ClassTypeOK, WorldInv, StepNext
  PROVE  ClassTypeOK'
  <1> USE DEF ClassTypeOK
  <1>1. CASE Classify
    <2>1. \A q \in Pictures : {disk[q][row[q].path].ed} \ {0} \subseteq 1..LastEdition
      BY DEF WorldInv, RowsArePlaced
    <2>2. NoRecord \in Kept
      BY ClassificationAssumption DEF NoRecord, Record, Kept
    <2> QED BY <1>1, <2>1, <2>2 DEF Classify, tableVars
  <1>2. ASSUME NEW p \in Pictures, Compare(p) PROVE ClassTypeOK'
    BY <1>2 DEF Compare, Cached, photoVars, tableVars
  <1>3. ASSUME NEW p \in Pictures, NEW r \in Kept, Extract(p, r) PROVE ClassTypeOK'
    BY <1>3 DEF Extract, photoVars, tableVars
  <1>4. ASSUME NEW p \in Pictures, stage = "extract"
        PROVE  /\ FileOf(p).ed \in 0..LastEdition /\ FileOf(p).mtime \in 0..LastStamp
               /\ held[p].path \in Spots
    BY <1>4 DEF FileOf, WorldInv, RowsArePlaced
  <1>5. ASSUME NEW p \in Pictures, LookAt(p) PROVE ClassTypeOK'
    <2>1. stage = "extract"
      BY <1>5 DEF LookAt, Extract
    <2>2. Record(held[p].path, FileOf(p).mtime, 0, ThereNow(p)) \in Kept
      BY <1>4, <2>1, ClassificationAssumption DEF Record, Kept, ThereNow
    <2> QED BY <1>3, <1>5, <2>2 DEF LookAt
  <1>6. ASSUME NEW p \in Pictures, ReadImage(p) PROVE ClassTypeOK'
    <2>1. stage = "extract"
      BY <1>6 DEF ReadImage, Extract
    <2>2. ASSUME NEW legible \in BOOLEAN
          PROVE  [meta[p] EXCEPT !.ed = IF legible THEN FileOf(p).ed ELSE 0, !.ok = legible]
                   \in Kept
      <3>1. (IF legible THEN FileOf(p).ed ELSE 0) \in 0..LastEdition
        BY <1>4, <2>1, ClassificationAssumption
      <3>2. meta[p] \in Kept
        OBVIOUS
      <3> QED BY <3>1, <3>2 DEF Kept
    <2>3. ThereNow(p) \in BOOLEAN
      BY DEF ThereNow
    <2> QED BY <1>3, <1>6, <2>2, <2>3 DEF ReadImage
  <1>7. CASE ExtractsDone
    BY <1>7 DEF ExtractsDone, photoVars, tableVars
  <1>8. ASSUME NEW p \in Pictures, TagOne(p) PROVE ClassTypeOK'
    <2>1. TagsOf(p) \in SUBSET {"camera", "no_exif", "other"}
      BY DEF TagsOf, ExifTags, Rows
    <2>2. [held[p] EXCEPT !.tags = TagsOf(p)] \in Rows
      <3>1. held[p] \in Rows
        OBVIOUS
      <3> QED BY <2>1, <3>1 DEF Rows
    <2>3. [held EXCEPT ![p] = [held[p] EXCEPT !.tags = TagsOf(p)]] \in [Pictures -> Rows]
      BY <2>2
    <2> QED BY <1>8, <2>3 DEF TagOne, photoVars, tableVars
  <1>9. CASE SaveTags
    BY <1>9 DEF SaveTags, photoVars
  <1>10. CASE StoreRecords
    BY <1>10 DEF StoreRecords, photoVars
  <1> QED BY <1>1, <1>2, <1>5, <1>6, <1>7, <1>8, <1>9, <1>10 DEF StepNext

\* So is what others write.
LEMMA OtherTypes ==
  ASSUME ClassTypeOK, WorldInv, OtherNext
  PROVE  ClassTypeOK'
  <1> USE DEF ClassTypeOK
  <1>0. Mishap => mishaps' \in 0..MaxMishaps
    BY ClassificationAssumption DEF Mishap
  <1>1. ASSUME NEW p \in Pictures, NEW l \in Spots, NEW t \in 1..LastStamp, Edit(p, l, t)
        PROVE  ClassTypeOK'
    <2>1. newest[p] + 1 \in 1..LastEdition /\ newest' = [newest EXCEPT ![p] = newest[p] + 1]
      BY <1>1, ClassificationAssumption DEF Edit
    <2>2. newest'[p] = newest[p] + 1 /\ newest' \in [Pictures -> 1..LastEdition]
      BY <2>1
    <2>3. disk' \in [Pictures -> [Spots -> [ed: 0..LastEdition, mtime: 0..LastStamp]]]
      <3>1. [ed |-> newest'[p], mtime |-> t] \in [ed: 0..LastEdition, mtime: 0..LastStamp]
        BY <2>1, <2>2
      <3>2. disk' = [disk EXCEPT ![p] = [disk[p] EXCEPT ![l] = [ed |-> newest'[p], mtime |-> t]]]
        BY <1>1 DEF Edit
      <3> QED BY <3>1, <3>2
    <2>4. ever' \in [Pictures -> SUBSET (Spots \X (1..LastStamp) \X (1..LastEdition))]
      BY <1>1, <2>1, <2>2 DEF Edit
    <2>5. lately' \in [Pictures -> SUBSET (1..LastEdition)]
      BY <1>1, <2>1, <2>2 DEF Edit
    <2> QED BY <1>1, <2>2, <2>3, <2>4, <2>5 DEF Edit, tableVars, stepVars
  <1>2. ASSUME NEW p \in Pictures, NEW l \in Spots, Vanish(p, l) PROVE ClassTypeOK'
    <2>1. Absent \in [ed: 0..LastEdition, mtime: 0..LastStamp]
      BY ClassificationAssumption DEF Absent
    <2>2. disk' = [disk EXCEPT ![p] = [disk[p] EXCEPT ![l] = Absent]]
      BY <1>2 DEF Vanish
    <2>3. disk' \in [Pictures -> [Spots -> [ed: 0..LastEdition, mtime: 0..LastStamp]]]
      BY <2>1, <2>2
    <2> QED BY <1>0, <1>2, <2>3 DEF Vanish, tableVars, stepVars
  <1>3. ASSUME NEW p \in Pictures, MoveToLibrary(p) PROVE ClassTypeOK'
    <2> DEFINE copy == [ed |-> disk[p]["source"].ed, mtime |-> Dated]
               new == <<"library", disk'[p]["library"].mtime, disk'[p]["library"].ed>>
    <2>1. copy \in [ed: 0..LastEdition, mtime: 0..LastStamp] /\ Dated \in 1..LastStamp
      BY ClassificationAssumption DEF Dated, Spots
    <2>2. disk' = disk \/ disk' = [disk EXCEPT ![p] = [disk[p] EXCEPT !["library"] = copy]]
      BY <1>3 DEF MoveToLibrary
    <2>3. disk' \in [Pictures -> [Spots -> [ed: 0..LastEdition, mtime: 0..LastStamp]]]
      <3>1. [disk[p] EXCEPT !["library"] = copy]
              \in [Spots -> [ed: 0..LastEdition, mtime: 0..LastStamp]]
        BY <2>1
      <3> HIDE DEF copy
      <3> QED BY <2>2, <3>1
    <2>4. new \in Spots \X (1..LastStamp) \X (1..LastEdition)
      <3>1. CASE disk[p]["library"] # Absent
        <4>1. /\ disk' = disk
              /\ <<"library", disk[p]["library"].mtime, disk[p]["library"].ed>> \in ever[p]
          BY <1>3, <3>1 DEF MoveToLibrary, WorldInv, DiskIsKnown, Spots
        <4> QED BY <4>1
      <3>2. CASE disk[p]["library"] = Absent
        <4>1. disk[p]["source"] # Absent
          BY <1>3, <3>2 DEF MoveToLibrary, Spots
        <4>2. disk[p]["source"].ed \in 1..LastEdition
          <5>1. <<"source", disk[p]["source"].mtime, disk[p]["source"].ed>> \in ever[p]
            BY <4>1 DEF WorldInv, DiskIsKnown, Spots
          <5> QED BY <5>1
        <4>3. disk'[p]["library"] = copy
          BY <1>3, <3>2 DEF MoveToLibrary, Spots
        <4> QED BY <2>1, <4>2, <4>3 DEF Spots
      <3> QED BY <3>1, <3>2
    <2>5. ever' = [ever EXCEPT ![p] = @ \cup {new}]
      BY <1>3 DEF MoveToLibrary
    <2>6. ever' \in [Pictures -> SUBSET (Spots \X (1..LastStamp) \X (1..LastEdition))]
      BY <2>4, <2>5
    <2>7. row' \in [Pictures -> Rows]
      <3>1. [row[p] EXCEPT !.path = "library"] \in Rows
        <4>1. row[p] \in Rows
          OBVIOUS
        <4> QED BY <4>1 DEF Rows, Spots
      <3>2. row' = [row EXCEPT ![p] = [row[p] EXCEPT !.path = "library"]]
        BY <1>3 DEF MoveToLibrary
      <3> QED BY <3>1, <3>2
    <2> QED BY <1>0, <1>3, <2>3, <2>6, <2>7 DEF MoveToLibrary, stepVars
  <1>4. ASSUME NEW p \in Pictures, BackToSource(p) PROVE ClassTypeOK'
    BY <1>0, <1>4 DEF BackToSource, WriteRow, NewRow, Rows, Spots, photoVars, stepVars
  <1>5. ASSUME NEW p \in Pictures, ReadToFix(p) PROVE ClassTypeOK'
    BY <1>0, <1>5 DEF ReadToFix, photoVars, stepVars
  <1>6. ASSUME NEW p \in Pictures, FixRow(p) PROVE ClassTypeOK'
    BY <1>6 DEF FixRow, WriteRow, NoRow, NewRow, Rows, photoVars, stepVars
  <1>7. CASE KillStep
    <2>1. NoRecord \in Kept /\ NoRow \in Rows
      BY ClassificationAssumption DEF NoRecord, Record, Kept, NoRow, NewRow, Rows
    <2> QED BY <1>0, <1>7, <2>1 DEF KillStep, photoVars
  <1> QED BY <1>1, <1>2, <1>3, <1>4, <1>5, <1>6, <1>7 DEF OtherNext

-----------------------------------------------------------------------------
\* What is known of the files and the rows survives every step.
LEMMA WorldStep1 ==
  ASSUME ClassTypeOK, WorldInv, RunInv, StepNext
  PROVE  WorldInv'
  <1> USE DEF WorldInv
  <1>1. CASE Classify
    <2>1. DiskIsKnown' /\ RecordsRead'
      BY <1>1 DEF Classify, tableVars, DiskIsKnown, RecordsRead
    <2>2. RowsArePlaced'
      BY <1>1 DEF Classify, tableVars, RowsArePlaced, NoRow, NewRow
    <2>3. SeenSince'
      <3> SUFFICES ASSUME NEW q \in Pictures, ThereNow(q)' PROVE FileOf(q)'.ed \in lately'[q]
        BY DEF SeenSince
      <3>1. FileOf(q)' = disk[q][row[q].path] /\ row[q].path \in Spots
        BY <1>1 DEF Classify, FileOf, RowsArePlaced
      <3>2. disk[q][row[q].path].ed # 0
        BY <3>1 DEF ThereNow, DiskIsKnown
      <3> QED BY <1>1, <3>1, <3>2 DEF Classify
    <2> QED BY <2>1, <2>2, <2>3
  <1>2. ASSUME NEW p \in Pictures, TagOne(p) PROVE WorldInv'
    <2>1. \A q \in Pictures : held'[q].path = held[q].path
      BY <1>2 DEF TagOne, ClassTypeOK, Rows
    <2>2. UNCHANGED <<photoVars, tableVars>> /\ stage # "idle"
      BY <1>2 DEF TagOne
    <2> QED BY <2>1, <2>2 DEF photoVars, tableVars, DiskIsKnown, RowsArePlaced, RecordsRead,
                              SeenSince, FileOf, ThereNow, NoRow, NewRow
  <1>3. CASE ExtractsDone \/ \E p \in Pictures : Compare(p) \/ LookAt(p) \/ ReadImage(p)
    <2>1. UNCHANGED <<photoVars, tableVars, held>> /\ stage # "idle"
      BY <1>3 DEF Compare, LookAt, ReadImage, Extract, ExtractsDone
    <2> QED BY <2>1 DEF photoVars, tableVars, DiskIsKnown, RowsArePlaced, RecordsRead,
                        SeenSince, FileOf, ThereNow, NoRow, NewRow
  <1>4. CASE SaveTags
    <2>1. UNCHANGED <<photoVars, record, fixing, held>> /\ row' = held /\ stage # "idle"
      BY <1>4 DEF SaveTags
    <2> QED BY <2>1 DEF photoVars, DiskIsKnown, RowsArePlaced, RecordsRead, SeenSince, FileOf,
                        ThereNow, NoRow, NewRow
  <1>5. CASE StoreRecords
    <2>1. /\ UNCHANGED <<photoVars, row, fixing, held>> /\ stage = "store" /\ stage' = "idle"
          /\ \A q \in Pictures : record'[q] = IF q \in jobs THEN meta[q] ELSE record[q]
      BY <1>5 DEF StoreRecords
    <2>2. RecordsRead'
      BY <2>1 DEF RecordsRead, RunInv, AfterExtract, ReadDone, IsFresh
    <2> QED BY <2>1, <2>2 DEF photoVars, DiskIsKnown, RowsArePlaced, SeenSince, NoRow, NewRow
  <1> QED BY <1>1, <1>2, <1>3, <1>4, <1>5 DEF StepNext

\* So it does when files and rows change.
LEMMA WorldStep2 ==
  ASSUME ClassTypeOK, WorldInv, OtherNext
  PROVE  WorldInv'
  <1> USE DEF WorldInv
  <1>1. ASSUME NEW p \in Pictures, NEW l \in Spots, NEW t \in 1..LastStamp, Edit(p, l, t)
        PROVE  WorldInv'
    <2>1. newest'[p] = newest[p] + 1 /\ newest'[p] # 0
      BY <1>1, ClassificationAssumption DEF Edit, ClassTypeOK
    <2>2. \A q \in Pictures : \A k \in Spots :
            disk'[q][k] = IF q = p /\ k = l THEN [ed |-> newest'[p], mtime |-> t] ELSE disk[q][k]
      BY <1>1 DEF Edit, ClassTypeOK
    <2>3. \A q \in Pictures :
            ever'[q] = IF q = p THEN ever[q] \cup {<<l, t, newest'[p]>>} ELSE ever[q]
      BY <1>1 DEF Edit, ClassTypeOK
    <2>4. \A q \in Pictures : lately'[q] =
            IF q = p /\ l = held[p].path THEN lately[q] \cup {newest'[p]} ELSE lately[q]
      BY <1>1 DEF Edit, ClassTypeOK
    <2>5. DiskIsKnown'
      <3> SUFFICES ASSUME NEW q \in Pictures, NEW k \in Spots, disk'[q][k] # Absent
                   PROVE  /\ disk'[q][k].ed # 0
                          /\ <<k, disk'[q][k].mtime, disk'[q][k].ed>> \in ever'[q]
        BY DEF DiskIsKnown, Absent
      <3>1. CASE q = p /\ k = l
        <4>1. disk'[q][k] = [ed |-> newest'[p], mtime |-> t]
          BY <2>2, <3>1
        <4>2. disk'[q][k].ed = newest'[p] /\ disk'[q][k].mtime = t
          BY <4>1
        <4> QED BY <2>1, <2>3, <3>1, <4>2
      <3>2. CASE ~(q = p /\ k = l)
        <4>1. disk'[q][k] = disk[q][k]
          BY <2>2, <3>2
        <4> QED BY <2>3, <4>1 DEF DiskIsKnown
      <3> QED BY <3>1, <3>2
    <2>6. UNCHANGED <<tableVars, stage, held>>
      BY <1>1 DEF Edit, stepVars
    <2>7. RowsArePlaced' /\ RecordsRead'
      BY <2>6 DEF RowsArePlaced, RecordsRead, tableVars, NoRow, NewRow
    <2>8. SeenSince'
      <3> SUFFICES ASSUME stage # "idle", NEW q \in Pictures, ThereNow(q)'
                   PROVE  FileOf(q)'.ed \in lately'[q]
        BY <2>6 DEF SeenSince
      <3>1. FileOf(q)' = disk'[q][held[q].path] /\ held[q].path \in Spots
        BY <2>6 DEF FileOf, RowsArePlaced
      <3>2. CASE q = p /\ held[q].path = l
        <4>1. disk'[q][held[q].path] = [ed |-> newest'[p], mtime |-> t]
          BY <2>2, <3>1, <3>2
        <4>2. FileOf(q)'.ed = newest'[p]
          BY <3>1, <4>1
        <4> QED BY <2>4, <3>2, <4>2
      <3>3. CASE ~(q = p /\ held[q].path = l)
        <4>1. FileOf(q)' = FileOf(q) /\ ThereNow(q)
          BY <2>2, <3>1, <3>3 DEF FileOf, ThereNow, Absent
        <4> QED BY <2>4, <4>1 DEF SeenSince
      <3> QED BY <3>2, <3>3
    <2> QED BY <2>5, <2>7, <2>8
  <1>2. ASSUME NEW p \in Pictures, NEW l \in Spots, Vanish(p, l) PROVE WorldInv'
    <2>1. \A q \in Pictures : \A k \in Spots :
            disk'[q][k] = IF q = p /\ k = l THEN Absent ELSE disk[q][k]
      BY <1>2 DEF Vanish, ClassTypeOK
    <2>2. UNCHANGED <<ever, lately, tableVars, stage, held>>
      BY <1>2 DEF Vanish, stepVars
    <2>3. DiskIsKnown'
      BY <2>1, <2>2 DEF DiskIsKnown, Absent
    <2>4. SeenSince'
      BY <2>1, <2>2 DEF SeenSince, FileOf, ThereNow, RowsArePlaced, Absent
    <2> QED BY <2>2, <2>3, <2>4 DEF RowsArePlaced, RecordsRead, tableVars, NoRow, NewRow
  <1>3. ASSUME NEW p \in Pictures, MoveToLibrary(p) PROVE WorldInv'
    <2>1. /\ stage = "idle" /\ stage' = "idle" /\ UNCHANGED <<record, fixing>>
          /\ \A q \in Pictures : row'[q].path \in Spots
      BY <1>3 DEF MoveToLibrary, stepVars, ClassTypeOK, Rows, RowsArePlaced, Spots
    <2>2. \A q \in Pictures \ {p} : disk'[q] = disk[q] /\ ever'[q] = ever[q]
      BY <1>3 DEF MoveToLibrary, ClassTypeOK
    <2>3. /\ disk'[p]["source"] = disk[p]["source"] /\ ever[p] \subseteq ever'[p]
          /\ <<"library", disk'[p]["library"].mtime, disk'[p]["library"].ed>> \in ever'[p]
      BY <1>3 DEF MoveToLibrary, ClassTypeOK, Spots
    <2>4. disk'[p]["library"].ed # 0
      BY <1>3 DEF MoveToLibrary, ClassTypeOK, DiskIsKnown, Spots
    <2>5. DiskIsKnown'
      BY <2>2, <2>3, <2>4 DEF DiskIsKnown, Absent, Spots
    <2> QED BY <2>1, <2>5 DEF RowsArePlaced, RecordsRead, SeenSince, NoRow, NewRow
  <1>4. ASSUME NEW p \in Pictures, BackToSource(p) \/ ReadToFix(p) \/ FixRow(p) PROVE WorldInv'
    <2>1. UNCHANGED <<photoVars, stage, held, record>>
      BY <1>4 DEF BackToSource, ReadToFix, FixRow, stepVars
    <2>2. RowsArePlaced'
      <3>1. CASE BackToSource(p)
        <4>1. row' = [row EXCEPT ![p] = NewRow("source")] /\ UNCHANGED fixing
          BY <3>1 DEF BackToSource, WriteRow
        <4>2. NewRow("source").path \in Spots
          BY DEF NewRow, Spots
        <4> QED BY <2>1, <4>1, <4>2 DEF RowsArePlaced, ClassTypeOK, NoRow, NewRow
      <3>2. CASE ReadToFix(p)
        BY <2>1, <3>2 DEF ReadToFix, RowsArePlaced, ClassTypeOK, NoRow, NewRow
      <3>3. CASE FixRow(p)
        BY <2>1, <3>3 DEF FixRow, WriteRow, RowsArePlaced, ClassTypeOK, NoRow, NewRow
      <3> QED BY <1>4, <3>1, <3>2, <3>3
    <2> QED BY <2>1, <2>2 DEF photoVars, DiskIsKnown, RecordsRead, SeenSince, FileOf, ThereNow
  <1>5. CASE KillStep
    <2>1. UNCHANGED <<photoVars, row, record>> /\ stage' = "idle"
      BY <1>5 DEF KillStep
    <2>2. \A q \in Pictures : fixing'[q] # NoRow => fixing'[q].path \in Spots
      BY <1>5 DEF KillStep, RowsArePlaced
    <2> QED BY <2>1, <2>2 DEF photoVars, DiskIsKnown, RowsArePlaced, RecordsRead, SeenSince,
                              NoRow, NewRow
  <1> QED BY <1>1, <1>2, <1>3, <1>4, <1>5 DEF OtherNext

-----------------------------------------------------------------------------
\* What was fresh stays fresh: the file has held it, whatever it holds now.
LEMMA FreshStays ==
  ASSUME \A q \in Pictures : ever[q] \subseteq ever'[q] /\ lately[q] \subseteq lately'[q]
  PROVE  \A q \in Pictures, r \in Kept :
           IsFresh(q, r) => r.ok /\ r.ed # 0
                            /\ \/ r.ed \in lately'[q]
                               \/ \E e \in ever'[q] : e[1] = r.path /\ e[2] = r.mtime /\ e[3] # r.ed
  BY DEF IsFresh, Mistakable

\* A step that only adds to the history, and keeps what the run knows.
LEMMA HistoryGrows ==
  ASSUME ClassTypeOK, RunInv, UNCHANGED <<stage, meta, record, jobs, toSee, erred>>,
         \A q \in Pictures : ever[q] \subseteq ever'[q] /\ lately[q] \subseteq lately'[q]
  PROVE  RunInv'
  <1>1. \A q \in Pictures : IsFresh(q, meta[q]) => IsFresh(q, meta[q])'
    BY FreshStays DEF ClassTypeOK, IsFresh, Mistakable
  <1>2. \A q \in Pictures : Reused(q) => Reused(q)'
    BY <1>1 DEF Reused
  <1>3. InCompare'
    BY <1>2 DEF RunInv, InCompare, Unseen
  <1>4. InExtract'
    BY <1>1, <1>2 DEF RunInv, InExtract, Reading
  <1>5. AfterExtract'
    BY <1>1, <1>2 DEF RunInv, AfterExtract, ReadDone
  <1> QED BY <1>3, <1>4, <1>5 DEF RunInv

\* The files change, the rows, and what has been read of a photo.
LEMMA RunStep2 ==
  ASSUME ClassTypeOK, RunInv, OtherNext
  PROVE  RunInv'
  <1>1. CASE KillStep
    BY <1>1 DEF KillStep, RunInv, InCompare, InExtract, AfterExtract
  <1>2. ASSUME NEW p \in Pictures, NEW l \in Spots, NEW t \in 1..LastStamp, Edit(p, l, t)
        PROVE  RunInv'
    <2>1. \A q \in Pictures : ever[q] \subseteq ever'[q] /\ lately[q] \subseteq lately'[q]
      BY <1>2 DEF Edit, ClassTypeOK
    <2> QED BY <1>2, <2>1, HistoryGrows DEF Edit, tableVars, stepVars
  <1>3. ASSUME NEW p \in Pictures, \E l \in Spots : Vanish(p, l) PROVE RunInv'
    <2>1. UNCHANGED <<stage, meta, record, jobs, toSee, erred, ever, lately>>
      BY <1>3 DEF Vanish, tableVars, stepVars
    <2> QED BY <2>1, HistoryGrows
  <1>4. ASSUME NEW p \in Pictures, MoveToLibrary(p) PROVE RunInv'
    BY <1>4 DEF MoveToLibrary, stepVars, RunInv, InCompare, InExtract, AfterExtract
  <1>5. ASSUME NEW p \in Pictures, BackToSource(p) \/ ReadToFix(p) \/ FixRow(p) PROVE RunInv'
    <2>1. UNCHANGED <<stage, meta, record, jobs, toSee, erred, ever, lately>>
      BY <1>5 DEF BackToSource, ReadToFix, FixRow, photoVars, stepVars
    <2> QED BY <2>1, HistoryGrows
  <1> QED BY <1>1, <1>2, <1>3, <1>4, <1>5 DEF OtherNext

\* A record of the same place and mtime is as good as a reading.
LEMMA UnchangedIsFresh ==
  ASSUME ClassTypeOK, WorldInv, NEW p \in Pictures, stage # "idle", Unchanged(record[p], p)
  PROVE  IsFresh(p, record[p])
  <1>1. /\ held[p].path \in Spots /\ record[p].ok /\ record[p].ed # 0
        /\ record[p].path = held[p].path /\ record[p].mtime = FileOf(p).mtime /\ ThereNow(p)
    BY DEF Unchanged, WorldInv, RowsArePlaced, RecordsRead
  <1>2. FileOf(p).ed \in lately[p]
    BY <1>1 DEF WorldInv, SeenSince
  <1>3. <<held[p].path, FileOf(p).mtime, FileOf(p).ed>> \in ever[p]
    BY <1>1 DEF WorldInv, DiskIsKnown, FileOf, ThereNow
  <1>4. CASE record[p].ed = FileOf(p).ed
    BY <1>1, <1>2, <1>4 DEF IsFresh
  <1>5. CASE record[p].ed # FileOf(p).ed
    <2> DEFINE e == <<held[p].path, FileOf(p).mtime, FileOf(p).ed>>
    <2>1. e[1] = record[p].path /\ e[2] = record[p].mtime /\ e[3] # record[p].ed
      BY <1>1, <1>5
    <2>2. Mistakable(p, record[p])
      BY <1>3, <2>1 DEF Mistakable
    <2> QED BY <1>1, <2>2 DEF IsFresh
  <1> QED BY <1>4, <1>5

\* The step reads each photo, or takes a record that is as good.
LEMMA RunStep1 ==
  ASSUME ClassTypeOK, WorldInv, RunInv, StepNext
  PROVE  RunInv'
  <1>1. CASE Classify
    BY <1>1 DEF Classify, RunInv, InCompare, InExtract, AfterExtract, Unseen
  <1>2. ASSUME NEW p \in Pictures, Compare(p) PROVE RunInv'
    <2>1. /\ stage = "compare" /\ p \in toSee /\ toSee' = toSee \ {p} /\ erred = {}
          /\ UNCHANGED <<ever, lately, record, erred>>
          /\ stage' = IF toSee' = {} THEN "extract" ELSE stage
      BY <1>2 DEF Compare, photoVars, tableVars, RunInv, InCompare
    <2>2. \A q \in Pictures : IF q \in toSee THEN Unseen(q)
                              ELSE IF q \in jobs THEN meta[q] = NoRecord ELSE Reused(q)
      BY <2>1 DEF RunInv, InCompare
    <2>3. \A q \in Pictures : IF q \in toSee' THEN Unseen(q)'
                              ELSE IF q \in jobs' THEN meta'[q] = NoRecord ELSE Reused(q)'
      <3>1. CASE Unchanged(record[p], p)
        <4>1. IsFresh(p, record[p])
          BY <2>1, <3>1, UnchangedIsFresh
        <4>2. meta' = [meta EXCEPT ![p] = record[p]] /\ jobs' = jobs
          BY <1>2, <3>1 DEF Compare, Cached
        <4> QED BY <2>1, <2>2, <4>1, <4>2 DEF Unseen, Reused, IsFresh, Mistakable, ClassTypeOK
      <3>2. CASE ~Unchanged(record[p], p)
        <4>1. jobs' = jobs \cup {p} /\ meta' = meta
          BY <1>2, <3>2 DEF Compare, Cached
        <4> QED BY <2>1, <2>2, <4>1 DEF Unseen, Reused, IsFresh, Mistakable, ClassTypeOK
      <3> QED BY <3>1, <3>2
    <2>4. InCompare'
      BY <2>1, <2>3 DEF InCompare
    <2>5. InExtract'
      BY <2>1, <2>3 DEF InExtract, Reading
    <2> QED BY <2>1, <2>4, <2>5 DEF RunInv, AfterExtract
  <1>3. ASSUME NEW p \in Pictures, NEW r, Extract(p, r), RunInv,
               IF r.ok THEN r.ed = 0 \/ IsFresh(p, r) ELSE TRUE,
               p \notin erred
        PROVE  RunInv'
    <2>1. /\ stage = "extract" /\ stage' = stage /\ p \in jobs /\ jobs' = jobs
          /\ meta' = [meta EXCEPT ![p] = r]
          /\ erred' = IF r.ok THEN erred ELSE erred \cup {p}
          /\ UNCHANGED <<ever, lately, record>>
      BY <1>3 DEF Extract, photoVars, tableVars
    <2>2. Reading(p)'
      BY <1>3, <2>1 DEF Reading, IsFresh, Mistakable, ClassTypeOK
    <2>3. \A q \in Pictures \ {p} : IF q \in jobs' THEN Reading(q)' ELSE Reused(q)'
      BY <1>3, <2>1 DEF RunInv, InExtract, Reading, Reused, IsFresh, Mistakable, ClassTypeOK
    <2> QED BY <2>1, <2>2, <2>3 DEF RunInv, InCompare, InExtract, AfterExtract
  <1>4. ASSUME NEW p \in Pictures, LookAt(p) PROVE RunInv'
    <2>1. Record(held[p].path, FileOf(p).mtime, 0, ThereNow(p)).ed = 0
      BY DEF Record
    <2> QED BY <1>3, <1>4, <2>1 DEF LookAt
  <1>5. ASSUME NEW p \in Pictures, ReadImage(p) PROVE RunInv'
    <2>1. PICK legible \in {ThereNow(p), FALSE} :
            Extract(p, [meta[p] EXCEPT !.ed = IF legible THEN FileOf(p).ed ELSE 0, !.ok = legible])
      BY <1>5 DEF ReadImage
    <2> DEFINE r == [meta[p] EXCEPT !.ed = IF legible THEN FileOf(p).ed ELSE 0, !.ok = legible]
    <2>2. stage = "extract" /\ p \in jobs /\ meta[p].ok
      BY <1>5, <2>1 DEF Extract, ReadImage
    <2>3. p \notin erred
      BY <2>2 DEF RunInv, InExtract, Reading
    <2>4. r.ok = legible /\ (legible => r.ed = FileOf(p).ed)
      BY DEF ClassTypeOK, Kept
    <2>5. ASSUME legible PROVE IsFresh(p, r)
      <3>1. ThereNow(p) /\ held[p].path \in Spots
        BY <2>2, <2>5 DEF WorldInv, RowsArePlaced
      <3>2. FileOf(p).ed # 0 /\ FileOf(p).ed \in lately[p]
        BY <2>2, <3>1 DEF WorldInv, DiskIsKnown, SeenSince, FileOf, ThereNow
      <3> QED BY <2>4, <2>5, <3>2 DEF IsFresh
    <2> HIDE DEF r
    <2> QED BY <1>3, <2>1, <2>3, <2>4, <2>5 DEF r
  <1>6. CASE ExtractsDone
    <2>1. /\ stage = "extract" /\ stage' = "tag"
          /\ UNCHANGED <<ever, lately, record, meta, jobs, erred>>
          /\ \A q \in jobs : meta[q].ed # 0 \/ q \in erred
      BY <1>6 DEF ExtractsDone, photoVars, tableVars
    <2>2. \A q \in Pictures \ jobs : Reused(q)
      BY <2>1 DEF RunInv, InExtract
    <2>3. \A q \in jobs : ReadDone(q)
      <3> SUFFICES ASSUME NEW q \in jobs PROVE ReadDone(q)
        OBVIOUS
      <3>1. Reading(q)
        BY <2>1 DEF RunInv, InExtract, ClassTypeOK
      <3>2. NoRecord.ed = 0
        BY DEF NoRecord, Record
      <3> QED BY <2>1, <3>1, <3>2 DEF Reading, ReadDone, IsFresh
    <2>4. \A q \in Pictures : IF q \in jobs' THEN ReadDone(q)' ELSE Reused(q)'
      BY <2>1, <2>2, <2>3 DEF ReadDone, Reused, IsFresh, Mistakable
    <2> QED BY <2>1, <2>4 DEF RunInv, InCompare, InExtract, AfterExtract
  <1>7. CASE SaveTags \/ \E p \in Pictures : TagOne(p)
    <2>1. /\ UNCHANGED <<ever, lately, record, meta, jobs, erred>>
          /\ stage \in {"tag", "save"} /\ stage' \in {"tag", "save", "store"}
      BY <1>7 DEF TagOne, SaveTags, photoVars, tableVars
    <2> QED BY <2>1 DEF RunInv, InCompare, InExtract, AfterExtract, ReadDone, Reused, IsFresh,
                        Mistakable
  <1>8. CASE StoreRecords
    BY <1>8 DEF StoreRecords, RunInv, InCompare, InExtract, AfterExtract
  <1> QED BY <1>1, <1>2, <1>4, <1>5, <1>6, <1>7, <1>8 DEF StepNext

-----------------------------------------------------------------------------
\* The tags, and what a run leaves behind, through the run's own steps.
LEMMA EndStep1 ==
  ASSUME ClassTypeOK, WorldInv, RunInv, EndInv, StepNext
  PROVE  EndInv'
  <1>1. CASE Classify
    BY <1>1 DEF Classify, EndInv, TagsTell, TagsAreSaved, EndsIdle, MetadataIsCurrent
  <1>2. ASSUME NEW p \in Pictures, Compare(p) \/ LookAt(p) \/ ReadImage(p) PROVE EndInv'
    <2>1. /\ stage' \in {"compare", "extract"} /\ stage # "idle" /\ finished' = finished
      BY <1>2 DEF Compare, LookAt, ReadImage, Extract
    <2> QED BY <2>1 DEF EndInv, TagsTell, TagsAreSaved, EndsIdle, MetadataIsCurrent
  <1>3. CASE ExtractsDone
    <2>1. stage' = "tag" /\ stage # "idle" /\ toSee' = Pictures /\ finished' = finished
      BY <1>3 DEF ExtractsDone
    <2> QED BY <2>1 DEF EndInv, TagsTell, TagsAreSaved, EndsIdle, MetadataIsCurrent
  <1>4. ASSUME NEW p \in Pictures, TagOne(p) PROVE EndInv'
    <2>1. /\ stage = "tag" /\ stage' = (IF toSee' = {} THEN "save" ELSE stage)
          /\ p \in toSee /\ toSee' = toSee \ {p} /\ UNCHANGED <<meta, finished>>
          /\ loose' = IF ThereNow(p) THEN loose ELSE loose \cup {p}
      BY <1>4 DEF TagOne
    <2>2. /\ \A q \in Pictures \ {p} : held'[q] = held[q]
          /\ held'[p].tags = TagsOf(p)
      BY <1>4 DEF TagOne, ClassTypeOK, Rows
    <2>3. ThereNow(p) => ExifTags(meta[p]) \subseteq held'[p].tags
      BY <2>2 DEF TagsOf
    <2>4. TagsTell'
      <3> SUFFICES ASSUME NEW q \in Pictures, q \notin loose', stage' = "tag" => q \notin toSee'
                   PROVE  ExifTags(meta'[q]) \subseteq held'[q].tags
        BY DEF TagsTell, ExifTags
      <3>1. CASE q = p
        BY <2>1, <2>3, <3>1
      <3>2. CASE q # p
        <4>1. q \notin loose /\ q \notin toSee
          BY <2>1, <3>2
        <4> QED BY <2>1, <2>2, <3>2, <4>1 DEF EndInv, TagsTell
      <3> QED BY <3>1, <3>2
    <2> QED BY <2>1, <2>4 DEF EndInv, TagsAreSaved, EndsIdle, MetadataIsCurrent
  <1>5. CASE SaveTags
    <2>1. /\ stage = "save" /\ stage' = "store" /\ row' = held
          /\ UNCHANGED <<held, meta, toSee, loose, finished>>
      BY <1>5 DEF SaveTags
    <2> QED BY <2>1 DEF EndInv, TagsTell, TagsAreSaved, EndsIdle, MetadataIsCurrent, ExifTags
  <1>6. CASE StoreRecords
    <2>1. /\ stage = "store" /\ stage' = "idle"
          /\ \A q \in Pictures : record'[q] = IF q \in jobs THEN meta[q] ELSE record[q]
          /\ UNCHANGED <<ever, lately, row, erred, loose>>
      BY <1>6 DEF StoreRecords, photoVars
    <2>2. \A q \in Pictures :
            record'[q] = meta[q] /\ (IF meta[q].ok THEN IsFresh(q, meta[q]) ELSE q \in erred)
      BY <2>1 DEF RunInv, AfterExtract, ReadDone, Reused, IsFresh
    <2>3. \A q \in Pictures \ loose : ExifTags(meta[q]) \subseteq row[q].tags
      BY <2>1 DEF EndInv, TagsTell, TagsAreSaved
    <2>4. MetadataIsCurrent'
      BY <2>1, <2>2, <2>3 DEF MetadataIsCurrent, Ambiguous, IsFresh, Mistakable, ExifTags
    <2> QED BY <2>1, <2>4 DEF EndInv, TagsTell, TagsAreSaved, EndsIdle
  <1> QED BY <1>1, <1>2, <1>3, <1>4, <1>5, <1>6 DEF StepNext

\* So they do when files and rows change, but for the rows that others write.
LEMMA EndStep2 ==
  ASSUME ClassTypeOK, EndInv, OtherNext
  PROVE  EndInv'
  <1>1. CASE KillStep
    BY <1>1 DEF KillStep, EndInv, TagsTell, TagsAreSaved, EndsIdle, MetadataIsCurrent
  <1>2. ASSUME NEW p \in Pictures,
               \/ MoveToLibrary(p) \/ BackToSource(p) \/ ReadToFix(p) \/ FixRow(p)
               \/ \E l \in Spots : Vanish(p, l) \/ \E t \in 1..LastStamp : Edit(p, l, t)
        PROVE  EndInv'
    <2>1. /\ UNCHANGED <<stage, held, meta, toSee, record, erred, finished>>
          /\ \A q \in Pictures : ever[q] \subseteq ever'[q] /\ lately[q] \subseteq lately'[q]
      <3>1. CASE MoveToLibrary(p)
        BY <3>1 DEF MoveToLibrary, stepVars, ClassTypeOK
      <3>2. CASE BackToSource(p) \/ ReadToFix(p) \/ FixRow(p)
        BY <3>2 DEF BackToSource, ReadToFix, FixRow, photoVars, stepVars
      <3>3. CASE \E l \in Spots : Vanish(p, l)
        BY <3>3 DEF Vanish, tableVars, stepVars
      <3>4. CASE \E l \in Spots, t \in 1..LastStamp : Edit(p, l, t)
        <4>1. PICK l \in Spots, t \in 1..LastStamp : Edit(p, l, t)
          BY <3>4
        <4> QED BY <4>1 DEF Edit, tableVars, stepVars, ClassTypeOK
      <3> QED BY <1>2, <3>1, <3>2, <3>3, <3>4
    <2>2. /\ loose \subseteq loose'
          /\ stage \in {"store", "idle"} =>
               \A q \in Pictures : row'[q].tags = row[q].tags \/ q \in loose'
      <3>1. CASE BackToSource(p) \/ FixRow(p)
        BY <3>1 DEF BackToSource, FixRow, WriteRow, ClassTypeOK
      <3>2. CASE MoveToLibrary(p)
        BY <3>2 DEF MoveToLibrary, ClassTypeOK, Rows
      <3>3. CASE ~(BackToSource(p) \/ FixRow(p) \/ MoveToLibrary(p))
        BY <1>2, <3>3 DEF ReadToFix, Vanish, Edit, tableVars
      <3> QED BY <3>1, <3>2, <3>3
    <2>3. TagsTell' /\ TagsAreSaved' /\ EndsIdle'
      BY <2>1, <2>2 DEF EndInv, TagsTell, TagsAreSaved, EndsIdle, ExifTags
    <2>4. MetadataIsCurrent'
      <3> SUFFICES ASSUME finished, NEW q \in Pictures
                   PROVE  /\ IF record[q].ok THEN record[q].ed \in lately'[q] \/ Ambiguous(q)'
                                            ELSE q \in erred
                          /\ record[q].ok /\ q \notin loose' =>
                               ExifTags(record[q]) \subseteq row'[q].tags
        BY <2>1 DEF MetadataIsCurrent, ExifTags
      <3>1. stage = "idle"
        BY DEF EndInv, EndsIdle
      <3>2. Ambiguous(q) => Ambiguous(q)'
        BY <2>1 DEF Ambiguous
      <3> QED BY <2>1, <2>2, <3>1, <3>2 DEF EndInv, MetadataIsCurrent
    <2> QED BY <2>3, <2>4 DEF EndInv
  <1> QED BY <1>1, <1>2 DEF OtherNext

\* Nothing changes.
LEMMA ClassStutters == ASSUME ClassInv, UNCHANGED classVars PROVE ClassInv'
  <1> USE DEF classVars, photoVars, tableVars, stepVars
  <1>1. ClassTypeOK'
    BY DEF ClassInv, ClassTypeOK
  <1>2. WorldInv'
    BY DEF ClassInv, WorldInv, DiskIsKnown, RowsArePlaced, RecordsRead, SeenSince, FileOf, ThereNow,
           NoRow, NewRow
  <1>3. RunInv'
    <2>1. \A q \in Pictures : ever[q] \subseteq ever'[q] /\ lately[q] \subseteq lately'[q]
      OBVIOUS
    <2> QED BY <2>1, HistoryGrows DEF ClassInv
  <1>4. EndInv'
    BY DEF ClassInv, EndInv, TagsTell, TagsAreSaved, EndsIdle, MetadataIsCurrent, Ambiguous, ExifTags
  <1> QED BY <1>1, <1>2, <1>3, <1>4 DEF ClassInv

\* Every step keeps the invariant.
LEMMA ClassInvStep == ASSUME ClassInv, [ClassifyNext]_classVars PROVE ClassInv'
  <1>1. CASE UNCHANGED classVars
    BY <1>1, ClassStutters
  <1>2. CASE StepNext
    BY <1>2, StepTypes, WorldStep1, RunStep1, EndStep1 DEF ClassInv
  <1>3. CASE OtherNext
    BY <1>3, OtherTypes, WorldStep2, RunStep2, EndStep2 DEF ClassInv
  <1>4. ClassifyNext => StepNext \/ OtherNext
    BY DEF ClassifyNext, StepNext, OtherNext
  <1> QED BY <1>1, <1>2, <1>3, <1>4

\* So the invariant holds.
LEMMA ClassInvariant == ClassifySpec => []ClassInv
  <1>1. ClassInit => ClassInv
    BY ClassStarts
  <1>2. ClassInv /\ [ClassifyNext]_classVars => ClassInv'
    BY ClassInvStep
  <1> QED BY <1>1, <1>2, PTL DEF ClassifySpec

-----------------------------------------------------------------------------
\* The variables of the step classify_captures keep to their types.
THEOREM ClassTypeCorrect == ClassifySpec => []ClassTypeOK
  <1>1. ClassInv => ClassTypeOK
    BY DEF ClassInv
  <1> QED BY <1>1, ClassInvariant, PTL

\* After a run of classify_captures every record of photo_exif tells an edition
\* the photo has had since the run began, one that cannot be told from such a
\* one, or an error of the run, and the tags tell what the record tells, for any
\* photos, editions, mtimes, edits, moves and kills.
THEOREM MetadataStaysCurrent == ClassifySpec => []MetadataIsCurrent
  <1>1. ClassInv => MetadataIsCurrent
    BY DEF ClassInv, EndInv
  <1> QED BY <1>1, ClassInvariant, PTL
-----------------------------------------------------------------------------
(***************************************************************************)
(* The ZIP downloads.                                                      *)
(***************************************************************************)

\* No name was met more often than files were looked at.
MetBounded ==
  \A d \in ZipDays, n \in FileNames :
    seenNames[d][n] + Cardinality(toName) <= Cardinality(ZipFiles)

HasEntry(f) == \E e \in entries : e[3] = f

\* The entry of a file has its day, and a number below the next of its name.
EntriesAreNumbered ==
  \A e \in entries :
    /\ e[1] = zDay[e[3]] /\ e[3] \notin toName
    /\ \E k \in 0 .. seenNames[e[1]][zName[e[3]]] - 1 : e[2] = NameInZip(zName[e[3]], k)

\* Files of one name and day have entries of different names.
NumbersDiffer ==
  \A e, g \in entries :
    e # g /\ e[1] = g[1] /\ zName[e[3]] = zName[g[3]] => e[2] # g[2]

\* A day is asked for as a whole; what has not lapsed is there and allowed.
DaysAreWhole ==
  /\ \A f \in ZipFiles : zDay[f] \in zDays => f \in toName \/ f \in lapsed \/ HasEntry(f)
  /\ \A f \in ZipFiles \ lapsed : IsFile(f)

NamedThenWritten ==
  /\ zPc # "naming" => toName = {}
  /\ zPc = "sent" => written = entries

ArchiveInv ==
  /\ ArchiveTypeOK /\ MetBounded /\ EntriesAreNumbered /\ NumbersDiffer /\ DaysAreWhole
  /\ NamedThenWritten

-----------------------------------------------------------------------------
\* A name of a file is a sequence, and begins with its stem.
LEMMA NamesAreSequences ==
  ASSUME NEW n \in FileNames
  PROVE  /\ n \in Seq(Stems \cup Nat) /\ Len(n) \in {1, 2}
         /\ n \in Plain <=> n = <<n[1]>> /\ n[1] \in Stems
  <1>1. CASE n \in Plain
    <2>1. PICK s \in Stems : n = <<s>>
      BY <1>1 DEF Plain
    <2> QED BY <1>1, <2>1
  <1>2. CASE n \notin Plain
    <2>1. PICK s \in Stems : n = <<s, 2>>
      BY <1>2 DEF FileNames
    <2>2. 2 \in Stems \cup Nat
      OBVIOUS
    <2> QED BY <1>2, <2>1, <2>2
  <1> QED BY <1>1, <1>2

\* Different numbers make different entries of a name, and keep its stem.
LEMMA NumbersTell ==
  ASSUME NEW n \in FileNames, NEW j \in Nat, NEW k \in Nat
  PROVE  /\ j # k => NameInZip(n, j) # NameInZip(n, k)
         /\ NameInZip(n, k)[1] = n[1]
  <1>1. n \in Seq(Stems \cup Nat) /\ Len(n) \in {1, 2}
    BY NamesAreSequences
  <1>2. ASSUME NEW m \in Nat
        PROVE  /\ Len(Append(n, m)) = Len(n) + 1 /\ Append(n, m)[Len(n) + 1] = m
               /\ Append(n, m)[1] = n[1]
    <2>1. m \in Stems \cup Nat
      OBVIOUS
    <2> QED BY <1>1, <2>1, AppendProperties
  <1>3. Len(n) # Len(n) + 1
    BY <1>1
  <1>4. j + 1 \in Nat /\ k + 1 \in Nat /\ (j # k => j + 1 # k + 1)
    OBVIOUS
  <1>5. NameInZip(n, k)[1] = n[1]
    BY <1>2, <1>4 DEF NameInZip
  <1>6. ASSUME j # k PROVE NameInZip(n, j) # NameInZip(n, k)
    <2>1. CASE j = 0 \/ k = 0
      BY <1>2, <1>3, <1>4, <1>6, <2>1 DEF NameInZip
    <2>2. CASE j # 0 /\ k # 0
      BY <1>2, <1>4, <1>6, <2>2 DEF NameInZip
    <2> QED BY <2>1, <2>2
  <1> QED BY <1>5, <1>6

\* Different names make one entry only when one is numbered and the other gets
\* its number.
LEMMA NamesCollide ==
  ASSUME NEW n \in FileNames, NEW m \in FileNames, n # m, NEW j \in Nat, NEW k \in Nat,
         NameInZip(n, j) = NameInZip(m, k)
  PROVE  \/ j = 0 /\ k # 0 /\ n \notin Plain
         \/ k = 0 /\ j # 0 /\ m \notin Plain
  <1>1. /\ n \in Seq(Stems \cup Nat) /\ Len(n) \in {1, 2} /\ (n \in Plain => Len(n) = 1)
        /\ m \in Seq(Stems \cup Nat) /\ Len(m) \in {1, 2} /\ (m \in Plain => Len(m) = 1)
    BY NamesAreSequences
  <1>2. ASSUME NEW l \in Seq(Stems \cup Nat), NEW i \in Nat
        PROVE  Len(Append(l, i)) = Len(l) + 1
    <2>1. i \in Stems \cup Nat
      OBVIOUS
    <2> QED BY <2>1, AppendProperties
  <1>3. j + 1 \in Nat /\ k + 1 \in Nat
    OBVIOUS
  <1>4. CASE j = 0 /\ k = 0
    BY <1>4 DEF NameInZip
  <1>5. CASE j = 0 /\ k # 0
    <2>1. n = Append(m, k + 1)
      BY <1>5 DEF NameInZip
    <2>2. Len(n) = Len(m) + 1
      BY <1>1, <1>2, <1>3, <2>1
    <2> QED BY <1>1, <1>5, <2>2
  <1>6. CASE j # 0 /\ k = 0
    <2>1. m = Append(n, j + 1)
      BY <1>6 DEF NameInZip
    <2>2. Len(m) = Len(n) + 1
      BY <1>1, <1>2, <1>3, <2>1
    <2> QED BY <1>1, <1>6, <2>2
  <1>7. CASE j # 0 /\ k # 0
    <2>1. Append(n, j + 1) = Append(m, k + 1)
      BY <1>7 DEF NameInZip
    <2>2. j + 1 \in Stems \cup Nat /\ k + 1 \in Stems \cup Nat
      BY <1>3
    <2>3. n = m
      BY ONLY <1>1, <2>1, <2>2, AppendInjective, n \in Seq(Stems \cup Nat)
    <2> QED BY <2>3
  <1> QED BY <1>4, <1>5, <1>6, <1>7

\* At the start no download runs.
LEMMA ArchiveStarts == ASSUME ArchiveInit PROVE ArchiveInv
  <1>1. Cardinality(ZipFiles) \in Nat /\ Cardinality(toName) = 0
    BY ArchiveAssumption, FS_CardinalityType, FS_EmptySet DEF ArchiveInit
  <1>2. \A n \in Nat : 0 \in 0..n
    OBVIOUS
  <1>3. ArchiveTypeOK /\ MetBounded
    BY <1>1, <1>2, ArchiveAssumption DEF ArchiveInit, ArchiveTypeOK, MetBounded
  <1> QED BY <1>1, <1>3 DEF ArchiveInit, ArchiveInv, EntriesAreNumbered, NumbersDiffer,
                            DaysAreWhole, HasEntry, IsFile, NamedThenWritten

\* A file is given its name.
LEMMA NamingHolds ==
  ASSUME ArchiveInv, NEW f \in ZipFiles, NameFile(f) PROVE ArchiveInv'
  <1> DEFINE day == zDay[f]
             met == seenNames[day][zName[f]]
             new == <<day, NameInZip(zName[f], met), f>>
  <1> USE DEF ArchiveInv
  <1>1. /\ zPc = "naming" /\ f \in toName /\ toName' = toName \ {f}
        /\ UNCHANGED <<zName, zDay, onDisk, inside, lapsed, moves, zPc, zDays, written, zips>>
        /\ IsFile(f) => /\ seenNames' = [seenNames EXCEPT ![day][zName[f]] = met + 1]
                        /\ entries' = entries \cup {new}
        /\ ~IsFile(f) => UNCHANGED <<seenNames, entries>>
    BY DEF NameFile, zipFixed, zipWorld
  <1>2. /\ day \in ZipDays /\ zName[f] \in FileNames
        /\ seenNames \in [ZipDays -> [FileNames -> 0..Cardinality(ZipFiles)]]
    BY DEF ArchiveTypeOK
  <1>3. /\ Cardinality(ZipFiles) \in Nat /\ Cardinality(toName) \in Nat
        /\ Cardinality(toName') = Cardinality(toName) - 1
    BY <1>1, ArchiveAssumption, FS_Subset, FS_CardinalityType, FS_RemoveElement DEF ArchiveTypeOK
  <1>4. met \in Nat /\ met + 1 \in 0..Cardinality(ZipFiles)
    <2>1. met + Cardinality(toName) <= Cardinality(ZipFiles) /\ met \in Nat
      BY <1>2 DEF MetBounded
    <2>2. Cardinality(toName) >= 1
      <3>1. Cardinality(toName') \in Nat
        BY <1>1, ArchiveAssumption, FS_Subset, FS_CardinalityType DEF ArchiveTypeOK
      <3> QED BY <1>3, <3>1
    <2> HIDE DEF met
    <2> QED BY <1>3, <2>1, <2>2
  <1>5. CASE IsFile(f)
    <2>1. /\ seenNames' \in [ZipDays -> [FileNames -> 0..Cardinality(ZipFiles)]]
          /\ \A d \in ZipDays, n \in FileNames :
               seenNames'[d][n] = IF d = day /\ n = zName[f] THEN met + 1 ELSE seenNames[d][n]
      <3>1. seenNames' = [seenNames EXCEPT ![day] =
                            [seenNames[day] EXCEPT ![zName[f]] = met + 1]]
        BY <1>1, <1>5
      <3> HIDE DEF met, day
      <3> QED BY <1>2, <1>4, <3>1
    <2>2. NameInZip(zName[f], met) \in ZipNames
      <3>1. CASE met = 0
        BY <1>2, <3>1 DEF NameInZip, ZipNames
      <3>2. CASE met # 0
        <4>1. met + 1 \in 2..Cardinality(ZipFiles)
          BY <1>3, <1>4, <3>2
        <4>2. NameInZip(zName[f], met) = Append(zName[f], met + 1)
          BY <3>2 DEF NameInZip
        <4> HIDE DEF met
        <4> QED BY <1>2, <4>1, <4>2 DEF ZipNames
      <3> QED BY <3>1, <3>2
    <2>3. ArchiveTypeOK'
      <3>1. entries' \subseteq ZipDays \X ZipNames \X ZipFiles /\ written' \subseteq entries'
        BY <1>1, <1>2, <1>5, <2>2 DEF ArchiveTypeOK
      <3> QED BY <1>1, <2>1, <3>1 DEF ArchiveTypeOK
    <2>4. MetBounded'
      <3> SUFFICES ASSUME NEW d \in ZipDays, NEW n \in FileNames
                   PROVE  seenNames'[d][n] + Cardinality(toName') <= Cardinality(ZipFiles)
        BY DEF MetBounded
      <3>1. /\ seenNames[d][n] + Cardinality(toName) <= Cardinality(ZipFiles)
            /\ seenNames[d][n] \in Nat
        BY <1>2 DEF MetBounded
      <3>2. seenNames'[d][n] \in {seenNames[d][n], seenNames[d][n] + 1}
        BY <2>1
      <3> QED BY <1>3, <3>1, <3>2
    <2>5. \A e \in entries : /\ e \in ZipDays \X ZipNames \X ZipFiles
                             /\ zName[e[3]] \in FileNames /\ e[1] \in ZipDays
      BY DEF ArchiveTypeOK
    <2>6. ASSUME NEW e \in entries
          PROVE  /\ e[1] = zDay[e[3]] /\ e[3] \notin toName'
                 /\ \E k \in 0 .. seenNames'[e[1]][zName[e[3]]] - 1 :
                      e[2] = NameInZip(zName[e[3]], k)
      <3>1. PICK k \in 0 .. seenNames[e[1]][zName[e[3]]] - 1 : e[2] = NameInZip(zName[e[3]], k)
        BY DEF EntriesAreNumbered
      <3>2. seenNames[e[1]][zName[e[3]]] \in Nat
        BY <1>2, <2>5
      <3>3. seenNames'[e[1]][zName[e[3]]]
              \in {seenNames[e[1]][zName[e[3]]], seenNames[e[1]][zName[e[3]]] + 1}
        BY <2>1, <2>5
      <3>4. k \in 0 .. seenNames'[e[1]][zName[e[3]]] - 1
        BY <3>2, <3>3
      <3> QED BY <1>1, <3>1, <3>4 DEF EntriesAreNumbered
    <2>7. new[1] = day /\ new[2] = NameInZip(zName[f], met) /\ new[3] = f
      OBVIOUS
    <2>8. EntriesAreNumbered'
      <3>1. met \in 0 .. seenNames'[day][zName[f]] - 1
        BY <1>2, <1>4, <2>1
      <3> HIDE DEF met, new
      <3> QED BY <1>1, <1>5, <2>6, <2>7, <3>1 DEF EntriesAreNumbered
    <2>9. ASSUME NEW e \in entries, e[1] = day, zName[e[3]] = zName[f] PROVE e[2] # new[2]
      <3>1. PICK k \in 0 .. met - 1 : e[2] = NameInZip(zName[f], k)
        BY <2>9 DEF EntriesAreNumbered
      <3>2. k \in Nat /\ k # met
        BY <1>4, <3>1
      <3> HIDE DEF met
      <3> QED BY <1>2, <1>4, <3>1, <3>2, <2>7, NumbersTell
    <2>10. NumbersDiffer'
      <3> HIDE DEF new, met
      <3> QED BY <1>1, <1>5, <2>7, <2>9 DEF NumbersDiffer
    <2>11. DaysAreWhole'
      <3>1. \A g \in ZipFiles : HasEntry(g)' <=> HasEntry(g) \/ g = f
        <4> HIDE DEF new
        <4> QED BY <1>1, <1>5, <2>7 DEF HasEntry
      <3> QED BY <1>1, <3>1 DEF DaysAreWhole, IsFile
    <2>12. NamedThenWritten'
      BY <1>1 DEF NamedThenWritten
    <2> QED BY <2>3, <2>4, <2>8, <2>10, <2>11, <2>12
  <1>6. CASE ~IsFile(f)
    <2>1. UNCHANGED <<zName, zDay, onDisk, inside, lapsed, moves, zPc, zDays, written, zips,
                      seenNames, entries>>
      BY <1>1, <1>6
    <2>2. ArchiveTypeOK'
      BY <1>1, <2>1 DEF ArchiveTypeOK
    <2>3. MetBounded'
      <3> SUFFICES ASSUME NEW d \in ZipDays, NEW n \in FileNames
                   PROVE  seenNames[d][n] + Cardinality(toName') <= Cardinality(ZipFiles)
        BY <2>1 DEF MetBounded
      <3>1. /\ seenNames[d][n] + Cardinality(toName) <= Cardinality(ZipFiles)
            /\ seenNames[d][n] \in Nat
        BY <1>2 DEF MetBounded
      <3> QED BY <1>3, <3>1
    <2>4. EntriesAreNumbered' /\ NumbersDiffer' /\ NamedThenWritten'
      BY <1>1, <2>1 DEF EntriesAreNumbered, NumbersDiffer, NamedThenWritten, NameInZip
    <2>5. DaysAreWhole'
      BY <1>1, <1>6, <2>1 DEF DaysAreWhole, HasEntry, IsFile
    <2> QED BY <2>2, <2>3, <2>4, <2>5
  <1> QED BY <1>5, <1>6

\* Every step keeps the invariant.
LEMMA ArchiveInvStep == ASSUME ArchiveInv, [ArchiveNext]_zipVars PROVE ArchiveInv'
  <1> USE DEF ArchiveInv
  <1>1. ASSUME UNCHANGED <<zName, zDay, zDays, seenNames, toName, entries>>,
               lapsed \subseteq lapsed', \A f \in ZipFiles \ lapsed' : IsFile(f)',
               ArchiveTypeOK', NamedThenWritten'
        PROVE  ArchiveInv'
    <2>1. MetBounded'
      BY <1>1 DEF MetBounded
    <2>2. EntriesAreNumbered' /\ NumbersDiffer'
      BY <1>1 DEF EntriesAreNumbered, NumbersDiffer, NameInZip
    <2>3. DaysAreWhole'
      BY <1>1 DEF DaysAreWhole, HasEntry
    <2> QED BY <1>1, <2>1, <2>2, <2>3
  <1>2. /\ Cardinality(ZipFiles) \in Nat
        /\ [d \in ZipDays |-> [n \in FileNames |-> 0]]
             \in [ZipDays -> [FileNames -> 0..Cardinality(ZipFiles)]]
    <2>1. Cardinality(ZipFiles) \in Nat
      BY ArchiveAssumption, FS_CardinalityType
    <2>2. 0 \in 0..Cardinality(ZipFiles)
      BY <2>1
    <2> QED BY <2>1, <2>2
  <1>3. CASE UNCHANGED zipVars
    BY <1>1, <1>3 DEF zipVars, zipFixed, zipWorld, zipLocal, ArchiveTypeOK, NamedThenWritten,
                      DaysAreWhole, IsFile
  <1>4. ASSUME NEW days \in (SUBSET ZipDays) \ {{}}, StartZip(days) PROVE ArchiveInv'
    <2>1. /\ UNCHANGED <<zName, zDay, onDisk, inside, moves>> /\ zPc = "idle" /\ zPc' = "naming"
          /\ toName' = {f \in ZipFiles : zDay[f] \in days} /\ entries' = {} /\ written' = {}
          /\ zDays' = days /\ lapsed' = {f \in ZipFiles : ~IsFile(f)}
          /\ seenNames' = [d \in ZipDays |-> [n \in FileNames |-> 0]]
          /\ zips' \in 0..MaxZips
      BY <1>4, ArchiveAssumption DEF StartZip, zipFixed, ArchiveTypeOK
    <2>2. ArchiveTypeOK'
      BY <1>2, <2>1 DEF ArchiveTypeOK
    <2>3. Cardinality(toName') <= Cardinality(ZipFiles) /\ Cardinality(toName') \in Nat
      BY <2>1, ArchiveAssumption, FS_Subset, FS_CardinalityType
    <2>4. MetBounded'
      BY <2>1, <2>3 DEF MetBounded
    <2>5. EntriesAreNumbered' /\ NumbersDiffer' /\ NamedThenWritten'
      BY <2>1 DEF EntriesAreNumbered, NumbersDiffer, NamedThenWritten
    <2>6. DaysAreWhole'
      BY <2>1 DEF DaysAreWhole, IsFile
    <2> QED BY <2>2, <2>4, <2>5, <2>6
  <1>5. CASE NamesDone \/ Send
    BY <1>1, <1>5 DEF NamesDone, Send, zipFixed, zipWorld, ArchiveTypeOK, NamedThenWritten,
                      DaysAreWhole, IsFile
  <1>6. CASE ZipEnds
    <2>1. /\ UNCHANGED <<zName, zDay, onDisk, inside, lapsed, moves, zips>> /\ zPc' = "idle"
          /\ zDays' = {} /\ toName' = {} /\ entries' = {} /\ written' = {}
          /\ seenNames' = [d \in ZipDays |-> [n \in FileNames |-> 0]]
      BY <1>6 DEF ZipEnds, zipFixed, zipWorld
    <2>2. ArchiveTypeOK'
      BY <1>2, <2>1 DEF ArchiveTypeOK
    <2>3. MetBounded'
      BY <1>2, <2>1, FS_EmptySet DEF MetBounded
    <2> QED BY <2>1, <2>2, <2>3 DEF EntriesAreNumbered, NumbersDiffer, DaysAreWhole, HasEntry,
                                    IsFile, NamedThenWritten
  <1>7. ASSUME NEW f \in ZipFiles, FileGoes(f) \/ FileReturns(f) PROVE ArchiveInv'
    <2>1. moves' \in 0..MaxMoves
      BY <1>7, ArchiveAssumption DEF FileGoes, FileReturns, Moves, ArchiveTypeOK
    <2> QED BY <1>1, <1>7, <2>1 DEF FileGoes, FileReturns, Moves, zipFixed, zipLocal,
                                    ArchiveTypeOK, NamedThenWritten, DaysAreWhole, IsFile
  <1>8. ASSUME NEW I \in SUBSET ZipFiles, FoldersChange(I) PROVE ArchiveInv'
    <2>1. moves' \in 0..MaxMoves
      BY <1>8, ArchiveAssumption DEF FoldersChange, Moves, ArchiveTypeOK
    <2> QED BY <1>1, <1>8, <2>1 DEF FoldersChange, Moves, zipFixed, zipLocal,
                                    ArchiveTypeOK, NamedThenWritten, DaysAreWhole, IsFile
  <1>9. ASSUME NEW e \in entries, WriteEntry(e) PROVE ArchiveInv'
    BY <1>1, <1>9 DEF WriteEntry, zipFixed, zipWorld, ArchiveTypeOK, NamedThenWritten,
                      DaysAreWhole, IsFile
  <1> QED BY <1>3, <1>4, <1>5, <1>6, <1>7, <1>8, <1>9, NamingHolds DEF ArchiveNext

\* So the invariant holds.
LEMMA ArchiveInvariant == ArchiveSpec => []ArchiveInv
  <1>1. ArchiveInit => ArchiveInv
    BY ArchiveStarts
  <1>2. ArchiveInv /\ [ArchiveNext]_zipVars => ArchiveInv'
    BY ArchiveInvStep
  <1> QED BY <1>1, <1>2, PTL DEF ArchiveSpec

\* Two entries of one name: the one is named so itself, the other renamed.
LEMMA OneIsNumbered ==
  ASSUME ArchiveInv, NEW e \in entries, NEW g \in entries, e # g, e[1] = g[1], e[2] = g[2]
  PROVE  \/ NumberedItself(e) /\ g[2] # zName[g[3]]
         \/ NumberedItself(g) /\ e[2] # zName[e[3]]
  <1> USE DEF ArchiveInv
  <1> DEFINE n == zName[e[3]]
             m == zName[g[3]]
  <1>1. n \in FileNames /\ m \in FileNames /\ e[1] \in ZipDays /\ n # m
    BY DEF ArchiveTypeOK, EntriesAreNumbered, NumbersDiffer
  <1>2. PICK j \in 0 .. seenNames[e[1]][n] - 1 : e[2] = NameInZip(n, j)
    BY DEF EntriesAreNumbered
  <1>3. PICK k \in 0 .. seenNames[g[1]][m] - 1 : g[2] = NameInZip(m, k)
    BY DEF EntriesAreNumbered
  <1>4. j \in Nat /\ k \in Nat
    OBVIOUS
  <1>5. NameInZip(n, j) = NameInZip(m, k)
    BY <1>2, <1>3
  <1> HIDE DEF n, m
  <1>6. \/ j = 0 /\ k # 0 /\ n \notin Plain
        \/ k = 0 /\ j # 0 /\ m \notin Plain
    BY ONLY <1>1, <1>4, <1>5, NamesCollide
  <1>7. \A x \in Nat : NameInZip(n, 0) = n /\ NameInZip(m, 0) = m
    BY DEF NameInZip
  <1>8. /\ j # 0 => NameInZip(n, j) # n
        /\ k # 0 => NameInZip(m, k) # m
    BY <1>1, <1>4, <1>7, NumbersTell
  <1> QED BY <1>2, <1>3, <1>6, <1>7, <1>8 DEF NumberedItself, n, m

\* What is sent keeps all.
LEMMA SentIsWhole == ArchiveInv => ArchiveKeepsAll
  <1> SUFFICES ASSUME ArchiveInv, zPc = "sent"
               PROVE  ArchiveKeepsAll
    BY DEF ArchiveKeepsAll
  <1> USE DEF ArchiveInv
  <1>1. toName = {} /\ written = entries
    BY DEF NamedThenWritten
  <1>2. \A f \in ZipFiles \ lapsed : zDay[f] \in zDays => \E e \in written : e[3] = f
    BY <1>1 DEF DaysAreWhole, HasEntry
  <1>3. ASSUME NEW e \in written, NEW g \in written, e # g, <<e[1], e[2]>> = <<g[1], g[2]>>
        PROVE  \/ NumberedItself(e) /\ g[2] # zName[g[3]]
               \/ NumberedItself(g) /\ e[2] # zName[e[3]]
    BY <1>1, <1>3, OneIsNumbered
  <1> QED BY <1>2, <1>3 DEF ArchiveKeepsAll

-----------------------------------------------------------------------------
\* The variables of a download keep to their types; no name is met more often
\* than there are files.
THEOREM ArchiveTypeCorrect == ArchiveSpec => []ArchiveTypeOK
  <1>1. ArchiveInv => ArchiveTypeOK
    BY DEF ArchiveInv
  <1> QED BY <1>1, ArchiveInvariant, PTL

\* A download that is sent holds every photo of its days that stayed where it
\* was and was allowed, in entries of different names unless the number of one
\* is the name of another, for any files, names, days and folders.
THEOREM ArchivesKeepAll == ArchiveSpec => []ArchiveKeepsAll
  BY ArchiveInvariant, SentIsWhole, PTL

-----------------------------------------------------------------------------
(***************************************************************************)
(* The scan of a phone.                                                    *)
(***************************************************************************)

\* Folders are numbered after the one they are in.
FoldersNest == \A d \in PhoneFolders : parent[d] < d

\* How deep folder d is below r, which is above it.
DepthOf(d, r) == Cardinality(Path(d, r) \ {r})

Near(d, r) == DepthOf(d, r) <= MaxDepth

\* Every folder asked for is covered by one that is searched.
RootsCover ==
  dPc # "idle" => roots \subseteq asked /\ \A d \in asked : \E r \in roots : Covers(r, d)

\* A call has got to its folder from a root, one folder at a time and perhaps
\* once more at the root.
CallsAreReached ==
  \A c \in toList : c[2] <= c[1] /\ \E r \in roots : r \in Above(c[1])

\* What was found was reached, and is there unless it has moved.
FoundIsReached ==
  \A h \in found :
    /\ h[2] \notin moved => place[h[2]] = h[1]
    /\ \E r \in roots : r \in Above(h[1])

\* The scan is on its way to folder d from root r.
Comes(d, r) == \E c \in toList : c[1] \in Path(d, r) /\ c[2] = DepthOf(c[1], r)

\* What can be reached was found, or a folder on its path is still to be listed.
ReachedIsFound ==
  \A f \in PhoneFiles \ moved, r \in roots :
    dPc # "idle" /\ r \in Above(place[f]) /\ Near(place[f], r) /\ unread \cap Path(place[f], r) = {}
      => <<place[f], f>> \in found \/ Comes(place[f], r)

ScanInv ==
  /\ DiscoveryTypeOK /\ FoldersNest /\ (dPc # "scan" => toList = {})
  /\ RootsCover /\ CallsAreReached /\ FoundIsReached /\ ReachedIsFound

-----------------------------------------------------------------------------
\* The folders above one: itself, and with each the one it is in; no others.
LEMMA AboveIs ==
  ASSUME NEW d \in PhoneFolders
  PROVE  /\ Above(d) \subseteq PhoneFolders /\ d \in Above(d)
         /\ \A S \in SUBSET PhoneFolders :
              d \in S /\ (\A x \in S : parent[x] # 0 => parent[x] \in S) => Above(d) \subseteq S
  BY DEF Above

LEMMA AboveClosed ==
  ASSUME DiscoveryTypeOK, FoldersNest, NEW d \in PhoneFolders, NEW x \in Above(d), parent[x] # 0
  PROVE  parent[x] \in Above(d) /\ parent[x] \in PhoneFolders
  <1>1. x \in PhoneFolders
    BY DEF Above
  <1>2. parent[x] \in PhoneFolders
    BY <1>1, DiscoveryAssumption DEF DiscoveryTypeOK, PhoneFolders
  <1> QED BY <1>2 DEF Above

LEMMA AboveTransitive ==
  ASSUME DiscoveryTypeOK, FoldersNest, NEW d \in PhoneFolders, NEW x \in Above(d)
  PROVE  Above(x) \subseteq Above(d)
  <1>1. x \in PhoneFolders /\ Above(d) \in SUBSET PhoneFolders
    BY AboveIs
  <1>2. \A y \in Above(d) : parent[y] # 0 => parent[y] \in Above(d)
    BY AboveClosed
  <1> QED BY <1>1, <1>2, AboveIs

\* Folders above have lower numbers.
LEMMA AboveIsLower ==
  ASSUME DiscoveryTypeOK, FoldersNest, NEW d \in PhoneFolders
  PROVE  \A x \in Above(d) : x <= d
  <1> DEFINE S == {x \in PhoneFolders : x <= d}
  <1>1. ASSUME NEW x \in S, parent[x] # 0 PROVE parent[x] \in S
    <2>1. x \in 1..LastFolder /\ d \in 1..LastFolder /\ x <= d /\ LastFolder \in Nat
      BY DiscoveryAssumption DEF PhoneFolders
    <2>2. parent[x] \in 0..LastFolder /\ parent[x] < x
      BY <2>1 DEF DiscoveryTypeOK, FoldersNest, PhoneFolders
    <2>3. parent[x] \in 1..LastFolder /\ parent[x] <= d
      BY <1>1, <2>1, <2>2
    <2> QED BY <2>3 DEF PhoneFolders
  <1>2. d \in S
    BY DiscoveryAssumption DEF PhoneFolders
  <1>3. Above(d) \subseteq S
    <2>1. S \in SUBSET PhoneFolders
      OBVIOUS
    <2> HIDE DEF S
    <2> QED BY <1>1, <1>2, <2>1, AboveIs
  <1> QED BY <1>3

\* What is above a folder is it, or above the one it is in.
LEMMA AboveParent ==
  ASSUME DiscoveryTypeOK, FoldersNest, NEW c \in PhoneFolders, parent[c] # 0
  PROVE  /\ parent[c] \in PhoneFolders /\ parent[c] < c
         /\ Above(c) = {c} \cup Above(parent[c])
         /\ c \notin Above(parent[c])
  <1>1. parent[c] \in PhoneFolders /\ parent[c] < c /\ parent[c] \in Above(c)
    BY AboveClosed, AboveIs DEF FoldersNest
  <1>2. Above(parent[c]) \subseteq Above(c)
    BY <1>1, AboveTransitive
  <1>3. Above(c) \subseteq {c} \cup Above(parent[c])
    <2> DEFINE S == {c} \cup Above(parent[c])
    <2>1. S \in SUBSET PhoneFolders /\ c \in S
      BY <1>1, AboveIs
    <2>2. \A x \in S : parent[x] # 0 => parent[x] \in S
      BY <1>1, AboveIs, AboveClosed
    <2> HIDE DEF S
    <2>3. Above(c) \subseteq S
      BY <2>1, <2>2, AboveIs
    <2> QED BY <2>3 DEF S
  <1>4. c \notin Above(parent[c])
    <2>1. c \in Nat /\ parent[c] \in Nat
      BY <1>1, DiscoveryAssumption DEF PhoneFolders
    <2> QED BY <1>1, <2>1, AboveIsLower
  <1> QED BY <1>1, <1>2, <1>3, <1>4, AboveIs

\* Of two folders above one, one is above the other; both only if they are equal.
LEMMA AboveIsChain ==
  ASSUME DiscoveryTypeOK, FoldersNest, NEW d \in PhoneFolders
  PROVE  \A x, y \in Above(d) : /\ x \in Above(y) \/ y \in Above(x)
                                /\ x \in Above(y) /\ y \in Above(x) => x = y
  <1> DEFINE S == {z \in Above(d) : \A x \in Above(d) : x \in Above(z) \/ z \in Above(x)}
  <1>1. S \in SUBSET PhoneFolders /\ d \in S
    BY AboveIs
  <1>2. ASSUME NEW z \in S, parent[z] # 0 PROVE parent[z] \in S
    <2>1. z \in PhoneFolders /\ parent[z] \in Above(d)
      BY <1>1, <1>2, AboveClosed
    <2>2. Above(z) = {z} \cup Above(parent[z]) /\ parent[z] \in PhoneFolders
      BY <1>2, <2>1, AboveParent
    <2>3. ASSUME NEW x \in Above(d) PROVE x \in Above(parent[z]) \/ parent[z] \in Above(x)
      <3>0. x \in PhoneFolders
        BY AboveIs
      <3>1. CASE z \in Above(x)
        BY <1>2, <3>0, <3>1, AboveClosed
      <3>2. CASE x = z
        BY <2>1, <2>2, <3>2, AboveIs
      <3>3. CASE x \in Above(z) /\ x # z
        BY <2>2, <3>3
      <3> QED BY <1>2, <3>1, <3>2, <3>3
    <2> QED BY <2>1, <2>3
  <1>3. Above(d) \subseteq S
    <2> HIDE DEF S
    <2> QED BY <1>1, <1>2, AboveIs
  <1>4. ASSUME NEW x \in Above(d), NEW y \in Above(d), x \in Above(y), y \in Above(x) PROVE x = y
    <2>1. x \in PhoneFolders /\ y \in PhoneFolders
      BY AboveIs
    <2>2. x <= y /\ y <= x
      BY <1>4, <2>1, AboveIsLower
    <2>3. x \in Nat /\ y \in Nat
      BY <2>1 DEF PhoneFolders
    <2> QED BY <2>2, <2>3
  <1> QED BY <1>3, <1>4

\* Below a folder on the way to another there is one that is in it.
LEMMA NextOnPath ==
  ASSUME DiscoveryTypeOK, FoldersNest, NEW d \in PhoneFolders, NEW b \in Above(d), b # d
  PROVE  \E x \in Above(d) : x \in PhoneFolders /\ parent[x] = b
  <1> SUFFICES ASSUME \A x \in Above(d) : parent[x] # b PROVE FALSE
    BY AboveIs
  <1> DEFINE S == Above(d) \ {b}
  <1>1. S \in SUBSET PhoneFolders /\ d \in S
    BY AboveIs
  <1>2. \A x \in S : parent[x] # 0 => parent[x] \in S
    BY AboveClosed
  <1>3. Above(d) \subseteq S
    <2> HIDE DEF S
    <2> QED BY <1>1, <1>2, AboveIs
  <1> QED BY <1>3

-----------------------------------------------------------------------------
\* The folders on the way from a root.
LEMMA PathIs ==
  ASSUME DiscoveryTypeOK, FoldersNest, NEW d \in PhoneFolders, NEW r \in Above(d)
  PROVE  /\ r \in Path(d, r) /\ d \in Path(d, r)
         /\ IsFiniteSet(Path(d, r) \ {r}) /\ DepthOf(d, r) \in Nat
  <1>1. r \in Above(r) /\ d \in Above(d) /\ Above(d) \subseteq PhoneFolders
    BY AboveIs
  <1>2. IsFiniteSet(PhoneFolders)
    BY DiscoveryAssumption, FS_Interval DEF PhoneFolders
  <1>3. Path(d, r) \ {r} \subseteq PhoneFolders
    BY <1>1 DEF Path
  <1> QED BY <1>1, <1>2, <1>3, FS_Subset, FS_CardinalityType DEF Path, DepthOf

\* A root is on its own way, and at no depth.
LEMMA RootPath ==
  ASSUME DiscoveryTypeOK, FoldersNest, NEW r \in PhoneFolders
  PROVE  Path(r, r) = {r} /\ DepthOf(r, r) = 0
  <1>1. Path(r, r) = {r}
    BY AboveIs, AboveIsChain DEF Path
  <1>2. Path(r, r) \ {r} = {}
    BY <1>1
  <1> QED BY <1>1, <1>2, FS_EmptySet DEF DepthOf

\* A folder is one deeper than the one it is in.
LEMMA ChildPath ==
  ASSUME DiscoveryTypeOK, FoldersNest, NEW c \in PhoneFolders, parent[c] # 0,
         NEW r \in Above(parent[c])
  PROVE  Path(c, r) = {c} \cup Path(parent[c], r) /\ DepthOf(c, r) = DepthOf(parent[c], r) + 1
  <1>1. /\ parent[c] \in PhoneFolders /\ Above(c) = {c} \cup Above(parent[c])
        /\ c \notin Above(parent[c])
    BY AboveParent
  <1>2. Path(c, r) = {c} \cup Path(parent[c], r)
    BY <1>1 DEF Path
  <1>3. /\ c # r /\ Path(c, r) \ {r} = (Path(parent[c], r) \ {r}) \cup {c}
        /\ c \notin Path(parent[c], r) \ {r}
    BY <1>1, <1>2 DEF Path
  <1>4. IsFiniteSet(Path(parent[c], r) \ {r})
    BY <1>1, PathIs
  <1> QED BY <1>2, <1>3, <1>4, FS_AddElement DEF DepthOf

\* A folder on the way is not deeper than where the way goes.
LEMMA PathBefore ==
  ASSUME DiscoveryTypeOK, FoldersNest, NEW d \in PhoneFolders, NEW r \in Above(d),
         NEW b \in Path(d, r)
  PROVE  /\ b \in PhoneFolders /\ r \in Above(b) /\ Path(b, r) \subseteq Path(d, r)
         /\ DepthOf(b, r) <= DepthOf(d, r)
  <1>1. b \in PhoneFolders /\ b \in Above(d) /\ r \in Above(b)
    BY AboveIs DEF Path
  <1>2. Path(b, r) \subseteq Path(d, r) /\ Path(b, r) \ {r} \subseteq Path(d, r) \ {r}
    BY <1>1, AboveTransitive DEF Path
  <1> QED BY <1>1, <1>2, PathIs, FS_Subset DEF DepthOf

-----------------------------------------------------------------------------
\* At the start nothing was asked for.
LEMMA ScanStarts == ASSUME DiscoveryInit PROVE ScanInv
  <1>1. parent \in [PhoneFolders -> 0..LastFolder]
    BY DiscoveryAssumption DEF DiscoveryInit, PhoneFolders
  <1>2. /\ FoldersNest /\ fold \in [PhoneFolders -> PhoneFolders]
        /\ respelt \subseteq PhoneFolders /\ place \in [PhoneFiles -> PhoneFolders]
        /\ asked = {} /\ roots = {} /\ dPc = "idle"
        /\ toList = {} /\ found = {} /\ unread = {} /\ moved = {}
    BY DEF DiscoveryInit, FoldersNest
  <1>3. DiscoveryTypeOK
    BY <1>1, <1>2 DEF DiscoveryTypeOK
  <1> QED BY <1>2, <1>3 DEF ScanInv, RootsCover, CallsAreReached, FoundIsReached, ReachedIsFound

\* The operators on folders read only what no step changes.
LEMMA SameFolders ==
  ASSUME UNCHANGED tree
  PROVE  /\ \A d : Above(d)' = Above(d)
         /\ \A d, r : Path(d, r)' = Path(d, r) /\ DepthOf(d, r)' = DepthOf(d, r)
         /\ \A d, r : Near(d, r)' <=> Near(d, r)
         /\ \A d, r : Covers(d, r)' <=> Covers(d, r)
  <1>1. UNCHANGED <<parent, fold>>
    BY DEF tree
  <1>2. \A d : Above(d)' = Above(d)
    BY <1>1 DEF Above
  <1>3. \A d, r : Path(d, r)' = Path(d, r)
    BY <1>2 DEF Path
  <1> QED BY <1>1, <1>2, <1>3 DEF DepthOf, Near, Covers

\* A scan begins at its roots.
LEMMA ScanBegins ==
  ASSUME ScanInv, NEW D \in (SUBSET PhoneFolders) \ {{}}, NEW R \in SUBSET D, StartScan(D, R)
  PROVE  ScanInv'
  <1> USE DEF ScanInv
  <1>1. /\ UNCHANGED <<tree, parent, fold, respelt, place>> /\ asked' = D /\ roots' = R
        /\ dPc' = "scan"
        /\ toList' = R \X {0} /\ found' = {} /\ unread' = {} /\ moved' = {}
        /\ CoverAll(R, D)
    BY DEF StartScan, tree
  <1>2. DiscoveryTypeOK' /\ FoldersNest'
    BY <1>1, DiscoveryAssumption DEF DiscoveryTypeOK, FoldersNest
  <1>3. RootsCover'
    BY <1>1, SameFolders DEF RootsCover, CoverAll
  <1>4. \A c \in toList' : c[1] \in R /\ c[1] \in PhoneFolders /\ c[2] = 0
    BY <1>1
  <1>5. CallsAreReached'
    <2> SUFFICES ASSUME NEW c \in toList' PROVE c[2] <= c[1] /\ c[1] \in Above(c[1])
      BY <1>1, <1>4, SameFolders DEF CallsAreReached
    <2>1. c[2] <= c[1]
      BY <1>4, DiscoveryAssumption DEF PhoneFolders
    <2> QED BY <1>4, <2>1, AboveIs
  <1>6. FoundIsReached'
    BY <1>1 DEF FoundIsReached
  <1>7. ASSUME NEW d \in PhoneFolders, NEW r \in R, r \in Above(d) PROVE Comes(d, r)'
    <2>1. r \in Path(d, r) /\ DepthOf(r, r) = 0
      BY <1>7, PathIs, RootPath
    <2>2. <<r, 0>> \in toList' /\ <<r, 0>>[1] = r /\ <<r, 0>>[2] = 0
      BY <1>1
    <2>3. \E c \in toList' : c[1] \in Path(d, r) /\ c[2] = DepthOf(c[1], r)
      BY <2>1, <2>2
    <2> QED BY <1>1, <2>3, SameFolders DEF Comes
  <1>8. ReachedIsFound'
    BY <1>1, <1>2, <1>7, SameFolders DEF ReachedIsFound, DiscoveryTypeOK
  <1> QED BY <1>1, <1>2, <1>3, <1>5, <1>6, <1>8

\* A folder is listed: its files are found, and its folders are to be listed.
LEMMA ListingHolds ==
  ASSUME ScanInv, NEW c \in toList, ListFolder(c), InReach(c) PROVE ScanInv'
  <1> USE DEF ScanInv
  <1> DEFINE lying == {g \in PhoneFiles : place[g] = c[1]}
  <1>1. /\ dPc = "scan"
        /\ UNCHANGED <<tree, parent, fold, respelt, place, asked, roots, dPc, unread, moved>>
        /\ toList' = (toList \ {c}) \cup (Within(c) \X {c[2] + 1})
        /\ found' = found \cup {<<c[1], f>> : f \in lying}
    BY DEF ListFolder, tree
  <1>2. /\ c[1] \in PhoneFolders /\ c[2] \in 0..LastFolder /\ c[2] <= c[1]
        /\ c[1] \in Nat /\ c[1] >= 1 /\ c[1] <= LastFolder /\ LastFolder \in Nat
    BY DiscoveryAssumption DEF DiscoveryTypeOK, CallsAreReached, PhoneFolders
  <1>3. ASSUME NEW d \in Within(c)
        PROVE  /\ d \in PhoneFolders /\ c[1] \in Above(d) /\ Above(c[1]) \subseteq Above(d)
               /\ c[2] + 1 \in 0..LastFolder /\ c[2] + 1 <= d
    <2>1. CASE d \in PhoneFolders /\ parent[d] = c[1]
      <3>1. parent[d] # 0 /\ c[1] < d /\ Above(d) = {d} \cup Above(c[1]) /\ c[1] \in Above(c[1])
        BY <1>2, <2>1, AboveParent, AboveIs
      <3>2. d \in Nat /\ d <= LastFolder
        BY <1>2, <2>1 DEF PhoneFolders
      <3> QED BY <1>2, <2>1, <3>1, <3>2
    <2>2. CASE c[2] = 0 /\ d = c[1]
      BY <1>2, <2>2, AboveIs
    <2> QED BY <1>3, <2>1, <2>2 DEF Within, PhoneFolders
  <1>4. \A e \in toList' : \/ e \in toList
                           \/ (e[1] \in Within(c) /\ e[2] = c[2] + 1)
    BY <1>1
  <1>5. \A h \in found' : h \in found \/ (h[1] = c[1] /\ h[2] \in lying)
    BY <1>1
  <1> HIDE DEF lying
  <1>6. DiscoveryTypeOK'
    <2>1. toList' \subseteq PhoneFolders \X (0..LastFolder)
      <3>1. Within(c) \X {c[2] + 1} \subseteq PhoneFolders \X (0..LastFolder)
        BY <1>3
      <3> QED BY <1>1, <3>1 DEF DiscoveryTypeOK
    <2>2. found' \subseteq PhoneFolders \X PhoneFiles
      BY <1>1, <1>2 DEF DiscoveryTypeOK, lying
    <2> QED BY <1>1, <2>1, <2>2 DEF DiscoveryTypeOK
  <1>7. FoldersNest' /\ RootsCover'
    BY <1>1, SameFolders DEF FoldersNest, RootsCover
  <1>8. PICK r0 \in roots : r0 \in Above(c[1])
    BY DEF CallsAreReached
  <1>9. CallsAreReached'
    <2> SUFFICES ASSUME NEW e \in toList' PROVE e[2] <= e[1] /\ \E r \in roots : r \in Above(e[1])
      BY <1>1, SameFolders DEF CallsAreReached
    <2>1. CASE e \in toList
      BY <2>1 DEF CallsAreReached
    <2>2. CASE e[1] \in Within(c) /\ e[2] = c[2] + 1
      BY <1>3, <1>8, <2>2
    <2> QED BY <1>4, <2>1, <2>2
  <1>10. FoundIsReached'
    <2> SUFFICES ASSUME NEW h \in found'
                 PROVE  /\ h[2] \notin moved => place[h[2]] = h[1]
                        /\ \E r \in roots : r \in Above(h[1])
      BY <1>1, SameFolders DEF FoundIsReached
    <2>1. CASE h \in found
      BY <2>1 DEF FoundIsReached
    <2>2. CASE h[1] = c[1] /\ h[2] \in lying
      BY <1>8, <2>2 DEF lying
    <2> QED BY <1>5, <2>1, <2>2
  <1>11. ASSUME NEW f \in PhoneFiles \ moved, NEW r \in roots, r \in Above(place[f]),
                Comes(place[f], r)
         PROVE  <<place[f], f>> \in found' \/ Comes(place[f], r)'
    <2> DEFINE d == place[f]
    <2>0. d \in PhoneFolders
      BY DEF DiscoveryTypeOK
    <2>1. PICK e \in toList : e[1] \in Path(d, r) /\ e[2] = DepthOf(e[1], r)
      BY <1>11 DEF Comes
    <2>2. CASE e # c
      <3>1. e \in toList'
        BY <1>1, <2>2
      <3> QED BY <1>1, <2>1, <3>1, SameFolders DEF Comes
    <2>3. CASE e = c /\ c[1] = d
      <3>1. f \in lying
        BY <2>3 DEF lying
      <3> QED BY <1>1, <2>3, <3>1
    <2>4. CASE e = c /\ c[1] # d
      <3>1. c[1] \in Above(d) /\ r \in Above(c[1])
        BY <2>1, <2>4 DEF Path
      <3>2. PICK x \in Above(d) : x \in PhoneFolders /\ parent[x] = c[1]
        BY <2>0, <2>4, <3>1, NextOnPath
      <3>3. x \in Within(c) /\ parent[x] # 0
        BY <1>2, <3>2 DEF Within
      <3>4. r \in Above(x)
        BY <1>3, <3>1, <3>3
      <3>5. x \in Path(d, r) /\ DepthOf(x, r) = c[2] + 1
        BY <2>1, <2>4, <3>1, <3>2, <3>3, <3>4, ChildPath DEF Path
      <3>6. <<x, c[2] + 1>> \in toList' /\ <<x, c[2] + 1>>[1] = x /\ <<x, c[2] + 1>>[2] = c[2] + 1
        BY <1>1, <3>3
      <3>7. \E g \in toList' : g[1] \in Path(d, r) /\ g[2] = DepthOf(g[1], r)
        BY <3>5, <3>6
      <3> QED BY <1>1, <3>7, SameFolders DEF Comes
    <2> QED BY <2>2, <2>3, <2>4
  <1>12. found \subseteq found'
    BY <1>1
  <1>13. ReachedIsFound'
    BY <1>1, <1>11, <1>12, SameFolders DEF ReachedIsFound
  <1> QED BY <1>1, <1>6, <1>7, <1>9, <1>10, <1>13

\* A folder too deep is left, and one that fails is unread.
LEMMA LeavingHolds ==
  ASSUME ScanInv, NEW c \in toList,
         \/ ListFolder(c) /\ ~InReach(c)
         \/ PropfindFails(c)
  PROVE  ScanInv'
  <1> USE DEF ScanInv
  <1>1. /\ dPc = "scan"
        /\ UNCHANGED <<tree, parent, fold, respelt, place, asked, roots, dPc, found, moved>>
        /\ toList' = toList \ {c} /\ unread \subseteq unread'
        /\ (unread' = unread /\ ~InReach(c)) \/ unread' = unread \cup {c[1]}
    BY DEF ListFolder, PropfindFails, tree
  <1>2. c[1] \in PhoneFolders /\ c[2] \in 0..LastFolder
    BY DEF DiscoveryTypeOK
  <1>3. DiscoveryTypeOK' /\ FoldersNest' /\ RootsCover'
    BY <1>1, <1>2, SameFolders DEF DiscoveryTypeOK, FoldersNest, RootsCover
  <1>4. CallsAreReached' /\ FoundIsReached'
    BY <1>1, SameFolders DEF CallsAreReached, FoundIsReached
  <1>5. ASSUME NEW f \in PhoneFiles \ moved, NEW r \in roots, r \in Above(place[f]),
               Near(place[f], r), unread' \cap Path(place[f], r) = {}, Comes(place[f], r)
        PROVE  Comes(place[f], r)'
    <2> DEFINE d == place[f]
    <2>0. d \in PhoneFolders
      BY DEF DiscoveryTypeOK
    <2>1. PICK e \in toList : e[1] \in Path(d, r) /\ e[2] = DepthOf(e[1], r)
      BY <1>5 DEF Comes
    <2>2. ASSUME e = c PROVE FALSE
      <3>1. ~InReach(c)
        BY <1>1, <1>5, <2>1, <2>2
      <3>2. DepthOf(e[1], r) <= DepthOf(d, r) /\ DepthOf(d, r) \in Nat /\ DepthOf(d, r) <= MaxDepth
        BY <1>5, <2>0, <2>1, PathBefore, PathIs DEF Near
      <3>3. c[2] \in Nat /\ MaxDepth \in Nat /\ c[2] <= DepthOf(d, r)
        BY <1>2, <2>1, <2>2, <3>2, DiscoveryAssumption
      <3>4. c[2] <= MaxDepth
        BY <3>2, <3>3
      <3> QED BY <3>1, <3>4 DEF InReach
    <2>3. e \in toList'
      BY <1>1, <2>2
    <2> QED BY <1>1, <2>1, <2>3, SameFolders DEF Comes
  <1>6. \A f \in PhoneFiles, r \in roots :
          unread' \cap Path(place[f], r) = {} => unread \cap Path(place[f], r) = {}
    BY <1>1
  <1>7. ReachedIsFound'
    BY <1>1, <1>5, <1>6, SameFolders DEF ReachedIsFound
  <1> QED BY <1>1, <1>3, <1>4, <1>7

\* A photo that moves is no longer looked for where it was.
LEMMA MovingHolds ==
  ASSUME ScanInv, NEW f \in PhoneFiles, NEW d \in PhoneFolders, MoveFile(f, d) PROVE ScanInv'
  <1> USE DEF ScanInv
  <1>1. /\ UNCHANGED <<tree, parent, fold, respelt, asked, roots, dPc, toList, found, unread>>
        /\ place' = [place EXCEPT ![f] = d] /\ moved' = moved \cup {f}
    BY DEF MoveFile, tree
  <1>2. DiscoveryTypeOK' /\ FoldersNest' /\ RootsCover'
    BY <1>1, SameFolders DEF DiscoveryTypeOK, FoldersNest, RootsCover
  <1>3. \A g \in PhoneFiles \ moved' : g \in PhoneFiles \ moved /\ place'[g] = place[g]
    BY <1>1 DEF DiscoveryTypeOK
  <1>4. CallsAreReached'
    BY <1>1, SameFolders DEF CallsAreReached
  <1>5. FoundIsReached'
    <2> SUFFICES ASSUME NEW h \in found
                 PROVE  /\ h[2] \notin moved' => place'[h[2]] = h[1]
                        /\ \E r \in roots : r \in Above(h[1])
      BY <1>1, SameFolders DEF FoundIsReached
    <2>1. h[2] \in PhoneFiles
      BY DEF DiscoveryTypeOK
    <2> QED BY <1>1, <1>3, <2>1 DEF FoundIsReached
  <1>6. \A x, r : Comes(x, r)' <=> Comes(x, r)
    BY <1>1, SameFolders DEF Comes
  <1>7. ReachedIsFound'
    BY <1>1, <1>3, <1>6, SameFolders DEF ReachedIsFound
  <1> QED BY <1>1, <1>2, <1>4, <1>5, <1>7

\* Every step keeps the invariant.
LEMMA ScanInvStep == ASSUME ScanInv, [DiscoveryNext]_scanVars PROVE ScanInv'
  <1> USE DEF ScanInv
  <1>1. CASE UNCHANGED scanVars
    <2>1. UNCHANGED <<tree, parent, fold, respelt, place, asked, roots, dPc, toList, found,
                      unread, moved>>
      BY <1>1 DEF scanVars, tree
    <2>2. DiscoveryTypeOK' /\ FoldersNest' /\ RootsCover' /\ CallsAreReached' /\ FoundIsReached'
      BY <2>1, SameFolders DEF DiscoveryTypeOK, FoldersNest, RootsCover, CallsAreReached,
                               FoundIsReached
    <2>3. ReachedIsFound'
      BY <2>1, SameFolders DEF ReachedIsFound, Comes
    <2> QED BY <2>1, <2>2, <2>3
  <1>2. CASE ScanDone
    <2>1. /\ UNCHANGED <<tree, parent, fold, respelt, place, asked, roots, toList, found, unread,
                         moved>>
          /\ dPc = "scan" /\ toList = {} /\ dPc' = "found"
      BY <1>2 DEF ScanDone, tree
    <2>2. DiscoveryTypeOK' /\ FoldersNest' /\ RootsCover' /\ CallsAreReached' /\ FoundIsReached'
      BY <2>1, SameFolders DEF DiscoveryTypeOK, FoldersNest, RootsCover, CallsAreReached,
                               FoundIsReached
    <2>3. ReachedIsFound'
      BY <2>1, SameFolders DEF ReachedIsFound, Comes
    <2> QED BY <2>1, <2>2, <2>3
  <1>3. CASE ScanEnds
    <2>1. /\ UNCHANGED <<parent, fold, respelt, place, toList>> /\ toList = {} /\ dPc' = "idle"
          /\ asked' = {} /\ roots' = {} /\ found' = {} /\ unread' = {} /\ moved' = {}
      BY <1>3 DEF ScanEnds, tree
    <2> QED BY <2>1 DEF DiscoveryTypeOK, FoldersNest, RootsCover, CallsAreReached,
                        FoundIsReached, ReachedIsFound
  <1> QED BY <1>1, <1>2, <1>3, ScanBegins, ListingHolds, LeavingHolds, MovingHolds
          DEF DiscoveryNext

\* So the invariant holds.
LEMMA ScanInvariant == DiscoverySpec => []ScanInv
  <1>1. DiscoveryInit => ScanInv
    BY ScanStarts
  <1>2. ScanInv /\ [DiscoveryNext]_scanVars => ScanInv'
    BY ScanInvStep
  <1> QED BY <1>1, <1>2, PTL DEF DiscoverySpec

\* With no call to come, what can be reached was found.
LEMMA FoundIsAll == ScanInv => ScanFindsAll
  <1> SUFFICES ASSUME ScanInv, dPc = "found", NEW f \in PhoneFiles \ moved
               PROVE  LET d    == place[f]
                          over == asked \cap Above(d)
                      IN
                      /\ \A h \in found : h[2] = f => h[1] = d /\ over # {}
                      /\ /\ over # {}
                         /\ \A r \in over : /\ Cardinality(Path(d, r) \ {r}) <= MaxDepth
                                            /\ unread \cap Path(d, r) = {}
                         /\ \A r \in asked, b \in Above(d) : fold[r] = fold[b] => r = b
                         => <<d, f>> \in found
    BY DEF ScanFindsAll
  <1> USE DEF ScanInv
  <1> DEFINE d == place[f]
             over == asked \cap Above(d)
  <1>1. d \in PhoneFolders /\ toList = {} /\ asked \subseteq PhoneFolders /\ roots \subseteq asked
    BY DEF DiscoveryTypeOK
  <1>2. ASSUME NEW h \in found, h[2] = f PROVE h[1] = d /\ over # {}
    BY <1>1, <1>2 DEF FoundIsReached
  <1>3. ASSUME NEW a \in over,
               \A r \in over : /\ Cardinality(Path(d, r) \ {r}) <= MaxDepth
                               /\ unread \cap Path(d, r) = {},
               \A r \in asked, b \in Above(d) : fold[r] = fold[b] => r = b
        PROVE  <<d, f>> \in found
    <2>1. PICK r \in roots : Covers(r, a)
      BY DEF RootsCover
    <2>2. PICK b \in Above(a) : fold[b] = fold[r]
      BY <2>1 DEF Covers
    <2>3. Above(a) \subseteq Above(d)
      BY <1>1, AboveTransitive
    <2>4. r \in over
      BY <1>1, <1>3, <2>2, <2>3
    <2>5. Near(d, r) /\ unread \cap Path(d, r) = {}
      BY <1>3, <2>4 DEF Near, DepthOf
    <2> QED BY <1>1, <2>4, <2>5 DEF ReachedIsFound, Comes
  <1> QED BY <1>2, <1>3

-----------------------------------------------------------------------------
\* The variables of a scan keep to their types.
THEOREM DiscoveryTypeCorrect == DiscoverySpec => []DiscoveryTypeOK
  <1>1. ScanInv => DiscoveryTypeOK
    BY DEF ScanInv
  <1> QED BY <1>1, ScanInvariant, PTL

\* A scan finds every photo that stayed, within reach of all folders asked for
\* that are above it and with no failure on its way, unless letter case merges
\* folders; for any folders, photos, depths, spellings and failures.
THEOREM ScansFindAll == DiscoverySpec => []ScanFindsAll
  BY ScanInvariant, FoundIsAll, PTL
=============================================================================
