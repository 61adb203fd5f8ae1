------------------------------ MODULE Thumbnails ------------------------------
(***************************************************************************)
(* The thumbnail cache of serve_thumbnail, for one photo and size.  A      *)
(* request looks for the file its key names, makes it when it is not       *)
(* there, and sends it.  Requests overlap, the photo is edited, and the    *)
(* process is killed.  The key holds the mtime in whole seconds; an        *)
(* edition may have any mtime: a copy of the organizer has that of its     *)
(* date, and a restored or moved file keeps the one it had.                *)
(***************************************************************************)
EXTENDS Integers

CONSTANTS
  Viewers,    \* browsers, each with one request at a time
  LastMtime,  \* bound: mtimes
  MaxEdits    \* bound: editions of the photo

ASSUME ThumbnailsAssumption == LastMtime \in Nat /\ MaxEdits \in Nat \ {0}

Seconds == 0..LastMtime
NoFile  == -1
Part    == -2   \* a file that is not complete

VARIABLES
  edition,    \* edition of the photo, and its mtime
  editedAt,
  thumbs,     \* thumbs[k]: the edition the cache file of key k shows
  vPc,        \* vPc[v]: where the request of v is
  key,        \* key[v]: the second in its key
  loaded,     \* loaded[v]: the edition it has opened, then what it is sent
  since,      \* history: since[v], the edition when the request began
  born,       \* history: born[k], the last edition with mtime k
  hasty,      \* history: mtimes that two editions have had
  torn        \* history: keys written twice, or met or left incomplete

photo     == <<edition, editedAt, born, hasty>>
thumbVars == <<photo, thumbs, vPc, key, loaded, since, torn>>

ThumbInit ==
  /\ edition = 1 /\ editedAt = 0
  /\ born = [k \in Seconds |-> IF k = 0 THEN 1 ELSE NoFile]
  /\ thumbs = [k \in Seconds |-> NoFile]
  /\ vPc = [v \in Viewers |-> "idle"]
  /\ key = [v \in Viewers |-> 0]
  /\ loaded = [v \in Viewers |-> NoFile]
  /\ since = [v \in Viewers |-> NoFile]
  /\ hasty = {} /\ torn = {}

At(v, from, to) == vPc[v] = from /\ vPc' = [vPc EXCEPT ![v] = to]

\* Mutated form: the key is the path and the size.
PathOnly == 0

KeyTime == editedAt

AskThumb(v) ==
  /\ At(v, "idle", "look")
  /\ key' = [key EXCEPT ![v] = KeyTime]
  /\ since' = [since EXCEPT ![v] = edition]
  /\ UNCHANGED <<photo, thumbs, loaded, torn>>

\* A file that is there is sent as it is.
ThumbExists(v) ==
  /\ At(v, "look", "send")
  /\ thumbs[key[v]] # NoFile
  /\ torn' = IF thumbs[key[v]] = Part THEN torn \cup {key[v]} ELSE torn
  /\ UNCHANGED <<photo, thumbs, key, loaded, since>>

OpenPhoto(v) ==
  /\ thumbs[key[v]] = NoFile
  /\ At(v, "look", "open")
  /\ loaded' = [loaded EXCEPT ![v] = edition]
  /\ UNCHANGED <<photo, thumbs, key, since, torn>>

\* Image.save opens the file of the cache itself, and so truncates it.
BeginSave(v) ==
  /\ At(v, "open", "save")
  /\ thumbs' = [thumbs EXCEPT ![key[v]] = Part]
  /\ torn' = IF thumbs[key[v]] # NoFile THEN torn \cup {key[v]} ELSE torn
  /\ UNCHANGED <<photo, key, loaded, since>>

EndSave(v) ==
  /\ At(v, "save", "send")
  /\ thumbs' = [thumbs EXCEPT ![key[v]] = loaded[v]]
  /\ UNCHANGED <<photo, key, loaded, since, torn>>

\* The original is sent when the photo cannot be read, or the file not written;
\* what is left of the file is up to Pillow.
ThumbFails(v) ==
  /\ \/ At(v, "open", "idle") /\ UNCHANGED <<thumbs, torn>>
     \/ /\ At(v, "save", "idle")
        /\ \E left \in {NoFile, Part} : thumbs' = [thumbs EXCEPT ![key[v]] = left]
        /\ torn' = torn \cup {key[v]}
  /\ loaded' = [loaded EXCEPT ![v] = NoFile]
  /\ since' = [since EXCEPT ![v] = NoFile]
  /\ UNCHANGED <<photo, key>>

SendThumb(v) ==
  /\ At(v, "send", "sent")
  /\ loaded' = [loaded EXCEPT ![v] = thumbs[key[v]]]
  /\ UNCHANGED <<photo, thumbs, key, since, torn>>

ThumbDone(v) ==
  /\ At(v, "sent", "idle")
  /\ loaded' = [loaded EXCEPT ![v] = NoFile]
  /\ since' = [since EXCEPT ![v] = NoFile]
  /\ UNCHANGED <<photo, thumbs, key, torn>>

\* Another edition comes to be at the path of the photo.
EditPhoto(m) ==
  /\ edition < MaxEdits
  /\ edition' = edition + 1
  /\ editedAt' = m
  /\ born' = [born EXCEPT ![m] = edition + 1]
  /\ hasty' = IF born[m] # NoFile THEN hasty \cup {m} ELSE hasty
  /\ UNCHANGED <<thumbs, vPc, key, loaded, since, torn>>

KillServer ==
  /\ vPc' = [v \in Viewers |-> "idle"]
  /\ loaded' = [v \in Viewers |-> NoFile]
  /\ since' = [v \in Viewers |-> NoFile]
  /\ torn' = torn \cup {key[v] : v \in {w \in Viewers : vPc[w] = "save"}}
  /\ UNCHANGED <<photo, thumbs, key>>

ThumbNext ==
  \/ \E v \in Viewers :
       \/ AskThumb(v) \/ ThumbExists(v) \/ OpenPhoto(v)
       \/ BeginSave(v) \/ EndSave(v) \/ ThumbFails(v)
       \/ SendThumb(v) \/ ThumbDone(v)
  \/ (\E m \in Seconds : EditPhoto(m)) \/ KillServer

ThumbSpec == ThumbInit /\ [][ThumbNext]_thumbVars

-----------------------------------------------------------------------------
ThumbTypeOK ==
  /\ edition \in 1..MaxEdits /\ editedAt \in Seconds /\ born \in [Seconds -> {NoFile} \cup 1..MaxEdits]
  /\ thumbs \in [Seconds -> {NoFile, Part} \cup 1..MaxEdits]
  /\ vPc \in [Viewers -> {"idle", "look", "open", "save", "send", "sent"}]
  /\ key \in [Viewers -> Seconds]
  /\ loaded \in [Viewers -> {NoFile, Part} \cup 1..MaxEdits]
  /\ since \in [Viewers -> {NoFile} \cup 1..MaxEdits]
  /\ hasty \subseteq Seconds /\ torn \subseteq Seconds

\* A thumbnail that is sent is complete and not older than the photo was when
\* it was asked for (serve_thumbnail.py 44-66), whatever other requests, edits
\* and restarts come between, but for two kinds of keys.  A cache file that two
\* requests write at once, or that a kill or an error leaves behind, is taken
\* for a thumbnail (torn).  And an edition that has the mtime of an earlier one
\* has its key, and is shown as the earlier one (hasty): an edit in the same
\* second, or another photo that the organizer copies to the path with the
\* mtime of its date (organize.py 74-75).  "So edits invalidate" is true of
\* edits that change the second of the mtime only.
ThumbsAreCurrent ==
  \A v \in Viewers :
    vPc[v] = "sent" /\ key[v] \notin torn \cup hasty => loaded[v] >= since[v]
=============================================================================
