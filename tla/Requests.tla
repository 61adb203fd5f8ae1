------------------------------- MODULE Requests -------------------------------
(***************************************************************************)
(* The requests of browsers that are served beside the jobs, and two steps  *)
(* of the pipeline, the classification and the upload: users, lockout,      *)
(* albums, settings, gallery, downloads, thumbnails, the listing of a phone *)
(* and the copies at SSH servers.                                           *)
(*                                                                         *)
(* No two of these modules share a variable, so that a behaviour exercises *)
(* one of them, chosen at the start, and their states add up instead of    *)
(* multiplying.  Where the code lets one part act on another, as a trash   *)
(* request on the file that is thumbnailed or downloaded, the module has   *)
(* an action of its own for what the other does to it.                     *)
(***************************************************************************)
EXTENDS Users, Lockout, Albums, Settings, Upload, Feed, Archive, Discovery, Thumbnails,
        Classification

VARIABLE part   \* the part that this behaviour exercises

Parts == {"users", "lockout", "albums", "folders", "servers", "upload", "feed",
          "archive", "discovery", "thumbnails", "classification"}

\* The parts with many initial states keep to one of them when not exercised.
Only(p, same) == part = p \/ same

Some(S) == CHOOSE x \in S : TRUE

RequestsInit ==
  /\ part \in Parts
  /\ Init
  /\ Only("users", \A u \in Ids, c \in Clients : name[u] = Some(Names) /\ newName[c] = Some(Names))
  /\ LockInit /\ AlbumInit /\ SettingsInit /\ ThumbInit /\ ClassInit
  /\ UploadInit /\ Only("upload", here = {})
  /\ FeedInit /\ Only("feed", shots = {})
  /\ \A p \in shots : date[p] # NoDate => mtime[p] = LastDay  \* nobody looks at it
  /\ ArchiveInit
  /\ Only("archive", \A f \in ZipFiles : zName[f] = <<Some(Stems)>> /\ zDay[f] = Some(ZipDays))
  /\ DiscoveryInit
  /\ Only("discovery", /\ \A d \in PhoneFolders : parent[d] = 0 /\ fold[d] = d
                       /\ respelt = {} /\ \A f \in PhoneFiles : place[f] = 1)

\* The part p is exercised, and the others are not.
Focus(p) ==
  /\ part = p
  /\ UNCHANGED part
  /\ IF p = "users" THEN TRUE ELSE UNCHANGED vars
  /\ IF p = "lockout" THEN TRUE ELSE UNCHANGED lockVars
  /\ IF p = "albums" THEN TRUE ELSE UNCHANGED albumVars
  /\ IF p \in {"folders", "servers"} THEN TRUE ELSE UNCHANGED settingsVars
  /\ IF p = "upload" THEN TRUE ELSE UNCHANGED upVars
  /\ IF p = "feed" THEN TRUE ELSE UNCHANGED feedVars
  /\ IF p = "archive" THEN TRUE ELSE UNCHANGED zipVars
  /\ IF p = "discovery" THEN TRUE ELSE UNCHANGED scanVars
  /\ IF p = "thumbnails" THEN TRUE ELSE UNCHANGED thumbVars
  /\ IF p = "classification" THEN TRUE ELSE UNCHANGED classVars

RequestsNext ==
  \/ Focus("users") /\ Next
  \/ Focus("lockout") /\ LockNext
  \/ Focus("albums") /\ AlbumNext
  \/ Focus("folders") /\ FoldersNext
  \/ Focus("servers") /\ ServersNext
  \/ Focus("upload") /\ UploadNext
  \/ Focus("feed") /\ FeedNext
  \/ Focus("archive") /\ ArchiveNext
  \/ Focus("discovery") /\ DiscoveryNext
  \/ Focus("thumbnails") /\ ThumbNext
  \/ Focus("classification") /\ ClassifyNext

RequestsSpec ==
  RequestsInit /\ [][RequestsNext]_<<part, vars, lockVars, albumVars, settingsVars, upVars,
                                     feedVars, zipVars, scanVars, thumbVars, classVars>>

\* Every part keeps its variables in their sets.
RequestsOK ==
  /\ TypeOK
  /\ LockTypeOK
  /\ AlbumTypeOK
  /\ SettingsTypeOK
  /\ UploadTypeOK
  /\ FeedTypeOK
  /\ ArchiveTypeOK
  /\ DiscoveryTypeOK
  /\ ThumbTypeOK
  /\ ClassTypeOK
=============================================================================
