------------------------------- MODULE Discovery -------------------------------
(***************************************************************************)
(* Listing the photos of a phone: list_remote_files and its helpers in     *)
(* storage/webdav_downloader.py, as the WebDAV job calls them.  A folder   *)
(* is one PROPFIND; one that fails is taken for an empty folder.  The job  *)
(* lists its roots in threads of a pool, and puts what they find together  *)
(* by href.  The phone goes on moving files.                               *)
(*                                                                         *)
(* Folders are numbered so that a folder comes after the one it is in; 0   *)
(* is the root of the server.                                              *)
(***************************************************************************)
EXTENDS Integers, FiniteSets

CONSTANTS
  LastFolder,  \* folders: 1..LastFolder
  PhoneFiles,
  MaxDepth     \* max_depth

ASSUME DiscoveryAssumption == LastFolder \in Nat /\ MaxDepth \in Nat

PhoneFolders == 1..LastFolder

VARIABLES
  parent,     \* parent[d]: the folder d is in
  place,      \* place[f]: the folder f is in
  fold,       \* fold[d]: the first folder whose path is that of d but for case
  respelt,    \* folders that the server's hrefs spell otherwise than the caller
  asked,      \* the folders to search
  roots,      \* those of them that are searched
  dPc,        \* "idle", "scan" or "found"
  toList,     \* <<d, depth>>: calls of _collect_files to come
  found,      \* <<d, f>>: the hrefs found (by_href)
  unread,     \* history: folders whose PROPFIND failed
  moved       \* history: files moved since the scan began

tree == <<parent, fold, respelt>>
scanVars == <<tree, place, asked, roots, dPc, toList, found, unread, moved>>

\* The folders d is in, itself included: those in every set that holds d and,
\* with a folder, the one it is in.
Above(d) ==
  {b \in PhoneFolders :
     \A S \in SUBSET PhoneFolders :
       d \in S /\ (\A x \in S : parent[x] # 0 => parent[x] \in S) => b \in S}

\* Two paths differ only in case when they do so folder by folder.
SamePath(d, e) ==
  /\ fold[d] = fold[e]
  /\ \/ parent[d] = 0 /\ parent[e] = 0
     \/ parent[d] # 0 /\ parent[e] # 0 /\ fold[parent[d]] = fold[parent[e]]

DiscoveryInit ==
  /\ parent \in [PhoneFolders -> 0 .. LastFolder - 1] /\ \A d \in PhoneFolders : parent[d] < d
  /\ fold \in [PhoneFolders -> PhoneFolders]
  /\ \A d \in PhoneFolders : fold[d] <= d /\ SamePath(d, fold[d])
  /\ respelt \in SUBSET PhoneFolders
  /\ place \in [PhoneFiles -> PhoneFolders]
  /\ asked = {} /\ roots = {} /\ dPc = "idle"
  /\ toList = {} /\ found = {} /\ unread = {} /\ moved = {}

\* The path of r is that of d or of a folder d is in, but for case.
Covers(r, d) == \E b \in Above(d) : fold[b] = fold[r]

\* non_overlapping_remote_paths: R covers D, and no root another.  The code takes
\* the paths from the topmost on; which of two that differ in case it meets
\* first is up to the order of a set.
CoverAll(R, D) ==
  /\ \A d \in D : \E r \in R : Covers(r, d)
  /\ \A r, s \in R : Covers(r, s) => r = s

StartScan(D, R) ==
  /\ dPc = "idle" /\ CoverAll(R, D)
  /\ dPc' = "scan"
  /\ asked' = D /\ roots' = R
  /\ toList' = R \X {0}
  /\ found' = {} /\ unread' = {} /\ moved' = {}
  /\ UNCHANGED <<tree, place>>

\* Mutated form: the deepest folder is left out.
Shallow(c) == c[2] < MaxDepth

InReach(c) == c[2] <= MaxDepth

\* The responses that are folders.  A folder's own is left out when its href is
\* the path asked for, which it is where that path came from the server.
Within(c) ==
  {d \in PhoneFolders : parent[d] = c[1]} \cup (IF c[2] = 0 THEN respelt \cap {c[1]} ELSE {})

\* _collect_files: files are taken and folders searched, up to a depth.
ListFolder(c) ==
  /\ dPc = "scan" /\ c \in toList
  /\ IF InReach(c)
       THEN /\ toList' = (toList \ {c}) \cup (Within(c) \X {c[2] + 1})
            /\ found' = found \cup {<<c[1], f>> : f \in {g \in PhoneFiles : place[g] = c[1]}}
       ELSE toList' = toList \ {c} /\ UNCHANGED found
  /\ UNCHANGED <<tree, place, asked, roots, dPc, unread, moved>>

\* _propfind: another status, a timeout or bad XML.
PropfindFails(c) ==
  /\ dPc = "scan" /\ c \in toList /\ InReach(c)
  /\ toList' = toList \ {c}
  /\ unread' = unread \cup {c[1]}
  /\ UNCHANGED <<tree, place, asked, roots, dPc, found, moved>>

ScanDone ==
  /\ dPc = "scan" /\ toList = {}
  /\ dPc' = "found"
  /\ UNCHANGED <<tree, place, asked, roots, toList, found, unread, moved>>

ScanEnds ==
  /\ dPc = "found"
  /\ dPc' = "idle"
  /\ asked' = {} /\ roots' = {} /\ found' = {} /\ unread' = {} /\ moved' = {}
  /\ UNCHANGED <<tree, place, toList>>

MoveFile(f, d) ==
  /\ dPc = "scan" /\ place[f] # d
  /\ place' = [place EXCEPT ![f] = d]
  /\ moved' = moved \cup {f}
  /\ UNCHANGED <<tree, asked, roots, dPc, toList, found, unread>>

DiscoveryNext ==
  \/ \E D \in (SUBSET PhoneFolders) \ {{}} : \E R \in SUBSET D : StartScan(D, R)
  \/ \E c \in toList : ListFolder(c) \/ PropfindFails(c)
  \/ ScanDone \/ ScanEnds
  \/ \E f \in PhoneFiles, d \in PhoneFolders : MoveFile(f, d)

DiscoverySpec == DiscoveryInit /\ [][DiscoveryNext]_scanVars

-----------------------------------------------------------------------------
DiscoveryTypeOK ==
  /\ parent \in [PhoneFolders -> 0..LastFolder] /\ fold \in [PhoneFolders -> PhoneFolders]
  /\ respelt \subseteq PhoneFolders /\ place \in [PhoneFiles -> PhoneFolders]
  /\ asked \subseteq PhoneFolders /\ roots \subseteq asked /\ dPc \in {"idle", "scan", "found"}
  /\ toList \subseteq PhoneFolders \X (0..LastFolder)
  /\ found \subseteq PhoneFolders \X PhoneFiles
  /\ unread \subseteq PhoneFolders /\ moved \subseteq PhoneFiles

\* The folders between folder d and r above it, both included: d is as deep
\* below r as there are others than r.
Path(d, r) == {b \in Above(d) : r \in Above(b)}

\* What a scan finds of a photo that stayed where it was (webdav_downloader.py
\* 44-64 and 103-165, webdav_download.py 178-201), whatever else moved and in
\* whatever order folders were listed.  It is found if a folder asked for is
\* above it, it is within max_depth of every such folder, no PROPFIND of a
\* folder on the way failed, and no folder asked for differs only in case from
\* one above it; and it is found nowhere else.  So overlapping requests and the
\* failure of another folder lose nothing; but the depth counts from the topmost
\* folder asked for: what is too deep below it is left out even when a nested
\* folder asked for is near, and of two folders that differ in case one is not
\* searched, against "covers every requested path" (45).
ScanFindsAll ==
  dPc = "found" =>
    \A f \in PhoneFiles \ moved :
      LET d    == place[f]
          over == asked \cap Above(d)
      IN
      /\ \A h \in found : h[2] = f => h[1] = d /\ over # {}
      /\ /\ over # {}
         /\ \A r \in over : /\ Cardinality(Path(d, r) \ {r}) <= MaxDepth
                            /\ unread \cap Path(d, r) = {}
         /\ \A r \in asked, b \in Above(d) : fold[r] = fold[b] => r = b
         => <<d, f>> \in found
=============================================================================
