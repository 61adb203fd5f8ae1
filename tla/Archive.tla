-------------------------------- MODULE Archive --------------------------------
(***************************************************************************)
(* ZIP downloads: download_days_zip and download_zip.  The files that      *)
(* exist, in a folder the settings allow, are given names first, one after *)
(* another, and written afterwards.  Meanwhile files go to the trash and   *)
(* come back, and folders are added and removed.  A download of chosen     *)
(* photos is the one of a single day here.                                 *)
(***************************************************************************)
EXTENDS Integers, FiniteSets, Sequences

CONSTANTS
  ZipFiles,  \* photos with a row, of one file name each
  Stems,     \* file names without number; the extension is the same for all
  ZipDays,   \* days they were taken on
  MaxZips,   \* bound: downloads
  MaxMoves   \* bound: files that go, changes of the folders

ASSUME ArchiveAssumption == IsFiniteSet(ZipFiles) /\ MaxZips \in Nat /\ MaxMoves \in Nat

\* IMG.jpg is <<"IMG">>, IMG_2.jpg is <<"IMG", 2>>, IMG_2_3.jpg <<"IMG", 2, 3>>.
Plain     == {<<s>> : s \in Stems}
FileNames == Plain \cup {<<s, 2>> : s \in Stems}
ZipNames  == FileNames \cup {Append(n, k) : n \in FileNames, k \in 2..Cardinality(ZipFiles)}

VARIABLES
  zName,     \* zName[f], zDay[f]: the name and the effective day of a file
  zDay,
  onDisk,    \* files that are there
  inside,    \* files in a folder of the settings (_allowed_bases)
  zPc,       \* "idle", "naming", "writing", "sent" or "failed"
  zDays,     \* requested_days
  toName,    \* files to look at
  seenNames, \* seen_names: how often each name was met, per day
  entries,   \* archive_entries
  written,   \* entries in the archive
  lapsed,    \* history: files away or outside at a moment since it began
  zips,
  moves

zipFixed == <<zName, zDay>>
zipWorld == <<onDisk, inside, lapsed, moves>>
zipLocal == <<zPc, zDays, toName, seenNames, entries, written>>
zipVars  == <<zipFixed, zipWorld, zipLocal, zips>>

ArchiveInit ==
  /\ zName \in [ZipFiles -> FileNames]
  /\ zDay \in [ZipFiles -> ZipDays]
  /\ onDisk = ZipFiles /\ inside = ZipFiles /\ lapsed = {}
  /\ zPc = "idle" /\ zDays = {} /\ toName = {} /\ entries = {} /\ written = {}
  /\ zips = 0 /\ moves = 0
  /\ seenNames = [d \in ZipDays |-> [n \in FileNames |-> 0]]

\* _is_allowed and is_file.
IsFile(f) == f \in inside /\ f \in onDisk

\* The rows of the days asked for.
StartZip(days) ==
  /\ zPc = "idle" /\ zips < MaxZips
  /\ zips' = zips + 1
  /\ zPc' = "naming" /\ zDays' = days
  /\ lapsed' = {f \in ZipFiles : ~IsFile(f)}
  /\ toName' = {f \in ZipFiles : zDay[f] \in days}
  /\ seenNames' = [d \in ZipDays |-> [n \in FileNames |-> 0]]
  /\ entries' = {} /\ written' = {}
  /\ UNCHANGED <<zipFixed, onDisk, inside, moves>>

\* Mutated form: only the first two files of a name are told apart.
SecondName(name, met) == IF met = 0 THEN name ELSE Append(name, 2)

\* A name met before gets the number of times it was met; the new name itself
\* is not noted as met.
NameInZip(name, met) == IF met = 0 THEN name ELSE Append(name, met + 1)

NameFile(f) ==
  LET day == zDay[f]
      met == seenNames[day][zName[f]]
  IN
  /\ zPc = "naming" /\ f \in toName
  /\ toName' = toName \ {f}
  /\ IF IsFile(f)
       THEN /\ seenNames' = [seenNames EXCEPT ![day][zName[f]] = met + 1]
            /\ entries' = entries \cup {<<day, NameInZip(zName[f], met), f>>}
       ELSE UNCHANGED <<seenNames, entries>>
  /\ UNCHANGED <<zipFixed, zipWorld, zPc, zDays, written, zips>>

\* Nothing to send is an error.
NamesDone ==
  /\ zPc = "naming" /\ toName = {}
  /\ zPc' = IF entries = {} THEN "failed" ELSE "writing"
  /\ UNCHANGED <<zipFixed, zipWorld, zDays, toName, seenNames, entries, written, zips>>

\* A file that has gone since it was named ends the download.
WriteEntry(e) ==
  /\ zPc = "writing" /\ e \in entries \ written
  /\ IF e[3] \in onDisk
       THEN written' = written \cup {e} /\ UNCHANGED zPc
       ELSE zPc' = "failed" /\ UNCHANGED written
  /\ UNCHANGED <<zipFixed, zipWorld, zDays, toName, seenNames, entries, zips>>

Send ==
  /\ zPc = "writing" /\ written = entries
  /\ zPc' = "sent"
  /\ UNCHANGED <<zipFixed, zipWorld, zDays, toName, seenNames, entries, written, zips>>

ZipEnds ==
  /\ zPc \in {"sent", "failed"}
  /\ zPc' = "idle" /\ zDays' = {} /\ toName' = {} /\ entries' = {} /\ written' = {}
  /\ seenNames' = [d \in ZipDays |-> [n \in FileNames |-> 0]]
  /\ UNCHANGED <<zipFixed, zipWorld, zips>>

Moves ==
  /\ moves < MaxMoves
  /\ moves' = moves + 1
  /\ UNCHANGED <<zipFixed, zipLocal, zips>>

FileGoes(f) ==
  /\ Moves /\ f \in onDisk
  /\ onDisk' = onDisk \ {f}
  /\ lapsed' = lapsed \cup {f}
  /\ UNCHANGED inside

FileReturns(f) ==
  /\ f \notin onDisk
  /\ onDisk' = onDisk \cup {f}
  /\ UNCHANGED <<zipFixed, zipLocal, zips, inside, lapsed, moves>>

\* Other folders are configured: the files I are in one of them.
FoldersChange(I) ==
  /\ Moves /\ inside # I
  /\ inside' = I
  /\ lapsed' = lapsed \cup (ZipFiles \ I)
  /\ UNCHANGED onDisk

ArchiveNext ==
  \/ \E days \in (SUBSET ZipDays) \ {{}} : StartZip(days)
  \/ NamesDone \/ Send \/ ZipEnds
  \/ \E f \in ZipFiles : NameFile(f) \/ FileGoes(f) \/ FileReturns(f)
  \/ \E I \in SUBSET ZipFiles : FoldersChange(I)
  \/ \E e \in entries : WriteEntry(e)

ArchiveSpec == ArchiveInit /\ [][ArchiveNext]_zipVars

-----------------------------------------------------------------------------
ArchiveTypeOK ==
  /\ zName \in [ZipFiles -> FileNames] /\ zDay \in [ZipFiles -> ZipDays]
  /\ onDisk \subseteq ZipFiles /\ inside \subseteq ZipFiles /\ lapsed \subseteq ZipFiles
  /\ toName \subseteq ZipFiles /\ zDays \subseteq ZipDays
  /\ zPc \in {"idle", "naming", "writing", "sent", "failed"}
  /\ seenNames \in [ZipDays -> [FileNames -> 0..Cardinality(ZipFiles)]]
  /\ entries \subseteq ZipDays \X ZipNames \X ZipFiles /\ written \subseteq entries
  /\ zips \in 0..MaxZips /\ moves \in 0..MaxMoves

\* The file of entry e has its own name, which ends in a number, in the archive.
NumberedItself(e) == e[2] = zName[e[3]] /\ e[2] \notin Plain

\* A download that is sent holds every photo of the days asked for that was on
\* disk, in a folder of the settings, from the first step to the last; in
\* whatever order the rows came, files went and returned, and folders were
\* added and removed (download_days_zip.py 76-100, download_zip.py 30-53).  The
\* others are left out without a word, or end the download with an error, as
\* the code has it.  No two entries of a day share a name, but for one case:
\* a photo that is renamed may get the very name that another one has of its
\* own, for the new names are not looked up (81-86).
ArchiveKeepsAll ==
  zPc = "sent" =>
    /\ \A f \in ZipFiles \ lapsed : zDay[f] \in zDays => \E e \in written : e[3] = f
    /\ \A e, g \in written :
         e # g /\ <<e[1], e[2]>> = <<g[1], g[2]>> =>
           \/ NumberedItself(e) /\ g[2] # zName[g[3]]
           \/ NumberedItself(g) /\ e[2] # zName[e[3]]
=============================================================================
