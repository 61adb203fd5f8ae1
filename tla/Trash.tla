-------------------------------- MODULE Trash --------------------------------
(***************************************************************************)
(* The trash: the delete branch of endpoints/bulk_action.py and the        *)
(* endpoints get_trash (which repairs what it lists), restore_from_trash,  *)
(* permanently_delete, empty_trash and purge_old_trash, with the trash     *)
(* functions of repository.py.  A request is a thread: every look at the   *)
(* disk, every change of the disk and every transaction is a step, and any *)
(* of them can be the last one when the database or the process fails.     *)
(*                                                                         *)
(* A file is an inode: it keeps its number when it is renamed.  Its        *)
(* content is a photo; a copy is a new file with the same photo.           *)
(***************************************************************************)
EXTENDS Integers, Sequences, Functions

CONSTANTS
  Lib,       \* paths in the library
  Slot,      \* Slot[p]: the trash directory of p with the name of p
  Clients,   \* requests served at the same time
  MaxFiles,  \* bound: files ever made
  MaxIds,    \* bound: trash entries ever made
  MaxFaults  \* bound: failures of the database, and crashes

ASSUME TrashAssumption ==
  /\ DOMAIN Slot = Lib
  /\ {MaxFiles, MaxIds} \subseteq Nat \ {0} /\ MaxFaults \in Nat

\* A path: an area, the place in it, and what is appended to the name.
Home(p)       == <<"library", p, "", 0>>
Alongside(p)  == <<"library", p, "restored", 0>>
InBin(p)      == <<"bin", Slot[p], "", 0>>
ByInode(p, n) == <<"bin", Slot[p], "inode", n>>
ById(p, i)    == <<"bin", Slot[p], "id", i>>
Legacy(p)     == <<"legacy", p, "", 0>>
Nowhere       == <<"nowhere", "", "", 0>>

VARIABLES
  fs,       \* fs[path]: the file there; its domain are the paths that exist
  photo,    \* photo[n]: what file n shows
  entries,  \* entries[i]: the original path and the trash path of a row
  ids,      \* ids given so far
  meant,    \* meant[i]: the photo that was deleted, 0 when it is lost
  faults,   \* failures so far
  pc,       \* pc[c]: where request c is
  id,       \* id[c]: the entry in hand
  src,      \* src[c]: the path it moves, copies or unlinks
  dst,      \* dst[c]: the path it moves or copies to
  todo,     \* todo[c]: the listed rows it has not come to
  crossed   \* history: slots that two requests were at work at at once

disk    == <<fs, photo>>
request == <<pc, id, src, dst, todo>>
vars    == <<disk, entries, ids, meant, faults, request, crossed>>

Exists(path) == path \in DOMAIN fs
Without(path) == Restrict(fs, DOMAIN fs \ {path})
With(path, n) ==
  [q \in DOMAIN fs \cup {path} |-> IF q = path THEN n ELSE fs[q]]
Renamed(from, to) ==
  [q \in (DOMAIN fs \ {from}) \cup {to} |-> IF q = to THEN fs[from] ELSE fs[q]]

\* An empty trash, or one row left by an older build, whose file under /.trash
\* may be gone.
Init ==
  /\ \/ fs = <<>> /\ photo = <<>> /\ entries = <<>> /\ meant = <<>>
     \/ \E p \in Lib :
          /\ entries = <<[orig |-> p, at |-> Legacy(p)]>>
          /\ \/ /\ fs = [q \in {Legacy(p)} |-> 1]
                /\ photo = <<1>> /\ meant = <<1>>
             \/ fs = <<>> /\ photo = <<>> /\ meant = <<0>>
  /\ ids = Len(entries)
  /\ faults = 0
  /\ pc = [c \in Clients |-> "idle"]
  /\ id = [c \in Clients |-> 0]
  /\ src = [c \in Clients |-> Nowhere]
  /\ dst = [c \in Clients |-> Nowhere]
  /\ todo = [c \in Clients |-> {}]
  /\ crossed = {}

\* Request c goes to a label with these locals.
Goto(c, label, i, from, to, rest) ==
  /\ pc' = [pc EXCEPT ![c] = label]
  /\ id' = [id EXCEPT ![c] = i]
  /\ src' = [src EXCEPT ![c] = from]
  /\ dst' = [dst EXCEPT ![c] = to]
  /\ todo' = [todo EXCEPT ![c] = rest]

Done(c) == Goto(c, "idle", 0, Nowhere, Nowhere, {})
Then(c, label) == Goto(c, label, id[c], src[c], dst[c], todo[c])

\* A download, or the organizer, stores a photo at a free path of the library.
Arrive(p) ==
  /\ Len(photo) < MaxFiles
  /\ ~Exists(Home(p))
  /\ photo' = Append(photo, Len(photo) + 1)
  /\ fs' = With(Home(p), Len(photo) + 1)
  /\ UNCHANGED <<entries, ids, meant, faults, request>>

-----------------------------------------------------------------------------
(***************************************************************************)
(* POST /api/photos/bulk, action "delete", for one path.                   *)
(***************************************************************************)

\* Mutated form: no look at what the trash holds.
AlwaysPlain(p) == InBin(p)

\* The name in the trash, if need be with the inode.
BinName(p) == IF Exists(InBin(p)) THEN ByInode(p, fs[Home(p)]) ELSE InBin(p)

AskDelete(c, p) ==
  /\ pc[c] = "idle"
  /\ Exists(Home(p))
  /\ ids < MaxIds
  /\ Goto(c, "bin", 0, Home(p), BinName(p), {})
  /\ UNCHANGED <<disk, entries, ids, meant, faults>>

\* shutil.move; it raises when the source is gone.
Move(c) ==
  IF Exists(src[c]) THEN fs' = Renamed(src[c], dst[c]) ELSE UNCHANGED fs

MoveToBin(c) ==
  /\ pc[c] = "bin"
  /\ Move(c)
  /\ IF Exists(src[c]) THEN Then(c, "record") ELSE Done(c)
  /\ UNCHANGED <<photo, entries, ids, meant, faults>>

\* Mutated form: the paths are passed in the wrong order.
RowSwapped(c) == [orig |-> dst[c], at |-> src[c]]

\* add_to_trash(original_path, trash_path)
Row(c) == [orig |-> src[c][2], at |-> dst[c]]

Record(c) ==
  /\ pc[c] = "record"
  /\ ids < MaxIds
  /\ ids' = ids + 1
  /\ entries' = [i \in DOMAIN entries \cup {ids'} |->
                   IF i = ids' THEN Row(c) ELSE entries[i]]
  /\ meant' = Append(meant, IF Exists(dst[c]) THEN photo[fs[dst[c]]] ELSE 0)
  /\ Done(c)
  /\ UNCHANGED <<disk, faults>>

-----------------------------------------------------------------------------
(***************************************************************************)
(* POST /api/trash/restore, for one id.                                    *)
(***************************************************************************)

AskRestore(c, i) ==
  /\ pc[c] = "idle"
  /\ i \in DOMAIN entries
  /\ Goto(c, "place", i, entries[i].at, Home(entries[i].orig), {})
  /\ UNCHANGED <<disk, entries, ids, meant, faults>>

\* Where to: next to what occupies the original path.  A row without a file is
\* only removed.
Place(c) ==
  /\ pc[c] = "place"
  /\ \/ ~Exists(src[c]) /\ Then(c, "forget")
     \/ Exists(src[c]) /\ ~Exists(dst[c]) /\ Then(c, "unbin")
     \/ /\ Exists(src[c]) /\ Exists(dst[c])
        /\ Goto(c, "unbin", id[c], src[c], Alongside(dst[c][2]), {})
  /\ UNCHANGED <<disk, entries, ids, meant, faults>>

MoveFromBin(c) ==
  /\ pc[c] = "unbin"
  /\ Move(c)
  /\ IF Exists(src[c]) THEN Then(c, "forget") ELSE Done(c)
  /\ UNCHANGED <<photo, entries, ids, meant, faults>>

-----------------------------------------------------------------------------
(***************************************************************************)
(* POST /api/trash/delete for one id, /empty and /purge-old.               *)
(***************************************************************************)

AskDeleteForEver(c, i) ==
  /\ pc[c] = "idle"
  /\ i \in DOMAIN entries
  /\ Goto(c, "unlink", i, entries[i].at, Nowhere, {})
  /\ UNCHANGED <<disk, entries, ids, meant, faults>>

\* list_trash: one transaction, used for as long as the request takes.
Listing == {<<i, entries[i].orig, entries[i].at>> : i \in DOMAIN entries}

\* Emptying takes all rows, purging those older than some days.
AskEmpty(c) ==
  /\ pc[c] = "idle"
  /\ \E old \in (SUBSET Listing) \ {{}} : Goto(c, "next", 0, Nowhere, Nowhere, old)
  /\ UNCHANGED <<disk, entries, ids, meant, faults>>

NextToDelete(c) ==
  /\ pc[c] = "next"
  /\ \/ todo[c] = {} /\ Done(c)
     \/ \E e \in todo[c] :
          Goto(c, "unlink", e[1], e[3], Nowhere, todo[c] \ {e})
  /\ UNCHANGED <<disk, entries, ids, meant, faults>>

\* Mutated form: the row goes, the file stays.
KeepFile(path) == fs

\* if p.is_file(): p.unlink()
Unlinked(path) == Without(path)

Unlink(c) ==
  /\ pc[c] = "unlink"
  /\ fs' = Unlinked(src[c])
  /\ Then(c, "forget")
  /\ UNCHANGED <<photo, entries, ids, meant, faults>>

\* remove_trash_entry: the last step of a restore and of each deletion.
Forget(c) ==
  /\ pc[c] = "forget"
  /\ entries' = Restrict(entries, DOMAIN entries \ {id[c]})
  /\ Goto(c, "next", 0, Nowhere, Nowhere, todo[c])
  /\ UNCHANGED <<disk, ids, meant, faults>>

-----------------------------------------------------------------------------
(***************************************************************************)
(* GET /api/trash                                                          *)
(***************************************************************************)

AskList(c) ==
  /\ pc[c] = "idle"
  /\ Listing # {}
  /\ Goto(c, "look", 0, Nowhere, Nowhere, Listing)
  /\ UNCHANGED <<disk, entries, ids, meant, faults>>

\* Mutated form: no look at what the trash holds.
PlainForId(p, i) == InBin(p)

\* The name of a migrated or rebuilt file, if need be with the id.
BinNameById(p, i) == IF Exists(InBin(p)) THEN ById(p, i) ELSE InBin(p)

\* A file under /.trash is to be migrated, a missing one to be rebuilt from
\* the original path, anything else is left alone.
ToMigrate(e) == Exists(e[3]) /\ e[3][1] = "legacy"
ToRebuild(e) == ~Exists(e[3]) /\ Exists(Home(e[2]))

Look(c) ==
  /\ pc[c] = "look"
  /\ \/ todo[c] = {} /\ Done(c)
     \/ \E e \in todo[c] :
          LET to == BinNameById(e[2], e[1])
              rest == todo[c] \ {e}
          IN
          \/ /\ ToMigrate(e)
             /\ Goto(c, "migrate", e[1], e[3], to, rest \cup {<<e[1], e[2], to>>})
          \/ ToRebuild(e) /\ Goto(c, "copy", e[1], Home(e[2]), to, rest)
          \/ ~ToMigrate(e) /\ ~ToRebuild(e)
             /\ Goto(c, "look", 0, Nowhere, Nowhere, rest)
  /\ UNCHANGED <<disk, entries, ids, meant, faults>>

\* An exception of a move or a copy is not caught: the request ends.
Migrate(c) ==
  /\ pc[c] = "migrate"
  /\ Move(c)
  /\ IF Exists(src[c]) THEN Then(c, "rewrite") ELSE Done(c)
  /\ UNCHANGED <<photo, entries, ids, meant, faults>>

\* shutil.copy2
Rebuild(c) ==
  /\ pc[c] = "copy"
  /\ \/ ~Exists(src[c]) /\ Done(c) /\ UNCHANGED disk
     \/ /\ Exists(src[c]) /\ Len(photo) < MaxFiles
        /\ photo' = Append(photo, photo[fs[src[c]]])
        /\ fs' = With(dst[c], Len(photo) + 1)
        /\ Then(c, "rewrite")
  /\ UNCHANGED <<entries, ids, meant, faults>>

\* update_trash_path, which may find the row gone.
Rewrite(c) ==
  /\ pc[c] = "rewrite"
  /\ entries' = [i \in DOMAIN entries |->
                   IF i = id[c] THEN [orig |-> entries[i].orig, at |-> dst[c]]
                                ELSE entries[i]]
  /\ Goto(c, "look", 0, Nowhere, Nowhere, todo[c])
  /\ UNCHANGED <<disk, ids, meant, faults>>

-----------------------------------------------------------------------------
\* A transaction is refused.  Only the listing does not catch it, deletions go
\* on with the next row.
TransactionFails(c) ==
  /\ faults < MaxFaults
  /\ faults' = faults + 1
  /\ \/ pc[c] \in {"record", "rewrite"} /\ Done(c)
     \/ pc[c] = "forget" /\ Goto(c, "next", 0, Nowhere, Nowhere, todo[c])
  /\ UNCHANGED <<disk, entries, ids, meant>>

Crash ==
  /\ faults < MaxFaults
  /\ \E c \in Clients : pc[c] # "idle"
  /\ faults' = faults + 1
  /\ pc' = [c \in Clients |-> "idle"]
  /\ id' = [c \in Clients |-> 0]
  /\ src' = [c \in Clients |-> Nowhere]
  /\ dst' = [c \in Clients |-> Nowhere]
  /\ todo' = [c \in Clients |-> {}]
  /\ UNCHANGED <<disk, entries, ids, meant>>

Ask(c) ==
  \/ \E p \in Lib : AskDelete(c, p)
  \/ \E i \in 1..MaxIds : AskRestore(c, i) \/ AskDeleteForEver(c, i)
  \/ AskEmpty(c) \/ AskList(c)

Serve(c) ==
  \/ MoveToBin(c) \/ Record(c)
  \/ Place(c) \/ MoveFromBin(c)
  \/ NextToDelete(c) \/ Unlink(c) \/ Forget(c)
  \/ Look(c) \/ Migrate(c) \/ Rebuild(c) \/ Rewrite(c)

Step ==
  \/ \E p \in Lib : Arrive(p)
  \/ \E c \in Clients : Ask(c) \/ Serve(c) \/ TransactionFails(c)
  \/ Crash

\* The slot that a path belongs to; those that a request is at work at, or will
\* come to; and those that two requests share.
Slots == {Slot[p] : p \in Lib}
SlotOf(q) == IF q[1] = "bin" THEN q[2] ELSE Slot[q[2]]
AtWork(c) ==
  {SlotOf(q) : q \in {src[c], dst[c]} \ {Nowhere}} \cup {Slot[e[2]] : e \in todo[c]}
Shared ==
  {s \in Slots : \E c, d \in Clients : c # d /\ s \in AtWork(c) \cap AtWork(d)}

SharingSeen == crossed' = crossed \cup Shared'

Next == Step /\ SharingSeen

\* A request that was received is served.
Spec == Init /\ [][Next]_vars /\ \A c \in Clients : WF_vars(Serve(c) /\ SharingSeen)

-----------------------------------------------------------------------------
(***************************************************************************)
(* Properties.                                                             *)
(***************************************************************************)

LibraryPaths == {Home(p) : p \in Lib} \cup {Alongside(p) : p \in Lib}
TrashPaths ==
  {InBin(p) : p \in Lib} \cup {Legacy(p) : p \in Lib}
    \cup {ByInode(p, n) : p \in Lib, n \in 1..MaxFiles}
    \cup {ById(p, i) : p \in Lib, i \in 1..MaxIds}

\* The variables keep to their types; no file is at two paths.
TypeOK ==
  /\ photo \in Seq(1..MaxFiles) /\ Len(photo) <= MaxFiles
  /\ DOMAIN fs \subseteq LibraryPaths \cup TrashPaths
  /\ fs \in [DOMAIN fs -> 1..Len(photo)]
  /\ \A q, r \in DOMAIN fs : fs[q] = fs[r] => q = r
  /\ DOMAIN entries \subseteq 1..ids
  /\ entries \in [DOMAIN entries -> [orig: Lib, at: TrashPaths]]
  /\ meant \in Seq(0..MaxFiles) /\ Len(meant) = ids
  /\ ids \in 0..MaxIds /\ faults \in 0..MaxFaults
  /\ pc \in [Clients -> {"idle", "bin", "record", "place", "unbin", "next", "unlink",
                         "forget", "look", "migrate", "copy", "rewrite"}]
  /\ id \in [Clients -> 0..MaxIds]
  /\ src \in [Clients -> LibraryPaths \cup TrashPaths \cup {Nowhere}]
  /\ dst \in [Clients -> LibraryPaths \cup TrashPaths \cup {Nowhere}]
  /\ todo \in [Clients -> SUBSET ((1..ids) \X Lib \X TrashPaths)]
  /\ crossed \subseteq Slots

RowSlot(i) == Slot[entries[i].orig]
StaysOnDisk(x) == \E q \in DOMAIN fs' : photo'[fs'[q]] = x

\* Where no two requests have been at work at once, and as long as nothing
\* failed, a row of the trash leads to the photo that was deleted under it, and
\* no two rows lead to one file: restoring or deleting one never takes the photo
\* of another, whatever requests do at other slots meanwhile.  (Two deletions of
\* photos of one name both look before either moves, and "Avoid name collisions
\* in trash", bulk_action.py 60, does not hold of them.)
OwnPhoto ==
  faults = 0 =>
    \A i \in DOMAIN entries :
      RowSlot(i) \notin crossed =>
        /\ Exists(entries[i].at) /\ meant[i] # 0
             => photo[fs[entries[i].at]] = meant[i]
        /\ \A j \in DOMAIN entries : entries[i].at = entries[j].at => i = j

\* Where no two requests have been at work at once, none is now, and nothing
\* failed, the list of the trash shows what is in it: every file in a trash
\* directory has a row, and every row has its file, but for those that an older
\* build lost.
AtRest == Slots \ (crossed \cup UNION {AtWork(c) : c \in Clients})

BinMatchesList ==
  faults = 0 =>
    /\ \A q \in DOMAIN fs \ LibraryPaths :
         SlotOf(q) \in AtRest => \E i \in DOMAIN entries : entries[i].at = q
    /\ \A i \in DOMAIN entries :
         RowSlot(i) \in AtRest /\ meant[i] # 0 => Exists(entries[i].at)

\* Whatever fails, where no two requests have been at work at once a photo that a
\* row of the trash leads to leaves the disk only by a request that deletes for
\* ever what is at its path: no delete, restore, migration or rebuild is made
\* over it.  (A file that a failed transaction left without a row may be.)
Listed == {entries[i].at : i \in DOMAIN entries}

TrashKeepsPhotos ==
  [][ \A q \in DOMAIN fs \cap Listed :
        SlotOf(q) \notin crossed' =>
          \/ StaysOnDisk(photo[fs[q]])
          \/ \E c \in Clients : pc[c] = "unlink" /\ src[c] = q
    ]_vars

\* "If something now occupies the original path, restore alongside it": no
\* photo of the library leaves the disk.
LibraryKeepsPhotos ==
  [][ \A q \in DOMAIN fs \cap LibraryPaths : StaysOnDisk(photo[fs[q]]) ]_vars
=============================================================================
