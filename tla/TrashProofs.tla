----------------------------- MODULE TrashProofs -----------------------------
(***************************************************************************)
(* The trash: its table, its files and its requests keep to their types    *)
(* for any number of requests.  At each slot (a name in a trash directory) *)
(* where no two requests are at work at once, its rows lead to their       *)
(* photos, the list is what the directory holds, and no photo with a row   *)
(* is written over, whatever requests do at other slots meanwhile, for any *)
(* paths, any history and any failures.                                    *)
(***************************************************************************)
EXTENDS Trash, SequenceTheorems, TLAPS

(***************************************************************************)
(* Paths.                                                                  *)
(***************************************************************************)

Names == LibraryPaths \cup TrashPaths \cup {Nowhere}

\* The parts of a path.
Area(q)   == q[1]
Within(q) == q[2]
Mark(q)   == q[3]
Number(q) == q[4]

\* Where the paths are, and what their names tell.
LEMMA PathsTell ==
  /\ \A p \in Lib : /\ Home(p) \in LibraryPaths /\ Alongside(p) \in LibraryPaths
                    /\ Within(Home(p)) = p /\ Within(Alongside(p)) = p
                    /\ InBin(p) \in TrashPaths /\ Area(InBin(p)) = "bin" /\ Mark(InBin(p)) = ""
                    /\ Legacy(p) \in TrashPaths /\ Area(Legacy(p)) = "legacy"
  /\ \A p \in Lib, n \in 1..MaxFiles :
       /\ ByInode(p, n) \in TrashPaths /\ Area(ByInode(p, n)) = "bin"
       /\ Mark(ByInode(p, n)) = "inode" /\ Number(ByInode(p, n)) = n
  /\ \A p \in Lib, i \in 1..MaxIds :
       /\ ById(p, i) \in TrashPaths /\ Area(ById(p, i)) = "bin"
       /\ Mark(ById(p, i)) = "id" /\ Number(ById(p, i)) = i
  /\ \A q \in LibraryPaths : Area(q) = "library"
  /\ \A q \in TrashPaths : Area(q) \in {"bin", "legacy"}
<1>1. \A p \in Lib : /\ Home(p) \in LibraryPaths /\ Alongside(p) \in LibraryPaths
                     /\ Within(Home(p)) = p /\ Within(Alongside(p)) = p
                     /\ InBin(p) \in TrashPaths /\ Area(InBin(p)) = "bin" /\ Mark(InBin(p)) = ""
                     /\ Legacy(p) \in TrashPaths /\ Area(Legacy(p)) = "legacy"
  <2> TAKE p \in Lib
  <2>1. Home(p) \in LibraryPaths /\ Alongside(p) \in LibraryPaths
    BY DEF LibraryPaths
  <2>2. InBin(p) \in TrashPaths /\ Legacy(p) \in TrashPaths
    BY DEF TrashPaths
  <2>3. /\ Within(Home(p)) = p /\ Within(Alongside(p)) = p
        /\ Area(InBin(p)) = "bin" /\ Mark(InBin(p)) = "" /\ Area(Legacy(p)) = "legacy"
    BY DEF Home, Alongside, InBin, Legacy, Area, Within, Mark
  <2> QED BY <2>1, <2>2, <2>3
<1>2. \A p \in Lib, n \in 1..MaxFiles :
        /\ ByInode(p, n) \in TrashPaths /\ Area(ByInode(p, n)) = "bin"
        /\ Mark(ByInode(p, n)) = "inode" /\ Number(ByInode(p, n)) = n
  BY DEF TrashPaths, ByInode, Area, Mark, Number
<1>3. \A p \in Lib, i \in 1..MaxIds :
        /\ ById(p, i) \in TrashPaths /\ Area(ById(p, i)) = "bin"
        /\ Mark(ById(p, i)) = "id" /\ Number(ById(p, i)) = i
  BY DEF TrashPaths, ById, Area, Mark, Number
<1>4. \A q \in LibraryPaths : Area(q) = "library"
  <2> TAKE q \in LibraryPaths
  <2>1. PICK p \in Lib : q = Home(p) \/ q = Alongside(p)
    BY DEF LibraryPaths
  <2>2. Area(Home(p)) = "library" /\ Area(Alongside(p)) = "library"
    BY DEF Home, Alongside, Area
  <2> QED BY <2>1, <2>2
<1>5. \A q \in TrashPaths : Area(q) \in {"bin", "legacy"}
  <2> TAKE q \in TrashPaths
  <2>1. \/ q \in {InBin(p) : p \in Lib} \/ q \in {Legacy(p) : p \in Lib}
        \/ q \in {ByInode(p, n) : p \in Lib, n \in 1..MaxFiles}
        \/ q \in {ById(p, i) : p \in Lib, i \in 1..MaxIds}
    BY DEF TrashPaths
  <2>2. CASE q \in {InBin(p) : p \in Lib} \/ q \in {Legacy(p) : p \in Lib}
    BY <2>2, <1>1
  <2>3. CASE q \in {ByInode(p, n) : p \in Lib, n \in 1..MaxFiles}
    BY <2>3, <1>2
  <2>4. CASE q \in {ById(p, i) : p \in Lib, i \in 1..MaxIds}
    BY <2>4, <1>3
  <2> QED BY <2>1, <2>2, <2>3, <2>4
<1> QED BY <1>1, <1>2, <1>3, <1>4, <1>5

-----------------------------------------------------------------------------
(***************************************************************************)
(* Types, for any number of requests.                                      *)
(***************************************************************************)

\* What the locals of a request are about at each label.
LocalsFit(label, i, from, to, n) ==
  /\ label \in {"bin", "record"} =>
       \E p \in Lib : /\ from = Home(p)
                      /\ to \in {InBin(p)} \cup {ByInode(p, m) : m \in 1..MaxFiles}
  /\ label = "place" => to \in {Home(p) : p \in Lib}
  /\ label \in {"place", "unbin"} => from \in TrashPaths /\ to \in LibraryPaths
  /\ label \in {"migrate", "copy", "rewrite"} => \E p \in Lib : to \in {InBin(p), ById(p, i)}
  /\ label \in {"place", "unbin", "unlink", "forget", "migrate", "copy", "rewrite"} => i \in 1..n

LabelsFit == \A c \in Clients : LocalsFit(pc[c], id[c], src[c], dst[c], ids)

Labels == {"idle", "bin", "record", "place", "unbin", "next", "unlink", "forget", "look",
           "migrate", "copy", "rewrite"}

\* The two halves of TypeOK: the disk and the table, and the requests.
DataTyped ==
  /\ photo \in Seq(1..MaxFiles) /\ Len(photo) <= MaxFiles
  /\ DOMAIN fs \subseteq LibraryPaths \cup TrashPaths
  /\ fs \in [DOMAIN fs -> 1..Len(photo)]
  /\ \A q, r \in DOMAIN fs : fs[q] = fs[r] => q = r
  /\ DOMAIN entries \subseteq 1..ids
  /\ entries \in [DOMAIN entries -> [orig: Lib, at: TrashPaths]]
  /\ meant \in Seq(0..MaxFiles) /\ Len(meant) = ids
  /\ ids \in 0..MaxIds /\ faults \in 0..MaxFaults

LocalsTyped ==
  /\ pc \in [Clients -> Labels] /\ id \in [Clients -> 0..MaxIds]
  /\ src \in [Clients -> Names] /\ dst \in [Clients -> Names]
  /\ todo \in [Clients -> SUBSET ((1..ids) \X Lib \X TrashPaths)]

TypeInv == DataTyped /\ LocalsTyped /\ LabelsFit

LEMMA TypeParts == TypeOK <=> DataTyped /\ LocalsTyped /\ crossed \subseteq Slots
  BY DEF TypeOK, DataTyped, LocalsTyped, Labels, Names

\* A request that goes on with locals that fit the label.
LEMMA GotoFits ==
  ASSUME TypeInv, NEW c \in Clients, NEW label \in Labels, NEW i \in 0..MaxIds,
         NEW from \in Names, NEW to \in Names,
         NEW rest \in SUBSET ((1..ids) \X Lib \X TrashPaths),
         Goto(c, label, i, from, to, rest), ids' \in {ids, ids + 1},
         LocalsFit(label, i, from, to, ids)
  PROVE  LocalsTyped' /\ LabelsFit'
<1>1. ids \in Nat /\ ids' \in Nat /\ 1..ids \subseteq 1..ids'
  BY DEF TypeInv, DataTyped
<1>2. (1..ids) \X Lib \X TrashPaths \subseteq (1..ids') \X Lib \X TrashPaths
  BY <1>1
<1>3. /\ pc' \in [Clients -> Labels] /\ id' \in [Clients -> 0..MaxIds]
      /\ src' \in [Clients -> Names] /\ dst' \in [Clients -> Names]
      /\ todo' \in [Clients -> SUBSET ((1..ids) \X Lib \X TrashPaths)]
  BY DEF TypeInv, LocalsTyped, Goto
<1>4. todo' \in [Clients -> SUBSET ((1..ids') \X Lib \X TrashPaths)]
  BY <1>2, <1>3
<1>5. ASSUME NEW d \in Clients PROVE LocalsFit(pc'[d], id'[d], src'[d], dst'[d], ids)
  <2>1. CASE d = c
    BY <2>1 DEF Goto, TypeInv, LocalsTyped
  <2>2. CASE d # c
    BY <2>2 DEF Goto, TypeInv, LocalsTyped, LabelsFit
  <2> QED BY <2>1, <2>2
<1>6. ASSUME NEW d \in Clients PROVE LocalsFit(pc'[d], id'[d], src'[d], dst'[d], ids')
  BY <1>1, <1>5 DEF LocalsFit
<1> QED BY <1>3, <1>4, <1>6 DEF LocalsTyped, LabelsFit

\* The locals of a request fit where it is.
LEMMA LocalsAre ==
  ASSUME TypeInv, NEW c \in Clients
  PROVE  /\ pc[c] \in Labels /\ id[c] \in 0..MaxIds /\ src[c] \in Names /\ dst[c] \in Names
         /\ todo[c] \in SUBSET ((1..ids) \X Lib \X TrashPaths)
         /\ LocalsFit(pc[c], id[c], src[c], dst[c], ids)
  BY DEF TypeInv, LocalsTyped, LabelsFit

\* The end of a request, and its return to a loop.
LEMMA NothingInHand ==
  ASSUME TypeInv, NEW c \in Clients, NEW label \in {"idle", "next", "look"},
         NEW rest \in SUBSET ((1..ids) \X Lib \X TrashPaths),
         Goto(c, label, 0, Nowhere, Nowhere, rest), ids' \in {ids, ids + 1}
  PROVE  LocalsTyped' /\ LabelsFit'
<1>1. LocalsFit(label, 0, Nowhere, Nowhere, ids)
  BY DEF LocalsFit
<1>2. 0 \in 0..MaxIds /\ Nowhere \in Names /\ label \in Labels
  BY TrashAssumption DEF Names, Labels
<1> QED BY <1>1, <1>2, GotoFits

LEMMA DoneFits ==
  ASSUME TypeInv, NEW c \in Clients, Done(c), ids' \in {ids, ids + 1}
  PROVE  LocalsTyped' /\ LabelsFit'
  BY NothingInHand DEF Done

\* The disk and the table after each change.
LEMMA DataKept ==
  ASSUME TypeInv, UNCHANGED <<disk, entries, ids, meant, faults>>
  PROVE  DataTyped'
  BY DEF TypeInv, DataTyped, disk

LEMMA MoveTyped ==
  ASSUME TypeInv, NEW c \in Clients, src[c] \in Names, dst[c] \in LibraryPaths \cup TrashPaths,
         Move(c), UNCHANGED <<photo, entries, ids, meant, faults>>
  PROVE  DataTyped'
<1>1. CASE ~Exists(src[c])
  BY <1>1 DEF Move, TypeInv, DataTyped
<1>2. CASE Exists(src[c])
  <2>1. fs' = Renamed(src[c], dst[c]) /\ src[c] \in DOMAIN fs
    BY <1>2 DEF Move, Exists
  <2>2. /\ DOMAIN fs' = (DOMAIN fs \ {src[c]}) \cup {dst[c]}
        /\ fs'[dst[c]] = fs[src[c]]
        /\ \A q \in DOMAIN fs : q # src[c] /\ q # dst[c] => fs'[q] = fs[q]
        /\ fs' = [q \in DOMAIN fs' |-> fs'[q]]
    BY <2>1 DEF Renamed
  <2>3. \A q \in DOMAIN fs : fs[q] \in 1..Len(photo)
    BY DEF TypeInv, DataTyped
  <2>4. fs' \in [DOMAIN fs' -> 1..Len(photo)]
    BY <2>1, <2>2, <2>3
  <2>5. \A q, r \in DOMAIN fs' : fs'[q] = fs'[r] => q = r
    BY <2>1, <2>2 DEF TypeInv, DataTyped
  <2>6. DOMAIN fs' \subseteq LibraryPaths \cup TrashPaths
    BY <2>2 DEF TypeInv, DataTyped
  <2> QED BY <2>4, <2>5, <2>6 DEF TypeInv, DataTyped
<1> QED BY <1>1, <1>2

\* A new file at a path.
LEMMA NewFileTyped ==
  ASSUME TypeInv, NEW path \in LibraryPaths \cup TrashPaths, NEW x \in 1..MaxFiles,
         Len(photo) < MaxFiles, photo' = Append(photo, x), fs' = With(path, Len(photo) + 1),
         UNCHANGED <<entries, ids, meant, faults>>
  PROVE  DataTyped'
<1>1. /\ photo \in Seq(1..MaxFiles) /\ Len(photo) \in Nat /\ MaxFiles \in Nat
  BY TrashAssumption DEF TypeInv, DataTyped
<1>2. /\ photo' \in Seq(1..MaxFiles) /\ Len(photo') = Len(photo) + 1 /\ Len(photo') <= MaxFiles
  BY <1>1
<1>3. /\ DOMAIN fs' = DOMAIN fs \cup {path}
      /\ fs'[path] = Len(photo) + 1
      /\ \A q \in DOMAIN fs : q # path => fs'[q] = fs[q]
      /\ fs' = [q \in DOMAIN fs' |-> fs'[q]]
  BY DEF With
<1>4. \A q \in DOMAIN fs : fs[q] \in 1..Len(photo)
  BY DEF TypeInv, DataTyped
<1>5. fs' \in [DOMAIN fs' -> 1..Len(photo')]
  BY <1>1, <1>2, <1>3, <1>4
<1>6. \A q, r \in DOMAIN fs' : fs'[q] = fs'[r] => q = r
  <2> SUFFICES ASSUME NEW q \in DOMAIN fs', NEW r \in DOMAIN fs', fs'[q] = fs'[r], q # r
      PROVE  FALSE
    OBVIOUS
  <2>1. CASE q # path /\ r # path
    BY <2>1, <1>3 DEF TypeInv, DataTyped
  <2>2. CASE q = path
    <3>1. r \in DOMAIN fs /\ fs'[r] \in 1..Len(photo) /\ fs'[q] = Len(photo) + 1
      BY <2>2, <1>3, <1>4
    <3> QED BY <3>1, <1>1
  <2>3. CASE r = path
    <3>1. q \in DOMAIN fs /\ fs'[q] \in 1..Len(photo) /\ fs'[r] = Len(photo) + 1
      BY <2>3, <1>3, <1>4
    <3> QED BY <3>1, <1>1
  <2> QED BY <2>1, <2>2, <2>3
<1>7. DOMAIN fs' \subseteq LibraryPaths \cup TrashPaths
  BY <1>3 DEF TypeInv, DataTyped
<1> QED BY <1>2, <1>5, <1>6, <1>7 DEF TypeInv, DataTyped

LEMMA UnlinkTyped ==
  ASSUME TypeInv, NEW path, fs' = Without(path), UNCHANGED <<photo, entries, ids, meant, faults>>
  PROVE  DataTyped'
<1>1. /\ DOMAIN fs' = DOMAIN fs \ {path}
      /\ \A q \in DOMAIN fs : q # path => fs'[q] = fs[q]
      /\ fs' = [q \in DOMAIN fs' |-> fs'[q]]
  BY DEF Without, Restrict
<1>2. fs' \in [DOMAIN fs' -> 1..Len(photo)]
  BY <1>1 DEF TypeInv, DataTyped
<1> QED BY <1>1, <1>2 DEF TypeInv, DataTyped

\* A row of the trash that is added, removed or rewritten.
LEMMA RowsTyped ==
  ASSUME TypeInv, DOMAIN entries' \subseteq 1..ids',
         entries' \in [DOMAIN entries' -> [orig: Lib, at: TrashPaths]],
         meant' \in Seq(0..MaxFiles), Len(meant') = ids', ids' \in 0..MaxIds,
         UNCHANGED <<disk, faults>>
  PROVE  DataTyped'
  BY DEF TypeInv, DataTyped, disk

-----------------------------------------------------------------------------
\* The requests to come, and the labels of a deletion.
LEMMA DeleteTyped ==
  ASSUME TypeInv, NEW c \in Clients,
         (\E p \in Lib : AskDelete(c, p)) \/ MoveToBin(c) \/ Record(c)
  PROVE  TypeInv'
<1>1. ASSUME NEW p \in Lib, AskDelete(c, p) PROVE TypeInv'
  <2>1. fs[Home(p)] \in 1..MaxFiles
    BY <1>1, TrashAssumption DEF AskDelete, Exists, TypeInv, DataTyped
  <2>2. BinName(p) \in {InBin(p)} \cup {ByInode(p, m) : m \in 1..MaxFiles}
    BY <2>1 DEF BinName
  <2>3. Home(p) \in Names /\ BinName(p) \in Names
    BY <2>2, PathsTell DEF Names
  <2>4. LocalsFit("bin", 0, Home(p), BinName(p), ids)
    BY <2>2 DEF LocalsFit
  <2>5. LocalsTyped' /\ LabelsFit'
    <3>1. "bin" \in Labels /\ 0 \in 0..MaxIds /\ {} \in SUBSET ((1..ids) \X Lib \X TrashPaths)
      BY TrashAssumption DEF Labels
    <3> QED BY <1>1, <2>3, <2>4, <3>1, GotoFits DEF AskDelete
  <2> QED BY <1>1, <2>5, DataKept DEF AskDelete, TypeInv
<1>2. ASSUME MoveToBin(c) PROVE TypeInv'
  <2>1. /\ \E p \in Lib : /\ src[c] = Home(p)
                          /\ dst[c] \in {InBin(p)} \cup {ByInode(p, m) : m \in 1..MaxFiles}
        /\ pc[c] = "bin"
    BY <1>2, LocalsAre DEF MoveToBin, LocalsFit
  <2>2. src[c] \in Names /\ dst[c] \in LibraryPaths \cup TrashPaths
    BY <2>1, PathsTell DEF Names
  <2>3. DataTyped'
    BY <1>2, <2>2, MoveTyped DEF MoveToBin
  <2>4. LocalsTyped' /\ LabelsFit'
    <3>1. LocalsFit("record", id[c], src[c], dst[c], ids)
      BY <2>1 DEF LocalsFit
    <3>2. CASE Then(c, "record")
      BY <1>2, <3>1, <3>2, LocalsAre, GotoFits DEF Then, MoveToBin, Labels
    <3>3. CASE Done(c)
      BY <1>2, <3>3, DoneFits DEF MoveToBin
    <3> QED BY <1>2, <3>2, <3>3 DEF MoveToBin
  <2> QED BY <2>3, <2>4 DEF TypeInv
<1>3. ASSUME Record(c) PROVE TypeInv'
  <2>1. PICK p \in Lib : /\ src[c] = Home(p)
                         /\ dst[c] \in {InBin(p)} \cup {ByInode(p, m) : m \in 1..MaxFiles}
    BY <1>3, LocalsAre DEF Record, LocalsFit
  <2>2. Row(c) \in [orig: Lib, at: TrashPaths]
    <3>1. Row(c) = [orig |-> Within(src[c]), at |-> dst[c]]
      BY DEF Row, Within
    <3>2. Within(src[c]) = p /\ dst[c] \in TrashPaths
      BY <2>1, PathsTell
    <3> QED BY <3>1, <3>2
  <2>3. ids' = ids + 1 /\ ids \in Nat /\ ids' \in 0..MaxIds
    BY <1>3, TrashAssumption DEF Record, TypeInv, DataTyped
  <2>4. DOMAIN entries' = DOMAIN entries \cup {ids'} /\ DOMAIN entries \subseteq 1..ids
    BY <1>3 DEF Record, TypeInv, DataTyped
  <2>5. entries' \in [DOMAIN entries' -> [orig: Lib, at: TrashPaths]]
    BY <1>3, <2>2, <2>4 DEF Record, TypeInv, DataTyped
  <2>6. (IF Exists(dst[c]) THEN photo[fs[dst[c]]] ELSE 0) \in 0..MaxFiles
    <3>1. CASE Exists(dst[c])
      <4>1. fs[dst[c]] \in 1..Len(photo)
        BY <3>1 DEF TypeInv, DataTyped, Exists
      <4>2. \A n \in 1..Len(photo) : photo[n] \in 1..MaxFiles
        <5>1. photo \in Seq(1..MaxFiles)
          BY DEF TypeInv, DataTyped
        <5> QED BY <5>1, ElementOfSeq
      <4> QED BY <3>1, <4>1, <4>2, TrashAssumption
    <3> QED BY <3>1, TrashAssumption
  <2>7. meant' \in Seq(0..MaxFiles) /\ Len(meant') = ids'
    BY <1>3, <2>3, <2>6 DEF Record, TypeInv, DataTyped
  <2>8. DataTyped'
    BY <1>3, <2>3, <2>4, <2>5, <2>7, RowsTyped DEF Record
  <2> QED BY <1>3, <2>3, <2>8, DoneFits DEF Record, TypeInv
<1> QED BY <1>1, <1>2, <1>3

\* The labels of a restore.
LEMMA RestoreTyped ==
  ASSUME TypeInv, NEW c \in Clients,
         (\E i \in 1..MaxIds : AskRestore(c, i)) \/ Place(c) \/ MoveFromBin(c)
  PROVE  TypeInv'
<1>1. ASSUME NEW i \in 1..MaxIds, AskRestore(c, i) PROVE TypeInv'
  <2>1. i \in 1..ids /\ entries[i].orig \in Lib /\ entries[i].at \in TrashPaths
    BY <1>1 DEF AskRestore, TypeInv, DataTyped
  <2>2. LocalsFit("place", i, entries[i].at, Home(entries[i].orig), ids)
    BY <2>1, PathsTell DEF LocalsFit
  <2>3. LocalsTyped' /\ LabelsFit'
    <3>1. /\ "place" \in Labels /\ i \in 0..MaxIds
          /\ {} \in SUBSET ((1..ids) \X Lib \X TrashPaths)
          /\ entries[i].at \in Names /\ Home(entries[i].orig) \in Names
      <4>1. entries[i].at \in Names /\ Home(entries[i].orig) \in Names
        BY <2>1, PathsTell DEF Names
      <4> QED BY <4>1, TrashAssumption DEF Labels
    <3> QED BY <1>1, <2>2, <3>1, GotoFits DEF AskRestore
  <2> QED BY <1>1, <2>3, DataKept DEF AskRestore, TypeInv
<1>2. ASSUME Place(c) PROVE TypeInv'
  <2>1. LocalsFit("place", id[c], src[c], dst[c], ids)
    BY <1>2, LocalsAre DEF Place
  <2>2. PICK p \in Lib : dst[c] = Home(p)
    BY <2>1 DEF LocalsFit
  <2>3. /\ dst[c][2] = p /\ Alongside(dst[c][2]) \in LibraryPaths
    BY <2>2, PathsTell DEF Within
  <2>4. /\ LocalsFit("forget", id[c], src[c], dst[c], ids)
        /\ LocalsFit("unbin", id[c], src[c], dst[c], ids)
        /\ LocalsFit("unbin", id[c], src[c], Alongside(dst[c][2]), ids)
    BY <2>1, <2>3 DEF LocalsFit
  <2>5. LocalsTyped' /\ LabelsFit'
    <3>1. CASE Then(c, "forget") \/ Then(c, "unbin")
      BY <1>2, <2>4, <3>1, LocalsAre, GotoFits DEF Then, Place, Labels
    <3>2. CASE Goto(c, "unbin", id[c], src[c], Alongside(dst[c][2]), {})
      <4>1. /\ {} \in SUBSET ((1..ids) \X Lib \X TrashPaths)
            /\ Alongside(dst[c][2]) \in Names
        BY <2>3 DEF Names
      <4> QED BY <1>2, <2>4, <3>2, <4>1, LocalsAre, GotoFits DEF Place, Labels
    <3> QED BY <1>2, <3>1, <3>2 DEF Place
  <2> QED BY <1>2, <2>5, DataKept DEF Place, TypeInv
<1>3. ASSUME MoveFromBin(c) PROVE TypeInv'
  <2>1. LocalsFit("unbin", id[c], src[c], dst[c], ids)
    BY <1>3, LocalsAre DEF MoveFromBin
  <2>2. src[c] \in Names /\ dst[c] \in LibraryPaths \cup TrashPaths
    BY <2>1 DEF LocalsFit, Names
  <2>3. DataTyped'
    BY <1>3, <2>2, MoveTyped DEF MoveFromBin
  <2>4. LocalsTyped' /\ LabelsFit'
    <3>1. LocalsFit("forget", id[c], src[c], dst[c], ids)
      BY <2>1 DEF LocalsFit
    <3>2. CASE Then(c, "forget")
      BY <1>3, <3>1, <3>2, LocalsAre, GotoFits DEF Then, MoveFromBin, Labels
    <3>3. CASE Done(c)
      BY <1>3, <3>3, DoneFits DEF MoveFromBin
    <3> QED BY <1>3, <3>2, <3>3 DEF MoveFromBin
  <2> QED BY <2>3, <2>4 DEF TypeInv
<1> QED BY <1>1, <1>2, <1>3

\* A listing names rows, each once, and is what a request may hold.
LEMMA ListingTyped ==
  ASSUME TypeInv
  PROVE  Listing \in SUBSET ((1..ids) \X Lib \X TrashPaths)
  BY DEF TypeInv, DataTyped, Listing

\* The labels of deletions for ever.
LEMMA PurgeTyped ==
  ASSUME TypeInv, NEW c \in Clients,
         \/ \E i \in 1..MaxIds : AskDeleteForEver(c, i)
         \/ AskEmpty(c) \/ NextToDelete(c) \/ Unlink(c) \/ Forget(c)
  PROVE  TypeInv'
<1>0. /\ ids \in 0..MaxIds /\ MaxIds \in Nat /\ {} \in SUBSET ((1..ids) \X Lib \X TrashPaths)
      /\ Nowhere \in Names /\ TrashPaths \subseteq Names /\ "unlink" \in Labels
      /\ todo[c] \in SUBSET ((1..ids) \X Lib \X TrashPaths)
  BY TrashAssumption, LocalsAre DEF TypeInv, DataTyped, Labels, Names
<1>1. ASSUME NEW i \in 1..MaxIds, AskDeleteForEver(c, i) PROVE TypeInv'
  <2>1. i \in 1..ids /\ entries[i].at \in TrashPaths
    BY <1>1 DEF AskDeleteForEver, TypeInv, DataTyped
  <2>2. LocalsFit("unlink", i, entries[i].at, Nowhere, ids)
    BY <2>1 DEF LocalsFit
  <2>3. i \in 0..MaxIds
    BY <1>0, <2>1
  <2>4. LocalsTyped' /\ LabelsFit'
    BY <1>0, <1>1, <2>1, <2>2, <2>3, GotoFits DEF AskDeleteForEver
  <2> QED BY <1>1, <2>4, DataKept DEF AskDeleteForEver, TypeInv
<1>2. ASSUME AskEmpty(c) PROVE TypeInv'
  <2>1. PICK old \in (SUBSET Listing) \ {{}} : Goto(c, "next", 0, Nowhere, Nowhere, old)
    BY <1>2 DEF AskEmpty
  <2>2. old \in SUBSET ((1..ids) \X Lib \X TrashPaths)
    BY ListingTyped
  <2>3. LocalsTyped' /\ LabelsFit'
    BY <1>2, <2>1, <2>2, NothingInHand DEF AskEmpty
  <2> QED BY <1>2, <2>3, DataKept DEF AskEmpty, TypeInv
<1>3. ASSUME NextToDelete(c) PROVE TypeInv'
  <2>1. CASE Done(c)
    BY <1>3, <2>1, DoneFits, DataKept DEF NextToDelete, TypeInv
  <2>2. CASE \E e \in todo[c] : Goto(c, "unlink", e[1], e[3], Nowhere, todo[c] \ {e})
    <3>1. PICK e \in todo[c] : Goto(c, "unlink", e[1], e[3], Nowhere, todo[c] \ {e})
      BY <2>2
    <3>2. e[1] \in 1..ids /\ e[3] \in TrashPaths
      BY <1>0
    <3>3. LocalsFit("unlink", e[1], e[3], Nowhere, ids)
      BY <3>2 DEF LocalsFit
    <3>4. e[1] \in 0..MaxIds /\ todo[c] \ {e} \in SUBSET ((1..ids) \X Lib \X TrashPaths)
      BY <1>0, <3>2
    <3>5. LocalsTyped' /\ LabelsFit'
      BY <1>0, <1>3, <3>1, <3>2, <3>3, <3>4, GotoFits DEF NextToDelete
    <3> QED BY <1>3, <3>5, DataKept DEF NextToDelete, TypeInv
  <2> QED BY <1>3, <2>1, <2>2 DEF NextToDelete
<1>4. ASSUME Unlink(c) PROVE TypeInv'
  <2>1. LocalsFit("forget", id[c], src[c], dst[c], ids)
    BY <1>4, LocalsAre DEF Unlink, LocalsFit
  <2>2. LocalsTyped' /\ LabelsFit'
    BY <1>4, <2>1, LocalsAre, GotoFits DEF Unlink, Then, Labels
  <2> QED BY <1>4, <2>2, UnlinkTyped DEF Unlink, Unlinked, TypeInv
<1>5. ASSUME Forget(c) PROVE TypeInv'
  <2>1. DOMAIN entries' \subseteq DOMAIN entries /\ \A i \in DOMAIN entries' : entries'[i] = entries[i]
    BY <1>5 DEF Forget, Restrict
  <2>2. entries' = [i \in DOMAIN entries' |-> entries'[i]]
    BY <1>5 DEF Forget, Restrict
  <2>3. entries' \in [DOMAIN entries' -> [orig: Lib, at: TrashPaths]]
    BY <2>1, <2>2 DEF TypeInv, DataTyped
  <2>4. DataTyped'
    BY <1>5, <2>1, <2>3, RowsTyped DEF Forget, TypeInv, DataTyped
  <2> QED BY <1>0, <1>5, <2>4, NothingInHand DEF Forget, TypeInv
<1> QED BY <1>1, <1>2, <1>3, <1>4, <1>5

\* The path that a repair puts a file at.
LEMMA RepairPath ==
  ASSUME TypeInv, NEW c \in Clients, pc[c] \in {"migrate", "copy", "rewrite"}
  PROVE  /\ dst[c] \in TrashPaths /\ Area(dst[c]) = "bin" /\ Mark(dst[c]) # "inode"
         /\ Mark(dst[c]) = "id" => Number(dst[c]) = id[c]
<1>1. /\ id[c] \in 1..ids /\ \E p \in Lib : dst[c] \in {InBin(p), ById(p, id[c])}
  BY LocalsAre DEF LocalsFit
<1>2. id[c] \in 1..MaxIds
  BY <1>1, TrashAssumption DEF TypeInv, DataTyped
<1>3. PICK p \in Lib : dst[c] = InBin(p) \/ dst[c] = ById(p, id[c])
  BY <1>1
<1>4. CASE dst[c] = InBin(p)
  BY <1>4, PathsTell
<1>5. CASE dst[c] = ById(p, id[c])
  <2> DEFINE to == ById(p, id[c])
  <2>1. to \in TrashPaths /\ Area(to) = "bin" /\ Mark(to) = "id" /\ Number(to) = id[c]
    BY <1>2, PathsTell
  <2> HIDE DEF to
  <2>2. dst[c] = to
    BY <1>5 DEF to
  <2> QED BY <2>1, <2>2
<1> QED BY <1>3, <1>4, <1>5

\* The labels of the list, which repairs.
LEMMA ListTyped ==
  ASSUME TypeInv, NEW c \in Clients,
         AskList(c) \/ Look(c) \/ Migrate(c) \/ Rebuild(c) \/ Rewrite(c)
  PROVE  TypeInv'
<1>0. /\ ids \in 0..MaxIds /\ MaxIds \in Nat
      /\ LibraryPaths \subseteq Names /\ TrashPaths \subseteq Names
      /\ {"migrate", "copy", "rewrite"} \subseteq Labels
      /\ todo[c] \in SUBSET ((1..ids) \X Lib \X TrashPaths)
  BY TrashAssumption, LocalsAre DEF TypeInv, DataTyped, Labels, Names
<1>1. ASSUME AskList(c) PROVE TypeInv'
  BY <1>1, ListingTyped, NothingInHand, DataKept DEF AskList, TypeInv
<1>2. ASSUME Look(c) PROVE TypeInv'
  <2>1. CASE Done(c)
    BY <1>2, <2>1, DoneFits, DataKept DEF Look, TypeInv
  <2>2. ASSUME NEW e \in todo[c] 
        PROVE  /\ e[1] \in 1..ids /\ e[1] \in 0..MaxIds /\ e[2] \in Lib /\ e[3] \in TrashPaths
               /\ \E p \in Lib : BinNameById(e[2], e[1]) \in {InBin(p), ById(p, e[1])}
               /\ BinNameById(e[2], e[1]) \in TrashPaths /\ Home(e[2]) \in LibraryPaths
               /\ todo[c] \ {e} \in SUBSET ((1..ids) \X Lib \X TrashPaths)
    <3>1. e[1] \in 1..ids /\ e[2] \in Lib /\ e[3] \in TrashPaths
      BY <1>0
    <3>2. e[1] \in 1..MaxIds /\ e[1] \in 0..MaxIds
      BY <1>0, <3>1
    <3>3. BinNameById(e[2], e[1]) \in {InBin(e[2]), ById(e[2], e[1])}
      BY DEF BinNameById
    <3>4. BinNameById(e[2], e[1]) \in TrashPaths /\ Home(e[2]) \in LibraryPaths
      BY <3>1, <3>2, <3>3, PathsTell
    <3> QED BY <1>0, <3>1, <3>2, <3>3, <3>4
  <2>3. ASSUME NEW e \in todo[c],
               Goto(c, "migrate", e[1], e[3], BinNameById(e[2], e[1]),
                    (todo[c] \ {e}) \cup {<<e[1], e[2], BinNameById(e[2], e[1])>>})
        PROVE  LocalsTyped' /\ LabelsFit'
    <3>1. LocalsFit("migrate", e[1], e[3], BinNameById(e[2], e[1]), ids)
      BY <2>2 DEF LocalsFit
    <3>2. (todo[c] \ {e}) \cup {<<e[1], e[2], BinNameById(e[2], e[1])>>}
             \in SUBSET ((1..ids) \X Lib \X TrashPaths)
      BY <2>2
    <3>3. e[3] \in Names /\ BinNameById(e[2], e[1]) \in Names /\ ids' = ids /\ e[1] \in 0..MaxIds
      BY <1>0, <1>2, <2>2 DEF Look
    <3> HIDE DEF Names
    <3> QED BY <1>0, <2>3, <3>1, <3>2, <3>3, GotoFits
  <2>4. ASSUME NEW e \in todo[c],
               Goto(c, "copy", e[1], Home(e[2]), BinNameById(e[2], e[1]), todo[c] \ {e})
        PROVE  LocalsTyped' /\ LabelsFit'
    <3>1. LocalsFit("copy", e[1], Home(e[2]), BinNameById(e[2], e[1]), ids)
      BY <2>2 DEF LocalsFit
    <3>2. Home(e[2]) \in Names /\ BinNameById(e[2], e[1]) \in Names /\ ids' = ids
      BY <1>0, <1>2, <2>2 DEF Look
    <3> QED BY <1>0, <2>2, <2>4, <3>1, <3>2, GotoFits
  <2>5. ASSUME NEW e \in todo[c], Goto(c, "look", 0, Nowhere, Nowhere, todo[c] \ {e})
        PROVE  LocalsTyped' /\ LabelsFit'
    BY <1>2, <2>2, <2>5, NothingInHand DEF Look
  <2>6. DataTyped'
    BY <1>2, DataKept DEF Look
  <2> QED BY <1>2, <2>1, <2>3, <2>4, <2>5, <2>6 DEF Look, TypeInv
<1>3. ASSUME Migrate(c) PROVE TypeInv'
  <2>1. LocalsFit("rewrite", id[c], src[c], dst[c], ids) /\ id[c] \in 1..ids
    BY <1>3, LocalsAre DEF Migrate, LocalsFit
  <2>2. src[c] \in Names /\ dst[c] \in LibraryPaths \cup TrashPaths
    BY <1>0, <1>3, LocalsAre, RepairPath DEF Migrate
  <2>3. DataTyped'
    BY <1>3, <2>2, MoveTyped DEF Migrate
  <2>4. LocalsTyped' /\ LabelsFit'
    <3>1. CASE Then(c, "rewrite")
      BY <1>0, <1>3, <2>1, <3>1, LocalsAre, GotoFits DEF Then, Migrate
    <3>2. CASE Done(c)
      BY <1>3, <3>2, DoneFits DEF Migrate
    <3> QED BY <1>3, <3>1, <3>2 DEF Migrate
  <2> QED BY <2>3, <2>4 DEF TypeInv
<1>4. ASSUME Rebuild(c) PROVE TypeInv'
  <2>1. LocalsFit("rewrite", id[c], src[c], dst[c], ids) /\ id[c] \in 1..ids
    BY <1>4, LocalsAre DEF Rebuild, LocalsFit
  <2>2. dst[c] \in LibraryPaths \cup TrashPaths
    BY <1>4, RepairPath DEF Rebuild
  <2>3. CASE Done(c) /\ UNCHANGED disk
    BY <1>4, <2>3, DoneFits, DataKept DEF Rebuild, TypeInv
  <2>4. CASE ~(Done(c) /\ UNCHANGED disk)
    <3>1. /\ Exists(src[c]) /\ Len(photo) < MaxFiles
          /\ photo' = Append(photo, photo[fs[src[c]]])
          /\ fs' = With(dst[c], Len(photo) + 1)
          /\ Then(c, "rewrite")
          /\ UNCHANGED <<entries, ids, meant, faults>>
      BY <1>4, <2>4 DEF Rebuild
    <3>2. photo[fs[src[c]]] \in 1..MaxFiles
      <4>1. photo \in Seq(1..MaxFiles) /\ fs[src[c]] \in 1..Len(photo)
        BY <3>1 DEF TypeInv, DataTyped, Exists
      <4> QED BY <4>1, ElementOfSeq
    <3>3. DataTyped'
      BY <2>2, <3>1, <3>2, NewFileTyped
    <3>4. LocalsTyped' /\ LabelsFit'
      BY <1>0, <2>1, <3>1, LocalsAre, GotoFits DEF Then
    <3> QED BY <3>3, <3>4 DEF TypeInv
  <2> QED BY <2>3, <2>4
<1>5. ASSUME Rewrite(c) PROVE TypeInv'
  <2>1. dst[c] \in TrashPaths
    BY <1>5, RepairPath DEF Rewrite
  <2>2. entries' \in [DOMAIN entries' -> [orig: Lib, at: TrashPaths]] /\ DOMAIN entries' = DOMAIN entries
    BY <1>5, <2>1 DEF Rewrite, TypeInv, DataTyped
  <2>3. DataTyped'
    BY <1>5, <2>2, RowsTyped DEF Rewrite, TypeInv, DataTyped
  <2> QED BY <1>0, <1>5, <2>3, NothingInHand DEF Rewrite, TypeInv
<1> QED BY <1>1, <1>2, <1>3, <1>4, <1>5

\* A photo arrives, a transaction is refused, the process is killed.
LEMMA ArriveTyped == ASSUME TypeInv, NEW p \in Lib, Arrive(p) PROVE TypeInv'
<1>1. Len(photo) + 1 \in 1..MaxFiles /\ Home(p) \in LibraryPaths \cup TrashPaths
  <2>1. Len(photo) \in Nat /\ MaxFiles \in Nat
    BY TrashAssumption DEF TypeInv, DataTyped
  <2>2. Home(p) \in LibraryPaths
    BY PathsTell
  <2>3. Len(photo) < MaxFiles
    BY DEF Arrive
  <2> QED BY <2>1, <2>2, <2>3
<1>2. DataTyped'
  BY <1>1, NewFileTyped DEF Arrive
<1>3. LocalsTyped' /\ LabelsFit'
  BY DEF Arrive, request, TypeInv, LocalsTyped, LabelsFit
<1> QED BY <1>2, <1>3 DEF TypeInv

LEMMA FaultTyped ==
  ASSUME TypeInv, Crash \/ \E c \in Clients : TransactionFails(c)
  PROVE  TypeInv'
<1>1. UNCHANGED <<disk, entries, ids, meant>> /\ faults' \in 0..MaxFaults
  BY TrashAssumption DEF Crash, TransactionFails, TypeInv, DataTyped
<1>2. DataTyped'
  BY <1>1 DEF TypeInv, DataTyped, disk
<1>3. ASSUME NEW c \in Clients, TransactionFails(c) PROVE LocalsTyped' /\ LabelsFit'
  <2>1. CASE Done(c)
    BY <1>1, <2>1, DoneFits
  <2>2. CASE Goto(c, "next", 0, Nowhere, Nowhere, todo[c])
    BY <1>1, <2>2, LocalsAre, NothingInHand
  <2> QED BY <1>3, <2>1, <2>2 DEF TransactionFails
<1>4. ASSUME Crash PROVE LocalsTyped' /\ LabelsFit'
  <2>1. LocalsTyped'
    BY <1>4, TrashAssumption DEF Crash, LocalsTyped, Labels, Names
  <2>2. LabelsFit'
    BY <1>4 DEF Crash, LabelsFit, LocalsFit
  <2> QED BY <2>1, <2>2
<1> QED BY <1>2, <1>3, <1>4 DEF TypeInv

\* What an older build may have left.
OldRow(p) ==
  /\ entries = <<[orig |-> p, at |-> Legacy(p)]>>
  /\ \/ fs = [q \in {Legacy(p)} |-> 1] /\ photo = <<1>> /\ meant = <<1>>
     \/ fs = <<>> /\ photo = <<>> /\ meant = <<0>>

LEMMA TypeStarts == ASSUME Init PROVE TypeInv
<1>1. LocalsTyped /\ LabelsFit
  BY TrashAssumption DEF Init, LocalsTyped, LabelsFit, LocalsFit, Labels, Names
<1>2. DataTyped
  <2>1. 0 \in 0..MaxFaults /\ MaxIds \in Nat \ {0} /\ MaxFiles \in Nat \ {0}
    BY TrashAssumption
  <2>2. CASE fs = <<>> /\ photo = <<>> /\ entries = <<>> /\ meant = <<>>
    BY <2>1, <2>2 DEF Init, DataTyped
  <2>3. ASSUME NEW p \in Lib, OldRow(p)
        PROVE  DataTyped
    <3>1. Legacy(p) \in TrashPaths
      BY PathsTell
    <3>2. DOMAIN entries = 1..1 /\ entries[1] \in [orig: Lib, at: TrashPaths]
      BY <2>3, <3>1 DEF OldRow
    <3>3. entries = [i \in DOMAIN entries |-> entries[i]]
      BY <2>3 DEF OldRow
    <3>4. entries \in [DOMAIN entries -> [orig: Lib, at: TrashPaths]]
      BY <3>2, <3>3
    <3>5. ids = 1 /\ faults = 0
      BY <2>3 DEF Init, OldRow
    <3>6. CASE fs = [q \in {Legacy(p)} |-> 1] /\ photo = <<1>> /\ meant = <<1>>
      <4>1. 1 \in 1..MaxFiles /\ 1 \in 0..MaxFiles
        BY <2>1
      <4>2. photo \in Seq(1..MaxFiles) /\ meant \in Seq(0..MaxFiles) /\ Len(meant) = 1 /\ Len(photo) = 1
        BY <3>6, <4>1
      <4>3. /\ DOMAIN fs \subseteq LibraryPaths \cup TrashPaths /\ fs \in [DOMAIN fs -> 1..1]
            /\ \A q, r \in DOMAIN fs : q = r
        BY <3>1, <3>6
      <4> QED BY <2>1, <3>2, <3>4, <3>5, <4>2, <4>3 DEF DataTyped
    <3>7. CASE fs = <<>> /\ photo = <<>> /\ meant = <<0>>
      <4>1. 0 \in 0..MaxFiles
        BY <2>1
      <4>2. photo \in Seq(1..MaxFiles) /\ meant \in Seq(0..MaxFiles) /\ Len(meant) = 1 /\ Len(photo) = 0
        BY <3>7, <4>1
      <4>3. DOMAIN fs = {} /\ fs \in [DOMAIN fs -> 1..0]
        BY <3>7
      <4> QED BY <2>1, <3>2, <3>4, <3>5, <4>2, <4>3 DEF DataTyped
    <3> QED BY <2>3, <3>6, <3>7 DEF OldRow
  <2> QED BY <2>2, <2>3 DEF Init, OldRow
<1> QED BY <1>1, <1>2 DEF TypeInv

LEMMA TypeStep == ASSUME TypeInv, [Next]_vars PROVE TypeInv'
<1>1. ASSUME UNCHANGED vars PROVE TypeInv'
  BY <1>1, DataKept DEF vars, request, TypeInv, LocalsTyped, LabelsFit
<1>2. ASSUME NEW c \in Clients, Ask(c) \/ Serve(c) PROVE TypeInv'
  BY <1>2, DeleteTyped, RestoreTyped, PurgeTyped, ListTyped DEF Ask, Serve
<1> QED BY <1>1, <1>2, ArriveTyped, FaultTyped DEF Next, Step

LEMMA TypeInvariant == Spec => []TypeInv
<1>1. TypeInv /\ [Next]_vars => TypeInv'
  BY TypeStep
<1> QED BY TypeStarts, <1>1, PTL DEF Spec

\* The disk, the table and the requests keep to their types, and no file is at
\* two paths, for any paths, names, requests and failures.
THEOREM TrashTypeCorrect == Spec => []TypeOK
<1>1. Init => crossed \subseteq Slots
  BY DEF Init
<1>2. crossed \subseteq Slots /\ [Next]_vars => (crossed \subseteq Slots)'
  BY DEF Next, SharingSeen, Shared, vars, Slots
<1>3. TypeInv /\ crossed \subseteq Slots => TypeOK
  BY TypeParts DEF TypeInv
<1> QED BY TypeInvariant, <1>1, <1>2, <1>3, PTL DEF Spec

-----------------------------------------------------------------------------
(***************************************************************************)
(* Slots: a request works at one at a time, and its row is of that slot,   *)
(* whatever other requests do.                                             *)
(***************************************************************************)

Loose == {"idle", "next", "look"}

\* The parts of a listed row.
IdIn(e)   == e[1]
OrigIn(e) == e[2]
AtIn(e)   == e[3]

\* The paths, the row and the list of a request, of rows R.
FitsAt(R, label, i, from, to, rest) ==
  /\ from = Nowhere <=> label \in Loose
  /\ label \in Loose \cup {"bin", "record"} => i = 0
  /\ to # Nowhere => from # Nowhere /\ SlotOf(to) = SlotOf(from)
  /\ from # Nowhere /\ i \in DOMAIN R => Slot[R[i].orig] = SlotOf(from)
  /\ \A e \in rest : /\ SlotOf(AtIn(e)) = Slot[OrigIn(e)]
                     /\ IdIn(e) \in DOMAIN R => R[IdIn(e)].orig = OrigIn(e)

\* A row leads to the slot of its original path, and a name with an id is that of
\* its row.
RowsFit(R) ==
  \A i \in DOMAIN R :
    /\ SlotOf(R[i].at) = Slot[R[i].orig]
    /\ Area(R[i].at) = "bin" /\ Mark(R[i].at) = "id" => Number(R[i].at) = i

SlotsFit ==
  /\ RowsFit(entries)
  /\ \A c \in Clients : FitsAt(entries, pc[c], id[c], src[c], dst[c], todo[c])

LEMMA SlotsTell ==
  /\ \A p \in Lib : /\ SlotOf(Home(p)) = Slot[p] /\ SlotOf(Alongside(p)) = Slot[p]
                    /\ SlotOf(InBin(p)) = Slot[p] /\ SlotOf(Legacy(p)) = Slot[p]
                    /\ Home(p) # Nowhere /\ Alongside(p) # Nowhere
                    /\ InBin(p) # Nowhere /\ Legacy(p) # Nowhere
  /\ \A p \in Lib, n \in Int : /\ SlotOf(ByInode(p, n)) = Slot[p] /\ ByInode(p, n) # Nowhere
                               /\ SlotOf(ById(p, n)) = Slot[p] /\ ById(p, n) # Nowhere
  BY DEF SlotOf, Home, Alongside, InBin, Legacy, ByInode, ById, Nowhere

LEMMA PathsAreSomewhere ==
  /\ Nowhere \notin LibraryPaths \cup TrashPaths
  /\ \A q \in LibraryPaths \cup TrashPaths : SlotOf(q) \in Slots
<1>1. Area(Nowhere) = "nowhere"
  BY DEF Area, Nowhere
<1>2. Nowhere \notin LibraryPaths \cup TrashPaths
  BY <1>1, PathsTell
<1>3. ASSUME NEW q \in LibraryPaths PROVE SlotOf(q) \in Slots
  BY <1>3, SlotsTell DEF LibraryPaths, Slots
<1>4. ASSUME NEW q \in TrashPaths PROVE SlotOf(q) \in Slots
  <2>1. \/ \E p \in Lib : q = InBin(p) \/ q = Legacy(p)
        \/ \E p \in Lib, n \in 1..MaxFiles : q = ByInode(p, n)
        \/ \E p \in Lib, i \in 1..MaxIds : q = ById(p, i)
    BY <1>4 DEF TrashPaths
  <2>2. 1..MaxFiles \subseteq Int /\ 1..MaxIds \subseteq Int
    BY TrashAssumption
  <2> QED BY <2>1, <2>2, SlotsTell DEF Slots
<1> QED BY <1>2, <1>3, <1>4

\* Rows that are removed, added or rewritten leave what a request knows of theirs.
LEMMA FitsKept ==
  ASSUME NEW R, NEW Q, NEW n \in Nat, NEW label, NEW i \in 0..n, NEW from, NEW to,
         NEW rest, \A e \in rest : IdIn(e) \in 0..n,
         \A j \in 0..n : j \in DOMAIN Q => j \in DOMAIN R /\ Q[j].orig = R[j].orig,
         FitsAt(R, label, i, from, to, rest)
  PROVE  FitsAt(Q, label, i, from, to, rest)
  BY DEF FitsAt

\* Where a request goes, and that others stay.
Same(d) ==
  /\ pc'[d] = pc[d] /\ id'[d] = id[d] /\ src'[d] = src[d] /\ dst'[d] = dst[d]
  /\ todo'[d] = todo[d]

LEMMA GotoIs ==
  ASSUME TypeInv, NEW c \in Clients, NEW label, NEW i, NEW from, NEW to, NEW rest,
         Goto(c, label, i, from, to, rest)
  PROVE  /\ pc'[c] = label /\ id'[c] = i /\ src'[c] = from /\ dst'[c] = to
         /\ todo'[c] = rest
         /\ \A d \in Clients : d # c => Same(d)
  BY DEF Goto, TypeInv, LocalsTyped, Same

LEMMA TodoTyped ==
  ASSUME TypeInv, NEW rest \in SUBSET ((1..ids) \X Lib \X TrashPaths), NEW e \in rest
  PROVE  /\ IdIn(e) \in 1..ids /\ OrigIn(e) \in Lib /\ AtIn(e) \in TrashPaths
         /\ e = <<IdIn(e), OrigIn(e), AtIn(e)>>
  BY DEF IdIn, OrigIn, AtIn

\* Rows never get another original path.
RowsKeepOrig ==
  \A j \in 0..ids : j \in DOMAIN entries' => j \in DOMAIN entries /\ entries'[j].orig = entries[j].orig

LEMMA FitsGo ==
  ASSUME TypeInv, SlotsFit, RowsKeepOrig, NEW c \in Clients, NEW label, NEW i \in 0..ids,
         NEW from, NEW to, NEW rest \in SUBSET ((1..ids) \X Lib \X TrashPaths),
         Goto(c, label, i, from, to, rest), FitsAt(entries, label, i, from, to, rest)
  PROVE  \A d \in Clients : FitsAt(entries', pc'[d], id'[d], src'[d], dst'[d], todo'[d])
<1> SUFFICES ASSUME NEW d \in Clients
    PROVE  FitsAt(entries', pc'[d], id'[d], src'[d], dst'[d], todo'[d])
  OBVIOUS
<1>1. ids \in Nat /\ 1..ids \subseteq 0..ids
  BY TrashAssumption DEF TypeInv, DataTyped
<1>2. CASE d = c
  <2>1. \A e \in rest : IdIn(e) \in 0..ids
    BY <1>1, TodoTyped
  <2>2. FitsAt(entries', label, i, from, to, rest)
    BY <1>1, <2>1, FitsKept DEF RowsKeepOrig
  <2> QED BY <1>2, <2>2, GotoIs
<1>3. CASE d # c
  <2>1. todo[d] \in SUBSET ((1..ids) \X Lib \X TrashPaths)
    BY LocalsAre
  <2>2. \A e \in todo[d] : IdIn(e) \in 0..ids
    BY <1>1, <2>1, TodoTyped
  <2>3. FitsAt(entries, pc[d], id[d], src[d], dst[d], todo[d])
    BY DEF SlotsFit
  <2>4. id[d] \in 0..ids
    BY <1>1, <2>3, LocalsAre DEF FitsAt, LocalsFit, Labels, Loose
  <2>5. FitsAt(entries', pc[d], id[d], src[d], dst[d], todo[d])
    BY <1>1, <2>2, <2>3, <2>4, FitsKept DEF RowsKeepOrig
  <2> QED BY <1>3, <2>5, GotoIs DEF Same
<1> QED BY <1>2, <1>3

\* What the list does with a row.
LookAt(c, e) ==
  \/ /\ ToMigrate(e)
     /\ Goto(c, "migrate", e[1], e[3], BinNameById(e[2], e[1]),
             (todo[c] \ {e}) \cup {<<e[1], e[2], BinNameById(e[2], e[1])>>})
  \/ ToRebuild(e) /\ Goto(c, "copy", e[1], Home(e[2]), BinNameById(e[2], e[1]), todo[c] \ {e})
  \/ ~ToMigrate(e) /\ ~ToRebuild(e) /\ Goto(c, "look", 0, Nowhere, Nowhere, todo[c] \ {e})

LEMMA LooksAt ==
  ASSUME NEW c \in Clients, Look(c), ~Done(c)
  PROVE  \E e \in todo[c] : LookAt(c, e)
  BY DEF Look, LookAt

\* What each step keeps of it.
LEMMA DataStays ==
  ASSUME TypeInv, SlotsFit, UNCHANGED entries
  PROVE  RowsKeepOrig /\ RowsFit(entries')
  BY DEF RowsKeepOrig, SlotsFit

\* A request that ends or loops has nothing in hand.
LEMMA LooseFits ==
  ASSUME TypeInv, SlotsFit, RowsKeepOrig, RowsFit(entries'), NEW c \in Clients,
         NEW label \in Loose, NEW rest \in SUBSET todo[c],
         Goto(c, label, 0, Nowhere, Nowhere, rest)
  PROVE  SlotsFit'
<1>1. FitsAt(entries, label, 0, Nowhere, Nowhere, rest)
  BY DEF SlotsFit, FitsAt
<1>2. rest \in SUBSET ((1..ids) \X Lib \X TrashPaths) /\ 0 \in 0..ids
  BY LocalsAre, TrashAssumption DEF TypeInv, DataTyped
<1> QED BY <1>1, <1>2, FitsGo DEF SlotsFit

LEMMA DoneFitsSlots ==
  ASSUME TypeInv, SlotsFit, RowsKeepOrig, RowsFit(entries'), NEW c \in Clients, Done(c)
  PROVE  SlotsFit'
  BY LooseFits DEF Done, Loose

\* A request that goes on with the same paths and row.
LEMMA OnwardFits ==
  ASSUME TypeInv, SlotsFit, UNCHANGED entries, NEW c \in Clients,
         NEW label \in Labels, Then(c, label),
         \/ label = "record" /\ pc[c] = "bin"
         \/ label \notin Loose \cup {"bin", "record"} /\ pc[c] \notin Loose \cup {"bin", "record"}
  PROVE  SlotsFit'
<1>1. FitsAt(entries, pc[c], id[c], src[c], dst[c], todo[c])
  BY DEF SlotsFit
<1>2. FitsAt(entries, label, id[c], src[c], dst[c], todo[c])
  BY <1>1 DEF FitsAt, Loose
<1>3. id[c] \in 0..ids
  BY <1>1, TrashAssumption, LocalsAre DEF FitsAt, LocalsFit, Labels, Loose, TypeInv, DataTyped
<1> QED BY <1>2, <1>3, DataStays, FitsGo, LocalsAre DEF Then, SlotsFit

\* A request that takes up row i at path from, for the path to.
LEMMA TakenFits ==
  ASSUME TypeInv, SlotsFit, UNCHANGED entries, NEW c \in Clients,
         NEW label \in Labels \ (Loose \cup {"bin", "record"}), NEW i \in 1..ids,
         NEW from, NEW to, NEW rest \in SUBSET ((1..ids) \X Lib \X TrashPaths),
         Goto(c, label, i, from, to, rest), from # Nowhere,
         to # Nowhere => SlotOf(to) = SlotOf(from),
         i \in DOMAIN entries => RowSlot(i) = SlotOf(from),
         \A e \in rest : /\ SlotOf(AtIn(e)) = Slot[OrigIn(e)]
                         /\ IdIn(e) \in DOMAIN entries => entries[IdIn(e)].orig = OrigIn(e)
  PROVE  SlotsFit'
<1>1. FitsAt(entries, label, i, from, to, rest)
  BY DEF FitsAt, RowSlot
<1>2. i \in 0..ids
  BY TrashAssumption DEF TypeInv, DataTyped
<1> QED BY <1>1, <1>2, DataStays, FitsGo DEF SlotsFit

LEMMA DeleteFits ==
  ASSUME TypeInv, SlotsFit, NEW c \in Clients,
         (\E p \in Lib : AskDelete(c, p)) \/ MoveToBin(c) \/ Record(c)
  PROVE  SlotsFit'
<1>1. ASSUME NEW p \in Lib, AskDelete(c, p) PROVE SlotsFit'
  <2>1. fs[Home(p)] \in Int
    BY <1>1, TrashAssumption DEF AskDelete, Exists, TypeInv, DataTyped
  <2>2. /\ SlotOf(BinName(p)) = Slot[p] /\ SlotOf(Home(p)) = Slot[p] /\ Home(p) # Nowhere
    BY <2>1, SlotsTell DEF BinName
  <2>3. 0 \in 0..ids /\ 0 \notin DOMAIN entries /\ {} \in SUBSET ((1..ids) \X Lib \X TrashPaths)
    BY TrashAssumption DEF TypeInv, DataTyped
  <2>4. FitsAt(entries, "bin", 0, Home(p), BinName(p), {})
    BY <2>2, <2>3 DEF FitsAt, Loose
  <2> QED BY <1>1, <2>3, <2>4, DataStays, FitsGo DEF AskDelete, SlotsFit
<1>2. ASSUME MoveToBin(c) PROVE SlotsFit'
  <2>1. CASE Then(c, "record")
    BY <1>2, <2>1, OnwardFits DEF MoveToBin, Labels
  <2>2. CASE Done(c)
    BY <1>2, <2>2, DoneFitsSlots, DataStays DEF MoveToBin
  <2> QED BY <1>2, <2>1, <2>2 DEF MoveToBin
<1>3. ASSUME Record(c) PROVE SlotsFit'
  <2>1. PICK p \in Lib : /\ src[c] = Home(p)
                         /\ dst[c] \in {InBin(p)} \cup {ByInode(p, m) : m \in 1..MaxFiles}
    BY <1>3, LocalsAre DEF Record, LocalsFit
  <2>2. /\ ids' = ids + 1 /\ ids \in Nat /\ DOMAIN entries \subseteq 1..ids
        /\ entries' = [j \in DOMAIN entries \cup {ids'} |-> IF j = ids' THEN Row(c) ELSE entries[j]]
    BY <1>3, TrashAssumption DEF Record, TypeInv, DataTyped
  <2>3. RowsKeepOrig
    BY <2>2 DEF RowsKeepOrig
  <2>4. /\ SlotOf(dst[c]) = Slot[p] /\ Mark(dst[c]) # "id"
    <3>1. CASE dst[c] = InBin(p)
      BY <3>1, SlotsTell, PathsTell
    <3>2. CASE dst[c] \in {ByInode(p, m) : m \in 1..MaxFiles}
      <4>1. PICK m \in 1..MaxFiles : dst[c] = ByInode(p, m)
        BY <3>2
      <4>2. m \in Int
        BY TrashAssumption
      <4>3. SlotOf(ByInode(p, m)) = Slot[p] /\ Mark(ByInode(p, m)) = "inode"
        BY <4>2, SlotsTell, PathsTell
      <4> QED BY <4>1, <4>3
    <3> QED BY <2>1, <3>1, <3>2
  <2>5. Row(c).at = dst[c] /\ Row(c).orig = p
    BY <2>1, PathsTell DEF Row, Within
  <2>6. RowsFit(entries')
    BY <2>2, <2>4, <2>5 DEF RowsFit, SlotsFit
  <2> QED BY <1>3, <2>3, <2>6, DoneFitsSlots DEF Record
<1> QED BY <1>1, <1>2, <1>3

LEMMA RestoreFits ==
  ASSUME TypeInv, SlotsFit, NEW c \in Clients,
         (\E i \in 1..MaxIds : AskRestore(c, i)) \/ Place(c) \/ MoveFromBin(c)
  PROVE  SlotsFit'
<1>1. ASSUME NEW i \in 1..MaxIds, AskRestore(c, i) PROVE SlotsFit'
  <2>1. /\ i \in 1..ids /\ entries[i].orig \in Lib /\ entries[i].at \in TrashPaths
        /\ SlotOf(entries[i].at) = RowSlot(i) /\ "place" \in Labels \ (Loose \cup {"bin", "record"})
    BY <1>1 DEF AskRestore, TypeInv, DataTyped, SlotsFit, RowsFit, RowSlot, Labels, Loose
  <2>2. /\ SlotOf(Home(entries[i].orig)) = RowSlot(i) /\ entries[i].at # Nowhere
    BY <2>1, SlotsTell, PathsAreSomewhere DEF RowSlot
  <2>3. {} \in SUBSET ((1..ids) \X Lib \X TrashPaths)
    OBVIOUS
  <2> QED BY <1>1, <2>1, <2>2, <2>3, TakenFits DEF AskRestore
<1>2. ASSUME Place(c) PROVE SlotsFit'
  <2>0. /\ pc[c] = "place" /\ UNCHANGED entries
        /\ {"forget", "unbin"} \subseteq Labels \ (Loose \cup {"bin", "record"})
        /\ pc[c] \notin Loose \cup {"bin", "record"}
    BY <1>2 DEF Place, Labels, Loose
  <2>1. CASE Then(c, "forget") \/ Then(c, "unbin")
    BY <2>0, <2>1, OnwardFits
  <2>2. CASE Goto(c, "unbin", id[c], src[c], Alongside(dst[c][2]), {})
    <3>1. PICK p \in Lib : dst[c] = Home(p)
      BY <2>0, LocalsAre DEF LocalsFit
    <3>2. dst[c][2] = p /\ SlotOf(Alongside(p)) = SlotOf(dst[c]) /\ dst[c] # Nowhere
      BY <3>1, PathsTell, SlotsTell DEF Within
    <3>3. /\ src[c] # Nowhere /\ SlotOf(dst[c]) = SlotOf(src[c])
          /\ id[c] \in DOMAIN entries => RowSlot(id[c]) = SlotOf(src[c])
      BY <2>0, <3>2 DEF SlotsFit, FitsAt, Loose, RowSlot
    <3>4. id[c] \in 1..ids /\ {} \in SUBSET ((1..ids) \X Lib \X TrashPaths)
      BY <2>0, LocalsAre DEF LocalsFit
    <3> QED BY <2>0, <2>2, <3>2, <3>3, <3>4, TakenFits
  <2> QED BY <1>2, <2>1, <2>2 DEF Place
<1>3. ASSUME MoveFromBin(c) PROVE SlotsFit'
  <2>1. CASE Then(c, "forget")
    BY <1>3, <2>1, OnwardFits DEF MoveFromBin, Labels, Loose
  <2>2. CASE Done(c)
    BY <1>3, <2>2, DoneFitsSlots, DataStays DEF MoveFromBin
  <2> QED BY <1>3, <2>1, <2>2 DEF MoveFromBin
<1> QED BY <1>1, <1>2, <1>3

\* A listing is of rows that are there.
LEMMA ListingFits ==
  ASSUME TypeInv, SlotsFit, NEW e \in Listing
  PROVE  /\ IdIn(e) \in DOMAIN entries /\ OrigIn(e) = entries[IdIn(e)].orig
         /\ AtIn(e) = entries[IdIn(e)].at /\ SlotOf(AtIn(e)) = Slot[OrigIn(e)]
<1>1. PICK i \in DOMAIN entries : e = <<i, entries[i].orig, entries[i].at>>
  BY DEF Listing
<1>2. IdIn(e) = i /\ OrigIn(e) = entries[i].orig /\ AtIn(e) = entries[i].at
  BY <1>1 DEF IdIn, OrigIn, AtIn
<1> QED BY <1>2 DEF SlotsFit, RowsFit

LEMMA ListedFits ==
  ASSUME TypeInv, SlotsFit, UNCHANGED entries, NEW c \in Clients, NEW label \in {"next", "look"},
         NEW old \in SUBSET Listing, Goto(c, label, 0, Nowhere, Nowhere, old)
  PROVE  SlotsFit'
<1>1. FitsAt(entries, label, 0, Nowhere, Nowhere, old)
  BY ListingFits DEF FitsAt, Loose
<1>2. old \in SUBSET ((1..ids) \X Lib \X TrashPaths) /\ 0 \in 0..ids
  BY ListingTyped, TrashAssumption DEF TypeInv, DataTyped
<1> QED BY <1>1, <1>2, DataStays, FitsGo DEF SlotsFit

LEMMA PurgeFits ==
  ASSUME TypeInv, SlotsFit, NEW c \in Clients,
         \/ \E i \in 1..MaxIds : AskDeleteForEver(c, i)
         \/ AskEmpty(c) \/ NextToDelete(c) \/ Unlink(c) \/ Forget(c)
  PROVE  SlotsFit'
<1>0. "unlink" \in Labels \ (Loose \cup {"bin", "record"}) /\ {"next", "look", "idle"} = Loose
  BY DEF Labels, Loose
<1>1. ASSUME NEW i \in 1..MaxIds, AskDeleteForEver(c, i) PROVE SlotsFit'
  <2>1. /\ i \in 1..ids /\ entries[i].at \in TrashPaths
        /\ SlotOf(entries[i].at) = RowSlot(i)
    BY <1>1 DEF AskDeleteForEver, TypeInv, DataTyped, SlotsFit, RowsFit, RowSlot
  <2>2. entries[i].at # Nowhere /\ {} \in SUBSET ((1..ids) \X Lib \X TrashPaths)
    BY <2>1, PathsAreSomewhere
  <2> QED BY <1>0, <1>1, <2>1, <2>2, TakenFits DEF AskDeleteForEver
<1>2. ASSUME AskEmpty(c) PROVE SlotsFit'
  BY <1>2, ListedFits DEF AskEmpty
<1>3. ASSUME NextToDelete(c) PROVE SlotsFit'
  <2>1. CASE Done(c)
    BY <1>3, <2>1, DoneFitsSlots, DataStays DEF NextToDelete
  <2>2. ASSUME NEW e \in todo[c], Goto(c, "unlink", e[1], e[3], Nowhere, todo[c] \ {e})
        PROVE  SlotsFit'
    <3>1. todo[c] \in SUBSET ((1..ids) \X Lib \X TrashPaths)
      BY LocalsAre
    <3>2. IdIn(e) \in 1..ids /\ AtIn(e) \in TrashPaths /\ AtIn(e) # Nowhere
      BY <3>1, TodoTyped, PathsAreSomewhere
    <3>3. \A f \in todo[c] :
            /\ SlotOf(AtIn(f)) = Slot[OrigIn(f)]
            /\ IdIn(f) \in DOMAIN entries => entries[IdIn(f)].orig = OrigIn(f)
      BY DEF SlotsFit, FitsAt
    <3>4. Goto(c, "unlink", IdIn(e), AtIn(e), Nowhere, todo[c] \ {e}) /\ UNCHANGED entries
      BY <1>3, <2>2 DEF IdIn, AtIn, NextToDelete
    <3>5. todo[c] \ {e} \in SUBSET ((1..ids) \X Lib \X TrashPaths)
      BY <3>1
    <3>6. IdIn(e) \in DOMAIN entries => RowSlot(IdIn(e)) = SlotOf(AtIn(e))
      BY <3>3 DEF RowSlot
    <3> QED BY <1>0, <3>2, <3>3, <3>4, <3>5, <3>6, TakenFits
  <2> QED BY <1>3, <2>1, <2>2 DEF NextToDelete
<1>4. ASSUME Unlink(c) PROVE SlotsFit'
  BY <1>4, OnwardFits DEF Unlink, Labels, Loose
<1>5. ASSUME Forget(c) PROVE SlotsFit'
  <2>1. DOMAIN entries' \subseteq DOMAIN entries /\ \A i \in DOMAIN entries' : entries'[i] = entries[i]
    BY <1>5 DEF Forget, Restrict
  <2>2. RowsKeepOrig /\ RowsFit(entries')
    BY <2>1 DEF RowsKeepOrig, RowsFit, SlotsFit
  <2> QED BY <1>0, <1>5, <2>2, LooseFits DEF Forget
<1> QED BY <1>1, <1>2, <1>3, <1>4, <1>5

LEMMA RepairFits ==
  ASSUME TypeInv, SlotsFit, NEW c \in Clients,
         AskList(c) \/ Look(c) \/ Migrate(c) \/ Rebuild(c) \/ Rewrite(c)
  PROVE  SlotsFit'
<1>0. /\ {"migrate", "copy", "rewrite"} \subseteq Labels \ (Loose \cup {"bin", "record"})
      /\ "look" \in Loose /\ todo[c] \in SUBSET ((1..ids) \X Lib \X TrashPaths)
  BY LocalsAre DEF Labels, Loose
<1>1. ASSUME AskList(c) PROVE SlotsFit'
  <2>1. Listing \in SUBSET Listing
    OBVIOUS
  <2> QED BY <1>1, <2>1, ListedFits DEF AskList
<1>2. ASSUME Look(c) PROVE SlotsFit'
  <2>0. UNCHANGED entries
    BY <1>2 DEF Look
  <2>1. CASE Done(c)
    BY <2>0, <2>1, DoneFitsSlots, DataStays
  <2>2. ASSUME NEW e \in todo[c]
        PROVE  /\ IdIn(e) \in 1..ids /\ OrigIn(e) \in Lib
               /\ AtIn(e) # Nowhere /\ Home(OrigIn(e)) # Nowhere
               /\ SlotOf(AtIn(e)) = Slot[OrigIn(e)] /\ SlotOf(Home(OrigIn(e))) = Slot[OrigIn(e)]
               /\ SlotOf(BinNameById(OrigIn(e), IdIn(e))) = Slot[OrigIn(e)]
               /\ BinNameById(OrigIn(e), IdIn(e)) \in TrashPaths
               /\ IdIn(e) \in DOMAIN entries => entries[IdIn(e)].orig = OrigIn(e)
               /\ todo[c] \ {e} \in SUBSET ((1..ids) \X Lib \X TrashPaths)
    <3>1. IdIn(e) \in 1..ids /\ OrigIn(e) \in Lib /\ AtIn(e) \in TrashPaths /\ AtIn(e) # Nowhere
      BY <1>0, TodoTyped, PathsAreSomewhere
    <3>2. IdIn(e) \in 1..MaxIds /\ IdIn(e) \in Int
      BY <3>1, TrashAssumption DEF TypeInv, DataTyped
    <3>3. /\ SlotOf(AtIn(e)) = Slot[OrigIn(e)]
          /\ IdIn(e) \in DOMAIN entries => entries[IdIn(e)].orig = OrigIn(e)
      BY DEF SlotsFit, FitsAt
    <3>4. BinNameById(OrigIn(e), IdIn(e)) \in {InBin(OrigIn(e)), ById(OrigIn(e), IdIn(e))}
      BY DEF BinNameById
    <3>5. /\ SlotOf(BinNameById(OrigIn(e), IdIn(e))) = Slot[OrigIn(e)]
          /\ BinNameById(OrigIn(e), IdIn(e)) \in TrashPaths
      BY <3>1, <3>2, <3>4, SlotsTell, PathsTell
    <3> QED BY <1>0, <3>1, <3>3, <3>5, SlotsTell
  <2>3. ASSUME NEW e \in todo[c], NEW to, to = BinNameById(OrigIn(e), IdIn(e)),
               Goto(c, "migrate", IdIn(e), AtIn(e), to,
                    (todo[c] \ {e}) \cup {<<IdIn(e), OrigIn(e), to>>})
        PROVE  SlotsFit'
    <3> DEFINE new == <<IdIn(e), OrigIn(e), to>>
    <3>1. IdIn(new) = IdIn(e) /\ OrigIn(new) = OrigIn(e) /\ AtIn(new) = to
      BY DEF IdIn, OrigIn, AtIn
    <3>2. new \in (1..ids) \X Lib \X TrashPaths
      BY <2>2, <2>3
    <3> HIDE DEF new
    <3>3. \A f \in todo[c] :
            /\ SlotOf(AtIn(f)) = Slot[OrigIn(f)]
            /\ IdIn(f) \in DOMAIN entries => entries[IdIn(f)].orig = OrigIn(f)
      BY DEF SlotsFit, FitsAt
    <3>4. \A f \in (todo[c] \ {e}) \cup {new} :
            /\ SlotOf(AtIn(f)) = Slot[OrigIn(f)]
            /\ IdIn(f) \in DOMAIN entries => entries[IdIn(f)].orig = OrigIn(f)
      BY <2>2, <2>3, <3>1, <3>3
    <3>5. (todo[c] \ {e}) \cup {new} \in SUBSET ((1..ids) \X Lib \X TrashPaths)
      BY <1>0, <3>2
    <3>6. Goto(c, "migrate", IdIn(e), AtIn(e), to, (todo[c] \ {e}) \cup {new})
      BY <2>3 DEF new
    <3>7. /\ SlotOf(to) = SlotOf(AtIn(e))
          /\ IdIn(e) \in DOMAIN entries => RowSlot(IdIn(e)) = SlotOf(AtIn(e))
      BY <2>2, <2>3 DEF RowSlot
    <3> QED BY <1>0, <2>0, <2>2, <3>4, <3>5, <3>6, <3>7, TakenFits
  <2>4. ASSUME NEW e \in todo[c], NEW to, to = BinNameById(OrigIn(e), IdIn(e)),
               Goto(c, "copy", IdIn(e), Home(OrigIn(e)), to, todo[c] \ {e})
        PROVE  SlotsFit'
    <3>1. \A f \in todo[c] \ {e} :
            /\ SlotOf(AtIn(f)) = Slot[OrigIn(f)]
            /\ IdIn(f) \in DOMAIN entries => entries[IdIn(f)].orig = OrigIn(f)
      BY DEF SlotsFit, FitsAt
    <3>2. /\ SlotOf(to) = SlotOf(Home(OrigIn(e)))
          /\ IdIn(e) \in DOMAIN entries => RowSlot(IdIn(e)) = SlotOf(Home(OrigIn(e)))
      BY <2>2, <2>4 DEF RowSlot
    <3> QED BY <1>0, <2>0, <2>2, <2>4, <3>1, <3>2, TakenFits
  <2>5. ASSUME NEW e \in todo[c], Goto(c, "look", 0, Nowhere, Nowhere, todo[c] \ {e})
        PROVE  SlotsFit'
    BY <1>0, <2>0, <2>5, LooseFits, DataStays
  <2>6. ASSUME NEW e \in todo[c], LookAt(c, e) PROVE SlotsFit'
    <3>1. e[1] = IdIn(e) /\ e[2] = OrigIn(e) /\ e[3] = AtIn(e)
      BY DEF IdIn, OrigIn, AtIn
    <3> QED BY <2>3, <2>4, <2>5, <2>6, <3>1 DEF LookAt
  <2> QED BY <1>2, <2>1, <2>6, LooksAt
<1>3. ASSUME Migrate(c) PROVE SlotsFit'
  <2>1. CASE Then(c, "rewrite")
    BY <1>3, <2>1, OnwardFits DEF Migrate, Labels, Loose
  <2>2. CASE Done(c)
    BY <1>3, <2>2, DoneFitsSlots, DataStays DEF Migrate
  <2> QED BY <1>3, <2>1, <2>2 DEF Migrate
<1>4. ASSUME Rebuild(c) PROVE SlotsFit'
  <2>1. CASE Then(c, "rewrite")
    BY <1>4, <2>1, OnwardFits DEF Rebuild, Labels, Loose
  <2>2. CASE Done(c)
    BY <1>4, <2>2, DoneFitsSlots, DataStays DEF Rebuild
  <2> QED BY <1>4, <2>1, <2>2 DEF Rebuild
<1>5. ASSUME Rewrite(c) PROVE SlotsFit'
  <2>1. /\ DOMAIN entries' = DOMAIN entries
        /\ \A i \in DOMAIN entries : /\ entries'[i].orig = entries[i].orig
                                     /\ entries'[i].at = IF i = id[c] THEN dst[c] ELSE entries[i].at
    BY <1>5 DEF Rewrite
  <2>2. RowsKeepOrig
    BY <2>1 DEF RowsKeepOrig
  <2>3. /\ dst[c] \in TrashPaths /\ dst[c] # Nowhere
        /\ Mark(dst[c]) = "id" => Number(dst[c]) = id[c]
    BY <1>5, RepairPath, PathsAreSomewhere DEF Rewrite
  <2>4. id[c] \in DOMAIN entries => SlotOf(dst[c]) = Slot[entries[id[c]].orig]
    BY <2>3 DEF SlotsFit, FitsAt
  <2>5. RowsFit(entries')
    BY <2>1, <2>3, <2>4 DEF RowsFit, SlotsFit
  <2> QED BY <1>0, <1>5, <2>2, <2>5, LooseFits DEF Rewrite
<1> QED BY <1>1, <1>2, <1>3, <1>4, <1>5

LEMMA RestFits ==
  ASSUME TypeInv, SlotsFit,
         \/ UNCHANGED vars \/ (\E p \in Lib : Arrive(p)) \/ Crash
         \/ \E c \in Clients : TransactionFails(c)
  PROVE  SlotsFit'
<1>1. CASE UNCHANGED vars \/ \E p \in Lib : Arrive(p)
  BY <1>1 DEF Arrive, vars, request, SlotsFit
<1>2. CASE Crash
  <2>1. \A c \in Clients : FitsAt(entries, "idle", 0, Nowhere, Nowhere, {})
    BY DEF FitsAt, Loose
  <2> QED BY <1>2, <2>1 DEF Crash, SlotsFit
<1>3. ASSUME NEW c \in Clients, TransactionFails(c) PROVE SlotsFit'
  <2>1. CASE Done(c)
    BY <1>3, <2>1, DoneFitsSlots, DataStays DEF TransactionFails
  <2>2. CASE Goto(c, "next", 0, Nowhere, Nowhere, todo[c])
    <3>1. "next" \in Loose /\ todo[c] \in SUBSET todo[c]
      BY DEF Loose
    <3> QED BY <1>3, <2>2, <3>1, LooseFits, DataStays DEF TransactionFails
  <2> QED BY <1>3, <2>1, <2>2 DEF TransactionFails
<1> QED BY <1>1, <1>2, <1>3

LEMMA SlotsStart == ASSUME Init PROVE SlotsFit
<1>1. \A c \in Clients : FitsAt(entries, pc[c], id[c], src[c], dst[c], todo[c])
  BY DEF Init, FitsAt, Loose
<1>2. RowsFit(entries)
  <2>1. CASE entries = <<>>
    BY <2>1 DEF RowsFit
  <2>2. ASSUME NEW p \in Lib, entries = <<[orig |-> p, at |-> Legacy(p)]>>
        PROVE  RowsFit(entries)
    <3>1. DOMAIN entries = {1} /\ entries[1].at = Legacy(p) /\ entries[1].orig = p
      BY <2>2
    <3>2. SlotOf(Legacy(p)) = Slot[p] /\ Area(Legacy(p)) = "legacy"
      BY SlotsTell, PathsTell
    <3> QED BY <3>1, <3>2 DEF RowsFit
  <2> QED BY <2>1, <2>2 DEF Init
<1> QED BY <1>1, <1>2 DEF SlotsFit

LEMMA SlotsStep == ASSUME TypeInv, SlotsFit, [Next]_vars PROVE SlotsFit'
  BY DeleteFits, RestoreFits, PurgeFits, RepairFits, RestFits DEF Next, Step, Ask, Serve

\* Where a move, a copy or a row goes to is a path.
LEMMA DestinationIs ==
  ASSUME TypeInv, NEW c \in Clients,
         pc[c] \in {"bin", "record", "place", "unbin", "migrate", "copy", "rewrite"}
  PROVE  dst[c] \in LibraryPaths \cup TrashPaths /\ dst[c] # Nowhere
<1>1. CASE pc[c] \in {"bin", "record"}
  <2>1. \E p \in Lib : dst[c] \in {InBin(p)} \cup {ByInode(p, m) : m \in 1..MaxFiles}
    BY <1>1, LocalsAre DEF LocalsFit
  <2> QED BY <2>1, PathsTell, PathsAreSomewhere
<1>2. CASE pc[c] \in {"place", "unbin"}
  BY <1>2, LocalsAre, PathsAreSomewhere DEF LocalsFit
<1>3. CASE pc[c] \in {"migrate", "copy", "rewrite"}
  BY <1>3, RepairPath, PathsAreSomewhere
<1> QED BY <1>1, <1>2, <1>3

-----------------------------------------------------------------------------
(***************************************************************************)
(* What holds at a slot where no two requests have been at work at once.   *)
(***************************************************************************)

\* A request has the slot in hand, or will come to it.
HandAt(s, c)  == src[c] # Nowhere /\ SlotOf(src[c]) = s
WorksAt(s, c) == HandAt(s, c) \/ \E e \in todo[c] : Slot[OrigIn(e)] = s
Alone(s)      == \A c, d \in Clients : WorksAt(s, c) /\ WorksAt(s, d) => c = d

\* A name with an inode is that of its file.
NamesAt(s) ==
  \A q \in DOMAIN fs :
    SlotOf(q) = s /\ Area(q) = "bin" /\ Mark(q) = "inode" => fs[q] = Number(q)

\* As long as nothing failed, a row leads to its photo, its file is there but
\* while a request is at it, and no other row leads there.
RowHolds(i) ==
  /\ meant[i] # 0 /\ entries[i].at \in DOMAIN fs => photo[fs[entries[i].at]] = meant[i]
  /\ /\ meant[i] # 0 \/ Area(entries[i].at) = "bin"
     /\ \A c \in Clients : pc[c] \in {"forget", "rewrite"} => id[c] # i
     => entries[i].at \in DOMAIN fs
  /\ \A j \in DOMAIN entries : entries[i].at = entries[j].at => i = j

RowsAt(s) == faults = 0 => \A i \in DOMAIN entries : RowSlot(i) = s => RowHolds(i)

\* As long as nothing failed, a file of the trash has a row, or gets it next.
FileHolds(q) ==
  \/ Area(q) = "library" \/ q \in Listed
  \/ \E c \in Clients : pc[c] \in {"record", "rewrite"} /\ dst[c] = q

FilesAt(s) == faults = 0 => \A q \in DOMAIN fs : SlotOf(q) = s => FileHolds(q)

\* What a request listed is still so, but for the row in hand.
TodoHolds(s, c) ==
  \A e \in todo[c] :
    Slot[OrigIn(e)] = s =>
      /\ IdIn(e) \in DOMAIN entries
      /\ AtIn(e) = IF pc[c] \in {"migrate", "rewrite"} /\ IdIn(e) = id[c]
                   THEN dst[c] ELSE entries[IdIn(e)].at
      /\ pc[c] \in {"place", "unbin", "unlink", "forget", "copy"} => IdIn(e) # id[c]

\* A deletion moves to a free path, and its row is new.
BinHolds(c) ==
  /\ pc[c] = "bin" => /\ src[c] \in DOMAIN fs /\ dst[c] \notin DOMAIN fs
                      /\ Mark(dst[c]) = "inode" => Number(dst[c]) = fs[src[c]]
  /\ pc[c] = "record" => dst[c] \in DOMAIN fs
  /\ pc[c] \in {"bin", "record"} /\ faults = 0 => dst[c] \notin Listed

\* A restore and a deletion for ever are at the path of their row.
HandHolds(c) ==
  /\ pc[c] \in {"place", "unbin", "unlink", "forget", "migrate"} =>
       id[c] \in DOMAIN entries /\ src[c] = entries[id[c]].at
  /\ pc[c] = "unbin" => src[c] \in DOMAIN fs
  /\ pc[c] = "forget" => src[c] \notin DOMAIN fs

\* A repair puts a file where no row leads, and the row follows.
RepairHolds(c) ==
  /\ pc[c] = "migrate" => src[c] \in DOMAIN fs /\ Area(src[c]) = "legacy"
  /\ pc[c] \in {"migrate", "copy"} => dst[c] \notin DOMAIN fs \cap Listed
  /\ pc[c] \in {"migrate", "copy"} /\ faults = 0 => dst[c] \notin DOMAIN fs
  /\ pc[c] \in {"migrate", "copy", "rewrite"} /\ faults = 0 => dst[c] \notin Listed
  /\ pc[c] \in {"copy", "rewrite"} => id[c] \in DOMAIN entries
  /\ pc[c] = "copy" => /\ src[c] \in DOMAIN fs /\ entries[id[c]].at \notin DOMAIN fs
                       /\ faults = 0 => meant[id[c]] = 0
  /\ pc[c] = "rewrite" => dst[c] \in DOMAIN fs
  /\ pc[c] = "rewrite" /\ faults = 0 =>
       /\ entries[id[c]].at \notin DOMAIN fs
       /\ meant[id[c]] # 0 => photo[fs[dst[c]]] = meant[id[c]]

ClientHolds(s, c) ==
  TodoHolds(s, c) /\ (HandAt(s, c) => BinHolds(c) /\ HandHolds(c) /\ RepairHolds(c))

HoldsAt(s) ==
  NamesAt(s) /\ RowsAt(s) /\ FilesAt(s) /\ \A c \in Clients : ClientHolds(s, c)

TrashInv ==
  TypeInv /\ SlotsFit /\ Shared \subseteq crossed /\ \A s \in Slots \ crossed : HoldsAt(s)

\* A slot that no two requests share has one at most.
LEMMA WorkIs ==
  ASSUME NEW s, NEW c, WorksAt(s, c)
  PROVE  s \in AtWork(c)
  BY DEF WorksAt, HandAt, AtWork, OrigIn

OneAtEach == \A s \in Slots \ Shared : Alone(s)

LEMMA AloneIs == OneAtEach
  BY WorkIs DEF OneAtEach, Alone, Shared

\* The rows and the files, with their types.
LEMMA DataAre ==
  ASSUME TypeInv
  PROVE  /\ \A i \in DOMAIN entries :
              /\ entries[i].orig \in Lib /\ entries[i].at \in TrashPaths
              /\ Area(entries[i].at) \in {"bin", "legacy"}
              /\ i \in 1..ids /\ i \in 1..MaxIds
         /\ \A q \in DOMAIN fs : fs[q] \in 1..Len(photo)
         /\ \A q, r \in DOMAIN fs : fs[q] = fs[r] => q = r
         /\ \A q : q \in Listed <=> \E i \in DOMAIN entries : entries[i].at = q
         /\ \A q \in LibraryPaths : Area(q) = "library"
<1>1. MaxIds \in Nat /\ ids \in 0..MaxIds
  BY TrashAssumption DEF TypeInv, DataTyped
<1>2. \A i \in DOMAIN entries :
        /\ entries[i].orig \in Lib /\ entries[i].at \in TrashPaths
        /\ i \in 1..ids /\ i \in 1..MaxIds
  BY <1>1 DEF TypeInv, DataTyped
<1>3. \A i \in DOMAIN entries : Area(entries[i].at) \in {"bin", "legacy"}
  BY <1>2, PathsTell
<1>4. /\ \A q \in DOMAIN fs : fs[q] \in 1..Len(photo)
      /\ \A q, r \in DOMAIN fs : fs[q] = fs[r] => q = r
  BY DEF TypeInv, DataTyped
<1>5. \A q : q \in Listed <=> \E i \in DOMAIN entries : entries[i].at = q
  BY DEF Listed
<1>6. \A q \in LibraryPaths : Area(q) = "library"
  BY PathsTell
<1> QED BY <1>2, <1>3, <1>4, <1>5, <1>6

\* What the locals of a request tell of slots.
LEMMA HandTells ==
  ASSUME TypeInv, SlotsFit, NEW c \in Clients
  PROVE  /\ src[c] = Nowhere <=> pc[c] \in Loose
         /\ dst[c] # Nowhere => src[c] # Nowhere /\ SlotOf(dst[c]) = SlotOf(src[c])
         /\ src[c] # Nowhere /\ id[c] \in DOMAIN entries => RowSlot(id[c]) = SlotOf(src[c])
         /\ \A e \in todo[c] : /\ IdIn(e) \in 1..ids /\ SlotOf(AtIn(e)) = Slot[OrigIn(e)]
                               /\ OrigIn(e) \in Lib
                               /\ IdIn(e) \in DOMAIN entries =>
                                    RowSlot(IdIn(e)) = Slot[OrigIn(e)] /\ entries[IdIn(e)].orig = OrigIn(e)
<1>1. FitsAt(entries, pc[c], id[c], src[c], dst[c], todo[c])
  BY DEF SlotsFit
<1>2. \A e \in todo[c] : IdIn(e) \in 1..ids /\ OrigIn(e) \in Lib
  BY LocalsAre, TodoTyped
<1> QED BY <1>1, <1>2 DEF FitsAt, RowSlot

LEMMA RowsTell ==
  ASSUME SlotsFit, NEW i \in DOMAIN entries
  PROVE  /\ SlotOf(entries[i].at) = RowSlot(i)
         /\ Area(entries[i].at) = "bin" /\ Mark(entries[i].at) = "id" => Number(entries[i].at) = i
  BY DEF SlotsFit, RowsFit, RowSlot

\* A request that is alone at a slot: the others have no path, no row and nothing
\* listed of it.
Away(s, d) ==
  /\ ~HandAt(s, d)
  /\ \A e \in todo[d] : Slot[OrigIn(e)] # s
  /\ \A i \in DOMAIN entries : RowSlot(i) = s /\ pc[d] \notin Loose => id[d] # i
  /\ dst[d] # Nowhere => SlotOf(dst[d]) # s

LEMMA AwayIs ==
  ASSUME TypeInv, SlotsFit, NEW s, NEW d \in Clients, ~WorksAt(s, d)
  PROVE  Away(s, d)
<1>1. ~HandAt(s, d) /\ \A e \in todo[d] : Slot[OrigIn(e)] # s
  BY DEF WorksAt
<1> QED BY <1>1, HandTells DEF Away, HandAt

LEMMA OthersAway ==
  ASSUME TypeInv, SlotsFit, NEW s, Alone(s), NEW c \in Clients, WorksAt(s, c),
         NEW d \in Clients, d # c
  PROVE  Away(s, d)
  BY AwayIs DEF Alone

\* It stays so while they do not move.
LEMMA AwayHolds ==
  ASSUME NEW s, NEW d, Away(s, d), Same(d)
  PROVE  ClientHolds(s, d)'
  BY DEF Away, Same, ClientHolds, TodoHolds, HandAt

\* No request is between a file of the slot and its row.
Settled(s) ==
  \A d \in Clients : pc[d] \in {"record", "forget", "rewrite"} => Away(s, d)

LEMMA SettledIs ==
  ASSUME TypeInv, SlotsFit, NEW s, Alone(s), NEW c \in Clients, WorksAt(s, c),
         pc[c] \notin {"record", "forget", "rewrite"}
  PROVE  Settled(s)
  BY OthersAway DEF Settled

LEMMA SettledRows ==
  ASSUME NEW s, Settled(s), RowsAt(s), faults = 0, NEW i \in DOMAIN entries, RowSlot(i) = s
  PROVE  /\ meant[i] # 0 /\ entries[i].at \in DOMAIN fs => photo[fs[entries[i].at]] = meant[i]
         /\ meant[i] # 0 \/ Area(entries[i].at) = "bin" => entries[i].at \in DOMAIN fs
         /\ \A j \in DOMAIN entries : entries[i].at = entries[j].at => i = j
  BY DEF Settled, Away, RowsAt, RowHolds, Loose

LEMMA SettledFiles ==
  ASSUME TypeInv, NEW s, Settled(s), FilesAt(s), faults = 0, NEW q \in DOMAIN fs, SlotOf(q) = s
  PROVE  Area(q) = "library" \/ q \in Listed
<1>1. q # Nowhere
  BY PathsAreSomewhere DEF TypeInv, DataTyped
<1> QED BY <1>1 DEF Settled, Away, FilesAt, FileHolds

-----------------------------------------------------------------------------
\* A step that changes no data, and takes no row and no new file out of a hand.
LEMMA ControlHolds ==
  ASSUME NEW s, HoldsAt(s), NEW c \in Clients, \A d \in Clients : d # c => Same(d),
         pc[c] \notin {"record", "forget", "rewrite"},
         UNCHANGED <<disk, entries, ids, meant, faults>>, ClientHolds(s, c)'
  PROVE  HoldsAt(s)'
<1>0. fs' = fs /\ photo' = photo /\ entries' = entries /\ meant' = meant /\ faults' = faults
  BY DEF disk
<1>1. NamesAt(s)'
  BY <1>0 DEF HoldsAt, NamesAt, Area, Mark, Number
<1>2. RowsAt(s)'
  <2> SUFFICES ASSUME faults = 0, NEW i \in DOMAIN entries, RowSlot(i) = s PROVE RowHolds(i)'
    BY <1>0 DEF RowsAt, RowSlot
  <2>1. RowHolds(i)
    BY DEF HoldsAt, RowsAt
  <2>2. (\A d \in Clients : pc'[d] \in {"forget", "rewrite"} => id'[d] # i)
        => \A d \in Clients : pc[d] \in {"forget", "rewrite"} => id[d] # i
    BY DEF Same
  <2> QED BY <1>0, <2>1, <2>2 DEF RowHolds, Area
<1>3. FilesAt(s)'
  <2> SUFFICES ASSUME faults = 0, NEW q \in DOMAIN fs, SlotOf(q) = s PROVE FileHolds(q)'
    BY <1>0 DEF FilesAt
  <2>1. FileHolds(q)
    BY DEF HoldsAt, FilesAt
  <2>2. (\E d \in Clients : pc[d] \in {"record", "rewrite"} /\ dst[d] = q)
        => \E d \in Clients : pc'[d] \in {"record", "rewrite"} /\ dst'[d] = q
    BY DEF Same
  <2> QED BY <1>0, <2>1, <2>2 DEF FileHolds, Area, Listed
<1>4. ASSUME NEW d \in Clients, d # c PROVE ClientHolds(s, d)'
  <2>1. ClientHolds(s, d) /\ Same(d)
    BY <1>4 DEF HoldsAt
  <2>2. TodoHolds(s, d)'
    BY <1>0, <2>1 DEF ClientHolds, TodoHolds, Same
  <2>3. HandAt(s, d)' => HandAt(s, d)
    BY <2>1 DEF HandAt, Same
  <2>4. BinHolds(d) => BinHolds(d)'
    BY <1>0, <2>1 DEF BinHolds, Same, Listed, Mark, Number
  <2>5. HandHolds(d) => HandHolds(d)'
    BY <1>0, <2>1 DEF HandHolds, Same
  <2>6. RepairHolds(d) => RepairHolds(d)'
    BY <1>0, <2>1 DEF RepairHolds, Same, Listed, Area
  <2> QED BY <2>1, <2>2, <2>3, <2>4, <2>5, <2>6 DEF ClientHolds
<1> QED BY <1>1, <1>2, <1>3, <1>4 DEF HoldsAt

\* A step at another slot leaves the files and rows of this one.
Untouched(s) ==
  /\ \A q : SlotOf(q) = s => /\ q \in DOMAIN fs' <=> q \in DOMAIN fs
                             /\ q \in DOMAIN fs => fs'[q] = fs[q]
  /\ \A n \in 1..Len(photo) : photo'[n] = photo[n]
  /\ \A i \in DOMAIN entries :
       RowSlot(i) = s => i \in DOMAIN entries' /\ entries'[i] = entries[i] /\ meant'[i] = meant[i]
  /\ \A i \in DOMAIN entries' :
       Slot[entries'[i].orig] = s => i \in DOMAIN entries /\ entries'[i] = entries[i]
  /\ faults' = faults

\* What a client that has nothing in hand of the slot listed of it.
LEMMA LooseHolds ==
  ASSUME NEW s, NEW c, ~HandAt(s, c)',
         \A e \in todo'[c] : Slot[OrigIn(e)] = s =>
           /\ IdIn(e) \in DOMAIN entries' /\ AtIn(e) = entries'[IdIn(e)].at
           /\ IdIn(e) # id'[c]
  PROVE  ClientHolds(s, c)'
  BY DEF ClientHolds, TodoHolds

LEMMA ElsewhereHolds ==
  ASSUME TypeInv, SlotsFit, SlotsFit', NEW s, HoldsAt(s), Untouched(s), NEW c \in Clients,
         \A d \in Clients : d # c => Same(d),
         src[c] # Nowhere, SlotOf(src[c]) # s, ~HandAt(s, c)', todo'[c] \subseteq todo[c],
         id'[c] \in {0, id[c]}
  PROVE  HoldsAt(s)'
<1>1. \A q : SlotOf(q) = s => /\ q \in DOMAIN fs' <=> q \in DOMAIN fs
                              /\ q \in DOMAIN fs => fs'[q] = fs[q]
  BY DEF Untouched
<1>2. \A i \in DOMAIN entries :
        RowSlot(i) = s => i \in DOMAIN entries' /\ entries'[i] = entries[i] /\ meant'[i] = meant[i]
  BY DEF Untouched
<1>3. \A i \in DOMAIN entries' :
        Slot[entries'[i].orig] = s => i \in DOMAIN entries /\ entries'[i] = entries[i] /\ RowSlot(i) = s
  BY DEF Untouched, RowSlot
<1>4. \A i \in DOMAIN entries' : SlotOf(entries'[i].at) = Slot[entries'[i].orig]
  BY DEF SlotsFit, RowsFit
<1>5. \A q \in DOMAIN fs : fs[q] \in 1..Len(photo) /\ photo'[fs[q]] = photo[fs[q]]
  BY DataAre DEF Untouched
<1>6. id[c] \in DOMAIN entries => RowSlot(id[c]) # s
  BY HandTells
<1>7. \A q : SlotOf(q) = s => (q \in Listed' <=> q \in Listed)
  BY <1>2, <1>3, <1>4, RowsTell DEF Listed
<1>8. faults' = faults
  BY DEF Untouched
<1>10. NamesAt(s)'
  BY <1>1 DEF HoldsAt, NamesAt, Area, Mark, Number
<1>11. RowsAt(s)'
  <2> SUFFICES ASSUME faults = 0, NEW i \in DOMAIN entries', Slot[entries'[i].orig] = s
      PROVE  RowHolds(i)'
    BY <1>8 DEF RowsAt, RowSlot
  <2>1. i \in DOMAIN entries /\ entries'[i] = entries[i] /\ RowSlot(i) = s /\ meant'[i] = meant[i]
    BY <1>2, <1>3
  <2>2. RowHolds(i) /\ SlotOf(entries[i].at) = s
    BY <2>1, RowsTell DEF HoldsAt, RowsAt
  <2>3. (\A d \in Clients : pc'[d] \in {"forget", "rewrite"} => id'[d] # i)
        => \A d \in Clients : pc[d] \in {"forget", "rewrite"} => id[d] # i
    BY <1>6, <2>1 DEF Same
  <2>4. \A j \in DOMAIN entries' : entries'[i].at = entries'[j].at => i = j
    <3> SUFFICES ASSUME NEW j \in DOMAIN entries', entries'[i].at = entries'[j].at PROVE i = j
      OBVIOUS
    <3>1. j \in DOMAIN entries /\ entries'[j] = entries[j]
      BY <1>3, <1>4, <2>1, <2>2
    <3> QED BY <2>1, <2>2, <3>1 DEF RowHolds
  <2>5. /\ entries[i].at \in DOMAIN fs' <=> entries[i].at \in DOMAIN fs
        /\ entries[i].at \in DOMAIN fs => photo'[fs'[entries[i].at]] = photo[fs[entries[i].at]]
    BY <1>1, <1>5, <2>2
  <2> QED BY <2>1, <2>2, <2>3, <2>4, <2>5 DEF RowHolds, Area
<1>12. FilesAt(s)'
  <2> SUFFICES ASSUME faults = 0, NEW q \in DOMAIN fs', SlotOf(q) = s PROVE FileHolds(q)'
    BY <1>8 DEF FilesAt
  <2>1. q \in DOMAIN fs /\ FileHolds(q)
    BY <1>1 DEF HoldsAt, FilesAt
  <2>2. q # Nowhere
    BY <2>1, PathsAreSomewhere DEF TypeInv, DataTyped
  <2>3. dst[c] # q
    BY <2>2, HandTells
  <2>4. (\E d \in Clients : pc[d] \in {"record", "rewrite"} /\ dst[d] = q)
        => \E d \in Clients : pc'[d] \in {"record", "rewrite"} /\ dst'[d] = q
    BY <2>3 DEF Same
  <2> QED BY <1>7, <2>1, <2>4 DEF FileHolds, Area
<1>13. ASSUME NEW d \in Clients, d # c PROVE ClientHolds(s, d)'
  <2>1. ClientHolds(s, d) /\ Same(d)
    BY <1>13 DEF HoldsAt
  <2>2. TodoHolds(s, d)'
    <3>1. \A e \in todo[d] :
            Slot[OrigIn(e)] = s =>
              /\ IdIn(e) \in DOMAIN entries' /\ entries'[IdIn(e)] = entries[IdIn(e)]
      BY <1>2, <2>1, HandTells DEF ClientHolds, TodoHolds
    <3> QED BY <2>1, <3>1 DEF ClientHolds, TodoHolds, Same
  <2>3. CASE ~HandAt(s, d)
    BY <2>1, <2>2, <2>3 DEF ClientHolds, HandAt, Same
  <2>4. CASE HandAt(s, d)
    <3>0. BinHolds(d) /\ HandHolds(d) /\ RepairHolds(d)
      BY <2>1, <2>4 DEF ClientHolds
    <3>1. /\ src[d] \in DOMAIN fs' <=> src[d] \in DOMAIN fs
          /\ src[d] \in DOMAIN fs => fs'[src[d]] = fs[src[d]]
      BY <1>1, <2>4 DEF HandAt
    <3>2. dst[d] # Nowhere =>
            /\ dst[d] \in DOMAIN fs' <=> dst[d] \in DOMAIN fs
            /\ dst[d] \in DOMAIN fs => /\ fs'[dst[d]] = fs[dst[d]]
                                       /\ photo'[fs'[dst[d]]] = photo[fs[dst[d]]]
            /\ dst[d] \in Listed' <=> dst[d] \in Listed
      BY <1>1, <1>5, <1>7, <2>4, HandTells DEF HandAt
    <3>3. id[d] \in DOMAIN entries =>
            /\ id[d] \in DOMAIN entries' /\ entries'[id[d]] = entries[id[d]]
            /\ meant'[id[d]] = meant[id[d]]
            /\ entries[id[d]].at \in DOMAIN fs' <=> entries[id[d]].at \in DOMAIN fs
      BY <1>1, <1>2, <2>4, HandTells, RowsTell DEF HandAt
    <3>4. pc[d] \in {"bin", "record", "migrate", "copy", "rewrite"} => dst[d] # Nowhere
      BY DestinationIs
    <3>5. BinHolds(d)'
      BY <1>8, <2>1, <3>0, <3>1, <3>2, <3>4 DEF BinHolds, Same, Mark, Number
    <3>6. HandHolds(d)'
      BY <2>1, <3>0, <3>1, <3>3 DEF HandHolds, Same
    <3>7. RepairHolds(d)'
      BY <1>8, <2>1, <3>0, <3>1, <3>2, <3>3, <3>4 DEF RepairHolds, Same, Area
    <3> QED BY <2>2, <3>5, <3>6, <3>7 DEF ClientHolds
  <2> QED BY <2>3, <2>4
<1>14. ClientHolds(s, c)'
  <2> SUFFICES ASSUME NEW e \in todo[c], Slot[OrigIn(e)] = s
      PROVE  /\ IdIn(e) \in DOMAIN entries' /\ AtIn(e) = entries'[IdIn(e)].at
             /\ IdIn(e) # id'[c]
    BY LooseHolds
  <2>1. /\ IdIn(e) \in DOMAIN entries /\ IdIn(e) \in 1..ids /\ RowSlot(IdIn(e)) = s
    BY HandTells DEF HoldsAt, ClientHolds, TodoHolds
  <2>2. IdIn(e) # id[c] /\ IdIn(e) # 0
    BY <1>6, <2>1, TrashAssumption DEF TypeInv, DataTyped
  <2>3. AtIn(e) = entries[IdIn(e)].at
    BY <2>2 DEF HoldsAt, ClientHolds, TodoHolds
  <2> QED BY <1>2, <2>1, <2>2, <2>3
<1> QED BY <1>10, <1>11, <1>12, <1>13, <1>14 DEF HoldsAt

-----------------------------------------------------------------------------
(***************************************************************************)
(* Each step keeps what holds at a slot that its request is alone at.      *)
(***************************************************************************)

Orderly(s) == TypeInv /\ SlotsFit /\ HoldsAt(s) /\ Alone(s)

\* The step of a request that has another slot in hand.
LEMMA LeavesSlot ==
  ASSUME NEW s, Orderly(s), SlotsFit', Untouched(s), NEW c \in Clients,
         ~HandAt(s, c), pc[c] \notin Loose,
         \/ \E label \in Labels : Then(c, label)
         \/ \E label \in Labels : Goto(c, label, 0, Nowhere, Nowhere, todo[c])
         \/ Done(c)
  PROVE  HoldsAt(s)'
<1>0. TypeInv /\ SlotsFit /\ HoldsAt(s) /\ src[c] # Nowhere /\ SlotOf(src[c]) # s
  BY HandTells DEF Orderly, HandAt
<1>1. /\ \A d \in Clients : d # c => Same(d)
      /\ todo'[c] \in {todo[c], {}} /\ id'[c] \in {0, id[c]} /\ src'[c] \in {src[c], Nowhere}
  BY <1>0, GotoIs DEF Then, Done
<1>2. ~HandAt(s, c)' /\ todo'[c] \subseteq todo[c]
  BY <1>0, <1>1 DEF HandAt
<1> QED BY <1>0, <1>1, <1>2, ElsewhereHolds

\* A move there.
LEMMA MoveElsewhere ==
  ASSUME NEW s, Orderly(s), NEW c \in Clients, ~HandAt(s, c), dst[c] # Nowhere, Move(c),
         UNCHANGED <<photo, entries, ids, meant, faults>>
  PROVE  Untouched(s)
<1>1. SlotOf(src[c]) # s /\ SlotOf(dst[c]) # s
  BY HandTells DEF Orderly, HandAt
<1>2. \A q : SlotOf(q) = s => /\ q \in DOMAIN fs' <=> q \in DOMAIN fs
                              /\ q \in DOMAIN fs => fs'[q] = fs[q]
  BY <1>1 DEF Move, Renamed
<1> QED BY <1>2 DEF Untouched, RowSlot

\* The step of a request that has this slot in hand: no other is at it.
LEMMA OnlyOneAt ==
  ASSUME NEW s, Orderly(s), NEW c \in Clients, WorksAt(s, c),
         \A d \in Clients : d # c => Same(d),
         NamesAt(s)', RowsAt(s)', FilesAt(s)', ClientHolds(s, c)'
  PROVE  HoldsAt(s)'
<1>1. ASSUME NEW d \in Clients, d # c PROVE ClientHolds(s, d)'
  BY <1>1, OthersAway, AwayHolds DEF Orderly
<1> QED BY <1>1 DEF HoldsAt

LEMMA MoveToBinHolds ==
  ASSUME NEW s, Orderly(s), SlotsFit', NEW c \in Clients, MoveToBin(c)
  PROVE  HoldsAt(s)'
<1>0. /\ TypeInv /\ SlotsFit /\ HoldsAt(s) /\ Alone(s) /\ pc[c] = "bin" /\ dst[c] # Nowhere
      /\ pc[c] \notin Loose /\ "record" \in Labels
      /\ UNCHANGED <<photo, entries, ids, meant, faults>> /\ Listed' = Listed
  BY DestinationIs DEF Orderly, MoveToBin, Loose, Labels, Listed
<1>1. CASE ~HandAt(s, c)
  <2>1. Untouched(s)
    BY <1>0, <1>1, MoveElsewhere DEF MoveToBin
  <2> QED BY <1>0, <1>1, <2>1, LeavesSlot DEF MoveToBin
<1>2. ASSUME HandAt(s, c) PROVE HoldsAt(s)'
  <2>0. /\ src[c] \in DOMAIN fs /\ dst[c] \notin DOMAIN fs
        /\ Mark(dst[c]) = "inode" => Number(dst[c]) = fs[src[c]]
        /\ faults = 0 => dst[c] \notin Listed
        /\ TodoHolds(s, c) /\ WorksAt(s, c)
    BY <1>0, <1>2 DEF HoldsAt, ClientHolds, BinHolds, WorksAt
  <2>1. fs' = Renamed(src[c], dst[c]) /\ Then(c, "record")
    BY <2>0 DEF MoveToBin, Move, Exists
  <2>2. /\ pc'[c] = "record" /\ id'[c] = id[c] /\ src'[c] = src[c] /\ dst'[c] = dst[c]
        /\ todo'[c] = todo[c] /\ \A d \in Clients : d # c => Same(d)
    BY <1>0, <2>1, GotoIs DEF Then
  <2>3. /\ DOMAIN fs' = (DOMAIN fs \ {src[c]}) \cup {dst[c]} /\ fs'[dst[c]] = fs[src[c]]
        /\ \A q \in DOMAIN fs : q # src[c] /\ q # dst[c] => fs'[q] = fs[q]
    BY <2>1 DEF Renamed
  <2>4. Area(src[c]) = "library"
    <3>1. \E p \in Lib : src[c] = Home(p)
      BY <1>0, LocalsAre DEF LocalsFit
    <3> QED BY <3>1, PathsTell
  <2>5. Settled(s)
    BY <1>0, <2>0, SettledIs
  <2>6. NamesAt(s)'
    BY <1>0, <2>0, <2>3 DEF HoldsAt, NamesAt, Area, Mark, Number
  <2>7. RowsAt(s)'
    <3> SUFFICES ASSUME faults = 0, NEW i \in DOMAIN entries, RowSlot(i) = s PROVE RowHolds(i)'
      BY <1>0 DEF RowsAt, RowSlot
    <3>1. entries[i].at # src[c] /\ entries[i].at # dst[c]
      BY <1>0, <2>0, <2>4, DataAre
    <3>2. /\ entries[i].at \in DOMAIN fs' <=> entries[i].at \in DOMAIN fs
          /\ entries[i].at \in DOMAIN fs => fs'[entries[i].at] = fs[entries[i].at]
      BY <2>3, <3>1
    <3>3. RowsAt(s)
      BY <1>0 DEF HoldsAt
    <3>4. /\ meant[i] # 0 /\ entries[i].at \in DOMAIN fs => photo[fs[entries[i].at]] = meant[i]
          /\ meant[i] # 0 \/ Area(entries[i].at) = "bin" => entries[i].at \in DOMAIN fs
          /\ \A j \in DOMAIN entries : entries[i].at = entries[j].at => i = j
      BY <2>5, <3>3, SettledRows
    <3> QED BY <1>0, <3>2, <3>4 DEF RowHolds, Area
  <2>8. FilesAt(s)'
    <3> SUFFICES ASSUME faults = 0, NEW q \in DOMAIN fs', SlotOf(q) = s PROVE FileHolds(q)'
      BY <1>0 DEF FilesAt
    <3>1. q # dst[c] => q \in DOMAIN fs /\ (Area(q) = "library" \/ q \in Listed)
      BY <1>0, <2>3, <2>5, SettledFiles DEF HoldsAt
    <3> QED BY <1>0, <2>2, <3>1 DEF FileHolds, Area
  <2>9. ClientHolds(s, c)'
    BY <1>0, <2>0, <2>2, <2>3 DEF ClientHolds, TodoHolds, BinHolds, HandHolds, RepairHolds
  <2> QED BY <2>0, <2>2, <2>6, <2>7, <2>8, <2>9, OnlyOneAt
<1> QED BY <1>1, <1>2

LEMMA MoveFromBinHolds ==
  ASSUME NEW s, Orderly(s), SlotsFit', NEW c \in Clients, MoveFromBin(c)
  PROVE  HoldsAt(s)'
<1>0. /\ TypeInv /\ SlotsFit /\ HoldsAt(s) /\ Alone(s) /\ pc[c] = "unbin" /\ dst[c] # Nowhere
      /\ pc[c] \notin Loose /\ "forget" \in Labels
      /\ UNCHANGED <<photo, entries, ids, meant, faults>> /\ Listed' = Listed
  BY DestinationIs DEF Orderly, MoveFromBin, Loose, Labels, Listed
<1>1. CASE ~HandAt(s, c)
  <2>1. Untouched(s)
    BY <1>0, <1>1, MoveElsewhere DEF MoveFromBin
  <2> QED BY <1>0, <1>1, <2>1, LeavesSlot DEF MoveFromBin
<1>2. ASSUME HandAt(s, c) PROVE HoldsAt(s)'
  <2>0. /\ src[c] \in DOMAIN fs /\ id[c] \in DOMAIN entries /\ src[c] = entries[id[c]].at
        /\ RowSlot(id[c]) = s /\ TodoHolds(s, c) /\ WorksAt(s, c)
    BY <1>0, <1>2, HandTells DEF HoldsAt, ClientHolds, HandHolds, WorksAt, HandAt
  <2>1. fs' = Renamed(src[c], dst[c]) /\ Then(c, "forget")
    BY <2>0 DEF MoveFromBin, Move, Exists
  <2>2. /\ pc'[c] = "forget" /\ id'[c] = id[c] /\ src'[c] = src[c] /\ dst'[c] = dst[c]
        /\ todo'[c] = todo[c] /\ \A d \in Clients : d # c => Same(d)
    BY <1>0, <2>1, GotoIs DEF Then
  <2>3. /\ DOMAIN fs' = (DOMAIN fs \ {src[c]}) \cup {dst[c]} /\ fs'[dst[c]] = fs[src[c]]
        /\ \A q \in DOMAIN fs : q # src[c] /\ q # dst[c] => fs'[q] = fs[q]
    BY <2>1 DEF Renamed
  <2>4. Area(dst[c]) = "library" /\ \A i \in DOMAIN entries : entries[i].at # dst[c]
    <3>1. dst[c] \in LibraryPaths
      BY <1>0, LocalsAre DEF LocalsFit
    <3>2. Area(dst[c]) = "library"
      BY <3>1, PathsTell
    <3> QED BY <3>2, <1>0, DataAre
  <2>5. Settled(s) /\ RowsAt(s)
    BY <1>0, <2>0, SettledIs DEF HoldsAt
  <2>6. NamesAt(s)'
    BY <1>0, <2>3, <2>4 DEF HoldsAt, NamesAt, Area, Mark, Number
  <2>7. RowsAt(s)'
    <3> SUFFICES ASSUME faults = 0, NEW i \in DOMAIN entries, RowSlot(i) = s PROVE RowHolds(i)'
      BY <1>0 DEF RowsAt, RowSlot
    <3>1. /\ meant[i] # 0 /\ entries[i].at \in DOMAIN fs => photo[fs[entries[i].at]] = meant[i]
          /\ meant[i] # 0 \/ Area(entries[i].at) = "bin" => entries[i].at \in DOMAIN fs
          /\ \A j \in DOMAIN entries : entries[i].at = entries[j].at => i = j
      BY <2>5, SettledRows
    <3>2. i # id[c] => entries[i].at # src[c]
      BY <2>0, <3>1
    <3>3. entries[i].at \in DOMAIN fs' => entries[i].at \in DOMAIN fs /\ fs'[entries[i].at] = fs[entries[i].at]
      BY <2>3, <2>4
    <3>4. i # id[c] /\ entries[i].at \in DOMAIN fs => entries[i].at \in DOMAIN fs'
      BY <2>3, <3>2
    <3>5. (\A d \in Clients : pc'[d] \in {"forget", "rewrite"} => id'[d] # i) => i # id[c]
      BY <2>2
    <3> QED BY <1>0, <3>1, <3>3, <3>4, <3>5 DEF RowHolds, Area
  <2>8. FilesAt(s)'
    <3> SUFFICES ASSUME faults = 0, NEW q \in DOMAIN fs', SlotOf(q) = s PROVE FileHolds(q)'
      BY <1>0 DEF FilesAt
    <3>1. q # dst[c] => q \in DOMAIN fs /\ (Area(q) = "library" \/ q \in Listed)
      BY <1>0, <2>3, <2>5, SettledFiles DEF HoldsAt
    <3> QED BY <1>0, <2>4, <3>1 DEF FileHolds, Area
  <2>9. ClientHolds(s, c)'
    BY <1>0, <2>0, <2>2, <2>3, <2>4 DEF ClientHolds, TodoHolds, BinHolds, HandHolds, RepairHolds
  <2> QED BY <2>0, <2>2, <2>6, <2>7, <2>8, <2>9, OnlyOneAt
<1> QED BY <1>1, <1>2

LEMMA MigrateHolds ==
  ASSUME NEW s, Orderly(s), SlotsFit', NEW c \in Clients, Migrate(c)
  PROVE  HoldsAt(s)'
<1>0. /\ TypeInv /\ SlotsFit /\ HoldsAt(s) /\ Alone(s) /\ pc[c] = "migrate" /\ dst[c] # Nowhere
      /\ pc[c] \notin Loose /\ "rewrite" \in Labels
      /\ UNCHANGED <<photo, entries, ids, meant, faults>> /\ Listed' = Listed
  BY DestinationIs DEF Orderly, Migrate, Loose, Labels, Listed
<1>1. CASE ~HandAt(s, c)
  <2>1. Untouched(s)
    BY <1>0, <1>1, MoveElsewhere DEF Migrate
  <2> QED BY <1>0, <1>1, <2>1, LeavesSlot DEF Migrate
<1>2. ASSUME HandAt(s, c) PROVE HoldsAt(s)'
  <2>0. /\ src[c] \in DOMAIN fs /\ Area(src[c]) = "legacy"
        /\ id[c] \in DOMAIN entries /\ src[c] = entries[id[c]].at
        /\ faults = 0 => dst[c] \notin DOMAIN fs /\ dst[c] \notin Listed
        /\ RowSlot(id[c]) = s /\ TodoHolds(s, c) /\ WorksAt(s, c)
    BY <1>0, <1>2, HandTells DEF HoldsAt, ClientHolds, HandHolds, RepairHolds, WorksAt, HandAt
  <2>1. fs' = Renamed(src[c], dst[c]) /\ Then(c, "rewrite")
    BY <2>0 DEF Migrate, Move, Exists
  <2>2. /\ pc'[c] = "rewrite" /\ id'[c] = id[c] /\ src'[c] = src[c] /\ dst'[c] = dst[c]
        /\ todo'[c] = todo[c] /\ \A d \in Clients : d # c => Same(d)
    BY <1>0, <2>1, GotoIs DEF Then
  <2>3. /\ DOMAIN fs' = (DOMAIN fs \ {src[c]}) \cup {dst[c]} /\ fs'[dst[c]] = fs[src[c]]
        /\ \A q \in DOMAIN fs : q # src[c] /\ q # dst[c] => fs'[q] = fs[q]
    BY <2>1 DEF Renamed
  <2>4. Area(dst[c]) = "bin" /\ Mark(dst[c]) # "inode"
    BY <1>0, RepairPath
  <2>5. Settled(s) /\ RowsAt(s)
    BY <1>0, <2>0, SettledIs DEF HoldsAt
  <2>6. NamesAt(s)'
    BY <1>0, <2>3, <2>4 DEF HoldsAt, NamesAt, Area, Mark, Number
  <2>7. RowsAt(s)'
    <3> SUFFICES ASSUME faults = 0, NEW i \in DOMAIN entries, RowSlot(i) = s PROVE RowHolds(i)'
      BY <1>0 DEF RowsAt, RowSlot
    <3>1. /\ meant[i] # 0 /\ entries[i].at \in DOMAIN fs => photo[fs[entries[i].at]] = meant[i]
          /\ meant[i] # 0 \/ Area(entries[i].at) = "bin" => entries[i].at \in DOMAIN fs
          /\ \A j \in DOMAIN entries : entries[i].at = entries[j].at => i = j
      BY <2>5, SettledRows
    <3>2. /\ i # id[c] => entries[i].at # src[c]
          /\ entries[i].at # dst[c]
      BY <1>0, <2>0, <3>1, DataAre
    <3>3. entries[i].at \in DOMAIN fs' => entries[i].at \in DOMAIN fs /\ fs'[entries[i].at] = fs[entries[i].at]
      BY <2>3, <3>2
    <3>4. i # id[c] /\ entries[i].at \in DOMAIN fs => entries[i].at \in DOMAIN fs'
      BY <2>3, <3>2
    <3>5. (\A d \in Clients : pc'[d] \in {"forget", "rewrite"} => id'[d] # i) => i # id[c]
      BY <2>2
    <3> QED BY <1>0, <3>1, <3>3, <3>4, <3>5 DEF RowHolds, Area
  <2>8. FilesAt(s)'
    <3> SUFFICES ASSUME faults = 0, NEW q \in DOMAIN fs', SlotOf(q) = s PROVE FileHolds(q)'
      BY <1>0 DEF FilesAt
    <3>1. q # dst[c] => q \in DOMAIN fs /\ (Area(q) = "library" \/ q \in Listed)
      BY <1>0, <2>3, <2>5, SettledFiles DEF HoldsAt
    <3> QED BY <1>0, <2>2, <3>1 DEF FileHolds, Area
  <2>9. ClientHolds(s, c)'
    <3>1. /\ dst[c] \in DOMAIN fs'
          /\ faults = 0 => dst[c] \notin Listed /\ entries[id[c]].at \notin DOMAIN fs'
      BY <2>0, <2>3, <2>4
    <3>2. faults = 0 /\ meant[id[c]] # 0 => photo[fs'[dst[c]]] = meant[id[c]]
      BY <2>0, <2>3, <2>5, SettledRows
    <3> QED BY <1>0, <2>0, <2>2, <3>1, <3>2
            DEF ClientHolds, TodoHolds, BinHolds, HandHolds, RepairHolds
  <2> QED BY <2>0, <2>2, <2>6, <2>7, <2>8, <2>9, OnlyOneAt
<1> QED BY <1>1, <1>2

\* Files made before keep what they show.
LEMMA FilesKeepPhotos ==
  ASSUME TypeInv, NEW x, photo' = Append(photo, x)
  PROVE  \A n \in 1..Len(photo) : photo'[n] = photo[n]
  BY DEF TypeInv, DataTyped

LEMMA RebuildHolds ==
  ASSUME NEW s, Orderly(s), SlotsFit', NEW c \in Clients, Rebuild(c)
  PROVE  HoldsAt(s)'
<1>0. /\ TypeInv /\ SlotsFit /\ HoldsAt(s) /\ Alone(s) /\ pc[c] = "copy" /\ dst[c] # Nowhere
      /\ pc[c] \notin Loose /\ "rewrite" \in Labels
      /\ UNCHANGED <<entries, ids, meant, faults>> /\ Listed' = Listed
  BY DestinationIs DEF Orderly, Rebuild, Loose, Labels, Listed
<1>1. CASE ~HandAt(s, c)
  <2>0. SlotOf(dst[c]) # s
    BY <1>0, <1>1, HandTells DEF HandAt
  <2>1. CASE UNCHANGED disk
    <3>1. Untouched(s)
      BY <1>0, <2>1 DEF disk, Untouched, RowSlot
    <3> QED BY <1>0, <1>1, <3>1, LeavesSlot DEF Rebuild
  <2>2. CASE fs' = With(dst[c], Len(photo) + 1) /\ photo' = Append(photo, photo[fs[src[c]]])
    <3>1. \A q : SlotOf(q) = s => /\ q \in DOMAIN fs' <=> q \in DOMAIN fs
                                  /\ q \in DOMAIN fs => fs'[q] = fs[q]
      BY <2>0, <2>2 DEF With
    <3>2. \A n \in 1..Len(photo) : photo'[n] = photo[n]
      BY <1>0, <2>2, FilesKeepPhotos
    <3>3. Untouched(s)
      BY <1>0, <3>1, <3>2 DEF Untouched, RowSlot
    <3> QED BY <1>0, <1>1, <3>3, LeavesSlot DEF Rebuild
  <2> QED BY <2>1, <2>2 DEF Rebuild
<1>2. ASSUME HandAt(s, c) PROVE HoldsAt(s)'
  <2>0. /\ src[c] \in DOMAIN fs /\ id[c] \in DOMAIN entries /\ entries[id[c]].at \notin DOMAIN fs
        /\ faults = 0 => /\ dst[c] \notin DOMAIN fs /\ dst[c] \notin Listed
                         /\ meant[id[c]] = 0
        /\ TodoHolds(s, c) /\ WorksAt(s, c)
    BY <1>0, <1>2 DEF HoldsAt, ClientHolds, RepairHolds, WorksAt
  <2>1. /\ fs' = With(dst[c], Len(photo) + 1) /\ Then(c, "rewrite")
        /\ photo' = Append(photo, photo[fs[src[c]]])
    BY <2>0 DEF Rebuild, Exists
  <2>2. /\ pc'[c] = "rewrite" /\ id'[c] = id[c] /\ src'[c] = src[c] /\ dst'[c] = dst[c]
        /\ todo'[c] = todo[c] /\ \A d \in Clients : d # c => Same(d)
    BY <1>0, <2>1, GotoIs DEF Then
  <2>3. /\ DOMAIN fs' = DOMAIN fs \cup {dst[c]}
        /\ \A q \in DOMAIN fs : q # dst[c] => fs'[q] = fs[q]
    BY <2>1 DEF With
  <2>4. Area(dst[c]) = "bin" /\ Mark(dst[c]) # "inode"
    BY <1>0, RepairPath
  <2>5. \A n \in 1..Len(photo) : photo'[n] = photo[n]
    BY <1>0, <2>1, FilesKeepPhotos
  <2>6. Settled(s) /\ RowsAt(s)
    BY <1>0, <2>0, SettledIs DEF HoldsAt
  <2>7. NamesAt(s)'
    BY <1>0, <2>3, <2>4 DEF HoldsAt, NamesAt, Area, Mark, Number
  <2>8. RowsAt(s)'
    <3> SUFFICES ASSUME faults = 0, NEW i \in DOMAIN entries, RowSlot(i) = s PROVE RowHolds(i)'
      BY <1>0 DEF RowsAt, RowSlot
    <3>1. /\ meant[i] # 0 /\ entries[i].at \in DOMAIN fs => photo[fs[entries[i].at]] = meant[i]
          /\ meant[i] # 0 \/ Area(entries[i].at) = "bin" => entries[i].at \in DOMAIN fs
          /\ \A j \in DOMAIN entries : entries[i].at = entries[j].at => i = j
      BY <2>6, SettledRows
    <3>2. entries[i].at # dst[c]
      BY <1>0, <2>0, DataAre
    <3>3. entries[i].at \in DOMAIN fs' <=> entries[i].at \in DOMAIN fs
      BY <2>3, <3>2
    <3>4. entries[i].at \in DOMAIN fs => photo'[fs'[entries[i].at]] = photo[fs[entries[i].at]]
      BY <1>0, <2>3, <2>5, <3>2, DataAre
    <3> QED BY <1>0, <3>1, <3>3, <3>4 DEF RowHolds, Area
  <2>9. FilesAt(s)'
    <3> SUFFICES ASSUME faults = 0, NEW q \in DOMAIN fs', SlotOf(q) = s PROVE FileHolds(q)'
      BY <1>0 DEF FilesAt
    <3>1. q # dst[c] => q \in DOMAIN fs /\ (Area(q) = "library" \/ q \in Listed)
      BY <1>0, <2>3, <2>6, SettledFiles DEF HoldsAt
    <3> QED BY <1>0, <2>2, <3>1 DEF FileHolds, Area
  <2>10. ClientHolds(s, c)'
    <3>1. /\ dst[c] \in DOMAIN fs'
          /\ faults = 0 => /\ dst[c] \notin Listed /\ meant[id[c]] = 0
                           /\ entries[id[c]].at \notin DOMAIN fs'
      BY <1>0, <2>0, <2>3, DataAre
    <3> QED BY <1>0, <2>0, <2>2, <3>1
            DEF ClientHolds, TodoHolds, BinHolds, HandHolds, RepairHolds
  <2> QED BY <2>0, <2>2, <2>7, <2>8, <2>9, <2>10, OnlyOneAt
<1> QED BY <1>1, <1>2

LEMMA UnlinkHolds ==
  ASSUME NEW s, Orderly(s), SlotsFit', NEW c \in Clients, Unlink(c)
  PROVE  HoldsAt(s)'
<1>0. /\ TypeInv /\ SlotsFit /\ HoldsAt(s) /\ Alone(s) /\ pc[c] = "unlink"
      /\ pc[c] \notin Loose /\ "forget" \in Labels
      /\ UNCHANGED <<photo, entries, ids, meant, faults>> /\ Listed' = Listed
      /\ fs' = Without(src[c]) /\ Then(c, "forget")
  BY DEF Orderly, Unlink, Unlinked, Loose, Labels, Listed
<1>1. /\ DOMAIN fs' = DOMAIN fs \ {src[c]}
      /\ \A q \in DOMAIN fs : q # src[c] => fs'[q] = fs[q]
  BY <1>0 DEF Without, Restrict
<1>2. CASE ~HandAt(s, c)
  <2>1. SlotOf(src[c]) # s
    BY <1>0, <1>2, HandTells DEF HandAt
  <2>2. Untouched(s)
    BY <1>0, <1>1, <2>1 DEF Untouched, RowSlot
  <2> QED BY <1>0, <1>2, <2>2, LeavesSlot
<1>3. ASSUME HandAt(s, c) PROVE HoldsAt(s)'
  <2>0. /\ id[c] \in DOMAIN entries /\ src[c] = entries[id[c]].at
        /\ RowSlot(id[c]) = s /\ TodoHolds(s, c) /\ WorksAt(s, c)
    BY <1>0, <1>3, HandTells DEF HoldsAt, ClientHolds, HandHolds, WorksAt, HandAt
  <2>1. /\ pc'[c] = "forget" /\ id'[c] = id[c] /\ src'[c] = src[c] /\ dst'[c] = dst[c]
        /\ todo'[c] = todo[c] /\ \A d \in Clients : d # c => Same(d)
    BY <1>0, GotoIs DEF Then
  <2>2. Settled(s) /\ RowsAt(s)
    BY <1>0, <2>0, SettledIs DEF HoldsAt
  <2>3. NamesAt(s)'
    BY <1>0, <1>1 DEF HoldsAt, NamesAt, Area, Mark, Number
  <2>4. RowsAt(s)'
    <3> SUFFICES ASSUME faults = 0, NEW i \in DOMAIN entries, RowSlot(i) = s PROVE RowHolds(i)'
      BY <1>0 DEF RowsAt, RowSlot
    <3>1. /\ meant[i] # 0 /\ entries[i].at \in DOMAIN fs => photo[fs[entries[i].at]] = meant[i]
          /\ meant[i] # 0 \/ Area(entries[i].at) = "bin" => entries[i].at \in DOMAIN fs
          /\ \A j \in DOMAIN entries : entries[i].at = entries[j].at => i = j
      BY <2>2, SettledRows
    <3>2. i # id[c] => entries[i].at # src[c]
      BY <2>0, <3>1
    <3>3. entries[i].at \in DOMAIN fs' => entries[i].at \in DOMAIN fs /\ fs'[entries[i].at] = fs[entries[i].at]
      BY <1>1
    <3>4. i # id[c] /\ entries[i].at \in DOMAIN fs => entries[i].at \in DOMAIN fs'
      BY <1>1, <3>2
    <3>5. (\A d \in Clients : pc'[d] \in {"forget", "rewrite"} => id'[d] # i) => i # id[c]
      BY <2>1
    <3> QED BY <1>0, <3>1, <3>3, <3>4, <3>5 DEF RowHolds, Area
  <2>5. FilesAt(s)'
    <3> SUFFICES ASSUME faults = 0, NEW q \in DOMAIN fs', SlotOf(q) = s PROVE FileHolds(q)'
      BY <1>0 DEF FilesAt
    <3>1. q \in DOMAIN fs /\ (Area(q) = "library" \/ q \in Listed)
      BY <1>0, <1>1, <2>2, SettledFiles DEF HoldsAt
    <3> QED BY <1>0, <3>1 DEF FileHolds, Area
  <2>6. ClientHolds(s, c)'
    BY <1>0, <1>1, <2>0, <2>1 DEF ClientHolds, TodoHolds, BinHolds, HandHolds, RepairHolds
  <2> QED BY <2>0, <2>1, <2>3, <2>4, <2>5, <2>6, OnlyOneAt
<1> QED BY <1>2, <1>3

-----------------------------------------------------------------------------
\* The rows of a slot, and its files, when one request is there: no other has a
\* row of it in hand, or a file of it to write down.
LEMMA RowsOfOne ==
  ASSUME NEW s, Orderly(s), NEW c \in Clients, WorksAt(s, c), faults = 0,
         NEW i \in DOMAIN entries, RowSlot(i) = s
  PROVE  /\ meant[i] # 0 /\ entries[i].at \in DOMAIN fs => photo[fs[entries[i].at]] = meant[i]
         /\ /\ meant[i] # 0 \/ Area(entries[i].at) = "bin"
            /\ pc[c] \in {"forget", "rewrite"} => i # id[c]
            => entries[i].at \in DOMAIN fs
         /\ \A j \in DOMAIN entries : entries[i].at = entries[j].at => i = j
<1>1. RowHolds(i)
  BY DEF Orderly, HoldsAt, RowsAt
<1>2. \A d \in Clients : d # c /\ pc[d] \in {"forget", "rewrite"} => id[d] # i
  BY OthersAway DEF Orderly, Away, Loose
<1> QED BY <1>1, <1>2 DEF RowHolds

LEMMA FilesOfOne ==
  ASSUME NEW s, Orderly(s), NEW c \in Clients, WorksAt(s, c), faults = 0,
         NEW q \in DOMAIN fs, SlotOf(q) = s
  PROVE  \/ Area(q) = "library" \/ q \in Listed
         \/ pc[c] \in {"record", "rewrite"} /\ dst[c] = q
<1>1. FileHolds(q) /\ q # Nowhere
  BY PathsAreSomewhere DEF Orderly, HoldsAt, FilesAt, TypeInv, DataTyped
<1>2. \A d \in Clients : d # c => dst[d] # q
  BY <1>1, OthersAway DEF Orderly, Away
<1> QED BY <1>1, <1>2 DEF FileHolds

LEMMA RecordHolds ==
  ASSUME NEW s, Orderly(s), SlotsFit', NEW c \in Clients, Record(c)
  PROVE  HoldsAt(s)'
<1>0. /\ TypeInv /\ SlotsFit /\ HoldsAt(s) /\ Alone(s) /\ pc[c] = "record" /\ dst[c] # Nowhere
      /\ pc[c] \notin Loose /\ fs' = fs /\ photo' = photo /\ faults' = faults
  BY DestinationIs DEF Orderly, Record, Loose, disk
<1>1. /\ ids' = ids + 1 /\ Done(c)
      /\ entries' = [i \in DOMAIN entries \cup {ids'} |-> IF i = ids' THEN Row(c) ELSE entries[i]]
      /\ meant' = Append(meant, IF Exists(dst[c]) THEN photo[fs[dst[c]]] ELSE 0)
  BY DEF Record
<1>2. /\ ids \in Nat /\ Len(meant) = ids /\ meant \in Seq(0..MaxFiles)
      /\ DOMAIN entries \subseteq 1..ids
  BY <1>0, TrashAssumption DEF TypeInv, DataTyped
<1>3. PICK p \in Lib : src[c] = Home(p)
  BY <1>0, LocalsAre DEF LocalsFit
<1>4. /\ DOMAIN entries' = DOMAIN entries \cup {ids'} /\ ids' \notin DOMAIN entries
      /\ entries'[ids'].at = dst[c] /\ entries'[ids'].orig = p
      /\ \A i \in DOMAIN entries : entries'[i] = entries[i]
  <2>1. Row(c).at = dst[c] /\ Row(c).orig = p
    BY <1>3, PathsTell DEF Row, Within
  <2>2. ids' \notin DOMAIN entries
    BY <1>1, <1>2
  <2> QED BY <1>1, <2>1, <2>2
<1>5. meant'[ids'] = (IF Exists(dst[c]) THEN photo[fs[dst[c]]] ELSE 0)
  BY <1>1, <1>2
<1>6. \A i \in DOMAIN entries : meant'[i] = meant[i]
  BY <1>1, <1>2
<1>7. CASE ~HandAt(s, c)
  <2>1. Slot[p] # s
    BY <1>0, <1>3, <1>7, SlotsTell DEF HandAt
  <2>2. Untouched(s)
    BY <1>0, <1>4, <1>6, <2>1 DEF Untouched, RowSlot
  <2> QED BY <1>0, <1>1, <1>7, <2>2, LeavesSlot
<1>8. ASSUME HandAt(s, c) PROVE HoldsAt(s)'
  <2>0. /\ dst[c] \in DOMAIN fs /\ WorksAt(s, c)
        /\ faults = 0 => dst[c] \notin Listed
    BY <1>0, <1>8 DEF HoldsAt, ClientHolds, BinHolds, WorksAt
  <2>1. NamesAt(s)'
    BY <1>0 DEF HoldsAt, NamesAt, Area, Mark, Number
  <2>2. RowsAt(s)'
    <3> SUFFICES ASSUME faults = 0, NEW i \in DOMAIN entries', Slot[entries'[i].orig] = s
        PROVE  /\ meant'[i] # 0 /\ entries'[i].at \in DOMAIN fs => photo[fs[entries'[i].at]] = meant'[i]
               /\ meant'[i] # 0 \/ Area(entries'[i].at) = "bin" => entries'[i].at \in DOMAIN fs
               /\ \A j \in DOMAIN entries' : entries'[i].at = entries'[j].at => i = j
      BY <1>0 DEF RowsAt, RowHolds, RowSlot, Area
    <3>1. \A j \in DOMAIN entries : entries[j].at # dst[c]
      BY <1>0, <2>0, DataAre
    <3>2. CASE i = ids'
      BY <2>0, <3>1, <3>2, <1>4, <1>5 DEF Exists
    <3>3. CASE i # ids'
      <4>1. i \in DOMAIN entries /\ entries'[i] = entries[i] /\ meant'[i] = meant[i] /\ RowSlot(i) = s
        BY <3>3, <1>4, <1>6 DEF RowSlot
      <4> QED BY <1>0, <1>4, <2>0, <3>1, <4>1, RowsOfOne
    <3> QED BY <3>2, <3>3
  <2>3. FilesAt(s)'
    <3>0. \A q : (\E i \in DOMAIN entries' : entries'[i].at = q) => q \in Listed'
      BY DEF Listed
    <3> SUFFICES ASSUME faults = 0, NEW q \in DOMAIN fs, SlotOf(q) = s, Area(q) # "library"
        PROVE  \E i \in DOMAIN entries' : entries'[i].at = q
      BY <1>0, <3>0 DEF FilesAt, FileHolds, Area
    <3>1. q \in Listed \/ q = dst[c]
      BY <2>0, FilesOfOne
    <3> QED BY <3>1, <1>0, <1>4, DataAre
  <2>4. /\ pc'[c] = "idle" /\ src'[c] = Nowhere /\ todo'[c] = {}
        /\ \A d \in Clients : d # c => Same(d)
    BY <1>0, <1>1, GotoIs DEF Done
  <2>5. ClientHolds(s, c)'
    BY <2>4, LooseHolds DEF HandAt
  <2> QED BY <2>0, <2>1, <2>2, <2>3, <2>4, <2>5, OnlyOneAt
<1> QED BY <1>7, <1>8

LEMMA ForgetHolds ==
  ASSUME NEW s, Orderly(s), SlotsFit', NEW c \in Clients, Forget(c)
  PROVE  HoldsAt(s)'
<1>0. /\ TypeInv /\ SlotsFit /\ HoldsAt(s) /\ Alone(s) /\ pc[c] = "forget"
      /\ pc[c] \notin Loose /\ fs' = fs /\ photo' = photo /\ faults' = faults /\ meant' = meant
      /\ "next" \in Labels /\ Goto(c, "next", 0, Nowhere, Nowhere, todo[c])
  BY DEF Orderly, Forget, Loose, disk, Labels
<1>1. /\ DOMAIN entries' = DOMAIN entries \ {id[c]}
      /\ \A i \in DOMAIN entries' : entries'[i] = entries[i]
  BY DEF Forget, Restrict
<1>2. CASE ~HandAt(s, c)
  <2>1. id[c] \in DOMAIN entries => RowSlot(id[c]) # s
    BY <1>0, <1>2, HandTells DEF HandAt
  <2>2. Untouched(s)
    BY <1>0, <1>1, <2>1 DEF Untouched, RowSlot
  <2> QED BY <1>0, <1>2, <2>2, LeavesSlot
<1>3. ASSUME HandAt(s, c) PROVE HoldsAt(s)'
  <2>0. /\ id[c] \in DOMAIN entries /\ src[c] = entries[id[c]].at /\ src[c] \notin DOMAIN fs
        /\ TodoHolds(s, c) /\ WorksAt(s, c)
    BY <1>0, <1>3 DEF HoldsAt, ClientHolds, HandHolds, WorksAt
  <2>1. NamesAt(s)'
    BY <1>0 DEF HoldsAt, NamesAt, Area, Mark, Number
  <2>2. RowsAt(s)'
    <3> SUFFICES ASSUME faults = 0, NEW i \in DOMAIN entries', Slot[entries'[i].orig] = s
        PROVE  /\ meant[i] # 0 /\ entries'[i].at \in DOMAIN fs => photo[fs[entries'[i].at]] = meant[i]
               /\ meant[i] # 0 \/ Area(entries'[i].at) = "bin" => entries'[i].at \in DOMAIN fs
               /\ \A j \in DOMAIN entries' : entries'[i].at = entries'[j].at => i = j
      BY <1>0 DEF RowsAt, RowHolds, RowSlot, Area
    <3>1. i \in DOMAIN entries /\ entries'[i] = entries[i] /\ i # id[c] /\ RowSlot(i) = s
      BY <1>1 DEF RowSlot
    <3> QED BY <1>1, <2>0, <3>1, RowsOfOne
  <2>3. FilesAt(s)'
    <3>0. \A q : (\E i \in DOMAIN entries' : entries'[i].at = q) => q \in Listed'
      BY DEF Listed
    <3> SUFFICES ASSUME faults = 0, NEW q \in DOMAIN fs, SlotOf(q) = s, Area(q) # "library"
        PROVE  \E i \in DOMAIN entries' : entries'[i].at = q
      BY <1>0, <3>0 DEF FilesAt, FileHolds, Area
    <3>1. q \in Listed
      BY <1>0, <2>0, FilesOfOne
    <3> QED BY <3>1, <1>0, <1>1, <2>0, DataAre
  <2>4. /\ id'[c] = 0 /\ src'[c] = Nowhere /\ todo'[c] = todo[c]
        /\ \A d \in Clients : d # c => Same(d)
    BY <1>0, GotoIs
  <2>5. \A e \in todo[c] : Slot[OrigIn(e)] = s =>
          /\ IdIn(e) \in DOMAIN entries' /\ AtIn(e) = entries'[IdIn(e)].at
          /\ IdIn(e) # 0
    <3>1. \A e \in todo[c] : IdIn(e) # 0
      BY <1>0, <1>1, TrashAssumption, HandTells DEF TypeInv, DataTyped
    <3> QED BY <1>0, <1>1, <2>0, <3>1 DEF TodoHolds
  <2>6. ClientHolds(s, c)'
    BY <2>4, <2>5, LooseHolds DEF HandAt
  <2> QED BY <2>0, <2>1, <2>2, <2>3, <2>4, <2>6, OnlyOneAt
<1> QED BY <1>2, <1>3

LEMMA RewriteHolds ==
  ASSUME NEW s, Orderly(s), SlotsFit', NEW c \in Clients, Rewrite(c)
  PROVE  HoldsAt(s)'
<1>0. /\ TypeInv /\ SlotsFit /\ HoldsAt(s) /\ Alone(s) /\ pc[c] = "rewrite"
      /\ pc[c] \notin Loose /\ fs' = fs /\ photo' = photo /\ faults' = faults /\ meant' = meant
      /\ "look" \in Labels /\ Goto(c, "look", 0, Nowhere, Nowhere, todo[c])
  BY DEF Orderly, Rewrite, Loose, disk, Labels
<1>1. /\ DOMAIN entries' = DOMAIN entries
      /\ id[c] \in DOMAIN entries =>
           entries'[id[c]].orig = entries[id[c]].orig /\ entries'[id[c]].at = dst[c]
      /\ \A i \in DOMAIN entries : i # id[c] => entries'[i] = entries[i]
  BY DEF Rewrite
<1>2. CASE ~HandAt(s, c)
  <2>1. id[c] \in DOMAIN entries => RowSlot(id[c]) # s
    BY <1>0, <1>2, HandTells DEF HandAt
  <2>2. Untouched(s)
    BY <1>0, <1>1, <2>1 DEF Untouched, RowSlot
  <2> QED BY <1>0, <1>2, <2>2, LeavesSlot
<1>3. ASSUME HandAt(s, c) PROVE HoldsAt(s)'
  <2>0. /\ id[c] \in DOMAIN entries /\ dst[c] \in DOMAIN fs /\ RowSlot(id[c]) = s
        /\ faults = 0 => /\ dst[c] \notin Listed /\ entries[id[c]].at \notin DOMAIN fs
                         /\ meant[id[c]] # 0 => photo[fs[dst[c]]] = meant[id[c]]
        /\ TodoHolds(s, c) /\ WorksAt(s, c)
    BY <1>0, <1>3, HandTells DEF HoldsAt, ClientHolds, RepairHolds, WorksAt, HandAt
  <2>1. NamesAt(s)'
    BY <1>0 DEF HoldsAt, NamesAt, Area, Mark, Number
  <2>2. RowsAt(s)'
    <3> SUFFICES ASSUME faults = 0, NEW i \in DOMAIN entries, Slot[entries'[i].orig] = s
        PROVE  /\ meant[i] # 0 /\ entries'[i].at \in DOMAIN fs => photo[fs[entries'[i].at]] = meant[i]
               /\ meant[i] # 0 \/ Area(entries'[i].at) = "bin" => entries'[i].at \in DOMAIN fs
               /\ \A j \in DOMAIN entries : entries'[i].at = entries'[j].at => i = j
      BY <1>0, <1>1 DEF RowsAt, RowHolds, RowSlot, Area
    <3>1. \A j \in DOMAIN entries : entries[j].at # dst[c]
      BY <1>0, <2>0, DataAre
    <3>2. CASE i = id[c]
      BY <2>0, <3>1, <3>2, <1>1
    <3>3. CASE i # id[c]
      <4>1. entries'[i] = entries[i] /\ RowSlot(i) = s
        BY <3>3, <1>1 DEF RowSlot
      <4> QED BY <1>1, <2>0, <3>1, <3>3, <4>1, RowsOfOne
    <3> QED BY <3>2, <3>3
  <2>3. FilesAt(s)'
    <3>0. \A q : (\E i \in DOMAIN entries' : entries'[i].at = q) => q \in Listed'
      BY DEF Listed
    <3> SUFFICES ASSUME faults = 0, NEW q \in DOMAIN fs, SlotOf(q) = s, Area(q) # "library"
        PROVE  \E i \in DOMAIN entries' : entries'[i].at = q
      BY <1>0, <3>0 DEF FilesAt, FileHolds, Area
    <3>1. q \in Listed \/ q = dst[c]
      BY <2>0, FilesOfOne
    <3> QED BY <3>1, <1>0, <1>1, <2>0, DataAre
  <2>4. /\ id'[c] = 0 /\ src'[c] = Nowhere /\ todo'[c] = todo[c]
        /\ \A d \in Clients : d # c => Same(d)
    BY <1>0, GotoIs
  <2>5. \A e \in todo[c] : Slot[OrigIn(e)] = s =>
          /\ IdIn(e) \in DOMAIN entries' /\ AtIn(e) = entries'[IdIn(e)].at
          /\ IdIn(e) # 0
    <3>1. \A e \in todo[c] : IdIn(e) # 0
      BY <1>0, TrashAssumption, HandTells DEF TypeInv, DataTyped
    <3>2. \A e \in todo[c] : Slot[OrigIn(e)] = s =>
            /\ IdIn(e) \in DOMAIN entries
            /\ AtIn(e) = IF IdIn(e) = id[c] THEN dst[c] ELSE entries[IdIn(e)].at
      BY <1>0, <2>0 DEF TodoHolds
    <3> QED BY <1>1, <3>1, <3>2
  <2>6. ClientHolds(s, c)'
    BY <2>4, <2>5, LooseHolds DEF HandAt
  <2> QED BY <2>0, <2>1, <2>2, <2>3, <2>4, <2>6, OnlyOneAt
<1> QED BY <1>2, <1>3

-----------------------------------------------------------------------------
\* The end of a request, or of its turn of a loop.
LEMMA LoopHolds ==
  ASSUME NEW s, Orderly(s), NEW c \in Clients, pc[c] \in {"idle", "bin", "place", "next", "look"},
         UNCHANGED <<disk, entries, ids, meant, faults>>, NEW label \in Loose,
         NEW rest, Goto(c, label, 0, Nowhere, Nowhere, rest),
         rest \subseteq todo[c] \/ rest \subseteq Listing
  PROVE  HoldsAt(s)'
<1>0. TypeInv /\ SlotsFit /\ HoldsAt(s) /\ entries' = entries /\ TodoHolds(s, c)
  BY DEF Orderly, HoldsAt, ClientHolds
<1>1. /\ pc'[c] = label /\ id'[c] = 0 /\ src'[c] = Nowhere /\ todo'[c] = rest
      /\ \A d \in Clients : d # c => Same(d)
  BY <1>0, GotoIs
<1>2. /\ \A e \in todo[c] \cup Listing : IdIn(e) \in 1..ids
      /\ ids \in Nat
  <2>1. Listing \in SUBSET ((1..ids) \X Lib \X TrashPaths)
    BY <1>0, ListingTyped
  <2>2. todo[c] \in SUBSET ((1..ids) \X Lib \X TrashPaths)
    BY <1>0, LocalsAre
  <2>3. \A e \in todo[c] \cup Listing : IdIn(e) \in 1..ids
    <3>1. \A e \in todo[c] : IdIn(e) \in 1..ids
      BY <1>0, <2>2, TodoTyped
    <3>2. \A e \in Listing : IdIn(e) \in 1..ids
      BY <1>0, <2>1, TodoTyped
    <3> QED BY <3>1, <3>2
  <2>4. ids \in Nat
    BY <1>0, TrashAssumption DEF TypeInv, DataTyped
  <2> QED BY <2>3, <2>4
<1>3. \A e \in rest : Slot[OrigIn(e)] = s =>
        IdIn(e) \in DOMAIN entries /\ AtIn(e) = entries[IdIn(e)].at /\ IdIn(e) # 0
  <2>1. CASE rest \subseteq todo[c]
    BY <1>0, <1>2, <2>1 DEF TodoHolds
  <2>2. CASE rest \subseteq Listing
    BY <1>0, <1>2, <2>2, ListingFits
  <2> QED BY <2>1, <2>2
<1>4. ClientHolds(s, c)'
  BY <1>0, <1>1, <1>3, LooseHolds DEF HandAt
<1> QED BY <1>0, <1>1, <1>4, ControlHolds

LEMMA AskDeleteHolds ==
  ASSUME NEW s, Orderly(s), Alone(s)', NEW c \in Clients, NEW p \in Lib, AskDelete(c, p)
  PROVE  HoldsAt(s)'
<1>0. /\ TypeInv /\ SlotsFit /\ HoldsAt(s) /\ pc[c] = "idle" /\ Home(p) \in DOMAIN fs
      /\ UNCHANGED <<disk, entries, ids, meant, faults>>
      /\ fs' = fs /\ faults' = faults /\ Listed' = Listed
  BY DEF Orderly, AskDelete, Exists, disk, Listed
<1>1. /\ pc'[c] = "bin" /\ src'[c] = Home(p) /\ dst'[c] = BinName(p) /\ todo'[c] = {}
      /\ \A d \in Clients : d # c => Same(d)
  BY <1>0, GotoIs DEF AskDelete
<1>2. SlotOf(Home(p)) = Slot[p] /\ Home(p) # Nowhere
  BY SlotsTell
<1>3. CASE Slot[p] # s
  <2>1. ClientHolds(s, c)'
    BY <1>1, <1>2, <1>3, LooseHolds DEF HandAt
  <2> QED BY <1>0, <1>1, <2>1, ControlHolds
<1>4. ASSUME Slot[p] = s PROVE HoldsAt(s)'
  <2>1. Settled(s)
    <3>1. WorksAt(s, c)'
      BY <1>1, <1>2, <1>4 DEF WorksAt, HandAt
    <3>2. \A d \in Clients : d # c => ~WorksAt(s, d)
      BY <1>1, <3>1 DEF Alone, WorksAt, HandAt, Same
    <3> QED BY <1>0, <3>2, AwayIs DEF Settled
  <2>2. fs[Home(p)] \in 1..MaxFiles /\ fs[Home(p)] \in Int
    BY <1>0, TrashAssumption DEF TypeInv, DataTyped
  <2>3. /\ Area(BinName(p)) = "bin" /\ BinName(p) \notin DOMAIN fs /\ SlotOf(BinName(p)) = s
        /\ Mark(BinName(p)) = "inode" => Number(BinName(p)) = fs[Home(p)]
    <3>1. CASE InBin(p) \notin DOMAIN fs
      BY <1>4, <3>1, PathsTell, SlotsTell DEF BinName, Exists
    <3>2. CASE InBin(p) \in DOMAIN fs
      <4> DEFINE to == ByInode(p, fs[Home(p)])
      <4>1. /\ Area(to) = "bin" /\ Mark(to) = "inode" /\ Number(to) = fs[Home(p)]
            /\ SlotOf(to) = s
        BY <1>4, <2>2, PathsTell, SlotsTell
      <4>2. Area(Home(p)) = "library"
        BY PathsTell
      <4>3. BinName(p) = to
        BY <3>2 DEF BinName, Exists
      <4> HIDE DEF to
      <4>4. to \notin DOMAIN fs
        <5> SUFFICES ASSUME to \in DOMAIN fs PROVE FALSE
          OBVIOUS
        <5>1. fs[to] = fs[Home(p)]
          BY <1>0, <4>1 DEF HoldsAt, NamesAt
        <5>2. to = Home(p)
          BY <5>1, <1>0, DataAre
        <5> QED BY <5>2, <4>1, <4>2
      <4> QED BY <4>1, <4>3, <4>4
    <3> QED BY <3>1, <3>2
  <2>4. faults = 0 => BinName(p) \notin Listed
    <3> SUFFICES ASSUME faults = 0, NEW i \in DOMAIN entries, entries[i].at = BinName(p)
        PROVE  FALSE
      BY <1>0, DataAre
    <3>1. RowSlot(i) = s
      BY <1>0, <2>3, RowsTell
    <3>2. entries[i].at \in DOMAIN fs
      BY <1>0, <2>1, <2>3, <3>1, SettledRows DEF HoldsAt
    <3> QED BY <2>3, <3>2
  <2>5. ClientHolds(s, c)'
    BY <1>0, <1>1, <2>3, <2>4
       DEF ClientHolds, TodoHolds, BinHolds, HandHolds, RepairHolds, Mark, Number
  <2> QED BY <1>0, <1>1, <2>5, ControlHolds
<1> QED BY <1>3, <1>4

\* A restore and a deletion for ever take up a row.
LEMMA AskRowHolds ==
  ASSUME NEW s, Orderly(s), NEW c \in Clients, NEW i \in 1..MaxIds,
         AskRestore(c, i) \/ AskDeleteForEver(c, i)
  PROVE  HoldsAt(s)'
<1>0. /\ TypeInv /\ SlotsFit /\ HoldsAt(s) /\ pc[c] = "idle" /\ i \in DOMAIN entries
      /\ UNCHANGED <<disk, entries, ids, meant, faults>> /\ entries' = entries
  BY DEF Orderly, AskRestore, AskDeleteForEver
<1>1. /\ pc'[c] \in {"place", "unlink"} /\ id'[c] = i /\ src'[c] = entries[i].at /\ todo'[c] = {}
      /\ \A d \in Clients : d # c => Same(d)
  <2>1. CASE AskRestore(c, i)
    BY <1>0, <2>1, GotoIs DEF AskRestore
  <2>2. CASE AskDeleteForEver(c, i)
    BY <1>0, <2>2, GotoIs DEF AskDeleteForEver
  <2> QED BY <2>1, <2>2
<1>2. ClientHolds(s, c)'
  BY <1>0, <1>1 DEF ClientHolds, TodoHolds, BinHolds, HandHolds, RepairHolds
<1> QED BY <1>0, <1>1, <1>2, ControlHolds

LEMMA AskListHolds ==
  ASSUME NEW s, Orderly(s), NEW c \in Clients, AskEmpty(c) \/ AskList(c)
  PROVE  HoldsAt(s)'
<1>1. CASE AskEmpty(c)
  BY <1>1, LoopHolds DEF AskEmpty, Loose
<1>2. CASE AskList(c)
  BY <1>2, LoopHolds DEF AskList, Loose
<1> QED BY <1>1, <1>2

LEMMA PlaceHolds ==
  ASSUME NEW s, Orderly(s), NEW c \in Clients, Place(c)
  PROVE  HoldsAt(s)'
<1>0. /\ TypeInv /\ HoldsAt(s) /\ pc[c] = "place" /\ UNCHANGED <<disk, entries, ids, meant, faults>>
      /\ fs' = fs /\ entries' = entries
      /\ TodoHolds(s, c)
      /\ HandAt(s, c) => HandHolds(c)
  BY DEF Orderly, Place, HoldsAt, ClientHolds, disk
<1>1. /\ id'[c] = id[c] /\ src'[c] = src[c] /\ \A d \in Clients : d # c => Same(d)
      /\ \/ pc'[c] = "forget" /\ src[c] \notin DOMAIN fs
         \/ pc'[c] = "unbin" /\ src[c] \in DOMAIN fs
      /\ todo'[c] = todo[c] \/ todo'[c] = {}
  <2>1. ASSUME NEW label, Then(c, label)
        PROVE  /\ pc'[c] = label /\ id'[c] = id[c] /\ src'[c] = src[c] /\ todo'[c] = todo[c]
               /\ \A d \in Clients : d # c => Same(d)
    BY <1>0, <2>1, GotoIs DEF Then
  <2>2. ASSUME NEW to, Goto(c, "unbin", id[c], src[c], to, {})
        PROVE  /\ pc'[c] = "unbin" /\ id'[c] = id[c] /\ src'[c] = src[c] /\ todo'[c] = {}
               /\ \A d \in Clients : d # c => Same(d)
    BY <1>0, <2>2, GotoIs
  <2> QED BY <2>1, <2>2 DEF Place, Exists
<1>2. TodoHolds(s, c)'
  <2>1. \A e \in todo'[c] : e \in todo[c]
    BY <1>1
  <2>2. \A e \in todo[c] : Slot[OrigIn(e)] = s =>
          IdIn(e) \in DOMAIN entries /\ AtIn(e) = entries[IdIn(e)].at /\ IdIn(e) # id[c]
    BY <1>0 DEF TodoHolds
  <2> QED BY <1>0, <1>1, <2>1, <2>2 DEF TodoHolds
<1>3. HandAt(s, c)' => HandAt(s, c)
  BY <1>1 DEF HandAt
<1>4. HandHolds(c) => BinHolds(c)' /\ HandHolds(c)' /\ RepairHolds(c)'
  BY <1>0, <1>1 DEF BinHolds, HandHolds, RepairHolds
<1>5. ClientHolds(s, c)'
  BY <1>0, <1>2, <1>3, <1>4 DEF ClientHolds
<1> QED BY <1>0, <1>1, <1>5, ControlHolds

\* Two listed rows of the slot are one when they have one id.
LEMMA ListedOnce ==
  ASSUME NEW s, Orderly(s), NEW c \in Clients, pc[c] \in Loose, NEW e \in todo[c], NEW f \in todo[c],
         Slot[OrigIn(f)] = s, IdIn(e) = IdIn(f)
  PROVE  e = f
<1>1. TypeInv /\ SlotsFit /\ TodoHolds(s, c)
  BY DEF Orderly, HoldsAt, ClientHolds
<1>2. IdIn(f) \in DOMAIN entries /\ AtIn(f) = entries[IdIn(f)].at
  BY <1>1 DEF TodoHolds, Loose
<1>3. OrigIn(e) = OrigIn(f)
  BY <1>1, <1>2, HandTells
<1>4. AtIn(e) = entries[IdIn(e)].at
  BY <1>1, <1>3 DEF TodoHolds, Loose
<1> QED BY <1>1, <1>2, <1>3, <1>4, TodoTyped, LocalsAre

LEMMA NextToDeleteHolds ==
  ASSUME NEW s, Orderly(s), NEW c \in Clients, NextToDelete(c)
  PROVE  HoldsAt(s)'
<1>0. /\ TypeInv /\ SlotsFit /\ HoldsAt(s) /\ TodoHolds(s, c) /\ pc[c] = "next"
      /\ UNCHANGED <<disk, entries, ids, meant, faults>> /\ entries' = entries
  BY DEF Orderly, NextToDelete, HoldsAt, ClientHolds
<1>1. CASE Done(c)
  BY <1>0, <1>1, LoopHolds DEF Done, Loose
<1>2. ASSUME NEW e \in todo[c], Goto(c, "unlink", e[1], e[3], Nowhere, todo[c] \ {e})
      PROVE  HoldsAt(s)'
  <2>1. /\ pc'[c] = "unlink" /\ id'[c] = IdIn(e) /\ src'[c] = AtIn(e) /\ todo'[c] = todo[c] \ {e}
        /\ \A d \in Clients : d # c => Same(d)
    BY <1>0, <1>2, GotoIs DEF IdIn, AtIn
  <2>2. TodoHolds(s, c)'
    <3>1. \A f \in todo[c] \ {e} : Slot[OrigIn(f)] = s =>
            /\ IdIn(f) \in DOMAIN entries /\ AtIn(f) = entries[IdIn(f)].at
            /\ IdIn(f) # IdIn(e)
      BY <1>0, ListedOnce DEF TodoHolds, Loose
    <3> QED BY <1>0, <2>1, <3>1 DEF TodoHolds
  <2>3. HandAt(s, c)' => IdIn(e) \in DOMAIN entries /\ AtIn(e) = entries[IdIn(e)].at
    <3>1. HandAt(s, c)' => Slot[OrigIn(e)] = s
      BY <1>0, <2>1, HandTells DEF HandAt
    <3> QED BY <1>0, <3>1 DEF TodoHolds
  <2>4. ClientHolds(s, c)'
    BY <1>0, <2>1, <2>2, <2>3 DEF ClientHolds, BinHolds, HandHolds, RepairHolds
  <2> QED BY <1>0, <2>1, <2>4, ControlHolds
<1> QED BY <1>1, <1>2 DEF NextToDelete

\* A repair goes to a path where no row leads to a file; when nothing failed
\* no file and no row is there.
LEMMA RepairIsFree ==
  ASSUME NEW s, Orderly(s), NEW c \in Clients, pc[c] = "look", WorksAt(s, c),
         NEW i \in DOMAIN entries, NEW p \in Lib, Slot[p] = s,
         \/ entries[i].at \notin DOMAIN fs
         \/ Area(entries[i].at) = "legacy"
  PROVE  /\ BinNameById(p, i) \notin DOMAIN fs \cap Listed
         /\ faults = 0 => BinNameById(p, i) \notin DOMAIN fs /\ BinNameById(p, i) \notin Listed
<1> DEFINE to == BinNameById(p, i)
<1>0. TypeInv /\ SlotsFit /\ HoldsAt(s) /\ Alone(s) /\ i \in 1..MaxIds /\ i \in Int
  BY DataAre, TrashAssumption DEF Orderly
<1>1. /\ Area(to) = "bin" /\ SlotOf(to) = s
      /\ to \notin DOMAIN fs \/ (Mark(to) = "id" /\ Number(to) = i)
  <2>1. CASE InBin(p) \notin DOMAIN fs
    <3>1. to = InBin(p)
      BY <2>1 DEF BinNameById, Exists
    <3>2. Area(InBin(p)) = "bin" /\ SlotOf(InBin(p)) = s
      BY PathsTell, SlotsTell
    <3> QED BY <2>1, <3>1, <3>2
  <2>2. CASE InBin(p) \in DOMAIN fs
    <3>1. to = ById(p, i)
      BY <2>2 DEF BinNameById, Exists
    <3>2. /\ Area(ById(p, i)) = "bin" /\ Mark(ById(p, i)) = "id" /\ Number(ById(p, i)) = i
          /\ SlotOf(ById(p, i)) = s
      BY <1>0, PathsTell, SlotsTell
    <3> QED BY <3>1, <3>2
  <2> QED BY <2>1, <2>2
<1> HIDE DEF to
<1>2. to \notin DOMAIN fs \cap Listed
  <2> SUFFICES ASSUME to \in DOMAIN fs, NEW j \in DOMAIN entries, entries[j].at = to
      PROVE  FALSE
    BY <1>0, DataAre
  <2>1. j = i
    BY <1>0, <1>1, RowsTell
  <2> QED BY <1>1, <2>1
<1>3. Settled(s)
  BY <1>0, SettledIs
<1>4. ASSUME faults = 0 PROVE to \notin Listed
  <2> SUFFICES ASSUME NEW j \in DOMAIN entries, entries[j].at = to
      PROVE  FALSE
    BY <1>0, DataAre
  <2>0. RowSlot(j) = s
    BY <1>0, <1>1, RowsTell
  <2>1. to \in DOMAIN fs
    BY <1>0, <1>1, <1>3, <1>4, <2>0, SettledRows DEF HoldsAt
  <2>2. to \in Listed
    BY <1>0, DataAre
  <2> QED BY <1>2, <2>1, <2>2
<1>5. ASSUME faults = 0 PROVE to \notin DOMAIN fs
  BY <1>0, <1>1, <1>3, <1>4, <1>5, SettledFiles DEF HoldsAt
<1> QED BY <1>2, <1>4, <1>5 DEF to

LEMMA LookHolds ==
  ASSUME NEW s, Orderly(s), NEW c \in Clients, Look(c)
  PROVE  HoldsAt(s)'
<1>0. /\ TypeInv /\ SlotsFit /\ HoldsAt(s) /\ Alone(s) /\ TodoHolds(s, c) /\ pc[c] = "look"
      /\ UNCHANGED <<disk, entries, ids, meant, faults>>
      /\ fs' = fs /\ faults' = faults /\ entries' = entries /\ meant' = meant /\ Listed' = Listed
  BY DEF Orderly, Look, HoldsAt, ClientHolds, disk, Listed
<1>1. \A f \in todo[c] : Slot[OrigIn(f)] = s =>
        IdIn(f) \in DOMAIN entries /\ AtIn(f) = entries[IdIn(f)].at
  BY <1>0 DEF TodoHolds
<1>2. ASSUME NEW e \in todo[c]
      PROVE  /\ OrigIn(e) \in Lib /\ SlotOf(AtIn(e)) = Slot[OrigIn(e)]
             /\ SlotOf(Home(OrigIn(e))) = Slot[OrigIn(e)]
             /\ Slot[OrigIn(e)] = s => WorksAt(s, c)
             /\ \A f \in todo[c] \ {e} : Slot[OrigIn(f)] = s => IdIn(f) # IdIn(e)
  BY <1>0, HandTells, SlotsTell, ListedOnce DEF WorksAt, Loose
<1>3. ASSUME NEW e \in todo[c], NEW to, to = BinNameById(OrigIn(e), IdIn(e)), ToMigrate(e),
             Goto(c, "migrate", IdIn(e), AtIn(e), to,
                  (todo[c] \ {e}) \cup {<<IdIn(e), OrigIn(e), to>>})
      PROVE  HoldsAt(s)'
  <2>1. AtIn(e) \in DOMAIN fs /\ Area(AtIn(e)) = "legacy"
    BY <1>3 DEF ToMigrate, Exists, Area, AtIn
  <2> DEFINE new == <<IdIn(e), OrigIn(e), to>>
  <2>2. IdIn(new) = IdIn(e) /\ OrigIn(new) = OrigIn(e) /\ AtIn(new) = to
    BY DEF IdIn, OrigIn, AtIn
  <2>3. Goto(c, "migrate", IdIn(e), AtIn(e), to, (todo[c] \ {e}) \cup {new})
    BY <1>3
  <2> HIDE DEF new
  <2>4. /\ pc'[c] = "migrate" /\ id'[c] = IdIn(e) /\ src'[c] = AtIn(e) /\ dst'[c] = to
        /\ todo'[c] = (todo[c] \ {e}) \cup {new} /\ \A d \in Clients : d # c => Same(d)
    BY <1>0, <2>3, GotoIs
  <2>5. TodoHolds(s, c)'
    <3> SUFFICES ASSUME NEW f \in (todo[c] \ {e}) \cup {new}, Slot[OrigIn(f)] = s
        PROVE  /\ IdIn(f) \in DOMAIN entries
               /\ AtIn(f) = IF IdIn(f) = IdIn(e) THEN to ELSE entries[IdIn(f)].at
      BY <1>0, <2>4 DEF TodoHolds
    <3>1. CASE f = new
      BY <1>1, <2>2, <3>1
    <3>2. CASE f # new
      BY <1>1, <1>2, <3>2
    <3> QED BY <3>1, <3>2
  <2>6. HandAt(s, c)' => BinHolds(c)' /\ HandHolds(c)' /\ RepairHolds(c)'
    <3> SUFFICES ASSUME SlotOf(AtIn(e)) = s PROVE BinHolds(c)' /\ HandHolds(c)' /\ RepairHolds(c)'
      BY <2>4 DEF HandAt
    <3>1. IdIn(e) \in DOMAIN entries /\ AtIn(e) = entries[IdIn(e)].at /\ Slot[OrigIn(e)] = s
      BY <1>1, <1>2
    <3>2. /\ to \notin DOMAIN fs \cap Listed
          /\ faults = 0 => to \notin DOMAIN fs /\ to \notin Listed
      BY <1>0, <1>2, <1>3, <2>1, <3>1, RepairIsFree
    <3> QED BY <1>0, <2>1, <2>4, <3>1, <3>2 DEF BinHolds, HandHolds, RepairHolds, Area
  <2>7. ClientHolds(s, c)'
    BY <2>5, <2>6 DEF ClientHolds
  <2> QED BY <1>0, <2>4, <2>7, ControlHolds
<1>4. ASSUME NEW e \in todo[c], NEW to, to = BinNameById(OrigIn(e), IdIn(e)), ToRebuild(e),
             Goto(c, "copy", IdIn(e), Home(OrigIn(e)), to, todo[c] \ {e})
      PROVE  HoldsAt(s)'
  <2>1. AtIn(e) \notin DOMAIN fs /\ Home(OrigIn(e)) \in DOMAIN fs
    BY <1>4 DEF ToRebuild, Exists, AtIn, OrigIn
  <2>2. /\ pc'[c] = "copy" /\ id'[c] = IdIn(e) /\ src'[c] = Home(OrigIn(e)) /\ dst'[c] = to
        /\ todo'[c] = todo[c] \ {e} /\ \A d \in Clients : d # c => Same(d)
    BY <1>0, <1>4, GotoIs
  <2>3. TodoHolds(s, c)'
    BY <1>0, <1>1, <1>2, <2>2 DEF TodoHolds
  <2>4. HandAt(s, c)' => BinHolds(c)' /\ HandHolds(c)' /\ RepairHolds(c)'
    <3> SUFFICES ASSUME Slot[OrigIn(e)] = s PROVE BinHolds(c)' /\ HandHolds(c)' /\ RepairHolds(c)'
      BY <1>2, <2>2 DEF HandAt
    <3>1. IdIn(e) \in DOMAIN entries /\ AtIn(e) = entries[IdIn(e)].at /\ RowSlot(IdIn(e)) = s
      BY <1>0, <1>1, HandTells
    <3>2. /\ to \notin DOMAIN fs \cap Listed
          /\ faults = 0 => to \notin DOMAIN fs /\ to \notin Listed
      BY <1>0, <1>2, <1>4, <2>1, <3>1, RepairIsFree
    <3>3. faults = 0 => meant[IdIn(e)] = 0
      <4>1. Settled(s) /\ RowsAt(s)
        BY <1>0, <1>2, SettledIs DEF HoldsAt
      <4> QED BY <2>1, <3>1, <4>1, SettledRows
    <3> QED BY <1>0, <2>1, <2>2, <3>1, <3>2, <3>3 DEF BinHolds, HandHolds, RepairHolds
  <2>5. ClientHolds(s, c)'
    BY <2>3, <2>4 DEF ClientHolds
  <2> QED BY <1>0, <2>2, <2>5, ControlHolds
<1>5. ASSUME NEW e \in todo[c], Goto(c, "look", 0, Nowhere, Nowhere, todo[c] \ {e})
      PROVE  HoldsAt(s)'
  BY <1>0, <1>5, LoopHolds DEF Loose
<1>6. CASE Done(c)
  BY <1>0, <1>6, LoopHolds DEF Done, Loose
<1>7. ASSUME NEW e \in todo[c], LookAt(c, e) PROVE HoldsAt(s)'
  <2>1. e[1] = IdIn(e) /\ e[2] = OrigIn(e) /\ e[3] = AtIn(e)
    BY DEF IdIn, OrigIn, AtIn
  <2> QED BY <1>3, <1>4, <1>5, <1>7, <2>1 DEF LookAt
<1> QED BY <1>6, <1>7, LooksAt

-----------------------------------------------------------------------------
\* A photo that arrives in the library.
LEMMA ArriveHolds ==
  ASSUME NEW s, Orderly(s), NEW p \in Lib, Arrive(p)
  PROVE  HoldsAt(s)'
<1>0. /\ TypeInv /\ HoldsAt(s) /\ Home(p) \notin DOMAIN fs /\ Area(Home(p)) = "library"
      /\ Mark(Home(p)) # "inode"
  BY PathsTell DEF Orderly, Arrive, Exists, Home, Mark
<1>1. /\ fs' = With(Home(p), Len(photo) + 1) /\ photo' = Append(photo, Len(photo) + 1)
      /\ UNCHANGED <<entries, ids, meant, faults, pc, id, src, dst, todo>> /\ Listed' = Listed
  BY DEF Arrive, request, Listed
<1>2. /\ DOMAIN fs' = DOMAIN fs \cup {Home(p)}
      /\ \A q \in DOMAIN fs : fs'[q] = fs[q] /\ photo'[fs'[q]] = photo[fs[q]]
  <2>1. DOMAIN fs' = DOMAIN fs \cup {Home(p)} /\ \A q \in DOMAIN fs : fs'[q] = fs[q]
    BY <1>0, <1>1 DEF With
  <2> QED BY <2>1, <1>0, <1>1, DataAre, FilesKeepPhotos
<1>3. \A i \in DOMAIN entries : entries[i].at # Home(p)
  BY <1>0, DataAre
<1>4. NamesAt(s)'
  BY <1>0, <1>1, <1>2 DEF HoldsAt, NamesAt, Area, Mark, Number
<1>5. RowsAt(s)'
  <2> SUFFICES ASSUME faults = 0, NEW i \in DOMAIN entries, RowSlot(i) = s PROVE RowHolds(i)'
    BY <1>1 DEF RowsAt, RowSlot
  <2>1. RowHolds(i)
    BY <1>0 DEF HoldsAt, RowsAt
  <2>2. /\ entries[i].at \in DOMAIN fs' <=> entries[i].at \in DOMAIN fs
        /\ entries[i].at \in DOMAIN fs => photo'[fs'[entries[i].at]] = photo[fs[entries[i].at]]
    BY <1>2, <1>3
  <2> QED BY <1>1, <2>1, <2>2 DEF RowHolds, Area
<1>6. FilesAt(s)'
  <2> SUFFICES ASSUME faults = 0, NEW q \in DOMAIN fs', SlotOf(q) = s PROVE FileHolds(q)'
    BY <1>1 DEF FilesAt
  <2>1. q # Home(p) => FileHolds(q)
    BY <1>0, <1>2 DEF HoldsAt, FilesAt
  <2> QED BY <1>0, <1>1, <2>1 DEF FileHolds, Area
<1>7. ASSUME NEW c \in Clients PROVE ClientHolds(s, c)'
  <2>0. ClientHolds(s, c)
    BY <1>0 DEF HoldsAt
  <2>1. pc[c] \in {"bin", "migrate", "copy", "rewrite"} => dst[c] # Home(p)
    <3>1. pc[c] = "bin" => Area(dst[c]) = "bin"
      <4> SUFFICES ASSUME pc[c] = "bin" PROVE Area(dst[c]) = "bin"
        OBVIOUS
      <4>1. PICK r \in Lib : dst[c] \in {InBin(r)} \cup {ByInode(r, m) : m \in 1..MaxFiles}
        BY <1>0, LocalsAre DEF LocalsFit
      <4>2. Area(InBin(r)) = "bin" /\ \A m \in 1..MaxFiles : Area(ByInode(r, m)) = "bin"
        BY PathsTell
      <4> QED BY <4>1, <4>2
    <3>2. pc[c] \in {"migrate", "copy", "rewrite"} => Area(dst[c]) = "bin"
      BY <1>0, RepairPath
    <3> QED BY <1>0, <3>1, <3>2
  <2>2. BinHolds(c) => BinHolds(c)'
    BY <2>1, <1>1, <1>2 DEF BinHolds, Mark, Number
  <2>3. HandHolds(c) => HandHolds(c)'
    BY <1>1, <1>2, <1>3 DEF HandHolds
  <2>4. RepairHolds(c) => RepairHolds(c)'
    BY <2>1, <1>1, <1>2, <1>3 DEF RepairHolds, Area
  <2>5. TodoHolds(s, c)'
    BY <2>0, <1>1 DEF ClientHolds, TodoHolds
  <2>6. HandAt(s, c)' <=> HandAt(s, c)
    BY <1>1 DEF HandAt
  <2> QED BY <2>0, <2>2, <2>3, <2>4, <2>5, <2>6 DEF ClientHolds
<1> QED BY <1>4, <1>5, <1>6, <1>7 DEF HoldsAt

\* A transaction is refused, the process is killed.
LEMMA FaultHolds ==
  ASSUME NEW s, Orderly(s), Crash \/ \E c \in Clients : TransactionFails(c)
  PROVE  HoldsAt(s)'
<1>0. /\ TypeInv /\ SlotsFit /\ HoldsAt(s) /\ UNCHANGED <<fs, photo, entries, ids, meant>>
      /\ faults' # 0
  BY DEF Orderly, TypeInv, DataTyped, Crash, TransactionFails, disk
<1>1. NamesAt(s)' /\ RowsAt(s)' /\ FilesAt(s)'
  BY <1>0 DEF HoldsAt, NamesAt, RowsAt, FilesAt, Area, Mark, Number
<1>2. ASSUME NEW c \in Clients, TransactionFails(c), NEW d \in Clients PROVE ClientHolds(s, d)'
  <2>0. ClientHolds(s, d)
    BY <1>0 DEF HoldsAt
  <2>1. \A e \in Clients : e # c => Same(e)
    <3>1. CASE Done(c)
      BY <1>0, <3>1, GotoIs DEF Done
    <3>2. CASE Goto(c, "next", 0, Nowhere, Nowhere, todo[c])
      BY <1>0, <3>2, GotoIs
    <3> QED BY <1>2, <3>1, <3>2 DEF TransactionFails
  <2>2. CASE d # c
    <3>1. Same(d) /\ HandAt(s, d)' => HandAt(s, d)
      BY <2>1, <2>2 DEF Same, HandAt
    <3>2. TodoHolds(s, d)'
      BY <1>0, <2>0, <2>1, <2>2 DEF ClientHolds, TodoHolds, Same
    <3>3. BinHolds(d) => BinHolds(d)'
      BY <1>0, <2>1, <2>2 DEF BinHolds, Same, Mark, Number
    <3>4. HandHolds(d) => HandHolds(d)'
      BY <1>0, <2>1, <2>2 DEF HandHolds, Same
    <3>5. RepairHolds(d) => RepairHolds(d)'
      BY <1>0, <2>1, <2>2 DEF RepairHolds, Same, Area, Listed
    <3> QED BY <2>0, <2>1, <2>2, <3>1, <3>2, <3>3, <3>4, <3>5 DEF ClientHolds
  <2>3. CASE d = c /\ Done(c)
    <3>1. src'[c] = Nowhere /\ todo'[c] = {}
      BY <1>0, <2>3, GotoIs DEF Done
    <3> QED BY <2>3, <3>1, LooseHolds DEF HandAt
  <2>4. CASE d = c /\ pc[c] = "forget" /\ Goto(c, "next", 0, Nowhere, Nowhere, todo[c])
    <3>1. id'[c] = 0 /\ src'[c] = Nowhere /\ todo'[c] = todo[c]
      BY <1>0, <2>4, GotoIs
    <3>2. \A e \in todo[c] : IdIn(e) # 0
      BY <1>0, TrashAssumption, HandTells DEF TypeInv, DataTyped
    <3>3. \A e \in todo[c] : Slot[OrigIn(e)] = s =>
            IdIn(e) \in DOMAIN entries /\ AtIn(e) = entries[IdIn(e)].at /\ IdIn(e) # 0
      BY <2>0, <2>4, <3>2 DEF ClientHolds, TodoHolds
    <3> QED BY <1>0, <2>4, <3>1, <3>3, LooseHolds DEF HandAt
  <2> QED BY <1>2, <2>2, <2>3, <2>4 DEF TransactionFails
<1>3. ASSUME Crash, NEW d \in Clients PROVE ClientHolds(s, d)'
  BY <1>3, LooseHolds DEF Crash, HandAt
<1> QED BY <1>1, <1>2, <1>3 DEF HoldsAt

-----------------------------------------------------------------------------
LEMMA TrashStarts == ASSUME Init PROVE TrashInv
<1>0. /\ \A c \in Clients : pc[c] = "idle" /\ src[c] = Nowhere /\ dst[c] = Nowhere /\ todo[c] = {}
      /\ TypeInv /\ SlotsFit
  BY TypeStarts, SlotsStart DEF Init
<1>1. Shared \subseteq crossed
  BY <1>0 DEF Shared, AtWork
<1>2. ASSUME NEW s \in Slots PROVE HoldsAt(s)
  <2>1. \A c \in Clients : ClientHolds(s, c)
    BY <1>0 DEF ClientHolds, TodoHolds, HandAt
  <2>2. NamesAt(s) /\ RowsAt(s) /\ FilesAt(s)
    <3>1. CASE fs = <<>> /\ photo = <<>> /\ entries = <<>> /\ meant = <<>>
      BY <3>1 DEF NamesAt, RowsAt, FilesAt
    <3>2. ASSUME NEW p \in Lib, OldRow(p)
          PROVE  NamesAt(s) /\ RowsAt(s) /\ FilesAt(s)
      <4>1. /\ DOMAIN entries = {1} /\ entries[1].at = Legacy(p) /\ Area(Legacy(p)) = "legacy"
            /\ Legacy(p) \in Listed
        <5>1. DOMAIN entries = {1} /\ entries[1].at = Legacy(p)
          BY <3>2 DEF OldRow
        <5>2. Area(Legacy(p)) = "legacy"
          BY PathsTell
        <5> QED BY <5>1, <5>2 DEF Listed
      <4>2. /\ DOMAIN fs \subseteq {Legacy(p)}
            /\ meant[1] # 0 => fs[Legacy(p)] = 1 /\ photo[1] = meant[1] /\ Legacy(p) \in DOMAIN fs
        BY <3>2 DEF OldRow
      <4>3. NamesAt(s)
        BY <4>1, <4>2 DEF NamesAt
      <4>4. RowsAt(s)
        BY <4>1, <4>2 DEF RowsAt, RowHolds
      <4>5. FilesAt(s)
        BY <4>1, <4>2 DEF FilesAt, FileHolds
      <4> QED BY <4>3, <4>4, <4>5
    <3> QED BY <3>1, <3>2 DEF Init, OldRow
  <2> QED BY <2>1, <2>2 DEF HoldsAt
<1> QED BY <1>0, <1>1, <1>2 DEF TrashInv

LEMMA StepHolds ==
  ASSUME NEW s, Orderly(s), SlotsFit', Alone(s)', Step
  PROVE  HoldsAt(s)'
<1>1. ASSUME NEW c \in Clients, Ask(c) PROVE HoldsAt(s)'
  BY <1>1, AskDeleteHolds, AskRowHolds, AskListHolds DEF Ask
<1>2. ASSUME NEW c \in Clients, Serve(c) PROVE HoldsAt(s)'
  BY <1>2, MoveToBinHolds, RecordHolds, PlaceHolds, MoveFromBinHolds, NextToDeleteHolds,
     UnlinkHolds, ForgetHolds, LookHolds, MigrateHolds, RebuildHolds, RewriteHolds DEF Serve
<1> QED BY <1>1, <1>2, ArriveHolds, FaultHolds DEF Step

LEMMA TrashInvStep ==
  ASSUME TrashInv, [Next]_vars
  PROVE  TrashInv'
<1>0. TypeInv' /\ SlotsFit'
  BY TypeStep, SlotsStep DEF TrashInv
<1>1. ASSUME UNCHANGED vars PROVE TrashInv'
  <2>1. UNCHANGED <<fs, photo, entries, ids, meant, faults, pc, id, src, dst, todo, crossed>>
    BY <1>1 DEF vars, disk, request
  <2>2. ASSUME NEW s, HoldsAt(s) PROVE HoldsAt(s)'
    <3>1. NamesAt(s)'
      BY <2>1, <2>2 DEF HoldsAt, NamesAt, Area, Mark, Number
    <3>2. RowsAt(s)'
      BY <2>1, <2>2 DEF HoldsAt, RowsAt, RowHolds, RowSlot, Area
    <3>3. FilesAt(s)'
      BY <2>1, <2>2 DEF HoldsAt, FilesAt, FileHolds, Listed, Area
    <3>4. \A c \in Clients : ClientHolds(s, c)'
      BY <2>1, <2>2 DEF HoldsAt, ClientHolds, TodoHolds, HandAt, BinHolds, HandHolds, RepairHolds,
                        Listed, Area, Mark, Number
    <3> QED BY <3>1, <3>2, <3>3, <3>4 DEF HoldsAt
  <2>3. Shared' = Shared /\ crossed' = crossed
    BY <2>1 DEF Shared, AtWork
  <2> QED BY <1>0, <2>2, <2>3 DEF TrashInv
<1>2. ASSUME Next PROVE TrashInv'
  <2>1. Step /\ crossed' = crossed \cup Shared'
    BY <1>2 DEF Next, SharingSeen
  <2>2. OneAtEach'
    BY AloneIs, PTL
  <2>3. ASSUME NEW s \in Slots, s \notin crossed' PROVE HoldsAt(s)'
    <3>1. Alone(s)' /\ s \notin crossed /\ s \notin Shared
      BY <2>1, <2>2, <2>3 DEF OneAtEach, TrashInv
    <3>2. Orderly(s)
      BY <3>1, AloneIs DEF OneAtEach, TrashInv, Orderly
    <3> QED BY <1>0, <2>1, <3>1, <3>2, StepHolds
  <2> QED BY <1>0, <2>1, <2>3 DEF TrashInv
<1> QED BY <1>1, <1>2

LEMMA TrashInvariant == Spec => []TrashInv
<1>1. TrashInv /\ [Next]_vars => TrashInv'
  BY TrashInvStep
<1> QED BY TrashStarts, <1>1, PTL DEF Spec

\* Whatever requests overlap, at a slot where no two have been at work at once,
\* and as long as nothing failed, a row leads to the photo that was deleted under
\* it, and no two rows lead to one file, through any deletions, restores,
\* emptyings and repairs (bulk_action.py, get_trash.py, restore_from_trash.py,
\* permanently_delete.py, empty_trash.py, purge_old_trash.py).
THEOREM RowsLeadToTheirPhotos == Spec => []OwnPhoto
<1>1. ASSUME TrashInv PROVE OwnPhoto
  <2> SUFFICES ASSUME faults = 0, NEW i \in DOMAIN entries, RowSlot(i) \notin crossed
      PROVE  /\ Exists(entries[i].at) /\ meant[i] # 0 => photo[fs[entries[i].at]] = meant[i]
             /\ \A j \in DOMAIN entries : entries[i].at = entries[j].at => i = j
    BY DEF OwnPhoto
  <2>1. RowSlot(i) \in Slots
    BY <1>1, DataAre DEF TrashInv, RowSlot, Slots
  <2>2. RowHolds(i)
    BY <1>1, <2>1 DEF TrashInv, HoldsAt, RowsAt
  <2> QED BY <2>2 DEF RowHolds, Exists
<1> QED BY TrashInvariant, <1>1, PTL

\* Whatever requests overlap, at a slot where no two have been at work at once,
\* where none is now, and when nothing failed, every file of a trash directory
\* has a row, and every row its file, but for those that an older build lost.
THEOREM BinAndListAgree == Spec => []BinMatchesList
<1>1. ASSUME TrashInv, faults = 0 PROVE BinMatchesList
  <2>0. TypeInv /\ SlotsFit
    BY <1>1 DEF TrashInv
  <2>1. ASSUME NEW s \in AtRest PROVE HoldsAt(s) /\ Settled(s)
    <3>1. s \in Slots \ crossed /\ \A c \in Clients : ~WorksAt(s, c)
      BY <2>1, WorkIs DEF AtRest
    <3> QED BY <1>1, <2>0, <3>1, AwayIs DEF TrashInv, Settled
  <2>2. ASSUME NEW q \in DOMAIN fs \ LibraryPaths, SlotOf(q) \in AtRest
        PROVE  \E i \in DOMAIN entries : entries[i].at = q
    <3>1. q \in TrashPaths
      BY <2>0 DEF TypeInv, DataTyped
    <3>2. Area(q) # "library"
      BY <3>1, PathsTell
    <3>3. q \in Listed
      BY <1>1, <2>0, <2>1, <2>2, <3>2, SettledFiles DEF HoldsAt
    <3> QED BY <2>0, <3>3, DataAre
  <2>3. ASSUME NEW i \in DOMAIN entries, RowSlot(i) \in AtRest, meant[i] # 0
        PROVE  Exists(entries[i].at)
    BY <1>1, <2>1, <2>3, SettledRows DEF HoldsAt, Exists
  <2> QED BY <2>2, <2>3 DEF BinMatchesList
<1>2. TrashInv => BinMatchesList
  BY <1>1 DEF BinMatchesList
<1> QED BY TrashInvariant, <1>2, PTL

-----------------------------------------------------------------------------
\* What a change of the disk keeps: a move elsewhere, and a new file elsewhere.
LEMMA MovesKeep ==
  ASSUME NEW c, Move(c), photo' = photo, NEW q \in DOMAIN fs, q # dst[c]
  PROVE  StaysOnDisk(photo[fs[q]])
<1>1. CASE q = src[c]
  BY <1>1 DEF Move, Exists, Renamed, StaysOnDisk
<1>2. CASE q # src[c]
  BY <1>2 DEF Move, Exists, Renamed, StaysOnDisk
<1> QED BY <1>1, <1>2

LEMMA NewFilesKeep ==
  ASSUME TypeInv, NEW to, NEW n, fs' = With(to, n),
         NEW x, photo' = Append(photo, x), NEW q \in DOMAIN fs, q # to
  PROVE  StaysOnDisk(photo[fs[q]])
<1>1. photo'[fs[q]] = photo[fs[q]]
  BY DataAre, FilesKeepPhotos
<1>2. q \in DOMAIN fs' /\ fs'[q] = fs[q]
  BY DEF With
<1> QED BY <1>1, <1>2 DEF StaysOnDisk

LEMMA TrashStepKeeps ==
  ASSUME TrashInv, [Next]_vars, NEW q \in DOMAIN fs \cap Listed, SlotOf(q) \notin crossed'
  PROVE  StaysOnDisk(photo[fs[q]]) \/ \E c \in Clients : pc[c] = "unlink" /\ src[c] = q
<1>0. /\ TypeInv /\ SlotsFit /\ HoldsAt(SlotOf(q)) /\ Area(q) \in {"bin", "legacy"}
  <2>1. crossed \subseteq crossed'
    BY DEF Next, SharingSeen, vars
  <2>2. TypeInv /\ SlotOf(q) \in Slots \ crossed
    BY <2>1, PathsAreSomewhere DEF TrashInv, TypeInv, DataTyped
  <2> QED BY <2>2, DataAre DEF TrashInv
<1>1. ASSUME UNCHANGED disk PROVE StaysOnDisk(photo[fs[q]])
  BY <1>1 DEF disk, StaysOnDisk
<1>2. ASSUME NEW c \in Clients,
             \/ pc[c] = "bin" \/ pc[c] = "unbin" \/ pc[c] = "migrate"
             \/ pc[c] = "copy"
      PROVE  q # dst[c]
  <2>1. CASE ~HandAt(SlotOf(q), c)
    <3>1. dst[c] # Nowhere
      BY <1>0, <1>2, DestinationIs
    <3> QED BY <1>0, <2>1, <3>1, HandTells DEF HandAt
  <2>2. CASE HandAt(SlotOf(q), c)
    <3>1. BinHolds(c) /\ RepairHolds(c)
      BY <1>0, <2>2 DEF HoldsAt, ClientHolds
    <3>2. CASE pc[c] = "unbin"
      <4>1. dst[c] \in LibraryPaths
        BY <1>0, <3>2, LocalsAre DEF LocalsFit
      <4> QED BY <1>0, <4>1, DataAre
    <3>3. CASE pc[c] # "unbin"
      BY <1>2, <3>1, <3>3 DEF BinHolds, RepairHolds
    <3> QED BY <3>2, <3>3
  <2> QED BY <2>1, <2>2
<1>3. ASSUME NEW c \in Clients, MoveToBin(c) \/ MoveFromBin(c) \/ Migrate(c)
      PROVE  StaysOnDisk(photo[fs[q]])
  BY <1>2, <1>3, MovesKeep DEF MoveToBin, MoveFromBin, Migrate
<1>4. ASSUME NEW c \in Clients, Rebuild(c) PROVE StaysOnDisk(photo[fs[q]])
  <2>1. CASE UNCHANGED disk
    BY <1>1, <2>1
  <2>2. CASE fs' = With(dst[c], Len(photo) + 1) /\ photo' = Append(photo, photo[fs[src[c]]])
    BY <1>0, <1>2, <1>4, <2>2, NewFilesKeep DEF Rebuild
  <2> QED BY <1>4, <2>1, <2>2 DEF Rebuild
<1>5. ASSUME NEW p \in Lib, Arrive(p) PROVE StaysOnDisk(photo[fs[q]])
  <2>1. /\ Home(p) \notin DOMAIN fs /\ fs' = With(Home(p), Len(photo) + 1)
        /\ photo' = Append(photo, Len(photo) + 1)
    BY <1>5 DEF Arrive, Exists
  <2> QED BY <1>0, <2>1, NewFilesKeep
<1>6. ASSUME NEW c \in Clients, Unlink(c), src[c] # q PROVE StaysOnDisk(photo[fs[q]])
  BY <1>6 DEF Unlink, Unlinked, Without, Restrict, StaysOnDisk
<1>7. CASE \E c \in Clients : Unlink(c)
  BY <1>6, <1>7 DEF Unlink
<1>8. CASE \E c \in Clients : MoveToBin(c) \/ MoveFromBin(c) \/ Migrate(c) \/ Rebuild(c)
  BY <1>3, <1>4, <1>8
<1>9. ASSUME ~ \E c \in Clients : \/ Unlink(c)
                                  \/ MoveToBin(c) \/ MoveFromBin(c) \/ Migrate(c) \/ Rebuild(c),
             ~ \E p \in Lib : Arrive(p)
      PROVE  UNCHANGED disk
  BY <1>9 DEF Next, Step, Ask, Serve, AskDelete, Record, AskRestore, Place, AskDeleteForEver,
              AskEmpty, NextToDelete, Forget, AskList, Look, Rewrite, TransactionFails, Crash,
              vars, disk
<1> QED BY <1>1, <1>5, <1>7, <1>8, <1>9

\* Whatever fails and whatever requests overlap, at a slot where no two have been
\* at work at once a photo that a row of the trash leads to leaves the disk only
\* by the deletion for ever of what is at its path: no deletion, restore,
\* migration or rebuild is made over it.
THEOREM ListedPhotosStay == Spec => TrashKeepsPhotos
<1>1. TrashInv /\ [Next]_vars
      => \A q \in DOMAIN fs \cap Listed :
           SlotOf(q) \notin crossed' =>
             \/ StaysOnDisk(photo[fs[q]])
             \/ \E c \in Clients : pc[c] = "unlink" /\ src[c] = q
  BY TrashStepKeeps
<1> QED BY TrashInvariant, <1>1, PTL DEF Spec, TrashKeepsPhotos
=============================================================================
