-------------------------------- MODULE Albums --------------------------------
(***************************************************************************)
(* Albums: the endpoints create_album, update_album, delete_album and      *)
(* album_photos with the album functions of repository.py.  A request      *)
(* checks an album it has read and writes in another transaction.  Adding  *)
(* and removing photos read before they write in one transaction, which    *)
(* in PostgreSQL others may overtake; its writes are seen at its commit.   *)
(***************************************************************************)
EXTENDS FiniteSets

CONSTANTS
  AlbumIds,  \* ids create_album draws; each is drawn once
  Pics,      \* paths of photos
  Editors,   \* browsers, each with one request at a time
  NoPic,     \* no cover
  NoAlbum    \* no request

ASSUME AlbumsAssumption == NoPic \notin Pics /\ NoAlbum \notin AlbumIds

VARIABLES
  albums,   \* ids with a row in albums
  drawn,    \* ids drawn so far
  members,  \* the rows of album_photos
  cover,    \* cover[a]: the column, NoPic for NULL
  aPc,      \* aPc[e]: where the request of e is
  album,    \* album[e], pics[e]: what it is about
  pics,
  seen,     \* seen[e]: what its transaction has read: members or the cover
  raced     \* history: raced[e], another request has changed what e has read

albumState   == <<albums, drawn, members, cover>>
albumRequest == <<aPc, album, pics, seen, raced>>
albumVars    == <<albumState, albumRequest>>

AlbumInit ==
  /\ albums = {} /\ drawn = {} /\ members = {}
  /\ cover = [a \in AlbumIds |-> NoPic]
  /\ aPc = [e \in Editors |-> "idle"]
  /\ album = [e \in Editors |-> NoAlbum]
  /\ pics = [e \in Editors |-> {}]
  /\ seen = [e \in Editors |-> {}]
  /\ raced = [e \in Editors |-> FALSE]

PicsOf(a) == {p \in Pics : <<a, p>> \in members}

\* A cover is a photo of the album.
CoverIn(a) == cover[a] \in PicsOf(a) \cup {NoPic}

AskAlbum(e, a, P, label) ==
  /\ aPc[e] = "idle"
  /\ aPc' = [aPc EXCEPT ![e] = label]
  /\ album' = [album EXCEPT ![e] = a]
  /\ pics' = [pics EXCEPT ![e] = P]
  /\ seen' = [seen EXCEPT ![e] = {}]
  /\ raced' = [raced EXCEPT ![e] = FALSE]
  /\ UNCHANGED albumState

ReadFor(e, what, label) ==
  /\ aPc' = [aPc EXCEPT ![e] = label]
  /\ seen' = [seen EXCEPT ![e] = what]
  /\ UNCHANGED <<albumState, album, pics, raced>>

\* The request of e is over; those that hold what it changed have raced.
AlbumDone(e, Raced) ==
  /\ aPc' = [aPc EXCEPT ![e] = "idle"]
  /\ album' = [album EXCEPT ![e] = NoAlbum]
  /\ pics' = [pics EXCEPT ![e] = {}]
  /\ seen' = [seen EXCEPT ![e] = {}]
  /\ raced' = [d \in Editors |-> IF d = e THEN FALSE ELSE raced[d] \/ d \in Raced]

\* The requests at label, about album a, that hold one of the photos P.
Holding(label, a, P) ==
  {e \in Editors : aPc[e] = label /\ album[e] = a /\ pics[e] \cap P # {}}

-----------------------------------------------------------------------------
CreateAlbum(e) ==
  /\ aPc[e] = "idle"
  /\ \E a \in AlbumIds \ drawn :
       /\ drawn' = drawn \cup {a}
       /\ albums' = albums \cup {a}
  /\ UNCHANGED <<members, cover, albumRequest>>

\* update_album with a cover: it must be a photo of the album read.
MayBeCover(a, p) == p \in PicsOf(a) \cup {NoPic}

AskCover(e, a, p) ==
  /\ a \in albums
  /\ MayBeCover(a, p)
  /\ AskAlbum(e, a, {p}, "cover")

\* update_album_cover; an album that is gone has no row to change.
SetCover(e) ==
  /\ aPc[e] = "cover"
  /\ \E p \in pics[e] :
       cover' = [cover EXCEPT ![album[e]] = IF album[e] \in albums THEN p ELSE @]
  /\ AlbumDone(e, Holding("remove", album[e], pics[e]))
  /\ UNCHANGED <<albums, drawn, members>>

\* album_photos: the album must exist.  Paths outside the library are left out.
AskPhotos(e, a, P, label) ==
  /\ a \in albums
  /\ AskAlbum(e, a, P, label)

\* album_add_photos: existing
ReadMembers(e) ==
  /\ aPc[e] = "add"
  /\ ReadFor(e, PicsOf(album[e]), "insert")

\* The unique index refuses a photo that another request has added since, and
\* the transaction with it.  Nothing ties a row to its album: an album deleted
\* meanwhile leaves the rows behind.
InsertMembers(e) ==
  /\ aPc[e] = "insert"
  /\ LET new == {album[e]} \X (pics[e] \ seen[e]) IN
     members' = IF new \cap members = {} THEN members \cup new ELSE members
  /\ AlbumDone(e, {})
  /\ UNCHANGED <<albums, drawn, cover>>

\* album_remove_photos deletes rows and reads the cover,
ReadCover(e) ==
  /\ aPc[e] = "uncover"
  /\ ReadFor(e, {cover[album[e]]}, "remove")

\* Mutated form: the cover is left as it is.
KeepsCover(e) == FALSE

ClearsCover(e) == seen[e] \cap pics[e] # {}

\* and clears a cover that is among the photos that go.
RemoveMembers(e) ==
  /\ aPc[e] = "remove"
  /\ members' = members \ ({album[e]} \X pics[e])
  /\ cover' = [cover EXCEPT ![album[e]] = IF ClearsCover(e) THEN NoPic ELSE @]
  /\ AlbumDone(e, Holding("cover", album[e], pics[e]))
  /\ UNCHANGED <<albums, drawn>>

DeleteAlbum(e, a) ==
  /\ aPc[e] = "idle"
  /\ a \in albums
  /\ albums' = albums \ {a}
  /\ members' = {m \in members : m[1] # a}
  /\ cover' = [cover EXCEPT ![a] = NoPic]
  /\ UNCHANGED <<drawn, albumRequest>>

AlbumNext ==
  \E e \in Editors :
    \/ CreateAlbum(e)
    \/ SetCover(e)
    \/ ReadMembers(e)
    \/ InsertMembers(e)
    \/ ReadCover(e)
    \/ RemoveMembers(e)
    \/ \E a \in AlbumIds :
         \/ DeleteAlbum(e, a)
         \/ \E p \in Pics \cup {NoPic} : AskCover(e, a, p)
         \/ \E P \in (SUBSET Pics) \ {{}}, label \in {"add", "uncover"} : AskPhotos(e, a, P, label)

AlbumSpec == AlbumInit /\ [][AlbumNext]_albumVars

-----------------------------------------------------------------------------
AlbumTypeOK ==
  /\ albums \subseteq drawn /\ drawn \subseteq AlbumIds
  /\ members \subseteq AlbumIds \X Pics
  /\ cover \in [AlbumIds -> Pics \cup {NoPic}]
  /\ aPc \in [Editors -> {"idle", "cover", "add", "insert", "uncover", "remove"}]
  /\ album \in [Editors -> AlbumIds \cup {NoAlbum}]
  /\ pics \in [Editors -> SUBSET (Pics \cup {NoPic})]
  /\ seen \in [Editors -> SUBSET (Pics \cup {NoPic})]
  /\ raced \in [Editors -> BOOLEAN]

\* The cover of an album stays one of its photos (update_album checks it, and
\* album_remove_photos clears it, repository.py 974-981), unless a request that
\* sets a cover and one that removes that photo overtake each other: the last
\* of the two to write has then raced.
CoverStaysIn ==
  [][\A a \in AlbumIds :
       CoverIn(a) => CoverIn(a)' \/ \E e \in Editors : album[e] = a /\ raced[e] /\ ~raced'[e]
    ]_albumVars
=============================================================================
