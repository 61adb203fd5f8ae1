--------------------------- MODULE RequestsProofs ---------------------------
(***************************************************************************)
(* The requests that are served beside the jobs, and all of them together. *)
(***************************************************************************)
EXTENDS Requests, AccountsProofs, FilesProofs, FiniteSetTheorems, FunctionTheorems, TLAPS

(***************************************************************************)
(* Albums: covers stay in their albums, for any albums, photos and browsers, *)
(* but for the last of two requests that overtake each other.              *)
(***************************************************************************)

\* A request is about an album that was created, and about photos.
RequestsAreAbout ==
  \A e \in Editors :
    /\ aPc[e] # "idle" => album[e] \in drawn
    /\ aPc[e] \in {"add", "insert", "uncover", "remove"} => pics[e] \subseteq Pics

\* A cover that was checked, and not overtaken, is still in its album.
CheckedCoverIsIn ==
  \A e \in Editors :
    aPc[e] = "cover" /\ ~raced[e] /\ album[e] \in albums
      => pics[e] \subseteq PicsOf(album[e]) \cup {NoPic}

\* A removal that read the cover, and was not overtaken, knows whether it goes.
RemovalKnowsCover ==
  \A e \in Editors :
    aPc[e] = "remove" /\ ~raced[e] /\ cover[album[e]] \in pics[e] => ClearsCover(e)

AlbumsInv == AlbumTypeOK /\ RequestsAreAbout /\ CheckedCoverIsIn /\ RemovalKnowsCover

\* The asking of a cover, and of photos to add or remove.
Asks(e) ==
  \E a \in AlbumIds :
    \/ \E p \in Pics \cup {NoPic} : AskCover(e, a, p)
    \/ \E P \in (SUBSET Pics) \ {{}}, label \in {"add", "uncover"} : AskPhotos(e, a, P, label)

-----------------------------------------------------------------------------
\* At the start there are no albums and no requests.
LEMMA AlbumsStart == ASSUME AlbumInit PROVE AlbumsInv
  BY DEF AlbumInit, AlbumsInv, AlbumTypeOK, RequestsAreAbout, CheckedCoverIsIn, RemovalKnowsCover

\* Types and what requests are about, step by step.
LEMMA AlbumTypeStep ==
  ASSUME AlbumTypeOK, RequestsAreAbout, [AlbumNext]_albumVars
  PROVE  AlbumTypeOK' /\ RequestsAreAbout'
  <1> USE DEF AlbumTypeOK, RequestsAreAbout
  <1>1. CASE UNCHANGED albumVars
    BY <1>1 DEF albumVars, albumState, albumRequest
  <1>2. ASSUME NEW e \in Editors, CreateAlbum(e) PROVE AlbumTypeOK' /\ RequestsAreAbout'
    BY <1>2 DEF CreateAlbum, albumRequest
  <1>3. ASSUME NEW e \in Editors, Asks(e) PROVE AlbumTypeOK' /\ RequestsAreAbout'
    <2>1. ASSUME NEW a \in AlbumIds, NEW p \in Pics \cup {NoPic}, AskCover(e, a, p)
          PROVE  AlbumTypeOK' /\ RequestsAreAbout'
      BY <2>1 DEF AskCover, AskAlbum, albumState
    <2>2. ASSUME NEW a \in AlbumIds, NEW P \in (SUBSET Pics) \ {{}},
                 NEW label \in {"add", "uncover"}, AskPhotos(e, a, P, label)
          PROVE  AlbumTypeOK' /\ RequestsAreAbout'
      BY <2>2 DEF AskPhotos, AskAlbum, albumState
    <2> QED BY <1>3, <2>1, <2>2 DEF Asks
  <1>4. ASSUME NEW e \in Editors, SetCover(e) PROVE AlbumTypeOK' /\ RequestsAreAbout'
    <2> DEFINE R == Holding("remove", album[e], pics[e])
    <2>1. cover' \in [AlbumIds -> Pics \cup {NoPic}]
      BY <1>4 DEF SetCover
    <2>2. AlbumDone(e, R) /\ UNCHANGED <<albums, drawn, members>>
      BY <1>4 DEF SetCover
    <2> HIDE DEF R
    <2>3. raced' \in [Editors -> BOOLEAN]
      BY <2>2 DEF AlbumDone
    <2>4. /\ aPc' \in [Editors -> {"idle", "cover", "add", "insert", "uncover", "remove"}]
          /\ album' \in [Editors -> AlbumIds \cup {NoAlbum}]
          /\ pics' \in [Editors -> SUBSET (Pics \cup {NoPic})]
          /\ seen' \in [Editors -> SUBSET (Pics \cup {NoPic})]
      BY <2>2 DEF AlbumDone
    <2>5. AlbumTypeOK'
      BY <2>1, <2>2, <2>3, <2>4
    <2>6. ASSUME NEW d \in Editors, aPc'[d] # "idle"
          PROVE  aPc'[d] = aPc[d] /\ album'[d] = album[d] /\ pics'[d] = pics[d]
      BY <2>2, <2>6 DEF AlbumDone
    <2> QED BY <2>2, <2>5, <2>6
  <1>5. ASSUME NEW e \in Editors, ReadMembers(e) PROVE AlbumTypeOK' /\ RequestsAreAbout'
    BY <1>5 DEF ReadMembers, ReadFor, PicsOf, albumState
  <1>6. ASSUME NEW e \in Editors, InsertMembers(e) PROVE AlbumTypeOK' /\ RequestsAreAbout'
    <2>1. album[e] \in AlbumIds /\ pics[e] \subseteq Pics
      BY <1>6 DEF InsertMembers
    <2>2. members' \subseteq AlbumIds \X Pics
      BY <1>6, <2>1 DEF InsertMembers
    <2> QED BY <1>6, <2>2 DEF InsertMembers, AlbumDone
  <1>7. ASSUME NEW e \in Editors, ReadCover(e) PROVE AlbumTypeOK' /\ RequestsAreAbout'
    <2>1. album[e] \in AlbumIds /\ cover[album[e]] \in Pics \cup {NoPic}
      BY <1>7 DEF ReadCover
    <2> QED BY <1>7, <2>1 DEF ReadCover, ReadFor, albumState
  <1>8. ASSUME NEW e \in Editors, RemoveMembers(e) PROVE AlbumTypeOK' /\ RequestsAreAbout'
    <2>1. cover' \in [AlbumIds -> Pics \cup {NoPic}] /\ members' \subseteq AlbumIds \X Pics
      BY <1>8 DEF RemoveMembers
    <2> DEFINE R == Holding("cover", album[e], pics[e])
    <2>2. AlbumDone(e, R) /\ UNCHANGED <<albums, drawn>>
      BY <1>8 DEF RemoveMembers
    <2> HIDE DEF R
    <2>3. raced' \in [Editors -> BOOLEAN]
      BY <2>2 DEF AlbumDone
    <2>4. /\ aPc' \in [Editors -> {"idle", "cover", "add", "insert", "uncover", "remove"}]
          /\ album' \in [Editors -> AlbumIds \cup {NoAlbum}]
          /\ pics' \in [Editors -> SUBSET (Pics \cup {NoPic})]
          /\ seen' \in [Editors -> SUBSET (Pics \cup {NoPic})]
      BY <2>2 DEF AlbumDone
    <2>5. AlbumTypeOK'
      BY <2>1, <2>2, <2>3, <2>4
    <2>6. ASSUME NEW d \in Editors, aPc'[d] # "idle"
          PROVE  aPc'[d] = aPc[d] /\ album'[d] = album[d] /\ pics'[d] = pics[d]
      BY <2>2, <2>6 DEF AlbumDone
    <2> QED BY <2>2, <2>5, <2>6
  <1>9. ASSUME NEW e \in Editors, NEW a \in AlbumIds, DeleteAlbum(e, a)
        PROVE  AlbumTypeOK' /\ RequestsAreAbout'
    BY <1>9 DEF DeleteAlbum, albumRequest
  <1> QED
    BY <1>1, <1>2, <1>3, <1>4, <1>5, <1>6, <1>7, <1>8, <1>9 DEF AlbumNext, Asks

\* A request that is still where it was, about what it was, after the request
\* of another has ended.
LEMMA OthersAtEnd ==
  ASSUME AlbumTypeOK, NEW d \in Editors, NEW R \in SUBSET Editors, AlbumDone(d, R),
         NEW e \in Editors, aPc'[e] # "idle"
  PROVE  /\ e # d /\ aPc'[e] = aPc[e] /\ album'[e] = album[e] /\ pics'[e] = pics[e]
         /\ seen'[e] = seen[e]
         /\ ~raced'[e] => ~raced[e] /\ e \notin R
  BY DEF AlbumDone, AlbumTypeOK

\* A checked cover stays in its album, or its request has raced.
LEMMA CheckedCoverStep ==
  ASSUME AlbumsInv, [AlbumNext]_albumVars PROVE CheckedCoverIsIn'
  <1> SUFFICES ASSUME NEW e \in Editors, aPc'[e] = "cover", ~raced'[e], album'[e] \in albums',
                      NEW p \in pics'[e], p # NoPic
               PROVE  <<album'[e], p>> \in members' /\ p \in Pics
    BY DEF CheckedCoverIsIn, PicsOf
  <1> USE DEF AlbumsInv, AlbumTypeOK
  <1>0. aPc[e] = "cover" /\ ~raced[e] /\ album[e] \in albums /\ p \in pics[e]
        => <<album[e], p>> \in members /\ p \in Pics
    BY DEF CheckedCoverIsIn, PicsOf
  <1>1. CASE UNCHANGED albumVars
    BY <1>0, <1>1 DEF albumVars, albumState, albumRequest
  <1>2. ASSUME NEW d \in Editors, CreateAlbum(d) PROVE <<album'[e], p>> \in members' /\ p \in Pics
    <2>1. album[e] \in drawn
      BY <1>2 DEF CreateAlbum, albumRequest, RequestsAreAbout
    <2> QED BY <1>0, <1>2, <2>1 DEF CreateAlbum, albumRequest
  <1>3. ASSUME NEW d \in Editors, Asks(d) PROVE <<album'[e], p>> \in members' /\ p \in Pics
    <2>1. ASSUME NEW a \in AlbumIds, NEW q \in Pics \cup {NoPic}, AskCover(d, a, q)
          PROVE  <<album'[e], p>> \in members' /\ p \in Pics
      <3>1. CASE e = d
        BY <2>1, <3>1 DEF AskCover, AskAlbum, MayBeCover, PicsOf, albumState
      <3>2. CASE e # d
        BY <1>0, <2>1, <3>2 DEF AskCover, AskAlbum, albumState
      <3> QED BY <3>1, <3>2
    <2>2. ASSUME NEW a \in AlbumIds, NEW P \in (SUBSET Pics) \ {{}},
                 NEW label \in {"add", "uncover"}, AskPhotos(d, a, P, label)
          PROVE  <<album'[e], p>> \in members' /\ p \in Pics
      BY <1>0, <2>2 DEF AskPhotos, AskAlbum, albumState
    <2> QED BY <1>3, <2>1, <2>2 DEF Asks
  <1>4. ASSUME NEW d \in Editors, SetCover(d) PROVE <<album'[e], p>> \in members' /\ p \in Pics
    <2>1. PICK R \in SUBSET Editors : AlbumDone(d, R)
      BY <1>4 DEF SetCover, Holding
    <2> QED BY <1>0, <1>4, <2>1, OthersAtEnd DEF SetCover
  <1>5. ASSUME NEW d \in Editors, ReadMembers(d) \/ ReadCover(d)
        PROVE  <<album'[e], p>> \in members' /\ p \in Pics
    BY <1>0, <1>5 DEF ReadMembers, ReadCover, ReadFor, albumState
  <1>6. ASSUME NEW d \in Editors, InsertMembers(d)
        PROVE  <<album'[e], p>> \in members' /\ p \in Pics
    <2>1. AlbumDone(d, {}) /\ members \subseteq members' /\ albums' = albums
      BY <1>6 DEF InsertMembers
    <2> QED BY <1>0, <2>1, OthersAtEnd
  <1>7. ASSUME NEW d \in Editors, RemoveMembers(d)
        PROVE  <<album'[e], p>> \in members' /\ p \in Pics
    <2> DEFINE R == Holding("cover", album[d], pics[d])
    <2>1. AlbumDone(d, R) /\ R \in SUBSET Editors
      BY <1>7 DEF RemoveMembers, Holding
    <2>2. aPc[e] = "cover" /\ album'[e] = album[e] /\ pics'[e] = pics[e] /\ ~raced[e] /\ e \notin R
      BY <2>1, OthersAtEnd
    <2>3. albums' = albums /\ members' = members \ ({album[d]} \X pics[d])
      BY <1>7 DEF RemoveMembers
    <2>4. <<album[e], p>> \in members /\ p \in Pics
      BY <1>0, <2>2, <2>3
    <2>5. ~(album[e] = album[d] /\ p \in pics[d])
      BY <2>2 DEF Holding
    <2> QED BY <2>2, <2>3, <2>4, <2>5
  <1>8. ASSUME NEW d \in Editors, NEW a \in AlbumIds, DeleteAlbum(d, a)
        PROVE  <<album'[e], p>> \in members' /\ p \in Pics
    BY <1>0, <1>8 DEF DeleteAlbum, albumRequest
  <1> QED
    BY <1>1, <1>2, <1>3, <1>4, <1>5, <1>6, <1>7, <1>8 DEF AlbumNext, Asks

\* What a removal has read of the cover stays so, or its request has raced.
LEMMA RemovalStep ==
  ASSUME AlbumsInv, [AlbumNext]_albumVars PROVE RemovalKnowsCover'
  <1> SUFFICES ASSUME NEW e \in Editors, aPc'[e] = "remove", ~raced'[e],
                      cover'[album'[e]] \in pics'[e]
               PROVE  seen'[e] \cap pics'[e] # {}
    BY DEF RemovalKnowsCover, ClearsCover
  <1> USE DEF AlbumsInv, AlbumTypeOK
  <1>0. /\ aPc[e] = "remove" => pics[e] \subseteq Pics /\ album[e] \in AlbumIds
        /\ aPc[e] = "remove" /\ ~raced[e] /\ cover[album[e]] \in pics[e] => seen[e] \cap pics[e] # {}
    BY DEF RemovalKnowsCover, ClearsCover, RequestsAreAbout
  <1>1. CASE UNCHANGED albumVars
    BY <1>0, <1>1 DEF albumVars, albumState, albumRequest
  <1>2. ASSUME NEW d \in Editors, CreateAlbum(d) PROVE seen'[e] \cap pics'[e] # {}
    BY <1>0, <1>2 DEF CreateAlbum, albumRequest
  <1>3. ASSUME NEW d \in Editors, Asks(d) PROVE seen'[e] \cap pics'[e] # {}
    <2>1. ASSUME NEW a \in AlbumIds, NEW q \in Pics \cup {NoPic}, AskCover(d, a, q)
          PROVE  seen'[e] \cap pics'[e] # {}
      BY <1>0, <2>1 DEF AskCover, AskAlbum, albumState
    <2>2. ASSUME NEW a \in AlbumIds, NEW P \in (SUBSET Pics) \ {{}},
                 NEW label \in {"add", "uncover"}, AskPhotos(d, a, P, label)
          PROVE  seen'[e] \cap pics'[e] # {}
      BY <1>0, <2>2 DEF AskPhotos, AskAlbum, albumState
    <2> QED BY <1>3, <2>1, <2>2 DEF Asks
  <1>4. ASSUME NEW d \in Editors, SetCover(d) PROVE seen'[e] \cap pics'[e] # {}
    <2> DEFINE R == Holding("remove", album[d], pics[d])
    <2>1. AlbumDone(d, R) /\ R \in SUBSET Editors
      BY <1>4 DEF SetCover, Holding
    <2>2. /\ aPc[e] = "remove" /\ album'[e] = album[e] /\ pics'[e] = pics[e]
          /\ seen'[e] = seen[e] /\ ~raced[e] /\ e \notin R
      BY <2>1, OthersAtEnd
    <2>3. PICK p \in pics[d] :
            cover' = [cover EXCEPT ![album[d]] = IF album[d] \in albums THEN p ELSE @]
      BY <1>4 DEF SetCover
    <2>4. CASE album[e] # album[d]
      BY <1>0, <2>2, <2>3, <2>4
    <2>5. CASE album[e] = album[d]
      <3>1. p \notin pics[e]
        BY <2>2, <2>5 DEF Holding
      <3>2. cover'[album[e]] = IF album[d] \in albums THEN p ELSE cover[album[e]]
        BY <1>0, <2>2, <2>3, <2>5
      <3>3. cover'[album[e]] \in pics[e]
        BY <2>2
      <3>4. cover[album[e]] \in pics[e]
        BY <3>1, <3>2, <3>3
      <3> QED BY <1>0, <2>2, <3>4
    <2> QED BY <2>4, <2>5
  <1>5. ASSUME NEW d \in Editors, ReadMembers(d) PROVE seen'[e] \cap pics'[e] # {}
    BY <1>0, <1>5 DEF ReadMembers, ReadFor, albumState
  <1>6. ASSUME NEW d \in Editors, ReadCover(d) PROVE seen'[e] \cap pics'[e] # {}
    BY <1>0, <1>6 DEF ReadCover, ReadFor, albumState
  <1>7. ASSUME NEW d \in Editors, InsertMembers(d) PROVE seen'[e] \cap pics'[e] # {}
    <2>1. AlbumDone(d, {}) /\ cover' = cover
      BY <1>7 DEF InsertMembers
    <2> QED BY <1>0, <2>1, OthersAtEnd
  <1>8. ASSUME NEW d \in Editors, RemoveMembers(d) PROVE seen'[e] \cap pics'[e] # {}
    <2> DEFINE R == Holding("cover", album[d], pics[d])
    <2>1. AlbumDone(d, R) /\ R \in SUBSET Editors
      BY <1>8 DEF RemoveMembers, Holding
    <2>2. /\ aPc[e] = "remove" /\ album'[e] = album[e] /\ pics'[e] = pics[e]
          /\ seen'[e] = seen[e] /\ ~raced[e]
      BY <2>1, OthersAtEnd
    <2>3. cover'[album[e]] \in {cover[album[e]], NoPic}
      BY <1>0, <1>8, <2>2 DEF RemoveMembers
    <2>4. NoPic \notin pics[e]
      BY <1>0, <2>2, AlbumsAssumption
    <2> QED BY <1>0, <2>2, <2>3, <2>4
  <1>9. ASSUME NEW d \in Editors, NEW a \in AlbumIds, DeleteAlbum(d, a)
        PROVE  seen'[e] \cap pics'[e] # {}
    <2>1. aPc[e] = "remove" /\ ~raced[e] /\ cover'[album[e]] \in pics[e]
          /\ seen' = seen /\ pics' = pics
      BY <1>9 DEF DeleteAlbum, albumRequest
    <2>2. cover'[album[e]] \in {cover[album[e]], NoPic}
      BY <1>0, <1>9, <2>1 DEF DeleteAlbum
    <2> QED BY <1>0, <2>1, <2>2, AlbumsAssumption
  <1> QED
    BY <1>1, <1>2, <1>3, <1>4, <1>5, <1>6, <1>7, <1>8, <1>9 DEF AlbumNext, Asks

-----------------------------------------------------------------------------
\* No step takes the cover of an album out of it, but that of a request that
\* has raced.
LEMMA CoverStep ==
  ASSUME AlbumsInv, [AlbumNext]_albumVars, NEW a \in AlbumIds, CoverIn(a),
         \A e \in Editors : ~(album[e] = a /\ raced[e] /\ ~raced'[e])
  PROVE  CoverIn(a)'
  <1> USE DEF AlbumsInv, AlbumTypeOK
  <1> SUFFICES ASSUME cover'[a] # NoPic PROVE cover'[a] \in Pics /\ <<a, cover'[a]>> \in members'
    BY DEF CoverIn, PicsOf
  <1>0. cover[a] # NoPic => cover[a] \in Pics /\ <<a, cover[a]>> \in members
    BY DEF CoverIn, PicsOf
  <1>1. CASE cover' = cover /\ members \subseteq members'
    BY <1>0, <1>1
  <1>2. ASSUME NEW d \in Editors, SetCover(d)
        PROVE  cover'[a] \in Pics /\ <<a, cover'[a]>> \in members'
    <2>1. PICK p \in pics[d] :
            cover' = [cover EXCEPT ![album[d]] = IF album[d] \in albums THEN p ELSE @]
      BY <1>2 DEF SetCover
    <2>2. members' = members /\ aPc[d] = "cover" /\ raced'[d] = FALSE
      BY <1>2 DEF SetCover, AlbumDone
    <2>3. CASE album[d] = a /\ a \in albums
      <3>1. ~raced[d]
        BY <2>2, <2>3
      <3>2. pics[d] \subseteq PicsOf(a) \cup {NoPic}
        BY <2>2, <2>3, <3>1 DEF CheckedCoverIsIn
      <3>3. cover'[a] = p
        BY <2>1, <2>3
      <3> QED BY <2>2, <3>2, <3>3 DEF PicsOf
    <2>4. CASE ~(album[d] = a /\ a \in albums)
      BY <1>0, <2>1, <2>2, <2>4
    <2> QED BY <2>3, <2>4
  <1>3. ASSUME NEW d \in Editors, RemoveMembers(d)
        PROVE  cover'[a] \in Pics /\ <<a, cover'[a]>> \in members'
    <2>1. /\ aPc[d] = "remove" /\ raced'[d] = FALSE
          /\ members' = members \ ({album[d]} \X pics[d])
          /\ cover' = [cover EXCEPT ![album[d]] = IF ClearsCover(d) THEN NoPic ELSE @]
      BY <1>3 DEF RemoveMembers, AlbumDone
    <2>2. CASE album[d] # a
      BY <1>0, <2>1, <2>2
    <2>3. CASE album[d] = a
      <3>1. ~ClearsCover(d) /\ cover'[a] = cover[a]
        BY <2>1, <2>3
      <3>2. ~raced[d]
        BY <2>1, <2>3
      <3>3. cover[a] \notin pics[d]
        BY <2>1, <2>3, <3>1, <3>2 DEF RemovalKnowsCover
      <3> QED BY <1>0, <2>1, <3>1, <3>3
    <2> QED BY <2>2, <2>3
  <1>4. ASSUME NEW d \in Editors, NEW b \in AlbumIds, DeleteAlbum(d, b)
        PROVE  cover'[a] \in Pics /\ <<a, cover'[a]>> \in members'
    BY <1>0, <1>4 DEF DeleteAlbum
  <1>5. ASSUME NEW d \in Editors, InsertMembers(d) PROVE cover' = cover /\ members \subseteq members'
    BY <1>5 DEF InsertMembers
  <1>6. ASSUME NEW d \in Editors,
               CreateAlbum(d) \/ Asks(d) \/ ReadMembers(d) \/ ReadCover(d)
        PROVE  cover' = cover /\ members \subseteq members'
    BY <1>6 DEF CreateAlbum, Asks, AskCover, AskPhotos, AskAlbum, ReadMembers, ReadCover, ReadFor,
                albumState
  <1>7. UNCHANGED albumVars => cover' = cover /\ members \subseteq members'
    BY DEF albumVars, albumState
  <1> QED BY <1>1, <1>2, <1>3, <1>4, <1>5, <1>6, <1>7 DEF AlbumNext, Asks

-----------------------------------------------------------------------------
\* The invariant is kept by every step.
LEMMA AlbumStep == ASSUME AlbumsInv, [AlbumNext]_albumVars PROVE AlbumsInv'
  BY AlbumTypeStep, CheckedCoverStep, RemovalStep DEF AlbumsInv

\* Albums, members, covers and requests keep to their types.
THEOREM AlbumTypeCorrect == AlbumSpec => []AlbumTypeOK
  <1>1. AlbumInit => AlbumsInv
    BY AlbumsStart
  <1>2. AlbumsInv /\ [AlbumNext]_albumVars => AlbumsInv'
    BY AlbumStep
  <1>3. AlbumsInv => AlbumTypeOK
    BY DEF AlbumsInv
  <1> QED BY <1>1, <1>2, <1>3, PTL DEF AlbumSpec

\* The cover of an album stays one of its photos (update_album and
\* album_remove_photos), unless the last of two requests that overtake each
\* other writes.
THEOREM CoversStayIn == AlbumSpec => CoverStaysIn
  <1>1. AlbumInit => AlbumsInv
    BY AlbumsStart
  <1>2. AlbumsInv /\ [AlbumNext]_albumVars => AlbumsInv'
    BY AlbumStep
  <1>3. AlbumsInv /\ [AlbumNext]_albumVars =>
          [\A a \in AlbumIds :
             CoverIn(a) => CoverIn(a)' \/ \E e \in Editors : album[e] = a /\ raced[e] /\ ~raced'[e]
          ]_albumVars
    BY CoverStep
  <1> QED BY <1>1, <1>2, <1>3, PTL DEF AlbumSpec, CoverStaysIn
-----------------------------------------------------------------------------
(***************************************************************************)
(* The settings: what was set is what is stored, for any browsers, folders, *)
(* drives, servers and keys, but for the saves that overtake each other.    *)
(***************************************************************************)

\* A form is about something that its table can hold.
WholeForm(f) ==
  /\ f.table = "ssh" => f.about \in Aliases /\ f.server \in Server
  /\ f.table = "dest" => f.about \in Aliases \cup {"local", "nowhere"}
  /\ f.table = "folders" => (f.adds <=> f.about \in f.paths)

\* A form that no other save has overtaken would keep what the others have set.
CurrentForm(f) ==
  /\ f.table = "ssh" /\ ~f.adds => f.server.key = typed[f.about]
  /\ f.table = "dest" /\ f.about \in Aliases => ssh[f.about].role \in {"destino", "ambos"}
  /\ f.table = "folders" => \A g \in AllFolders \ {f.about} :
       /\ want[g] = "listed" => g \in f.paths
       /\ want[g] = "gone" => g \notin f.paths

FormsHold ==
  \A p \in Panels : WholeForm(form[p]) /\ (~overtaken[p] => CurrentForm(form[p]))

\* Rows are inserted late only by another save, which overtakes.
LateIsOvertaken == \A p \in Panels : late[p] => overtaken[p]

\* The answers are about the saved list, never about the default folders.
WantIsList ==
  \A f \in AllFolders :
    /\ want[f] = "listed" => f \in folders
    /\ want[f] = "gone" => folders # {} /\ f \notin folders

ServersKept ==
  /\ \A a \in Aliases : ssh[a].key = typed[a]
  /\ dest \in Aliases \ edited => ssh[dest].role \in {"destino", "ambos"}

SettingsInv ==
  SettingsTypeOK /\ LateIsOvertaken /\ FormsHold /\ WantIsList /\ ServersKept

-----------------------------------------------------------------------------
\* An empty form changes nothing, and is current.
LEMMA NoFormHolds == NoForm \in Form /\ WholeForm(NoForm) /\ CurrentForm(NoForm)
  BY DEF NoForm, Form, WholeForm, CurrentForm

\* At the start nothing is set.
LEMMA SettingsStart == ASSUME SettingsInit PROVE SettingsInv
  <1> USE DEF SettingsInit
  <1>1. SettingsTypeOK
    BY NoFormHolds DEF SettingsTypeOK
  <1>2. LateIsOvertaken /\ WantIsList
    BY DEF LateIsOvertaken, WantIsList
  <1>3. FormsHold
    BY NoFormHolds DEF FormsHold
  <1>4. ServersKept
    BY SettingsAssumption DEF ServersKept, NoServer
  <1> QED BY <1>1, <1>2, <1>3, <1>4 DEF SettingsInv

\* A request that keeps to what is stored.
LEMMA AskHolds ==
  ASSUME SettingsInv, NEW p \in Panels, NEW f \in Form, WholeForm(f), CurrentForm(f), AskSave(p, f)
  PROVE  SettingsInv'
  <1> USE DEF SettingsInv
  <1>1. /\ UNCHANGED settings /\ form' = [form EXCEPT ![p] = f]
        /\ overtaken' = [overtaken EXCEPT ![p] = FALSE] /\ late' = [late EXCEPT ![p] = FALSE]
        /\ sPc' = [sPc EXCEPT ![p] = "delete"]
    BY DEF AskSave
  <1>2. SettingsTypeOK'
    BY <1>1 DEF SettingsTypeOK, settings
  <1>3. LateIsOvertaken'
    BY <1>1 DEF LateIsOvertaken, SettingsTypeOK
  <1>4. FormsHold'
    BY <1>1 DEF FormsHold, WholeForm, CurrentForm, settings, SettingsTypeOK
  <1>5. WantIsList' /\ ServersKept'
    BY <1>1 DEF WantIsList, ServersKept, settings
  <1> QED BY <1>2, <1>3, <1>4, <1>5

\* What the requests ask for.
LEMMA AsksHold ==
  ASSUME SettingsInv, NEW p \in Panels,
         \/ \E f \in AllFolders : AddFolder(p, f) \/ RemoveFolder(p, f)
         \/ \E a \in Aliases, k \in Keys \cup {NoKey}, r \in SshRoles, o \in BOOLEAN :
              SaveServer(p, a, k, r, o)
         \/ \E d \in Aliases \cup {"local", "nowhere"} : SetDestination(p, d)
  PROVE  SettingsInv'
  <1>1. SavedFolders \subseteq AllFolders
    BY DEF SettingsInv, SettingsTypeOK, SavedFolders, AllFolders
  <1>2. \A g \in AllFolders : /\ want[g] = "listed" => g \in SavedFolders
                              /\ want[g] = "gone" => g \notin SavedFolders
    BY DEF SettingsInv, WantIsList, SavedFolders
  <1>3. ASSUME NEW f \in AllFolders, AddFolder(p, f) PROVE SettingsInv'
    <2> DEFINE new == [NoForm EXCEPT !.table = "folders", !.about = f, !.adds = TRUE,
                                    !.paths = SavedFolders \cup {f}]
    <2>1. new \in Form /\ WholeForm(new) /\ CurrentForm(new)
      BY <1>1, <1>2 DEF NoForm, Form, WholeForm, CurrentForm
    <2>2. AskSave(p, new)
      BY <1>3 DEF AddFolder
    <2> HIDE DEF new
    <2> QED BY <2>1, <2>2, AskHolds
  <1>4. ASSUME NEW f \in AllFolders, RemoveFolder(p, f) PROVE SettingsInv'
    <2> DEFINE new == [NoForm EXCEPT !.table = "folders", !.about = f, !.paths = SavedFolders \ {f}]
    <2>1. new \in Form /\ WholeForm(new) /\ CurrentForm(new)
      BY <1>1, <1>2 DEF NoForm, Form, WholeForm, CurrentForm
    <2>2. AskSave(p, new)
      BY <1>4 DEF RemoveFolder
    <2> HIDE DEF new
    <2> QED BY <2>1, <2>2, AskHolds
  <1>5. ASSUME NEW a \in Aliases, NEW k \in Keys \cup {NoKey}, NEW r \in SshRoles,
               NEW o \in BOOLEAN, SaveServer(p, a, k, r, o)
        PROVE  SettingsInv'
    <2> DEFINE saved == [key |-> KeyToSave(a, k), role |-> r]
               new == [NoForm EXCEPT !.table = "ssh", !.about = a, !.adds = k # NoKey,
                                    !.server = saved]
    <2>1. ssh[a].key \in Keys \cup {NoKey} /\ ssh[a].key = typed[a]
      BY DEF SettingsInv, SettingsTypeOK, ServersKept, Server, NoServer
    <2>2. saved \in Server
      BY <2>1 DEF Server, KeyToSave
    <2>3. k = NoKey => saved.key = typed[a]
      BY <2>1 DEF KeyToSave
    <2>4. new \in Form /\ WholeForm(new) /\ CurrentForm(new)
      <3> HIDE DEF saved
      <3> QED BY <2>2, <2>3 DEF NoForm, Form, WholeForm, CurrentForm
    <2>5. AskSave(p, new)
      BY <1>5 DEF SaveServer
    <2> HIDE DEF new
    <2> QED BY <2>4, <2>5, AskHolds
  <1>6. ASSUME NEW d \in Aliases \cup {"local", "nowhere"}, SetDestination(p, d)
        PROVE  SettingsInv'
    <2> DEFINE new == [NoForm EXCEPT !.table = "dest", !.about = d]
    <2>1. new \in Form /\ WholeForm(new) /\ CurrentForm(new)
      BY <1>6 DEF SetDestination, NoForm, Form, WholeForm, CurrentForm
    <2>2. AskSave(p, new)
      BY <1>6 DEF SetDestination
    <2> HIDE DEF new
    <2> QED BY <2>1, <2>2, AskHolds
  <1> QED BY <1>3, <1>4, <1>5, <1>6

\* The flags of a save that ends.
LEMMA SavedFlags ==
  ASSUME SettingsInv, NEW p \in Panels, NEW took \in BOOLEAN, Saved(p, took)
  PROVE  /\ late' \in [Panels -> BOOLEAN] /\ overtaken' \in [Panels -> BOOLEAN]
         /\ sPc' \in [Panels -> {"idle", "delete", "insert"}]
         /\ form' \in [Panels -> Form]
         /\ LateIsOvertaken'
         /\ form'[p] = NoForm
         /\ \A q \in Panels \ {p} :
              /\ form'[q] = form[q]
              /\ ~overtaken'[q] => ~overtaken[q] /\ (took => ~ReadBy(form[p], form[q]))
  <1> USE DEF SettingsInv
  <1>1. \A q \in Panels :
          /\ late'[q] = (q # p /\ (late[q] \/ (took /\ sPc[q] = "insert"
                                               /\ SameRows(form[p], form[q]))))
          /\ overtaken'[q] = (q # p /\ (overtaken[q] \/ (took /\ ReadBy(form[p], form[q]))))
    BY DEF Saved
  <1>2. late' \in [Panels -> BOOLEAN] /\ overtaken' \in [Panels -> BOOLEAN]
    BY DEF Saved
  <1>3. LateIsOvertaken'
    BY <1>1 DEF LateIsOvertaken, ReadBy
  <1>4. sPc' \in [Panels -> {"idle", "delete", "insert"}] /\ form' \in [Panels -> Form]
    BY NoFormHolds DEF Saved, SettingsTypeOK
  <1>5. form'[p] = NoForm /\ \A q \in Panels \ {p} : form'[q] = form[q]
    BY DEF Saved, SettingsTypeOK
  <1> QED BY <1>1, <1>2, <1>3, <1>4, <1>5

\* The list of folders is saved, or refused for a folder another save has inserted.
LEMMA FoldersHold == ASSUME SettingsInv, NEW p \in Panels, InsertFolders(p) PROVE SettingsInv'
  <1> USE DEF SettingsInv
  <1> DEFINE rest == IF late[p] THEN folders ELSE {}
  <1>1. UNCHANGED <<drives, ssh, dest, typed, edited>> /\ form[p].table = "folders"
    BY DEF InsertFolders
  <1>2. ServersKept'
    BY <1>1 DEF ServersKept
  <1>3. form[p].paths \subseteq AllFolders
    BY DEF SettingsTypeOK, Form
  <1>4. CASE /\ form[p].paths \cap rest = {} /\ folders' = form[p].paths \cup rest
             /\ want' = [f \in AllFolders |-> Answer(p, f, folders')] /\ Saved(p, TRUE)
    <2>1. folders' \subseteq AllFolders
      BY <1>3, <1>4 DEF SettingsTypeOK
    <2>2. \A f \in AllFolders : want'[f] = Answer(p, f, folders')
      BY <1>4
    <2>3. want' \in [AllFolders -> {"open", "listed", "gone"}]
      BY <1>4 DEF Answer, SettingsTypeOK
    <2>4. SettingsTypeOK'
      BY <1>1, <1>4, <2>1, <2>3, SavedFlags DEF SettingsTypeOK
    <2>5. WholeForm(form[p]) /\ (~overtaken[p] => CurrentForm(form[p]) /\ rest = {})
      BY DEF FormsHold, LateIsOvertaken
    <2>6. WantIsList'
      <3> SUFFICES ASSUME NEW f \in AllFolders
                   PROVE  /\ want'[f] = "listed" => f \in folders'
                          /\ want'[f] = "gone" => folders' # {} /\ f \notin folders'
        BY DEF WantIsList
      <3>1. CASE folders' = {}
        BY <2>2, <3>1 DEF Answer
      <3>2. CASE folders' # {} /\ f = form[p].about /\ (form[p].adds \/ ~overtaken[p])
        BY <1>1, <1>4, <2>2, <2>5, <3>2 DEF Answer, WholeForm
      <3>3. CASE folders' # {} /\ ~(f = form[p].about /\ (form[p].adds \/ ~overtaken[p]))
        <4>1. CASE overtaken[p]
          BY <2>2, <3>3, <4>1 DEF Answer
        <4>2. CASE ~overtaken[p]
          <5>1. want'[f] = want[f] /\ f # form[p].about
            BY <2>2, <3>3, <4>2 DEF Answer
          <5> QED BY <1>1, <1>4, <2>5, <3>3, <4>2, <5>1 DEF CurrentForm
        <4> QED BY <4>1, <4>2
      <3> QED BY <3>1, <3>2, <3>3
    <2>7. FormsHold'
      <3> SUFFICES ASSUME NEW q \in Panels
                   PROVE  WholeForm(form'[q]) /\ (~overtaken'[q] => CurrentForm(form[q])')
        BY DEF FormsHold, WholeForm
      <3>1. CASE q = p
        <4>1. form'[q] = NoForm
          BY <1>4, <3>1, SavedFlags
        <4> QED BY <4>1 DEF NoForm, WholeForm, CurrentForm
      <3>2. CASE q # p
        <4>1. /\ form'[q] = form[q]
              /\ ~overtaken'[q] => ~overtaken[q] /\ ~ReadBy(form[p], form[q])
          BY <1>4, <3>2, SavedFlags
        <4>2. ~overtaken'[q] => form[q].table # "folders"
          BY <1>1, <4>1 DEF ReadBy, SameRows
        <4> QED BY <1>1, <4>1, <4>2 DEF FormsHold, CurrentForm
      <3> QED BY <3>1, <3>2
    <2> QED BY <1>2, <1>4, <2>4, <2>6, <2>7, SavedFlags
  <1>5. CASE UNCHANGED <<folders, want>> /\ Saved(p, FALSE)
    <2>1. SettingsTypeOK'
      BY <1>1, <1>5, SavedFlags DEF SettingsTypeOK
    <2>2. WantIsList'
      BY <1>5 DEF WantIsList
    <2>3. FormsHold'
      <3> SUFFICES ASSUME NEW q \in Panels
                   PROVE  WholeForm(form'[q]) /\ (~overtaken'[q] => CurrentForm(form[q])')
        BY DEF FormsHold, WholeForm
      <3>1. WholeForm(form[q]) /\ (~overtaken[q] => CurrentForm(form[q]))
        BY DEF FormsHold
      <3>2. form'[q] = NoForm \/ (form'[q] = form[q] /\ (~overtaken'[q] => ~overtaken[q]))
        BY <1>5, SavedFlags
      <3> QED BY <1>1, <1>5, <3>1, <3>2 DEF WholeForm, CurrentForm, NoForm
    <2> QED BY <1>2, <1>5, <2>1, <2>2, <2>3, SavedFlags
  <1> QED BY <1>4, <1>5 DEF InsertFolders

\* A server is saved.
LEMMA ServerHolds == ASSUME SettingsInv, NEW p \in Panels, InsertServer(p) PROVE SettingsInv'
  <1> USE DEF SettingsInv
  <1> DEFINE a == form[p].about
  <1>1. UNCHANGED <<folders, drives, dest, want>> /\ form[p].table = "ssh" /\ Saved(p, ~late[p])
    BY DEF InsertServer
  <1>2. /\ a \in Aliases /\ form[p].server \in Server /\ form[p].server.key \in Keys \cup {NoKey}
        /\ ~overtaken[p] /\ ~form[p].adds => form[p].server.key = typed[a]
        /\ late[p] => overtaken[p]
    BY <1>1 DEF FormsHold, WholeForm, CurrentForm, LateIsOvertaken, Server
  <1>3. /\ \A b \in Aliases \ {a} : ssh'[b] = ssh[b] /\ typed'[b] = typed[b]
        /\ late[p] => ssh'[a] = ssh[a] /\ typed'[a] = typed[a]
        /\ ~late[p] => ssh'[a] = form[p].server /\ typed'[a] = form[p].server.key
        /\ edited' = IF late[p] THEN edited ELSE edited \cup {a}
    <2> HIDE DEF a
    <2> QED BY <1>2 DEF InsertServer, SettingsTypeOK, a
  <1>4. /\ ssh' \in [Aliases -> Server \cup {NoServer}] /\ typed' \in [Aliases -> Keys \cup {NoKey}]
        /\ edited' \subseteq Aliases
    BY <1>2 DEF InsertServer, SettingsTypeOK
  <1>5. late[p] \in BOOLEAN
    BY DEF SettingsTypeOK
  <1>6. SettingsTypeOK'
    BY <1>1, <1>4, <1>5, SavedFlags DEF SettingsTypeOK
  <1>7. ServersKept'
    BY <1>1, <1>2, <1>3 DEF ServersKept
  <1>8. WantIsList'
    BY <1>1 DEF WantIsList
  <1>9. FormsHold'
    <2> SUFFICES ASSUME NEW q \in Panels
                 PROVE  WholeForm(form'[q]) /\ (~overtaken'[q] => CurrentForm(form[q])')
      BY DEF FormsHold, WholeForm
    <2>1. CASE q = p
      <3>1. form'[q] = NoForm
        BY <1>1, <1>5, <2>1, SavedFlags
      <3> QED BY <3>1 DEF NoForm, WholeForm, CurrentForm
    <2>2. CASE q # p
      <3>1. /\ form'[q] = form[q]
            /\ ~overtaken'[q] => ~overtaken[q] /\ (~late[p] => ~ReadBy(form[p], form[q]))
        BY <1>1, <1>5, <2>2, SavedFlags
      <3>2. ~overtaken'[q] /\ ~late[p] => ~(form[q].table \in {"ssh", "dest"} /\ form[q].about = a)
        BY <1>1, <3>1 DEF ReadBy, SameRows
      <3>3. WholeForm(form[q]) /\ (~overtaken[q] => CurrentForm(form[q]))
        BY DEF FormsHold
      <3>4. \A b \in Aliases : (~late[p] /\ b = a) \/ (ssh'[b] = ssh[b] /\ typed'[b] = typed[b])
        BY <1>3
      <3> HIDE DEF a
      <3> QED BY <1>1, <3>1, <3>2, <3>3, <3>4 DEF WholeForm, CurrentForm
    <2> QED BY <2>1, <2>2
  <1> QED BY <1>1, <1>5, <1>6, <1>7, <1>8, <1>9, SavedFlags

\* The destination is saved.
LEMMA DestinationHolds ==
  ASSUME SettingsInv, NEW p \in Panels, InsertDestination(p) PROVE SettingsInv'
  <1> USE DEF SettingsInv
  <1> DEFINE d == form[p].about
  <1>1. /\ UNCHANGED <<folders, drives, ssh, want, typed>> /\ form[p].table = "dest"
        /\ Saved(p, ~late[p])
        /\ dest' = IF late[p] THEN dest ELSE d
        /\ edited' = IF late[p] THEN edited ELSE IF overtaken[p] THEN Aliases \cap {d} ELSE {}
    BY DEF InsertDestination
  <1>2. /\ d \in Aliases \cup {"local", "nowhere"} /\ late[p] \in BOOLEAN
        /\ ~overtaken[p] /\ d \in Aliases => ssh[d].role \in {"destino", "ambos"}
    BY <1>1 DEF FormsHold, WholeForm, CurrentForm, SettingsTypeOK
  <1>3. SettingsTypeOK'
    BY <1>1, <1>2, SavedFlags DEF SettingsTypeOK
  <1>4. ServersKept'
    BY <1>1, <1>2 DEF ServersKept
  <1>5. WantIsList'
    BY <1>1 DEF WantIsList
  <1>6. FormsHold'
    <2> SUFFICES ASSUME NEW q \in Panels
                 PROVE  WholeForm(form'[q]) /\ (~overtaken'[q] => CurrentForm(form[q])')
      BY DEF FormsHold, WholeForm
    <2>1. WholeForm(form[q]) /\ (~overtaken[q] => CurrentForm(form[q]))
      BY DEF FormsHold
    <2>2. form'[q] = NoForm \/ (form'[q] = form[q] /\ (~overtaken'[q] => ~overtaken[q]))
      BY <1>1, <1>2, SavedFlags
    <2> QED BY <1>1, <2>1, <2>2 DEF WholeForm, CurrentForm, NoForm
  <1> QED BY <1>1, <1>2, <1>3, <1>4, <1>5, <1>6, SavedFlags

\* A server is removed.
LEMMA RemovalHolds ==
  ASSUME SettingsInv, NEW p \in Panels, NEW a \in Aliases, RemoveServer(p, a) PROVE SettingsInv'
  <1> USE DEF SettingsInv
  <1>1. /\ UNCHANGED <<folders, drives, dest, want, sPc, form, late>>
        /\ ssh' = [ssh EXCEPT ![a] = NoServer] /\ typed' = [typed EXCEPT ![a] = NoKey]
        /\ edited' = edited \cup {a}
    BY DEF RemoveServer
  <1>2. \A q \in Panels : overtaken'[q] =
          (overtaken[q] \/ (form[q].table \in {"ssh", "dest"} /\ form[q].about = a))
    BY DEF RemoveServer
  <1>3. overtaken' \in [Panels -> BOOLEAN]
    <2>1. \A q \in Panels :
            (overtaken[q] \/ (form[q].table \in {"ssh", "dest"} /\ form[q].about = a)) \in BOOLEAN
      OBVIOUS
    <2> QED BY <2>1 DEF RemoveServer
  <1>4. SettingsTypeOK'
    BY <1>1, <1>3 DEF SettingsTypeOK
  <1>5. LateIsOvertaken'
    BY <1>1, <1>2 DEF LateIsOvertaken
  <1>6. ServersKept'
    BY <1>1 DEF ServersKept, SettingsTypeOK, NoServer
  <1>7. WantIsList'
    BY <1>1 DEF WantIsList
  <1>8. FormsHold'
    <2> SUFFICES ASSUME NEW q \in Panels
                 PROVE  WholeForm(form[q]) /\ (~overtaken'[q] => CurrentForm(form[q])')
      BY <1>1 DEF FormsHold, WholeForm
    <2>1. WholeForm(form[q]) /\ (~overtaken[q] => CurrentForm(form[q]))
      BY DEF FormsHold
    <2>2. ~overtaken'[q] =>
            ~overtaken[q] /\ ~(form[q].table \in {"ssh", "dest"} /\ form[q].about = a)
      BY <1>2
    <2>3. \A b \in Aliases \ {a} : ssh'[b] = ssh[b] /\ typed'[b] = typed[b]
      BY <1>1 DEF SettingsTypeOK
    <2> QED BY <1>1, <2>1, <2>2, <2>3 DEF WholeForm, CurrentForm
  <1> QED BY <1>4, <1>5, <1>6, <1>7, <1>8

\* Every step keeps the invariant.
LEMMA SettingsInvStep == ASSUME SettingsInv, [SettingsNext]_settingsVars PROVE SettingsInv'
  <1>1. CASE UNCHANGED settingsVars
    <2> USE <1>1 DEF settingsVars, settings, settingsReq, SettingsInv
    <2>1. SettingsTypeOK' /\ LateIsOvertaken' /\ WantIsList' /\ ServersKept'
      BY DEF SettingsTypeOK, LateIsOvertaken, WantIsList, ServersKept
    <2>2. FormsHold'
      BY DEF FormsHold, WholeForm, CurrentForm
    <2> QED BY <2>1, <2>2
  <1>2. ASSUME NEW p \in Panels, DeleteRows(p) PROVE SettingsInv'
    <2>1. UNCHANGED <<settings, form, late, overtaken>> /\ sPc' = [sPc EXCEPT ![p] = "insert"]
      BY <1>2 DEF DeleteRows
    <2>2. SettingsTypeOK'
      BY <2>1 DEF SettingsInv, SettingsTypeOK, settings
    <2>3. LateIsOvertaken' /\ WantIsList' /\ ServersKept'
      BY <2>1 DEF SettingsInv, LateIsOvertaken, WantIsList, ServersKept, settings
    <2>4. FormsHold'
      BY <2>1 DEF SettingsInv, FormsHold, WholeForm, CurrentForm, settings
    <2> QED BY <2>2, <2>3, <2>4 DEF SettingsInv
  <1>3. ASSUME NEW d \in Drives, ConnectDrive(d) \/ DisconnectDrive(d) PROVE SettingsInv'
    <2>1. /\ UNCHANGED <<folders, ssh, dest, want, typed, edited, settingsReq>>
          /\ drives' \subseteq Drives
      BY <1>3 DEF ConnectDrive, DisconnectDrive, SettingsInv, SettingsTypeOK
    <2>2. SettingsTypeOK' /\ LateIsOvertaken' /\ WantIsList' /\ ServersKept'
      BY <2>1 DEF SettingsInv, SettingsTypeOK, LateIsOvertaken, WantIsList, ServersKept, settingsReq
    <2>3. FormsHold'
      BY <2>1 DEF SettingsInv, FormsHold, WholeForm, CurrentForm, settingsReq
    <2> QED BY <2>2, <2>3 DEF SettingsInv
  <1>4. CASE FoldersNext
    BY <1>2, <1>3, <1>4, AsksHold, FoldersHold DEF FoldersNext
  <1>5. CASE ServersNext
    BY <1>2, <1>5, AsksHold, ServerHolds, DestinationHolds, RemovalHolds DEF ServersNext
  <1> QED BY <1>1, <1>4, <1>5 DEF SettingsNext

\* So the invariant holds.
LEMMA SettingsInvariant == SettingsSpec => []SettingsInv
  <1>1. SettingsInit => SettingsInv
    BY SettingsStart
  <1>2. SettingsInv /\ [SettingsNext]_settingsVars => SettingsInv'
    BY SettingsInvStep
  <1> QED BY <1>1, <1>2, PTL DEF SettingsSpec

-----------------------------------------------------------------------------
\* The variables of the settings keep to their types.
THEOREM SettingsTypeCorrect == SettingsSpec => []SettingsTypeOK
  <1>1. SettingsInv => SettingsTypeOK
    BY DEF SettingsInv
  <1> QED BY <1>1, SettingsInvariant, PTL

\* A folder answered as added is listed and one answered as removed is not, a
\* server has the key last typed for it, and a destination has a role that
\* allows it until its server is saved again, but for overlapping saves.
THEOREM SettingsStayKept == SettingsSpec => []SettingsKept
  <1>1. SettingsInv => SettingsKept
    BY DEF SettingsInv, WantIsList, ServersKept, SettingsKept, FoldersAsAnswered, SavedFolders
  <1> QED BY <1>1, SettingsInvariant, PTL

(***************************************************************************)
(* The feed: for any photos, orders, days and page size, a client misses   *)
(* no more photos than left a place before its offset, and sees no more of  *)
(* them again than came before it.  A page is a slice of the sorted rows,   *)
(* so the proof counts: the rank of an entry is how many stand before it.   *)
(***************************************************************************)

\* Newest first is a strict order, and total.
LEMMA BeforeIsOrder ==
  ASSUME NEW e \in Nat \X Nat, NEW f \in Nat \X Nat, NEW g \in Nat \X Nat
  PROVE  /\ ~Before(e, e)
         /\ Before(e, f) /\ Before(f, g) => Before(e, g)
         /\ e # f => Before(e, f) \/ Before(f, e)
         /\ ~(Before(e, f) /\ Before(f, e))
  BY SMT DEF Before

\* The rank of an entry is a number, below the size of the set it stands in.
LEMMA RankBounded ==
  ASSUME NEW E \in SUBSET (Nat \X Nat), IsFiniteSet(E), NEW e \in Nat \X Nat
  PROVE  /\ Rank(e, E) \in Nat /\ Cardinality(E) \in Nat
         /\ e \in E => Rank(e, E) < Cardinality(E)
<1> DEFINE P == {f \in E : Before(f, e)}
<1>1. /\ IsFiniteSet(P) /\ Cardinality(P) <= Cardinality(E)
      /\ Cardinality(E) = Cardinality(P) => E = P
  BY FS_Subset
<1>2. Cardinality(P) \in Nat /\ Cardinality(E) \in Nat
  BY <1>1, FS_CardinalityType
<1>3. e \in E => P # E
  BY BeforeIsOrder
<1> QED BY <1>1, <1>2, <1>3 DEF Rank

\* An entry has no greater rank in a subset.
LEMMA RankMonotone ==
  ASSUME NEW E \in SUBSET (Nat \X Nat), IsFiniteSet(E), NEW D \in SUBSET E,
         NEW e \in Nat \X Nat
  PROVE  Rank(e, D) <= Rank(e, E)
<1>1. {f \in D : Before(f, e)} \in SUBSET {f \in E : Before(f, e)}
  OBVIOUS
<1>2. IsFiniteSet({f \in E : Before(f, e)})
  BY FS_Subset
<1> QED BY <1>1, <1>2, FS_Subset DEF Rank

\* Ranks are in the order of the entries, so that no two entries share one.
LEMMA RankOrders ==
  ASSUME NEW E \in SUBSET (Nat \X Nat), IsFiniteSet(E), NEW e \in E, NEW f \in Nat \X Nat
  PROVE  /\ Before(e, f) => Rank(e, E) < Rank(f, E)
         /\ f \in E /\ Rank(e, E) = Rank(f, E) => e = f
         /\ f \in E /\ Rank(e, E) < Rank(f, E) => Before(e, f)
<1>1. ASSUME NEW x \in E, NEW y \in Nat \X Nat, Before(x, y)
      PROVE  Rank(x, E) < Rank(y, E)
  <2> DEFINE X == {g \in E : Before(g, x)}
             Y == {g \in E : Before(g, y)}
  <2>1. X \in SUBSET Y /\ x \in Y /\ x \notin X
    BY <1>1, BeforeIsOrder
  <2>2. IsFiniteSet(Y)
    BY FS_Subset
  <2>3. Cardinality(X) <= Cardinality(Y) /\ (Cardinality(X) = Cardinality(Y) => X = Y)
    BY <2>1, <2>2, FS_Subset
  <2>4. Cardinality(X) \in Nat /\ Cardinality(Y) \in Nat
    BY <2>1, <2>2, FS_Subset, FS_CardinalityType
  <2> QED BY <2>1, <2>3, <2>4 DEF Rank
<1>2. Rank(e, E) \in Nat /\ Rank(f, E) \in Nat
  BY RankBounded
<1>3. f \in E => e = f \/ Before(e, f) \/ Before(f, e)
  BY BeforeIsOrder
<1> QED BY <1>1, <1>2, <1>3

\* A slice is no larger than its bounds are apart.
LEMMA SliceBounded ==
  ASSUME NEW E \in SUBSET (Nat \X Nat), IsFiniteSet(E), NEW a \in Nat, NEW n \in Nat
  PROVE  /\ IsFiniteSet(Slice(E, a, a + n))
         /\ Cardinality(Slice(E, a, a + n)) \in 0..n
<1> DEFINE S == Slice(E, a, a + n)
           T == a..(a + n - 1)
           r == [e \in S |-> Rank(e, E)]
<1>1. S \in SUBSET E
  BY DEF Slice
<1>2. IsFiniteSet(S) /\ Cardinality(S) \in Nat
  BY <1>1, FS_Subset, FS_CardinalityType
<1>3. r \in [S -> T]
  <2> SUFFICES ASSUME NEW e \in S PROVE Rank(e, E) \in T
    OBVIOUS
  <2>1. Rank(e, E) \in Nat
    BY <1>1, RankBounded
  <2> QED BY <2>1 DEF Slice
<1>4. \A e, f \in S : r[e] = r[f] => e = f
  BY <1>1, RankOrders
<1>5. IsFiniteSet(T) /\ Cardinality(T) <= n
  BY FS_Interval
<1>6. Cardinality(T) \in Nat
  BY <1>5, FS_CardinalityType
<1> HIDE DEF S, T, r
<1>7. ~(Cardinality(T) < Cardinality(S))
  <2> SUFFICES ASSUME Cardinality(T) < Cardinality(S) PROVE FALSE
    OBVIOUS
  <2>1. \E x, y \in S : x # y /\ r[x] = r[y]
    BY <1>2, <1>3, <1>5, FS_PigeonHole
  <2> QED BY <2>1, <1>4
<1>8. Cardinality(S) \in 0..n
  BY <1>2, <1>5, <1>6, <1>7
<1> QED BY <1>2, <1>8 DEF S

\* An entry of a slice has a rank below where the next slice begins.
LEMMA SliceRank ==
  ASSUME NEW E \in SUBSET (Nat \X Nat), IsFiniteSet(E), NEW a \in Nat, NEW n \in Nat,
         NEW e \in Slice(E, a, a + n)
  PROVE  Rank(e, E) < a + Cardinality(Slice(E, a, a + n))
<1> DEFINE S == Slice(E, a, a + n)
           A == Slice(E, 0, 0 + a)
           P == {f \in E : Before(f, e)}
           Q == P \cap S
<1>1. e \in E /\ S \in SUBSET E /\ A \in SUBSET E /\ P \in SUBSET E
  BY DEF Slice
<1>2. IsFiniteSet(S) /\ IsFiniteSet(A) /\ Cardinality(A) \in 0..a
  BY SliceBounded
<1>3. P \subseteq A \cup Q
  <2> SUFFICES ASSUME NEW f \in P PROVE f \in A \/ f \in S
    OBVIOUS
  <2>1. Rank(f, E) < Rank(e, E) /\ Rank(f, E) \in Nat /\ Rank(e, E) \in Nat
    BY <1>1, RankOrders, RankBounded
  <2> QED BY <2>1 DEF Slice
<1>4. Q \in SUBSET S /\ e \in S /\ e \notin Q
  BY <1>1, BeforeIsOrder
<1>5. /\ IsFiniteSet(Q) /\ Cardinality(Q) <= Cardinality(S)
      /\ Cardinality(Q) = Cardinality(S) => Q = S
  BY <1>2, <1>4, FS_Subset
<1>6. Cardinality(Q) \in Nat /\ Cardinality(S) \in Nat /\ Cardinality(A \cap Q) \in Nat
  BY <1>2, <1>5, FS_CardinalityType, FS_Intersection
<1>7. /\ IsFiniteSet(A \cup Q)
      /\ Cardinality(A \cup Q) = Cardinality(A) + Cardinality(Q) - Cardinality(A \cap Q)
  BY <1>2, <1>5, FS_Union
<1>8. Cardinality(P) <= Cardinality(A \cup Q)
  BY <1>3, <1>7, FS_Subset
<1>9. Cardinality(P) = Rank(e, E) /\ Rank(e, E) \in Nat
  BY <1>1, RankBounded DEF Rank
<1> HIDE DEF S, A, P, Q
<1>10. Cardinality(Q) < Cardinality(S)
  BY <1>4, <1>5, <1>6
<1> QED BY <1>2, <1>6, <1>7, <1>8, <1>9, <1>10 DEF S

\* Every number below the size of a set is the rank of an entry, so that a
\* slice from the start has as many entries as it has places.
LEMMA SliceIsFull ==
  ASSUME NEW E \in SUBSET (Nat \X Nat), IsFiniteSet(E), NEW k \in Nat, k <= Cardinality(E)
  PROVE  Cardinality(Slice(E, 0, k)) = k
<1> DEFINE S == Slice(E, 0, 0 + k)
           T == Slice(E, k, k + (Cardinality(E) - k))
<1>1. Cardinality(E) \in Nat /\ Cardinality(E) - k \in Nat
  BY FS_CardinalityType
<1>2. IsFiniteSet(S) /\ Cardinality(S) \in 0..k
  BY SliceBounded
<1>3. IsFiniteSet(T) /\ Cardinality(T) \in 0..(Cardinality(E) - k)
  BY <1>1, SliceBounded
<1>4. E = S \cup T
  <2> SUFFICES ASSUME NEW e \in E PROVE e \in S \/ e \in T
    BY DEF Slice
  <2>1. Rank(e, E) \in Nat /\ Rank(e, E) < Cardinality(E)
    BY RankBounded
  <2> QED BY <1>1, <2>1 DEF Slice
<1>5. /\ Cardinality(S \cup T) = Cardinality(S) + Cardinality(T) - Cardinality(S \cap T)
      /\ Cardinality(S \cap T) \in Nat
  BY <1>2, <1>3, FS_Union, FS_Intersection, FS_CardinalityType
<1> HIDE DEF S, T
<1>6. Cardinality(S) = k
  BY <1>1, <1>2, <1>3, <1>4, <1>5
<1>7. S = Slice(E, 0, k)
  BY DEF S
<1> QED BY <1>6, <1>7
\* The merge of the rows without a day with the other rows up to k, and what it
\* means that it agrees with all the rows up to k.
MergeOf(L, N, k) == IF L = {} THEN N ELSE L \cup Slice(N, 0, k)
Agrees(M, V, k) ==
  /\ M \subseteq V
  /\ \A e \in V : Rank(e, V) < k => e \in M /\ Rank(e, M) = Rank(e, V)
  /\ \A e \in M : Rank(e, M) < k => Rank(e, M) = Rank(e, V)

LEMMA MergeAgrees ==
  ASSUME NEW L \in SUBSET (Nat \X Nat), IsFiniteSet(L),
         NEW N \in SUBSET (Nat \X Nat), IsFiniteSet(N), NEW k \in Nat
  PROVE  Agrees(MergeOf(L, N, k), L \cup N, k)
<1> DEFINE V == L \cup N
           S == Slice(N, 0, k)
           M == MergeOf(L, N, k)
<1>0. CASE L = {}
  <2>1. M = N /\ L \cup N = N
    BY <1>0 DEF MergeOf
  <2> QED BY <2>1 DEF Agrees
<1>1. CASE L # {}
  <2>1. M = L \cup S /\ S \subseteq N /\ M \subseteq V
    BY <1>1 DEF Slice, MergeOf
  <2> HIDE DEF M
  <2>2. IsFiniteSet(V) /\ V \in SUBSET (Nat \X Nat)
    BY FS_Union
  <2>3. IsFiniteSet(M) /\ IsFiniteSet(S) /\ M \in SUBSET (Nat \X Nat)
    BY <2>1, <2>2, FS_Subset
  <2>4. \A e \in V : Rank(e, V) \in Nat
    BY <2>2, RankBounded
  <2>5. ASSUME NEW e \in V, Rank(e, V) < k PROVE e \in M
    <3>1. CASE e \in L
      BY <3>1, <2>1
    <3>2. CASE e \in N
      <4>1. Rank(e, N) <= Rank(e, V) /\ Rank(e, N) \in Nat
        BY <3>2, <2>2, RankMonotone, RankBounded
      <4> DEFINE r == Rank(e, N)
                 v == Rank(e, V)
      <4>b. v \in Nat /\ v < k /\ r \in Nat /\ r <= v
        BY <4>1, <2>4, <2>5
      <4> HIDE DEF r, v
      <4>c. 0 <= r /\ r < k
        BY <4>b
      <4>a. 0 <= Rank(e, N) /\ Rank(e, N) < k
        BY <4>c DEF r
      <4>2. e \in S
        BY <4>a, <3>2 DEF Slice
      <4> QED BY <4>2, <2>1
    <3> QED BY <3>1, <3>2
  <2>6. ASSUME NEW e \in V, Rank(e, V) < k PROVE Rank(e, M) = Rank(e, V)
    <3>1. ASSUME NEW f \in V, Before(f, e) PROVE f \in M
      <4>1. Rank(f, V) < Rank(e, V)
        BY <3>1, <2>2, RankOrders
      <4> QED BY <4>1, <2>4, <2>5, <2>6
    <3>2. {f \in M : Before(f, e)} = {f \in V : Before(f, e)}
      BY <3>1, <2>1
    <3> QED BY <3>2 DEF Rank
  <2>7. ASSUME NEW e \in M, Rank(e, M) < k PROVE Rank(e, M) = Rank(e, V)
    <3>1. ASSUME NEW f \in V, Before(f, e), f \notin M PROVE FALSE
      <4>1. f \in N /\ f \notin S /\ f \in Nat \X Nat /\ e \in Nat \X Nat
        BY <3>1, <2>1
      <4>2. Rank(f, N) \in Nat /\ Rank(f, N) < Cardinality(N) /\ Cardinality(N) \in Nat
        BY <4>1, RankBounded
      <4>3. Rank(f, N) >= k
        BY <4>1, <4>2 DEF Slice
      <4>4. Cardinality(S) = k
        BY <4>2, <4>3, SliceIsFull
      <4>5. S \in SUBSET {g \in M : Before(g, e)}
        <5> SUFFICES ASSUME NEW g \in S PROVE g \in M /\ Before(g, e)
          OBVIOUS
        <5>1. g \in N /\ Rank(g, N) < k /\ Rank(g, N) \in Nat
          BY RankBounded DEF Slice
        <5>2. Before(g, f)
          BY <5>1, <4>1, <4>2, <4>3, RankOrders
        <5> QED BY <5>1, <5>2, <4>1, <3>1, <2>1, BeforeIsOrder
      <4>6. IsFiniteSet({g \in M : Before(g, e)})
        BY <2>3, FS_Subset
      <4>7. Cardinality(S) <= Rank(e, M)
        BY <4>5, <4>6, FS_Subset DEF Rank
      <4>8. Rank(e, M) \in Nat
        BY <4>1, <2>3, RankBounded
      <4> QED BY <4>4, <4>7, <4>8, <2>7
    <3>2. {f \in M : Before(f, e)} = {f \in V : Before(f, e)}
      BY <3>1, <2>1
    <3> QED BY <3>2 DEF Rank
  <2> QED BY <2>1, <2>5, <2>6, <2>7 DEF Agrees, M
<1> QED BY <1>0, <1>1

\* Where the two orders agree, an entry has the same rank in both.
LEMMA RanksAgree ==
  ASSUME NEW V, OrdersAgree(V), NEW M \in SUBSET V
  PROVE  \A e \in M : PyRank(e, M) = Rank(e, M)
<1> SUFFICES ASSUME NEW e \in M PROVE PyRank(e, M) = Rank(e, M)
  OBVIOUS
<1>1. {f \in M : PyBefore(f, e)} = {f \in M : Before(f, e)}
  BY DEF OrdersAgree
<1> QED BY <1>1 DEF Rank, PyRank

\* What an entry x that is added to B, or taken away again, does to the others:
\* at most one of them crosses the bound k, and only if x stands before it.
Crosses(e, B, X, k) == Rank(e, B) < k /\ ~(Rank(e, B \cup X) < k)
CrossesAt(e, B, X, k) ==
  /\ Rank(e, B) <= Rank(e, B \cup X)
  /\ Crosses(e, B, X, k) => (\E y \in X : Rank(y, B \cup X) < k) /\ Rank(e, B \cup X) = k

LEMMA OneCrosses ==
  ASSUME NEW B \in SUBSET (Nat \X Nat), IsFiniteSet(B), NEW x \in Nat \X Nat, x \notin B,
         NEW X \in SUBSET {x}, NEW k \in Nat
  PROVE  \A e \in B : CrossesAt(e, B, X, k)
<1> DEFINE F == B \cup X
<1>1. F \in SUBSET (Nat \X Nat) /\ IsFiniteSet(F)
  <2>1. IsFiniteSet({x})
    BY FS_Singleton
  <2>2. IsFiniteSet(X)
    BY <2>1, FS_Subset
  <2> QED BY <2>2, FS_Union
<1>2. ASSUME NEW e \in B PROVE Rank(e, B) <= Rank(e, F) /\ Rank(e, B) \in Nat /\ Rank(e, F) \in Nat
  <2>1. B \in SUBSET F /\ e \in Nat \X Nat
    OBVIOUS
  <2> HIDE DEF F
  <2> QED BY <1>1, <2>1, RankMonotone, RankBounded
<1>3. ASSUME NEW e \in B, Crosses(e, B, X, k)
      PROVE  (\E y \in X : Rank(y, F) < k) /\ Rank(e, F) = k
  <2> DEFINE P == {f \in B : Before(f, e)}
             Q == {f \in F : Before(f, e)}
  <2>1. IsFiniteSet(P) /\ Cardinality(P) = Rank(e, B) /\ Cardinality(Q) = Rank(e, F)
    BY FS_Subset DEF Rank
  <2>2. Rank(e, B) < k /\ ~(Rank(e, F) < k)
    BY <1>3 DEF Crosses
  <2>3. x \in X /\ Before(x, e)
    <3> SUFFICES ASSUME ~(x \in X /\ Before(x, e)) PROVE FALSE
      OBVIOUS
    <3>1. P = Q
      OBVIOUS
    <3> QED BY <3>1, <2>1, <2>2
  <2>4. Q = P \cup {x} /\ x \notin P
    BY <2>3
  <2> HIDE DEF P, Q
  <2>5. Cardinality(Q) = Cardinality(P) + 1
    BY <2>1, <2>4, FS_AddElement
  <2>6. Rank(e, F) = k
    BY <2>1, <2>2, <2>5, <1>2
  <2>7. x \in F /\ e \in Nat \X Nat
    BY <2>3
  <2> HIDE DEF F
  <2>8. Rank(x, F) < Rank(e, F)
    BY <2>3, <2>7, <1>1, RankOrders
  <2> QED BY <2>3, <2>6, <2>8
<1> QED BY <1>2, <1>3 DEF CrossesAt

\* A set that takes in no more than one thing has at most one more.
LEMMA OneMore ==
  ASSUME NEW A, NEW Z, NEW C, IsFiniteSet(A), Z \subseteq A \cup C, \A u, v \in C : u = v
  PROVE  /\ IsFiniteSet(Z) /\ Cardinality(Z) \in Nat /\ Cardinality(A) \in Nat
         /\ Cardinality(Z) <= Cardinality(A) + 1
         /\ C = {} => Cardinality(Z) <= Cardinality(A)
<1>1. CASE C = {}
  <2>1. Z \in SUBSET A
    BY <1>1
  <2> QED BY <2>1, FS_Subset, FS_CardinalityType
<1>2. CASE C # {}
  <2>1. PICK u \in C : C = {u}
    BY <1>2
  <2>2. /\ IsFiniteSet(A \cup {u}) /\ Cardinality(A) \in Nat
        /\ Cardinality(A \cup {u}) = Cardinality(A) \/ Cardinality(A \cup {u}) = Cardinality(A) + 1
    BY FS_AddElement, FS_CardinalityType
  <2>3. Z \in SUBSET (A \cup {u})
    BY <2>1
  <2>4. /\ IsFiniteSet(Z) /\ Cardinality(Z) \in Nat
        /\ Cardinality(Z) <= Cardinality(A \cup {u})
    BY <2>2, <2>3, FS_Subset, FS_CardinalityType
  <2> QED BY <2>2, <2>4, <1>2
<1> QED BY <1>1, <1>2

-----------------------------------------------------------------------------
\* The rows of the feed with a day, and those without one.
NormalRows == {EntryOf(p) : p \in Normal(scope)}
LegacyRows == {EntryOf(p) : p \in Legacy(scope)}

Paging == fPc \in {"count", "legacy", "rows"}

\* The total is the number of rows as long as no photo moved below the page.
TotalCounts ==
  ~cut => /\ fPc = "legacy" => total = Cardinality(Normal(scope))
          /\ fPc = "rows" => /\ total = Cardinality(Normal(scope)) + Cardinality(Legacy(scope))
                             /\ legacy = LegacyRows

\* A photo that is on the feed, and one that stands before the offset.
Placed(p) == p \in shots /\ InPage(p, scope)
Behind(p) == Rank(EntryOf(p), FeedRows) < offset

\* Photos that will not be shown any more, and photos that were shown again or
\* will be.
Missed   == {p \in (atStart \ strayed) \ shown : Behind(p)}
Repeated == {p \in shown \ strayed : ~Behind(p)} \cup (again \ strayed)

NoneMissed ==
  Paging /\ ~cut /\ ~mixed /\ scope # Undated =>
    (\A p \in atStart \ strayed : Placed(p)) /\ Cardinality(Missed) <= departed

NoneTwice ==
  Paging /\ ~cut /\ ~mixed =>
    (\A p \in shown \ strayed : Placed(p)) /\ Cardinality(Repeated) <= arrived

FeedInv == FeedTypeOK /\ TotalCounts /\ NoneMissed /\ NoneTwice /\ PagesShowFeed

\* What the places of the photos tell of the rows.
PlacesClear ==
  \A q \in Shots :
    /\ Places(q) \subseteq {EntryOf(q)}
    /\ EntryOf(q) \in (1..LastDay) \X Shots /\ EntryOf(q) \in Nat \X Nat
    /\ EntryOf(q)[2] = q
    /\ EntryOf(q) \in Places(q) <=> q \in shots /\ InPage(q, scope)
    /\ q \in Normal(scope) <=> EntryOf(q) \in Places(q) /\ EntryOf(q)[1] # Epoch
    /\ q \in Legacy(scope) <=> EntryOf(q) \in Places(q) /\ EntryOf(q)[1] = Epoch

LEMMA PlacesTell == FeedTypeOK => PlacesClear
<1> SUFFICES ASSUME FeedTypeOK, NEW q \in Shots
    PROVE  /\ Places(q) \subseteq {EntryOf(q)}
           /\ EntryOf(q) \in (1..LastDay) \X Shots /\ EntryOf(q) \in Nat \X Nat
           /\ EntryOf(q)[2] = q
           /\ EntryOf(q) \in Places(q) <=> q \in shots /\ InPage(q, scope)
           /\ q \in Normal(scope) <=> EntryOf(q) \in Places(q) /\ EntryOf(q)[1] # Epoch
           /\ q \in Legacy(scope) <=> EntryOf(q) \in Places(q) /\ EntryOf(q)[1] = Epoch
  BY DEF PlacesClear
<1>1. CaptureDay(q) \in {NoDate} \cup Dates
  BY DEF FeedTypeOK, CaptureDay
<1>2. /\ EntryOf(q)[2] = q
      /\ EntryOf(q) \in (1..LastDay) \X Shots /\ EntryOf(q) \in Nat \X Nat
      /\ EntryOf(q)[1] = Epoch <=> CaptureDay(q) = NoDate
  BY <1>1, FeedAssumption DEF EntryOf, LegacyDay, Epoch, NoDate, Dates
<1>3. Places(q) \subseteq {EntryOf(q)} /\ (EntryOf(q) \in Places(q) <=> q \in shots /\ InPage(q, scope))
  BY DEF Places
<1> QED BY <1>2, <1>3 DEF Normal, Legacy

\* The rows are finitely many pairs of numbers: the places of the photos, and no
\* two of one photo.
RowsClear ==
  /\ IsFiniteSet(FeedRows) /\ IsFiniteSet(NormalRows) /\ IsFiniteSet(LegacyRows)
  /\ IsFiniteSet(legacy)
  /\ {FeedRows, NormalRows, LegacyRows, legacy} \subseteq SUBSET (Nat \X Nat)
  /\ \A e \in FeedRows : \E q \in Shots : e \in Places(q) /\ e = EntryOf(q)
  /\ \A q \in Shots : Places(q) \subseteq FeedRows
  /\ \A e, f \in FeedRows : e[2] = f[2] => e = f
  /\ FeedRows = NormalRows \cup LegacyRows
  /\ \A e \in FeedRows : e \in LegacyRows <=> e[1] = Epoch
  /\ \A e \in FeedRows : e \in NormalRows <=> e[1] # Epoch

LEMMA RowsFinite == FeedTypeOK => RowsClear
<1> SUFFICES ASSUME FeedTypeOK PROVE RowsClear
  OBVIOUS
<1> DEFINE All == (1..LastDay) \X Shots
<1>1. IsFiniteSet(All) /\ All \in SUBSET (Nat \X Nat)
  <2>1. IsFiniteSet(1..LastDay) /\ IsFiniteSet(Shots) /\ Shots \subseteq Nat
    BY FeedAssumption, FS_Interval
  <2>2. IsFiniteSet(All)
    BY <2>1, FS_Product
  <2>3. ASSUME NEW e \in All PROVE e \in Nat \X Nat
    <3>1. /\ e = <<e[1], e[2]>> /\ e[1] \in 1..LastDay /\ e[2] \in Shots
          /\ 1..LastDay \subseteq Nat
      BY <2>3, FeedAssumption
    <3> QED BY <3>1, <2>1
  <2> QED BY <2>2, <2>3
<1>2. shots \subseteq Shots /\ Normal(scope) \subseteq shots /\ Legacy(scope) \subseteq shots
  BY DEF FeedTypeOK, Normal, Legacy
<1>3. PlacesClear
  BY PlacesTell
<1>4. legacy \subseteq All
  BY FeedAssumption DEF FeedTypeOK, Epoch, Dates
<1> HIDE DEF All
<1>5. FeedRows \subseteq All /\ NormalRows \subseteq All /\ LegacyRows \subseteq All
  BY <1>2, <1>3 DEF FeedRows, NormalRows, LegacyRows, PlacesClear, All
<1>7. \A e \in FeedRows : \E q \in Shots : e \in Places(q) /\ e = EntryOf(q)
  BY <1>2, <1>3 DEF FeedRows, PlacesClear
<1>8. \A q \in Shots : Places(q) \subseteq FeedRows
  BY <1>3 DEF FeedRows, Places, PlacesClear
<1>9. \A e : e \in NormalRows <=> e \in FeedRows /\ e[1] # Epoch
  BY <1>2, <1>3, <1>7, <1>8 DEF NormalRows, PlacesClear
<1>10. \A e : e \in LegacyRows <=> e \in FeedRows /\ e[1] = Epoch
  BY <1>2, <1>3, <1>7, <1>8 DEF LegacyRows, PlacesClear
<1>11. \A T : T \subseteq All => IsFiniteSet(T) /\ T \in SUBSET (Nat \X Nat)
  BY <1>1, FS_Subset
<1>12. /\ IsFiniteSet(FeedRows) /\ IsFiniteSet(NormalRows) /\ IsFiniteSet(LegacyRows)
       /\ IsFiniteSet(legacy)
       /\ {FeedRows, NormalRows, LegacyRows, legacy} \subseteq SUBSET (Nat \X Nat)
  <2> HIDE <1>3
  <2>1. \A T \in {FeedRows, NormalRows, LegacyRows, legacy} :
          IsFiniteSet(T) /\ T \in SUBSET (Nat \X Nat)
    BY <1>4, <1>5, <1>11
  <2> QED BY <2>1
<1>13. FeedRows = NormalRows \cup LegacyRows
  BY <1>9, <1>10, Zenon
<1>14. \A e, f \in FeedRows : e[2] = f[2] => e = f
  BY <1>3, <1>7 DEF PlacesClear
<1> QED BY <1>7, <1>8, <1>9, <1>10, <1>12, <1>13, <1>14 DEF RowsClear

\* There are at most as many rows as photos with one.
LEMMA RowsCounted ==
  ASSUME FeedTypeOK
  PROVE  /\ Cardinality(Normal(scope)) \in Nat /\ Cardinality(Legacy(scope)) \in Nat
         /\ Cardinality(FeedRows) \in Nat
         /\ Cardinality(FeedRows) <= Cardinality(Normal(scope)) + Cardinality(Legacy(scope))
<1> DEFINE P == Normal(scope) \cup Legacy(scope)
           f == [p \in P |-> EntryOf(p)]
<1>1. Normal(scope) \in SUBSET Shots /\ Legacy(scope) \in SUBSET Shots
  BY DEF FeedTypeOK, Normal, Legacy
<1>2. IsFiniteSet(Normal(scope)) /\ IsFiniteSet(Legacy(scope))
  BY <1>1, FeedAssumption, FS_Subset
<1>3. /\ Cardinality(Normal(scope)) \in Nat /\ Cardinality(Legacy(scope)) \in Nat
      /\ Cardinality(Normal(scope) \cap Legacy(scope)) \in Nat
  BY <1>2, FS_CardinalityType, FS_Intersection
<1>4. /\ IsFiniteSet(P)
      /\ Cardinality(P) = Cardinality(Normal(scope)) + Cardinality(Legacy(scope))
                            - Cardinality(Normal(scope) \cap Legacy(scope))
  BY <1>2, FS_Union
<1>5. FeedRows = NormalRows \cup LegacyRows
  BY RowsFinite DEF RowsClear
<1>6. FeedRows = {EntryOf(p) : p \in P}
  BY <1>5 DEF NormalRows, LegacyRows
<1>7. f \in Surjection(P, FeedRows)
  BY <1>6 DEF Surjection
<1>8. IsFiniteSet(FeedRows) /\ Cardinality(FeedRows) <= Cardinality(P)
  BY <1>4, <1>7, FS_Surjection
<1>9. Cardinality(FeedRows) \in Nat
  BY <1>8, FS_CardinalityType
<1> HIDE DEF P, f
<1> QED BY <1>3, <1>4, <1>8, <1>9

\* A change of one photo: those of the others stay where they are.
Changes(p) ==
  \/ \E d, m \in {NoDate} \cup Dates : Register(p, d, m)
  \/ \E d \in Dates : Redate(p, d)
  \/ Star(p)

LEMMA ChangeKeeps ==
  ASSUME FeedTypeOK, NEW p \in Shots, Changes(p)
  PROVE  /\ FeedTypeOK'
         /\ Change(p)
         /\ \A q \in Shots : q # p => Places(q)' = Places(q)
<1>1. Change(p)
  BY DEF Changes, Register, Redate, Star
<1> DEFINE Others == \A q \in Shots : q # p =>
              /\ date'[q] = date[q] /\ mtime'[q] = mtime[q]
              /\ q \in shots' <=> q \in shots
              /\ q \in starred' <=> q \in starred
           Types == /\ shots' \subseteq Shots /\ starred' \subseteq shots'
                    /\ date' \in [Shots -> {NoDate} \cup Dates]
                    /\ mtime' \in [Shots -> {NoDate} \cup Dates]
<1>2. Types /\ Others
  <2>1. ASSUME NEW d \in {NoDate} \cup Dates, NEW m \in {NoDate} \cup Dates, Register(p, d, m)
        PROVE  Types /\ Others
    BY <2>1 DEF Register, FeedTypeOK
  <2>2. ASSUME NEW d \in Dates, Redate(p, d) PROVE Types /\ Others
    BY <2>2 DEF Redate, FeedTypeOK
  <2>3. ASSUME Star(p) PROVE Types /\ Others
    BY <2>3 DEF Star, FeedTypeOK
  <2> QED BY <2>1, <2>2, <2>3 DEF Changes
<1>3. FeedTypeOK'
  <2>1. changes' \in 0..MaxChanges
    BY <1>1, FeedAssumption DEF Change, FeedTypeOK
  <2>2. {cut', mixed'} \subseteq BOOLEAN
    BY <1>1 DEF Change, FeedTypeOK
  <2>3. strayed' \subseteq Shots /\ {departed', arrived'} \subseteq Nat
    BY <1>1 DEF Change, FeedTypeOK
  <2> QED BY <1>1, <1>2, <2>1, <2>2, <2>3 DEF Change, FeedTypeOK, pageRequest, view
<1>4. ASSUME NEW q \in Shots, q # p PROVE Places(q)' = Places(q)
  <2>1. scope' = scope
    BY <1>1 DEF Change, pageRequest
  <2>2. CaptureDay(q)' = CaptureDay(q)
    BY <1>2, <1>4 DEF CaptureDay
  <2>3. EntryOf(q)' = EntryOf(q)
    BY <2>2 DEF EntryOf
  <2>4. InPage(q, scope)' <=> InPage(q, scope)
    BY <1>2, <1>4, <2>1, <2>3 DEF InPage
  <2> QED BY <1>2, <1>4, <2>3, <2>4 DEF Places
<1> QED BY <1>1, <1>3, <1>4

\* A photo that is on the feed and has not left its place is another one than
\* the photo p that moves.  Its rank changes by p alone, in two steps: p leaves
\* the rows, and the others remain; and p takes its new place.
Stays(q, p) ==
  /\ q # p /\ Placed(q)' /\ EntryOf(q)' = EntryOf(q)
  /\ EntryOf(q) \in FeedRows \ Places(p)

LEMMA OthersStay ==
  ASSUME FeedTypeOK, NEW p \in Shots, Changes(p), Places(p)' # Places(p)
  PROVE  /\ \A q \in Shots : Placed(q) /\ q \notin strayed' => Stays(q, p)
         /\ FeedRows \ Places(p) = FeedRows' \ Places(p)'
         /\ Places(p) \ Places(p)' = Places(p) /\ Places(p)' \ Places(p) = Places(p)'
<1>1. /\ FeedTypeOK' /\ Change(p)
      /\ \A q \in Shots : q # p => Places(q)' = Places(q)
  BY ChangeKeeps
<1>2. PlacesClear /\ RowsClear
  BY PlacesTell, RowsFinite
<1>3. PlacesClear' /\ RowsClear'
  <2>1. FeedTypeOK' => PlacesClear' /\ RowsClear'
    BY PlacesTell, RowsFinite, PTL
  <2> QED BY <2>1, <1>1
<1>4. Places(p) \subseteq {EntryOf(p)} /\ Places(p)' \subseteq {EntryOf(p)'}
  BY <1>2, <1>3 DEF PlacesClear
<1>5. Places(p) \ Places(p)' = Places(p) /\ Places(p)' \ Places(p) = Places(p)'
  BY <1>4
<1>6. ASSUME NEW q \in Shots, Placed(q), q \notin strayed' PROVE Stays(q, p)
  <2>1. EntryOf(q) \in Places(q)
    BY <1>2, <1>6 DEF PlacesClear, Placed
  <2>2. q # p
    <3> SUFFICES ASSUME q = p PROVE FALSE
      OBVIOUS
    <3>1. ~(Places(p) \subseteq Places(p)')
      BY <2>1, <1>5
    <3> QED BY <3>1, <1>1, <1>6 DEF Change
  <2>3. EntryOf(q) \in Places(q)' /\ Places(q)' \subseteq {EntryOf(q)'}
    BY <2>1, <2>2, <1>1, <1>3 DEF PlacesClear
  <2>4. EntryOf(q)' = EntryOf(q)
    BY <2>3
  <2>5. Placed(q)'
    BY <2>3, <2>4, <1>3 DEF PlacesClear, Placed
  <2>6. EntryOf(q) \in FeedRows /\ EntryOf(q) \notin Places(p)
    BY <2>1, <2>2, <1>2, <1>4 DEF PlacesClear, RowsClear
  <2> QED BY <2>2, <2>4, <2>5, <2>6 DEF Stays
<1>7. ASSUME NEW e \in FeedRows, e \notin Places(p) PROVE e \in FeedRows' /\ e \notin Places(p)'
  <2>1. PICK q \in Shots : e \in Places(q) /\ e = EntryOf(q)
    BY <1>2, <1>7 DEF RowsClear
  <2>2. q # p /\ e \in Places(q)' /\ e[2] = q
    BY <2>1, <1>1, <1>2, <1>7 DEF PlacesClear
  <2> QED BY <2>2, <1>3, <1>4 DEF PlacesClear, RowsClear
<1>8. ASSUME NEW e \in FeedRows', e \notin Places(p)' PROVE e \in FeedRows /\ e \notin Places(p)
  <2>1. PICK q \in Shots : e \in Places(q)' /\ e = EntryOf(q)'
    BY <1>3, <1>8 DEF RowsClear
  <2>2. q # p /\ e \in Places(q) /\ e[2] = q
    BY <2>1, <1>1, <1>3, <1>8 DEF PlacesClear
  <2> QED BY <2>2, <1>2, <1>4 DEF PlacesClear, RowsClear
<1> QED BY <1>5, <1>6, <1>7, <1>8

\* How a photo that stays goes over the offset: another left a place before it,
\* or took one, and it stands, or stood, right at the offset.
RankWas(q) == Rank(EntryOf(q), FeedRows)
RankIs(q)  == Rank(EntryOf(q)', FeedRows')
GoesBehind(q) == departed' = departed + 1 /\ RankWas(q) = offset
GoesAhead(q)  == arrived' = arrived + 1 /\ RankIs(q) = offset

LEMMA StayersMove ==
  ASSUME FeedTypeOK, NEW p \in Shots, Changes(p), NEW q \in Shots, Placed(q), q \notin strayed'
  PROVE  /\ Placed(q)'
         /\ RankIs(q) < offset /\ ~(RankWas(q) < offset) => GoesBehind(q)
         /\ RankWas(q) < offset /\ ~(RankIs(q) < offset) => GoesAhead(q)
<1>1. /\ FeedTypeOK' /\ Change(p) /\ offset \in Nat
      /\ \A r \in Shots : r # p => Places(r)' = Places(r)
  BY ChangeKeeps DEF FeedTypeOK
<1>2. PlacesClear /\ RowsClear
  BY PlacesTell, RowsFinite
<1>3. PlacesClear' /\ RowsClear'
  <2>1. FeedTypeOK' => PlacesClear' /\ RowsClear'
    BY PlacesTell, RowsFinite, PTL
  <2> QED BY <2>1, <1>1
<1>4. CASE Places(p)' = Places(p)
  <2>1. \A r \in Shots : Places(r)' = Places(r)
    BY <1>1, <1>4
  <2>2. FeedRows' = FeedRows
    BY <2>1, <1>2, <1>3 DEF PlacesClear, RowsClear
  <2>3. EntryOf(q) \in Places(q)' /\ Places(q)' \subseteq {EntryOf(q)'}
    BY <2>1, <1>2, <1>3 DEF PlacesClear, Placed
  <2>4. EntryOf(q)' = EntryOf(q)
    BY <2>3
  <2>5. Placed(q)'
    BY <2>3, <2>4, <1>3 DEF PlacesClear, Placed
  <2> QED BY <2>2, <2>4, <2>5 DEF RankWas, RankIs
<1>5. CASE Places(p)' # Places(p)
  <2> DEFINE B == FeedRows \ Places(p)
  <2>1. /\ Stays(q, p) /\ B = FeedRows' \ Places(p)'
        /\ Places(p) \ Places(p)' = Places(p) /\ Places(p)' \ Places(p) = Places(p)'
    BY <1>5, OthersStay
  <2>2. Places(p) \subseteq FeedRows /\ Places(p)' \subseteq FeedRows'
    BY <1>2, <1>3 DEF RowsClear
  <2>3. B \cup Places(p) = FeedRows /\ B \cup Places(p)' = FeedRows'
    BY <2>1, <2>2
  <2>4. B \in SUBSET (Nat \X Nat) /\ IsFiniteSet(B)
    BY <1>2, FS_Difference DEF RowsClear
  <2>5. EntryOf(p) \in Nat \X Nat /\ Places(p) \in SUBSET {EntryOf(p)} /\ EntryOf(p) \notin B
    BY <1>2 DEF PlacesClear, RowsClear
  <2>6. EntryOf(p)' \in Nat \X Nat /\ Places(p)' \in SUBSET {EntryOf(p)'} /\ EntryOf(p)' \notin B
    BY <1>3, <2>1 DEF PlacesClear, RowsClear
  <2>7. EntryOf(q) \in B /\ EntryOf(q)' = EntryOf(q) /\ Placed(q)' /\ EntryOf(q) \in Nat \X Nat
    BY <2>1, <2>4 DEF Stays
  <2> HIDE DEF B
  <2>8. /\ Rank(EntryOf(q), B) <= RankWas(q) /\ Rank(EntryOf(q), B) <= RankIs(q)
        /\ Crosses(EntryOf(q), B, Places(p), offset) =>
             Passed(Places(p), FeedRows) /\ RankWas(q) = offset
        /\ Crosses(EntryOf(q), B, Places(p)', offset) =>
             (\E y \in Places(p)' : Rank(y, FeedRows') < offset) /\ RankIs(q) = offset
    <3>1. \A X \in SUBSET {EntryOf(p)}, e \in B : CrossesAt(e, B, X, offset)
      BY <2>4, <2>5, <1>1, OneCrosses
    <3>2. \A X \in SUBSET {EntryOf(p)'}, e \in B : CrossesAt(e, B, X, offset)
      BY <2>4, <2>6, <1>1, OneCrosses
    <3>3. CrossesAt(EntryOf(q), B, Places(p), offset) /\ CrossesAt(EntryOf(q), B, Places(p)', offset)
      BY <2>5, <2>6, <2>7, <3>1, <3>2
    <3> QED BY <3>3, <2>3, <2>7 DEF CrossesAt, RankWas, RankIs, Passed
  <2>9. Rank(EntryOf(q), B) \in Nat /\ RankWas(q) \in Nat /\ RankIs(q) \in Nat
    BY <2>4, <2>7, <1>2, <1>3, RankBounded DEF RankWas, RankIs, RowsClear
  <2>10. Passed(Places(p), FeedRows) => departed' = departed + 1
    BY <1>1, <2>1 DEF Change
  <2>11. (\E y \in Places(p)' : Rank(y, FeedRows') < offset) => arrived' = arrived + 1
    <3>1. offset' = offset
      BY <1>1 DEF Change, pageRequest
    <3> QED BY <1>1, <2>1, <3>1 DEF Change, Passed
  <2>12. RankIs(q) < offset /\ ~(RankWas(q) < offset) => Crosses(EntryOf(q), B, Places(p), offset)
    BY <2>3, <2>8, <2>9, <1>1 DEF Crosses, RankWas
  <2>13. RankWas(q) < offset /\ ~(RankIs(q) < offset) => Crosses(EntryOf(q), B, Places(p)', offset)
    BY <2>3, <2>7, <2>8, <2>9, <1>1 DEF Crosses, RankIs
  <2> QED BY <2>7, <2>8, <2>10, <2>11, <2>12, <2>13 DEF GoesBehind, GoesAhead
<1> QED BY <1>4, <1>5

\* No two photos of the feed have one rank.
RanksTell ==
  \A u, v \in Shots :
    Placed(u) /\ Placed(v) /\ Rank(EntryOf(u), FeedRows) = Rank(EntryOf(v), FeedRows) => u = v

LEMMA RanksDiffer == FeedTypeOK => RanksTell
<1> SUFFICES ASSUME FeedTypeOK, NEW u \in Shots, NEW v \in Shots, Placed(u), Placed(v),
                    Rank(EntryOf(u), FeedRows) = Rank(EntryOf(v), FeedRows)
             PROVE  u = v
  BY DEF RanksTell
<1>1. PlacesClear /\ RowsClear
  BY PlacesTell, RowsFinite
<1>2. EntryOf(u) \in FeedRows /\ EntryOf(v) \in FeedRows
  BY <1>1 DEF PlacesClear, RowsClear, Placed
<1>3. EntryOf(u) = EntryOf(v)
  BY <1>1, <1>2, RankOrders DEF RowsClear
<1> QED BY <1>1, <1>3 DEF PlacesClear

\* Photos that were there: one more is missed, only if another left its place.
LEMMA StayersCross ==
  ASSUME FeedTypeOK, NEW p \in Shots, Changes(p),
         \A q \in atStart \ strayed : Placed(q), Cardinality(Missed) <= departed
  PROVE  (\A q \in atStart \ strayed' : Placed(q)') /\ Cardinality(Missed') <= departed'
<1>1. /\ Change(p) /\ atStart \subseteq Shots /\ strayed \subseteq strayed' /\ offset \in Nat
      /\ atStart' = atStart /\ shown' = shown /\ offset' = offset
      /\ departed \in Nat /\ departed' \in {departed, departed + 1}
  BY ChangeKeeps DEF Change, FeedTypeOK, view, pageRequest
<1>2. \A q \in atStart \ strayed' :
        /\ q \in Shots /\ Placed(q) /\ Placed(q)'
        /\ RankIs(q) < offset /\ ~(RankWas(q) < offset) => GoesBehind(q)
  BY <1>1, StayersMove
<1> DEFINE C == {q \in Missed' : GoesBehind(q)}
<1>3. \A q \in Missed' : q \in (atStart \ strayed') \ shown /\ RankIs(q) < offset
  BY <1>1 DEF Missed, Behind, RankIs
<1>4. \A q \in (atStart \ strayed) \ shown : RankWas(q) < offset => q \in Missed
  BY DEF Missed, Behind, RankWas
<1>5. Missed' \subseteq Missed \cup C
  BY <1>1, <1>2, <1>3, <1>4
<1>6. \A u, v \in C : u = v
  BY <1>2, <1>3, RanksDiffer DEF GoesBehind, RankWas, RanksTell
<1>7. IsFiniteSet(Missed)
  <2>1. Missed \in SUBSET Shots
    BY <1>1 DEF Missed
  <2> QED BY <2>1, FeedAssumption, FS_Subset
<1>8. C # {} => departed' = departed + 1
  BY DEF GoesBehind
<1> HIDE DEF C
<1>9. /\ Cardinality(Missed') \in Nat /\ Cardinality(Missed) \in Nat
      /\ Cardinality(Missed') <= Cardinality(Missed) + 1
      /\ C = {} => Cardinality(Missed') <= Cardinality(Missed)
  BY <1>5, <1>6, <1>7, OneMore
<1>10. Cardinality(Missed') <= departed'
  BY <1>1, <1>8, <1>9
<1> QED BY <1>2, <1>10

\* Photos that were shown: one more is due again, only if another took a place.
LEMMA StayersReturn ==
  ASSUME FeedTypeOK, NEW p \in Shots, Changes(p),
         \A q \in shown \ strayed : Placed(q), Cardinality(Repeated) <= arrived
  PROVE  (\A q \in shown \ strayed' : Placed(q)') /\ Cardinality(Repeated') <= arrived'
<1>1. /\ Change(p) /\ shown \subseteq Shots /\ strayed \subseteq strayed' /\ offset \in Nat
      /\ shown' = shown /\ again' = again /\ offset' = offset /\ again \subseteq shown
      /\ arrived \in Nat /\ arrived' \in {arrived, arrived + 1}
  BY ChangeKeeps DEF Change, FeedTypeOK, view, pageRequest
<1>2. \A q \in shown \ strayed' :
        /\ q \in Shots /\ Placed(q) /\ Placed(q)'
        /\ RankWas(q) < offset /\ ~(RankIs(q) < offset) => GoesAhead(q)
  BY <1>1, StayersMove
<1> DEFINE C == {q \in shown \ strayed' : GoesAhead(q)}
<1>3. \A q \in Repeated' : /\ q \in shown \ strayed'
                           /\ ~(RankIs(q) < offset) \/ q \in again \ strayed
  BY <1>1 DEF Repeated, Behind, RankIs
<1>4. /\ \A q \in shown \ strayed : ~(RankWas(q) < offset) => q \in Repeated
      /\ again \ strayed \subseteq Repeated
  BY DEF Repeated, Behind, RankWas
<1>5. Repeated' \subseteq Repeated \cup C
  BY <1>1, <1>2, <1>3, <1>4
<1>6. ASSUME NEW u \in C, NEW v \in C PROVE u = v
  <2>1. FeedTypeOK' /\ u \in Shots /\ v \in Shots /\ Placed(u)' /\ Placed(v)'
    BY <1>2, ChangeKeeps
  <2>2. Rank(EntryOf(u)', FeedRows') = Rank(EntryOf(v)', FeedRows')
    BY DEF GoesAhead, RankIs
  <2>3. RanksTell'
    <3>1. FeedTypeOK' => RanksTell'
      BY RanksDiffer, PTL
    <3> QED BY <3>1, <2>1
  <2> QED BY <2>1, <2>2, <2>3 DEF RanksTell
<1>7. IsFiniteSet(Repeated)
  <2>1. Repeated \in SUBSET Shots
    BY <1>1 DEF Repeated
  <2> QED BY <2>1, FeedAssumption, FS_Subset
<1>8. C # {} => arrived' = arrived + 1
  BY DEF GoesAhead
<1> HIDE DEF C
<1>9. /\ Cardinality(Repeated') \in Nat /\ Cardinality(Repeated) \in Nat
      /\ Cardinality(Repeated') <= Cardinality(Repeated) + 1
      /\ C = {} => Cardinality(Repeated') <= Cardinality(Repeated)
  BY <1>5, <1>6, <1>7, OneMore
<1>10. Cardinality(Repeated') <= arrived'
  BY <1>1, <1>8, <1>9
<1> QED BY <1>2, <1>10

\* A change of a photo, at any moment of a request.
LEMMA ChangeKeepsFeed ==
  ASSUME FeedInv, NEW p \in Shots, Changes(p)
  PROVE  FeedInv'
<1>1. /\ FeedTypeOK' /\ Change(p) /\ FeedTypeOK
      /\ \A q \in Shots : q # p => Places(q)' = Places(q)
  BY ChangeKeeps DEF FeedInv
<1>2. UNCHANGED <<fPc, scope, offset, total, legacy, atStart, shown, again, mixed>>
  BY <1>1 DEF Change, pageRequest, view
<1>3. PlacesClear /\ RowsClear
  BY <1>1, PlacesTell, RowsFinite
<1>4. PlacesClear'
  <2>1. FeedTypeOK' => PlacesClear'
    BY PlacesTell, PTL
  <2> QED BY <2>1, <1>1
<1>5. RowsClear'
  <2>1. FeedTypeOK' => RowsClear'
    BY RowsFinite, PTL
  <2> QED BY <2>1, <1>1
<1> USE DEF PlacesClear, RowsClear
<1>8. ~cut' => ~cut /\ (fPc \in {"legacy", "rows"} => \A q \in Shots : Places(q)' = Places(q))
  BY <1>1 DEF Change
<1>9. TotalCounts'
  <2> SUFFICES ASSUME ~cut', fPc \in {"legacy", "rows"}
      PROVE  /\ Normal(scope)' = Normal(scope) /\ Legacy(scope)' = Legacy(scope)
             /\ LegacyRows' = LegacyRows
    BY <1>2, <1>8 DEF TotalCounts, FeedInv
  <2>1. \A q \in Shots : Places(q)' = Places(q)
    BY <1>8
  <2>2. \A q \in Shots : /\ q \in Normal(scope)' <=> q \in Normal(scope)
                         /\ q \in Legacy(scope)' <=> q \in Legacy(scope)
    BY <2>1, <1>3, <1>4
  <2>3. /\ Normal(scope) \subseteq Shots /\ Normal(scope)' \subseteq Shots
        /\ Legacy(scope) \subseteq Shots /\ Legacy(scope)' \subseteq Shots
    BY <1>1 DEF FeedTypeOK, Normal, Legacy
  <2>4. FeedRows' = FeedRows
    BY <2>1, <1>3, <1>5
  <2>5. LegacyRows' = LegacyRows
    BY <2>4, <1>3, <1>5
  <2> QED BY <2>2, <2>3, <2>5
<1>10. NoneMissed'
  <2> SUFFICES ASSUME Paging, ~cut', ~mixed, scope # Undated
      PROVE  (\A q \in atStart \ strayed' : Placed(q)') /\ Cardinality(Missed') <= departed'
    BY <1>2 DEF NoneMissed, Paging
  <2>1. (\A q \in atStart \ strayed : Placed(q)) /\ Cardinality(Missed) <= departed
    BY <1>8 DEF FeedInv, NoneMissed
  <2>2. atStart \subseteq Shots
    BY <1>1 DEF FeedTypeOK
  <2> QED BY <2>1, <2>2, StayersCross, ChangeKeeps, <1>1
<1>11. NoneTwice'
  <2> SUFFICES ASSUME Paging, ~cut', ~mixed
      PROVE  (\A q \in shown \ strayed' : Placed(q)') /\ Cardinality(Repeated') <= arrived'
    BY <1>2 DEF NoneTwice, Paging
  <2>1. (\A q \in shown \ strayed : Placed(q)) /\ Cardinality(Repeated) <= arrived
    BY <1>8 DEF FeedInv, NoneTwice
  <2> QED BY <2>1, StayersReturn, ChangeKeeps, <1>1
<1>12. PagesShowFeed'
  <2> SUFFICES ASSUME fPc = "asked", ~cut', ~mixed
      PROVE  /\ scope # Undated => Cardinality((atStart \ strayed') \ shown) <= departed'
             /\ Cardinality(again \ strayed') <= arrived'
    BY <1>2 DEF PagesShowFeed
  <2>1. /\ scope # Undated => Cardinality((atStart \ strayed) \ shown) <= departed
        /\ Cardinality(again \ strayed) <= arrived
    BY <1>8 DEF FeedInv, PagesShowFeed
  <2>2. strayed \subseteq strayed' /\ departed <= departed' /\ arrived <= arrived' /\ {departed, arrived, departed', arrived'} \subseteq Nat
    BY <1>1 DEF Change, FeedTypeOK
  <2>3. IsFiniteSet((atStart \ strayed) \ shown) /\ IsFiniteSet(again \ strayed)
    <3>1. (atStart \ strayed) \ shown \in SUBSET Shots /\ again \ strayed \in SUBSET Shots
      BY <1>1 DEF FeedTypeOK
    <3> QED BY <3>1, FeedAssumption, FS_Subset
  <2>4. /\ (atStart \ strayed') \ shown \in SUBSET ((atStart \ strayed) \ shown)
        /\ again \ strayed' \in SUBSET (again \ strayed)
    BY <2>2
  <2>5. /\ Cardinality((atStart \ strayed') \ shown) <= Cardinality((atStart \ strayed) \ shown)
        /\ Cardinality(again \ strayed') <= Cardinality(again \ strayed)
    BY <2>3, <2>4, FS_Subset
  <2>6. /\ {Cardinality((atStart \ strayed) \ shown), Cardinality(again \ strayed)} \subseteq Nat
        /\ {Cardinality((atStart \ strayed') \ shown), Cardinality(again \ strayed')} \subseteq Nat
    BY <2>3, <2>4, FS_Subset, FS_CardinalityType
  <2> QED BY <2>1, <2>2, <2>5, <2>6
<1> QED BY <1>1, <1>9, <1>10, <1>11, <1>12 DEF FeedInv

\* The rows depend on nothing but the photos and on what is looked at.
LEMMA RowsStay ==
  ASSUME UNCHANGED <<gallery, scope>>
  PROVE  /\ FeedRows' = FeedRows /\ NormalRows' = NormalRows /\ LegacyRows' = LegacyRows
         /\ Normal(scope)' = Normal(scope) /\ Legacy(scope)' = Legacy(scope)
         /\ \A q : EntryOf(q)' = EntryOf(q) /\ (InPage(q, scope)' <=> InPage(q, scope))
<1>1. \A q : CaptureDay(q)' = CaptureDay(q)
  BY DEF gallery, CaptureDay
<1>2. \A q : EntryOf(q)' = EntryOf(q)
  BY <1>1 DEF EntryOf
<1>3. \A q : InPage(q, scope)' <=> InPage(q, scope)
  BY <1>2 DEF InPage, gallery
<1>4. Normal(scope)' = Normal(scope) /\ Legacy(scope)' = Legacy(scope)
  BY <1>1, <1>3 DEF Normal, Legacy, gallery
<1> QED BY <1>2, <1>3, <1>4 DEF FeedRows, NormalRows, LegacyRows, gallery

\* And so do the photos to be missed or shown again.
LEMMA CountsStay ==
  ASSUME UNCHANGED <<gallery, scope>>, UNCHANGED <<offset, atStart, shown, again, strayed>>
  PROVE  /\ \A q : Placed(q)' <=> Placed(q)
         /\ Missed' = Missed /\ Repeated' = Repeated
<1>1. \A q : (Placed(q)' <=> Placed(q)) /\ (Behind(q)' <=> Behind(q))
  BY RowsStay DEF Placed, Behind, gallery, Rank, Before
<1>2. Missed' = Missed /\ Repeated' = Repeated
  BY <1>1 DEF Missed, Repeated
<1> QED BY <1>1, <1>2

\* The client opens a feed or a card.
LEMMA OpenStep ==
  ASSUME FeedInv, NEW s \in Scopes, Open(s)
  PROVE  FeedInv'
<1>1. FeedTypeOK'
  <2>1. {cut', mixed'} \subseteq BOOLEAN
    BY DEF Open
  <2>0. {departed', arrived'} \subseteq Nat
    BY DEF Open
  <2>2. atStart' \subseteq Shots /\ shown' \subseteq Shots /\ again' \subseteq shown' /\ strayed' \subseteq Shots
    BY DEF FeedInv, FeedTypeOK, Open
  <2>3. {offset', total'} \subseteq Nat /\ scope' \in Scopes /\ fPc' = "count"
    BY DEF FeedInv, FeedTypeOK, Open
  <2> QED BY <2>0, <2>1, <2>2, <2>3 DEF FeedInv, FeedTypeOK, Open, gallery
<1>2. /\ fPc' = "count" /\ scope' = s /\ offset' = 0 /\ atStart' = {q \in shots : OnCard(q, s)}
      /\ shots' = shots /\ starred' = starred /\ date' = date /\ mtime' = mtime
      /\ shown' = {} /\ again' = {} /\ strayed' = {} /\ departed' = 0 /\ arrived' = 0
  BY DEF Open, gallery
<1>3. PlacesClear' /\ RowsClear'
  <2>1. FeedTypeOK' => PlacesClear' /\ RowsClear'
    BY PlacesTell, RowsFinite, PTL
  <2> QED BY <2>1, <1>1
<1>4. TotalCounts'
  BY <1>2 DEF TotalCounts
<1>5. ASSUME s # Undated, NEW q \in shots, OnCard(q, s) PROVE Placed(q)'
  <2>1. CardDay(q) = CaptureDay(q) /\ CaptureDay(q)' = CaptureDay(q)
    BY <1>2 DEF CardDay, CaptureDay
  <2>2. EntryOf(q)' = EntryOf(q)
    BY <2>1 DEF EntryOf
  <2>3. CaptureDay(q) # NoDate => EntryOf(q)[1] = CaptureDay(q)
    BY DEF EntryOf
  <2>4. InPage(q, s)
    BY <1>5, <2>1, <2>3 DEF OnCard, InPage, Undated
  <2>5. InPage(q, scope)'
    BY <2>4, <2>2, <1>2 DEF InPage
  <2> QED BY <2>5, <1>2 DEF Placed
<1>6. NoneMissed'
  <2> SUFFICES ASSUME s # Undated
      PROVE  (\A q \in atStart' : Placed(q)') /\ Cardinality(Missed') <= 0
    BY <1>2 DEF NoneMissed
  <2>1. ASSUME NEW q \in Missed' PROVE FALSE
    <3>1. q \in shots /\ OnCard(q, s) /\ q \in Shots /\ Rank(EntryOf(q)', FeedRows') < 0
      BY <2>1, <1>2 DEF Missed, Behind, FeedInv, FeedTypeOK
    <3>2. Rank(EntryOf(q)', FeedRows') \in Nat
      BY <3>1, <1>3, RankBounded DEF PlacesClear, RowsClear
    <3> QED BY <3>1, <3>2
  <2>2. Missed' = {}
    BY <2>1
  <2> QED BY <2>2, <1>2, <1>5, FS_EmptySet
<1>7. NoneTwice'
  <2>1. Repeated' = {}
    BY <1>2 DEF Repeated
  <2> QED BY <2>1, <1>2, FS_EmptySet DEF NoneTwice
<1>8. PagesShowFeed'
  BY <1>2 DEF PagesShowFeed
<1> QED BY <1>1, <1>4, <1>6, <1>7, <1>8 DEF FeedInv

\* The counts and the rows without a day are read.
LEMMA CountStep ==
  ASSUME FeedInv, CountRows
  PROVE  FeedInv'
<1>1. FeedTypeOK' /\ FeedTypeOK
  BY RowsCounted DEF FeedInv, FeedTypeOK, CountRows, gallery, view, shifts
<1>2. /\ fPc = "count" /\ fPc' = "legacy" /\ total' = Cardinality(Normal(scope))
      /\ UNCHANGED <<gallery, scope>> /\ UNCHANGED <<departed, arrived, cut, mixed>>
      /\ UNCHANGED <<offset, atStart, shown, again, strayed>>
  BY DEF CountRows, view, shifts
<1>3. TotalCounts'
  BY <1>2, RowsStay DEF TotalCounts
<1>4. NoneMissed' /\ NoneTwice'
  BY <1>2, CountsStay DEF FeedInv, NoneMissed, NoneTwice, Paging
<1>5. PagesShowFeed'
  BY <1>2 DEF PagesShowFeed
<1> QED BY <1>1, <1>3, <1>4, <1>5 DEF FeedInv

LEMMA LegacyStep ==
  ASSUME FeedInv, ReadLegacy
  PROVE  FeedInv'
<1>0. FeedTypeOK
  BY DEF FeedInv
<1>1. FeedTypeOK'
  <2>1. legacy' \subseteq ({Epoch} \cup Dates) \X Shots
    <3> SUFFICES ASSUME NEW q \in Legacy(scope) PROVE EntryOf(q) \in ({Epoch} \cup Dates) \X Shots
      BY DEF ReadLegacy
    <3>1. q \in Shots
      BY <1>0 DEF Legacy, FeedTypeOK
    <3> QED BY <3>1 DEF Legacy, EntryOf, LegacyDay
  <2>2. total' \in Nat
    BY <1>0, RowsCounted DEF ReadLegacy, FeedTypeOK
  <2> QED BY <1>0, <2>1, <2>2 DEF FeedTypeOK, ReadLegacy, gallery, view, shifts
<1>2. /\ fPc = "legacy" /\ fPc' = "rows" /\ legacy' = LegacyRows
      /\ total' = total + Cardinality(Legacy(scope))
      /\ UNCHANGED <<gallery, scope>> /\ UNCHANGED <<departed, arrived, cut, mixed>>
      /\ UNCHANGED <<offset, atStart, shown, again, strayed>>
  BY DEF ReadLegacy, view, LegacyRows, shifts
<1>3. TotalCounts'
  <2>1. /\ Normal(scope)' = Normal(scope) /\ Legacy(scope)' = Legacy(scope)
        /\ LegacyRows' = LegacyRows
    BY <1>2, RowsStay
  <2> QED BY <1>2, <2>1 DEF FeedInv, TotalCounts
<1>4. NoneMissed' /\ NoneTwice'
  BY <1>2, CountsStay DEF FeedInv, NoneMissed, NoneTwice, Paging
<1>5. PagesShowFeed'
  BY <1>2 DEF PagesShowFeed
<1> QED BY <1>1, <1>3, <1>4, <1>5 DEF FeedInv

LEMMA CloseStep ==
  ASSUME FeedInv, Close
  PROVE  FeedInv'
<1>1. FeedTypeOK'
  <2>1. {cut', mixed'} \subseteq BOOLEAN
    BY DEF Close
  <2>0. {departed', arrived'} \subseteq Nat
    BY DEF Close
  <2>2. {offset', total'} \subseteq Nat /\ scope' \in Scopes /\ fPc' = "idle"
    BY DEF FeedInv, FeedTypeOK, Close, Scopes
  <2> QED BY <2>0, <2>1, <2>2 DEF FeedInv, FeedTypeOK, Close, gallery
<1> QED BY <1>1 DEF FeedInv, Close, TotalCounts, NoneMissed, NoneTwice, PagesShowFeed, Paging

\* The page goes out.  If the two orders agree, every entry of the page ranks in
\* the merge as among all the rows, so that the page is what stands between the
\* old offset and the new one.
LEMMA PageStep ==
  ASSUME FeedInv, ReadRows
  PROVE  FeedInv'
<1> DEFINE V == legacy \cup NormalRows
           k == offset + Limit
           M == MergeOf(legacy, NormalRows, k)
           page == IF legacy = {} THEN Slice(NormalRows, offset, k) ELSE PySlice(M, offset, k)
           new == {e[2] : e \in page}
           n == Cardinality(page)
<1>0. FeedTypeOK /\ offset \in Nat /\ Limit \in Nat /\ k \in Nat /\ total \in Nat
  BY FeedAssumption DEF FeedInv, FeedTypeOK
<1>1. PlacesClear /\ RowsClear
  BY <1>0, PlacesTell, RowsFinite
<1>2. /\ fPc = "rows" /\ fPc' = IF offset + n < total THEN "count" ELSE "asked"
      /\ offset' = offset + n /\ shown' = shown \cup new
      /\ again' = again \cup (new \cap shown)
      /\ mixed' = (mixed \/ (legacy # {} /\ ~OrdersAgree(V)))
      /\ legacy' = {} /\ total' = 0
      /\ UNCHANGED <<gallery, scope>> /\ UNCHANGED <<atStart, strayed, departed, arrived, cut>>
  BY DEF ReadRows, MergedPage, MergeOf, NormalRows, shifts
<1>3. /\ V \in SUBSET (Nat \X Nat) /\ IsFiniteSet(V)
      /\ legacy \in SUBSET (Nat \X Nat) /\ IsFiniteSet(legacy)
      /\ NormalRows \in SUBSET (Nat \X Nat) /\ IsFiniteSet(NormalRows)
  BY <1>1, FS_Union DEF RowsClear
<1>4. Agrees(M, V, k)
  BY <1>0, <1>3, MergeAgrees
<1>5. M \in SUBSET V /\ M \in SUBSET (Nat \X Nat) /\ IsFiniteSet(M)
  BY <1>3, <1>4, FS_Subset DEF Agrees
<1>6. page \in SUBSET V /\ IsFiniteSet(page) /\ n \in Nat
  <2>1. page \in SUBSET V
    BY <1>5 DEF Slice, PySlice
  <2> QED BY <2>1, <1>3, FS_Subset, FS_CardinalityType
<1>7. \A e \in V : e[2] \in Shots
  <2>1. \A e \in NormalRows : e[2] \in Shots
    BY <1>1 DEF RowsClear, PlacesClear
  <2>2. \A e \in legacy : e[2] \in Shots
    BY <1>0 DEF FeedTypeOK
  <2> QED BY <2>1, <2>2
<1> HIDE DEF page
<1>8. FeedTypeOK'
  <2>1. {cut', mixed'} \subseteq BOOLEAN
    BY <1>0, <1>2 DEF FeedTypeOK
  <2>2. new \subseteq Shots
    BY <1>6, <1>7
  <2>3. offset + n \in Nat
    BY <1>0, <1>6
  <2>4. /\ {offset', total'} \subseteq Nat /\ shown' \subseteq Shots /\ again' \subseteq shown'
        /\ fPc' \in {"idle", "count", "legacy", "rows", "asked"}
    BY <2>2, <2>3, <1>0, <1>2 DEF FeedTypeOK
  <2> QED BY <2>1, <2>4, <1>0, <1>2 DEF FeedTypeOK, gallery
<1>9. TotalCounts'
  BY <1>2 DEF TotalCounts
<1> HIDE DEF V, M, k, new
<1>10. /\ \A q : Placed(q)' <=> Placed(q)
       /\ \A q : Behind(q)' <=> RankWas(q) < offset + n
  BY <1>2, RowsStay DEF Placed, Behind, gallery, Rank, Before, RankWas
\* Where the page was cut from.
<1>11. ASSUME ~cut, ~mixed'
       PROVE  /\ ~mixed /\ total = Cardinality(Normal(scope)) + Cardinality(Legacy(scope))
              /\ n <= Limit
              /\ \A e \in page : /\ e \in FeedRows /\ offset <= Rank(e, FeedRows)
                                 /\ Rank(e, FeedRows) < offset + n
              /\ \A e \in FeedRows :
                   offset <= Rank(e, FeedRows) /\ Rank(e, FeedRows) < k => e \in page
  <2>1. /\ legacy = LegacyRows
        /\ total = Cardinality(Normal(scope)) + Cardinality(Legacy(scope))
    BY <1>2, <1>11 DEF FeedInv, TotalCounts
  <2>2. V = FeedRows
    BY <2>1, <1>1 DEF V, RowsClear
  <2>3. ~mixed /\ (legacy = {} \/ OrdersAgree(V))
    BY <1>2, <1>11
  <2>4. page = Slice(M, offset, offset + Limit)
    <3>1. CASE legacy = {}
      BY <3>1 DEF page, M, MergeOf, k
    <3>2. CASE legacy # {}
      <4>1. \A e \in M : PyRank(e, M) = Rank(e, M)
        BY <2>3, <3>2, <1>5, RanksAgree
      <4> QED BY <4>1, <3>2 DEF page, Slice, PySlice, k
    <3> QED BY <3>1, <3>2
  <2>5. n \in 0..Limit
    BY <2>4, <1>0, <1>5, SliceBounded
  <2>6. ASSUME NEW e \in page
        PROVE  e \in FeedRows /\ offset <= Rank(e, FeedRows) /\ Rank(e, FeedRows) < offset + n
    <3>1. e \in M /\ offset <= Rank(e, M) /\ Rank(e, M) < k
      BY <2>4 DEF Slice, k
    <3>2. Rank(e, M) = Rank(e, V) /\ e \in V
      BY <3>1, <1>4 DEF Agrees
    <3>3. Rank(e, M) < offset + n
      BY <2>4, <1>0, <1>5, SliceRank
    <3> QED BY <3>1, <3>2, <3>3, <2>2
  <2>7. ASSUME NEW e \in FeedRows, offset <= Rank(e, FeedRows), Rank(e, FeedRows) < k
        PROVE  e \in page
    BY <2>2, <2>4, <2>7, <1>4 DEF Agrees, Slice, k
  <2> QED BY <2>1, <2>3, <2>5, <2>6, <2>7
\* Of the photos that have places, those between the two offsets are shown.
<1>12. ASSUME ~cut, ~mixed', NEW q \in Shots
       PROVE  /\ Placed(q) /\ q \notin new => RankWas(q) < offset \/ ~(RankWas(q) < offset + n)
              /\ Placed(q) => RankWas(q) \in Nat /\ RankWas(q) < total
              /\ q \in new => Placed(q) /\ ~(RankWas(q) < offset) /\ RankWas(q) < offset + n
  <2>1. Placed(q) => EntryOf(q) \in FeedRows /\ EntryOf(q)[2] = q
    BY <1>1 DEF Placed, PlacesClear, RowsClear
  <2>2. /\ IsFiniteSet(FeedRows) /\ FeedRows \in SUBSET (Nat \X Nat)
        /\ Cardinality(FeedRows) \in Nat /\ Cardinality(FeedRows) <= total
    BY <1>0, <1>1, <1>11, <1>12, RowsCounted DEF RowsClear
  <2>3. Placed(q) => RankWas(q) \in Nat /\ RankWas(q) < total
    <3> SUFFICES ASSUME Placed(q) PROVE RankWas(q) \in Nat /\ RankWas(q) < total
      OBVIOUS
    <3>1. RankWas(q) \in Nat /\ RankWas(q) < Cardinality(FeedRows)
      BY <2>1, <2>2, RankBounded DEF RankWas
    <3> QED BY <3>1, <2>2, <1>0
  <2>4. Placed(q) /\ q \notin new => RankWas(q) < offset \/ ~(RankWas(q) < offset + n)
    <3> SUFFICES ASSUME Placed(q), ~(RankWas(q) < offset), RankWas(q) < offset + n PROVE q \in new
      OBVIOUS
    <3>1. offset <= RankWas(q) /\ RankWas(q) < k
      BY <2>3, <1>0, <1>6, <1>11, <1>12 DEF k
    <3>2. EntryOf(q) \in page
      BY <3>1, <2>1, <1>11, <1>12 DEF RankWas
    <3> QED BY <3>2, <2>1 DEF new
  <2>5. ASSUME q \in new
        PROVE  Placed(q) /\ ~(RankWas(q) < offset) /\ RankWas(q) < offset + n
    <3>1. PICK e \in page : e[2] = q
      BY <2>5 DEF new
    <3>2. e \in FeedRows /\ offset <= Rank(e, FeedRows) /\ Rank(e, FeedRows) < offset + n
      BY <1>11, <1>12
    <3>3. PICK r \in Shots : e \in Places(r) /\ e = EntryOf(r)
      BY <3>2, <1>1 DEF RowsClear
    <3>4. r = q
      BY <3>1, <3>3, <1>1 DEF PlacesClear
    <3>5. Placed(q) /\ RankWas(q) = Rank(e, FeedRows)
      BY <3>3, <3>4, <1>1 DEF PlacesClear, Placed, RankWas
    <3>6. Rank(e, FeedRows) \in Nat
      BY <3>2, <2>2, RankBounded
    <3> QED BY <3>2, <3>5, <3>6, <1>0
  <2> QED BY <2>3, <2>4, <2>5
<1>13. IsFiniteSet(Missed) /\ IsFiniteSet(Repeated)
  <2>1. Missed \in SUBSET Shots /\ Repeated \in SUBSET Shots
    BY <1>0 DEF Missed, Repeated, FeedTypeOK
  <2> QED BY <2>1, FeedAssumption, FS_Subset
<1>14. atStart \subseteq Shots /\ shown \subseteq Shots /\ again \subseteq shown /\ {departed, arrived} \subseteq Nat
  BY <1>0 DEF FeedTypeOK
<1>15. ASSUME ~cut, ~mixed', scope # Undated
       PROVE  /\ \A q \in atStart \ strayed : Placed(q)
              /\ \A Q \in SUBSET Missed : Cardinality(Q) <= departed
  <2>1. (\A q \in atStart \ strayed : Placed(q)) /\ Cardinality(Missed) <= departed
    BY <1>2, <1>11, <1>15 DEF FeedInv, NoneMissed, Paging
  <2>2. \A Q \in SUBSET Missed : /\ Cardinality(Q) <= Cardinality(Missed) /\ IsFiniteSet(Q)
    BY <1>13, FS_Subset
  <2>3. \A Q \in SUBSET Missed : Cardinality(Q) \in Nat /\ Cardinality(Missed) \in Nat
    BY <2>2, <1>13, FS_CardinalityType
  <2> QED BY <2>1, <2>2, <2>3, <1>14
<1>16. NoneMissed'
  <2> SUFFICES ASSUME ~cut, ~mixed', scope # Undated
      PROVE  (\A q \in atStart \ strayed : Placed(q)') /\ Cardinality(Missed') <= departed
    BY <1>2 DEF NoneMissed
  <2>1. ASSUME NEW q \in Missed' PROVE q \in Missed
    <3>1. q \in atStart /\ q \notin strayed /\ q \notin shown /\ q \notin new /\ RankWas(q) < offset + n
      BY <2>1, <1>2, <1>10 DEF Missed
    <3>2. RankWas(q) < offset
      BY <3>1, <1>12, <1>14, <1>15
    <3> QED BY <3>1, <3>2 DEF Missed, Behind, RankWas
  <2> QED BY <2>1, <1>10, <1>15
<1>17. ASSUME ~cut, ~mixed'
       PROVE  /\ \A q \in shown' \ strayed : Placed(q)
              /\ Repeated' \subseteq Repeated
              /\ \A Q \in SUBSET Repeated : Cardinality(Q) <= arrived
  <2>1. (\A q \in shown \ strayed : Placed(q)) /\ Cardinality(Repeated) <= arrived
    BY <1>2, <1>11, <1>17 DEF FeedInv, NoneTwice, Paging
  <2>2. new \subseteq Shots
    BY <1>6, <1>7 DEF new
  <2>3. ASSUME NEW q \in Repeated' PROVE q \in Repeated
    <3>1. CASE q \in shown' \ strayed /\ ~(RankWas(q) < offset + n)
      <4>1. q \in shown
        BY <3>1, <2>2, <1>2, <1>12, <1>17
      <4>2. ~(RankWas(q) < offset)
        BY <4>1, <3>1, <2>1, <1>0, <1>6, <1>12, <1>14, <1>17
      <4> QED BY <3>1, <4>1, <4>2 DEF Repeated, Behind, RankWas
    <3>2. CASE q \in again' \ strayed
      <4>1. CASE q \in again
        BY <3>2, <4>1 DEF Repeated
      <4>2. CASE q \in new \cap shown
        <5>1. ~(RankWas(q) < offset)
          BY <4>2, <2>2, <1>12, <1>17
        <5> QED BY <4>2, <5>1, <3>2 DEF Repeated, Behind, RankWas
      <4> QED BY <3>2, <4>1, <4>2, <1>2
    <3> QED BY <2>3, <3>1, <3>2, <1>2, <1>10 DEF Repeated
  <2>4. \A Q \in SUBSET Repeated : /\ Cardinality(Q) <= Cardinality(Repeated) /\ IsFiniteSet(Q)
    BY <1>13, FS_Subset
  <2>5. \A Q \in SUBSET Repeated : Cardinality(Q) \in Nat /\ Cardinality(Repeated) \in Nat
    BY <2>4, <1>13, FS_CardinalityType
  <2>6. \A q \in shown' \ strayed : Placed(q)
    BY <2>1, <2>2, <1>2, <1>12, <1>17
  <2>7. \A Q \in SUBSET Repeated : Cardinality(Q) <= arrived
    BY <2>1, <2>4, <2>5, <1>14
  <2> QED BY <2>3, <2>6, <2>7
<1>18. NoneTwice'
  <2> SUFFICES ASSUME ~cut, ~mixed'
      PROVE  (\A q \in shown' \ strayed : Placed(q)') /\ Cardinality(Repeated') <= arrived
    BY <1>2 DEF NoneTwice
  <2> QED BY <1>10, <1>17
<1>19. PagesShowFeed'
  <2> SUFFICES ASSUME fPc' = "asked", ~cut, ~mixed'
      PROVE  /\ scope # Undated => Cardinality((atStart \ strayed) \ shown') <= departed
             /\ Cardinality(again' \ strayed) <= arrived
    BY <1>2 DEF PagesShowFeed
  <2>1. ~(offset + n < total)
    BY <1>2
  <2>2. ASSUME scope # Undated, NEW q \in (atStart \ strayed) \ shown' PROVE q \in Missed
    <3>1. q \in Shots /\ q \notin new /\ Placed(q) /\ q \notin shown
      BY <2>2, <1>2, <1>14, <1>15
    <3>2. RankWas(q) \in Nat /\ RankWas(q) < offset + n
      <4>1. RankWas(q) \in Nat /\ RankWas(q) < total
        BY <3>1, <1>12
      <4> QED BY <4>1, <2>1, <1>0, <1>6
    <3>3. RankWas(q) < offset
      BY <3>1, <3>2, <1>12
    <3> QED BY <2>2, <3>1, <3>3 DEF Missed, Behind, RankWas
  <2>3. scope # Undated => (atStart \ strayed) \ shown' \in SUBSET Missed
    BY <2>2
  <2>4. again' \ strayed \in SUBSET Repeated
    <3>1. again' \ strayed \subseteq Repeated'
      BY <1>2 DEF Repeated
    <3> QED BY <3>1, <1>17
  <2> QED BY <2>3, <2>4, <1>15, <1>17
<1> QED BY <1>8, <1>9, <1>16, <1>18, <1>19 DEF FeedInv

\* The invariant of the feed.
LEMMA FeedStarts == FeedInit => FeedInv
<1> SUFFICES ASSUME FeedInit PROVE FeedInv
  OBVIOUS
<1>1. FeedTypeOK
  <2>1. {cut, mixed} \subseteq BOOLEAN
    BY DEF FeedInit
  <2>0. {departed, arrived} \subseteq Nat
    BY DEF FeedInit
  <2>2. scope \in Scopes /\ {offset, total} \subseteq Nat /\ changes \in 0..MaxChanges
    BY FeedAssumption DEF FeedInit, Scopes
  <2>3. mtime \in [Shots -> {NoDate} \cup Dates] /\ starred \subseteq shots
    BY FeedAssumption DEF FeedInit, Dates
  <2> QED BY <2>0, <2>1, <2>2, <2>3 DEF FeedInit, FeedTypeOK
<1> QED BY <1>1 DEF FeedInit, FeedInv, TotalCounts, NoneMissed, NoneTwice, PagesShowFeed, Paging

LEMMA FeedInvStep == ASSUME FeedInv, [FeedNext]_feedVars PROVE FeedInv'
<1>1. ASSUME NEW s \in Scopes, Open(s) PROVE FeedInv'
  BY <1>1, OpenStep
<1>2. ASSUME CountRows \/ ReadLegacy \/ ReadRows \/ Close PROVE FeedInv'
  BY <1>2, CountStep, LegacyStep, PageStep, CloseStep
<1>3. ASSUME NEW p \in Shots, Changes(p) PROVE FeedInv'
  BY <1>3, ChangeKeepsFeed
<1>4. ASSUME UNCHANGED feedVars PROVE FeedInv'
  <2>1. /\ UNCHANGED <<gallery, scope>>
        /\ UNCHANGED <<offset, atStart, shown, again, strayed>>
        /\ UNCHANGED <<fPc, total, legacy, departed, arrived, cut, mixed>>
    BY <1>4 DEF feedVars, pageRequest, view, shifts
  <2>2. FeedTypeOK'
    BY <2>1 DEF FeedInv, FeedTypeOK, gallery
  <2>3. TotalCounts' /\ PagesShowFeed'
    BY <2>1, RowsStay DEF FeedInv, TotalCounts, PagesShowFeed
  <2>4. NoneMissed' /\ NoneTwice'
    BY <2>1, CountsStay DEF FeedInv, NoneMissed, NoneTwice, Paging
  <2> QED BY <2>2, <2>3, <2>4 DEF FeedInv
<1> QED BY <1>1, <1>2, <1>3, <1>4 DEF FeedNext, Changes

LEMMA FeedInvariant == FeedSpec => []FeedInv
<1>1. FeedInv /\ [FeedNext]_feedVars => FeedInv'
  BY FeedInvStep
<1> QED BY FeedStarts, <1>1, PTL DEF FeedSpec

\* The requests keep their variables in their sets.
THEOREM FeedTypeCorrect == FeedSpec => []FeedTypeOK
<1>1. FeedInv => FeedTypeOK
  BY DEF FeedInv
<1> QED BY FeedInvariant, <1>1, PTL

\* A client that pages through a feed or the card of a day is shown the photos
\* that were there and kept their places, all but as many as others left before
\* the offset, and is shown no more of them again than others came before it,
\* for any photos, orders, days and page size, unless a photo moved between the
\* queries of a page or rows were merged that the two orders sort differently.
THEOREM PagesShowTheFeed == FeedSpec => []PagesShowFeed
<1>1. FeedInv => PagesShowFeed
  BY DEF FeedInv
<1> QED BY FeedInvariant, <1>1, PTL

(***************************************************************************)
(* All the requests: the types of the parts together.                      *)
(***************************************************************************)

\* The first states of the requests are first states of every part.
LEMMA RequestsStart ==
  RequestsInit =>
    /\ Init /\ LockInit /\ AlbumInit /\ SettingsInit /\ UploadInit /\ FeedInit
    /\ ArchiveInit /\ DiscoveryInit /\ ThumbInit /\ ClassInit
  BY DEF RequestsInit

\* A step of a request is a step of its part, and leaves the others alone.
LEMMA RequestsStep ==
  [RequestsNext]_<<part, vars, lockVars, albumVars, settingsVars, upVars,
                   feedVars, zipVars, scanVars, thumbVars, classVars>> =>
    /\ [Next]_vars /\ [LockNext]_lockVars /\ [AlbumNext]_albumVars
    /\ [SettingsNext]_settingsVars /\ [UploadNext]_upVars /\ [FeedNext]_feedVars
    /\ [ArchiveNext]_zipVars /\ [DiscoveryNext]_scanVars /\ [ThumbNext]_thumbVars
    /\ [ClassifyNext]_classVars
  BY DEF RequestsNext, Focus, SettingsNext

\* A behaviour of the requests is one of each part.
LEMMA RequestsAreParts ==
  RequestsSpec =>
    /\ Spec /\ LockSpec /\ AlbumSpec /\ SettingsSpec /\ UploadSpec /\ FeedSpec
    /\ ArchiveSpec /\ DiscoverySpec /\ ThumbSpec /\ ClassifySpec
  BY RequestsStart, RequestsStep, PTL
     DEF RequestsSpec, Spec, LockSpec, AlbumSpec, SettingsSpec, UploadSpec, FeedSpec,
         ArchiveSpec, DiscoverySpec, ThumbSpec, ClassifySpec

\* Every part keeps its variables in their sets.
THEOREM RequestsTypeCorrect == RequestsSpec => []RequestsOK
<1>1. /\ TypeOK /\ LockTypeOK /\ AlbumTypeOK /\ SettingsTypeOK /\ UploadTypeOK
      /\ FeedTypeOK /\ ArchiveTypeOK /\ DiscoveryTypeOK /\ ThumbTypeOK /\ ClassTypeOK
      => RequestsOK
  BY DEF RequestsOK
<1> QED
  BY <1>1, RequestsAreParts, UsersTypeCorrect, LockTypeCorrect, AlbumTypeCorrect,
     SettingsTypeCorrect, UploadTypeCorrect, FeedTypeCorrect, ArchiveTypeCorrect,
     DiscoveryTypeCorrect, ThumbTypeCorrect, ClassTypeCorrect, PTL
=============================================================================
