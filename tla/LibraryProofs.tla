--------------------------- MODULE LibraryProofs ---------------------------
(***************************************************************************)
(* Proofs about upsert_captures and its callers, for any photos, names,    *)
(* days and bounds.                                                        *)
(***************************************************************************)
EXTENDS Library, TLAPS

-----------------------------------------------------------------------------
(***************************************************************************)
(* Records.                                                                *)
(***************************************************************************)

\* The three constructors change one field.
LEMMA WithIdIs ==
  ASSUME NEW c \in Capture, NEW i \in Nat
  PROVE  /\ WithId(c, i) \in Capture
         /\ WithId(c, i).id = i
         /\ WithId(c, i).dest = c.dest
         /\ WithId(c, i).zip = c.zip
         /\ i = c.id => WithId(c, i) = c
BY DEF WithId, Capture

LEMMA WithDestIs ==
  ASSUME NEW c \in Capture, NEW d \in Paths \cup {NoPath}
  PROVE  /\ WithDest(c, d) \in Capture
         /\ WithDest(c, d).id = c.id
         /\ WithDest(c, d).dest = d
         /\ WithDest(c, d).zip = c.zip
BY DEF WithDest, Capture

LEMMA WithZipIs ==
  ASSUME NEW c \in Capture, NEW z \in Days \cup {NoDay}
  PROVE  /\ WithZip(c, z) \in Capture
         /\ WithZip(c, z).id = c.id
         /\ WithZip(c, z).dest = c.dest
         /\ WithZip(c, z).zip = z
BY DEF WithZip, Capture

\* Identified keeps the destination and gives 0 or the id of a row.
LEMMA IdentifiedIs ==
  ASSUME TableOK, WritersOK, NEW t \in Threads, NEW c \in caps[t]
  PROVE  /\ Identified(t, c) \in Capture
         /\ Identified(t, c).dest = c.dest
         /\ Identified(t, c).zip = c.zip
         /\ Identified(t, c).id =
              IF c.dest \in DOMAIN known[t] THEN known[t][c.dest] ELSE c.id
         /\ Identified(t, c).id \in 0 .. Len(rows)
<1> DEFINE i == IF c.dest \in DOMAIN known[t] THEN known[t][c.dest] ELSE c.id
<1>1. c \in Capture
  BY DEF WritersOK
<1>2. DOMAIN rows = 1 .. Len(rows) /\ Len(rows) \in Nat
  BY DEF TableOK
<1>3. c.dest \in DOMAIN known[t] => known[t][c.dest] \in 1 .. Len(rows)
  BY <1>2 DEF WritersOK
<1>4. c.id \in 0 .. Len(rows)
  BY DEF WritersOK, HaveRows
<1>5. i \in 0 .. Len(rows)
  BY <1>2, <1>3, <1>4
<1>6. i \in Nat
  BY <1>2, <1>5
<1> HIDE DEF i
<1>7. Identified(t, c) = WithId(c, i)
  BY DEF Identified, i
<1>8. i = IF c.dest \in DOMAIN known[t] THEN known[t][c.dest] ELSE c.id
  BY DEF i
<1>9. WithId(c, i).id = i /\ WithId(c, i).dest = c.dest /\ WithId(c, i).zip = c.zip
      /\ WithId(c, i) \in Capture
  BY <1>1, <1>6, WithIdIs
<1> QED
  BY <1>5, <1>7, <1>8, <1>9

-----------------------------------------------------------------------------
(***************************************************************************)
(* The write.                                                              *)
(***************************************************************************)

\* What a write finds and does: Written(t, W, n, new) is Write(t, after) without
\* the choice of the records W, their number n without id and the order new.
Written(t, W, n, new) ==
  /\ W \in SUBSET {Identified(t, c) : c \in caps[t]}
  /\ \A c, d \in W : c.dest = d.dest /\ c.dest # NoPath => c = d
  /\ \A c, d \in W : c.id = d.id /\ c.id # 0 => c = d
  /\ n \in Nat
  /\ new \in Insertions(W, n)
  /\ rows' = Stored(W, n, new)
  /\ favs' = favs

LEMMA WriteIs ==
  ASSUME NEW t, NEW after, Write(t, after), MaxRows \in Nat, TableOK
  PROVE  /\ \E W, n, new : Written(t, W, n, new)
         /\ stage[t] = "write"
         /\ Goto(t, after, {})
<1>1. PICK P \in OnePerDest({Identified(t, c) : c \in caps[t]}) :
        \E W \in OnePerId(P) :
          \E n \in 0 .. MaxRows - Len(rows) :
            \E new \in Insertions(W, n) : rows' = Stored(W, n, new)
  BY DEF Write
<1>2. PICK W \in OnePerId(P) :
        \E n \in 0 .. MaxRows - Len(rows) :
          \E new \in Insertions(W, n) : rows' = Stored(W, n, new)
  BY <1>1
<1>3. PICK n \in 0 .. MaxRows - Len(rows) :
        \E new \in Insertions(W, n) : rows' = Stored(W, n, new)
  BY <1>2
<1>4. PICK new \in Insertions(W, n) : rows' = Stored(W, n, new)
  BY <1>3
<1>5. W \in SUBSET P /\ \A c, d \in W : c.id = d.id /\ c.id # 0 => c = d
  BY <1>2 DEF OnePerId
<1>6. /\ P \in SUBSET {Identified(t, c) : c \in caps[t]}
      /\ \A c, d \in P : c.dest = d.dest /\ c.dest # NoPath => c = d
  BY <1>1 DEF OnePerDest
<1>7. n \in Nat
  BY <1>3
<1>8. favs' = favs
  BY DEF Write
<1>9. Written(t, W, n, new)
  BY <1>2, <1>4, <1>5, <1>6, <1>7, <1>8 DEF Written
<1> QED
  BY <1>9 DEF Write

\* Every record written is one of the caller's, under the id it was given.
LEMMA WrittenIs ==
  ASSUME TableOK, WritersOK, NEW t \in Threads, NEW W, NEW n, NEW new,
         Written(t, W, n, new)
  PROVE  /\ \A c \in W : c \in Capture /\ c.id \in 0 .. Len(rows)
         /\ \A c \in W : \E b \in caps[t] :
              /\ c = Identified(t, b)
              /\ c.dest = b.dest /\ c.zip = b.zip
              /\ c.id = IF b.dest \in DOMAIN known[t] THEN known[t][b.dest] ELSE b.id
<1>1. \A c \in W : \E b \in caps[t] : c = Identified(t, b)
  BY DEF Written
<1> QED
  BY <1>1, IdentifiedIs

\* The new table: rows that were updated, rows that were kept, rows that are new.
LEMMA StoredIs ==
  ASSUME TableOK, WritersOK, NEW t \in Threads, NEW W, NEW n, NEW new,
         Written(t, W, n, new)
  PROVE  /\ DOMAIN rows' = 1 .. Len(rows) + n
         /\ \A i \in DOMAIN rows :
              \/ \E c \in W : c.id = i /\ rows'[i] = c
              \/ rows'[i] = rows[i] /\ \A c \in W : c.id # i
         /\ \A i \in 1 .. n :
              /\ new[i] \in W /\ new[i].id = 0
              /\ rows'[Len(rows) + i] = WithId(new[i], Len(rows) + i)
         /\ \A i, j \in 1 .. n : new[i] = new[j] => i = j
<1>1. Len(rows) \in Nat /\ DOMAIN rows = 1 .. Len(rows) /\ n \in Nat
  BY DEF TableOK, Written
<1>2. rows' = [i \in 1 .. Len(rows) + n |->
                 IF i <= Len(rows) THEN Updated(W, i)
                 ELSE WithId(new[i - Len(rows)], Fresh(i - Len(rows)))]
  BY DEF Written, Stored
<1>3. \A i \in DOMAIN rows : i \in 1 .. Len(rows) + n /\ i <= Len(rows)
  BY <1>1
<1>4. \A i \in DOMAIN rows : rows'[i] = Updated(W, i)
  BY <1>2, <1>3
<1>5. \A i \in DOMAIN rows :
        \/ \E c \in W : c.id = i /\ Updated(W, i) = c
        \/ Updated(W, i) = rows[i] /\ \A c \in W : c.id # i
  BY DEF Updated
<1>6. /\ \A i \in 1 .. n : new[i] \in Unstored(W)
      /\ \A i, j \in 1 .. n : new[i] = new[j] => i = j
  BY DEF Written, Insertions
<1>7. \A i \in 1 .. n : new[i] \in W /\ new[i].id = 0
  BY <1>6 DEF Unstored
<1>8. ASSUME NEW i \in 1 .. n
      PROVE  rows'[Len(rows) + i] = WithId(new[i], Len(rows) + i)
  <2>1. /\ Len(rows) + i \in 1 .. Len(rows) + n
        /\ ~(Len(rows) + i <= Len(rows))
        /\ (Len(rows) + i) - Len(rows) = i
    BY <1>1
  <2> QED
    BY <1>2, <2>1 DEF Fresh
<1> QED
  BY <1>2, <1>4, <1>5, <1>6, <1>7, <1>8

\* The new table keeps to its type.
LEMMA StoredTyped ==
  ASSUME TableOK, WritersOK, NEW t \in Threads, NEW W, NEW n, NEW new,
         Written(t, W, n, new)
  PROVE  /\ TableOK'
         /\ Len(rows) <= Len(rows')
<1>1. /\ rows \in Seq(Capture) /\ n \in Nat /\ favs \subseteq DOMAIN rows /\ favs' = favs
      /\ \A i \in DOMAIN rows : rows[i].id = i
  BY DEF TableOK, Written
<1>2. Len(rows) \in Nat /\ DOMAIN rows = 1 .. Len(rows)
      /\ \A i \in DOMAIN rows : rows[i] \in Capture
  BY <1>1
<1>3. \A c \in W : c \in Capture
  BY WrittenIs
<1>4. ASSUME NEW i \in 1 .. Len(rows) + n
      PROVE  rows'[i] \in Capture /\ rows'[i].id = i
  <2>1. CASE i \in DOMAIN rows
    <3>1. \/ \E c \in W : c.id = i /\ rows'[i] = c
          \/ rows'[i] = rows[i]
      BY <2>1, StoredIs
    <3>2. rows[i] \in Capture /\ rows[i].id = i
      BY <1>1, <1>2, <2>1
    <3> QED
      BY <1>3, <3>1, <3>2
  <2>2. CASE i \notin DOMAIN rows
    <3>1. PICK j \in 1 .. n : i = Len(rows) + j
      <4>1. i - Len(rows) \in 1 .. n /\ i = Len(rows) + (i - Len(rows))
        BY <1>1, <1>2, <2>2
      <4> QED
        BY <4>1
    <3>2. rows'[i] = WithId(new[j], i) /\ new[j] \in Capture
      BY <1>3, <3>1, StoredIs
    <3>3. i \in Nat
      BY <1>1, <1>2
    <3>4. WithId(new[j], i) \in Capture /\ WithId(new[j], i).id = i
      BY <3>2, <3>3, WithIdIs
    <3> QED
      BY <3>2, <3>4
  <2> QED
    BY <2>1, <2>2
<1>5. DOMAIN rows' = 1 .. Len(rows) + n
  BY StoredIs
<1>6. rows' = [i \in 1 .. Len(rows) + n |-> rows'[i]]
  BY <1>5 DEF Written, Stored
<1>7. Len(rows) + n \in Nat
  BY <1>1, <1>2
<1>8. rows' \in Seq(Capture)
  BY <1>4, <1>6, <1>7
<1>9. Len(rows') = Len(rows) + n
  BY <1>5, <1>7, <1>8
<1>10. favs' \subseteq DOMAIN rows'
  BY <1>1, <1>2, <1>5
<1> QED
  BY <1>1, <1>2, <1>4, <1>5, <1>8, <1>9, <1>10 DEF TableOK

\* The heart of upsert_captures: with a lookup that is still right, whatever records
\* it is given, every destination keeps to one row.
LEMMA StoredOneRow ==
  ASSUME TableOK, WritersOK, NEW t \in Threads, NEW W, NEW n, NEW new,
         Written(t, W, n, new), UpToDate(t), OneRowPerDest
  PROVE  OneRowPerDest'
<1>1. Len(rows) \in Nat /\ DOMAIN rows = 1 .. Len(rows) /\ n \in Nat
  BY DEF TableOK, Written
<1>2. DOMAIN rows' = 1 .. Len(rows) + n
  BY StoredIs
<1> DEFINE FromW(i) == \E c \in W : /\ c.dest = rows'[i].dest
                                    /\ IF i \in DOMAIN rows THEN c.id = i
                                       ELSE c.id = 0 /\ c = new[i - Len(rows)]
           Kept(i)  == i \in DOMAIN rows /\ rows'[i] = rows[i] /\ \A c \in W : c.id # i
\* Every row comes from one record or is as it was.
<1>3. ASSUME NEW i \in DOMAIN rows'
      PROVE  FromW(i) \/ Kept(i)
  <2>1. CASE i \in DOMAIN rows
    BY <2>1, StoredIs
  <2>2. CASE i \notin DOMAIN rows
    <3>1. PICK j \in 1 .. n : i = Len(rows) + j /\ i - Len(rows) = j
      <4>1. i - Len(rows) \in 1 .. n /\ i = Len(rows) + (i - Len(rows))
        BY <1>1, <1>2, <2>2
      <4> QED
        BY <4>1
    <3>2. /\ rows'[i] = WithId(new[j], i) /\ new[j] \in W /\ new[j].id = 0
          /\ new[j] \in Capture
      BY <3>1, StoredIs, WrittenIs
    <3>3. i \in Nat
      BY <1>1, <1>2
    <3>4. rows'[i].dest = new[j].dest
      BY <3>2, <3>3, WithIdIs
    <3> QED
      BY <2>2, <3>1, <3>2, <3>4
  <2> QED
    BY <2>1, <2>2
\* Two rows from records: the records are one, by the merge by destination.
<1>4. ASSUME NEW i \in DOMAIN rows', NEW j \in DOMAIN rows',
             rows'[i].dest = rows'[j].dest, rows'[i].dest # NoPath, FromW(i), FromW(j)
      PROVE  i = j
  <2>1. PICK c \in W : /\ c.dest = rows'[i].dest
                       /\ IF i \in DOMAIN rows THEN c.id = i
                          ELSE c.id = 0 /\ c = new[i - Len(rows)]
    BY <1>4
  <2>2. PICK d \in W : /\ d.dest = rows'[j].dest
                       /\ IF j \in DOMAIN rows THEN d.id = j
                          ELSE d.id = 0 /\ d = new[j - Len(rows)]
    BY <1>4
  <2>3. c = d
    BY <1>4, <2>1, <2>2 DEF Written
  <2>4. CASE i \in DOMAIN rows /\ j \in DOMAIN rows
    BY <2>1, <2>2, <2>3, <2>4
  <2>5. CASE i \notin DOMAIN rows /\ j \notin DOMAIN rows
    <3>1. i - Len(rows) \in 1 .. n /\ j - Len(rows) \in 1 .. n
      BY <1>1, <1>2, <2>5
    <3>2. new[i - Len(rows)] = new[j - Len(rows)]
      BY <2>1, <2>2, <2>3, <2>5
    <3>3. i - Len(rows) = j - Len(rows)
      BY <3>1, <3>2, StoredIs
    <3> QED
      BY <1>1, <1>2, <3>3
  <2>6. CASE i \in DOMAIN rows /\ j \notin DOMAIN rows
    BY <1>1, <2>1, <2>2, <2>3, <2>6
  <2>7. CASE i \notin DOMAIN rows /\ j \in DOMAIN rows
    BY <1>1, <2>1, <2>2, <2>3, <2>7
  <2> QED
    BY <2>4, <2>5, <2>6, <2>7
\* A row as it was and one from a record: the record was given the id of that row.
<1>5. ASSUME NEW i \in DOMAIN rows', NEW j \in DOMAIN rows',
             rows'[i].dest = rows'[j].dest, rows'[i].dest # NoPath, Kept(i), FromW(j)
      PROVE  FALSE
  <2>1. PICK c \in W : c.dest = rows'[j].dest
    BY <1>5
  <2>2. PICK b \in caps[t] :
          /\ c.dest = b.dest
          /\ c.id = IF b.dest \in DOMAIN known[t] THEN known[t][b.dest] ELSE b.id
    BY WrittenIs
  <2>3. i \in RowsAt(b.dest) /\ b.dest # NoPath
    BY <1>5, <2>1, <2>2 DEF RowsAt
  <2>4. b.dest \in DOMAIN known[t] /\ known[t][b.dest] \in RowsAt(b.dest)
    <3> DEFINE dests == {e.dest : e \in caps[t]} \ {NoPath}
               taken == {d \in dests : RowsAt(d) # {}}
    <3>1. b.dest \in taken
      BY <2>3
    <3>2. known[t] \in [taken -> DOMAIN rows] /\ \A d \in taken : known[t][d] \in RowsAt(d)
      BY DEF UpToDate, Lookups
    <3> QED
      BY <3>1, <3>2
  <2>5. c.id = i
    BY <2>2, <2>3, <2>4 DEF RowsAt, OneRowPerDest
  <2> QED
    BY <1>5, <2>5
<1>6. ASSUME NEW i \in DOMAIN rows', NEW j \in DOMAIN rows',
             rows'[i].dest = rows'[j].dest, rows'[i].dest # NoPath, Kept(i), Kept(j)
      PROVE  i = j
  BY <1>6 DEF OneRowPerDest
<1> HIDE DEF FromW, Kept
<1>7. \A i, j \in DOMAIN rows' :
        rows'[i].dest = rows'[j].dest /\ rows'[i].dest # NoPath => i = j
  BY <1>3, <1>4, <1>5, <1>6
<1> QED
  BY <1>7 DEF OneRowPerDest

\* Records the table holds already are written over themselves.
LEMMA StoredAgain ==
  ASSUME TableOK, WritersOK, NEW t \in Threads, NEW W, NEW n, NEW new,
         Written(t, W, n, new), UpToDate(t), OneRowPerDest, caps[t] \subseteq Loaded
  PROVE  rows' = rows
<1>1. /\ Len(rows) \in Nat /\ DOMAIN rows = 1 .. Len(rows) /\ n \in Nat
      /\ \A i \in DOMAIN rows : rows[i].id = i /\ rows[i] \in Capture
  BY DEF TableOK, Written
<1>2. ASSUME NEW b \in caps[t]
      PROVE  Identified(t, b) = b /\ b.id \in DOMAIN rows /\ b = rows[b.id]
  <2>1. PICK k \in DOMAIN rows : b = rows[k]
    BY DEF Loaded
  <2>2. b.id = k /\ b \in Capture /\ k \in Nat
    BY <1>1, <2>1
  <2>3. b.dest \in DOMAIN known[t] => known[t][b.dest] = k
    <3> DEFINE dests == {e.dest : e \in caps[t]} \ {NoPath}
               taken == {d \in dests : RowsAt(d) # {}}
    <3>1. HAVE b.dest \in DOMAIN known[t]
    <3>2. known[t] \in [taken -> DOMAIN rows] /\ \A d \in taken : known[t][d] \in RowsAt(d)
      BY DEF UpToDate, Lookups
    <3>3. b.dest # NoPath /\ known[t][b.dest] \in RowsAt(b.dest)
      BY <3>1, <3>2
    <3> QED
      BY <2>1, <3>3 DEF RowsAt, OneRowPerDest
  <2>4. Identified(t, b) = WithId(b, k)
    BY <2>2, <2>3 DEF Identified
  <2>5. WithId(b, k) = b
    BY <2>2, WithIdIs
  <2> QED
    BY <2>1, <2>2, <2>4, <2>5
<1>3. \A c \in W : c.id \in DOMAIN rows /\ c = rows[c.id]
  BY <1>2 DEF Written
<1>4. n = 0
  <2>1. SUFFICES ASSUME n # 0 PROVE FALSE
    OBVIOUS
  <2>2. 1 \in 1 .. n
    BY <1>1, <2>1
  <2>3. new[1] \in W /\ new[1].id = 0
    BY <2>2, StoredIs
  <2> QED
    BY <1>1, <1>3, <2>3
<1>5. DOMAIN rows' = DOMAIN rows
  BY <1>1, <1>4, StoredIs
<1>6. ASSUME NEW i \in DOMAIN rows
      PROVE  rows'[i] = rows[i]
  <2>1. \/ \E c \in W : c.id = i /\ rows'[i] = c
        \/ rows'[i] = rows[i]
    BY StoredIs
  <2> QED
    BY <1>3, <2>1
<1>7. rows = [i \in DOMAIN rows |-> rows[i]]
  BY DEF TableOK
<1>8. rows' = [i \in DOMAIN rows' |-> rows'[i]]
  BY DEF Written, Stored
<1> QED
  BY <1>5, <1>6, <1>7, <1>8

-----------------------------------------------------------------------------
(***************************************************************************)
(* The steps of a writer keep the types.                                   *)
(***************************************************************************)

LEMMA GotoTyped ==
  ASSUME TableOK, WritersOK, TableOK', Len(rows) <= Len(rows'),
         NEW t \in Threads, NEW label \in Stages, NEW records \in SUBSET Capture,
         HaveRows(records), Goto(t, label, records)
  PROVE  WritersOK'
<1>1. /\ Len(rows) \in Nat /\ DOMAIN rows = 1 .. Len(rows)
      /\ Len(rows') \in Nat /\ DOMAIN rows' = 1 .. Len(rows')
  BY DEF TableOK
<1>2. stage' \in [Threads -> Stages]
  BY DEF WritersOK, Goto
<1>3. caps' \in [Threads -> SUBSET Capture]
  BY DEF WritersOK, Goto
<1>4. ASSUME NEW u \in Threads
      PROVE  caps'[u] = IF u = t THEN records ELSE caps[u]
  BY DEF WritersOK, Goto
<1>5. ASSUME NEW u \in Threads
      PROVE  \A c \in caps'[u] : c.id \in 0 .. Len(rows')
  <2>1. \A c \in caps'[u] : c.id \in 0 .. Len(rows)
    BY <1>4 DEF WritersOK, HaveRows
  <2> QED
    BY <1>1, <2>1
<1>6. known' = [known EXCEPT ![t] = <<>>]
  BY DEF Goto
<1>7. known = [u \in Threads |-> known[u]]
  BY DEF WritersOK
<1>8. known' = [u \in Threads |-> known'[u]]
  BY <1>6, <1>7
<1>9. ASSUME NEW u \in Threads
      PROVE  known'[u] = IF u = t THEN <<>> ELSE known[u]
  BY <1>6, <1>7
<1>10. ASSUME NEW u \in Threads
       PROVE  /\ DOMAIN known'[u] \subseteq Paths
              /\ known'[u] \in [DOMAIN known'[u] -> DOMAIN rows']
  <2>1. CASE u = t
    <3>1. known'[u] = <<>> /\ DOMAIN << >> = {}
      BY <1>9, <2>1
    <3>2. << >> = [d \in {} |-> 0]
      OBVIOUS
    <3> QED
      BY <3>1, <3>2
  <2>2. CASE u # t
    <3>1. DOMAIN known[u] \subseteq Paths /\ known[u] \in [DOMAIN known[u] -> DOMAIN rows]
      BY DEF WritersOK
    <3>2. DOMAIN rows \subseteq DOMAIN rows'
      BY <1>1
    <3> QED
      BY <1>9, <2>2, <3>1, <3>2
  <2> QED
    BY <2>1, <2>2
<1> QED
  BY <1>2, <1>3, <1>5, <1>8, <1>10 DEF WritersOK, HaveRows

LEMMA UpsertTyped ==
  ASSUME TableOK, WritersOK, UNCHANGED table,
         NEW t \in Threads, NEW records \in SUBSET Capture,
         HaveRows(records), Upsert(t, records)
  PROVE  WritersOK'
<1>1. TableOK' /\ Len(rows) <= Len(rows')
  BY DEF TableOK, table
<1>2. PICK label \in {"idle", "lookup"} : Goto(t, label, records)
  BY DEF Upsert
<1>3. label \in Stages
  BY DEF Stages
<1> QED
  BY <1>1, <1>2, <1>3, GotoTyped

LEMMA LookupTyped ==
  ASSUME TableOK, WritersOK, NEW t \in Threads, Lookup(t)
  PROVE  TableOK' /\ WritersOK'
<1>1. rows' = rows /\ favs' = favs /\ caps' = caps
  BY DEF Lookup, table
<1>2. stage' \in [Threads -> Stages]
  BY DEF Lookup, WritersOK, Stages
<1>3. PICK k \in Lookups(t) : known' = [known EXCEPT ![t] = k]
  BY DEF Lookup
<1>4. k \in [DOMAIN k -> DOMAIN rows] /\ DOMAIN k \subseteq Paths
  <2> DEFINE dests == {c.dest : c \in caps[t]} \ {NoPath}
             taken == {d \in dests : RowsAt(d) # {}}
  <2>1. k \in [taken -> DOMAIN rows]
    BY <1>3 DEF Lookups
  <2>2. caps[t] \subseteq Capture
    BY DEF WritersOK
  <2>3. dests \subseteq Paths
    BY <2>2 DEF Capture
  <2> QED
    BY <2>1, <2>3
<1>5. known = [u \in Threads |-> known[u]]
  BY DEF WritersOK
<1>6. known' = [u \in Threads |-> known'[u]]
  BY <1>3, <1>5
<1>7. ASSUME NEW u \in Threads
      PROVE  /\ DOMAIN known'[u] \subseteq Paths
             /\ known'[u] \in [DOMAIN known'[u] -> DOMAIN rows]
  <2>1. known'[u] = IF u = t THEN k ELSE known[u]
    BY <1>3, <1>5
  <2> QED
    BY <1>4, <2>1 DEF WritersOK
<1>8. TableOK'
  BY <1>1 DEF TableOK
<1>9. /\ caps' \in [Threads -> SUBSET Capture]
      /\ \A u \in Threads : \A c \in caps'[u] : c.id \in 0 .. Len(rows')
  BY <1>1 DEF WritersOK, HaveRows
<1> QED
  BY <1>1, <1>2, <1>6, <1>7, <1>8, <1>9 DEF WritersOK, HaveRows

LEMMA WriteTyped ==
  ASSUME TableOK, WritersOK, MaxRows \in Nat,
         NEW t \in Threads, NEW after \in Stages, Write(t, after)
  PROVE  TableOK' /\ WritersOK'
<1>1. PICK W, n, new : Written(t, W, n, new)
  BY WriteIs
<1>2. TableOK' /\ Len(rows) <= Len(rows')
  BY <1>1, StoredTyped
<1>3. Goto(t, after, {})
  BY WriteIs
<1>4. HaveRows({}) /\ {} \in SUBSET Capture
  BY DEF HaveRows
<1> QED
  BY <1>2, <1>3, <1>4, GotoTyped

-----------------------------------------------------------------------------
(***************************************************************************)
(* Type correctness. What is being copied is dated, and what the copy has  *)
(* left so far is not whole: without it the end of a copy could write at a *)
(* path that is none, or over a photo.                                     *)
(***************************************************************************)

CopyInHand ==
  stage["pipeline"] = "copy" =>
    /\ Dated(hand)
    /\ Exists(Target(hand)) => ~lib[Target(hand)].whole

IInv == TypeOK /\ CopyInHand

\* Paths that have a file, or had one until a request deleted it.
Known == DOMAIN lib \cup deleted

LibOK(l) == DOMAIN l \subseteq Paths /\ l \in [DOMAIN l -> LibraryFile]

LEMMA NothingTyped == Nothing \in Capture /\ Nothing.id = 0
<1>1. (CHOOSE n \in Names : TRUE) \in Names
  BY CapturesAssumption
<1> QED
  BY <1>1 DEF Nothing, Capture

LEMMA TargetIs ==
  ASSUME NEW c \in Capture, Dated(c)
  PROVE  Target(c) \in Paths /\ Target(c)[1] \in Days
<1>1. c.name \in Names
  BY DEF Capture
<1>2. DayOf[c.name] \in Days
  BY <1>1, LibraryAssumption DEF Dated
<1> QED
  BY <1>1, <1>2 DEF Target, Paths

LEMMA IncomingIs ==
  ASSUME NEW s \in Sources
  PROVE  /\ Incoming(s) \in Paths
         /\ Incoming(s)[1] = "incoming"
         /\ Name[s] \in Names
BY LibraryAssumption DEF Incoming, Paths

LEMMA WithIs ==
  ASSUME LibOK(lib), NEW path \in Paths, NEW file \in LibraryFile
  PROVE  /\ LibOK(With(path, file))
         /\ DOMAIN With(path, file) = DOMAIN lib \cup {path}
         /\ With(path, file)[path] = file
         /\ \A q \in DOMAIN lib : q # path => With(path, file)[q] = lib[q]
BY DEF LibOK, With

LEMMA OriginalTyped ==
  ASSUME FilesOK, NEW c \in Capture, Readable(c)
  PROVE  Original(c) \in LibraryFile /\ Part(Original(c)) \in LibraryFile
<1>1. c.src \in Sources /\ c.src # NoSource
  <2>1. c.src \in Sources \cup {NoSource}
    BY DEF Capture
  <2>2. c.src # NoSource
    BY DEF Readable
  <2> QED
    BY <2>1, <2>2
<1>2. CASE c.src \in Phone
  <2>1. Incoming(c.src) \in DOMAIN lib
    BY <1>1, <1>2 DEF Readable, Exists
  <2>2. lib[Incoming(c.src)] \in LibraryFile
    BY <2>1 DEF FilesOK
  <2> QED
    BY <1>2, <2>2 DEF Original, Part, LibraryFile
<1>3. CASE c.src \notin Phone
  <2>1. version[c.src] \in Nat
    BY <1>1 DEF FilesOK
  <2> QED
    BY <1>1, <1>3, <2>1 DEF Original, Part, File, LibraryFile
<1> QED
  BY <1>2, <1>3

-----------------------------------------------------------------------------
\* What steps have in common.

LEMMA LoadedTyped ==
  ASSUME TableOK
  PROVE  Loaded \in SUBSET Capture /\ HaveRows(Loaded)
<1>1. /\ Len(rows) \in Nat /\ DOMAIN rows = 1 .. Len(rows)
      /\ \A i \in DOMAIN rows : rows[i] \in Capture /\ rows[i].id = i
  BY DEF TableOK
<1> QED
  BY <1>1 DEF Loaded, HaveRows

\* A step of t that leaves the table.
LEMMA GoTyped ==
  ASSUME TableOK, WritersOK, UNCHANGED table,
         NEW t \in Threads, NEW label \in Stages, NEW records \in SUBSET Capture,
         HaveRows(records), Goto(t, label, records)
  PROVE  /\ TableOK' /\ WritersOK' /\ Len(rows) <= Len(rows')
         /\ \A u \in Threads : stage'[u] = IF u = t THEN label ELSE stage[u]
<1>1. TableOK' /\ Len(rows) <= Len(rows')
  BY DEF TableOK, table
<1>2. \A u \in Threads : stage'[u] = IF u = t THEN label ELSE stage[u]
  BY DEF Goto, WritersOK
<1> QED
  BY <1>1, <1>2, GotoTyped

\* A call of upsert_captures.
LEMMA CallTyped ==
  ASSUME TableOK, WritersOK, UNCHANGED table,
         NEW t \in Threads, NEW records \in SUBSET Capture,
         HaveRows(records), Upsert(t, records)
  PROVE  /\ TableOK' /\ WritersOK' /\ Len(rows) <= Len(rows')
         /\ stage'[t] # "copy"
         /\ \A u \in Threads : u # t => stage'[u] = stage[u]
<1>1. PICK label \in {"idle", "lookup"} : Goto(t, label, records)
  BY DEF Upsert
<1>2. label \in Stages
  BY DEF Stages
<1>3. /\ TableOK' /\ WritersOK' /\ Len(rows) <= Len(rows')
      /\ \A u \in Threads : stage'[u] = IF u = t THEN label ELSE stage[u]
  BY <1>1, <1>2, GoTyped
<1> QED
  BY <1>3

LEMMA LocalTyped ==
  ASSUME TableOK, TableOK', Len(rows) <= Len(rows'), LocalOK,
         todo' \subseteq todo \cup Loaded,
         hand' \in {hand, Nothing} \cup todo,
         days' \subseteq Days,
         wish' \in (Paths \cup {NoPath}) \X BOOLEAN
  PROVE  LocalOK'
<1>1. Len(rows) \in Nat /\ Len(rows') \in Nat
  BY DEF TableOK
<1>2. Loaded \in SUBSET Capture /\ HaveRows(Loaded)
  BY LoadedTyped
<1>3. /\ todo \subseteq Capture /\ hand \in Capture /\ Nothing \in Capture
      /\ \A c \in todo \cup {hand} : c.id \in 0 .. Len(rows)
      /\ Nothing.id = 0
  BY NothingTyped DEF LocalOK, HaveRows
<1>4. todo' \subseteq Capture /\ hand' \in Capture
  BY <1>2, <1>3
<1>5. \A c \in todo' \cup {hand'} : c.id \in 0 .. Len(rows)
  BY <1>1, <1>2, <1>3 DEF HaveRows
<1>6. \A c \in todo' \cup {hand'} : c.id \in 0 .. Len(rows')
  BY <1>1, <1>5
<1> QED
  BY <1>4, <1>6 DEF LocalOK, HaveRows

LEMMA LocalKept ==
  ASSUME TableOK, TableOK', Len(rows) <= Len(rows'), LocalOK, UNCHANGED local
  PROVE  LocalOK'
<1>1. /\ todo' = todo /\ hand' = hand /\ days' \subseteq Days
      /\ wish' \in (Paths \cup {NoPath}) \X BOOLEAN
  BY DEF LocalOK, local
<1> QED
  BY <1>1, LocalTyped

LEMMA FilesKept ==
  ASSUME FilesOK, UNCHANGED files
  PROVE  FilesOK'
BY DEF FilesOK, files

LEMMA CopyKept ==
  ASSUME CopyInHand,
         stage'["pipeline"] = "copy" =>
           /\ stage["pipeline"] = "copy"
           /\ hand' = hand
           /\ Target(hand) \in DOMAIN lib' =>
                Exists(Target(hand)) /\ lib'[Target(hand)] = lib[Target(hand)]
  PROVE  CopyInHand'
BY DEF CopyInHand, Exists, Target, Dated

-----------------------------------------------------------------------------
\* The steps of the pipeline.

\* A step that only calls upsert_captures, or only goes on.
LEMMA OnlyCalls ==
  ASSUME IInv, UNCHANGED <<table, files, local>>,
         NEW t \in Threads, NEW records \in SUBSET Capture,
         HaveRows(records), Upsert(t, records)
  PROVE  IInv'
<1>1. TableOK /\ WritersOK /\ FilesOK /\ LocalOK /\ CopyInHand
  BY DEF IInv, TypeOK
<1>2. /\ TableOK' /\ WritersOK' /\ Len(rows) <= Len(rows')
      /\ stage'[t] # "copy"
      /\ \A u \in Threads : u # t => stage'[u] = stage[u]
  BY <1>1, CallTyped
<1>3. FilesOK' /\ LocalOK'
  BY <1>1, <1>2, FilesKept, LocalKept
<1>4. stage'["pipeline"] = "copy" => stage["pipeline"] = "copy"
  BY <1>2, LibraryAssumption
<1>5. hand' = hand /\ lib' = lib
  BY DEF local, files
<1>6. CopyInHand'
  BY <1>1, <1>4, <1>5, CopyKept DEF Exists
<1> QED
  BY <1>2, <1>3, <1>6 DEF IInv, TypeOK

LEMMA NewTyped ==
  ASSUME FilesOK, NEW s \in Sources, NEW i \in Nat
  PROVE  New(s, i) \in Capture /\ New(s, i).id = i
<1>1. Name[s] \in Names /\ version[s] \in Nat
  BY LibraryAssumption DEF FilesOK
<1> QED
  BY <1>1 DEF New, Capture

LEMMA SyncedTyped ==
  ASSUME TableOK, FilesOK, NEW s \in Sources, NEW i \in 0 .. Len(rows)
  PROVE  Synced(s, i) \in Capture /\ Synced(s, i).id \in 0 .. Len(rows)
<1>1. Len(rows) \in Nat /\ DOMAIN rows = 1 .. Len(rows)
      /\ \A j \in DOMAIN rows : rows[j] \in Capture /\ rows[j].id = j
  BY DEF TableOK
<1>2. i \in Nat /\ 0 \in 0 .. Len(rows)
  BY <1>1
<1>3. New(s, i) \in Capture /\ New(s, i).id = i
  BY <1>2, NewTyped
<1>4. CASE i = 0
  BY <1>2, <1>3, <1>4 DEF Synced
<1>5. CASE i # 0
  <2>1. i \in DOMAIN rows
    BY <1>1, <1>5
  <2>2. rows[i] \in Capture /\ rows[i].id = i
        /\ rows[i].dest \in Paths \cup {NoPath} /\ rows[i].zip \in Days \cup {NoDay}
    BY <1>1, <2>1 DEF Capture
  <2> DEFINE moved == WithDest(New(s, i), rows[i].dest)
  <2>3. moved \in Capture /\ moved.id = i
    BY <1>3, <2>2, WithDestIs
  <2>4. WithZip(moved, rows[i].zip) \in Capture /\ WithZip(moved, rows[i].zip).id = i
    BY <2>2, <2>3, WithZipIs
  <2>5. Synced(s, i) \in {rows[i], WithZip(moved, rows[i].zip), New(s, i)}
    BY <1>5 DEF Synced
  <2> HIDE DEF moved
  <2> QED
    BY <1>3, <2>2, <2>4, <2>5
<1> QED
  BY <1>4, <1>5

LEMMA SyncTyped ==
  ASSUME IInv, Sync
  PROVE  IInv'
<1>1. TableOK /\ FilesOK
  BY DEF IInv, TypeOK
<1>2. PICK found \in Listings :
        \E p \in Previous(found) : Upsert("pipeline", {Synced(s, p[s]) : s \in found})
  BY DEF Sync
<1>3. PICK p \in Previous(found) : Upsert("pipeline", {Synced(s, p[s]) : s \in found})
  BY <1>2
<1>4. \A s \in found : s \in Sources /\ p[s] \in 0 .. Len(rows)
  BY LibraryAssumption DEF Listings, Previous
<1>5. \A s \in found : Synced(s, p[s]) \in Capture /\ Synced(s, p[s]).id \in 0 .. Len(rows)
  BY <1>1, <1>4, SyncedTyped
<1>6. "pipeline" \in Threads /\ UNCHANGED <<table, files, local>>
  BY LibraryAssumption DEF Sync
<1> DEFINE records == {Synced(s, p[s]) : s \in found}
<1>7. records \in SUBSET Capture /\ HaveRows(records)
  BY <1>5 DEF HaveRows
<1> QED
  BY <1>3, <1>6, <1>7, OnlyCalls

LEMMA SyncUnreadTyped ==
  ASSUME IInv, SyncUnread
  PROVE  IInv'
<1>1. TableOK /\ FilesOK
  BY DEF IInv, TypeOK
<1>2. PICK found \in Listings : Upsert("pipeline", {New(s, 0) : s \in found})
  BY DEF SyncUnread
<1>3. \A s \in found : s \in Sources
  BY LibraryAssumption DEF Listings
<1>4. \A s \in found : New(s, 0) \in Capture /\ New(s, 0).id = 0
  BY <1>1, <1>3, NewTyped
<1>5. "pipeline" \in Threads /\ UNCHANGED <<table, files, local>>
  BY LibraryAssumption DEF SyncUnread
<1>6. Len(rows) \in Nat
  BY <1>1 DEF TableOK
<1> DEFINE records == {New(s, 0) : s \in found}
<1>7. records \in SUBSET Capture /\ HaveRows(records)
  BY <1>4, <1>6 DEF HaveRows
<1> QED
  BY <1>2, <1>5, <1>7, OnlyCalls

LEMMA ClassifyTyped ==
  ASSUME IInv, Classify
  PROVE  IInv'
<1>1. Loaded \in SUBSET Capture /\ HaveRows(Loaded)
  BY LoadedTyped DEF IInv, TypeOK
<1>2. "pipeline" \in Threads
  BY LibraryAssumption
<1> QED
  BY <1>1, <1>2, OnlyCalls DEF Classify

\* The end of organize and of compress writes the records they gathered.
LEMMA EndTyped ==
  ASSUME IInv, EndOrganize \/ EndCompress
  PROVE  IInv'
<1>1. "pipeline" \in Threads
  BY LibraryAssumption
<1>2. caps["pipeline"] \in SUBSET Capture /\ HaveRows(caps["pipeline"])
  BY <1>1 DEF IInv, TypeOK, WritersOK
<1> QED
  BY <1>1, <1>2, OnlyCalls DEF EndOrganize, EndCompress

\* A step of organize that goes on with the next capture, with d in the list.
LEMMA DealtTyped ==
  ASSUME TableOK, WritersOK, LocalOK, UNCHANGED <<table, days, wish>>,
         NEW c \in todo \cup {hand}, NEW d \in Capture, d.id = c.id, Dealt(c, d),
         hand' \in {hand, Nothing}
  PROVE  TableOK' /\ WritersOK' /\ LocalOK' /\ stage'["pipeline"] = "organize"
<1>1. "pipeline" \in Threads /\ "organize" \in Stages
  BY LibraryAssumption DEF Stages
<1>2. c.id \in 0 .. Len(rows)
  BY DEF LocalOK, HaveRows
<1> DEFINE records == caps["pipeline"] \cup {d}
<1>3. records \in SUBSET Capture /\ HaveRows(records)
  BY <1>1, <1>2 DEF WritersOK, HaveRows
<1>4. Goto("pipeline", "organize", records) /\ todo' \subseteq todo
  BY DEF Dealt
<1> HIDE DEF records
<1>5. /\ TableOK' /\ WritersOK' /\ Len(rows) <= Len(rows')
      /\ stage'["pipeline"] = "organize"
  BY <1>1, <1>3, <1>4, GoTyped
<1>6. days' \subseteq Days /\ wish' \in (Paths \cup {NoPath}) \X BOOLEAN
  BY DEF LocalOK
<1>7. LocalOK'
  BY <1>4, <1>5, <1>6, LocalTyped
<1> QED
  BY <1>5, <1>7

LEMMA PlacedIs ==
  ASSUME NEW c \in Capture, Dated(c)
  PROVE  Placed(c) \in Capture /\ Placed(c).id = c.id
         /\ Placed(c).dest = Target(c) /\ Placed(c).zip = c.zip
BY TargetIs, WithDestIs DEF Placed

LEMMA OrganizeTyped ==
  ASSUME IInv, Organize
  PROVE  IInv'
<1>1. TableOK /\ WritersOK /\ FilesOK /\ LocalOK /\ CopyInHand
  BY DEF IInv, TypeOK
<1>2. "pipeline" \in Threads /\ "organize" \in Stages /\ {} \in SUBSET Capture /\ HaveRows({})
  BY LibraryAssumption DEF Stages, HaveRows
<1>3. /\ TableOK' /\ WritersOK' /\ Len(rows) <= Len(rows')
      /\ stage'["pipeline"] = "organize"
  BY <1>1, <1>2, GoTyped DEF Organize
<1>4. /\ todo' \subseteq todo \cup Loaded /\ hand' = hand
      /\ days' \subseteq Days /\ wish' \in (Paths \cup {NoPath}) \X BOOLEAN
  BY <1>1 DEF Organize, LocalOK
<1>5. LocalOK'
  BY <1>1, <1>3, <1>4, LocalTyped
<1>6. FilesOK' /\ CopyInHand'
  BY <1>1, <1>3, FilesKept, CopyKept DEF Organize
<1> QED
  BY <1>3, <1>5, <1>6 DEF IInv, TypeOK

LEMMA DealtWithTyped ==
  ASSUME IInv, NEW c \in todo, Existed(c) \/ NotPlaceable(c)
  PROVE  IInv'
<1>1. TableOK /\ WritersOK /\ FilesOK /\ LocalOK /\ CopyInHand
  BY DEF IInv, TypeOK
<1>2. c \in Capture
  BY <1>1 DEF LocalOK
<1>3. UNCHANGED <<table, files, days, hand, wish>>
  BY DEF Existed, NotPlaceable
<1>4. PICK d \in Capture : d.id = c.id /\ Dealt(c, d)
  <2>1. CASE Existed(c)
    BY <1>2, <2>1, PlacedIs DEF Existed
  <2>2. CASE NotPlaceable(c)
    BY <1>2, <2>2 DEF NotPlaceable, NotPlaced
  <2> QED
    BY <2>1, <2>2
<1>5. TableOK' /\ WritersOK' /\ LocalOK' /\ stage'["pipeline"] = "organize"
  BY <1>1, <1>3, <1>4, DealtTyped
<1>6. FilesOK' /\ CopyInHand'
  BY <1>1, <1>3, <1>5, FilesKept, CopyKept
<1> QED
  BY <1>5, <1>6 DEF IInv, TypeOK

LEMMA BeginCopyTyped ==
  ASSUME IInv, NEW c \in todo, BeginCopy(c)
  PROVE  IInv'
<1>1. TableOK /\ WritersOK /\ FilesOK /\ LocalOK /\ LibOK(lib)
  BY DEF IInv, TypeOK, FilesOK, LibOK
<1>2. c \in Capture /\ Dated(c) /\ Readable(c)
  BY <1>1 DEF LocalOK, BeginCopy
<1>3. "pipeline" \in Threads /\ "copy" \in Stages
  BY LibraryAssumption DEF Stages
<1>4. caps["pipeline"] \in SUBSET Capture /\ HaveRows(caps["pipeline"])
  BY <1>1, <1>3 DEF WritersOK
<1>5. /\ TableOK' /\ WritersOK' /\ Len(rows) <= Len(rows')
  BY <1>1, <1>3, <1>4, GoTyped DEF BeginCopy
<1>6. hand' = c /\ todo' = todo /\ days' = days /\ wish' = wish
  BY DEF BeginCopy
<1>7. LocalOK'
  BY <1>1, <1>5, <1>6, LocalTyped DEF LocalOK
<1> DEFINE file == Part(Original(c))
<1>8. file \in LibraryFile /\ Target(c) \in Paths
  BY <1>1, <1>2, OriginalTyped, TargetIs
<1>9. ~file.whole
  BY DEF Part
<1>10. lib' = With(Target(c), file) /\ UNCHANGED <<version, zips, deleted>>
  BY DEF BeginCopy
<1> HIDE DEF file
<1>11. LibOK(lib') /\ Target(c) \in DOMAIN lib' /\ lib'[Target(c)] = file
  BY <1>1, <1>8, <1>10, WithIs
<1>12. FilesOK'
  BY <1>1, <1>10, <1>11 DEF FilesOK, LibOK
<1>13. CopyInHand'
  BY <1>2, <1>6, <1>9, <1>11 DEF CopyInHand, Dated, Target, Exists
<1> QED
  BY <1>5, <1>7, <1>12, <1>13 DEF IInv, TypeOK

\* The copy in hand is complete, where it was begun.
CopyFinished ==
  /\ Target(hand) \in DOMAIN lib
  /\ lib' = With(Target(hand), Whole(lib[Target(hand)]))

LEMMA WholeTyped ==
  ASSUME LibOK(lib), NEW path \in DOMAIN lib
  PROVE  Whole(lib[path]) \in LibraryFile
<1>1. lib[path] \in LibraryFile
  BY DEF LibOK
<1> QED
  BY <1>1 DEF Whole, LibraryFile

LEMMA EndCopyTyped ==
  ASSUME IInv, EndCopy \/ CopyFails
  PROVE  IInv'
<1>1. TableOK /\ WritersOK /\ FilesOK /\ LocalOK /\ LibOK(lib) /\ CopyInHand
  BY DEF IInv, TypeOK, FilesOK, LibOK
<1>2. /\ UNCHANGED <<table, version, zips, deleted, days, wish>> /\ stage["pipeline"] = "copy"
      /\ hand' = Nothing
  BY DEF EndCopy, CopyFails
<1>3. hand \in Capture /\ Dated(hand)
  BY <1>1, <1>2 DEF LocalOK, CopyInHand
<1>4. PICK d \in Capture : d.id = hand.id /\ Dealt(hand, d)
  <2>1. CASE EndCopy
    BY <1>3, <2>1, PlacedIs DEF EndCopy
  <2>2. CASE CopyFails
    BY <1>3, <2>2 DEF CopyFails, NotPlaced
  <2> QED
    BY <2>1, <2>2
<1>5. TableOK' /\ WritersOK' /\ LocalOK' /\ stage'["pipeline"] = "organize"
  BY <1>1, <1>2, <1>4, DealtTyped
<1>6. lib' = lib \/ CopyFinished
  BY DEF EndCopy, CopyFails, CopyFinished, Exists
<1>7. LibOK(lib')
  <2>1. CASE lib' = lib
    BY <1>1, <2>1 DEF LibOK
  <2>2. CASE CopyFinished
    <3> DEFINE file == Whole(lib[Target(hand)])
    <3>1. file \in LibraryFile /\ Target(hand) \in Paths
      BY <1>1, <1>3, <2>2, TargetIs, WholeTyped DEF CopyFinished
    <3>2. lib' = With(Target(hand), file)
      BY <2>2 DEF CopyFinished
    <3> HIDE DEF file
    <3> QED
      BY <1>1, <3>1, <3>2, WithIs
  <2> QED
    BY <1>6, <2>1, <2>2
<1>8. FilesOK'
  BY <1>1, <1>2, <1>7 DEF FilesOK, LibOK
<1>9. CopyInHand'
  BY <1>5 DEF CopyInHand
<1> QED
  BY <1>5, <1>8, <1>9 DEF IInv, TypeOK

LEMMA CopyRaisesTyped ==
  ASSUME IInv, CopyRaises
  PROVE  IInv'
<1>1. TableOK /\ WritersOK /\ FilesOK /\ LocalOK /\ CopyInHand
  BY DEF IInv, TypeOK
<1>2. "pipeline" \in Threads /\ "idle" \in Stages /\ {} \in SUBSET Capture /\ HaveRows({})
  BY LibraryAssumption DEF Stages, HaveRows
<1>3. /\ TableOK' /\ WritersOK' /\ Len(rows) <= Len(rows')
      /\ stage'["pipeline"] = "idle"
  BY <1>1, <1>2, GoTyped DEF CopyRaises
<1>4. /\ todo' = {} /\ hand' = Nothing
      /\ days' \subseteq Days /\ wish' \in (Paths \cup {NoPath}) \X BOOLEAN
  BY <1>1 DEF CopyRaises, LocalOK
<1>5. LocalOK'
  BY <1>1, <1>3, <1>4, LocalTyped
<1>6. FilesOK' /\ CopyInHand'
  BY <1>1, <1>3, FilesKept, CopyKept DEF CopyRaises
<1> QED
  BY <1>3, <1>5, <1>6 DEF IInv, TypeOK

LEMMA MarkedTyped ==
  ASSUME TableOK, WritersOK, NEW d \in Days
  PROVE  Marked(d) \in SUBSET Capture /\ HaveRows(Marked(d))
<1>1. "pipeline" \in Threads
  BY LibraryAssumption
<1>2. \A c \in caps["pipeline"] :
        /\ c \in Capture /\ c.id \in 0 .. Len(rows)
        /\ WithZip(c, d) \in Capture /\ WithZip(c, d).id = c.id
  BY <1>1, WithZipIs DEF WritersOK, HaveRows
<1> QED
  BY <1>2 DEF Marked, HaveRows

\* The steps of compress_folders_by_day up to its upsert.
Compresses(d) ==
  Zipped(d) \/ BeginZip(d) \/ NothingToZip(d) \/ EndZip(d) \/ ZipFails(d)

LEMMA CompressTyped ==
  ASSUME IInv, Compress \/ \E d \in days : Compresses(d)
  PROVE  IInv'
<1>1. TableOK /\ WritersOK /\ FilesOK /\ LocalOK /\ CopyInHand
  BY DEF IInv, TypeOK
<1>2. "pipeline" \in Threads /\ {"compress", "zip"} \subseteq Stages
  BY LibraryAssumption DEF Stages
<1>3. /\ caps["pipeline"] \in SUBSET Capture /\ HaveRows(caps["pipeline"])
      /\ Loaded \in SUBSET Capture /\ HaveRows(Loaded)
      /\ \A d \in days : Marked(d) \in SUBSET Capture /\ HaveRows(Marked(d))
  BY <1>1, <1>2, LoadedTyped, MarkedTyped DEF WritersOK, LocalOK
<1>4. UNCHANGED <<table, deleted>>
  BY DEF files, Compress, Compresses, Zipped, BeginZip, NothingToZip, EndZip, ZipFails
<1>5. \/ UNCHANGED writers /\ stage["pipeline"] # "copy"
      \/ \E label \in {"compress", "zip"},
            records \in {caps["pipeline"], Loaded} \cup {Marked(d) : d \in days} :
           Goto("pipeline", label, records)
  BY DEF Compress, Compresses, Zipped, BeginZip, NothingToZip, EndZip, ZipFails
<1>6. /\ TableOK' /\ WritersOK' /\ Len(rows) <= Len(rows')
      /\ stage'["pipeline"] # "copy"
  <2>1. CASE UNCHANGED writers /\ stage["pipeline"] # "copy"
    BY <1>1, <1>4, <2>1 DEF table, writers, TableOK, WritersOK, HaveRows
  <2>2. CASE \E label \in {"compress", "zip"},
                records \in {caps["pipeline"], Loaded} \cup {Marked(d) : d \in days} :
               Goto("pipeline", label, records)
    <3>1. PICK label \in {"compress", "zip"},
               records \in {caps["pipeline"], Loaded} \cup {Marked(d) : d \in days} :
            Goto("pipeline", label, records)
      BY <2>2
    <3> QED
      BY <1>1, <1>2, <1>3, <1>4, <3>1, GoTyped
  <2> QED
    BY <1>5, <2>1, <2>2
<1>7. days' \subseteq Days
  BY <1>1 DEF Compress, Compresses, Zipped, BeginZip, NothingToZip, EndZip, ZipFails, DayFolders,
    LocalOK, local
<1>8. todo' = todo /\ hand' = hand /\ wish' = wish /\ version' = version /\ lib' = lib
  BY DEF Compress, Compresses, Zipped, BeginZip, NothingToZip, EndZip, ZipFails, local, files
<1>9. LocalOK'
  BY <1>1, <1>6, <1>7, <1>8, LocalTyped DEF LocalOK
<1>10. zips' \in [Days -> {"absent", "open", "broken", "valid"}]
  BY <1>1 DEF Compress, Compresses, Zipped, BeginZip, NothingToZip, EndZip, ZipFails, FilesOK, files
<1>11. FilesOK'
  BY <1>1, <1>4, <1>8, <1>10 DEF FilesOK
<1>12. CopyInHand'
  BY <1>6 DEF CopyInHand
<1> QED
  BY <1>6, <1>9, <1>11, <1>12 DEF IInv, TypeOK

-----------------------------------------------------------------------------
\* The other writers.

LEMMA RecordTyped ==
  ASSUME NEW s \in Sources, NEW v \in Nat
  PROVE  Record(s, v) \in Capture /\ Record(s, v).id = 0 /\ Record(s, v).dest = Incoming(s)
         /\ Record(s, v).zip = NoDay
BY IncomingIs DEF Record, Capture

LEMMA MinimalTyped ==
  ASSUME NEW path \in Paths
  PROVE  Minimal(path) \in Capture /\ Minimal(path).id = 0 /\ Minimal(path).dest = path
         /\ Minimal(path).zip = NoDay
BY DEF Minimal, Capture, Paths

\* A call of "webdav" or "page".
LEMMA RegisterTyped ==
  ASSUME TableOK, WritersOK, UNCHANGED table,
         NEW t \in Threads, t # "pipeline",
         NEW c \in Capture, c.id = 0, Upsert(t, {c}) \/ UNCHANGED writers
  PROVE  /\ TableOK' /\ WritersOK' /\ Len(rows) <= Len(rows')
         /\ stage'["pipeline"] = stage["pipeline"]
<1>1. Len(rows) \in Nat /\ "pipeline" \in Threads
  BY LibraryAssumption DEF TableOK
<1>2. {c} \in SUBSET Capture /\ HaveRows({c})
  BY <1>1 DEF HaveRows
<1>3. CASE Upsert(t, {c})
  BY <1>1, <1>2, <1>3, CallTyped
<1>4. CASE UNCHANGED writers
  <2>1. rows' = rows /\ favs' = favs /\ stage' = stage /\ caps' = caps /\ known' = known
    BY <1>4 DEF table, writers
  <2> QED
    BY <1>1, <2>1 DEF TableOK, WritersOK, HaveRows
<1> QED
  BY <1>3, <1>4

LEMMA DownloadTyped ==
  ASSUME IInv, NEW s \in Phone, Download(s)
  PROVE  IInv'
<1>1. TableOK /\ WritersOK /\ FilesOK /\ LocalOK /\ LibOK(lib) /\ CopyInHand
  BY DEF IInv, TypeOK, FilesOK, LibOK
<1>2. s \in Sources /\ "webdav" \in Threads
  BY LibraryAssumption
<1>3. PICK v \in {version[s], version[s] + 1} :
        /\ version' = [version EXCEPT ![s] = v]
        /\ lib' = With(Incoming(s), File(s, v))
        /\ Upsert("webdav", {Record(s, v)}) \/ UNCHANGED writers
  BY DEF Download, RegisterNew
<1>4. v \in Nat
  BY <1>1, <1>2 DEF FilesOK
<1>5. /\ TableOK' /\ WritersOK' /\ Len(rows) <= Len(rows')
      /\ stage'["pipeline"] = stage["pipeline"]
  BY <1>1, <1>2, <1>3, <1>4, RecordTyped, RegisterTyped DEF Download
<1>6. LocalOK'
  BY <1>1, <1>5, LocalKept DEF Download
<1> DEFINE file == File(s, v)
<1>7. file \in LibraryFile
  BY <1>2, <1>4 DEF File, LibraryFile
<1>8. lib' = With(Incoming(s), file)
  BY <1>3
<1> HIDE DEF file
<1>9. /\ LibOK(lib') /\ DOMAIN lib' = DOMAIN lib \cup {Incoming(s)}
      /\ \A q \in DOMAIN lib : q # Incoming(s) => lib'[q] = lib[q]
  <2>1. LibOK(lib) /\ Incoming(s) \in Paths
    BY <1>1, <1>2, IncomingIs
  <2>2. /\ LibOK(With(Incoming(s), file))
        /\ DOMAIN With(Incoming(s), file) = DOMAIN lib \cup {Incoming(s)}
        /\ \A q \in DOMAIN lib : q # Incoming(s) => With(Incoming(s), file)[q] = lib[q]
    BY <1>7, <2>1, WithIs
  <2> QED BY <1>8, <2>2
<1>10. version' \in [Sources -> Nat] /\ zips' = zips /\ deleted' = deleted
  BY <1>1, <1>2, <1>3, <1>4 DEF FilesOK, Download
<1>11. FilesOK'
  BY <1>1, <1>9, <1>10 DEF FilesOK, LibOK
<1>12. hand' = hand
  BY DEF Download, local
<1>13. ASSUME stage["pipeline"] = "copy" PROVE Target(hand) # Incoming(s)
  <2>1. Target(hand)[1] \in Days
    BY <1>1, <1>13, TargetIs DEF CopyInHand, LocalOK
  <2> QED
    BY <1>2, <2>1, IncomingIs, CapturesAssumption
<1>14. CopyInHand'
  BY <1>1, <1>5, <1>9, <1>12, <1>13, CopyKept DEF Exists
<1> QED
  BY <1>5, <1>6, <1>11, <1>14 DEF IInv, TypeOK

LEMMA SkipTyped ==
  ASSUME IInv, NEW s \in Phone, Skip(s)
  PROVE  IInv'
<1>1. TableOK /\ WritersOK /\ FilesOK /\ LocalOK /\ CopyInHand
  BY DEF IInv, TypeOK
<1>2. s \in Sources /\ "webdav" \in Threads
  BY LibraryAssumption
<1>3. version[s] \in Nat
  BY <1>1, <1>2 DEF FilesOK
<1>4. Upsert("webdav", {Record(s, version[s])}) \/ UNCHANGED writers
  BY DEF Skip, RegisterNew
<1>5. /\ TableOK' /\ WritersOK' /\ Len(rows) <= Len(rows')
      /\ stage'["pipeline"] = stage["pipeline"]
  BY <1>1, <1>2, <1>3, <1>4, RecordTyped, RegisterTyped DEF Skip
<1>6. hand' = hand /\ lib' = lib
  BY DEF Skip, local, files
<1>7. LocalOK' /\ FilesOK' /\ CopyInHand'
  BY <1>1, <1>5, <1>6, LocalKept, FilesKept, CopyKept DEF Skip, Exists
<1> QED
  BY <1>5, <1>7 DEF IInv, TypeOK

LEMMA ToggleFavouriteTyped ==
  ASSUME IInv, NEW path \in Known, NEW flag \in BOOLEAN, ToggleFavourite(path, flag)
  PROVE  IInv'
<1>1. TableOK /\ WritersOK /\ FilesOK /\ LocalOK /\ CopyInHand
  BY DEF IInv, TypeOK
<1>2. path \in Paths /\ "page" \in Threads /\ "pipeline" \in Threads
  BY <1>1, LibraryAssumption DEF FilesOK, Known
<1>3. UNCHANGED <<table, files, todo, days, hand>> /\ wish' = <<path, flag>>
  BY DEF ToggleFavourite
<1>4. /\ TableOK' /\ WritersOK' /\ Len(rows) <= Len(rows')
      /\ stage'["pipeline"] = stage["pipeline"]
  <2>1. CASE Upsert("page", {Minimal(path)})
    BY <1>1, <1>2, <1>3, <2>1, MinimalTyped, RegisterTyped
  <2>2. CASE Goto("page", "favourite", {})
    <3>1. "favourite" \in Stages /\ {} \in SUBSET Capture /\ HaveRows({})
      BY DEF Stages, HaveRows
    <3> QED
      BY <1>1, <1>2, <1>3, <2>2, <3>1, GoTyped
  <2> QED
    BY <2>1, <2>2 DEF ToggleFavourite
<1>5. wish' \in (Paths \cup {NoPath}) \X BOOLEAN /\ days' \subseteq Days
  BY <1>1, <1>2, <1>3 DEF LocalOK
<1>6. LocalOK'
  BY <1>1, <1>3, <1>4, <1>5, LocalTyped
<1>7. hand' = hand /\ lib' = lib
  BY <1>3 DEF files
<1>8. FilesOK' /\ CopyInHand'
  BY <1>1, <1>3, <1>4, <1>7, FilesKept, CopyKept DEF Exists
<1> QED
  BY <1>4, <1>6, <1>8 DEF IInv, TypeOK

LEMMA SetFavouriteTyped ==
  ASSUME IInv, SetFavourite
  PROVE  IInv'
<1>1. TableOK /\ WritersOK /\ FilesOK /\ LocalOK /\ CopyInHand
  BY DEF IInv, TypeOK
<1>2. "page" \in Threads /\ "pipeline" \in Threads /\ "idle" \in Stages
      /\ {} \in SUBSET Capture /\ HaveRows({})
  BY LibraryAssumption DEF Stages, HaveRows
<1>3. favs' \subseteq DOMAIN rows
  BY <1>1 DEF SetFavourite, TableOK, RowsAt
<1>4. rows' = rows
  BY DEF SetFavourite
<1>5. TableOK' /\ Len(rows) <= Len(rows')
  BY <1>1, <1>3, <1>4 DEF TableOK
<1>6. Goto("page", "idle", {})
  BY DEF SetFavourite
<1>7. WritersOK'
  BY <1>1, <1>2, <1>5, <1>6, GotoTyped
<1>8. stage'["pipeline"] = stage["pipeline"]
  BY <1>1, <1>2, <1>6 DEF Goto, WritersOK
<1>9. hand' = hand /\ lib' = lib /\ todo' = todo /\ days' = days /\ wish' = NoWish
      /\ UNCHANGED files
  BY DEF SetFavourite, files
<1>10. wish' \in (Paths \cup {NoPath}) \X BOOLEAN /\ days' \subseteq Days
  BY <1>1, <1>9 DEF LocalOK, NoWish
<1>11. LocalOK' /\ FilesOK' /\ CopyInHand'
  BY <1>1, <1>5, <1>8, <1>9, <1>10, LocalTyped, FilesKept, CopyKept DEF Exists
<1> QED
  BY <1>5, <1>7, <1>11 DEF IInv, TypeOK

LEMMA DeleteTyped ==
  ASSUME IInv, NEW path \in DOMAIN lib, Delete(path)
  PROVE  IInv'
<1>1. TableOK /\ WritersOK /\ FilesOK /\ LocalOK /\ LibOK(lib) /\ CopyInHand
  BY DEF IInv, TypeOK, FilesOK, LibOK
<1>2. /\ rows' = rows /\ favs' = favs /\ stage' = stage /\ caps' = caps /\ known' = known
      /\ version' = version /\ zips' = zips /\ hand' = hand /\ UNCHANGED local
      /\ lib' = [q \in DOMAIN lib \ {path} |-> lib[q]]
      /\ deleted' = deleted \cup {path}
  BY DEF Delete, table, writers, local
<1>3. TableOK' /\ Len(rows) <= Len(rows')
  BY <1>1, <1>2 DEF TableOK
<1>4. WritersOK'
  BY <1>1, <1>2 DEF WritersOK, HaveRows
<1>5. LibOK(lib') /\ deleted' \subseteq Paths
  BY <1>1, <1>2 DEF LibOK, FilesOK
<1>6. FilesOK'
  BY <1>1, <1>2, <1>5 DEF FilesOK, LibOK
<1>7. \A q \in DOMAIN lib' : q \in DOMAIN lib /\ lib'[q] = lib[q]
  BY <1>2
<1>8. CopyInHand'
  BY <1>1, <1>2, <1>7, CopyKept DEF Exists
<1>9. LocalOK'
  BY <1>1, <1>2, <1>3, LocalKept
<1> QED
  BY <1>3, <1>4, <1>6, <1>8, <1>9 DEF IInv, TypeOK

LEMMA FixDateTyped ==
  ASSUME IInv, NEW c \in Loaded, FixDate(c)
  PROVE  IInv'
<1>1. Loaded \in SUBSET Capture /\ HaveRows(Loaded)
  BY LoadedTyped DEF IInv, TypeOK
<1>2. {c} \in SUBSET Capture /\ HaveRows({c})
  BY <1>1 DEF HaveRows
<1>3. "page" \in Threads
  BY LibraryAssumption
<1> QED
  BY <1>2, <1>3, OnlyCalls DEF FixDate

-----------------------------------------------------------------------------
\* Lookups, writes, errors, edits and crashes.

LEMMA LookupByTyped ==
  ASSUME IInv, NEW t \in Threads, LookupBy(t)
  PROVE  IInv'
<1>1. TableOK /\ WritersOK /\ FilesOK /\ LocalOK /\ CopyInHand
  BY DEF IInv, TypeOK
<1>2. Lookup(t) /\ UNCHANGED <<files, local>>
  BY DEF LookupBy
<1>3. TableOK' /\ WritersOK'
  BY <1>1, <1>2, LookupTyped
<1>4. Len(rows) <= Len(rows')
  BY <1>1, <1>2 DEF Lookup, table, TableOK
<1>5. stage'["pipeline"] = "copy" => stage["pipeline"] = "copy"
  BY <1>1, <1>2, LibraryAssumption DEF Lookup, WritersOK
<1>6. hand' = hand /\ lib' = lib
  BY <1>2 DEF files, local
<1>7. LocalOK' /\ FilesOK' /\ CopyInHand'
  BY <1>1, <1>2, <1>3, <1>4, <1>5, <1>6, LocalKept, FilesKept, CopyKept DEF Exists
<1> QED
  BY <1>3, <1>7 DEF IInv, TypeOK

LEMMA WriteByTyped ==
  ASSUME IInv, NEW t \in Threads, WriteBy(t)
  PROVE  IInv'
<1>1. TableOK /\ WritersOK /\ FilesOK /\ LocalOK /\ CopyInHand
  BY DEF IInv, TypeOK
<1>2. Write(t, After(t)) /\ UNCHANGED <<files, local>>
  BY DEF WriteBy
<1>3. After(t) \in Stages /\ After(t) # "copy" /\ MaxRows \in Nat
  BY CapturesAssumption DEF After, Stages
<1>4. PICK W, n, new : Written(t, W, n, new)
  BY <1>1, <1>2, <1>3, WriteIs
<1>5. Len(rows) <= Len(rows')
  BY <1>1, <1>4, StoredTyped
<1>6. TableOK' /\ WritersOK'
  BY <1>1, <1>2, <1>3, WriteTyped
<1>7. stage'["pipeline"] = "copy" => stage["pipeline"] = "copy"
  BY <1>1, <1>2, <1>3, LibraryAssumption DEF Write, Goto, WritersOK
<1>8. hand' = hand /\ lib' = lib
  BY <1>2 DEF files, local
<1>9. LocalOK' /\ FilesOK' /\ CopyInHand'
  BY <1>1, <1>2, <1>5, <1>6, <1>7, <1>8, LocalKept, FilesKept, CopyKept DEF Exists
<1> QED
  BY <1>6, <1>9 DEF IInv, TypeOK

LEMMA WriteFailsTyped ==
  ASSUME IInv, NEW t \in Threads, WriteFails(t)
  PROVE  IInv'
<1>1. TableOK /\ WritersOK /\ FilesOK /\ LocalOK /\ CopyInHand
  BY DEF IInv, TypeOK
<1>2. "pipeline" \in Threads /\ "idle" \in Stages /\ {} \in SUBSET Capture /\ HaveRows({})
  BY LibraryAssumption DEF Stages, HaveRows
<1>3. /\ TableOK' /\ WritersOK' /\ Len(rows) <= Len(rows')
      /\ stage'["pipeline"] = "copy" => stage["pipeline"] = "copy"
  BY <1>1, <1>2, GoTyped DEF WriteFails, UpsertFails
<1>4. hand' = hand /\ lib' = lib /\ todo' = todo /\ days' = days /\ UNCHANGED files
      /\ (wish' = wish \/ wish' = NoWish)
  BY DEF WriteFails, files
<1>5. NoWish \in (Paths \cup {NoPath}) \X BOOLEAN
  BY DEF NoWish
<1>6. wish \in (Paths \cup {NoPath}) \X BOOLEAN /\ days \subseteq Days
  BY <1>1 DEF LocalOK
<1>7. wish' \in (Paths \cup {NoPath}) \X BOOLEAN /\ days' \subseteq Days
  BY <1>4, <1>5, <1>6
<1>8. LocalOK' /\ FilesOK' /\ CopyInHand'
  BY <1>1, <1>3, <1>4, <1>7, LocalTyped, FilesKept, CopyKept DEF Exists
<1> QED
  BY <1>3, <1>8 DEF IInv, TypeOK

LEMMA SourceChangesTyped ==
  ASSUME IInv, NEW s \in Sources, SourceChanges(s)
  PROVE  IInv'
<1>1. TableOK /\ WritersOK /\ FilesOK /\ LocalOK /\ CopyInHand
  BY DEF IInv, TypeOK
<1>2. /\ rows' = rows /\ favs' = favs /\ stage' = stage /\ caps' = caps /\ known' = known
      /\ UNCHANGED <<lib, zips, deleted, hand, local>>
  BY DEF SourceChanges, table, writers, local
<1>3. TableOK' /\ Len(rows) <= Len(rows')
  BY <1>1, <1>2 DEF TableOK
<1>4. WritersOK'
  BY <1>1, <1>2 DEF WritersOK, HaveRows
<1>5. version' \in [Sources -> Nat]
  BY <1>1 DEF SourceChanges, FilesOK
<1>6. LocalOK' /\ FilesOK' /\ CopyInHand'
  BY <1>1, <1>2, <1>3, <1>5, LocalKept, CopyKept DEF Exists, FilesOK
<1> QED
  BY <1>3, <1>4, <1>6 DEF IInv, TypeOK

\* No thread is anywhere, and no thread has a record.
LEMMA IdleTyped ==
  ASSUME TableOK', stage' = [t \in Threads |-> "idle"],
         caps' = [t \in Threads |-> {}], known' = [t \in Threads |-> <<>>]
  PROVE  WritersOK'
<1>1. /\ stage' \in [Threads -> Stages]
      /\ caps' \in [Threads -> SUBSET Capture]
      /\ \A t \in Threads : caps'[t] = {}
  BY DEF Stages
<1>2. /\ known' = [t \in Threads |-> known'[t]]
      /\ \A t \in Threads : known'[t] = <<>>
  OBVIOUS
<1>3. << >> = [d \in {} |-> 0]
  OBVIOUS
<1>4. DOMAIN << >> = {} /\ << >> \in [{} -> DOMAIN rows']
  BY <1>3
<1>5. \A t \in Threads : /\ DOMAIN known'[t] \subseteq Paths
                         /\ known'[t] \in [DOMAIN known'[t] -> DOMAIN rows']
  BY <1>2, <1>4
<1> QED
  BY <1>1, <1>2, <1>5 DEF WritersOK, HaveRows

LEMMA CrashTyped ==
  ASSUME IInv, Crash
  PROVE  IInv'
<1>1. TableOK /\ WritersOK /\ FilesOK /\ LocalOK /\ CopyInHand
  BY DEF IInv, TypeOK
<1>2. TableOK' /\ Len(rows) <= Len(rows')
  BY <1>1 DEF Crash, table, TableOK
<1>3. WritersOK'
  BY <1>2, IdleTyped DEF Crash
<1>4. /\ todo' = {} /\ days' = {} /\ hand' = Nothing /\ wish' = NoWish
  BY DEF Crash
<1>5. wish' \in (Paths \cup {NoPath}) \X BOOLEAN
  BY <1>4 DEF NoWish
<1>6. LocalOK'
  BY <1>1, <1>2, <1>4, <1>5, LocalTyped
<1>7. zips' \in [Days -> {"absent", "open", "broken", "valid"}]
      /\ version' = version /\ lib' = lib /\ deleted' = deleted
  BY <1>1 DEF Crash, FilesOK
<1>8. FilesOK'
  BY <1>1, <1>7 DEF FilesOK
<1>9. CopyInHand'
  BY LibraryAssumption DEF CopyInHand, Crash
<1> QED
  BY <1>2, <1>3, <1>6, <1>8, <1>9 DEF IInv, TypeOK

-----------------------------------------------------------------------------
LEMMA InitTyped == Init => IInv
<1> SUFFICES ASSUME Init PROVE IInv
  OBVIOUS
<1>1. rows = <<>> /\ favs = {} /\ Len(rows) = 0 /\ DOMAIN rows = {}
  BY DEF Init, CapturesInit
<1>2. TableOK
  BY <1>1 DEF TableOK
<1>3. << >> = [d \in {} |-> 0] /\ DOMAIN << >> = {}
  OBVIOUS
<1>4. /\ stage \in [Threads -> Stages]
      /\ caps \in [Threads -> SUBSET Capture]
      /\ \A t \in Threads : caps[t] = {}
  BY DEF Init, CapturesInit, Stages
<1>5. /\ known = [t \in Threads |-> known[t]]
      /\ \A t \in Threads : known[t] = <<>>
  BY DEF Init, CapturesInit
<1>6. \A t \in Threads : /\ DOMAIN known[t] \subseteq Paths
                         /\ known[t] \in [DOMAIN known[t] -> DOMAIN rows]
  BY <1>3, <1>5
<1>7. WritersOK
  BY <1>4, <1>5, <1>6 DEF WritersOK, HaveRows
<1>8. lib = [d \in {} |-> 0] /\ DOMAIN lib = {}
  BY <1>3 DEF Init
<1>9. version \in [Sources -> Nat] /\ deleted = {}
      /\ zips \in [Days -> {"absent", "open", "broken", "valid"}]
  BY DEF Init
<1>10. FilesOK
  BY <1>8, <1>9 DEF FilesOK
<1>11. todo = {} /\ days = {} /\ hand = Nothing /\ wish \in (Paths \cup {NoPath}) \X BOOLEAN
  BY DEF Init, NoWish
<1>12. LocalOK
  BY <1>1, <1>11, NothingTyped DEF LocalOK, HaveRows
<1>13. CopyInHand
  BY LibraryAssumption DEF CopyInHand, Init, CapturesInit
<1> QED
  BY <1>2, <1>7, <1>10, <1>12, <1>13 DEF IInv, TypeOK

LEMMA NextTyped == IInv /\ [Next]_vars => IInv'
<1> SUFFICES ASSUME IInv, [Next]_vars PROVE IInv'
  OBVIOUS
<1>1. CASE Sync \/ SyncUnread \/ Classify
  BY <1>1, SyncTyped, SyncUnreadTyped, ClassifyTyped
<1>2. CASE Organize \/ \E c \in todo : Existed(c) \/ NotPlaceable(c)
  BY <1>2, OrganizeTyped, DealtWithTyped
<1>3. CASE \E c \in todo : BeginCopy(c)
  BY <1>3, BeginCopyTyped
<1>4. CASE EndCopy \/ CopyFails \/ CopyRaises
  BY <1>4, EndCopyTyped, CopyRaisesTyped
<1>5. CASE EndOrganize \/ EndCompress
  BY <1>5, EndTyped
<1>6. CASE Compress \/ \E d \in days : Compresses(d)
  BY <1>6, CompressTyped
<1>7. CASE WebDAV
  BY <1>7, DownloadTyped, SkipTyped DEF WebDAV
<1>8. CASE Page
  BY <1>8, ToggleFavouriteTyped, SetFavouriteTyped, DeleteTyped, FixDateTyped
  DEF Page, Known
<1>9. CASE \E t \in Threads : LookupBy(t) \/ WriteBy(t) \/ WriteFails(t)
  BY <1>9, LookupByTyped, WriteByTyped, WriteFailsTyped
<1>10. CASE \E s \in Sources : SourceChanges(s)
  BY <1>10, SourceChangesTyped
<1>11. CASE Crash
  BY <1>11, CrashTyped
<1>12. CASE UNCHANGED vars
  BY <1>12 DEF vars, table, writers, files, local, IInv, TypeOK, CopyInHand, TableOK,
    WritersOK, HaveRows, FilesOK, LocalOK, Dated, Exists, Target
<1> QED
  BY <1>1, <1>2, <1>3, <1>4, <1>5, <1>6, <1>7, <1>8, <1>9, <1>10, <1>11, <1>12
  DEF Next, Pipeline, Compresses

\* Rows, records, files and locals keep to their types, and every record that has
\* an id leads to a row, however long ago it was loaded (repository.py 691-800).
THEOREM LibraryTypeCorrect == Spec => []TypeOK
<1>1. IInv => TypeOK
  BY DEF IInv
<1> QED
  BY <1>1, InitTyped, NextTyped, PTL DEF Spec

-----------------------------------------------------------------------------
(***************************************************************************)
(* The table. Rows change by a write alone, and what a write leaves was    *)
(* shown above.                                                            *)
(***************************************************************************)

LEMMA TableChanges ==
  ASSUME [Next]_vars, TypeOK
  PROVE  rows' = rows \/ \E t \in Threads : WriteBy(t)
<1>1. CASE Sync \/ SyncUnread \/ Organize \/ EndCopy \/ CopyFails \/ CopyRaises \/ EndOrganize
  BY <1>1 DEF Sync, SyncUnread, Organize, EndCopy, CopyFails, CopyRaises, EndOrganize, table
<1>2. CASE \E c \in todo : Existed(c) \/ NotPlaceable(c) \/ BeginCopy(c)
  BY <1>2 DEF Existed, NotPlaceable, BeginCopy, table
<1>3. CASE Classify \/ Compress \/ EndCompress
  BY <1>3 DEF Classify, Compress, EndCompress, table
<1>4. CASE \E d \in days : Compresses(d)
  BY <1>4 DEF Compresses, Zipped, BeginZip, NothingToZip, EndZip, ZipFails, table
<1>5. CASE WebDAV
  BY <1>5 DEF WebDAV, Download, Skip, table
<1>6. CASE \/ \E path \in DOMAIN lib \cup deleted, flag \in BOOLEAN :
                 ToggleFavourite(path, flag)
           \/ \E path \in DOMAIN lib : Delete(path)
  BY <1>6 DEF ToggleFavourite, Delete, table
<1>7. CASE \E c \in Loaded : FixDate(c)
  BY <1>7 DEF FixDate, table
<1>8. CASE SetFavourite
  BY <1>8 DEF SetFavourite
<1>9. CASE \E t \in Threads : LookupBy(t) \/ WriteFails(t)
  BY <1>9 DEF LookupBy, Lookup, WriteFails, UpsertFails, table
<1>10. CASE \E t \in Threads : WriteBy(t)
  BY <1>10
<1>11. CASE (\E s \in Sources : SourceChanges(s)) \/ Crash \/ UNCHANGED vars
  BY <1>11 DEF SourceChanges, Crash, vars, table
<1> QED
  BY <1>1, <1>2, <1>3, <1>4, <1>5, <1>6, <1>7, <1>8, <1>9, <1>10, <1>11
  DEF Next, Pipeline, Page, Compresses

\* A thread that leaves its write with a changed table has done that write itself.
LEMMA WritesIs ==
  ASSUME [Next]_vars, TypeOK, NEW t \in Threads, Writes(t), stage'[t] # "write"
  PROVE  \E W, n, new : Written(t, W, n, new)
<1>1. PICK u \in Threads : WriteBy(u)
  BY TableChanges DEF Writes
<1>2. Write(u, After(u)) /\ MaxRows \in Nat /\ TableOK
  BY <1>1, CapturesAssumption DEF WriteBy, TypeOK
<1>3. Goto(u, After(u), {}) /\ \E W, n, new : Written(u, W, n, new)
  BY <1>2, WriteIs
<1>4. u # t => stage'[t] = stage[t]
  BY <1>3 DEF Goto, TypeOK, WritersOK
<1>5. u = t
  BY <1>4 DEF Writes
<1> QED
  BY <1>3, <1>5

\* A write whose lookup is still right leaves one row for each destination, for any
\* records it is given and any number of them (repository.py 720-775).
THEOREM WriteKeepsOneRow == Spec => UpsertKeepsOneRow
<1>1. ASSUME [Next]_vars, TypeOK
      PROVE  \A t \in Threads :
               Writes(t) /\ stage'[t] # "write" /\ UpToDate(t) /\ OneRowPerDest
                 => OneRowPerDest'
  <2> SUFFICES ASSUME NEW t \in Threads, Writes(t), stage'[t] # "write",
                      UpToDate(t), OneRowPerDest
               PROVE  OneRowPerDest'
    OBVIOUS
  <2>1. PICK W, n, new : Written(t, W, n, new)
    BY <1>1, WritesIs
  <2> QED
    BY <1>1, <2>1, StoredOneRow DEF TypeOK
<1> QED
  BY <1>1, LibraryTypeCorrect, PTL DEF Spec, UpsertKeepsOneRow

\* A write of records that the table holds already changes nothing.
THEOREM WriteIsIdempotent == Spec => UpsertIsIdempotent
<1>1. ASSUME [Next]_vars, TypeOK
      PROVE  \A t \in Threads :
               UpToDate(t) /\ OneRowPerDest /\ caps[t] \subseteq Loaded
                 => ~(Writes(t) /\ stage'[t] # "write")
  <2> SUFFICES ASSUME NEW t \in Threads, Writes(t), stage'[t] # "write",
                      UpToDate(t), OneRowPerDest, caps[t] \subseteq Loaded
               PROVE  FALSE
    OBVIOUS
  <2>1. PICK W, n, new : Written(t, W, n, new)
    BY <1>1, WritesIs
  <2>2. rows' = rows
    BY <1>1, <2>1, StoredAgain DEF TypeOK
  <2> QED
    BY <2>2 DEF Writes
<1> QED
  BY <1>1, LibraryTypeCorrect, PTL DEF Spec, UpsertIsIdempotent

-----------------------------------------------------------------------------
(***************************************************************************)
(* The files. Only the copy of organize writes in a day folder, at a path  *)
(* that was free when it began and holds no whole photo since.             *)
(***************************************************************************)

LibStays ==
  /\ Known \subseteq Known'
  /\ \A p \in DOMAIN lib : p[1] # "incoming" /\ lib[p].whole =>
       IF p \in DOMAIN lib' THEN lib'[p] = lib[p] ELSE Delete(p)

ZipsStay == \A d \in Days : zips[d] = "valid" => zips'[d] = "valid"

LEMMA WithStays ==
  ASSUME LibOK(lib), NEW path \in Paths, NEW file \in LibraryFile,
         path \in DOMAIN lib => path[1] = "incoming" \/ ~lib[path].whole,
         lib' = With(path, file), zips' = zips, deleted' = deleted
  PROVE  LibStays /\ ZipsStay
<1>1. /\ DOMAIN lib' = DOMAIN lib \cup {path}
      /\ \A q \in DOMAIN lib : q # path => lib'[q] = lib[q]
  BY WithIs
<1>2. ASSUME NEW p \in DOMAIN lib, p[1] # "incoming", lib[p].whole
      PROVE  p \in DOMAIN lib' /\ lib'[p] = lib[p]
  BY <1>1, <1>2
<1> QED
  BY <1>1, <1>2 DEF LibStays, ZipsStay, Known

\* A step that writes and deletes no file and leaves what is valid.
LEMMA SameStays ==
  ASSUME lib' = lib, deleted' = deleted, ZipsStay
  PROVE  LibStays /\ ZipsStay
BY DEF LibStays, Known

LEMMA DeleteStays ==
  ASSUME NEW path \in DOMAIN lib, Delete(path)
  PROVE  LibStays /\ ZipsStay
<1>1. /\ lib' = [q \in DOMAIN lib \ {path} |-> lib[q]]
      /\ deleted' = deleted \cup {path} /\ zips' = zips
  BY DEF Delete
<1>2. \A p \in DOMAIN lib : IF p \in DOMAIN lib' THEN lib'[p] = lib[p] ELSE p = path
  BY <1>1
<1> QED
  BY <1>1, <1>2 DEF LibStays, ZipsStay, Known

LEMMA LibraryInvariant == Spec => []IInv
BY InitTyped, NextTyped, PTL DEF Spec

LEMMA NextKeepsFiles ==
  ASSUME IInv, [Next]_vars
  PROVE  LibStays /\ ZipsStay
<1>1. TableOK /\ WritersOK /\ FilesOK /\ LocalOK /\ LibOK(lib) /\ CopyInHand
  BY DEF IInv, TypeOK, FilesOK, LibOK
<1>2. CASE UNCHANGED files
  BY <1>2, SameStays DEF files, ZipsStay
<1>3. CASE \E c \in todo : BeginCopy(c)
  <2>1. PICK c \in todo : BeginCopy(c)
    BY <1>3
  <2>2. c \in Capture /\ Dated(c) /\ Readable(c) /\ Target(c) \notin DOMAIN lib
    BY <1>1, <2>1 DEF LocalOK, BeginCopy, AlreadyThere, Exists
  <2> DEFINE file == Part(Original(c))
  <2>3. file \in LibraryFile /\ Target(c) \in Paths
    BY <1>1, <2>2, OriginalTyped, TargetIs
  <2>4. lib' = With(Target(c), file) /\ zips' = zips /\ deleted' = deleted
    BY <2>1 DEF BeginCopy
  <2> HIDE DEF file
  <2> QED
    BY <1>1, <2>2, <2>3, <2>4, WithStays
<1>4. CASE EndCopy \/ CopyFails
  <2>1. /\ zips' = zips /\ deleted' = deleted /\ stage["pipeline"] = "copy"
        /\ lib' = lib \/ CopyFinished
    BY <1>4 DEF EndCopy, CopyFails, CopyFinished, Exists
  <2>2. hand \in Capture /\ Dated(hand)
    BY <1>1, <2>1 DEF LocalOK, CopyInHand
  <2>3. CASE lib' = lib
    BY <2>1, <2>3, SameStays DEF ZipsStay
  <2>4. CASE CopyFinished
    <3>1. ~lib[Target(hand)].whole
      BY <1>1, <2>1, <2>4 DEF CopyInHand, CopyFinished, Exists
    <3> QED
      BY <1>1, <2>1, <2>2, <2>4, <3>1, TargetIs, WholeTyped, WithStays DEF CopyFinished
  <2> QED
    BY <2>1, <2>3, <2>4
<1>5. CASE \E s \in Phone : Download(s)
  <2>1. PICK s \in Phone : Download(s)
    BY <1>5
  <2>2. PICK v \in {version[s], version[s] + 1} : lib' = With(Incoming(s), File(s, v))
    BY <2>1 DEF Download
  <2>3. s \in Sources /\ v \in Nat
    BY <1>1, LibraryAssumption DEF FilesOK
  <2> DEFINE file == File(s, v)
  <2>4. file \in LibraryFile
    BY <2>3 DEF File, LibraryFile
  <2>5. lib' = With(Incoming(s), file) /\ zips' = zips /\ deleted' = deleted
    BY <2>1, <2>2 DEF Download
  <2> HIDE DEF file
  <2> QED
    BY <1>1, <2>3, <2>4, <2>5, IncomingIs, WithStays
<1>6. CASE \E d \in days : BeginZip(d) \/ EndZip(d) \/ ZipFails(d)
  <2>1. lib' = lib /\ deleted' = deleted
    BY <1>6 DEF BeginZip, EndZip, ZipFails
  <2>2. ZipsStay
    BY <1>1, <1>6 DEF BeginZip, EndZip, ZipFails, ZipIsValid, ZipsStay, FilesOK
  <2> QED
    BY <2>1, <2>2, SameStays
<1>7. CASE Crash
  BY <1>7, SameStays DEF Crash, ZipsStay
<1>8. CASE \E s \in Sources : SourceChanges(s)
  BY <1>8, SameStays DEF SourceChanges, ZipsStay
<1>9. CASE Sync \/ SyncUnread \/ Organize \/ CopyRaises \/ EndOrganize
  BY <1>2, <1>9 DEF Sync, SyncUnread, Organize, CopyRaises, EndOrganize
<1>10. CASE \E c \in todo : Existed(c) \/ NotPlaceable(c)
  BY <1>2, <1>10 DEF Existed, NotPlaceable
<1>11. CASE Classify \/ Compress \/ EndCompress \/ \E d \in days : Zipped(d) \/ NothingToZip(d)
  BY <1>2, <1>11 DEF Classify, Compress, EndCompress, Zipped, NothingToZip
<1>12. CASE (\E s \in Phone : Skip(s)) \/ Page
  BY <1>2, <1>12, DeleteStays DEF Skip, Page, ToggleFavourite, FixDate, SetFavourite
<1>13. CASE \E t \in Threads : LookupBy(t) \/ WriteBy(t) \/ WriteFails(t)
  BY <1>2, <1>13 DEF LookupBy, WriteBy, WriteFails
<1>14. CASE UNCHANGED vars
  BY <1>2, <1>14 DEF vars
<1> QED
  BY <1>3, <1>4, <1>5, <1>6, <1>7, <1>8, <1>9, <1>10, <1>11, <1>12, <1>13, <1>14
  DEF Next, Pipeline, WebDAV

\* A whole photo of a day folder is never written again, nor a valid archive, with
\* any number of photos of one name, copies that fail, crashes and deletions at any
\* moment (organize.py 63-71, bulk_action.py 54-66).
THEOREM WholePhotosStay == Spec => NeverOverwritten
<1>1. ASSUME IInv, [Next]_vars
      PROVE  /\ \A p \in DOMAIN lib :
                  p[1] # "incoming" /\ lib[p].whole =>
                    IF Exists(p)' THEN lib'[p] = lib[p] ELSE Delete(p)
             /\ \A d \in Days : zips[d] = "valid" => zips'[d] = "valid"
  BY <1>1, NextKeepsFiles DEF LibStays, ZipsStay, Exists
<1> QED
  BY <1>1, LibraryInvariant, PTL DEF Spec, NeverOverwritten

-----------------------------------------------------------------------------
(***************************************************************************)
(* What rows name is there. It takes every record in memory to name what   *)
(* is there, since any of them may be written at any later time.           *)
(***************************************************************************)

NamesFiles(c, k, z) ==
  /\ c.dest # NoPath => c.dest \in k
  /\ c.zip # NoDay => z[c.zip] = "valid"

RowsName    == \A i \in DOMAIN rows : NamesFiles(rows[i], Known, zips)
RecordsName == \A t \in Threads : \A c \in caps[t] : NamesFiles(c, Known, zips)
LocalName   == \A c \in todo \cup {hand} : NamesFiles(c, Known, zips)

AllName == RowsName /\ RecordsName /\ LocalName

\* A record that named what is there still does.
LEMMA NamesStill ==
  ASSUME LibStays, ZipsStay, NEW c \in Capture, NamesFiles(c, Known, zips)
  PROVE  NamesFiles(c, Known', zips')
BY DEF NamesFiles, LibStays, ZipsStay, Capture

LEMMA LocalNameKept ==
  ASSUME IInv, AllName, LibStays, ZipsStay,
         todo' \subseteq todo \cup Loaded,
         hand' \in {hand, Nothing} \cup todo
  PROVE  LocalName'
<1>1. /\ todo \subseteq Capture /\ hand \in Capture
      /\ \A i \in DOMAIN rows : rows[i] \in Capture
  BY DEF IInv, TypeOK, LocalOK, TableOK
<1>2. \A c \in todo \cup {hand} : NamesFiles(c, Known', zips')
  BY <1>1, NamesStill DEF AllName, LocalName
<1>3. \A i \in DOMAIN rows : NamesFiles(rows[i], Known', zips')
  BY <1>1, NamesStill DEF AllName, RowsName
<1>4. NamesFiles(Nothing, Known', zips')
  BY DEF NamesFiles, Nothing
<1>5. \A c \in todo' \cup {hand'} : NamesFiles(c, Known', zips')
  BY <1>2, <1>3, <1>4 DEF Loaded
<1> QED
  BY <1>5 DEF LocalName

LEMMA RowsNameKept ==
  ASSUME IInv, AllName, LibStays, ZipsStay, rows' = rows
  PROVE  RowsName'
<1>1. \A i \in DOMAIN rows : rows[i] \in Capture
  BY DEF IInv, TypeOK, TableOK
<1>2. \A i \in DOMAIN rows : NamesFiles(rows[i], Known', zips')
  BY <1>1, NamesStill DEF AllName, RowsName
<1> QED
  BY <1>2 DEF RowsName

LEMMA RecordsNameKept ==
  ASSUME IInv, AllName, LibStays, ZipsStay, NEW t \in Threads, NEW records,
         \A u \in Threads : caps'[u] = IF u = t THEN records ELSE caps[u],
         \A c \in records : NamesFiles(c, Known', zips')
  PROVE  RecordsName'
<1>1. \A u \in Threads : caps[u] \subseteq Capture
  BY DEF IInv, TypeOK, WritersOK
<1>2. \A u \in Threads : \A c \in caps[u] : NamesFiles(c, Known', zips')
  BY <1>1, NamesStill DEF AllName, RecordsName
<1>3. \A u \in Threads : \A c \in caps'[u] : NamesFiles(c, Known', zips')
  BY <1>2
<1> QED
  BY <1>3 DEF RecordsName

LEMMA CapsIs ==
  ASSUME WritersOK, NEW t \in Threads, NEW label, NEW records,
         Goto(t, label, records) \/ Upsert(t, records)
  PROVE  \A u \in Threads : caps'[u] = IF u = t THEN records ELSE caps[u]
BY DEF Goto, Upsert, WritersOK

\* A step that leaves the table and gives t these records.
LEMMA StepNames ==
  ASSUME IInv, AllName, LibStays, ZipsStay, rows' = rows,
         todo' \subseteq todo \cup Loaded, hand' \in {hand, Nothing} \cup todo,
         NEW t \in Threads, NEW label, NEW records,
         Goto(t, label, records) \/ Upsert(t, records),
         \A c \in records : NamesFiles(c, Known', zips')
  PROVE  AllName'
<1>1. \A u \in Threads : caps'[u] = IF u = t THEN records ELSE caps[u]
  BY CapsIs DEF IInv, TypeOK
<1> QED
  BY <1>1, LocalNameKept, RowsNameKept, RecordsNameKept DEF AllName

\* A step that moves neither rows, records nor locals.
LEMMA StillNames ==
  ASSUME IInv, AllName, LibStays, ZipsStay, rows' = rows, caps' = caps,
         todo' \subseteq todo \cup Loaded, hand' \in {hand, Nothing} \cup todo
  PROVE  AllName'
<1>1. "pipeline" \in Threads
  BY LibraryAssumption
<1>2. /\ \A u \in Threads : caps[u] \subseteq Capture
  BY DEF IInv, TypeOK, WritersOK
<1>3. \A c \in caps["pipeline"] : NamesFiles(c, Known', zips')
  BY <1>1, <1>2, NamesStill DEF AllName, RecordsName
<1>4. RecordsName'
  BY <1>1, <1>3, RecordsNameKept
<1> QED
  BY <1>4, LocalNameKept, RowsNameKept DEF AllName

\* What t holds, and what the table and the list hold, still names what is there.
LEMMA HeldNames ==
  ASSUME IInv, AllName, LibStays, ZipsStay
  PROVE  /\ \A t \in Threads : \A c \in caps[t] : NamesFiles(c, Known', zips')
         /\ \A c \in Loaded : NamesFiles(c, Known', zips')
         /\ \A c \in todo \cup {hand} : NamesFiles(c, Known', zips')
<1>1. /\ \A t \in Threads : caps[t] \subseteq Capture
      /\ \A i \in DOMAIN rows : rows[i] \in Capture
      /\ todo \subseteq Capture /\ hand \in Capture
  BY DEF IInv, TypeOK, WritersOK, TableOK, LocalOK
<1> QED
  BY <1>1, NamesStill DEF AllName, RowsName, RecordsName, LocalName, Loaded

LEMMA SyncNames ==
  ASSUME IInv, AllName, LibStays, ZipsStay, Sync \/ SyncUnread
  PROVE  AllName'
<1>1. /\ TableOK /\ FilesOK /\ "pipeline" \in Threads
      /\ rows' = rows /\ todo' = todo /\ hand' = hand
  BY LibraryAssumption DEF IInv, TypeOK, Sync, SyncUnread, table, local
<1>2. ASSUME NEW s \in Sources, NEW i \in Nat
      PROVE  NamesFiles(New(s, i), Known', zips')
  BY DEF New, NamesFiles
<1>3. ASSUME NEW s \in Sources, NEW i \in 0 .. Len(rows)
      PROVE  NamesFiles(Synced(s, i), Known', zips')
  <2>1. Len(rows) \in Nat /\ DOMAIN rows = 1 .. Len(rows) /\ i \in Nat
    BY <1>1 DEF TableOK
  <2>2. CASE i \notin DOMAIN rows
    BY <1>2, <2>1, <2>2 DEF Synced
  <2>3. CASE i \in DOMAIN rows
    <3>1. rows[i] \in Capture /\ NamesFiles(rows[i], Known', zips')
      BY <1>1, <2>3, HeldNames DEF TableOK, Loaded
    <3>2. rows[i].dest \in Paths \cup {NoPath} /\ rows[i].zip \in Days \cup {NoDay}
      BY <3>1 DEF Capture
    <3> DEFINE moved == WithDest(New(s, i), rows[i].dest)
    <3>3. New(s, i) \in Capture
      BY <1>1, <2>1, NewTyped
    <3>4. moved \in Capture /\ moved.dest = rows[i].dest
      BY <3>2, <3>3, WithDestIs
    <3>5. /\ WithZip(moved, rows[i].zip).dest = rows[i].dest
          /\ WithZip(moved, rows[i].zip).zip = rows[i].zip
      BY <3>2, <3>4, WithZipIs
    <3>6. Synced(s, i) \in {rows[i], WithZip(moved, rows[i].zip), New(s, i)}
      BY <2>1, <2>3 DEF Synced
    <3> HIDE DEF moved
    <3>7. NamesFiles(WithZip(moved, rows[i].zip), Known', zips')
      BY <3>1, <3>5 DEF NamesFiles
    <3> QED
      BY <1>2, <2>1, <3>1, <3>6, <3>7
  <2> QED
    BY <2>2, <2>3
<1>4. CASE Sync
  <2>1. PICK found \in Listings :
          \E p \in Previous(found) : Upsert("pipeline", {Synced(s, p[s]) : s \in found})
    BY <1>4 DEF Sync
  <2>2. PICK p \in Previous(found) : Upsert("pipeline", {Synced(s, p[s]) : s \in found})
    BY <2>1
  <2>3. \A s \in found : s \in Sources /\ p[s] \in 0 .. Len(rows)
    BY LibraryAssumption DEF Listings, Previous
  <2> DEFINE records == {Synced(s, p[s]) : s \in found}
  <2>4. \A c \in records : NamesFiles(c, Known', zips')
    BY <1>3, <2>3
  <2>5. Upsert("pipeline", records)
    BY <2>2
  <2> HIDE DEF records
  <2> QED
    BY <1>1, <2>4, <2>5, StepNames
<1>5. CASE SyncUnread
  <2>1. PICK found \in Listings : Upsert("pipeline", {New(s, 0) : s \in found})
    BY <1>5 DEF SyncUnread
  <2>2. \A s \in found : s \in Sources
    BY LibraryAssumption DEF Listings
  <2> DEFINE records == {New(s, 0) : s \in found}
  <2>3. \A c \in records : NamesFiles(c, Known', zips')
    BY <1>2, <2>2
  <2>4. Upsert("pipeline", records)
    BY <2>1
  <2> HIDE DEF records
  <2> QED
    BY <1>1, <2>3, <2>4, StepNames
<1> QED
  BY <1>4, <1>5

\* Organize: a capture gets the path of a file that is there, or stays as it was.
LEMMA DealtNames ==
  ASSUME IInv, AllName, LibStays, ZipsStay,
         (\E c \in todo : Existed(c) \/ NotPlaceable(c)) \/ EndCopy \/ CopyFails
  PROVE  AllName'
<1>1. /\ TableOK /\ WritersOK /\ FilesOK /\ LocalOK /\ LibOK(lib) /\ CopyInHand
      /\ "pipeline" \in Threads
  BY LibraryAssumption DEF IInv, TypeOK, FilesOK, LibOK
<1>2. \E c \in todo \cup {hand} : \E d : Dealt(c, d) /\ NamesFiles(d, Known', zips')
  <2>1. CASE \E c \in todo : Existed(c)
    <3>1. PICK c \in todo : Existed(c)
      BY <2>1
    <3>2. c \in Capture /\ Dated(c) /\ Target(c) \in Known'
      BY <1>1, <3>1 DEF LocalOK, Existed, AlreadyThere, Exists, LibStays, Known
    <3>3. NamesFiles(Placed(c), Known', zips')
      BY <3>2, PlacedIs, HeldNames DEF NamesFiles
    <3> QED
      BY <3>1, <3>3 DEF Existed
  <2>2. CASE \E c \in todo : NotPlaceable(c)
    BY <2>2, HeldNames DEF NotPlaceable, NotPlaced
  <2>3. CASE EndCopy
    <3>1. hand \in Capture /\ Dated(hand) /\ Exists(Target(hand))
      BY <1>1, <2>3 DEF EndCopy, LocalOK, CopyInHand
    <3>2. Target(hand) \in Known'
      BY <3>1 DEF Exists, LibStays, Known
    <3>3. NamesFiles(Placed(hand), Known', zips')
      BY <3>1, <3>2, PlacedIs, HeldNames DEF NamesFiles
    <3> QED
      BY <2>3, <3>3 DEF EndCopy
  <2>4. CASE CopyFails
    BY <2>4, HeldNames DEF CopyFails, NotPlaced
  <2> QED
    BY <2>1, <2>2, <2>3, <2>4
<1>3. PICK c \in todo \cup {hand} : \E d : Dealt(c, d) /\ NamesFiles(d, Known', zips')
  BY <1>2
<1>4. PICK d : Dealt(c, d) /\ NamesFiles(d, Known', zips')
  BY <1>3
<1>5. rows' = rows /\ hand' \in {hand, Nothing}
  BY DEF Existed, NotPlaceable, EndCopy, CopyFails, table
<1> DEFINE records == caps["pipeline"] \cup {d}
<1>6. Goto("pipeline", "organize", records) /\ todo' \subseteq todo
  BY <1>4 DEF Dealt
<1>7. \A e \in records : NamesFiles(e, Known', zips')
  BY <1>1, <1>4, HeldNames
<1> HIDE DEF records
<1> QED
  BY <1>1, <1>5, <1>6, <1>7, StepNames

\* Organize, compress and classify: nothing new, but a capture is marked when the
\* archive of its day is valid.
LEMMA PipelineNames ==
  ASSUME IInv, AllName, LibStays, ZipsStay,
         \/ Organize \/ CopyRaises \/ EndOrganize \/ \E c \in todo : BeginCopy(c)
         \/ Classify \/ Compress \/ EndCompress \/ \E d \in days : Compresses(d)
  PROVE  AllName'
<1>1. TableOK /\ WritersOK /\ FilesOK /\ LocalOK /\ "pipeline" \in Threads
  BY LibraryAssumption DEF IInv, TypeOK
<1>2. CASE Organize \/ CopyRaises
  <2>1. \A c \in {} : NamesFiles(c, Known', zips')
    OBVIOUS
  <2>2. /\ rows' = rows /\ todo' \subseteq todo \cup Loaded /\ hand' \in {hand, Nothing}
        /\ \E label : Goto("pipeline", label, {})
    BY <1>2 DEF Organize, CopyRaises, table
  <2> QED
    BY <1>1, <2>1, <2>2, StepNames
<1>3. CASE EndOrganize \/ EndCompress \/ Classify \/ Compress
  <2>1. rows' = rows /\ todo' = todo /\ hand' = hand
    BY <1>3 DEF EndOrganize, EndCompress, Classify, Compress, table, local
  <2>2. \/ Upsert("pipeline", caps["pipeline"])
        \/ Upsert("pipeline", Loaded)
        \/ \E label : Goto("pipeline", label, Loaded)
    BY <1>3 DEF EndOrganize, EndCompress, Classify, Compress
  <2> QED
    BY <1>1, <2>1, <2>2, HeldNames, StepNames
<1>4. CASE \E c \in todo : BeginCopy(c)
  <2>1. PICK c \in todo : BeginCopy(c)
    BY <1>4
  <2>2. /\ rows' = rows /\ todo' = todo /\ hand' = c
        /\ Goto("pipeline", "copy", caps["pipeline"])
    BY <2>1 DEF BeginCopy, table
  <2> QED
    BY <1>1, <2>2, HeldNames, StepNames
<1>5. CASE \E d \in days : BeginZip(d) \/ ZipFails(d)
  <2>1. /\ rows' = rows /\ todo' = todo /\ hand' = hand
        /\ \E label : Goto("pipeline", label, caps["pipeline"])
    BY <1>5 DEF BeginZip, ZipFails, table, local
  <2> QED
    BY <1>1, <2>1, HeldNames, StepNames
<1>6. CASE \E d \in days : NothingToZip(d)
  <2>1. UNCHANGED <<rows, caps, todo, hand>>
    BY <1>6 DEF NothingToZip, table, writers
  <2> QED
    BY <2>1, StillNames
<1>7. CASE \E d \in days : Zipped(d) \/ EndZip(d)
  <2>1. PICK d \in days : Zipped(d) \/ EndZip(d)
    BY <1>7
  <2>2. d \in Days
    BY <1>1 DEF LocalOK
  <2>3. /\ rows' = rows /\ todo' = todo /\ hand' = hand
        /\ Goto("pipeline", "compress", Marked(d))
    BY <2>1 DEF Zipped, EndZip, table
  <2>4. zips'[d] = "valid"
    BY <1>1, <2>1, <2>2 DEF Zipped, EndZip, ZipIsValid, FilesOK, files
  <2>5. \A c \in caps["pipeline"] :
          /\ NamesFiles(c, Known', zips')
          /\ WithZip(c, d).dest = c.dest /\ WithZip(c, d).zip = d
    BY <1>1, <2>2, HeldNames, WithZipIs DEF WritersOK
  <2>6. \A c \in caps["pipeline"] : NamesFiles(WithZip(c, d), Known', zips')
    BY <2>4, <2>5 DEF NamesFiles
  <2>7. \A c \in Marked(d) : NamesFiles(c, Known', zips')
    BY <2>5, <2>6 DEF Marked
  <2> QED
    BY <1>1, <2>3, <2>7, StepNames
<1> QED
  BY <1>2, <1>3, <1>4, <1>5, <1>6, <1>7 DEF Compresses

\* The job and the page make records of files that are there, or were until
\* they were deleted.
LEMMA OthersNames ==
  ASSUME IInv, AllName, LibStays, ZipsStay,
         \/ \E s \in Phone : Download(s) \/ Skip(s)
         \/ \E path \in Known, flag \in BOOLEAN : ToggleFavourite(path, flag)
         \/ \E path \in DOMAIN lib : Delete(path)
         \/ SetFavourite \/ \E c \in Loaded : FixDate(c)
  PROVE  AllName'
<1>1. /\ TableOK /\ WritersOK /\ FilesOK /\ LocalOK /\ LibOK(lib)
      /\ "webdav" \in Threads /\ "page" \in Threads
  BY LibraryAssumption DEF IInv, TypeOK, FilesOK, LibOK
<1>2. CASE \E s \in Phone : Download(s) \/ Skip(s)
  <2>1. PICK s \in Phone : Download(s) \/ Skip(s)
    BY <1>2
  <2>2. s \in Sources /\ version[s] \in Nat /\ version[s] + 1 \in Nat
    BY <1>1, LibraryAssumption DEF FilesOK
  <2>3. rows' = rows /\ todo' = todo /\ hand' = hand
    BY <2>1 DEF Download, Skip, table, local
  <2>4. PICK v \in {version[s], version[s] + 1} :
          Upsert("webdav", {Record(s, v)}) \/ UNCHANGED writers
    BY <2>1 DEF Download, Skip, RegisterNew
  <2>5. Incoming(s) \in Known'
    <3>1. CASE Download(s)
      BY <3>1 DEF Download, With, Known
    <3>2. CASE Skip(s)
      BY <3>2 DEF Skip, Exists, LibStays, Known
    <3> QED
      BY <2>1, <3>1, <3>2
  <2>6. NamesFiles(Record(s, v), Known', zips')
    BY <2>2, <2>4, <2>5, RecordTyped DEF NamesFiles
  <2>7. CASE UNCHANGED writers
    BY <2>3, <2>7, StillNames DEF writers
  <2>8. CASE Upsert("webdav", {Record(s, v)})
    BY <1>1, <2>3, <2>6, <2>8, StepNames
  <2> QED
    BY <2>4, <2>7, <2>8
<1>3. CASE \E path \in Known, flag \in BOOLEAN : ToggleFavourite(path, flag)
  <2>1. PICK path \in Known, flag \in BOOLEAN : ToggleFavourite(path, flag)
    BY <1>3
  <2>2. rows' = rows /\ todo' = todo /\ hand' = hand /\ path \in Paths /\ path \in Known'
    BY <1>1, <2>1 DEF ToggleFavourite, table, LibOK, LibStays, FilesOK, Known
  <2>3. NamesFiles(Minimal(path), Known', zips')
    BY <2>2, MinimalTyped DEF NamesFiles
  <2>4. Upsert("page", {Minimal(path)}) \/ Goto("page", "favourite", {})
    BY <2>1 DEF ToggleFavourite
  <2> QED
    BY <1>1, <2>2, <2>3, <2>4, StepNames
<1>4. CASE SetFavourite
  <2>1. rows' = rows /\ todo' = todo /\ hand' = hand /\ Goto("page", "idle", {})
    BY <1>4 DEF SetFavourite
  <2> QED
    BY <1>1, <2>1, StepNames
<1>5. CASE \E c \in Loaded : FixDate(c)
  <2>1. PICK c \in Loaded : FixDate(c)
    BY <1>5
  <2>2. rows' = rows /\ todo' = todo /\ hand' = hand /\ Upsert("page", {c})
    BY <2>1 DEF FixDate, table, local
  <2> QED
    BY <1>1, <2>2, HeldNames, StepNames
<1>6. CASE \E path \in DOMAIN lib : Delete(path)
  <2>1. UNCHANGED <<rows, caps, todo, hand>>
    BY <1>6 DEF Delete, table, writers, local
  <2> QED
    BY <2>1, StillNames
<1> QED
  BY <1>2, <1>3, <1>4, <1>5, <1>6

\* What a write stores are rows and records that name what is there.
LEMMA WriteNames ==
  ASSUME IInv, AllName, LibStays, ZipsStay, NEW t \in Threads, WriteBy(t)
  PROVE  AllName'
<1>1. TableOK /\ WritersOK /\ MaxRows \in Nat
  BY CapturesAssumption DEF IInv, TypeOK
<1>2. Write(t, After(t)) /\ todo' = todo /\ hand' = hand
  BY DEF WriteBy, local
<1>3. Goto(t, After(t), {}) /\ \E W, n, new : Written(t, W, n, new)
  BY <1>1, <1>2, WriteIs
<1>4. PICK W, n, new : Written(t, W, n, new)
  BY <1>3
<1>5. \A c \in W : NamesFiles(c, Known', zips') /\ c \in Capture
  BY <1>1, <1>4, WrittenIs, HeldNames DEF NamesFiles
<1>6. ASSUME NEW i \in DOMAIN rows'
      PROVE  NamesFiles(rows'[i], Known', zips')
  <2>1. Len(rows) \in Nat /\ DOMAIN rows = 1 .. Len(rows) /\ n \in Nat
    BY <1>1, <1>4 DEF TableOK, Written
  <2>2. i \in 1 .. Len(rows) + n
    <3>1. DOMAIN rows' = 1 .. Len(rows) + n
      BY <1>1, <1>4, StoredIs
    <3> QED
      BY <3>1
  <2>3. CASE i \in DOMAIN rows
    <3>1. (\E c \in W : rows'[i] = c) \/ rows'[i] = rows[i]
      BY <1>1, <1>4, <2>3, StoredIs
    <3>2. NamesFiles(rows[i], Known', zips')
      BY <2>3, HeldNames DEF Loaded
    <3> QED
      BY <1>5, <3>1, <3>2
  <2>4. CASE i \notin DOMAIN rows
    <3>1. PICK j \in 1 .. n : i = Len(rows) + j
      <4>1. i - Len(rows) \in 1 .. n /\ i = Len(rows) + (i - Len(rows))
        BY <2>1, <2>2, <2>4
      <4> QED
        BY <4>1
    <3>2. rows'[i] = WithId(new[j], i) /\ new[j] \in W /\ i \in Nat
      BY <1>1, <1>4, <2>1, <3>1, StoredIs
    <3>3. rows'[i].dest = new[j].dest /\ rows'[i].zip = new[j].zip
      BY <1>5, <3>2, WithIdIs
    <3> QED
      BY <1>5, <3>2, <3>3 DEF NamesFiles
  <2> QED
    BY <2>3, <2>4
<1>7. RowsName'
  BY <1>6 DEF RowsName
<1>8. \A u \in Threads : caps'[u] = IF u = t THEN {} ELSE caps[u]
  BY <1>1, <1>3, CapsIs
<1>9. RecordsName' /\ LocalName'
  BY <1>2, <1>8, RecordsNameKept, LocalNameKept
<1> QED
  BY <1>7, <1>9 DEF AllName

LEMMA RestNames ==
  ASSUME IInv, AllName, LibStays, ZipsStay,
         \/ \E t \in Threads : LookupBy(t) \/ WriteFails(t)
         \/ \E s \in Sources : SourceChanges(s)
         \/ Crash \/ UNCHANGED vars
  PROVE  AllName'
<1>1. CASE \E t \in Threads : LookupBy(t)
  BY <1>1, StillNames DEF LookupBy, Lookup, table, local
<1>2. CASE \E t \in Threads : WriteFails(t)
  <2>1. PICK t \in Threads : WriteFails(t)
    BY <1>2
  <2>2. rows' = rows /\ todo' = todo /\ hand' = hand /\ Goto(t, "idle", {})
    BY <2>1 DEF WriteFails, UpsertFails, table
  <2> QED
    BY <2>2, StepNames
<1>3. CASE (\E s \in Sources : SourceChanges(s)) \/ UNCHANGED vars
  BY <1>3, StillNames DEF SourceChanges, vars, table, writers, local
<1>4. CASE Crash
  <2>1. /\ rows' = rows /\ todo' = {} /\ hand' = Nothing
        /\ \A t \in Threads : caps'[t] = {}
    BY <1>4 DEF Crash, table
  <2>2. RecordsName'
    BY <2>1 DEF RecordsName
  <2> QED
    BY <2>1, <2>2, RowsNameKept, LocalNameKept DEF AllName
<1> QED
  BY <1>1, <1>2, <1>3, <1>4

\* A row never names a file or an archive that is not there, but for files that a
\* request deleted (organize.py 57-79, compress.py 61-100, repository.py 744-775,
\* bulk_action.py 54-74).
THEOREM RowsNameWhatIsThere == Spec => []RowsNameFiles
<1>1. Init => AllName
  BY DEF Init, CapturesInit, AllName, RowsName, RecordsName, LocalName, NamesFiles, Nothing
<1>2. IInv /\ AllName /\ [Next]_vars => AllName'
  <2> SUFFICES ASSUME IInv, AllName, [Next]_vars PROVE AllName'
    OBVIOUS
  <2>1. LibStays /\ ZipsStay
    BY NextKeepsFiles
  <2>2. CASE Sync \/ SyncUnread
    BY <2>1, <2>2, SyncNames
  <2>3. CASE (\E c \in todo : Existed(c) \/ NotPlaceable(c)) \/ EndCopy \/ CopyFails
    BY <2>1, <2>3, DealtNames
  <2>4. CASE \/ Organize \/ CopyRaises \/ EndOrganize \/ \E c \in todo : BeginCopy(c)
             \/ Classify \/ Compress \/ EndCompress \/ \E d \in days : Compresses(d)
    BY <2>1, <2>4, PipelineNames
  <2>5. CASE WebDAV \/ Page
    BY <2>1, <2>5, OthersNames DEF WebDAV, Page, Known
  <2>6. CASE \E t \in Threads : WriteBy(t)
    BY <2>1, <2>6, WriteNames
  <2>7. CASE \/ \E t \in Threads : LookupBy(t) \/ WriteFails(t)
             \/ \E s \in Sources : SourceChanges(s)
             \/ Crash \/ UNCHANGED vars
    BY <2>1, <2>7, RestNames
  <2> QED
    BY <2>2, <2>3, <2>4, <2>5, <2>6, <2>7 DEF Next, Pipeline, Compresses
<1>3. IInv /\ AllName => RowsNameFiles
  BY DEF IInv, TypeOK, AllName, RowsName, NamesFiles, RowsNameFiles, Exists, Known
<1> QED
  BY <1>1, <1>2, <1>3, LibraryInvariant, PTL DEF Spec
=============================================================================
