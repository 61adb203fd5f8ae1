-------------------------- MODULE WebDAVTransferProofs --------------------------
(***************************************************************************)
(* The transfer of one file, for any versions, sizes and restarts: bytes   *)
(* stay at their offsets, an unchanged file arrives as it is, progress is  *)
(* kept, and an attempt keeps its contract with the job.                   *)
(***************************************************************************)
EXTENDS WebDAVTransfer, TLAPS

ByteSet == Versions \X (Nat \ {0})

\* The types, one variable at a time.
DataTypes ==
  /\ remote \in Versions /\ listed \in Versions
  /\ pc \in {"idle", "begin", "request", "stream", "verify"}
  /\ resume \in Nat /\ crashes \in Nat
  /\ body \in Seq(ByteSet)
  /\ part \in Seq(ByteSet) \cup {NoFile} /\ local \in Seq(ByteSet) \cup {NoFile}
  /\ answer \in {"none", "skipped", "downloaded", "failed"}

\* A request asks for what follows the part file, and the body continues it.
RequestFits == pc = "request" => resume = Stat(part)

BodyFits ==
  pc = "stream" =>
    /\ part # NoFile /\ resume <= Len(part)
    /\ \A i \in 1..Len(body) : body[i][2] = Len(part) + i

PartIsThere == pc = "verify" => part # NoFile

\* Listings are not ahead of the phone, and its first version has come alone.
FromFirst(content) == content # NoFile => \A i \in 1..Len(content) : content[i][1] = 1

OnlyFirst ==
  /\ listed <= remote
  /\ remote = 1 => FromFirst(part) /\ FromFirst(body)

IInv ==
  /\ DataTypes /\ RequestFits /\ BodyFits /\ PartIsThere /\ OnlyFirst
  /\ BytesInPlace /\ IntactUnlessChanged

-----------------------------------------------------------------------------
\* What a chunk adds to the part, and what is left of the body.
LEMMA ChunkAdds ==
  ASSUME NEW s \in Seq(ByteSet), NEW t \in Seq(ByteSet), NEW n \in 1..Len(t)
  PROVE  /\ s \o SubSeq(t, 1, n) \in Seq(ByteSet)
         /\ Len(s \o SubSeq(t, 1, n)) = Len(s) + n
         /\ \A i \in 1..(Len(s) + n) :
              (s \o SubSeq(t, 1, n))[i] = IF i <= Len(s) THEN s[i] ELSE t[i - Len(s)]
  <1>1. SubSeq(t, 1, n) \in Seq(ByteSet) /\ Len(SubSeq(t, 1, n)) = n
    OBVIOUS
  <1>2. \A i \in 1..n : SubSeq(t, 1, n)[i] = t[i]
    OBVIOUS
  <1> QED BY <1>1, <1>2

LEMMA ChunkLeaves ==
  ASSUME NEW t \in Seq(ByteSet), NEW n \in 1..Len(t)
  PROVE  /\ SubSeq(t, n + 1, Len(t)) \in Seq(ByteSet)
         /\ Len(SubSeq(t, n + 1, Len(t))) = Len(t) - n
         /\ \A i \in 1..(Len(t) - n) : SubSeq(t, n + 1, Len(t))[i] = t[n + i]
  OBVIOUS

\* What a crash leaves of the part.
LEMMA CutShort ==
  ASSUME NEW s \in Seq(ByteSet), NEW n \in 0..Len(s)
  PROVE  /\ SubSeq(s, 1, n) \in Seq(ByteSet)
         /\ Len(SubSeq(s, 1, n)) = n
         /\ \A i \in 1..n : SubSeq(s, 1, n)[i] = s[i]
  OBVIOUS

LEMMA VersionSize == ASSUME NEW v \in Versions PROVE Size[v] \in Nat /\ Size[v] > 0
  BY TransferAssumption

\* What the server sends.
LEMMA BytesSent ==
  ASSUME NEW v \in Versions, NEW first \in 1..Size[v]
  PROVE  /\ Bytes(v, first) \in Seq(ByteSet)
         /\ Len(Bytes(v, first)) = Size[v] - first + 1
         /\ \A i \in 1..(Size[v] - first + 1) : Bytes(v, first)[i] = <<v, first + i - 1>>
  <1>1. Size[v] - first + 1 \in Nat
    BY VersionSize
  <1>2. \A i \in 1..(Size[v] - first + 1) : <<v, first + i - 1>> \in ByteSet
    BY VersionSize DEF ByteSet
  <1> QED BY <1>1, <1>2 DEF Bytes

LEMMA NoFileIsNoContent == NoFile \notin Seq(ByteSet)
  BY TransferAssumption DEF ByteSet

LEMMA StatOf ==
  /\ Stat(NoFile) = 0
  /\ \A s \in Seq(ByteSet) : Stat(s) = Len(s) /\ s # NoFile
  BY NoFileIsNoContent DEF Stat

LEMMA WantedIsSize == ASSUME DataTypes PROVE Wanted \in Nat /\ (sized => Wanted = Size[listed])
  BY VersionSize DEF Wanted, DataTypes

\* A part that has the bytes of the first version, and its size, is it.
LEMMA WholeIsFirst ==
  ASSUME NEW s \in Seq(ByteSet), 1 \in Versions, Len(s) = Size[1], Aligned(s), FromFirst(s)
  PROVE  s = Bytes(1, 1)
  <1>1. /\ Size[1] \in Nat /\ Size[1] > 0 /\ s # NoFile
        /\ Bytes(1, 1) \in Seq(ByteSet) /\ Len(Bytes(1, 1)) = Size[1]
        /\ \A i \in 1..Size[1] : Bytes(1, 1)[i] = <<1, i>>
    BY VersionSize, BytesSent, NoFileIsNoContent
  <1>2. ASSUME NEW i \in 1..Size[1] PROVE s[i] = <<1, i>>
    <2>1. s[i] \in Versions \X (Nat \ {0})
      BY DEF ByteSet
    <2>2. s[i][1] = 1 /\ s[i][2] = i
      BY <1>1 DEF Aligned, FromFirst
    <2> QED BY <2>1, <2>2
  <1>3. DOMAIN s = 1..Size[1] /\ s = [i \in 1..Size[1] |-> s[i]]
    OBVIOUS
  <1>4. Bytes(1, 1) = [i \in 1..Size[1] |-> <<1, i>>]
    <2>1. /\ DOMAIN Bytes(1, 1) = 1..Size[1]
          /\ Bytes(1, 1) = [i \in DOMAIN Bytes(1, 1) |-> Bytes(1, 1)[i]]
      BY <1>1 DEF Bytes
    <2> QED BY <1>1, <2>1
  <1> QED BY <1>2, <1>3, <1>4

-----------------------------------------------------------------------------
LEMMA TransferStarts == ASSUME Init PROVE IInv
  <1>1. 1 \in Versions
    BY TransferAssumption DEF Versions
  <1> QED
    BY <1>1 DEF Init, IInv, DataTypes, RequestFits, BodyFits, PartIsThere, OnlyFirst, FromFirst,
                BytesInPlace, Aligned, IntactUnlessChanged, ByteSet

\* The part becomes the destination: it has the size wanted, if one is.
LEMMA PromoteStep ==
  ASSUME IInv, part # NoFile, Wanted > 0 => Stat(part) = Wanted,
         Promote, UNCHANGED <<server, remote, listed, resume, body, crashes>>
  PROVE  IInv'
  <1>1. /\ local' = part /\ part' = NoFile /\ pc' = "idle" /\ answer' = "downloaded"
        /\ UNCHANGED <<sized, ranged, remote, listed, resume, body, crashes>>
    BY DEF Promote, Return, server
  <1>2. part \in Seq(ByteSet) /\ Stat(part) = Len(part)
    BY StatOf DEF IInv, DataTypes
  <1>3. ASSUME remote = 1, sized PROVE part = Bytes(1, 1)
    <2>1. listed = 1 /\ 1 \in Versions
      BY <1>3 DEF IInv, DataTypes, OnlyFirst, Versions
    <2>2. Len(part) = Size[1]
      BY <1>2, <1>3, <2>1, WantedIsSize, VersionSize DEF IInv
    <2> QED
      BY <1>2, <1>3, <2>1, <2>2, WholeIsFirst DEF IInv, OnlyFirst, BytesInPlace
  <1>4. DataTypes' /\ RequestFits' /\ BodyFits' /\ PartIsThere'
    BY <1>1, <1>2 DEF IInv, DataTypes, RequestFits, BodyFits, PartIsThere
  <1>5. OnlyFirst' /\ BytesInPlace'
    BY <1>1 DEF IInv, OnlyFirst, FromFirst, BytesInPlace, Aligned
  <1>6. IntactUnlessChanged'
    BY <1>1, <1>3 DEF IntactUnlessChanged
  <1> QED BY <1>4, <1>5, <1>6 DEF IInv

\* The server sends the file from an offset on.
LEMMA AnswerStep ==
  ASSUME IInv, Answered PROVE IInv'
  <1> USE DEF IInv
  <1>0. remote \in Versions /\ Size[remote] \in Nat /\ Size[remote] > 0
    BY VersionSize DEF DataTypes
  <1>1. CASE Answer206
    <2>1. /\ pc = "request" /\ resume > 0 /\ resume < Size[remote]
          /\ body' = Bytes(remote, resume + 1) /\ pc' = "stream"
          /\ UNCHANGED <<sized, ranged, remote, listed, resume, part, local, answer, crashes>>
      BY <1>1 DEF Answer206, server
    <2>2. part \in Seq(ByteSet) /\ part # NoFile /\ resume = Len(part)
      BY <2>1, StatOf DEF RequestFits, DataTypes
    <2>3. /\ body' \in Seq(ByteSet)
          /\ \A i \in 1..Len(body') : body'[i] = <<remote, resume + i>>
      BY <1>0, <2>1, BytesSent DEF DataTypes
    <2>4. DataTypes' /\ RequestFits' /\ PartIsThere'
      BY <2>1, <2>3 DEF DataTypes, RequestFits, PartIsThere
    <2>5. BodyFits'
      BY <2>1, <2>2, <2>3 DEF BodyFits
    <2>6. OnlyFirst'
      BY <2>1, <2>3 DEF OnlyFirst, FromFirst
    <2> QED BY <2>1, <2>4, <2>5, <2>6 DEF BytesInPlace, IntactUnlessChanged
  <1>2. CASE Answer200
    <2>1. /\ body' = Bytes(remote, 1) /\ pc' = "stream" /\ part' = <<>> /\ resume' = 0
          /\ UNCHANGED <<sized, ranged, remote, listed, local, answer, crashes>>
      BY <1>2 DEF Answer200, server
    <2>2. /\ body' \in Seq(ByteSet)
          /\ \A i \in 1..Len(body') : body'[i] = <<remote, i>>
      <3>1. /\ body' \in Seq(ByteSet) /\ Len(body') = Size[remote] - 1 + 1
            /\ \A i \in 1..(Size[remote] - 1 + 1) : body'[i] = <<remote, 1 + i - 1>>
        BY <1>0, <2>1, BytesSent
      <3>2. \A i \in Int : 1 + i - 1 = i
        OBVIOUS
      <3> QED BY <3>1, <3>2
    <2>3. part' \in Seq(ByteSet) /\ part' # NoFile /\ Len(part') = 0
      <3>1. <<>> \in Seq(ByteSet) /\ Len(<<>>) = 0
        OBVIOUS
      <3> QED BY <2>1, <3>1, NoFileIsNoContent
    <2>4. DataTypes' /\ RequestFits' /\ PartIsThere'
      BY <2>1, <2>2, <2>3 DEF DataTypes, RequestFits, PartIsThere
    <2>5. BodyFits'
      BY <2>1, <2>2, <2>3 DEF BodyFits
    <2>6. OnlyFirst'
      BY <2>1, <2>2, <2>3 DEF OnlyFirst, FromFirst
    <2>7. BytesInPlace' /\ IntactUnlessChanged'
      BY <2>1, <2>3 DEF BytesInPlace, Aligned, IntactUnlessChanged
    <2> QED BY <2>4, <2>5, <2>6, <2>7
  <1>3. CASE Answer416
    <2>1. pc = "request" /\ resume > 0 /\ resume = Stat(part)
      BY <1>3 DEF Answer416, RequestFits
    <2>2. part # NoFile
      BY <2>1, StatOf
    <2>3. CASE Wanted = resume
      BY <1>3, <2>1, <2>2, <2>3, PromoteStep DEF Answer416
    <2>4. CASE Wanted # resume
      BY <1>3, <2>4
      DEF Answer416, Return, server, DataTypes, RequestFits, BodyFits, PartIsThere, OnlyFirst,
          FromFirst, BytesInPlace, Aligned, IntactUnlessChanged
    <2> QED BY <2>3, <2>4
  <1> QED BY <1>1, <1>2, <1>3 DEF Answered

LEMMA ChunkStep ==
  ASSUME IInv, Chunk PROVE IInv'
  <1> USE DEF IInv
  <1>1. PICK n \in 1..Len(body) :
          /\ part' = part \o SubSeq(body, 1, n)
          /\ body' = SubSeq(body, n + 1, Len(body))
    BY DEF Chunk
  <1>2. /\ pc = "stream"
        /\ UNCHANGED <<sized, ranged, remote, listed, pc, resume, local, answer, crashes>>
    BY DEF Chunk, server
  <1>3. body \in Seq(ByteSet) /\ part \in Seq(ByteSet) /\ part # NoFile /\ resume <= Len(part)
    BY <1>2 DEF DataTypes, BodyFits
  <1>4. /\ part' \in Seq(ByteSet) /\ part' # NoFile /\ Len(part') = Len(part) + n
        /\ \A i \in 1..Len(part') : part'[i] = IF i <= Len(part) THEN part[i] ELSE body[i - Len(part)]
    <2>1. /\ part' \in Seq(ByteSet) /\ Len(part') = Len(part) + n
          /\ \A i \in 1..(Len(part) + n) :
               part'[i] = IF i <= Len(part) THEN part[i] ELSE body[i - Len(part)]
      BY <1>1, <1>3, ChunkAdds
    <2> QED BY <2>1, NoFileIsNoContent
  <1>5. /\ body' \in Seq(ByteSet) /\ Len(body') = Len(body) - n
        /\ \A i \in 1..Len(body') : body'[i] = body[n + i]
    BY <1>1, <1>3, ChunkLeaves
  <1>6. DataTypes'
    BY <1>2, <1>4, <1>5 DEF DataTypes
  <1>7. RequestFits' /\ PartIsThere'
    BY <1>2 DEF RequestFits, PartIsThere
  <1>8. BodyFits'
    <2>1. Len(part) \in Nat /\ Len(body) \in Nat /\ n \in 1..Len(body) /\ resume \in Nat
      BY <1>3 DEF DataTypes
    <2>2. resume' <= Len(part')
      BY <1>2, <1>3, <1>4, <2>1
    <2>3. ASSUME NEW i \in 1..Len(body') PROVE body'[i][2] = Len(part') + i
      <3>1. n + i \in 1..Len(body) /\ body'[i] = body[n + i]
        BY <1>5, <2>1
      <3>2. body[n + i][2] = Len(part) + (n + i)
        BY <1>2, <3>1 DEF BodyFits
      <3> QED BY <1>4, <2>1, <3>1, <3>2
    <2> QED BY <1>4, <2>2, <2>3 DEF BodyFits
  <1>9. OnlyFirst'
    <2> SUFFICES ASSUME remote = 1
                 PROVE  /\ \A i \in 1..Len(part') : part'[i][1] = 1
                        /\ \A i \in 1..Len(body') : body'[i][1] = 1
      BY <1>2 DEF OnlyFirst, FromFirst
    <2>1. /\ \A i \in 1..Len(part) : part[i][1] = 1
          /\ \A i \in 1..Len(body) : body[i][1] = 1
      BY <1>3, NoFileIsNoContent DEF OnlyFirst, FromFirst
    <2>2. Len(part) \in Nat /\ Len(body) \in Nat /\ n \in 1..Len(body)
      BY <1>3
    <2>3. ASSUME NEW i \in 1..Len(part') PROVE part'[i][1] = 1
      <3>1. CASE i <= Len(part)
        BY <1>4, <2>1, <2>2, <3>1
      <3>2. CASE i > Len(part)
        BY <1>4, <2>1, <2>2, <3>2
      <3> QED BY <1>4, <2>2, <3>1, <3>2
    <2>4. ASSUME NEW i \in 1..Len(body') PROVE body'[i][1] = 1
      <3>1. n + i \in 1..Len(body) /\ body'[i] = body[n + i]
        BY <1>5, <2>2
      <3> QED BY <2>1, <3>1
    <2> QED BY <2>3, <2>4
  <1>10. Aligned(part)'
    <2>1. Len(part) \in Nat /\ Len(body) \in Nat /\ n \in 1..Len(body)
      BY <1>3
    <2>2. /\ \A i \in 1..Len(part) : part[i][2] = i
          /\ \A i \in 1..Len(body) : body[i][2] = Len(part) + i
      BY <1>2, <1>3 DEF BytesInPlace, Aligned, BodyFits
    <2>3. ASSUME NEW i \in 1..Len(part') PROVE part'[i][2] = i
      <3>1. CASE i <= Len(part)
        BY <1>4, <2>1, <2>2, <3>1
      <3>2. CASE i > Len(part)
        <4>1. i - Len(part) \in 1..Len(body) /\ part'[i] = body[i - Len(part)]
          BY <1>4, <2>1, <3>2
        <4>2. body[i - Len(part)][2] = Len(part) + (i - Len(part))
          BY <2>2, <4>1
        <4> QED BY <2>1, <4>1, <4>2
      <3> QED BY <1>4, <2>1, <3>1, <3>2
    <2> QED BY <2>3 DEF Aligned
  <1>11. Aligned(local)' /\ IntactUnlessChanged'
    BY <1>2 DEF BytesInPlace, Aligned, IntactUnlessChanged
  <1> QED BY <1>6, <1>7, <1>9, <1>10, <1>11, <1>8 DEF BytesInPlace

LEMMA CrashStep ==
  ASSUME IInv, Crash PROVE IInv'
  <1> USE DEF IInv
  <1>1. /\ crashes' = crashes + 1 /\ pc' = "idle" /\ answer' = "none"
        /\ resume' = 0 /\ body' = <<>>
        /\ UNCHANGED <<sized, ranged, remote, listed, local>>
    BY DEF Crash, server
  <1>2. /\ part' \in Seq(ByteSet) \cup {NoFile}
        /\ part' # NoFile => /\ part # NoFile /\ Len(part') <= Len(part)
                             /\ \A i \in 1..Len(part') : part'[i] = part[i]
    <2>1. CASE pc = "stream"
      <3>1. PICK n \in resume..Len(part) : part' = SubSeq(part, 1, n)
        BY <2>1 DEF Crash
      <3>2. part \in Seq(ByteSet) /\ part # NoFile /\ n \in 0..Len(part)
        BY <2>1, <3>1 DEF DataTypes, BodyFits
      <3> QED BY <3>1, <3>2, CutShort
    <2>2. CASE pc # "stream"
      <3>1. part' = part
        BY <2>2 DEF Crash
      <3>2. part # NoFile => Len(part) \in Nat
        BY DEF DataTypes
      <3> QED BY <3>1, <3>2 DEF DataTypes
    <2> QED BY <2>1, <2>2
  <1>3. DataTypes' /\ RequestFits' /\ BodyFits' /\ PartIsThere'
    BY <1>1, <1>2 DEF DataTypes, RequestFits, BodyFits, PartIsThere
  <1>4. part # NoFile => part \in Seq(ByteSet)
    BY DEF DataTypes
  <1>5. OnlyFirst'
    BY <1>1, <1>2, <1>4 DEF OnlyFirst, FromFirst
  <1>6. BytesInPlace' /\ IntactUnlessChanged'
    BY <1>1, <1>2, <1>4 DEF BytesInPlace, Aligned, IntactUnlessChanged
  <1> QED BY <1>3, <1>5, <1>6

LEMMA TransferStep == ASSUME IInv, [Next]_vars PROVE IInv'
  <1> USE DEF IInv
  <1>1. CASE UNCHANGED vars
    BY <1>1 DEF vars, server, DataTypes, RequestFits, BodyFits, PartIsThere, OnlyFirst, FromFirst,
                BytesInPlace, Aligned, IntactUnlessChanged, Stat
  <1>2. CASE RemoteChange
    BY <1>2 DEF RemoteChange, server, DataTypes, RequestFits, BodyFits, PartIsThere, OnlyFirst,
                BytesInPlace, Aligned, IntactUnlessChanged, Versions, Stat
  <1>3. CASE Submit
    BY <1>3 DEF Submit, server, DataTypes, RequestFits, BodyFits, PartIsThere, OnlyFirst,
                FromFirst, BytesInPlace, Aligned, IntactUnlessChanged, Versions
  <1>4. CASE Skip \/ Broken \/ BodyEnds
    BY <1>4 DEF Skip, Broken, BodyEnds, Return, server, DataTypes, RequestFits, BodyFits,
                PartIsThere, OnlyFirst, FromFirst, BytesInPlace, Aligned, IntactUnlessChanged
  <1>5. CASE InspectPart
    <2>1. /\ pc' = "request"
          /\ UNCHANGED <<sized, ranged, remote, listed, body, local, answer, crashes>>
          /\ \/ part' = NoFile /\ resume' = 0
             \/ part' = part /\ resume' = Stat(part)
      BY <1>5 DEF InspectPart, server
    <2>2. Stat(part) \in Nat
      BY StatOf DEF DataTypes
    <2>3. DataTypes' /\ RequestFits'
      BY <2>1, <2>2 DEF DataTypes, RequestFits, Stat
    <2>4. BodyFits' /\ PartIsThere' /\ OnlyFirst'
      BY <2>1 DEF BodyFits, PartIsThere, OnlyFirst, FromFirst
    <2>5. BytesInPlace' /\ IntactUnlessChanged'
      BY <2>1 DEF BytesInPlace, Aligned, IntactUnlessChanged
    <2> QED BY <2>3, <2>4, <2>5
  <1>6. CASE Verify
    <2>1. pc = "verify" /\ part # NoFile
      BY <1>6 DEF Verify, PartIsThere
    <2>2. CASE Incomplete
      BY <1>6, <2>2 DEF Verify, Return, server, DataTypes, RequestFits, BodyFits, PartIsThere,
                        OnlyFirst, FromFirst, BytesInPlace, Aligned, IntactUnlessChanged
    <2>3. CASE ~Incomplete
      BY <1>6, <2>1, <2>3, PromoteStep DEF Verify, Incomplete
    <2> QED BY <2>2, <2>3
  <1> QED
    BY <1>1, <1>2, <1>3, <1>4, <1>5, <1>6, AnswerStep, ChunkStep, CrashStep DEF Next, Thread

LEMMA TransferInvariant == Spec => []IInv
  <1>1. Init => IInv
    BY TransferStarts
  <1>2. IInv /\ [Next]_vars => IInv'
    BY TransferStep
  <1> QED BY <1>1, <1>2, PTL DEF Spec

\* Which server answers is settled at the start.
LEMMA ServerTypes == Spec => [](sized \in BOOLEAN /\ ranged \in BOOLEAN)
  <1>1. Init => sized \in BOOLEAN /\ ranged \in BOOLEAN
    BY DEF Init
  <1>2. [Next]_vars => UNCHANGED <<sized, ranged>>
    BY DEF Next, Thread, Answered, RemoteChange, Submit, Skip, InspectPart, Answer206, Answer200,
           Answer416, Broken, Chunk, BodyEnds, Verify, Crash, vars, server
  <1>3. (sized \in BOOLEAN /\ ranged \in BOOLEAN) /\ [Next]_vars
        => (sized \in BOOLEAN /\ ranged \in BOOLEAN)'
    BY <1>2
  <1> QED BY <1>1, <1>3, PTL DEF Spec

-----------------------------------------------------------------------------
\* A part file loses bytes only as the property says.
LEMMA ProgressStep ==
  ASSUME IInv, [Next]_vars, Stat(part') < Stat(part)
  PROVE  \/ crashes' > crashes
         \/ ~ranged
         \/ Wanted > 0 /\ Stat(part) > Wanted
         \/ local' = part
  <1> USE DEF IInv
  <1>1. part' # part
    <2>1. Stat(part) \in Nat
      BY StatOf DEF DataTypes
    <2> QED BY <2>1
  <1>2. CASE Crash
    BY <1>2 DEF Crash, DataTypes
  <1>3. CASE InspectPart
    BY <1>1, <1>3 DEF InspectPart, TooLong
  <1>4. CASE Answer200
    <2>1. pc = "request" /\ part' = <<>> /\ (resume = 0 \/ ~ranged)
      BY <1>4 DEF Answer200
    <2>2. Stat(part') = 0
      <3>1. <<>> \in Seq(ByteSet) /\ Len(<<>>) = 0
        OBVIOUS
      <3> QED BY <2>1, <3>1, StatOf
    <2> QED BY <2>1, <2>2 DEF RequestFits
  <1>5. CASE Answer416 \/ Verify
    BY <1>1, <1>5 DEF Answer416, Verify, Promote
  <1>6. CASE Chunk
    <2>1. PICK n \in 1..Len(body) : part' = part \o SubSeq(body, 1, n)
      BY <1>6 DEF Chunk
    <2>2. part \in Seq(ByteSet) /\ body \in Seq(ByteSet)
      BY <1>6 DEF Chunk, BodyFits, DataTypes
    <2>3. part' \in Seq(ByteSet) /\ Len(part') = Len(part) + n
      BY <2>1, <2>2, ChunkAdds
    <2>4. Len(part) \in Nat /\ n \in Nat /\ Stat(part) = Len(part) /\ Stat(part') = Len(part')
      BY <2>2, <2>3, StatOf
    <2> QED BY <2>3, <2>4
  <1>7. CASE \/ UNCHANGED vars \/ RemoteChange \/ Submit \/ Skip \/ Answer206 \/ Broken \/ BodyEnds
    BY <1>1, <1>7 DEF vars, RemoteChange, Submit, Skip, Answer206, Broken, BodyEnds
  <1> QED
    BY <1>2, <1>3, <1>4, <1>5, <1>6, <1>7 DEF Next, Thread, Answered

\* The part becomes the destination: the attempt has stored what was wanted.
LEMMA PromoteStores ==
  ASSUME IInv, part # NoFile, Wanted > 0 => Stat(part) = Wanted, pc # "idle",
         Promote, UNCHANGED <<server, remote, listed, resume, body, crashes>>
  PROVE  Contract!Store
  <1>1. /\ local' = part /\ pc' = "idle" /\ answer' = "downloaded"
        /\ UNCHANGED <<sized, listed>>
    BY DEF Promote, Return, server
  <1>2. Stat(part) \in Nat
    BY StatOf DEF IInv, DataTypes
  <1>3. Wanted' = Wanted /\ Stat(local') = Stat(part)
    BY <1>1 DEF Wanted
  <1> QED BY <1>1, <1>2, <1>3 DEF Contract!Store

\* Each step of the transfer is one of the contract, or none.
LEMMA ContractStep == ASSUME IInv, IInv', [Next]_vars PROVE [Contract!Next]_(Contract!contract)
  <1>1. ASSUME UNCHANGED <<sized, listed>> PROVE Wanted' = Wanted
    BY <1>1 DEF Wanted
  <1>2. ASSUME local' = local PROVE Stat(local)' = Stat(local)
    BY <1>2 DEF Stat
  <1>3. CASE \/ UNCHANGED vars \/ RemoteChange \/ InspectPart \/ Answer206 \/ Answer200
             \/ Chunk \/ BodyEnds
    <2>1. UNCHANGED <<sized, listed, local, answer, pc # "idle">>
      BY <1>3 DEF vars, server, RemoteChange, InspectPart, Answer206, Answer200, Chunk, BodyEnds
    <2> QED BY <1>1, <1>2, <2>1 DEF Contract!contract
  <1>4. CASE Submit
    <2>1. pc = "idle" /\ pc' = "begin" /\ answer' = "none" /\ local' = local
      BY <1>4 DEF Submit
    <2>2. Wanted' \in Nat
      <3>1. listed' \in Versions
        BY DEF IInv, DataTypes
      <3> QED BY <3>1, VersionSize DEF Wanted
    <2> QED BY <1>2, <2>1, <2>2 DEF Contract!Next, Contract!Begin
  <1>5. CASE Skip
    <2>1. /\ pc = "begin" /\ pc' = "idle" /\ answer' = "skipped"
          /\ Wanted > 0 /\ Stat(local) = Wanted
          /\ UNCHANGED <<sized, listed, local>>
      BY <1>5 DEF Skip, Return, server
    <2> QED BY <1>1, <1>2, <2>1 DEF Contract!Next, Contract!Skip
  <1>6. ASSUME pc # "idle", Return("failed"), UNCHANGED <<sized, listed, local>>
        PROVE  Contract!Next
    BY <1>1, <1>2, <1>6 DEF Return, Contract!Next, Contract!GiveUp
  <1>7. CASE Broken
    BY <1>6, <1>7 DEF Broken, server
  <1>8. CASE Answer416
    <2>1. CASE Wanted = resume
      <3>1. pc = "request" /\ resume > 0 /\ resume = Stat(part)
        BY <1>8 DEF Answer416, IInv, RequestFits
      <3>2. part # NoFile
        BY <3>1, StatOf
      <3> QED BY <1>8, <2>1, <3>1, <3>2, PromoteStores DEF Answer416, Contract!Next
    <2>2. CASE Wanted # resume
      BY <1>6, <1>8, <2>2 DEF Answer416, server
    <2> QED BY <2>1, <2>2
  <1>9. CASE Verify
    <2>1. CASE Incomplete
      BY <1>6, <1>9, <2>1 DEF Verify, server
    <2>2. CASE ~Incomplete
      <3>1. pc = "verify" /\ part # NoFile
        BY <1>9 DEF Verify, IInv, PartIsThere
      <3> QED BY <1>9, <2>2, <3>1, PromoteStores DEF Verify, Incomplete, Contract!Next
    <2> QED BY <2>1, <2>2
  <1>10. CASE Crash
    <2>1. pc' = "idle" /\ answer' = "none" /\ UNCHANGED <<sized, listed, local>>
      BY <1>10 DEF Crash, server
    <2> QED BY <1>1, <1>2, <2>1 DEF Contract!Next, Contract!Killed
  <1> QED
    BY <1>3, <1>4, <1>5, <1>7, <1>8, <1>9, <1>10 DEF Next, Thread, Answered

LEMMA ContractStart == Init => Contract!Init
  <1> SUFFICES ASSUME Init PROVE Contract!Init
    OBVIOUS
  <1>1. IInv
    BY TransferStarts
  <1>2. Wanted \in Nat
    BY <1>1, WantedIsSize DEF IInv
  <1> QED BY <1>2, StatOf DEF Init, Contract!Init

-----------------------------------------------------------------------------
\* The variables of a transfer keep to their types.
THEOREM TransferTypeCorrect == Spec => []TypeOK
  <1>1. IInv /\ (sized \in BOOLEAN /\ ranged \in BOOLEAN) => TypeOK
    BY DEF IInv, DataTypes, TypeOK, Contents, ByteSet
  <1> QED BY <1>1, TransferInvariant, ServerTypes, PTL

\* No resume, restart, lost connection or crash shifts, repeats or drops a
\* byte, of a file of any size and any number of versions.
THEOREM TransferKeepsBytes == Spec => []BytesInPlace
  <1>1. IInv => BytesInPlace
    BY DEF IInv
  <1> QED BY <1>1, TransferInvariant, PTL

\* As long as the phone's file does not change, a destination written from a
\* listing with a size is exactly that file.
THEOREM TransferIntact == Spec => []IntactUnlessChanged
  <1>1. IInv => IntactUnlessChanged
    BY DEF IInv
  <1> QED BY <1>1, TransferInvariant, PTL

\* No retry and no restart throws away what has arrived.
THEOREM TransferKeepsProgress == Spec => ProgressIsKept
  <1>1. IInv /\ [Next]_vars =>
          [Stat(part') < Stat(part) =>
             \/ crashes' > crashes
             \/ ~ranged
             \/ Wanted > 0 /\ Stat(part) > Wanted
             \/ local' = part]_vars
    BY ProgressStep
  <1> QED BY <1>1, TransferInvariant, PTL DEF Spec, ProgressIsKept

\* An attempt, with its resumes, broken connections and restarts, is one of
\* the contract on which the job's accounting rests.
THEOREM TransferKeepsContract == Spec => KeepsContract
  <1>1. IInv /\ IInv' /\ [Next]_vars => [Contract!Next]_(Contract!contract)
    BY ContractStep
  <1>2. Spec => Contract!Init /\ [][Contract!Next]_(Contract!contract)
    BY <1>1, ContractStart, TransferInvariant, PTL DEF Spec
  <1> QED BY <1>2 DEF KeepsContract, Contract!Spec
=============================================================================
