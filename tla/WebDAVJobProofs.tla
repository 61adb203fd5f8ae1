--------------------------- MODULE WebDAVJobProofs ---------------------------
(***************************************************************************)
(* Proofs about WebDAVJob for any set of remote files, any names and       *)
(* lengths, any number of workers and any batch sizes.                     *)
(***************************************************************************)
EXTENDS WebDAVJob, FiniteSetTheorems, TLAPS

-----------------------------------------------------------------------------
(***************************************************************************)
(* Facts about the constants.                                              *)
(***************************************************************************)

\* Every set of remote files has a cardinality.
LEMMA HrefSubsets ==
  ASSUME NEW S \in SUBSET Hrefs
  PROVE  IsFiniteSet(S) /\ Cardinality(S) \in Nat
BY JobAssumption, FS_Subset, FS_CardinalityType DEF JobAssumption

\* There are finitely many local paths.
LEMMA PathsFinite == IsFiniteSet(Paths)
<1> DEFINE plain  == {"plain"} \X {Name[h] : h \in Hrefs}
           hashed == {"hashed"} \X Hrefs
           f == [h \in Hrefs |-> <<"plain", Name[h]>>]
           g == [h \in Hrefs |-> <<"hashed", h>>]
<1>1. f \in Surjection(Hrefs, plain)
  BY DEF Surjection
<1>2. g \in Surjection(Hrefs, hashed)
  BY DEF Surjection
<1>3. IsFiniteSet(Hrefs)
  BY JobAssumption DEF JobAssumption
<1> HIDE DEF f, g, plain, hashed
<1>4. IsFiniteSet(plain) /\ IsFiniteSet(hashed)
  BY <1>1, <1>2, <1>3, FS_Surjection
<1>5. IsFiniteSet(plain \cup hashed)
  BY <1>4, FS_Union
<1>6. QED
  BY <1>5 DEF plain, hashed, Paths

LEMMA PathSubsets ==
  ASSUME NEW S \in SUBSET Paths
  PROVE  IsFiniteSet(S) /\ Cardinality(S) \in Nat
BY PathsFinite, FS_Subset, FS_CardinalityType

\* A file of a job gets a path, and no two of them the same one.
LEMMA LocalOfType ==
  ASSUME NEW fs, NEW h \in Hrefs
  PROVE  LocalOf(fs, h) \in Paths
BY DEF LocalOf, Paths

LEMMA LocalOfInjective ==
  ASSUME NEW fs \in SUBSET Hrefs, NEW h \in fs, NEW g \in fs,
         LocalOf(fs, h) = LocalOf(fs, g)
  PROVE  h = g
BY DEF LocalOf

-----------------------------------------------------------------------------
(***************************************************************************)
(* Type correctness.                                                       *)
(***************************************************************************)

LEMMA InitType == Init => TypeOK
<1> SUFFICES ASSUME Init
             PROVE  TypeOK
  OBVIOUS
<1> USE DEF Init, Outcomes
<1>1. /\ running \in BOOLEAN /\ done \in BOOLEAN /\ error \in BOOLEAN
      /\ retryAvailable \in BOOLEAN /\ retrying \in BOOLEAN
  OBVIOUS
<1>2. {total, completed, downloaded, skipped, failed, queued, registered,
       attempt, crashes} \subseteq Nat
  OBVIOUS
<1>3. /\ outcome \in [Hrefs -> Outcomes \cup {"none"}]
      /\ disk \in [Paths -> Hrefs \cup {NoFile}]
      /\ snap \in [Clients -> SUBSET Hrefs]
  OBVIOUS
<1>4. QED
  BY <1>1, <1>2, <1>3 DEF TypeOK

\* What a starting job and a starting process have in common.
LEMMA ResetType ==
  ASSUME TypeOK, Reset, running' \in BOOLEAN, retrying' \in BOOLEAN,
         attempt' \in Nat, crashes' \in Nat, pc' \in {"idle", "list"},
         files' \in SUBSET Hrefs, snap' \in [Clients -> SUBSET Hrefs],
         UNCHANGED stable
  PROVE  TypeOK'
<1> USE DEF Reset, Outcomes, stable
<1>1. /\ done' \in BOOLEAN /\ error' \in BOOLEAN
      /\ retryAvailable' \in BOOLEAN
  OBVIOUS
<1>2. {total', completed', downloaded', skipped', failed', queued',
       registered'} \subseteq Nat
  OBVIOUS
<1>3. outcome' \in [Hrefs -> Outcomes \cup {"none"}]
  OBVIOUS
<1>4. /\ disk' \in [Paths -> Hrefs \cup {NoFile}]
      /\ rows' \in SUBSET Paths
  BY DEF TypeOK
<1>5. {active', failedFiles', prechecked', waiting', inflight', returned',
       collected'} \subseteq SUBSET Hrefs
  OBVIOUS
<1>6. QED
  BY <1>1, <1>2, <1>3, <1>4, <1>5 DEF TypeOK

LEMMA NextType == TypeOK /\ [Next]_vars => TypeOK'
<1> SUFFICES ASSUME TypeOK, [Next]_vars
             PROVE  TypeOK'
  OBVIOUS
<1>0. /\ running \in BOOLEAN /\ attempt \in Nat /\ crashes \in Nat
      /\ snap \in [Clients -> SUBSET Hrefs]
  BY DEF TypeOK
<1>1. CASE StartFull
  <2>1. Reset /\ running' \in BOOLEAN /\ retrying' \in BOOLEAN
    BY <1>1 DEF StartFull, Start
  <2>2. /\ attempt' \in Nat /\ crashes' \in Nat /\ pc' \in {"idle", "list"}
        /\ files' \in SUBSET Hrefs /\ snap' \in [Clients -> SUBSET Hrefs]
        /\ UNCHANGED stable
    BY <1>0, <1>1 DEF StartFull, Start
  <2>3. QED
    BY <2>1, <2>2, ResetType
<1>2. ASSUME NEW c \in Clients, StartRetry(c)
      PROVE  TypeOK'
  <2>1. snap[c] \in SUBSET Hrefs /\ snap' \in [Clients -> SUBSET Hrefs]
    BY <1>0, <1>2 DEF StartRetry
  <2>2. Reset /\ running' \in BOOLEAN /\ retrying' \in BOOLEAN
    BY <1>2 DEF StartRetry, Start
  <2>3. /\ attempt' \in Nat /\ crashes' \in Nat /\ pc' \in {"idle", "list"}
        /\ files' \in SUBSET Hrefs /\ UNCHANGED stable
    BY <1>0, <1>2, <2>1 DEF StartRetry, Start
  <2>4. QED
    BY <2>1, <2>2, <2>3, ResetType
<1>21. CASE Crash
  <2>1. Reset /\ running' \in BOOLEAN /\ retrying' \in BOOLEAN
    BY <1>21 DEF Crash
  <2>2. /\ attempt' \in Nat /\ crashes' \in Nat /\ pc' \in {"idle", "list"}
        /\ files' \in SUBSET Hrefs /\ snap' \in [Clients -> SUBSET Hrefs]
        /\ UNCHANGED stable
    BY <1>0, <1>21 DEF Crash
  <2>3. QED
    BY <2>1, <2>2, ResetType
<1> USE DEF TypeOK, Outcomes, flags, tally, retry, lists, buffer, pool, stable
<1>3. ASSUME NEW c \in Clients, SnapshotFailed(c) \/ RefuseRetry(c)
      PROVE  TypeOK'
  BY <1>3 DEF SnapshotFailed, RefuseRetry
<1>4. ASSUME NEW found \in SUBSET Hrefs, TakeFiles(found)
      PROVE  files' \in SUBSET Hrefs /\ total' \in Nat /\ queued' \in Nat
  BY <1>4, HrefSubsets DEF TakeFiles
<1>5. CASE List
  BY <1>4, <1>5 DEF List
<1>6. CASE ListFails
  BY <1>4, <1>6 DEF ListFails, Fail
<1>7. Complete \in SUBSET Hrefs /\ Unregistered \in SUBSET Paths
  BY LocalOfType DEF Complete, Unregistered
<1>8. ASSUME CountPrecheck
      PROVE  /\ prechecked' \in SUBSET Hrefs
             /\ {skipped', completed', queued'} \subseteq Nat
  BY <1>7, <1>8, HrefSubsets DEF CountPrecheck
<1>9. CASE Precheck
  BY <1>7, <1>8, <1>9, PathSubsets DEF Precheck
<1>10. CASE PrecheckFails
  BY <1>7, <1>8, <1>10, PathSubsets DEF PrecheckFails, Fail
<1>11. CASE Collect
  <2>1. \A test : One(test) \in Nat
    BY DEF One
  <2>2. QED
    BY <1>11, <2>1 DEF Collect, ListFailure
<1>12. pc = "register" => NewRecord \in SUBSET Paths
  BY LocalOfType DEF NewRecord
<1>13. ASSUME NEW R \in SUBSET Paths, Flush(R)
       PROVE  /\ rows' \in SUBSET Paths /\ pending' \in SUBSET Paths
              /\ registered' \in Nat
  BY <1>13, PathSubsets DEF Flush
<1>14. CASE Register
  BY <1>12, <1>13, <1>14 DEF Register
<1>15. CASE RegisterFails
  BY <1>12, <1>15 DEF RegisterFails
<1>16. CASE FinalFlush
  BY <1>13, <1>16 DEF FinalFlush
<1>17. CASE Drained
  BY <1>17 DEF Drained, Fail
<1>18. CASE Finish
  <2>1. /\ running' \in BOOLEAN /\ done' \in BOOLEAN
        /\ retryAvailable' \in BOOLEAN
    BY <1>18 DEF Finish
  <2>2. QED
    BY <1>18, <2>1 DEF Finish
<1>19. ASSUME NEW h \in Hrefs, BeginTransfer(h)
       PROVE  TypeOK'
  BY <1>19 DEF BeginTransfer, Dequeue
<1>20. ASSUME NEW h \in Hrefs, EndTransfer(h)
       PROVE  TypeOK'
  BY <1>20, LocalOfType DEF EndTransfer, Good
<1>22. CASE UNCHANGED vars
  BY <1>22 DEF vars
<1>23. QED
  BY <1>1, <1>2, <1>3, <1>5, <1>6, <1>9, <1>10, <1>11, <1>14, <1>15, <1>16,
     <1>17, <1>18, <1>19, <1>20, <1>21, <1>22 DEF Next, Coordinator

\* The variables of the job keep to their types.
THEOREM JobTypeCorrect == Spec => []TypeOK
BY InitType, NextType, PTL DEF Spec

-----------------------------------------------------------------------------
(***************************************************************************)
(* The flags and the coordinator.                                          *)
(***************************************************************************)

LEMMA InitFlags == Init => InvFlags
BY DEF Init, InvFlags

LEMMA NextFlags == InvFlags /\ [Next]_vars => InvFlags'
<1> SUFFICES ASSUME InvFlags, [Next]_vars
             PROVE  InvFlags'
  OBVIOUS
<1> USE DEF InvFlags, flags
<1>1. ASSUME NEW again, NEW fs, Start(again, fs)
      PROVE  InvFlags'
  BY <1>1 DEF Start, Reset
<1>2. CASE StartFull
  BY <1>1, <1>2 DEF StartFull
<1>3. ASSUME NEW c \in Clients, StartRetry(c)
      PROVE  InvFlags'
  BY <1>1, <1>3 DEF StartRetry
<1>4. ASSUME NEW c \in Clients, SnapshotFailed(c) \/ RefuseRetry(c)
      PROVE  InvFlags'
  BY <1>4 DEF SnapshotFailed, RefuseRetry
<1>5. CASE List
  BY <1>5 DEF List
<1>6. CASE ListFails
  BY <1>6 DEF ListFails, Fail
<1>7. CASE Precheck
  BY <1>7 DEF Precheck
<1>8. CASE PrecheckFails
  BY <1>8 DEF PrecheckFails, Fail
<1>9. CASE Collect
  BY <1>9 DEF Collect
<1>10. CASE Register \/ RegisterFails
  BY <1>10 DEF Register, RegisterFails
<1>11. CASE FinalFlush
  BY <1>11 DEF FinalFlush
<1>12. CASE Drained
  BY <1>12 DEF Drained, Fail
<1>13. CASE Finish
  BY <1>13 DEF Finish
<1>14. ASSUME NEW h \in Hrefs, BeginTransfer(h) \/ EndTransfer(h)
       PROVE  InvFlags'
  BY <1>14 DEF BeginTransfer, EndTransfer
<1>15. CASE Crash
  BY <1>15 DEF Crash, Reset
<1>16. CASE UNCHANGED vars
  BY <1>16 DEF vars
<1>17. QED
  BY <1>2, <1>3, <1>4, <1>5, <1>6, <1>7, <1>8, <1>9, <1>10, <1>11, <1>12,
     <1>13, <1>14, <1>15, <1>16 DEF Next, Coordinator

-----------------------------------------------------------------------------
(***************************************************************************)
(* Where the files of a job are.                                           *)
(***************************************************************************)

\* A transfer that ends changes the outcome of its own file only.
LEMMA OneOutcome ==
  ASSUME TypeOK, NEW h \in Hrefs, EndTransfer(h)
  PROVE  /\ outcome'[h] \in Outcomes
         /\ \A g \in Hrefs : g # h => outcome'[g] = outcome[g]
<1>1. outcome \in [Hrefs -> Outcomes \cup {"none"}]
  BY DEF TypeOK
<1>2. PICK o \in Outcomes : outcome' = [outcome EXCEPT ![h] = o]
  BY DEF EndTransfer, Outcomes, Good
<1>3. QED
  BY <1>1, <1>2

LEMMA InitPool == Init => InvPool
BY DEF Init, InvPool, Pooled

LEMMA ResetPool ==
  ASSUME Reset, pc' \in {"idle", "list"}
  PROVE  InvPool'
BY DEF Reset, InvPool, Pooled

LEMMA NextPool == TypeOK /\ InvPool /\ [Next]_vars => InvPool'
<1> SUFFICES ASSUME TypeOK, InvPool, [Next]_vars
             PROVE  InvPool'
  OBVIOUS
<1>0. returned \cup collected \subseteq Hrefs
  BY DEF TypeOK
<1>1. ASSUME NEW again, NEW fs, Start(again, fs)
      PROVE  InvPool'
  BY <1>1, ResetPool DEF Start
<1>2. CASE StartFull
  BY <1>1, <1>2 DEF StartFull
<1>3. ASSUME NEW c \in Clients, StartRetry(c)
      PROVE  InvPool'
  BY <1>1, <1>3 DEF StartRetry
<1>4. CASE Crash
  BY <1>4, ResetPool DEF Crash
<1> USE DEF InvPool, Pooled, lists, pool
<1>5. ASSUME NEW c \in Clients, SnapshotFailed(c) \/ RefuseRetry(c)
      PROVE  InvPool'
  BY <1>5 DEF SnapshotFailed, RefuseRetry
<1>6. CASE List
  BY <1>6 DEF List
<1>7. CASE ListFails
  BY <1>7 DEF ListFails, Fail
<1>8. CASE Precheck
  BY <1>8 DEF Precheck, CountPrecheck, Complete
<1>9. CASE PrecheckFails
  BY <1>9 DEF PrecheckFails, CountPrecheck, Complete, Fail
<1>10. CASE Collect
  BY <1>10 DEF Collect
<1>11. CASE Register \/ RegisterFails
  BY <1>11 DEF Register, RegisterFails
<1>12. CASE FinalFlush
  BY <1>12 DEF FinalFlush, PoolIdle
<1>13. CASE Drained
  BY <1>13 DEF Drained, Fail, PoolIdle
<1>14. CASE Finish
  BY <1>14 DEF Finish
<1>15. ASSUME NEW h \in Hrefs, BeginTransfer(h)
       PROVE  InvPool'
  BY <1>15 DEF BeginTransfer
<1>16. ASSUME NEW h \in Hrefs, EndTransfer(h)
       PROVE  InvPool'
  <2>1. /\ outcome'[h] \in Outcomes
        /\ \A g \in Hrefs : g # h => outcome'[g] = outcome[g]
    BY <1>16, OneOutcome
  <2>2. \A g \in returned' \cup collected' : outcome'[g] \in Outcomes
    BY <1>0, <1>16, <2>1 DEF EndTransfer
  <2>3. QED
    BY <1>16, <2>2 DEF EndTransfer
<1>17. CASE UNCHANGED vars
  BY <1>17 DEF vars
<1>18. QED
  BY <1>2, <1>3, <1>4, <1>5, <1>6, <1>7, <1>8, <1>9, <1>10, <1>11, <1>12,
     <1>13, <1>14, <1>15, <1>16, <1>17 DEF Next, Coordinator

-----------------------------------------------------------------------------
(***************************************************************************)
(* The counters.                                                           *)
(***************************************************************************)

LEMMA OneMore ==
  ASSUME NEW S \in SUBSET Hrefs, NEW h \in Hrefs \ S
  PROVE  Cardinality(S \cup {h}) = Cardinality(S) + 1
BY HrefSubsets, FS_AddElement

LEMMA OneLess ==
  ASSUME NEW S \in SUBSET Hrefs, NEW h \in S
  PROVE  /\ Cardinality(S) # 0
         /\ Cardinality(S \ {h}) = Cardinality(S) - 1
BY HrefSubsets, FS_RemoveElement, FS_EmptySet

LEMMA Disjoint ==
  ASSUME NEW S \in SUBSET Hrefs, NEW T \in SUBSET Hrefs, S \cap T = {}
  PROVE  Cardinality(S \cup T) = Cardinality(S) + Cardinality(T)
<1>1. IsFiniteSet(S) /\ IsFiniteSet(T)
  BY HrefSubsets
<1>2. Cardinality(S \cup T)
        = Cardinality(S) + Cardinality(T) - Cardinality(S \cap T)
  BY <1>1, FS_Union
<1>3. Cardinality(S \cap T) = 0
  BY FS_EmptySet
<1>4. Cardinality(S) \in Nat /\ Cardinality(T) \in Nat
  BY HrefSubsets
<1>5. QED
  BY <1>2, <1>3, <1>4

LEMMA InitCounts == Init => InvCounts
BY FS_EmptySet DEF Init, InvCounts, Pooled

LEMMA ResetCounts ==
  ASSUME Reset, pc' \in {"idle", "list"}
  PROVE  InvCounts'
BY FS_EmptySet DEF Reset, InvCounts, Pooled

LEMMA NextCounts == TypeOK /\ InvPool /\ InvCounts /\ [Next]_vars => InvCounts'
<1> SUFFICES ASSUME TypeOK, InvPool, InvCounts, [Next]_vars
             PROVE  InvCounts'
  OBVIOUS
<1>0. /\ {waiting, inflight, returned, collected, prechecked, files, active}
           \subseteq SUBSET Hrefs
      /\ {completed, downloaded, skipped, failed, queued, total} \subseteq Nat
  BY DEF TypeOK
<1>1. ASSUME NEW again, NEW fs, Start(again, fs)
      PROVE  InvCounts'
  BY <1>1, ResetCounts DEF Start
<1>2. CASE StartFull
  BY <1>1, <1>2 DEF StartFull
<1>3. ASSUME NEW c \in Clients, StartRetry(c)
      PROVE  InvCounts'
  BY <1>1, <1>3 DEF StartRetry
<1>4. CASE Crash
  BY <1>4, ResetCounts DEF Crash
<1>5. pc \in {"list", "precheck"} => /\ waiting = {} /\ inflight = {}
                                     /\ returned = {} /\ collected = {}
                                     /\ prechecked = {}
  BY DEF InvPool
<1> USE DEF InvCounts, Pooled, tally, lists, pool
<1>6. ASSUME NEW c \in Clients, SnapshotFailed(c) \/ RefuseRetry(c)
      PROVE  InvCounts'
  BY <1>6 DEF SnapshotFailed, RefuseRetry
<1>7. CASE List
  BY <1>5, <1>7 DEF List, TakeFiles
<1>8. CASE ListFails
  BY <1>5, <1>8 DEF ListFails, Fail
<1>9. ASSUME pc = "precheck", CountPrecheck
      PROVE  /\ completed' = downloaded + skipped' + failed
             /\ completed' = Cardinality(prechecked') + Cardinality(collected)
  <2>1. Complete \in SUBSET Hrefs
    BY <1>0 DEF Complete
  <2>2. Cardinality(Complete) \in Nat /\ Cardinality(collected) = 0
    BY <1>5, <1>9, <2>1, HrefSubsets, FS_EmptySet
  <2>3. QED
    BY <1>9, <2>2 DEF CountPrecheck
<1>10. CASE Precheck
  BY <1>5, <1>9, <1>10 DEF Precheck, CountPrecheck
<1>11. CASE PrecheckFails
  BY <1>9, <1>11 DEF PrecheckFails, CountPrecheck, Fail
<1>12. CASE Collect
  <2>1. PICK h \in returned :
          /\ returned' = returned \ {h}
          /\ collected' = collected \cup {h}
          /\ active' = active \ {h}
          /\ completed' = completed + 1
          /\ downloaded' = downloaded + One(outcome[h] = "downloaded")
          /\ skipped' = skipped + One(outcome[h] = "skipped")
          /\ failed' = failed + One(outcome[h] \notin Good)
    BY <1>12 DEF Collect
  <2>2. h \in Hrefs \ collected
    BY <1>0, <2>1 DEF InvPool
  <2>3. Cardinality(collected') = Cardinality(collected) + 1
    BY <1>0, <2>1, <2>2, OneMore
  <2>4. Cardinality(collected) \in Nat /\ Cardinality(prechecked) \in Nat
    BY <1>0, HrefSubsets
  <2>5. completed' = downloaded' + skipped' + failed'
    BY <1>0, <2>1 DEF One, Good
  <2>6. active' = inflight \cup returned'
    BY <1>12, <2>1 DEF Collect, InvPool
  <2>7. UNCHANGED <<prechecked, inflight, waiting, queued, total, files>>
    BY <1>12 DEF Collect
  <2>8. pc = "collect" /\ pc' = "register"
    BY <1>12 DEF Collect
  <2>9. completed' = Cardinality(prechecked') + Cardinality(collected')
    BY <1>0, <2>1, <2>3, <2>4, <2>7
  <2>10. QED
    BY <2>5, <2>6, <2>7, <2>8, <2>9
<1>13. CASE Register \/ RegisterFails
  BY <1>13 DEF Register, RegisterFails
<1>14. CASE FinalFlush
  BY <1>14 DEF FinalFlush
<1>15. CASE Drained
  BY <1>15 DEF Drained, Fail
<1>16. CASE Finish
  BY <1>16 DEF Finish
<1>17. ASSUME NEW h \in Hrefs, BeginTransfer(h)
       PROVE  InvCounts'
  <2>1. pc \in Pooled
    BY <1>17 DEF BeginTransfer, InvPool, TypeOK
  <2>2. Cardinality(waiting) # 0
        /\ Cardinality(waiting') = Cardinality(waiting) - 1
    BY <1>0, <1>17, OneLess DEF BeginTransfer
  <2>3. queued' = Cardinality(waiting')
    BY <1>0, <1>17, <2>1, <2>2 DEF BeginTransfer, Dequeue
  <2>4. QED
    BY <1>17, <2>1, <2>3 DEF BeginTransfer
<1>18. ASSUME NEW h \in Hrefs, EndTransfer(h)
       PROVE  InvCounts'
  <2>1. pc \in Pooled
    BY <1>18 DEF EndTransfer, InvPool, TypeOK
  <2>2. QED
    BY <1>18, <2>1 DEF EndTransfer
<1>19. CASE UNCHANGED vars
  BY <1>19 DEF vars
<1>20. QED
  BY <1>2, <1>3, <1>4, <1>6, <1>7, <1>8, <1>10, <1>11, <1>12, <1>13, <1>14,
     <1>15, <1>16, <1>17, <1>18, <1>19 DEF Next, Coordinator

-----------------------------------------------------------------------------
(***************************************************************************)
(* The count of failures.                                                  *)
(***************************************************************************)

LEMMA InitFailed == Init => InvFailed
BY FS_EmptySet DEF Init, InvFailed, Failures

LEMMA ResetFailed ==
  ASSUME Reset
  PROVE  InvFailed'
<1>1. Failures' = {} /\ failed' = 0
  BY DEF Reset, Failures
<1>2. QED
  BY <1>1, FS_EmptySet DEF InvFailed

\* A step that neither counts a failure nor touches a file already accounted.
LEMMA SameFailed ==
  ASSUME InvFailed, UNCHANGED <<failed, collected>>,
         \A h \in collected : outcome'[h] = outcome[h]
  PROVE  InvFailed'
<1>1. Failures' = Failures
  BY DEF Failures
<1>2. QED
  BY <1>1 DEF InvFailed

LEMMA NextFailed ==
  TypeOK /\ InvPool /\ InvFailed /\ [Next]_vars => InvFailed'
<1> SUFFICES ASSUME TypeOK, InvPool, InvFailed, [Next]_vars
             PROVE  InvFailed'
  OBVIOUS
<1>1. ASSUME UNCHANGED <<failed, collected, outcome>>
      PROVE  InvFailed'
  BY <1>1, SameFailed
<1> USE DEF tally, lists, pool
<1>2. CASE StartFull \/ (\E c \in Clients : StartRetry(c)) \/ Crash
  BY <1>2, ResetFailed DEF StartFull, StartRetry, Start, Crash
<1>3. CASE \E c \in Clients : SnapshotFailed(c) \/ RefuseRetry(c)
  BY <1>1, <1>3 DEF SnapshotFailed, RefuseRetry
<1>4. CASE List \/ ListFails \/ Precheck \/ PrecheckFails
  BY <1>1, <1>4 DEF List, ListFails, Precheck, PrecheckFails
<1>5. CASE Collect
  <2>1. PICK h \in returned : /\ collected' = collected \cup {h}
                              /\ failed' = failed + One(outcome[h] \notin Good)
    BY <1>5 DEF Collect
  <2>2. h \in Hrefs /\ h \notin collected /\ Failures \in SUBSET Hrefs
    BY <2>1 DEF InvPool, TypeOK, Failures
  <2>3. outcome' = outcome
    BY <1>5 DEF Collect
  <2>4. CASE outcome[h] \in Good
    <3>1. Failures' = Failures
      BY <2>1, <2>3, <2>4 DEF Failures
    <3>2. failed' = failed
      BY <2>1, <2>4 DEF One, TypeOK
    <3>3. QED
      BY <3>1, <3>2 DEF InvFailed
  <2>5. CASE outcome[h] \notin Good
    <3>1. Failures' = Failures \cup {h} /\ h \notin Failures
      BY <2>1, <2>2, <2>3, <2>5 DEF Failures
    <3>2. failed' = failed + 1
      BY <2>1, <2>5 DEF One
    <3>3. QED
      BY <2>2, <3>1, <3>2, OneMore DEF InvFailed
  <2>6. QED
    BY <2>4, <2>5
<1>6. CASE Register \/ RegisterFails \/ FinalFlush \/ Drained \/ Finish
  BY <1>1, <1>6 DEF Register, RegisterFails, FinalFlush, Drained, Finish
<1>7. ASSUME NEW h \in Hrefs, BeginTransfer(h)
      PROVE  InvFailed'
  BY <1>1, <1>7 DEF BeginTransfer
<1>8. ASSUME NEW h \in Hrefs, EndTransfer(h)
      PROVE  InvFailed'
  <2>1. UNCHANGED <<failed, collected>>
    BY <1>8 DEF EndTransfer
  <2>2. h \notin collected /\ collected \subseteq Hrefs
    BY <1>8 DEF EndTransfer, InvPool, TypeOK
  <2>3. \A g \in collected : outcome'[g] = outcome[g]
    BY <1>8, <2>2, OneOutcome
  <2>4. QED
    BY <2>1, <2>3, SameFailed
<1>9. CASE UNCHANGED vars
  BY <1>1, <1>9 DEF vars
<1>10. QED
  BY <1>2, <1>3, <1>4, <1>5, <1>6, <1>7, <1>8, <1>9 DEF Next, Coordinator

-----------------------------------------------------------------------------
(***************************************************************************)
(* What a job that closes without an error has done.                       *)
(***************************************************************************)

LEMMA InitClosed == Init => InvClosed
BY DEF Init, InvClosed, Clean

LEMMA ResetClosed ==
  ASSUME Reset, pc' \in {"idle", "list"}
  PROVE  InvClosed'
BY DEF Reset, InvClosed, Clean

LEMMA NextClosed ==
  /\ TypeOK /\ InvPool /\ InvFlags /\ InvCounts /\ InvClosed /\ InvStored
  /\ [Next]_vars
  => InvClosed'
<1> SUFFICES ASSUME TypeOK, InvPool, InvFlags, InvCounts, InvClosed, InvStored,
                    [Next]_vars
             PROVE  InvClosed'
  OBVIOUS
<1>1. ASSUME NEW again, NEW fs, Start(again, fs)
      PROVE  InvClosed'
  BY <1>1, ResetClosed DEF Start
<1>2. CASE StartFull
  BY <1>1, <1>2 DEF StartFull
<1>3. ASSUME NEW c \in Clients, StartRetry(c)
      PROVE  InvClosed'
  BY <1>1, <1>3 DEF StartRetry
<1>4. CASE Crash
  BY <1>4, ResetClosed DEF Crash
<1>5. pc # "idle" => ~done
  BY DEF InvFlags
<1> USE DEF InvClosed, Clean, flags, tally, retry, lists, buffer, pool
<1>6. ASSUME NEW c \in Clients, SnapshotFailed(c) \/ RefuseRetry(c)
      PROVE  InvClosed'
  BY <1>6 DEF SnapshotFailed, RefuseRetry
<1>7. CASE List
  <2>1. /\ pc = "list" /\ ~done /\ ~done'
        /\ pc' = IF files' = {} THEN "finally" ELSE "precheck"
        /\ total' = Cardinality(files')
        /\ UNCHANGED <<pool, prechecked, pending, failedFiles>>
    BY <1>5, <1>7 DEF List, TakeFiles
  <2>2. collected = {} /\ prechecked = {} /\ pending = {}
    BY <2>1 DEF InvPool, InvStored
  <2>3. QED
    BY <2>1, <2>2
<1>8. CASE ListFails
  BY <1>5, <1>8 DEF ListFails, Fail
<1>9. CASE Precheck
  BY <1>5, <1>9 DEF Precheck
<1>10. CASE PrecheckFails
  BY <1>5, <1>10 DEF PrecheckFails, Fail
<1>11. CASE Collect
  <2>1. PICK h \in returned :
          /\ collected' = collected \cup {h}
          /\ failedFiles' = ListFailure(h)
    BY <1>11 DEF Collect
  <2>2. h \notin collected /\ outcome' = outcome
    BY <1>11, <2>1 DEF Collect, InvPool
  <2>3. failedFiles' = {g \in collected' : outcome'[g] = "failed"}
    BY <2>1, <2>2 DEF ListFailure
  <2>4. ~Clean' /\ ~done'
    BY <1>5, <1>11 DEF Collect
  <2>5. QED
    BY <2>3, <2>4
<1>12. CASE Register \/ RegisterFails
  BY <1>5, <1>12 DEF Register, RegisterFails
<1>13. CASE FinalFlush
  <2>1. pc = "collect" /\ PoolIdle /\ returned = {} /\ pending' = {}
    BY <1>13 DEF FinalFlush, Flush
  <2>2. files = prechecked \cup collected
    BY <2>1 DEF InvPool, Pooled, PoolIdle
  <2>3. total = Cardinality(files)
    BY <2>1 DEF InvCounts, Pooled
  <2>4. ~done'
    BY <1>5, <1>13 DEF FinalFlush
  <2>5. UNCHANGED <<files, prechecked, collected, total, failedFiles, outcome>>
    BY <1>13 DEF FinalFlush
  <2>6. QED
    BY <2>1, <2>2, <2>3, <2>4, <2>5
<1>14. CASE Drained
  BY <1>5, <1>14 DEF Drained, Fail
<1>15. CASE Finish
  BY <1>15 DEF Finish
<1>16. ASSUME NEW h \in Hrefs, BeginTransfer(h)
       PROVE  InvClosed'
  BY <1>16 DEF BeginTransfer
<1>17. ASSUME NEW h \in Hrefs, EndTransfer(h)
       PROVE  InvClosed'
  <2>1. \A g \in Hrefs : g # h => outcome'[g] = outcome[g]
    BY <1>17, OneOutcome
  <2>2. h \notin collected /\ collected \subseteq Hrefs
    BY <1>17 DEF EndTransfer, InvPool, TypeOK
  <2>3. {g \in collected : outcome'[g] = "failed"}
          = {g \in collected : outcome[g] = "failed"}
    BY <2>1, <2>2
  <2>4. QED
    BY <1>17, <2>3 DEF EndTransfer
<1>18. CASE UNCHANGED vars
  BY <1>18 DEF vars
<1>19. QED
  BY <1>2, <1>3, <1>4, <1>6, <1>7, <1>8, <1>9, <1>10, <1>11, <1>12, <1>13,
     <1>14, <1>15, <1>16, <1>17, <1>18 DEF Next, Coordinator

-----------------------------------------------------------------------------
(***************************************************************************)
(* What is on disk and in the table.                                       *)
(***************************************************************************)

LEMMA InitStored == Init => InvStored
BY DEF Init, InvStored, RowsHaveFiles, Accounted

LEMMA ResetStored ==
  ASSUME InvStored, Reset, UNCHANGED stable
  PROVE  InvStored'
BY DEF InvStored, RowsHaveFiles, Reset, Accounted, stable

\* A step that leaves the disk, the table, the buffer and what is settled as
\* they are keeps InvStored, whether or not it sets the error, provided the
\* file in hand stays the same or its record is taken care of.
LEMMA SameStored ==
  ASSUME InvStored,
         UNCHANGED <<files, prechecked, existing, pending, returned, collected,
                     outcome, disk, rows>>,
         pc' \notin {"list", "precheck"} \/ pending' = {},
         error' \/ UNCHANGED <<error, pc, current>>
  PROVE  InvStored'
BY DEF InvStored, RowsHaveFiles, Accounted, Landed

\* Precheck and PrecheckFails: files found complete are on disk.
LEMMA CompleteLanded ==
  ASSUME NEW h \in Complete
  PROVE  Landed(h)
BY DEF Complete, Fits, Landed

LEMMA NextStored ==
  /\ TypeOK /\ InvPool /\ InvFlags /\ InvStored
  /\ [Next]_vars
  => InvStored'
<1> SUFFICES ASSUME TypeOK, InvPool, InvFlags, InvStored, [Next]_vars
             PROVE  InvStored'
  OBVIOUS
<1> USE DEF flags, tally, retry, lists, buffer, pool
<1>1. ASSUME NEW again, NEW fs, Start(again, fs)
      PROVE  InvStored'
  BY <1>1, ResetStored DEF Start
<1>2. CASE StartFull
  BY <1>1, <1>2 DEF StartFull
<1>3. ASSUME NEW c \in Clients, StartRetry(c)
      PROVE  InvStored'
  BY <1>1, <1>3 DEF StartRetry
<1>4. CASE Crash
  BY <1>4, ResetStored DEF Crash
<1>5. ASSUME NEW c \in Clients, SnapshotFailed(c) \/ RefuseRetry(c)
      PROVE  InvStored'
  <2>1. UNCHANGED <<files, prechecked, existing, pending, returned, collected,
                    outcome, disk, rows, error, pc, current>>
    BY <1>5 DEF SnapshotFailed, RefuseRetry, stable
  <2>2. pc' \notin {"list", "precheck"} \/ pending' = {}
    BY <2>1 DEF InvStored
  <2>3. QED
    BY <2>1, <2>2, SameStored
<1>6. pc \in {"list", "precheck"} =>
        /\ pending = {} /\ prechecked = {} /\ returned = {} /\ collected = {}
        /\ existing \subseteq rows
  BY DEF InvPool, InvStored
<1>7. CASE List
  <2>1. /\ existing' \subseteq rows' /\ pending' = {} /\ prechecked' = {}
        /\ returned' = {} /\ collected' = {} /\ rows' = rows /\ disk' = disk
    BY <1>6, <1>7 DEF List, stable
  <2>2. QED
    BY <2>1 DEF InvStored, RowsHaveFiles, Accounted
<1>8. CASE ListFails
  <2>1. /\ existing' \subseteq rows' /\ pending' = {} /\ prechecked' = {}
        /\ returned' = {} /\ collected' = {} /\ rows' = rows /\ disk' = disk
    BY <1>6, <1>8 DEF ListFails, stable
  <2>2. QED
    BY <2>1 DEF InvStored, RowsHaveFiles, Accounted
<1>9. ASSUME NEW stored \in SUBSET Unregistered, rows' = rows \cup stored,
             pc = "precheck", UNCHANGED <<disk, pending>>
      PROVE  RowsHaveFiles'
  <2>1. \A p \in Unregistered : disk[p] # NoFile
    BY DEF Unregistered, Complete, Fits
  <2>2. QED
    BY <1>9, <2>1 DEF InvStored, RowsHaveFiles
<1>10. ASSUME CountPrecheck, UNCHANGED <<disk, files>>
       PROVE  \A h \in prechecked' : Landed(h)'
  <2>1. prechecked' = Complete
    BY <1>10 DEF CountPrecheck
  <2>2. \A h : Landed(h) => Landed(h)'
    BY <1>10 DEF Landed
  <2>3. QED
    BY <2>1, <2>2, CompleteLanded
<1>11. CASE Precheck
  <2>1. /\ pc = "precheck" /\ pc' = "collect" /\ CountPrecheck
        /\ rows' = rows \cup Unregistered
        /\ existing' = existing \cup Unregistered
        /\ UNCHANGED <<disk, files, pending, returned, collected>>
    BY <1>11 DEF Precheck
  <2>2. RowsHaveFiles'
    BY <1>9, <2>1
  <2>3. \A h \in prechecked' : Landed(h)'
    BY <1>10, <2>1
  <2>4. existing' \subseteq rows' /\ returned' = {} /\ collected' = {}
    BY <1>6, <2>1
  <2>5. \A h \in prechecked' : LocalOf(files', h) \in rows'
    BY <1>6, <2>1 DEF CountPrecheck, Unregistered
  <2>6. QED
    BY <2>1, <2>2, <2>3, <2>4, <2>5 DEF InvStored, Accounted
<1>12. CASE PrecheckFails
  <2>1. PICK stored \in SUBSET Unregistered : rows' = rows \cup stored
    BY <1>12 DEF PrecheckFails
  <2>2. /\ pc = "precheck" /\ pc' = "finally" /\ CountPrecheck
        /\ UNCHANGED <<disk, files, existing, pending, returned, collected>>
    BY <1>12 DEF PrecheckFails, Fail
  <2>3. error'
    BY <1>12 DEF PrecheckFails, Fail
  <2>4. RowsHaveFiles'
    BY <1>9, <2>1, <2>2
  <2>5. \A h \in prechecked' : Landed(h)'
    BY <1>10, <2>2
  <2>6. existing' \subseteq rows' /\ returned' = {} /\ collected' = {}
    BY <1>6, <2>1, <2>2
  <2>7. QED
    BY <2>2, <2>3, <2>4, <2>5, <2>6 DEF InvStored
<1>13. CASE Collect
  <2>1. PICK h \in returned : /\ returned' = returned \ {h}
                              /\ collected' = collected \cup {h}
                              /\ current' = h
    BY <1>13 DEF Collect
  <2>2. /\ pc = "collect" /\ pc' = "register"
        /\ UNCHANGED <<error, files, prechecked, existing, pending, outcome,
                       disk, rows>>
    BY <1>13 DEF Collect, stable
  <2>3. /\ RowsHaveFiles'
        /\ existing' \subseteq rows' \cup pending'
        /\ \A g \in prechecked' : Landed(g)'
        /\ \A g \in returned' \cup collected' : outcome'[g] \in Good => Landed(g)'
    BY <2>1, <2>2 DEF InvStored, RowsHaveFiles, Landed
  <2>4. ~error' => \A g \in files' : Accounted(g)' /\ g # current' =>
          LocalOf(files', g) \in rows' \cup pending'
    BY <2>1, <2>2 DEF InvStored, Accounted
  <2>5. QED
    BY <2>2, <2>3, <2>4 DEF InvStored
<1>14. ASSUME pc = "register"
       PROVE  /\ current \in collected /\ current \in files
              /\ Accounted(current) =>
                   LocalOf(files, current) \in existing \cup NewRecord
  BY <1>14 DEF InvPool, Accounted, NewRecord
<1>15. ASSUME pc = "register", ~StatFails,
              existing' = existing \cup NewRecord,
              rows' \cup pending' = rows \cup pending \cup NewRecord,
              pc' \notin {"list", "precheck"},
              UNCHANGED <<files, prechecked, returned, collected, outcome, disk,
                          error>>
       PROVE  InvStored'
  <2>1. RowsHaveFiles'
    BY <1>15 DEF InvStored, RowsHaveFiles, StatFails
  <2>2. existing' \subseteq rows' \cup pending'
    BY <1>15 DEF InvStored
  <2>3. /\ \A g \in prechecked' : Landed(g)'
        /\ \A g \in returned' \cup collected' : outcome'[g] \in Good => Landed(g)'
    BY <1>15 DEF InvStored, Landed
  <2>4. Accounted(current) => LocalOf(files, current) \in existing'
    BY <1>14, <1>15 DEF Accounted
  <2>5. ~error' => \A g \in files' : Accounted(g)' =>
          LocalOf(files', g) \in rows' \cup pending'
    BY <1>15, <2>2, <2>4 DEF InvStored, Accounted
  <2>6. QED
    BY <1>15, <2>1, <2>2, <2>3, <2>5 DEF InvStored
<1>16. CASE Register
  <2>1. rows' \cup pending' = rows \cup pending \cup NewRecord
    BY <1>16 DEF Register, Flush
  <2>2. QED
    BY <1>15, <1>16, <2>1 DEF Register
<1>17. CASE RegisterFails
  <2>1. CASE StatFails /\ UNCHANGED buffer
    <3>1. /\ pc = "register" /\ pc' = "drain"
          /\ UNCHANGED <<files, prechecked, existing, pending, returned,
                         collected, outcome, disk, rows, error, current>>
      BY <1>17, <2>1 DEF RegisterFails, stable
    <3>2. QED
      BY <3>1 DEF InvStored, RowsHaveFiles, Landed
  <2>2. CASE ~StatFails /\ pending' = pending \cup NewRecord
                        /\ existing' = existing \cup NewRecord
    BY <1>15, <1>17, <2>2 DEF RegisterFails, stable
  <2>3. QED
    BY <1>17, <2>1, <2>2 DEF RegisterFails
<1>18. CASE FinalFlush
  <2>1. /\ pc = "collect" /\ pc' = "finally"
        /\ rows' = rows \cup pending /\ pending' = {}
        /\ UNCHANGED <<files, prechecked, existing, returned, collected,
                       outcome, disk, error, current>>
    BY <1>18 DEF FinalFlush, Flush
  <2>2. QED
    BY <2>1 DEF InvStored, RowsHaveFiles, Accounted, Landed
<1>19. CASE Drained
  <2>1. error' /\ pc' = "finally"
    BY <1>19 DEF Drained, Fail
  <2>2. UNCHANGED <<files, prechecked, existing, pending, returned, collected,
                    outcome, disk, rows>>
    BY <1>19 DEF Drained, stable
  <2>3. QED
    BY <2>1, <2>2, SameStored
<1>20. CASE Finish
  <2>1. /\ pc = "finally" /\ pc' = "idle"
        /\ UNCHANGED <<files, prechecked, existing, pending, returned,
                       collected, outcome, disk, rows, error, current>>
    BY <1>20 DEF Finish, stable
  <2>2. QED
    BY <2>1 DEF InvStored, RowsHaveFiles, Accounted, Landed
<1>21. ASSUME NEW h \in Hrefs, BeginTransfer(h)
       PROVE  InvStored'
  <2>1. UNCHANGED <<files, prechecked, existing, pending, returned, collected,
                    outcome, disk, rows, error, pc, current>>
    BY <1>21 DEF BeginTransfer, stable
  <2>2. pc' \notin {"list", "precheck"} \/ pending' = {}
    BY <2>1 DEF InvStored
  <2>3. QED
    BY <2>1, <2>2, SameStored
<1>22. ASSUME NEW h \in Hrefs, EndTransfer(h)
       PROVE  InvStored'
  <2> DEFINE p == LocalOf(files, h)
  <2>1. /\ h \in inflight /\ h \in files /\ files \in SUBSET Hrefs
        /\ h \notin prechecked /\ h \notin collected /\ h \notin returned
        /\ prechecked \cup returned \cup collected \subseteq files
    BY <1>22 DEF EndTransfer, InvPool, TypeOK
  <2>2. /\ returned' = returned \cup {h}
        /\ UNCHANGED <<files, prechecked, existing, pending, collected, rows,
                       error, pc, current>>
    BY <1>22 DEF EndTransfer
  <2>3. disk \in [Paths -> Hrefs \cup {NoFile}]
    BY DEF TypeOK
  <2>4. disk' = disk \/ disk' = [disk EXCEPT ![p] = h]
    BY <1>22 DEF EndTransfer
  <2>5. \A q \in Paths : disk[q] # NoFile => disk'[q] # NoFile
    BY <2>3, <2>4, JobAssumption DEF JobAssumption
  <2>6. ASSUME NEW g \in files, g # h
        PROVE  Landed(g)' <=> Landed(g)
    <3>1. LocalOf(files, g) \in Paths /\ LocalOf(files, g) # p
      BY <2>1, <2>6, LocalOfType, LocalOfInjective
    <3>2. disk'[LocalOf(files, g)] = disk[LocalOf(files, g)]
      BY <2>3, <2>4, <3>1
    <3>3. QED
      BY <2>2, <3>2 DEF Landed
  <2>7. \A g \in Hrefs : g # h => outcome'[g] = outcome[g]
    BY <1>22, OneOutcome
  <2>8. outcome'[h] \in Good => Landed(h)'
    <3>1. p \in Paths
      BY LocalOfType
    <3>2. outcome \in [Hrefs -> Outcomes \cup {"none"}]
      BY DEF TypeOK
    <3>3. CASE Fits(h, disk[p]) /\ UNCHANGED disk
      BY <2>2, <3>3 DEF Landed, Fits
    <3>4. CASE disk' = [disk EXCEPT ![p] = h]
      <4>1. disk'[p] = h /\ h # NoFile
        BY <2>3, <3>1, <3>4, JobAssumption DEF JobAssumption
      <4>2. QED
        BY <2>2, <4>1 DEF Landed
    <3>5. CASE \E o \in Outcomes \ Good : outcome' = [outcome EXCEPT ![h] = o]
      BY <3>2, <3>5
    <3>6. QED
      BY <1>22, <3>3, <3>4, <3>5 DEF EndTransfer
  <2>9. RowsHaveFiles'
    <3>1. rows \cup pending \subseteq Paths
      BY DEF TypeOK
    <3>2. QED
      BY <2>2, <2>5, <3>1 DEF InvStored, RowsHaveFiles
  <2>10. \A g \in prechecked' : Landed(g)'
    BY <2>1, <2>2, <2>6 DEF InvStored
  <2>11. \A g \in returned' \cup collected' :
           outcome'[g] \in Good => Landed(g)'
    BY <2>1, <2>2, <2>6, <2>7, <2>8 DEF InvStored
  <2>12. ~error' /\ pc' # "drain" => \A g \in files' :
           Accounted(g)' /\ ~(pc' = "register" /\ g = current') =>
             LocalOf(files', g) \in rows' \cup pending'
    BY <2>1, <2>2, <2>7 DEF InvStored, Accounted
  <2>13. QED
    BY <2>2, <2>9, <2>10, <2>11, <2>12 DEF InvStored
<1>23. CASE UNCHANGED vars
  <2>1. UNCHANGED <<files, prechecked, existing, pending, returned, collected,
                    outcome, disk, rows, error, pc, current>>
    BY <1>23 DEF vars, stable
  <2>2. pc' \notin {"list", "precheck"} \/ pending' = {}
    BY <2>1 DEF InvStored
  <2>3. QED
    BY <2>1, <2>2, SameStored
<1>24. QED
  BY <1>2, <1>3, <1>4, <1>5, <1>7, <1>8, <1>11, <1>12, <1>13, <1>16, <1>17,
     <1>18, <1>19, <1>20, <1>21, <1>22, <1>23 DEF Next, Coordinator

-----------------------------------------------------------------------------
(***************************************************************************)
(* The safety properties.                                                  *)
(***************************************************************************)

\* IInv is inductive, hence an invariant.
LEMMA Invariance == Spec => []IInv
<1>1. Init => IInv
  BY InitType, InitPool, InitFlags, InitCounts, InitFailed, InitClosed,
     InitStored DEF IInv
<1>2. IInv /\ [Next]_vars => IInv'
  BY NextType, NextPool, NextFlags, NextCounts, NextFailed, NextClosed,
     NextStored DEF IInv
<1>3. QED
  BY <1>1, <1>2, PTL DEF Spec

\* Every file of a job past its listing is counted exactly once, and a job that
\* ends without an error has completed all of them.
THEOREM JobCountersAgree == Spec => []CountersAgree
<1>1. IInv => CountersAgree
  <2> SUFFICES ASSUME IInv
               PROVE  CountersAgree
    OBVIOUS
  <2>1. /\ {waiting, inflight, returned, collected, prechecked, files}
             \subseteq SUBSET Hrefs
        /\ {completed, downloaded, skipped, failed, queued, total}
             \subseteq Nat
    BY DEF IInv, TypeOK
  <2>2. /\ \A S \in SUBSET Hrefs : Cardinality(S) \in Nat
        /\ Cardinality({}) = 0
    BY HrefSubsets, FS_EmptySet
  <2>3. completed = Cardinality(prechecked) + Cardinality(collected)
    BY DEF IInv, InvCounts
  <2>4. CASE pc \in Pooled
    <3>1. Cardinality(inflight \cup returned)
            = Cardinality(inflight) + Cardinality(returned)
      BY <2>1, Disjoint DEF IInv, InvPool
    <3>2. Cardinality(collected \cup prechecked)
            = Cardinality(collected) + Cardinality(prechecked)
      BY <2>1, Disjoint DEF IInv, InvPool
    <3>3. Cardinality((inflight \cup returned) \cup (collected \cup prechecked))
            = Cardinality(inflight \cup returned)
                + Cardinality(collected \cup prechecked)
      BY <2>1, Disjoint DEF IInv, InvPool
    <3>4. Cardinality(waiting \cup ((inflight \cup returned)
                                       \cup (collected \cup prechecked)))
            = Cardinality(waiting)
                + Cardinality((inflight \cup returned)
                                \cup (collected \cup prechecked))
      BY <2>1, Disjoint DEF IInv, InvPool
    <3>5. files = waiting \cup ((inflight \cup returned)
                                  \cup (collected \cup prechecked))
      BY <2>4 DEF IInv, InvPool
    <3>6. /\ total = Cardinality(files) /\ queued = Cardinality(waiting)
          /\ active = inflight \cup returned
      BY <2>4 DEF IInv, InvCounts
    <3>7. total = completed + queued + Cardinality(active)
      BY <2>1, <2>2, <2>3, <3>2, <3>3, <3>4, <3>5, <3>6
    <3>8. ~done /\ completed = downloaded + skipped + failed
      BY <2>4 DEF IInv, InvFlags, InvCounts, Pooled
    <3>9. QED
      BY <3>7, <3>8 DEF CountersAgree
  <2>5. CASE pc = "precheck"
    <3>1. prechecked = {} /\ collected = {} /\ active = {}
      BY <2>5 DEF IInv, InvPool, InvCounts
    <3>2. queued = Cardinality(files) /\ total = Cardinality(files)
      BY <2>5 DEF IInv, InvCounts
    <3>3. total = completed + queued + Cardinality(active)
      BY <2>1, <2>2, <2>3, <3>1, <3>2
    <3>4. ~done /\ completed = downloaded + skipped + failed
      BY <2>5 DEF IInv, InvFlags, InvCounts
    <3>5. QED
      BY <3>3, <3>4 DEF CountersAgree
  <2>6. CASE pc \notin Pooled \cup {"precheck"}
    <3>1. Cardinality(prechecked \cup collected)
            = Cardinality(prechecked) + Cardinality(collected)
      BY <2>1, Disjoint DEF IInv, InvPool
    <3>2. done /\ ~error => completed = total
      BY <2>3, <3>1 DEF IInv, InvClosed, Clean
    <3>3. completed = downloaded + skipped + failed
      BY DEF IInv, InvCounts
    <3>4. QED
      BY <2>6, <3>2, <3>3 DEF CountersAgree, Pooled
  <2>7. QED
    BY <2>4, <2>5, <2>6
<1>2. QED
  BY <1>1, Invariance, PTL

\* running is cleared only when no thread of the job is left.
THEOREM JobQuiescent == Spec => []Quiescent
<1>1. IInv => Quiescent
  BY DEF IInv, InvFlags, InvPool, InvCounts, Quiescent
<1>2. QED
  BY <1>1, Invariance, PTL

\* What a job that ends without an error counted as downloaded or skipped is on
\* disk, at its expected size, and has a row.
THEOREM JobSuccessIsStored == Spec => []SuccessIsStored
<1>1. IInv => SuccessIsStored
  <2> SUFFICES ASSUME IInv, done, ~error, NEW h \in files, Succeeded(h)
               PROVE  LocalOf(files, h) \in rows /\ Landed(h)
    BY DEF SuccessIsStored, Landed
  <2>1. pc = "idle" /\ pending = {}
    BY DEF IInv, InvFlags, InvClosed, Clean
  <2>2. QED
    BY <2>1 DEF IInv, InvStored, Succeeded, Accounted, Good
<1>2. QED
  BY <1>1, Invariance, PTL

\* The list of the retry holds failures only, the count of failures tells the
\* ones it leaves out, and what a job that ended without an error did not list
\* has a row and a file, of the expected size but for a textless failure.
THEOREM JobFailuresListed == Spec => []FailuresListed
<1>1. IInv => FailuresListed
  <2> SUFFICES ASSUME IInv
               PROVE  FailuresListed
    OBVIOUS
  <2>1. /\ collected \in SUBSET Hrefs
        /\ \A h \in collected : outcome[h] \in Outcomes
        /\ failedFiles = {h \in collected : outcome[h] = "failed"}
    BY DEF IInv, TypeOK, InvPool, InvClosed
  <2>2. /\ failedFiles \cup Textless = Failures
        /\ failedFiles \cap Textless = {}
        /\ failedFiles \in SUBSET Hrefs /\ Textless \in SUBSET Hrefs
    BY <2>1 DEF Failures, Textless, Outcomes, Good
  <2>3. failed = Cardinality(failedFiles) + Cardinality(Textless)
    BY <2>2, Disjoint DEF IInv, InvFailed
  <2>4. ASSUME done, ~error, NEW h \in files \ failedFiles
        PROVE  /\ LocalOf(files, h) \in rows
               /\ disk[LocalOf(files, h)] # NoFile
               /\ h \in Sized \ Textless =>
                    Length[disk[LocalOf(files, h)]] = Length[h]
    <3>1. pc = "idle" /\ pending = {} /\ files = prechecked \cup collected
      BY <2>4 DEF IInv, InvFlags, InvClosed, Clean
    <3>2. Accounted(h)
      BY <2>1, <2>4, <3>1 DEF Accounted
    <3>3. LocalOf(files, h) \in rows
      BY <2>4, <3>1, <3>2 DEF IInv, InvStored
    <3>4. disk[LocalOf(files, h)] # NoFile
      BY <3>3 DEF IInv, InvStored, RowsHaveFiles
    <3>5. h \notin Textless => Landed(h)
      <4>1. h \notin Textless =>
              h \in prechecked \/ (h \in collected /\ outcome[h] \in Good)
        BY <2>1, <2>4, <3>1 DEF Textless, Outcomes, Good
      <4>2. QED
        BY <4>1 DEF IInv, InvStored
    <3>6. QED
      BY <3>3, <3>4, <3>5 DEF Landed
  <2>5. done => (retryAvailable <=> failedFiles # {})
    BY DEF IInv, InvClosed
  <2>6. QED
    BY <2>2, <2>3, <2>4, <2>5 DEF FailuresListed
<1>2. QED
  BY <1>1, Invariance, PTL

\* No row or pending record names a missing file.
THEOREM JobRowsHaveFiles == Spec => []RowsHaveFiles
<1>1. IInv => RowsHaveFiles
  BY DEF IInv, InvStored
<1>2. QED
  BY <1>1, Invariance, PTL

-----------------------------------------------------------------------------
(***************************************************************************)
(* The job implements the ledger.                                          *)
(***************************************************************************)

LEMMA LedgerInit == Init => Ledger!Init
BY DEF Init, Ledger!Init

LEMMA LedgerNext == IInv /\ [Next]_vars => [Ledger!Next]_(Ledger!ledger)
<1> SUFFICES ASSUME IInv, [Next]_vars
             PROVE  Ledger!Next \/ UNCHANGED Ledger!ledger
  OBVIOUS
<1> DEFINE Phase == IF running THEN "running"
                    ELSE IF ~done THEN "idle"
                    ELSE IF error THEN "broken" ELSE "done"
           Todo == IF pc = "list" THEN {} ELSE files
           Ok   == prechecked \cup {h \in collected : outcome[h] \in Good}
           Bad  == {h \in collected : outcome[h] \notin Good}
<1> USE DEF flags, tally, retry, lists, buffer, pool
<1>0. running <=> pc # "idle"
  BY DEF IInv, InvFlags
<1>1. ASSUME NEW again, NEW fs, Start(again, fs)
      PROVE  Ledger!Next
  <2>1. Phase # "running" /\ Phase' = "running"
    BY <1>1 DEF Start
  <2>2. Todo' = {} /\ Ok' = {} /\ Bad' = {}
    BY <1>1 DEF Start, Reset
  <2>3. QED
    BY <2>1, <2>2 DEF Ledger!Next, Ledger!Open
<1>2. CASE Crash
  <2>1. Phase' = "idle" /\ Todo' = {} /\ Ok' = {} /\ Bad' = {}
    BY <1>2 DEF Crash, Reset
  <2>2. QED
    BY <2>1 DEF Ledger!Next, Ledger!Forget
<1>3. ASSUME UNCHANGED <<running, done, error, prechecked, collected>>,
             \A h \in collected : outcome'[h] = outcome[h],
             Todo' = Todo
      PROVE  UNCHANGED Ledger!ledger
  <2>1. Phase' = Phase
    BY <1>3
  <2>2. Ok' = Ok /\ Bad' = Bad
    BY <1>3
  <2>3. QED
    BY <1>3, <2>1, <2>2 DEF Ledger!ledger
<1>4. ASSUME pc = "list", files' \in SUBSET Hrefs, pc' # "list",
             UNCHANGED <<running, prechecked, collected, outcome>>
      PROVE  Ledger!Next
  <2>1. Phase = "running" /\ Phase' = Phase
    BY <1>0, <1>4
  <2>2. Todo = {} /\ Todo' \in SUBSET Hrefs /\ Ok' = Ok /\ Bad' = Bad
    BY <1>4
  <2>3. QED
    BY <2>1, <2>2 DEF Ledger!Next, Ledger!Take
<1>5. ASSUME pc \notin {"list", "idle"}, pc' # "list",
             UNCHANGED <<running, files>>,
             NEW good \in SUBSET (Todo \ (Ok \cup Bad)),
             NEW wrong \in SUBSET (Todo \ (Ok \cup Bad)),
             good \cap wrong = {},
             Ok' = Ok \cup good, Bad' = Bad \cup wrong
      PROVE  Ledger!Next
  <2>1. Phase = "running" /\ Phase' = Phase /\ Todo' = Todo
    BY <1>0, <1>5
  <2>2. Ledger!Settle
    BY <1>5, <2>1 DEF Ledger!Settle
  <2>3. QED
    BY <2>2 DEF Ledger!Next
<1>6. CASE StartFull
  BY <1>1, <1>6 DEF StartFull
<1>7. ASSUME NEW c \in Clients, StartRetry(c)
      PROVE  Ledger!Next
  BY <1>1, <1>7 DEF StartRetry
<1>8. ASSUME NEW c \in Clients, SnapshotFailed(c) \/ RefuseRetry(c)
      PROVE  UNCHANGED Ledger!ledger
  BY <1>3, <1>8 DEF SnapshotFailed, RefuseRetry
<1>9. CASE List \/ ListFails
  <2>1. files' \in SUBSET Hrefs
    BY <1>9 DEF List, ListFails, TakeFiles, IInv, TypeOK
  <2>2. /\ pc = "list" /\ pc' # "list"
        /\ UNCHANGED <<running, prechecked, collected, outcome>>
    BY <1>9 DEF List, ListFails, Fail
  <2>3. QED
    BY <1>4, <2>1, <2>2
<1>10. CASE Precheck \/ PrecheckFails
  <2>1. /\ pc = "precheck" /\ pc' # "list" /\ prechecked' = Complete
        /\ UNCHANGED <<running, files, collected>>
    BY <1>10 DEF Precheck, PrecheckFails, CountPrecheck, Fail
  <2>2. prechecked = {} /\ collected = {} /\ Complete \subseteq files
    BY <2>1 DEF IInv, InvPool, Complete
  <2>3. Ok = {} /\ Bad = {} /\ Ok' = Complete /\ Bad' = {} /\ Todo = files
    BY <2>1, <2>2
  <2>4. QED
    BY <1>5, <2>1, <2>2, <2>3
<1>11. CASE Collect
  <2>1. PICK h \in returned : collected' = collected \cup {h}
    BY <1>11 DEF Collect
  <2>2. /\ pc = "collect" /\ pc' # "list"
        /\ UNCHANGED <<running, files, prechecked, outcome>>
    BY <1>11 DEF Collect
  <2>3. h \in files /\ h \notin prechecked /\ h \notin collected
    BY DEF IInv, InvPool
  <2> DEFINE good  == {g \in {h} : outcome[g] \in Good}
             wrong == {g \in {h} : outcome[g] \notin Good}
  <2>4. /\ good \in SUBSET (Todo \ (Ok \cup Bad))
        /\ wrong \in SUBSET (Todo \ (Ok \cup Bad))
        /\ good \cap wrong = {}
    BY <2>2, <2>3
  <2>5. Ok' = Ok \cup good /\ Bad' = Bad \cup wrong
    BY <2>1, <2>2
  <2>6. QED
    BY <1>5, <2>2, <2>4, <2>5
<1>12. CASE Register \/ RegisterFails
  BY <1>3, <1>12 DEF Register, RegisterFails
<1>13. CASE FinalFlush
  BY <1>3, <1>13 DEF FinalFlush
<1>14. CASE Drained
  <2>1. /\ pc # "list" /\ pc' # "list"
        /\ UNCHANGED <<running, done, files, prechecked, collected, outcome>>
    BY <1>14 DEF Drained, Fail
  <2>2. Phase = "running" /\ Phase' = "running"
    BY <1>0, <1>14, <2>1 DEF Drained
  <2>3. Todo' = Todo /\ Ok' = Ok /\ Bad' = Bad
    BY <2>1
  <2>4. QED
    BY <2>2, <2>3 DEF Ledger!ledger
<1>15. CASE Finish
  <2>1. /\ pc = "finally" /\ pc' = "idle" /\ ~running' /\ done'
        /\ UNCHANGED <<error, files, prechecked, collected, outcome>>
    BY <1>15 DEF Finish
  <2>2. Phase = "running" /\ Todo' = Todo /\ Ok' = Ok /\ Bad' = Bad
    BY <1>0, <2>1
  <2>3. CASE error
    <3>1. Phase' = "broken"
      BY <2>1, <2>3
    <3>2. QED
      BY <2>2, <3>1 DEF Ledger!Next, Ledger!Close
  <2>4. CASE ~error
    <3>1. Phase' = "done"
      BY <2>1, <2>4
    <3>2. files = prechecked \cup collected
      BY <2>1, <2>4 DEF IInv, InvClosed, Clean
    <3>3. Todo = Ok \cup Bad
      BY <2>1, <3>2
    <3>4. QED
      BY <2>2, <3>1, <3>3 DEF Ledger!Next, Ledger!Close
  <2>5. QED
    BY <2>3, <2>4
<1>16. ASSUME NEW h \in Hrefs, BeginTransfer(h)
       PROVE  UNCHANGED Ledger!ledger
  BY <1>3, <1>16 DEF BeginTransfer
<1>17. ASSUME NEW h \in Hrefs, EndTransfer(h)
       PROVE  UNCHANGED Ledger!ledger
  <2>1. h \notin collected /\ collected \subseteq Hrefs
    BY <1>17 DEF EndTransfer, IInv, InvPool, TypeOK
  <2>2. \A g \in collected : outcome'[g] = outcome[g]
    BY <1>17, <2>1, OneOutcome DEF IInv
  <2>3. QED
    BY <1>3, <1>17, <2>2 DEF EndTransfer
<1>18. CASE UNCHANGED vars
  BY <1>3, <1>18 DEF vars
<1>19. QED
  BY <1>2, <1>6, <1>7, <1>8, <1>9, <1>10, <1>11, <1>12, <1>13, <1>14, <1>15,
     <1>16, <1>17, <1>18 DEF Next, Coordinator

\* The job keeps the promise of JobLedger.
THEOREM JobRefinesLedger == Spec => RefinesLedger
<1>1. Spec => Ledger!Init /\ [][Ledger!Next]_(Ledger!ledger)
  BY LedgerInit, LedgerNext, Invariance, PTL DEF Spec
<1>2. QED
  BY <1>1 DEF RefinesLedger, Ledger!Spec
=============================================================================
