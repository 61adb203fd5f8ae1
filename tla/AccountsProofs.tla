--------------------------- MODULE AccountsProofs ---------------------------
(***************************************************************************)
(* The accounts: there is one administrator at most, who stays, and the lock *)
(* on an account holds, for any names, clients, browsers and limits.       *)
(***************************************************************************)
EXTENDS Users, Lockout, FiniteSetTheorems, TLAPS

(***************************************************************************)
(* Users.                                                                  *)
(***************************************************************************)

\* An administrator about to be deleted after a count that still holds leaves
\* another one.
AnotherStays ==
  \A c \in Clients \ stale :
    pc[c] = "delete" /\ role[target[c]] = "admin" => Admins \ {target[c]} # {}

\* An account about to be deleted was given.
ToDeleteWasGiven == \A c \in Clients : pc[c] \in {"count", "delete"} => target[c] \in 1..ids

UsersInv == TypeOK /\ IndexKeepsOne /\ AnotherStays /\ ToDeleteWasGiven

\* What every step must keep.
OneStays == Admins # {} => Admins' # {} \/ \E c \in stale : pc[c] = "delete" /\ pc'[c] = "idle"

\* Initially there are no accounts and no requests.
LEMMA UsersInit == ASSUME Init PROVE UsersInv
  <1>1. TypeOK
    BY UsersAssumption DEF Init, TypeOK, Ids, Roles, Nobody
  <1> QED BY <1>1 DEF Init, UsersInv, IndexKeepsOne, AtMostOneAdmin, AnotherStays, Admins,
                     ToDeleteWasGiven

\* No step spoils the types, with the index or without.
LEMMA UsersTypeStep == ASSUME TypeOK, [Next]_vars PROVE TypeOK'
  <1> USE UsersAssumption DEF TypeOK, Ids, Roles, Nobody, Goto, Admins
  <1>1. CASE UNCHANGED vars
    BY <1>1 DEF vars, table, request
  <1>2. ASSUME NEW c \in Clients, Ask(c) PROVE TypeOK'
    <2>1. ASSUME NEW n \in Names, Setup(c, n) PROVE TypeOK'
      BY <2>1 DEF Setup, table
    <2>2. ASSUME NEW n \in Names, NEW r \in Roles \cup {"other"}, Create(c, n, r)
          PROVE TypeOK'
      BY <2>2 DEF Create, Known, table
    <2>3. ASSUME NEW u \in Ids, AskDelete(c, u) PROVE TypeOK'
      BY <2>3 DEF AskDelete, table
    <2>4. ASSUME NEW u \in Ids, Login(c, u) PROVE TypeOK'
      BY <2>4 DEF Login, table, request
    <2>5. CASE Logout(c)
      BY <2>5 DEF Logout, table, request
    <2> QED BY <1>2, <2>1, <2>2, <2>3, <2>4, <2>5 DEF Ask
  <1>3. ASSUME NEW c \in Clients, Serve(c) PROVE TypeOK'
    <2>1. CASE CheckName(c)
      BY <2>1 DEF CheckName, table, request
    <2>2. CASE CheckAdmin(c)
      BY <2>2 DEF CheckAdmin, table, request
    <2>3. CASE Insert(c)
      BY <2>3 DEF Insert, request
    <2>4. CASE InsertRefused(c)
      BY <2>4 DEF InsertRefused, table, request
    <2>5. CASE Lookup(c)
      BY <2>5 DEF Lookup, table, request
    <2>6. CASE CountAdmins(c)
      BY <2>6 DEF CountAdmins, table, request
    <2>7. CASE DeleteUser(c)
      BY <2>7 DEF DeleteUser, request
    <2> QED BY <1>3, <2>1, <2>2, <2>3, <2>4, <2>5, <2>6, <2>7 DEF Serve
  <1> QED BY <1>1, <1>2, <1>3 DEF Next

\* Steps that leave the table alone leave the administrators alone.
LEMMA SameAdmins ==
  ASSUME UNCHANGED table PROVE Admins' = Admins
  BY DEF table, Admins

\* No request begins to delete, or changes what it deletes.
NothingToDelete ==
  /\ stale' = stale
  /\ \A c \in Clients : pc'[c] \in {"count", "delete"} =>
       pc'[c] = pc[c] /\ target'[c] = target[c]

\* Every step keeps the invariant, and an administrator.
LEMMA UsersStep ==
  ASSUME UsersInv, [Next]_vars
  PROVE  UsersInv' /\ OneStays
  <1>t. TypeOK' BY UsersTypeStep DEF UsersInv
  <1> SUFFICES IndexKeepsOne' /\ AnotherStays' /\ ToDeleteWasGiven' /\ OneStays
    BY <1>t DEF UsersInv
  <1> USE DEF UsersInv
  \* The table and the label of a request: all that most steps matter for.
  <1>a. ASSUME UNCHANGED table, NothingToDelete
        PROVE  IndexKeepsOne' /\ AnotherStays' /\ ToDeleteWasGiven' /\ OneStays
    <2>1. Admins' = Admins /\ engine' = engine /\ role' = role /\ ids' = ids
      BY <1>a, SameAdmins DEF table
    <2> QED BY <1>a, <2>1
            DEF IndexKeepsOne, Indexed, AtMostOneAdmin, AnotherStays, NothingToDelete, OneStays,
               ToDeleteWasGiven
  <1>1. CASE UNCHANGED vars
    BY <1>1, <1>a DEF vars, request, NothingToDelete
  <1>2. ASSUME NEW c \in Clients, Ask(c)
        PROVE  IndexKeepsOne' /\ AnotherStays' /\ ToDeleteWasGiven' /\ OneStays
    <2>1. UNCHANGED table
      BY <1>2 DEF Ask, Setup, Create, AskDelete, Login, Logout
    <2>2. NothingToDelete
      <3> USE DEF TypeOK, Goto, NothingToDelete
      <3>1. ASSUME NEW n \in Names, Setup(c, n) PROVE NothingToDelete
        BY <3>1 DEF Setup
      <3>2. ASSUME NEW n \in Names, NEW r \in Roles \cup {"other"}, Create(c, n, r)
            PROVE NothingToDelete
        BY <3>2 DEF Create
      <3>3. ASSUME NEW u \in Ids, AskDelete(c, u) PROVE NothingToDelete
        BY <3>3 DEF AskDelete
      <3>4. ASSUME NEW u \in Ids, Login(c, u) PROVE NothingToDelete
        BY <3>4 DEF Login, request
      <3>5. CASE Logout(c)
        BY <3>5 DEF Logout, request
      <3> QED BY <1>2, <3>1, <3>2, <3>3, <3>4, <3>5 DEF Ask
    <2> QED BY <2>1, <2>2, <1>a
  <1>3. ASSUME NEW c \in Clients, Serve(c)
        PROVE  IndexKeepsOne' /\ AnotherStays' /\ ToDeleteWasGiven' /\ OneStays
    <2>1. CASE CheckName(c) \/ CheckAdmin(c) \/ InsertRefused(c)
      BY <2>1, <1>a
         DEF CheckName, CheckAdmin, InsertRefused, request, Goto, TypeOK, NothingToDelete
    <2>2. CASE Insert(c)
      <3>1. Indexed /\ newRole[c] = "admin" => Admins = {}
        BY <2>2 DEF Insert, Refused
      <3>2. /\ ids + 1 \in Ids /\ ids + 1 \notin users
            /\ users' = users \cup {ids + 1} /\ engine' = engine
            /\ role' = [role EXCEPT ![ids + 1] = newRole[c]]
            /\ \A u \in 1..ids : role'[u] = role[u]
        BY <2>2, UsersAssumption DEF Insert, TypeOK, Ids
      <3>3. Admins' = Admins \cup (IF newRole[c] = "admin" THEN {ids + 1} ELSE {})
        BY <3>2 DEF Admins, TypeOK
      <3>4. IndexKeepsOne' /\ OneStays
        BY <3>1, <3>2, <3>3 DEF IndexKeepsOne, Indexed, AtMostOneAdmin, OneStays
      <3>5. AnotherStays'
        <4> SUFFICES ASSUME NEW d \in Clients, d \notin stale', pc'[d] = "delete",
                            role'[target'[d]] = "admin"
                     PROVE  Admins' \ {target'[d]} # {}
          BY DEF AnotherStays
        <4>1. pc[d] = "delete" /\ target' = target /\ stale' = stale /\ d # c
          BY <2>2 DEF Insert, TypeOK, Goto, request
        <4>2. target[d] \in 1..ids
          BY <4>1 DEF ToDeleteWasGiven
        <4>3. role[target[d]] = "admin"
          BY <4>1, <4>2, <3>2
        <4> QED BY <4>1, <4>3, <3>3 DEF AnotherStays
      <3>6. ToDeleteWasGiven'
        BY <2>2, <3>2 DEF Insert, ToDeleteWasGiven, TypeOK, Goto, request
      <3> QED BY <3>4, <3>5, <3>6
    <2>3. CASE Lookup(c)
      <3>1. UNCHANGED table /\ UNCHANGED <<target, stale>> /\ Admins' = Admins
        BY <2>3, SameAdmins DEF Lookup, request
      <3>2. IndexKeepsOne' /\ OneStays
        BY <3>1 DEF IndexKeepsOne, Indexed, AtMostOneAdmin, OneStays, table
      <3>3. AnotherStays' /\ ToDeleteWasGiven'
        BY <2>3, <3>1 DEF Lookup, AnotherStays, ToDeleteWasGiven, TypeOK, Goto, table
      <3> QED BY <3>2, <3>3
    <2>4. CASE CountAdmins(c)
      <3>1. UNCHANGED <<table, target>> /\ stale' = stale \ {c} /\ Admins' = Admins
        BY <2>4, SameAdmins DEF CountAdmins
      <3>2. IndexKeepsOne' /\ OneStays
        BY <3>1 DEF IndexKeepsOne, Indexed, AtMostOneAdmin, OneStays, table
      <3>3. MayDelete(c) /\ role[target[c]] = "admin" => Admins \ {target[c]} # {}
        BY DEF MayDelete
      <3>4. AnotherStays'
        BY <2>4, <3>1, <3>3 DEF CountAdmins, AnotherStays, TypeOK, Goto, table
      <3>5. ToDeleteWasGiven'
        BY <2>4, <3>1 DEF CountAdmins, ToDeleteWasGiven, TypeOK, Goto, table
      <3> QED BY <3>2, <3>4, <3>5
    <2>5. CASE DeleteUser(c)
      <3>1. /\ pc[c] = "delete" /\ role' = role /\ target' = target /\ engine' = engine
            /\ Admins' = Admins \ {target[c]} /\ pc' = [pc EXCEPT ![c] = "idle"]
        BY <2>5 DEF DeleteUser, Admins, Goto
      <3>2. IndexKeepsOne'
        BY <3>1 DEF IndexKeepsOne, Indexed, AtMostOneAdmin
      <3>3. OneStays
        BY <3>1 DEF OneStays, AnotherStays, TypeOK, Admins
      <3>4. ASSUME NEW d \in Clients, d \notin stale', pc'[d] = "delete", role[target[d]] = "admin"
            PROVE  Admins' \ {target[d]} # {}
        <4>1. pc[d] = "delete" /\ d # c
          BY <3>1, <3>4 DEF TypeOK
        <4>2. target[c] \notin Admins /\ d \notin stale
          BY <2>5, <3>4, <4>1 DEF DeleteUser
        <4> QED BY <3>1, <3>4, <4>1, <4>2 DEF AnotherStays
      <3>5. ToDeleteWasGiven'
        BY <2>5 DEF DeleteUser, ToDeleteWasGiven, TypeOK, Goto
      <3> QED BY <3>1, <3>2, <3>3, <3>4, <3>5 DEF AnotherStays
    <2> QED BY <1>3, <2>1, <2>2, <2>3, <2>4, <2>5 DEF Serve
  <1> QED BY <1>1, <1>2, <1>3 DEF Next

\* The accounts keep to their types.
THEOREM UsersTypeCorrect == Spec => []TypeOK
  <1>1. Init => TypeOK BY UsersInit DEF UsersInv
  <1> QED BY <1>1, UsersTypeStep, PTL DEF Spec

\* "There must only ever be one administrator", where the index exists.
THEOREM UsersOneAdmin == Spec => []IndexKeepsOne
  <1>1. Init => UsersInv BY UsersInit
  <1>2. UsersInv /\ [Next]_vars => UsersInv' BY UsersStep
  <1>3. UsersInv => IndexKeepsOne BY DEF UsersInv
  <1> QED BY <1>1, <1>2, <1>3, PTL DEF Spec

\* With the index or without, the last administrator goes only in a request that
\* counted before another was deleted.
THEOREM UsersAdminStays == Spec => AdminStays
  <1>1. Init => UsersInv BY UsersInit
  <1>2. UsersInv /\ [Next]_vars => UsersInv' BY UsersStep
  <1>3. UsersInv /\ [Next]_vars => [OneStays]_vars BY UsersStep
  <1>4. [][OneStays]_vars => AdminStays BY PTL DEF AdminStays, OneStays
  <1> QED BY <1>1, <1>2, <1>3, <1>4, PTL DEF Spec

-----------------------------------------------------------------------------
(***************************************************************************)
(* The lockout: what races with it is bounded by one login per browser and *)
(* lock.                                                                   *)
(***************************************************************************)

\* The logins of a name that have passed the check and are not counted yet.
UnderWay(n) == {b \in Browsers : checked[b] = n}

Bound(n) == (MaxFailures - 1) + Cardinality(Browsers) * locks[n]

\* A name that is locked has room for every login that is under way.
RoomWhenLocked ==
  \A n \in LoginNames : n \in Lockouts => failures[n] + Cardinality(UnderWay(n)) <= Bound(n)

LockInv == LockTypeOK /\ FailuresBounded /\ RoomWhenLocked

-----------------------------------------------------------------------------
\* A set of browsers has a number of elements, and not more than there are.
LEMMA BrowsersCount ==
  ASSUME NEW S \in SUBSET Browsers
  PROVE  /\ IsFiniteSet(S) /\ Cardinality(S) \in Nat /\ Cardinality(Browsers) \in Nat
         /\ Cardinality(S) <= Cardinality(Browsers)
  <1>1. IsFiniteSet(Browsers)
    BY LockoutAssumption
  <1> QED BY <1>1, FS_Subset, FS_CardinalityType

\* The bound is a number, and a lock makes room for every browser.
LEMMA BoundGrows ==
  ASSUME NEW x \in Nat
  PROVE  /\ Cardinality(Browsers) * x \in Nat
         /\ Cardinality(Browsers) * (x + 1) = Cardinality(Browsers) * x + Cardinality(Browsers)
  <1>1. Cardinality(Browsers) \in Nat
    BY BrowsersCount
  <1> QED BY <1>1

\* Nobody is locked at the start.
LEMMA LockStarts == ASSUME LockInit PROVE LockInv
  <1>1. LockTypeOK
    BY DEF LockInit, LockTypeOK
  <1>2. FailuresBounded
    <2> SUFFICES ASSUME NEW n \in LoginNames
                 PROVE  failures[n] <= (MaxFailures - 1) + Cardinality(Browsers) * locks[n]
      BY DEF FailuresBounded
    <2>1. failures[n] = 0 /\ locks[n] = 0
      BY DEF LockInit
    <2> QED BY <2>1, BoundGrows, LockoutAssumption
  <1>3. RoomWhenLocked
    BY LockoutAssumption DEF LockInit, RoomWhenLocked, Lockouts
  <1> QED BY <1>1, <1>2, <1>3 DEF LockInv

\* No step spoils the types.
LEMMA LockTypeStep == ASSUME LockTypeOK, [LockNext]_lockVars PROVE LockTypeOK'
  <1> USE LockoutAssumption DEF LockTypeOK
  <1>1. CASE UNCHANGED lockVars
    BY <1>1 DEF lockVars, lockState
  <1>2. ASSUME NEW b \in Browsers, NEW n \in LoginNames, CheckLockout(b, n) PROVE LockTypeOK'
    BY <1>2 DEF CheckLockout, lockState
  <1>3. ASSUME NEW b \in Browsers, RecordFailure(b) PROVE LockTypeOK'
    BY <1>3 DEF RecordFailure
  <1>4. ASSUME NEW b \in Browsers, LoggedIn(b) PROVE LockTypeOK'
    BY <1>4 DEF LoggedIn, ClearFailures
  <1>5. ASSUME NEW n \in LoginNames, UnlockUser(n) PROVE LockTypeOK'
    BY <1>5 DEF UnlockUser, ClearFailures
  <1>6. CASE TickClock
    BY <1>6 DEF TickClock, lockState
  <1>7. CASE RestartServer
    BY <1>7 DEF RestartServer
  <1> QED BY <1>1, <1>2, <1>3, <1>4, <1>5, <1>6, <1>7 DEF LockNext

-----------------------------------------------------------------------------
\* What is to be shown of one name after a step.
NameHolds(n) ==
  /\ failures[n] <= Bound(n)
  /\ n \in Lockouts => failures[n] + Cardinality(UnderWay(n)) <= Bound(n)

LEMMA NamesHold == LockInv <=> LockTypeOK /\ \A n \in LoginNames : NameHolds(n)
  BY DEF LockInv, FailuresBounded, RoomWhenLocked, NameHolds, Bound

\* A name that a step leaves alone, or that is cleared, keeps its bound.
LEMMA NameLeftAlone ==
  ASSUME NEW n \in LoginNames, NameHolds(n),
         failures'[n] = failures[n], locks'[n] = locks[n],
         (n \in Lockouts)' => n \in Lockouts /\ UnderWay(n)' = UnderWay(n)
  PROVE  NameHolds(n)'
  BY DEF NameHolds, Bound

LEMMA NameCleared ==
  ASSUME NEW n \in LoginNames, LockTypeOK', now \in Nat,
         failures'[n] = 0, locks'[n] = 0, lockedUntil'[n] = 0
  PROVE  NameHolds(n)'
  <1>1. (n \notin Lockouts)'
    BY DEF LockTypeOK, Lockouts
  <1>2. Cardinality(Browsers) * 0 \in Nat
    BY BoundGrows
  <1>3. 0 <= (MaxFailures - 1) + Cardinality(Browsers) * 0
    BY <1>2, LockoutAssumption
  <1> QED BY <1>1, <1>3 DEF NameHolds, Bound

\* A wrong password is counted: below the limit, at it, or while locked.
LEMMA FailureRecorded ==
  ASSUME LockInv, LockTypeOK', NEW b \in Browsers, RecordFailure(b), NEW n \in LoginNames
  PROVE  NameHolds(n)'
  <1> DEFINE k == Cardinality(Browsers) * locks[n]
  <1>0. /\ failures[n] \in Nat /\ locks[n] \in Nat /\ lockedUntil[n] \in Nat /\ now \in Nat
        /\ failures'[n] \in Nat
    BY DEF LockInv, LockTypeOK
  <1>1. NameHolds(n)
    BY NamesHold
  <1>2. k \in Nat /\ Cardinality(Browsers) * (locks[n] + 1) = k + Cardinality(Browsers)
    BY <1>0, BoundGrows
  <1>3. UnderWay(n) \subseteq Browsers /\ Cardinality(UnderWay(n)) \in Nat
        /\ Cardinality(UnderWay(n)) <= Cardinality(Browsers) /\ Cardinality(Browsers) \in Nat
        /\ IsFiniteSet(UnderWay(n))
    BY BrowsersCount DEF UnderWay
  <1>4. now' = now
    BY DEF RecordFailure
  <1>5. CASE checked[b] # n
    <2>1. failures'[n] = failures[n] /\ locks'[n] = locks[n] /\ lockedUntil'[n] = lockedUntil[n]
      BY <1>5 DEF RecordFailure, LockInv, LockTypeOK
    <2>2. UnderWay(n)' = UnderWay(n)
      BY <1>5, NoNameAssumption DEF RecordFailure, UnderWay, LockInv, LockTypeOK
    <2>3. (n \in Lockouts)' => n \in Lockouts
      BY <2>1, <1>4 DEF Lockouts
    <2> QED BY <1>1, <2>1, <2>2, <2>3, NameLeftAlone
  <1>6. CASE checked[b] = n
    <2>1. failures'[n] = failures[n] + 1
      BY <1>6 DEF RecordFailure, LockInv, LockTypeOK
    <2>2. UnderWay(n)' = UnderWay(n) \ {b}
      BY <1>6, NoNameAssumption DEF RecordFailure, UnderWay, LockInv, LockTypeOK
    <2>3. Cardinality(UnderWay(n)') = Cardinality(UnderWay(n)) - 1
      <3>1. b \in UnderWay(n)
        BY <1>6 DEF UnderWay
      <3> QED BY <1>3, <2>2, <3>1, FS_RemoveElement
    <2>4. CASE n \in Lockouts
      <3>1. locks'[n] = locks[n]
        BY <1>6, <2>4 DEF RecordFailure, LockInv, LockTypeOK
      <3>2. failures[n] + Cardinality(UnderWay(n)) <= (MaxFailures - 1) + k
        BY <1>1, <2>4 DEF NameHolds, Bound
      <3>3. failures'[n] + Cardinality(UnderWay(n)') <= (MaxFailures - 1) + k
        BY <3>2, <2>1, <2>3, <1>0, <1>3
      <3>4. Cardinality(UnderWay(n)') \in Nat
        BY <2>2, <1>3, BrowsersCount
      <3>5. failures'[n] <= (MaxFailures - 1) + k
        BY <3>3, <3>4, <1>0, <1>2, LockoutAssumption
      <3> QED BY <3>1, <3>3, <3>5 DEF NameHolds, Bound
    <2>5. CASE n \notin Lockouts /\ ReachesLimit(n)
      <3>1. locks'[n] = locks[n] + 1
        BY <1>6, <2>5 DEF RecordFailure, LockInv, LockTypeOK
      <3>2. failures[n] <= (MaxFailures - 1) + k
        BY <1>1 DEF NameHolds, Bound
      <3>3. failures'[n] + Cardinality(UnderWay(n)') <= (MaxFailures - 1) + (k + Cardinality(Browsers))
        BY <3>2, <2>1, <2>3, <1>0, <1>2, <1>3, LockoutAssumption
      <3>4. Cardinality(UnderWay(n)') \in Nat
        BY <2>2, <1>3, BrowsersCount
      <3>5. failures'[n] <= (MaxFailures - 1) + (k + Cardinality(Browsers))
        BY <3>3, <3>4, <1>0, <1>2, <1>3, LockoutAssumption
      <3> QED BY <3>1, <3>3, <3>5, <1>2 DEF NameHolds, Bound
    <2>6. CASE n \notin Lockouts /\ ~ReachesLimit(n)
      <3>1. locks'[n] = locks[n] /\ lockedUntil'[n] = lockedUntil[n]
        BY <1>6, <2>6 DEF RecordFailure, LockInv, LockTypeOK
      <3>2. (n \notin Lockouts)'
        BY <2>6, <3>1, <1>4 DEF Lockouts
      <3>3. failures'[n] <= (MaxFailures - 1) + k
        BY <2>1, <2>6, <1>0, <1>2, LockoutAssumption DEF ReachesLimit
      <3> QED BY <3>1, <3>2, <3>3 DEF NameHolds, Bound
    <2> QED BY <2>4, <2>5, <2>6
  <1> QED BY <1>5, <1>6

\* The invariant is kept by every step.
LEMMA LockStep == ASSUME LockInv, [LockNext]_lockVars PROVE LockInv'
  <1>1. LockTypeOK'
    BY LockTypeStep DEF LockInv
  <1>2. now \in Nat /\ \A n \in LoginNames : lockedUntil[n] \in Nat
    BY DEF LockInv, LockTypeOK
  <1> SUFFICES ASSUME NEW n \in LoginNames PROVE NameHolds(n)'
    BY <1>1 DEF LockInv, FailuresBounded, RoomWhenLocked, NameHolds, Bound
  <1>3. NameHolds(n)
    BY NamesHold
  <1>4. CASE UNCHANGED lockVars
    BY <1>3, <1>4, NameLeftAlone DEF lockVars, lockState, Lockouts, UnderWay
  <1>5. ASSUME NEW b \in Browsers, NEW m \in LoginNames, CheckLockout(b, m) PROVE NameHolds(n)'
    <2>1. failures' = failures /\ locks' = locks /\ lockedUntil' = lockedUntil /\ now' = now
      BY <1>5 DEF CheckLockout, lockState
    <2>2. n \in Lockouts => n # m
      BY <1>5 DEF CheckLockout
    <2>3. n # m => UnderWay(n)' = UnderWay(n)
      BY <1>5, NoNameAssumption DEF CheckLockout, UnderWay, LockInv, LockTypeOK
    <2>4. (n \in Lockouts)' => n \in Lockouts /\ UnderWay(n)' = UnderWay(n)
      BY <2>1, <2>2, <2>3 DEF Lockouts
    <2> QED BY <1>3, <2>1, <2>4, NameLeftAlone
  <1>6. ASSUME NEW b \in Browsers, RecordFailure(b) PROVE NameHolds(n)'
    BY <1>1, <1>6, FailureRecorded
  <1>7. ASSUME NEW b \in Browsers, LoggedIn(b) PROVE NameHolds(n)'
    <2>1. CASE n = checked[b]
      BY <1>1, <1>2, <1>7, <2>1, NameCleared DEF LoggedIn, ClearFailures, LockInv, LockTypeOK
    <2>2. CASE n # checked[b]
      <3>1. failures'[n] = failures[n] /\ locks'[n] = locks[n] /\ lockedUntil'[n] = lockedUntil[n]
            /\ now' = now
        BY <1>7, <2>2 DEF LoggedIn, ClearFailures, LockInv, LockTypeOK
      <3>2. UnderWay(n)' = UnderWay(n)
        BY <1>7, <2>2, NoNameAssumption DEF LoggedIn, UnderWay, LockInv, LockTypeOK
      <3> QED BY <1>3, <3>1, <3>2, NameLeftAlone DEF Lockouts
    <2> QED BY <2>1, <2>2
  <1>8. ASSUME NEW m \in LoginNames, UnlockUser(m) PROVE NameHolds(n)'
    <2>1. CASE n = m
      BY <1>1, <1>2, <1>8, <2>1, NameCleared DEF UnlockUser, ClearFailures, LockInv, LockTypeOK
    <2>2. CASE n # m
      <3>1. failures'[n] = failures[n] /\ locks'[n] = locks[n] /\ lockedUntil'[n] = lockedUntil[n]
            /\ now' = now /\ checked' = checked
        BY <1>8, <2>2 DEF UnlockUser, ClearFailures, LockInv, LockTypeOK
      <3> QED BY <1>3, <3>1, NameLeftAlone DEF Lockouts, UnderWay
    <2> QED BY <2>1, <2>2
  <1>9. CASE TickClock
    <2>1. failures' = failures /\ locks' = locks /\ lockedUntil' = lockedUntil /\ checked' = checked
          /\ now' = now + 1
      BY <1>9 DEF TickClock, lockState
    <2>2. (n \in Lockouts)' => n \in Lockouts
      BY <2>1, <1>2 DEF Lockouts
    <2>3. UnderWay(n)' = UnderWay(n)
      BY <2>1 DEF UnderWay
    <2> QED BY <1>3, <2>1, <2>2, <2>3, NameLeftAlone
  <1>10. CASE RestartServer
    BY <1>1, <1>2, <1>10, NameCleared DEF RestartServer
  <1> QED BY <1>4, <1>5, <1>6, <1>7, <1>8, <1>9, <1>10 DEF LockNext

-----------------------------------------------------------------------------
\* The variables of the lockout keep to their types.
THEOREM LockTypeCorrect == LockSpec => []LockTypeOK
  <1>1. LockInit => LockTypeOK
    BY LockStarts DEF LockInv
  <1>2. LockTypeOK /\ [LockNext]_lockVars => LockTypeOK'
    BY LockTypeStep
  <1> QED BY <1>1, <1>2, PTL DEF LockSpec

\* The failures counted for a name never go past the limit by more than one
\* login per browser for each lock, however logins race with _check_lockout.
THEOREM LockHolds == LockSpec => []FailuresBounded
  <1>1. LockInit => LockInv
    BY LockStarts
  <1>2. LockInv /\ [LockNext]_lockVars => LockInv'
    BY LockStep
  <1>3. LockInv => FailuresBounded
    BY DEF LockInv
  <1> QED BY <1>1, <1>2, <1>3, PTL DEF LockSpec
=============================================================================
