-------------------------------- MODULE Lockout --------------------------------
(***************************************************************************)
(* The lock on an account after wrong passwords: _check_lockout,           *)
(* _record_failure and _clear_failures of web_server.py, as the endpoints  *)
(* login, unlock_user and get_lockouts call them.  A login is a thread     *)
(* that checks the lock first and counts the outcome only when the         *)
(* password has been compared, so the lock may begin, end or be taken off  *)
(* between the two.  Names are the keys of the dictionary: two spellings   *)
(* with other blanks are two keys.                                         *)
(***************************************************************************)
EXTENDS Integers, FiniteSets

CONSTANTS
  LoginNames,   \* the keys: usernames in lower case
  Browsers,     \* each has one login under way at a time
  MaxFailures,  \* _MAX_FAILURES
  LockTime,     \* _LOCKOUT_SECONDS, in ticks of the clock
  MaxNow        \* bound: the clock

ASSUME LockoutAssumption ==
  /\ IsFiniteSet(Browsers)
  /\ MaxFailures \in Nat \ {0} /\ LockTime \in Nat \ {0} /\ MaxNow \in Nat

NoName == "no name"

ASSUME NoNameAssumption == NoName \notin LoginNames

VARIABLES
  failures,     \* failures[n], lockedUntil[n]: the entry of _login_failures
  lockedUntil,
  now,          \* time.time()
  checked,      \* checked[b]: the name whose login of b has passed the check
  locks         \* history: locks[n], how often n was locked since it was cleared

lockState == <<failures, lockedUntil, locks>>
lockVars == <<lockState, now, checked>>

LockInit ==
  /\ failures = [n \in LoginNames |-> 0]
  /\ lockedUntil = [n \in LoginNames |-> 0]
  /\ locks = [n \in LoginNames |-> 0]
  /\ now = 0
  /\ checked = [b \in Browsers |-> NoName]

\* What get_lockouts shows.
Lockouts == {n \in LoginNames : lockedUntil[n] > now}

-----------------------------------------------------------------------------
\* login: a locked name is answered 429.
CheckLockout(b, n) ==
  /\ checked[b] = NoName
  /\ n \notin Lockouts
  /\ checked' = [checked EXCEPT ![b] = n]
  /\ UNCHANGED <<lockState, now>>

\* Mutated form: one wrong password more than the limit before the lock.
LateLock(n) == failures[n] >= MaxFailures

\* The count goes on from where it was when an earlier lock ran out.
ReachesLimit(n) == failures[n] + 1 >= MaxFailures

\* _record_failure, of a name that may be locked since the check.  Reading,
\* adding and writing the count run without a switch of threads in CPython.
RecordFailure(b) ==
  LET n == checked[b] IN
  /\ n # NoName
  /\ checked' = [checked EXCEPT ![b] = NoName]
  /\ failures' = [failures EXCEPT ![n] = @ + 1]
  /\ lockedUntil' = [lockedUntil EXCEPT ![n] = IF ReachesLimit(n) THEN now + LockTime ELSE @]
  /\ locks' = [locks EXCEPT ![n] = IF ReachesLimit(n) /\ n \notin Lockouts THEN @ + 1 ELSE @]
  /\ UNCHANGED now

\* _clear_failures
ClearFailures(n) ==
  /\ failures' = [failures EXCEPT ![n] = 0]
  /\ lockedUntil' = [lockedUntil EXCEPT ![n] = 0]
  /\ locks' = [locks EXCEPT ![n] = 0]
  /\ UNCHANGED now

\* The right password takes off a lock that began after the check.
LoggedIn(b) ==
  /\ checked[b] # NoName
  /\ ClearFailures(checked[b])
  /\ checked' = [checked EXCEPT ![b] = NoName]

\* unlock_user
UnlockUser(n) == ClearFailures(n) /\ UNCHANGED checked

TickClock == now < MaxNow /\ now' = now + 1 /\ UNCHANGED <<lockState, checked>>

\* The dictionary lives in memory; the logins under way die with the server.
RestartServer ==
  /\ failures' = [n \in LoginNames |-> 0]
  /\ lockedUntil' = [n \in LoginNames |-> 0]
  /\ locks' = [n \in LoginNames |-> 0]
  /\ checked' = [b \in Browsers |-> NoName]
  /\ UNCHANGED now

LockNext ==
  \/ \E b \in Browsers :
       \/ \E n \in LoginNames : CheckLockout(b, n)
       \/ RecordFailure(b)
       \/ LoggedIn(b)
  \/ \E n \in LoginNames : UnlockUser(n)
  \/ TickClock
  \/ RestartServer

LockSpec == LockInit /\ [][LockNext]_lockVars

-----------------------------------------------------------------------------
LockTypeOK ==
  /\ failures \in [LoginNames -> Nat]
  /\ lockedUntil \in [LoginNames -> Nat]
  /\ locks \in [LoginNames -> Nat]
  /\ now \in Nat
  /\ checked \in [Browsers -> LoginNames \cup {NoName}]

\* The lock holds although logins race with it: of the passwords tried for a
\* name, the limit and those that were under way when a lock began are all
\* that is ever counted (_check_lockout and _record_failure, web_server.py
\* 316-331, are apart).  Every lock lets one login per browser through.
FailuresBounded ==
  \A n \in LoginNames :
    failures[n] <= (MaxFailures - 1) + Cardinality(Browsers) * locks[n]
=============================================================================
