-------------------------------- MODULE Users --------------------------------
(***************************************************************************)
(* Accounts: the endpoints setup_admin, create_user_endpoint,              *)
(* delete_user_endpoint, login and logout with the user functions of       *)
(* repository.py and the dependency require_admin of auth.py.  A request   *)
(* is a thread, and each of its queries is a transaction of its own.       *)
(***************************************************************************)
EXTENDS Integers

CONSTANTS
  Names,    \* usernames
  Clients,  \* browsers, each with a session and one request at a time
  Engines,  \* database engines
  MaxIds    \* bound: accounts ever made

ASSUME UsersAssumption == Engines \subseteq {"sqlite", "postgresql"} /\ MaxIds \in Nat

Ids   == 1..MaxIds
Roles == {"admin", "user"}
Nobody == 0

VARIABLES
  engine,   \* the engine of the database
  users,    \* the ids that have a row
  name,     \* name[u], role[u]: the columns of row u
  role,
  ids,      \* ids given so far
  session,  \* session[c]: the user_id in the cookie
  pc,       \* pc[c]: where the request of c is
  op,       \* op[c]: "setup", "create" or "delete"
  newName,  \* newName[c], newRole[c]: the account to make
  newRole,
  who,      \* who[c]: the account that require_admin has let through
  target,   \* target[c]: the account to delete
  stale     \* history: an administrator was deleted after these clients' requests
            \* had counted them

table   == <<engine, users, name, role, ids>>
request == <<op, newName, newRole, who, target, stale>>
vars    == <<table, session, pc, request>>

Admins == {u \in users : role[u] = "admin"}

\* What the columns of a row to come hold, and a request to come asks, is
\* arbitrary.
Init ==
  /\ engine \in Engines
  /\ users = {} /\ ids = 0
  /\ name \in [Ids -> Names] /\ \A u, v \in Ids : name[u] = name[v]
  /\ role = [u \in Ids |-> "user"]
  /\ session = [c \in Clients |-> Nobody]
  /\ pc = [c \in Clients |-> "idle"]
  /\ op = [c \in Clients |-> "setup"]
  /\ newName \in [Clients -> Names] /\ \A c, d \in Clients : newName[c] = newName[d]
  /\ newRole = [c \in Clients |-> "user"]
  /\ who = [c \in Clients |-> Nobody]
  /\ target = [c \in Clients |-> Nobody]
  /\ stale = {}

Goto(c, label) == pc' = [pc EXCEPT ![c] = label]

-----------------------------------------------------------------------------
\* setup_admin is public, as long as there is no administrator.
Setup(c, n) ==
  /\ pc[c] = "idle"
  /\ Admins = {}
  /\ Goto(c, "name")
  /\ op' = [op EXCEPT ![c] = "setup"]
  /\ newName' = [newName EXCEPT ![c] = n]
  /\ newRole' = [newRole EXCEPT ![c] = "admin"]
  /\ UNCHANGED <<table, session, who, target, stale>>

\* Mutated form: the role is stored as it was asked for.
AsAsked(r) == r

\* An unknown role is "user".
Known(r) == IF r \in Roles THEN r ELSE "user"

\* require_admin: the session leads to a row, whose role is admin.
Create(c, n, r) ==
  /\ pc[c] = "idle"
  /\ session[c] \in Admins
  /\ Goto(c, "name")
  /\ op' = [op EXCEPT ![c] = "create"]
  /\ newName' = [newName EXCEPT ![c] = n]
  /\ newRole' = [newRole EXCEPT ![c] = Known(r)]
  /\ UNCHANGED <<table, session, who, target, stale>>

\* create_user: the name is looked up,
NameTaken(n) == \E u \in users : name[u] = n

CheckName(c) ==
  /\ pc[c] = "name"
  /\ \/ NameTaken(newName[c]) /\ Goto(c, "idle")
     \/ /\ ~NameTaken(newName[c])
        /\ Goto(c, IF newRole[c] = "admin" THEN "admin" ELSE "insert")
  /\ UNCHANGED <<table, session, request>>

\* for an administrator admin_exists is asked again,
CheckAdmin(c) ==
  /\ pc[c] = "admin"
  /\ Goto(c, IF Admins # {} THEN "idle" ELSE "insert")
  /\ UNCHANGED <<table, session, request>>

\* Mutated form: names are all the database compares.
OnlyNames(n, r) == NameTaken(n)

\* and the database has the last word: usernames are unique, and with the
\* partial index ux_users_single_admin there is one row whose role is admin.
\* db.py makes it on SQLite; no migration of PostgreSQL does.
Indexed == engine = "sqlite"
Refused(n, r) == NameTaken(n) \/ (Indexed /\ r = "admin" /\ Admins # {})

\* The first administrator is logged in.
Insert(c) ==
  /\ pc[c] = "insert"
  /\ ids < MaxIds
  /\ ~Refused(newName[c], newRole[c])
  /\ ids' = ids + 1
  /\ users' = users \cup {ids + 1}
  /\ name' = [name EXCEPT ![ids + 1] = newName[c]]
  /\ role' = [role EXCEPT ![ids + 1] = newRole[c]]
  /\ session' = [session EXCEPT ![c] = IF op[c] = "setup" THEN ids + 1 ELSE @]
  /\ Goto(c, "idle")
  /\ UNCHANGED <<engine, request>>

InsertRefused(c) ==
  /\ pc[c] = "insert"
  /\ Refused(newName[c], newRole[c])
  /\ Goto(c, "idle")
  /\ UNCHANGED <<table, session, request>>

-----------------------------------------------------------------------------
\* require_admin, then get_user of the account to delete.
AskDelete(c, u) ==
  /\ pc[c] = "idle"
  /\ session[c] \in Admins
  /\ Goto(c, "lookup")
  /\ op' = [op EXCEPT ![c] = "delete"]
  /\ who' = [who EXCEPT ![c] = session[c]]
  /\ target' = [target EXCEPT ![c] = u]
  /\ UNCHANGED <<table, session, newName, newRole, stale>>

Lookup(c) ==
  /\ pc[c] = "lookup"
  /\ Goto(c, IF target[c] \in users THEN "count" ELSE "idle")
  /\ UNCHANGED <<table, session, request>>

\* Mutated form: being an administrator is enough.
AnyoneGoes(c) == TRUE

\* Only an administrator of several may be deleted, and by another.
MayDelete(c) ==
  /\ role[target[c]] = "admin" => \E u, v \in Admins : u # v
  /\ target[c] # who[c]

CountAdmins(c) ==
  /\ pc[c] = "count"
  /\ Goto(c, IF MayDelete(c) THEN "delete" ELSE "idle")
  /\ stale' = stale \ {c}
  /\ UNCHANGED <<table, session, op, newName, newRole, who, target>>

DeleteUser(c) ==
  /\ pc[c] = "delete"
  /\ users' = users \ {target[c]}
  /\ stale' = IF target[c] \in Admins THEN stale \cup {d \in Clients : pc[d] = "delete"} ELSE stale
  /\ Goto(c, "idle")
  /\ UNCHANGED <<engine, name, role, ids, session, op, newName, newRole, who, target>>

-----------------------------------------------------------------------------
\* With the right password; the cookie of a deleted account stays.
Login(c, u) ==
  /\ pc[c] = "idle"
  /\ u \in users
  /\ session' = [session EXCEPT ![c] = u]
  /\ UNCHANGED <<table, pc, request>>

Logout(c) ==
  /\ pc[c] = "idle"
  /\ session' = [session EXCEPT ![c] = Nobody]
  /\ UNCHANGED <<table, pc, request>>

Ask(c) ==
  \/ \E n \in Names : Setup(c, n) \/ \E r \in Roles \cup {"other"} : Create(c, n, r)
  \/ \E u \in Ids : AskDelete(c, u) \/ Login(c, u)
  \/ Logout(c)

Serve(c) ==
  \/ CheckName(c) \/ CheckAdmin(c) \/ Insert(c) \/ InsertRefused(c)
  \/ Lookup(c) \/ CountAdmins(c) \/ DeleteUser(c)

Next == \E c \in Clients : Ask(c) \/ Serve(c)

Spec == Init /\ [][Next]_vars

-----------------------------------------------------------------------------
(***************************************************************************)
(* Properties.                                                             *)
(***************************************************************************)

\* The variables keep to their types.
TypeOK ==
  /\ engine \in Engines /\ stale \subseteq Clients
  /\ ids \in 0..MaxIds /\ users \subseteq 1..ids
  /\ name \in [Ids -> Names] /\ role \in [Ids -> Roles]
  /\ session \in [Clients -> 0..ids]
  /\ pc \in [Clients -> {"idle", "name", "admin", "insert", "lookup", "count", "delete"}]
  /\ op \in [Clients -> {"setup", "create", "delete"}]
  /\ newName \in [Clients -> Names] /\ newRole \in [Clients -> Roles]
  /\ who \in [Clients -> 0..ids] /\ target \in [Clients -> 0..MaxIds]

\* "There must only ever be one administrator", however many setups and
\* creations overlap between their checks and their inserts (test_auth.py and
\* users.feature).
AtMostOneAdmin == \A u, v \in Admins : u = v

\* So it is where the database has the index.
IndexKeepsOne == Indexed => AtMostOneAdmin

\* "The sole admin cannot be deleted": the last administrator goes only in a
\* request that had counted the administrators before another of them was
\* deleted (delete_user_endpoint.py 20-25).  With two of them, as overlapping
\* setups make them on PostgreSQL, two such requests leave none.
AdminStays ==
  [][ Admins # {} => Admins' # {} \/ \E c \in stale : pc[c] = "delete" /\ pc'[c] = "idle" ]_vars
=============================================================================
