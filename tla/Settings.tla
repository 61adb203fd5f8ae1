------------------------------- MODULE Settings -------------------------------
(***************************************************************************)
(* The administrator's settings: source folders, SSH servers, destination  *)
(* and WebDAV drives (repository.py, storage/folders.py, ssh/validation.py *)
(* and their endpoints).  A save deletes rows and inserts others in one    *)
(* transaction, from values its request has read before in another.  In    *)
(* PostgreSQL two saves may overlap: the delete of the second misses the   *)
(* rows the first inserts, and the primary keys then refuse an equal one.  *)
(***************************************************************************)
EXTENDS FiniteSets

CONSTANTS
  Panels,   \* browsers of administrators, each with one request at a time
  Chosen,   \* folders an administrator may add
  Drives,   \* drive letters; each stands for the folders of a phone there, too
  Aliases,  \* names of SSH servers
  Keys      \* paths of private keys

NoKey  == ""
SshRoles == {"origen", "destino", "ambos"}
Server == [key: Keys \cup {NoKey}, role: SshRoles]
NoServer == [key |-> NoKey, role |-> "none"]

ASSUME SettingsAssumption == NoKey \notin Keys /\ {"local", "nowhere"} \cap Aliases = {}

VARIABLES
  folders,    \* the rows of source_folders
  drives,     \* the rows of webdav_connections
  ssh,        \* ssh[a]: the row of ssh_connections, or NoServer
  dest,       \* destination_config: "local", an alias, or "nowhere" when not set
  sPc,        \* sPc[p]: where the request of p is
  form,       \* form[p]: what it is about to save
  late,       \* late[p]: rows were inserted where p has deleted
  overtaken,  \* history: overtaken[p], others saved there since p has read
  want,       \* history: want[f], what was last answered of folder f
  typed,      \* history: typed[a], the key last typed for server a
  edited      \* history: servers saved since the destination was set

settings     == <<folders, drives, ssh, dest, want, typed, edited>>
settingsReq  == <<sPc, form, late, overtaken>>
settingsVars == <<settings, settingsReq>>

AllFolders == Chosen \cup Drives
NoForm == [table |-> "none", about |-> NoKey, paths |-> {}, adds |-> FALSE, server |-> NoServer]

SettingsInit ==
  /\ folders = {} /\ drives = {} /\ dest = "nowhere" /\ edited = {}
  /\ ssh = [a \in Aliases |-> NoServer]
  /\ sPc = [p \in Panels |-> "idle"]
  /\ form = [p \in Panels |-> NoForm]
  /\ late = [p \in Panels |-> FALSE]
  /\ overtaken = [p \in Panels |-> FALSE]
  /\ want = [f \in AllFolders |-> "open"]
  /\ typed = [a \in Aliases |-> NoKey]

\* load_saved_folders: without a choice, the folders of the drives.
SavedFolders == IF folders = {} THEN drives ELSE folders

AskSave(p, f) ==
  /\ sPc[p] = "idle"
  /\ sPc' = [sPc EXCEPT ![p] = "delete"]
  /\ form' = [form EXCEPT ![p] = f]
  /\ overtaken' = [overtaken EXCEPT ![p] = FALSE]
  /\ late' = [late EXCEPT ![p] = FALSE]
  /\ UNCHANGED settings

-----------------------------------------------------------------------------
\* anadir_carpeta; a folder that is there already changes nothing.
AddFolder(p, f) ==
  /\ f \notin SavedFolders
  /\ AskSave(p, [NoForm EXCEPT !.table = "folders", !.about = f, !.adds = TRUE,
                            !.paths = SavedFolders \cup {f}])

\* quitar_carpeta
RemoveFolder(p, f) ==
  AskSave(p, [NoForm EXCEPT !.table = "folders", !.about = f, !.paths = SavedFolders \ {f}])

\* Mutated form: the key is what the form says.
KeyAsTyped(a, k) == k

\* guardar_ssh keeps the key of the server when the form leaves it blank.
KeyToSave(a, k) == IF k = NoKey THEN ssh[a].key ELSE k

\* validate_ambos_role: a server of both roles needs a destination path of its own.
ValidRole(r, ownPath) == r = "ambos" => ownPath

\* adds says that the key was typed.
SaveServer(p, a, k, r, ownPath) ==
  /\ ValidRole(r, ownPath)
  /\ AskSave(p, [NoForm EXCEPT !.table = "ssh", !.about = a, !.adds = k # NoKey,
                            !.server = [key |-> KeyToSave(a, k), role |-> r]])

\* set_destino: the server must exist and be a destination; and quitar_destino.
SetDestination(p, d) ==
  /\ d \in Aliases => ssh[d].role \in {"destino", "ambos"}
  /\ AskSave(p, [NoForm EXCEPT !.table = "dest", !.about = d])

-----------------------------------------------------------------------------
\* Whether two requests write the same rows, and whether the first writes what
\* the second has read: set_destino reads the server.
SameRows(f, g) == f.table = g.table /\ (f.table = "ssh" => f.about = g.about)
ReadBy(f, g)   == SameRows(f, g) \/ (f.table = "ssh" /\ g.table = "dest" /\ f.about = g.about)

\* The transaction of a save begins: it deletes the rows it sees.
DeleteRows(p) ==
  /\ sPc[p] = "delete"
  /\ sPc' = [sPc EXCEPT ![p] = "insert"]
  /\ UNCHANGED <<settings, form, late, overtaken>>

\* It ends; others that have read, or deleted, the rows are too late.
Saved(p, took) ==
  /\ sPc' = [sPc EXCEPT ![p] = "idle"]
  /\ form' = [form EXCEPT ![p] = NoForm]
  /\ late' = [q \in Panels |->
       q # p /\ (late[q] \/ (took /\ sPc[q] = "insert" /\ SameRows(form[p], form[q])))]
  /\ overtaken' = [q \in Panels |->
       q # p /\ (overtaken[q] \/ (took /\ ReadBy(form[p], form[q])))]

\* What is answered of folder f once the folders P are saved: the default
\* folders come back when the list becomes empty.
Answer(p, f, P) ==
  IF P = {} THEN "open"
  ELSE IF f = form[p].about /\ (form[p].adds \/ ~overtaken[p])
         THEN IF form[p].adds THEN "listed" ELSE "gone"
  ELSE IF overtaken[p] THEN "open" ELSE want[f]

InsertFolders(p) ==
  LET rest == IF late[p] THEN folders ELSE {} IN
  /\ sPc[p] = "insert" /\ form[p].table = "folders"
  /\ \/ /\ form[p].paths \cap rest = {}
        /\ folders' = form[p].paths \cup rest
        /\ want' = [f \in AllFolders |-> Answer(p, f, folders')]
        /\ Saved(p, TRUE)
     \/ /\ form[p].paths \cap rest # {}
        /\ UNCHANGED <<folders, want>>
        /\ Saved(p, FALSE)
  /\ UNCHANGED <<drives, ssh, dest, typed, edited>>

InsertServer(p) ==
  LET a == form[p].about IN
  /\ sPc[p] = "insert" /\ form[p].table = "ssh"
  /\ ssh' = [ssh EXCEPT ![a] = IF late[p] THEN @ ELSE form[p].server]
  /\ typed' = [typed EXCEPT ![a] =
       IF ~late[p] /\ (form[p].adds \/ overtaken[p]) THEN form[p].server.key ELSE @]
  /\ edited' = IF late[p] THEN edited ELSE edited \cup {a}
  /\ Saved(p, ~late[p])
  /\ UNCHANGED <<folders, drives, dest, want>>

\* A server saved after the check counts as edited.
InsertDestination(p) ==
  LET d == form[p].about IN
  /\ sPc[p] = "insert" /\ form[p].table = "dest"
  /\ dest' = IF late[p] THEN dest ELSE d
  /\ edited' = IF late[p] THEN edited ELSE IF overtaken[p] THEN Aliases \cap {d} ELSE {}
  /\ Saved(p, ~late[p])
  /\ UNCHANGED <<folders, drives, ssh, want, typed>>

\* eliminar_ssh; the destination may go on naming the server.
RemoveServer(p, a) ==
  /\ sPc[p] = "idle"
  /\ ssh' = [ssh EXCEPT ![a] = NoServer]
  /\ typed' = [typed EXCEPT ![a] = NoKey]
  /\ edited' = edited \cup {a}
  /\ overtaken' = [q \in Panels |-> overtaken[q] \/
       (form[q].table \in {"ssh", "dest"} /\ form[q].about = a)]
  /\ UNCHANGED <<folders, drives, dest, want, sPc, form, late>>

\* connect_webdav and disconnect_webdav, when net use has succeeded.
ConnectDrive(d) ==
  /\ drives' = drives \cup {d}
  /\ UNCHANGED <<folders, ssh, dest, want, typed, edited, settingsReq>>

DisconnectDrive(d) ==
  /\ drives' = drives \ {d}
  /\ UNCHANGED <<folders, ssh, dest, want, typed, edited, settingsReq>>

FoldersNext ==
  \/ \E p \in Panels :
       \/ \E f \in AllFolders : AddFolder(p, f) \/ RemoveFolder(p, f)
       \/ DeleteRows(p)
       \/ InsertFolders(p)
  \/ \E d \in Drives : ConnectDrive(d) \/ DisconnectDrive(d)

ServersNext ==
  \E p \in Panels :
    \/ \E a \in Aliases, k \in Keys \cup {NoKey}, r \in SshRoles, o \in BOOLEAN :
         SaveServer(p, a, k, r, o)
    \/ \E d \in Aliases \cup {"local", "nowhere"} : SetDestination(p, d)
    \/ DeleteRows(p)
    \/ InsertServer(p) \/ InsertDestination(p)
    \/ \E a \in Aliases : RemoveServer(p, a)

SettingsNext == FoldersNext \/ ServersNext

SettingsSpec == SettingsInit /\ [][SettingsNext]_settingsVars

-----------------------------------------------------------------------------
Form == [table: {"none", "folders", "ssh", "dest"}, adds: BOOLEAN,
         about: {NoKey, "local", "nowhere"} \cup AllFolders \cup Aliases,
         paths: SUBSET AllFolders, server: Server \cup {NoServer}]

SettingsTypeOK ==
  /\ folders \subseteq AllFolders /\ drives \subseteq Drives
  /\ ssh \in [Aliases -> Server \cup {NoServer}]
  /\ dest \in Aliases \cup {"local", "nowhere"}
  /\ sPc \in [Panels -> {"idle", "delete", "insert"}]
  /\ form \in [Panels -> Form]
  /\ late \in [Panels -> BOOLEAN] /\ overtaken \in [Panels -> BOOLEAN]
  /\ want \in [AllFolders -> {"open", "listed", "gone"}]
  /\ typed \in [Aliases -> Keys \cup {NoKey}]
  /\ edited \subseteq Aliases

\* A folder answered as added stays in the list and one answered as removed
\* stays out of it, as long as no other save of the list overlaps and the list
\* does not become empty (anadir_carpeta.py 23-26, quitar_carpeta.py 21-22).
FoldersAsAnswered ==
  \A f \in AllFolders :
    /\ want[f] = "listed" => f \in SavedFolders
    /\ want[f] = "gone" => f \notin SavedFolders

\* What the administrator has set is what is stored: folders as above; the key
\* of a server is the one last typed, however often the form was saved with
\* the key left blank (guardar_ssh.py 19-24), where no save of the server
\* overlaps; and a destination that is a server has a role that allows it
\* until that server is saved again or removed (set_destino.py 28-35).
SettingsKept ==
  /\ FoldersAsAnswered
  /\ \A a \in Aliases : ssh[a].key = typed[a]
  /\ dest \in Aliases \ edited => ssh[dest].role \in {"destino", "ambos"}
=============================================================================
