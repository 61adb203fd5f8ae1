-------------------------------- MODULE Upload --------------------------------
(***************************************************************************)
(* The step that copies the organized library to SSH servers:              *)
(* pipeline/upload_ssh.py over ssh/client.py and utils/retry.py.  One      *)
(* thread goes from server to server and from file to file; a connection   *)
(* may drop, a transfer stop midway, a photo leave the library and the     *)
(* process be killed at any time.                                          *)
(***************************************************************************)
EXTENDS Integers, FiniteSets

CONSTANTS
  Hosts,      \* SSH servers that may be destinations
  Photos,     \* files of the organized library
  MaxFaults   \* bound: things that go wrong

ASSUME UploadAssumption ==
  Hosts # {} /\ IsFiniteSet(Photos) /\ MaxFaults \in Nat

SessionTries == 3   \* max_session_retries
FileTries    == 3   \* attempts of SSHClient.upload
NoHost       == "no server"

VARIABLES
  uPc,       \* where the step is
  servers,   \* servidores still to come
  host,      \* conexion_ssh
  listed,    \* archivos_locales
  left,      \* files this session has still to do
  attempt,   \* session_attempt
  try,       \* attempt of the file under way
  uploaded, existed, errors,   \* subidas, ya_existian, len(errores)
  here,      \* photos that are in the library
  remote,    \* remote[h][f]: "none", "short" or "whole" (of the local size)
  alive,     \* whether the connection works
  lost,      \* history: this session met a file when it did not work any more
  faults

counts  == <<uploaded, existed, errors>>
outside == <<here, remote, faults>>
upVars  == <<uPc, servers, host, listed, left, attempt, try, counts, alive, lost, outside>>

UploadInit ==
  /\ uPc = "idle" /\ servers = {} /\ host = NoHost
  /\ listed = {} /\ left = {} /\ attempt = 1 /\ try = 1
  /\ uploaded = 0 /\ existed = 0 /\ errors = 0
  /\ here \in SUBSET Photos
  /\ remote = [h \in Hosts |-> [f \in Photos |-> "none"]]
  /\ alive = FALSE /\ lost = FALSE /\ faults = 0

Fault == faults < MaxFaults /\ faults' = faults + 1

\* _destination_servers, and rglob over the library; nothing happens without
\* servers, or without photos.
StartUpload(S) ==
  /\ uPc = "idle"
  /\ S # {} /\ here # {}
  /\ uPc' = "servers"
  /\ servers' = S
  /\ listed' = here
  /\ UNCHANGED <<host, left, attempt, try, counts, alive, lost, outside>>

NextServer ==
  /\ uPc = "servers"
  /\ \/ /\ servers = {}
        /\ uPc' = "idle" /\ host' = NoHost
        /\ UNCHANGED <<servers, attempt, counts>>
     \/ \E h \in servers :
          /\ uPc' = "connect" /\ host' = h /\ servers' = servers \ {h}
          /\ attempt' = 1
          /\ uploaded' = 0 /\ existed' = 0 /\ errors' = 0
  /\ UNCHANGED <<listed, left, try, alive, lost, outside>>

Connect ==
  /\ uPc = "connect"
  /\ uPc' = "file"
  /\ left' = listed
  /\ alive' = TRUE /\ lost' = FALSE
  /\ UNCHANGED <<servers, host, listed, attempt, try, counts, outside>>

\* The exception leaves the with: another session, or on to the next server.
SessionFails ==
  /\ uPc \in {"connect", "file"}
  /\ uPc = "file" => left = {}   \* close of the connection
  /\ Fault
  /\ IF attempt < SessionTries
       THEN attempt' = attempt + 1 /\ uPc' = "connect"
       ELSE uPc' = "servers" /\ UNCHANGED attempt
  /\ UNCHANGED <<servers, host, listed, left, try, counts, alive, lost, here, remote>>

\* The next file of the listing.
File == CHOOSE f \in left : TRUE

\* A file is done; its exception, if any, ends here and not the session.
FileDone(up, had, bad) ==
  /\ uPc' = "file"
  /\ left' = left \ {File}
  /\ try' = 1
  /\ uploaded' = uploaded + up /\ existed' = existed + had /\ errors' = errors + bad
  /\ lost' = (lost \/ ~alive)
  /\ UNCHANGED <<servers, host, listed, attempt, alive>>

HasCopy == remote[host][File] = "whole"

\* remote_exists and the comparison of sizes, which reads the size of the local
\* file only when there is a remote one.
StatFile ==
  /\ uPc = "file" /\ left # {}
  /\ alive
  /\ \/ remote[host][File] # "none" /\ File \notin here /\ FileDone(0, 0, 1)
     \/ HasCopy /\ File \in here /\ FileDone(0, 1, 0)
     \/ /\ IF File \in here THEN ~HasCopy ELSE remote[host][File] = "none"
        /\ uPc' = "put"
        /\ UNCHANGED <<servers, host, listed, left, attempt, try, counts, alive, lost>>
  /\ UNCHANGED outside

\* On a dead connection, or when the server fails.
StatFails ==
  /\ uPc = "file" /\ left # {}
  /\ IF alive THEN Fault ELSE UNCHANGED faults
  /\ FileDone(0, 0, 1)
  /\ UNCHANGED <<here, remote>>

\* SSHClient.upload: put opens the local file, overwrites the remote one and
\* compares the sizes when all is written.
PutFile ==
  /\ uPc = "put"
  /\ alive /\ File \in here
  /\ remote' = [remote EXCEPT ![host][File] = "whole"]
  /\ FileDone(1, 0, 0)
  /\ UNCHANGED <<here, faults>>

\* Mutated form: what fails for the last time counts as uploaded.
GiveUpSilently == FileDone(1, 0, 0)

GiveUp == FileDone(0, 0, 1)

\* What a put that is cut off leaves at the server.
PutStops ==
  \E state \in {remote[host][File], "short", "whole"} :
    remote' = [remote EXCEPT ![host][File] = state]

\* A try that fails is followed by another, on the same connection.
PutFails ==
  /\ uPc = "put"
  /\ IF alive /\ File \in here
       THEN Fault /\ PutStops
       ELSE UNCHANGED <<remote, faults>>
  /\ IF try < FileTries
       THEN /\ try' = try + 1
            /\ UNCHANGED <<uPc, servers, host, listed, left, attempt, counts, alive, lost>>
       ELSE GiveUp
  /\ UNCHANGED here

CloseSession ==
  /\ uPc = "file" /\ left = {}
  /\ uPc' = "summary"
  /\ UNCHANGED <<servers, host, listed, left, attempt, try, counts, alive, lost, outside>>

Summary ==
  /\ uPc = "summary"
  /\ uPc' = "servers"
  /\ UNCHANGED <<servers, host, listed, left, attempt, try, counts, alive, lost, outside>>

-----------------------------------------------------------------------------
DropConnection ==
  /\ alive /\ uPc \in {"file", "put"}
  /\ Fault
  /\ alive' = FALSE
  /\ IF uPc = "put" /\ File \in here THEN PutStops ELSE UNCHANGED remote
  /\ UNCHANGED <<uPc, servers, host, listed, left, attempt, try, counts, lost, here>>

\* A photo goes to the trash; its copies at the servers stay.
PhotoLeaves(f) ==
  /\ f \in here
  /\ Fault
  /\ here' = here \ {f}
  /\ UNCHANGED <<uPc, servers, host, listed, left, attempt, try, counts, alive, lost, remote>>

\* The process is killed, in the middle of a transfer or not.
KillUpload ==
  /\ uPc # "idle"
  /\ Fault
  /\ uPc' = "idle"
  /\ servers' = {} /\ host' = NoHost /\ listed' = {} /\ left' = {}
  /\ attempt' = 1 /\ try' = 1 /\ uploaded' = 0 /\ existed' = 0 /\ errors' = 0
  /\ alive' = FALSE /\ lost' = FALSE
  /\ IF uPc = "put" /\ alive /\ File \in here THEN PutStops ELSE UNCHANGED remote
  /\ UNCHANGED here

UploadSteps ==
  \/ \E S \in SUBSET Hosts : StartUpload(S)
  \/ NextServer
  \/ Connect \/ SessionFails
  \/ StatFile \/ StatFails
  \/ PutFile \/ PutFails
  \/ CloseSession \/ Summary

UploadNext ==
  \/ UploadSteps
  \/ DropConnection \/ KillUpload
  \/ \E f \in Photos : PhotoLeaves(f)

UploadSpec == UploadInit /\ [][UploadNext]_upVars

-----------------------------------------------------------------------------
UploadTypeOK ==
  /\ uPc \in {"idle", "servers", "connect", "file", "put", "summary"}
  /\ servers \subseteq Hosts /\ host \in Hosts \cup {NoHost}
  /\ listed \subseteq Photos /\ left \subseteq listed /\ here \subseteq Photos
  /\ attempt \in 1..SessionTries /\ try \in 1..FileTries
  /\ {uploaded, existed, errors} \subseteq Nat
  /\ remote \in [Hosts -> [Photos -> {"none", "short", "whole"}]]
  /\ {alive, lost} \subseteq BOOLEAN
  /\ faults \in 0..MaxFaults

\* What the summary of a server says is so: every photo of the listing has been
\* counted, and without errors each has a whole copy there, whatever dropped,
\* was tried again or left by an earlier upload that was killed
\* (upload_ssh.py 37-82).
UploadTellsTruth ==
  uPc = "summary" =>
    /\ uploaded + existed + errors >= Cardinality(listed)
    /\ errors = 0 => \A f \in listed : remote[host][f] = "whole"

\* "retrying the whole connection up to 3 times on session-level failures"
\* (upload_ssh.py 39-40): no summary of a session that broke down with files
\* to do, as long as another attempt may be made.
DroppedSessionRetried == uPc = "summary" /\ lost => attempt = SessionTries
=============================================================================
