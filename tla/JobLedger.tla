------------------------------ MODULE JobLedger ------------------------------
(***************************************************************************)
(* What a background transfer job promises to whoever polls its status,    *)
(* with no threads, counters or database: one job at a time; the job takes *)
(* a list of files once; a file is settled at most once, while the job     *)
(* runs, and is never unsettled; a job that closes without an error has    *)
(* settled every file of its list.                                         *)
(***************************************************************************)
CONSTANT Files

VARIABLES
  phase,  \* "idle", "running", "done" or, when it closed with an error, "broken"
  todo,   \* the files of the job
  ok,     \* settled: downloaded or already there
  bad     \* settled: failed

ledger == <<phase, todo, ok, bad>>

LedgerTypeOK ==
  /\ phase \in {"idle", "running", "done", "broken"}
  /\ {todo, ok, bad} \subseteq SUBSET Files

Init ==
  /\ phase = "idle"
  /\ todo = {} /\ ok = {} /\ bad = {}

\* A job starts, and never next to another.
Open ==
  /\ phase # "running"
  /\ phase' = "running"
  /\ todo' = {} /\ ok' = {} /\ bad' = {}

\* The job learns its files, once.
Take ==
  /\ phase = "running"
  /\ todo = {}
  /\ \E fs \in SUBSET Files : todo' = fs
  /\ UNCHANGED <<phase, ok, bad>>

\* Some of the open files are settled; what is settled stays settled.
Settle ==
  /\ phase = "running"
  /\ \E good, wrong \in SUBSET (todo \ (ok \cup bad)) :
       /\ good \cap wrong = {}
       /\ ok' = ok \cup good
       /\ bad' = bad \cup wrong
  /\ UNCHANGED <<phase, todo>>

\* The job ends: "done" is a claim about every file.
Close ==
  /\ phase = "running"
  /\ \/ phase' = "done" /\ todo = ok \cup bad
     \/ phase' = "broken"
  /\ UNCHANGED <<todo, ok, bad>>

\* The process restarts and the job is forgotten.
Forget ==
  /\ phase' = "idle"
  /\ todo' = {} /\ ok' = {} /\ bad' = {}

Next == Open \/ Take \/ Settle \/ Close \/ Forget

Spec == Init /\ [][Next]_ledger
=============================================================================
