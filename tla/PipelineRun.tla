------------------------------ MODULE PipelineRun ------------------------------
(***************************************************************************)
(* The PipelineManager of web_server.py: a request starts a run, a thread  *)
(* redirects stdout and stderr to the broadcaster, executes the selected   *)
(* steps until one raises, puts the streams back and clears the flag.      *)
(* Composed with LogBroadcaster: what a run says is emitted line by line   *)
(* while other threads emit and websockets come and go.                    *)
(***************************************************************************)
EXTENDS LogBroadcaster, FiniteSets

CONSTANTS
  MaxRuns,   \* bound: runs of a process
  Others,    \* emitters that are not runs: threads of the WebDAV job
  NumSteps,  \* len(self._pasos)
  Requests   \* sequences of step indices that a client may ask for

Runs == 1..MaxRuns  \* in the order in which they start

ASSUME PipelineAssumption ==
  /\ {NumSteps, MaxRuns} \subseteq Nat
  /\ Emitters = Runs \cup Others /\ Runs \cap Others = {}
  /\ Requests \subseteq Seq(Int)

VARIABLES
  running,  \* _running
  started,  \* runs started so far
  run,      \* run[r]: where the thread of run r is
  todo,     \* todo[r]: the selected steps from the current one on
  raised,   \* raised[r]: a step raised an exception
  out,      \* sys.stdout: the runs whose wrapper it is, outermost first
  err,      \* sys.stderr
  origOut,  \* origOut[r], origErr[r]: the streams the run found
  origErr

streams == <<out, err, origOut, origErr>>
vars    == <<logVars, running, started, run, todo, raised, streams>>

Init ==
  /\ LogInit
  /\ running = FALSE /\ started = 0
  /\ run = [r \in Runs |-> "none"]
  /\ todo = [r \in Runs |-> <<>>]
  /\ raised = [r \in Runs |-> FALSE]
  /\ out = <<>> /\ err = <<>>
  /\ origOut = [r \in Runs |-> <<>>]
  /\ origErr = [r \in Runs |-> <<>>]

-----------------------------------------------------------------------------
\* Indices that name no step are dropped.
Kept(indices) == {k \in DOMAIN indices : indices[k] \in 0..(NumSteps - 1)}

\* Steps run in the order asked for: the k-th to run is the one asked for at at[k].
OrderOf(S) ==
  {at \in [1..Cardinality(S) -> S] : \A j, k \in DOMAIN at : j < k => at[j] < at[k]}

Selected(indices, at) == [k \in DOMAIN at |-> indices[at[k]]]

\* Mutated form: the flag is looked at outside the lock, and found clear.
MayAlwaysRun == TRUE

\* The check under the lock; a request that finds the flag set gets a 409.
MayRun == ~running

Run(indices) ==
  /\ MayRun
  /\ started + 1 \in Runs
  /\ running' = TRUE
  /\ started' = started + 1
  /\ run' = [run EXCEPT ![started + 1] = "redirect"]
  /\ \E at \in OrderOf(Kept(indices)) :
       todo' = [todo EXCEPT ![started + 1] = Selected(indices, at)]
  /\ UNCHANGED <<logVars, raised, streams>>

\* Both streams are read, then the first is wrapped.
RedirectOut(r) ==
  /\ run[r] = "redirect"
  /\ origOut' = [origOut EXCEPT ![r] = out]
  /\ origErr' = [origErr EXCEPT ![r] = err]
  /\ out' = <<r>> \o out
  /\ run' = [run EXCEPT ![r] = "redirectErr"]
  /\ UNCHANGED <<logVars, running, started, todo, raised, err>>

RedirectErr(r) ==
  /\ run[r] = "redirectErr"
  /\ err' = <<r>> \o origErr[r]
  /\ run' = [run EXCEPT ![r] = "next"]
  /\ UNCHANGED <<logVars, running, started, todo, raised, out, origOut, origErr>>

StartStep(r) ==
  /\ run[r] = "next"
  /\ todo[r] # <<>>
  /\ Emit(r, "STARTING")
  /\ run' = [run EXCEPT ![r] = "step"]
  /\ UNCHANGED <<running, started, todo, raised, streams>>

\* A step prints: the wrapper emits what is written.
StepPrints(r) ==
  /\ run[r] = "step"
  /\ out # <<>>
  /\ Len(said) < MaxSaid
  /\ Emit(r, "output")
  /\ UNCHANGED <<running, started, run, todo, raised, streams>>

StepReturns(r) ==
  /\ run[r] = "step" /\ emitting[r] = "no"
  /\ todo' = [todo EXCEPT ![r] = Tail(@)]
  /\ run' = [run EXCEPT ![r] = "next"]
  /\ UNCHANGED <<logVars, running, started, raised, streams>>

\* Mutated form: an exception ends the thread.
ThreadDies == "ended"

\* An exception ends the steps; it is caught and told.
AfterException == "raised"

StepRaises(r) ==
  /\ run[r] = "step" /\ emitting[r] = "no"
  /\ raised' = [raised EXCEPT ![r] = TRUE]
  /\ run' = [run EXCEPT ![r] = AfterException]
  /\ UNCHANGED <<logVars, running, started, todo, streams>>

\* The closing line.
SayFinished(r) ==
  /\ run[r] = "next" /\ todo[r] = <<>>
  /\ Emit(r, "finished")
  /\ run' = [run EXCEPT ![r] = "restore"]
  /\ UNCHANGED <<running, started, todo, raised, streams>>

SayError(r) ==
  /\ run[r] = "raised"
  /\ Emit(r, "ERROR")
  /\ run' = [run EXCEPT ![r] = "restore"]
  /\ UNCHANGED <<running, started, todo, raised, streams>>

\* The finally block: stdout, stderr, and the flag last.
RestoreOut(r) ==
  /\ run[r] = "restore" /\ emitting[r] = "no"
  /\ out' = origOut[r]
  /\ run' = [run EXCEPT ![r] = "restoreErr"]
  /\ UNCHANGED <<logVars, running, started, todo, raised, err, origOut, origErr>>

\* Mutated form: the flag is cleared before stderr is put back.
FlagClearedEarly == FALSE

FlagWhileRestoring == running

RestoreErr(r) ==
  /\ run[r] = "restoreErr"
  /\ running' = FlagWhileRestoring
  /\ err' = origErr[r]
  /\ run' = [run EXCEPT ![r] = "clear"]
  /\ UNCHANGED <<logVars, started, todo, raised, out, origOut, origErr>>

ClearFlag(r) ==
  /\ run[r] = "clear"
  /\ running' = FALSE
  /\ run' = [run EXCEPT ![r] = "ended"]
  /\ UNCHANGED <<logVars, started, todo, raised, streams>>

Thread(r) ==
  \/ RedirectOut(r) \/ RedirectErr(r)
  \/ StartStep(r) \/ StepReturns(r) \/ StepRaises(r)
  \/ SayFinished(r) \/ SayError(r)
  \/ RestoreOut(r) \/ RestoreErr(r) \/ ClearFlag(r)

\* A job of WebDAV tells its progress.
OtherEmits(e) == Len(said) < MaxSaid /\ Emit(e, "WebDAV")

pipelineVars == <<running, started, run, todo, raised, streams>>

Next ==
  \/ \E indices \in Requests : Run(indices)
  \/ \E r \in Runs : Thread(r) \/ StepPrints(r)
  \/ /\ \/ \E e \in Others : OtherEmits(e)
        \/ \E e \in Emitters : Emission(e)
        \/ \E w \in Sockets : SocketStep(w)
     /\ UNCHANGED pipelineVars

\* Threads run, steps come to an end, and the event loop serves its sockets.
Fairness ==
  /\ \A r \in Runs : WF_vars(Thread(r))
  /\ \A e \in Emitters : WF_vars(Emission(e) /\ UNCHANGED pipelineVars)
  /\ \A w \in Sockets : WF_vars(Sending(w) /\ UNCHANGED pipelineVars)

Spec == Init /\ [][Next]_vars /\ Fairness

-----------------------------------------------------------------------------
(***************************************************************************)
(* Properties.                                                             *)
(***************************************************************************)

\* The variables keep to their types.
TypeOK ==
  /\ LogTypeOK
  /\ running \in BOOLEAN /\ started \in 0..MaxRuns
  /\ run \in [Runs -> {"none", "redirect", "redirectErr", "next", "step", "raised",
                      "restore", "restoreErr", "clear", "ended"}]
  /\ todo \in [Runs -> Seq(0..(NumSteps - 1))]
  /\ raised \in [Runs -> BOOLEAN]
  /\ {out, err} \subseteq Seq(Runs) /\ {origOut, origErr} \subseteq [Runs -> Seq(Runs)]

\* Whenever a run may start, the streams are the ones the process began with, so
\* no run ever wraps the wrapper of another, which would outlive it.
StreamsRestored ==
  ~running => /\ out = <<>> /\ err = <<>>
              /\ \A r \in Runs : origOut[r] = <<>> /\ origErr[r] = <<>>

\* The log is a sequence of whole runs: lines of two runs never mix, a run says
\* nothing after its closing line, and a run that ended has said "finished" if
\* every selected step returned and "ERROR" if one raised.
LogTellsRuns ==
  /\ \A m, n \in DOMAIN said :
       m < n /\ said[m].by \in Runs /\ said[n].by \in Runs
         => /\ said[m].by <= said[n].by
            /\ said[m].text \in {"finished", "ERROR"} => said[m].by < said[n].by
  /\ \A r \in Runs : run[r] = "ended" =>
       \E n \in DOMAIN said :
         /\ said[n].by = r
         /\ \/ said[n].text = "finished" /\ ~raised[r] /\ todo[r] = <<>>
            \/ said[n].text = "ERROR" /\ raised[r] /\ todo[r] # <<>>

\* A run ends, whatever its steps do, and the next one may start.
RunEnds == running ~> ~running

\* A client that stays is sent everything from its replay on, once the threads
\* that emit fall silent.
ClientCatchesUp ==
  \A w \in Sockets :
    socket[w] = "live" ~> \/ socket[w] = "closed"
                         \/ since[w]..Len(said) \subseteq Range(shown[w])
=============================================================================
