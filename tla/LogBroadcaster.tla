---------------------------- MODULE LogBroadcaster ----------------------------
(***************************************************************************)
(* The LogBroadcaster of web_server.py and its clients, the websockets of  *)
(* endpoints/ws_log.py.  Threads emit, the event loop serves the sockets;  *)
(* the lock covers the buffer alone, so the steps of an emit and those of  *)
(* a new socket interleave.  A line is its number, counted from the start  *)
(* of the process.  PipelineRun composes this module with the pipeline.    *)
(***************************************************************************)
EXTENDS Integers, Sequences, Functions

CONSTANTS
  Emitters,   \* threads that emit
  Sockets,    \* connections; one that is closed does not come back
  MAX_LINES,  \* lines kept for replay
  MaxSaid     \* bound: lines said before steps and other threads fall silent

ASSUME BroadcasterAssumption == MAX_LINES \in Nat \ {0} /\ MaxSaid \in Nat

VARIABLES
  said,       \* said[n]: who emitted line n, and what it says
  lines,      \* _lines: the numbers of the lines kept
  listeners,  \* _listeners
  emitting,   \* emitting[e]: where e is in emit
  line,       \* line[e]: the line it emits
  untold,     \* untold[e]: the listeners it still has to tell
  socket,     \* socket[w]: "new", "subscribed", "live" or "closed"
  queue,      \* queue[w]: put and not yet taken by the socket
  rest,       \* rest[w]: what it has not yet sent of the replay
  shown,      \* shown[w]: the lines sent, in order
  since       \* since[w]: the oldest line that was kept when w was replayed

buffer   == <<said, lines>>
emitters == <<emitting, line, untold>>
sockets  == <<listeners, socket, queue, rest, shown, since>>
logVars  == <<buffer, emitters, sockets>>

LogInit ==
  /\ said = <<>> /\ lines = <<>> /\ listeners = {}
  /\ emitting = [e \in Emitters |-> "no"]
  /\ line = [e \in Emitters |-> 0]
  /\ untold = [e \in Emitters |-> {}]
  /\ socket = [w \in Sockets |-> "new"]
  /\ queue = [w \in Sockets |-> <<>>]
  /\ rest = [w \in Sockets |-> <<>>]
  /\ shown = [w \in Sockets |-> <<>>]
  /\ since = [w \in Sockets |-> 1]

-----------------------------------------------------------------------------
\* Mutated form: the buffer grows for ever.
NeverTrimmed(s) == s

\* del self._lines[:-self.MAX_LINES]
Trimmed(s) ==
  IF Len(s) > MAX_LINES THEN SubSeq(s, Len(s) - MAX_LINES + 1, Len(s)) ELSE s

\* The first half of emit, under the lock.
Emit(e, text) ==
  /\ emitting[e] = "no"
  /\ said' = Append(said, [by |-> e, text |-> text])
  /\ lines' = Trimmed(Append(lines, Len(said) + 1))
  /\ emitting' = [emitting EXCEPT ![e] = "appended"]
  /\ line' = [line EXCEPT ![e] = Len(said) + 1]
  /\ UNCHANGED <<untold, sockets>>

\* The second half: list(self._listeners), then one queue after the other.
Progress(left) == IF left = {} THEN "no" ELSE "telling"

CopyListeners(e) ==
  /\ emitting[e] = "appended"
  /\ untold' = [untold EXCEPT ![e] = listeners]
  /\ emitting' = [emitting EXCEPT ![e] = Progress(listeners)]
  /\ UNCHANGED <<buffer, line, sockets>>

Put(e, w) ==
  /\ w \in untold[e]
  /\ queue' = [queue EXCEPT ![w] = Append(@, line[e])]
  /\ untold' = [untold EXCEPT ![e] = @ \ {w}]
  /\ emitting' = [emitting EXCEPT ![e] = Progress(untold[e] \ {w})]
  /\ UNCHANGED <<buffer, line, listeners, socket, rest, shown, since>>

Emission(e) == CopyListeners(e) \/ \E w \in Sockets : Put(e, w)

-----------------------------------------------------------------------------
\* subscribe(q)
Subscribe(w) ==
  /\ socket[w] = "new"
  /\ listeners' = listeners \cup {w}
  /\ socket' = [socket EXCEPT ![w] = "subscribed"]
  /\ UNCHANGED <<buffer, emitters, queue, rest, shown, since>>

\* Mutated form: the lines emitted since the subscription would come anyway.
NoReplay(w) == <<>>

\* replay(q): a copy of the buffer.
Copy(w) == lines

Replay(w) ==
  /\ socket[w] = "subscribed"
  /\ socket' = [socket EXCEPT ![w] = "live"]
  /\ rest' = [rest EXCEPT ![w] = Copy(w)]
  /\ since' = [since EXCEPT ![w] = IF lines = <<>> THEN Len(said) + 1 ELSE lines[1]]
  /\ UNCHANGED <<buffer, emitters, listeners, queue, shown>>

\* The replay is sent before anything is taken from the queue.
SendReplayed(w) ==
  /\ socket[w] = "live"
  /\ rest[w] # <<>>
  /\ shown' = [shown EXCEPT ![w] = Append(@, Head(rest[w]))]
  /\ rest' = [rest EXCEPT ![w] = Tail(@)]
  /\ UNCHANGED <<buffer, emitters, listeners, socket, queue, since>>

\* Mutated form: the queue is served while the replay goes on.
MaySendQueued(w) == TRUE

ReplayIsSent(w) == rest[w] = <<>>

\* Mutated form: all that waits is taken, the first line is sent.
NothingLeft(w) == <<>>

\* One message is taken at a time.
LeftInQueue(w) == Tail(queue[w])

SendQueued(w) ==
  /\ socket[w] = "live"
  /\ ReplayIsSent(w)
  /\ queue[w] # <<>>
  /\ shown' = [shown EXCEPT ![w] = Append(@, Head(queue[w]))]
  /\ queue' = [queue EXCEPT ![w] = LeftInQueue(w)]
  /\ UNCHANGED <<buffer, emitters, listeners, socket, rest, since>>

\* The client leaves, or a send fails: the queue and the replay are dropped.
Disconnect(w) ==
  /\ socket[w] \in {"subscribed", "live"}
  /\ listeners' = listeners \ {w}
  /\ socket' = [socket EXCEPT ![w] = "closed"]
  /\ rest' = [rest EXCEPT ![w] = <<>>]
  /\ UNCHANGED <<buffer, emitters, queue, shown, since>>

Sending(w) == Replay(w) \/ SendReplayed(w) \/ SendQueued(w)

SocketStep(w) == Subscribe(w) \/ Sending(w) \/ Disconnect(w)

-----------------------------------------------------------------------------
(***************************************************************************)
(* Properties.                                                             *)
(***************************************************************************)

LineNumbers == 1..Len(said)

LogTypeOK ==
  /\ said \in Seq([by : Emitters, text : {"STARTING", "output", "finished", "ERROR", "WebDAV"}])
  /\ lines \in Seq(LineNumbers) /\ Len(lines) <= MAX_LINES
  /\ listeners \subseteq Sockets
  /\ emitting \in [Emitters -> {"no", "appended", "telling"}]
  /\ line \in [Emitters -> LineNumbers \cup {0}]
  /\ untold \in [Emitters -> SUBSET Sockets]
  /\ socket \in [Sockets -> {"new", "subscribed", "live", "closed"}]
  /\ queue \in [Sockets -> Seq(LineNumbers)]
  /\ rest \in [Sockets -> Seq(LineNumbers)]
  /\ shown \in [Sockets -> Seq(LineNumbers)]
  /\ since \in [Sockets -> Nat \ {0}]

\* The lines that a thread is on its way to put into the queue of w.
Owed(w) ==
  {line[e] : e \in {f \in Emitters :
     emitting[f] = "appended" \/ w \in untold[f]}}

\* Subscribing, replaying and emitting interleave without losing a line: from
\* the oldest line kept when a client was replayed, every line ever emitted was
\* sent to it, or waits in its replay or its queue, or is being put there.
NoLineMissed ==
  \A w \in Sockets : socket[w] = "live" =>
    since[w]..Len(said) \subseteq
      Range(shown[w]) \cup Range(rest[w]) \cup Range(queue[w]) \cup Owed(w)

\* A client may be sent a line twice, but it sees the lines of one thread for the
\* first time in the order in which that thread emitted them.
LinesInOrder ==
  \A w \in Sockets : \A i \in DOMAIN shown[w] : \A n \in since[w]..(shown[w][i] - 1) :
    said[n].by = said[shown[w][i]].by => \E j \in 1..(i - 1) : shown[w][j] = n
=============================================================================
