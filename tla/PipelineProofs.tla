---------------------------- MODULE PipelineProofs ----------------------------
(***************************************************************************)
(* The log of the pipeline, for any threads, clients and runs: no client   *)
(* misses a line or sees a thread's lines out of order, a run puts the     *)
(* streams back, and the log is a sequence of whole runs.                  *)
(***************************************************************************)
EXTENDS PipelineRun, FiniteSetTheorems, SequenceTheorems, TLAPS

Texts == {"STARTING", "output", "finished", "ERROR", "WebDAV"}

Said == [by : Emitters, text : Texts]

\* What comes before the i-th of s.
Before(s, i) == {s[j] : j \in 1..(i - 1)}

\* The lines kept are the last ones, and there is one if any was said.
LastLines ==
  /\ Len(lines) <= Len(said)
  /\ \A i \in 1..Len(lines) : lines[i] = Len(said) - Len(lines) + i
  /\ lines = <<>> => said = <<>>

\* A thread emits its own last line, and tells nobody before it has copied the
\* listeners or after it told them all.
OwnLine ==
  \A e \in Emitters :
    /\ emitting[e] # "telling" => untold[e] = {}
    /\ emitting[e] # "no" =>
         /\ line[e] \in DOMAIN said /\ said[line[e]].by = e
         /\ \A n \in DOMAIN said : said[n].by = e => n <= line[e]

\* The sockets that are served are the listeners.
ListenersServed ==
  \A w \in Sockets :
    /\ w \in listeners <=> socket[w] \in {"subscribed", "live"}
    /\ socket[w] # "live" => rest[w] = <<>>
    /\ socket[w] \in {"new", "subscribed"} => shown[w] = <<>>

\* The lines that the author of line m said before it, from the oldest line
\* that w was replayed.
Earlier(w, m) == {n \in since[w]..(m - 1) : said[n].by = said[m].by}

\* What is sent, replayed and queued to w, in this order, is in the order in
\* which each thread emitted it.
InOrder(w) ==
  /\ \A i \in DOMAIN shown[w] : Earlier(w, shown[w][i]) \subseteq Before(shown[w], i)
  /\ socket[w] = "live" =>
       /\ \A i \in DOMAIN rest[w] :
            Earlier(w, rest[w][i]) \subseteq Range(shown[w]) \cup Before(rest[w], i)
       /\ \A i \in DOMAIN queue[w] :
            Earlier(w, queue[w][i])
              \subseteq Range(shown[w]) \cup Range(rest[w]) \cup Before(queue[w], i)

LogInv ==
  /\ LogTypeOK /\ LastLines /\ OwnLine /\ ListenersServed
  /\ NoLineMissed /\ \A w \in Sockets : InOrder(w)

\* Runs take turns, and the flag is set while one is under way.
Active(r) == run[r] \notin {"none", "ended"}

OneAtATime ==
  /\ \A r \in Runs :
       /\ r > started => run[r] = "none"
       /\ r < started => run[r] = "ended"
       /\ r = started => run[r] # "none"
       /\ Active(r) => running
  /\ running => \E r \in Runs : Active(r)

\* Each stream is wrapped once, by the run that is under way, or not at all.
WrappedOnce ==
  /\ \A r \in Runs : origOut[r] = <<>> /\ origErr[r] = <<>>
  /\ ~running => out = <<>> /\ err = <<>>
  /\ \A r \in Runs : Active(r) =>
       /\ out = IF run[r] \in {"redirectErr", "next", "step", "raised", "restore"}
                THEN <<r>> ELSE <<>>
       /\ err = IF run[r] \in {"next", "step", "raised", "restore", "restoreErr"}
                THEN <<r>> ELSE <<>>

\* What the phase of a run tells of its steps and of what it emits.
PhaseTells ==
  \A r \in Runs :
    /\ run[r] \notin {"step", "restore"} => emitting[r] = "no"
    /\ run[r] \in {"none", "redirect", "redirectErr", "next", "step"} => ~raised[r]
    /\ run[r] \in {"step", "raised"} => todo[r] # <<>>
    /\ run[r] = "raised" => raised[r]

\* The closing line of run r, as its steps ended.
Closes(l, r) ==
  /\ l.by = r
  /\ \/ l.text = "finished" /\ ~raised[r] /\ todo[r] = <<>>
     \/ l.text = "ERROR" /\ raised[r] /\ todo[r] # <<>>

AfterClosing == {"restore", "restoreErr", "clear", "ended"}

ToldInTurn ==
  /\ \A n \in DOMAIN said : said[n].by \in Runs =>
       /\ said[n].by <= started
       /\ said[n].text \in {"finished", "ERROR"} => run[said[n].by] \in AfterClosing
  /\ \A m, n \in DOMAIN said :
       m < n /\ said[m].by \in Runs /\ said[n].by \in Runs
         => /\ said[m].by <= said[n].by
            /\ said[m].text \in {"finished", "ERROR"} => said[m].by < said[n].by
  /\ \A r \in Runs : run[r] \in AfterClosing => \E n \in DOMAIN said : Closes(said[n], r)

\* The types of what the pipeline adds to the log.
RunTypes ==
  /\ running \in BOOLEAN /\ started \in 0..MaxRuns
  /\ run \in [Runs -> {"none", "redirect", "redirectErr", "next", "step", "raised",
                      "restore", "restoreErr", "clear", "ended"}]
  /\ todo \in [Runs -> Seq(0..(NumSteps - 1))]
  /\ raised \in [Runs -> BOOLEAN]
  /\ {out, err} \subseteq Seq(Runs) /\ {origOut, origErr} \subseteq [Runs -> Seq(Runs)]

RunInv == RunTypes /\ OneAtATime /\ WrappedOnce /\ PhaseTells /\ ToldInTurn

IInv == LogInv /\ RunInv

-----------------------------------------------------------------------------
(***************************************************************************)
(* Sequences.                                                              *)
(***************************************************************************)

\* What appending an element adds.
LEMMA AppendAdds ==
  ASSUME NEW S, NEW s \in Seq(S), NEW x \in S
  PROVE  /\ Append(s, x) \in Seq(S) /\ Len(Append(s, x)) = Len(s) + 1
         /\ Range(Append(s, x)) = Range(s) \cup {x}
         /\ \A i \in DOMAIN s : Append(s, x)[i] = s[i] /\ Before(Append(s, x), i) = Before(s, i)
         /\ Append(s, x)[Len(s) + 1] = x /\ Before(Append(s, x), Len(s) + 1) = Range(s)
  <1>1. /\ Append(s, x) \in Seq(S) /\ Len(Append(s, x)) = Len(s) + 1
        /\ DOMAIN s = 1..Len(s) /\ DOMAIN Append(s, x) = 1..(Len(s) + 1) /\ Len(s) \in Nat
        /\ \A i \in 1..Len(s) : Append(s, x)[i] = s[i]
        /\ Append(s, x)[Len(s) + 1] = x
    OBVIOUS
  <1>2. Range(Append(s, x)) = Range(s) \cup {x}
    BY <1>1 DEF Range
  <1>3. ASSUME NEW i \in DOMAIN s PROVE Before(Append(s, x), i) = Before(s, i)
    BY <1>1, <1>3 DEF Before
  <1>4. Before(Append(s, x), Len(s) + 1) = Range(s)
    BY <1>1 DEF Before, Range
  <1> QED BY <1>1, <1>2, <1>3, <1>4

\* The sequence t is s with x after it.
Appended(t, s, x, S) ==
  /\ t \in Seq(S) /\ Len(t) = Len(s) + 1 /\ Range(t) = Range(s) \cup {x}
  /\ \A i \in DOMAIN s : t[i] = s[i] /\ Before(t, i) = Before(s, i)
  /\ t[Len(s) + 1] = x /\ Before(t, Len(s) + 1) = Range(s)

LEMMA AppendIs ==
  ASSUME NEW S, NEW s \in Seq(S), NEW x \in S
  PROVE  Appended(Append(s, x), s, x, S)
  BY AppendAdds DEF Appended

\* What taking the head leaves.
LEMMA TailLeaves ==
  ASSUME NEW S, NEW s \in Seq(S), s # <<>>
  PROVE  /\ Tail(s) \in Seq(S) /\ Head(s) \in S /\ 1 \in DOMAIN s /\ s[1] = Head(s)
         /\ Range(s) = {Head(s)} \cup Range(Tail(s))
         /\ Before(s, 1) = {}
         /\ \A i \in DOMAIN Tail(s) :
              /\ i + 1 \in DOMAIN s /\ Tail(s)[i] = s[i + 1]
              /\ Before(s, i + 1) = {Head(s)} \cup Before(Tail(s), i)
  <1>1. /\ Tail(s) \in Seq(S) /\ Head(s) \in S /\ Head(s) = s[1]
        /\ Len(s) \in Nat \ {0} /\ DOMAIN s = 1..Len(s) /\ DOMAIN Tail(s) = 1..(Len(s) - 1)
        /\ \A i \in 1..(Len(s) - 1) : Tail(s)[i] = s[i + 1]
    <2>1. Len(s) \in Nat \ {0} /\ DOMAIN s = 1..Len(s) /\ Head(s) = s[1]
      BY EmptySeq
    <2>2. /\ Tail(s) \in Seq(S) /\ Head(s) \in S /\ Len(Tail(s)) = Len(s) - 1
          /\ \A i \in 1..Len(Tail(s)) : Tail(s)[i] = s[i + 1]
      BY HeadTailProperties
    <2>3. DOMAIN Tail(s) = 1..Len(Tail(s))
      BY <2>2, LenProperties
    <2>4. Tail(s) \in Seq(S) /\ Head(s) \in S
      BY <2>2
    <2>5. \A i \in 1..(Len(s) - 1) : Tail(s)[i] = s[i + 1]
      BY <2>2
    <2>6. DOMAIN Tail(s) = 1..(Len(s) - 1)
      BY <2>2, <2>3
    <2> QED BY ONLY <2>1, <2>4, <2>5, <2>6, Zenon
  <1>2. \A k \in 1..Len(s) : k = 1 \/ (k - 1 \in 1..(Len(s) - 1) /\ Tail(s)[k - 1] = s[k])
    BY <1>1
  <1>3. Range(s) = {Head(s)} \cup Range(Tail(s))
    <2>1. ASSUME NEW x \in Range(s) PROVE x \in {Head(s)} \cup Range(Tail(s))
      <3>1. PICK k \in 1..Len(s) : x = s[k]
        BY <1>1, <2>1 DEF Range
      <3> QED BY <1>1, <1>2, <3>1 DEF Range
    <2>2. ASSUME NEW x \in {Head(s)} \cup Range(Tail(s)) PROVE x \in Range(s)
      <3>1. 1 \in 1..Len(s) /\ \A k \in 1..(Len(s) - 1) : k + 1 \in 1..Len(s)
        BY <1>1
      <3> QED BY <1>1, <2>2, <3>1 DEF Range
    <2> QED BY <2>1, <2>2
  <1>4. Before(s, 1) = {}
    BY DEF Before
  <1>5. ASSUME NEW i \in DOMAIN Tail(s)
        PROVE  i + 1 \in DOMAIN s /\ Before(s, i + 1) = {Head(s)} \cup Before(Tail(s), i)
    <2>1. i \in Nat \ {0} /\ i + 1 \in DOMAIN s
      BY <1>1, <1>5
    <2>2. ASSUME NEW x \in Before(s, i + 1) PROVE x \in {Head(s)} \cup Before(Tail(s), i)
      <3>1. PICK k \in 1..i : x = s[k]
        BY <2>1, <2>2 DEF Before
      <3>2. k \in 1..Len(s) /\ (k = 1 \/ k - 1 \in 1..(i - 1))
        BY <1>1, <1>5, <2>1, <3>1
      <3> QED BY <1>1, <1>2, <3>1, <3>2 DEF Before
    <2>3. ASSUME NEW x \in Before(Tail(s), i) PROVE x \in Before(s, i + 1)
      <3>1. PICK k \in 1..(i - 1) : x = Tail(s)[k]
        BY <2>3 DEF Before
      <3>2. k + 1 \in 1..i /\ x = s[k + 1]
        BY <1>1, <1>5, <2>1, <3>1
      <3> QED BY <2>1, <3>2 DEF Before
    <2>4. Head(s) \in Before(s, i + 1)
      BY <1>1, <2>1 DEF Before
    <2> QED BY <2>1, <2>2, <2>3, <2>4
  <1>6. 1 \in DOMAIN s /\ \A i \in DOMAIN Tail(s) : Tail(s)[i] = s[i + 1]
    BY <1>1
  <1> QED BY <1>1, <1>3, <1>4, <1>5, <1>6, Zenon

\* The trimmed buffer is the end of the buffer, as long as may be.
LEMMA TrimmedIsEnd ==
  ASSUME NEW S, NEW s \in Seq(S)
  PROVE  /\ Trimmed(s) \in Seq(S)
         /\ Len(Trimmed(s)) = IF Len(s) > MAX_LINES THEN MAX_LINES ELSE Len(s)
         /\ \A i \in 1..Len(Trimmed(s)) : Trimmed(s)[i] = s[Len(s) - Len(Trimmed(s)) + i]
  <1>0. Len(s) \in Nat /\ MAX_LINES \in Nat \ {0} /\ \A i \in 1..Len(s) : s[i] \in S
    BY BroadcasterAssumption
  <1>1. CASE Len(s) <= MAX_LINES
    <2>1. Trimmed(s) = s
      BY <1>0, <1>1 DEF Trimmed
    <2> QED BY <1>0, <1>1, <2>1
  <1>2. CASE Len(s) > MAX_LINES
    <2> DEFINE m == Len(s) - MAX_LINES + 1
    <2>1. Trimmed(s) = SubSeq(s, m, Len(s)) /\ m \in 1..Len(s) /\ Len(s) - m + 1 = MAX_LINES
      BY <1>0, <1>2 DEF Trimmed
    <2>2. /\ SubSeq(s, m, Len(s)) \in Seq(S) /\ Len(SubSeq(s, m, Len(s))) = MAX_LINES
          /\ \A i \in 1..MAX_LINES : SubSeq(s, m, Len(s))[i] = s[m + i - 1]
      <3> HIDE DEF m
      <3>1. m \in Int /\ Len(s) \in Int /\ m <= Len(s) /\ \A i \in m..Len(s) : s[i] \in S
        BY <1>0, <2>1
      <3> QED BY <2>1, <3>1, SubSeqProperties
    <2>3. \A i \in 1..MAX_LINES : m + i - 1 = Len(s) - MAX_LINES + i
      BY <1>0
    <2> QED BY <1>0, <1>2, <2>1, <2>2, <2>3
  <1> QED BY <1>0, <1>1, <1>2

-----------------------------------------------------------------------------
(***************************************************************************)
(* The broadcaster.                                                        *)
(***************************************************************************)

\* What is known of the log, in the form in which the steps use it.
LEMMA LogKnown ==
  ASSUME LogTypeOK
  PROVE  /\ said \in Seq(Said) /\ Len(said) \in Nat /\ DOMAIN said = 1..Len(said)
         /\ \A n \in 1..Len(said) : said[n].by \in Emitters /\ said[n] \in Said
         /\ lines \in Seq(1..Len(said)) /\ Len(lines) \in Nat /\ Len(lines) <= MAX_LINES
         /\ \A w \in Sockets :
              /\ since[w] \in Nat \ {0}
              /\ queue[w] \in Seq(1..Len(said)) /\ DOMAIN queue[w] = 1..Len(queue[w])
              /\ rest[w] \in Seq(1..Len(said)) /\ DOMAIN rest[w] = 1..Len(rest[w])
              /\ shown[w] \in Seq(1..Len(said)) /\ DOMAIN shown[w] = 1..Len(shown[w])
              /\ \A i \in DOMAIN queue[w] : queue[w][i] \in 1..Len(said)
              /\ \A i \in DOMAIN rest[w] : rest[w][i] \in 1..Len(said)
              /\ \A i \in DOMAIN shown[w] : shown[w][i] \in 1..Len(said)
  <1>1. said \in Seq(Said) /\ lines \in Seq(1..Len(said)) /\ Len(lines) <= MAX_LINES
    BY DEF LogTypeOK, LineNumbers, Said, Texts
  <1>2. ASSUME NEW w \in Sockets
        PROVE  /\ since[w] \in Nat \ {0}
               /\ queue[w] \in Seq(1..Len(said)) /\ rest[w] \in Seq(1..Len(said))
               /\ shown[w] \in Seq(1..Len(said))
    BY DEF LogTypeOK, LineNumbers
  <1>3. ASSUME NEW n \in 1..Len(said) PROVE said[n] \in Said /\ said[n].by \in Emitters
    <2>1. said[n] \in Said
      BY <1>1, ElementOfSeq
    <2> QED BY <2>1 DEF Said
  <1>4. Len(said) \in Nat /\ DOMAIN said = 1..Len(said) /\ Len(lines) \in Nat
    BY <1>1
  <1>5. ASSUME NEW s \in Seq(1..Len(said))
        PROVE  DOMAIN s = 1..Len(s) /\ \A i \in DOMAIN s : s[i] \in 1..Len(said)
    <2>1. DOMAIN s = 1..Len(s)
      OBVIOUS
    <2> QED BY <2>1, ElementOfSeq
  <1>6. ASSUME NEW w \in Sockets
        PROVE  /\ DOMAIN queue[w] = 1..Len(queue[w]) /\ DOMAIN rest[w] = 1..Len(rest[w])
               /\ DOMAIN shown[w] = 1..Len(shown[w])
               /\ \A i \in DOMAIN queue[w] : queue[w][i] \in 1..Len(said)
               /\ \A i \in DOMAIN rest[w] : rest[w][i] \in 1..Len(said)
               /\ \A i \in DOMAIN shown[w] : shown[w][i] \in 1..Len(said)
    BY <1>2, <1>5
  <1> QED BY <1>1, <1>2, <1>3, <1>4, <1>6

\* The log starts empty.
LEMMA LogStarts == ASSUME LogInit PROVE LogInv
  <1> USE DEF LogInit
  <1>1. LogTypeOK
    BY BroadcasterAssumption DEF LogTypeOK, LineNumbers
  <1>2. LastLines /\ OwnLine /\ ListenersServed
    BY DEF LastLines, OwnLine, ListenersServed
  <1>3. NoLineMissed /\ \A w \in Sockets : InOrder(w)
    BY DEF NoLineMissed, InOrder
  <1> QED BY <1>1, <1>2, <1>3 DEF LogInv

\* Lines said later do not change who said the earlier ones.
LEMMA EarlierStays ==
  ASSUME LogTypeOK, NEW w \in Sockets, since'[w] = since[w], NEW m \in 1..Len(said),
         \A n \in 1..Len(said) : said'[n] = said[n]
  PROVE  Earlier(w, m)' = Earlier(w, m)
  <1>1. since[w] \in Nat \ {0} /\ Len(said) \in Nat
    BY LogKnown
  <1>2. \A n \in since[w]..(m - 1) : n \in 1..Len(said)
    BY <1>1
  <1>3. \A n \in since[w]..(m - 1) : said'[n] = said[n] /\ said'[m] = said[m]
    BY <1>2
  <1> QED BY <1>3 DEF Earlier

\* What a client has and will be sent stays in order while nothing of it moves.
LEMMA StreamStays ==
  ASSUME LogTypeOK, NEW w \in Sockets, InOrder(w),
         socket'[w] = socket[w], shown'[w] = shown[w], rest'[w] = rest[w], queue'[w] = queue[w],
         \A m \in 1..Len(said) : Earlier(w, m)' = Earlier(w, m)
  PROVE  InOrder(w)'
  <1>1. /\ \A i \in DOMAIN queue[w] : queue[w][i] \in 1..Len(said)
        /\ \A i \in DOMAIN rest[w] : rest[w][i] \in 1..Len(said)
        /\ \A i \in DOMAIN shown[w] : shown[w][i] \in 1..Len(said)
    BY LogKnown
  <1>2. \A i \in DOMAIN shown'[w] : Earlier(w, shown[w][i])' \subseteq Before(shown'[w], i)
    BY <1>1 DEF InOrder
  <1>3. ASSUME socket'[w] = "live", NEW i \in DOMAIN rest'[w]
        PROVE  Earlier(w, rest[w][i])' \subseteq Range(shown'[w]) \cup Before(rest'[w], i)
    BY <1>1, <1>3 DEF InOrder
  <1>4. ASSUME socket'[w] = "live", NEW i \in DOMAIN queue'[w]
        PROVE  Earlier(w, queue[w][i])'
                 \subseteq Range(shown'[w]) \cup Range(rest'[w]) \cup Before(queue'[w], i)
    BY <1>1, <1>4 DEF InOrder
  <1> QED BY <1>2, <1>3, <1>4 DEF InOrder

\* A line is appended to the buffer, and owed to every client.
LEMMA EmitHolds ==
  ASSUME LogInv, NEW e \in Emitters, NEW text \in Texts, Emit(e, text)
  PROVE  LogInv'
  <1> DEFINE N == Len(said) + 1
  <1>0. LogTypeOK /\ emitting[e] = "no" /\ untold[e] = {} /\ UNCHANGED <<untold, sockets>>
    BY DEF LogInv, Emit, OwnLine
  <1>1. /\ said' \in Seq(Said) /\ Len(said') = N /\ N \in Nat /\ Len(said) \in Nat
        /\ \A n \in 1..Len(said) : said'[n] = said[n]
        /\ said'[N].by = e /\ DOMAIN said' = 1..N /\ DOMAIN said = 1..Len(said)
    <2>1. said \in Seq(Said) /\ [by |-> e, text |-> text] \in Said
      BY <1>0, LogKnown DEF Said
    <2>2. said' = Append(said, [by |-> e, text |-> text])
      BY DEF Emit
    <2> QED BY <2>1, <2>2, AppendProperties, LenProperties
  <1>2. 1..Len(said) \subseteq 1..N
    BY <1>1
  <1>3. /\ lines \in Seq(1..N) /\ Len(lines) \in Nat
        /\ \A w \in Sockets :
             queue[w] \in Seq(1..N) /\ rest[w] \in Seq(1..N) /\ shown[w] \in Seq(1..N)
    BY <1>0, <1>2, LogKnown, SeqMonotonic
  <1> DEFINE a == Append(lines, N)
  <1>4. /\ a \in Seq(1..N) /\ Len(a) = Len(lines) + 1 /\ a[Len(lines) + 1] = N
        /\ \A i \in 1..Len(lines) : a[i] = lines[i]
    BY <1>1, <1>3, AppendProperties
  <1>5. \A i \in 1..Len(a) : a[i] = N - Len(a) + i
    <2> HIDE DEF a, N
    <2>1. \A i \in 1..Len(lines) : lines[i] = Len(said) - Len(lines) + i
      BY DEF LogInv, LastLines
    <2> SUFFICES ASSUME NEW i \in 1..Len(a) PROVE a[i] = N - Len(a) + i
      OBVIOUS
    <2>2. CASE i \in 1..Len(lines)
      <3>1. a[i] = Len(said) - Len(lines) + i
        BY <1>4, <2>1, <2>2
      <3> QED BY <1>1, <1>3, <1>4, <3>1 DEF N
    <2>3. CASE i = Len(lines) + 1
      BY <1>1, <1>3, <1>4, <2>3
    <2> QED BY <1>3, <1>4, <2>2, <2>3
  <1>6. /\ lines' \in Seq(1..N) /\ Len(lines') \in Nat \ {0}
        /\ Len(lines') <= Len(a) /\ Len(lines') <= MAX_LINES
        /\ \A i \in 1..Len(lines') : lines'[i] = a[Len(a) - Len(lines') + i]
    <2>1. lines' = Trimmed(a)
      BY DEF Emit
    <2> HIDE DEF a, N
    <2>2. MAX_LINES \in Nat \ {0} /\ Len(a) \in Nat \ {0}
      BY <1>3, <1>4, BroadcasterAssumption
    <2>3. /\ Trimmed(a) \in Seq(1..N)
          /\ Len(Trimmed(a)) = IF Len(a) > MAX_LINES THEN MAX_LINES ELSE Len(a)
          /\ \A i \in 1..Len(Trimmed(a)) : Trimmed(a)[i] = a[Len(a) - Len(Trimmed(a)) + i]
      BY <1>4, TrimmedIsEnd
    <2>4. /\ Len(Trimmed(a)) \in Nat \ {0}
          /\ Len(Trimmed(a)) <= Len(a) /\ Len(Trimmed(a)) <= MAX_LINES
      BY ONLY <2>2, <2>3
    <2> QED BY ONLY <2>1, <2>3, <2>4, Zenon
  <1>7. LogTypeOK'
    <2>1. said' \in Seq([by : Emitters, text : {"STARTING", "output", "finished", "ERROR", "WebDAV"}])
      BY <1>1 DEF Said, Texts
    <2>2. lines' \in Seq(LineNumbers') /\ Len(lines') <= MAX_LINES
      BY <1>1, <1>6 DEF LineNumbers
    <2>3. line' \in [Emitters -> LineNumbers' \cup {0}]
      BY <1>0, <1>1 DEF Emit, LogTypeOK, LineNumbers
    <2>4. emitting' \in [Emitters -> {"no", "appended", "telling"}]
      BY <1>0 DEF Emit, LogTypeOK
    <2>5. /\ queue' \in [Sockets -> Seq(LineNumbers')] /\ rest' \in [Sockets -> Seq(LineNumbers')]
          /\ shown' \in [Sockets -> Seq(LineNumbers')]
      <3>1. queue' = queue /\ rest' = rest /\ shown' = shown /\ LineNumbers' = 1..N
        BY <1>0, <1>1 DEF sockets, LineNumbers
      <3> HIDE DEF N
      <3> QED BY <1>0, <1>3, <3>1 DEF LogTypeOK
    <2>6. /\ untold' = untold /\ listeners' = listeners /\ socket' = socket /\ since' = since
      BY <1>0 DEF sockets
    <2> QED BY <1>0, <2>1, <2>2, <2>3, <2>4, <2>5, <2>6 DEF LogTypeOK
  <1>8. LastLines'
    <2>1. Len(lines) <= Len(said)
      BY DEF LogInv, LastLines
    <2>2. \A i \in 1..Len(lines') : Len(a) - Len(lines') + i \in 1..Len(a)
      <3> HIDE DEF a
      <3> QED BY <1>3, <1>4, <1>6
    <2>3. \A i \in 1..Len(lines') : lines'[i] = N - Len(lines') + i
      <3> HIDE DEF a, N
      <3>1. Len(a) \in Nat /\ N \in Nat
        BY <1>1, <1>3, <1>4
      <3> QED BY <1>5, <1>6, <2>2, <3>1
    <2>4. Len(lines') <= N /\ lines' # <<>>
      <3> HIDE DEF a
      <3> QED BY <1>1, <1>3, <1>4, <1>6, <2>1
    <2> QED BY <1>1, <2>3, <2>4 DEF LastLines
  <1>9. OwnLine'
    <2> SUFFICES ASSUME NEW f \in Emitters
                 PROVE  /\ emitting'[f] # "telling" => untold'[f] = {}
                        /\ emitting'[f] # "no" =>
                             /\ line'[f] \in DOMAIN said' /\ said'[line'[f]].by = f
                             /\ \A n \in DOMAIN said' : said'[n].by = f => n <= line'[f]
      BY DEF OwnLine
    <2>1. CASE f = e
      <3>1. emitting'[e] = "appended" /\ untold'[e] = {} /\ line'[e] = N
        BY <1>0 DEF Emit, LogTypeOK
      <3> QED BY <1>1, <2>1, <3>1
    <2>2. CASE f # e
      <3>1. emitting'[f] = emitting[f] /\ untold'[f] = untold[f] /\ line'[f] = line[f]
        BY <1>0, <2>2 DEF Emit, LogTypeOK
      <3>2. /\ emitting[f] # "telling" => untold[f] = {}
            /\ emitting[f] # "no" =>
                 /\ line[f] \in DOMAIN said /\ said[line[f]].by = f
                 /\ \A n \in DOMAIN said : said[n].by = f => n <= line[f]
        BY DEF LogInv, OwnLine
      <3>3. \A n \in 1..N : n \in 1..Len(said) \/ n = N
        BY <1>1
      <3> HIDE DEF N
      <3> QED BY <1>1, <1>2, <2>2, <3>1, <3>2, <3>3
    <2> QED BY <2>1, <2>2
  <1>10. ListenersServed'
    BY <1>0 DEF LogInv, ListenersServed, sockets
  <1>11. NoLineMissed'
    <2> SUFFICES ASSUME NEW w \in Sockets, socket'[w] = "live", NEW n \in since'[w]..Len(said')
                 PROVE  n \in Range(shown'[w]) \cup Range(rest'[w]) \cup Range(queue'[w]) \cup Owed(w)'
      BY DEF NoLineMissed
    <2>1. socket'[w] = socket[w] /\ since'[w] = since[w] /\ shown'[w] = shown[w]
          /\ rest'[w] = rest[w] /\ queue'[w] = queue[w] /\ untold' = untold
      BY <1>0 DEF sockets
    <2>2. since[w] \in Nat \ {0}
      BY <1>0, LogKnown
    <2>3. emitting'[e] = "appended" /\ line'[e] = N
      BY <1>0 DEF Emit, LogTypeOK
    <2>4. CASE n = N
      BY <2>3, <2>4 DEF Owed
    <2>5. CASE n # N
      <3>1. n \in since[w]..Len(said)
        BY <1>1, <2>1, <2>2, <2>5
      <3>2. n \in Range(shown[w]) \cup Range(rest[w]) \cup Range(queue[w]) \cup Owed(w)
        BY <2>1, <3>1 DEF LogInv, NoLineMissed
      <3>3. ASSUME n \in Owed(w) PROVE n \in Owed(w)'
        <4>1. PICK f \in Emitters : n = line[f] /\ (emitting[f] = "appended" \/ w \in untold[f])
          BY <3>3 DEF Owed
        <4>2. f # e
          BY <1>0, <4>1
        <4>3. line'[f] = line[f] /\ emitting'[f] = emitting[f]
          BY <1>0, <4>2 DEF Emit, LogTypeOK
        <4> QED BY <2>1, <4>1, <4>3 DEF Owed
      <3> QED BY <2>1, <3>2, <3>3
    <2> QED BY <2>4, <2>5
  <1>12. ASSUME NEW w \in Sockets PROVE InOrder(w)'
    <2>1. socket' = socket /\ since'[w] = since[w] /\ shown' = shown
          /\ rest' = rest /\ queue' = queue
      BY <1>0 DEF sockets
    <2>2. \A m \in 1..Len(said) : Earlier(w, m)' = Earlier(w, m)
      BY <1>0, <1>1, <2>1, EarlierStays
    <2> QED BY <1>0, <2>1, <2>2, StreamStays DEF LogInv
  <1> QED BY <1>7, <1>8, <1>9, <1>10, <1>11, <1>12 DEF LogInv

\* A client that stays as it was, and is owed what it was owed, misses nothing.
NoneMissed(w) ==
  socket[w] = "live" =>
    since[w]..Len(said) \subseteq
      Range(shown[w]) \cup Range(rest[w]) \cup Range(queue[w]) \cup Owed(w)

LEMMA ClientLeft ==
  ASSUME LogInv, NEW w \in Sockets, said' = said, since'[w] = since[w], socket'[w] = socket[w],
         shown'[w] = shown[w], rest'[w] = rest[w], queue'[w] = queue[w],
         socket[w] = "live" => Owed(w) \subseteq Owed(w)'
  PROVE  NoneMissed(w)' /\ InOrder(w)'
  <1>1. NoneMissed(w)'
    BY DEF NoneMissed, LogInv, NoLineMissed
  <1>2. \A m \in 1..Len(said) : Earlier(w, m)' = Earlier(w, m)
    BY DEF Earlier
  <1> QED BY <1>1, <1>2, StreamStays DEF LogInv

\* A thread copies the list of listeners: it owes its line to those on it.
LEMMA CopyHolds ==
  ASSUME LogInv, NEW e \in Emitters, CopyListeners(e) PROVE LogInv'
  <1>0. /\ LogTypeOK /\ LastLines /\ OwnLine /\ ListenersServed
        /\ emitting[e] = "appended" /\ UNCHANGED <<said, lines, line, sockets>>
        /\ untold' = [untold EXCEPT ![e] = listeners]
        /\ emitting' = [emitting EXCEPT ![e] = Progress(listeners)]
    BY DEF LogInv, CopyListeners, buffer
  <1>1. LogTypeOK'
    BY <1>0 DEF LogTypeOK, LineNumbers, sockets, Progress
  <1>2. LastLines' /\ ListenersServed'
    BY <1>0 DEF LastLines, ListenersServed, sockets
  <1>3. OwnLine'
    BY <1>0 DEF OwnLine, Progress, LogTypeOK
  <1>4. ASSUME NEW w \in Sockets PROVE NoneMissed(w)' /\ InOrder(w)'
    <2>1. ASSUME socket[w] = "live", NEW f \in Emitters,
                 emitting[f] = "appended" \/ w \in untold[f]
          PROVE  line'[f] = line[f] /\ (emitting'[f] = "appended" \/ w \in untold'[f])
      BY <1>0, <2>1 DEF ListenersServed, LogTypeOK
    <2>2. socket[w] = "live" => Owed(w) \subseteq Owed(w)'
      BY <2>1 DEF Owed
    <2> QED BY <1>0, <2>2, ClientLeft DEF sockets
  <1> QED BY <1>1, <1>2, <1>3, <1>4 DEF LogInv, NoLineMissed, NoneMissed

\* A line joins the queue: whatever its author said before it is there already.
LEMMA PutHolds ==
  ASSUME LogInv, NEW e \in Emitters, NEW w \in Sockets, Put(e, w) PROVE LogInv'
  <1> DEFINE m == line[e]
  <1>0. /\ LogTypeOK /\ LastLines /\ OwnLine /\ ListenersServed /\ w \in untold[e]
        /\ UNCHANGED <<said, lines, line, listeners, socket, rest, shown, since>>
        /\ queue' = [queue EXCEPT ![w] = Append(@, m)]
        /\ untold' = [untold EXCEPT ![e] = @ \ {w}]
        /\ emitting' = [emitting EXCEPT ![e] = Progress(untold[e] \ {w})]
    BY DEF LogInv, Put, buffer
  <1>1. emitting[e] = "telling" /\ m \in 1..Len(said) /\ said[m].by = e
    BY <1>0, LogKnown DEF OwnLine
  <1>2. queue[w] \in Seq(1..Len(said)) /\ queue'[w] = Append(queue[w], m)
        /\ \A v \in Sockets : v # w => queue'[v] = queue[v]
    BY <1>0, LogKnown DEF LogTypeOK
  <1> HIDE DEF m
  <1>3. LogTypeOK'
    <2>1. queue' \in [Sockets -> Seq(LineNumbers)]
      <3>1. Append(queue[w], m) \in Seq(LineNumbers)
        BY <1>1, <1>2, AppendProperties DEF LineNumbers
      <3> QED BY <1>0, <3>1 DEF LogTypeOK
    <2>2. emitting' \in [Emitters -> {"no", "appended", "telling"}]
          /\ untold' \in [Emitters -> SUBSET Sockets]
      BY <1>0 DEF LogTypeOK, Progress
    <2>3. LineNumbers' = LineNumbers
      BY <1>0 DEF LineNumbers
    <2> QED BY <1>0, <2>1, <2>2, <2>3 DEF LogTypeOK
  <1>4. LastLines' /\ ListenersServed'
    BY <1>0 DEF LastLines, ListenersServed
  <1>5. OwnLine'
    BY <1>0, <1>1 DEF OwnLine, Progress, LogTypeOK
  <1>6. ASSUME NEW v \in Sockets, NEW n \in Owed(v), v = w => n # m PROVE n \in Owed(v)'
    <2>1. PICK f \in Emitters : n = line[f] /\ (emitting[f] = "appended" \/ v \in untold[f])
      BY <1>6 DEF Owed
    <2>2. line'[f] = line[f] /\ (emitting'[f] = "appended" \/ v \in untold'[f])
      BY <1>0, <1>1, <1>6, <2>1 DEF LogTypeOK, m
    <2> QED BY <2>1, <2>2 DEF Owed
  <1>7. /\ Range(queue'[w]) = Range(queue[w]) \cup {m}
        /\ DOMAIN queue'[w] = 1..(Len(queue[w]) + 1) /\ DOMAIN queue[w] = 1..Len(queue[w])
        /\ Len(queue[w]) \in Nat
        /\ \A i \in DOMAIN queue[w] :
             queue'[w][i] = queue[w][i] /\ Before(queue'[w], i) = Before(queue[w], i)
        /\ queue'[w][Len(queue[w]) + 1] = m /\ Before(queue'[w], Len(queue[w]) + 1) = Range(queue[w])
    <2>1. /\ Append(queue[w], m) \in Seq(1..Len(said))
          /\ Len(Append(queue[w], m)) = Len(queue[w]) + 1
      BY <1>1, <1>2, AppendAdds
    <2>2. DOMAIN Append(queue[w], m) = 1..(Len(queue[w]) + 1)
      BY <2>1, LenProperties
    <2> QED BY <1>1, <1>2, <2>2, AppendAdds
  <1>8. NoneMissed(w)'
    BY <1>0, <1>6, <1>7 DEF NoneMissed, LogInv, NoLineMissed
  <1>9. InOrder(w)'
    <2>0. InOrder(w) /\ NoneMissed(w)
      BY DEF LogInv, NoLineMissed, NoneMissed
    <2>1. \A k \in 1..Len(said) : Earlier(w, k)' = Earlier(w, k)
      BY <1>0 DEF Earlier
    <2>2. /\ \A i \in DOMAIN queue[w] : queue[w][i] \in 1..Len(said)
          /\ \A i \in DOMAIN rest[w] : rest[w][i] \in 1..Len(said)
          /\ \A i \in DOMAIN shown[w] : shown[w][i] \in 1..Len(said)
      BY <1>0, LogKnown
    <2>3. shown'[w] = shown[w] /\ rest'[w] = rest[w] /\ socket'[w] = socket[w]
      BY <1>0
    <2>4. \A i \in DOMAIN shown[w] : Earlier(w, shown[w][i])' \subseteq Before(shown[w], i)
      BY <2>0, <2>1, <2>2, <2>3 DEF InOrder
    <2>5. ASSUME socket[w] = "live", NEW i \in DOMAIN rest[w]
          PROVE  Earlier(w, rest[w][i])' \subseteq Range(shown[w]) \cup Before(rest[w], i)
      BY <2>0, <2>1, <2>2, <2>3, <2>5 DEF InOrder
    <2>6. ASSUME socket[w] = "live", NEW i \in DOMAIN queue'[w]
          PROVE  Earlier(w, queue[w][i])'
                   \subseteq Range(shown[w]) \cup Range(rest[w]) \cup Before(queue'[w], i)
      <3>1. CASE i \in DOMAIN queue[w]
        BY <1>7, <2>0, <2>1, <2>2, <2>6, <3>1 DEF InOrder
      <3>2. CASE i = Len(queue[w]) + 1
        <4>1. ASSUME NEW n \in Earlier(w, m)
              PROVE  n \in Range(shown[w]) \cup Range(rest[w]) \cup Range(queue[w])
          <5>1. n \in since[w]..Len(said) /\ n < m /\ said[n].by = e
            BY <1>0, <1>1, <4>1, LogKnown DEF Earlier
          <5>2. n \notin Owed(w)
            <6> SUFFICES ASSUME NEW f \in Emitters, n = line[f],
                                emitting[f] = "appended" \/ w \in untold[f]
                         PROVE  FALSE
              BY DEF Owed
            <6>1. said[line[f]].by = f
              BY <1>0 DEF OwnLine
            <6> QED BY <1>1, <5>1, <6>1 DEF m
          <5> QED BY <2>0, <2>6, <5>1, <5>2 DEF NoneMissed
        <4> QED BY <1>1, <1>7, <2>1, <3>2, <4>1
      <3> QED BY <1>7, <2>6, <3>1, <3>2
    <2> QED BY <2>3, <2>4, <2>5, <2>6 DEF InOrder
  <1>10. ASSUME NEW v \in Sockets, v # w PROVE NoneMissed(v)' /\ InOrder(v)'
    <2>1. Owed(v) \subseteq Owed(v)'
      BY <1>6, <1>10
    <2> QED BY <1>0, <1>2, <1>10, <2>1, ClientLeft
  <1> QED BY <1>3, <1>4, <1>5, <1>8, <1>9, <1>10 DEF LogInv, NoLineMissed, NoneMissed

\* A step of a socket that leaves the threads alone: the parts that do not
\* depend on which step it is.
LEMMA SocketFrame ==
  ASSUME LogInv, NEW w \in Sockets, UNCHANGED <<buffer, emitters>>,
         queue' \in [Sockets -> Seq(LineNumbers)], rest' \in [Sockets -> Seq(LineNumbers)],
         shown' \in [Sockets -> Seq(LineNumbers)], since' \in [Sockets -> Nat \ {0}],
         socket' \in [Sockets -> {"new", "subscribed", "live", "closed"}],
         listeners' \subseteq Sockets,
         \A v \in Sockets : v # w =>
           /\ v \in listeners' <=> v \in listeners
           /\ since'[v] = since[v] /\ socket'[v] = socket[v] /\ shown'[v] = shown[v]
           /\ rest'[v] = rest[v] /\ queue'[v] = queue[v],
         w \in listeners' <=> socket'[w] \in {"subscribed", "live"},
         socket'[w] # "live" => rest'[w] = <<>>,
         socket'[w] \in {"new", "subscribed"} => shown'[w] = <<>>,
         NoneMissed(w)', InOrder(w)'
  PROVE  LogInv'
  <1>0. /\ said' = said /\ lines' = lines /\ emitting' = emitting /\ line' = line
        /\ untold' = untold /\ LogTypeOK /\ LastLines /\ OwnLine /\ ListenersServed
    BY DEF buffer, emitters, LogInv
  <1>1. LogTypeOK'
    BY <1>0 DEF LogTypeOK, LineNumbers
  <1>2. LastLines' /\ OwnLine'
    BY <1>0 DEF LastLines, OwnLine
  <1>3. ListenersServed'
    BY <1>0 DEF ListenersServed
  <1>4. ASSUME NEW v \in Sockets, v # w PROVE NoneMissed(v)' /\ InOrder(v)'
    <2>1. Owed(v)' = Owed(v)
      BY <1>0 DEF Owed
    <2> QED BY <1>0, <1>4, <2>1, ClientLeft
  <1> QED BY <1>1, <1>2, <1>3, <1>4 DEF LogInv, NoLineMissed, NoneMissed

LEMMA SubscribeHolds ==
  ASSUME LogInv, NEW w \in Sockets, Subscribe(w) PROVE LogInv'
  <1>0. /\ LogTypeOK /\ ListenersServed /\ InOrder(w) /\ socket[w] = "new"
        /\ socket' = [socket EXCEPT ![w] = "subscribed"] /\ listeners' = listeners \cup {w}
        /\ UNCHANGED <<buffer, emitters>> /\ UNCHANGED <<queue, rest, shown, since>>
    BY DEF LogInv, Subscribe
  <1>1. NoneMissed(w)' /\ InOrder(w)'
    BY <1>0 DEF NoneMissed, InOrder, ListenersServed, LogTypeOK
  <1> QED BY <1>0, <1>1, SocketFrame DEF LogTypeOK, ListenersServed

LEMMA DisconnectHolds ==
  ASSUME LogInv, NEW w \in Sockets, Disconnect(w) PROVE LogInv'
  <1>0. /\ LogTypeOK /\ ListenersServed /\ InOrder(w)
        /\ socket' = [socket EXCEPT ![w] = "closed"] /\ listeners' = listeners \ {w}
        /\ rest' = [rest EXCEPT ![w] = <<>>]
        /\ UNCHANGED <<buffer, emitters>> /\ UNCHANGED <<queue, shown, since>>
    BY DEF LogInv, Disconnect
  <1>1. NoneMissed(w)'
    BY <1>0 DEF NoneMissed, LogTypeOK
  <1>2. InOrder(w)'
    <2>1. said' = said /\ since' = since /\ shown' = shown /\ socket'[w] = "closed"
      BY <1>0 DEF buffer, LogTypeOK
    <2>2. \A i \in DOMAIN shown[w] : Earlier(w, shown[w][i])' = Earlier(w, shown[w][i])
      BY <2>1 DEF Earlier
    <2> QED BY <1>0, <2>1, <2>2 DEF InOrder
  <1>3. <<>> \in Seq(LineNumbers)
    BY EmptySeq
  <1> QED BY <1>0, <1>1, <1>2, <1>3, SocketFrame DEF LogTypeOK, ListenersServed

\* A replay is the buffer: what was queued since the subscription is in it.
LEMMA ReplayHolds ==
  ASSUME LogInv, NEW w \in Sockets, Replay(w) PROVE LogInv'
  <1>0. /\ LogTypeOK /\ LastLines /\ ListenersServed /\ socket[w] = "subscribed"
        /\ socket' = [socket EXCEPT ![w] = "live"] /\ rest' = [rest EXCEPT ![w] = lines]
        /\ since' = [since EXCEPT ![w] = IF lines = <<>> THEN Len(said) + 1 ELSE lines[1]]
        /\ UNCHANGED <<buffer, emitters>> /\ UNCHANGED <<listeners, queue, shown>>
    BY DEF LogInv, Replay, Copy
  <1>1. /\ Len(said) \in Nat /\ lines \in Seq(1..Len(said)) /\ Len(lines) \in Nat
        /\ DOMAIN lines = 1..Len(lines) /\ Len(lines) <= Len(said)
        /\ \A i \in 1..Len(lines) : lines[i] = Len(said) - Len(lines) + i
        /\ lines = <<>> => Len(said) = 0
        /\ lines # <<>> => Len(lines) # 0
    BY <1>0, LogKnown, EmptySeq, LenProperties DEF LastLines
  <1>2. PICK first \in Nat \ {0} :
           /\ first = Len(said) - Len(lines) + 1
           /\ first = IF lines = <<>> THEN Len(said) + 1 ELSE lines[1]
    <2>1. CASE lines = <<>>
      BY <1>1, <2>1
    <2>2. CASE lines # <<>>
      <3>1. 1 \in 1..Len(lines)
        BY <1>1, <2>2
      <3> QED BY <1>1, <2>2, <3>1
    <2> QED BY <2>1, <2>2
  <1>3. /\ said' = said /\ shown'[w] = <<>> /\ rest'[w] = lines /\ since'[w] = first
        /\ socket'[w] = "live" /\ queue'[w] = queue[w]
    BY <1>0, <1>2 DEF buffer, LogTypeOK, ListenersServed
  <1>2a. /\ Len(said) \in Nat /\ Len(lines) \in Nat /\ Len(lines) <= Len(said)
        /\ first = Len(said) - Len(lines) + 1
    BY <1>1, <1>2
  <1>4. ASSUME NEW n \in first..Len(said)
        PROVE  /\ n - first + 1 \in 1..Len(lines) /\ lines[n - first + 1] = n
               /\ n \in Range(lines)
    <2>1. n - first + 1 \in 1..Len(lines)
      BY <1>2a
    <2>2. lines[n - first + 1] = n
      <3>1. lines[n - first + 1] = Len(said) - Len(lines) + (n - first + 1)
        BY <1>1, <2>1
      <3> QED BY <1>2a, <3>1
    <2> QED BY <1>1, <2>1, <2>2 DEF Range
  <1>5. NoneMissed(w)'
    BY <1>3, <1>4 DEF NoneMissed
  <1>6. InOrder(w)'
    <2>1. \A m : Earlier(w, m)' \subseteq first..(m - 1)
      BY <1>3 DEF Earlier
    <2>2. ASSUME NEW i \in 1..Len(lines), NEW n \in first..(lines[i] - 1)
          PROVE  n \in Before(lines, i)
      <3>1. lines[i] = first + i - 1 /\ lines[i] <= Len(said)
        <4>1. lines[i] = Len(said) - Len(lines) + i
          BY <1>1
        <4> QED BY <1>2a, <4>1
      <3>2. n \in first..Len(said) /\ n - first + 1 \in 1..(i - 1)
        BY <1>2a, <3>1
      <3> QED BY <1>4, <3>2 DEF Before
    <2>3. ASSUME NEW i \in DOMAIN queue[w], NEW n \in first..(queue[w][i] - 1)
          PROVE  n \in Range(lines)
      <3>1. queue[w][i] \in 1..Len(said)
        BY <1>0, LogKnown
      <3>2. n \in first..Len(said)
        BY <1>2a, <3>1
      <3> QED BY <1>4, <3>2
    <2>4. DOMAIN shown'[w] = {}
      BY <1>3
    <2>5. ASSUME NEW i \in DOMAIN rest'[w]
          PROVE  Earlier(w, rest[w][i])' \subseteq Range(shown'[w]) \cup Before(rest'[w], i)
      BY <1>1, <1>3, <2>1, <2>2, <2>5
    <2>6. ASSUME NEW i \in DOMAIN queue'[w]
          PROVE  Earlier(w, queue[w][i])'
                   \subseteq Range(shown'[w]) \cup Range(rest'[w]) \cup Before(queue'[w], i)
      BY <1>3, <2>1, <2>3, <2>6
    <2> QED BY <2>4, <2>5, <2>6 DEF InOrder
  <1>7. rest' \in [Sockets -> Seq(LineNumbers)] /\ since' \in [Sockets -> Nat \ {0}]
    BY <1>0, <1>1, <1>2 DEF LogTypeOK, LineNumbers
  <1>8. queue' \in [Sockets -> Seq(LineNumbers)] /\ shown' \in [Sockets -> Seq(LineNumbers)]
        /\ socket' \in [Sockets -> {"new", "subscribed", "live", "closed"}]
        /\ listeners' \subseteq Sockets
    BY <1>0 DEF LogTypeOK
  <1>9. \A v \in Sockets : v # w =>
           /\ v \in listeners' <=> v \in listeners
           /\ since'[v] = since[v] /\ socket'[v] = socket[v] /\ shown'[v] = shown[v]
           /\ rest'[v] = rest[v] /\ queue'[v] = queue[v]
    BY <1>0 DEF LogTypeOK
  <1>10. w \in listeners'
    BY <1>0 DEF ListenersServed
  <1> QED BY <1>0, <1>3, <1>5, <1>6, <1>7, <1>8, <1>9, <1>10, SocketFrame

LEMMA RangeEmpty == Range(<<>>) = {}
  BY DEF Range

\* The head of the replay is sent: all its author said before is sent already.
LEMMA SendReplayedHolds ==
  ASSUME LogInv, NEW w \in Sockets, SendReplayed(w) PROVE LogInv'
  <1> DEFINE x == Head(rest[w])
  <1>0. /\ LogTypeOK /\ ListenersServed /\ socket[w] = "live" /\ rest[w] # <<>>
        /\ shown' = [shown EXCEPT ![w] = Append(shown[w], x)]
        /\ rest' = [rest EXCEPT ![w] = Tail(rest[w])]
        /\ UNCHANGED <<buffer, emitters>> /\ UNCHANGED <<listeners, socket, queue, since>>
    BY DEF LogInv, SendReplayed
  <1>1. /\ said' = said /\ since'[w] = since[w] /\ socket'[w] = "live" /\ queue'[w] = queue[w]
        /\ shown'[w] = Append(shown[w], x) /\ rest'[w] = Tail(rest[w])
    BY <1>0 DEF buffer, LogTypeOK
  <1>2. shown[w] \in Seq(1..Len(said)) /\ rest[w] \in Seq(1..Len(said))
    BY <1>0, LogKnown
  <1>3. /\ Tail(rest[w]) \in Seq(1..Len(said)) /\ x \in 1..Len(said)
        /\ 1 \in DOMAIN rest[w] /\ rest[w][1] = x
        /\ Range(rest[w]) = {x} \cup Range(Tail(rest[w])) /\ Before(rest[w], 1) = {}
        /\ \A i \in DOMAIN Tail(rest[w]) :
             /\ i + 1 \in DOMAIN rest[w] /\ Tail(rest[w])[i] = rest[w][i + 1]
             /\ Before(rest[w], i + 1) = {x} \cup Before(Tail(rest[w]), i)
    BY <1>0, <1>2, TailLeaves
  <1> HIDE DEF x
  <1>4. /\ Range(shown'[w]) = Range(shown[w]) \cup {x}
        /\ shown'[w] \in Seq(1..Len(said)) /\ Len(shown'[w]) = Len(shown[w]) + 1
        /\ \A i \in DOMAIN shown[w] :
             shown'[w][i] = shown[w][i] /\ Before(shown'[w], i) = Before(shown[w], i)
        /\ shown'[w][Len(shown[w]) + 1] = x /\ Before(shown'[w], Len(shown[w]) + 1) = Range(shown[w])
    <2>1. Appended(Append(shown[w], x), shown[w], x, 1..Len(said))
      BY <1>2, <1>3, AppendIs
    <2>2. Appended(shown'[w], shown[w], x, 1..Len(said))
      BY ONLY <1>1, <2>1
    <2> QED BY ONLY <2>2 DEF Appended
  <1>5. DOMAIN shown[w] = 1..Len(shown[w]) /\ DOMAIN shown'[w] = 1..(Len(shown[w]) + 1)
        /\ Len(shown[w]) \in Nat
    BY <1>2, <1>4, LenProperties
  <1>6. NoneMissed(w)'
    <2>1. Owed(w)' = Owed(w)
      BY <1>0 DEF Owed, emitters
    <2> QED BY <1>0, <1>1, <1>3, <1>4, <2>1 DEF NoneMissed, LogInv, NoLineMissed
  <1>7. InOrder(w)'
    <2>0. InOrder(w)
      BY DEF LogInv
    <2>1. \A m : Earlier(w, m)' = Earlier(w, m)
      BY <1>1 DEF Earlier
    <2>2. ASSUME NEW i \in DOMAIN shown'[w]
          PROVE  Earlier(w, shown[w][i])' \subseteq Before(shown'[w], i)
      <3>1. CASE i \in DOMAIN shown[w]
        <4>1. Earlier(w, shown[w][i]) \subseteq Before(shown[w], i)
          BY <2>0, <3>1 DEF InOrder
        <4>2. shown'[w][i] = shown[w][i] /\ Before(shown'[w], i) = Before(shown[w], i)
          BY <1>4, <3>1
        <4> QED BY <2>1, <4>1, <4>2
      <3>2. CASE i = Len(shown[w]) + 1
        <4>1. Earlier(w, x) \subseteq Range(shown[w])
          BY <1>0, <1>3, <2>0 DEF InOrder
        <4>2. shown'[w][i] = x /\ Before(shown'[w], i) = Range(shown[w])
          BY <1>4, <3>2
        <4> QED BY <2>1, <4>1, <4>2
      <3> QED BY <1>5, <2>2, <3>1, <3>2
    <2>3. ASSUME NEW i \in DOMAIN rest'[w]
          PROVE  Earlier(w, rest[w][i])' \subseteq Range(shown'[w]) \cup Before(rest'[w], i)
      <3>1. Earlier(w, rest[w][i + 1]) \subseteq Range(shown[w]) \cup Before(rest[w], i + 1)
        BY <1>0, <1>1, <1>3, <2>0 DEF InOrder
      <3> QED BY <1>1, <1>3, <1>4, <2>1, <2>3, <3>1
    <2>4. ASSUME NEW i \in DOMAIN queue'[w]
          PROVE  Earlier(w, queue[w][i])'
                   \subseteq Range(shown'[w]) \cup Range(rest'[w]) \cup Before(queue'[w], i)
      <3>1. Earlier(w, queue[w][i])
              \subseteq Range(shown[w]) \cup Range(rest[w]) \cup Before(queue[w], i)
        BY <1>0, <1>1, <2>0 DEF InOrder
      <3> QED BY <1>1, <1>3, <1>4, <2>1, <3>1
    <2> QED BY <2>2, <2>3, <2>4 DEF InOrder
  <1>8. shown' \in [Sockets -> Seq(LineNumbers)] /\ rest' \in [Sockets -> Seq(LineNumbers)]
    <2>1. Append(shown[w], x) \in Seq(1..Len(said))
      BY <1>1, <1>4
    <2> QED BY <1>0, <1>3, <2>1 DEF LogTypeOK, LineNumbers
  <1>9. queue' \in [Sockets -> Seq(LineNumbers)] /\ since' \in [Sockets -> Nat \ {0}]
        /\ socket' \in [Sockets -> {"new", "subscribed", "live", "closed"}]
        /\ listeners' \subseteq Sockets
    BY <1>0 DEF LogTypeOK
  <1>10. \A v \in Sockets : v # w =>
           /\ v \in listeners' <=> v \in listeners
           /\ since'[v] = since[v] /\ socket'[v] = socket[v] /\ shown'[v] = shown[v]
           /\ rest'[v] = rest[v] /\ queue'[v] = queue[v]
    BY <1>0 DEF LogTypeOK
  <1>11. w \in listeners'
    BY <1>0 DEF ListenersServed
  <1> QED BY <1>0, <1>1, <1>6, <1>7, <1>8, <1>9, <1>10, <1>11, SocketFrame

\* The head of the queue is sent once the replay is: what came before is sent.
LEMMA SendQueuedHolds ==
  ASSUME LogInv, NEW w \in Sockets, SendQueued(w) PROVE LogInv'
  <1> DEFINE x == Head(queue[w])
  <1>0. /\ LogTypeOK /\ ListenersServed /\ socket[w] = "live" /\ queue[w] # <<>> /\ rest[w] = <<>>
        /\ shown' = [shown EXCEPT ![w] = Append(shown[w], x)]
        /\ queue' = [queue EXCEPT ![w] = Tail(queue[w])]
        /\ UNCHANGED <<buffer, emitters>> /\ UNCHANGED <<listeners, socket, rest, since>>
    BY DEF LogInv, SendQueued, ReplayIsSent, LeftInQueue
  <1>1. /\ said' = said /\ since'[w] = since[w] /\ socket'[w] = "live" /\ rest'[w] = rest[w]
        /\ shown'[w] = Append(shown[w], x) /\ queue'[w] = Tail(queue[w])
    BY <1>0 DEF buffer, LogTypeOK
  <1>2. shown[w] \in Seq(1..Len(said)) /\ queue[w] \in Seq(1..Len(said))
    BY <1>0, LogKnown
  <1>3. /\ Tail(queue[w]) \in Seq(1..Len(said)) /\ x \in 1..Len(said)
        /\ 1 \in DOMAIN queue[w] /\ queue[w][1] = x
        /\ Range(queue[w]) = {x} \cup Range(Tail(queue[w])) /\ Before(queue[w], 1) = {}
        /\ \A i \in DOMAIN Tail(queue[w]) :
             /\ i + 1 \in DOMAIN queue[w] /\ Tail(queue[w])[i] = queue[w][i + 1]
             /\ Before(queue[w], i + 1) = {x} \cup Before(Tail(queue[w]), i)
    BY <1>0, <1>2, TailLeaves
  <1> HIDE DEF x
  <1>4. /\ Range(shown'[w]) = Range(shown[w]) \cup {x}
        /\ shown'[w] \in Seq(1..Len(said)) /\ Len(shown'[w]) = Len(shown[w]) + 1
        /\ \A i \in DOMAIN shown[w] :
             shown'[w][i] = shown[w][i] /\ Before(shown'[w], i) = Before(shown[w], i)
        /\ shown'[w][Len(shown[w]) + 1] = x /\ Before(shown'[w], Len(shown[w]) + 1) = Range(shown[w])
    <2>1. Appended(Append(shown[w], x), shown[w], x, 1..Len(said))
      BY <1>2, <1>3, AppendIs
    <2>2. Appended(shown'[w], shown[w], x, 1..Len(said))
      BY ONLY <1>1, <2>1
    <2> QED BY ONLY <2>2 DEF Appended
  <1>5. DOMAIN shown[w] = 1..Len(shown[w]) /\ DOMAIN shown'[w] = 1..(Len(shown[w]) + 1)
        /\ Len(shown[w]) \in Nat
    BY <1>2, <1>4, LenProperties
  <1>6. NoneMissed(w)'
    <2>1. Owed(w)' = Owed(w)
      BY <1>0 DEF Owed, emitters
    <2> QED BY <1>0, <1>1, <1>3, <1>4, <2>1 DEF NoneMissed, LogInv, NoLineMissed
  <1>7. InOrder(w)'
    <2>0. InOrder(w)
      BY DEF LogInv
    <2>1. \A m : Earlier(w, m)' = Earlier(w, m)
      BY <1>1 DEF Earlier
    <2>2. ASSUME NEW i \in DOMAIN shown'[w]
          PROVE  Earlier(w, shown[w][i])' \subseteq Before(shown'[w], i)
      <3>1. CASE i \in DOMAIN shown[w]
        <4>1. Earlier(w, shown[w][i]) \subseteq Before(shown[w], i)
          BY <2>0, <3>1 DEF InOrder
        <4>2. shown'[w][i] = shown[w][i] /\ Before(shown'[w], i) = Before(shown[w], i)
          BY <1>4, <3>1
        <4> QED BY <2>1, <4>1, <4>2
      <3>2. CASE i = Len(shown[w]) + 1
        <4>1. Earlier(w, x) \subseteq Range(shown[w])
          BY <1>0, <1>3, <2>0, RangeEmpty DEF InOrder
        <4>2. shown'[w][i] = x /\ Before(shown'[w], i) = Range(shown[w])
          BY <1>4, <3>2
        <4> QED BY <2>1, <4>1, <4>2
      <3> QED BY <1>5, <2>2, <3>1, <3>2
    <2>3. DOMAIN rest'[w] = {}
      BY <1>0, <1>1
    <2>4. ASSUME NEW i \in DOMAIN queue'[w]
          PROVE  Earlier(w, queue[w][i])'
                   \subseteq Range(shown'[w]) \cup Range(rest'[w]) \cup Before(queue'[w], i)
      <3>1. Earlier(w, queue[w][i + 1])
              \subseteq Range(shown[w]) \cup Range(rest[w]) \cup Before(queue[w], i + 1)
        BY <1>0, <1>1, <1>3, <2>0 DEF InOrder
      <3> QED BY <1>1, <1>3, <1>4, <2>1, <2>4, <3>1
    <2> QED BY <2>2, <2>3, <2>4 DEF InOrder
  <1>8. shown' \in [Sockets -> Seq(LineNumbers)] /\ queue' \in [Sockets -> Seq(LineNumbers)]
    <2>1. Append(shown[w], x) \in Seq(1..Len(said))
      BY <1>1, <1>4
    <2> QED BY <1>0, <1>3, <2>1 DEF LogTypeOK, LineNumbers
  <1>9. rest' \in [Sockets -> Seq(LineNumbers)] /\ since' \in [Sockets -> Nat \ {0}]
        /\ socket' \in [Sockets -> {"new", "subscribed", "live", "closed"}]
        /\ listeners' \subseteq Sockets
    BY <1>0 DEF LogTypeOK
  <1>10. \A v \in Sockets : v # w =>
           /\ v \in listeners' <=> v \in listeners
           /\ since'[v] = since[v] /\ socket'[v] = socket[v] /\ shown'[v] = shown[v]
           /\ rest'[v] = rest[v] /\ queue'[v] = queue[v]
    BY <1>0 DEF LogTypeOK
  <1>11. w \in listeners'
    BY <1>0 DEF ListenersServed
  <1> QED BY <1>0, <1>1, <1>6, <1>7, <1>8, <1>9, <1>10, <1>11, SocketFrame

\* The log keeps its invariant in every step of a thread or of a socket.
LEMMA LogStutters == ASSUME LogInv, UNCHANGED logVars PROVE LogInv'
  <1>1. /\ said' = said /\ lines' = lines /\ emitting' = emitting /\ line' = line
        /\ untold' = untold /\ listeners' = listeners /\ socket' = socket /\ queue' = queue
        /\ rest' = rest /\ shown' = shown /\ since' = since
    BY DEF logVars, buffer, emitters, sockets
  <1>2. LogTypeOK' /\ LastLines' /\ OwnLine' /\ ListenersServed'
    BY <1>1 DEF LogInv, LogTypeOK, LineNumbers, LastLines, OwnLine, ListenersServed
  <1>3. ASSUME NEW w \in Sockets PROVE NoneMissed(w)' /\ InOrder(w)'
    BY <1>1, ClientLeft DEF Owed
  <1> QED BY <1>2, <1>3 DEF LogInv, NoLineMissed, NoneMissed

LEMMA LogSteps ==
  ASSUME LogInv
  PROVE  /\ \A e \in Emitters, text \in Texts : Emit(e, text) => LogInv'
         /\ \A e \in Emitters : Emission(e) => LogInv'
         /\ \A w \in Sockets : SocketStep(w) => LogInv'
         /\ UNCHANGED logVars => LogInv'
  BY EmitHolds, CopyHolds, PutHolds, SubscribeHolds, ReplayHolds, SendReplayedHolds,
     SendQueuedHolds, DisconnectHolds, LogStutters DEF Emission, SocketStep, Sending

-----------------------------------------------------------------------------
(***************************************************************************)
(* The pipeline.                                                           *)
(***************************************************************************)

LEMMA RunsAreNumbers ==
  /\ MaxRuns \in Nat /\ Runs = 1..MaxRuns /\ Runs \subseteq Emitters
  /\ \A e \in Others : e \in Emitters /\ e \notin Runs
  BY PipelineAssumption DEF Runs

\* The valid indices of a request are finitely many, and their order is a sequence.
LEMMA SelectedIsSeq ==
  ASSUME NEW indices \in Requests, NEW at \in OrderOf(Kept(indices))
  PROVE  Selected(indices, at) \in Seq(0..(NumSteps - 1))
  <1>1. indices \in Seq(Int)
    BY PipelineAssumption
  <1>2. Len(indices) \in Nat /\ DOMAIN indices = 1..Len(indices)
    BY <1>1, LenProperties
  <1> DEFINE K == Kept(indices)
  <1>3. K \subseteq 1..Len(indices) /\ \A k \in K : indices[k] \in 0..(NumSteps - 1)
    BY <1>2 DEF Kept
  <1>4. IsFiniteSet(K) /\ Cardinality(K) \in Nat
    <2>1. IsFiniteSet(1..Len(indices))
      BY <1>2, FS_Interval
    <2> QED BY <1>3, <2>1, FS_Subset, FS_CardinalityType
  <1>5. at \in [1..Cardinality(K) -> K]
    BY DEF OrderOf
  <1> HIDE DEF K
  <1>6. Selected(indices, at) \in [1..Cardinality(K) -> 0..(NumSteps - 1)]
    BY <1>3, <1>5 DEF Selected
  <1> QED BY <1>4, <1>6, SeqDef

\* The process starts with its own streams and no run.
LEMMA PipelineStarts == ASSUME Init PROVE IInv
  <1>1. LogInv
    BY LogStarts DEF Init
  <1>2. LogInit
    BY DEF Init
  <1>3. RunTypes
    <2>1. <<>> \in Seq(Runs) /\ <<>> \in Seq(0..(NumSteps - 1))
      BY EmptySeq
    <2>2. origOut \in [Runs -> Seq(Runs)] /\ origErr \in [Runs -> Seq(Runs)]
          /\ todo \in [Runs -> Seq(0..(NumSteps - 1))]
      BY <2>1 DEF Init
    <2>3. running \in BOOLEAN /\ started \in 0..MaxRuns /\ raised \in [Runs -> BOOLEAN]
      <3>1. raised = [r \in Runs |-> FALSE] /\ running = FALSE /\ started = 0
        BY DEF Init
      <3>2. raised \in [Runs -> BOOLEAN] /\ running \in BOOLEAN
        BY <3>1, Zenon
      <3> QED BY <3>1, <3>2, RunsAreNumbers
    <2>4. run \in [Runs -> {"none", "redirect", "redirectErr", "next", "step", "raised",
                      "restore", "restoreErr", "clear", "ended"}]
      BY DEF Init
    <2>5. {out, err} \subseteq Seq(Runs)
      BY <2>1 DEF Init
    <2> QED BY <2>2, <2>3, <2>4, <2>5 DEF RunTypes
  <1>4. OneAtATime /\ WrappedOnce
    BY RunsAreNumbers DEF Init, OneAtATime, WrappedOnce, Active
  <1>5. PhaseTells /\ ToldInTurn
    BY <1>2, RunsAreNumbers DEF Init, LogInit, PhaseTells, ToldInTurn, AfterClosing
  <1> QED BY <1>1, <1>3, <1>4, <1>5 DEF IInv, RunInv

\* The run that is under way is the last one that was started.
LEMMA ActiveIsLast ==
  ASSUME RunTypes, OneAtATime, NEW r \in Runs, Active(r)
  PROVE  r = started /\ running /\ \A q \in Runs : q # r => ~Active(q)
  <1>1. \A q \in Runs : Active(q) => q = started
    BY RunsAreNumbers DEF OneAtATime, Active, RunTypes
  <1> QED BY <1>1 DEF OneAtATime

\* A step of the run under way to its next phase.
LEMMA PhaseStep ==
  ASSUME RunInv, NEW r \in Runs, Active(r), UNCHANGED <<running, started>>,
         NEW p \in {"redirectErr", "next", "step", "raised", "restore", "restoreErr", "clear"},
         run' = [run EXCEPT ![r] = p]
  PROVE  /\ OneAtATime' /\ run'[r] = p /\ Active(r)'
         /\ \A q \in Runs : q # r => run'[q] = run[q] /\ ~Active(q)'
         /\ running
         /\ run' \in [Runs -> {"none", "redirect", "redirectErr", "next", "step", "raised",
                              "restore", "restoreErr", "clear", "ended"}]
  <1>1. r = started /\ running /\ \A q \in Runs : q # r => ~Active(q)
    BY ActiveIsLast DEF RunInv
  <1>2. run'[r] = p /\ \A q \in Runs : q # r => run'[q] = run[q]
    BY DEF RunInv, RunTypes
  <1>3. Active(r)' /\ \A q \in Runs : q # r => ~Active(q)'
    BY <1>1, <1>2 DEF Active
  <1>4. OneAtATime'
    <2>1. ASSUME NEW q \in Runs
          PROVE  /\ q > started' => run'[q] = "none"
                 /\ q < started' => run'[q] = "ended"
                 /\ q = started' => run'[q] # "none"
                 /\ Active(q)' => running'
      <3>1. CASE q = r
        BY <1>1, <1>2, <3>1, RunsAreNumbers
      <3>2. CASE q # r
        BY <1>1, <1>2, <3>2 DEF RunInv, OneAtATime, Active
      <3> QED BY <3>1, <3>2
    <2> QED BY <1>3, <2>1 DEF OneAtATime
  <1> QED BY <1>1, <1>2, <1>3, <1>4 DEF RunInv, RunTypes

\* A step that says nothing, and neither closes a run nor changes one that is
\* closed, leaves the log a sequence of whole runs.
LEMMA ToldStays ==
  ASSUME RunInv, said' = said, started <= started', started' \in Nat,
         \A q \in Runs :
           /\ run'[q] \in AfterClosing <=> run[q] \in AfterClosing
           /\ run[q] \in AfterClosing => todo'[q] = todo[q] /\ raised'[q] = raised[q]
  PROVE  ToldInTurn'
  <1>1. ASSUME NEW n \in DOMAIN said', said'[n].by \in Runs
        PROVE  /\ said'[n].by <= started'
               /\ said'[n].text \in {"finished", "ERROR"} => run'[said'[n].by] \in AfterClosing
    <2>1. n \in DOMAIN said /\ said[n].by \in Runs /\ said'[n] = said[n]
      BY <1>1
    <2>2. /\ said[n].by <= started
          /\ said[n].text \in {"finished", "ERROR"} => run[said[n].by] \in AfterClosing
      BY <2>1 DEF RunInv, ToldInTurn
    <2>3. said[n].by \in Nat /\ started \in Nat
      BY <2>1, RunsAreNumbers DEF RunInv, RunTypes
    <2>4. said[n].by <= started'
      BY ONLY <2>2, <2>3, started <= started', started' \in Nat
    <2> QED BY <2>1, <2>2, <2>4
  <1>2. ASSUME NEW r \in Runs, run'[r] \in AfterClosing
        PROVE  \E n \in DOMAIN said' : Closes(said[n], r)'
    <2>1. PICK n \in DOMAIN said : Closes(said[n], r)
      BY <1>2 DEF RunInv, ToldInTurn
    <2>2. Closes(said[n], r)'
      BY <1>2, <2>1 DEF Closes
    <2> QED BY <2>1, <2>2
  <1>3. \A m, n \in DOMAIN said :
          m < n /\ said[m].by \in Runs /\ said[n].by \in Runs
            => /\ said[m].by <= said[n].by
               /\ said[m].text \in {"finished", "ERROR"} => said[m].by < said[n].by
    BY DEF RunInv, ToldInTurn
  <1>4. \A m, n \in DOMAIN said' :
          m < n /\ said'[m].by \in Runs /\ said'[n].by \in Runs
            => /\ said'[m].by <= said'[n].by
               /\ said'[m].text \in {"finished", "ERROR"} => said'[m].by < said'[n].by
    BY ONLY <1>3, said' = said
  <1> QED BY <1>1, <1>2, <1>4 DEF ToldInTurn

\* What an emission adds to the log.
LEMMA EmitAppends ==
  ASSUME LogTypeOK, NEW e \in Emitters, NEW text \in Texts, Emit(e, text)
  PROVE  /\ Len(said) \in Nat /\ DOMAIN said = 1..Len(said) /\ DOMAIN said' = 1..(Len(said) + 1)
         /\ \A n \in DOMAIN said : said'[n] = said[n]
         /\ said'[Len(said) + 1].by = e /\ said'[Len(said) + 1].text = text
         /\ emitting[e] = "no" /\ emitting' = [emitting EXCEPT ![e] = "appended"]
  <1>1. said \in Seq(Said) /\ [by |-> e, text |-> text] \in Said
    BY LogKnown DEF Said
  <1>2. said' = Append(said, [by |-> e, text |-> text])
    BY DEF Emit
  <1>3. /\ said' \in Seq(Said) /\ Len(said') = Len(said) + 1
        /\ \A n \in 1..Len(said) : said'[n] = said[n]
        /\ said'[Len(said) + 1] = [by |-> e, text |-> text]
    BY <1>1, <1>2, AppendProperties
  <1> QED BY <1>1, <1>3, LenProperties DEF Emit

\* The run under way says a line: its closing line, or one before that.
LEMMA RunSays ==
  ASSUME RunInv, LogTypeOK, NEW r \in Runs, Active(r), run[r] \notin AfterClosing,
         NEW text \in Texts, Emit(r, text), UNCHANGED <<started, todo, raised>>,
         \A q \in Runs : q # r => run'[q] = run[q],
         run'[r] \in AfterClosing <=> text \in {"finished", "ERROR"},
         text = "finished" => ~raised[r] /\ todo[r] = <<>>,
         text = "ERROR" => raised[r] /\ todo[r] # <<>>
  PROVE  ToldInTurn'
  <1> DEFINE N == Len(said) + 1
  <1>1. /\ DOMAIN said = 1..Len(said) /\ DOMAIN said' = 1..N /\ Len(said) \in Nat
        /\ \A n \in DOMAIN said : said'[n] = said[n]
        /\ said'[N].by = r /\ said'[N].text = text
    BY RunsAreNumbers, EmitAppends
  <1>2. \A n \in DOMAIN said' : n \in DOMAIN said \/ n = N
    BY <1>1
  <1>3. r = started /\ r \in Nat
    BY ActiveIsLast, RunsAreNumbers DEF RunInv
  <1>4. ASSUME NEW n \in DOMAIN said, said[n].by \in Runs
        PROVE  /\ said[n].by <= r
               /\ said[n].text \in {"finished", "ERROR"}
                    => said[n].by < r /\ run[said[n].by] \in AfterClosing
    <2>1. /\ said[n].by <= started
          /\ said[n].text \in {"finished", "ERROR"} => run[said[n].by] \in AfterClosing
      BY <1>4 DEF RunInv, ToldInTurn
    <2> QED BY <1>3, <1>4, <2>1, RunsAreNumbers
  <1> HIDE DEF N
  <1>5. ASSUME NEW n \in DOMAIN said', said'[n].by \in Runs
        PROVE  /\ said'[n].by <= started'
               /\ said'[n].text \in {"finished", "ERROR"} => run'[said'[n].by] \in AfterClosing
    <2>1. CASE n \in DOMAIN said
      <3>1. said'[n] = said[n]
        BY <1>1, <2>1
      <3>2. said[n].text \in {"finished", "ERROR"} => said[n].by # r
        BY <1>3, <1>4, <1>5, <2>1, <3>1, RunsAreNumbers
      <3> QED BY <1>3, <1>4, <1>5, <2>1, <3>1, <3>2
    <2>2. CASE n = N
      BY <1>1, <1>3, <2>2
    <2> QED BY <1>2, <2>1, <2>2
  <1>6. ASSUME NEW m \in DOMAIN said', NEW n \in DOMAIN said',
               m < n, said'[m].by \in Runs, said'[n].by \in Runs
        PROVE  /\ said'[m].by <= said'[n].by
               /\ said'[m].text \in {"finished", "ERROR"} => said'[m].by < said'[n].by
    <2>1. m \in DOMAIN said /\ said'[m] = said[m]
      BY <1>1, <1>6 DEF N
    <2>2. CASE n \in DOMAIN said
      BY <1>1, <1>6, <2>1, <2>2 DEF RunInv, ToldInTurn
    <2>3. CASE n = N
      BY <1>1, <1>4, <1>6, <2>1, <2>3
    <2> QED BY <1>2, <2>2, <2>3
  <1>7. ASSUME NEW q \in Runs, run'[q] \in AfterClosing
        PROVE  \E n \in DOMAIN said' : Closes(said[n], q)'
    <2>1. CASE q = r
      <3>1. text \in {"finished", "ERROR"} /\ N \in DOMAIN said'
        BY <1>1, <1>7, <2>1 DEF N
      <3> QED BY <1>1, <2>1, <3>1 DEF Closes
    <2>2. CASE q # r
      <3>1. PICK n \in DOMAIN said : Closes(said[n], q)
        BY <1>7, <2>2 DEF RunInv, ToldInTurn
      <3>2. n \in DOMAIN said' /\ said'[n] = said[n]
        BY <1>1, <3>1 DEF N
      <3> QED BY <3>1, <3>2 DEF Closes
    <2> QED BY <2>1, <2>2
  <1> QED BY <1>5, <1>6, <1>7 DEF ToldInTurn

\* Another thread says a line: the runs are told as before.
LEMMA OtherSays ==
  ASSUME RunInv, LogTypeOK, NEW e \in Emitters, e \notin Runs, NEW text \in Texts,
         Emit(e, text), UNCHANGED <<started, run, todo, raised>>
  PROVE  ToldInTurn'
  <1> DEFINE N == Len(said) + 1
  <1>1. /\ DOMAIN said = 1..Len(said) /\ DOMAIN said' = 1..N /\ Len(said) \in Nat
        /\ \A n \in DOMAIN said : said'[n] = said[n]
        /\ said'[N].by \notin Runs
    BY EmitAppends
  <1>2. \A n \in DOMAIN said' : said'[n].by \in Runs => n \in DOMAIN said /\ said'[n] = said[n]
    BY <1>1
  <1>3. \A n \in DOMAIN said : n \in DOMAIN said'
    BY <1>1
  <1> HIDE DEF N
  <1>4. ASSUME NEW n \in DOMAIN said', said'[n].by \in Runs
        PROVE  /\ said'[n].by <= started'
               /\ said'[n].text \in {"finished", "ERROR"} => run'[said'[n].by] \in AfterClosing
    BY <1>2, <1>4 DEF RunInv, ToldInTurn
  <1>5. ASSUME NEW m \in DOMAIN said', NEW n \in DOMAIN said',
               m < n, said'[m].by \in Runs, said'[n].by \in Runs
        PROVE  /\ said'[m].by <= said'[n].by
               /\ said'[m].text \in {"finished", "ERROR"} => said'[m].by < said'[n].by
    BY <1>2, <1>5 DEF RunInv, ToldInTurn
  <1>6. ASSUME NEW q \in Runs, run'[q] \in AfterClosing
        PROVE  \E n \in DOMAIN said' : Closes(said[n], q)'
    <2>1. PICK n \in DOMAIN said : Closes(said[n], q)
      BY <1>6 DEF RunInv, ToldInTurn
    <2> QED BY <1>1, <1>3, <2>1 DEF Closes
  <1> QED BY <1>4, <1>5, <1>6 DEF ToldInTurn

\* A request starts the next run, when none is under way.
LEMMA RunHolds ==
  ASSUME IInv, NEW indices \in Requests, Run(indices) PROVE RunInv'
  <1> DEFINE r == started + 1
  <1>0. /\ RunInv /\ ~running /\ r \in Runs /\ running' /\ started' = r
        /\ run' = [run EXCEPT ![r] = "redirect"] /\ UNCHANGED <<logVars, raised, streams>>
    BY DEF IInv, Run, MayRun
  <1>1. PICK at \in OrderOf(Kept(indices)) : todo' = [todo EXCEPT ![r] = Selected(indices, at)]
    BY DEF Run
  <1>2. /\ started \in Nat /\ MaxRuns \in Nat /\ r \in 1..MaxRuns
        /\ \A q \in Runs : ~Active(q) /\ q \in Nat
    BY <1>0, RunsAreNumbers DEF RunInv, RunTypes, OneAtATime
  <1>3. said' = said /\ emitting' = emitting /\ raised' = raised
        /\ out' = out /\ err' = err /\ origOut' = origOut /\ origErr' = origErr
    BY <1>0 DEF logVars, buffer, emitters, streams
  <1> HIDE DEF r
  <1>4. /\ run'[r] = "redirect" /\ run[r] = "none"
        /\ \A q \in Runs : q # r => run'[q] = run[q] /\ todo'[q] = todo[q]
    BY <1>0, <1>1, <1>2 DEF RunInv, RunTypes, OneAtATime, r
  <1>5. RunTypes'
    <2>1. todo' \in [Runs -> Seq(0..(NumSteps - 1))]
      BY <1>0, <1>1, SelectedIsSeq DEF RunInv, RunTypes
    <2>2. run' \in [Runs -> {"none", "redirect", "redirectErr", "next", "step", "raised",
                      "restore", "restoreErr", "clear", "ended"}]
      BY <1>0 DEF RunInv, RunTypes
    <2> QED BY <1>0, <1>2, <1>3, <2>1, <2>2 DEF RunInv, RunTypes
  <1>6. OneAtATime'
    <2>1. ASSUME NEW q \in Runs
          PROVE  /\ q > started' => run'[q] = "none"
                 /\ q < started' => run'[q] = "ended"
                 /\ q = started' => run'[q] # "none"
                 /\ Active(q)' => running'
      <3>1. CASE q = r
        BY <1>0, <1>2, <1>4, <3>1
      <3>2. CASE q # r
        <4>1. run'[q] = run[q] /\ (q > r => q > started) /\ (q < r => q <= started)
          BY <1>2, <1>4, <3>2 DEF r
        <4>2. run[q] \in {"none", "ended"}
          BY <1>2 DEF Active
        <4> QED BY <1>0, <1>2, <3>2, <4>1, <4>2 DEF RunInv, OneAtATime
      <3> QED BY <3>1, <3>2
    <2>2. \E q \in Runs : Active(q)'
      <3>1. \E q \in Runs : run'[q] = "redirect"
        BY <1>0, <1>4
      <3> QED BY <3>1 DEF Active
    <2> QED BY <1>0, <2>1, <2>2 DEF OneAtATime
  <1>7. WrappedOnce'
    BY <1>0, <1>2, <1>3, <1>4 DEF RunInv, WrappedOnce, Active
  <1>8. PhaseTells'
    BY <1>0, <1>3, <1>4 DEF RunInv, PhaseTells
  <1>9. ToldInTurn'
    <2>1. started <= started' /\ started' \in Nat
      BY <1>0, <1>2 DEF r
    <2>2. r \in Runs /\ run'[r] \notin AfterClosing /\ run[r] \notin AfterClosing
      BY <1>0, <1>4 DEF AfterClosing
    <2>3. \A q \in Runs :
            /\ run'[q] \in AfterClosing <=> run[q] \in AfterClosing
            /\ run[q] \in AfterClosing => todo'[q] = todo[q] /\ raised'[q] = raised[q]
      BY <1>3, <1>4, <2>2
    <2> QED BY <1>0, <1>3, <2>1, <2>3, ToldStays
  <1> QED BY <1>5, <1>6, <1>7, <1>8, <1>9 DEF RunInv

\* What a step of a run, other than saying a line, leaves alone.
Silent(r) ==
  RedirectOut(r) \/ RedirectErr(r) \/ StepReturns(r) \/ StepRaises(r)
    \/ RestoreOut(r) \/ RestoreErr(r)

LEMMA SilentHolds ==
  ASSUME IInv, NEW r \in Runs, Silent(r) PROVE RunInv' /\ UNCHANGED logVars
  <1> DEFINE Phases == {"redirectErr", "next", "step", "raised", "restore", "restoreErr", "clear"}
  <1>0. RunInv /\ RunTypes /\ UNCHANGED <<logVars, started>>
    BY DEF IInv, RunInv, Silent, RedirectOut, RedirectErr, StepReturns, StepRaises,
       RestoreOut, RestoreErr
  <1>1. Active(r)
    BY DEF Active, Silent, RedirectOut, RedirectErr, StepReturns, StepRaises,
       RestoreOut, RestoreErr
  <1>2. running' = running
    BY DEF Silent, RedirectOut, RedirectErr, StepReturns, StepRaises,
       RestoreOut, RestoreErr, FlagWhileRestoring
  <1>3. PICK p \in Phases : run' = [run EXCEPT ![r] = p]
    BY DEF Silent, RedirectOut, RedirectErr, StepReturns, StepRaises,
       RestoreOut, RestoreErr, AfterException
  <1>4. /\ OneAtATime' /\ run'[r] = p /\ Active(r)'
        /\ \A q \in Runs : q # r => run'[q] = run[q] /\ ~Active(q)'
        /\ running
        /\ run' \in [Runs -> {"none", "redirect", "redirectErr", "next", "step", "raised",
                              "restore", "restoreErr", "clear", "ended"}]
    BY <1>0, <1>1, <1>2, <1>3, PhaseStep
  <1>5. said' = said /\ emitting' = emitting
    BY <1>0 DEF logVars, buffer, emitters
  <1>6. <<r>> \in Seq(Runs) /\ <<>> \in Seq(Runs) /\ <<r>> \o <<>> = <<r>>
    OBVIOUS
  <1>7. /\ origOut[r] = <<>> /\ origErr[r] = <<>>
        /\ out = IF run[r] \in {"redirectErr", "next", "step", "raised", "restore"}
                 THEN <<r>> ELSE <<>>
        /\ err = IF run[r] \in {"next", "step", "raised", "restore", "restoreErr"}
                 THEN <<r>> ELSE <<>>
    BY <1>0, <1>1 DEF RunInv, WrappedOnce
  <1>8. RunTypes' /\ WrappedOnce'
    <2>1. /\ origOut' = origOut /\ origErr' = origErr
          /\ out' = IF run'[r] \in {"redirectErr", "next", "step", "raised", "restore"}
                    THEN <<r>> ELSE <<>>
          /\ err' = IF run'[r] \in {"next", "step", "raised", "restore", "restoreErr"}
                    THEN <<r>> ELSE <<>>
      <3>1. CASE RedirectOut(r)
        <4>1. /\ run[r] = "redirect" /\ run'[r] = "redirectErr" /\ out' = <<r>> \o out /\ err' = err
              /\ origOut' = [origOut EXCEPT ![r] = out] /\ origErr' = [origErr EXCEPT ![r] = err]
          BY <1>0, <3>1 DEF RedirectOut, RunTypes
        <4>2. out = <<>> /\ err = <<>>
          BY <1>7, <4>1
        <4>3. origOut' = origOut /\ origErr' = origErr
          BY <1>0, <1>7, <4>1, <4>2 DEF RunTypes
        <4> QED BY <1>6, <4>1, <4>2, <4>3
      <3>2. CASE RedirectErr(r)
        BY <1>0, <1>6, <1>7, <3>2 DEF RedirectErr, RunTypes
      <3>3. CASE StepReturns(r) \/ StepRaises(r)
        BY <1>0, <1>7, <3>3 DEF StepReturns, StepRaises, AfterException, RunTypes, streams
      <3>4. CASE RestoreOut(r) \/ RestoreErr(r)
        BY <1>0, <1>7, <3>4 DEF RestoreOut, RestoreErr, RunTypes
      <3> QED BY <3>1, <3>2, <3>3, <3>4 DEF Silent
    <2>2. todo' \in [Runs -> Seq(0..(NumSteps - 1))] /\ raised' \in [Runs -> BOOLEAN]
      <3>1. CASE StepReturns(r)
        <4>1. todo[r] # <<>> /\ todo[r] \in Seq(0..(NumSteps - 1))
          BY <1>0, <3>1 DEF RunInv, PhaseTells, RunTypes, StepReturns
        <4>2. Tail(todo[r]) \in Seq(0..(NumSteps - 1))
          BY <4>1, HeadTailProperties
        <4> QED BY <1>0, <3>1, <4>2 DEF StepReturns, RunTypes
      <3>2. CASE StepRaises(r)
        BY <1>0, <3>2 DEF StepRaises, RunTypes
      <3>3. CASE RedirectOut(r) \/ RedirectErr(r) \/ RestoreOut(r) \/ RestoreErr(r)
        BY <1>0, <3>3 DEF RedirectOut, RedirectErr, RestoreOut, RestoreErr, RunTypes
      <3> QED BY <3>1, <3>2, <3>3 DEF Silent
    <2>3. RunTypes'
      BY <1>0, <1>2, <1>4, <1>6, <2>1, <2>2 DEF RunTypes
    <2>4. WrappedOnce'
      BY <1>0, <1>2, <1>4, <2>1 DEF RunInv, WrappedOnce
    <2> QED BY <2>3, <2>4
  <1>9. PhaseTells'
    <2>1. ASSUME NEW q \in Runs, q # r PROVE todo'[q] = todo[q] /\ raised'[q] = raised[q]
      BY <1>0, <2>1 DEF RunTypes, Silent, RedirectOut, RedirectErr, StepReturns, StepRaises,
         RestoreOut, RestoreErr
    <2>2. /\ run'[r] \notin {"step", "restore"} => emitting[r] = "no"
          /\ run'[r] \in {"none", "redirect", "redirectErr", "next", "step"} => ~raised'[r]
          /\ run'[r] \in {"step", "raised"} => todo'[r] # <<>>
          /\ run'[r] = "raised" => raised'[r]
      BY <1>0 DEF RunInv, RunTypes, PhaseTells, Silent, RedirectOut, RedirectErr, StepReturns,
         StepRaises, RestoreOut, RestoreErr, AfterException
    <2> QED BY <1>0, <1>4, <1>5, <2>1, <2>2 DEF RunInv, PhaseTells
  <1>10. ToldInTurn'
    <2>1. \A q \in Runs :
            /\ run'[q] \in AfterClosing <=> run[q] \in AfterClosing
            /\ run[q] \in AfterClosing => todo'[q] = todo[q] /\ raised'[q] = raised[q]
      BY <1>0, <1>4 DEF RunTypes, AfterClosing, Silent, RedirectOut, RedirectErr, StepReturns,
         StepRaises, RestoreOut, RestoreErr, AfterException
    <2>2. started <= started' /\ started' \in Nat
      BY <1>0, RunsAreNumbers DEF RunTypes
    <2> QED BY <1>0, <1>5, <2>1, <2>2, ToldStays
  <1> QED BY <1>0, <1>4, <1>8, <1>9, <1>10 DEF RunInv

\* The steps of a run that say a line.
Says(r) == StartStep(r) \/ StepPrints(r) \/ SayFinished(r) \/ SayError(r)

LEMMA SaysHolds ==
  ASSUME IInv, NEW r \in Runs, Says(r) PROVE IInv'
  <1>0. RunInv /\ RunTypes /\ LogInv /\ LogTypeOK /\ r \in Emitters
        /\ UNCHANGED <<running, started, todo, raised, streams>>
    BY RunsAreNumbers DEF IInv, RunInv, LogInv, Says, StartStep, StepPrints, SayFinished, SayError
  <1>1. PICK text \in Texts :
          /\ Emit(r, text)
          /\ \/ text = "STARTING" /\ run[r] = "next" /\ todo[r] # <<>>
                /\ run' = [run EXCEPT ![r] = "step"]
             \/ text = "output" /\ run[r] = "step" /\ run' = [run EXCEPT ![r] = "step"]
             \/ text = "finished" /\ run[r] = "next" /\ todo[r] = <<>>
                /\ run' = [run EXCEPT ![r] = "restore"]
             \/ text = "ERROR" /\ run[r] = "raised" /\ run' = [run EXCEPT ![r] = "restore"]
    <2>1. run[r] = "step" => run = [run EXCEPT ![r] = "step"]
      BY <1>0 DEF RunTypes
    <2> QED BY <2>1 DEF Says, StartStep, StepPrints, SayFinished, SayError, Texts
  <1>2. LogInv'
    BY <1>0, <1>1, EmitHolds
  <1>3. Active(r) /\ run[r] \notin AfterClosing
    BY <1>1 DEF Active, AfterClosing
  <1>4. PICK p \in {"redirectErr", "next", "step", "raised", "restore", "restoreErr", "clear"} :
          run' = [run EXCEPT ![r] = p]
    BY <1>1
  <1>5. /\ OneAtATime' /\ run'[r] = p /\ Active(r)'
        /\ \A q \in Runs : q # r => run'[q] = run[q] /\ ~Active(q)'
        /\ running
        /\ run' \in [Runs -> {"none", "redirect", "redirectErr", "next", "step", "raised",
                              "restore", "restoreErr", "clear", "ended"}]
    BY <1>0, <1>3, <1>4, PhaseStep
  <1>6. RunTypes'
    BY <1>0, <1>5 DEF RunTypes, streams
  <1>7. run'[r] \in {"step", "restore"} /\ run[r] \in {"next", "step", "raised"}
    BY <1>0, <1>1 DEF RunTypes
  <1>8. WrappedOnce'
    <2>1. out' = out /\ err' = err /\ origOut' = origOut /\ origErr' = origErr /\ running' = running
      BY <1>0 DEF streams
    <2> QED BY <1>0, <1>3, <1>5, <1>7, <2>1 DEF RunInv, WrappedOnce
  <1>9. PhaseTells'
    <2>1. \A q \in Runs : q # r => emitting'[q] = emitting[q]
      BY <1>0, <1>1, EmitAppends, RunsAreNumbers DEF LogTypeOK
    <2>2. /\ run'[r] = "step" => ~raised[r] /\ todo[r] # <<>>
      BY <1>0, <1>1 DEF RunInv, PhaseTells, RunTypes
    <2> QED BY <1>0, <1>5, <1>7, <2>1, <2>2 DEF RunInv, PhaseTells
  <1>10. ToldInTurn'
    <2>1. run'[r] \in AfterClosing <=> text \in {"finished", "ERROR"}
      BY <1>0, <1>1 DEF AfterClosing, RunTypes
    <2>2. /\ text = "finished" => ~raised[r] /\ todo[r] = <<>>
          /\ text = "ERROR" => raised[r] /\ todo[r] # <<>>
      BY <1>0, <1>1 DEF RunInv, PhaseTells
    <2> QED BY <1>0, <1>1, <1>3, <1>5, <2>1, <2>2, RunSays
  <1> QED BY <1>2, <1>5, <1>6, <1>8, <1>9, <1>10 DEF IInv, RunInv

\* The flag is cleared last: the streams are the process's own again.
LEMMA ClearHolds ==
  ASSUME IInv, NEW r \in Runs, ClearFlag(r) PROVE RunInv' /\ UNCHANGED logVars
  <1>0. /\ RunInv /\ RunTypes /\ UNCHANGED <<logVars, started, todo, raised, streams>>
        /\ run[r] = "clear" /\ running' = FALSE /\ run' = [run EXCEPT ![r] = "ended"]
    BY DEF IInv, RunInv, ClearFlag
  <1>1. Active(r) /\ run'[r] = "ended" /\ \A q \in Runs : q # r => run'[q] = run[q]
    BY <1>0 DEF Active, RunTypes
  <1>2. r = started /\ \A q \in Runs : q # r => ~Active(q)
    BY <1>0, <1>1, ActiveIsLast DEF RunInv
  <1>3. \A q \in Runs : ~Active(q)'
    BY <1>1, <1>2 DEF Active
  <1>4. said' = said /\ emitting' = emitting
        /\ out' = out /\ err' = err /\ origOut' = origOut /\ origErr' = origErr
    BY <1>0 DEF logVars, buffer, emitters, streams
  <1>5. RunTypes'
    BY <1>0, <1>4 DEF RunTypes
  <1>6. OneAtATime'
    <2>1. ASSUME NEW q \in Runs
          PROVE  /\ q > started' => run'[q] = "none"
                 /\ q < started' => run'[q] = "ended"
                 /\ q = started' => run'[q] # "none"
      BY <1>0, <1>1, <1>2, RunsAreNumbers DEF RunInv, OneAtATime
    <2> QED BY <1>0, <1>3, <2>1 DEF OneAtATime
  <1>7. WrappedOnce'
    BY <1>0, <1>1, <1>3, <1>4 DEF RunInv, WrappedOnce
  <1>8. PhaseTells'
    BY <1>0, <1>1, <1>4 DEF RunInv, PhaseTells
  <1>9. ToldInTurn'
    <2>1. \A q \in Runs : run'[q] \in AfterClosing <=> run[q] \in AfterClosing
      BY <1>0, <1>1 DEF AfterClosing
    <2>2. started <= started' /\ started' \in Nat
      BY <1>0, RunsAreNumbers DEF RunTypes
    <2> QED BY <1>0, <1>4, <2>1, <2>2, ToldStays
  <1> QED BY <1>0, <1>5, <1>6, <1>7, <1>8, <1>9 DEF RunInv

\* Steps of the log alone: other threads say lines, emissions go on, sockets move.
LEMMA RunsLeft ==
  ASSUME IInv, UNCHANGED pipelineVars, ToldInTurn',
         \A r \in Runs : emitting[r] = "no" => emitting'[r] = "no"
  PROVE  RunInv'
  <1>0. /\ RunInv /\ running' = running /\ started' = started /\ run' = run /\ todo' = todo
        /\ raised' = raised /\ out' = out /\ err' = err /\ origOut' = origOut /\ origErr' = origErr
    BY DEF IInv, pipelineVars, streams
  <1>1. RunTypes' /\ OneAtATime' /\ WrappedOnce'
    BY <1>0 DEF RunInv, RunTypes, OneAtATime, WrappedOnce, Active
  <1>2. PhaseTells'
    BY <1>0 DEF RunInv, PhaseTells
  <1> QED BY <1>1, <1>2 DEF RunInv

LEMMA LogAloneHolds ==
  ASSUME IInv, UNCHANGED pipelineVars,
         \/ \E e \in Others : OtherEmits(e)
         \/ \E e \in Emitters : Emission(e)
         \/ \E w \in Sockets : SocketStep(w)
         \/ UNCHANGED logVars
  PROVE  IInv'
  <1>0. LogInv /\ LogTypeOK /\ RunInv /\ UNCHANGED <<started, run, todo, raised>>
    BY DEF IInv, LogInv, pipelineVars
  <1>1. started <= started' /\ started' \in Nat
    BY <1>0, RunsAreNumbers DEF RunInv, RunTypes
  <1>2. CASE \E e \in Others : OtherEmits(e)
    <2>1. PICK e \in Others : Emit(e, "WebDAV")
      BY <1>2 DEF OtherEmits
    <2>2. e \in Emitters /\ e \notin Runs /\ "WebDAV" \in Texts
      BY RunsAreNumbers DEF Texts
    <2>3. LogInv' /\ ToldInTurn'
      BY <1>0, <2>1, <2>2, EmitHolds, OtherSays
    <2>4. \A r \in Runs : emitting[r] = "no" => emitting'[r] = "no"
      BY <1>0, <2>1, <2>2, EmitAppends, RunsAreNumbers DEF LogTypeOK
    <2> QED BY <2>3, <2>4, RunsLeft DEF IInv
  <1>3. CASE \E e \in Emitters : Emission(e)
    <2>1. PICK e \in Emitters : Emission(e)
      BY <1>3
    <2>2. LogInv'
      BY <1>0, <2>1, LogSteps
    <2>3. said' = said
      BY <2>1 DEF Emission, CopyListeners, Put, buffer
    <2>4. emitting[e] # "no" /\ \A f \in Emitters : f # e => emitting'[f] = emitting[f]
      BY <1>0, <2>1 DEF Emission, CopyListeners, Put, LogInv, OwnLine, LogTypeOK
    <2>5. ToldInTurn'
      BY <1>0, <1>1, <2>3, ToldStays
    <2>6. \A r \in Runs : emitting[r] = "no" => emitting'[r] = "no"
      BY <2>4, RunsAreNumbers
    <2> QED BY <2>2, <2>5, <2>6, RunsLeft DEF IInv
  <1>4. CASE (\E w \in Sockets : SocketStep(w)) \/ UNCHANGED logVars
    <2>1. LogInv'
      BY <1>0, <1>4, LogSteps
    <2>2. said' = said /\ emitting' = emitting
      BY <1>4 DEF SocketStep, Sending, Subscribe, Replay, SendReplayed, SendQueued, Disconnect,
         buffer, emitters, logVars
    <2>3. ToldInTurn'
      BY <1>0, <1>1, <2>2, ToldStays
    <2> QED BY <2>1, <2>2, <2>3, RunsLeft DEF IInv
  <1> QED BY <1>2, <1>3, <1>4

\* The invariant is kept by every step of the composition.
LEMMA PipelineStep == ASSUME IInv, [Next]_vars PROVE IInv'
  <1>0. LogInv
    BY DEF IInv 
  <1>1. ASSUME NEW indices \in Requests, Run(indices) PROVE IInv'
    <2>1. UNCHANGED logVars
      BY <1>1 DEF Run
    <2> QED BY <1>0, <1>1, <2>1, RunHolds, LogSteps DEF IInv
  <1>2. ASSUME NEW r \in Runs, Thread(r) \/ StepPrints(r) PROVE IInv'
    <2>1. Silent(r) \/ Says(r) \/ ClearFlag(r)
      BY <1>2 DEF Thread, Silent, Says
    <2> QED BY <1>0, <2>1, SilentHolds, SaysHolds, ClearHolds, LogSteps DEF IInv
  <1>3. CASE UNCHANGED vars
    BY <1>3, LogAloneHolds DEF vars, pipelineVars
  <1> QED BY <1>1, <1>2, <1>3, LogAloneHolds DEF Next

LEMMA PipelineInvariant == Spec => []IInv
  <1>1. Init => IInv
    BY PipelineStarts
  <1>2. IInv /\ [Next]_vars => IInv'
    BY PipelineStep
  <1> QED BY <1>1, <1>2, PTL DEF Spec

-----------------------------------------------------------------------------
\* The variables of the log and of the pipeline keep to their types.
THEOREM PipelineTypeCorrect == Spec => []TypeOK
  <1>1. IInv => TypeOK
    BY DEF IInv, LogInv, RunInv, RunTypes, TypeOK
  <1> QED BY <1>1, PipelineInvariant, PTL

\* From the oldest line kept when it was replayed, a client was sent every line,
\* or still has it coming, however emit, subscribe and replay interleave.
THEOREM LinesReachClients == Spec => []NoLineMissed
  <1>1. IInv => NoLineMissed
    BY DEF IInv, LogInv
  <1> QED BY <1>1, PipelineInvariant, PTL

\* A client sees the lines of one thread for the first time in their order.
THEOREM LinesComeInOrder == Spec => []LinesInOrder
  <1>1. IInv => LinesInOrder
    <2> SUFFICES ASSUME LogInv, NEW w \in Sockets, NEW i \in DOMAIN shown[w],
                        NEW n \in since[w]..(shown[w][i] - 1),
                        said[n].by = said[shown[w][i]].by
                 PROVE  \E j \in 1..(i - 1) : shown[w][j] = n
      BY DEF LinesInOrder, IInv
    <2>1. n \in Before(shown[w], i)
      BY DEF LogInv, InOrder, Earlier
    <2> QED BY <2>1 DEF Before
  <1> QED BY <1>1, PipelineInvariant, PTL

\* Whenever a run may start, stdout and stderr are the process's own.
THEOREM StreamsComeBack == Spec => []StreamsRestored
  <1>1. IInv => StreamsRestored
    BY DEF IInv, RunInv, WrappedOnce, StreamsRestored
  <1> QED BY <1>1, PipelineInvariant, PTL

\* The log tells one run after the other, each to its closing line.
THEOREM LogIsWholeRuns == Spec => []LogTellsRuns
  <1>1. IInv => LogTellsRuns
    BY DEF IInv, RunInv, ToldInTurn, LogTellsRuns, Closes, AfterClosing
  <1> QED BY <1>1, PipelineInvariant, PTL
=============================================================================
