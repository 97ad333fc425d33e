--------------------------- MODULE WorkerRunProofs ---------------------------
(***************************************************************************)
(* A worker pool keeps its books for every number of workers, pipes,       *)
(* retries and slots, with and without a run deadline, whatever order the  *)
(* exits, the pipes, the timers and the stops come in.  The invariant      *)
(* RunInv is inductive: the counters are the cardinalities they stand for  *)
(* (Books), each worker is at a legal point of its life (Settled), every   *)
(* wait of the loop has a timer or a child behind it (Loops, RetryClock,   *)
(* DrainClock).  A callback that stops the run sweeps the other workers in *)
(* the same step, so the lemmas follow the run record through a callback:  *)
(* what a stop does, what an account does, what one more turn of a         *)
(* sweep does, with what every sweep keeps.  A sweep is a recursive        *)
(* function of the turns taken, and its lemmas are proved by induction on  *)
(* the turns: the set of turns that fail has a smallest member.            *)
(***************************************************************************)
EXTENDS WorkerRun, FiniteSetTheorems, SequenceTheorems, WellFoundedInduction, TLAPS

Timers == RetryTimers \cup {DeadlineTimer, DrainTimer}
WorkerType ==
    [life : {"waiting", "running", "exited"}, status : Outcomes \cup {"none", "nostart"},
     open : SUBSET Streams, marks : SUBSET Reasons, counted : BOOLEAN, awaitingRetry : BOOLEAN,
     attempt : 0 .. MaxRetries, starts : 0 .. MaxRetries + 1]
RunType ==
    [worker : [Workers -> WorkerType], remaining : Int, next : 1 .. N + 1, inFlight : Nat,
     retryQueue : Seq(Workers), stops : SUBSET Reasons, drainArmed : BOOLEAN, stopped : BOOLEAN,
     timers : SUBSET Timers]

\* Where a worker is in its life, and what follows for its books.
Shape(w) ==
    /\ w.life = "waiting" => /\ w.open = Streams /\ w.marks = {} /\ w.starts = w.attempt
                             /\ ~w.counted /\ ~w.awaitingRetry
    /\ w.life = "running" => ~w.counted /\ ~w.awaitingRetry /\ w.starts = w.attempt + 1
    /\ w.life = "exited" => w.counted \/ w.awaitingRetry \/ (w.open # {} /\ w.starts = w.attempt + 1)
    /\ w.awaitingRetry => w.life = "exited" /\ w.open = {} /\ ~w.counted /\ w.starts = w.attempt
    /\ w.counted => w.life = "exited" /\ w.open = {}

Final(w, stops) ==
    w.counted /\ w.marks = {} =>
        w.starts = w.attempt + 1 /\ (w.status = "transient" => w.attempt = MaxRetries \/ stops # {})

Worker(r, i) ==
    LET w == r.worker[i]
    IN  /\ Shape(w) /\ Final(w, r.stops) /\ w.marks \subseteq r.stops
        /\ i >= r.next => w.life = "waiting"

Uncounted(r) == {i \in Workers : ~r.worker[i].counted}
Alive(r) == {i \in Workers : r.worker[i].life = "running"}
Counters(r) ==
    /\ r.remaining = Cardinality(Uncounted(r)) /\ r.inFlight = Cardinality(Alive(r))
    /\ r.stopped = (r.remaining = 0)

Cause(w) == w.counted /\ "aborted" \notin w.marks /\ IsFailure(w)
Caused(r) == r.stops = {"aborted"} => \E i \in Workers : Cause(r.worker[i])

Books(r) == r \in RunType /\ Counters(r) /\ Caused(r) /\ \A i \in Workers : Worker(r, i)

Queued(r) == ToSet(r.retryQueue)
InLine(r) == {i \in Workers : r.worker[i].life = "waiting" /\ i < r.next}
QueueOk(r) ==
    /\ \A j, k \in DOMAIN r.retryQueue : r.retryQueue[j] = r.retryQueue[k] => j = k
    /\ Queued(r) = InLine(r)

Doomed(w, stops) ==
    w.life # "waiting" /\ ~w.awaitingRetry /\ ("timedOut" \in w.marks \/ stops \cap {"cancelled", "aborted"} # {})
Settled(r) ==
    r.stops # {} =>
        /\ r.next = N + 1 /\ r.retryQueue = <<>>
        /\ \A i \in Workers : ~r.worker[i].counted => Doomed(r.worker[i], r.stops)


\* The timers that a run with the due timers b still has to hear of.
RetryClock(r, b) ==
    /\ \A i \in Workers : r.worker[i].awaitingRetry => RetryTimer(i) \in r.timers \cup b
    /\ \A i \in Workers : ~r.worker[i].counted =>
          /\ RetryTimer(i) \in r.timers \cup b => r.worker[i].awaitingRetry
          /\ ~(RetryTimer(i) \in r.timers /\ RetryTimer(i) \in b)
DrainTimed(r, b) ==
    /\ r.drainArmed => DrainTimer \in r.timers \cup b
    /\ DrainTimer \in r.timers \cup b => r.stops # {}
DrainClock(r) == r.stops # {} => r.drainArmed \/ r.stopped

Stable(r, b) == Books(r) /\ QueueOk(r) /\ Settled(r) /\ RetryClock(r, b) /\ DrainTimed(r, b)

Loops ==
    /\ opts \in Options /\ phase \in {"starting", "events", "timers", "returned"} /\ filling \in BOOLEAN
    /\ batch \subseteq Timers
    /\ phase = "returned" => run.stopped /\ ~filling
    /\ phase = "starting" => filling
    /\ batch # {} => phase = "timers"
    /\ ~filling => ~CanSpawn(run)
    /\ run.inFlight <= Limit

RunInv == Stable(run, batch) /\ DrainClock(run) /\ Loops

\* A worker whose end account() is told of.
Ended(w) ==
    /\ w.life = "exited" /\ w.open = {} /\ ~w.counted /\ ~w.awaitingRetry
    /\ w.starts = w.attempt + 1 \/ "timedOut" \in w.marks

\* The books when account(i) is called.
Open(r, i) ==
    /\ r \in RunType /\ Counters(r) /\ Caused(r) /\ \A j \in Workers \ {i} : Worker(r, j)
    /\ Ended(r.worker[i]) /\ r.worker[i].marks \subseteq r.stops /\ i < r.next

\* What became of a worker that was counted stays.
Keeps(r, s) ==
    \A i \in Workers : r.worker[i].counted =>
        /\ s.worker[i].counted
        /\ s.worker[i].life = r.worker[i].life /\ s.worker[i].status = r.worker[i].status
        /\ s.worker[i].open = r.worker[i].open /\ s.worker[i].starts = r.worker[i].starts

\* Nobody waits but in the queue, and who is in the queue waits, or has been counted.
Lined(r) ==
    /\ InLine(r) \subseteq Queued(r)
    /\ \A i \in Queued(r) : r.worker[i].life = "waiting" \/ r.worker[i].counted

-----------------------------------------------------------------------------
LEMMA Constants ==
    /\ N \in Nat /\ N > 0 /\ MaxRetries \in Nat /\ Streams # {}
    /\ Workers \subseteq Nat /\ \A i \in Workers : 1 <= i /\ i <= N
BY WorkerRunAssumption DEF Workers

LEMMA WorkersFinite ==
    ASSUME NEW S \in SUBSET Workers PROVE IsFiniteSet(S) /\ Cardinality(S) \in Nat
<1>1. IsFiniteSet(Workers)
  <2>1. 1 \in Int /\ N \in Int
    BY Constants
  <2>2. QED
    BY <2>1, FS_Interval DEF Workers
<1>2. QED
  BY <1>1, FS_Subset, FS_CardinalityType

\* One worker fewer.
LEMMA OneFewer ==
    ASSUME NEW S \in SUBSET Workers, NEW i \in S
    PROVE  Cardinality(S \ {i}) = Cardinality(S) - 1
BY WorkersFinite, FS_RemoveElement

LEMMA OneMore ==
    ASSUME NEW S \in SUBSET Workers, NEW i \in Workers \ S
    PROVE  Cardinality(S \cup {i}) = Cardinality(S) + 1
BY WorkersFinite, FS_AddElement

\* Fields of a run.
LEMMA RunFields ==
    ASSUME NEW r \in RunType
    PROVE  /\ r.worker \in [Workers -> WorkerType] /\ r.remaining \in Int /\ r.next \in 1 .. N + 1
           /\ r.inFlight \in Nat /\ r.retryQueue \in Seq(Workers) /\ r.stops \in SUBSET Reasons
           /\ r.drainArmed \in BOOLEAN /\ r.stopped \in BOOLEAN /\ r.timers \in SUBSET Timers
           /\ \A i \in Workers : r.worker[i] \in WorkerType
BY DEF RunType

LEMMA QueuedAreWorkers == ASSUME NEW r \in RunType PROVE Queued(r) \subseteq Workers
BY RunFields DEF Queued, ToSet

LEMMA CountEffect ==
    ASSUME NEW r, NEW i \in Workers, Open(r, i), ~MayRetry(r, r.worker[i])
    PROVE  LET s == CountWorker(r, i)
           IN  /\ Books(s) /\ Keeps(r, s) /\ s.worker[i] = [r.worker[i] EXCEPT !.counted = TRUE]
               /\ \A j \in Workers \ {i} : s.worker[j] = r.worker[j]
               /\ s.next = r.next /\ s.inFlight = r.inFlight /\ s.retryQueue = r.retryQueue
               /\ s.stops = r.stops /\ s.drainArmed = r.drainArmed /\ s.timers = r.timers
<1> DEFINE s == CountWorker(r, i)
           w == r.worker[i]
<1>1. r \in RunType /\ w \in WorkerType /\ r.worker \in [Workers -> WorkerType] /\ Ended(w)
  BY RunFields DEF Open
<1> DEFINE W == [r.worker EXCEPT ![i].counted = TRUE]
<1>2. s = [r EXCEPT !.worker = W, !.remaining = r.remaining - 1, !.stopped = (r.remaining = 1)]
  BY <1>1 DEF CountWorker, RunType
<1>3. /\ W[i] = [w EXCEPT !.counted = TRUE] /\ W[i] \in WorkerType /\ W \in [Workers -> WorkerType]
      /\ \A j \in Workers \ {i} : W[j] = r.worker[j]
  BY <1>1 DEF WorkerType
<1> HIDE DEF s, W
<1>4. /\ s \in RunType /\ s.worker = W
      /\ s.remaining = r.remaining - 1 /\ s.stopped = (r.remaining = 1)
      /\ s.next = r.next /\ s.inFlight = r.inFlight /\ s.retryQueue = r.retryQueue
      /\ s.stops = r.stops /\ s.drainArmed = r.drainArmed /\ s.timers = r.timers
  <2> DEFINE m == r.remaining - 1
             b == r.remaining = 1
  <2>1. m \in Int /\ b \in BOOLEAN /\ s = [r EXCEPT !.worker = W, !.remaining = m, !.stopped = b]
    BY <1>1, <1>2, RunFields
  <2> HIDE DEF m, b
  <2>2. s.worker = W /\ s.remaining = m /\ s.stopped = b /\ s \in RunType
    BY <1>1, <1>3, <2>1 DEF RunType
  <2>3. /\ s.next = r.next /\ s.inFlight = r.inFlight /\ s.retryQueue = r.retryQueue
        /\ s.stops = r.stops /\ s.drainArmed = r.drainArmed /\ s.timers = r.timers
    BY <1>1, <2>1 DEF RunType
  <2>4. QED
    BY <2>2, <2>3 DEF m, b
<1>5. /\ s.worker[i].counted /\ s.worker[i].life = w.life /\ s.worker[i].open = w.open
      /\ s.worker[i].awaitingRetry = w.awaitingRetry /\ s.worker[i].starts = w.starts
      /\ s.worker[i].attempt = w.attempt /\ s.worker[i].marks = w.marks /\ s.worker[i].status = w.status
  BY <1>1, <1>3, <1>4 DEF WorkerType
<1> HIDE DEF w
<1>6. Counters(s)
  <2>1. Uncounted(s) = Uncounted(r) \ {i} /\ i \in Uncounted(r) /\ Alive(s) = Alive(r)
    <3>1. \A j \in Workers : j # i => s.worker[j] = r.worker[j]
      BY <1>3, <1>4
    <3>2. ~w.counted /\ w.life = "exited" /\ w = r.worker[i]
      BY <1>1 DEF Ended, w
    <3>3. QED
      BY <1>5, <3>1, <3>2 DEF Uncounted, Alive
  <2>2. Cardinality(Uncounted(s)) = Cardinality(Uncounted(r)) - 1 /\ Cardinality(Uncounted(r)) \in Nat
    BY <2>1, OneFewer, WorkersFinite DEF Uncounted
  <2>3. Counters(r)
    BY DEF Open
  <2>4. QED
    BY <1>4, <2>1, <2>2, <2>3 DEF Counters
<1>7. Caused(s)
  <2> SUFFICES ASSUME s.stops = {"aborted"} PROVE \E j \in Workers : Cause(s.worker[j])
    BY DEF Caused
  <2>1. PICK j \in Workers : Cause(r.worker[j])
    BY <1>4 DEF Open, Caused
  <2>2. j # i
    BY <1>1, <2>1 DEF Cause, Ended, w
  <2>3. QED
    BY <1>3, <1>4, <2>1, <2>2
<1>8. ASSUME NEW j \in Workers PROVE Worker(s, j)
  <2>1. CASE j # i
    BY <1>3, <1>4, <2>1 DEF Worker, Open
  <2>2. CASE j = i
    <3>1. Shape(s.worker[i])
      BY <1>1, <1>5 DEF Shape, Ended
    <3>2. Final(s.worker[i], s.stops)
      <4>1. ASSUME w.marks = {} PROVE w.starts = w.attempt + 1
        BY <1>1, <4>1 DEF Ended
      <4>2. ASSUME w.marks = {}, w.status = "transient", r.stops = {} PROVE w.attempt = MaxRetries
        <5>1. ~(w.attempt < MaxRetries)
          BY <4>2 DEF MayRetry, Retryable, w
        <5>2. w.attempt \in 0 .. MaxRetries /\ MaxRetries \in Nat
          BY <1>1, Constants DEF WorkerType
        <5>3. QED
          BY <5>1, <5>2
      <4>3. QED
        BY <1>4, <1>5, <4>1, <4>2 DEF Final
    <3>3. ~(i >= r.next) /\ w.marks \subseteq r.stops
      BY <1>1, Constants DEF Open, RunType, w
    <3>4. QED
      BY <1>4, <1>5, <2>2, <3>1, <3>2, <3>3 DEF Worker
  <2>3. QED
    BY <2>1, <2>2
<1>9. Keeps(r, s)
  BY <1>1, <1>3, <1>4 DEF Keeps, Ended, w
<1>10. QED
  BY <1>3, <1>4, <1>6, <1>7, <1>8, <1>9 DEF Books, s, w

\* The workers that teardown() ends without a child.
Ends(r, i) == i \in Queued(r) \cup (r.next .. N) \/ r.worker[i].awaitingRetry

StoppedWorker(r, i, reason) ==
    LET w == [r.worker[i] EXCEPT !.marks = @ \cup {reason}]
    IN  IF Ends(r, i)
        THEN [w EXCEPT !.life = "exited", !.open = {}, !.counted = TRUE, !.awaitingRetry = FALSE]
        ELSE IF Complete(w) THEN r.worker[i] ELSE w

\* What a run is after teardown() for Ctrl-C or for --fail-fast.
Stopped(r, s, reason) ==
    /\ s \in RunType /\ s.next = N + 1 /\ s.inFlight = r.inFlight /\ s.retryQueue = <<>>
    /\ s.stops = r.stops \cup {reason} /\ s.drainArmed
    /\ s.timers = (r.timers \ RetryTimers) \cup (IF r.drainArmed THEN {} ELSE {DrainTimer})
    /\ \A i \in Workers : s.worker[i] = StoppedWorker(r, i, reason)

LEMMA StopFields ==
    ASSUME NEW r \in RunType, NEW reason \in {"cancelled", "aborted"}
    PROVE  LET s == StopAll(r, reason)
               ended == {i \in Workers : Ends(r, i) /\ ~r.worker[i].counted}
           IN  /\ Stopped(r, s, reason)
               /\ s.remaining = r.remaining - Cardinality(ended)
               /\ s.stopped = (r.remaining = Cardinality(ended))
<1> DEFINE ended == {i \in Workers : Ends(r, i) /\ ~r.worker[i].counted}
           W == [i \in Workers |-> StoppedWorker(r, i, reason)]
           m == r.remaining - Cardinality(ended)
           b == r.remaining = Cardinality(ended)
           t == [r EXCEPT !.worker = W, !.stops = @ \cup {reason}, !.timers = @ \ RetryTimers,
                          !.retryQueue = <<>>, !.next = N + 1, !.remaining = m, !.stopped = b]
           s == StopAll(r, reason)
<1>1. /\ r.worker \in [Workers -> WorkerType] /\ r.remaining \in Int /\ r.stops \in SUBSET Reasons
      /\ r.timers \in SUBSET Timers
  BY RunFields
<1>2. s = ArmDrain(t)
  BY DEF StopAll, StoppedWorker, Ends, Queued
<1>3. W \in [Workers -> WorkerType]
  <2>1. ASSUME NEW i \in Workers PROVE StoppedWorker(r, i, reason) \in WorkerType
    <3>1. r.worker[i] \in WorkerType /\ r.worker[i].marks \cup {reason} \in SUBSET Reasons
      BY <1>1 DEF WorkerType, Reasons
    <3>2. QED
      BY <3>1 DEF StoppedWorker, WorkerType
  <2>2. QED
    BY <2>1
<1>4. m \in Int /\ b \in BOOLEAN
  <2>1. Cardinality(ended) \in Nat
    BY WorkersFinite
  <2> HIDE DEF ended
  <2>2. QED
    BY <1>1, <2>1
<1>5. r.stops \cup {reason} \in SUBSET Reasons /\ r.timers \ RetryTimers \in SUBSET Timers /\ N + 1 \in 1 .. N + 1
  BY <1>1, Constants DEF Reasons
<1>6. \A i \in Workers : W[i] = StoppedWorker(r, i, reason)
  OBVIOUS
<1> HIDE DEF W, m, b, ended
<1>7. /\ t \in RunType /\ t.worker = W /\ t.remaining = m /\ t.stopped = b /\ t.next = N + 1
      /\ t.inFlight = r.inFlight /\ t.retryQueue = <<>> /\ t.stops = r.stops \cup {reason}
      /\ t.drainArmed = r.drainArmed /\ t.timers = r.timers \ RetryTimers
  <2> DEFINE x == r.stops \cup {reason}
             y == r.timers \ RetryTimers
             n == N + 1
  <2>1. t = [r EXCEPT !.worker = W, !.stops = x, !.timers = y, !.retryQueue = <<>>, !.next = n,
                      !.remaining = m, !.stopped = b]
    BY DEF RunType
  <2>2. x \in SUBSET Reasons /\ y \in SUBSET Timers /\ n \in 1 .. N + 1 /\ <<>> \in Seq(Workers)
    BY <1>5
  <2> HIDE DEF t, x, y, n
  <2>3. t \in RunType
    BY <1>3, <1>4, <2>1, <2>2 DEF RunType
  <2>4. /\ t.worker = W /\ t.remaining = m /\ t.stopped = b /\ t.next = n
        /\ t.inFlight = r.inFlight /\ t.retryQueue = <<>> /\ t.stops = x
        /\ t.drainArmed = r.drainArmed /\ t.timers = y
    BY <2>1 DEF RunType
  <2>5. QED
    BY <2>3, <2>4 DEF x, y, n
<1> HIDE DEF t, s
<1>8. /\ s \in RunType /\ s.worker = W /\ s.remaining = m /\ s.stopped = b /\ s.next = N + 1
      /\ s.inFlight = r.inFlight /\ s.retryQueue = <<>> /\ s.stops = r.stops \cup {reason} /\ s.drainArmed
      /\ s.timers = (r.timers \ RetryTimers) \cup (IF r.drainArmed THEN {} ELSE {DrainTimer})
  <2>1. CASE t.drainArmed
    BY <1>2, <1>7, <2>1 DEF ArmDrain
  <2>2. CASE ~t.drainArmed
    <3>1. s = [t EXCEPT !.drainArmed = TRUE, !.timers = @ \cup {DrainTimer}]
      BY <1>2, <2>2 DEF ArmDrain
    <3>2. t.timers \cup {DrainTimer} \in SUBSET Timers
      BY <1>7, RunFields DEF Timers
    <3>3. /\ s \in RunType /\ s.drainArmed /\ s.timers = t.timers \cup {DrainTimer}
      BY <1>7, <3>1, <3>2 DEF RunType
    <3>4. /\ s.worker = t.worker /\ s.remaining = t.remaining /\ s.stopped = t.stopped /\ s.next = t.next
          /\ s.inFlight = t.inFlight /\ s.retryQueue = t.retryQueue /\ s.stops = t.stops
      BY <1>7, <3>1 DEF RunType
    <3>5. QED
      BY <1>7, <2>2, <3>3, <3>4
  <2>3. QED
    BY <2>1, <2>2
<1>9. Stopped(r, s, reason)
  BY <1>6, <1>8 DEF Stopped
<1>10. QED
  BY <1>8, <1>9 DEF s, m, b, ended

\* teardown() for Ctrl-C or for --fail-fast keeps the books and settles the run.
LEMMA StopEffect ==
    ASSUME NEW r, Books(r), Lined(r), NEW reason \in {"cancelled", "aborted"},
           r.stops \cup {reason} = {"aborted"} =>
               \E i \in Workers : Cause(r.worker[i]) /\ i \notin Queued(r)
    PROVE  LET s == StopAll(r, reason)
           IN Stopped(r, s, reason) /\ Books(s) /\ Settled(s) /\ Keeps(r, s)
<1> DEFINE ended == {i \in Workers : Ends(r, i) /\ ~r.worker[i].counted}
<1>1. PICK s : s = StopAll(r, reason)
  OBVIOUS
<1>2. r \in RunType /\ Counters(r) /\ \A i \in Workers : r.worker[i] \in WorkerType /\ Worker(r, i)
  BY RunFields DEF Books
<1>3. /\ Stopped(r, s, reason) /\ s.remaining = r.remaining - Cardinality(ended)
      /\ s.stopped = (r.remaining = Cardinality(ended))
  BY <1>1, <1>2, StopFields
<1>4. ASSUME NEW i \in Workers
      PROVE  Ends(r, i) => r.worker[i].counted \/ r.worker[i].awaitingRetry \/ r.worker[i].life = "waiting"
  <2>1. i \in r.next .. N => r.worker[i].life = "waiting"
    BY <1>2, Constants, RunFields DEF Worker
  <2>2. QED
    BY <2>1 DEF Ends, Lined
<1>5. ASSUME NEW i \in Workers, r.worker[i].life = "waiting" PROVE Ends(r, i)
  <2>1. i < r.next => i \in Queued(r)
    BY <1>5 DEF Lined, InLine
  <2>2. ~(i < r.next) => i \in r.next .. N
    BY <1>2, Constants, RunFields
  <2>3. QED
    BY <2>1, <2>2 DEF Ends
<1>6. ASSUME NEW i \in Workers
      PROVE  LET w == r.worker[i]
                 v == s.worker[i]
             IN  /\ Ends(r, i) => /\ v.life = "exited" /\ v.open = {} /\ v.counted /\ ~v.awaitingRetry
                                  /\ v.marks = w.marks \cup {reason} /\ v.starts = w.starts
                                  /\ v.status = w.status /\ v.attempt = w.attempt
                 /\ ~Ends(r, i) => /\ v.life = w.life /\ v.open = w.open /\ v.counted = w.counted
                                   /\ v.awaitingRetry = w.awaitingRetry /\ v.starts = w.starts
                                   /\ v.status = w.status /\ v.attempt = w.attempt
                                   /\ Complete(w) => v = w
                                   /\ ~Complete(w) => v.marks = w.marks \cup {reason}
  <2>1. r.worker[i] \in WorkerType /\ s.worker[i] = StoppedWorker(r, i, reason)
    BY <1>2, <1>3 DEF Stopped
  <2> DEFINE w == r.worker[i]
             u == [w EXCEPT !.marks = @ \cup {reason}]
  <2>2. Complete(u) = Complete(w) /\ u.marks = w.marks \cup {reason} /\ u.life = w.life /\ u.open = w.open
        /\ u.counted = w.counted /\ u.awaitingRetry = w.awaitingRetry /\ u.starts = w.starts
        /\ u.status = w.status /\ u.attempt = w.attempt /\ u \in [DOMAIN w -> {u[x] : x \in DOMAIN w}]
    BY <2>1 DEF WorkerType, Complete
  <2>3. CASE Ends(r, i)
    <3>1. s.worker[i] = [u EXCEPT !.life = "exited", !.open = {}, !.counted = TRUE, !.awaitingRetry = FALSE]
      BY <2>1, <2>3 DEF StoppedWorker
    <3>2. s.worker[i] = [w EXCEPT !.marks = @ \cup {reason}, !.life = "exited", !.open = {},
                                  !.counted = TRUE, !.awaitingRetry = FALSE]
      BY <2>1, <3>1 DEF WorkerType
    <3> HIDE DEF w, u
    <3>3. w \in WorkerType
      BY <2>1 DEF w
    <3>4. QED
      BY <2>3, <3>2, <3>3 DEF WorkerType, w
  <2>4. CASE ~Ends(r, i)
    <3>1. s.worker[i] = IF Complete(w) THEN w ELSE u
      BY <2>1, <2>2, <2>4 DEF StoppedWorker
    <3> HIDE DEF w, u
    <3>2. QED
      BY <2>2, <2>4, <3>1 DEF w
  <2>5. QED
    BY <2>3, <2>4
<1>7. Keeps(r, s)
  <2>1. ASSUME NEW i \in Workers, r.worker[i].counted
        PROVE  r.worker[i].life = "exited" /\ r.worker[i].open = {}
    BY <1>2, <2>1 DEF Worker, Shape
  <2>2. QED
    BY <1>6, <2>1, ZenonT(60) DEF Keeps
<1>8. Counters(s)
  <2>1. Uncounted(s) = Uncounted(r) \ ended /\ ended \subseteq Uncounted(r)
    BY <1>6 DEF Uncounted
  <2>2. Alive(s) = Alive(r)
    <3>1. \A i \in Workers : Ends(r, i) => r.worker[i].life # "running"
      BY <1>2, <1>4 DEF Worker, Shape
    <3>2. QED
      BY <1>6, <3>1 DEF Alive
  <2>3. IsFiniteSet(Uncounted(r)) /\ Cardinality(Uncounted(r)) \in Nat /\ Cardinality(ended) \in Nat
    BY WorkersFinite DEF Uncounted
  <2> HIDE DEF ended
  <2>4. Cardinality(Uncounted(s)) = Cardinality(Uncounted(r)) - Cardinality(ended)
    <3>1. Uncounted(r) \cap ended = ended
      BY <2>1
    <3>2. Cardinality(Uncounted(r) \ ended) = Cardinality(Uncounted(r)) - Cardinality(Uncounted(r) \cap ended)
      BY <2>3, FS_Difference
    <3>3. QED
      BY <2>1, <3>1, <3>2
  <2>5. r.remaining = Cardinality(Uncounted(r)) /\ s.remaining = Cardinality(Uncounted(s))
    BY <1>2, <1>3, <2>4 DEF Counters
  <2>6. s.inFlight = Cardinality(Alive(s))
    BY <1>2, <1>3, <2>2 DEF Counters, Stopped
  <2>7. s.stopped = (s.remaining = 0)
    BY <1>3, <2>3, <2>4, <2>5
  <2>8. QED
    BY <2>5, <2>6, <2>7 DEF Counters
<1>9. Caused(s)
  <2> SUFFICES ASSUME s.stops = {"aborted"} PROVE \E i \in Workers : Cause(s.worker[i])
    BY DEF Caused
  <2>1. PICK i \in Workers : Cause(r.worker[i]) /\ i \notin Queued(r)
    BY <1>3 DEF Stopped
  <2>2. ~Ends(r, i) /\ Complete(r.worker[i])
    <3>1. /\ r.worker[i].life = "exited" /\ r.worker[i].open = {} /\ ~r.worker[i].awaitingRetry
      BY <1>2, <2>1 DEF Cause, Worker, Shape
    <3>2. i \notin r.next .. N
      BY <1>2, <3>1, Constants, RunFields DEF Worker
    <3>3. QED
      BY <2>1, <3>1, <3>2 DEF Ends, Complete
  <2>3. s.worker[i] = r.worker[i]
    BY <1>6, <2>2
  <2>4. QED
    BY <2>1, <2>3
<1>10. ASSUME NEW i \in Workers PROVE Worker(s, i)
  <2> DEFINE w == r.worker[i]
             v == s.worker[i]
  <2>1. Shape(w) /\ Final(w, r.stops) /\ w.marks \subseteq r.stops
    BY <1>2 DEF Worker
  <2>2. s.stops = r.stops \cup {reason} /\ ~(i >= s.next)
    BY <1>3, Constants DEF Stopped
  <2>3. v.marks \subseteq s.stops
    BY <1>6, <2>1, <2>2
  <2>4. CASE Ends(r, i)
    <3>1. v.life = "exited" /\ v.open = {} /\ v.counted /\ ~v.awaitingRetry /\ v.marks # {}
      BY <1>6, <2>4
    <3> HIDE DEF v
    <3>2. Shape(v) /\ Final(v, s.stops)
      BY <3>1 DEF Shape, Final
    <3>3. QED
      BY <2>2, <2>3, <3>2 DEF Worker, v
  <2>5. CASE ~Ends(r, i)
    <3>1. w.life # "waiting" /\ ~w.awaitingRetry
      BY <1>5, <2>5 DEF Ends
    <3>2. /\ v.life = w.life /\ v.open = w.open /\ v.counted = w.counted
          /\ v.awaitingRetry = w.awaitingRetry /\ v.starts = w.starts
          /\ v.status = w.status /\ v.attempt = w.attempt
          /\ w.counted => v.marks = w.marks
      <4>1. w.counted => Complete(w)
        BY <2>1 DEF Shape, Complete
      <4>2. QED
        BY <1>6, <2>5, <4>1
    <3>3. s.stops # {}
      BY <2>2
    <3> HIDE DEF v, w
    <3>4. Shape(v)
      BY <2>1, <3>1, <3>2 DEF Shape
    <3>5. Final(v, s.stops)
      BY <2>1, <3>2, <3>3 DEF Final
    <3>6. QED
      BY <2>2, <2>3, <3>4, <3>5 DEF Worker, v
  <2>6. QED
    BY <2>4, <2>5
<1>11. Settled(s)
  <2>1. s.next = N + 1 /\ s.retryQueue = <<>> /\ s.stops = r.stops \cup {reason}
    BY <1>3 DEF Stopped
  <2>2. ASSUME NEW i \in Workers, ~s.worker[i].counted PROVE Doomed(s.worker[i], s.stops)
    <3>1. ~Ends(r, i)
      BY <1>6, <2>2
    <3>2. s.worker[i].life # "waiting" /\ ~s.worker[i].awaitingRetry
      BY <1>5, <1>6, <3>1 DEF Ends
    <3>3. s.stops \cap {"cancelled", "aborted"} # {}
      BY <2>1
    <3>4. QED
      BY <3>2, <3>3 DEF Doomed
  <2>3. QED
    BY <2>1, <2>2 DEF Settled
<1>12. s \in RunType
  BY <1>3 DEF Stopped
<1>13. QED
  BY <1>1, <1>3, <1>7, <1>8, <1>9, <1>10, <1>11, <1>12 DEF Books

\* What account(i) can make of a run: a retry, one more counted worker, or, for the
\* first failure of a --fail-fast run, the end of the others.
SameBut(r, s, i) ==
    /\ s.next = r.next /\ s.inFlight = r.inFlight /\ s.retryQueue = r.retryQueue
    /\ s.stops = r.stops /\ s.drainArmed = r.drainArmed
    /\ \A j \in Workers \ {i} : s.worker[j] = r.worker[j]
Retried(r, s, i) ==
    /\ MayRetry(r, r.worker[i]) /\ SameBut(r, s, i) /\ s.timers = r.timers \cup {RetryTimer(i)}
    /\ s.worker[i].awaitingRetry /\ ~s.worker[i].counted /\ s.worker[i].life = "exited"
Counted(r, s, i) ==
    /\ SameBut(r, s, i) /\ s.timers = r.timers
    /\ s.worker[i].counted /\ s.worker[i].life = "exited"
Halted(r, s, i) ==
    /\ s.next = N + 1 /\ s.inFlight = r.inFlight /\ s.retryQueue = <<>> /\ s.stops = r.stops \cup {"aborted"}
    /\ s.drainArmed /\ s.timers = (r.timers \ RetryTimers) \cup (IF r.drainArmed THEN {} ELSE {DrainTimer})
    /\ s.worker[i].counted /\ Settled(s) /\ r.stops \cap {"cancelled", "aborted"} = {}
    /\ \A j \in Workers :
          r.worker[j].awaitingRetry \/ r.worker[j].life = "waiting" => s.worker[j].counted

LEMMA RetryEffect ==
    ASSUME NEW r, NEW i \in Workers, Open(r, i), MayRetry(r, r.worker[i])
    PROVE  LET s == [r EXCEPT !.worker[i].awaitingRetry = TRUE, !.worker[i].attempt = @ + 1,
                              !.timers = @ \cup {RetryTimer(i)}]
           IN  Books(s) /\ Keeps(r, s) /\ Retried(r, s, i)
<1> DEFINE w == r.worker[i]
           v == [w EXCEPT !.awaitingRetry = TRUE, !.attempt = @ + 1]
           W == [r.worker EXCEPT ![i] = v]
           y == r.timers \cup {RetryTimer(i)}
           s == [r EXCEPT !.worker[i].awaitingRetry = TRUE, !.worker[i].attempt = @ + 1,
                          !.timers = @ \cup {RetryTimer(i)}]
<1>1. r \in RunType /\ w \in WorkerType /\ r.worker \in [Workers -> WorkerType] /\ Ended(w)
  BY RunFields DEF Open
<1>2. w.attempt + 1 \in 0 .. MaxRetries /\ w.starts = w.attempt + 1
  <2>1. w.attempt < MaxRetries /\ "timedOut" \notin w.marks
    BY DEF MayRetry, Retryable
  <2>2. w.attempt \in Nat /\ MaxRetries \in Nat
    BY <1>1, Constants DEF WorkerType
  <2>3. QED
    BY <1>1, <2>1, <2>2 DEF Ended
<1>3. v \in WorkerType /\ W \in [Workers -> WorkerType] /\ W[i] = v /\ \A j \in Workers \ {i} : W[j] = r.worker[j]
  BY <1>1, <1>2 DEF WorkerType
<1>4. /\ v.awaitingRetry /\ v.life = "exited" /\ v.open = {} /\ ~v.counted /\ v.starts = v.attempt
      /\ v.marks = w.marks
  BY <1>1, <1>2 DEF WorkerType, Ended
<1>5. s = [r EXCEPT !.worker = W, !.timers = y]
  BY <1>1, ZenonT(60) DEF RunType, WorkerType
<1>6. y \in SUBSET Timers
  BY <1>1, RunFields DEF Timers, RetryTimers
<1> HIDE DEF s, W, v, y, w
<1>7. /\ s \in RunType /\ s.worker = W /\ s.timers = y /\ s.remaining = r.remaining /\ s.stopped = r.stopped
      /\ s.next = r.next /\ s.inFlight = r.inFlight /\ s.retryQueue = r.retryQueue
      /\ s.stops = r.stops /\ s.drainArmed = r.drainArmed
  BY <1>1, <1>3, <1>5, <1>6 DEF RunType
<1>8. /\ s.worker[i] = v /\ \A j \in Workers : j # i => s.worker[j] = r.worker[j]
      /\ ~w.counted /\ w.life = "exited" /\ w = r.worker[i]
  BY <1>1, <1>3, <1>7 DEF Ended, w
<1>9. Counters(s)
  <2>1. Uncounted(s) = Uncounted(r) /\ Alive(s) = Alive(r)
    BY <1>4, <1>8 DEF Uncounted, Alive
  <2>2. QED
    BY <1>7, <2>1 DEF Open, Counters
<1>10. Caused(s)
  BY <1>7, <1>8 DEF Open, Caused, Cause
<1>11. ASSUME NEW j \in Workers PROVE Worker(s, j)
  <2>1. CASE j # i
    BY <1>7, <1>8, <2>1 DEF Worker, Open
  <2>2. CASE j = i
    <3>1. Shape(v) /\ Final(v, r.stops)
      BY <1>4 DEF Shape, Final
    <3>2. v.marks \subseteq r.stops /\ ~(i >= r.next)
      BY <1>1, <1>4, Constants, RunFields DEF Open, w
    <3>3. QED
      BY <1>7, <1>8, <2>2, <3>1, <3>2 DEF Worker
  <2>3. QED
    BY <2>1, <2>2
<1>12. Keeps(r, s)
  BY <1>8 DEF Keeps
<1>13. Retried(r, s, i)
  BY <1>4, <1>7, <1>8 DEF Retried, SameBut, y
<1>14. QED
  BY <1>7, <1>9, <1>10, <1>11, <1>12, <1>13 DEF Books, s

LEMMA AccountEffect ==
    ASSUME NEW r, NEW i \in Workers, Open(r, i), InLine(r) \subseteq Queued(r),
           \A j \in Queued(r) \ {i} : r.worker[j].life = "waiting" \/ r.worker[j].counted,
           i \in Queued(r) => "timedOut" \in r.stops
    PROVE  LET s == Account(r, i)
           IN  /\ Books(s) /\ Keeps(r, s)
               /\ Retried(r, s, i) \/ Counted(r, s, i) \/ Halted(r, s, i)
<1>1. PICK s : s = Account(r, i)
  OBVIOUS
<1>2. r \in RunType /\ Ended(r.worker[i]) /\ Complete(r.worker[i]) /\ ~r.worker[i].counted
  BY DEF Open, Ended, Complete
<1>3. CASE MayRetry(r, r.worker[i])
  <2> DEFINE t == [r EXCEPT !.worker[i].awaitingRetry = TRUE, !.worker[i].attempt = @ + 1,
                            !.timers = @ \cup {RetryTimer(i)}]
  <2>1. Books(t) /\ Keeps(r, t) /\ Retried(r, t, i)
    BY <1>3, RetryEffect
  <2>2. Settle(r, i) = t
    BY <1>2, <1>3 DEF Settle, Ended
  <2>3. ~t.worker[i].counted
    BY <2>1 DEF Retried
  <2> HIDE DEF t
  <2>4. s = t
    BY <1>1, <2>2, <2>3 DEF Account
  <2>5. QED
    BY <1>1, <2>1, <2>4
<1>4. CASE ~MayRetry(r, r.worker[i])
  <2>1. PICK c : c = CountWorker(r, i)
    OBVIOUS
  <2>2. /\ Books(c) /\ Keeps(r, c) /\ c.worker[i] = [r.worker[i] EXCEPT !.counted = TRUE]
        /\ \A j \in Workers \ {i} : c.worker[j] = r.worker[j]
        /\ c.next = r.next /\ c.inFlight = r.inFlight /\ c.retryQueue = r.retryQueue
        /\ c.stops = r.stops /\ c.drainArmed = r.drainArmed /\ c.timers = r.timers
    BY <1>4, <2>1, CountEffect
  <2>3. c.worker[i].counted /\ c.worker[i].life = "exited" /\ c.worker[i].marks = r.worker[i].marks
    BY <1>2, <2>2, RunFields DEF WorkerType, Ended
  <2>4. Counted(r, c, i)
    BY <2>2, <2>3 DEF Counted, SameBut
  <2>5. Settle(r, i) = c
    BY <1>2, <1>4, <2>1 DEF Settle, Ended
  <2>6. CASE s = c
    BY <1>1, <2>2, <2>4, <2>6
  <2>7. CASE s # c
    <3>1. /\ s = StopAll(c, "aborted") /\ c.stops \cap {"aborted", "cancelled"} = {}
          /\ IsFailure(c.worker[i])
      BY <1>1, <2>5, <2>7 DEF Account
    <3>2. Lined(c)
      <4>1. Queued(c) = Queued(r) /\ InLine(c) = InLine(r) 
        <5>1. i \notin InLine(r) /\ i \notin InLine(c)
          BY <1>2, <2>3 DEF InLine, Ended
        <5>2. QED
          BY <2>2, <5>1 DEF Queued, InLine
      <4>2. Queued(r) \subseteq Workers
        BY <1>2, QueuedAreWorkers
      <4>3. QED
        BY <2>2, <2>3, <4>1, <4>2 DEF Lined
    <3>3. c.stops \cup {"aborted"} = {"aborted"} =>
              \E j \in Workers : Cause(c.worker[j]) /\ j \notin Queued(c)
      <4> SUFFICES ASSUME c.stops \cup {"aborted"} = {"aborted"}
                   PROVE  Cause(c.worker[i]) /\ i \notin Queued(c)
        OBVIOUS
      <4>1. i \notin Queued(c)
        BY <2>2 DEF Queued
      <4>2. "aborted" \notin c.worker[i].marks
        BY <2>2, <2>3, <3>1 DEF Open
      <4>3. QED
        BY <2>3, <3>1, <4>1, <4>2 DEF Cause
    <3>4. Stopped(c, s, "aborted") /\ Books(s) /\ Settled(s) /\ Keeps(c, s)
      BY <2>2, <3>1, <3>2, <3>3, StopEffect
    <3>5. Keeps(r, s)
      BY <2>2, <3>4 DEF Keeps
    <3>6. Halted(r, s, i)
      <4>1. s.worker[i].counted
        BY <2>3, <3>4 DEF Keeps
      <4>2. ASSUME NEW j \in Workers, r.worker[j].awaitingRetry \/ r.worker[j].life = "waiting"
            PROVE  s.worker[j].counted
        <5>1. (c.worker[j].awaitingRetry \/ c.worker[j].life = "waiting") /\ c.worker[j] \in WorkerType
          BY <1>2, <2>2, <4>2, RunFields DEF Ended, Books
        <5>2. s.worker[j] = StoppedWorker(c, j, "aborted") /\ Ends(c, j)
          <6>1. CASE c.worker[j].awaitingRetry
            BY <3>4, <6>1 DEF Stopped, Ends
          <6>2. CASE c.worker[j].life = "waiting"
            <7>1. c.next \in 1 .. N + 1
              BY <2>2, RunFields DEF Books
            <7>2. j < c.next \/ j \in c.next .. N
              BY <7>1, Constants
            <7>3. QED
              BY <3>2, <3>4, <6>2, <7>2 DEF Stopped, Ends, Lined, InLine
          <6>3. QED
            BY <5>1, <6>1, <6>2
        <5>3. QED
          BY <5>1, <5>2 DEF StoppedWorker, WorkerType
      <4>3. QED
        BY <2>2, <3>1, <3>4, <4>1, <4>2 DEF Halted, Stopped
    <3>7. QED
      BY <1>1, <3>4, <3>5, <3>6
  <2>8. QED
    BY <2>6, <2>7
<1>5. QED
  BY <1>3, <1>4

-----------------------------------------------------------------------------
\* A step of a handler that leaves the run stable, keeps who is counted, arms the
\* drain with whatever it stops, and makes no new work.
SettledBut(r, i) ==
    r.stops # {} =>
        /\ r.next = N + 1 /\ r.retryQueue = <<>>
        /\ \A j \in Workers \ {i} : ~r.worker[j].counted => Doomed(r.worker[j], r.stops)
        /\ "timedOut" \in r.worker[i].marks \/ r.stops \cap {"cancelled", "aborted"} # {}
Armed(r, s) ==
    r.stops \subseteq s.stops /\ (s.drainArmed \/ (s.stops = r.stops /\ s.drainArmed = r.drainArmed))
NoWork(r, s) ==
    (s.retryQueue = r.retryQueue /\ s.next = r.next) \/ (s.retryQueue = <<>> /\ s.next = N + 1)
Onward(r, s, b) == Stable(s, b) /\ Keeps(r, s) /\ Armed(r, s) /\ NoWork(r, s)

LEMMA RetryTimers1 ==
    /\ \A i \in Workers : RetryTimer(i) \in RetryTimers /\ RetryTimer(i) # DrainTimer /\ RetryTimer(i) # DeadlineTimer
    /\ \A i, j \in Workers : RetryTimer(i) = RetryTimer(j) => i = j
    /\ DrainTimer \notin RetryTimers /\ DeadlineTimer \notin RetryTimers /\ DrainTimer # DeadlineTimer
<1>1. \A i \in Workers : RetryTimer(i)[1] = "retry" /\ RetryTimer(i)[2] = i
  BY DEF RetryTimer
<1>2. DrainTimer[1] = "drain" /\ DeadlineTimer[1] = "deadline"
  BY DEF DrainTimer, DeadlineTimer
<1>3. QED
  BY <1>1, <1>2 DEF RetryTimers

\* In a run that is being stopped and settled, nobody is in line.
LEMMA NobodyInLine ==
    ASSUME NEW s, Books(s), Settled(s), s.stops # {}
    PROVE  /\ QueueOk(s) /\ s.retryQueue = <<>> /\ s.next = N + 1
           /\ \A j \in Workers : s.worker[j].life # "waiting" /\ ~s.worker[j].awaitingRetry
<1>1. s.retryQueue = <<>> /\ s.next = N + 1
  BY DEF Settled
<1>2. ASSUME NEW j \in Workers PROVE s.worker[j].life # "waiting" /\ ~s.worker[j].awaitingRetry
  <2>1. Shape(s.worker[j])
    BY DEF Books, Worker
  <2>2. s.worker[j].counted \/ Doomed(s.worker[j], s.stops)
    BY DEF Settled
  <2>3. QED
    BY <2>1, <2>2 DEF Shape, Doomed
<1>3. Queued(s) = {} /\ InLine(s) = {} /\ DOMAIN s.retryQueue = {}
  BY <1>1, <1>2 DEF Queued, InLine, ToSet
<1>4. QED
  BY <1>1, <1>2, <1>3 DEF QueueOk

LEMMA NotStopped ==
    ASSUME NEW r \in RunType, Counters(r), NEW i \in Workers, ~r.worker[i].counted PROVE ~r.stopped
<1>1. i \in Uncounted(r)
  BY DEF Uncounted
<1>2. Cardinality(Uncounted(r)) # 0
  <2>1. IsFiniteSet(Uncounted(r))
    BY WorkersFinite DEF Uncounted
  <2>2. QED
    BY <1>1, <2>1, FS_EmptySet
<1>3. QED
  BY <1>2 DEF Counters

LEMMA AccountStable ==
    ASSUME NEW r, NEW i \in Workers, NEW b, Open(r, i), QueueOk(r), SettledBut(r, i),
           RetryClock(r, b), DrainTimed(r, b)
    PROVE  LET s == Account(r, i)
           IN  /\ Onward(r, s, b) /\ s.inFlight = r.inFlight
               /\ s.worker[i].counted \/ s.worker[i].awaitingRetry
               /\ r.stops # {} => s.worker[i].counted
<1>1. PICK s : s = Account(r, i)
  OBVIOUS
<1>2. /\ r \in RunType /\ ~r.worker[i].awaitingRetry /\ ~r.worker[i].counted
      /\ r.worker[i].life = "exited"
  BY DEF Open, Ended
<1>3. Books(s) /\ Keeps(r, s) /\ (Retried(r, s, i) \/ Counted(r, s, i) \/ Halted(r, s, i))
  <2>1. InLine(r) \subseteq Queued(r) /\ \A j \in Queued(r) : r.worker[j].life = "waiting"
    BY DEF QueueOk, InLine
  <2>2. i \notin Queued(r)
    BY <1>2, <2>1
  <2>3. \A j \in Queued(r) \ {i} : r.worker[j].life = "waiting" \/ r.worker[j].counted
    BY <2>1
  <2>4. i \in Queued(r) => "timedOut" \in r.stops
    BY <2>2
  <2>5. QED
    BY <1>1, <2>1, <2>3, <2>4, AccountEffect
<1>4. RetryTimer(i) \notin r.timers \cup b
  BY <1>2 DEF RetryClock
<1>5. Retried(r, s, i) => r.stops = {}
  BY DEF Retried, MayRetry, Retryable, SettledBut
<1>6. s.worker[i].counted \/ s.worker[i].awaitingRetry
  BY <1>3 DEF Retried, Counted, Halted
<1>7. r.stops # {} => s.worker[i].counted
  BY <1>3, <1>5 DEF Counted, Halted
<1>8. CASE Halted(r, s, i)
  <2>1. /\ s.next = N + 1 /\ s.inFlight = r.inFlight /\ s.retryQueue = <<>> /\ s.stops = r.stops \cup {"aborted"}
        /\ s.drainArmed /\ s.timers = (r.timers \ RetryTimers) \cup (IF r.drainArmed THEN {} ELSE {DrainTimer})
        /\ Settled(s) /\ \A j \in Workers : r.worker[j].awaitingRetry => s.worker[j].counted
    BY <1>8 DEF Halted
  <2>2. QueueOk(s) /\ \A j \in Workers : ~s.worker[j].awaitingRetry
    BY <1>3, <2>1, NobodyInLine
  <2>3. RetryClock(s, b)
    <3>1. ASSUME NEW j \in Workers, ~s.worker[j].counted PROVE RetryTimer(j) \notin s.timers \cup b
      <4>1. ~r.worker[j].counted /\ ~r.worker[j].awaitingRetry
        BY <1>3, <2>1, <3>1 DEF Keeps
      <4>2. RetryTimer(j) \notin r.timers \cup b
        BY <4>1 DEF RetryClock
      <4>3. QED
        BY <2>1, <4>2, RetryTimers1
    <3>2. QED
      BY <2>2, <3>1 DEF RetryClock
  <2>4. DrainTimed(s, b)
    BY <2>1, RetryTimers1 DEF DrainTimed
  <2>5. Armed(r, s) /\ NoWork(r, s)
    BY <1>2, <2>1, RunFields DEF Armed, NoWork
  <2>6. QED
    BY <1>1, <1>3, <1>6, <1>7, <2>1, <2>2, <2>3, <2>4, <2>5 DEF Onward, Stable
<1>9. CASE Retried(r, s, i) \/ Counted(r, s, i)
  <2>1. /\ s.next = r.next /\ s.inFlight = r.inFlight /\ s.retryQueue = r.retryQueue
        /\ s.stops = r.stops /\ s.drainArmed = r.drainArmed /\ s.worker[i].life = "exited"
        /\ \A j \in Workers \ {i} : s.worker[j] = r.worker[j]
    BY <1>9 DEF Retried, Counted, SameBut
  <2>2. QueueOk(s)
    <3>1. InLine(s) = InLine(r) /\ Queued(s) = Queued(r)
      BY <1>2, <2>1 DEF InLine, Queued
    <3>2. QED
      BY <2>1, <3>1 DEF QueueOk
  <2>3. Settled(s)
    <3>1. ASSUME s.stops # {}
          PROVE  /\ s.next = N + 1 /\ s.retryQueue = <<>> /\ s.worker[i].counted
                 /\ \A j \in Workers \ {i} : ~s.worker[j].counted => Doomed(s.worker[j], s.stops)
      BY <1>7, <2>1, <3>1 DEF SettledBut
    <3>2. QED
      BY <3>1 DEF Settled
  <2>4. RetryClock(s, b) /\ DrainTimed(s, b)
    <3>1. CASE Retried(r, s, i)
      <4>1. s.timers = r.timers \cup {RetryTimer(i)} /\ s.worker[i].awaitingRetry
        BY <3>1 DEF Retried
      <4>2. ASSUME NEW j \in Workers PROVE RetryTimer(j) \in s.timers <=> RetryTimer(j) \in r.timers \/ j = i
        BY <4>1, RetryTimers1
      <4>3. DrainTimer \in s.timers <=> DrainTimer \in r.timers
        BY <4>1, RetryTimers1
      <4>4. QED
        BY <1>4, <2>1, <4>1, <4>2, <4>3 DEF RetryClock, DrainTimed
    <3>2. CASE Counted(r, s, i)
      <4>1. s.timers = r.timers /\ s.worker[i].counted
        BY <3>2 DEF Counted
      <4>2. ~s.worker[i].awaitingRetry
        BY <1>3, <4>1 DEF Books, Worker, Shape
      <4>3. QED
        BY <2>1, <4>1, <4>2 DEF RetryClock, DrainTimed
    <3>3. QED
      BY <1>9, <3>1, <3>2
  <2>5. Armed(r, s) /\ NoWork(r, s)
    BY <1>2, <2>1, RunFields DEF Armed, NoWork
  <2>6. QED
    BY <1>1, <1>3, <1>6, <1>7, <2>1, <2>2, <2>3, <2>4, <2>5 DEF Onward, Stable
<1>10. QED
  BY <1>3, <1>8, <1>9

\* account() of a worker that has not ended, or has been seen to, does nothing.
LEMMA AccountIdle ==
    ASSUME NEW r, NEW i \in Workers,
           ~Complete(r.worker[i]) \/ r.worker[i].counted \/ r.worker[i].awaitingRetry
    PROVE  Account(r, i) = r
<1>1. Settle(r, i) = r
  BY DEF Settle
<1>2. QED
  BY <1>1 DEF Account

\* A handler changes a worker that has started and has not been accounted for, and
\* perhaps reaps its child.
Touches(r, s, i, v, m) ==
    /\ r.worker[i].life # "waiting" /\ ~r.worker[i].counted /\ ~r.worker[i].awaitingRetry
    /\ v \in WorkerType /\ v.life # "waiting" /\ ~v.counted /\ ~v.awaitingRetry
    /\ v.marks = r.worker[i].marks /\ v.starts = r.worker[i].starts /\ v.attempt = r.worker[i].attempt
    /\ v.life = "running" => r.worker[i].life = "running"
    /\ m = r.inFlight - (IF r.worker[i].life = v.life THEN 0 ELSE 1)
    /\ s = [r EXCEPT !.worker = [r.worker EXCEPT ![i] = v], !.inFlight = m]

LEMMA TouchFields ==
    ASSUME NEW r, Books(r), NEW i \in Workers, NEW s, NEW v, NEW m, Touches(r, s, i, v, m)
    PROVE  /\ s \in RunType /\ Counters(s) /\ s.inFlight = m /\ m <= r.inFlight
           /\ s.worker[i] = v /\ \A j \in Workers \ {i} : s.worker[j] = r.worker[j]
           /\ s.next = r.next /\ s.retryQueue = r.retryQueue
           /\ s.stops = r.stops /\ s.drainArmed = r.drainArmed /\ s.timers = r.timers /\ s.stopped = r.stopped
<1> DEFINE W == [r.worker EXCEPT ![i] = v]
           w == r.worker[i]
<1>1. r \in RunType /\ r.worker \in [Workers -> WorkerType] /\ w \in WorkerType /\ Shape(w) /\ Counters(r)
  BY RunFields DEF Books, Worker
<1>2. W \in [Workers -> WorkerType] /\ W[i] = v /\ \A j \in Workers \ {i} : W[j] = r.worker[j]
  BY <1>1 DEF Touches
<1>3. s = [r EXCEPT !.worker = W, !.inFlight = m] /\ m = r.inFlight - (IF w.life = v.life THEN 0 ELSE 1)
  BY DEF Touches
<1>4. /\ w.life # "waiting" /\ ~w.counted /\ ~w.awaitingRetry /\ v.life # "waiting" /\ ~v.counted
      /\ v.life = "running" => w.life = "running"
  BY DEF Touches
<1>5. w.life \in {"waiting", "running", "exited"} /\ v.life \in {"waiting", "running", "exited"}
  BY <1>1 DEF WorkerType, Touches
<1> DEFINE V == [r.worker EXCEPT ![i] = v]
           A == {j \in Workers : W[j].life = "running"}
<1>6. m = Cardinality(A) /\ m \in Nat /\ m <= r.inFlight
  <2>1. r.inFlight = Cardinality(Alive(r)) /\ A \in SUBSET Workers /\ Cardinality(A) \in Nat
    BY <1>1, WorkersFinite DEF Counters
  <2>2. CASE w.life = v.life
    <3>1. A = Alive(r)
      BY <1>2, <2>2 DEF Alive
    <3>2. m = r.inFlight - 0
      BY <1>3, <2>2
    <3> HIDE DEF A, W
    <3>3. QED
      BY <2>1, <3>1, <3>2
  <2>3. CASE w.life # v.life
    <3>1. w.life = "running" /\ v.life = "exited"
      BY <1>4, <1>5, <2>3
    <3>2. A = Alive(r) \ {i} /\ i \in Alive(r)
      BY <1>2, <3>1 DEF Alive
    <3>3. Cardinality(A) = Cardinality(Alive(r)) - 1
      BY <3>2, OneFewer DEF Alive
    <3>4. m = r.inFlight - 1
      BY <1>3, <2>3
    <3>5. Cardinality(Alive(r)) \in Nat
      BY WorkersFinite DEF Alive
    <3> HIDE DEF A, W
    <3>6. QED
      BY <2>1, <3>3, <3>4, <3>5
  <2>4. QED
    BY <2>2, <2>3
<1>7. Uncounted(r) = {j \in Workers : ~W[j].counted}
  BY <1>2, <1>4 DEF Uncounted
<1> HIDE DEF W, A
<1>8. /\ s \in RunType /\ s.worker = W /\ s.inFlight = m /\ s.remaining = r.remaining
      /\ s.next = r.next /\ s.retryQueue = r.retryQueue
      /\ s.stops = r.stops /\ s.drainArmed = r.drainArmed /\ s.timers = r.timers /\ s.stopped = r.stopped
  BY <1>1, <1>2, <1>3, <1>6 DEF RunType
<1>9. Counters(s)
  <2>1. Uncounted(s) = Uncounted(r) /\ Alive(s) = A
    BY <1>7, <1>8 DEF Uncounted, Alive, A
  <2>2. QED
    BY <1>1, <1>6, <1>8, <2>1 DEF Counters
<1>10. QED
  BY <1>2, <1>6, <1>8, <1>9 DEF A

LEMMA TouchStable ==
    ASSUME NEW r, NEW b, Stable(r, b), NEW i \in Workers, NEW s, NEW v, NEW m, Touches(r, s, i, v, m)
    PROVE  /\ QueueOk(s) /\ SettledBut(s, i) /\ RetryClock(s, b) /\ DrainTimed(s, b) /\ Caused(s)
           /\ Keeps(r, s) /\ Armed(r, s) /\ NoWork(r, s) /\ i < s.next
           /\ \A j \in Workers \ {i} : Worker(s, j)
<1> DEFINE w == r.worker[i]
<1>1. /\ s \in RunType /\ Counters(s) /\ s.inFlight = m /\ m <= r.inFlight
      /\ s.worker[i] = v /\ \A j \in Workers \ {i} : s.worker[j] = r.worker[j]
      /\ s.next = r.next /\ s.retryQueue = r.retryQueue
      /\ s.stops = r.stops /\ s.drainArmed = r.drainArmed /\ s.timers = r.timers /\ s.stopped = r.stopped
  BY TouchFields DEF Stable
<1>2. /\ w.life # "waiting" /\ ~w.counted /\ ~w.awaitingRetry /\ v.life # "waiting" /\ ~v.counted
      /\ ~v.awaitingRetry /\ v.marks = w.marks
  BY DEF Touches
<1>3. r \in RunType /\ (\A j \in Workers : Worker(r, j)) /\ Caused(r) /\ QueueOk(r) /\ Settled(r)
      /\ RetryClock(r, b) /\ DrainTimed(r, b)
  BY DEF Stable, Books
<1>4. QueueOk(s)
  <2>1. InLine(s) = InLine(r) /\ Queued(s) = Queued(r)
    BY <1>1, <1>2 DEF InLine, Queued
  <2>2. QED
    BY <1>1, <1>3, <2>1 DEF QueueOk
<1>5. SettledBut(s, i)
  <2> SUFFICES ASSUME r.stops # {}
               PROVE  /\ r.next = N + 1 /\ r.retryQueue = <<>> /\ Doomed(r.worker[i], r.stops)
                      /\ \A j \in Workers \ {i} : ~r.worker[j].counted => Doomed(r.worker[j], r.stops)
    BY <1>1, <1>2 DEF SettledBut, Doomed
  <2>1. QED
    BY <1>2, <1>3 DEF Settled
<1>6. RetryClock(s, b) /\ DrainTimed(s, b)
  BY <1>1, <1>2, <1>3 DEF RetryClock, DrainTimed
<1>7. Caused(s)
  BY <1>1, <1>2, <1>3 DEF Caused, Cause
<1>8. Keeps(r, s)
  BY <1>1, <1>2 DEF Keeps
<1>9. Armed(r, s) /\ NoWork(r, s)
  BY <1>1 DEF Armed, NoWork
<1>10. i < s.next
  BY <1>1, <1>2, <1>3, Constants, RunFields DEF Worker
<1>11. \A j \in Workers \ {i} : Worker(s, j)
  BY <1>1, <1>3 DEF Worker
<1>12. QED
  BY <1>4, <1>5, <1>6, <1>7, <1>8, <1>9, <1>10, <1>11

\* Either the worker has ended, and is accounted for, or it is still awaited.
LEMMA TouchEffect ==
    ASSUME NEW r, NEW b, Stable(r, b), NEW i \in Workers, NEW s, NEW v, NEW m, Touches(r, s, i, v, m)
    PROVE  /\ Onward(r, Account(s, i), b) /\ Account(s, i).inFlight = m /\ m <= r.inFlight
           /\ Complete(v) => LET t == Account(s, i)
                             IN  /\ t.worker[i].counted \/ t.worker[i].awaitingRetry
                                 /\ r.stops # {} => t.worker[i].counted
           /\ ~Complete(v) => Onward(r, s, b) /\ Account(s, i) = s
<1> DEFINE w == r.worker[i]
<1>1. /\ s \in RunType /\ Counters(s) /\ s.inFlight = m /\ m <= r.inFlight
      /\ s.worker[i] = v /\ s.stops = r.stops
  BY TouchFields DEF Stable
<1>2. /\ QueueOk(s) /\ SettledBut(s, i) /\ RetryClock(s, b) /\ DrainTimed(s, b) /\ Caused(s)
      /\ Keeps(r, s) /\ Armed(r, s) /\ NoWork(r, s) /\ i < s.next
      /\ \A j \in Workers \ {i} : Worker(s, j)
  BY TouchStable
<1>3. /\ w.life # "waiting" /\ ~w.counted /\ ~w.awaitingRetry /\ v \in WorkerType
      /\ v.life # "waiting" /\ ~v.counted /\ ~v.awaitingRetry
      /\ v.marks = w.marks /\ v.starts = w.starts /\ v.attempt = w.attempt
  BY DEF Touches
<1>4. v.starts = v.attempt + 1 /\ v.marks \subseteq s.stops
  <2>1. Shape(w) /\ w.marks \subseteq r.stops /\ w \in WorkerType
    BY RunFields DEF Stable, Books, Worker
  <2>2. w.starts = w.attempt + 1
    BY <1>3, <2>1 DEF Shape, WorkerType
  <2>3. QED
    BY <1>1, <1>3, <2>1, <2>2
<1>5. CASE Complete(v)
  <2>1. Open(s, i)
    BY <1>1, <1>2, <1>3, <1>4, <1>5 DEF Open, Ended, Complete
  <2>2. PICK t : t = Account(s, i)
    OBVIOUS
  <2>3. /\ Onward(s, t, b) /\ t.inFlight = s.inFlight
        /\ t.worker[i].counted \/ t.worker[i].awaitingRetry
        /\ s.stops # {} => t.worker[i].counted
    BY <1>2, <2>1, <2>2, AccountStable
  <2>4. Keeps(r, t)
    BY <1>2, <2>3 DEF Onward, Keeps
  <2>5. Armed(r, t)
    BY <1>2, <2>3 DEF Onward, Armed
  <2>6. NoWork(r, t)
    BY <1>2, <2>3 DEF Onward, NoWork
  <2>7. QED
    BY <1>1, <1>5, <2>2, <2>3, <2>4, <2>5, <2>6 DEF Onward
<1>6. CASE ~Complete(v)
  <2>1. Account(s, i) = s
    BY <1>1, <1>6, AccountIdle
  <2>2. Worker(s, i)
    <3>1. Shape(v)
      <4>1. v.life = "running" \/ (v.life = "exited" /\ v.open # {})
        BY <1>3, <1>6 DEF WorkerType, Complete
      <4>2. QED
        BY <1>3, <1>4, <4>1 DEF Shape
    <3>2. Final(v, s.stops) /\ ~(i >= s.next)
      BY <1>1, <1>2, <1>3, Constants, RunFields DEF Final
    <3>3. QED
      BY <1>1, <1>4, <3>1, <3>2 DEF Worker
  <2>3. Books(s)
    BY <1>1, <1>2, <2>2 DEF Books
  <2>4. Settled(s)
    <3>1. s.stops # {} => Doomed(s.worker[i], s.stops)
      BY <1>1, <1>2, <1>3 DEF SettledBut, Doomed
    <3>2. QED
      BY <1>2, <3>1 DEF Settled, SettledBut
  <2>5. QED
    BY <1>1, <1>2, <1>6, <2>1, <2>3, <2>4 DEF Onward, Stable
<1>7. QED
  BY <1>5, <1>6

\* onExit(): the child of a running worker is reaped.
Reaped(r, i, outcome) ==
    [r EXCEPT !.worker[i].life = "exited", !.worker[i].status = outcome,
              !.inFlight = IF @ > 0 THEN @ - 1 ELSE 0]

LEMMA ReapTouches ==
    ASSUME NEW r, Books(r), NEW i \in Workers, r.worker[i].life = "running",
           NEW outcome \in Outcomes \cup {"none"}
    PROVE  LET v == [r.worker[i] EXCEPT !.life = "exited", !.status = outcome]
           IN  /\ Touches(r, Reaped(r, i, outcome), i, v, r.inFlight - 1)
               /\ v.open = r.worker[i].open /\ v.life = "exited"
<1> DEFINE w == r.worker[i]
           v == [w EXCEPT !.life = "exited", !.status = outcome]
<1>1. r \in RunType /\ r.worker \in [Workers -> WorkerType] /\ w \in WorkerType /\ Shape(w) /\ Counters(r)
  BY RunFields DEF Books, Worker
<1>2. /\ v \in WorkerType /\ v.life = "exited" /\ v.open = w.open /\ v.counted = w.counted
      /\ v.awaitingRetry = w.awaitingRetry /\ v.marks = w.marks /\ v.starts = w.starts
      /\ v.attempt = w.attempt
  BY <1>1 DEF WorkerType
<1>3. ~w.counted /\ ~w.awaitingRetry /\ w.life = "running"
  BY <1>1 DEF Shape
<1>4. r.inFlight > 0 /\ r.inFlight \in Nat
  <2>1. i \in Alive(r) /\ IsFiniteSet(Alive(r)) /\ Cardinality(Alive(r)) \in Nat
    BY <1>3, WorkersFinite DEF Alive
  <2>2. Cardinality(Alive(r)) # 0
    BY <2>1, FS_EmptySet
  <2>3. QED
    BY <1>1, <2>1, <2>2 DEF Counters
<1>5. Reaped(r, i, outcome) = [r EXCEPT !.worker = [r.worker EXCEPT ![i] = v], !.inFlight = r.inFlight - 1]
  BY <1>1, <1>4, ZenonT(60) DEF Reaped, RunType, WorkerType
<1> HIDE DEF v
<1>6. QED
  BY <1>2, <1>3, <1>5 DEF Touches, v

\* onReadable() at the end of a stream, or its end by the drain.
LEMMA CloseTouches ==
    ASSUME NEW r, Books(r), NEW i \in Workers, NEW rest \in SUBSET Streams,
           r.worker[i].life # "waiting", r.worker[i].open # {} \/ r.worker[i].life = "running"
    PROVE  LET v == [r.worker[i] EXCEPT !.open = rest]
           IN  /\ r.worker[i].counted = FALSE /\ r.worker[i].awaitingRetry = FALSE
               /\ Touches(r, [r EXCEPT !.worker[i].open = rest], i, v, r.inFlight)
               /\ v.open = rest /\ v.life = r.worker[i].life
<1> DEFINE w == r.worker[i]
           v == [w EXCEPT !.open = rest]
           s == [r EXCEPT !.worker[i].open = rest]
<1>1. r \in RunType /\ r.worker \in [Workers -> WorkerType] /\ w \in WorkerType /\ Shape(w)
  BY RunFields DEF Books, Worker
<1>2. /\ v \in WorkerType /\ v.life = w.life /\ v.open = rest /\ v.counted = w.counted
      /\ v.awaitingRetry = w.awaitingRetry /\ v.marks = w.marks /\ v.starts = w.starts
      /\ v.attempt = w.attempt
  BY <1>1 DEF WorkerType
<1>3. ~w.counted /\ ~w.awaitingRetry /\ w.counted \in BOOLEAN /\ w.awaitingRetry \in BOOLEAN
  BY <1>1 DEF Shape, WorkerType
<1>4. s = [r EXCEPT !.worker = [r.worker EXCEPT ![i] = v], !.inFlight = r.inFlight]
  BY <1>1 DEF RunType, WorkerType
<1>5. r.inFlight \in Nat
  BY <1>1, RunFields
<1> HIDE DEF v, s
<1>6. Touches(r, s, i, v, r.inFlight)
  BY <1>2, <1>3, <1>4, <1>5 DEF Touches
<1>7. QED
  BY <1>2, <1>3, <1>6 DEF v, s

-----------------------------------------------------------------------------
\* fillSlots() takes the next worker in line, which runs now or has failed to.
Takes(r, s, i, v) ==
    /\ v \in WorkerType /\ v.life # "waiting" /\ ~v.counted /\ ~v.awaitingRetry
    /\ v.marks = {} /\ v.starts = v.attempt + 1
    /\ s = [r EXCEPT !.worker = [r.worker EXCEPT ![i] = v],
                     !.retryQueue = IF r.retryQueue # <<>> THEN Tail(@) ELSE @,
                     !.next = IF r.retryQueue # <<>> THEN @ ELSE @ + 1,
                     !.inFlight = @ + (IF v.life = "running" THEN 1 ELSE 0)]

LEMMA NextInLine ==
    ASSUME NEW r, NEW b, Stable(r, b), CanSpawn(r)
    PROVE  LET i == ToSpawn(r)
           IN  i \in Workers /\ r.worker[i].life = "waiting" /\ r.stops = {}
<1>1. r \in RunType /\ r.retryQueue \in Seq(Workers) /\ r.next \in 1 .. N + 1
  BY RunFields DEF Stable, Books
<1>2. r.stops = {}
  BY <1>1, Constants DEF Stable, Settled, CanSpawn
<1>3. CASE r.retryQueue # <<>>
  <2>1. ToSpawn(r) = r.retryQueue[1] /\ 1 \in DOMAIN r.retryQueue
    BY <1>1, <1>3 DEF ToSpawn
  <2>2. ToSpawn(r) \in Queued(r)
    BY <2>1 DEF Queued, ToSet
  <2>3. ToSpawn(r) \in InLine(r)
    BY <2>2 DEF Stable, QueueOk
  <2>4. QED
    BY <1>2, <2>3 DEF InLine
<1>4. CASE r.retryQueue = <<>>
  <2>1. ToSpawn(r) = r.next /\ r.next \in Workers
    BY <1>1, <1>4, Constants DEF ToSpawn, CanSpawn, Workers
  <2>2. Worker(r, r.next)
    BY <2>1 DEF Stable, Books
  <2>3. QED
    BY <1>1, <1>2, <2>1, <2>2 DEF Worker
<1>5. QED
  BY <1>3, <1>4

LEMMA TakeFields ==
    ASSUME NEW r, NEW b, Stable(r, b), CanSpawn(r), NEW i, i = ToSpawn(r), NEW v, NEW s, Takes(r, s, i, v)
    PROVE  /\ s \in RunType /\ Counters(s)
           /\ s.worker[i] = v /\ \A j \in Workers \ {i} : s.worker[j] = r.worker[j]
           /\ s.next = (IF r.retryQueue # <<>> THEN r.next ELSE r.next + 1)
           /\ s.retryQueue = (IF r.retryQueue # <<>> THEN Tail(r.retryQueue) ELSE r.retryQueue)
           /\ s.stops = r.stops /\ s.drainArmed = r.drainArmed /\ s.timers = r.timers /\ s.stopped = r.stopped
           /\ s.inFlight = r.inFlight + (IF v.life = "running" THEN 1 ELSE 0)
<1> DEFINE W == [r.worker EXCEPT ![i] = v]
           w == r.worker[i]
           q == IF r.retryQueue # <<>> THEN Tail(r.retryQueue) ELSE r.retryQueue
           n == IF r.retryQueue # <<>> THEN r.next ELSE r.next + 1
           m == r.inFlight + (IF v.life = "running" THEN 1 ELSE 0)
           A == {j \in Workers : W[j].life = "running"}
<1>1. /\ r \in RunType /\ r.worker \in [Workers -> WorkerType] /\ r.retryQueue \in Seq(Workers)
      /\ r.next \in 1 .. N + 1 /\ r.inFlight \in Nat
  BY RunFields DEF Stable, Books
<1>2. i \in Workers /\ w.life = "waiting" /\ Shape(w) /\ Counters(r)
  BY NextInLine DEF Stable, Books, Worker
<1>3. v \in WorkerType /\ ~v.counted /\ ~w.counted /\ v.life \in {"running", "exited"}
  BY <1>2 DEF Takes, Shape, WorkerType
<1>4. W \in [Workers -> WorkerType] /\ W[i] = v /\ \A j \in Workers \ {i} : W[j] = r.worker[j]
  BY <1>1, <1>2, <1>3
<1>5. q \in Seq(Workers) /\ n \in 1 .. N + 1 /\ m \in Nat
  <2>1. r.retryQueue = <<>> => r.next <= N
    BY DEF CanSpawn
  <2>2. QED
    BY <1>1, <2>1, Constants
<1>6. m = Cardinality(A)
  <2>1. CASE v.life = "running"
    <3>1. A = Alive(r) \cup {i} /\ i \in Workers \ Alive(r)
      BY <1>2, <1>4, <2>1 DEF Alive
    <3>2. Cardinality(A) = Cardinality(Alive(r)) + 1
      BY <3>1, OneMore DEF Alive
    <3>3. m = r.inFlight + 1
      BY <2>1
    <3> HIDE DEF A, W, m
    <3>4. QED
      BY <1>2, <3>2, <3>3 DEF Counters
  <2>2. CASE v.life # "running"
    <3>1. A = Alive(r)
      BY <1>2, <1>4, <2>2 DEF Alive
    <3>2. m = r.inFlight
      BY <1>1, <2>2
    <3> HIDE DEF A, W, m
    <3>3. QED
      BY <1>2, <3>1, <3>2 DEF Counters
  <2>3. QED
    BY <2>1, <2>2
<1>7. s = [r EXCEPT !.worker = W, !.retryQueue = q, !.next = n, !.inFlight = m]
  BY <1>1 DEF Takes, RunType
<1>8. Uncounted(r) = {j \in Workers : ~W[j].counted}
  BY <1>2, <1>3, <1>4 DEF Uncounted
<1> HIDE DEF W, q, n, m, A
<1>9. /\ s \in RunType /\ s.worker = W /\ s.inFlight = m /\ s.remaining = r.remaining
      /\ s.next = n /\ s.retryQueue = q
      /\ s.stops = r.stops /\ s.drainArmed = r.drainArmed /\ s.timers = r.timers /\ s.stopped = r.stopped
  BY <1>1, <1>4, <1>5, <1>7 DEF RunType
<1>10. Counters(s)
  <2>1. Uncounted(s) = Uncounted(r) /\ Alive(s) = A
    BY <1>8, <1>9 DEF Uncounted, Alive, A
  <2>2. QED
    BY <1>2, <1>6, <1>9, <2>1 DEF Counters
<1>11. QED
  BY <1>4, <1>9, <1>10 DEF q, n, m

LEMMA TakeStable ==
    ASSUME NEW r, NEW b, Stable(r, b), CanSpawn(r), NEW i, i = ToSpawn(r), NEW v, NEW s, Takes(r, s, i, v)
    PROVE  /\ i \in Workers /\ QueueOk(s) /\ s.stops = {} /\ RetryClock(s, b) /\ DrainTimed(s, b) /\ Caused(s)
           /\ Keeps(r, s) /\ Armed(r, s) /\ i < s.next
           /\ \A j \in Workers \ {i} : Worker(s, j)
<1>1. /\ s \in RunType /\ s.worker[i] = v /\ \A j \in Workers \ {i} : s.worker[j] = r.worker[j]
      /\ s.next = (IF r.retryQueue # <<>> THEN r.next ELSE r.next + 1)
      /\ s.retryQueue = (IF r.retryQueue # <<>> THEN Tail(r.retryQueue) ELSE r.retryQueue)
      /\ s.stops = r.stops /\ s.drainArmed = r.drainArmed /\ s.timers = r.timers
  BY TakeFields
<1>2. i \in Workers /\ r.worker[i].life = "waiting" /\ r.stops = {} /\ i = ToSpawn(r)
  BY NextInLine
<1>3. r \in RunType /\ (\A j \in Workers : Worker(r, j)) /\ QueueOk(r) /\ RetryClock(r, b) /\ DrainTimed(r, b)
  BY DEF Stable, Books
<1>4. ~r.worker[i].counted /\ ~r.worker[i].awaitingRetry /\ v.life # "waiting" /\ ~v.counted /\ ~v.awaitingRetry
  BY <1>2, <1>3 DEF Worker, Shape, Takes
<1>5. r.retryQueue \in Seq(Workers) /\ r.next \in 1 .. N + 1 /\ s.next \in 1 .. N + 1
  BY <1>1, <1>3, RunFields
<1>6. i < s.next /\ QueueOk(s)
  <2>1. CASE r.retryQueue # <<>>
    <3> DEFINE q == r.retryQueue
               p == Tail(q)
    <3>1. q \in Seq(Workers) /\ q # <<>> /\ i = q[1] /\ s.retryQueue = p /\ s.next = r.next /\ 1 \in DOMAIN q
      BY <1>1, <1>2, <1>5, <2>1 DEF ToSpawn
    <3>2. /\ DOMAIN p = 1 .. Len(q) - 1 /\ DOMAIN q = 1 .. Len(q) /\ Len(q) \in Nat
          /\ \A k \in DOMAIN p : p[k] = q[k + 1] /\ k + 1 \in DOMAIN q
      BY <3>1
    <3>3. \A j, k \in DOMAIN q : q[j] = q[k] => j = k
      BY <1>3 DEF QueueOk
    <3> HIDE DEF p, q
    <3>4. ASSUME NEW j \in DOMAIN p, NEW k \in DOMAIN p, p[j] = p[k] PROVE j = k
      <4>1. j + 1 = k + 1
        BY <3>2, <3>3, <3>4
      <4>2. QED
        BY <3>2, <4>1
    <3>5. {q[k] : k \in DOMAIN q} \ {i} = {p[k] : k \in DOMAIN p}
      <4>1. ASSUME NEW k \in DOMAIN q, q[k] # i PROVE q[k] \in {p[l] : l \in DOMAIN p}
        <5>1. k - 1 \in DOMAIN p /\ (k - 1) + 1 = k
          BY <3>1, <3>2, <4>1
        <5>2. QED
          BY <3>2, <5>1
      <4>2. ASSUME NEW k \in DOMAIN p PROVE p[k] \in {q[l] : l \in DOMAIN q} /\ p[k] # i
        <5>1. p[k] = q[k + 1] /\ k + 1 \in DOMAIN q /\ k + 1 # 1
          BY <3>2
        <5>2. QED
          BY <3>1, <3>3, <5>1
      <4>3. QED
        BY <4>1, <4>2
    <3>6. Queued(s) = Queued(r) \ {i} /\ i \in Queued(r)
      <4>1. Queued(r) = {q[k] : k \in DOMAIN q} /\ Queued(s) = {p[k] : k \in DOMAIN p}
        BY <3>1 DEF Queued, ToSet, q
      <4>2. QED
        BY <3>1, <3>5, <4>1
    <3>7. InLine(s) = InLine(r) \ {i}
      BY <1>1, <1>4, <3>1 DEF InLine
    <3>8. i < s.next
      BY <1>3, <3>1, <3>6 DEF QueueOk, InLine
    <3>9. QED
      BY <1>3, <3>1, <3>4, <3>6, <3>7, <3>8 DEF QueueOk
  <2>2. CASE r.retryQueue = <<>>
    <3>1. i = r.next /\ s.next = r.next + 1 /\ s.retryQueue = r.retryQueue
      BY <1>1, <1>2, <2>2 DEF ToSpawn
    <3>2. InLine(s) = InLine(r)
      <4>1. ASSUME NEW j \in Workers PROVE j < s.next <=> j < r.next \/ j = i
        BY <1>5, <3>1, Constants
      <4>2. ~(i < r.next)
        BY <1>5, <3>1
      <4>3. QED
        BY <1>1, <1>4, <4>1, <4>2 DEF InLine
    <3>3. Queued(s) = Queued(r)
      BY <3>1 DEF Queued
    <3>4. QED
      BY <1>3, <1>5, <3>1, <3>2, <3>3 DEF QueueOk
  <2>3. QED
    BY <2>1, <2>2
<1>7. ASSUME NEW j \in Workers \ {i} PROVE Worker(s, j)
  <2>1. Worker(r, j) /\ s.worker[j] = r.worker[j]
    BY <1>1, <1>3
  <2>2. j >= s.next => j >= r.next
    BY <1>1, <1>5, Constants
  <2>3. QED
    BY <1>1, <2>1, <2>2 DEF Worker
<1>8. RetryClock(s, b) /\ DrainTimed(s, b)
  BY <1>1, <1>2, <1>3, <1>4 DEF RetryClock, DrainTimed
<1>9. Keeps(r, s)
  BY <1>1, <1>4 DEF Keeps
<1>10. Armed(r, s) /\ Caused(s)
  BY <1>1, <1>2 DEF Armed, Caused
<1>11. QED
  BY <1>1, <1>2, <1>6, <1>7, <1>8, <1>9, <1>10

LEMMA TakeTypes ==
    ASSUME NEW r, NEW b, Stable(r, b), CanSpawn(r), NEW i, i = ToSpawn(r)
    PROVE  LET w == r.worker[i]
           IN  /\ i \in Workers /\ w \in WorkerType /\ w.life = "waiting" /\ w.marks = {} /\ ~w.counted
               /\ ~w.awaitingRetry /\ w.starts = w.attempt /\ w.starts + 1 \in 0 .. MaxRetries + 1
               /\ r.worker \in [Workers -> WorkerType]
<1> DEFINE w == r.worker[i]
<1>1. i \in Workers /\ w.life = "waiting"
  BY NextInLine
<1>2. w \in WorkerType /\ Shape(w) /\ r.worker \in [Workers -> WorkerType]
  BY <1>1, RunFields DEF Stable, Books, Worker
<1>3. w.starts = w.attempt /\ w.attempt \in 0 .. MaxRetries
  BY <1>1, <1>2 DEF Shape, WorkerType
<1>4. QED
  BY <1>1, <1>2, <1>3, Constants DEF Shape

LEMMA LaunchEffect ==
    ASSUME NEW r, NEW b, Stable(r, b), CanSpawn(r), NEW i, i = ToSpawn(r)
    PROVE  LET s == Launched(r)
           IN  /\ i \in Workers /\ Stable(s, b) /\ Keeps(r, s) /\ Armed(r, s)
               /\ s.inFlight = r.inFlight + 1 /\ s.worker[i].life = "running"
<1> DEFINE w == r.worker[i]
           v == [w EXCEPT !.starts = @ + 1, !.life = "running"]
<1>1. PICK s : s = Launched(r)
  OBVIOUS
<1>2. /\ i \in Workers /\ w \in WorkerType /\ w.life = "waiting" /\ w.marks = {} /\ ~w.counted
      /\ ~w.awaitingRetry /\ w.starts = w.attempt /\ w.starts + 1 \in 0 .. MaxRetries + 1
      /\ r.worker \in [Workers -> WorkerType]
  BY TakeTypes
<1>3. /\ v \in WorkerType /\ v.life = "running" /\ v.marks = {} /\ ~v.counted /\ ~v.awaitingRetry
      /\ v.starts = v.attempt + 1
  BY <1>2 DEF WorkerType
<1>4. r \in RunType /\ r.inFlight \in Nat
  BY RunFields DEF Stable, Books
<1>5. Takes(r, s, i, v)
  <2>1. Launched(r) = [r EXCEPT !.worker = [r.worker EXCEPT ![i] = v],
                                !.retryQueue = IF r.retryQueue # <<>> THEN Tail(@) ELSE @,
                                !.next = IF r.retryQueue # <<>> THEN @ ELSE @ + 1,
                                !.inFlight = @ + 1]
    <3> DEFINE q == IF r.retryQueue # <<>> THEN Tail(r.retryQueue) ELSE r.retryQueue
               n == IF r.retryQueue # <<>> THEN r.next ELSE r.next + 1
               W == [r.worker EXCEPT ![i].starts = @ + 1]
    <3>1. TakeNext(r) = [r EXCEPT !.retryQueue = q, !.next = n, !.worker = W]
      <4>1. TakeNext(r) = [r EXCEPT !.retryQueue = IF @ # <<>> THEN Tail(@) ELSE @,
                                    !.next = IF r.retryQueue # <<>> THEN @ ELSE @ + 1,
                                    !.worker[i].starts = @ + 1]
        BY DEF TakeNext
      <4>2. QED
        BY <1>4, <4>1 DEF RunType
    <3>2. [W EXCEPT ![i].life = "running"] = [r.worker EXCEPT ![i] = v] /\ W \in [Workers -> WorkerType]
      BY <1>2 DEF WorkerType
    <3>3. [r EXCEPT !.worker = [r.worker EXCEPT ![i] = v], !.retryQueue = q, !.next = n,
                    !.inFlight = @ + 1]
          = [r EXCEPT !.worker = [r.worker EXCEPT ![i] = v],
                      !.retryQueue = IF r.retryQueue # <<>> THEN Tail(@) ELSE @,
                      !.next = IF r.retryQueue # <<>> THEN @ ELSE @ + 1, !.inFlight = @ + 1]
      BY <1>4 DEF RunType
    <3> DEFINE V == [r.worker EXCEPT ![i] = v]
    <3>4. [W EXCEPT ![i].life = "running"] = V
      BY <3>2
    <3> HIDE DEF W, q, n, V
    <3>5. Launched(r) = [r EXCEPT !.worker = V, !.retryQueue = q, !.next = n, !.inFlight = @ + 1]
      BY <1>2, <1>4, <3>1, <3>4 DEF Launched, RunType
    <3>6. QED
      BY <3>3, <3>5 DEF V
  <2> HIDE DEF v
  <2>2. QED
    BY <1>1, <1>3, <2>1 DEF Takes
<1> HIDE DEF v
<1>6. /\ s \in RunType /\ Counters(s) /\ s.worker[i] = v /\ s.inFlight = r.inFlight + 1
  BY <1>3, <1>5, TakeFields
<1>7. /\ QueueOk(s) /\ s.stops = {} /\ RetryClock(s, b) /\ DrainTimed(s, b) /\ Caused(s)
      /\ Keeps(r, s) /\ Armed(r, s) /\ i < s.next
      /\ \A j \in Workers \ {i} : Worker(s, j)
  BY <1>5, TakeStable
<1>8. Worker(s, i)
  <2>1. Shape(v) /\ Final(v, s.stops) /\ v.marks \subseteq s.stops
    BY <1>3 DEF Shape, Final
  <2>2. ~(i >= s.next)
    BY <1>2, <1>6, <1>7, Constants, RunFields
  <2>3. QED
    BY <1>6, <2>1, <2>2 DEF Worker
<1>9. Books(s) /\ Settled(s)
  BY <1>6, <1>7, <1>8 DEF Books, Settled
<1>10. QED
  BY <1>1, <1>2, <1>3, <1>6, <1>7, <1>9 DEF Stable

\* failToStart().
Failed(r, i) ==
    [TakeNext(r) EXCEPT !.worker[i].life = "exited", !.worker[i].status = "nostart", !.worker[i].open = {}]
LEMMA FailEffect ==
    ASSUME NEW r, NEW b, Stable(r, b), CanSpawn(r), NEW i, i = ToSpawn(r)
    PROVE  LET t == Account(Failed(r, i), i)
           IN  Stable(t, b) /\ Keeps(r, t) /\ Armed(r, t) /\ t.inFlight = r.inFlight
<1> DEFINE w == r.worker[i]
           v == [w EXCEPT !.starts = @ + 1, !.life = "exited", !.status = "nostart", !.open = {}]
<1>1. PICK s : s = Failed(r, i)
  OBVIOUS
<1>2. /\ i \in Workers /\ w \in WorkerType /\ w.life = "waiting" /\ w.marks = {} /\ ~w.counted
      /\ ~w.awaitingRetry /\ w.starts = w.attempt /\ w.starts + 1 \in 0 .. MaxRetries + 1
      /\ r.worker \in [Workers -> WorkerType]
  BY TakeTypes
<1>3. /\ v \in WorkerType /\ v.life = "exited" /\ v.open = {} /\ v.marks = {} /\ ~v.counted
      /\ ~v.awaitingRetry /\ v.starts = v.attempt + 1
  BY <1>2 DEF WorkerType
<1>4. r \in RunType /\ r.inFlight \in Nat
  BY RunFields DEF Stable, Books
<1>5. Takes(r, s, i, v)
  <2>1. Failed(r, i) = [r EXCEPT !.worker = [r.worker EXCEPT ![i] = v],
                                 !.retryQueue = IF r.retryQueue # <<>> THEN Tail(@) ELSE @,
                                 !.next = IF r.retryQueue # <<>> THEN @ ELSE @ + 1,
                                 !.inFlight = @ + 0]
    <3> DEFINE q == IF r.retryQueue # <<>> THEN Tail(r.retryQueue) ELSE r.retryQueue
               n == IF r.retryQueue # <<>> THEN r.next ELSE r.next + 1
               W == [r.worker EXCEPT ![i].starts = @ + 1]
    <3>1. TakeNext(r) = [r EXCEPT !.retryQueue = q, !.next = n, !.worker = W]
      <4>1. TakeNext(r) = [r EXCEPT !.retryQueue = IF @ # <<>> THEN Tail(@) ELSE @,
                                    !.next = IF r.retryQueue # <<>> THEN @ ELSE @ + 1,
                                    !.worker[i].starts = @ + 1]
        BY DEF TakeNext
      <4>2. QED
        BY <1>4, <4>1 DEF RunType
    <3>2. [W EXCEPT ![i].life = "exited", ![i].status = "nostart", ![i].open = {}]
          = [r.worker EXCEPT ![i] = v] /\ W \in [Workers -> WorkerType]
      BY <1>2 DEF WorkerType
    <3>3. [r EXCEPT !.worker = [r.worker EXCEPT ![i] = v], !.retryQueue = q, !.next = n,
                    !.inFlight = @ + 0]
          = [r EXCEPT !.worker = [r.worker EXCEPT ![i] = v],
                      !.retryQueue = IF r.retryQueue # <<>> THEN Tail(@) ELSE @,
                      !.next = IF r.retryQueue # <<>> THEN @ ELSE @ + 1, !.inFlight = @ + 0]
      BY <1>4 DEF RunType
    <3> DEFINE V == [r.worker EXCEPT ![i] = v]
    <3>4. [W EXCEPT ![i].life = "exited", ![i].status = "nostart", ![i].open = {}] = V
      BY <3>2
    <3> HIDE DEF W, q, n, V
    <3>5. Failed(r, i) = [r EXCEPT !.worker = V, !.retryQueue = q, !.next = n, !.inFlight = @ + 0]
      <4> DEFINE x == [r EXCEPT !.retryQueue = q, !.next = n, !.worker = W]
      <4>1. x.worker = W /\ [x EXCEPT !.worker = V] = [r EXCEPT !.worker = V, !.retryQueue = q, !.next = n]
        BY <1>4 DEF RunType
      <4>2. [x EXCEPT !.worker = V] = [r EXCEPT !.worker = V, !.retryQueue = q, !.next = n, !.inFlight = @ + 0]
        <5>1. r.inFlight + 0 = r.inFlight
          BY <1>4
        <5> DEFINE m == r.inFlight + 0
        <5>2. m = r.inFlight
          BY <5>1
        <5> HIDE DEF m, x
        <5>3. [r EXCEPT !.worker = V, !.retryQueue = q, !.next = n]
              = [r EXCEPT !.worker = V, !.retryQueue = q, !.next = n, !.inFlight = m]
          BY <1>4, <5>2 DEF RunType
        <5>4. QED
          BY <4>1, <5>3 DEF m
      <4>3. Failed(r, i) = [x EXCEPT !.worker[i].life = "exited", !.worker[i].status = "nostart",
                                     !.worker[i].open = {}]
        BY <3>1 DEF Failed
      <4>4. "worker" \in DOMAIN x
        BY <1>4 DEF RunType
      <4> HIDE DEF x
      <4>5. Failed(r, i) = [x EXCEPT !.worker = [W EXCEPT ![i].life = "exited", ![i].status = "nostart",
                                                          ![i].open = {}]]
        BY <1>2, <3>2, <4>1, <4>3, <4>4, ZenonT(60) DEF WorkerType
      <4>6. QED
        BY <3>4, <4>2, <4>5
    <3>6. QED
      BY <3>3, <3>5 DEF V
  <2> HIDE DEF v
  <2>2. QED
    BY <1>1, <1>3, <2>1 DEF Takes
<1> HIDE DEF v
<1>6. /\ s \in RunType /\ Counters(s) /\ s.worker[i] = v /\ s.inFlight = r.inFlight
  BY <1>3, <1>4, <1>5, TakeFields
<1>7. /\ QueueOk(s) /\ s.stops = {} /\ RetryClock(s, b) /\ DrainTimed(s, b) /\ Caused(s)
      /\ Keeps(r, s) /\ Armed(r, s) /\ i < s.next
      /\ \A j \in Workers \ {i} : Worker(s, j)
  BY <1>5, TakeStable
<1>8. Open(s, i) /\ SettledBut(s, i)
  BY <1>2, <1>3, <1>6, <1>7 DEF Open, Ended, SettledBut
<1>9. PICK t : t = Account(s, i)
  OBVIOUS
<1>10. Onward(s, t, b) /\ t.inFlight = s.inFlight
  BY <1>2, <1>7, <1>8, <1>9, AccountStable
<1>11. Keeps(r, t)
  BY <1>7, <1>10 DEF Onward, Keeps
<1>12. Armed(r, t)
  BY <1>7, <1>10 DEF Onward, Armed
<1>13. QED
  BY <1>1, <1>6, <1>9, <1>10, <1>11, <1>12 DEF Onward, NoWork

-----------------------------------------------------------------------------
LEMMA StoppedStays ==
    ASSUME NEW r, NEW s, Books(r), Books(s), Keeps(r, s), r.stopped PROVE s.stopped
<1>1. Counters(r) /\ Counters(s)
  BY DEF Books
<1>2. IsFiniteSet(Uncounted(r))
  BY WorkersFinite DEF Uncounted
<1>3. Uncounted(r) = {}
  BY <1>1, <1>2, FS_EmptySet DEF Counters
<1>4. Uncounted(s) = {}
  BY <1>3 DEF Uncounted, Keeps
<1>5. QED
  BY <1>1, <1>4, FS_EmptySet DEF Counters

LEMMA ClockOn ==
    ASSUME NEW r, NEW s, Books(r), Books(s), Keeps(r, s), Armed(r, s), DrainClock(r) PROVE DrainClock(s)
BY StoppedStays DEF DrainClock, Armed

\* Ctrl-C.
LEMMA StoppedStable ==
    ASSUME NEW r, NEW b, Stable(r, b), NEW reason, NEW s, Stopped(r, s, reason),
           Books(s), Settled(s), Keeps(r, s)
    PROVE  Onward(r, s, b)
<1>1. /\ s \in RunType /\ s.next = N + 1 /\ s.inFlight = r.inFlight /\ s.retryQueue = <<>>
      /\ s.stops = r.stops \cup {reason} /\ s.drainArmed
      /\ s.timers = (r.timers \ RetryTimers) \cup (IF r.drainArmed THEN {} ELSE {DrainTimer})
      /\ \A i \in Workers : s.worker[i] = StoppedWorker(r, i, reason)
  BY DEF Stopped
<1>2. s.stops # {}
  BY <1>1
<1>3. QueueOk(s) /\ \A j \in Workers : ~s.worker[j].awaitingRetry
  BY <1>2, NobodyInLine
<1>4. RetryClock(s, b)
  <2>1. ASSUME NEW j \in Workers, ~s.worker[j].counted PROVE RetryTimer(j) \notin s.timers \cup b
    <3>1. ~r.worker[j].counted
      BY <2>1 DEF Keeps
    <3>2. ~r.worker[j].awaitingRetry
      <4> SUFFICES ASSUME r.worker[j].awaitingRetry PROVE FALSE
        OBVIOUS
      <4>1. s.worker[j] = StoppedWorker(r, j, reason) /\ Ends(r, j) /\ r.worker[j] \in WorkerType
        BY <1>1, RunFields DEF Ends, Stable, Books
      <4>2. s.worker[j].counted
        BY <4>1 DEF StoppedWorker, WorkerType
      <4>3. QED
        BY <2>1, <4>2
    <3>3. RetryTimer(j) \notin r.timers \cup b
      BY <3>1, <3>2 DEF Stable, RetryClock
    <3>4. QED
      BY <1>1, <3>3, RetryTimers1
  <2>2. QED
    BY <1>3, <2>1 DEF RetryClock
<1>5. DrainTimed(s, b)
  BY <1>1, RetryTimers1 DEF DrainTimed, Stable
<1>6. Armed(r, s) /\ NoWork(r, s)
  BY <1>1 DEF Armed, NoWork
<1>7. QED
  BY <1>3, <1>4, <1>5, <1>6 DEF Onward, Stable

\* What a step must do.
Goes == RunInv' /\ Keeps(run, run')

LEMMA LimitType == ASSUME RunInv PROVE Limit \in Nat
BY Constants, WorkerRunAssumption DEF RunInv, Loops, Limit

LEMMA SpawnRunsGoes == ASSUME RunInv, SpawnRuns PROVE Goes
<1>1. PICK i : i = ToSpawn(run)
  OBVIOUS
<1>2. PICK l : l = Launched(run)
  OBVIOUS
<1>3. Stable(run, batch) /\ DrainClock(run) /\ Loops /\ CanSpawn(run) /\ filling
  BY DEF RunInv, SpawnRuns
<1>4. /\ i \in Workers /\ Stable(l, batch) /\ Keeps(run, l) /\ Armed(run, l)
      /\ l.inFlight = run.inFlight + 1 /\ l.worker[i].life = "running"
  BY <1>1, <1>2, <1>3, LaunchEffect
<1>5. Books(run) /\ Books(l)
  BY <1>3, <1>4 DEF Stable
<1>6. Stable(run', batch) /\ Keeps(run, run') /\ Armed(run, run') /\ run'.inFlight <= run.inFlight + 1
  <2>1. CASE run' = l
    BY <1>4, <1>5, <2>1, RunFields DEF Books
  <2>2. ASSUME NEW o \in Outcomes, run' = Reap(l, i, o) 
        PROVE  Stable(run', batch) /\ Keeps(run, run') /\ Armed(run, run') /\ run'.inFlight <= run.inFlight + 1
    <3> DEFINE v == [l.worker[i] EXCEPT !.life = "exited", !.status = o]
    <3>1. PICK s : s = Reaped(l, i, o)
      OBVIOUS
    <3>2. Touches(l, s, i, v, l.inFlight - 1)
      BY <1>4, <1>5, <3>1, ReapTouches
    <3>3. run' = Account(s, i)
      BY <2>2, <3>1 DEF Reap, Reaped
    <3> HIDE DEF v
    <3>4. Onward(l, run', batch) /\ run'.inFlight = l.inFlight - 1
      BY <1>4, <3>2, <3>3, TouchEffect
    <3>5. Keeps(run, run')
      BY <1>4, <3>4 DEF Keeps, Onward
    <3>6. Armed(run, run')
      BY <1>4, <3>4 DEF Armed, Onward
    <3>7. run.inFlight \in Nat
      BY <1>5, RunFields DEF Books
    <3>8. QED
      BY <1>4, <3>4, <3>5, <3>6, <3>7 DEF Onward
  <2>3. run' = l \/ \E o \in Outcomes : run' = Reap(l, i, o)
    BY <1>1, <1>2 DEF SpawnRuns
  <2>4. QED
    BY <2>1, <2>2, <2>3
<1>7. DrainClock(run')
  BY <1>3, <1>5, <1>6, ClockOn DEF Stable
<1>8. Loops'
  <2>1. opts' = opts /\ phase' = phase /\ filling' = filling /\ batch' = batch
    BY DEF SpawnRuns
  <2>2. phase = "returned" => ~filling
    BY <1>3 DEF Loops
  <2>3. Limit \in Nat /\ Limit' = Limit /\ run.inFlight < Limit /\ run.inFlight \in Nat /\ run'.inFlight \in Nat
    BY <1>3, <1>5, <1>6, <2>1, LimitType, RunFields DEF CanSpawn, Limit, Stable, Books
  <2>4. (run.inFlight <= Limit)'
    BY <1>6, <2>3
  <2>5. QED
    BY <1>3, <2>1, <2>2, <2>4 DEF Loops
<1>9. QED
  BY <1>6, <1>7, <1>8 DEF Goes, RunInv, SpawnRuns

LEMMA SpawnFailsGoes == ASSUME RunInv, SpawnFails PROVE Goes
<1>1. PICK i : i = ToSpawn(run)
  OBVIOUS
<1>2. Stable(run, batch) /\ DrainClock(run) /\ Loops /\ CanSpawn(run) /\ filling
  BY DEF RunInv, SpawnFails
<1>3. run' = Account(Failed(run, i), i)
  BY <1>1 DEF SpawnFails, Failed
<1>4. Stable(run', batch) /\ Keeps(run, run') /\ Armed(run, run') /\ run'.inFlight = run.inFlight
  BY <1>1, <1>2, <1>3, FailEffect
<1>5. DrainClock(run')
  BY <1>2, <1>4, ClockOn DEF Stable
<1>6. Loops'
  <2>1. opts' = opts /\ phase' = phase /\ filling' = filling /\ batch' = batch
    BY DEF SpawnFails
  <2>2. phase = "returned" => ~filling
    BY <1>2 DEF Loops
  <2>3. (run.inFlight <= Limit)'
    BY <1>2, <1>4, <2>1 DEF Loops, Limit
  <2>4. QED
    BY <1>2, <2>1, <2>2, <2>3 DEF Loops
<1>7. QED
  BY <1>4, <1>5, <1>6 DEF Goes, RunInv, SpawnFails

LEMMA KeepsItself == ASSUME NEW r PROVE Keeps(r, r)
BY DEF Keeps

LEMMA FillEndsGoes == ASSUME RunInv, FillEnds PROVE Goes
<1>1. Loops'
  <2>1. opts' = opts /\ run' = run /\ batch' = batch /\ ~CanSpawn(run) /\ filling /\ filling' = FALSE
        /\ phase' = (IF phase # "starting" THEN phase ELSE IF run.stopped THEN "returned" ELSE "events")
    BY DEF FillEnds
  <2>2. Loops
    BY DEF RunInv
  <2>3. (~CanSpawn(run))' /\ (run.inFlight <= Limit)'
    BY <2>1, <2>2 DEF CanSpawn, Limit, Loops
  <2>4. QED
    BY <2>1, <2>2, <2>3 DEF Loops
<1>2. QED
  BY <1>1, KeepsItself DEF Goes, RunInv, FillEnds

\* A handler that leaves fillSlots() alone.
LEMMA LoopsGo ==
    ASSUME RunInv, Onward(run, run', batch), run'.inFlight = run.inFlight, phase' = phase, opts' = opts,
           filling' = filling, phase # "returned", batch' \subseteq batch
    PROVE  Loops'
<1>1. (~CanSpawn(run))' \/ CanSpawn(run)
  <2>1. CASE run'.retryQueue = run.retryQueue /\ run'.next = run.next
    BY <2>1 DEF CanSpawn, Limit
  <2>2. CASE run'.retryQueue = <<>> /\ run'.next = N + 1
    BY <2>2, Constants DEF CanSpawn
  <2>3. QED
    BY <2>1, <2>2 DEF Onward, NoWork
<1>2. (run.inFlight <= Limit)'
  BY DEF RunInv, Loops, Limit
<1>3. Loops
  BY DEF RunInv
<1>4. QED
  BY <1>1, <1>2, <1>3 DEF Loops

LEMMA StreamEndsGoes ==
    ASSUME RunInv, NEW i \in Workers, NEW p \in Streams, StreamEnds(i, p) PROVE Goes
<1> DEFINE rest == run.worker[i].open \ {p}
           v == [run.worker[i] EXCEPT !.open = rest]
<1>1. Stable(run, batch) /\ DrainClock(run) /\ Books(run) /\ run.worker[i] \in WorkerType
  BY RunFields DEF RunInv, Stable, Books
<1>2. rest \in SUBSET Streams /\ run.worker[i].life # "waiting" /\ run.worker[i].open # {}
  BY <1>1 DEF StreamEnds, WorkerType
<1>3. PICK s : s = [run EXCEPT !.worker[i].open = rest]
  OBVIOUS
<1>4. run' = Account(s, i)
  BY <1>3 DEF StreamEnds
<1> HIDE DEF rest
<1>5. Touches(run, s, i, v, run.inFlight)
  BY <1>1, <1>2, <1>3, CloseTouches
<1> HIDE DEF v
<1>6. Onward(run, run', batch) /\ run'.inFlight = run.inFlight
  BY <1>1, <1>4, <1>5, TouchEffect
<1>7. DrainClock(run')
  BY <1>1, <1>6, ClockOn DEF Onward, Stable
<1>8. phase # "returned" /\ phase' = phase /\ opts' = opts /\ filling' = filling /\ batch' = batch
  BY DEF StreamEnds, Dispatching
<1>9. Loops'
  BY <1>6, <1>8, LoopsGo
<1>10. QED
  BY <1>6, <1>7, <1>8, <1>9 DEF Goes, RunInv, Onward

LEMMA ExitsGoes ==
    ASSUME RunInv, NEW i \in Workers, NEW o \in Outcomes, Exits(i, o) PROVE Goes
<1> DEFINE v == [run.worker[i] EXCEPT !.life = "exited", !.status = o]
<1>1. Stable(run, batch) /\ DrainClock(run) /\ Books(run) /\ run.worker[i].life = "running" /\ Loops
  BY DEF RunInv, Stable, Exits
<1>2. PICK s : s = Reaped(run, i, o)
  OBVIOUS
<1>3. run' = Account(s, i)
  BY <1>2 DEF Exits, Reap, Reaped
<1>4. Touches(run, s, i, v, run.inFlight - 1)
  BY <1>1, <1>2, ReapTouches
<1> HIDE DEF v
<1>5. Onward(run, run', batch) /\ run'.inFlight = run.inFlight - 1
  BY <1>1, <1>3, <1>4, TouchEffect
<1>6. DrainClock(run')
  BY <1>1, <1>5, ClockOn DEF Onward, Stable
<1>7. phase = "events" /\ phase' = phase /\ opts' = opts /\ filling' = TRUE /\ batch' = batch
  BY DEF Exits, Dispatching
<1>8. (run.inFlight <= Limit)'
  <2>1. Limit \in Nat /\ Limit' = Limit /\ run.inFlight \in Nat
    BY <1>1, <1>7, LimitType, RunFields DEF Limit, Books
  <2>2. QED
    BY <1>1, <1>5, <2>1 DEF Loops
<1>9. Loops'
  BY <1>1, <1>7, <1>8 DEF Loops
<1>10. QED
  BY <1>5, <1>6, <1>7, <1>9 DEF Goes, RunInv, Onward

LEMMA OnCancelGoes == ASSUME RunInv, OnCancel PROVE Goes
<1>1. Stable(run, batch) /\ DrainClock(run) /\ Books(run) /\ QueueOk(run)
  BY DEF RunInv, Stable
<1>2. run' = StopAll(run, "cancelled")
  BY DEF OnCancel
<1>3. Lined(run)
  BY <1>1 DEF QueueOk, Lined, InLine
<1>4. "cancelled" \in {"cancelled", "aborted"} /\ run.stops \cup {"cancelled"} # {"aborted"}
  OBVIOUS
<1>5. Stopped(run, run', "cancelled") /\ Books(run') /\ Settled(run') /\ Keeps(run, run')
  BY <1>1, <1>2, <1>3, <1>4, StopEffect
<1>6. Onward(run, run', batch) /\ run'.inFlight = run.inFlight
  BY <1>1, <1>5, StoppedStable DEF Stopped
<1>7. DrainClock(run')
  BY <1>1, <1>5, <1>6, ClockOn DEF Onward
<1>8. phase # "returned" /\ phase' = phase /\ opts' = opts /\ filling' = filling /\ batch' = batch
  BY DEF OnCancel, Dispatching
<1>9. Loops'
  BY <1>6, <1>8, LoopsGo
<1>10. QED
  BY <1>6, <1>7, <1>8, <1>9 DEF Goes, RunInv, Onward

LEMMA FireDueTimersGoes ==
    ASSUME RunInv, NEW due \in SUBSET run.timers, FireDueTimers(due) PROVE Goes
<1>1. Stable(run, batch) /\ DrainClock(run) /\ Loops /\ run \in RunType
  BY DEF RunInv, Stable, Books
<1>2. /\ run' = [run EXCEPT !.timers = @ \ due] /\ batch' = due /\ phase' = "timers" /\ opts' = opts
      /\ filling' = FALSE /\ ~filling /\ batch = {}
  BY <1>1 DEF FireDueTimers, Dispatching, Loops
<1> DEFINE y == run.timers \ due
<1>3. y \in SUBSET Timers /\ due \subseteq Timers
  BY <1>1, RunFields
<1>4. PICK s : s = run'
  OBVIOUS
<1>5. s = [run EXCEPT !.timers = y]
  BY <1>2, <1>4
<1>6. y \cup due = run.timers /\ y \cap due = {}
  OBVIOUS
<1> HIDE DEF y
<1>7. /\ s \in RunType /\ s.timers = y /\ s.worker = run.worker /\ s.remaining = run.remaining
      /\ s.inFlight = run.inFlight /\ s.next = run.next /\ s.retryQueue = run.retryQueue
      /\ s.stops = run.stops /\ s.drainArmed = run.drainArmed /\ s.stopped = run.stopped
  BY <1>1, <1>3, <1>5 DEF RunType
<1>8. Books(s) /\ QueueOk(s) /\ Settled(s)
  <2>1. Books(s)
    BY <1>1, <1>7 DEF Stable, Books, Counters, Uncounted, Alive, Caused, Worker
  <2>2. QueueOk(s) /\ Settled(s)
    BY <1>1, <1>7 DEF Stable, QueueOk, Settled, Queued, InLine
  <2>3. QED
    BY <2>1, <2>2
<1>9. RetryClock(s, due) /\ DrainTimed(s, due)
  BY <1>1, <1>2, <1>6, <1>7 DEF Stable, RetryClock, DrainTimed
<1>10. DrainClock(s) /\ Keeps(run, s)
  BY <1>1, <1>7 DEF DrainClock, Keeps
<1>11. Loops'
  <2>1. (~CanSpawn(run))' /\ (run.inFlight <= Limit)'
    BY <1>1, <1>2, <1>4, <1>7 DEF CanSpawn, Limit, Loops
  <2>2. QED
    BY <1>1, <1>2, <1>3, <2>1 DEF Loops
<1>12. QED
  BY <1>2, <1>4, <1>8, <1>9, <1>10, <1>11 DEF Goes, RunInv, Stable

LEMMA EndIterationGoes == ASSUME RunInv, EndIteration \/ Returned \/ UNCHANGED vars PROVE Goes
<1>1. /\ opts' = opts /\ run' = run /\ batch' = batch /\ filling' = filling
      /\ phase' = phase \/ (phase = "timers" /\ ~filling /\ batch = {}
                            /\ phase' = (IF run.stopped THEN "returned" ELSE "events"))
  BY DEF EndIteration, Returned, vars
<1>2. Loops
  BY DEF RunInv
<1>3. Loops'
  <2>1. CanSpawn(run)' = CanSpawn(run) /\ (run.inFlight <= Limit)'
    BY <1>1, <1>2 DEF CanSpawn, Limit, Loops
  <2>2. QED
    BY <1>1, <1>2, <2>1 DEF Loops
<1>4. QED
  BY <1>1, <1>3, KeepsItself DEF Goes, RunInv

\* onRetry(): a worker in backoff gets back in line.
Requeued(r, s, i, v) ==
    /\ v = [FreshWorker EXCEPT !.attempt = r.worker[i].attempt, !.starts = r.worker[i].starts]
    /\ s = [r EXCEPT !.worker[i] = v, !.retryQueue = Append(@, i)]

LEMMA RequeueEffect ==
    ASSUME NEW r, NEW b, NEW i \in Workers, Stable(r, b), NEW s, NEW v, Requeued(r, s, i, v),
           ~r.worker[i].counted, RetryTimer(i) \in b
    PROVE  /\ Stable(s, b \ {RetryTimer(i)}) /\ Keeps(r, s) /\ s.stops = r.stops
           /\ s.drainArmed = r.drainArmed /\ s.stopped = r.stopped /\ s.inFlight = r.inFlight
<1> DEFINE w == r.worker[i]
           W == [r.worker EXCEPT ![i] = v]
           q == Append(r.retryQueue, i)
<1>1. /\ r \in RunType /\ w \in WorkerType /\ r.worker \in [Workers -> WorkerType] /\ Shape(w)
      /\ r.retryQueue \in Seq(Workers) /\ r.next \in 1 .. N + 1
      /\ (\A j \in Workers : Worker(r, j)) /\ Counters(r) /\ Caused(r) /\ QueueOk(r) /\ Settled(r)
      /\ RetryClock(r, b) /\ DrainTimed(r, b)
  BY RunFields DEF Stable, Books, Worker
<1>2. w.awaitingRetry /\ w.life = "exited" /\ ~w.counted /\ w.starts = w.attempt
  BY <1>1 DEF RetryClock, Shape
<1>3. r.stops = {} /\ i < r.next
  <2>1. i < r.next
    BY <1>1, <1>2, Constants DEF Worker
  <2>2. r.stops = {}
    BY <1>1, <1>2 DEF Settled, Doomed
  <2>3. QED
    BY <2>1, <2>2
<1>4. /\ v \in WorkerType /\ v.life = "waiting" /\ v.open = Streams /\ v.marks = {} /\ v.starts = v.attempt
      /\ ~v.counted /\ ~v.awaitingRetry
  <2>1. v = [life |-> "waiting", status |-> "none", open |-> Streams, marks |-> {},
             counted |-> FALSE, awaitingRetry |-> FALSE, attempt |-> w.attempt, starts |-> w.starts]
    BY DEF Requeued, FreshWorker
  <2>2. w.attempt \in 0 .. MaxRetries /\ w.starts \in 0 .. MaxRetries + 1
    BY <1>1 DEF WorkerType
  <2>3. QED
    BY <1>2, <2>1, <2>2 DEF WorkerType
<1>5. W \in [Workers -> WorkerType] /\ W[i] = v /\ \A j \in Workers \ {i} : W[j] = r.worker[j]
  BY <1>1, <1>4
<1>6. q \in Seq(Workers) /\ Len(q) = Len(r.retryQueue) + 1 /\ q[Len(q)] = i
      /\ \A k \in 1 .. Len(r.retryQueue) : q[k] = r.retryQueue[k]
  BY <1>1
<1>7. s = [r EXCEPT !.worker = W, !.retryQueue = q]
  BY <1>1 DEF Requeued, RunType
<1> HIDE DEF W, q
<1>8. /\ s \in RunType /\ s.worker = W /\ s.retryQueue = q /\ s.remaining = r.remaining
      /\ s.inFlight = r.inFlight /\ s.next = r.next /\ s.timers = r.timers
      /\ s.stops = r.stops /\ s.drainArmed = r.drainArmed /\ s.stopped = r.stopped
  BY <1>1, <1>5, <1>6, <1>7 DEF RunType
<1>9. /\ s.worker[i] = v /\ \A j \in Workers : j # i => s.worker[j] = r.worker[j]
  BY <1>5, <1>8
<1>10. Counters(s)
  <2>1. Uncounted(s) = Uncounted(r) /\ Alive(s) = Alive(r)
    BY <1>2, <1>4, <1>9 DEF Uncounted, Alive
  <2>2. QED
    BY <1>1, <1>8, <2>1 DEF Counters
<1>11. ASSUME NEW j \in Workers PROVE Worker(s, j)
  <2>1. CASE j # i
    BY <1>1, <1>8, <1>9, <2>1 DEF Worker
  <2>2. CASE j = i
    BY <1>4, <1>8, <1>9, <2>2 DEF Worker, Shape, Final
  <2>3. QED
    BY <2>1, <2>2
<1>12. Books(s) /\ Settled(s)
  BY <1>3, <1>8, <1>10, <1>11 DEF Books, Settled, Caused
<1>13. QueueOk(s)
  <2>1. InLine(s) = InLine(r) \cup {i} /\ i \notin InLine(r)
    BY <1>2, <1>3, <1>4, <1>8, <1>9 DEF InLine
  <2> DEFINE p == r.retryQueue
             n == Len(p)
  <2>2. n \in Nat /\ DOMAIN p = 1 .. n /\ DOMAIN q = 1 .. n + 1 /\ q[n + 1] = i /\ \A k \in 1 .. n : q[k] = p[k]
    BY <1>1, <1>6
  <2>3. Queued(r) = {p[k] : k \in 1 .. n} /\ Queued(s) = {q[k] : k \in 1 .. n + 1}
    BY <1>8, <2>2 DEF Queued, ToSet
  <2>4. (\A j, k \in DOMAIN p : p[j] = p[k] => j = k) /\ i \notin Queued(r) /\ Queued(r) = InLine(r)
    BY <1>1, <2>1 DEF QueueOk
  <2> HIDE DEF p, n
  <2>5. \A k \in 1 .. n + 1 : k = n + 1 \/ k \in 1 .. n
    BY <2>2
  <2>6. 1 .. n \subseteq 1 .. n + 1 /\ n + 1 \in 1 .. n + 1
    BY <2>2
  <2>7. Queued(s) = Queued(r) \cup {i}
    BY <2>2, <2>3, <2>5, <2>6
  <2>8. \A j, k \in 1 .. n + 1 : q[j] = q[k] => j = k
    <3>1. \A k \in 1 .. n : q[k] # i
      BY <2>2, <2>3, <2>4
    <3>2. \A j, k \in 1 .. n : q[j] = q[k] => j = k
      BY <2>2, <2>4
    <3>3. QED
      BY <2>2, <2>5, <3>1, <3>2
  <2>9. QED
    BY <1>8, <2>1, <2>2, <2>4, <2>7, <2>8 DEF QueueOk
<1>14. RetryClock(s, b \ {RetryTimer(i)})
  <2>1. RetryTimer(i) \notin r.timers
    BY <1>1 DEF RetryClock
  <2>2. \A j \in Workers : j # i => RetryTimer(j) # RetryTimer(i)
    BY RetryTimers1
  <2>3. QED
    BY <1>1, <1>4, <1>8, <1>9, <2>1, <2>2 DEF RetryClock
<1>15. DrainTimed(s, b \ {RetryTimer(i)})
  BY <1>1, <1>8, RetryTimers1 DEF DrainTimed
<1>16. Keeps(r, s)
  BY <1>9 DEF Keeps
<1>17. QED
  BY <1>8, <1>12, <1>13, <1>14, <1>15, <1>16 DEF Stable

LEMMA OnRetryGoes == ASSUME RunInv, NEW i \in Workers, OnRetry(i) PROVE Goes
<1>1. Stable(run, batch) /\ DrainClock(run) /\ Loops
  BY DEF RunInv
<1>2. /\ phase = "timers" /\ ~filling /\ RetryTimer(i) \in batch /\ batch' = batch \ {RetryTimer(i)}
      /\ opts' = opts /\ phase' = phase
  BY DEF OnRetry, RunTimer
<1>3. CASE run.worker[i].counted
  <2>1. run' = run /\ filling' = filling
    BY <1>3 DEF OnRetry, RetryIsVoid
  <2>2. RetryClock(run, batch \ {RetryTimer(i)})
    <3>1. ~run.worker[i].awaitingRetry
      BY <1>1, <1>3 DEF Stable, Books, Worker, Shape
    <3>2. \A j \in Workers : j # i => RetryTimer(j) # RetryTimer(i)
      BY RetryTimers1
    <3>3. QED
      BY <1>1, <1>3, <3>1, <3>2 DEF Stable, RetryClock
  <2>3. DrainTimed(run, batch \ {RetryTimer(i)})
    BY <1>1, RetryTimers1 DEF Stable, DrainTimed
  <2>4. Loops'
    <3>1. CanSpawn(run)' = CanSpawn(run) /\ (run.inFlight <= Limit)'
      BY <1>1, <1>2, <2>1 DEF CanSpawn, Limit, Loops
    <3>2. QED
      BY <1>1, <1>2, <2>1, <3>1 DEF Loops
  <2>5. QED
    BY <1>1, <1>2, <2>1, <2>2, <2>3, <2>4, KeepsItself DEF Goes, RunInv, Stable
<1>4. CASE ~run.worker[i].counted
  <2> DEFINE v == [FreshWorker EXCEPT !.attempt = run.worker[i].attempt, !.starts = run.worker[i].starts]
  <2>1. PICK s : s = run'
    OBVIOUS
  <2>2. filling' = TRUE /\ Requeued(run, s, i, v)
    BY <1>4, <2>1 DEF OnRetry, RetryIsVoid, Requeued
  <2> HIDE DEF v
  <2>3. /\ Stable(s, batch \ {RetryTimer(i)}) /\ Keeps(run, s) /\ s.stops = run.stops
        /\ s.drainArmed = run.drainArmed /\ s.stopped = run.stopped /\ s.inFlight = run.inFlight
    BY <1>1, <1>2, <1>4, <2>2, RequeueEffect
  <2>4. DrainClock(s)
    BY <1>1, <2>3 DEF DrainClock
  <2>5. Loops'
    <3>1. (run.inFlight <= Limit)'
      BY <1>1, <1>2, <2>1, <2>3 DEF Limit, Loops
    <3>2. QED
      BY <1>1, <1>2, <2>2, <3>1 DEF Loops
  <2>6. QED
    BY <1>2, <2>1, <2>3, <2>4, <2>5 DEF Goes, RunInv
<1>5. QED
  BY <1>3, <1>4

-----------------------------------------------------------------------------
\* Induction, over a set of naturals: the theorems of the library that take a
\* predicate do not serve here, well-foundedness does.
LEMMA SmallestExists == ASSUME NEW S \in SUBSET Nat, S # {} PROVE \E m \in S : \A k \in S : m <= k
<1> DEFINE R == {p \in Nat \X Nat : p[1] < p[2]}
<1>1. IsWellFoundedOn(R, Nat)
  BY NatLessThanWellFounded DEF OpToRel
<1> HIDE DEF R
<1>2. PICK m \in S : \A k \in S : ~(<<k, m>> \in R)
  BY <1>1, WFMin
<1>3. \A k \in S : k < m => <<k, m>> \in R
  BY DEF R
<1>4. \A k \in S : ~(k < m)
  BY <1>2, <1>3
<1>5. \A k \in S : m <= k
  BY <1>4
<1>6. QED
  BY <1>5

LEMMA SetInduction ==
    ASSUME NEW S, 0 \in S, \A n \in Nat : n \in S => n + 1 \in S PROVE Nat \subseteq S
<1> DEFINE T == Nat \ S
<1> SUFFICES ASSUME T # {} PROVE FALSE
  OBVIOUS
<1>1. PICK m \in T : \A k \in T : m <= k
  <2>1. T \in SUBSET Nat
    OBVIOUS
  <2> HIDE DEF T
  <2>2. QED
    BY <2>1, SmallestExists
<1>2. m # 0 /\ m - 1 \in Nat
  BY <1>1
<1>3. m - 1 \in S
  BY <1>1, <1>2
<1>4. QED
  BY <1>1, <1>2, <1>3

\* What holds of a loop's variable before the first turn, and after a turn if it
\* held before, holds at the end.
LEMMA LoopInduction ==
    ASSUME NEW n \in Nat, NEW P, NEW f, f[0] \in P[0],
           \A k \in 1 .. n : f[k - 1] \in P[k - 1] => f[k] \in P[k]
    PROVE  f[n] \in P[n]
<1> DEFINE S == {k \in Nat : k <= n => f[k] \in P[k]}
<1>1. 0 \in S
  OBVIOUS
<1>2. ASSUME NEW k \in Nat, k \in S PROVE k + 1 \in S
  <2>1. CASE k + 1 <= n
    <3>1. k + 1 \in 1 .. n /\ (k + 1) - 1 = k /\ f[k] \in P[k]
      BY <1>2, <2>1
    <3>2. QED
      BY <3>1
  <2>2. CASE ~(k + 1 <= n)
    BY <2>2
  <2>3. QED
    BY <2>1, <2>2
<1>3. n \in S
  <2> HIDE DEF S
  <2>1. QED
    BY <1>1, <1>2, SetInduction
<1>4. QED
  BY <1>3

\* The loop has a value, where each turn maps one set of values into the next.
Course(g, n, P, step, r) ==
    /\ g = [k \in 0 .. n |-> g[k]] /\ g[0] = r /\ \A k \in 0 .. n : g[k] \in P[k]
    /\ \A k \in 1 .. n : g[k] = step[k][g[k - 1]]
LoopOf(n, P, step, r) == \E g : Course(g, n, P, step, r)
LEMMA LoopExists ==
    ASSUME NEW n \in Nat, NEW P, NEW step, NEW r, r \in P[0],
           \A k \in 1 .. n : \A x \in P[k - 1] : step[k][x] \in P[k]
    PROVE  LoopOf(n, P, step, r)
<1> DEFINE S == {m \in Nat : m <= n => LoopOf(m, P, step, r)}
<1>1. 0 \in S
  <2> DEFINE g == [k \in 0 .. 0 |-> r]
  <2>1. Course(g, 0, P, step, r)
    BY DEF Course
  <2> HIDE DEF g
  <2>2. LoopOf(0, P, step, r)
    BY <2>1 DEF LoopOf
  <2>3. QED
    BY <2>2
<1>2. ASSUME NEW m \in Nat, m \in S PROVE m + 1 \in S
  <2>1. CASE m + 1 <= n
    <3>1. PICK g : Course(g, m, P, step, r)
      BY <1>2, <2>1 DEF LoopOf
    <3> DEFINE h == [k \in 0 .. m + 1 |-> IF k = m + 1 THEN step[m + 1][g[m]] ELSE g[k]]
    <3>2. /\ g[0] = r /\ (\A k \in 0 .. m : g[k] \in P[k])
          /\ \A k \in 1 .. m : g[k] = step[k][g[k - 1]]
      BY <3>1 DEF Course
    <3>3. m \in 0 .. m /\ m + 1 \in 1 .. n /\ (m + 1) - 1 = m /\ 0 \in 0 .. m + 1 /\ m + 1 \in 0 .. m + 1
      BY <2>1
    <3>4. h[0] = g[0] /\ h[m + 1] = step[m + 1][g[m]] /\ h[m] = g[m] /\ h = [k \in 0 .. m + 1 |-> h[k]]
      BY <3>3
    <3>5. \A k \in 0 .. m : h[k] = g[k]
      OBVIOUS
    <3> HIDE DEF h
    <3>6. step[m + 1][g[m]] \in P[m + 1]
      BY <3>2, <3>3
    <3>7. \A k \in 0 .. m + 1 : h[k] \in P[k]
      <4>1. \A k \in 0 .. m + 1 : k = m + 1 \/ k \in 0 .. m
        OBVIOUS
      <4>2. QED
        BY <3>2, <3>4, <3>5, <3>6, <4>1
    <3>8. ASSUME NEW k \in 1 .. m + 1 PROVE h[k] = step[k][h[k - 1]]
      <4>1. CASE k = m + 1
        BY <3>3, <3>4, <4>1
      <4>2. CASE k \in 1 .. m
        <5>1. h[k] = g[k] /\ h[k - 1] = g[k - 1]
          BY <3>5, <4>2
        <5>2. QED
          BY <3>2, <4>2, <5>1
      <4>3. QED
        BY <4>1, <4>2
    <3>9. Course(h, m + 1, P, step, r)
      BY <3>2, <3>4, <3>7, <3>8 DEF Course
    <3>10. QED
      BY <3>9 DEF LoopOf
  <2>2. CASE ~(m + 1 <= n)
    BY <2>2
  <2>3. QED
    BY <2>1, <2>2
<1>3. n \in S
  <2> HIDE DEF S
  <2>1. QED
    BY <1>1, <1>2, SetInduction
<1>4. QED
  BY <1>3

LEMMA QueueLength == ASSUME NEW r \in RunType PROVE Len(r.retryQueue) \in Nat
BY RunFields

\* The loops, turn by turn.
LEMMA QueuedLoop ==
    ASSUME NEW r \in RunType, NEW P, r \in P[0],
           \A k \in 1 .. Len(r.retryQueue) : \A t \in P[k - 1] : ExpireQueuedTurn(t, r.retryQueue[k]) \in P[k]
    PROVE  \E t \in P[Len(r.retryQueue)] : ExpireQueued(r) = [t EXCEPT !.retryQueue = <<>>]
<1> DEFINE n == Len(r.retryQueue)
           f == CHOOSE h : h = [k \in 0 .. n |-> IF k = 0 THEN r ELSE ExpireQueuedTurn(h[k - 1], r.retryQueue[k])]
           step == [k \in 1 .. n |-> [t \in P[k - 1] |-> ExpireQueuedTurn(t, r.retryQueue[k])]]
<1>1. ExpireQueued(r) = [f[n] EXCEPT !.retryQueue = <<>>]
  BY DEF ExpireQueued, Loop
<1>2. n \in Nat /\ \A k \in 1 .. n : \A t \in P[k - 1] : step[k][t] = ExpireQueuedTurn(t, r.retryQueue[k]) /\ step[k][t] \in P[k]
  BY Constants, QueueLength
<1> HIDE DEF step, n
<1>3. LoopOf(n, P, step, r)
  BY <1>2, LoopExists
<1>4. PICK g : Course(g, n, P, step, r)
  BY <1>3 DEF LoopOf
<1>5. ASSUME NEW k \in 0 .. n PROVE g[k] = IF k = 0 THEN r ELSE ExpireQueuedTurn(g[k - 1], r.retryQueue[k])
  <2>1. k # 0 => k \in 1 .. n /\ k - 1 \in 0 .. n
    BY <1>2
  <2>2. QED
    BY <1>2, <1>4, <2>1 DEF Course
<1>6. g = [k \in 0 .. n |-> g[k]]
  BY <1>4 DEF Course
<1>7. g = [k \in 0 .. n |-> IF k = 0 THEN r ELSE ExpireQueuedTurn(g[k - 1], r.retryQueue[k])]
  BY <1>5, <1>6
<1>8. f = [k \in 0 .. n |-> IF k = 0 THEN r ELSE ExpireQueuedTurn(f[k - 1], r.retryQueue[k])]
  BY <1>7
<1> HIDE DEF f
<1>9. f[0] = r /\ \A k \in 1 .. n : f[k] = ExpireQueuedTurn(f[k - 1], r.retryQueue[k])
  BY <1>2, <1>8
<1>10. \A k \in 1 .. n : \A t \in P[k - 1] : ExpireQueuedTurn(t, r.retryQueue[k]) \in P[k]
  BY <1>2
<1>11. f[0] \in P[0] /\ \A k \in 1 .. n : f[k - 1] \in P[k - 1] => f[k] \in P[k]
  BY <1>9, <1>10
<1>12. f[n] \in P[n]
  BY <1>2, <1>11, LoopInduction
<1>13. QED
  BY <1>1, <1>12 DEF n

LEMMA PendingLoop ==
    ASSUME NEW r, NEW P, r \in P[0],
           \A k \in 1 .. N : \A t \in P[k - 1] : ExpirePendingTurn(t, k) \in P[k]
    PROVE  ExpirePending(r) \in P[N]
<1> DEFINE n == N
           f == CHOOSE h : h = [k \in 0 .. n |-> IF k = 0 THEN r ELSE ExpirePendingTurn(h[k - 1], k)]
           step == [k \in 1 .. n |-> [t \in P[k - 1] |-> ExpirePendingTurn(t, k)]]
<1>1. ExpirePending(r) = f[n]
  BY DEF ExpirePending, Loop
<1>2. n \in Nat /\ \A k \in 1 .. n : \A t \in P[k - 1] : step[k][t] = ExpirePendingTurn(t, k) /\ step[k][t] \in P[k]
  BY Constants
<1> HIDE DEF step, n
<1>3. LoopOf(n, P, step, r)
  BY <1>2, LoopExists
<1>4. PICK g : Course(g, n, P, step, r)
  BY <1>3 DEF LoopOf
<1>5. ASSUME NEW k \in 0 .. n PROVE g[k] = IF k = 0 THEN r ELSE ExpirePendingTurn(g[k - 1], k)
  <2>1. k # 0 => k \in 1 .. n /\ k - 1 \in 0 .. n
    BY <1>2
  <2>2. QED
    BY <1>2, <1>4, <2>1 DEF Course
<1>6. g = [k \in 0 .. n |-> g[k]]
  BY <1>4 DEF Course
<1>7. g = [k \in 0 .. n |-> IF k = 0 THEN r ELSE ExpirePendingTurn(g[k - 1], k)]
  BY <1>5, <1>6
<1>8. f = [k \in 0 .. n |-> IF k = 0 THEN r ELSE ExpirePendingTurn(f[k - 1], k)]
  BY <1>7
<1> HIDE DEF f
<1>9. f[0] = r /\ \A k \in 1 .. n : f[k] = ExpirePendingTurn(f[k - 1], k)
  BY <1>2, <1>8
<1>10. \A k \in 1 .. n : \A t \in P[k - 1] : ExpirePendingTurn(t, k) \in P[k]
  BY <1>2
<1>11. f[0] \in P[0] /\ \A k \in 1 .. n : f[k - 1] \in P[k - 1] => f[k] \in P[k]
  BY <1>9, <1>10
<1>12. f[n] \in P[n]
  BY <1>2, <1>11, LoopInduction
<1>13. QED
  BY <1>1, <1>12 DEF n

LEMMA RunningLoop ==
    ASSUME NEW r, NEW P, r \in P[0],
           \A k \in 1 .. N : \A t \in P[k - 1] : ExpireRunningTurn(t, k) \in P[k]
    PROVE  ExpireRunning(r) \in P[N]
<1> DEFINE n == N
           f == CHOOSE h : h = [k \in 0 .. n |-> IF k = 0 THEN r ELSE ExpireRunningTurn(h[k - 1], k)]
           step == [k \in 1 .. n |-> [t \in P[k - 1] |-> ExpireRunningTurn(t, k)]]
<1>1. ExpireRunning(r) = f[n]
  BY DEF ExpireRunning, Loop
<1>2. n \in Nat /\ \A k \in 1 .. n : \A t \in P[k - 1] : step[k][t] = ExpireRunningTurn(t, k) /\ step[k][t] \in P[k]
  BY Constants
<1> HIDE DEF step, n
<1>3. LoopOf(n, P, step, r)
  BY <1>2, LoopExists
<1>4. PICK g : Course(g, n, P, step, r)
  BY <1>3 DEF LoopOf
<1>5. ASSUME NEW k \in 0 .. n PROVE g[k] = IF k = 0 THEN r ELSE ExpireRunningTurn(g[k - 1], k)
  <2>1. k # 0 => k \in 1 .. n /\ k - 1 \in 0 .. n
    BY <1>2
  <2>2. QED
    BY <1>2, <1>4, <2>1 DEF Course
<1>6. g = [k \in 0 .. n |-> g[k]]
  BY <1>4 DEF Course
<1>7. g = [k \in 0 .. n |-> IF k = 0 THEN r ELSE ExpireRunningTurn(g[k - 1], k)]
  BY <1>5, <1>6
<1>8. f = [k \in 0 .. n |-> IF k = 0 THEN r ELSE ExpireRunningTurn(f[k - 1], k)]
  BY <1>7
<1> HIDE DEF f
<1>9. f[0] = r /\ \A k \in 1 .. n : f[k] = ExpireRunningTurn(f[k - 1], k)
  BY <1>2, <1>8
<1>10. \A k \in 1 .. n : \A t \in P[k - 1] : ExpireRunningTurn(t, k) \in P[k]
  BY <1>2
<1>11. f[0] \in P[0] /\ \A k \in 1 .. n : f[k - 1] \in P[k - 1] => f[k] \in P[k]
  BY <1>9, <1>10
<1>12. f[n] \in P[n]
  BY <1>2, <1>11, LoopInduction
<1>13. QED
  BY <1>1, <1>12 DEF n

DrainTurn(outcome, t, i) == Abandon(t, i, IF i \in DOMAIN outcome THEN outcome[i] ELSE "none")
Drained(outcome, r) ==
    Loop(LAMBDA t, i : Abandon(t, i, IF i \in DOMAIN outcome THEN outcome[i] ELSE "none"), r, N)
LEMMA DrainLoop ==
    ASSUME NEW r, NEW outcome, NEW P, r \in P[0],
           \A k \in 1 .. N : \A t \in P[k - 1] : DrainTurn(outcome, t, k) \in P[k]
    PROVE  Drained(outcome, r) \in P[N]
<1> DEFINE n == N
           f == CHOOSE h : h = [k \in 0 .. n |-> IF k = 0 THEN r ELSE DrainTurn(outcome, h[k - 1], k)]
           step == [k \in 1 .. n |-> [t \in P[k - 1] |-> DrainTurn(outcome, t, k)]]
<1>1. Drained(outcome, r) = f[n]
  BY DEF Drained, DrainTurn, Loop
<1>2. n \in Nat /\ \A k \in 1 .. n : \A t \in P[k - 1] : step[k][t] = DrainTurn(outcome, t, k) /\ step[k][t] \in P[k]
  BY Constants
<1> HIDE DEF step, n
<1>3. LoopOf(n, P, step, r)
  BY <1>2, LoopExists
<1>4. PICK g : Course(g, n, P, step, r)
  BY <1>3 DEF LoopOf
<1>5. ASSUME NEW k \in 0 .. n PROVE g[k] = IF k = 0 THEN r ELSE DrainTurn(outcome, g[k - 1], k)
  <2>1. k # 0 => k \in 1 .. n /\ k - 1 \in 0 .. n
    BY <1>2
  <2>2. QED
    BY <1>2, <1>4, <2>1 DEF Course
<1>6. g = [k \in 0 .. n |-> g[k]]
  BY <1>4 DEF Course
<1>7. g = [k \in 0 .. n |-> IF k = 0 THEN r ELSE DrainTurn(outcome, g[k - 1], k)]
  BY <1>5, <1>6
<1>8. f = [k \in 0 .. n |-> IF k = 0 THEN r ELSE DrainTurn(outcome, f[k - 1], k)]
  BY <1>7
<1> HIDE DEF f
<1>9. f[0] = r /\ \A k \in 1 .. n : f[k] = DrainTurn(outcome, f[k - 1], k)
  BY <1>2, <1>8
<1>10. \A k \in 1 .. n : \A t \in P[k - 1] : DrainTurn(outcome, t, k) \in P[k]
  BY <1>2
<1>11. f[0] \in P[0] /\ \A k \in 1 .. n : f[k - 1] \in P[k - 1] => f[k] \in P[k]
  BY <1>9, <1>10
<1>12. f[n] \in P[n]
  BY <1>2, <1>11, LoopInduction
<1>13. QED
  BY <1>1, <1>12 DEF n

Code(worker) == Loop(LAMBDA code, i : ExitCodeTurn(worker[i], code), 0, N)
LEMMA CodeLoop ==
    ASSUME NEW worker, NEW P, 0 \in P[0],
           \A k \in 1 .. N : \A t \in P[k - 1] : ExitCodeTurn(worker[k], t) \in P[k]
    PROVE  Code(worker) \in P[N]
<1> DEFINE n == N
           f == CHOOSE h : h = [k \in 0 .. n |-> IF k = 0 THEN 0 ELSE ExitCodeTurn(worker[k], h[k - 1])]
           step == [k \in 1 .. n |-> [t \in P[k - 1] |-> ExitCodeTurn(worker[k], t)]]
<1>1. Code(worker) = f[n]
  BY DEF Code, Loop
<1>2. n \in Nat /\ \A k \in 1 .. n : \A t \in P[k - 1] : step[k][t] = ExitCodeTurn(worker[k], t) /\ step[k][t] \in P[k]
  BY Constants
<1> HIDE DEF step, n
<1>3. LoopOf(n, P, step, 0)
  BY <1>2, LoopExists
<1>4. PICK g : Course(g, n, P, step, 0)
  BY <1>3 DEF LoopOf
<1>5. ASSUME NEW k \in 0 .. n PROVE g[k] = IF k = 0 THEN 0 ELSE ExitCodeTurn(worker[k], g[k - 1])
  <2>1. k # 0 => k \in 1 .. n /\ k - 1 \in 0 .. n
    BY <1>2
  <2>2. QED
    BY <1>2, <1>4, <2>1 DEF Course
<1>6. g = [k \in 0 .. n |-> g[k]]
  BY <1>4 DEF Course
<1>7. g = [k \in 0 .. n |-> IF k = 0 THEN 0 ELSE ExitCodeTurn(worker[k], g[k - 1])]
  BY <1>5, <1>6
<1>8. f = [k \in 0 .. n |-> IF k = 0 THEN 0 ELSE ExitCodeTurn(worker[k], f[k - 1])]
  BY <1>7
<1> HIDE DEF f
<1>9. f[0] = 0 /\ \A k \in 1 .. n : f[k] = ExitCodeTurn(worker[k], f[k - 1])
  BY <1>2, <1>8
<1>10. \A k \in 1 .. n : \A t \in P[k - 1] : ExitCodeTurn(worker[k], t) \in P[k]
  BY <1>2
<1>11. f[0] \in P[0] /\ \A k \in 1 .. n : f[k - 1] \in P[k - 1] => f[k] \in P[k]
  BY <1>9, <1>10
<1>12. f[n] \in P[n]
  BY <1>2, <1>11, LoopInduction
<1>13. QED
  BY <1>1, <1>12 DEF n

-----------------------------------------------------------------------------
\* teardown() for the deadline, under way on a run that was r.
HaltBut(r, t, b, J) ==
    /\ "timedOut" \in t.stops /\ t.timers \cap RetryTimers = {}
    /\ \A i \in Workers \ J : ~t.worker[i].counted /\ RetryTimer(i) \in b => t.worker[i].awaitingRetry
    /\ DrainTimed(t, b) /\ Keeps(r, t) /\ t.inFlight = r.inFlight
Halting(r, t, b) == Books(t) /\ HaltBut(r, t, b, {})

\* What it makes of one worker.
Edited(t, x, i, v, n) == x = [t EXCEPT !.worker = [t.worker EXCEPT ![i] = v], !.next = n]

LEMMA EditFields ==
    ASSUME NEW t \in RunType, NEW i \in Workers, NEW v \in WorkerType, NEW n \in 1 .. N + 1,
           NEW x, Edited(t, x, i, v, n)
    PROVE  /\ x \in RunType /\ x.worker[i] = v /\ \A j \in Workers \ {i} : x.worker[j] = t.worker[j]
           /\ x.next = n /\ x.inFlight = t.inFlight /\ x.retryQueue = t.retryQueue
           /\ x.stops = t.stops /\ x.drainArmed = t.drainArmed /\ x.timers = t.timers
           /\ x.stopped = t.stopped /\ x.remaining = t.remaining
<1> DEFINE W == [t.worker EXCEPT ![i] = v]
<1>1. W \in [Workers -> WorkerType] /\ W[i] = v /\ \A j \in Workers \ {i} : W[j] = t.worker[j]
  BY RunFields
<1>2. x = [t EXCEPT !.worker = W, !.next = n]
  BY DEF Edited
<1> HIDE DEF W
<1>3. /\ x \in RunType /\ x.worker = W
      /\ x.next = n /\ x.inFlight = t.inFlight /\ x.retryQueue = t.retryQueue
      /\ x.stops = t.stops /\ x.drainArmed = t.drainArmed /\ x.timers = t.timers
      /\ x.stopped = t.stopped /\ x.remaining = t.remaining
  BY <1>1, <1>2 DEF RunType
<1>4. QED
  BY <1>1, <1>3

\* Such an edit of a worker without a child, and of who is next, spares the rest.
LEMMA EditEffect ==
    ASSUME NEW r, NEW b, NEW t, Halting(r, t, b), NEW i \in Workers, NEW v \in WorkerType,
           NEW n \in 1 .. N + 1, t.next <= n, NEW x, Edited(t, x, i, v, n),
           (v.life = "running") = (t.worker[i].life = "running"), v.counted = t.worker[i].counted,
           v.counted => /\ v.life = "exited" /\ v.open = {} /\ v.status = t.worker[i].status
                        /\ v.starts = t.worker[i].starts
    PROVE  /\ x \in RunType /\ Counters(x) /\ Caused(x) /\ HaltBut(r, x, b, {i})
           /\ \A j \in Workers \ {i} : Worker(x, j)
<1>1. /\ x \in RunType /\ x.worker[i] = v /\ \A j \in Workers \ {i} : x.worker[j] = t.worker[j]
      /\ x.next = n /\ x.inFlight = t.inFlight /\ x.retryQueue = t.retryQueue
      /\ x.stops = t.stops /\ x.drainArmed = t.drainArmed /\ x.timers = t.timers
      /\ x.stopped = t.stopped /\ x.remaining = t.remaining
  BY EditFields DEF Halting, Books
<1>2. Books(t) /\ HaltBut(r, t, b, {}) /\ t \in RunType
  BY DEF Halting, Books
<1>3. Counters(x)
  <2>1. Uncounted(x) = Uncounted(t) /\ Alive(x) = Alive(t)
    BY <1>1 DEF Uncounted, Alive
  <2>2. QED
    BY <1>1, <1>2, <2>1 DEF Books, Counters
<1>4. Caused(x)
  BY <1>1, <1>2 DEF Caused, HaltBut
<1>5. ASSUME NEW j \in Workers \ {i} PROVE Worker(x, j)
  <2>1. Worker(t, j) /\ x.worker[j] = t.worker[j]
    BY <1>1, <1>2 DEF Books
  <2>2. j >= n => j >= t.next
    BY <1>2, Constants, RunFields
  <2>3. QED
    BY <1>1, <2>1, <2>2 DEF Worker
<1>6. Keeps(r, x)
  <2>1. Keeps(t, x)
    <3>1. t.worker[i].counted => t.worker[i].life = "exited" /\ t.worker[i].open = {}
      BY <1>2 DEF Books, Worker, Shape
    <3>2. QED
      BY <1>1, <3>1 DEF Keeps
  <2>2. QED
    BY <1>2, <2>1 DEF HaltBut, Keeps
<1>7. HaltBut(r, x, b, {i})
  BY <1>1, <1>2, <1>6 DEF HaltBut, DrainTimed
<1>8. QED
  BY <1>1, <1>3, <1>4, <1>5, <1>7

\* The end of a worker in line.
LEMMA EndForm ==
    ASSUME NEW t \in RunType, NEW i \in Workers
    PROVE  LET w == t.worker[i]
               v == [w EXCEPT !.marks = @ \cup {"timedOut"}, !.life = "exited", !.open = {}]
           IN  /\ Edited(t, EndUnstarted(t, i, "timedOut"), i, v, t.next)
               /\ v \in WorkerType /\ v.life = "exited" /\ v.open = {} /\ v.marks = w.marks \cup {"timedOut"}
               /\ v.counted = w.counted /\ v.awaitingRetry = w.awaitingRetry /\ v.starts = w.starts
               /\ v.status = w.status /\ v.attempt = w.attempt
<1> DEFINE w == t.worker[i]
           v == [w EXCEPT !.marks = @ \cup {"timedOut"}, !.life = "exited", !.open = {}]
<1>1. w \in WorkerType /\ t.worker \in [Workers -> WorkerType]
  BY RunFields
<1>2. w.marks \cup {"timedOut"} \in SUBSET Reasons
  BY <1>1 DEF WorkerType, Reasons
<1>3. /\ v \in WorkerType /\ v.life = "exited" /\ v.open = {} /\ v.marks = w.marks \cup {"timedOut"}
      /\ v.counted = w.counted /\ v.awaitingRetry = w.awaitingRetry /\ v.starts = w.starts
      /\ v.status = w.status /\ v.attempt = w.attempt
  BY <1>1, <1>2 DEF WorkerType
<1>4. EndUnstarted(t, i, "timedOut") = [t EXCEPT !.worker = [t.worker EXCEPT ![i] = v]]
  <2>1. Mark(t, i, "timedOut") = [t EXCEPT !.worker = [t.worker EXCEPT ![i].marks = @ \cup {"timedOut"}]]
    BY <1>1 DEF Mark, RunType
  <2> DEFINE V == [t.worker EXCEPT ![i].marks = @ \cup {"timedOut"}]
  <2>2. [V EXCEPT ![i].life = "exited", ![i].open = {}] = [t.worker EXCEPT ![i] = v]
    BY <1>1, <1>2 DEF WorkerType
  <2> HIDE DEF V, v
  <2> DEFINE U == [t.worker EXCEPT ![i] = v]
             x == [t EXCEPT !.worker = V]
  <2>3. [V EXCEPT ![i].life = "exited", ![i].open = {}] = U
    BY <2>2
  <2> HIDE DEF U
  <2>4. EndUnstarted(t, i, "timedOut") = [x EXCEPT !.worker[i].life = "exited", !.worker[i].open = {}]
    BY <2>1 DEF EndUnstarted, V
  <2>5. EndUnstarted(t, i, "timedOut") = [t EXCEPT !.worker = U]
    BY <2>3, <2>4 DEF RunType
  <2>6. QED
    BY <2>5 DEF U
<1> HIDE DEF v
<1>5. [t EXCEPT !.worker = [t.worker EXCEPT ![i] = v]]
      = [t EXCEPT !.worker = [t.worker EXCEPT ![i] = v], !.next = t.next]
  BY DEF RunType
<1>6. QED
  BY <1>3, <1>4, <1>5 DEF Edited, v

\* account() of a worker that the deadline has ended.
LEMMA HaltAccount ==
    ASSUME NEW r, NEW b, NEW x, NEW i \in Workers, Open(x, i), HaltBut(r, x, b, {i}),
           "timedOut" \in x.worker[i].marks, InLine(x) \subseteq Queued(x),
           \A j \in Queued(x) \ {i} : x.worker[j].life = "waiting" \/ x.worker[j].counted
    PROVE  LET s == Account(x, i)
           IN  /\ Halting(r, s, b) /\ Keeps(x, s) /\ s.worker[i].counted
               /\ Counted(x, s, i) \/ (Halted(x, s, i) /\ InLine(s) = {})
<1>1. PICK s : s = Account(x, i)
  OBVIOUS
<1>2. /\ "timedOut" \in x.stops /\ x.timers \cap RetryTimers = {}
      /\ \A j \in Workers \ {i} : ~x.worker[j].counted /\ RetryTimer(j) \in b => x.worker[j].awaitingRetry
      /\ DrainTimed(x, b) /\ Keeps(r, x) /\ x.inFlight = r.inFlight
  BY DEF HaltBut
<1>3. Books(s) /\ Keeps(x, s) /\ (Retried(x, s, i) \/ Counted(x, s, i) \/ Halted(x, s, i))
  BY <1>1, <1>2, AccountEffect
<1>4. ~Retried(x, s, i)
  BY DEF Retried, MayRetry, Retryable
<1>5. Keeps(r, s)
  BY <1>2, <1>3 DEF Keeps
<1>6. CASE Counted(x, s, i)
  <2>1. /\ s.inFlight = x.inFlight /\ s.timers = x.timers /\ s.drainArmed = x.drainArmed /\ s.stops = x.stops
        /\ s.worker[i].counted /\ \A j \in Workers \ {i} : s.worker[j] = x.worker[j]
    BY <1>6 DEF Counted, SameBut
  <2>2. HaltBut(r, s, b, {})
    BY <1>2, <1>5, <2>1 DEF HaltBut, DrainTimed
  <2>3. QED
    BY <1>1, <1>3, <1>6, <2>1, <2>2 DEF Halting
<1>7. CASE Halted(x, s, i)
  <2>1. /\ s.inFlight = x.inFlight /\ s.stops = x.stops \cup {"aborted"} /\ s.drainArmed
        /\ s.timers = (x.timers \ RetryTimers) \cup (IF x.drainArmed THEN {} ELSE {DrainTimer})
        /\ s.worker[i].counted /\ Settled(s) /\ \A j \in Workers : x.worker[j].awaitingRetry => s.worker[j].counted
    BY <1>7 DEF Halted
  <2>2. \A j \in Workers : s.worker[j].life # "waiting"
    BY <1>3, <2>1, NobodyInLine
  <2>3. \A j \in Workers : ~s.worker[j].counted => RetryTimer(j) \notin b
    BY <1>2, <1>3, <2>1 DEF Keeps
  <2>4. DrainTimed(s, b) /\ s.timers \cap RetryTimers = {}
    BY <1>2, <2>1, RetryTimers1 DEF DrainTimed
  <2>5. HaltBut(r, s, b, {})
    BY <1>2, <1>5, <2>1, <2>3, <2>4 DEF HaltBut
  <2>6. QED
    BY <1>1, <1>3, <1>7, <2>1, <2>2, <2>5 DEF Halting, InLine
<1>8. QED
  BY <1>3, <1>4, <1>6, <1>7

\* The loop over the workers waiting for a respawn, after its kth turn.
QueuedSoFar(r, q, b, t, k) ==
    /\ Halting(r, t, b)
    /\ t.retryQueue = q \/ t.retryQueue = <<>>
    /\ InLine(t) \subseteq {q[j] : j \in k + 1 .. Len(q)} /\ InLine(t) \subseteq Queued(t)
    /\ \A j \in ToSet(q) : j < t.next /\ (t.worker[j].life = "waiting" \/ t.worker[j].counted)

LEMMA QueuedTurn ==
    ASSUME NEW r, NEW b, NEW q \in Seq(Workers), NEW t, NEW k \in 1 .. Len(q), QueuedSoFar(r, q, b, t, k - 1)
    PROVE  QueuedSoFar(r, q, b, ExpireQueuedTurn(t, q[k]), k)
<1>1. PICK i : i = q[k]
  OBVIOUS
<1>2. Len(q) \in Nat /\ k \in Nat /\ i \in Workers /\ i \in ToSet(q) /\ ToSet(q) \subseteq Workers
  BY <1>1 DEF ToSet
<1>3. /\ Halting(r, t, b)
      /\ t.retryQueue = q \/ t.retryQueue = <<>>
      /\ InLine(t) \subseteq {q[j] : j \in k .. Len(q)} /\ InLine(t) \subseteq Queued(t)
      /\ \A j \in ToSet(q) : j < t.next /\ (t.worker[j].life = "waiting" \/ t.worker[j].counted)
  <2>1. (k - 1) + 1 = k
    BY <1>2
  <2>2. QED
    BY <2>1 DEF QueuedSoFar
<1>4. {q[j] : j \in k .. Len(q)} \ {i} \subseteq {q[j] : j \in k + 1 .. Len(q)}
  BY <1>1, <1>2
<1> DEFINE w == t.worker[i]
           v == [w EXCEPT !.marks = @ \cup {"timedOut"}, !.life = "exited", !.open = {}]
<1>5. t \in RunType /\ Books(t) /\ Shape(w) /\ Worker(t, i) /\ HaltBut(r, t, b, {})
  BY <1>2, <1>3 DEF Halting, Books, Worker
<1>6. PICK x : x = EndUnstarted(t, i, "timedOut")
  OBVIOUS
<1>7. /\ Edited(t, x, i, v, t.next)
      /\ v \in WorkerType /\ v.life = "exited" /\ v.open = {} /\ v.marks = w.marks \cup {"timedOut"}
      /\ v.counted = w.counted /\ v.awaitingRetry = w.awaitingRetry /\ v.starts = w.starts
      /\ v.status = w.status /\ v.attempt = w.attempt
  BY <1>2, <1>5, <1>6, EndForm, ZenonT(60)
<1> HIDE DEF v
<1>8. t.next \in 1 .. N + 1 /\ t.next <= t.next /\ w.life # "running"
  BY <1>2, <1>3, <1>5, RunFields DEF Shape
<1>9. /\ x \in RunType /\ Counters(x) /\ Caused(x) /\ HaltBut(r, x, b, {i})
      /\ \A j \in Workers \ {i} : Worker(x, j)
  <2>1. (v.life = "running") = (t.worker[i].life = "running") /\ v.counted = t.worker[i].counted
    BY <1>7, <1>8
  <2>2. v.counted => /\ v.life = "exited" /\ v.open = {} /\ v.status = t.worker[i].status
                     /\ v.starts = t.worker[i].starts
    BY <1>7
  <2>3. QED
    BY <1>2, <1>3, <1>7, <1>8, <2>1, <2>2, EditEffect
<1>10. /\ x.worker[i] = v /\ \A j \in Workers \ {i} : x.worker[j] = t.worker[j]
       /\ x.next = t.next /\ x.retryQueue = t.retryQueue /\ x.stops = t.stops
  BY <1>2, <1>5, <1>7, <1>8, EditFields
<1>11. InLine(x) \subseteq InLine(t) \ {i} /\ Queued(x) = Queued(t) /\ Queued(t) \subseteq ToSet(q)
  <2>1. ToSet(<<>>) = {}
    BY DEF ToSet
  <2>2. QED
    BY <1>3, <1>7, <1>10, <2>1 DEF InLine, Queued
<1>12. v.marks \subseteq x.stops /\ i < x.next
  BY <1>2, <1>3, <1>5, <1>7, <1>10 DEF HaltBut, Worker
<1>13. PICK s : s = Account(x, i)
  OBVIOUS
<1>14. s = ExpireQueuedTurn(t, q[k])
  BY <1>1, <1>6, <1>13 DEF ExpireQueuedTurn
<1>15. CASE w.life = "waiting"
  <2>1. ~w.counted /\ ~w.awaitingRetry
    BY <1>5, <1>15 DEF Shape
  <2>2. Open(x, i)
    BY <1>7, <1>9, <1>10, <1>12, <2>1 DEF Open, Ended
  <2>3. InLine(x) \subseteq Queued(x) /\ "timedOut" \in x.worker[i].marks
    BY <1>3, <1>7, <1>10, <1>11
  <2>4. \A j \in Queued(x) \ {i} : x.worker[j].life = "waiting" \/ x.worker[j].counted
    BY <1>2, <1>3, <1>10, <1>11
  <2>5. /\ Halting(r, s, b) /\ Keeps(x, s) /\ s.worker[i].counted
        /\ Counted(x, s, i) \/ (Halted(x, s, i) /\ InLine(s) = {})
    BY <1>2, <1>9, <1>13, <2>2, <2>3, <2>4, HaltAccount
  <2>6. CASE Counted(x, s, i)
    <3>1. /\ s.next = x.next /\ s.retryQueue = x.retryQueue /\ s.worker[i].life = "exited"
          /\ s.worker[i].counted /\ \A j \in Workers \ {i} : s.worker[j] = x.worker[j]
      BY <2>6 DEF Counted, SameBut
    <3>2. InLine(s) \subseteq InLine(x) /\ Queued(s) = Queued(x)
      BY <3>1 DEF InLine, Queued
    <3>3. InLine(s) \subseteq {q[j] : j \in k + 1 .. Len(q)} /\ InLine(s) \subseteq Queued(s)
      BY <1>3, <1>4, <1>11, <3>2
    <3>4. \A j \in ToSet(q) : j < s.next /\ (s.worker[j].life = "waiting" \/ s.worker[j].counted)
      BY <1>2, <1>3, <1>10, <3>1
    <3>5. s.retryQueue = q \/ s.retryQueue = <<>>
      BY <1>3, <1>10, <3>1
    <3>6. QED
      BY <1>14, <2>5, <3>3, <3>4, <3>5 DEF QueuedSoFar
  <2>7. CASE Halted(x, s, i) /\ InLine(s) = {}
    <3>1. /\ s.next = N + 1 /\ s.retryQueue = <<>> /\ s.worker[i].counted
          /\ \A j \in Workers : x.worker[j].life = "waiting" => s.worker[j].counted
      BY <2>7 DEF Halted
    <3>2. \A j \in ToSet(q) : s.worker[j].counted
      BY <1>2, <1>3, <1>10, <2>5, <3>1 DEF Keeps
    <3>3. \A j \in ToSet(q) : j < s.next
      BY <1>2, <3>1, Constants
    <3>4. QED
      BY <1>14, <2>5, <2>7, <3>1, <3>2, <3>3 DEF QueuedSoFar
  <2>8. QED
    BY <2>5, <2>6, <2>7
<1>16. CASE w.counted
  <2>1. s = x
    BY <1>2, <1>7, <1>10, <1>13, <1>16, AccountIdle
  <2>2. Worker(x, i)
    <3>1. Shape(v) /\ Final(v, x.stops)
      BY <1>5, <1>7, <1>16 DEF Shape, Final
    <3>2. ~(i >= x.next)
      BY <1>2, <1>8, <1>10, <1>12, Constants
    <3>3. QED
      BY <1>10, <1>12, <3>1, <3>2 DEF Worker
  <2>3. Books(x)
    BY <1>9, <2>2 DEF Books
  <2>4. Halting(r, x, b)
    BY <1>7, <1>9, <1>10, <1>16, <2>3 DEF Halting, HaltBut
  <2>5. InLine(x) \subseteq {q[j] : j \in k + 1 .. Len(q)} /\ InLine(x) \subseteq Queued(x)
    BY <1>3, <1>4, <1>11
  <2>6. \A j \in ToSet(q) : j < x.next /\ (x.worker[j].life = "waiting" \/ x.worker[j].counted)
    BY <1>2, <1>3, <1>7, <1>10, <1>16
  <2>7. QED
    BY <1>3, <1>10, <1>14, <2>1, <2>4, <2>5, <2>6 DEF QueuedSoFar
<1>17. QED
  BY <1>2, <1>3, <1>15, <1>16

\* The loop over the workers never started.
PendingSoFar(r, b, t, k) ==
    Halting(r, t, b) /\ t.retryQueue = <<>> /\ InLine(t) = {} /\ t.next > k

LEMMA PendingTurn ==
    ASSUME NEW r, NEW b, NEW t, NEW i \in Workers, PendingSoFar(r, b, t, i - 1)
    PROVE  PendingSoFar(r, b, ExpirePendingTurn(t, i), i)
<1>1. Halting(r, t, b) /\ t.retryQueue = <<>> /\ InLine(t) = {} /\ t.next > i - 1
  BY DEF PendingSoFar
<1>2. t \in RunType /\ Books(t) /\ HaltBut(r, t, b, {}) /\ t.next \in 1 .. N + 1
  BY <1>1, RunFields DEF Halting, Books
<1>3. CASE t.next > i
  BY <1>1, <1>3 DEF ExpirePendingTurn, PendingSoFar
<1>4. CASE ~(t.next > i)
  <2>1. t.next = i /\ i + 1 \in 1 .. N + 1 /\ i \in Nat /\ t.next <= i + 1
    BY <1>1, <1>2, <1>4, Constants
  <2> DEFINE w == t.worker[i]
             v == [w EXCEPT !.marks = @ \cup {"timedOut"}, !.life = "exited", !.open = {}]
             n == i + 1
             u == [t EXCEPT !.next = n]
  <2>2. w \in WorkerType /\ w.life = "waiting" /\ w.marks = {} /\ ~w.counted /\ ~w.awaitingRetry
    BY <1>2, <2>1, RunFields DEF Books, Worker, Shape
  <2> HIDE DEF n
  <2>3. u \in RunType /\ u.worker = t.worker /\ u.next = n
    BY <1>2, <2>1 DEF RunType, n
  <2>4. PICK x : x = EndUnstarted(u, i, "timedOut")
    OBVIOUS
  <2>5. /\ Edited(u, x, i, v, u.next)
        /\ v \in WorkerType /\ v.life = "exited" /\ v.open = {} /\ v.marks = w.marks \cup {"timedOut"}
        /\ v.counted = w.counted /\ v.awaitingRetry = w.awaitingRetry /\ v.starts = w.starts
        /\ v.status = w.status /\ v.attempt = w.attempt
    <3> HIDE DEF u
    <3> DEFINE y == u.worker[i]
               z == [y EXCEPT !.marks = @ \cup {"timedOut"}, !.life = "exited", !.open = {}]
    <3>1. /\ Edited(u, x, i, z, u.next)
          /\ z \in WorkerType /\ z.life = "exited" /\ z.open = {} /\ z.marks = y.marks \cup {"timedOut"}
          /\ z.counted = y.counted /\ z.awaitingRetry = y.awaitingRetry /\ z.starts = y.starts
          /\ z.status = y.status /\ z.attempt = y.attempt
      BY <2>3, <2>4, EndForm, ZenonT(60)
    <3>2. y = w /\ z = v
      BY <2>3
    <3>3. QED
      BY <3>1, <3>2
  <2>6. Edited(t, x, i, v, n)
    <3> DEFINE W == [t.worker EXCEPT ![i] = v]
    <3>1. x = [u EXCEPT !.worker = W, !.next = n]
      BY <2>3, <2>5 DEF Edited
    <3> HIDE DEF W
    <3>2. x = [t EXCEPT !.worker = W, !.next = n]
      BY <1>2, <3>1 DEF RunType
    <3>3. QED
      BY <3>2 DEF Edited, W
  <2> HIDE DEF v
  <2>7. n \in 1 .. N + 1 /\ t.next <= n
    BY <2>1 DEF n
  <2>8. /\ x \in RunType /\ Counters(x) /\ Caused(x) /\ HaltBut(r, x, b, {i})
        /\ \A j \in Workers \ {i} : Worker(x, j)
    <3>1. (v.life = "running") = (t.worker[i].life = "running") /\ v.counted = t.worker[i].counted /\ ~v.counted
      BY <2>2, <2>5
    <3>2. QED
      BY <1>1, <2>5, <2>6, <2>7, <3>1, EditEffect
  <2>9. /\ x.worker[i] = v /\ \A j \in Workers \ {i} : x.worker[j] = t.worker[j]
        /\ x.next = n /\ x.retryQueue = <<>> /\ x.stops = t.stops
    BY <1>1, <1>2, <2>5, <2>6, <2>7, EditFields
  <2>10. Open(x, i)
    <3>1. i < x.next
      BY <2>1, <2>9 DEF n
    <3>2. x.worker[i].marks \subseteq x.stops
      BY <1>2, <2>2, <2>5, <2>9 DEF HaltBut
    <3>3. Ended(x.worker[i])
      BY <2>2, <2>5, <2>9 DEF Ended
    <3>4. QED
      BY <2>8, <3>1, <3>2, <3>3 DEF Open
  <2>11. InLine(x) = {} /\ Queued(x) = {}
    <3>1. ASSUME NEW j \in Workers, x.worker[j].life = "waiting", j < x.next PROVE FALSE
      <4>1. j # i /\ j < i
        BY <2>1, <2>5, <2>9, <3>1, Constants DEF n
      <4>2. j \in InLine(t)
        BY <2>1, <2>9, <3>1, <4>1 DEF InLine
      <4>3. QED
        BY <1>1, <4>2
    <3>2. Queued(x) = {}
      BY <2>9 DEF Queued, ToSet
    <3>3. QED
      BY <3>1, <3>2 DEF InLine
  <2>12. PICK s : s = Account(x, i)
    OBVIOUS
  <2>13. s = ExpirePendingTurn(t, i)
    BY <1>4, <2>4, <2>12 DEF ExpirePendingTurn, n
  <2>14. /\ Halting(r, s, b) /\ Keeps(x, s) /\ s.worker[i].counted
         /\ Counted(x, s, i) \/ (Halted(x, s, i) /\ InLine(s) = {})
    <3>1. "timedOut" \in x.worker[i].marks /\ InLine(x) \subseteq Queued(x)
      BY <2>5, <2>9, <2>11
    <3>2. \A j \in Queued(x) \ {i} : x.worker[j].life = "waiting" \/ x.worker[j].counted
      BY <2>11
    <3>3. QED
      BY <2>8, <2>10, <2>12, <3>1, <3>2, HaltAccount
  <2>15. CASE Counted(x, s, i)
    <3>1. s.next = n /\ s.retryQueue = <<>> /\ s.worker[i].life = "exited"
          /\ \A j \in Workers \ {i} : s.worker[j] = x.worker[j]
      BY <2>9, <2>15 DEF Counted, SameBut
    <3>2. InLine(s) = {}
      BY <2>9, <2>11, <3>1 DEF InLine
    <3>3. s.next > i
      BY <2>1, <3>1 DEF n
    <3>4. QED
      BY <2>13, <2>14, <3>1, <3>2, <3>3 DEF PendingSoFar
  <2>16. CASE Halted(x, s, i) /\ InLine(s) = {}
    <3>1. s.next = N + 1 /\ s.retryQueue = <<>>
      BY <2>16 DEF Halted
    <3>2. s.next > i
      BY <3>1, Constants
    <3>3. QED
      BY <2>13, <2>14, <2>16, <3>1, <3>2 DEF PendingSoFar
  <2>17. QED
    BY <2>14, <2>15, <2>16
<1>5. QED
  BY <1>3, <1>4

\* The loop over the workers with a child, a pipe or a backoff.
RunningSoFar(r, b, t, k) ==
    /\ Halting(r, t, b) /\ t.retryQueue = <<>> /\ InLine(t) = {} /\ t.next = N + 1
    /\ \A i \in Workers : i <= k /\ ~t.worker[i].counted => Doomed(t.worker[i], t.stops)

\* What mark() and the end of the backoff make of a run.
LEMMA MarkForm ==
    ASSUME NEW t \in RunType, NEW i \in Workers, NEW waits \in BOOLEAN
    PROVE  LET w == t.worker[i]
               v == [w EXCEPT !.marks = @ \cup {"timedOut"}, !.awaitingRetry = waits]
           IN  /\ waits = w.awaitingRetry => Edited(t, Mark(t, i, "timedOut"), i, v, t.next)
               /\ Edited(t, [Mark(t, i, "timedOut") EXCEPT !.worker[i].awaitingRetry = waits], i, v, t.next)
               /\ v \in WorkerType /\ v.life = w.life /\ v.open = w.open /\ v.marks = w.marks \cup {"timedOut"}
               /\ v.counted = w.counted /\ v.awaitingRetry = waits /\ v.starts = w.starts
               /\ v.status = w.status /\ v.attempt = w.attempt
<1> DEFINE w == t.worker[i]
           v == [w EXCEPT !.marks = @ \cup {"timedOut"}, !.awaitingRetry = waits]
           m == Mark(t, i, "timedOut")
<1>1. w \in WorkerType /\ t.worker \in [Workers -> WorkerType]
  BY RunFields
<1>2. w.marks \cup {"timedOut"} \in SUBSET Reasons
  BY <1>1 DEF WorkerType, Reasons
<1>3. /\ v \in WorkerType /\ v.life = w.life /\ v.open = w.open /\ v.marks = w.marks \cup {"timedOut"}
      /\ v.counted = w.counted /\ v.awaitingRetry = waits /\ v.starts = w.starts
      /\ v.status = w.status /\ v.attempt = w.attempt
  BY <1>1, <1>2 DEF WorkerType
<1> DEFINE V == [t.worker EXCEPT ![i].marks = @ \cup {"timedOut"}]
           U == [t.worker EXCEPT ![i] = v]
<1>4. m = [t EXCEPT !.worker = V]
  BY <1>1 DEF Mark, RunType
<1>5. [V EXCEPT ![i].awaitingRetry = waits] = U /\ (waits = w.awaitingRetry => V = U)
  BY <1>1, <1>2 DEF WorkerType
<1> HIDE DEF V, U, m
<1>6. [m EXCEPT !.worker[i].awaitingRetry = waits] = [t EXCEPT !.worker = U]
  BY <1>4, <1>5 DEF RunType
<1>7. [t EXCEPT !.worker = U] = [t EXCEPT !.worker = U, !.next = t.next]
  BY DEF RunType
<1>8. Edited(t, [m EXCEPT !.worker[i].awaitingRetry = waits], i, v, t.next)
  BY <1>6, <1>7 DEF Edited, U
<1>9. waits = w.awaitingRetry => Edited(t, m, i, v, t.next)
  BY <1>4, <1>5, <1>7 DEF Edited, U
<1>10. QED
  BY <1>3, <1>8, <1>9 DEF m

LEMMA RunningTurn ==
    ASSUME NEW r, NEW b, NEW t, NEW i \in Workers, RunningSoFar(r, b, t, i - 1)
    PROVE  RunningSoFar(r, b, ExpireRunningTurn(t, i), i)
<1>1. /\ Halting(r, t, b) /\ t.retryQueue = <<>> /\ InLine(t) = {} /\ t.next = N + 1
      /\ \A j \in Workers : j < i /\ ~t.worker[j].counted => Doomed(t.worker[j], t.stops)
  <2>1. \A j \in Workers : j < i => j <= i - 1
    BY Constants
  <2>2. QED
    BY <2>1 DEF RunningSoFar
<1>2. t \in RunType /\ Books(t) /\ HaltBut(r, t, b, {}) /\ t.next \in 1 .. N + 1 /\ t.next <= t.next
  BY <1>1, RunFields DEF Halting, Books
<1> DEFINE w == t.worker[i]
<1>3. w \in WorkerType /\ Shape(w) /\ w.marks \subseteq t.stops /\ w.life # "waiting" /\ "timedOut" \in t.stops
  <2>1. i < t.next
    BY <1>1, Constants
  <2>2. QED
    BY <1>1, <1>2, <2>1, RunFields DEF Books, Worker, HaltBut, InLine
<1>4. \A j \in Workers : j <= i => j < i \/ j = i
  BY Constants
<1>5. CASE w.counted
  <2>1. ExpireRunningTurn(t, i) = t
    BY <1>3, <1>5 DEF ExpireRunningTurn, Shape
  <2>2. QED
    BY <1>1, <1>4, <1>5, <2>1 DEF RunningSoFar
<1>6. CASE ~w.counted /\ w.awaitingRetry
  <2> DEFINE v == [w EXCEPT !.marks = @ \cup {"timedOut"}, !.awaitingRetry = FALSE]
  <2>1. PICK x : x = [Mark(t, i, "timedOut") EXCEPT !.worker[i].awaitingRetry = FALSE]
    OBVIOUS
  <2>2. /\ Edited(t, x, i, v, t.next)
        /\ v \in WorkerType /\ v.life = w.life /\ v.open = w.open /\ v.marks = w.marks \cup {"timedOut"}
        /\ v.counted = w.counted /\ v.awaitingRetry = FALSE /\ v.starts = w.starts
    BY <1>2, <2>1, MarkForm, ZenonT(60)
  <2> HIDE DEF v
  <2>3. v.life = "exited" /\ v.open = {} /\ ~v.counted
    BY <1>3, <1>6, <2>2 DEF Shape
  <2>4. /\ x \in RunType /\ Counters(x) /\ Caused(x) /\ HaltBut(r, x, b, {i})
        /\ \A j \in Workers \ {i} : Worker(x, j)
    <3>1. (v.life = "running") = (t.worker[i].life = "running") /\ v.counted = t.worker[i].counted
      BY <2>2
    <3>2. QED
      BY <1>1, <1>2, <2>2, <2>3, <3>1, EditEffect
  <2>5. /\ x.worker[i] = v /\ \A j \in Workers \ {i} : x.worker[j] = t.worker[j]
        /\ x.next = N + 1 /\ x.retryQueue = <<>> /\ x.stops = t.stops
    BY <1>1, <1>2, <2>2, EditFields
  <2>6. Open(x, i)
    <3>1. i < x.next
      BY <2>5, Constants
    <3>2. x.worker[i].marks \subseteq x.stops
      BY <1>3, <2>2, <2>5
    <3>3. Ended(x.worker[i])
      BY <2>2, <2>3, <2>5 DEF Ended
    <3>4. QED
      BY <2>4, <3>1, <3>2, <3>3 DEF Open
  <2>7. InLine(x) = {} /\ Queued(x) = {}
    BY <1>1, <2>3, <2>5 DEF InLine, Queued, ToSet
  <2>8. PICK s : s = Account(x, i)
    OBVIOUS
  <2>9. s = ExpireRunningTurn(t, i)
    BY <1>6, <2>1, <2>8 DEF ExpireRunningTurn
  <2>10. /\ Halting(r, s, b) /\ Keeps(x, s) /\ s.worker[i].counted
         /\ Counted(x, s, i) \/ (Halted(x, s, i) /\ InLine(s) = {})
    <3>1. "timedOut" \in x.worker[i].marks /\ InLine(x) \subseteq Queued(x)
      BY <2>2, <2>5, <2>7
    <3>2. \A j \in Queued(x) \ {i} : x.worker[j].life = "waiting" \/ x.worker[j].counted
      BY <2>7
    <3>3. QED
      BY <2>4, <2>6, <2>8, <3>1, <3>2, HaltAccount
  <2>11. CASE Counted(x, s, i)
    <3>1. s.next = N + 1 /\ s.retryQueue = <<>> /\ s.stops = t.stops /\ s.worker[i].life = "exited"
          /\ \A j \in Workers \ {i} : s.worker[j] = t.worker[j]
      BY <2>5, <2>11 DEF Counted, SameBut
    <3>2. InLine(s) = {}
      BY <1>1, <3>1 DEF InLine
    <3>3. QED
      BY <1>1, <1>4, <2>9, <2>10, <3>1, <3>2 DEF RunningSoFar
  <2>12. CASE Halted(x, s, i) /\ InLine(s) = {}
    <3>1. s.next = N + 1 /\ s.retryQueue = <<>> /\ Settled(s) /\ s.stops # {}
      BY <2>12 DEF Halted
    <3>2. QED
      BY <2>9, <2>10, <2>12, <3>1 DEF RunningSoFar, Settled
  <2>13. QED
    BY <2>10, <2>11, <2>12
<1>7. CASE ~w.counted /\ ~w.awaitingRetry
  <2> DEFINE v == [w EXCEPT !.marks = @ \cup {"timedOut"}, !.awaitingRetry = FALSE]
  <2>1. PICK x : x = Mark(t, i, "timedOut")
    OBVIOUS
  <2>2. /\ Edited(t, x, i, v, t.next)
        /\ v \in WorkerType /\ v.life = w.life /\ v.open = w.open /\ v.marks = w.marks \cup {"timedOut"}
        /\ v.counted = w.counted /\ v.awaitingRetry = FALSE /\ v.starts = w.starts /\ v.attempt = w.attempt
    <3>1. w.awaitingRetry = FALSE
      BY <1>3, <1>7 DEF WorkerType
    <3>2. QED
      BY <1>2, <2>1, <3>1, MarkForm, ZenonT(60)
  <2> HIDE DEF v
  <2>3. ~v.counted /\ ~Complete(w)
    BY <1>3, <1>7, <2>2 DEF Shape, Complete
  <2>4. /\ x \in RunType /\ Counters(x) /\ Caused(x) /\ HaltBut(r, x, b, {i})
        /\ \A j \in Workers \ {i} : Worker(x, j)
    <3>1. (v.life = "running") = (t.worker[i].life = "running") /\ v.counted = t.worker[i].counted
      BY <2>2
    <3>2. QED
      BY <1>1, <1>2, <2>2, <2>3, <3>1, EditEffect
  <2>5. /\ x.worker[i] = v /\ \A j \in Workers \ {i} : x.worker[j] = t.worker[j]
        /\ x.next = N + 1 /\ x.retryQueue = <<>> /\ x.stops = t.stops
    BY <1>1, <1>2, <2>2, EditFields
  <2>6. x = ExpireRunningTurn(t, i)
    BY <1>7, <2>1, <2>3 DEF ExpireRunningTurn
  <2>7. Worker(x, i)
    <3>1. Shape(v)
      BY <1>3, <1>7, <2>2 DEF Shape
    <3>2. ~(i >= x.next) /\ v.marks \subseteq x.stops /\ Final(v, x.stops)
      BY <1>3, <2>2, <2>3, <2>5, Constants DEF Final
    <3>3. QED
      BY <2>5, <3>1, <3>2 DEF Worker
  <2>8. Halting(r, x, b)
    <3>1. Books(x)
      BY <2>4, <2>7 DEF Books
    <3>2. ~x.worker[i].counted /\ RetryTimer(i) \in b => x.worker[i].awaitingRetry
      BY <1>2, <1>7 DEF HaltBut
    <3>3. HaltBut(r, x, b, {})
      BY <2>4, <3>2 DEF HaltBut
    <3>4. QED
      BY <3>1, <3>3 DEF Halting
  <2>9. InLine(x) = {}
    BY <1>1, <1>3, <2>2, <2>5 DEF InLine
  <2>10. Doomed(v, x.stops)
    BY <1>3, <2>2 DEF Doomed
  <2>11. QED
    BY <1>1, <1>4, <2>5, <2>6, <2>8, <2>9, <2>10 DEF RunningSoFar
<1>8. QED
  BY <1>5, <1>6, <1>7

\* teardown() for the deadline.
LEMMA ExpireEffect ==
    ASSUME NEW r, NEW a, Stable(r, a), NEW b, b = a \ {DeadlineTimer}
    PROVE  LET s == Expire(r)
           IN  /\ Stable(s, b) /\ Keeps(r, s) /\ s.drainArmed /\ s.inFlight = r.inFlight
               /\ s.retryQueue = <<>> /\ s.next = N + 1
<1> DEFINE x == r.stops \cup {"timedOut"}
           y == r.timers \ RetryTimers
           r1 == [r EXCEPT !.stops = x, !.timers = y]
           q == r.retryQueue
<1>1. /\ r \in RunType /\ Books(r) /\ QueueOk(r) /\ RetryClock(r, a) /\ DrainTimed(r, a)
      /\ q \in Seq(Workers) /\ r.next \in 1 .. N + 1
  BY RunFields DEF Stable, Books
<1>2. Expire(r) = ArmDrain(ExpireRunning(ExpirePending(ExpireQueued(r1))))
  BY DEF Expire
<1>3. x \in SUBSET Reasons /\ y \in SUBSET Timers /\ "timedOut" \in x /\ r.stops \subseteq x /\ x # {"aborted"}
  BY <1>1, RunFields DEF Reasons
<1>4. y \cap RetryTimers = {} /\ (DrainTimer \in y <=> DrainTimer \in r.timers)
  BY RetryTimers1
<1> HIDE DEF x, y
<1>5. /\ r1 \in RunType /\ r1.stops = x /\ r1.timers = y /\ r1.worker = r.worker /\ r1.remaining = r.remaining
      /\ r1.inFlight = r.inFlight /\ r1.next = r.next /\ r1.retryQueue = q
      /\ r1.drainArmed = r.drainArmed /\ r1.stopped = r.stopped
  BY <1>1, <1>3 DEF RunType
<1> HIDE DEF r1, q
<1>6. QueuedSoFar(r, q, b, r1, 0)
  <2>1. Counters(r1) /\ Caused(r1)
    BY <1>1, <1>3, <1>5 DEF Books, Counters, Uncounted, Alive, Caused
  <2>2. ASSUME NEW j \in Workers PROVE Worker(r1, j)
    <3>1. Worker(r, j)
      BY <1>1 DEF Books
    <3>2. QED
      BY <1>3, <1>5, <3>1 DEF Worker, Final
  <2>3. HaltBut(r, r1, b, {})
    <3>1. \A i \in Workers : ~r.worker[i].counted /\ RetryTimer(i) \in b => r.worker[i].awaitingRetry
      BY <1>1 DEF RetryClock
    <3>2. DrainTimed(r1, b)
      BY <1>1, <1>3, <1>4, <1>5, RetryTimers1 DEF DrainTimed
    <3>3. Keeps(r, r1)
      BY <1>5 DEF Keeps
    <3>4. QED
      BY <1>3, <1>4, <1>5, <3>1, <3>2, <3>3 DEF HaltBut
  <2>4. InLine(r1) = InLine(r) /\ Queued(r1) = ToSet(q) /\ ToSet(q) = InLine(r)
    BY <1>1, <1>5 DEF QueueOk, InLine, Queued, q
  <2>5. ToSet(q) = {q[j] : j \in 0 + 1 .. Len(q)}
    BY <1>1 DEF ToSet
  <2>6. \A j \in ToSet(q) : j < r1.next /\ r1.worker[j].life = "waiting"
    BY <1>5, <2>4 DEF InLine
  <2>7. QED
    BY <1>5, <2>1, <2>2, <2>3, <2>4, <2>5, <2>6 DEF QueuedSoFar, Halting, Books
<1>7. PICK t \in RunType : QueuedSoFar(r, q, b, t, Len(q)) /\ ExpireQueued(r1) = [t EXCEPT !.retryQueue = <<>>]
  <2> DEFINE n == Len(r1.retryQueue)
             P == [k \in 0 .. n |-> {t \in RunType : QueuedSoFar(r, q, b, t, k)}]
  <2>1. n \in Nat /\ r1.retryQueue = q /\ n = Len(q)
    BY <1>1, <1>5
  <2> HIDE DEF n
  <2>2. r1 \in P[0]
    BY <1>5, <1>6, <2>1
  <2>3. ASSUME NEW k \in 1 .. n, NEW t \in P[k - 1] PROVE ExpireQueuedTurn(t, r1.retryQueue[k]) \in P[k]
    <3>1. k - 1 \in 0 .. n /\ k \in 0 .. n
      BY <2>1
    <3>2. QueuedSoFar(r, q, b, t, k - 1)
      BY <3>1
    <3>3. QueuedSoFar(r, q, b, ExpireQueuedTurn(t, q[k]), k)
      BY <1>1, <2>1, <3>2, QueuedTurn
    <3>4. ExpireQueuedTurn(t, q[k]) \in RunType
      BY <3>3 DEF QueuedSoFar, Halting, Books
    <3>5. QED
      BY <2>1, <3>1, <3>3, <3>4
  <2>4. P[n] = {t \in RunType : QueuedSoFar(r, q, b, t, n)}
    BY <2>1
  <2> HIDE DEF P
  <2>5. \E t \in P[Len(r1.retryQueue)] : ExpireQueued(r1) = [t EXCEPT !.retryQueue = <<>>]
    BY <1>5, <2>2, <2>3, QueuedLoop DEF n
  <2>6. QED
    BY <2>1, <2>4, <2>5
<1>8. PICK r2 : r2 = ExpireQueued(r1)
  OBVIOUS
<1>9. PendingSoFar(r, b, r2, 0)
  <2>1. Halting(r, t, b) /\ InLine(t) = {}
    <3>1. Len(q) + 1 .. Len(q) = {}
      BY <1>1
    <3>2. QED
      BY <1>7, <3>1 DEF QueuedSoFar
  <2>2. /\ r2 \in RunType /\ r2.retryQueue = <<>> /\ r2.stops = t.stops /\ r2.timers = t.timers
        /\ r2.worker = t.worker /\ r2.remaining = t.remaining
        /\ r2.inFlight = t.inFlight /\ r2.next = t.next
        /\ r2.drainArmed = t.drainArmed /\ r2.stopped = t.stopped
    <3> DEFINE e == <<>>
    <3>1. e \in Seq(Workers) /\ r2 = [t EXCEPT !.retryQueue = e]
      BY <1>7, <1>8
    <3> HIDE DEF e
    <3>2. r2 \in RunType /\ r2.retryQueue = e
      BY <3>1 DEF RunType
    <3>3. /\ r2.stops = t.stops /\ r2.timers = t.timers /\ r2.worker = t.worker /\ r2.remaining = t.remaining
          /\ r2.inFlight = t.inFlight /\ r2.next = t.next
          /\ r2.drainArmed = t.drainArmed /\ r2.stopped = t.stopped
      BY <3>1 DEF RunType
    <3>4. QED
      BY <3>2, <3>3 DEF e
  <2>3. Books(r2)
    BY <2>1, <2>2 DEF Halting, Books, Counters, Uncounted, Alive, Caused, Worker
  <2>4. HaltBut(r, r2, b, {})
    BY <2>1, <2>2 DEF Halting, HaltBut, DrainTimed, Keeps
  <2>5. InLine(r2) = {}
    BY <2>1, <2>2 DEF InLine
  <2>6. r2.next > 0
    BY <2>2, RunFields
  <2>7. QED
    BY <2>2, <2>3, <2>4, <2>5, <2>6 DEF PendingSoFar, Halting
<1>10. PICK r3 : r3 = ExpirePending(r2)
  OBVIOUS
<1>11. PendingSoFar(r, b, r3, N)
  <2> DEFINE P == [k \in 0 .. N |-> {u \in RunType : PendingSoFar(r, b, u, k)}]
  <2>1. r2 \in P[0]
    BY <1>9, Constants DEF PendingSoFar, Halting, Books
  <2>2. ASSUME NEW k \in 1 .. N, NEW u \in P[k - 1] PROVE ExpirePendingTurn(u, k) \in P[k]
    <3>1. k - 1 \in 0 .. N /\ k \in 0 .. N /\ k \in Workers
      BY Constants DEF Workers
    <3>2. PendingSoFar(r, b, u, k - 1)
      BY <3>1
    <3>3. PendingSoFar(r, b, ExpirePendingTurn(u, k), k)
      BY <3>1, <3>2, PendingTurn
    <3>4. ExpirePendingTurn(u, k) \in RunType
      BY <3>3 DEF PendingSoFar, Halting, Books
    <3>5. QED
      BY <3>1, <3>3, <3>4
  <2>3. P[N] = {u \in RunType : PendingSoFar(r, b, u, N)}
    BY Constants
  <2> HIDE DEF P
  <2>4. ExpirePending(r2) \in P[N]
    BY <2>1, <2>2, PendingLoop
  <2>5. QED
    BY <1>10, <2>3, <2>4
<1>12. RunningSoFar(r, b, r3, 0)
  <2>1. r3.next = N + 1
    <3>1. r3.next \in 1 .. N + 1 /\ r3.next > N
      BY <1>11, RunFields DEF PendingSoFar, Halting, Books
    <3>2. QED
      BY <3>1, Constants
  <2>2. \A i \in Workers : ~(i <= 0)
    BY Constants
  <2>3. QED
    BY <1>11, <2>1, <2>2 DEF PendingSoFar, RunningSoFar
<1>13. PICK r4 : r4 = ExpireRunning(r3)
  OBVIOUS
<1>14. RunningSoFar(r, b, r4, N)
  <2> DEFINE P == [k \in 0 .. N |-> {u \in RunType : RunningSoFar(r, b, u, k)}]
  <2>1. r3 \in P[0]
    BY <1>12, Constants DEF RunningSoFar, Halting, Books
  <2>2. ASSUME NEW k \in 1 .. N, NEW u \in P[k - 1] PROVE ExpireRunningTurn(u, k) \in P[k]
    <3>1. k - 1 \in 0 .. N /\ k \in 0 .. N /\ k \in Workers
      BY Constants DEF Workers
    <3>2. RunningSoFar(r, b, u, k - 1)
      BY <3>1
    <3>3. RunningSoFar(r, b, ExpireRunningTurn(u, k), k)
      BY <3>1, <3>2, RunningTurn
    <3>4. ExpireRunningTurn(u, k) \in RunType
      BY <3>3 DEF RunningSoFar, Halting, Books
    <3>5. QED
      BY <3>1, <3>3, <3>4
  <2>3. P[N] = {u \in RunType : RunningSoFar(r, b, u, N)}
    BY Constants
  <2> HIDE DEF P
  <2>4. ExpireRunning(r3) \in P[N]
    BY <2>1, <2>2, RunningLoop
  <2>5. QED
    BY <1>13, <2>3, <2>4
<1>15. /\ Books(r4) /\ HaltBut(r, r4, b, {}) /\ r4.retryQueue = <<>> /\ r4.next = N + 1
       /\ \A i \in Workers : ~r4.worker[i].counted => Doomed(r4.worker[i], r4.stops)
  BY <1>14, Constants DEF RunningSoFar, Halting
<1>16. PICK s : s = Expire(r)
  OBVIOUS
<1>17. /\ s \in RunType /\ s.drainArmed /\ s.timers \subseteq r4.timers \cup {DrainTimer} /\ r4.timers \subseteq s.timers
       /\ DrainTimer \in s.timers \cup b
       /\ s.worker = r4.worker /\ s.remaining = r4.remaining /\ s.stopped = r4.stopped /\ s.next = r4.next
       /\ s.inFlight = r4.inFlight /\ s.retryQueue = r4.retryQueue /\ s.stops = r4.stops
  <2>1. s = ArmDrain(r4) /\ r4 \in RunType
    BY <1>2, <1>8, <1>10, <1>13, <1>15, <1>16 DEF Books
  <2>2. CASE r4.drainArmed
    <3>1. s = r4
      BY <2>1, <2>2 DEF ArmDrain
    <3>2. DrainTimer \in r4.timers \cup b
      BY <1>15, <2>2 DEF HaltBut, DrainTimed
    <3>3. QED
      BY <2>1, <2>2, <3>1, <3>2
  <2>3. CASE ~r4.drainArmed
    <3> DEFINE z == r4.timers \cup {DrainTimer}
    <3>1. s = [r4 EXCEPT !.drainArmed = TRUE, !.timers = z]
      BY <2>1, <2>3 DEF ArmDrain
    <3>2. z \in SUBSET Timers /\ r4.timers \subseteq z /\ DrainTimer \in z
      BY <2>1, RunFields DEF Timers
    <3> HIDE DEF z
    <3>3. s \in RunType /\ s.drainArmed /\ s.timers = z
      BY <2>1, <3>1, <3>2 DEF RunType
    <3>4. /\ s.worker = r4.worker /\ s.remaining = r4.remaining /\ s.stopped = r4.stopped /\ s.next = r4.next
          /\ s.inFlight = r4.inFlight /\ s.retryQueue = r4.retryQueue /\ s.stops = r4.stops
      BY <2>1, <3>1 DEF RunType
    <3>5. QED
      BY <3>2, <3>3, <3>4 DEF z
  <2>4. QED
    BY <2>2, <2>3
<1>18. Books(s)
  BY <1>15, <1>17 DEF Books, Counters, Uncounted, Alive, Caused, Worker
<1>19. Settled(s) /\ s.stops # {}
  BY <1>15, <1>17 DEF Settled, HaltBut
<1>20. QueueOk(s) /\ \A j \in Workers : ~s.worker[j].awaitingRetry
  BY <1>18, <1>19, NobodyInLine
<1>21. RetryClock(s, b)
  <2>1. ASSUME NEW j \in Workers, ~s.worker[j].counted PROVE RetryTimer(j) \notin s.timers \cup b
    <3>1. RetryTimer(j) \notin b
      BY <1>15, <1>17, <1>20, <2>1 DEF HaltBut
    <3>2. RetryTimer(j) \notin r4.timers /\ RetryTimer(j) # DrainTimer
      BY <1>15, RetryTimers1 DEF HaltBut
    <3>3. QED
      BY <1>17, <3>1, <3>2
  <2>2. QED
    BY <1>20, <2>1 DEF RetryClock
<1>22. DrainTimed(s, b)
  BY <1>17, <1>19 DEF DrainTimed
<1>23. Keeps(r, s)
  BY <1>15, <1>17 DEF HaltBut, Keeps
<1>24. QED
  BY <1>15, <1>16, <1>17, <1>18, <1>19, <1>20, <1>21, <1>22, <1>23 DEF Stable, HaltBut

LEMMA OnDeadlineGoes == ASSUME RunInv, OnDeadline PROVE Goes /\ run'.drainArmed
<1>1. Stable(run, batch) /\ Loops
  BY DEF RunInv
<1>2. /\ phase = "timers" /\ ~filling /\ batch' = batch \ {DeadlineTimer}
      /\ opts' = opts /\ phase' = phase /\ filling' = filling /\ run' = Expire(run)
  BY DEF OnDeadline, RunTimer
<1>3. /\ Stable(run', batch') /\ Keeps(run, run') /\ run'.drainArmed /\ run'.inFlight = run.inFlight
      /\ run'.retryQueue = <<>> /\ run'.next = N + 1
  BY <1>1, <1>2, ExpireEffect
<1>4. DrainClock(run')
  BY <1>3 DEF DrainClock
<1>5. Loops'
  <2>1. (~CanSpawn(run))'
    BY <1>3, Constants DEF CanSpawn
  <2>2. (run.inFlight <= Limit)'
    BY <1>1, <1>2, <1>3 DEF Loops, Limit
  <2>3. QED
    BY <1>1, <1>2, <2>1, <2>2 DEF Loops
<1>6. QED
  BY <1>3, <1>4, <1>5 DEF Goes, RunInv

\* The drain grace is over: one worker after the other is let go.
DrainedSoFar(r, b, t, k) ==
    /\ Stable(t, b) /\ Keeps(r, t) /\ t.stops # {} /\ t.inFlight <= r.inFlight
    /\ \A i \in Workers : i <= k => t.worker[i].counted

LEMMA AbandonTurn ==
    ASSUME NEW r \in RunType, NEW b, NEW t, NEW i \in Workers, DrainedSoFar(r, b, t, i - 1),
           NEW o \in Outcomes \cup {"none"}
    PROVE  DrainedSoFar(r, b, Abandon(t, i, o), i)
<1>1. /\ Stable(t, b) /\ Keeps(r, t) /\ t.stops # {} /\ t.inFlight <= r.inFlight
      /\ \A j \in Workers : j < i => t.worker[j].counted
  <2>1. \A j \in Workers : j < i => j <= i - 1
    BY Constants
  <2>2. QED
    BY <2>1 DEF DrainedSoFar
<1>2. t \in RunType /\ Books(t) /\ Settled(t) /\ r.inFlight \in Nat /\ t.inFlight \in Nat
  BY <1>1, RunFields DEF Stable, Books
<1> DEFINE w == t.worker[i]
           rest == {}
           closed == [t EXCEPT !.worker[i].open = rest]
<1>3. w \in WorkerType /\ Shape(w) /\ w.life # "waiting" /\ ~w.awaitingRetry
  BY <1>1, <1>2, RunFields, NobodyInLine DEF Books, Worker
<1>4. \A j \in Workers : j <= i => j < i \/ j = i
  BY Constants
<1>5. ASSUME NEW s, Onward(t, s, b), s.worker[i].counted, s.inFlight <= t.inFlight
      PROVE  DrainedSoFar(r, b, s, i)
  <2>1. Stable(s, b) /\ Keeps(t, s) /\ t.stops \subseteq s.stops
    BY <1>5 DEF Onward, Armed
  <2>2. Keeps(r, s)
    BY <1>1, <2>1 DEF Keeps
  <2>3. \A j \in Workers : j <= i => s.worker[j].counted
    BY <1>1, <1>4, <1>5, <2>1 DEF Keeps
  <2>4. s.stops # {}
    BY <1>1, <2>1
  <2>5. s.inFlight \in Nat
    BY <2>1, RunFields DEF Stable, Books
  <2>6. s.inFlight <= r.inFlight
    BY <1>1, <1>2, <1>5, <2>5
  <2>7. QED
    BY <2>1, <2>2, <2>3, <2>4, <2>6 DEF DrainedSoFar
<1>6. CASE Complete(w)
  <2>1. w.counted
    BY <1>3, <1>6 DEF Complete, Shape
  <2>2. Abandon(t, i, o) = t
    BY <1>6 DEF Abandon
  <2>3. QED
    BY <1>1, <1>4, <2>1, <2>2 DEF DrainedSoFar
<1>7. CASE ~Complete(w)
  <2> DEFINE v == [w EXCEPT !.open = rest]
  <2>1. rest \in SUBSET Streams /\ (w.open # {} \/ w.life = "running")
    BY <1>3, <1>7 DEF Complete, WorkerType
  <2> HIDE DEF rest
  <2>2. PICK c : c = closed
    OBVIOUS
  <2>3. Touches(t, c, i, v, t.inFlight) /\ v.open = {} /\ v.life = w.life
    <3>1. Touches(t, c, i, v, t.inFlight)
      BY <1>2, <1>3, <2>1, <2>2, CloseTouches
    <3>2. v.open = rest /\ v.life = w.life
      BY <1>3 DEF WorkerType
    <3>3. QED
      BY <3>1, <3>2 DEF rest
  <2> HIDE DEF closed, v
  <2>4. CASE w.life = "exited"
    <3>1. Abandon(t, i, o) = Account(c, i)
      BY <1>7, <2>2, <2>4 DEF Abandon, closed, rest
    <3>2. PICK s : s = Account(c, i)
      OBVIOUS
    <3>3. /\ Onward(t, s, b) /\ s.inFlight = t.inFlight
          /\ Complete(v) /\ t.stops # {} => s.worker[i].counted
      BY <1>1, <2>3, <3>2, TouchEffect
    <3>4. s.worker[i].counted
      BY <1>1, <2>3, <2>4, <3>3 DEF Complete
    <3>5. s.inFlight <= t.inFlight
      BY <1>2, <3>3
    <3>6. QED
      BY <1>5, <3>1, <3>2, <3>3, <3>4, <3>5
  <2>5. CASE w.life = "running"
    <3>1. Onward(t, c, b) /\ c.inFlight = t.inFlight /\ c.worker[i] = v /\ c.stops = t.stops
      <4>1. ~Complete(v)
        BY <2>3, <2>5 DEF Complete
      <4>2. Onward(t, c, b)
        BY <1>1, <2>3, <4>1, TouchEffect
      <4>3. c.inFlight = t.inFlight /\ c.worker[i] = v /\ c.stops = t.stops
        BY <1>2, <2>3, TouchFields
      <4>4. QED
        BY <4>2, <4>3
    <3>2. Stable(c, b) /\ Books(c) /\ c.worker[i].life = "running" /\ c.worker[i].open = {} /\ c.inFlight \in Nat
      BY <1>2, <2>3, <2>5, <3>1 DEF Onward, Stable
    <3> DEFINE u == [c.worker[i] EXCEPT !.life = "exited", !.status = o]
    <3>3. PICK p : p = Reaped(c, i, o)
      OBVIOUS
    <3>4. Touches(c, p, i, u, c.inFlight - 1) /\ u.open = {} /\ u.life = "exited"
      <4>1. Touches(c, p, i, u, c.inFlight - 1)
        BY <3>2, <3>3, ReapTouches
      <4>2. c.worker[i] \in WorkerType
        BY <3>2, RunFields DEF Books
      <4>3. u.open = c.worker[i].open /\ u.life = "exited"
        BY <4>2 DEF WorkerType
      <4>4. QED
        BY <3>2, <4>1, <4>3
    <3> HIDE DEF u
    <3>5. PICK s : s = Account(p, i)
      OBVIOUS
    <3>6. /\ Onward(c, s, b) /\ s.inFlight = c.inFlight - 1
          /\ Complete(u) /\ c.stops # {} => s.worker[i].counted
      BY <3>2, <3>4, <3>5, TouchEffect
    <3>7. s.worker[i].counted
      BY <1>1, <3>1, <3>4, <3>6 DEF Complete
    <3>8. Abandon(t, i, o) = s
      <4>1. w.life # "exited"
        BY <2>5
      <4>2. Reap(c, i, o) = s
        BY <3>3, <3>5 DEF Reap, Reaped
      <4>3. Abandon(t, i, o) = Account(s, i)
        BY <1>7, <2>2, <4>1, <4>2 DEF Abandon, closed, rest
      <4>4. QED
        BY <3>7, <4>3, AccountIdle
    <3>9. Onward(t, s, b)
      <4>1. Keeps(t, s)
        BY <3>1, <3>6 DEF Onward, Keeps
      <4>2. Armed(t, s) /\ NoWork(t, s)
        BY <3>1, <3>6 DEF Onward, Armed, NoWork
      <4>3. QED
        BY <3>6, <4>1, <4>2 DEF Onward
    <3>10. s.inFlight <= t.inFlight
      BY <1>2, <3>1, <3>6
    <3>11. QED
      BY <1>5, <3>7, <3>8, <3>9, <3>10
  <2>6. QED
    BY <1>3, <2>4, <2>5 DEF WorkerType
<1>8. QED
  BY <1>6, <1>7

LEMMA OnDrainExpiredGoes == ASSUME RunInv, OnDrainExpired PROVE Goes /\ run'.stopped
<1>1. Stable(run, batch) /\ Loops /\ Books(run) /\ run \in RunType
  BY DEF RunInv, Stable, Books
<1>2. /\ phase = "timers" /\ DrainTimer \in batch /\ batch' = batch \ {DrainTimer}
      /\ opts' = opts /\ phase' = phase /\ filling' = TRUE
  BY DEF OnDrainExpired, RunTimer
<1> DEFINE f == FALSE
<1>3. PICK r1 : r1 = [run EXCEPT !.drainArmed = f]
  OBVIOUS
<1>4. PICK outcome \in [{i \in Workers : run.worker[i].life = "running"} -> Outcomes] :
          run' = Drained(outcome, r1)
  BY <1>3 DEF OnDrainExpired, Drained
<1>5. PICK b : b = batch \ {DrainTimer}
  OBVIOUS
<1>6. f \in BOOLEAN
  OBVIOUS
<1>7. ~f
  OBVIOUS
<1> HIDE DEF f
<1>8. /\ r1 \in RunType /\ r1.drainArmed = f /\ r1.stops = run.stops /\ r1.timers = run.timers
      /\ r1.worker = run.worker /\ r1.remaining = run.remaining /\ r1.inFlight = run.inFlight
      /\ r1.next = run.next /\ r1.retryQueue = run.retryQueue /\ r1.stopped = run.stopped
  BY <1>1, <1>3, <1>6 DEF RunType
<1>9. DrainedSoFar(run, b, r1, 0)
  <2>1. Books(r1)
    BY <1>1, <1>8 DEF Books, Counters, Uncounted, Alive, Caused, Worker
  <2>2. QueueOk(r1) /\ Settled(r1)
    BY <1>1, <1>8 DEF Stable, QueueOk, Settled, Queued, InLine
  <2>3. RetryClock(r1, b)
    <3>1. \A i \in Workers : RetryTimer(i) \in b <=> RetryTimer(i) \in batch
      BY <1>5, RetryTimers1
    <3>2. QED
      BY <1>1, <1>8, <3>1 DEF Stable, RetryClock
  <2>4. DrainTimed(r1, b) /\ r1.stops # {}
    BY <1>1, <1>2, <1>5, <1>7, <1>8 DEF Stable, DrainTimed
  <2>5. Keeps(run, r1) /\ r1.inFlight <= run.inFlight
    BY <1>1, <1>8, RunFields DEF Keeps
  <2>6. \A i \in Workers : ~(i <= 0)
    BY Constants
  <2>7. QED
    BY <2>1, <2>2, <2>3, <2>4, <2>5, <2>6 DEF DrainedSoFar, Stable
<1>10. PICK s : s = run'
  OBVIOUS
<1>11. DrainedSoFar(run, b, s, N)
  <2>1. PICK r0 : r0 = run
    OBVIOUS
  <2> DEFINE P == [k \in 0 .. N |-> {u \in RunType : DrainedSoFar(r0, b, u, k)}]
  <2>2. r1 \in P[0]
    BY <1>8, <1>9, <2>1, Constants
  <2>3. ASSUME NEW k \in 1 .. N, NEW u \in P[k - 1] PROVE DrainTurn(outcome, u, k) \in P[k]
    <3>1. k - 1 \in 0 .. N /\ k \in 0 .. N /\ k \in Workers
      BY Constants DEF Workers
    <3>2. DrainedSoFar(r0, b, u, k - 1) /\ r0 \in RunType
      BY <1>1, <2>1, <3>1
    <3>3. PICK o \in Outcomes \cup {"none"} : DrainTurn(outcome, u, k) = Abandon(u, k, o)
      BY DEF DrainTurn
    <3>4. DrainedSoFar(r0, b, DrainTurn(outcome, u, k), k)
      BY <3>1, <3>2, <3>3, AbandonTurn
    <3>5. DrainTurn(outcome, u, k) \in RunType
      BY <3>4 DEF DrainedSoFar, Stable, Books
    <3>6. QED
      BY <3>1, <3>4, <3>5
  <2>4. P[N] = {u \in RunType : DrainedSoFar(r0, b, u, N)}
    BY Constants
  <2> HIDE DEF P
  <2>5. Drained(outcome, r1) \in P[N]
    BY <2>2, <2>3, DrainLoop
  <2>6. QED
    BY <1>4, <1>10, <2>1, <2>4, <2>5
<1>12. s.stopped
  <2>1. Uncounted(s) = {}
    BY <1>11, Constants DEF DrainedSoFar, Uncounted
  <2>2. QED
    BY <1>11, <2>1, FS_EmptySet DEF DrainedSoFar, Stable, Books, Counters
<1>13. Stable(s, b) /\ Keeps(run, s) /\ DrainClock(s) /\ s.inFlight <= run.inFlight /\ s.inFlight \in Nat
  BY <1>11, <1>12, RunFields DEF DrainedSoFar, DrainClock, Stable, Books
<1>14. Loops'
  <2>1. (run.inFlight <= Limit)'
    <3>1. Limit \in Nat /\ Limit' = Limit /\ run.inFlight \in Nat /\ run.inFlight <= Limit
      BY <1>1, <1>2, LimitType, RunFields DEF Limit, Loops
    <3>2. QED
      BY <1>10, <1>13, <3>1
  <2>2. QED
    BY <1>1, <1>2, <2>1 DEF Loops
<1>15. QED
  BY <1>2, <1>5, <1>10, <1>12, <1>13, <1>14 DEF Goes, RunInv

-----------------------------------------------------------------------------
\* The run starts with its books in order.
LEMMA InitRunInv == ASSUME Init PROVE RunInv
<1>1. /\ opts \in Options /\ phase = "starting" /\ filling = TRUE /\ batch = {}
      /\ run = [worker |-> [i \in Workers |-> FreshWorker],
                remaining |-> N, next |-> 1, inFlight |-> 0, retryQueue |-> <<>>,
                stops |-> {}, drainArmed |-> FALSE, stopped |-> FALSE,
                timers |-> IF opts.deadline THEN {DeadlineTimer} ELSE {}]
  BY DEF Init
<1>2. /\ run.worker = [i \in Workers |-> FreshWorker] /\ run.remaining = N /\ run.next = 1
      /\ run.inFlight = 0 /\ run.retryQueue = <<>> /\ run.stops = {} /\ run.drainArmed = FALSE
      /\ run.stopped = FALSE /\ run.timers \subseteq {DeadlineTimer}
  BY <1>1
<1>3. FreshWorker \in WorkerType
  BY Constants DEF FreshWorker, WorkerType
<1>4. run \in RunType
  <2>1. {DeadlineTimer} \subseteq Timers
    BY DEF Timers
  <2>2. (IF opts.deadline THEN {DeadlineTimer} ELSE {}) \in SUBSET Timers
    BY <2>1
  <2>3. [i \in Workers |-> FreshWorker] \in [Workers -> WorkerType] /\ 1 \in 1 .. N + 1
    BY <1>3, Constants
  <2>4. QED
    BY <1>1, <2>2, <2>3, Constants DEF RunType
<1>5. \A i \in Workers : run.worker[i] = FreshWorker
  BY <1>2
<1>6. /\ FreshWorker.life = "waiting" /\ FreshWorker.open = Streams /\ FreshWorker.marks = {}
      /\ FreshWorker.starts = FreshWorker.attempt /\ ~FreshWorker.counted /\ ~FreshWorker.awaitingRetry
  BY DEF FreshWorker
<1>7. Counters(run)
  <2>1. Uncounted(run) = 1 .. N /\ Alive(run) = {}
    BY <1>5, <1>6 DEF Uncounted, Alive, Workers
  <2>2. Cardinality(1 .. N) = N /\ Cardinality({}) = 0
    <3>1. 1 \in Int /\ N \in Int /\ 1 <= N /\ (N - 1) + 1 = N
      BY Constants
    <3>2. QED
      BY <3>1, FS_Interval, FS_EmptySet
  <2>3. run.stopped = (run.remaining = 0)
    <3>1. N # 0
      BY Constants
    <3>2. run.stopped = FALSE /\ run.remaining = N
      BY <1>2
    <3>3. (run.remaining = 0) = FALSE
      BY <3>1, <3>2
    <3>4. QED
      BY <3>2, <3>3
  <2>4. QED
    BY <1>2, <2>1, <2>2, <2>3 DEF Counters
<1>8. \A i \in Workers : Worker(run, i)
  <2>1. Shape(FreshWorker) /\ Final(FreshWorker, run.stops) /\ FreshWorker.marks \subseteq run.stops
    BY <1>6 DEF Shape, Final
  <2>2. QED
    BY <1>5, <1>6, <2>1 DEF Worker
<1>9. Books(run) /\ Settled(run)
  BY <1>2, <1>4, <1>7, <1>8 DEF Books, Settled, Caused
<1>10. QueueOk(run)
  <2>1. \A i \in Workers : ~(i < 1)
    BY Constants
  <2>2. InLine(run) = {}
    BY <1>2, <2>1 DEF InLine
  <2>3. QED
    BY <1>2, <2>2 DEF QueueOk, Queued, ToSet
<1>11. RetryClock(run, batch) /\ DrainTimed(run, batch)
  BY <1>1, <1>2, <1>5, <1>6, RetryTimers1 DEF RetryClock, DrainTimed
<1>12. Loops
  <2>1. 0 <= Limit
    BY <1>1, Constants, WorkerRunAssumption DEF Limit
  <2>2. QED
    BY <1>1, <1>2, <2>1 DEF Loops
<1>13. QED
  BY <1>2, <1>9, <1>10, <1>11, <1>12 DEF RunInv, Stable, DrainClock

\* Every step goes on with the books in order, with who is counted, and with the
\* timers that end the run.
Ends1 == DeadlineTimer \in batch \ batch' => run'.stopped \/ run'.drainArmed
Ends2 == DrainTimer \in batch \ batch' => run'.stopped

LEMMA NextGoes == ASSUME RunInv, [Next]_vars PROVE Goes /\ Ends1 /\ Ends2
<1>1. ASSUME batch' = batch \/ batch = {} PROVE Ends1 /\ Ends2
  BY <1>1 DEF Ends1, Ends2
<1>2. CASE SpawnRuns
  BY <1>1, <1>2, SpawnRunsGoes DEF SpawnRuns
<1>3. CASE SpawnFails
  BY <1>1, <1>3, SpawnFailsGoes DEF SpawnFails
<1>4. CASE FillEnds
  BY <1>1, <1>4, FillEndsGoes DEF FillEnds
<1>5. CASE \E i \in Workers, s \in Streams : StreamEnds(i, s)
  <2>1. PICK i \in Workers, s \in Streams : StreamEnds(i, s)
    BY <1>5
  <2>2. Goes
    BY <2>1, StreamEndsGoes
  <2>3. QED
    BY <1>1, <2>1, <2>2 DEF StreamEnds
<1>6. CASE \E i \in Workers, o \in Outcomes : Exits(i, o)
  <2>1. PICK i \in Workers, o \in Outcomes : Exits(i, o)
    BY <1>6
  <2>2. Goes
    BY <2>1, ExitsGoes
  <2>3. QED
    BY <1>1, <2>1, <2>2 DEF Exits
<1>7. CASE OnCancel
  BY <1>1, <1>7, OnCancelGoes DEF OnCancel
<1>8. CASE \E due \in SUBSET run.timers : FireDueTimers(due)
  <2>1. PICK due \in SUBSET run.timers : FireDueTimers(due)
    BY <1>8
  <2>2. Goes
    BY <2>1, FireDueTimersGoes
  <2>3. batch = {}
    BY <2>1 DEF RunInv, Loops, FireDueTimers, Dispatching
  <2>4. QED
    BY <1>1, <2>2, <2>3
<1>9. CASE \E i \in Workers : OnRetry(i)
  <2>1. PICK i \in Workers : OnRetry(i)
    BY <1>9
  <2>2. Goes
    BY <2>1, OnRetryGoes
  <2>3. batch' = batch \ {RetryTimer(i)}
    BY <2>1 DEF OnRetry, RunTimer
  <2>4. QED
    BY <2>2, <2>3, RetryTimers1 DEF Ends1, Ends2
<1>10. CASE OnDeadline
  <2>1. batch' = batch \ {DeadlineTimer}
    BY <1>10 DEF OnDeadline, RunTimer
  <2>2. QED
    BY <1>10, <2>1, OnDeadlineGoes, RetryTimers1 DEF Ends1, Ends2
<1>11. CASE OnDrainExpired
  BY <1>11, OnDrainExpiredGoes DEF Ends1, Ends2
<1>12. CASE EndIteration \/ Returned \/ UNCHANGED vars
  <2>1. batch' = batch
    BY <1>12 DEF EndIteration, Returned, vars
  <2>2. QED
    BY <1>1, <1>12, <2>1, EndIterationGoes
<1>13. QED
  BY <1>2, <1>3, <1>4, <1>5, <1>6, <1>7, <1>8, <1>9, <1>10, <1>11, <1>12 DEF Next

-----------------------------------------------------------------------------
LEMMA TypesHold == ASSUME RunInv PROVE TypeOK /\ WorkersCounted
<1>1. run \in RunType /\ Counters(run) /\ Loops
  BY DEF RunInv, Stable, Books
<1>2. ASSUME NEW S \in SUBSET Workers PROVE Cardinality(S) \in 0 .. N
  <2>1. IsFiniteSet(Workers) /\ Cardinality(Workers) = N
    <3>1. 1 \in Int /\ N \in Int /\ 1 <= N /\ (N - 1) + 1 = N
      BY Constants
    <3>2. QED
      BY <3>1, FS_Interval DEF Workers
  <2>2. Cardinality(S) <= N /\ Cardinality(S) \in Nat
    BY <2>1, FS_Subset, WorkersFinite
  <2>3. QED
    BY <2>2, Constants
<1>3. run.remaining \in 0 .. N /\ run.inFlight \in 0 .. N
  BY <1>1, <1>2 DEF Counters, Uncounted, Alive
<1>4. TypeOK
  BY <1>1, <1>3, RunFields DEF TypeOK, WorkerType, Loops, Timers
<1>5. WorkersCounted
  BY <1>1 DEF WorkersCounted, Counters, Uncounted, Alive, Loops
<1>6. QED
  BY <1>4, <1>5

LEMMA AwaitedHolds == ASSUME RunInv PROVE EveryWorkerAwaited
<1> SUFFICES ASSUME phase = "events", ~filling, NEW i \in Workers
             PROVE  LET w == run.worker[i]
                    IN  \/ w.counted
                        \/ w.life = "running"
                        \/ w.life = "exited" /\ w.open # {}
                        \/ w.awaitingRetry /\ RetryTimer(i) \in run.timers
                        \/ /\ w.life = "waiting" /\ run.inFlight = Limit
                           /\ i >= run.next \/ i \in ToSet(run.retryQueue)
  BY DEF EveryWorkerAwaited, Dispatching
<1> DEFINE w == run.worker[i]
<1>1. /\ run \in RunType /\ Worker(run, i) /\ QueueOk(run) /\ RetryClock(run, batch) /\ batch = {}
      /\ ~CanSpawn(run) /\ run.inFlight <= Limit
  BY DEF RunInv, Stable, Books, Loops
<1>2. w \in WorkerType /\ Shape(w) /\ run.next \in 1 .. N + 1 /\ run.inFlight \in Nat /\ Limit \in Nat
  BY <1>1, RunFields, LimitType DEF Worker
<1>3. CASE w.life = "waiting"
  <2>1. i >= run.next \/ i \in Queued(run)
    BY <1>1, <1>2, <1>3, Constants DEF QueueOk, InLine
  <2>2. run.retryQueue # <<>> \/ run.next <= N
    <3>1. i \in Queued(run) => run.retryQueue # <<>>
      BY DEF Queued, ToSet
    <3>2. QED
      BY <1>2, <2>1, <3>1, Constants
  <2>3. run.inFlight = Limit
    BY <1>1, <1>2, <2>2 DEF CanSpawn
  <2>4. QED
    BY <1>3, <2>1, <2>3 DEF Queued
<1>4. CASE w.life = "exited"
  BY <1>1, <1>2, <1>4 DEF Shape, RetryClock
<1>5. QED
  BY <1>2, <1>3, <1>4 DEF WorkerType

LEMMA BoundedHolds == ASSUME RunInv PROVE StopIsBounded
<1> SUFFICES ASSUME run.stops # {}, ~run.stopped, phase = "events", ~filling
             PROVE  /\ run.drainArmed /\ DrainTimer \in run.timers
                    /\ \A i \in Workers : ~run.worker[i].awaitingRetry /\ run.worker[i].life # "waiting"
  BY DEF StopIsBounded, Dispatching
<1>1. batch = {} /\ Books(run) /\ Settled(run) /\ DrainTimed(run, batch) /\ DrainClock(run)
  BY DEF RunInv, Stable, Loops
<1>2. QED
  BY <1>1, NobodyInLine DEF DrainTimed, DrainClock

LEMMA AllCounted == ASSUME RunInv, run.stopped PROVE \A i \in Workers : run.worker[i].counted
<1>1. Counters(run)
  BY DEF RunInv, Stable, Books
<1>2. IsFiniteSet(Uncounted(run))
  BY WorkersFinite DEF Uncounted
<1>3. Uncounted(run) = {}
  BY <1>1, <1>2, FS_EmptySet DEF Counters
<1>4. QED
  BY <1>3 DEF Uncounted

LEMMA NothingLeftHolds == ASSUME RunInv PROVE NothingLeftBehind
<1> SUFFICES ASSUME phase = "returned" PROVE NothingLeftBehind
  BY DEF NothingLeftBehind
<1>1. run.stopped /\ batch = {} /\ Books(run) /\ QueueOk(run)
  BY DEF RunInv, Stable, Loops
<1>2. ASSUME NEW i \in Workers
      PROVE  run.worker[i].counted /\ run.worker[i].life = "exited" /\ run.worker[i].open = {}
  BY <1>1, AllCounted DEF Books, Worker, Shape
<1>3. run.retryQueue = <<>>
  <2>1. run.retryQueue \in Seq(Workers)
    BY <1>1, RunFields DEF Books
  <2>2. Queued(run) = {}
    BY <1>1, <1>2 DEF QueueOk, InLine
  <2>3. 1 \notin DOMAIN run.retryQueue
    BY <2>2 DEF Queued, ToSet
  <2>4. QED
    BY <2>1, <2>3
<1>4. QED
  BY <1>1, <1>2, <1>3 DEF NothingLeftBehind

-----------------------------------------------------------------------------
\* The exit code of executeRemote(), worker by worker.
Fails(w) == IsFailure(w) /\ "aborted" \notin w.marks
Blame(w) == IF ExitCode(w) = 0 THEN 1 ELSE ExitCode(w)
CodeSoFar(worker, code, k) ==
    /\ code = 0 <=> \A i \in Workers : i <= k => "aborted" \notin worker[i].marks /\ ~IsFailure(worker[i])
    /\ (\E i \in Workers : i <= k /\ Fails(worker[i])) =>
           \E i \in Workers : Fails(worker[i]) /\ code = Blame(worker[i])

LEMMA BlameType == ASSUME NEW w PROVE ExitCode(w) \in Int /\ Blame(w) \in Int /\ Blame(w) # 0
<1>1. ExitCode(w) \in {0, 3, 255, 127, -1}
  BY DEF ExitCode
<1>2. QED
  BY <1>1 DEF Blame

LEMMA CodeTurn ==
    ASSUME NEW worker, NEW i \in Workers, NEW code \in Int, CodeSoFar(worker, code, i - 1)
    PROVE  LET c == ExitCodeTurn(worker[i], code)
           IN  c \in Int /\ CodeSoFar(worker, c, i)
<1> DEFINE w == worker[i]
           Clean(j) == "aborted" \notin worker[j].marks /\ ~IsFailure(worker[j])
<1>1. PICK c : c = ExitCodeTurn(w, code)
  OBVIOUS
<1>2. \A j \in Workers : j <= i <=> j <= i - 1 \/ j = i
  BY Constants
<1>3. code = 0 <=> \A j \in Workers : j <= i - 1 => Clean(j)
  BY DEF CodeSoFar
<1>4. (\E j \in Workers : j <= i - 1 /\ Fails(worker[j])) =>
          \E j \in Workers : Fails(worker[j]) /\ code = Blame(worker[j])
  BY DEF CodeSoFar
<1>5. CASE "aborted" \in w.marks
  <2>1. c = (IF code = 0 THEN 1 ELSE code) /\ c # 0 /\ c \in Int
    BY <1>1, <1>5 DEF ExitCodeTurn
  <2>2. ~Clean(i) /\ ~Fails(w)
    BY <1>5 DEF Fails
  <2>3. c = 0 <=> \A j \in Workers : j <= i => Clean(j)
    BY <1>2, <2>1, <2>2
  <2>4. ASSUME NEW j \in Workers, j <= i, Fails(worker[j])
        PROVE  \E l \in Workers : Fails(worker[l]) /\ c = Blame(worker[l])
    <3>1. j <= i - 1
      BY <1>2, <2>2, <2>4
    <3>2. PICK l \in Workers : Fails(worker[l]) /\ code = Blame(worker[l])
      BY <1>4, <2>4, <3>1
    <3>3. code # 0
      BY <3>2, BlameType
    <3>4. QED
      BY <2>1, <3>2, <3>3
  <2>5. QED
    BY <1>1, <2>1, <2>3, <2>4 DEF CodeSoFar
<1>6. CASE "aborted" \notin w.marks /\ IsFailure(w)
  <2>1. c = Blame(w) /\ c # 0 /\ c \in Int /\ Fails(w)
    BY <1>1, <1>6, BlameType DEF ExitCodeTurn, Blame, Fails
  <2>2. ~Clean(i)
    BY <1>6
  <2>3. c = 0 <=> \A j \in Workers : j <= i => Clean(j)
    BY <1>2, <2>1, <2>2
  <2>4. \E j \in Workers : Fails(worker[j]) /\ c = Blame(worker[j])
    BY <2>1
  <2>5. QED
    BY <1>1, <2>1, <2>3, <2>4 DEF CodeSoFar
<1>7. CASE "aborted" \notin w.marks /\ ~IsFailure(w)
  <2>1. c = code
    BY <1>1, <1>7 DEF ExitCodeTurn
  <2>2. Clean(i) /\ ~Fails(w)
    BY <1>7 DEF Fails
  <2>3. c = 0 <=> \A j \in Workers : j <= i => Clean(j)
    BY <1>2, <1>3, <2>1, <2>2
  <2>4. (\E j \in Workers : j <= i /\ Fails(worker[j])) =>
            \E j \in Workers : Fails(worker[j]) /\ c = Blame(worker[j])
    BY <1>2, <1>4, <2>1, <2>2
  <2>5. QED
    BY <1>1, <2>1, <2>3, <2>4 DEF CodeSoFar
<1>8. QED
  BY <1>5, <1>6, <1>7

LEMMA CodeMeans ==
    ASSUME NEW worker
    PROVE  /\ Code(worker) = 0 <=> \A i \in Workers : "aborted" \notin worker[i].marks /\ ~IsFailure(worker[i])
           /\ (\E i \in Workers : Fails(worker[i])) =>
                  \E i \in Workers : Fails(worker[i]) /\ Code(worker) = Blame(worker[i])
<1> DEFINE P == [k \in 0 .. N |-> {c \in Int : CodeSoFar(worker, c, k)}]
<1>1. 0 \in P[0]
  <2>1. \A i \in Workers : ~(i <= 0)
    BY Constants
  <2>2. CodeSoFar(worker, 0, 0)
    BY <2>1 DEF CodeSoFar
  <2>3. QED
    BY <2>2, Constants
<1>2. ASSUME NEW k \in 1 .. N, NEW c \in P[k - 1] PROVE ExitCodeTurn(worker[k], c) \in P[k]
  <2>1. k - 1 \in 0 .. N /\ k \in 0 .. N /\ k \in Workers
    BY Constants DEF Workers
  <2>2. c \in Int /\ CodeSoFar(worker, c, k - 1)
    BY <2>1
  <2>3. QED
    BY <2>1, <2>2, CodeTurn
<1>3. P[N] = {c \in Int : CodeSoFar(worker, c, N)}
  BY Constants
<1> HIDE DEF P
<1>4. Code(worker) \in P[N]
  BY <1>1, <1>2, CodeLoop
<1>5. CodeSoFar(worker, Code(worker), N)
  BY <1>3, <1>4
<1>6. \A i \in Workers : i <= N
  BY Constants
<1>7. QED
  BY <1>5, <1>6 DEF CodeSoFar

LEMMA CodeHolds == ASSUME RunInv PROVE ExitCodeSound /\ FailFastReportsCause
<1> SUFFICES ASSUME phase = "returned" PROVE ExitCodeSound /\ FailFastReportsCause
  BY DEF ExitCodeSound, FailFastReportsCause
<1>1. /\ Books(run) /\ run.stops \subseteq Reasons
      /\ \A i \in Workers : run.worker[i] \in WorkerType /\ run.worker[i].marks \subseteq run.stops
  BY RunFields DEF RunInv, Stable, Books, Worker
<1>2. "cancelled" \notin run.stops => OverallExitCode(run) = Code(run.worker)
  BY DEF OverallExitCode, Code
<1>3. CommandExitCode(run) = 130 <=> "cancelled" \in run.stops
  BY DEF CommandExitCode
<1>4. CommandExitCode(run) = 0 <=> "cancelled" \notin run.stops /\ Code(run.worker) = 0
  BY <1>2 DEF CommandExitCode
<1>5. ASSUME NEW i \in Workers, "cancelled" \notin run.stops
      PROVE  "aborted" \notin run.worker[i].marks /\ ~IsFailure(run.worker[i])
             <=> run.worker[i].status = "ok" /\ run.worker[i].marks = {}
  <2> DEFINE w == run.worker[i]
  <2>1. ExitCode(w) = 0 <=> w.status = "ok"
    BY DEF ExitCode
  <2>2. w.marks \subseteq {"aborted", "timedOut"}
    BY <1>1, <1>5 DEF Reasons
  <2>3. IsFailure(w) <=> "timedOut" \in w.marks \/ w.status # "ok"
    BY <2>1 DEF IsFailure
  <2> HIDE DEF w
  <2>4. "aborted" \notin w.marks /\ ~IsFailure(w) <=> w.status = "ok" /\ w.marks = {}
    BY <2>2, <2>3
  <2>5. QED
    BY <2>4 DEF w
<1>6. "cancelled" \notin run.stops =>
          (Code(run.worker) = 0 <=> \A i \in Workers : run.worker[i].status = "ok" /\ run.worker[i].marks = {})
  BY <1>5, CodeMeans
<1>7. ExitCodeSound
  <2>1. CommandExitCode(run) = 0 <=>
            "cancelled" \notin run.stops /\ \A i \in Workers : run.worker[i].status = "ok" /\ run.worker[i].marks = {}
    BY <1>4, <1>6
  <2>2. QED
    BY <1>3, <2>1 DEF ExitCodeSound
<1>8. FailFastReportsCause
  <2> SUFFICES ASSUME run.stops = {"aborted"}
               PROVE  \E i \in Workers :
                          /\ "aborted" \notin run.worker[i].marks /\ IsFailure(run.worker[i])
                          /\ OverallExitCode(run) = IF ExitCode(run.worker[i]) = 0 THEN 1
                                                    ELSE ExitCode(run.worker[i])
    BY DEF FailFastReportsCause
  <2>1. \E i \in Workers : Fails(run.worker[i])
    BY <1>1 DEF Books, Caused, Cause, Fails
  <2>2. PICK i \in Workers : Fails(run.worker[i]) /\ Code(run.worker) = Blame(run.worker[i])
    BY <2>1, CodeMeans
  <2>3. OverallExitCode(run) = Code(run.worker)
    BY <1>2
  <2>4. QED
    BY <2>2, <2>3 DEF Fails, Blame
<1>9. QED
  BY <1>7, <1>8

LEMMA RetriesHold == ASSUME RunInv PROVE RetriesExhausted
BY DEF RunInv, Stable, Books, Worker, Final, RetriesExhausted

-----------------------------------------------------------------------------
\* The books of the run are in order in every state: what account(), fillSlots(),
\* the teardowns and the loops of run() rely on and keep.
THEOREM RunBooks == Spec => []RunInv
<1>1. Init => RunInv
  BY InitRunInv
<1>2. RunInv /\ [Next]_vars => RunInv'
  BY NextGoes DEF Goes
<1>3. QED
  BY <1>1, <1>2, PTL DEF Spec

\* remaining_ and inFlight_ agree with the workers, nobody waits for nothing, a run
\* that is stopped has its grace running, and run() returns with nothing left.
THEOREM WorkersAreAccounted == Spec => []WorkersAccounted
<1>1. RunInv => WorkersAccounted
  BY TypesHold, AwaitedHolds, BoundedHolds, NothingLeftHolds DEF WorkersAccounted
<1>2. QED
  BY <1>1, RunBooks, PTL

\* The exit code is 0 exactly for a run of successes that was not stopped, that of
\* a --fail-fast run names its cause, and a final 255 means no attempts were left.
THEOREM ReportsAreSound == Spec => []ReportSound
<1>1. RunInv => ReportSound
  BY CodeHolds, RetriesHold DEF ReportSound
<1>2. QED
  BY <1>1, RunBooks, PTL

\* No step, and no turn of a loop in one, starts a counted worker again or changes
\* its result.
THEOREM CountedStaysFinal == Spec => CountedIsFinal
<1>1. RunInv /\ [Next]_vars =>
          [\A i \in Workers : run.worker[i].counted =>
              /\ run'.worker[i].counted
              /\ run'.worker[i].life = run.worker[i].life
              /\ run'.worker[i].status = run.worker[i].status
              /\ run'.worker[i].open = run.worker[i].open
              /\ run'.worker[i].starts = run.worker[i].starts]_vars
  BY NextGoes DEF Goes, Keeps
<1>2. QED
  BY <1>1, RunBooks, PTL DEF Spec, CountedIsFinal

\* The deadline leaves the drain grace running, and when the grace has passed the
\* run is over, whatever the children do.
THEOREM DrainEndsTheRun == Spec => DrainEndsRun
<1>1. RunInv /\ [Next]_vars =>
          [/\ DeadlineTimer \in batch \ batch' => run'.stopped \/ run'.drainArmed
           /\ DrainTimer \in batch \ batch' => run'.stopped]_vars
  BY NextGoes DEF Ends1, Ends2
<1>2. QED
  BY <1>1, RunBooks, PTL DEF Spec, DrainEndsRun
=============================================================================
