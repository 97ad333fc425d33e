------------------------------- MODULE WorkerRun -------------------------------
(***************************************************************************)
(* The run of local and SSH workers on one reactor (WorkerRun and          *)
(* executeRemote of src/process_manager.cpp): a sliding window of child    *)
(* processes, retries of transient failures after a backoff, a deadline,   *)
(* Ctrl-C, --fail-fast, the drain grace that ends what does not die, and   *)
(* the overall exit code.                                                  *)
(*                                                                         *)
(* The run is single threaded: a handler of the reactor runs to its end,   *)
(* and fillSlots(), with which some of them end, is the loop of Spawn      *)
(* steps during which nothing else happens.  The children are not: they    *)
(* exit, and their pipes end, at any time or never, whatever signal they   *)
(* got.                                                                    *)
(***************************************************************************)
EXTENDS Integers, Sequences, FiniteSets, SequencesExt

CONSTANTS
    N,            \* workers
    MaxRetries,   \* --retries (0 unless --idempotent)
    Streams,      \* the pipes of one child: stdout, stderr, for a local command stdin
    Options       \* what the runs are started with: --fail-fast, --timeout, whether
                  \* Ctrl-C cancels, --concurrency (0 for all at once)

ASSUME WorkerRunAssumption ==
    /\ N \in Nat \ {0} /\ MaxRetries \in Nat
    /\ IsFiniteSet(Streams) /\ Streams # {}
    /\ \A o \in Options :
          /\ {o.failFast, o.cancellable, o.deadline} \subseteq BOOLEAN
          /\ o.concurrency \in Nat

VARIABLES
    opts,     \* the options of this run
    run,      \* the WorkerRun object and the reactor's timers
    phase,    \* where Reactor::run() is: starting, events, timers, returned
    filling,  \* fillSlots() is in its loop
    batch     \* the due timers fireDueTimers() has taken out and not yet run

vars == <<opts, run, phase, filling, batch>>

Workers == 1 .. N
Limit == IF opts.concurrency = 0 THEN N ELSE opts.concurrency

\* How a child ends: exit 0, an exit code of the command, 255 with a transport
\* failure of ssh on stderr, a signal.
Outcomes == {"ok", "fail", "transient", "killed"}
Reasons == {"cancelled", "aborted", "timedOut"}   \* mark()
DeadlineTimer == <<"deadline", 0>>
DrainTimer == <<"drain", 0>>
RetryTimer(i) == <<"retry", i>>
RetryTimers == {RetryTimer(i) : i \in Workers}

\* Worker: its process is waiting for a slot, running or exited; the last
\* status; the pipe ends not closed yet; why it was stopped; starts counts the
\* calls of spawn_, which the code does not keep.
FreshWorker ==
    [life |-> "waiting", status |-> "none", open |-> Streams, marks |-> {},
     counted |-> FALSE, awaitingRetry |-> FALSE, attempt |-> 0, starts |-> 0]

\* complete().
Complete(w) == w.life = "exited" /\ w.open = {}

\* exitCode(); the number of a failing command stands for any other than 0, 255.
ExitCode(w) ==
    CASE w.status = "ok" -> 0
      [] w.status = "fail" -> 3
      [] w.status = "transient" -> 255
      [] w.status = "nostart" -> 127
      [] OTHER -> -1

\* isFailure().
IsFailure(w) == "timedOut" \in w.marks \/ ExitCode(w) # 0
Retryable(w) == "timedOut" \notin w.marks /\ w.status = "transient"

Init ==
    /\ opts \in Options
    /\ run = [worker |-> [i \in Workers |-> FreshWorker],
              remaining |-> N, next |-> 1, inFlight |-> 0, retryQueue |-> <<>>,
              stops |-> {}, drainArmed |-> FALSE, stopped |-> FALSE,
              timers |-> IF opts.deadline THEN {DeadlineTimer} ELSE {}]
    /\ phase = "starting" /\ filling = TRUE /\ batch = {}

-----------------------------------------------------------------------------
\* The first half of account(): skip, retry, or count the worker and stop the
\* reactor with the last one.  run.stops holds cancelled_, aborted_ and
\* anyTimedOut_.
MayRetry(r, w) ==
    r.stops \cap {"cancelled", "aborted"} = {} /\ w.attempt < MaxRetries /\ Retryable(w)

CountWorker(r, i) ==
    [r EXCEPT !.worker[i].counted = TRUE,
              !.remaining = @ - 1,
              !.stopped = (r.remaining = 1)]

Settle(r, i) ==
    LET w == r.worker[i]
    IN  IF w.counted \/ w.awaitingRetry \/ ~Complete(w) THEN r
        ELSE IF MayRetry(r, w)
             THEN [r EXCEPT !.worker[i].awaitingRetry = TRUE,
                            !.worker[i].attempt = @ + 1,
                            !.timers = @ \cup {RetryTimer(i)}]
             ELSE CountWorker(r, i)

\* mark(), and the end of a worker that has no process.
Mark(r, i, reason) == [r EXCEPT !.worker[i].marks = @ \cup {reason}]
EndUnstarted(r, i, reason) ==
    [Mark(r, i, reason) EXCEPT !.worker[i].life = "exited", !.worker[i].open = {}]

\* The end of teardown(): the grace within which everything must be over.
ArmDrain(r) ==
    IF r.drainArmed THEN r
    ELSE [r EXCEPT !.drainArmed = TRUE, !.timers = @ \cup {DrainTimer}]

\* teardown() for Ctrl-C and for --fail-fast, whose flag keeps the account() calls
\* in it from retrying and from starting another: the workers queued for a respawn,
\* never started or in backoff end now; those with a child or an open pipe are
\* marked and signalled.
StopAll(r, reason) ==
    LET unstarted == ToSet(r.retryQueue) \cup (r.next .. N)
        ends(i) == i \in unstarted \/ r.worker[i].awaitingRetry
        ended == {i \in Workers : ends(i) /\ ~r.worker[i].counted}
        stop(i) ==
            LET w == [r.worker[i] EXCEPT !.marks = @ \cup {reason}]
            IN  IF ends(i)
                THEN [w EXCEPT !.life = "exited", !.open = {}, !.counted = TRUE,
                               !.awaitingRetry = FALSE]
                ELSE IF Complete(w) THEN r.worker[i] ELSE w
    IN  ArmDrain([r EXCEPT !.worker = [i \in Workers |-> stop(i)],
                           !.stops = @ \cup {reason}, !.timers = @ \ RetryTimers,
                           !.retryQueue = <<>>, !.next = N + 1,
                           !.remaining = @ - Cardinality(ended),
                           !.stopped = (r.remaining = Cardinality(ended))])

\* account(): the first final failure of a --fail-fast run stops the rest.
Account(r, i) ==
    LET settled == Settle(r, i)
    IN  IF /\ settled.worker[i].counted /\ ~r.worker[i].counted /\ ~settled.stopped
           /\ opts.failFast /\ settled.stops \cap {"aborted", "cancelled"} = {}
           /\ IsFailure(settled.worker[i])
        THEN StopAll(settled, "aborted")
        ELSE settled

\* What n turns of a loop make of r.
Loop(Turn(_, _), r, n) ==
    LET after[k \in 0 .. n] == IF k = 0 THEN r ELSE Turn(after[k - 1], k)
    IN  after[n]

\* teardown() for the deadline, loop by loop, because an account() in it may start
\* the one of --fail-fast.  The first loop runs over the queue as it was, even if
\* that has emptied it.
ExpireQueuedTurn(t, i) == Account(EndUnstarted(t, i, "timedOut"), i)
ExpireQueued(r) ==
    [Loop(LAMBDA t, k : ExpireQueuedTurn(t, r.retryQueue[k]), r, Len(r.retryQueue))
        EXCEPT !.retryQueue = <<>>]
ExpirePendingTurn(t, i) ==
    IF t.next > i THEN t
    ELSE Account(EndUnstarted([t EXCEPT !.next = i + 1], i, "timedOut"), i)
ExpirePending(r) == Loop(ExpirePendingTurn, r, N)
ExpireRunningTurn(t, i) ==
    LET w == t.worker[i]
        marked == Mark(t, i, "timedOut")
    IN  IF w.awaitingRetry
        THEN Account([marked EXCEPT !.worker[i].awaitingRetry = FALSE], i)
        ELSE IF w.counted \/ Complete(w) THEN t ELSE marked
ExpireRunning(r) == Loop(ExpireRunningTurn, r, N)
Expire(r) ==
    ArmDrain(ExpireRunning(ExpirePending(ExpireQueued(
        [r EXCEPT !.stops = @ \cup {"timedOut"}, !.timers = @ \ RetryTimers]))))

-----------------------------------------------------------------------------
\* fillSlots(), one spawn at a time.
CanSpawn(r) == r.inFlight < Limit /\ (r.retryQueue # <<>> \/ r.next <= N)
ToSpawn(r) == IF r.retryQueue # <<>> THEN Head(r.retryQueue) ELSE r.next
TakeNext(r) ==
    [r EXCEPT !.retryQueue = IF @ # <<>> THEN Tail(@) ELSE @,
              !.next = IF r.retryQueue # <<>> THEN @ ELSE @ + 1,
              !.worker[ToSpawn(r)].starts = @ + 1]

\* onExit() up to fillSlots(): reap, free the slot, account.
Reap(r, i, outcome) ==
    Account([r EXCEPT !.worker[i].life = "exited",
                      !.worker[i].status = outcome,
                      !.inFlight = IF @ > 0 THEN @ - 1 ELSE 0], i)

Launched(r) ==
    [TakeNext(r) EXCEPT !.worker[ToSpawn(r)].life = "running", !.inFlight = @ + 1]

\* arm(): the child runs, or is gone before it can be watched.
SpawnRuns ==
    /\ filling /\ CanSpawn(run)
    /\ \E r \in {Launched(run)} \cup {Reap(Launched(run), ToSpawn(run), o) : o \in Outcomes} :
          run' = r
    /\ UNCHANGED <<opts, phase, filling, batch>>

\* failToStart(): the spawn or the preparation of ssh failed.
SpawnFails ==
    /\ filling /\ CanSpawn(run)
    /\ run' = LET i == ToSpawn(run)
              IN  Account([TakeNext(run) EXCEPT !.worker[i].life = "exited",
                                                !.worker[i].status = "nostart",
                                                !.worker[i].open = {}], i)
    /\ UNCHANGED <<opts, phase, filling, batch>>

\* The loop ends; run() enters the reactor, which returns at once if the run is over.
FillEnds ==
    /\ filling /\ ~CanSpawn(run)
    /\ filling' = FALSE
    /\ phase' = IF phase # "starting" THEN phase
                ELSE IF run.stopped THEN "returned" ELSE "events"
    /\ UNCHANGED <<opts, run, batch>>

\* Every handler below runs with the reactor in its events or its timers.
Dispatching == phase = "events" /\ ~filling

\* onReadable() and onWritable() at the end of the stream.
StreamEnds(i, s) ==
    /\ Dispatching
    /\ run.worker[i].life # "waiting" /\ s \in run.worker[i].open
    /\ run' = Account([run EXCEPT !.worker[i].open = @ \ {s}], i)
    /\ UNCHANGED <<opts, phase, filling, batch>>

\* onExit().  (Mutant: the freed slot is not filled.)
ExitsUnfilled(i, outcome) ==
    /\ Dispatching
    /\ run.worker[i].life = "running"
    /\ run' = Reap(run, i, outcome)
    /\ UNCHANGED <<opts, phase, filling, batch>>
Exits(i, outcome) ==
    /\ Dispatching
    /\ run.worker[i].life = "running"
    /\ run' = Reap(run, i, outcome)
    /\ filling' = TRUE
    /\ UNCHANGED <<opts, phase, batch>>

\* onCancel(); the signal may still be in the events of the poll that ended the run.
OnCancel ==
    /\ Dispatching
    /\ opts.cancellable /\ "cancelled" \notin run.stops
    /\ run' = StopAll(run, "cancelled")
    /\ UNCHANGED <<opts, phase, filling, batch>>

\* fireDueTimers(): all due handlers leave the reactor's table, then run in turn;
\* cancelling one of them has no effect any more.
FireDueTimers(due) ==
    /\ Dispatching
    /\ due # {} \/ run.stopped
    /\ batch' = due
    /\ run' = [run EXCEPT !.timers = @ \ due]
    /\ phase' = "timers"
    /\ UNCHANGED <<opts, filling>>

RunTimer(t) == phase = "timers" /\ ~filling /\ t \in batch /\ batch' = batch \ {t}

\* onRetry().  Its test of cancelled_ is not modelled: a cancelled run has counted
\* every worker in backoff.  (Mutant: without the test of counted.)
RetryIsNeverVoid(w) == FALSE
RetryIsVoid(w) == w.counted
OnRetry(i) ==
    /\ RunTimer(RetryTimer(i))
    /\ IF RetryIsVoid(run.worker[i]) THEN UNCHANGED <<run, filling>>
       ELSE /\ run' = [run EXCEPT !.worker[i] =
                                     [FreshWorker EXCEPT !.attempt = run.worker[i].attempt,
                                                         !.starts = run.worker[i].starts],
                                  !.retryQueue = Append(@, i)]
            /\ filling' = TRUE
    /\ UNCHANGED <<opts, phase>>

OnDeadline ==
    /\ RunTimer(DeadlineTimer)
    /\ run' = Expire(run)
    /\ UNCHANGED <<opts, phase, filling>>

\* onDrainExpired(): close the pipes, kill and reap the children of every worker
\* that is not complete; how a killed child had really ended is not known.
\* (Mutant: a worker that only held a pipe is closed but not counted.)
AbandonUncounted(r, i, outcome) ==
    LET closed == [r EXCEPT !.worker[i].open = {}]
    IN  IF Complete(r.worker[i]) THEN r
        ELSE IF r.worker[i].life = "exited" THEN closed ELSE Reap(closed, i, outcome)
Abandon(r, i, outcome) ==
    LET closed == [r EXCEPT !.worker[i].open = {}]
    IN  IF Complete(r.worker[i]) THEN r
        ELSE Account(IF r.worker[i].life = "exited" THEN closed ELSE Reap(closed, i, outcome), i)
OnDrainExpired ==
    /\ RunTimer(DrainTimer)
    /\ \E outcome \in [{i \in Workers : run.worker[i].life = "running"} -> Outcomes] :
          run' = Loop(LAMBDA t, i : Abandon(t, i, IF i \in DOMAIN outcome THEN outcome[i] ELSE "none"),
                      [run EXCEPT !.drainArmed = FALSE], N)
    /\ filling' = TRUE
    /\ UNCHANGED <<opts, phase>>

\* The end of runOnce(): run() polls again or returns.
EndIteration ==
    /\ phase = "timers" /\ ~filling /\ batch = {}
    /\ phase' = IF run.stopped THEN "returned" ELSE "events"
    /\ UNCHANGED <<opts, run, filling, batch>>

Returned == phase = "returned" /\ UNCHANGED vars

Next ==
    \/ SpawnRuns \/ SpawnFails \/ FillEnds
    \/ \E i \in Workers, s \in Streams : StreamEnds(i, s)
    \/ \E i \in Workers, o \in Outcomes : Exits(i, o)
    \/ OnCancel
    \/ \E due \in SUBSET run.timers : FireDueTimers(due)
    \/ \E i \in Workers : OnRetry(i)
    \/ OnDeadline \/ OnDrainExpired \/ EndIteration \/ Returned

Spec == Init /\ [][Next]_vars

-----------------------------------------------------------------------------
\* executeRemote() after run(): the overall exit code, worker by worker, and the
\* code of the pipeshellx command.  (Mutant: a killed sibling's code wins.)
OverallExitCodeLast(r) ==
    LET turn(code, i) ==
            LET w == r.worker[i]
            IN  IF IsFailure(w) THEN IF ExitCode(w) = 0 THEN 1 ELSE ExitCode(w) ELSE code
    IN  IF "cancelled" \in r.stops THEN 130 ELSE Loop(turn, 0, N)
ExitCodeTurn(w, code) ==
    IF "aborted" \in w.marks THEN IF code = 0 THEN 1 ELSE code
    ELSE IF IsFailure(w) THEN IF ExitCode(w) = 0 THEN 1 ELSE ExitCode(w)
    ELSE code
OverallExitCode(r) ==
    IF "cancelled" \in r.stops THEN 130
    ELSE Loop(LAMBDA code, i : ExitCodeTurn(r.worker[i], code), 0, N)
CommandExitCode(r) ==
    IF "cancelled" \in r.stops THEN 130 ELSE IF OverallExitCode(r) = 0 THEN 0 ELSE 1

\* Type invariant.
TypeOK ==
    /\ opts \in Options
    /\ run.worker \in [Workers -> [life : {"waiting", "running", "exited"},
                                   status : Outcomes \cup {"none", "nostart"},
                                   open : SUBSET Streams, marks : SUBSET Reasons,
                                   counted : BOOLEAN, awaitingRetry : BOOLEAN,
                                   attempt : 0 .. MaxRetries, starts : 0 .. MaxRetries + 1]]
    /\ run.remaining \in 0 .. N /\ run.next \in 1 .. N + 1 /\ run.inFlight \in 0 .. N
    /\ run.retryQueue \in Seq(Workers) /\ run.stops \subseteq Reasons
    /\ run.drainArmed \in BOOLEAN /\ run.stopped \in BOOLEAN
    /\ run.timers \subseteq RetryTimers \cup {DeadlineTimer, DrainTimer}
    /\ phase \in {"starting", "events", "timers", "returned"} /\ filling \in BOOLEAN
    /\ batch \subseteq RetryTimers \cup {DeadlineTimer, DrainTimer}

\* account() subtracts every worker exactly once: remaining_ counts the workers
\* not accounted for, inFlight_ the live children, never more than --concurrency.
WorkersCounted ==
    /\ run.remaining = Cardinality({i \in Workers : ~run.worker[i].counted})
    /\ run.inFlight = Cardinality({i \in Workers : run.worker[i].life = "running"})
    /\ run.inFlight <= Limit
    /\ run.stopped = (run.remaining = 0)

\* While the reactor waits, every worker that is not counted has something that
\* will call account() for it: a child, an open pipe, a backoff timer, or, with
\* every slot taken, a place in line.
EveryWorkerAwaited ==
    Dispatching => \A i \in Workers :
        LET w == run.worker[i]
        IN  \/ w.counted
            \/ w.life = "running"
            \/ w.life = "exited" /\ w.open # {}
            \/ w.awaitingRetry /\ RetryTimer(i) \in run.timers
            \/ /\ w.life = "waiting" /\ run.inFlight = Limit
               /\ i >= run.next \/ i \in ToSet(run.retryQueue)

\* A run that is being stopped and is not over has its drain grace running, no
\* worker in line and none in backoff: only children and pipes are left.
StopIsBounded ==
    run.stops # {} /\ ~run.stopped /\ Dispatching =>
        /\ run.drainArmed /\ DrainTimer \in run.timers
        /\ \A i \in Workers : ~run.worker[i].awaitingRetry /\ run.worker[i].life # "waiting"

\* When run() returns, no child is unreaped, no pipe is watched in the reactor
\* that outlives the run, and every worker has been accounted for.
NothingLeftBehind ==
    phase = "returned" =>
        /\ batch = {} /\ run.retryQueue = <<>>
        /\ \A i \in Workers :
              run.worker[i].counted /\ run.worker[i].life = "exited" /\ run.worker[i].open = {}

\* The command succeeds exactly if every worker exited with 0 and the run was not
\* stopped while it ran; Ctrl-C is always reported as 130.
ExitCodeSound ==
    phase = "returned" =>
        /\ (CommandExitCode(run) = 130) = ("cancelled" \in run.stops)
        /\ (CommandExitCode(run) = 0) =
              ("cancelled" \notin run.stops
               /\ \A i \in Workers : run.worker[i].status = "ok" /\ run.worker[i].marks = {})

\* A run that --fail-fast ended reports the code of a worker that failed by
\* itself, not that of a sibling the abort killed.  (A deadline under --fail-fast
\* aborts too: its first victim counts as the failure.)
FailFastReportsCause ==
    phase = "returned" /\ run.stops = {"aborted"} =>
        \E i \in Workers :
            /\ "aborted" \notin run.worker[i].marks /\ IsFailure(run.worker[i])
            /\ OverallExitCode(run) = IF ExitCode(run.worker[i]) = 0 THEN 1
                                      ELSE ExitCode(run.worker[i])

\* A counted worker is never started again and its result does not change, even
\* by a retry timer that was due together with what counted it.
CountedIsFinal ==
    [][\A i \in Workers : run.worker[i].counted =>
          /\ run'.worker[i].counted
          /\ run'.worker[i].life = run.worker[i].life
          /\ run'.worker[i].status = run.worker[i].status
          /\ run'.worker[i].open = run.worker[i].open
          /\ run'.worker[i].starts = run.worker[i].starts]_vars

\* A worker that was not stopped made as many attempts as it reports, and only
\* the last one of them counts: 255 with attempts left is never a final result.
RetriesExhausted ==
    \A i \in Workers :
        LET w == run.worker[i]
        IN  w.counted /\ w.marks = {} =>
                /\ w.starts = w.attempt + 1
                /\ w.status = "transient" => w.attempt = MaxRetries \/ run.stops # {}

\* The end of a stopped run is a matter of timers alone, whatever the children do:
\* the deadline leaves the drain grace running, and when that has passed the run
\* is over.
DrainEndsRun ==
    [][/\ DeadlineTimer \in batch \ batch' => run'.stopped \/ run'.drainArmed
       /\ DrainTimer \in batch \ batch' => run'.stopped]_vars

\* The books of run(): counters that agree with the workers, nobody waiting for
\* nothing, a stopped run that is bounded, and nothing left when it returns
\* (account, fillSlots, armDrain and run of process_manager.cpp).
WorkersAccounted ==
    TypeOK /\ WorkersCounted /\ EveryWorkerAwaited /\ StopIsBounded /\ NothingLeftBehind

\* What the run reports of its workers is what happened to them (retryable,
\* isFailure and the exit codes of process_manager.cpp and run_command.cpp).
ReportSound == ExitCodeSound /\ FailFastReportsCause /\ RetriesExhausted
=============================================================================
