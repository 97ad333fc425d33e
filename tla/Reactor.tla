------------------------------- MODULE Reactor -------------------------------
(***************************************************************************)
(* The event loop everything runs on (runtime/reactor.cpp) over the epoll  *)
(* and poll backends (poller_epoll.cpp, poller_poll.cpp), the two sources  *)
(* of child exits (child_exit.cpp, child_exit_pidfd.cpp) and the signal    *)
(* source (signal_source_signalfd.cpp).                                    *)
(*                                                                         *)
(* The program is arbitrary: each handler drains what it was called for    *)
(* and may then make more calls on the reactor or on a Process (at most    *)
(* MaxCalls in all).  Another thread may call stop().                      *)
(***************************************************************************)
EXTENDS Process

CONSTANTS
    Scenarios,    \* backend, child-exit mode, event batch, and the calls made
    Fds,          \* descriptor numbers
    MaxCalls,     \* bound on the calls made by handlers
    MaxArrivals,  \* bound on data arriving
    MaxClock      \* bound on time

ASSUME ReactorAssumption == Fds \subseteq Nat /\ MaxClock \in Nat

VARIABLES
    sc,     \* the scenario of this run
    fd,     \* fd[f]: the open file behind a descriptor, and its pending input
    rx,     \* the reactor's members
    loop,   \* where run() is, and what it still has to dispatch
    clock,
    used    \* calls, arrivals and files opened so far

reactorVars == <<sc, fd, rx, loop, clock, used>>
vars == <<reactorVars, processVars>>

childToken == 1
signalToken == 2
Closed == [file |-> 0, ready |-> FALSE]

\* create(): the child source and the signal source hold the first two tokens.
Init ==
    /\ sc \in Scenarios
    /\ ProcessInit
    /\ fd = [f \in Fds |-> Closed]
    /\ rx = [io |-> <<>>, nextToken |-> 3, timers |-> {}, timerQueue |-> {}, nextTimer |-> 1,
             childHandlers |-> {}, watched |-> {}, selfPipe |-> FALSE, signals |-> FALSE,
             stopRequested |-> FALSE, wake |-> FALSE]
    /\ loop = [pc |-> "idle", back |-> "idle", events |-> <<>>, exited |-> <<>>, due |-> <<>>, until |-> MaxClock + 1,
               stale |-> FALSE, early |-> FALSE, fired |-> {}, stopper |-> "none"]
    /\ clock = 0
    /\ used = [calls |-> 0, arrivals |-> 0, files |-> 0]

-----------------------------------------------------------------------------
(* Pollers and sources *)

\* The registrations: a token maps to its descriptor, the file it had then, its
\* interest, and for epoll the edge the kernel has yet to report.
Tokens == DOMAIN rx.io

\* A registered handle the poller would report.
HandleDue(t) ==
    rx.io[t].interest /\ IF sc.backend = "epoll" THEN rx.io[t].edge ELSE fd[rx.io[t].fd].ready

\* The child source is readable: a byte in the self-pipe, or an exited pidfd.
ChildDue ==
    IF sc.children = "signal" THEN rx.selfPipe
    ELSE \E p \in rx.watched : kernel[p].state = "zombie"

Due == {t \in Tokens : HandleDue(t)} \union (IF ChildDue THEN {childToken} ELSE {})
                                     \union (IF rx.signals THEN {signalToken} ELSE {})

\* Mutant: every pending edge is consumed, delivered or not.
consumedAll(io, got) == [t \in DOMAIN io |-> [io[t] EXCEPT !.edge = FALSE]]
\* wait() consumes the edges of the events it delivers and of no others.
consumed(io, got) == [t \in DOMAIN io |-> IF t \in got THEN [io[t] EXCEPT !.edge = FALSE] ELSE io[t]]

\* add(), modify() and remove() of a registration.  Both kinds of epoll_ctl report
\* input that is already there.
pollerAdd(r, t, f, file) ==
    [r EXCEPT !.io = [u \in DOMAIN r.io \union {t} |->
                         IF u = t THEN [fd |-> f, file |-> file, interest |-> TRUE, edge |-> FALSE]
                         ELSE r.io[u]]]
pollerModify(r, t, interest) == [r EXCEPT !.io[t].interest = interest, !.io[t].edge = fd[r.io[t].fd].ready]
pollerRemove(r, t) == [r EXCEPT !.io = [u \in DOMAIN r.io \ {t} |-> r.io[u]]]

\* wake(): wait() returns, now or when it is next called.
pollerWake(r) == [r EXCEPT !.wake = TRUE]

\* SignalSource::drain takes every signal that is pending.
drainedSignals(r) == [r EXCEPT !.signals = FALSE]

\* ChildExitSource::watch: a child that has already exited is reported at once.
childWatch(r, p) ==
    [r EXCEPT !.watched = @ \union {p},
              !.selfPipe = @ \/ (sc.children = "signal" /\ kernel[p].state = "zombie")]

childUnwatch(r, p) == [r EXCEPT !.watched = @ \ {p}]

\* onSigChld: a byte into the self-pipe for every child that exits.
sigChld(r) == [r EXCEPT !.selfPipe = @ \/ sc.children = "signal"]

\* ChildExitSource::drain: the watched children that have exited or are gone.
Exited == {p \in rx.watched : kernel[p].state # "running"}

-----------------------------------------------------------------------------
(* The reactor's operations, called from handlers *)

\* Mutant: a token is the number of the descriptor.
newTokenOfFd(r, f) == f + 2
\* Tokens are never reused.
newToken(r, f) == r.nextToken

\* Open a file on the lowest free descriptor and watch it.
watchNew ==
    /\ \E f \in Fds : fd[f] = Closed
    /\ LET f == Min({g \in Fds : fd[g] = Closed})
           t == newToken(rx, f)
       IN  /\ fd' = [fd EXCEPT ![f] = [file |-> used.files + 1, ready |-> FALSE]]
           /\ rx' = pollerAdd([rx EXCEPT !.nextToken = @ + 1], t, f, used.files + 1)
    /\ used' = [used EXCEPT !.calls = @ + 1, !.files = @ + 1]
    /\ UNCHANGED processVars

\* unwatch(), after which the owner closes the descriptor.
unwatch(t) ==
    /\ rx' = pollerRemove(rx, t)
    /\ fd' = [fd EXCEPT ![rx.io[t].fd] = Closed]
    /\ UNCHANGED processVars

\* modify(): pause or resume; re-arming reports readiness that is pending.
modify(t) ==
    /\ rx' = pollerModify(rx, t, ~rx.io[t].interest)
    /\ UNCHANGED <<fd, processVars>>

\* after() and cancel(); a cancelled entry stays in the queue and is skipped.
after(delay) ==
    /\ rx' = [rx EXCEPT !.timers = @ \union {rx.nextTimer}, !.nextTimer = @ + 1,
                        !.timerQueue = @ \union {[deadline |-> clock + delay, id |-> rx.nextTimer]}]
    /\ UNCHANGED <<fd, processVars>>
cancel(id) ==
    /\ rx' = [rx EXCEPT !.timers = @ \ {id}]
    /\ UNCHANGED <<fd, processVars>>

watchChild(h) ==
    /\ handle[h].owns /\ handle[h].id \notin rx.childHandlers \union rx.watched
    /\ rx' = childWatch([rx EXCEPT !.childHandlers = @ \union {handle[h].id}], handle[h].id)
    /\ UNCHANGED <<fd, processVars>>
unwatchChild(p) ==
    /\ rx' = childUnwatch([rx EXCEPT !.childHandlers = @ \ {p}], p)
    /\ UNCHANGED <<fd, processVars>>

\* A handler that owns a child calls a member of Process.  A watched child is
\* left alone until its handler has run or it has been unwatched.  Process
\* numbers do not come round again within one dispatch round.
Unwatched(h) == handle[h].id \notin rx.childHandlers
ownerCall(h) ==
    /\ \/ \E spec \in Specs, p \in Pids \ ToSet(loop.exited), execs \in BOOLEAN : spawn(h, spec, p, execs)
       \/ Unwatched(h) /\ (tryWait(h) \/ stop(h) \/ destroyProcess(h) \/ signalKill(h))
       \/ \E g \in Handles : Unwatched(h) /\ moveAssign(h, g)
    /\ rx' = IF \E p \in Pids : kernel[p].state = "running" /\ kernel'[p].state # "running" THEN sigChld(rx) ELSE rx
    /\ UNCHANGED fd

\* A call of a handler after it has done its own work, or none.
Call ==
    \/ UNCHANGED <<fd, rx, used, processVars>>
    \/ /\ used.calls < MaxCalls
       /\ \/ "io" \in sc.calls /\ watchNew
          \/ /\ \/ "io" \in sc.calls /\ \E t \in Tokens : unwatch(t) \/ modify(t)
                \/ "timer" \in sc.calls /\ \/ \E d \in 0..1 : after(d)
                                           \/ \E id \in rx.timers : cancel(id)
                \/ "child" \in sc.calls /\ \/ \E h \in Handles : ownerCall(h) \/ watchChild(h)
                                           \/ \E p \in rx.childHandlers : unwatchChild(p)
             /\ used' = [used EXCEPT !.calls = @ + 1]

-----------------------------------------------------------------------------
(* The loop *)

\* run(): a stop() issued beforehand returns immediately.
run ==
    /\ loop.pc = "idle"
    /\ IF rx.stopRequested THEN rx' = [rx EXCEPT !.stopRequested = FALSE] /\ UNCHANGED loop
       ELSE loop' = [loop EXCEPT !.pc = "check"] /\ UNCHANGED rx
    /\ UNCHANGED <<sc, fd, clock, used, processVars>>

\* Before and between runs the program may make calls too.
setup ==
    /\ loop.pc = "idle" /\ Call
    /\ UNCHANGED <<sc, loop, clock>>

\* waitBudget: cancelled timers leave the head; the next one bounds the wait.
NextDeadline == Min({MaxClock + 1} \union {q.deadline : q \in {r \in rx.timerQueue : r.id \in rx.timers}})

\* The loop's test of stopRequested, and the entry into wait().
check ==
    /\ loop.pc = "check"
    /\ IF rx.stopRequested
       THEN /\ rx' = [rx EXCEPT !.stopRequested = FALSE]
            /\ loop' = [loop EXCEPT !.pc = "idle"]
       ELSE /\ loop' = [loop EXCEPT !.pc = "wait", !.until = NextDeadline]
            /\ UNCHANGED rx
    /\ UNCHANGED <<sc, fd, clock, used, processVars>>

\* Poller::wait returns: events, a wake-up, or the next timer's deadline.
CanReturn == Due # {} \/ rx.wake \/ clock >= loop.until
wait ==
    /\ loop.pc = "wait" /\ CanReturn
    /\ \E got \in {s \in SUBSET Due : Cardinality(s) = Min({sc.kEventBatch, Cardinality(Due)})} :
        \E order \in SetToSeqs(got) :
            /\ loop' = [loop EXCEPT !.pc = "events",
                          !.events = [i \in DOMAIN order |->
                              [token |-> order[i],
                               file |-> IF order[i] > signalToken THEN rx.io[order[i]].file ELSE 0]]]
            /\ rx' = [rx EXCEPT !.wake = FALSE, !.io = consumed(@, got)]
    /\ UNCHANGED <<sc, fd, clock, used, processVars>>

\* An event whose token is no longer registered is skipped.
Event == Head(loop.events)
dispatchSkip ==
    /\ loop.pc = "events" /\ loop.events # <<>>
    /\ Event.token > signalToken /\ Event.token \notin Tokens
    /\ loop' = [loop EXCEPT !.events = Tail(@)]
    /\ UNCHANGED <<sc, fd, rx, clock, used, processVars>>

\* The handler of a registered handle drains it; a handler may unwatch itself
\* or others, then or later.
dispatchIo ==
    /\ loop.pc = "events" /\ loop.events # <<>> /\ Event.token \in Tokens
    /\ fd' = [fd EXCEPT ![rx.io[Event.token].fd].ready = FALSE]
    /\ loop' = [loop EXCEPT !.pc = "call", !.back = "events", !.events = Tail(@),
                            !.stale = @ \/ Event.file # rx.io[Event.token].file]
    /\ UNCHANGED <<sc, rx, clock, used, processVars>>

\* dispatchSignals: drain, then the handler, which stops the loop.
dispatchSignals ==
    /\ loop.pc = "events" /\ loop.events # <<>> /\ Event.token = signalToken
    /\ loop' = [loop EXCEPT !.events = Tail(@)]
    /\ rx' = pollerWake([drainedSignals(rx) EXCEPT !.stopRequested = TRUE])
    /\ UNCHANGED <<sc, fd, clock, used, processVars>>

\* dispatchChildren: drain empties the self-pipe, then looks at every watched
\* child (a child may exit in between), then the handlers are called in turn.
dispatchChildren ==
    /\ loop.pc = "events" /\ loop.events # <<>> /\ Event.token = childToken
    /\ loop' = [loop EXCEPT !.pc = "scan", !.events = Tail(@)]
    /\ rx' = [rx EXCEPT !.selfPipe = FALSE]
    /\ UNCHANGED <<sc, fd, clock, used, processVars>>
drain ==
    /\ loop.pc = "scan"
    /\ \E order \in SetToSeqs(Exited) : loop' = [loop EXCEPT !.pc = "children", !.exited = order]
    /\ rx' = [rx EXCEPT !.watched = @ \ Exited]
    /\ UNCHANGED <<sc, fd, clock, used, processVars>>

\* A child handler runs once, is forgotten, and reaps its child.
childHandler ==
    /\ loop.pc = "children" /\ loop.exited # <<>>
    /\ LET p == Head(loop.exited)
           owners == {h \in Handles : handle[h].owns /\ handle[h].id = p}
       IN  IF p \notin rx.childHandlers
           THEN /\ loop' = [loop EXCEPT !.exited = Tail(@)]
                /\ UNCHANGED <<rx, processVars>>
           ELSE /\ loop' = [loop EXCEPT !.exited = Tail(@), !.pc = "call", !.back = "children",
                                        !.early = @ \/ kernel[p].state # "zombie"]
                /\ rx' = [rx EXCEPT !.childHandlers = @ \ {p}]
                /\ IF \E h \in owners : kernel[p].state = "zombie"
                   THEN \E h \in owners : tryWait(h)
                   ELSE UNCHANGED processVars
    /\ UNCHANGED <<sc, fd, clock, used>>

\* Due entries in the order of the priority queue.
dueOrder(q) ==
    {s \in SetToSeqs(q) : \A i, j \in DOMAIN s : i < j =>
        s[i].deadline < s[j].deadline \/ (s[i].deadline = s[j].deadline /\ s[i].id < s[j].id)}

\* fireDueTimers collects every due handler first, then runs them: a timer that
\* one of them cancels has already been collected and runs all the same.
fireDueTimers ==
    /\ loop.pc = "events" /\ loop.events = <<>>
    /\ LET q == {e \in rx.timerQueue : e.deadline <= clock}
           live == {e \in q : e.id \in rx.timers}
       IN  /\ \E order \in dueOrder(live) : loop' = [loop EXCEPT !.pc = "timers", !.due = order]
           /\ rx' = [rx EXCEPT !.timerQueue = @ \ q, !.timers = @ \ {e.id : e \in live}]
    /\ UNCHANGED <<sc, fd, clock, used, processVars>>
timerHandler ==
    /\ loop.pc = "timers" /\ loop.due # <<>>
    /\ loop' = [loop EXCEPT !.due = Tail(@), !.pc = "call", !.back = "timers", !.fired = @ \union {Head(loop.due).id},
                            !.early = @ \/ Head(loop.due).deadline > clock
                                        \/ Head(loop.due).id \in loop.fired]
    /\ UNCHANGED <<sc, fd, rx, clock, used, processVars>>

\* The calls a handler makes before it returns to the loop.
handlerCall ==
    /\ loop.pc = "call" /\ Call
    /\ \E pc \in {"call", loop.back} : loop' = [loop EXCEPT !.pc = pc]
    /\ UNCHANGED <<sc, clock>>
childrenDone ==
    /\ loop.pc = "children" /\ loop.exited = <<>>
    /\ loop' = [loop EXCEPT !.pc = "events"]
    /\ UNCHANGED <<sc, fd, rx, clock, used, processVars>>
timersDone ==
    /\ loop.pc = "timers" /\ loop.due = <<>>
    /\ loop' = [loop EXCEPT !.pc = "check"]
    /\ UNCHANGED <<sc, fd, rx, clock, used, processVars>>

-----------------------------------------------------------------------------
(* The other thread, the kernel and the world *)

\* stop() from another thread: the flag first, then the wake-up.
stopStore ==
    /\ "stop" \in sc.calls /\ loop.stopper = "none"
    /\ rx' = [rx EXCEPT !.stopRequested = TRUE] /\ loop' = [loop EXCEPT !.stopper = "stored"]
    /\ UNCHANGED <<sc, fd, clock, used, processVars>>
stopWake ==
    /\ loop.stopper = "stored"
    /\ rx' = pollerWake(rx) /\ loop' = [loop EXCEPT !.stopper = "done"]
    /\ UNCHANGED <<sc, fd, clock, used, processVars>>

\* Input arrives on an open file: ready, and an edge for its registration.
arrive(f) ==
    /\ used.arrivals < MaxArrivals /\ fd[f] # Closed /\ ~fd[f].ready
    /\ fd' = [fd EXCEPT ![f].ready = TRUE]
    /\ rx' = [rx EXCEPT !.io = [t \in Tokens |-> IF rx.io[t].fd = f THEN [rx.io[t] EXCEPT !.edge = TRUE] ELSE rx.io[t]]]
    /\ used' = [used EXCEPT !.arrivals = @ + 1]
    /\ UNCHANGED <<sc, loop, clock, processVars>>

\* A signal the source was created for.
signalArrives ==
    /\ "signal" \in sc.calls /\ ~rx.signals /\ used.arrivals < MaxArrivals
    /\ rx' = [rx EXCEPT !.signals = TRUE] /\ used' = [used EXCEPT !.arrivals = @ + 1]
    /\ UNCHANGED <<sc, fd, loop, clock, processVars>>

\* A child exits, forks, or its group ends.
childEvent(p) ==
    /\ \/ childExits(p) /\ rx' = sigChld(rx)
       \/ (childForks(p) \/ groupEnds(p)) /\ UNCHANGED rx
    /\ UNCHANGED <<sc, fd, loop, clock, used, handle, struck, spawned>>

timePasses ==
    /\ "timer" \in sc.calls /\ clock < MaxClock /\ clock' = clock + 1
    /\ UNCHANGED <<sc, fd, rx, loop, used, processVars>>

Next ==
    \/ run \/ setup \/ check \/ wait
    \/ dispatchSkip \/ dispatchIo \/ dispatchSignals \/ dispatchChildren \/ drain
    \/ childHandler \/ childrenDone \/ fireDueTimers \/ timerHandler \/ timersDone \/ handlerCall
    \/ stopStore \/ stopWake \/ signalArrives \/ timePasses
    \/ \E f \in Fds : arrive(f)
    \/ \E p \in Pids : childEvent(p)

Spec == Init /\ [][Next]_vars

-----------------------------------------------------------------------------
(* Properties *)

\* The loop never sleeps through work: while it blocks in wait(), pending input
\* on a handle that is watched, a watched child that has exited, a signal, a
\* timer that is due, or a stop() that has returned will end the wait.
NoLostWakeup ==
    loop.pc = "wait" /\ ( \/ \E t \in Tokens : rx.io[t].interest /\ fd[rx.io[t].fd].ready
                          \/ \E p \in rx.watched : kernel[p].state = "zombie"
                          \/ rx.signals
                          \/ \E q \in rx.timerQueue : q.id \in rx.timers /\ q.deadline <= clock
                          \/ loop.stopper = "done" /\ rx.stopRequested )
    => CanReturn

\* Handlers are called for what is theirs: an I/O handler never for an event of a
\* file that had its descriptor before, a child handler only when its own child
\* has exited, a timer once and never before its deadline.
HandlersGetTheirOwn == ~loop.stale /\ ~loop.early
=============================================================================
