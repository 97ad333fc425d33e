--------------------------- MODULE NativeController ---------------------------
(***************************************************************************)
(* The controller's fan-out (src/transport/native_controller.cpp): one     *)
(* connection per target, at most Concurrency at a time, all on one        *)
(* reactor.  A callback runs to completion, so every action is a whole     *)
(* handler, with one exception made explicit by `phase`: the loop of       *)
(* fillSlots() is a sequence of Launch steps during which nothing else     *)
(* runs, as the code's filling_ says.                                      *)
(*                                                                         *)
(* conns is the interval of targets this controller was started with:      *)
(* module NativeRun starts a second controller on the rest after a canary. *)
(***************************************************************************)
EXTENDS Naturals, FiniteSets

CONSTANTS
    N,            \* number of targets
    Concurrency,  \* Options::concurrency, 0 for no limit
    Encodable     \* the command passes validateOpenRequest()

ASSUME ControllerAssumption ==
    /\ N \in Nat
    /\ Concurrency \in Nat
    /\ Encodable \in BOOLEAN

Targets == 1 .. N
CancelKinds == {"timeout", "interrupt", "failfast"}
Results == {"pending", "ok", "nonzero", "error", "skipped"} \cup CancelKinds
Links == {"idle", "connecting", "unopened", "open", "exited", "lost", "retired"}

VARIABLES
    failFast,     \* Options::failFast
    conns,        \* conns_: the targets of this controller
    nextToStart,  \* nextToStart_
    active,       \* the Conns with active set: their transport exists
    activeCount,  \* active_
    done,         \* the Conns with done set
    remaining,    \* remaining_
    result,       \* HostResult of every target
    link,         \* the transport of every target, and its one stream
    retiring,     \* targets with a retire timer pending
    phase,        \* created, filling (inside fillSlots), waiting (in the reactor)
    cancelling,   \* cancelling_
    completed     \* completed_: onComplete was called

vars == <<failFast, conns, nextToStart, active, activeCount, done, remaining, result, link,
          retiring, phase, cancelling, completed>>

Init ==
    /\ failFast \in BOOLEAN
    /\ conns = Targets
    /\ nextToStart = 1
    /\ active = {} /\ activeCount = 0
    /\ done = {} /\ remaining = N
    /\ result = [i \in Targets |-> "pending"]
    /\ link = [i \in Targets |-> "idle"]
    /\ retiring = {}
    /\ phase = "created"
    /\ cancelling = FALSE /\ completed = FALSE

Limit == IF Concurrency = 0 THEN Cardinality(conns) ELSE Concurrency

-----------------------------------------------------------------------------
\* completeIfReady(), given the counters after the handler.
ReadyToComplete(left, running) == left = 0 /\ running = 0

\* remaining_ and active_ never pass below zero.
Less(n, k) == IF n > k THEN n - k ELSE 0

\* The loop of cancel(): every target that is not done is failed, and those
\* with a transport (act) get a retire timer each.
FailRest(act) ==
    /\ cancelling' = TRUE
    /\ done' = conns
    /\ remaining' = Less(remaining, Cardinality(conns \ done))
    /\ retiring' = retiring \cup (act \ done)

\* The results that loop leaves, over those of base.
CancelledResults(base, kind) ==
    [j \in Targets |-> IF j \in conns \ done /\ base[j] = "pending" THEN kind ELSE base[j]]

\* finish() -> onConnDone() for target i of act with result r: fail-fast first,
\* then the retire timer.  (Mutant: onConnDone returns after the cancel.)
FinishWithoutTimer(i, r, act) ==
    /\ IF failFast /\ ~cancelling /\ r # "ok"
       THEN /\ result' = CancelledResults([result EXCEPT ![i] = r], "failfast")
            /\ FailRest(act \ {i})
       ELSE /\ result' = [result EXCEPT ![i] = r]
            /\ done' = done \cup {i}
            /\ remaining' = Less(remaining, 1)
            /\ retiring' = retiring \cup {i}
            /\ UNCHANGED cancelling
Finish(i, r, act) ==
    IF failFast /\ ~cancelling /\ r # "ok"
    THEN /\ result' = CancelledResults([result EXCEPT ![i] = r], "failfast")
         /\ FailRest(act)
    ELSE /\ result' = [result EXCEPT ![i] = r]
         /\ done' = done \cup {i}
         /\ remaining' = Less(remaining, 1)
         /\ retiring' = retiring \cup {i}
         /\ UNCHANGED cancelling

-----------------------------------------------------------------------------
\* start(): fillSlots() for a non-empty run, completion at once for an empty one.
Start ==
    /\ phase = "created"
    /\ IF conns = {}
       THEN completed' = TRUE /\ phase' = "waiting"
       ELSE phase' = "filling" /\ UNCHANGED completed
    /\ UNCHANGED <<failFast, conns, nextToStart, active, activeCount, done, remaining, result,
                   link, retiring, cancelling>>

\* The loop condition of fillSlots().
MoreToLaunch == nextToStart \in conns /\ activeCount < Limit /\ ~cancelling

\* launch(): the connection is under way.
LaunchStarts ==
    /\ phase = "filling" /\ MoreToLaunch
    /\ nextToStart' = nextToStart + 1
    /\ active' = active \cup {nextToStart}
    /\ activeCount' = activeCount + 1
    /\ link' = [link EXCEPT ![nextToStart] = "connecting"]
    /\ UNCHANGED <<failFast, conns, done, remaining, result, retiring, phase, cancelling, completed>>

\* launch(): connect, Tls::create or start() fails at once.
LaunchFails ==
    /\ phase = "filling" /\ MoreToLaunch
    /\ nextToStart' = nextToStart + 1
    /\ active' = active \cup {nextToStart}
    /\ activeCount' = activeCount + 1
    /\ link' = [link EXCEPT ![nextToStart] = "lost"]
    /\ Finish(nextToStart, "error", active \cup {nextToStart})
    /\ UNCHANGED <<failFast, conns, phase, completed>>

\* fillSlots() returns; retire()'s completeIfReady() follows.
FillEnds ==
    /\ phase = "filling" /\ ~MoreToLaunch
    /\ phase' = "waiting"
    /\ completed' = (completed \/ ReadyToComplete(remaining, activeCount))
    /\ UNCHANGED <<failFast, conns, nextToStart, active, activeCount, done, remaining, result,
                   link, retiring, cancelling>>

\* onReady: secured and authorized; open() refuses a request it cannot encode
\* and its result is not looked at.
Ready(i) ==
    /\ phase = "waiting" /\ link[i] = "connecting" /\ i \notin done
    /\ link' = [link EXCEPT ![i] = IF Encodable THEN "open" ELSE "unopened"]
    /\ UNCHANGED <<failFast, conns, nextToStart, active, activeCount, done, remaining, result,
                   retiring, phase, cancelling, completed>>

\* onExit; ignored once the target is done.  (Mutant: counted again.)
ExitCountedAgain(i, r) ==
    /\ phase = "waiting" /\ link[i] = "open"
    /\ link' = [link EXCEPT ![i] = "exited"]
    /\ Finish(i, r, active)
    /\ UNCHANGED <<failFast, conns, nextToStart, active, activeCount, phase, completed>>
Exit(i, r) ==
    /\ phase = "waiting" /\ link[i] = "open"
    /\ link' = [link EXCEPT ![i] = "exited"]
    /\ IF i \in done
       THEN UNCHANGED <<done, remaining, result, retiring, cancelling>>
       ELSE Finish(i, r, active)
    /\ UNCHANGED <<failFast, conns, nextToStart, active, activeCount, phase, completed>>

\* onError of the transport: connect, TLS, authorization, protocol, lease, EOF.
Lose(i) ==
    /\ phase = "waiting" /\ link[i] \in {"connecting", "unopened", "open", "exited"}
    /\ link' = [link EXCEPT ![i] = "lost"]
    /\ IF i \in done
       THEN UNCHANGED <<done, remaining, result, retiring, cancelling>>
       ELSE Finish(i, "error", active)
    /\ UNCHANGED <<failFast, conns, nextToStart, active, activeCount, phase, completed>>

\* retire(): destroy the transport, then fill the slot it leaves.
\* (Mutant: it is not filled.)
RetireWithoutFill(i) ==
    /\ phase = "waiting" /\ i \in retiring
    /\ retiring' = retiring \ {i}
    /\ active' = active \ {i}
    /\ activeCount' = Less(activeCount, 1)
    /\ link' = [link EXCEPT ![i] = "retired"]
    /\ completed' = (completed \/ ReadyToComplete(remaining, activeCount'))
    /\ UNCHANGED <<failFast, conns, nextToStart, done, remaining, result, phase, cancelling>>
Retire(i) ==
    /\ phase = "waiting" /\ i \in retiring
    /\ retiring' = retiring \ {i}
    /\ active' = active \ {i}
    /\ activeCount' = Less(activeCount, 1)
    /\ link' = [link EXCEPT ![i] = "retired"]
    /\ IF cancelling
       THEN /\ completed' = (completed \/ ReadyToComplete(remaining, activeCount'))
            /\ UNCHANGED phase
       ELSE phase' = "filling" /\ UNCHANGED completed
    /\ UNCHANGED <<failFast, conns, nextToStart, done, remaining, result, cancelling>>

\* cancel(): a run deadline or Ctrl-C.
Cancel(kind) ==
    /\ phase = "waiting" /\ ~completed
    /\ result' = CancelledResults(result, kind)
    /\ FailRest(active)
    /\ completed' = ReadyToComplete(remaining', activeCount)
    /\ UNCHANGED <<failFast, conns, nextToStart, active, activeCount, link, phase>>

Next ==
    \/ Start \/ LaunchStarts \/ LaunchFails \/ FillEnds
    \/ \E i \in Targets :
          Ready(i) \/ Exit(i, "ok") \/ Exit(i, "nonzero") \/ Lose(i) \/ Retire(i)
    \/ \E kind \in {"timeout", "interrupt"} : Cancel(kind)

Spec == Init /\ [][Next]_vars

-----------------------------------------------------------------------------
TypeOK ==
    /\ failFast \in BOOLEAN
    /\ conns \subseteq Targets
    /\ nextToStart \in 1 .. N + 1
    /\ active \subseteq conns /\ done \subseteq conns /\ retiring \subseteq conns
    /\ activeCount \in Nat /\ remaining \in Nat
    /\ result \in [Targets -> Results]
    /\ link \in [Targets -> Links]
    /\ phase \in {"created", "filling", "waiting"}
    /\ cancelling \in BOOLEAN /\ completed \in BOOLEAN

\* The two counters completion is decided by never drift from the connections
\* they count, through nested finishes, fail-fast and cancellation.
CountersAgree ==
    /\ activeCount = Cardinality(active)
    /\ remaining = Cardinality(conns \ done)

\* --concurrency bounds the transports that exist, retiring ones included.
ConcurrencyBounded == activeCount <= Limit

\* Every finished connection still holding a transport has exactly one retire
\* timer, and no other connection has one: a transport is destroyed once, and
\* not under a callback of its own.
RetireTimersExact == retiring = active \cap done

\* A run that is not complete is never stuck with no connection to wait for.
NeverStalls == (phase = "waiting" /\ ~completed) => active # {}

\* onComplete "may destroy this controller": when it is called every target has
\* its result, and neither a transport nor a timer that refers to it is left.
CompletionIsFinal ==
    completed => /\ done = conns /\ active = {} /\ retiring = {}
                 /\ \A i \in conns : result[i] # "pending"

\* What holds between handlers besides: targets are launched in order, a launched
\* target is active or done, a live link belongs to an active one, results and
\* done agree, and cancellation leaves no target unfinished.
Bookkeeping ==
    /\ \A i \in conns :
          /\ i >= nextToStart => i \notin active
          /\ (i >= nextToStart /\ i \in done) => cancelling
          /\ i < nextToStart => i \in active \/ i \in done
          /\ link[i] \in {"connecting", "unopened", "open", "exited"} => i \in active
          /\ i \in done <=> result[i] # "pending"
    /\ cancelling => done = conns
    /\ phase = "created" => active = {} /\ done = {} /\ ~cancelling
    /\ phase = "filling" => conns # {}
    /\ completed => phase = "waiting"

\* The inductive invariant behind them.
ControllerInv ==
    /\ TypeOK /\ Bookkeeping
    /\ CountersAgree /\ ConcurrencyBounded /\ RetireTimersExact
    /\ NeverStalls /\ CompletionIsFinal

KeepsResults == \A i \in Targets : result[i] # "pending" => result'[i] = result[i]

\* A result, once recorded, is never overwritten: not by a late frame, not by
\* cancellation, not by fail-fast.
ResultsAreFinal == [][KeepsResults]_vars
=============================================================================
