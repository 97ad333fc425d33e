------------------------------- MODULE NativeRun -------------------------------
(***************************************************************************)
(* `pipeshellx run --transport native` (runNative of                       *)
(* src/cli/run_command.cpp): the fan-out of module NativeController run    *)
(* once on all targets, or on the canaries and then, if every one of them  *)
(* succeeded, on the rest; a run deadline; Ctrl-C; and the exit code.      *)
(*                                                                         *)
(* onComplete is called from inside the controller's last handler.  Here   *)
(* it is the step after it, with nothing enabled in between.               *)
(***************************************************************************)
EXTENDS NativeController

CONSTANTS
    CanarySpecs,  \* --canary as parsed: NoCanary or [percent, value]
    NoCanary

ASSUME RunAssumption ==
    \A spec \in CanarySpecs \ {NoCanary} : spec.percent \in BOOLEAN /\ spec.value \in Nat

VARIABLES
    hasDeadline,  \* --timeout is positive
    canary,       \* canaryTargets.size(), 0 without --canary
    stage,        \* the controller that runs: all, canary or rest
    stopCause,    \* stopCause
    finalized,    \* finalized: finishResults() ran
    exitCode      \* exitCode

runVars == <<hasDeadline, canary, stage, stopCause, finalized, exitCode>>
allVars == <<vars, runVars>>

\* canaryCount(): the number, or that percentage of the targets rounded up, and
\* at least one.
CanaryCount(spec) ==
    LET value == IF spec.value = 0 THEN 1 ELSE spec.value
        rest == (N % 100) * value
        share == (N \div 100) * value + (rest \div 100) + (IF rest % 100 = 0 THEN 0 ELSE 1)
    IN  IF value >= (IF spec.percent THEN 100 ELSE N) THEN N
        ELSE IF spec.percent THEN share ELSE value

RunInit ==
    /\ \E spec \in CanarySpecs :
          /\ stage = IF spec = NoCanary THEN "all" ELSE "canary"
          /\ canary = IF spec = NoCanary THEN 0 ELSE CanaryCount(spec)
    /\ failFast \in BOOLEAN /\ hasDeadline \in BOOLEAN
    /\ conns = IF stage = "all" THEN Targets ELSE 1 .. canary
    /\ remaining = Cardinality(conns)
    /\ nextToStart = 1
    /\ active = {} /\ activeCount = 0 /\ done = {} /\ retiring = {}
    /\ phase = "created" /\ cancelling = FALSE /\ completed = FALSE
    /\ result = [i \in Targets |-> "pending"]
    /\ link = [i \in Targets |-> "idle"]
    /\ stopCause = "none" /\ finalized = FALSE /\ exitCode = 1

-----------------------------------------------------------------------------
\* A handler of the current controller other than cancel().
ControllerRuns ==
    /\ ~completed
    /\ \/ Start \/ LaunchStarts \/ LaunchFails \/ FillEnds
       \/ \E i \in Targets :
             Ready(i) \/ Exit(i, "ok") \/ Exit(i, "nonzero") \/ Lose(i) \/ Retire(i)
    /\ UNCHANGED runVars

\* finishResults() on these results.  (Mutant: Ctrl-C counts only where it
\* found an unfinished target.)
ExitCodeForLosers(results) ==
    IF \E i \in Targets : results[i] = "interrupt" THEN 130
    ELSE IF \A i \in Targets : results[i] = "ok" THEN 0 ELSE 1
ExitCodeFor(results) ==
    IF stopCause = "interrupt" \/ \E i \in Targets : results[i] = "interrupt" THEN 130
    ELSE IF \A i \in Targets : results[i] = "ok" THEN 0 ELSE 1

\* The canary callback's test.  (Mutant: the stop that came while the canaries'
\* transports were retired is forgotten.)
CanaryPassedUnlessStopped ==
    stage = "canary" /\ canary < N /\ \A i \in conns : result[i] = "ok"
CanaryPassed ==
    stage = "canary" /\ canary < N /\ stopCause = "none" /\ \A i \in conns : result[i] = "ok"

\* onComplete of the canaries: the rest gets a controller of its own, started
\* at once.
StartRest ==
    /\ completed /\ ~finalized /\ CanaryPassed
    /\ stage' = "rest"
    /\ UNCHANGED <<result, link, hasDeadline, canary, stopCause, finalized, exitCode>>
    /\ conns' = canary + 1 .. N
    /\ remaining' = N - canary
    /\ nextToStart' = canary + 1
    /\ done' = {}
    /\ phase' = "created" /\ cancelling' = FALSE /\ completed' = FALSE
    /\ UNCHANGED <<failFast, active, activeCount, retiring>>

\* onComplete otherwise: the targets never started are reported as stopped or
\* skipped, and the run is over.
Finalize ==
    /\ completed /\ ~finalized /\ ~CanaryPassed
    /\ result' = [i \in Targets |->
                    IF stage = "canary" /\ i > canary
                    THEN IF stopCause = "none" THEN "skipped" ELSE stopCause
                    ELSE result[i]]
    /\ finalized' = TRUE
    /\ exitCode' = ExitCodeFor(result')
    /\ UNCHANGED <<failFast, conns, nextToStart, active, activeCount, done, remaining, link, retiring,
                   phase, cancelling, completed, hasDeadline, canary, stage, stopCause>>

\* The deadline timer.
Deadline ==
    /\ hasDeadline /\ phase = "waiting" /\ ~completed /\ stopCause = "none"
    /\ stopCause' = "timeout"
    /\ Cancel("timeout")
    /\ UNCHANGED <<hasDeadline, canary, stage, finalized, exitCode>>

\* SIGINT or SIGTERM, read by the reactor; it also overrides the deadline.
Interrupted ==
    /\ phase = "waiting" /\ ~completed /\ stopCause # "interrupt"
    /\ stopCause' = "interrupt"
    /\ Cancel("interrupt")
    /\ UNCHANGED <<hasDeadline, canary, stage, finalized, exitCode>>

RunNext == ControllerRuns \/ StartRest \/ Finalize \/ Deadline \/ Interrupted

RunSpec == RunInit /\ [][RunNext]_allVars

\* Only what happens on this machine is fair: the reactor goes on with a call,
\* fires due timers and calls back.  The nodes may stay silent for ever.
RunFairSpec ==
    /\ RunSpec
    /\ WF_allVars(StartRest \/ Finalize)
    /\ WF_allVars(ControllerRuns /\ phase # "waiting")
    /\ \A i \in Targets : WF_allVars(~completed /\ Retire(i) /\ UNCHANGED runVars)
    /\ WF_allVars(Deadline)

-----------------------------------------------------------------------------
\* The canary gate: no target beyond the canaries is connected to unless every
\* canary ran the command and succeeded, and --canary, however small the
\* percentage, puts at least one target in front.
CanaryGate ==
    (stage # "all" /\ \E i \in Targets : i > canary /\ link[i] # "idle") =>
        canary >= 1 /\ \A j \in 1 .. canary : result[j] = "ok"

\* The exit code tells the truth: 0 only if every target was run, exited 0 and
\* nobody interrupted, 130 for an interrupted run even when Ctrl-C found every
\* target finished, and every target has a result.
VerdictSound ==
    finalized =>
        /\ \A i \in Targets : result[i] # "pending"
        /\ exitCode = 0 <=> stopCause # "interrupt" /\ \A i \in Targets : result[i] = "ok"
        /\ exitCode = 130 <=> stopCause = "interrupt"
        /\ exitCode = 0 => \A i \in Targets : link[i] = "retired"
        /\ active = {} /\ retiring = {}

\* A deadline or Ctrl-C stops the launching for good, across the change from
\* the canaries to the rest.
NothingLaunchedAfterStop ==
    [][stopCause # "none" => \A i \in Targets : link[i] = "idle" => link'[i] = "idle"]_allVars

\* An assumption about the nodes: a connection gets ready or fails, and a command
\* that was started ends or its connection is lost.  The code has no deadline for
\* the TLS handshake (the lease is armed in onReady, native_transport.cpp:34), so
\* this excludes a peer that stalls in it.
NodesAnswer ==
    \A i \in Targets :
        /\ WF_allVars(ControllerRuns /\ link[i] = "connecting" /\ link'[i] # "connecting")
        /\ WF_allVars(ControllerRuns /\ link[i] = "open" /\ link'[i] # "open")

\* Every run ends and reports: with --timeout whatever the nodes do, and without
\* it if every node that was reached answers, for every freed slot is filled
\* again and the last transport retired completes the run (retire, fillSlots and
\* completeIfReady of native_controller.cpp; the deadline timer of runNative).
RunEnds == (hasDeadline => <>finalized) /\ (NodesAnswer => <>finalized)

\* What `pipeshellx run` promises of a finished and of a running fan-out: the
\* canaries come first, and the exit code is the truth (runNative).
RunSound == CanaryGate /\ VerdictSound
=============================================================================
