-------------------------- MODULE SegmentedPipeline --------------------------
(***************************************************************************)
(* A chain of stages on this host and on nodes: SegmentedPipeline splits   *)
(* it into segments of one locality, each run by a LocalRunner or a        *)
(* DistributedRunner, and FanInPipeline puts a command on a group of hosts *)
(* in front of it (src/pipeline/*_runner.cpp, *_pipeline.cpp).             *)
(*                                                                         *)
(* The runners share one reactor, so a handler is one step, the callbacks  *)
(* it makes included; they are operators from world to world.  Stages and  *)
(* nodes are not on it: they write, read, end and are lost at any time.    *)
(* Data are counted in units.  A node's stage is reached through a session *)
(* that delivers its output and then its exit, in order (Session.tla);     *)
(* the source of a fan-in is a NativeController (NativeController.tla).    *)
(***************************************************************************)
EXTENDS Integers, Sequences, FiniteSets, SequencesExt, FiniteSetsExt

CONSTANTS
    Chains,        \* [stages: Seq({"local", "remote"}), hosts: of the fan-in source,
                   \*  0 for none, work: units a source writes, endless: whether the
                   \*  first stage never ends by itself]
    PipeCapacity,  \* units a kernel pipe holds
    MaxFaults      \* early exits, failures and lost connections of one run

ASSUME PipelineAssumption ==
    /\ PipeCapacity \in Nat \ {0} /\ MaxFaults \in Nat
    /\ \A c \in Chains : c.hosts \in Nat /\ c.work \in Nat

VARIABLES
    chain,   \* what run() was called with
    stage,   \* the stages and what the runners know of each
    seg,     \* the segments' runners
    fan,     \* FanInPipeline and its source
    run,     \* the whole: started, done, the outcome and what was output
    faults

vars == <<chain, stage, seg, fan, run, faults>>

Stages == 1 .. Len(chain.stages)
IsLocal(s) == chain.stages[s] = "local"
Least(a, b) == IF a < b THEN a ELSE b

\* The maximal runs of stages of one locality.
SegmentOf(s) == Cardinality({t \in 2 .. s : chain.stages[t] # chain.stages[t - 1]}) + 1
Segments == {SegmentOf(s) : s \in Stages}
Members(k) == {s \in Stages : SegmentOf(s) = k}
First(k) == Min(Members(k))
FinalOf(k) == Max(Members(k))
LastSegment == Cardinality(Segments)

\* Codes: 0, 1 (a failure), 137 (killed or fenced), 141 (a broken pipe).
\* in counts what the stage can read, and inEnd is set when nothing follows it;
\* out what it wrote and its runner has not seen; exited and code are the runner's
\* (Child, Conn), life and status the truth; link is the connection to its node.
FreshStage ==
    [life |-> "off", status |-> 0, in |-> 0, inEnd |-> FALSE, got |-> 0, made |-> 0, out |-> 0,
     link |-> "none", exited |-> FALSE, code |-> 0]

\* stdinOpen is LocalRunner's stdinOpen_, DistributedRunner's streamsOpen_.
FreshSegment ==
    [external |-> FALSE, stdinOpen |-> FALSE, buffer |-> 0, endPending |-> FALSE,
     finalClosed |-> FALSE, runnerDone |-> FALSE, done |-> FALSE]

Init ==
    /\ chain \in Chains
    /\ stage = [s \in Stages |-> FreshStage]
    /\ seg = [k \in Segments |-> FreshSegment]
    /\ fan = [results |-> [h \in 1 .. chain.hosts |-> "running"], started |-> FALSE, made |-> 0,
              cancelled |-> FALSE, sourceDone |-> FALSE, downstreamDone |-> FALSE]
    /\ run = [phase |-> "new", segmentsDone |-> FALSE, exit |-> 0, error |-> FALSE, output |-> 0]
    /\ faults = 0

World == [stage |-> stage, seg |-> seg, fan |-> fan, run |-> run]
Become(w) == stage' = w.stage /\ seg' = w.seg /\ fan' = w.fan /\ run' = w.run

Rightmost(codes) ==    \* pipefail
    LET bad == {i \in DOMAIN codes : codes[i] # 0} IN IF bad = {} THEN 0 ELSE codes[Max(bad)]

(***************************************************************************)
(* Completion: of the fan-in, of the chain                                 *)
(***************************************************************************)

\* The source's results: a host the cancellation ended counts as killed.
SourceExit(w) ==
    LET r == w.fan.results
    IN  IF \E h \in DOMAIN r : r[h] = "cancelled" THEN 137
        ELSE IF \E h \in DOMAIN r : r[h] = "failed" THEN 1 ELSE 0
SourceError(w) == \E h \in DOMAIN w.fan.results : w.fan.results[h] = "error"

\* FanInPipeline::finishIfReady()
finishIfReady(w) ==
    IF ~(w.fan.sourceDone /\ w.fan.downstreamDone) THEN w
    ELSE [w EXCEPT !.run.phase = "complete",
                   !.run.exit = IF @ = 0 THEN SourceExit(w) ELSE @,
                   !.run.error = @ \/ SourceError(w)]

\* onDownstreamDone(): the source, if it is still running, is cancelled, and is
\* waited for.  Before start() there is no source: a call through a null pointer.
onDownstreamDone(w) ==
    LET v == [w EXCEPT !.fan.downstreamDone = TRUE] IN
    IF v.fan.sourceDone THEN finishIfReady(v)
    ELSE IF ~v.fan.started THEN [v EXCEPT !.run.phase = "crashed"]
    ELSE [v EXCEPT !.fan.cancelled = TRUE,
                   !.fan.results = [h \in DOMAIN @ |-> IF @[h] = "running" THEN "cancelled" ELSE @[h]]]

\* SegmentedPipeline::finish(), with the callback it makes
finish(w, code, error) ==
    LET v == [w EXCEPT !.run.segmentsDone = TRUE, !.run.exit = code, !.run.error = error]
    IN  IF chain.hosts > 0 THEN onDownstreamDone(v) ELSE [v EXCEPT !.run.phase = "complete"]

(***************************************************************************)
(* The stdin of a segment                                                  *)
(***************************************************************************)

give(w, s, k) == [w EXCEPT !.stage[s].in = @ + k, !.stage[s].got = @ + k]

\* (Mutant: the end is passed on over what is still buffered.)
MayCloseStdinAtOnce(w, k) == w.seg[k].endPending

MayCloseStdin(w, k) == w.seg[k].endPending /\ w.seg[k].buffer = 0

\* LocalRunner::drainStdin(): the pipe takes what fits, or is broken.
drainStdin(w, k) ==
    LET s == First(k)
        n == Least(w.seg[k].buffer, PipeCapacity - w.stage[s].in)
        v == IF w.stage[s].life # "running" THEN [w EXCEPT !.seg[k].buffer = 0]
             ELSE give([w EXCEPT !.seg[k].buffer = @ - n], s, n)
    IN  IF ~w.seg[k].stdinOpen THEN w
        ELSE IF MayCloseStdin(v, k) THEN [v EXCEPT !.seg[k].stdinOpen = FALSE, !.stage[s].inEnd = TRUE]
        ELSE v

localWriteStdin(w, k) ==
    IF w.seg[k].stdinOpen THEN drainStdin([w EXCEPT !.seg[k].buffer = @ + 1], k) ELSE w

localCloseStdin(w, k) ==
    IF w.seg[k].stdinOpen THEN drainStdin([w EXCEPT !.seg[k].endPending = TRUE], k) ELSE w

TakesStdin(w, k) == w.seg[k].external /\ ~w.seg[k].runnerDone

\* DistributedRunner buffers what comes before its streams are open.
remoteWriteStdin(w, k) ==
    IF ~TakesStdin(w, k) THEN w
    ELSE IF w.seg[k].stdinOpen THEN give(w, First(k), 1)
    ELSE [w EXCEPT !.seg[k].buffer = @ + 1]

remoteCloseStdin(w, k) ==
    IF ~TakesStdin(w, k) THEN w
    ELSE [w EXCEPT !.seg[k].endPending = TRUE, !.stage[First(k)].inEnd = @ \/ w.seg[k].stdinOpen]

writeStdin(w, k) == IF IsLocal(First(k)) THEN localWriteStdin(w, k) ELSE remoteWriteStdin(w, k)
closeStdin(w, k) == IF IsLocal(First(k)) THEN localCloseStdin(w, k) ELSE remoteCloseStdin(w, k)

(***************************************************************************)
(* The end of a segment                                                    *)
(***************************************************************************)

\* onSegmentDone() for a segment that cancelUnfinishedUpstream() cancels.
segmentCancelled(w, k) == closeStdin([w EXCEPT !.seg[k].done = TRUE, !.seg[k].runnerDone = TRUE], k + 1)

Over(life) == IF life = "running" THEN "killed" ELSE life

\* LocalRunner::cancel(): the children not seen to end are killed and reaped.
localCancel(w, k) ==
    [w EXCEPT !.seg[k].stdinOpen = FALSE, !.seg[k].buffer = 0, !.seg[k].finalClosed = TRUE,
              !.stage = [s \in Stages |->
                  IF s \notin Members(k) \/ w.stage[s].exited THEN w.stage[s]
                  ELSE [w.stage[s] EXCEPT !.exited = TRUE, !.out = 0, !.life = Over(@),
                            !.code = IF w.stage[s].life = "exited" THEN w.stage[s].status ELSE 137]]]

\* fenceBefore(): the connections of the stages before s that have not exited are
\* closed; their nodes kill them.
fenceBefore(w, k, s) ==
    [w EXCEPT !.stage = [t \in Stages |->
        IF t \in Members(k) /\ t < s /\ ~w.stage[t].exited
        THEN [w.stage[t] EXCEPT !.exited = TRUE, !.code = 137, !.link = "closed", !.out = 0,
                                !.life = Over(@)]
        ELSE w.stage[t]]]

remoteCancel(w, k) == fenceBefore(w, k, FinalOf(k) + 1)

cancelSegment(w, k) ==
    IF w.seg[k].runnerDone THEN w
    ELSE segmentCancelled(IF IsLocal(First(k)) THEN localCancel(w, k) ELSE remoteCancel(w, k), k)

\* (Mutant: the upstream of a finished chain is left alone.)
cancelNoUpstream(w) == w

cancelUnfinishedUpstream(w) ==
    FoldLeft(LAMBDA v, k : IF v.seg[k].done THEN v ELSE cancelSegment(v, k),
             w, [k \in 1 .. LastSegment - 1 |-> k])

finishIfAllDone(w) ==
    IF \A k \in Segments : w.seg[k].done
    THEN finish(w, Rightmost([s \in Stages |-> w.stage[s].code]), FALSE)
    ELSE w

onSegmentDone(w, k, error) ==
    IF w.run.segmentsDone THEN [w EXCEPT !.seg[k].runnerDone = TRUE]
    ELSE IF error THEN finish([w EXCEPT !.seg[k].runnerDone = TRUE], 1, TRUE)
    ELSE LET v == [w EXCEPT !.seg[k].runnerDone = TRUE, !.seg[k].done = TRUE]
         IN  IF k < LastSegment THEN finishIfAllDone(closeStdin(v, k + 1))
             ELSE finishIfAllDone(cancelUnfinishedUpstream(v))

\* routeOutput()
routeOutput(w, k) ==
    IF w.run.segmentsDone THEN w
    ELSE IF k < LastSegment THEN writeStdin(w, k + 1)
    ELSE [w EXCEPT !.run.output = @ + 1]

(***************************************************************************)
(* LocalRunner                                                             *)
(***************************************************************************)

\* (Mutant: the last output of the chain is not waited for.)
LocalDoneOnExit(w, k) == \A s \in Members(k) : w.stage[s].exited

LocalDone(w, k) == w.seg[k].finalClosed /\ \A s \in Members(k) : w.stage[s].exited

localFinishIfDone(w, k) ==
    IF w.seg[k].runnerDone \/ ~LocalDone(w, k) THEN w ELSE onSegmentDone(w, k, FALSE)

Started == run.phase = "running"

\* One read of onFinalReadable(), which may stop after any of them.
FinalReadable(k) ==
    /\ IsLocal(FinalOf(k)) /\ ~seg[k].finalClosed
    /\ stage[FinalOf(k)].out > 0 \/ stage[FinalOf(k)].life # "running"

onFinalReadable(k) ==
    LET s == FinalOf(k) IN
    /\ Started /\ FinalReadable(k)
    /\ \/ /\ stage[s].out > 0
          /\ Become(routeOutput([World EXCEPT !.stage[s].out = @ - 1], k))
       \/ /\ stage[s].out = 0
          /\ Become(localFinishIfDone([World EXCEPT !.seg[k].finalClosed = TRUE], k))
    /\ UNCHANGED <<chain, faults>>

ExitDue(s) == stage[s].life = "exited" /\ ~stage[s].exited

onChildExit(s) ==
    /\ Started /\ IsLocal(s) /\ ExitDue(s)
    /\ Become(localFinishIfDone([World EXCEPT !.stage[s].exited = TRUE,
                                              !.stage[s].code = stage[s].status], SegmentOf(s)))
    /\ UNCHANGED <<chain, faults>>

\* The poller reports room in, or the end of, the first stage's stdin.
StdinWritable(k) ==
    /\ IsLocal(First(k)) /\ seg[k].stdinOpen /\ seg[k].buffer > 0
    /\ stage[First(k)].in < PipeCapacity \/ stage[First(k)].life # "running"

onStdinWritable(k) ==
    /\ Started /\ StdinWritable(k)
    /\ Become(drainStdin(World, k))
    /\ UNCHANGED <<chain, faults>>

(***************************************************************************)
(* DistributedRunner                                                       *)
(***************************************************************************)

onConnError(w, s) ==
    IF w.seg[SegmentOf(s)].runnerDone THEN w ELSE onSegmentDone(w, SegmentOf(s), TRUE)

\* onConnReady(): when the last connection is up every stage is opened, and the
\* first gets what was written to it before, or its end.
onConnReady(s) ==
    LET k == SegmentOf(s)
        up == [World EXCEPT !.stage[s].link = "up"]
        open == [up EXCEPT !.stage = [t \in Stages |-> IF t \in Members(k)
                                                       THEN [up.stage[t] EXCEPT !.life = "running"]
                                                       ELSE up.stage[t]],
                           !.seg[k].stdinOpen = TRUE, !.seg[k].buffer = 0]
        fed == give(open, First(k), seg[k].buffer)
    IN  /\ Started /\ stage[s].link = "connecting" /\ ~seg[k].runnerDone
        /\ Become(IF \E t \in Members(k) : up.stage[t].link # "up" THEN up
                  ELSE [fed EXCEPT !.stage[First(k)].inEnd = ~seg[k].external \/ seg[k].endPending])
        /\ UNCHANGED <<chain, faults>>

\* A stage's output goes to the next one, the last one's is the segment's.
forward(w, s) ==
    LET k == SegmentOf(s) IN
    IF w.seg[k].runnerDone THEN w
    ELSE IF s # FinalOf(k) THEN give(w, s + 1, 1)
    ELSE routeOutput(w, k)

onData(s) ==
    /\ Started /\ stage[s].link = "up" /\ stage[s].out > 0
    /\ Become(forward([World EXCEPT !.stage[s].out = @ - 1], s))
    /\ UNCHANGED <<chain, faults>>

\* Conn::onExit() and onStageExit(); the EXIT follows the stage's output.
onStageExit(s) ==
    LET k == SegmentOf(s)
        w == [World EXCEPT !.stage[s].exited = TRUE, !.stage[s].code = stage[s].status]
        v == fenceBefore(w, k, s)
    IN  /\ Started /\ stage[s].link = "up" /\ stage[s].out = 0 /\ ExitDue(s)
        /\ Become(IF seg[k].runnerDone THEN w
                  ELSE IF s # FinalOf(k) THEN [v EXCEPT !.stage[s + 1].inEnd = TRUE]
                  ELSE onSegmentDone(v, k, FALSE))
        /\ UNCHANGED <<chain, faults>>

\* A connection fails: it is refused, not authorised, or its node is lost.
connectionLost(s) ==
    /\ Started /\ stage[s].link \in {"connecting", "up"}
    /\ faults < MaxFaults /\ faults' = faults + 1
    /\ Become(onConnError([World EXCEPT !.stage[s].link = "closed", !.stage[s].out = 0,
                              !.stage[s].life = Over(@)], s))
    /\ UNCHANGED chain

(***************************************************************************)
(* run() and the source of a fan-in                                        *)
(***************************************************************************)

\* Whether the segment's first stage reads from a segment or a source before it.
Fed(k) == k > 1 \/ chain.hosts > 0

localRun(w, k) ==
    [w EXCEPT !.seg[k].external = Fed(k), !.seg[k].stdinOpen = Fed(k),
              !.stage = [s \in Stages |->
                  IF s \notin Members(k) THEN w.stage[s]
                  ELSE [w.stage[s] EXCEPT !.life = "running", !.inEnd = s = First(k) /\ ~Fed(k)]]]

\* bad is the stage, if any, whose connect fails at once; the ones after it are
\* not tried.
remoteRun(w, k, bad) ==
    LET fails == bad \in Members(k)
        begun == [w EXCEPT !.seg[k].external = Fed(k),
                           !.stage = [s \in Stages |->
                               IF s \notin Members(k) \/ (fails /\ s >= bad) THEN w.stage[s]
                               ELSE [w.stage[s] EXCEPT !.link = "connecting"]]]
    IN  IF fails THEN onConnError(begun, bad) ELSE begun

startSegment(w, k, bad) == IF IsLocal(First(k)) THEN localRun(w, k) ELSE remoteRun(w, k, bad)

\* SegmentedPipeline::run() starts every segment, whatever became of the ones
\* before; FanInPipeline::run() starts its source after it.
start ==
    /\ run.phase = "new"
    /\ \E bad \in {0} \cup {s \in Stages : ~IsLocal(s)} :
          /\ bad # 0 => faults < MaxFaults
          /\ faults' = IF bad = 0 THEN faults ELSE faults + 1
          /\ LET w == FoldLeft(LAMBDA v, k : startSegment(v, k, bad),
                               [World EXCEPT !.run.phase = "running"],
                               [k \in 1 .. LastSegment |-> k])
             IN  Become(IF w.run.phase = "crashed" THEN w ELSE [w EXCEPT !.fan.started = chain.hosts > 0])
    /\ UNCHANGED chain

\* A pipe, a spawn or a watch of a local segment fails: run() returns the error
\* and its caller destroys what was started.
startFails ==
    /\ run.phase = "new" /\ \E s \in Stages : IsLocal(s)
    /\ run' = [run EXCEPT !.phase = "refused"]
    /\ UNCHANGED <<chain, stage, seg, fan, faults>>

\* A signal stops the reactor, and what runs is destroyed with its owner: the
\* children are killed, the connections closed, after which the nodes kill theirs.
interrupt ==
    /\ Started
    /\ Become([World EXCEPT
           !.run.phase = "interrupted",
           !.stage = [s \in Stages |->
               [stage[s] EXCEPT !.life = Over(@), !.link = IF @ = "none" THEN @ ELSE "closed", !.out = 0]],
           !.fan.results = [h \in DOMAIN @ |-> IF @[h] = "running" THEN "cancelled" ELSE @[h]]])
    /\ UNCHANGED <<chain, faults>>

\* What the command returns, 2 for what it did not start; an error is only printed.
commandExit ==
    CASE run.phase = "complete" -> run.exit
      [] run.phase = "interrupted" -> 130
      [] OTHER -> 2

SourceRunning(h) == Started /\ fan.started /\ fan.results[h] = "running"

\* onSourceOutput(): a source host's output goes to the first segment's stdin.
onSourceOutput(h) ==
    /\ SourceRunning(h) /\ fan.made < chain.work
    /\ LET w == [World EXCEPT !.fan.made = @ + 1]
       IN  Become(IF Stages = {} THEN [w EXCEPT !.run.output = @ + 1]
                  ELSE IF run.segmentsDone THEN w ELSE writeStdin(w, 1))
    /\ UNCHANGED <<chain, faults>>

hostEnds(h, result) ==
    /\ SourceRunning(h)
    /\ \/ result = "ok" /\ fan.made = chain.work /\ ~chain.endless /\ UNCHANGED faults
       \/ result \in {"failed", "error"} /\ faults < MaxFaults /\ faults' = faults + 1
    /\ Become([World EXCEPT !.fan.results[h] = result])
    /\ UNCHANGED chain

\* The controller completes once its connections are retired.
SourceDue ==
    /\ fan.started /\ ~fan.sourceDone
    /\ \A h \in DOMAIN fan.results : fan.results[h] # "running"

onSourceDone ==
    /\ Started /\ SourceDue
    /\ LET w == [World EXCEPT !.fan.sourceDone = TRUE]
       IN  Become(IF Stages = {} THEN [w EXCEPT !.run.phase = "complete", !.run.exit = SourceExit(w),
                                                !.run.error = SourceError(w)]
                  ELSE IF fan.downstreamDone THEN finishIfReady(w)
                  ELSE closeStdin(w, 1))
    /\ UNCHANGED <<chain, faults>>

(***************************************************************************)
(* The stages                                                              *)
(***************************************************************************)

IsSource(s) == s = 1 /\ chain.hosts = 0
Direct(s) == IsLocal(s) /\ s # FinalOf(SegmentOf(s))   \* a pipe to the next child

Change(w) == Started /\ Become(w) /\ UNCHANGED chain

\* A child that ended, whoever saw it, closes its end of the pipe to the next.
ended(w, s, code) ==
    LET v == [w EXCEPT !.stage[s].life = "exited", !.stage[s].status = code]
    IN  IF Direct(s) THEN [v EXCEPT !.stage[s + 1].inEnd = TRUE] ELSE v

\* It has something to write and room for it, or no reader any more.
CanWrite(s) ==
    /\ stage[s].life = "running"
    /\ IF IsSource(s) THEN stage[s].made < chain.work \/ (chain.endless /\ Direct(s)) ELSE stage[s].in > 0
    /\ IF ~Direct(s) THEN stage[s].out < PipeCapacity \/ ~IsLocal(s)
       ELSE \/ stage[s + 1].life # "running"
            \/ stage[s + 1].in < PipeCapacity /\ stage[s].made < chain.work

WorkDone(s) ==
    /\ stage[s].life = "running"
    /\ IF IsSource(s) THEN stage[s].made = chain.work /\ ~chain.endless
       ELSE stage[s].in = 0 /\ stage[s].inEnd

StageWrites(s) ==
    LET w == [World EXCEPT !.stage[s].made = @ + 1, !.stage[s].in = IF IsSource(s) THEN 0 ELSE @ - 1]
    IN  /\ CanWrite(s)
        /\ Change(IF ~Direct(s) THEN [w EXCEPT !.stage[s].out = @ + 1]
                  ELSE IF stage[s + 1].life = "running" THEN give(w, s + 1, 1)
                  ELSE ended(World, s, 141))
        /\ UNCHANGED faults

StageEnds(s) ==
    \/ WorkDone(s) /\ Change(ended(World, s, 0)) /\ UNCHANGED faults
    \/ /\ stage[s].life = "running" /\ faults < MaxFaults /\ faults' = faults + 1
       /\ \E code \in {0, 1} : Change(ended(World, s, code))

Next ==
    \/ start \/ startFails \/ interrupt
    \/ \E k \in Segments : onFinalReadable(k) \/ onStdinWritable(k)
    \/ \E s \in Stages :
          \/ onChildExit(s) \/ onConnReady(s) \/ onData(s) \/ onStageExit(s) \/ connectionLost(s)
          \/ StageWrites(s) \/ StageEnds(s)
    \/ \E h \in 1 .. chain.hosts :
          \/ onSourceOutput(h) \/ \E r \in {"ok", "failed", "error"} : hostEnds(h, r)
    \/ onSourceDone

Spec == Init /\ [][Next]_vars

(***************************************************************************)
(* Properties                                                              *)
(***************************************************************************)

\* What a stage reads up to the end of its stdin is all that the stage before it,
\* or the source, wrote, whichever runner's buffers it went through, unless that
\* stage was killed or cut off (writeStdin, drainStdin, onConnReady, closeStdin).
EofAfterAllData ==
    Started =>
        \A s \in Stages :
            stage[s].life = "running" /\ stage[s].inEnd /\ ~IsSource(s) =>
                IF s = 1 THEN fan.cancelled \/ stage[1].got = fan.made
                ELSE stage[s - 1].life = "killed" \/ stage[s - 1].link = "closed"
                        \/ stage[s].got = stage[s - 1].made

\* An outcome without an error comes after every stage ended or was cut off, with
\* all the output of the last one delivered; the command's 0 means that every
\* stage ended with 0, and none is left running after an interrupt either.
OutcomeSound ==
    /\ run.phase = "complete" /\ ~run.error =>
          /\ \A s \in Stages : stage[s].life # "running"
          /\ run.output = IF Stages = {} THEN fan.made ELSE stage[Len(chain.stages)].made
    /\ commandExit = 0 /\ ~run.error =>
          /\ \A s \in Stages : stage[s].status = 0 /\ stage[s].life = "exited"
          /\ \A h \in DOMAIN fan.results : fan.results[h] = "ok"
    /\ run.phase = "interrupted" => \A s \in Stages : stage[s].life # "running"

\* Once the last stage has ended nothing holds the run up: not an endless
\* producer here, on a node or in the source of a fan-in, nor a stage between.
\* Until the run is complete a handler is due or a stage can go on, and each of
\* these steps is taken finitely often (onStageExit, onSegmentDone,
\* cancelUnfinishedUpstream, onDownstreamDone).
FinalStageEndsRun ==
    Started /\ Stages # {} /\ stage[Len(chain.stages)].life = "exited" =>
        \/ SourceDue
        \/ \E k \in Segments : FinalReadable(k) \/ StdinWritable(k)
        \/ \E s \in Stages :
              \/ CanWrite(s) \/ WorkDone(s)
              \/ ExitDue(s) /\ (IsLocal(s) \/ (stage[s].link = "up" /\ stage[s].out = 0))
              \/ stage[s].link = "up" /\ stage[s].out > 0
              \/ stage[s].link = "connecting" /\ ~seg[SegmentOf(s)].runnerDone

\* A connection of the downstream that fails is reported by the run's outcome
\* (include/psx/pipeline/distributed_runner.hpp: "a per-connection failure
\* completes via onComplete"), also when it fails at once.
FailureIsReported == run.phase # "crashed"
=============================================================================
