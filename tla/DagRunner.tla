------------------------------ MODULE DagRunner ------------------------------
(***************************************************************************)
(* The execution of a local pipeline DAG (src/pipeline/dag_runner.cpp):    *)
(* every stage is a child process whose stdout the runner copies into one  *)
(* bounded buffer per outgoing edge, and whose stdin it feeds from the     *)
(* buffers of its incoming edges in turn.  A full buffer stops the reading *)
(* of its producer; the kernel pipes do the rest of the back-pressure.     *)
(*                                                                         *)
(* The runner is single threaded on its reactor; the children are not.     *)
(* Each turn of onProducerReadable()'s read loop is a step of its own,     *)
(* between which children run; the other handlers are one step.  Data are  *)
(* counted in units.  Stages are numbered in the Planner's order, edges    *)
(* in order of first mention.                                              *)
(***************************************************************************)
EXTENDS PipeCommand, FiniteSetsExt

CONSTANTS
    Pipelines,     \* what run() is called with; .capacity is the units an edge buffer
                   \* holds, .work what each source writes
    Graphs,        \* pipelines that are only planned, for PlanSound
    Inventories, Placements,   \* for their stages, in the order of the stages
    PipeCapacity,  \* units a kernel pipe holds
    MaxEarly,      \* stages that give up early
    Backends       \* of "epoll" (edge triggered) and "poll" (level triggered)

ASSUME DagAssumption ==
    /\ \A p \in Pipelines : {p.capacity, p.work} \subseteq Nat
    /\ PipeCapacity \in Nat \ {0} /\ MaxEarly \in Nat
    /\ Backends \subseteq {"epoll", "poll"}

VARIABLES
    pipeline, backend,
    phase,    \* new, refused (run() returned an error), running, complete, aborted
    nodes,    \* Impl::nodes
    edges,    \* Impl::edges
    kernel,   \* of each stage: its child, its two pipes, the poller's pending events
    reading,  \* the stage whose read loop the reactor is in, 0 when it is in none
    outcome   \* the arguments of the calls of onComplete

vars == <<pipeline, backend, phase, nodes, edges, kernel, reading, outcome>>

Nodes == 1 .. Len(pipeline.stages)
EdgeCapacity == pipeline.capacity

\* uniqueEdges, with each end as its place in the order.
Edges ==
    LET order == Order(pipeline)
        place(i) == CHOOSE n \in DOMAIN order : order[n] = i
        es == UniqueEdges(pipeline)
    IN  [e \in DOMAIN es |-> << place(es[e][1]), place(es[e][2]) >>]

From(w, e) == w.edges[e].from
Outgoing(w, n) == {e \in DOMAIN w.edges : w.edges[e].from = n}
Incoming(w, n) == SelectSeq([e \in DOMAIN w.edges |-> e], LAMBDA e : w.edges[e].to = n)
Active(w, n) == {e \in Outgoing(w, n) : ~w.edges[e].consumerClosed}
Least(a, b) == IF a < b THEN a ELSE b

FreshNode(hasInput) ==
    [stdoutClosed |-> FALSE, stdoutReadable |-> TRUE, stdinOpen |-> hasInput,
     writable |-> FALSE, nextIncoming |-> 0, exited |-> FALSE, exitCode |-> 0]

\* given counts the units written to the consumer; the code does not keep it.
FreshEdge(e) ==
    [from |-> e[1], to |-> e[2], buffer |-> 0, sourceClosed |-> FALSE,
     consumerClosed |-> FALSE, given |-> 0]

\* A child: out and in are the units in its stdout and stdin pipes, outOpen and
\* inOpen whether a process still holds the child's ends of them, made what it
\* wrote, early whether it gave up before its work was done, rd and wr the events
\* the edge-triggered poller has to report.
FreshChild ==
    [alive |-> TRUE, code |-> 0, out |-> 0, outOpen |-> TRUE, in |-> 0, inOpen |-> TRUE,
     made |-> 0, early |-> FALSE, rd |-> FALSE, wr |-> FALSE]

Init ==
    /\ pipeline \in Pipelines
    /\ backend \in Backends
    /\ phase = "new" /\ reading = 0 /\ outcome = <<>>
    /\ nodes = <<>> /\ edges = <<>> /\ kernel = <<>>

World == [nodes |-> nodes, edges |-> edges, kernel |-> kernel]

Become(w) == nodes' = w.nodes /\ edges' = w.edges /\ kernel' = w.kernel

(***************************************************************************)
(* Interest.  modify() of an edge-triggered registration reports what is   *)
(* ready at once, and a hangup whatever the interest.                      *)
(***************************************************************************)

setProducerReadable(w, n, b) ==
    IF w.nodes[n].stdoutClosed \/ w.nodes[n].stdoutReadable = b THEN w
    ELSE [w EXCEPT !.nodes[n].stdoutReadable = b,
                   !.kernel[n].rd = (b /\ w.kernel[n].out > 0) \/ ~w.kernel[n].outOpen]

setConsumerWritable(w, n, b) ==
    IF ~w.nodes[n].stdinOpen THEN w
    ELSE [w EXCEPT !.nodes[n].writable = b,
                   !.kernel[n].wr = \/ b /\ w.kernel[n].in < PipeCapacity
                                    \/ ~w.kernel[n].inOpen]

producerCanRead(w, n) == \A e \in Active(w, n) : w.edges[e].buffer < EdgeCapacity

\* (Mutant: the producers that waited for room are not resumed.)
resumeNoProducer(w, n) == w

\* The producers of a stage read again if nothing else holds them back.
resumeProducers(w, n) ==
    FoldLeft(LAMBDA v, e : setProducerReadable(v, From(v, e), producerCanRead(v, From(v, e))),
             w, Incoming(w, n))

closeConsumer(w, n) ==
    IF ~w.nodes[n].stdinOpen THEN w
    ELSE resumeProducers(
             [w EXCEPT !.nodes[n].stdinOpen = FALSE, !.nodes[n].writable = FALSE, !.kernel[n].wr = FALSE,
                       !.edges = [e \in DOMAIN w.edges |->
                           IF w.edges[e].to # n THEN w.edges[e]
                           ELSE [w.edges[e] EXCEPT !.buffer = 0, !.consumerClosed = TRUE]]], n)

(***************************************************************************)
(* drainConsumer(): write from the incoming edges in turn until nothing is *)
(* buffered, the pipe is full or the child has closed its end.             *)
(***************************************************************************)

Slot(w, n, o) == (w.nodes[n].nextIncoming + o) % Len(Incoming(w, n))

\* The offsets, from nextIncoming, of the edges with something to write.
Ready(w, n) ==
    {o \in 0 .. Len(Incoming(w, n)) - 1 : w.edges[Incoming(w, n)[Slot(w, n, o) + 1]].buffer > 0}

\* One successful write; none when the pipe is full or broken.
writeOnce(w, n) ==
    IF Ready(w, n) = {} \/ ~w.kernel[n].inOpen \/ w.kernel[n].in = PipeCapacity THEN w
    ELSE LET slot == Slot(w, n, Min(Ready(w, n)))
             e == Incoming(w, n)[slot + 1]
             k == Least(w.edges[e].buffer, PipeCapacity - w.kernel[n].in)
             moved == [w EXCEPT !.edges[e].buffer = @ - k, !.edges[e].given = @ + k,
                                !.kernel[n].in = @ + k,
                                !.nodes[n].nextIncoming = (slot + 1) % Len(Incoming(w, n))]
         IN  setProducerReadable(moved, From(w, e), producerCanRead(moved, From(w, e)))

InputEnded(w, n) ==
    /\ Ready(w, n) = {}
    /\ \A e \in ToSet(Incoming(w, n)) : w.edges[e].sourceClosed \/ w.edges[e].consumerClosed

\* The last write found the pipe full.
MustWait(w, n) == Ready(w, n) # {}

drainConsumer(w, n) ==
    IF ~w.nodes[n].stdinOpen THEN w
    ELSE LET wrote == FoldLeft(LAMBDA v, i : writeOnce(v, n), w, [i \in 1 .. PipeCapacity |-> i])
         IN  IF InputEnded(wrote, n) \/ (Ready(wrote, n) # {} /\ ~wrote.kernel[n].inOpen)
             THEN closeConsumer(wrote, n)
             ELSE setConsumerWritable(wrote, n, MustWait(wrote, n))

\* The consumers of a set of edges, each drained once, in order.
drainConsumers(w, es) ==
    FoldLeft(LAMBDA v, n : IF \E e \in es : v.edges[e].to = n THEN drainConsumer(v, n) ELSE v,
             w, [n \in Nodes |-> n])

(***************************************************************************)
(* Handlers                                                                *)
(***************************************************************************)

\* (Mutant: the completion does not wait for the output of the stages.)
FinishedOnExit(w) == \A n \in Nodes : w.nodes[n].exited

Finished(w) == \A n \in Nodes : w.nodes[n].exited /\ w.nodes[n].stdoutClosed

\* pipefail: the last stage, in the order, whose code is not zero.
ExitCode(w) ==
    LET bad == {n \in Nodes : w.nodes[n].exitCode # 0}
    IN  IF bad = {} THEN 0 ELSE w.nodes[Max(bad)].exitCode

\* finishIfDone(), the end of the handlers that may complete the run.
finishIfDone(w) ==
    /\ Become(w)
    /\ IF phase = "running" /\ Finished(w)
       THEN phase' = "complete" /\ outcome' = Append(outcome, ExitCode(w))
       ELSE UNCHANGED <<phase, outcome>>

closeProducer(w, n) ==
    LET shut == [w EXCEPT !.nodes[n].stdoutClosed = TRUE, !.nodes[n].stdoutReadable = FALSE,
                          !.kernel[n].rd = FALSE,
                          !.edges = [e \in DOMAIN w.edges |->
                              IF w.edges[e].from = n THEN [w.edges[e] EXCEPT !.sourceClosed = TRUE]
                              ELSE w.edges[e]]]
    IN  drainConsumers(shut, Outgoing(w, n))

\* The poller reports the stage's stdout, or the reactor is in its read loop.
Readable(n) ==
    /\ ~nodes[n].stdoutClosed
    /\ IF backend = "epoll" THEN kernel[n].rd
       ELSE nodes[n].stdoutReadable /\ (kernel[n].out > 0 \/ ~kernel[n].outOpen)

\* (Mutant: only the successor with the most room counts.)
RoomOfWidest(w, n) ==
    IF Active(w, n) = {} THEN {} ELSE {Max({EdgeCapacity - w.edges[e].buffer : e \in Active(w, n)})}

\* What the successors that still read can take; nothing limits a read when
\* there is none.
Room(w, n) == {EdgeCapacity - w.edges[e].buffer : e \in Active(w, n)}

\* One turn of onProducerReadable()'s loop.
onProducerReadable(n) ==
    /\ phase = "running"
    /\ reading = n \/ (reading = 0 /\ Readable(n))
    /\ LET w == IF reading = n THEN World ELSE [World EXCEPT !.kernel[n].rd = FALSE]
           room == Room(w, n)
           k == Least(w.kernel[n].out, IF room = {} THEN PipeCapacity ELSE Min(room))
           taken == [w EXCEPT !.kernel[n].out = @ - k,
                              !.edges = [e \in DOMAIN w.edges |->
                                  IF e \in Active(w, n) THEN [w.edges[e] EXCEPT !.buffer = Least(@ + k, EdgeCapacity)]
                                  ELSE w.edges[e]]]
       IN  \/ /\ 0 \in room
              /\ Become(setProducerReadable(w, n, FALSE))
              /\ reading' = 0 /\ UNCHANGED <<phase, outcome>>
           \/ /\ 0 \notin room /\ w.kernel[n].out > 0
              /\ Become(drainConsumers(taken, Active(w, n)))
              /\ reading' = n /\ UNCHANGED <<phase, outcome>>
           \/ /\ 0 \notin room /\ w.kernel[n].out = 0 /\ w.kernel[n].outOpen
              /\ Become(w)
              /\ reading' = 0 /\ UNCHANGED <<phase, outcome>>
           \/ /\ 0 \notin room /\ w.kernel[n].out = 0 /\ ~w.kernel[n].outOpen
              /\ finishIfDone(closeProducer(w, n))
              /\ reading' = 0
    /\ UNCHANGED <<pipeline, backend>>

\* The poller reports the stage's stdin.
Writable(n) ==
    /\ nodes[n].stdinOpen
    /\ IF backend = "epoll" THEN kernel[n].wr
       ELSE nodes[n].writable /\ (kernel[n].in < PipeCapacity \/ ~kernel[n].inOpen)

onConsumerWritable(n) ==
    /\ phase = "running" /\ reading = 0
    /\ Writable(n)
    /\ Become(drainConsumer([World EXCEPT !.kernel[n].wr = FALSE], n))
    /\ UNCHANGED <<pipeline, backend, phase, reading, outcome>>

\* The child-exit source reports the stage's child; the handler reaps it.
onChildExit(n) ==
    /\ phase = "running" /\ reading = 0
    /\ ~kernel[n].alive /\ ~nodes[n].exited
    /\ finishIfDone(closeConsumer([World EXCEPT !.nodes[n].exited = TRUE,
                                                !.nodes[n].exitCode = kernel[n].code], n))
    /\ UNCHANGED <<pipeline, backend, reading>>

\* abortRun(): every watch removed, every end closed, every child killed with
\* its group and reaped, the callback dropped.
abortRun(w) ==
    [nodes |-> [n \in Nodes |-> [w.nodes[n] EXCEPT !.stdoutClosed = TRUE, !.stdoutReadable = FALSE,
                                                   !.stdinOpen = FALSE, !.exited = TRUE]],
     edges |-> [e \in DOMAIN w.edges |-> [w.edges[e] EXCEPT !.buffer = 0, !.sourceClosed = TRUE,
                                                            !.consumerClosed = TRUE]],
     kernel |-> [n \in Nodes |-> [w.kernel[n] EXCEPT !.alive = FALSE, !.outOpen = FALSE,
                                     !.inOpen = FALSE, !.rd = FALSE, !.wr = FALSE]]]

\* run(): refused, failed on a pipe, a spawn or a watch, or started.
run ==
    /\ phase = "new"
    /\ LET fresh == [nodes |-> [n \in Nodes |-> FreshNode(\E e \in DOMAIN Edges : Edges[e][2] = n)],
                     edges |-> [e \in DOMAIN Edges |-> FreshEdge(Edges[e])],
                     kernel |-> [n \in Nodes |-> FreshChild]]
           accepted == /\ EdgeCapacity # 0
                       /\ \A i \in DOMAIN pipeline.stages : pipeline.stages[i].placement = "local"
                       /\ Plannable(pipeline)
       IN  \/ /\ ~accepted
              /\ phase' = "refused" /\ UNCHANGED <<nodes, edges, kernel>>
           \/ /\ accepted
              /\ phase' = "aborted" /\ Become(abortRun(fresh))
           \/ /\ accepted
              /\ phase' = "running" /\ Become(fresh)
    /\ UNCHANGED <<pipeline, backend, reading, outcome>>

\* An interrupt, handled between two handlers, cancels the run and stops the
\* reactor; `pipe` then returns 130.
onSignal ==
    /\ phase = "running" /\ reading = 0
    /\ phase' = "aborted"
    /\ Become(abortRun(World))
    /\ UNCHANGED <<pipeline, backend, reading, outcome>>

\* cancel() by onOutput, the callback that the read loop of a stage without
\* successors calls.
cancel ==
    /\ phase = "running"
    /\ reading # 0 /\ Outgoing(World, reading) = {}
    /\ phase' = "aborted" /\ reading' = 0
    /\ Become(abortRun(World))
    /\ UNCHANGED <<pipeline, backend, outcome>>

(***************************************************************************)
(* The children: a source writes .work units, another stage copies its     *)
(* stdin, and each ends when it has no more to do.  At most MaxEarly of    *)
(* them give up their stdin or end early.  The stdout of a stage ends on   *)
(* its own: a descendant may hold it for longer than the child lives.      *)
(***************************************************************************)

IsSource(n) == Incoming(World, n) = <<>>

Change(n, child) ==
    /\ phase = "running"
    /\ kernel' = [kernel EXCEPT ![n] = child]
    /\ UNCHANGED <<pipeline, backend, phase, nodes, edges, reading, outcome>>

CanWrite(n) ==
    /\ kernel[n].alive /\ kernel[n].outOpen /\ kernel[n].out < PipeCapacity
    /\ IF IsSource(n) THEN kernel[n].made < pipeline.work ELSE kernel[n].inOpen /\ kernel[n].in > 0

ChildWrites(n) ==
    LET c == kernel[n] IN
    /\ CanWrite(n)
    /\ Change(n, [c EXCEPT !.out = @ + 1, !.made = @ + 1, !.rd = @ \/ nodes[n].stdoutReadable,
                           !.in = IF IsSource(n) THEN 0 ELSE @ - 1,
                           !.wr = @ \/ nodes[n].writable])

MayGiveUp(n) == Cardinality({m \in Nodes : kernel[m].early} \cup {n}) <= MaxEarly

ChildClosesStdin(n) ==
    LET c == kernel[n] IN
    /\ c.alive /\ c.inOpen /\ nodes[n].stdinOpen /\ MayGiveUp(n)
    /\ Change(n, [c EXCEPT !.inOpen = FALSE, !.in = 0, !.wr = TRUE, !.early = TRUE])

\* It wrote all it had to, or has seen the end of its input or given it up.
WorkDone(n) ==
    IF IsSource(n) THEN kernel[n].made = pipeline.work
    ELSE ~kernel[n].inOpen \/ (kernel[n].in = 0 /\ ~nodes[n].stdinOpen)

ChildExits(n) ==
    LET c == kernel[n] IN
    /\ c.alive
    /\ \E early \in BOOLEAN :
          /\ IF early THEN MayGiveUp(n) ELSE WorkDone(n)
          /\ Change(n, [c EXCEPT !.alive = FALSE, !.code = IF early THEN 1 ELSE 0,
                                 !.early = @ \/ early, !.inOpen = FALSE, !.in = 0,
                                 !.wr = nodes[n].stdinOpen])

StdoutEnds(n) ==
    LET c == kernel[n] IN
    /\ ~c.alive /\ c.outOpen
    /\ Change(n, [c EXCEPT !.outOpen = FALSE, !.rd = ~nodes[n].stdoutClosed])

Next ==
    \/ run \/ onSignal \/ cancel
    \/ \E n \in DOMAIN nodes :
          \/ onProducerReadable(n) \/ onConsumerWritable(n) \/ onChildExit(n)
          \/ ChildWrites(n) \/ ChildClosesStdin(n) \/ ChildExits(n) \/ StdoutEnds(n)

Spec == Init /\ [][Next]_vars

(***************************************************************************)
(* Properties                                                              *)
(***************************************************************************)

\* Every byte a stage wrote reaches every successor that still reads: it is in
\* the stage's pipe, in the edge's buffer or was written to the successor, the
\* same bytes on each edge (onProducerReadable and drainConsumer).
EveryByteToEverySuccessor ==
    phase = "running" =>
        \A e \in DOMAIN edges :
            ~edges[e].consumerClosed =>
                /\ edges[e].given + edges[e].buffer + kernel[edges[e].from].out
                       = kernel[edges[e].from].made
                /\ edges[e].buffer <= EdgeCapacity

\* The runner closes the stdin of a stage that is still reading only after the
\* last byte of each of its producers was written to it (closeConsumer, called
\* at the end of drainConsumer).
EofAfterAllData ==
    phase \in {"running", "complete"} =>
        \A n \in DOMAIN nodes :
            ~nodes[n].stdinOpen /\ kernel[n].inOpen =>
                \A e \in ToSet(Incoming(World, n)) :
                    /\ edges[e].given = kernel[edges[e].from].made
                    /\ ~kernel[edges[e].from].outOpen

\* onComplete is called at most once, after every child was reaped and all its
\* output was read, and never by a run that failed to start or was cancelled,
\* after which no child, watch or buffered byte is left.
CompletionSound ==
    /\ outcome # <<>> =>
          /\ phase = "complete" /\ Len(outcome) = 1
          /\ \A n \in DOMAIN nodes :
                ~kernel[n].alive /\ ~kernel[n].outOpen /\ kernel[n].out = 0
          /\ outcome[1] # 0 <=> \E n \in DOMAIN nodes : kernel[n].code # 0
    /\ phase = "aborted" =>
          /\ \A n \in DOMAIN nodes : ~kernel[n].alive /\ ~nodes[n].stdinOpen /\ nodes[n].stdoutClosed
          /\ \A e \in DOMAIN edges : edges[e].buffer = 0

\* A set of stages each of which waits for another of the set: what a cycle is.
Cyclic(p) ==
    \E s \in SUBSET Ids(p) \ {{}} :
        \A id \in s : \E k \in DOMAIN p.edges : p.edges[k][2] = id /\ p.edges[k][1] \in s

\* The graph is one path through all the stages.
IsPath(p) ==
    LET es == {p.edges[k] : k \in DOMAIN p.edges}
        meets(id, side) == Cardinality({e \in es : e[side] = id})
    IN  /\ ~Cyclic(p)
        /\ Cardinality(es) = Len(p.stages) - 1
        /\ \A id \in Ids(p) : meets(id, 1) <= 1 /\ meets(id, 2) <= 1

\* A well-formed pipeline is accepted exactly when it has no cycle, and then its
\* order has every stage once and every producer before each of its consumers,
\* also when edges repeat and stages are listed against the flow.
Ordered(p) ==
    /\ Plannable(p) <=> WellFormed(p) /\ ~Cyclic(p)
    /\ Plannable(p) =>
          LET order == Order(p)
              place(id) == CHOOSE n \in DOMAIN order : order[n] = Position(p, id)
          IN  /\ ToSet(order) = DOMAIN p.stages
              /\ \A k \in DOMAIN p.edges : place(p.edges[k][1]) < place(p.edges[k][2])

\* No graph that is not a chain is handed to a runner of chains, no stage moves
\* between the controller and a node on the way, and --check agrees with the run
\* unless a stage after the first is placed on a group, which only a run refuses.
Routed(p, inventory) ==
    LET args(check) == [usage |-> TRUE, inventory |-> TRUE, identity |-> TRUE, check |-> check]
        ran == pipeSubcommand(p, inventory, args(FALSE))
        stages == stagesInPlanOrder(p)
        laterGroup == \E i \in 2 .. Len(stages) :
                          /\ ~isLocalPlacement(stages[i].placement)
                          /\ selectGroup(inventory, stages[i].placement) # <<>>
    IN  /\ ran.kind \in {"segmented", "fanin"} =>
              LET first == IF ran.kind = "fanin" THEN 1 ELSE 0
              IN  /\ IsPath(p)
                  /\ Len(ran.chain) = Len(p.stages) - first
                  /\ \A i \in DOMAIN ran.chain :
                        (ran.chain[i] = Here) <=> isLocalPlacement(stages[i + first].placement)
                  /\ ran.kind = "fanin" => Len(ran.source) > 1
        /\ LET checked == pipeSubcommand(p, inventory, args(TRUE)).kind
           IN  /\ ran.kind # "refused" => checked = "valid"
               /\ checked = "valid" /\ ran.kind = "refused" => laterGroup

Placed(p, placement) ==
    [p EXCEPT !.stages = [i \in DOMAIN @ |-> [@[i] EXCEPT !.placement = placement[i]]]]

\* What Planner::plan() orders and pipeSubcommand() makes of the plan is the
\* pipeline that was declared.
PlanSound ==
    phase = "new" =>
        \A p \in Graphs \cup {pipeline} :
            /\ Ordered(p)
            /\ \A inventory \in Inventories, placement \in Placements :
                  Routed(Placed(p, placement), inventory)

\* Stages that wait for each other through full buffers and pipes never all
\* wait: until the run completes or is cancelled, a handler has something to do
\* or a child can go on.  The reports of a hangup that the handler can do nothing
\* about (the epoll backend repeats them) do not count.  Every step consumes
\* work, data, an event or a child, so a run that is never stuck completes.
NeverStuck ==
    phase = "running" /\ reading = 0 =>
        \E n \in DOMAIN nodes :
            \/ Readable(n)
            \/ Writable(n) /\ (kernel[n].inOpen \/ Ready(World, n) # {})
            \/ ~kernel[n].alive /\ (~nodes[n].exited \/ kernel[n].outOpen)
            \/ CanWrite(n) \/ (kernel[n].alive /\ WorkDone(n))

\* No byte is lost on its way through the graph: every successor gets all of it,
\* and no stage sees the end of its input early (onProducerReadable,
\* drainConsumer and closeConsumer of dag_runner.cpp).
DataComplete == EveryByteToEverySuccessor /\ EofAfterAllData
=============================================================================
