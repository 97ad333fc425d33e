# PipeShellX in TLA+

A specification of PipeShellX, the tool that runs commands and pipelines on many hosts
and streams their output back: the psx/1 session protocol and the connection under it,
the node that runs a command, the controller that fans out, the older fan-out over
ssh(1) children, the pipelines, the reactor and the processes everything runs on, the
path of the output to the terminal, and the certificate authority. TLC checks the
modules on small instances; TLAPS proves the central properties of flow control, the
capture of output, the session, the node's stage, the fan-out and the run around it, the reactor and its
processes, and the authority for every value of their constants. Paths below are relative to the repository;
`PROJECT.json` gives, for every definition, the lines it models.

## 1. The system

| Part | State it keeps | Operations | Talks to |
|---|---|---|---|
| Credit window (`src/stream/credit_window.cpp`) | window, outstanding, pending update | onData, onConsumed | owned by a Session's stream |
| Session (`src/transport/session.cpp`) | streams, ids closed locally, next ids, GOAWAY flags, poisoned flag | open, sendData, sendExit, consume, ping, goAway, receive | peer session by frames; its owner by callbacks |
| Native transport, TLS stream, node server (`src/transport/`, `src/os/tls.cpp`, `src/os/posix/socket.cpp`) | address cursor, TLS buffers, lease counters, connection list | connect, authorize, pump, heartbeat, accept, reap | socket, session, reactor |
| Node stage runner (`src/transport/node_stage_runner.cpp`) | stages: process, three pipes, stdin buffer, paused, exited | onOpen, onData, onReadable, onStdinWritable, onStageExit, resumeReads, destructor | session, reactor, process group |
| Native controller (`src/transport/native_controller.cpp`) | one Conn per target, active and remaining counters, next to start, cancelling, completed | start, fillSlots, launch, onReady, onExit, fail, cancel, retire | transports by callbacks, reactor timers, its owner by onComplete |
| Native run (`runNative`, `src/cli/run_command.cpp`) | stop cause, canary and rest controllers, results, exit code | canary callback, deadline, signal, finishResults | controllers, reactor |
| Process manager (`src/process_manager.cpp`) | per-host attempt, deadlines, pipes, captured output | launch, retry, time out, cancel, collect | ssh(1) children, reactor, sink |
| Pipelines (`src/pipeline/`) | stage graph, edge buffers, segments, results | plan, start, pump, finish, cancel | processes, native stages, controller |
| `pipe` command (`src/cli/pipe_command.cpp`) | - | validate, place, choose a runner, interrupt, exit code | planner, inventory, runners |
| Reactor, pollers, sources (`src/runtime/reactor.cpp`, `src/os/posix/`) | watches, timers, child watches, signal handler | watch, modify, schedule, cancel, watchChild, run, stop | every asynchronous part |
| Process (`src/os/posix/process.cpp`) | pid, group, ownership, reaped status | spawn, wait, stop, signal, move, destroy | kernel |
| Byte streams (`src/stream/`, `spool_buffer.hpp`) | ring, spool file, half-close state, partial line | write, read, close, push, flush | capture of output |
| Sinks (`src/sink/`) | held-back output per host | event, flush | terminal |
| Certificate authority (`src/ca/`, `src/cli/ca_command.cpp`, `src/cli/node_command.cpp`) | key, certificate, revocation list, CRL: all in files | init, issue, sign, revoke, keygen, node start | OpenSSL, disk |
| Frame codec, parsers, inventory, policy, audit, SSH arguments, other CLI | text, files and options | parse, select, match, append | - |

**What is hard.** Everything asynchronous runs on one reactor thread, so a handler is
atomic, but: (1) frames cross on the wire, and a stream's two ends close at different
times; (2) output is held back by credit, by full pipes and by full buffers, so EXIT,
END_STREAM and EOF have to wait for data that leaves later, from another handler;
(3) the reactor is edge-triggered under epoll, so a reader that stops early must be
woken by somebody else; (4) handlers call each other re-entrantly (fail-fast cancels
every other target from inside one target's finish); (5) objects are destroyed by
callbacks that timers may still refer to, and descriptor and process numbers are reused
while events and handles for the old ones exist; (6) a deadline, Ctrl-C, a lost
connection and a late EXIT race; (7) the authority's state is several files without a
transaction. `hazards` in `PROJECT.json` lists these where they bite.

**What makes each part correct.** Credit: none minted, lost or stranded. Session: output
in order and complete before EXIT, no false protocol error, no reuse of a finished
stream. Connection: only data of an authorized peer, in order, none stranded; the lease
fences exactly the silent. Stage: EXIT after all output, bounded memory, no lost wake-up,
nothing left running after the connection. Controller: every target gets one final
result, bounded concurrency, one completion with nothing left behind. Run: the canary
gate, a stop that is never forgotten, an exit code that is true. Process manager: every
worker counted once and never resurrected, retries only of transient failures, a stop
that ends by timers alone. Pipelines: the declared graph is what runs, no byte lost, no
early EOF, no deadlock, a true outcome. Reactor: no lost wake-up, no foreign event.
Process: no foreign kill. Output: every byte retained or counted, exact lines, a complete
report. Authority: a revocation is for good, no certificate across two authorities.

## 2. Modules

| Module | Models | How |
|---|---|---|
| `CreditFlow` | the promise of flow control for one direction of one stream | abstract: bytes and credit in flight are counted |
| `Session` | two Sessions and the two byte streams between them | one action per API call and per frame type |
| `SessionFlows` | what the sessions implement: a `CreditFlow` in each direction of each stream | the refinement mapping |
| `SessionProofs` | - | proofs about `Session`, and of that refinement |
| `Connection` | `TlsStream` and `NativeTransport` at both ends of a connection, the socket between them, `NodeServer` | one action per reactor callback; the TLS flights are records on the wire |
| `ConnectionProofs` | - | proofs about `Connection` |
| `NodeStage` | `NodeStageRunner` with one stage, its stream, its pipes and process group | one action per handler; helpers are functions on the runner's record |
| `NodeStageProofs` | - | proofs about `NodeStage` |
| `NativeController` | `NativeController` with N targets | one action per callback; `fillSlots` is a run of launch steps |
| `NativeRun` | `runNative`: extends the controller with canary, rest, deadline, Ctrl-C, exit code | composes: the controller's actions plus the callbacks of the run |
| `NativeRunProofs` | - | proofs about `NativeController`, and from them about `NativeRun` |
| `WorkerRun` | `WorkerRun` of the process manager with N workers, and the loop it runs on | one action per handler; `account()` and `teardown()` are functions on the run's record |
| `WorkerRunProofs` | - | proofs about `WorkerRun` |
| `Planner` | `Planner::plan` | operators; the queue of Kahn's algorithm is a fold |
| `PipeCommand` | the routing of `pipeshellx pipe` | extends `Planner`; one operator per function, from pipeline and inventory to a runner or a refusal |
| `DagRunner` | `DagRunner`: a local graph of children, edge buffers and pipes | extends `PipeCommand`; one action per handler, the read loop turn by turn |
| `SegmentedPipeline` | `LocalRunner`, `DistributedRunner`, `SegmentedPipeline`, `FanInPipeline` and the command around them | one action per handler, callbacks included; runners are operators from world to world |
| `Process` | `Process` handles, spawn, and the kernel's process table | actions that `Reactor` composes |
| `Reactor` | `Reactor`, the epoll and poll pollers, both child-exit sources, the signal source | extends `Process`; the loop is a program counter, the program on it is arbitrary |
| `ReactorProofs` | - | proofs about `Reactor` and `Process` |
| `ByteStream` | `BoundedBuffer`, `SpoolBuffer`, `Stream` | methods are operators on the object |
| `OutputPath` | capture, `LineFramer`, retry and sinks, for SSH workers and native targets | extends `ByteStream`, whose spool it uses |
| `OutputProofs` | - | proofs about `CreditFlow` and `OutputPath` |
| `CertAuthority` | the `ca` commands, `node keygen`, `node start` | a command is a list of writes made one by one, any of which may fail or be the last |
| `CertAuthorityProofs` | - | proofs about `CertAuthority` |

`MC...` modules give the constants their values for TLC; `MCOutput` puts `CreditFlow`,
`ByteStream` and `OutputPath` side by side, and a behaviour exercises one of them.
Definitions marked *(Mutant: ...)* are the wrong variants that `PROJECT.json` substitutes to show that each property can fail; no specification uses them.

### Abstractions

* Payload is counted in units where only amounts matter (`Session`, `NodeStage`,
  `DagRunner`, `SegmentedPipeline`), numbered where order and loss matter (`Connection`,
  `ByteStream`, `OutputPath`). A DATA frame of n units is n one-unit frames with
  END_STREAM on the last, because the receiver treats the units of a frame alike; output
  keeps its channel tag.
* `Session`: a call the code ignores (wrong role, unknown stream) changes nothing and is
  stuttering. `sent`, `got`, `reported` and `seen` only record what the applications
  handed in and were given. A faulty peer is the action `Inject`.
* `Connection`: the handshake is three flights; a certificate's verdict (ok, revoked,
  unlisted, imposter) is part of the scenario. The client finishes its handshake before
  the node has verified it, as in TLS 1.3, so a refused peer may already have sent data.
  Session is reduced to answering a ping. A partition holds what is in flight and heals
  or not; with `timely` a heartbeat interval passes only when the network is idle, which
  is the assumption under which a live peer keeps its lease.
* `NodeStage`: the sending half of the session is folded into the runner's record; the
  controller returns credit in any amounts, as `CreditFlow` allows. The process group is
  the environment: it writes, closes, forks and exits as it likes. Kernel readiness is
  the record `event`; epoll reports a hangup whatever the interest, and modifying a
  registration reports again.
* `NativeController`: a transport and its only stream are `link`. Zero-delay retire
  timers are `retiring`; completion decided inside a handler is the flag `completed`.
* `NativeRun`: `onComplete` is called from inside the controller's last handler; here it
  is the step after it and nothing else is enabled in between. The same variables serve
  both controllers, because the second exists only after the first completed.
* `WorkerRun`: under Ctrl-C and fail-fast the accounts inside a teardown neither retry
  nor tear down again, so `StopAll` is one step over all workers; the deadline's teardown
  (`Expire`) goes worker by worker. The loop over `retryQueue_` that a nested teardown
  clears goes on over the old elements, as the vector keeps its storage. A child may
  exit, or not, whatever it was sent; only the kill before the reap of the drain grace is
  relied on. Timers come due in any groups and order, which is more than the clock allows.
* `DagRunner`: stages are ordered by the planner; a source writes a fixed amount, another
  stage as much as it read; at most `MaxEarly` stages give up early.
* `SegmentedPipeline`: a node's stage is reached through a session that delivers its
  output and then its exit (`Session`, `NodeStage`), the source of a fan-in is a
  `NativeController` that gives each host one result. A remote connect may fail at once,
  later, or after it was up.
* `Reactor`: handlers drain what they were called for, as the edge-triggered contract of
  `reactor.hpp` demands, and may then call the reactor or a `Process`. One other thread
  may call `stop()`.
* `ByteStream`: every call into the disk may fail, so an operation on the spill file is the
  set of its outcomes. `fwrite` only fills the buffer of the C library; a flush (in the
  `fseek` of the next append, or before a read) that fails writes some first part of that
  buffer and keeps or forgets the rest, as C libraries differ. A short write leaves a part
  behind uncounted and poisons the file; a `read()` or `readAll()` may fail or come back
  short without poisoning it.
* `OutputPath`: the spill files are read back once per stage, when its result is put
  together: at once in the native `finish()`, after the reactor returned for SSH workers.
  A byte has a class (ordinary, LF, CR) and a number. Sinks are modelled by
  which lines of which host they print, in which order; wording and escaping are left out.
* `CertAuthority`: keys are numbers, a signature is the number of the signing key. A
  secret file is replaced by rename; any other file is truncated and rewritten, and may be
  left empty or cut. Commands do not overlap. Lifetimes of certificates are left out.

## 3. What TLC checks

| Run | Instance | Properties |
|---|---|---|
| `session` | one stream, window 4; five loads: 5 units out, 5 in, 2 in and 1 out with a draining controller, 1 out with a draining node, a peer that injects one misplaced frame of any type | `SessionSound` (no honest frame is fatal but an OPEN that crosses a draining node's GOAWAY, output whole and in order, EXIT last); `FlowsImplemented` (both directions refine `CreditFlow`), `ClosedStaysClosed`, `ExitDelivered` |
| `connection` | eleven scenarios: one to three addresses that are up, local, refused or time out; good, unlisted, revoked and foreign certificates; partition, reset, hang-up; two connections on one server | `OnlyAuthorizedInOrder`, `LeaseExact`, `FailedIsReaped`, `NothingStranded` |
| `stage` | window 1, reads of 2, pipes of 3; 3 units per channel with a descendant, 4 of stdin, failed watches | `StageInv` (EXIT after all output, bounded queue, stdin whole before EOF, credit conserved), `NoLostWakeup`, `Fenced`; `StageExitReported` |
| `native_run` | 3 targets, 2 at a time, with and without fail-fast and deadline, five canary settings | `ControllerInv` (counters, concurrency, retire timers, never stalls, completion final), `RunSound` (canary gate, true verdict); `ResultsAreFinal`, `NothingLaunchedAfterStop`, `RunEnds` |
| `worker_run` | 3 workers, 1 or 2 slots, one retry, one pipe each, fail-fast or not, Ctrl-C, a deadline | `WorkersAccounted`, `ReportSound`; `CountedIsFinal`, `DrainEndsRun` |
| `dag` | chain, fan-out, fan-in, diamond and two refused pipelines, edge buffers of 1 and 2, both backends; every graph on three stages and some on four, with inventories and placements, through planning and routing | `DataComplete`, `PlanSound`, `CompletionSound`, `NeverStuck` |
| `pipelines` | every mix of local and remote up to two stages and three of length three, fan-ins of two hosts, finite and endless sources, two faults, an interrupt | `EofAfterAllData`, `OutcomeSound`, `FinalStageEndsRun` |
| `pipelines_fanin` | the same | `FailureIsReported`: violated, see Findings |
| `reactor` | six programs over epoll/poll, pidfd/SIGCHLD, batches of 1 and 2; 2 descriptor numbers, 2 process numbers, 2 handles, 5 calls, 3 arrivals, 3 spawns | `NoLostWakeup`, `HandlersGetTheirOwn`, `OwnersKillTheirOwn`, `ChildGetsItsHandles` |
| `output` | a direction of a stream with a window of 8; rings of 0, 2 and 3 under all policies, 5 bytes, reads of 1 and 2; 1 to 3 hosts, cap 2, lines of 2, one retry, all sinks; any call of the disk may fail | `CreditInv` (conserved, not stranded, never refused), `StreamSound`, `OutputAccounted`, `LiveLinesExact`, `ReportComplete` |
| `output_loss` | the same | `LossIsCounted`: violated, see Findings |
| `ca` | 3 keys, 2 certificates, 2 revocations, 2 identities; any write may fail or be the last | `RevocationDurable`, `OneAuthority` |

The two properties named `NoLostWakeup` are of different modules: a stage's readers in
`NodeStage` (of the readers it could watch: `arm()` ignores a failed watch, and nobody
would wake such a reader), the loop itself in `Reactor`.

What a failing disk may do is part of the properties of `output`. `StreamSound` promises
order, and an account of every byte, always; that no byte is missing and that the end is
found, unless the disk lost bytes it had accepted (or, for the end, refused some and
poisoned the file). `OutputAccounted` counts a byte that was accepted by the spill file as
accounted for, and says exactly what a result holds then: a first part of what the file
accepted, all of it if no call failed, followed by what is in memory. That the difference is
counted nowhere is what `output_loss` shows.

**Why the bounds are enough.** Output exceeds the window, so DATA, END_STREAM and EXIT are
all held back by credit, and a window of 4 is the smallest in which credit is held back at
the receiver; stdin exceeds the pipe, so EOF waits behind buffered input; two units per
read against a window of one overrun the high-water mark; three targets with two slots
give one that waits, one that runs and one that retires; the canary settings give one,
two and all of three targets and the 0 % that counts as one. A second stream adds nothing
to a first, since two streams share only the connection flags. Three workers in one slot
make a queue of two respawns, in two slots one that waits beside one that runs and one in
backoff. Two missed heartbeats are the least that tell a missed one from an expired
lease; a socket of one record fills at once. Buffers and pipes of one unit and a diamond
make every stage wait for every other kind of neighbour. Two process and two descriptor
numbers with three spawns and reopened files force reuse. A ring of 2 or 3 and five bytes
wrap and spill. Two revocations are needed for one to follow a failed one; three keys
allow an `init` over an existing authority besides the node's key. Every property has a
mutant of the modelled code (`mutants`) that these bounds are large enough to catch.

**Deadlock** is checked in `worker_run`, where only a run that has returned may stop, and
not in the others: these systems may rightly stop (a finished run, a poisoned session, an
exhausted budget of calls). That they do not stop too early is what `ExitDelivered`,
`StageExitReported`, `RunEnds`, `NeverStuck`, `FinalStageEndsRun`, `NothingStranded` and
`NoLostWakeup` say.

**Fairness**, where liveness is stated:
* `Session`: weak fairness of receiving (the reactor reads what arrives) and of consuming
  (the controller consumes in its `onData`, the node as stdin drains). Nothing is assumed
  of the applications that send.
* `NodeStage`: weak fairness of dispatching reported events and of credit coming back.
  Nothing is assumed of the command: `StageExitReported` starts from its processes being
  gone.
* `NativeRun`: what happens on this machine: calls, retire timers, onComplete, the
  deadline. With a deadline the nodes may stay silent for ever. Without one `RunEnds`
  assumes `NodesAnswer`: a connection under way gets ready or fails, and a stream that is
  open ends or is lost. For an open stream the lease sees to the loss of a silent node. For
  a connection under way it is an assumption: the code has no handshake deadline and arms
  the lease only in `onReady` (`native_transport.cpp:34`), so a peer that stalls in the TLS
  handshake of a run without `--timeout` is excluded.
* The others state progress by steps instead: `DrainEndsRun` (the drain timer's handler
  ends the run), `NeverStuck` and `FinalStageEndsRun` (until the end some handler is due or
  some stage can go on, and each such step uses up work).

## 4. What is proved

`OutputProofs`, about `CreditFlow` (assumes `0 < Window <= MaxWindow`):
* `FlowControlCorrect`: `Spec => []CreditInv`. `CreditInv` (type, conservation, no
  refusal, no stranded credit) is inductive as it stands. Conservation is what the
  other two need: it bounds bytes in flight plus outstanding by the window, so `onData`
  accepts, and credit plus grants by the window, so no update overflows.

and about `OutputPath` (assumes of the settings only that numbers are natural, policies are the
four of the code and chunks are sequences of bytes):
* `OutputIsAccounted`: `OutputSpec => []OutputAccounted`, for every cap, policy, number of
  hosts, cutting into chunks, number of retries and failing of the disk's calls. `CaptureInv`
  says of each channel that its bytes are what the file accepted, a missing middle, and the
  ring (`Kept`; under DropNewest the ring and a missing rest), the middle being empty under
  Spool until an append was refused; that the file would give back a first part of what it
  accepted, all of it if no call failed (`Stored`); that the sizes and the dropped count add
  up (`Counted`); and that a stage has a result only once it ended, assembled from exactly
  these parts (`ResultSound`). `AppendStored` goes through the outcomes of an append,
  `SpillKept`, `DropTail` and `SpillTail` through those of a capture, `ReadBackExact` through
  those of a read-back.

`NativeRunProofs` (assumes `N` and `Concurrency` natural numbers, `Encodable` Boolean, and
canary settings of natural numbers), first about a controller:
* `ControllerCorrect`: `Spec => []ControllerInv`, with and without fail-fast, for every
  number of targets and every limit, 0 (none) included. The properties are not
  inductive alone. `CompletionIsFinal` needs the counters to agree with the sets they
  count, the counters need every finished connection to hold one retire timer, and
  `NeverStalls` needs that targets are launched in order, so that with no active
  connection and no target left to launch everybody is done. `Bookkeeping` adds exactly
  those facts. `FinishEffect` and `FailRestEffect` describe a (possibly re-entrant)
  finish once, and every callback that finishes a target cites them.
* `ControllerNeverStalls`, `ControllerCompletionIsFinal`: corollaries.
* `ControllerResultsAreFinal`: `Spec => ResultsAreFinal`, an action property from the
  same invariant: a result changes only while its target is not done, and `done`
  agrees with the results.

The controller's proofs are stated so that the run can use them: `FanOutInv` holds for a
controller over any interval of the targets while the other targets stay quiet, which is
what canary and rest are to each other.

and then about the run:
* `RunCorrect`: `Spec => []RunSound`, the canary gate and the true verdict.
  `RunControllersCorrect`: `ControllerInv` for both controllers. `RunStops`:
  `NothingLaunchedAfterStop`. `RunResultsAreFinal`.
* `RunInv` adds to `FanOutInv` which targets the current controller has and what is known
  of the others (`Stages`: those behind the canaries untouched, the canaries before the
  rest ok), that a target that is ok has had its transport destroyed (`LinksTell`), and
  that a stop has cancelled the current controller (`StopsTell`), which is why the rest is
  not started after a stop that came during the canaries.

`WorkerRunProofs` (assumes a worker or more, finitely many pipes but some, and natural
numbers of retries and slots, 0 slots for no limit):
* `WorkersAreAccounted`: `Spec => []WorkersAccounted`; `ReportsAreSound`:
  `Spec => []ReportSound`; `CountedStaysFinal`: `Spec => CountedIsFinal`;
  `DrainEndsTheRun`: `Spec => DrainEndsRun`; all from `RunBooks`, `Spec => []RunInv`.
* None of the properties is inductive, since one callback moves several workers: a failure
  under `--fail-fast` counts a worker, which stops the run, which sweeps the other workers.
  `Books` makes `remaining_` and `inFlight_` the numbers of the workers they stand for and
  puts each worker at a legal point of its life (`Shape`: an exited worker that is not
  counted waits for a pipe or for its retry); `QueueOk` makes the retry queue the started
  workers that wait, each once; `RetryClock` gives exactly the workers in backoff a timer,
  pending or in the batch being fired; after a stop nobody is left to start and whoever is
  not counted is marked (`Settled`), with the grace timer running (`DrainClock`,
  `DrainTimed`). `Caused` keeps the worker that a `--fail-fast` stop is due to, and `Final`
  what a counted worker's attempts say.
* The proof follows the run's record through a callback, where these parts hold for all
  workers but the one at hand: `StopEffect`, `RetryEffect`, `AccountEffect` and `TouchEffect`
  state what a stop, a retry, an account and a change to one worker leave behind.
* `teardown()`, `onDrainExpired()` and the exit code go through the workers in a loop. Each
  is a recursive function of the turns taken (`Loop`), and what it computes is proved for
  every number of turns (`QueuedLoop`, `PendingLoop`, `RunningLoop`, `DrainLoop`,
  `CodeLoop`), from a loop invariant and `LoopInduction`: if some turn broke it, the set of
  turns that do would have a smallest member.

`SessionProofs` (assumes `0 < Window <= MaxWindow`, natural loads and faulty frames that
the codec could have decoded):
* `SessionsStayClosed`: `Spec => ClosedStaysClosed`, an action property, with a peer that
  may send any frame at any time. It rests on `IdsInOrder`: ids are given out in order
  at both ends, a finished id is below the next one, and live and finished ids are
  disjoint. `SessionsTyped`: credit and unconsumed data keep their bounds, whatever the
  peer sends.
* `SessionsSound`: `Spec => []SessionSound`, for every window, number of streams, amounts
  of input and output, and either end draining. Whether a frame is fatal depends on what
  its sender knew when it sent it, so `HonestInv` relates the record of a stream at one
  end, the two wires and the record at the other:
  - which streams are open at which end, and that a stream neither end has seen has no
    frames (`Known`); OPENs are on the wire in the order of their ids, each ahead of its
    stream's frames and none behind a GOAWAY (`OpensReadable`); frames name a stream that
    exists and carry what their sender may send (`FramesSane`).
  - `HalfClose`, in each direction: nothing of the payload follows END_STREAM, and an end
    that can still send has not sent it. This is why DATA after END_STREAM never arrives.
  - `Credit`, in each direction: while both ends have the stream, credit at the sender,
    units on the wire, unconsumed units and updates on the way back add up to the window.
    Once the node has closed it the sum is gone, and two inequalities remain, which are
    what late DATA and late updates need to be accepted or ignored.
  - `ExitOk`: EXIT is the last frame of its stream, has the reported status and leaves
    only when the queue is empty; `Conserves`: what was handed in is what arrived, then
    the wire, then the queue. With them the controller has all output when EXIT is read.
  - `NoneFailed`, and `StdinOnly` (the controller has no EXIT to send and queues input only).
  The wire is counted by position (`UnitsOn`, `CreditOn` are cardinalities), so that what
  a flush appends and what a receipt takes off are lemmas about sets of positions.
* `SessionsRefineFlows`: `Spec => Flow(e, id)!Spec` for either end `e` and any stream `id`:
  the session's steps are steps of `CreditFlow` in that direction, or stutter.
  `SessionsImplementFlows` says it of all of them at once (`FlowsImplemented`). A direction's
  wire is the number of its units on the connection, its grants the credit in the
  WINDOW_UPDATEs that come back; it closes when the node ends the stream. With the window
  whole (`WindowWhole`, from `HonestInv`) a lemma per abstract step (`FlowTransmits`,
  `FlowDelivers`, `FlowConsumes`, `FlowGrants`, `FlowCloses`) says when an endpoint takes it,
  and one lemma per action of `Session` traces the action to one of them, or to nothing, in
  each direction of each stream. A WINDOW_UPDATE that releases queued output grants and
  transmits at once; behaviours with a broken peer are mapped to one in which nothing
  happens, as `CreditFlow` is a promise to peers that keep to it.

`ConnectionProofs` (assumes a socket that holds a record or more, a lease of an interval or
more, and scenarios whose counts are natural numbers and whose addresses are up, local,
refused or silent):
* `SessionsGetWhatWasSent`: `Spec => []OnlyAuthorizedInOrder`; `LeasesAreExact`:
  `Spec => []LeaseExact`; `FailedAreReaped`: `Spec => []FailedIsReaped`;
  `NothingIsStranded`: `Spec => []NothingStranded`; all from one invariant, `Inv`, for every
  number of connections, socket capacity, lease, address list and amount of data.
* `LinkOk` is its part about one connection. The records on their way to an end are what it
  was fed, then the socket, then its peer's buffer (`In`). In each direction (`Way`) the data
  frames among them continue what was handed up, without a gap, to the last one sent
  (`InOrder`), and the flights still to be used come first, exactly as many as the two
  handshakes say (`Flown`). `EndOk` ties the life of an end to its handshake, who is admitted
  to the certificate, `missedBeats` to the silence and the address cursor to the addresses
  that do not answer; `CauseOk` keeps the reason of a failure. `Owed` is why a lease is not
  lost to a live peer: an end that has heard nothing since its tick has a record on its way,
  or its ping is on the way to its peer.
* `AtRest` is what a callback leaves behind: nothing fed and not decrypted, a buffer that
  waits has its write interest, a connected controller has begun its handshake. With it an
  idle connection is an empty one (`Settled`), so nothing is stranded, and an idle connection
  owes nobody an answer (`LeaseKept`), so under `timely` no lease expires.
* The proof goes up the calls, as `LinkOk` holds inside them too: `flushOutbound`, `fail`,
  `send`, one record of `receive` and the loop over them, `driveHandshake`, `onReadable`,
  `heartbeatTick`, `start`, `confirmConnect` and `destroy` have a lemma each. `receive` is a
  recursive function of the records handed up, its loop proved as those of `WorkerRun`.
* `ServerOk`: the server holds the live nodes, and each failed one is queued with the timer
  armed; a node does not fail while it is accepted (`AcceptCalm`), so none is missed.

`NodeStageProofs` (assumes positive sizes and loads of natural numbers):
* `StageCorrect`: `Spec => []StageInv`; `StageNeverSleepsThroughOutput`: `NoLostWakeup`;
  `StageFenced`: `Fenced`.
* `NodeInv` has a part for each. EXIT after all output needs that delivered, queued and
  piped units are what was written, and that a closed reader is drained and has no writer
  left, so that EXIT may follow the queue. No lost wake-up needs that reads are paused
  only behind a full queue (which credit will drain, and resume) and that an armed reader
  with something in its pipe has an event. Stdin needs read + pipe + buffer = sent; the
  bounded queue that a read adds at most a chunk to a queue below the window; `Fenced`
  that the runner's phase agrees with the life of the process.

`ReactorProofs` (assumes finitely many process numbers, natural descriptor numbers, and that
the program has finitely many descriptors open, its own 0, 1 and 2 among them):
* `KillsStrikeTheirOwn`: `OwnersKillTheirOwn`, from `Ownership`: the handle that owns an
  unreaped child keeps its number from being reused, and no two handles own one.
* `HandlersCalledForTheirOwn`: `HandlersGetTheirOwn`; `WakeupsNeverLost`: `NoLostWakeup`.
  `ReactorInv` says that what the loop has collected is still what its handler is for: a
  token is given to one registration only, so a collected event finds its own file or no
  registration (`EventsFresh`); a child with a handler is not reaped, so its number is not
  handed out again (`ChildrenFresh`); a timer is pending, collected or fired, and only one
  of these (`TimersFresh`). An edge is with the kernel or collected (`EdgesKept`), an exit
  in the self-pipe or yet to be scanned for (`ExitsKept`), and the wait ends with the first
  timer and with `stop()` (`WaitBounded`).
* `ChildrenGetTheirHandles`: `ChildGetsItsHandles`, for any number of extra handles with any
  targets. The table of a child never changes after its spawn (`TablesKept`), so it is a
  fact about one spawn, `ChildTableIsWanted`. `renumberExtras` leaves each source a copy of
  the file it stood for, above every target (`RenumberExtrasEffect`); the dup2s of the child
  then write only to 0, 1, 2 and the targets, so none overwrites a source that a later one
  reads (`StdioPlaced`, `ExtrasPlaced`). Both loops are recursive functions of the number of
  handles done, and the induction over it is `LoopInduction`, from `SetInduction`: the set
  of turns at which the invariant fails has no smallest member.

`CertAuthorityProofs` (assumes natural bounds):
* `AuthorityNeverSplit`: `OneAuthority`; `RevocationsDurable`: `RevocationDurable`. A
  crash may leave any prefix of a command's writes, so `CaInv` speaks of the pending
  writes too: a leaf to be written is an issued one (`LeavesPending`), only a revocation
  writes the list and the CRL, the CRL last (`RevocationsPending`), and that CRL lists
  what was reported before, what is being revoked and what the list says
  (`NextCrlCovers`), as long as no list was cut.

**Only model-checked.** Liveness under fairness (`ExitDelivered`, `StageExitReported`,
`RunEnds`) is out of the prover's reach. So is an induction whose step is an operator the
theorem is to take as a parameter; where a loop is a recursive function, as in
`WorkerRun`, `Process` and `Connection`, the induction is done on the set of failing
turns. What the other folds compute for every input is not proved: `Planner` and with it
`DagRunner`'s `PlanSound`, the ring and the drain loop of `ByteStream` (`StreamSound`), the
framer and the sinks of `OutputPath` (`LiveLinesExact`, `ReportComplete`). `DagRunner`'s and
`SegmentedPipeline`'s other invariants are within reach and not proved.

## 5. Findings and observations

**A fan-in whose downstream fails at once** (`pipelines_fanin`). `FanInPipeline::run()`
starts the downstream before it makes `source_`. When a remote downstream stage fails to
connect inside that call, `onDownstreamDone()` calls `source_->cancel()` on a null pointer
(`src/pipeline/fanin_pipeline.cpp:104`); the outcome is never reported.
`include/psx/pipeline/distributed_runner.hpp:49` says that a per-connection failure
completes via onComplete.

**Bytes the spill file accepted and lost** (`output_loss`).
`include/psx/stream/spool_buffer.hpp:16` says "On any I/O failure it reports false and the
caller falls back (drops the bytes), so spooling can never corrupt the run". `append()`
reports success as soon as `fwrite()` has filled the buffer of the C library (line 54). If the
disk fills up afterwards, the failure shows in the `fseek` of the next append (line 50), which
rejects only that append's bytes, or in the `fflush` (93) or `fread` (99) of `readAll()`, which
then returns nothing or less than `size_`. Neither caller compares
(`src/process_manager.cpp:827`, `src/transport/native_controller.cpp:90`), so the result
lacks bytes that `droppedBytes` (the `dropped` of `docs/pipelines.md:103`) does not count.
`include/psx/stream/bounded_buffer.hpp:25` calls Spool "no loss".

Seen in the code while modelling, part of the models unless said otherwise, without a run
of their own:

* *Session.* An OPEN in flight when a node calls `goAway()` poisons the session with its
  running streams, while `docs/wire_protocol.md:145` lets existing streams finish; nothing
  in `src/` calls `goAway()`. The receiving window does not count credit freed but not yet
  advertised, so it tolerates half a window more than it advertised.
* *Stage.* The destructor signals the group only of stages that have not exited, so a
  descendant of one that has may survive (`docs/architecture.md:175` speaks of the group);
  `Fenced` is about stages whose leader runs. `arm()` ignores errors of `watchChild()`
  other than NoSuchProcess, and such a stage never gets its EXIT. A paused reader whose
  writers are gone is reported, and modifies its registration, again and again until
  credit comes. Stdin that arrives after the stage closed its end is kept with its credit.
* *Controller and runs.* `onReady` does not look at what `open()` returns: a command that
  cannot be encoded leaves its target pending until a stop (`native_controller.hpp:21`);
  `RunEnds` is checked for commands that can be. `CanaryController` is used by tests only.
  At the deadline of a `--fail-fast` SSH run the running workers are marked aborted as well
  as timed out; the attempts reported for a worker stopped in its backoff include the one
  never made; `retryable()` looks only at the stderr the ring retained. A failed `watch()`
  throws out of `run()` (not modelled).
  A TLS handshake has no deadline of its own: a peer that stalls in it holds up a run without
  `--timeout`.
* *Connection.* At end of file the plaintext of records already fed in the same call is
  dropped (`tls_stream.cpp:93`), so `OnlyAuthorizedInOrder` promises a prefix.
* *Reactor and process.* A timer cancelled by a handler of its own batch still fires
  (`reactor.cpp:205`): `HandlersGetTheirOwn` allows it, and `CountedIsFinal` shows that the
  process manager copes. `signal()` after the reap may reach a reused group number;
  `OwnersKillTheirOwn` is about owning handles.
* *Pipelines.* A fan-in whose source host failed prints an error and, with a successful
  downstream, exits 0 (`fanin_pipeline.cpp:76`, `pipe_command.cpp:300`); `OutcomeSound` is
  about runs without a reported error. `pipe --check` calls a group of several hosts on a
  later stage valid, which a run refuses (`docs/pipelines.md:140`); a group of one host as
  the first stage is refused, since it is then looked up as a host. The producer of
  consumers that all closed is drained for ever. A later segment is started after an
  earlier one failed at once.
* *Output.* The JSON sink drops leading empty lines; a trailing CR may exceed the line
  limit by one; the partial line of an abandoned stage is never printed live; a stream
  whose spill failed refuses the spooled bytes and never reaches its end; a `read()` of the
  spill file that fails returns nothing and poisons nothing, which looks like an end until
  the next read (`spool_buffer.hpp:76`).
* *Authority.* An empty `crl.pem` is read as no CRL; a cut `revoked.txt` loses revocations
  in the next CRL (`RevocationDurable` excludes both); `ca init` overwrites an existing
  authority without a question; nothing locks the directory against a second command.

## 6. Not modelled, and the plan

Not modelled: the frame codec (a sequential parser; frames are atomic in the models), the
parsing of pipelines, YAML, inventories and options, selection by tag, policy matching and
the audit file, argument lists for ssh(1) and passwords, wording of sinks and logs, the
REPL, `hosts`, `diff` and `ping`: text and I/O without ordering of their own. The kqueue
backends, `Process::release`, read errors on a stage's stdout in the DAG, exceptions out of
the process manager, concurrent `ca` commands and the lifetimes of certificates are left
out of modelled parts.

Next, in this order:
1. *Proofs*: the invariants of `DagRunner` and
   `SegmentedPipeline` that do not depend on the planner.
2. *One abstract fan-out* implemented by the native controller and the process manager.
3. *Frame codec*: decoding over arbitrary chunking against a reference.
