------------------------------- MODULE NodeStage -------------------------------
(***************************************************************************)
(* One stage on a node: NodeStageRunner (src/transport/                    *)
(* node_stage_runner.cpp) between the stage's process and pipes on one     *)
(* side and its psx/1 stream on the other, driven by an edge-triggered     *)
(* reactor.  Bytes are counted in units.  The stream is the sending half   *)
(* of Session (credit, the queue behind it, the deferred EXIT); the peer   *)
(* returns credit for what it was sent in any amounts and at any time, as  *)
(* CreditFlow allows.  A handler runs to completion: one action each.      *)
(***************************************************************************)
EXTENDS Naturals, FiniteSets

CONSTANTS
    Window,     \* initialWindow: stream credit and high-water mark
    Chunk,      \* units one read(2) of onReadable returns at most
    PipeCap,    \* units a kernel pipe holds
    Loads       \* what a stage may do: records of the bounds
                \*   output     units it writes per channel
                \*   input      units of stdin the controller sends
                \*   forks      whether it may leave a descendant in its group
                \*   unwatched  the watches that fail in arm()

Channels == {"stdout", "stderr"}
Watches == Channels \cup {"stdin", "child"}
None == 999
Statuses == {0, 1}

ASSUME NodeStageAssumption ==
    /\ Window \in Nat \ {0} /\ Chunk \in Nat \ {0} /\ PipeCap \in Nat \ {0}
    /\ Loads \subseteq [output : Nat, input : Nat, forks : BOOLEAN, unwatched : SUBSET Watches]

VARIABLES
    node,   \* the runner's Stage, its Session::Stream, and the kernel's view of them
    proc,   \* the stage's process group
    conn,   \* the controller connection: "up", "lost" (failed_), "gone" (reaped)
    peer,   \* the controller: stdin it may send and has sent
    load    \* the bounds of this behaviour

vars == <<node, proc, conn, peer, load>>

AllChannels(b) == [ch \in Channels |-> b]

Init ==
    /\ node = [phase |-> "none",                 \* none, live (in stages_), erased
               open |-> AllChannels(FALSE),      \* stdoutOpen, stderrOpen
               interest |-> AllChannels(FALSE),  \* Interest::Readable on the reader
               stdinOpen |-> FALSE, stdinBuffer |-> 0, stdinEndPending |-> FALSE,
               stdinInterest |-> FALSE,          \* Interest::Writable on the writer
               exited |-> FALSE, paused |-> FALSE, status |-> None,
               unwatched |-> {},                 \* watches arm() could not place
               pipe |-> AllChannels(0), stdinPipe |-> 0,
               event |-> [w \in Watches |-> FALSE],  \* readiness not yet dispatched
               streamOpen |-> TRUE, sendBytes |-> 0, sendCredit |-> Window,
               exitPending |-> FALSE, exit |-> None, delivered |-> 0]
    /\ proc = [leader |-> "none", descendant |-> FALSE, status |-> None,
               writing |-> AllChannels(FALSE), reading |-> FALSE,
               written |-> AllChannels(0), read |-> 0]
    /\ conn = "up"
    /\ peer = [credit |-> Window, sent |-> 0, ended |-> FALSE]
    /\ load \in Loads

Minimum(a, b) == IF a < b THEN a ELSE b
CeilDiv(a, b) == (a + b - 1) \div b

-----------------------------------------------------------------------------
\* The stream: Session::flushStream, sendExit and streamWritable for one id.

Flush(s) ==
    LET k == Minimum(s.sendBytes, s.sendCredit)
        exits == k = s.sendBytes /\ s.exitPending
    IN [s EXCEPT !.sendBytes = @ - k, !.sendCredit = @ - k, !.delivered = @ + k,
                 !.streamOpen = @ /\ ~exits,
                 !.exit = IF exits THEN s.status ELSE @]

SendExit(s, status) ==
    Flush([s EXCEPT !.exitPending = TRUE, !.status = status])

StreamWritable(s) == ~s.streamOpen \/ s.sendBytes < Window

-----------------------------------------------------------------------------
\* NodeStageRunner's helpers, on the node record.

\* finishIfDone().  (Mutant: stderr is not waited for.)
FinishIfDoneEarly(s) ==
    IF s.phase = "live" /\ s.exited /\ ~s.open["stdout"]
    THEN [SendExit(s, s.status) EXCEPT !.phase = "erased"] ELSE s
FinishIfDone(s) ==
    IF s.phase = "live" /\ s.exited /\ \A ch \in Channels : ~s.open[ch]
    THEN [SendExit(s, s.status) EXCEPT !.phase = "erased"]
    ELSE s

CloseReader(s, ch) ==
    [s EXCEPT !.open[ch] = FALSE, !.interest[ch] = FALSE, !.event[ch] = FALSE]

\* A reader the kernel would report: bytes to read, or the last writer gone.
\* epoll reports a hangup whatever the interest, and EPOLL_CTL_MOD re-arms it.
Reports(s, ch, enabled) ==
    ~proc.writing[ch] \/ (enabled /\ s.pipe[ch] > 0)

\* setReadInterest().
SetReadInterest(s, enabled) ==
    LET watched == {ch \in Channels : s.open[ch] /\ ch \notin s.unwatched}
    IN [s EXCEPT
          !.interest = [ch \in Channels |-> IF ch \in watched THEN enabled ELSE @[ch]],
          !.event = [w \in Watches |->
                        IF w \in watched THEN Reports(s, w, enabled) ELSE @[w]]]

\* onReadable(): whole chunks are read until the pipe is empty or the stream's
\* queue has reached the high-water mark; the pause returns before finishIfDone.
ReadableUnits(s, ch) ==
    LET room == (Window + s.sendCredit) - Minimum(s.sendBytes, Window)
    IN Minimum(s.pipe[ch], CeilDiv(room, Chunk) * Chunk)

Read(s, ch) ==
    LET units == ReadableUnits(s, ch)
    IN Flush([s EXCEPT !.pipe[ch] = @ - units, !.sendBytes = @ + units])

Pause(s) == [SetReadInterest(s, FALSE) EXCEPT !.paused = TRUE]

\* What onReadable() leaves of s, as a singleton set.
OnReadable(s, ch) ==
    IF s.phase # "live" THEN {s}
    ELSE IF ~StreamWritable(s) THEN {Pause(s)}
    ELSE IF ~s.open[ch] THEN {FinishIfDone(s)}     \* read on a closed handle
    ELSE {IF ~StreamWritable(t)     THEN Pause(t)
          ELSE IF proc.writing[ch]  THEN FinishIfDone(t)
          ELSE FinishIfDone(CloseReader(t, ch)) : t \in {Read(s, ch)}}

\* resumeReads(): both readers are re-armed and drained at once, stdout first.
\* (Mutant: drained without being re-armed.)
RearmedNot(s) == [s EXCEPT !.paused = FALSE]
Rearmed(s) == SetReadInterest([s EXCEPT !.paused = FALSE], TRUE)
ResumeReads(s) ==
    IF s.phase # "live" \/ ~s.paused THEN {s}
    ELSE UNION {OnReadable(t, "stderr") :
                    t \in UNION {OnReadable(r, "stdout") : r \in {Rearmed(s)}}}

CloseStdin(s) ==
    [s EXCEPT !.stdinOpen = FALSE, !.stdinInterest = FALSE, !.event["stdin"] = FALSE]

\* drainStdin(): write what the pipe takes; EPIPE drops the rest; EOF once the
\* buffer is empty.
AtStdinEof(s) == s.stdinBuffer = 0 /\ s.stdinEndPending
DrainStdin(s) ==
    LET units == IF s.stdinOpen THEN Minimum(s.stdinBuffer, PipeCap - s.stdinPipe) ELSE 0
        t == [s EXCEPT !.stdinBuffer = @ - units, !.stdinPipe = @ + units]
    IN IF s.stdinOpen /\ s.stdinBuffer > 0 /\ ~proc.reading
       THEN CloseStdin([s EXCEPT !.stdinBuffer = 0])
       ELSE IF AtStdinEof(t) THEN CloseStdin(t)
       ELSE [t EXCEPT !.stdinInterest =
                t.stdinOpen /\ t.stdinBuffer > 0 /\ "stdin" \notin t.unwatched]

-----------------------------------------------------------------------------
\* Handlers of the runner.

\* onOpen(): refused (127, or 126 with a diagnostic on stderr), or spawned and
\* armed.
OpenRefused ==
    /\ conn = "up" /\ node.phase = "none"
    /\ \E diagnostic \in 0 .. 1 :
          node' = [SendExit(Flush([node EXCEPT !.sendBytes = diagnostic]), 1)
                      EXCEPT !.phase = "erased"]
    /\ UNCHANGED <<proc, conn, peer>>

OpenSpawned ==
    /\ conn = "up" /\ node.phase = "none"
    /\ node' = [node EXCEPT !.phase = "live", !.open = AllChannels(TRUE),
                            !.interest = [ch \in Channels |-> ch \notin load.unwatched],
                            !.stdinOpen = TRUE, !.unwatched = load.unwatched]
    /\ proc' = [proc EXCEPT !.leader = "running", !.writing = AllChannels(TRUE),
                            !.reading = TRUE]
    /\ UNCHANGED <<conn, peer>>

HandleReadable(ch) ==
    /\ conn # "gone" /\ node.event[ch]
    /\ \E s \in {[node EXCEPT !.event[ch] = FALSE]} : node' \in OnReadable(s, ch)
    /\ UNCHANGED <<proc, conn, peer>>

\* Credit goes back to the controller for what left the buffer (consume()).
Consumed(s, t) == s.stdinBuffer - t.stdinBuffer

HandleStdinWritable ==
    /\ conn # "gone" /\ node.event["stdin"] /\ node.phase = "live"
    /\ node' = DrainStdin([node EXCEPT !.event["stdin"] = FALSE])
    /\ peer' = [peer EXCEPT !.credit = @ + Consumed(node, node')]
    /\ UNCHANGED <<proc, conn>>

\* onStageExit(): reap, then finish if both outputs have ended.
\* (Mutant: the outputs are left to finish the stage.)
HandleChildOnly ==
    /\ conn # "gone" /\ node.event["child"] /\ node.phase = "live"
    /\ node' = [node EXCEPT !.event["child"] = FALSE, !.exited = TRUE, !.status = proc.status]
    /\ proc' = [proc EXCEPT !.leader = "reaped"]
    /\ UNCHANGED <<conn, peer>>
HandleChild ==
    /\ conn # "gone" /\ node.event["child"] /\ node.phase = "live"
    /\ node' = FinishIfDone([node EXCEPT !.event["child"] = FALSE, !.exited = TRUE,
                                         !.status = proc.status])
    /\ proc' = [proc EXCEPT !.leader = "reaped"]
    /\ UNCHANGED <<conn, peer>>

\* A WINDOW_UPDATE: more credit, flushStream(), and its streamWritable callback
\* when the queue falls below the mark.
Wakes(s, t) == t.streamOpen /\ s.sendBytes >= Window /\ t.sendBytes < Window

HandleWindowUpdate(k) ==
    /\ conn = "up" /\ node.streamOpen
    /\ k \in 1 .. Window - node.sendCredit
    /\ \E t \in {Flush([node EXCEPT !.sendCredit = @ + k])} :
          node' \in IF Wakes(node, t) THEN ResumeReads(t) ELSE {t}
    /\ UNCHANGED <<proc, conn, peer>>

\* stdin from the controller, within its credit; dropped for a stage that is gone.
HandleData(k, end) ==
    /\ conn = "up" /\ node.phase # "none" /\ ~peer.ended
    /\ k > 0 \/ end
    /\ k <= peer.credit /\ peer.sent + k <= load.input
    /\ IF node.phase = "live"
       THEN LET s == [node EXCEPT !.stdinBuffer = @ + k, !.stdinEndPending = @ \/ end]
            IN /\ node' = DrainStdin(s)
               /\ peer' = [credit |-> peer.credit - k + Consumed(s, node'),
                           sent |-> peer.sent + k, ended |-> end]
       ELSE /\ peer' = [credit |-> peer.credit - k, sent |-> peer.sent + k, ended |-> end]
            /\ UNCHANGED node
    /\ UNCHANGED <<proc, conn>>

ConnectionLost ==
    /\ conn = "up"
    /\ conn' = "lost"
    /\ UNCHANGED <<node, proc, peer>>

\* What ~NodeStageRunner kills.  (Mutant: nothing.)
KillsNothing(s) == FALSE
Kills(s) == s.phase = "live" /\ ~s.exited

\* reap() -> ~NodeStageRunner: unwatch everything, kill the group of a stage
\* that has not exited; the Process destructor then reaps it.
Teardown ==
    /\ conn = "lost"
    /\ conn' = "gone"
    /\ node' = [node EXCEPT !.phase = "erased", !.open = AllChannels(FALSE),
                            !.stdinOpen = FALSE, !.event = [w \in Watches |-> FALSE]]
    /\ proc' = IF Kills(node)
               THEN [proc EXCEPT !.leader = "reaped", !.descendant = FALSE,
                                 !.writing = AllChannels(FALSE), !.reading = FALSE]
               ELSE proc
    /\ UNCHANGED peer

-----------------------------------------------------------------------------
\* The process group (external): what a command may do with its descriptors.

GroupAlive == proc.leader = "running" \/ proc.descendant

\* The other ends of the runner's descriptors in closing go away: EPOLLHUP on a
\* reader, EPOLLERR on the stdin writer, whatever the interest.
HangsUp(s, closing) ==
    LET watched == {w \in closing \ s.unwatched : IF w = "stdin" THEN s.stdinOpen ELSE s.open[w]}
    IN [s EXCEPT !.event = [w \in Watches |-> @[w] \/ w \in watched],
                 !.stdinPipe = IF "stdin" \in closing THEN 0 ELSE @]

ProcessWrites(ch, k) ==
    /\ GroupAlive /\ proc.writing[ch]
    /\ node.phase = "live"
    /\ k \in 1 .. PipeCap - node.pipe[ch]
    /\ proc.written[ch] + k <= load.output
    /\ proc' = [proc EXCEPT !.written[ch] = @ + k]
    /\ node' = [node EXCEPT !.pipe[ch] = @ + k,
                            !.event[ch] = @ \/ node.interest[ch]]
    /\ UNCHANGED <<conn, peer>>

ProcessClosesOutput(ch) ==
    /\ GroupAlive /\ proc.writing[ch]
    /\ proc' = [proc EXCEPT !.writing[ch] = FALSE]
    /\ node' = HangsUp(node, {ch})
    /\ UNCHANGED <<conn, peer>>

ProcessReadsStdin(k) ==
    /\ GroupAlive /\ proc.reading
    /\ k \in 1 .. node.stdinPipe
    /\ proc' = [proc EXCEPT !.read = @ + k]
    /\ node' = [node EXCEPT !.stdinPipe = @ - k,
                            !.event["stdin"] = @ \/ node.stdinInterest]
    /\ UNCHANGED <<conn, peer>>

ProcessClosesStdin ==
    /\ GroupAlive /\ proc.reading
    /\ proc' = [proc EXCEPT !.reading = FALSE]
    /\ node' = HangsUp(node, {"stdin"})
    /\ UNCHANGED <<conn, peer>>

ProcessForks ==
    /\ load.forks /\ proc.leader = "running" /\ ~proc.descendant
    /\ proc' = [proc EXCEPT !.descendant = TRUE]
    /\ UNCHANGED <<node, conn, peer>>

\* When its last member goes, the group's descriptors close.
GroupEnds(p) == [p EXCEPT !.writing = AllChannels(FALSE), !.reading = FALSE]
GroupHangsUp(s) ==
    HangsUp(s, {ch \in Channels : proc.writing[ch]}
               \cup (IF proc.reading THEN {"stdin"} ELSE {}))

LeaderExits(status) ==
    /\ proc.leader = "running"
    /\ LET p == [proc EXCEPT !.leader = "zombie", !.status = status]
           s == [node EXCEPT !.event["child"] =
                    node.phase = "live" /\ "child" \notin node.unwatched]
       IN IF proc.descendant
          THEN proc' = p /\ node' = s
          ELSE proc' = GroupEnds(p) /\ node' = GroupHangsUp(s)
    /\ UNCHANGED <<conn, peer>>

DescendantExits ==
    /\ proc.descendant
    /\ LET p == [proc EXCEPT !.descendant = FALSE]
       IN IF proc.leader = "running"
          THEN proc' = p /\ UNCHANGED node
          ELSE proc' = GroupEnds(p) /\ node' = GroupHangsUp(node)
    /\ UNCHANGED <<conn, peer>>

-----------------------------------------------------------------------------
Handlers ==
    \/ \E ch \in Channels : HandleReadable(ch)
    \/ HandleStdinWritable \/ HandleChild

Environment ==
    \/ \E ch \in Channels :
          ProcessClosesOutput(ch) \/ \E k \in 1 .. PipeCap : ProcessWrites(ch, k)
    \/ \E k \in 1 .. PipeCap : ProcessReadsStdin(k)
    \/ ProcessClosesStdin \/ ProcessForks \/ DescendantExits
    \/ \E status \in Statuses : LeaderExits(status)

Step ==
    \/ OpenRefused \/ OpenSpawned
    \/ Handlers
    \/ \E k \in 1 .. Window : HandleWindowUpdate(k)
    \/ \E k \in 0 .. load.input, end \in BOOLEAN : HandleData(k, end)
    \/ ConnectionLost \/ Teardown
    \/ Environment

Next == Step /\ UNCHANGED load

Spec == Init /\ [][Next]_vars

\* The reactor dispatches what the kernel reports, and the controller, which
\* consumes output as it arrives, keeps granting credit.  Nothing is assumed of
\* the command.
FairSpec ==
    /\ Spec
    /\ \A ch \in Channels : WF_vars(HandleReadable(ch) /\ UNCHANGED load)
    /\ WF_vars(HandleStdinWritable /\ UNCHANGED load)
    /\ WF_vars(HandleChild /\ UNCHANGED load)
    /\ WF_vars((\E k \in 1 .. Window : HandleWindowUpdate(k)) /\ UNCHANGED load)

-----------------------------------------------------------------------------
TypeOK ==
    /\ node.phase \in {"none", "live", "erased"}
    /\ node.sendBytes \in 0 .. 2 * load.output /\ node.sendCredit \in 0 .. Window
    /\ node.pipe \in [Channels -> 0 .. PipeCap] /\ node.stdinPipe \in 0 .. PipeCap
    /\ node.stdinBuffer \in 0 .. Window
    /\ node.exit \in Statuses \cup {None}
    /\ node.event \in [Watches -> BOOLEAN]
    /\ proc.leader \in {"none", "running", "zombie", "reaped"}
    /\ conn \in {"up", "lost", "gone"}
    /\ peer.credit \in 0 .. Window
    /\ load \in Loads

\* EXIT carries the stage's status and comes after everything the stage wrote
\* to either channel: neither the pipes, nor the pause, nor the queue hold any.
ExitAfterAllOutput ==
    (node.exit # None /\ proc.leader # "none") =>
        /\ node.exit = proc.status
        /\ node.delivered = proc.written["stdout"] + proc.written["stderr"]

\* Backpressure bounds what a stage can make the node hold: less than one
\* read past the high-water mark, however long the controller withholds credit.
QueueBounded == node.sendBytes < Window + Chunk

\* No lost wake-up: output (or EOF) waiting in a pipe that the reactor watches is
\* either announced by an undispatched event, or reads are paused and the queue is
\* still full, so that the WINDOW_UPDATE that drains it will resume them.
NoLostWakeup ==
    /\ (node.phase = "live" /\ node.paused) => node.sendBytes >= Window
    /\ \A ch \in Channels :
          (node.phase = "live" /\ node.open[ch] /\ ch \notin node.unwatched
              /\ Reports(node, ch, TRUE))
              => node.event[ch] \/ node.paused

\* A stage that reads its stdin to the end has been given all of it: the runner
\* closes the pipe only after the last unit went in.
StdinEofAfterInput ==
    (node.phase = "live" /\ ~node.stdinOpen /\ proc.reading) =>
        peer.ended /\ proc.read + node.stdinPipe = peer.sent

\* stdin credit is never lost while the stage lives: what the controller may
\* not send is what the node still buffers.
StdinCreditConserved ==
    node.phase = "live" => peer.credit + node.stdinBuffer = Window

\* A lost connection leaves no stage behind: its leader is dead once torn down.
Fenced == conn = "gone" => proc.leader # "running"

\* "The node terminates a stream with exactly one EXIT" (docs/wire_protocol.md):
\* once all of a stage's processes are gone its EXIT is sent, unless the
\* connection is lost first (or arm() could not watch the stage at all: its
\* result is not looked at).
StageExitReported ==
    (node.phase = "live" /\ node.unwatched = {}
        /\ proc.leader # "running" /\ ~proc.descendant)
        ~> (node.exit # None \/ conn # "up")

\* What the runner owes the stage and its controller, whatever the order of
\* reads, credit, exit and stdin: nothing written is lost or overtaken by EXIT,
\* the queue stays bounded, stdin is whole before its EOF and its credit is
\* returned (onReadable, finishIfDone and drainStdin of node_stage_runner.cpp).
StageInv ==
    /\ TypeOK
    /\ ExitAfterAllOutput /\ QueueBounded
    /\ StdinEofAfterInput /\ StdinCreditConserved
=============================================================================
