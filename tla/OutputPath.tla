----------------------------- MODULE OutputPath -----------------------------
(***************************************************************************)
(* The way of a stage's output from its pipe (or its psx/1 stream) to the  *)
(* terminal: capture under an overflow policy, line framing, and the sink  *)
(* chosen on the command line, across the retries of a stage.              *)
(*                                                                         *)
(* A live sink gets framed lines as chunks arrive.  A buffering sink gets  *)
(* them once, at the end, framed again from what capture retained.         *)
(*                                                                         *)
(* A byte is a record [c, n]: its class (an ordinary byte, LF or CR) and   *)
(* its number in the stage's output, counted across attempts, so that a    *)
(* byte of a superseded attempt is recognised wherever it turns up.        *)
(***************************************************************************)
EXTENDS ByteStream

CONSTANTS
    Runs        \* the runs to try: records [hosts, native, sink, ordered, policy,
                \* cap, maxLine, maxRetries, chunks, maxBytes]

VARIABLES
    setting,    \* the run under way (a member of Runs)
    stage,      \* stage[h]: the Worker of process_manager.cpp, or the Conn of the controller
    sink,       \* [buffers, printed]: what the sink holds and what it wrote
    made        \* made[h]: what the stage wrote: bytes of this attempt and their count over all
                \* attempts, how many lines earlier attempts printed, whether it was reported, and
                \* whether the disk gave back on a channel all it accepted in this attempt (clean)

outputVars == <<setting, stage, sink, made>>

\* Hosts are numbered; a cap of zero is no cap; a chunk is a sequence of byte classes.
ASSUME RunsAssumption ==
    \A r \in Runs :
        /\ {r.hosts, r.cap, r.maxRetries, r.maxBytes} \subseteq Nat
        /\ r.policy \in Policies
        /\ \A classes \in r.chunks : classes \in Seq({"x", "LF", "CR"})

Channels == {"out", "err"}
Hosts == 1 .. setting.hosts

-----------------------------------------------------------------------------
(* LineFramer                                                              *)

FreshFramer == [pending |-> <<>>, cr |-> <<>>]   \* cr: the CR held back, if any

\* f also carries the lines emitted so far in this call.
pushData(f, byte) ==
    IF Len(f.pending) = setting.maxLine
    THEN [f EXCEPT !.lines = Append(@, f.pending), !.pending = <<byte>>]
    ELSE [f EXCEPT !.pending = Append(@, byte)]

emitPending(f) == [f EXCEPT !.lines = Append(@, f.pending), !.pending = <<>>]

\* mutant: a CR is judged by the chunk it came in, not by the next byte
pushByteEagerCr(f, byte) ==
    CASE byte.c = "LF" -> emitPending(f)
      [] OTHER         -> pushData(f, byte)

pushByte(f, byte) ==
    LET held == f.cr # <<>>
        bare == IF held THEN pushData([f EXCEPT !.cr = <<>>], f.cr[1]) ELSE f
    IN  CASE byte.c = "LF" -> IF held THEN emitPending([f EXCEPT !.cr = <<>>]) ELSE emitPending(f)
          [] byte.c = "CR" -> [bare EXCEPT !.cr = <<byte>>]
          [] OTHER         -> pushData(bare, byte)

push(framer, data) ==
    FoldLeft(pushByte, [pending |-> framer.pending, cr |-> framer.cr, lines |-> <<>>], data)

\* At the end of the stream a held CR is an ordinary byte; it is not cut.
flush(framer) ==
    LET rest == framer.pending \o framer.cr
    IN  IF rest = <<>> THEN <<>> ELSE <<rest>>

Framer(f) == [pending |-> f.pending, cr |-> f.cr]

\* A fresh framer over all the retained bytes: what a buffering sink is given.
replay(bytes) == LET f == push(FreshFramer, bytes) IN f.lines \o flush(f)

-----------------------------------------------------------------------------
(* Capture                                                                 *)

FreshStage ==
    [running |-> FALSE, attempt |-> 0, dropped |-> 0, done |-> FALSE,
     ring |-> [c \in Channels |-> <<>>], spool |-> [c \in Channels |-> FreshSpool],
     framer |-> [c \in Channels |-> FreshFramer], closed |-> [c \in Channels |-> FALSE],
     result |-> [c \in Channels |-> <<>>]]

OutputCap == IF setting.policy = "Block" THEN 0 ELSE setting.cap

\* Captured gives the stage after a chunk, and whether the disk lost bytes of
\* an earlier one.
Captured(w, lost) == [stage |-> w, lost |-> lost]

captureNewest(w, c, data) ==
    LET retained == Min({OutputCap - Len(w.ring[c]), Len(data)})
    IN  Captured([w EXCEPT !.ring[c] = @ \o SubSeq(data, 1, retained), !.dropped = @ + Len(data) - retained],
                 FALSE)

\* The (at most two) writes of a spill: the file after, and how many of the
\* bytes were refused.
Spilled(file, first, second) ==
    UNION {{[spool |-> b.spool, lost |-> a.lost \/ b.lost,
             refused |-> (IF a.ok THEN 0 ELSE Len(first)) + (IF b.ok THEN 0 ELSE Len(second))]
               : b \in spoolAppend(a.spool, second)} : a \in spoolAppend(file, first)}

\* DropOldest and Spool: the ring keeps the newest bytes; older ones, first of
\* the ring and then of the chunk, are counted as dropped or spilled to disk.
captureTail(w, c, data) ==
    LET overflow == Max({0, Len(data) - (OutputCap - Len(w.ring[c]))})
        fromRing == Min({overflow, Len(w.ring[c])})
        fromData == overflow - fromRing
        spills == IF setting.policy = "Spool"
                  THEN Spilled(w.spool[c], SubSeq(w.ring[c], 1, fromRing), SubSeq(data, 1, fromData))
                  ELSE {[spool |-> w.spool[c], lost |-> FALSE, refused |-> overflow]}
    IN  {Captured([w EXCEPT !.ring[c] = SubSeq(@, fromRing + 1, Len(@)) \o SubSeq(data, fromData + 1, Len(data)),
                            !.spool[c] = s.spool, !.dropped = @ + s.refused],
                  s.lost) : s \in spills}

capture(w, c, data) ==
    CASE OutputCap = 0 -> {Captured([w EXCEPT !.ring[c] = @ \o data], FALSE)}
      [] OutputCap > 0 /\ setting.policy = "DropNewest" -> {captureNewest(w, c, data)}
      [] OutputCap > 0 /\ setting.policy # "DropNewest" -> captureTail(w, c, data)

\* The older bytes are read back from disk, once, in front of the ring's.
ReadBack(w) ==
    {back \in [Channels -> UNION {readAll(w.spool[c]) : c \in Channels}] :
        \A c \in Channels : back[c] \in readAll(w.spool[c])}

withResult(w, back) ==
    [w EXCEPT !.result = [c \in Channels |-> IF spoolEmpty(w.spool[c]) THEN w.ring[c]
                                             ELSE back[c].out \o w.ring[c]]]

\* mutant: the spill file survives into the next attempt
resetKeepsSpool(w) == [FreshStage EXCEPT !.attempt = w.attempt + 1, !.spool = w.spool]

resetForRetry(w) == [FreshStage EXCEPT !.attempt = w.attempt + 1]

-----------------------------------------------------------------------------
(* The sinks.  A line event is [host, channel, text]; a sink's output is   *)
(* the sequence of blocks it wrote, each [host, out, err] or a live line.  *)

streamsLive == setting.sink = "stream" /\ ~setting.ordered

Line(h, c, text) == [host |-> h, channel |-> c, text |-> text]
Lines(h, c, texts) == [k \in DOMAIN texts |-> Line(h, c, texts[k])]
TextsOf(events, h, c) ==
    LET mine == SelectSeq(events, LAMBDA e : e.host = h /\ e.channel = c)
    IN  [k \in DOMAIN mine |-> mine[k].text]

FreshSink == [buffers |-> [h \in Hosts |-> <<>>], printed |-> <<>>]

\* stageStarted(): a buffering sink forgets the stage's earlier attempt.
sinkStageStarted(s, h) == IF streamsLive THEN s ELSE [s EXCEPT !.buffers[h] = <<>>]

sinkLines(s, h, c, texts) ==
    IF streamsLive THEN [s EXCEPT !.printed = @ \o Lines(h, c, texts)]
    ELSE [s EXCEPT !.buffers[h] = @ \o Lines(h, c, texts)]

\* A stage's block: GroupSink and JsonSink separate the channels; the group
\* format prints the normalised error in place of the raw stderr.
groupBlock(s, h, failed) ==
    [host |-> h, failed |-> failed, out |-> TextsOf(s.buffers[h], h, "out"),
     err |-> IF failed THEN <<>> ELSE TextsOf(s.buffers[h], h, "err")]

\* A text is extended by a newline and the line, but an empty text by the line
\* alone, so the empty lines before the first non-empty one are not kept.
Newline == [c |-> "LF", n |-> 0]
appendLine(text, line) == IF text = <<>> THEN line ELSE text \o <<Newline>> \o line
jsonText(texts) == FoldLeft(appendLine, <<>>, texts)
jsonBlock(s, h, failed) ==
    [host |-> h, failed |-> failed, out |-> jsonText(TextsOf(s.buffers[h], h, "out")),
     err |-> jsonText(TextsOf(s.buffers[h], h, "err"))]

\* stageFinished() of the group and json sinks prints the block and forgets it;
\* the ordered and consensus sinks print nothing before the run has finished.
sinkStageFinished(s, h, failed) ==
    IF setting.ordered \/ setting.sink \in {"consensus", "stream"} THEN s
    ELSE [s EXCEPT !.printed = Append(@, IF setting.sink = "json" THEN jsonBlock(s, h, failed)
                                         ELSE groupBlock(s, h, failed)),
                   !.buffers[h] = <<>>]

\* consensus(): hosts grouped by equal stdout, the largest group first.  A
\* host's output is compared by its text, here the classes of its bytes.
Text(texts) == [k \in DOMAIN texts |-> [i \in DOMAIN texts[k] |-> texts[k][i].c]]
StdoutText(s, h) == Text(TextsOf(s.buffers[h], h, "out"))
Buckets(s) == {{g \in Hosts : StdoutText(s, g) = StdoutText(s, h)} : h \in Hosts}
\* mutant: the groups are left in the map's order, by output and not by size
consensusUnranked(s) == SetToSeq(Buckets(s))
consensus(s) == SetToSortSeq(Buckets(s), LAMBDA a, b : Cardinality(a) > Cardinality(b))

\* OrderedSink::runFinished() replays every stage, in the order of the names,
\* into the sink it wraps; the consensus sink reports its groups.
InOrder == [h \in Hosts |-> h]
replayInto(s, failures, h) ==
    LET inner == IF setting.sink = "stream"
                 THEN s.buffers[h]
                 ELSE <<IF setting.sink = "json" THEN jsonBlock(s, h, h \in failures)
                        ELSE groupBlock(s, h, h \in failures)>>
    IN  [s EXCEPT !.printed = @ \o inner]

sinkRunFinished(s, failures) ==
    CASE setting.sink = "consensus" -> [s EXCEPT !.printed = Append(@, consensus(s))]
      [] setting.sink # "consensus" /\ setting.ordered
            -> FoldLeft(LAMBDA acc, h : replayInto(acc, failures, h), s, InOrder)
      [] OTHER -> s

-----------------------------------------------------------------------------
(* The run                                                                 *)

OutputInit ==
    /\ setting \in Runs
    /\ stage = [h \in Hosts |-> FreshStage]
    /\ sink = FreshSink
    /\ made = [h \in Hosts |-> [count |-> 0, bytes |-> [c \in Channels |-> <<>>],
                                earlier |-> [c \in Channels |-> 0], reported |-> FALSE,
                                clean |-> [c \in Channels |-> TRUE]]]

\* arm(): an attempt starts (process manager); a native target is announced at once.
stageStarted(h) ==
    /\ ~stage[h].running /\ ~stage[h].done
    /\ stage' = [stage EXCEPT ![h].running = TRUE]
    /\ sink' = sinkStageStarted(sink, h)
    /\ UNCHANGED <<setting, made>>

Numbered(h, classes) == [k \in DOMAIN classes |-> [c |-> classes[k], n |-> made[h].count + k]]

\* The framer of the host's channel after a chunk, with the lines it completes;
\* only a live sink has its lines framed now.
onOutput(h, c, data) ==
    IF streamsLive THEN push(stage[h].framer[c], data) ELSE push(stage[h].framer[c], <<>>)

\* A chunk arrives on a channel: it is captured and its lines handed on.
receiveChunk(h, c, data) ==
    LET f == onOutput(h, c, data)
    IN  \E after \in capture(stage[h], c, data) :
          /\ stage' = [stage EXCEPT ![h] = [after.stage EXCEPT !.framer[c] = Framer(f)]]
          /\ sink' = sinkLines(sink, h, c, f.lines)
          /\ made' = [made EXCEPT ![h].count = @ + Len(data), ![h].bytes[c] = @ \o data,
                                  ![h].clean[c] = @ /\ ~after.lost]
          /\ UNCHANGED setting

Chunk(h, c) ==
    {Numbered(h, classes) : classes \in {d \in setting.chunks : made[h].count + Len(d) <= setting.maxBytes}}

\* WorkerRun::onReadable, one read() of its loop.
onReadable(h, c) ==
    /\ ~setting.native /\ stage[h].running /\ ~stage[h].closed[c]
    /\ \E data \in Chunk(h, c) : receiveChunk(h, c, data)

\* NativeController::Conn::onData and the OnOutput callback of runNativeCommand.
onData(h, c) ==
    /\ setting.native /\ stage[h].running
    /\ \E data \in Chunk(h, c) : receiveChunk(h, c, data)

\* The end of a stream releases the partial line.
endOfStream(h, c) ==
    /\ ~setting.native /\ stage[h].running /\ ~stage[h].closed[c]
    /\ stage' = [stage EXCEPT ![h].closed[c] = TRUE, ![h].framer[c] = FreshFramer]
    /\ sink' = IF streamsLive THEN sinkLines(sink, h, c, flush(stage[h].framer[c])) ELSE sink
    /\ UNCHANGED <<setting, made>>

BothClosed(h) == \A c \in Channels : stage[h].closed[c]

\* onRetry(): the attempt's state is wiped; the worker waits to be spawned again.
retry(h) ==
    /\ stage[h].running /\ BothClosed(h) /\ stage[h].attempt < setting.maxRetries
    /\ stage' = [stage EXCEPT ![h] = resetForRetry(stage[h])]
    /\ made' = [made EXCEPT ![h].earlier = [c \in Channels |-> Len(TextsOf(sink.printed, h, c))],
                            ![h].bytes = [c \in Channels |-> <<>>],
                            ![h].clean = [c \in Channels |-> TRUE]]
    /\ UNCHANGED <<setting, sink>>

Cleanly(m, back) == [m EXCEPT !.clean = [c \in Channels |-> @[c] /\ back[c].ok]]

\* The stage is over: counted with its streams closed, or (process manager)
\* abandoned when the drain grace expires, whose partial lines nobody flushes;
\* a native stage ends with its exit or with its connection, and its result is
\* put together at once (Conn::finish).
stageOver(h) ==
    /\ stage[h].running
    /\ setting.native \/ BothClosed(h)
    /\ \E back \in ReadBack(stage[h]) :
          LET over == [stage[h] EXCEPT !.running = FALSE, !.done = TRUE]
          IN  IF setting.native
              THEN /\ stage' = [stage EXCEPT ![h] = withResult(over, back)]
                   /\ made' = [made EXCEPT ![h] = Cleanly(@, back)]
              ELSE /\ stage' = [stage EXCEPT ![h] = over]
                   /\ UNCHANGED made
    /\ UNCHANGED <<setting, sink>>

abandon(h) ==
    /\ ~setting.native /\ stage[h].running /\ ~BothClosed(h)
    /\ stage' = [stage EXCEPT ![h].running = FALSE, ![h].done = TRUE]
    /\ UNCHANGED <<setting, sink, made>>

\* One stage's part of the end of the run: a buffering sink is given the
\* bytes of the result line by line, a native live one the partial lines.
reportStage(s, h, w, failures) ==
    LET texts(c) == CASE ~streamsLive -> replay(w.result[c])
                      [] streamsLive /\ setting.native -> flush(w.framer[c])
                      [] OTHER -> <<>>
    IN  sinkStageFinished(sinkLines(sinkLines(s, h, "out", texts("out")), h, "err", texts("err")),
                          h, h \in failures)

\* What executeRemote() puts together after the reactor returned: every
\* worker's result; a native stage has its own already.
Results ==
    {backs \in [Hosts -> UNION {ReadBack(stage[h]) : h \in Hosts}] :
        \A h \in Hosts : backs[h] \in ReadBack(stage[h])}

assemble(backs) ==
    IF setting.native THEN UNCHANGED stage
    ELSE stage' = [h \in Hosts |-> withResult(stage[h], backs[h])]

\* executeRemote() after the reactor returned, and finishResults() of the native run.
runFinished ==
    /\ \A h \in Hosts : stage[h].done /\ ~made[h].reported
    /\ \E backs \in Results :
          /\ assemble(backs)
          /\ made' = [h \in Hosts |-> [(IF setting.native THEN made[h] ELSE Cleanly(made[h], backs[h]))
                                          EXCEPT !.reported = TRUE]]
    /\ \E failures \in SUBSET Hosts :
          sink' = sinkRunFinished(FoldLeft(LAMBDA s, h : reportStage(s, h, stage'[h], failures), sink, InOrder),
                                  failures)
    /\ UNCHANGED setting

OutputNext ==
    \/ \E h \in Hosts : stageStarted(h) \/ retry(h) \/ stageOver(h) \/ abandon(h)
    \/ \E h \in Hosts, c \in Channels : onReadable(h, c) \/ onData(h, c) \/ endOfStream(h, c)
    \/ runFinished

OutputSpec == OutputInit /\ [][OutputNext]_outputVars

-----------------------------------------------------------------------------
(* What the output path promises                                           *)

\* Line splitting by definition: cut at every LF, take one CR off the end of a
\* terminated line, cut what is longer than maxLine.
LineEnds(bytes) == {i \in DOMAIN bytes : bytes[i].c = "LF"}
Chomp(seg) == IF seg # <<>> /\ Last(seg).c = "CR" THEN Front(seg) ELSE seg
Pieces(seg) ==
    [k \in 1 .. Max({1, (Len(seg) + setting.maxLine - 1) \div setting.maxLine}) |->
        SubSeq(seg, (k - 1) * setting.maxLine + 1, Min({k * setting.maxLine, Len(seg)}))]
Segment(bytes, end) ==
    SubSeq(bytes, Max({0} \cup {i \in LineEnds(bytes) : i < end}) + 1, end - 1)
Terminated(bytes) ==
    FoldLeft(LAMBDA acc, end : acc \o Pieces(Chomp(Segment(bytes, end))), <<>>,
             SetToSortSeq(LineEnds(bytes), <))
Tail0(bytes) == Segment(bytes, Len(bytes) + 1)
\* A CR that ends the output stays with the last piece.
Unterminated(bytes) ==
    LET rest == Tail0(bytes)
        body == Pieces(Chomp(rest))
    IN  IF rest = <<>> THEN <<>>
        ELSE Front(body) \o <<Last(body) \o SubSeq(rest, Len(Chomp(rest)) + 1, Len(rest))>>
LinesOf(bytes) == Terminated(bytes) \o Unterminated(bytes)

\* Lines as one text: from the first non-empty one on, a newline between two.
Joined(texts) ==
    LET first == Min({k \in DOMAIN texts : texts[k] # <<>>} \cup {Len(texts) + 1})
        kept == SubSeq(texts, first, Len(texts))
    IN  FlattenSeq([k \in DOMAIN kept |-> IF k = 1 THEN kept[k] ELSE <<Newline>> \o kept[k]])

\* the lines of the current attempt a live sink has printed
LiveLines(h, c) ==
    LET all == TextsOf(sink.printed, h, c) IN SubSeq(all, made[h].earlier[c] + 1, Len(all))

Reported == \A h \in Hosts : made[h].reported

\* the bytes of a channel that are in memory, or were accepted by the spill file
Accepted(w, c) == w.spool[c].size + Len(w.ring[c])

\* A channel's result: a first part of the bytes the file accepted, which are the
\* oldest, then the ring's, the newest; all the file accepted unless the disk failed.
ResultExact(w, c, bytes, clean) ==
    \E k \in 0 .. w.spool[c].size :
        /\ w.result[c] = SubSeq(bytes, 1, k) \o w.ring[c]
        /\ clean => k = w.spool[c].size

(***************************************************************************)
(* Every byte of the current attempt, and none of an earlier one, is in    *)
(* memory, was accepted by the spill file or is counted as dropped, a      *)
(* failing spill included; memory stays within the cap and holds what the  *)
(* policy says, the oldest or the newest part, and all of it without a     *)
(* cap; Spool drops nothing before a spill was refused.  The result of a   *)
(* stage is the part the file accepted followed by the part in memory.  A  *)
(* disk that fails after accepting bytes shortens the first part, and only *)
(* that (process_manager.cpp capture, resetForRetry and executeRemote,     *)
(* native_controller.cpp onData and finish, spool_buffer.hpp append and    *)
(* readAll).                                                               *)
(***************************************************************************)
OutputAccounted ==
    \A h \in Hosts :
        LET w == stage[h]
            bytes(c) == made[h].bytes[c]
        IN  /\ Accepted(w, "out") + Accepted(w, "err") + w.dropped = Len(bytes("out")) + Len(bytes("err"))
            /\ \A c \in Channels :
                  /\ OutputCap > 0 => Len(w.ring[c]) <= OutputCap
                  /\ OutputCap = 0 => w.ring[c] = bytes(c)
                  /\ (setting.policy = "Spool" /\ ~w.spool[c].failed) => Accepted(w, c) = Len(bytes(c))
                  /\ IF setting.policy = "DropNewest" THEN IsPrefix(w.ring[c], bytes(c))
                     ELSE IsSuffix(w.ring[c], bytes(c))
                  /\ made[h].reported => ResultExact(w, c, bytes(c), made[h].clean[c])

(***************************************************************************)
(* "On any I/O failure it reports false and the caller falls back (drops   *)
(* the bytes), so spooling can never corrupt the run" (spool_buffer.hpp:16 *)
(* to 18), with droppedBytes as the count of what is missing: the bytes of *)
(* a reported result and the dropped ones are all the stage wrote.         *)
(***************************************************************************)
LossIsCounted ==
    \A h \in Hosts :
        made[h].reported =>
            Len(stage[h].result["out"]) + Len(stage[h].result["err"]) + stage[h].dropped
                = Len(made[h].bytes["out"]) + Len(made[h].bytes["err"])

(***************************************************************************)
(* However the output was cut into chunks, a live sink prints the lines of *)
(* the attempt's bytes: always a prefix of them that misses no terminated  *)
(* line, and all of them once the stream ended, partial last line included *)
(* (line_framer.cpp push/flush, process_manager.cpp onReadable,            *)
(* run_command.cpp onOutput and finishResults).                            *)
(***************************************************************************)
LiveLinesExact ==
    streamsLive =>
        \A h \in Hosts, c \in Channels :
            LET bytes == made[h].bytes[c]
            IN  /\ IsPrefix(LiveLines(h, c), LinesOf(bytes))
                /\ Len(LiveLines(h, c)) >= Len(Terminated(bytes))
                /\ stage[h].closed[c] \/ (setting.native /\ Reported)
                      => LiveLines(h, c) = LinesOf(bytes)

(***************************************************************************)
(* At the end of the run a buffering sink has printed one block per stage, *)
(* in the order of the stages, with the lines of the result of the last    *)
(* attempt on each channel (the group format shows the error instead       *)
(* of stderr, the json text has no leading empty lines); the consensus     *)
(* sink prints one report whose groups cover every host once, the largest  *)
(* first (process_manager.cpp executeRemote, the sinks).                   *)
(***************************************************************************)
ReportComplete ==
    (Reported /\ ~streamsLive) =>
        CASE setting.sink = "group" ->
                /\ Len(sink.printed) = setting.hosts
                /\ \A h \in Hosts :
                      LET block == sink.printed[h]
                      IN  /\ block.host = h
                          /\ block.out = LinesOf(stage[h].result["out"])
                          /\ ~block.failed => block.err = LinesOf(stage[h].result["err"])
          [] setting.sink = "json" ->
                /\ Len(sink.printed) = setting.hosts
                /\ \A h \in Hosts :
                      LET block == sink.printed[h]
                      IN  /\ block.host = h
                          /\ block.out = Joined(LinesOf(stage[h].result["out"]))
                          /\ block.err = Joined(LinesOf(stage[h].result["err"]))
          [] setting.sink = "stream" ->
                \A h \in Hosts, c \in Channels :
                    TextsOf(sink.printed, h, c) = LinesOf(stage[h].result[c])
          [] setting.sink = "consensus" ->
                /\ Len(sink.printed) = 1
                /\ \A i, j \in DOMAIN sink.printed[1] :
                      i < j => Cardinality(sink.printed[1][i]) >= Cardinality(sink.printed[1][j])
                /\ \A h, g \in Hosts :
                      Text(LinesOf(stage[h].result["out"])) = Text(LinesOf(stage[g].result["out"]))
                      <=> \E i \in DOMAIN sink.printed[1] : {h, g} \subseteq sink.printed[1][i]
=============================================================================
