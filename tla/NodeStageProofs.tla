---------------------------- MODULE NodeStageProofs ----------------------------
(***************************************************************************)
(* A stage on a node, for every window, chunk and pipe size and every load *)
(* a command may put on it: all output precedes EXIT, the queue is bounded,*)
(* no wake-up is lost, stdin is whole before its EOF, and no stage survives*)
(* its connection.                                                         *)
(***************************************************************************)
EXTENDS NodeStage, TLAPS

Exits == Statuses \cup {None}

Stage ==
    [phase : {"none", "live", "erased"},
     open : [Channels -> BOOLEAN], interest : [Channels -> BOOLEAN],
     stdinOpen : BOOLEAN, stdinBuffer : Nat, stdinEndPending : BOOLEAN, stdinInterest : BOOLEAN,
     exited : BOOLEAN, paused : BOOLEAN, status : Exits, unwatched : SUBSET Watches,
     pipe : [Channels -> Nat], stdinPipe : Nat, event : [Watches -> BOOLEAN],
     streamOpen : BOOLEAN, sendBytes : Nat, sendCredit : Nat, exitPending : BOOLEAN,
     exit : Exits, delivered : Nat]

Group ==
    [leader : {"none", "running", "zombie", "reaped"}, descendant : BOOLEAN, status : Exits,
     writing : [Channels -> BOOLEAN], reading : BOOLEAN, written : [Channels -> Nat], read : Nat]

Typed ==
    /\ node \in Stage /\ proc \in Group
    /\ conn \in {"up", "lost", "gone"}
    /\ peer \in [credit : Nat, sent : Nat, ended : BOOLEAN]
    /\ load \in Loads

-----------------------------------------------------------------------------
(* The invariant, part by part, of a stage record s of the process group proc. *)

\* The stream: EXIT is pending exactly from finishIfDone() on, and leaves when the
\* queue is empty.
StreamOk(s) ==
    /\ s.sendCredit <= Window
    /\ s.sendBytes < Window + Chunk
    /\ s.phase = "live" => ~s.exitPending
    /\ ~s.exitPending => s.streamOpen /\ s.exit = None
    /\ s.exitPending => /\ s.phase = "erased"
                        /\ s.sendBytes = 0 => ~s.streamOpen /\ s.exit = s.status
                        /\ s.sendBytes # 0 => s.streamOpen /\ s.exit = None

\* Every unit the stage wrote is delivered, queued or still in its pipe.
Conserved(s, p) ==
    p.leader # "none" =>
        s.delivered + s.sendBytes + s.pipe["stdout"] + s.pipe["stderr"]
            = p.written["stdout"] + p.written["stderr"]

\* A reader closes at end of file only, and EXIT waits for both.
ReadersOk(s, p) ==
    /\ \A ch \in Channels : s.pipe[ch] <= PipeCap
    /\ s.phase = "live" => \A ch \in Channels : ~s.open[ch] => ~p.writing[ch] /\ s.pipe[ch] = 0
    /\ (s.exitPending /\ p.leader # "none") => \A ch \in Channels : s.pipe[ch] = 0

\* Reads are paused only behind a full queue.
PausedFull(s) == (s.phase = "live" /\ s.paused) => s.sendBytes >= Window

\* A watched reader that is not paused is armed, and what it holds is announced.
Waits(s, ch) == s.phase = "live" /\ s.open[ch] /\ ch \notin s.unwatched /\ ~s.paused
Armed(s, ch) == Waits(s, ch) => s.interest[ch]
Announced(s, ch) == (Waits(s, ch) /\ Reports(s, ch, TRUE)) => s.event[ch]

\* Where the process is in its life, and what the runner knows of it.
LifeOk(s, p) ==
    /\ p.leader = "none" =>
          /\ s.sendBytes = 0 /\ s.phase # "live"
          /\ ~p.descendant /\ ~p.reading /\ \A ch \in Channels : ~p.writing[ch]
    /\ s.phase = "none" => p.leader = "none"
    /\ s.phase = "erased" => p.leader \in {"none", "reaped"}
    /\ s.phase = "live" => (s.exited <=> p.leader = "reaped")
    /\ ((s.exited \/ s.exitPending) /\ p.leader # "none") => s.status = p.status

\* The parts that every handler of output keeps.
OutputOk(s, p) == StreamOk(s) /\ Conserved(s, p) /\ ReadersOk(s, p) /\ PausedFull(s) /\ LifeOk(s, p)

\* stdin: every unit the controller sent is in the buffer, in the pipe or read,
\* and what it may not send is what the node still buffers.
StdinOk(s, q) ==
    /\ q.credit + s.stdinBuffer <= Window
    /\ s.phase # "erased" => q.credit + s.stdinBuffer = Window
    /\ s.stdinPipe <= PipeCap
    /\ (s.phase = "live" /\ s.stdinEndPending) => q.ended
    /\ (s.phase = "live" /\ proc.reading) =>
          /\ proc.read + s.stdinPipe + s.stdinBuffer = q.sent
          /\ ~s.stdinOpen => s.stdinEndPending /\ s.stdinBuffer = 0

\* Before OPEN nothing has happened.
Fresh(s) ==
    s.phase = "none" =>
        /\ s.delivered = 0 /\ s.sendCredit = Window /\ ~s.paused /\ ~s.exited /\ ~s.stdinEndPending
        /\ s.stdinBuffer = 0 /\ s.stdinPipe = 0 /\ proc.read = 0 /\ peer.sent = 0
        /\ \A ch \in Channels : s.pipe[ch] = 0 /\ proc.written[ch] = 0 /\ ~s.event[ch]

\* What the process wrote is within its load, and teardown leaves nothing.
Bounded ==
    /\ \A ch \in Channels : proc.written[ch] <= load.output
    /\ conn = "gone" => node.phase = "erased"

NodeInv ==
    /\ Typed
    /\ OutputOk(node, proc)
    /\ \A ch \in Channels : Armed(node, ch) /\ Announced(node, ch)
    /\ StdinOk(node, peer) /\ Fresh(node) /\ Bounded

-----------------------------------------------------------------------------
(* What the helpers change. *)

SameLife(s, t) == t.phase = s.phase /\ t.exited = s.exited /\ t.status = s.status
SameStdin(s, t) ==
    /\ t.stdinOpen = s.stdinOpen /\ t.stdinBuffer = s.stdinBuffer
    /\ t.stdinEndPending = s.stdinEndPending /\ t.stdinPipe = s.stdinPipe
SameReaders(s, t) ==
    /\ t.open = s.open /\ t.interest = s.interest /\ t.paused = s.paused
    /\ t.event = s.event /\ t.unwatched = s.unwatched
SameStream(s, t) ==
    /\ t.streamOpen = s.streamOpen /\ t.sendBytes = s.sendBytes /\ t.sendCredit = s.sendCredit
    /\ t.exitPending = s.exitPending /\ t.exit = s.exit /\ t.delivered = s.delivered

\* Flush sends what credit allows, and the EXIT behind it.
Flushed(s, t) ==
    /\ t.exitPending = s.exitPending
    /\ t.sendBytes = IF s.sendBytes <= s.sendCredit THEN 0 ELSE s.sendBytes - s.sendCredit
    /\ t.sendBytes + t.delivered = s.sendBytes + s.delivered
    /\ t.sendCredit <= s.sendCredit
    /\ ~(s.exitPending /\ t.sendBytes = 0) => t.streamOpen = s.streamOpen /\ t.exit = s.exit
    /\ (s.exitPending /\ t.sendBytes = 0) => ~t.streamOpen /\ t.exit = s.status

LEMMA FlushEffect ==
    ASSUME NEW s \in Stage
    PROVE  /\ Flush(s) \in Stage
           /\ SameLife(s, Flush(s)) /\ SameStdin(s, Flush(s)) /\ SameReaders(s, Flush(s))
           /\ Flush(s).pipe = s.pipe /\ Flushed(s, Flush(s))
<1> DEFINE k == Minimum(s.sendBytes, s.sendCredit)
           exits == k = s.sendBytes /\ s.exitPending
           t == Flush(s)
<1>1. /\ k \in Nat /\ k <= s.sendBytes /\ k <= s.sendCredit
      /\ k = s.sendBytes \/ k = s.sendCredit
      /\ s.sendBytes \in Nat /\ s.sendCredit \in Nat /\ s.delivered \in Nat
      /\ s.sendBytes - k \in Nat /\ s.sendCredit - k \in Nat /\ s.delivered + k \in Nat
  BY DEF Stage, Minimum
<1>2. PICK b \in BOOLEAN : b = (s.streamOpen /\ ~exits)
  OBVIOUS
<1>3. PICK x \in Exits : x = IF exits THEN s.status ELSE s.exit
  BY DEF Stage
<1>4. t = [s EXCEPT !.sendBytes = s.sendBytes - k, !.sendCredit = s.sendCredit - k,
                    !.delivered = s.delivered + k, !.streamOpen = b, !.exit = x]
  BY <1>2, <1>3, Zenon DEF Flush
<1>5. /\ t \in Stage
      /\ SameLife(s, t) /\ SameStdin(s, t) /\ SameReaders(s, t) /\ t.pipe = s.pipe
      /\ t.exitPending = s.exitPending /\ t.sendBytes = s.sendBytes - k
      /\ t.sendCredit = s.sendCredit - k /\ t.delivered = s.delivered + k
      /\ t.streamOpen = b /\ t.exit = x
  <2> HIDE DEF k, exits, t
  <2> QED  BY <1>1, <1>4 DEF Stage, SameLife, SameStdin, SameReaders
<1>6. exits <=> s.exitPending /\ t.sendBytes = 0
  BY <1>1, <1>5
<1>7. Flushed(s, t)
  <2> HIDE DEF exits, t
  <2>1. s.streamOpen \in BOOLEAN /\ s.exitPending \in BOOLEAN
    BY DEF Stage
  <2>2. ~(s.exitPending /\ t.sendBytes = 0) => t.streamOpen = s.streamOpen /\ t.exit = s.exit
    BY <1>2, <1>3, <1>5, <1>6, <2>1
  <2>3. (s.exitPending /\ t.sendBytes = 0) => ~t.streamOpen /\ t.exit = s.status
    BY <1>2, <1>3, <1>5, <1>6, <2>1
  <2> QED  BY <1>1, <1>5, <2>2, <2>3 DEF Flushed, Minimum
<1> QED  BY <1>5, <1>7

\* setReadInterest() re-registers the watched readers and touches nothing else.
LEMMA InterestEffect ==
    ASSUME NEW s \in Stage, proc \in Group, NEW enabled \in BOOLEAN
    PROVE  LET t == SetReadInterest(s, enabled)
           IN  /\ t \in Stage
               /\ SameLife(s, t) /\ SameStdin(s, t) /\ SameStream(s, t)
               /\ t.pipe = s.pipe /\ t.open = s.open /\ t.unwatched = s.unwatched
               /\ t.paused = s.paused
               /\ \A ch \in Channels : (s.open[ch] /\ ch \notin s.unwatched) =>
                     /\ t.interest[ch] = enabled
                     /\ t.event[ch] <=> Reports(s, ch, enabled)
<1> DEFINE watched == {ch \in Channels : s.open[ch] /\ ch \notin s.unwatched}
           i == [ch \in Channels |-> IF ch \in watched THEN enabled ELSE s.interest[ch]]
           e == [w \in Watches |-> IF w \in watched THEN Reports(s, w, enabled) ELSE s.event[w]]
           t == SetReadInterest(s, enabled)
<1>1. \A ch \in Channels : Reports(s, ch, enabled) \in BOOLEAN
  BY DEF Reports
<1>2. i \in [Channels -> BOOLEAN] /\ e \in [Watches -> BOOLEAN]
  <2>1. \A ch \in Channels : s.interest[ch] \in BOOLEAN
    BY DEF Stage
  <2>2. \A w \in Watches : s.event[w] \in BOOLEAN
    BY DEF Stage
  <2>3. \A w \in Watches : (IF w \in watched THEN Reports(s, w, enabled) ELSE s.event[w]) \in BOOLEAN
    BY <1>1, <2>2, Zenon
  <2> QED  BY <2>1, <2>3, Zenon
<1>3. t = [s EXCEPT !.interest = i, !.event = e]
  BY Zenon DEF SetReadInterest
<1>4. /\ t \in Stage /\ t.interest = i /\ t.event = e
      /\ SameLife(s, t) /\ SameStdin(s, t) /\ SameStream(s, t)
      /\ t.pipe = s.pipe /\ t.open = s.open /\ t.unwatched = s.unwatched /\ t.paused = s.paused
  <2> HIDE DEF i, e, t
  <2> QED  BY <1>2, <1>3 DEF Stage, SameLife, SameStdin, SameStream
<1>5. ASSUME NEW ch \in Channels, s.open[ch], ch \notin s.unwatched
      PROVE  t.interest[ch] = enabled /\ (t.event[ch] <=> Reports(s, ch, enabled))
  <2>1. ch \in watched /\ ch \in Watches
    BY <1>5 DEF Watches
  <2>2. i[ch] = enabled /\ (e[ch] <=> Reports(s, ch, enabled))
    BY <2>1, Zenon
  <2> QED  BY <1>4, <2>2, Zenon
<1> HIDE DEF t
<1>6. \A ch \in Channels : (s.open[ch] /\ ch \notin s.unwatched) =>
         t.interest[ch] = enabled /\ (t.event[ch] <=> Reports(s, ch, enabled))
  BY <1>5, Zenon
<1> QED  BY <1>4, <1>6, Zenon DEF t

\* The parts of OutputOk look only at these fields.
LEMMA OutputFrame ==
    ASSUME NEW s \in Stage, NEW t \in Stage, proc \in Group,
           SameLife(s, t), SameStream(s, t), t.pipe = s.pipe, t.open = s.open
    PROVE  /\ StreamOk(s) => StreamOk(t)
           /\ Conserved(s, proc) => Conserved(t, proc)
           /\ ReadersOk(s, proc) => ReadersOk(t, proc)
           /\ LifeOk(s, proc) => LifeOk(t, proc)
           /\ (t.paused = s.paused /\ PausedFull(s)) => PausedFull(t)
BY DEF SameLife, SameStream, StreamOk, Conserved, ReadersOk, LifeOk, PausedFull

\* Pausing behind a full queue: nobody is waiting for an event any more.
LEMMA PauseKeeps ==
    ASSUME NEW s \in Stage, proc \in Group, OutputOk(s, proc), ~StreamWritable(s)
    PROVE  /\ Pause(s) \in Stage /\ OutputOk(Pause(s), proc)
           /\ SameLife(s, Pause(s)) /\ SameStdin(s, Pause(s))
           /\ \A ch \in Channels : Armed(Pause(s), ch) /\ Announced(Pause(s), ch)
<1> DEFINE r == SetReadInterest(s, FALSE)
           t == Pause(s)
<1>1. /\ r \in Stage
      /\ SameLife(s, r) /\ SameStdin(s, r) /\ SameStream(s, r)
      /\ r.pipe = s.pipe /\ r.open = s.open
  BY InterestEffect, Zenon
<1>2. t = [r EXCEPT !.paused = TRUE]
  BY DEF Pause
<1> HIDE DEF r, t
<1>3. /\ t \in Stage /\ t.paused = TRUE
      /\ SameLife(r, t) /\ SameStdin(r, t) /\ SameStream(r, t) /\ t.pipe = r.pipe /\ t.open = r.open
  BY <1>1, <1>2 DEF Stage, SameLife, SameStdin, SameStream
<1>4. SameLife(s, t) /\ SameStdin(s, t) /\ SameStream(s, t) /\ t.pipe = s.pipe /\ t.open = s.open
  BY <1>1, <1>3, Zenon DEF SameLife, SameStdin, SameStream
<1>5. t.sendBytes >= Window
  <2>1. ~(s.sendBytes < Window) /\ s.sendBytes \in Nat
    BY DEF StreamWritable, Stage
  <2> QED  BY <1>4, <2>1, NodeStageAssumption DEF SameStream
<1>6. OutputOk(t, proc)
  BY <1>3, <1>4, <1>5, OutputFrame DEF OutputOk, PausedFull
<1>7. \A ch \in Channels : Armed(t, ch) /\ Announced(t, ch)
  BY <1>3 DEF Armed, Announced, Waits
<1> QED  BY <1>3, <1>4, <1>6, <1>7 DEF t

\* finishIfDone() of a stage whose readers are closed: no output is left, so EXIT
\* may follow the queue.
LEMMA FinishKeeps ==
    ASSUME NEW s \in Stage, NEW p \in Group, OutputOk(s, p)
    PROVE  /\ FinishIfDone(s) \in Stage /\ OutputOk(FinishIfDone(s), p)
           /\ SameStdin(s, FinishIfDone(s))
           /\ FinishIfDone(s) = s \/ (s.phase = "live" /\ FinishIfDone(s).phase = "erased")
<1> DEFINE done == s.phase = "live" /\ s.exited /\ \A ch \in Channels : ~s.open[ch]
           t == FinishIfDone(s)
<1>1. CASE ~done
  <2>1. t = s
    BY <1>1 DEF FinishIfDone
  <2> QED  BY <2>1 DEF SameStdin
<1>2. CASE done
  <2> DEFINE q == [s EXCEPT !.exitPending = TRUE, !.status = s.status]
             f == Flush(q)
  <2>1. t = [f EXCEPT !.phase = "erased"]
    BY <1>2 DEF FinishIfDone, SendExit
  <2>2. /\ q \in Stage /\ q.exitPending = TRUE
        /\ SameLife(s, q) /\ SameStdin(s, q) /\ SameReaders(s, q) /\ q.pipe = s.pipe
        /\ q.streamOpen = s.streamOpen /\ q.sendBytes = s.sendBytes /\ q.sendCredit = s.sendCredit
        /\ q.exit = s.exit /\ q.delivered = s.delivered
    BY DEF Stage, SameLife, SameStdin, SameReaders
  <2> HIDE DEF q
  <2>3. /\ f \in Stage
        /\ SameLife(q, f) /\ SameStdin(q, f) /\ SameReaders(q, f) /\ f.pipe = q.pipe /\ Flushed(q, f)
    BY <2>2, FlushEffect, Zenon
  <2> HIDE DEF f, t
  <2>4. /\ t \in Stage /\ t.phase = "erased" /\ t.exited = f.exited /\ t.status = f.status
        /\ SameStdin(f, t) /\ SameStream(f, t) /\ t.pipe = f.pipe /\ t.open = f.open
    BY <2>1, <2>3 DEF Stage, SameStdin, SameStream
  <2>5. /\ SameStdin(s, t) /\ t.pipe = s.pipe /\ t.status = s.status /\ t.exitPending = TRUE
    BY <2>2, <2>3, <2>4, Zenon DEF SameStdin, SameLife, SameStream, Flushed
  <2>6. /\ t.sendBytes <= s.sendBytes
        /\ t.sendBytes + t.delivered = s.sendBytes + s.delivered
        /\ t.sendCredit <= s.sendCredit
        /\ t.sendBytes = 0 => ~t.streamOpen /\ t.exit = t.status
        /\ t.sendBytes # 0 => t.streamOpen = s.streamOpen /\ t.exit = s.exit
        /\ t.sendBytes \in Nat /\ s.sendBytes \in Nat /\ t.sendCredit \in Nat /\ s.sendCredit \in Nat
        /\ t.delivered \in Nat /\ s.delivered \in Nat
    <3>1. /\ t.sendBytes \in Nat /\ s.sendBytes \in Nat /\ t.sendCredit \in Nat /\ s.sendCredit \in Nat
          /\ t.delivered \in Nat /\ s.delivered \in Nat
      BY <2>4 DEF Stage
    <3>2. /\ t.sendBytes = f.sendBytes /\ t.sendCredit = f.sendCredit /\ t.delivered = f.delivered
          /\ t.streamOpen = f.streamOpen /\ t.exit = f.exit /\ t.status = f.status /\ f.status = q.status
      BY <2>3, <2>4 DEF SameStream, SameLife
    <3>3. /\ q.exitPending = TRUE /\ q.streamOpen = s.streamOpen /\ q.exit = s.exit
          /\ q.sendBytes = s.sendBytes /\ q.sendCredit = s.sendCredit /\ q.delivered = s.delivered
      BY <2>2
    <3>4. /\ f.sendBytes = IF q.sendBytes <= q.sendCredit THEN 0 ELSE q.sendBytes - q.sendCredit
          /\ f.sendBytes + f.delivered = q.sendBytes + q.delivered
          /\ f.sendCredit <= q.sendCredit
          /\ ~(q.exitPending /\ f.sendBytes = 0) => f.streamOpen = q.streamOpen /\ f.exit = q.exit
          /\ (q.exitPending /\ f.sendBytes = 0) => ~f.streamOpen /\ f.exit = q.status
      BY <2>3 DEF Flushed
    <3> QED  BY <3>1, <3>2, <3>3, <3>4
  <2>7. StreamOk(t)
    BY <1>2, <2>4, <2>5, <2>6, NodeStageAssumption DEF OutputOk, StreamOk
  <2>8. Conserved(t, p)
    <3>1. /\ s.pipe["stdout"] \in Nat /\ s.pipe["stderr"] \in Nat
      BY DEF Stage, Channels
    <3> QED  BY <2>5, <2>6, <3>1 DEF OutputOk, Conserved
  <2>9. ReadersOk(t, p)
    BY <1>2, <2>4, <2>5 DEF OutputOk, ReadersOk
  <2>10. PausedFull(t) /\ LifeOk(t, p)
    BY <1>2, <2>4, <2>5, <2>6 DEF OutputOk, PausedFull, LifeOk
  <2> QED  BY <1>2, <2>4, <2>5, <2>7, <2>8, <2>9, <2>10 DEF OutputOk, t
<1> QED  BY <1>1, <1>2

\* Whole chunks cover the room, and exceed it by less than one chunk.
LEMMA WholeChunks ==
    ASSUME NEW a \in Nat, NEW b \in Nat \ {0}
    PROVE  /\ CeilDiv(a, b) * b \in Nat
           /\ CeilDiv(a, b) * b >= a
           /\ CeilDiv(a, b) * b < a + b
<1> DEFINE n == a + b - 1
           d == n \div b
           r == n % b
<1>1. n \in Nat /\ n = a + b - 1 /\ b > 0 /\ b \in Nat
  OBVIOUS
<1> HIDE DEF n
<1>2. d \in Nat /\ r \in Nat /\ r < b /\ n = b * d + r
  BY <1>1, SMT
<1>3. CeilDiv(a, b) = d
  BY DEF CeilDiv, n
<1> HIDE DEF d, r
<1>4. d * b = b * d /\ b * d \in Nat
  BY <1>1, <1>2
<1>5. b * d = n - r /\ n - r >= a /\ n - r < a + b
  <2> DEFINE x == b * d
  <2>1. x \in Nat /\ n = x + r
    BY <1>2, <1>4
  <2> HIDE DEF x
  <2>2. x = n - r /\ n - r >= a /\ n - r < a + b
    BY <1>1, <1>2, <2>1
  <2> QED  BY <2>2 DEF x
<1> QED  BY <1>3, <1>4, <1>5

\* A run of reads on a live stage whose queue is below the mark: it leaves the
\* queue full by less than a chunk, or the pipe empty.
LEMMA ReadKeeps ==
    ASSUME NEW s \in Stage, proc \in Group, NEW ch \in Channels, OutputOk(s, proc),
           s.phase = "live", StreamWritable(s), s.open[ch]
    PROVE  LET t == Read(s, ch)
           IN  /\ t \in Stage /\ OutputOk(t, proc)
               /\ SameLife(s, t) /\ SameStdin(s, t) /\ SameReaders(s, t) /\ ~t.paused
               /\ \A c \in Channels \ {ch} : t.pipe[c] = s.pipe[c]
               /\ StreamWritable(t) => t.pipe[ch] = 0
<1> DEFINE units == ReadableUnits(s, ch)
           room == (Window + s.sendCredit) - Minimum(s.sendBytes, Window)
           m == [s EXCEPT !.pipe[ch] = s.pipe[ch] - units, !.sendBytes = s.sendBytes + units]
           t == Read(s, ch)
<1>1. /\ s.pipe \in [Channels -> Nat] /\ s.pipe[ch] \in Nat /\ s.sendBytes \in Nat /\ s.sendCredit \in Nat
      /\ s.delivered \in Nat /\ s.paused \in BOOLEAN
      /\ Window \in Nat \ {0} /\ Chunk \in Nat \ {0} /\ PipeCap \in Nat \ {0}
  BY NodeStageAssumption DEF Stage
<1>2. s.streamOpen /\ ~s.exitPending /\ s.exit = None
  BY DEF OutputOk, StreamOk
<1>3. s.sendBytes < Window
  BY <1>2 DEF StreamWritable
<1>4. ~s.paused
  BY <1>1, <1>3 DEF OutputOk, PausedFull
<1>5. room = (Window + s.sendCredit) - s.sendBytes /\ room \in Nat
  BY <1>1, <1>3 DEF Minimum
<1>6. /\ units \in Nat /\ units <= s.pipe[ch]
      /\ units < room + Chunk
      /\ units >= room \/ units = s.pipe[ch]
  <2> DEFINE c == CeilDiv(room, Chunk) * Chunk
  <2>1. units = Minimum(s.pipe[ch], c)
    BY DEF ReadableUnits
  <2> HIDE DEF room
  <2>2. c \in Nat /\ c >= room /\ c < room + Chunk
    BY <1>1, <1>5, WholeChunks
  <2> HIDE DEF c, units
  <2> QED  BY <1>1, <1>5, <2>1, <2>2 DEF Minimum
<1>7. t = Flush(m)
  BY DEF Read
<1> HIDE DEF room, units
<1>8. /\ m \in Stage
      /\ SameLife(s, m) /\ SameStdin(s, m) /\ SameReaders(s, m)
      /\ m.streamOpen = s.streamOpen /\ m.sendCredit = s.sendCredit /\ m.exitPending = s.exitPending
      /\ m.exit = s.exit /\ m.delivered = s.delivered
      /\ m.sendBytes = s.sendBytes + units
      /\ m.pipe = [s.pipe EXCEPT ![ch] = s.pipe[ch] - units]
  <2>1. s.pipe[ch] - units \in Nat /\ s.sendBytes + units \in Nat
    BY <1>1, <1>6
  <2>2. [s.pipe EXCEPT ![ch] = s.pipe[ch] - units] \in [Channels -> Nat]
    BY <1>1, <2>1
  <2> QED  BY <2>1, <2>2 DEF Stage, SameLife, SameStdin, SameReaders
<1> HIDE DEF m
<1>9. /\ t \in Stage
      /\ SameLife(m, t) /\ SameStdin(m, t) /\ SameReaders(m, t) /\ t.pipe = m.pipe /\ Flushed(m, t)
  BY <1>7, <1>8, FlushEffect, Zenon
<1> HIDE DEF t
<1>10. /\ SameLife(s, t) /\ SameStdin(s, t) /\ SameReaders(s, t)
       /\ t.pipe = [s.pipe EXCEPT ![ch] = s.pipe[ch] - units]
  BY <1>8, <1>9, Zenon DEF SameLife, SameStdin, SameReaders
<1>11. /\ ~t.exitPending /\ t.streamOpen /\ t.exit = None
       /\ t.sendBytes = IF s.sendBytes + units <= s.sendCredit THEN 0 ELSE s.sendBytes + units - s.sendCredit
       /\ t.sendBytes + t.delivered = s.sendBytes + units + s.delivered
       /\ t.sendCredit <= s.sendCredit
       /\ t.sendBytes \in Nat /\ t.delivered \in Nat /\ t.sendCredit \in Nat
  <2>1. t.sendBytes \in Nat /\ t.delivered \in Nat /\ t.sendCredit \in Nat
    BY <1>9 DEF Stage
  <2>2. ~m.exitPending /\ m.streamOpen /\ m.exit = None
    BY <1>2, <1>8
  <2>3. ~t.exitPending /\ t.streamOpen /\ t.exit = None
    BY <1>9, <2>2 DEF Flushed
  <2>4. /\ t.sendBytes = IF m.sendBytes <= m.sendCredit THEN 0 ELSE m.sendBytes - m.sendCredit
        /\ t.sendBytes + t.delivered = m.sendBytes + m.delivered
        /\ t.sendCredit <= m.sendCredit
    BY <1>9 DEF Flushed
  <2>5. m.sendBytes = s.sendBytes + units /\ m.sendCredit = s.sendCredit /\ m.delivered = s.delivered
    BY <1>8
  <2>6. t.sendBytes = IF s.sendBytes + units <= s.sendCredit THEN 0 ELSE s.sendBytes + units - s.sendCredit
    BY <1>1, <1>6, <2>4, <2>5
  <2>7. t.sendBytes + t.delivered = s.sendBytes + units + s.delivered /\ t.sendCredit <= s.sendCredit
    BY <2>4, <2>5
  <2> QED  BY <2>1, <2>3, <2>6, <2>7
<1>12. t.sendBytes < Window + Chunk
  BY <1>1, <1>5, <1>6, <1>11
<1>13. /\ \A c \in Channels \ {ch} : t.pipe[c] = s.pipe[c]
       /\ t.pipe[ch] = s.pipe[ch] - units
  BY <1>1, <1>10
<1>14. StreamWritable(t) => t.pipe[ch] = 0
  <2>1. StreamWritable(t) => t.sendBytes < Window
    BY <1>11 DEF StreamWritable
  <2> QED  BY <1>1, <1>5, <1>6, <1>11, <1>13, <2>1
<1>15. StreamOk(t)
  BY <1>1, <1>11, <1>12 DEF OutputOk, StreamOk
<1>16. Conserved(t, proc)
  <2>1. ch = "stdout" \/ ch = "stderr"
    BY DEF Channels
  <2>2. s.pipe["stdout"] \in Nat /\ s.pipe["stderr"] \in Nat
    BY <1>1 DEF Channels
  <2>3. t.pipe["stdout"] + t.pipe["stderr"] = s.pipe["stdout"] + s.pipe["stderr"] - units
    BY <1>6, <1>13, <2>1, <2>2 DEF Channels
  <2>4. t.pipe["stdout"] \in Nat /\ t.pipe["stderr"] \in Nat
    BY <1>9 DEF Stage, Channels
  <2>5. t.delivered + t.sendBytes + t.pipe["stdout"] + t.pipe["stderr"]
          = s.delivered + s.sendBytes + s.pipe["stdout"] + s.pipe["stderr"]
    BY <1>1, <1>6, <1>11, <2>2, <2>3, <2>4
  <2> QED  BY <2>5 DEF OutputOk, Conserved
<1>17. ReadersOk(t, proc)
  <2>1. \A c \in Channels : t.pipe[c] <= s.pipe[c] /\ s.pipe[c] \in Nat /\ t.pipe[c] \in Nat
    BY <1>1, <1>6, <1>9, <1>13 DEF Stage
  <2>2. t.open = s.open
    BY <1>10 DEF SameReaders
  <2> QED  BY <1>1, <1>11, <2>1, <2>2 DEF OutputOk, ReadersOk
<1>18. PausedFull(t) /\ LifeOk(t, proc) /\ ~t.paused
  <2>1. ~t.paused
    BY <1>4, <1>10 DEF SameReaders
  <2>2. proc.leader # "none"
    BY DEF OutputOk, LifeOk
  <2> QED  BY <1>2, <1>10, <1>11, <2>1, <2>2 DEF OutputOk, PausedFull, LifeOk, SameLife
<1> QED  BY <1>9, <1>10, <1>13, <1>14, <1>15, <1>16, <1>17, <1>18 DEF OutputOk, t

\* What closing a reader at end of file changes.
LEMMA CloseReaderKeeps ==
    ASSUME NEW s \in Stage, proc \in Group, NEW ch \in Channels, OutputOk(s, proc),
           ~proc.writing[ch], s.pipe[ch] = 0
    PROVE  LET t == CloseReader(s, ch)
           IN  /\ t \in Stage /\ OutputOk(t, proc)
               /\ SameLife(s, t) /\ SameStdin(s, t)
               /\ t.pipe = s.pipe /\ t.paused = s.paused /\ t.unwatched = s.unwatched
               /\ ~t.open[ch]
               /\ \A c \in Channels \ {ch} :
                     t.open[c] = s.open[c] /\ t.interest[c] = s.interest[c] /\ t.event[c] = s.event[c]
<1> DEFINE t == CloseReader(s, ch)
           o == [s.open EXCEPT ![ch] = FALSE]
           i == [s.interest EXCEPT ![ch] = FALSE]
           e == [s.event EXCEPT ![ch] = FALSE]
<1>1. /\ s.open \in [Channels -> BOOLEAN] /\ s.interest \in [Channels -> BOOLEAN]
      /\ s.event \in [Watches -> BOOLEAN] /\ Channels \subseteq Watches
  BY DEF Stage, Watches
<1>2. /\ o \in [Channels -> BOOLEAN] /\ i \in [Channels -> BOOLEAN] /\ e \in [Watches -> BOOLEAN]
  BY <1>1
<1>3. /\ o[ch] = FALSE
      /\ \A c \in Channels \ {ch} : o[c] = s.open[c] /\ i[c] = s.interest[c] /\ e[c] = s.event[c]
  BY <1>1
<1>4. t = [s EXCEPT !.open = o, !.interest = i, !.event = e]
  BY Zenon DEF CloseReader
<1> HIDE DEF o, i, e, t
<1>5. /\ t \in Stage /\ t.open = o /\ t.interest = i /\ t.event = e
      /\ SameLife(s, t) /\ SameStdin(s, t) /\ SameStream(s, t)
      /\ t.pipe = s.pipe /\ t.paused = s.paused /\ t.unwatched = s.unwatched
  BY <1>2, <1>4 DEF Stage, SameLife, SameStdin, SameStream
<1>6. OutputOk(t, proc)
  <2>1. StreamOk(t) /\ Conserved(t, proc) /\ PausedFull(t) /\ LifeOk(t, proc)
    BY <1>5 DEF OutputOk, SameLife, SameStream, StreamOk, Conserved, PausedFull, LifeOk
  <2>2. ReadersOk(t, proc)
    <3>1. \A c \in Channels : ~t.open[c] => ~s.open[c] \/ c = ch
      BY <1>3, <1>5, Zenon
    <3> QED  BY <1>5, <3>1 DEF OutputOk, ReadersOk, SameLife, SameStream
  <2> QED  BY <2>1, <2>2 DEF OutputOk
<1>7. ~t.open[ch]
  BY <1>3, <1>5
<1>8. \A c \in Channels \ {ch} :
         t.open[c] = s.open[c] /\ t.interest[c] = s.interest[c] /\ t.event[c] = s.event[c]
  BY <1>3, <1>5, Zenon
<1> QED  BY <1>5, <1>6, <1>7, <1>8 DEF t

\* What one onReadable() owes: the reader it was called for may have lost its
\* event to this call, the other one not.
Served(s, t) ==
    /\ t \in Stage /\ OutputOk(t, proc) /\ SameStdin(s, t)
    /\ t.phase = s.phase \/ (s.phase = "live" /\ t.phase = "erased")
    /\ \A c \in Channels : Armed(t, c) /\ Announced(t, c)

LEMMA FinishServes ==
    ASSUME NEW s \in Stage, NEW v \in Stage, proc \in Group, OutputOk(v, proc), SameStdin(s, v), v.phase = s.phase,
           \A c \in Channels : Armed(v, c) /\ Announced(v, c)
    PROVE  Served(s, FinishIfDone(v))
<1> DEFINE t == FinishIfDone(v)
<1>1. /\ t \in Stage /\ OutputOk(t, proc) /\ SameStdin(v, t)
      /\ t = v \/ (v.phase = "live" /\ t.phase = "erased")
  BY FinishKeeps, Zenon
<1> HIDE DEF t
<1>2. \A c \in Channels : Armed(t, c) /\ Announced(t, c)
  <2>1. CASE t = v
    BY <2>1
  <2>2. CASE t.phase = "erased"
    BY <2>2 DEF Armed, Announced, Waits
  <2> QED  BY <1>1, <2>1, <2>2
<1>3. SameStdin(s, t)
  BY <1>1, Zenon DEF SameStdin
<1> QED  BY <1>1, <1>2, <1>3 DEF Served, t

LEMMA OnReadableServes ==
    ASSUME NEW s \in Stage, proc \in Group, NEW ch \in Channels, OutputOk(s, proc),
           \A c \in Channels : Armed(s, c),
           \A c \in Channels \ {ch} : Announced(s, c),
           NEW t \in OnReadable(s, ch)
    PROVE  Served(s, t)
<1>1. CASE s.phase # "live"
  <2>1. t = s
    BY <1>1 DEF OnReadable
  <2>2. \A c \in Channels : Armed(s, c) /\ Announced(s, c)
    BY <1>1 DEF Armed, Announced, Waits
  <2> QED  BY <2>1, <2>2 DEF Served, SameStdin
<1>2. CASE s.phase = "live" /\ ~StreamWritable(s)
  <2>1. t = Pause(s)
    BY <1>2 DEF OnReadable
  <2> QED  BY <1>2, <2>1, PauseKeeps DEF Served, SameLife
<1>3. CASE s.phase = "live" /\ StreamWritable(s) /\ ~s.open[ch]
  <2>1. t = FinishIfDone(s)
    BY <1>3 DEF OnReadable
  <2>2. \A c \in Channels : Armed(s, c) /\ Announced(s, c)
    BY <1>3 DEF Announced, Waits
  <2> QED  BY <2>1, <2>2, FinishServes DEF SameStdin
<1>4. CASE s.phase = "live" /\ StreamWritable(s) /\ s.open[ch]
  <2> DEFINE u == Read(s, ch)
  <2>1. t = IF ~StreamWritable(u) THEN Pause(u)
            ELSE IF proc.writing[ch] THEN FinishIfDone(u)
            ELSE FinishIfDone(CloseReader(u, ch))
    BY <1>4 DEF OnReadable
  <2>2. /\ u \in Stage /\ OutputOk(u, proc)
        /\ SameLife(s, u) /\ SameStdin(s, u) /\ SameReaders(s, u) /\ ~u.paused
        /\ \A c \in Channels \ {ch} : u.pipe[c] = s.pipe[c]
        /\ StreamWritable(u) => u.pipe[ch] = 0
    BY <1>4, ReadKeeps, Zenon
  <2> HIDE DEF u
  <2>3. u.phase = s.phase
    BY <2>2 DEF SameLife
  <2>4. \A c \in Channels : Armed(u, c)
    BY <2>2, <2>3 DEF Armed, Waits, SameReaders
  <2>5. \A c \in Channels \ {ch} : Announced(u, c)
    BY <2>2, <2>3 DEF Announced, Waits, SameReaders, Reports
  <2>6. CASE ~StreamWritable(u)
    <3>1. t = Pause(u)
      BY <2>1, <2>6
    <3>2. /\ t \in Stage /\ OutputOk(t, proc) /\ SameLife(u, t) /\ SameStdin(u, t)
          /\ \A c \in Channels : Armed(t, c) /\ Announced(t, c)
      BY <2>2, <2>6, <3>1, PauseKeeps
    <3>3. SameStdin(s, t) /\ t.phase = s.phase
      BY <2>2, <3>2, Zenon DEF SameStdin, SameLife
    <3> QED  BY <3>2, <3>3 DEF Served
  <2>7. CASE StreamWritable(u) /\ proc.writing[ch]
    <3>1. ~Reports(u, ch, TRUE)
      BY <2>2, <2>7 DEF Reports
    <3>2. Announced(u, ch)
      BY <3>1 DEF Announced
    <3> QED  BY <2>1, <2>2, <2>3, <2>4, <2>5, <2>7, <3>2, FinishServes
  <2>8. CASE StreamWritable(u) /\ ~proc.writing[ch]
    <3> DEFINE v == CloseReader(u, ch)
    <3>1. /\ v \in Stage /\ OutputOk(v, proc)
          /\ SameLife(u, v) /\ SameStdin(u, v)
          /\ v.pipe = u.pipe /\ v.paused = u.paused /\ v.unwatched = u.unwatched
          /\ ~v.open[ch]
          /\ \A c \in Channels \ {ch} :
                v.open[c] = u.open[c] /\ v.interest[c] = u.interest[c] /\ v.event[c] = u.event[c]
      BY <2>2, <2>8, CloseReaderKeeps, Zenon
    <3>2. t = FinishIfDone(v)
      BY <2>1, <2>8
    <3> HIDE DEF v
    <3>3. SameStdin(s, v) /\ v.phase = s.phase /\ v.phase = u.phase
      BY <2>2, <3>1, Zenon DEF SameStdin, SameLife
    <3>4. Armed(v, ch) /\ Announced(v, ch)
      BY <3>1 DEF Armed, Announced, Waits
    <3>5. \A c \in Channels \ {ch} : Armed(v, c) /\ Announced(v, c)
      BY <2>4, <2>5, <3>1, <3>3, Zenon DEF Armed, Announced, Waits, Reports
    <3> QED  BY <3>1, <3>2, <3>3, <3>4, <3>5, FinishServes
  <2> QED  BY <2>6, <2>7, <2>8
<1> QED  BY <1>1, <1>2, <1>3, <1>4

\* drainStdin() moves units from the buffer to the pipe; it drops them only when
\* nobody reads, and closes the pipe only then or at the end of the input.
Drained(s, t) ==
    /\ t \in Stage
    /\ SameLife(s, t) /\ SameStream(s, t) /\ t.pipe = s.pipe
    /\ t.open = s.open /\ t.interest = s.interest /\ t.paused = s.paused /\ t.unwatched = s.unwatched
    /\ \A ch \in Channels : t.event[ch] = s.event[ch]
    /\ t.stdinEndPending = s.stdinEndPending
    /\ t.stdinBuffer <= s.stdinBuffer /\ t.stdinPipe <= PipeCap
    /\ proc.reading => /\ t.stdinPipe + t.stdinBuffer = s.stdinPipe + s.stdinBuffer
                       /\ ~t.stdinOpen => ~s.stdinOpen \/ (t.stdinBuffer = 0 /\ t.stdinEndPending)

LEMMA CloseStdinEffect ==
    ASSUME NEW s \in Stage
    PROVE  LET t == CloseStdin(s)
           IN  /\ t \in Stage /\ ~t.stdinOpen
               /\ SameLife(s, t) /\ SameStream(s, t) /\ t.pipe = s.pipe
               /\ t.open = s.open /\ t.interest = s.interest /\ t.paused = s.paused
               /\ t.unwatched = s.unwatched
               /\ \A ch \in Channels : t.event[ch] = s.event[ch]
               /\ t.stdinEndPending = s.stdinEndPending
               /\ t.stdinBuffer = s.stdinBuffer /\ t.stdinPipe = s.stdinPipe
<1> DEFINE e == [s.event EXCEPT !["stdin"] = FALSE]
           t == CloseStdin(s)
<1>1. e \in [Watches -> BOOLEAN] /\ \A ch \in Channels : e[ch] = s.event[ch]
  <2>1. s.event \in [Watches -> BOOLEAN] /\ Channels \subseteq Watches /\ "stdin" \notin Channels
    BY DEF Stage, Watches, Channels
  <2> QED  BY <2>1
<1>2. t = [s EXCEPT !.stdinOpen = FALSE, !.stdinInterest = FALSE, !.event = e]
  BY Zenon DEF CloseStdin
<1> HIDE DEF e, t
<1>3. /\ t \in Stage /\ ~t.stdinOpen /\ t.event = e
      /\ SameLife(s, t) /\ SameStream(s, t) /\ t.pipe = s.pipe
      /\ t.open = s.open /\ t.interest = s.interest /\ t.paused = s.paused /\ t.unwatched = s.unwatched
      /\ t.stdinEndPending = s.stdinEndPending
      /\ t.stdinBuffer = s.stdinBuffer /\ t.stdinPipe = s.stdinPipe
  BY <1>1, <1>2 DEF Stage, SameLife, SameStream
<1> QED  BY <1>1, <1>3 DEF t

LEMMA DrainEffect ==
    ASSUME NEW s \in Stage, proc \in Group, s.stdinPipe <= PipeCap
    PROVE  Drained(s, DrainStdin(s))
<1> DEFINE units == IF s.stdinOpen THEN Minimum(s.stdinBuffer, PipeCap - s.stdinPipe) ELSE 0
           m == [s EXCEPT !.stdinBuffer = s.stdinBuffer - units, !.stdinPipe = s.stdinPipe + units]
           z == [s EXCEPT !.stdinBuffer = 0]
           t == DrainStdin(s)
<1>1. /\ s.stdinBuffer \in Nat /\ s.stdinPipe \in Nat /\ PipeCap \in Nat
      /\ s.stdinOpen \in BOOLEAN /\ proc.reading \in BOOLEAN
  BY NodeStageAssumption DEF Stage, Group
<1>2. /\ units \in Nat /\ units <= s.stdinBuffer /\ units + s.stdinPipe <= PipeCap
  BY <1>1 DEF Minimum
<1>3. t = IF s.stdinOpen /\ s.stdinBuffer > 0 /\ ~proc.reading THEN CloseStdin(z)
          ELSE IF AtStdinEof(m) THEN CloseStdin(m)
          ELSE [m EXCEPT !.stdinInterest = m.stdinOpen /\ m.stdinBuffer > 0 /\ "stdin" \notin m.unwatched]
  BY DEF DrainStdin
<1> HIDE DEF units
<1>4. /\ m \in Stage
      /\ SameLife(s, m) /\ SameStream(s, m) /\ m.pipe = s.pipe
      /\ m.open = s.open /\ m.interest = s.interest /\ m.paused = s.paused /\ m.unwatched = s.unwatched
      /\ m.event = s.event /\ m.stdinEndPending = s.stdinEndPending /\ m.stdinOpen = s.stdinOpen
      /\ m.stdinBuffer = s.stdinBuffer - units /\ m.stdinPipe = s.stdinPipe + units
  <2>1. s.stdinBuffer - units \in Nat /\ s.stdinPipe + units \in Nat
    BY <1>1, <1>2
  <2> QED  BY <2>1 DEF Stage, SameLife, SameStream
<1>5. /\ z \in Stage
      /\ SameLife(s, z) /\ SameStream(s, z) /\ z.pipe = s.pipe
      /\ z.open = s.open /\ z.interest = s.interest /\ z.paused = s.paused /\ z.unwatched = s.unwatched
      /\ z.event = s.event /\ z.stdinEndPending = s.stdinEndPending
      /\ z.stdinBuffer = 0 /\ z.stdinPipe = s.stdinPipe
  BY DEF Stage, SameLife, SameStream
<1> HIDE DEF m, z, t
<1>6. CASE s.stdinOpen /\ s.stdinBuffer > 0 /\ ~proc.reading
  <2>1. t = CloseStdin(z)
    BY <1>3, <1>6
  <2>2. /\ t \in Stage
        /\ SameLife(z, t) /\ SameStream(z, t) /\ t.pipe = z.pipe
        /\ t.open = z.open /\ t.interest = z.interest /\ t.paused = z.paused /\ t.unwatched = z.unwatched
        /\ \A ch \in Channels : t.event[ch] = z.event[ch]
        /\ t.stdinEndPending = z.stdinEndPending
        /\ t.stdinBuffer = z.stdinBuffer /\ t.stdinPipe = z.stdinPipe
    BY <1>5, <2>1, CloseStdinEffect, Zenon
  <2>3. SameLife(s, t) /\ SameStream(s, t)
    BY <1>5, <2>2, Zenon DEF SameLife, SameStream
  <2>4. /\ t.pipe = s.pipe
        /\ t.open = s.open /\ t.interest = s.interest /\ t.paused = s.paused /\ t.unwatched = s.unwatched
        /\ \A ch \in Channels : t.event[ch] = s.event[ch]
        /\ t.stdinEndPending = s.stdinEndPending
        /\ t.stdinBuffer = 0 /\ t.stdinPipe = s.stdinPipe
    BY <1>5, <2>2, Zenon
  <2>5. t.stdinBuffer <= s.stdinBuffer /\ t.stdinPipe <= PipeCap
    BY <1>1, <2>4
  <2>6. ~proc.reading
    BY <1>6
  <2>7. t \in Stage
    BY <2>2
  <2>8. Drained(s, t)
    BY <2>3, <2>4, <2>5, <2>6, <2>7, Zenon DEF Drained
  <2> QED  BY <2>8 DEF t
<1>7. ASSUME ~(s.stdinOpen /\ s.stdinBuffer > 0 /\ ~proc.reading), AtStdinEof(m) PROVE Drained(s, t)
  <2>1. t = CloseStdin(m)
    BY <1>3, <1>7
  <2>2. /\ t \in Stage
        /\ SameLife(m, t) /\ SameStream(m, t) /\ t.pipe = m.pipe
        /\ t.open = m.open /\ t.interest = m.interest /\ t.paused = m.paused /\ t.unwatched = m.unwatched
        /\ \A ch \in Channels : t.event[ch] = m.event[ch]
        /\ t.stdinEndPending = m.stdinEndPending
        /\ t.stdinBuffer = m.stdinBuffer /\ t.stdinPipe = m.stdinPipe
    BY <1>4, <2>1, CloseStdinEffect, Zenon
  <2>3. SameLife(s, t) /\ SameStream(s, t)
    BY <1>4, <2>2, Zenon DEF SameLife, SameStream
  <2>4. /\ t.pipe = s.pipe
        /\ t.open = s.open /\ t.interest = s.interest /\ t.paused = s.paused /\ t.unwatched = s.unwatched
        /\ \A ch \in Channels : t.event[ch] = s.event[ch]
        /\ t.stdinEndPending = s.stdinEndPending
        /\ t.stdinBuffer = s.stdinBuffer - units /\ t.stdinPipe = s.stdinPipe + units
    BY <1>4, <2>2, Zenon
  <2>5. /\ t.stdinBuffer <= s.stdinBuffer /\ t.stdinPipe <= PipeCap
        /\ t.stdinPipe + t.stdinBuffer = s.stdinPipe + s.stdinBuffer
    BY <1>1, <1>2, <2>4
  <2>6. t.stdinBuffer = 0 /\ t.stdinEndPending
    BY <1>4, <1>7, <2>2 DEF AtStdinEof
  <2> QED  BY <2>2, <2>3, <2>4, <2>5, <2>6, Zenon DEF Drained
<1>8. ASSUME ~(s.stdinOpen /\ s.stdinBuffer > 0 /\ ~proc.reading), ~AtStdinEof(m) PROVE Drained(s, t)
  <2>1. PICK b \in BOOLEAN : b = (m.stdinOpen /\ m.stdinBuffer > 0 /\ "stdin" \notin m.unwatched)
    OBVIOUS
  <2>2. t = [m EXCEPT !.stdinInterest = b]
    BY <1>3, <1>8, <2>1, Zenon
  <2>3. /\ t \in Stage
        /\ SameLife(m, t) /\ SameStream(m, t) /\ t.pipe = m.pipe
        /\ t.open = m.open /\ t.interest = m.interest /\ t.paused = m.paused /\ t.unwatched = m.unwatched
        /\ t.event = m.event
        /\ t.stdinEndPending = m.stdinEndPending /\ t.stdinOpen = m.stdinOpen
        /\ t.stdinBuffer = m.stdinBuffer /\ t.stdinPipe = m.stdinPipe
    BY <1>4, <2>2 DEF Stage, SameLife, SameStream
  <2>4. SameLife(s, t) /\ SameStream(s, t)
    BY <1>4, <2>3, Zenon DEF SameLife, SameStream
  <2>5. /\ t.pipe = s.pipe
        /\ t.open = s.open /\ t.interest = s.interest /\ t.paused = s.paused /\ t.unwatched = s.unwatched
        /\ \A ch \in Channels : t.event[ch] = s.event[ch]
        /\ t.stdinEndPending = s.stdinEndPending /\ t.stdinOpen = s.stdinOpen
        /\ t.stdinBuffer = s.stdinBuffer - units /\ t.stdinPipe = s.stdinPipe + units
    BY <1>4, <2>3, Zenon
  <2>6. /\ t.stdinBuffer <= s.stdinBuffer /\ t.stdinPipe <= PipeCap
        /\ t.stdinPipe + t.stdinBuffer = s.stdinPipe + s.stdinBuffer
    BY <1>1, <1>2, <2>5
  <2> QED  BY <2>3, <2>4, <2>5, <2>6, Zenon DEF Drained
<1> QED  BY <1>6, <1>7, <1>8 DEF t

-----------------------------------------------------------------------------
(* Handlers that leave the process alone. *)

LEMMA OutputLater ==
    ASSUME NEW t, node' = t, proc' = proc, OutputOk(t, proc),
           \A c \in Channels : Armed(t, c) /\ Announced(t, c)
    PROVE  OutputOk(node, proc)' /\ \A c \in Channels : Armed(node, c)' /\ Announced(node, c)'
<1>1. StreamOk(node)' /\ Conserved(node, proc)' /\ ReadersOk(node, proc)' /\ PausedFull(node)' /\ LifeOk(node, proc)'
  BY Zenon DEF OutputOk, StreamOk, Conserved, ReadersOk, PausedFull, LifeOk
<1>2. \A c \in Channels : Armed(node, c)' /\ Announced(node, c)'
  BY Zenon DEF Armed, Announced, Waits, Reports
<1> QED  BY <1>1, <1>2, Zenon DEF OutputOk

\* What is left to show for a handler that serves output.
LEMMA ServedLater ==
    ASSUME NodeInv, NEW s \in Stage, s.phase = node.phase, SameStdin(node, s),
           node.phase # "none",
           Served(s, node'), UNCHANGED <<proc, conn, peer, load>>
    PROVE  NodeInv'
<1>1. OutputOk(node, proc)' /\ \A c \in Channels : Armed(node, c)' /\ Announced(node, c)'
  BY OutputLater DEF Served
<1>2. Typed'
  BY DEF NodeInv, Typed, Served
<1>3. SameStdin(node, node') /\ (node'.phase = node.phase \/ node'.phase = "erased")
  BY Zenon DEF Served, SameStdin
<1>4. StdinOk(node, peer)'
  BY <1>3 DEF NodeInv, StdinOk, SameStdin
<1>5. Fresh(node)' /\ Bounded'
  BY <1>3 DEF NodeInv, Fresh, Bounded, Served
<1> QED  BY <1>1, <1>2, <1>4, <1>5 DEF NodeInv

LEMMA ReadableKeeps ==
    ASSUME NodeInv, NEW ch \in Channels, HandleReadable(ch), UNCHANGED load
    PROVE  NodeInv'
<1> DEFINE s == [node EXCEPT !.event[ch] = FALSE]
           e == [node.event EXCEPT ![ch] = FALSE]
<1>1. node.event[ch] /\ node' \in OnReadable(s, ch) /\ UNCHANGED <<proc, conn, peer, load>>
  BY DEF HandleReadable
<1>2. node \in Stage /\ proc \in Group
  BY DEF NodeInv, Typed
<1>3. node.phase # "none"
  BY <1>1 DEF NodeInv, Fresh
<1>4. /\ e \in [Watches -> BOOLEAN]
      /\ \A c \in Channels \ {ch} : e[c] = node.event[c]
  <2>1. node.event \in [Watches -> BOOLEAN] /\ Channels \subseteq Watches
    BY <1>2 DEF Stage, Watches
  <2> QED  BY <2>1
<1>5. s = [node EXCEPT !.event = e]
  BY Zenon
<1> HIDE DEF s, e
<1>6. /\ s \in Stage /\ s.event = e
      /\ SameLife(node, s) /\ SameStdin(node, s) /\ SameStream(node, s) /\ s.pipe = node.pipe
      /\ s.open = node.open /\ s.interest = node.interest /\ s.paused = node.paused
      /\ s.unwatched = node.unwatched
  BY <1>2, <1>4, <1>5 DEF Stage, SameLife, SameStdin, SameStream
<1>7. OutputOk(s, proc)
  BY <1>2, <1>6, OutputFrame DEF NodeInv, OutputOk
<1>8. /\ s.phase = node.phase
      /\ \A c \in Channels : Armed(s, c)
      /\ \A c \in Channels \ {ch} : Announced(s, c)
  <2>1. s.phase = node.phase
    BY <1>6 DEF SameLife
  <2>2. \A c \in Channels : Armed(s, c)
    BY <1>6, <2>1 DEF NodeInv, Armed, Waits
  <2>3. \A c \in Channels \ {ch} : Announced(s, c)
    BY <1>4, <1>6, <2>1 DEF NodeInv, Announced, Waits, Reports
  <2> QED  BY <2>1, <2>2, <2>3
<1>9. Served(s, node')
  BY <1>1, <1>2, <1>6, <1>7, <1>8, OnReadableServes
<1> QED  BY <1>1, <1>3, <1>6, <1>8, <1>9, ServedLater

\* More credit: the queue shrinks, and when it falls below the mark the paused
\* readers are re-armed and drained.
LEMMA WindowUpdateKeeps ==
    ASSUME NodeInv, NEW k \in 1 .. Window, HandleWindowUpdate(k), UNCHANGED load
    PROVE  NodeInv'
<1> DEFINE m == [node EXCEPT !.sendCredit = node.sendCredit + k]
           t == Flush(m)
<1>1. /\ node.streamOpen /\ k \in 1 .. Window - node.sendCredit
      /\ node' \in IF Wakes(node, t) THEN ResumeReads(t) ELSE {t}
      /\ UNCHANGED <<proc, conn, peer, load>>
  BY DEF HandleWindowUpdate
<1>2. /\ node \in Stage /\ proc \in Group /\ Window \in Nat /\ Chunk \in Nat
      /\ node.sendCredit \in Nat /\ node.sendBytes \in Nat /\ node.delivered \in Nat
  BY NodeStageAssumption DEF NodeInv, Typed, Stage
<1>3. node.phase # "none"
  BY <1>1, <1>2 DEF NodeInv, Fresh
<1>4. /\ m \in Stage /\ m.sendCredit = node.sendCredit + k
      /\ SameLife(node, m) /\ SameStdin(node, m) /\ SameReaders(node, m) /\ m.pipe = node.pipe
      /\ m.streamOpen = node.streamOpen /\ m.sendBytes = node.sendBytes
      /\ m.exitPending = node.exitPending /\ m.exit = node.exit /\ m.delivered = node.delivered
  <2>1. node.sendCredit + k \in Nat
    BY <1>2
  <2> QED  BY <1>2, <2>1 DEF Stage, SameLife, SameStdin, SameReaders
<1> HIDE DEF m
<1>5. /\ t \in Stage
      /\ SameLife(m, t) /\ SameStdin(m, t) /\ SameReaders(m, t) /\ t.pipe = m.pipe /\ Flushed(m, t)
  BY <1>4, FlushEffect, Zenon
<1> HIDE DEF t
<1>6. SameLife(node, t) /\ SameStdin(node, t) /\ SameReaders(node, t) /\ t.pipe = node.pipe
  BY <1>4, <1>5, Zenon DEF SameLife, SameStdin, SameReaders
<1>7. /\ t.exitPending = node.exitPending
      /\ t.sendBytes \in Nat /\ t.sendCredit \in Nat /\ t.delivered \in Nat
      /\ t.sendBytes <= node.sendBytes /\ t.sendCredit <= Window
      /\ t.sendBytes + t.delivered = node.sendBytes + node.delivered
      /\ ~(node.exitPending /\ t.sendBytes = 0) => t.streamOpen = node.streamOpen /\ t.exit = node.exit
      /\ (node.exitPending /\ t.sendBytes = 0) => ~t.streamOpen /\ t.exit = t.status
  <2>1. t.sendBytes \in Nat /\ t.sendCredit \in Nat /\ t.delivered \in Nat
    BY <1>5 DEF Stage
  <2>2. /\ t.sendBytes = IF m.sendBytes <= m.sendCredit THEN 0 ELSE m.sendBytes - m.sendCredit
        /\ t.sendBytes + t.delivered = m.sendBytes + m.delivered
        /\ t.sendCredit <= m.sendCredit /\ t.exitPending = m.exitPending
        /\ ~(m.exitPending /\ t.sendBytes = 0) => t.streamOpen = m.streamOpen /\ t.exit = m.exit
        /\ (m.exitPending /\ t.sendBytes = 0) => ~t.streamOpen /\ t.exit = m.status
    BY <1>5 DEF Flushed
  <2>3. t.status = m.status
    BY <1>5 DEF SameLife
  <2>4. m.sendCredit \in Nat /\ m.sendCredit <= Window
    BY <1>1, <1>2, <1>4
  <2>5. /\ t.sendBytes <= node.sendBytes /\ t.sendCredit <= Window
        /\ t.sendBytes + t.delivered = node.sendBytes + node.delivered
    BY <1>2, <1>4, <2>1, <2>2, <2>4
  <2> QED  BY <1>4, <2>1, <2>2, <2>3, <2>5
<1>8. StreamOk(t) /\ Conserved(t, proc) /\ ReadersOk(t, proc) /\ LifeOk(t, proc)
  <2>1. t.phase = node.phase /\ t.exited = node.exited /\ t.status = node.status /\ t.open = node.open
    BY <1>6 DEF SameLife, SameReaders
  <2>2. StreamOk(t)
    BY <1>2, <1>7, <2>1 DEF NodeInv, OutputOk, StreamOk
  <2>3. Conserved(t, proc)
    <3>1. node.pipe["stdout"] \in Nat /\ node.pipe["stderr"] \in Nat
      BY <1>2 DEF Stage, Channels
    <3> QED  BY <1>2, <1>6, <1>7, <3>1 DEF NodeInv, OutputOk, Conserved
  <2>4. ReadersOk(t, proc)
    BY <1>6, <1>7, <2>1 DEF NodeInv, OutputOk, ReadersOk
  <2>5. LifeOk(t, proc)
    BY <1>2, <1>7, <2>1 DEF NodeInv, OutputOk, LifeOk
  <2> QED  BY <2>2, <2>3, <2>4, <2>5
<1>9. /\ t.phase = node.phase
      /\ \A c \in Channels : Armed(t, c) /\ Announced(t, c)
  BY <1>6 DEF NodeInv, SameLife, SameReaders, Armed, Announced, Waits, Reports
<1>10. ASSUME PausedFull(t), node' = t PROVE NodeInv'
  <2>1. Served(t, t)
    BY <1>5, <1>8, <1>9, <1>10 DEF Served, OutputOk, SameStdin
  <2> QED  BY <1>1, <1>3, <1>5, <1>6, <1>9, <1>10, <2>1, ServedLater
<1>11. CASE ~Wakes(node, t)
  <2>1. PausedFull(t)
    <3>1. (t.phase = "live" /\ t.paused) => node.sendBytes >= Window
      BY <1>6 DEF NodeInv, OutputOk, PausedFull, SameLife, SameReaders
    <3>2. t.phase = "live" => t.streamOpen
      BY <1>8 DEF StreamOk
    <3> QED  BY <1>2, <1>7, <1>11, <3>1, <3>2 DEF Wakes, PausedFull
  <2>2. node' = t
    BY <1>1, <1>11
  <2> QED  BY <1>10, <2>1, <2>2
<1>12. CASE Wakes(node, t) /\ (t.phase # "live" \/ ~t.paused)
  <2>1. node' = t
    BY <1>1, <1>12 DEF ResumeReads
  <2> QED  BY <1>10, <1>12, <2>1 DEF PausedFull
<1>13. CASE Wakes(node, t) /\ t.phase = "live" /\ t.paused
  <2> DEFINE u == [t EXCEPT !.paused = FALSE]
             r == SetReadInterest(u, TRUE)
  <2>1. PICK r1 \in OnReadable(r, "stdout") : node' \in OnReadable(r1, "stderr")
    BY <1>1, <1>13 DEF ResumeReads, Rearmed
  <2>2. /\ u \in Stage /\ u.paused = FALSE
        /\ SameLife(t, u) /\ SameStdin(t, u) /\ SameStream(t, u) /\ u.pipe = t.pipe /\ u.open = t.open
    BY <1>5 DEF Stage, SameLife, SameStdin, SameStream
  <2> HIDE DEF u
  <2>3. /\ r \in Stage
        /\ SameLife(u, r) /\ SameStdin(u, r) /\ SameStream(u, r)
        /\ r.pipe = u.pipe /\ r.open = u.open /\ r.unwatched = u.unwatched /\ r.paused = u.paused
        /\ \A c \in Channels : (u.open[c] /\ c \notin u.unwatched) =>
              r.interest[c] = TRUE /\ (r.event[c] <=> Reports(u, c, TRUE))
    BY <1>2, <2>2, InterestEffect, Zenon
  <2> HIDE DEF r
  <2>4. /\ SameLife(t, r) /\ SameStdin(t, r) /\ SameStream(t, r) /\ r.pipe = t.pipe /\ r.open = t.open
        /\ r.paused = FALSE
    BY <2>2, <2>3, Zenon DEF SameLife, SameStdin, SameStream
  <2>5. OutputOk(r, proc)
    <3>1. StreamOk(r) /\ Conserved(r, proc) /\ ReadersOk(r, proc) /\ LifeOk(r, proc)
      BY <1>2, <1>5, <1>8, <2>3, <2>4, OutputFrame
    <3>2. PausedFull(r)
      BY <2>4 DEF PausedFull
    <3> QED  BY <3>1, <3>2 DEF OutputOk
  <2>6. \A c \in Channels : Armed(r, c) /\ Announced(r, c)
    BY <2>3 DEF Armed, Announced, Waits, Reports
  <2>7. Served(r, r1)
    BY <1>2, <2>1, <2>3, <2>5, <2>6, OnReadableServes DEF Channels
  <2>8. Served(r1, node')
    BY <1>2, <2>1, <2>7, OnReadableServes DEF Served, Channels
  <2>9. Served(r, node')
    BY <2>7, <2>8, Zenon DEF Served, SameStdin
  <2>10. r.phase = node.phase /\ SameStdin(node, r)
    BY <1>6, <1>9, <2>4, Zenon DEF SameLife, SameStdin
  <2> QED  BY <1>1, <1>3, <2>3, <2>9, <2>10, ServedLater
<1> QED  BY <1>11, <1>12, <1>13

\* Draining stdin says nothing about output.
LEMMA DrainedLater ==
    ASSUME NodeInv, NEW s \in Stage, Drained(s, node'), UNCHANGED <<proc, conn, load>>,
           SameLife(node, s), SameStream(node, s), s.pipe = node.pipe,
           s.open = node.open, s.interest = node.interest, s.paused = node.paused,
           s.unwatched = node.unwatched, \A ch \in Channels : s.event[ch] = node.event[ch],
           node.phase = "live", peer' \in [credit : Nat, sent : Nat, ended : BOOLEAN],
           StdinOk(node, peer)'
    PROVE  NodeInv'
<1> DEFINE t == node'
<1>1. /\ t \in Stage /\ SameLife(node, t) /\ SameStream(node, t) /\ t.pipe = node.pipe
      /\ t.open = node.open /\ t.interest = node.interest /\ t.paused = node.paused
      /\ t.unwatched = node.unwatched /\ \A ch \in Channels : t.event[ch] = node.event[ch]
  BY ZenonT(60) DEF Drained, SameLife, SameStream
<1>2. node \in Stage /\ proc \in Group
  BY DEF NodeInv, Typed
<1> HIDE DEF t
<1>3. OutputOk(t, proc)
  BY <1>1, <1>2, OutputFrame DEF NodeInv, OutputOk
<1>4. t.phase = "live"
  BY <1>1 DEF SameLife
<1>5. \A c \in Channels : Armed(t, c) /\ Announced(t, c)
  BY <1>1, <1>4 DEF NodeInv, Armed, Announced, Waits, Reports
<1>6. OutputOk(node, proc)' /\ \A c \in Channels : Armed(node, c)' /\ Announced(node, c)'
  BY <1>3, <1>5, OutputLater DEF t
<1>7. Typed' /\ Fresh(node)' /\ Bounded'
  BY <1>1, <1>4 DEF t, NodeInv, Typed, Fresh, Bounded
<1> QED  BY <1>6, <1>7 DEF NodeInv

LEMMA StdinWritableKeeps ==
    ASSUME NodeInv, HandleStdinWritable, UNCHANGED load
    PROVE  NodeInv'
<1> DEFINE e == [node.event EXCEPT !["stdin"] = FALSE]
           s == [node EXCEPT !.event["stdin"] = FALSE]
<1>1. /\ node.phase = "live" /\ node' = DrainStdin(s) /\ UNCHANGED <<proc, conn, load>>
      /\ peer' = [peer EXCEPT !.credit = peer.credit + Consumed(node, node')]
  BY DEF HandleStdinWritable
<1>2. node \in Stage /\ proc \in Group /\ peer \in [credit : Nat, sent : Nat, ended : BOOLEAN]
  BY DEF NodeInv, Typed
<1>3. e \in [Watches -> BOOLEAN] /\ \A ch \in Channels : e[ch] = node.event[ch]
  <2>1. node.event \in [Watches -> BOOLEAN] /\ Channels \subseteq Watches /\ "stdin" \notin Channels
    BY <1>2 DEF Stage, Watches, Channels
  <2> QED  BY <2>1
<1>4. s = [node EXCEPT !.event = e]
  BY Zenon
<1> HIDE DEF e, s
<1>5. /\ s \in Stage /\ s.event = e
      /\ SameLife(node, s) /\ SameStdin(node, s) /\ SameStream(node, s) /\ s.pipe = node.pipe
      /\ s.open = node.open /\ s.interest = node.interest /\ s.paused = node.paused
      /\ s.unwatched = node.unwatched
  BY <1>2, <1>3, <1>4 DEF Stage, SameLife, SameStdin, SameStream
<1>6. Drained(s, node')
  <2>1. s.stdinPipe <= PipeCap
    BY <1>5 DEF NodeInv, StdinOk, SameStdin
  <2> QED  BY <1>1, <1>2, <1>5, <2>1, DrainEffect
<1>7. /\ node' \in Stage /\ node'.phase = "live"
      /\ node'.stdinEndPending = node.stdinEndPending
      /\ node'.stdinBuffer <= node.stdinBuffer /\ node'.stdinPipe <= PipeCap
      /\ node'.stdinBuffer \in Nat /\ node.stdinBuffer \in Nat /\ peer.credit \in Nat
      /\ node'.stdinPipe \in Nat /\ node.stdinPipe \in Nat /\ proc.read \in Nat /\ peer.sent \in Nat
      /\ proc.reading =>
            /\ node'.stdinPipe + node'.stdinBuffer = node.stdinPipe + node.stdinBuffer
            /\ ~node'.stdinOpen => ~node.stdinOpen \/ (node'.stdinBuffer = 0 /\ node'.stdinEndPending)
  <2>1. node' \in Stage
    BY <1>6 DEF Drained
  <2>2. /\ node'.stdinBuffer \in Nat /\ node.stdinBuffer \in Nat /\ peer.credit \in Nat
        /\ node'.stdinPipe \in Nat /\ node.stdinPipe \in Nat /\ proc.read \in Nat /\ peer.sent \in Nat
    BY <1>2, <2>1 DEF Stage, Group
  <2>3. node'.phase = "live"
    BY <1>1, <1>5, <1>6 DEF Drained, SameLife
  <2> QED  BY <1>5, <1>6, <2>1, <2>2, <2>3, Zenon DEF Drained, SameStdin
<1>8. /\ peer' \in [credit : Nat, sent : Nat, ended : BOOLEAN]
      /\ peer'.credit = peer.credit + (node.stdinBuffer - node'.stdinBuffer)
      /\ peer'.sent = peer.sent /\ peer'.ended = peer.ended
  <2>1. peer.credit + (node.stdinBuffer - node'.stdinBuffer) \in Nat
    BY <1>7
  <2> QED  BY <1>1, <1>2, <2>1 DEF Consumed
<1>9. StdinOk(node, peer)'
  <2>1. peer'.credit + node'.stdinBuffer = Window
    BY <1>1, <1>7, <1>8 DEF NodeInv, StdinOk
  <2>2. node'.stdinEndPending => peer'.ended
    BY <1>1, <1>7, <1>8 DEF NodeInv, StdinOk
  <2>3. proc.reading => proc.read + node'.stdinPipe + node'.stdinBuffer = peer'.sent
    BY <1>1, <1>7, <1>8 DEF NodeInv, StdinOk
  <2>4. (proc.reading /\ ~node'.stdinOpen) => node'.stdinEndPending /\ node'.stdinBuffer = 0
    BY <1>1, <1>7 DEF NodeInv, StdinOk
  <2>5. Window \in Nat
    BY NodeStageAssumption
  <2> QED  BY <1>1, <1>7, <2>1, <2>2, <2>3, <2>4, <2>5 DEF StdinOk
<1>10. \A ch \in Channels : s.event[ch] = node.event[ch]
  BY <1>3, <1>5, Zenon
<1> QED  BY <1>1, <1>5, <1>6, <1>8, <1>9, <1>10, DrainedLater

\* stdin from the controller.
LEMMA DataKeeps ==
    ASSUME NodeInv, NEW k \in 0 .. load.input, NEW end \in BOOLEAN, HandleData(k, end), UNCHANGED load
    PROVE  NodeInv'
<1>1. /\ node \in Stage /\ proc \in Group /\ peer \in [credit : Nat, sent : Nat, ended : BOOLEAN]
      /\ k \in Nat /\ Window \in Nat
  <2>1. load.input \in Nat
    BY NodeStageAssumption DEF NodeInv, Typed
  <2> QED  BY <2>1, NodeStageAssumption DEF NodeInv, Typed
<1>2. /\ node.phase # "none" /\ ~peer.ended /\ k <= peer.credit
      /\ UNCHANGED <<proc, conn, load>>
  BY DEF HandleData
<1>3. CASE node.phase # "live"
  <2>1. /\ peer' = [credit |-> peer.credit - k, sent |-> peer.sent + k, ended |-> end]
        /\ node' = node
    BY <1>3 DEF HandleData
  <2>2. node.phase = "erased"
    BY <1>1, <1>2, <1>3 DEF Stage
  <2>3. peer' \in [credit : Nat, sent : Nat, ended : BOOLEAN] /\ peer'.credit = peer.credit - k
    BY <1>1, <1>2, <2>1
  <2>4. OutputOk(node, proc)' /\ \A c \in Channels : Armed(node, c)' /\ Announced(node, c)'
    BY <1>2, <2>1, OutputLater DEF NodeInv
  <2>5. Typed' /\ Fresh(node)' /\ Bounded'
    BY <1>2, <2>1, <2>2, <2>3 DEF NodeInv, Typed, Fresh, Bounded
  <2>6. StdinOk(node, peer)'
    <3>1. node.stdinBuffer \in Nat
      BY <1>1 DEF Stage
    <3> QED  BY <1>1, <1>2, <2>1, <2>2, <2>3, <3>1 DEF NodeInv, StdinOk
  <2> QED  BY <2>4, <2>5, <2>6 DEF NodeInv
<1>4. CASE node.phase = "live"
  <2> DEFINE s == [node EXCEPT !.stdinBuffer = node.stdinBuffer + k,
                               !.stdinEndPending = node.stdinEndPending \/ end]
  <2>1. /\ node' = DrainStdin(s)
        /\ peer' = [credit |-> peer.credit - k + Consumed(s, node'), sent |-> peer.sent + k, ended |-> end]
    BY <1>4 DEF HandleData
  <2>2. node.stdinBuffer \in Nat /\ node.stdinBuffer + k \in Nat
    BY <1>1 DEF Stage
  <2>3. PICK b \in BOOLEAN : b = (node.stdinEndPending \/ end)
    OBVIOUS
  <2>4. s = [node EXCEPT !.stdinBuffer = node.stdinBuffer + k, !.stdinEndPending = b]
    BY <2>3, Zenon
  <2> HIDE DEF s
  <2>5. /\ s \in Stage /\ s.stdinBuffer = node.stdinBuffer + k /\ s.stdinEndPending = b
        /\ s.stdinPipe = node.stdinPipe /\ s.stdinOpen = node.stdinOpen
        /\ SameLife(node, s) /\ SameStream(node, s) /\ s.pipe = node.pipe
        /\ s.open = node.open /\ s.interest = node.interest /\ s.paused = node.paused
        /\ s.unwatched = node.unwatched /\ s.event = node.event
    BY <1>1, <2>2, <2>4 DEF Stage, SameLife, SameStream
  <2>6. Drained(s, node')
    <3>1. s.stdinPipe <= PipeCap
      BY <2>5 DEF NodeInv, StdinOk
    <3> QED  BY <1>1, <2>1, <2>5, <3>1, DrainEffect
  <2>7. node' \in Stage /\ node'.phase = "live"
    BY <1>4, <2>5, <2>6 DEF Drained, SameLife
  <2>8. /\ node'.stdinEndPending = b
        /\ node'.stdinBuffer <= s.stdinBuffer /\ node'.stdinPipe <= PipeCap
        /\ proc.reading =>
              /\ node'.stdinPipe + node'.stdinBuffer = node.stdinPipe + s.stdinBuffer
              /\ ~node'.stdinOpen => ~node.stdinOpen \/ (node'.stdinBuffer = 0 /\ node'.stdinEndPending)
    BY <2>5, <2>6, Zenon DEF Drained
  <2>9. /\ node'.stdinBuffer \in Nat /\ node'.stdinPipe \in Nat /\ node.stdinPipe \in Nat
        /\ peer.credit \in Nat /\ peer.sent \in Nat /\ proc.read \in Nat
    BY <1>1, <2>7 DEF Stage, Group
  <2>10. peer.credit - k + Consumed(s, node') = Window - node'.stdinBuffer
    <3>1. peer.credit + node.stdinBuffer = Window
      BY <1>4 DEF NodeInv, StdinOk
    <3> QED  BY <1>1, <2>2, <2>5, <2>9, <3>1 DEF Consumed
  <2>11. node'.stdinBuffer <= Window
    <3>1. peer.credit + node.stdinBuffer = Window
      BY <1>4 DEF NodeInv, StdinOk
    <3> QED  BY <1>1, <1>2, <2>2, <2>5, <2>8, <2>9, <3>1
  <2>12. /\ peer' \in [credit : Nat, sent : Nat, ended : BOOLEAN]
         /\ peer'.credit = Window - node'.stdinBuffer /\ peer'.sent = peer.sent + k /\ peer'.ended = end
    BY <1>1, <2>1, <2>9, <2>10, <2>11
  <2>13. StdinOk(node, peer)'
    <3>1. peer'.credit + node'.stdinBuffer = Window
      BY <1>1, <2>9, <2>11, <2>12
    <3>2. node'.stdinEndPending => peer'.ended
      BY <1>2, <1>4, <2>3, <2>8, <2>12 DEF NodeInv, StdinOk
    <3>3. proc.reading => proc.read + node'.stdinPipe + node'.stdinBuffer = peer'.sent
      <4>1. proc.reading => proc.read + node.stdinPipe + node.stdinBuffer = peer.sent
        BY <1>4 DEF NodeInv, StdinOk
      <4> QED  BY <1>1, <2>2, <2>5, <2>8, <2>9, <2>12, <4>1
    <3>4. (proc.reading /\ ~node'.stdinOpen) => node'.stdinEndPending /\ node'.stdinBuffer = 0
      <4>1. (proc.reading /\ ~node.stdinOpen) => peer.ended
        BY <1>4 DEF NodeInv, StdinOk
      <4> QED  BY <1>2, <2>8, <4>1
    <3> QED  BY <1>1, <1>2, <2>7, <2>8, <3>1, <3>2, <3>3, <3>4 DEF StdinOk
  <2>14. \A ch \in Channels : s.event[ch] = node.event[ch]
    BY <2>5
  <2> QED  BY <1>2, <1>4, <2>5, <2>6, <2>12, <2>13, <2>14, DrainedLater
<1> QED  BY <1>3, <1>4

-----------------------------------------------------------------------------
(* Handlers that start, reap or end the stage. *)

LEMMA RefusedKeeps ==
    ASSUME NodeInv, OpenRefused, UNCHANGED load
    PROVE  NodeInv'
<1>1. PICK d \in 0 .. 1 :
        node' = [SendExit(Flush([node EXCEPT !.sendBytes = d]), 1) EXCEPT !.phase = "erased"]
  BY DEF OpenRefused
<1> DEFINE a == [node EXCEPT !.sendBytes = d]
           b == Flush(a)
           c == [b EXCEPT !.exitPending = TRUE, !.status = 1]
           f == Flush(c)
           t == node'
<1>2. /\ node \in Stage /\ proc \in Group /\ Window \in Nat \ {0} /\ Chunk \in Nat \ {0} /\ d \in Nat /\ d <= 1
      /\ UNCHANGED <<proc, conn, peer, load>> /\ node.phase = "none" /\ conn = "up"
  BY NodeStageAssumption DEF NodeInv, Typed, OpenRefused
<1>3. /\ a \in Stage /\ a.sendBytes = d /\ a.sendCredit = node.sendCredit
      /\ SameStdin(node, a) /\ a.pipe = node.pipe
  BY <1>2 DEF Stage, SameStdin
<1>4. t = [f EXCEPT !.phase = "erased"]
  BY <1>1 DEF SendExit
<1> HIDE DEF a, t
<1>5. b \in Stage /\ SameStdin(a, b) /\ b.pipe = a.pipe /\ Flushed(a, b)
  BY <1>3, FlushEffect, Zenon
<1> HIDE DEF b
<1>6. b.sendBytes = 0 /\ b.sendCredit <= Window /\ b.sendCredit \in Nat
  <2>1. a.sendCredit = Window
    BY <1>2, <1>3 DEF NodeInv, Fresh
  <2>2. b.sendCredit \in Nat
    BY <1>5 DEF Stage
  <2>3. /\ b.sendBytes = IF a.sendBytes <= a.sendCredit THEN 0 ELSE a.sendBytes - a.sendCredit
        /\ b.sendCredit <= a.sendCredit
    BY <1>5 DEF Flushed
  <2> QED  BY <1>2, <1>3, <2>1, <2>2, <2>3
<1>7. /\ c \in Stage /\ c.exitPending = TRUE /\ c.status = 1 /\ c.sendBytes = 0 /\ c.sendCredit = b.sendCredit
      /\ SameStdin(b, c) /\ c.pipe = b.pipe
  <2>1. 1 \in Exits
    BY DEF Exits, Statuses
  <2> QED  BY <1>5, <1>6, <2>1 DEF Stage, SameStdin
<1> HIDE DEF c
<1>8. f \in Stage /\ SameStdin(c, f) /\ SameLife(c, f) /\ f.pipe = c.pipe /\ Flushed(c, f)
  BY <1>7, FlushEffect, Zenon
<1> HIDE DEF f
<1>9. /\ f.sendBytes = 0 /\ f.exitPending = TRUE /\ ~f.streamOpen /\ f.exit = f.status
      /\ f.sendCredit <= Window
  <2>1. f.sendCredit \in Nat
    BY <1>8 DEF Stage
  <2>2. /\ f.sendBytes = IF c.sendBytes <= c.sendCredit THEN 0 ELSE c.sendBytes - c.sendCredit
        /\ f.sendCredit <= c.sendCredit /\ f.exitPending = c.exitPending
        /\ (c.exitPending /\ f.sendBytes = 0) => ~f.streamOpen /\ f.exit = c.status
    BY <1>8 DEF Flushed
  <2>3. f.status = c.status
    BY <1>8 DEF SameLife
  <2> QED  BY <1>2, <1>6, <1>7, <2>1, <2>2, <2>3
<1>10. /\ t \in Stage /\ t.phase = "erased" /\ t.status = f.status
       /\ SameStdin(f, t) /\ SameStream(f, t) /\ t.pipe = f.pipe
  BY <1>4, <1>8 DEF Stage, SameStdin, SameStream
<1>11. SameStdin(node, t) /\ t.pipe = node.pipe
  BY <1>3, <1>5, <1>7, <1>8, <1>10, Zenon DEF SameStdin
<1>12. proc.leader = "none"
  BY <1>2 DEF NodeInv, OutputOk, LifeOk
<1>13. OutputOk(t, proc)
  BY <1>2, <1>9, <1>10, <1>11, <1>12
     DEF NodeInv, OutputOk, StreamOk, Conserved, ReadersOk, PausedFull, LifeOk, SameStream
<1>14. \A ch \in Channels : Armed(t, ch) /\ Announced(t, ch)
  BY <1>10 DEF Armed, Announced, Waits
<1>15. OutputOk(node, proc)' /\ \A ch \in Channels : Armed(node, ch)' /\ Announced(node, ch)'
  BY <1>2, <1>13, <1>14, OutputLater DEF t
<1>16. Typed' /\ Fresh(node)' /\ Bounded'
  BY <1>2, <1>10 DEF t, NodeInv, Typed, Fresh, Bounded
<1>17. StdinOk(node, peer)'
  BY <1>2, <1>10, <1>11 DEF t, NodeInv, StdinOk, SameStdin
<1> QED  BY <1>15, <1>16, <1>17 DEF NodeInv

LEMMA SpawnedKeeps ==
    ASSUME NodeInv, OpenSpawned, UNCHANGED load
    PROVE  NodeInv'
<1> DEFINE i == [ch \in Channels |-> ch \notin load.unwatched]
           all == AllChannels(TRUE)
           t == node'
           p == proc'
<1>1. /\ node \in Stage /\ proc \in Group /\ load \in Loads /\ load.unwatched \in SUBSET Watches
      /\ UNCHANGED <<conn, peer, load>> /\ node.phase = "none" /\ conn = "up"
      /\ t = [node EXCEPT !.phase = "live", !.open = all, !.interest = i,
                          !.stdinOpen = TRUE, !.unwatched = load.unwatched]
      /\ p = [proc EXCEPT !.leader = "running", !.writing = all, !.reading = TRUE]
  BY NodeStageAssumption DEF NodeInv, Typed, OpenSpawned
<1>2. i \in [Channels -> BOOLEAN] /\ all \in [Channels -> BOOLEAN]
  BY DEF AllChannels
<1>3. \A ch \in Channels : all[ch] = TRUE /\ (ch \notin load.unwatched => i[ch])
  BY DEF AllChannels
<1> HIDE DEF i, all, t, p
<1>4. /\ t \in Stage /\ t.phase = "live" /\ t.open = all /\ t.interest = i /\ t.stdinOpen = TRUE
      /\ t.unwatched = load.unwatched
      /\ SameStream(node, t) /\ t.pipe = node.pipe /\ t.paused = node.paused /\ t.exited = node.exited
      /\ t.stdinBuffer = node.stdinBuffer /\ t.stdinEndPending = node.stdinEndPending
      /\ t.stdinPipe = node.stdinPipe /\ t.event = node.event /\ t.status = node.status
  BY <1>1, <1>2 DEF Stage, SameStream
<1>5. /\ p \in Group /\ p.leader = "running" /\ p.writing = all /\ p.reading = TRUE
      /\ p.written = proc.written /\ p.read = proc.read /\ p.status = proc.status
  BY <1>1, <1>2 DEF Group
<1>6. /\ node.delivered = 0 /\ ~node.paused /\ ~node.exited /\ ~node.stdinEndPending
      /\ node.stdinBuffer = 0 /\ node.stdinPipe = 0 /\ proc.read = 0 /\ peer.sent = 0
      /\ \A ch \in Channels : node.pipe[ch] = 0 /\ proc.written[ch] = 0
      /\ node.sendBytes = 0 /\ ~node.exitPending
  BY <1>1 DEF NodeInv, Fresh, OutputOk, StreamOk, LifeOk
<1>7. OutputOk(t, p)
  <2>1. StreamOk(t)
    BY <1>4, <1>6 DEF NodeInv, OutputOk, StreamOk, SameStream
  <2>2. Conserved(t, p)
    <3>1. /\ node.pipe["stdout"] = 0 /\ node.pipe["stderr"] = 0
          /\ proc.written["stdout"] = 0 /\ proc.written["stderr"] = 0
      BY <1>6 DEF Channels
    <3> QED  BY <1>4, <1>5, <1>6, <3>1 DEF Conserved, SameStream
  <2>3. ReadersOk(t, p)
    BY <1>3, <1>4, <1>6 DEF NodeInv, OutputOk, ReadersOk, SameStream
  <2>4. PausedFull(t) /\ LifeOk(t, p)
    BY <1>4, <1>5, <1>6 DEF PausedFull, LifeOk, SameStream
  <2> QED  BY <2>1, <2>2, <2>3, <2>4 DEF OutputOk
<1>8. ASSUME NEW ch \in Channels PROVE Armed(node, ch)' /\ Announced(node, ch)'
  <2>1. Armed(node, ch)'
    BY <1>3, <1>4 DEF Armed, Waits, t
  <2>2. ~Reports(node, ch, TRUE)'
    BY <1>3, <1>4, <1>5, <1>6 DEF Reports, t, p
  <2> QED  BY <2>1, <2>2 DEF Announced
<1>9. Typed' /\ Fresh(node)' /\ Bounded'
  BY <1>1, <1>4, <1>5 DEF t, p, NodeInv, Typed, Fresh, Bounded
<1>10. StdinOk(node, peer)'
  BY <1>1, <1>4, <1>5, <1>6 DEF t, p, NodeInv, StdinOk
<1> QED  BY <1>7, <1>8, <1>9, <1>10 DEF NodeInv, t, p

\* The reaped status is the one EXIT will carry.
LEMMA ChildKeeps ==
    ASSUME NodeInv, HandleChild, UNCHANGED load
    PROVE  NodeInv'
<1> DEFINE e == [node.event EXCEPT !["child"] = FALSE]
           s == [node EXCEPT !.event["child"] = FALSE, !.exited = TRUE, !.status = proc.status]
           t == node'
           p == proc'
<1>1. /\ node \in Stage /\ proc \in Group /\ node.phase = "live"
      /\ t = FinishIfDone(s) /\ p = [proc EXCEPT !.leader = "reaped"]
      /\ UNCHANGED <<conn, peer, load>>
  BY DEF NodeInv, Typed, HandleChild
<1>2. e \in [Watches -> BOOLEAN] /\ \A ch \in Channels : e[ch] = node.event[ch]
  <2>1. node.event \in [Watches -> BOOLEAN] /\ Channels \subseteq Watches /\ "child" \notin Channels
    BY <1>1 DEF Stage, Watches, Channels
  <2> QED  BY <2>1
<1>3. s = [node EXCEPT !.event = e, !.exited = TRUE, !.status = proc.status]
  BY Zenon
<1> HIDE DEF e, s, t, p
<1>4. /\ s \in Stage /\ s.event = e /\ s.phase = node.phase /\ s.exited = TRUE /\ s.status = proc.status
      /\ SameStdin(node, s) /\ SameStream(node, s) /\ s.pipe = node.pipe
      /\ s.open = node.open /\ s.interest = node.interest /\ s.paused = node.paused
      /\ s.unwatched = node.unwatched
  <2>1. proc.status \in Exits
    BY <1>1 DEF Group
  <2> QED  BY <1>1, <1>2, <1>3, <2>1 DEF Stage, SameStdin, SameStream
<1>5. /\ p \in Group /\ p.leader = "reaped" /\ p.writing = proc.writing /\ p.reading = proc.reading
      /\ p.written = proc.written /\ p.read = proc.read /\ p.status = proc.status
  BY <1>1 DEF Group
<1>6. proc.leader # "none"
  BY <1>1 DEF NodeInv, OutputOk, LifeOk
<1>7. OutputOk(s, p)
  <2>1. StreamOk(s)
    BY <1>1, <1>4 DEF NodeInv, OutputOk, StreamOk, SameStream
  <2>2. Conserved(s, p)
    BY <1>4, <1>5, <1>6 DEF NodeInv, OutputOk, Conserved, SameStream
  <2>3. ReadersOk(s, p)
    BY <1>4, <1>5, <1>6 DEF NodeInv, OutputOk, ReadersOk, SameStream
  <2>4. PausedFull(s) /\ LifeOk(s, p)
    BY <1>1, <1>4, <1>5 DEF NodeInv, OutputOk, PausedFull, LifeOk, SameStream
  <2> QED  BY <2>1, <2>2, <2>3, <2>4 DEF OutputOk
<1>8. /\ t \in Stage /\ OutputOk(t, p) /\ SameStdin(s, t)
      /\ t = s \/ t.phase = "erased"
  BY <1>1, <1>4, <1>5, <1>7, FinishKeeps, Zenon
<1>9. ASSUME NEW ch \in Channels PROVE Armed(node, ch)' /\ Announced(node, ch)'
  <2>1. CASE t.phase = "erased"
    BY <2>1 DEF t, Armed, Announced, Waits
  <2>2. CASE t = s
    <3>1. /\ t.phase = node.phase /\ t.open = node.open /\ t.interest = node.interest
          /\ t.paused = node.paused /\ t.unwatched = node.unwatched /\ t.pipe = node.pipe
          /\ t.event[ch] = node.event[ch]
      BY <1>2, <1>4, <2>2, Zenon
    <3> QED  BY <1>5, <3>1 DEF t, p, NodeInv, Armed, Announced, Waits, Reports
  <2> QED  BY <1>8, <2>1, <2>2
<1>10. SameStdin(node, t) /\ t.phase \in {"live", "erased"}
  BY <1>1, <1>4, <1>8, Zenon DEF SameStdin
<1>11. Typed' /\ Fresh(node)' /\ Bounded'
  BY <1>1, <1>5, <1>8, <1>10 DEF t, p, NodeInv, Typed, Fresh, Bounded
<1>12. StdinOk(node, peer)'
  BY <1>1, <1>5, <1>10 DEF t, p, NodeInv, StdinOk, SameStdin
<1> QED  BY <1>8, <1>9, <1>11, <1>12 DEF NodeInv, t, p

\* The destructor: whatever was running is reaped.
LEMMA TeardownKeeps ==
    ASSUME NodeInv, Teardown, UNCHANGED load
    PROVE  NodeInv'
<1> DEFINE t == node'
           p == proc'
           none == AllChannels(FALSE)
           silent == [w \in Watches |-> FALSE]
<1>1. /\ node \in Stage /\ proc \in Group /\ conn' = "gone" /\ UNCHANGED <<peer, load>>
      /\ t = [node EXCEPT !.phase = "erased", !.open = none, !.stdinOpen = FALSE, !.event = silent]
      /\ p = IF Kills(node) THEN [proc EXCEPT !.leader = "reaped", !.descendant = FALSE,
                                              !.writing = none, !.reading = FALSE]
             ELSE proc
  BY DEF NodeInv, Typed, Teardown
<1>2. none \in [Channels -> BOOLEAN] /\ silent \in [Watches -> BOOLEAN] /\ \A ch \in Channels : ~none[ch]
  BY DEF AllChannels
<1> HIDE DEF none, silent, t, p
<1>3. /\ t \in Stage /\ t.phase = "erased" /\ t.exited = node.exited /\ t.status = node.status
      /\ SameStream(node, t) /\ t.pipe = node.pipe
      /\ t.stdinBuffer = node.stdinBuffer /\ t.stdinPipe = node.stdinPipe
  BY <1>1, <1>2 DEF Stage, SameStream
<1>4. /\ p \in Group /\ p.written = proc.written /\ p.read = proc.read /\ p.status = proc.status
      /\ Kills(node) => p.leader = "reaped"
      /\ ~Kills(node) => p = proc
  BY <1>1, <1>2 DEF Group
<1>5. p.leader \in {"none", "reaped"} /\ (p.leader = "none" <=> proc.leader = "none")
  <2>1. Kills(node) => proc.leader # "none"
    BY DEF NodeInv, OutputOk, LifeOk, Kills
  <2>2. ~Kills(node) => proc.leader \in {"none", "reaped"}
    BY <1>1 DEF NodeInv, OutputOk, LifeOk, Kills, Stage
  <2> QED  BY <1>4, <2>1, <2>2
<1>6. OutputOk(t, p)
  <2>1. StreamOk(t)
    BY <1>3 DEF NodeInv, OutputOk, StreamOk, SameStream
  <2>2. Conserved(t, p)
    BY <1>3, <1>4, <1>5 DEF NodeInv, OutputOk, Conserved, SameStream
  <2>3. ReadersOk(t, p)
    BY <1>3, <1>4, <1>5 DEF NodeInv, OutputOk, ReadersOk, SameStream
  <2>4. PausedFull(t)
    BY <1>3 DEF PausedFull
  <2>5. LifeOk(t, p)
    <3>1. p.leader = "none" => p = proc
      BY <1>4
    <3> QED  BY <1>3, <1>4, <1>5, <3>1 DEF NodeInv, OutputOk, LifeOk, SameStream
  <2> QED  BY <2>1, <2>2, <2>3, <2>4, <2>5 DEF OutputOk
<1>7. \A ch \in Channels : Armed(node, ch)' /\ Announced(node, ch)'
  BY <1>3 DEF t, Armed, Announced, Waits
<1>8. Typed' /\ Fresh(node)' /\ Bounded'
  BY <1>1, <1>3, <1>4 DEF t, p, NodeInv, Typed, Fresh, Bounded
<1>9. StdinOk(node, peer)'
  BY <1>1, <1>3 DEF t, NodeInv, StdinOk
<1> QED  BY <1>6, <1>7, <1>8, <1>9 DEF NodeInv, t, p

LEMMA ConnectionLostKeeps ==
    ASSUME NodeInv, ConnectionLost, UNCHANGED load
    PROVE  NodeInv'
<1>1. conn' = "lost" /\ UNCHANGED <<node, proc, peer, load>>
  BY DEF ConnectionLost
<1>2. OutputOk(node, proc)' /\ \A c \in Channels : Armed(node, c)' /\ Announced(node, c)'
  BY <1>1, OutputLater DEF NodeInv
<1> QED  BY <1>1, <1>2 DEF NodeInv, Typed, StdinOk, Fresh, Bounded

-----------------------------------------------------------------------------
(* What the process group does. *)

LEMMA AliveIsStarted ==
    ASSUME NodeInv, GroupAlive
    PROVE  proc.leader # "none" /\ node.phase # "none"
BY DEF NodeInv, OutputOk, LifeOk, GroupAlive

\* A step of the group that writes nothing: descriptors may close, which is
\* announced; stdin may be read; the leader may exit.
LEMMA GroupStepKeeps ==
    ASSUME NodeInv, NEW t \in Stage, NEW p \in Group, node' = t, proc' = p,
           UNCHANGED <<conn, peer, load>>, node.phase # "none", proc.leader # "none",
           SameLife(node, t), SameStream(node, t), t.pipe = node.pipe,
           t.open = node.open, t.interest = node.interest, t.paused = node.paused,
           t.unwatched = node.unwatched, t.stdinOpen = node.stdinOpen,
           t.stdinBuffer = node.stdinBuffer, t.stdinEndPending = node.stdinEndPending,
           t.stdinPipe <= node.stdinPipe,
           p.reading => proc.reading /\ p.read + t.stdinPipe = proc.read + node.stdinPipe,
           p.written = proc.written,
           \A ch \in Channels : node.event[ch] => t.event[ch],
           \A ch \in Channels : p.writing[ch] => proc.writing[ch],
           \A ch \in Channels :
              (proc.writing[ch] /\ ~p.writing[ch] /\ node.open[ch] /\ ch \notin node.unwatched) => t.event[ch],
           \/ p.leader = proc.leader /\ p.status = proc.status
           \/ proc.leader = "running" /\ p.leader = "zombie"
    PROVE  NodeInv'
<1>1. node \in Stage /\ proc \in Group
  BY DEF NodeInv, Typed
<1>2. p.leader # "none" /\ t.phase = node.phase /\ t.exited = node.exited /\ t.status = node.status
  BY DEF SameLife
<1>3. proc.leader = "running" => node.phase = "live" /\ ~node.exited /\ ~node.exitPending
  BY <1>1 DEF NodeInv, OutputOk, StreamOk, LifeOk, Stage
<1>4. OutputOk(t, p)
  <2>1. StreamOk(t)
    BY <1>2 DEF NodeInv, OutputOk, StreamOk, SameStream
  <2>2. Conserved(t, p)
    BY DEF NodeInv, OutputOk, Conserved, SameStream
  <2>3. ReadersOk(t, p)
    BY <1>2 DEF NodeInv, OutputOk, ReadersOk, SameStream
  <2>4. PausedFull(t)
    BY <1>2 DEF NodeInv, OutputOk, PausedFull, SameStream
  <2>5. LifeOk(t, p)
    BY <1>2, <1>3 DEF NodeInv, OutputOk, LifeOk, SameStream
  <2> QED  BY <2>1, <2>2, <2>3, <2>4, <2>5 DEF OutputOk
<1>5. ASSUME NEW ch \in Channels PROVE Armed(node, ch)' /\ Announced(node, ch)'
  <2>1. Armed(node, ch)'
    BY <1>2 DEF NodeInv, Armed, Waits
  <2>2. Announced(node, ch)'
    <3>1. SUFFICES ASSUME Waits(node, ch), ~p.writing[ch] \/ node.pipe[ch] > 0 PROVE t.event[ch]
      BY <1>2 DEF Announced, Waits, Reports
    <3>2. CASE ~proc.writing[ch] \/ node.pipe[ch] > 0
      BY <3>1, <3>2 DEF NodeInv, Announced, Reports
    <3>3. CASE proc.writing[ch] /\ ~(node.pipe[ch] > 0)
      BY <3>1, <3>3 DEF Waits
    <3> QED  BY <3>2, <3>3
  <2> QED  BY <2>1, <2>2
<1>6. Typed' /\ Fresh(node)' /\ Bounded'
  BY <1>2 DEF NodeInv, Typed, Fresh, Bounded
<1>7. StdinOk(node, peer)'
  <2>1. /\ t.stdinPipe \in Nat /\ node.stdinPipe \in Nat /\ PipeCap \in Nat /\ p.read \in Nat
        /\ proc.read \in Nat /\ node.stdinBuffer \in Nat
    BY <1>1, NodeStageAssumption DEF Stage, Group
  <2>2. t.stdinPipe <= PipeCap
    BY <2>1 DEF NodeInv, StdinOk
  <2>3. (t.phase = "live" /\ p.reading) => p.read + t.stdinPipe + t.stdinBuffer = peer.sent
    <3>1. (node.phase = "live" /\ proc.reading) => proc.read + node.stdinPipe + node.stdinBuffer = peer.sent
      BY DEF NodeInv, StdinOk
    <3> QED  BY <1>2, <2>1, <3>1
  <2> QED  BY <1>2, <2>2, <2>3 DEF NodeInv, StdinOk
<1> QED  BY <1>4, <1>5, <1>6, <1>7 DEF NodeInv

\* Closing the far ends of closing changes nothing but announcements, and takes
\* what stdin's pipe held with it.
HungUp(s, t, closing) ==
    /\ t \in Stage
    /\ SameLife(s, t) /\ SameStream(s, t) /\ t.pipe = s.pipe
    /\ t.open = s.open /\ t.interest = s.interest /\ t.paused = s.paused /\ t.unwatched = s.unwatched
    /\ t.stdinOpen = s.stdinOpen /\ t.stdinBuffer = s.stdinBuffer /\ t.stdinEndPending = s.stdinEndPending
    /\ t.stdinPipe <= s.stdinPipe
    /\ "stdin" \notin closing => t.stdinPipe = s.stdinPipe
    /\ \A ch \in Channels : s.event[ch] => t.event[ch]
    /\ \A ch \in Channels : (ch \in closing /\ s.open[ch] /\ ch \notin s.unwatched) => t.event[ch]

LEMMA HangsUpEffect ==
    ASSUME NEW s \in Stage, NEW closing
    PROVE  HungUp(s, HangsUp(s, closing), closing)
<1> DEFINE watched == {w \in closing \ s.unwatched : IF w = "stdin" THEN s.stdinOpen ELSE s.open[w]}
           e == [w \in Watches |-> s.event[w] \/ w \in watched]
           n == IF "stdin" \in closing THEN 0 ELSE s.stdinPipe
           t == HangsUp(s, closing)
<1>1. t = [s EXCEPT !.event = e, !.stdinPipe = n]
  BY Zenon DEF HangsUp
<1>2. n \in Nat /\ n <= s.stdinPipe /\ s.stdinPipe \in Nat /\ ("stdin" \notin closing => n = s.stdinPipe)
  BY DEF Stage
<1>3. e \in [Watches -> BOOLEAN]
  <2>1. \A w \in Watches : (s.event[w] \/ w \in watched) \in BOOLEAN
    BY Zenon
  <2> QED  BY <2>1, Zenon
<1>4. ASSUME NEW ch \in Channels
      PROVE  /\ s.event[ch] => e[ch]
             /\ (ch \in closing /\ s.open[ch] /\ ch \notin s.unwatched) => e[ch]
  <2>1. ch \in Watches /\ ch # "stdin"
    BY DEF Watches, Channels
  <2>2. e[ch] = (s.event[ch] \/ ch \in watched)
    BY <2>1, Zenon
  <2>3. (ch \in closing /\ s.open[ch] /\ ch \notin s.unwatched) => ch \in watched
    BY <2>1
  <2> HIDE DEF watched, e
  <2> QED  BY <2>2, <2>3
<1> HIDE DEF e, n, t
<1>5. /\ t \in Stage /\ t.event = e /\ t.stdinPipe = n
      /\ SameLife(s, t) /\ SameStream(s, t) /\ t.pipe = s.pipe
      /\ t.open = s.open /\ t.interest = s.interest /\ t.paused = s.paused /\ t.unwatched = s.unwatched
      /\ t.stdinOpen = s.stdinOpen /\ t.stdinBuffer = s.stdinBuffer /\ t.stdinEndPending = s.stdinEndPending
  BY <1>1, <1>2, <1>3 DEF Stage, SameLife, SameStream
<1>6. HungUp(s, t, closing)
  BY <1>2, <1>4, <1>5 DEF HungUp
<1> QED  BY <1>6 DEF t

LEMMA ClosesOutputKeeps ==
    ASSUME NodeInv, NEW ch \in Channels, ProcessClosesOutput(ch), UNCHANGED load
    PROVE  NodeInv'
<1> DEFINE w == [proc.writing EXCEPT ![ch] = FALSE]
           t == node'
           p == proc'
<1>1. /\ GroupAlive /\ p = [proc EXCEPT !.writing = w] /\ t = HangsUp(node, {ch})
      /\ UNCHANGED <<conn, peer, load>> /\ node \in Stage /\ proc \in Group
  BY DEF ProcessClosesOutput, NodeInv, Typed
<1>2. /\ w \in [Channels -> BOOLEAN]
      /\ \A c \in Channels : (w[c] => proc.writing[c]) /\ (proc.writing[c] /\ ~w[c] => c = ch)
  <2>1. proc.writing \in [Channels -> BOOLEAN]
    BY <1>1 DEF Group
  <2> QED  BY <2>1
<1>3. HungUp(node, t, {ch})
  BY <1>1, HangsUpEffect
<1>4. "stdin" \notin {ch}
  BY DEF Channels
<1> HIDE DEF w, t, p
<1>5. /\ p \in Group /\ p.writing = w /\ p.leader = proc.leader /\ p.status = proc.status
      /\ p.reading = proc.reading /\ p.read = proc.read /\ p.written = proc.written
  BY <1>1, <1>2 DEF Group
<1>6. /\ p.reading => proc.reading /\ p.read + t.stdinPipe = proc.read + node.stdinPipe
      /\ \A c \in Channels : p.writing[c] => proc.writing[c]
      /\ \A c \in Channels :
            (proc.writing[c] /\ ~p.writing[c] /\ node.open[c] /\ c \notin node.unwatched) => t.event[c]
  BY <1>2, <1>3, <1>4, <1>5 DEF HungUp
<1>7. NodeInv'
  BY <1>1, <1>3, <1>5, <1>6, AliveIsStarted, GroupStepKeeps DEF HungUp, t, p
<1> QED  BY <1>7

LEMMA ReadsStdinKeeps ==
    ASSUME NodeInv, NEW k \in 1 .. PipeCap, ProcessReadsStdin(k), UNCHANGED load
    PROVE  NodeInv'
<1> DEFINE t == node'
           p == proc'
           e == [node.event EXCEPT !["stdin"] = node.event["stdin"] \/ node.stdinInterest]
<1>1. /\ GroupAlive /\ k \in 1 .. node.stdinPipe
      /\ p = [proc EXCEPT !.read = proc.read + k]
      /\ t = [node EXCEPT !.stdinPipe = node.stdinPipe - k,
                          !.event["stdin"] = node.event["stdin"] \/ node.stdinInterest]
      /\ UNCHANGED <<conn, peer, load>> /\ node \in Stage /\ proc \in Group
  BY DEF ProcessReadsStdin, NodeInv, Typed
<1>2. e \in [Watches -> BOOLEAN] /\ \A c \in Channels : e[c] = node.event[c]
  <2>1. node.event \in [Watches -> BOOLEAN] /\ Channels \subseteq Watches /\ "stdin" \notin Channels
    BY <1>1 DEF Stage, Watches, Channels
  <2>2. PICK b \in BOOLEAN : b = (node.event["stdin"] \/ node.stdinInterest)
    OBVIOUS
  <2>3. e = [node.event EXCEPT !["stdin"] = b]
    BY <2>2, Zenon
  <2> HIDE DEF e
  <2> QED  BY <2>1, <2>3
<1>3. /\ node.stdinPipe \in Nat /\ proc.read \in Nat /\ k \in Nat /\ k <= node.stdinPipe
      /\ node.stdinPipe - k \in Nat /\ proc.read + k \in Nat
  <2>1. node.stdinPipe \in Nat /\ proc.read \in Nat
    BY <1>1 DEF Stage, Group
  <2> QED  BY <1>1, <2>1
<1>4. t = [node EXCEPT !.stdinPipe = node.stdinPipe - k, !.event = e]
  BY <1>1, Zenon
<1> HIDE DEF e, t, p
<1>5. /\ t \in Stage /\ t.event = e /\ t.stdinPipe = node.stdinPipe - k
      /\ SameLife(node, t) /\ SameStream(node, t) /\ t.pipe = node.pipe
      /\ t.open = node.open /\ t.interest = node.interest /\ t.paused = node.paused
      /\ t.unwatched = node.unwatched /\ t.stdinOpen = node.stdinOpen
      /\ t.stdinBuffer = node.stdinBuffer /\ t.stdinEndPending = node.stdinEndPending
  BY <1>1, <1>2, <1>3, <1>4, ZenonT(60) DEF Stage, SameLife, SameStream
<1>6. /\ p \in Group /\ p.writing = proc.writing /\ p.leader = proc.leader /\ p.status = proc.status
      /\ p.reading = proc.reading /\ p.read = proc.read + k /\ p.written = proc.written
  BY <1>1, <1>3 DEF Group
<1>7. /\ t.stdinPipe <= node.stdinPipe
      /\ p.read + t.stdinPipe = proc.read + node.stdinPipe
      /\ \A c \in Channels : node.event[c] => t.event[c]
  BY <1>2, <1>3, <1>5, <1>6
<1>8. NodeInv'
  BY <1>1, <1>5, <1>6, <1>7, AliveIsStarted, GroupStepKeeps DEF t, p
<1> QED  BY <1>8

LEMMA ClosesStdinKeeps ==
    ASSUME NodeInv, ProcessClosesStdin, UNCHANGED load
    PROVE  NodeInv'
<1> DEFINE t == node'
           p == proc'
<1>1. /\ GroupAlive /\ p = [proc EXCEPT !.reading = FALSE] /\ t = HangsUp(node, {"stdin"})
      /\ UNCHANGED <<conn, peer, load>> /\ node \in Stage /\ proc \in Group
  BY DEF ProcessClosesStdin, NodeInv, Typed
<1>2. HungUp(node, t, {"stdin"})
  BY <1>1, HangsUpEffect
<1> HIDE DEF t, p
<1>3. /\ p \in Group /\ p.writing = proc.writing /\ p.leader = proc.leader /\ p.status = proc.status
      /\ p.reading = FALSE /\ p.written = proc.written
  BY <1>1 DEF Group
<1>4. NodeInv'
  BY <1>1, <1>2, <1>3, AliveIsStarted, GroupStepKeeps DEF HungUp, t, p
<1> QED  BY <1>4

LEMMA ForksKeeps ==
    ASSUME NodeInv, ProcessForks, UNCHANGED load
    PROVE  NodeInv'
<1> DEFINE p == proc'
<1>1. /\ GroupAlive /\ p = [proc EXCEPT !.descendant = TRUE]
      /\ node' = node /\ UNCHANGED <<conn, peer, load>> /\ node \in Stage /\ proc \in Group
  BY DEF ProcessForks, GroupAlive, NodeInv, Typed
<1> HIDE DEF p
<1>2. /\ p \in Group /\ p.writing = proc.writing /\ p.leader = proc.leader /\ p.status = proc.status
      /\ p.reading = proc.reading /\ p.written = proc.written /\ p.read = proc.read
  BY <1>1 DEF Group
<1>3. node.stdinPipe <= node.stdinPipe
  BY <1>1 DEF Stage
<1>4. SameLife(node, node) /\ SameStream(node, node)
  BY DEF SameLife, SameStream
<1>5. NodeInv'
  BY <1>1, <1>2, <1>3, <1>4, AliveIsStarted, GroupStepKeeps DEF p
<1> QED  BY <1>5

\* The group's descriptors close: each one that was open is announced.
LEMMA GroupEndsKeeps ==
    ASSUME NodeInv, NEW s \in Stage, NEW q \in Group, node' = GroupHangsUp(s), proc' = GroupEnds(q),
           UNCHANGED <<conn, peer, load>>, node.phase # "none", proc.leader # "none",
           SameLife(node, s), SameStream(node, s), SameStdin(node, s), s.pipe = node.pipe,
           s.open = node.open, s.interest = node.interest, s.paused = node.paused,
           s.unwatched = node.unwatched, \A ch \in Channels : s.event[ch] = node.event[ch],
           q.written = proc.written,
           \/ q.leader = proc.leader /\ q.status = proc.status
           \/ proc.leader = "running" /\ q.leader = "zombie"
    PROVE  NodeInv'
<1> DEFINE closing == {ch \in Channels : proc.writing[ch]} \cup (IF proc.reading THEN {"stdin"} ELSE {})
           none == AllChannels(FALSE)
           t == node'
           p == proc'
<1>1. t = HangsUp(s, closing)
  BY DEF GroupHangsUp
<1>2. HungUp(s, t, closing)
  BY <1>1, HangsUpEffect
<1>3. \A ch \in Channels : proc.writing[ch] => ch \in closing
  OBVIOUS
<1>4. none \in [Channels -> BOOLEAN] /\ \A ch \in Channels : ~none[ch]
  BY DEF AllChannels
<1>5. p = [q EXCEPT !.writing = none, !.reading = FALSE]
  BY DEF GroupEnds
<1> HIDE DEF closing, none, t, p
<1>6. /\ p \in Group /\ p.writing = none /\ p.reading = FALSE /\ p.leader = q.leader
      /\ p.status = q.status /\ p.written = q.written
  BY <1>4, <1>5 DEF Group
<1>7. /\ SameLife(node, t) /\ SameStream(node, t) /\ t.pipe = node.pipe
      /\ t.open = node.open /\ t.interest = node.interest /\ t.paused = node.paused
      /\ t.unwatched = node.unwatched
      /\ t.stdinOpen = node.stdinOpen /\ t.stdinBuffer = node.stdinBuffer
      /\ t.stdinEndPending = node.stdinEndPending /\ t.stdinPipe <= node.stdinPipe
  BY <1>2, Zenon DEF HungUp, SameLife, SameStream, SameStdin
<1>8. /\ \A ch \in Channels : node.event[ch] => t.event[ch]
      /\ \A ch \in Channels : p.writing[ch] => proc.writing[ch]
      /\ \A ch \in Channels :
            (proc.writing[ch] /\ ~p.writing[ch] /\ node.open[ch] /\ ch \notin node.unwatched) => t.event[ch]
  BY <1>2, <1>3, <1>4, <1>6 DEF HungUp
<1>9. t \in Stage
  BY <1>2 DEF HungUp
<1>10. NodeInv'
  BY <1>6, <1>7, <1>8, <1>9, GroupStepKeeps DEF t, p
<1> QED  BY <1>10

LEMMA LeaderExitsKeeps ==
    ASSUME NodeInv, NEW status \in Statuses, LeaderExits(status), UNCHANGED load
    PROVE  NodeInv'
<1> DEFINE q == [proc EXCEPT !.leader = "zombie", !.status = status]
           e == [node.event EXCEPT !["child"] = node.phase = "live" /\ "child" \notin node.unwatched]
           s == [node EXCEPT !.event["child"] = node.phase = "live" /\ "child" \notin node.unwatched]
<1>1. /\ proc.leader = "running" /\ UNCHANGED <<conn, peer, load>>
      /\ IF proc.descendant THEN proc' = q /\ node' = s ELSE proc' = GroupEnds(q) /\ node' = GroupHangsUp(s)
  BY DEF LeaderExits
<1>2. /\ node \in Stage /\ proc \in Group /\ node.phase # "none" /\ proc.leader # "none"
  BY <1>1, AliveIsStarted DEF NodeInv, Typed, GroupAlive
<1>3. /\ e \in [Watches -> BOOLEAN] /\ \A c \in Channels : e[c] = node.event[c]
  <2>1. node.event \in [Watches -> BOOLEAN] /\ Channels \subseteq Watches /\ "child" \notin Channels
    BY <1>2 DEF Stage, Watches, Channels
  <2>2. PICK b \in BOOLEAN : b = (node.phase = "live" /\ "child" \notin node.unwatched)
    OBVIOUS
  <2>3. e = [node.event EXCEPT !["child"] = b]
    BY <2>2, Zenon
  <2> HIDE DEF e
  <2> QED  BY <2>1, <2>3
<1>4. s = [node EXCEPT !.event = e]
  BY Zenon
<1> HIDE DEF q, e, s
<1>5. /\ s \in Stage /\ s.event = e
      /\ SameLife(node, s) /\ SameStream(node, s) /\ SameStdin(node, s) /\ s.pipe = node.pipe
      /\ s.open = node.open /\ s.interest = node.interest /\ s.paused = node.paused
      /\ s.unwatched = node.unwatched
  BY <1>2, <1>3, <1>4 DEF Stage, SameLife, SameStream, SameStdin
<1>6. /\ q \in Group /\ q.leader = "zombie" /\ q.writing = proc.writing /\ q.reading = proc.reading
      /\ q.written = proc.written /\ q.read = proc.read
  BY <1>2 DEF q, Group, Exits
<1>7. \A c \in Channels : s.event[c] = node.event[c]
  BY <1>3, <1>5, Zenon
<1>8. CASE proc.descendant
  <2>1. proc' = q /\ node' = s
    BY <1>1, <1>8
  <2>2. s.stdinPipe <= node.stdinPipe
    BY <1>2, <1>5 DEF Stage, SameStdin
  <2>3. s.stdinOpen = node.stdinOpen /\ s.stdinBuffer = node.stdinBuffer
        /\ s.stdinEndPending = node.stdinEndPending /\ s.stdinPipe = node.stdinPipe
    BY <1>5 DEF SameStdin
  <2> QED  BY <1>1, <1>2, <1>5, <1>6, <1>7, <2>1, <2>2, <2>3, GroupStepKeeps
<1>9. CASE ~proc.descendant
  BY <1>1, <1>2, <1>5, <1>6, <1>7, <1>9, GroupEndsKeeps
<1> QED  BY <1>8, <1>9

LEMMA DescendantExitsKeeps ==
    ASSUME NodeInv, DescendantExits, UNCHANGED load
    PROVE  NodeInv'
<1> DEFINE q == [proc EXCEPT !.descendant = FALSE]
<1>1. /\ proc.descendant /\ UNCHANGED <<conn, peer, load>>
      /\ IF proc.leader = "running" THEN proc' = q /\ node' = node
         ELSE proc' = GroupEnds(q) /\ node' = GroupHangsUp(node)
  BY DEF DescendantExits
<1>2. /\ node \in Stage /\ proc \in Group /\ node.phase # "none" /\ proc.leader # "none"
  BY <1>1, AliveIsStarted DEF NodeInv, Typed, GroupAlive
<1> HIDE DEF q
<1>3. /\ q \in Group /\ q.leader = proc.leader /\ q.writing = proc.writing /\ q.reading = proc.reading
      /\ q.written = proc.written /\ q.read = proc.read /\ q.status = proc.status
  BY <1>2 DEF q, Group
<1>4. SameLife(node, node) /\ SameStream(node, node) /\ SameStdin(node, node)
  BY DEF SameLife, SameStream, SameStdin
<1>5. node.stdinPipe <= node.stdinPipe
  BY <1>2 DEF Stage
<1>6. CASE proc.leader = "running"
  BY <1>1, <1>2, <1>3, <1>4, <1>5, <1>6, GroupStepKeeps
<1>7. CASE proc.leader # "running"
  BY <1>1, <1>2, <1>3, <1>4, <1>7, GroupEndsKeeps
<1> QED  BY <1>6, <1>7

LEMMA WritesKeeps ==
    ASSUME NodeInv, NEW ch \in Channels, NEW k \in 1 .. PipeCap, ProcessWrites(ch, k), UNCHANGED load
    PROVE  NodeInv'
<1> DEFINE w == [proc.written EXCEPT ![ch] = proc.written[ch] + k]
           n == [node.pipe EXCEPT ![ch] = node.pipe[ch] + k]
           e == [node.event EXCEPT ![ch] = node.event[ch] \/ node.interest[ch]]
           t == node'
           p == proc'
<1>1. /\ GroupAlive /\ proc.writing[ch] /\ node.phase = "live"
      /\ k \in 1 .. PipeCap - node.pipe[ch] /\ proc.written[ch] + k <= load.output
      /\ UNCHANGED <<conn, peer, load>> /\ node \in Stage /\ proc \in Group
      /\ p = [proc EXCEPT !.written = w]
      /\ t = [node EXCEPT !.pipe = n, !.event = e]
  BY Zenon DEF ProcessWrites, NodeInv, Typed
<1>2. proc.leader # "none" /\ node.open[ch]
  BY <1>1, AliveIsStarted DEF NodeInv, OutputOk, ReadersOk
<1>3. /\ node.pipe \in [Channels -> Nat] /\ proc.written \in [Channels -> Nat]
      /\ node.event \in [Watches -> BOOLEAN] /\ Channels \subseteq Watches /\ PipeCap \in Nat
  BY <1>1, NodeStageAssumption DEF Stage, Group, Watches
<1>4. /\ k \in Nat /\ node.pipe[ch] \in Nat /\ proc.written[ch] \in Nat
      /\ node.pipe[ch] + k \in Nat /\ proc.written[ch] + k \in Nat /\ node.pipe[ch] + k <= PipeCap
  BY <1>1, <1>3
<1>5. /\ w \in [Channels -> Nat] /\ w[ch] = proc.written[ch] + k
      /\ \A c \in Channels \ {ch} : w[c] = proc.written[c]
      /\ n \in [Channels -> Nat] /\ n[ch] = node.pipe[ch] + k
      /\ \A c \in Channels \ {ch} : n[c] = node.pipe[c]
  BY <1>3, <1>4
<1>6. /\ e \in [Watches -> BOOLEAN] /\ (node.interest[ch] => e[ch])
      /\ \A c \in Channels \ {ch} : e[c] = node.event[c]
  <2>1. PICK b \in BOOLEAN : b = (node.event[ch] \/ node.interest[ch])
    OBVIOUS
  <2>2. e = [node.event EXCEPT ![ch] = b]
    BY <2>1, Zenon
  <2> HIDE DEF e
  <2> QED  BY <1>3, <2>1, <2>2
<1> HIDE DEF w, n, e, t, p
<1>7. /\ t \in Stage /\ t.pipe = n /\ t.event = e
      /\ SameLife(node, t) /\ SameStream(node, t) /\ SameStdin(node, t)
      /\ t.open = node.open /\ t.interest = node.interest /\ t.paused = node.paused
      /\ t.unwatched = node.unwatched
  BY <1>1, <1>5, <1>6 DEF Stage, SameLife, SameStream, SameStdin
<1>8. /\ p \in Group /\ p.written = w /\ p.leader = proc.leader /\ p.status = proc.status
      /\ p.writing = proc.writing /\ p.reading = proc.reading /\ p.read = proc.read
      /\ p.descendant = proc.descendant
  BY <1>1, <1>5 DEF Group
<1>9. t.phase = "live" /\ t.exited = node.exited /\ t.status = node.status
  BY <1>1, <1>7 DEF SameLife
<1>10. OutputOk(t, p)
  <2>1. StreamOk(t) /\ PausedFull(t)
    BY <1>1, <1>7, <1>9 DEF NodeInv, OutputOk, StreamOk, PausedFull, SameStream
  <2>2. Conserved(t, p)
    <3>1. ch = "stdout" \/ ch = "stderr"
      BY DEF Channels
    <3>2. /\ node.pipe["stdout"] \in Nat /\ node.pipe["stderr"] \in Nat
          /\ proc.written["stdout"] \in Nat /\ proc.written["stderr"] \in Nat
          /\ node.delivered \in Nat /\ node.sendBytes \in Nat
      BY <1>1, <1>3 DEF Channels, Stage
    <3>3. /\ n["stdout"] + n["stderr"] = node.pipe["stdout"] + node.pipe["stderr"] + k
          /\ w["stdout"] + w["stderr"] = proc.written["stdout"] + proc.written["stderr"] + k
      BY <1>4, <1>5, <3>1, <3>2 DEF Channels
    <3>4. n["stdout"] \in Nat /\ n["stderr"] \in Nat /\ w["stdout"] \in Nat /\ w["stderr"] \in Nat
      BY <1>5 DEF Channels
    <3>5. node.delivered + node.sendBytes + node.pipe["stdout"] + node.pipe["stderr"]
            = proc.written["stdout"] + proc.written["stderr"]
      BY <1>2 DEF NodeInv, OutputOk, Conserved
    <3>6. node.delivered + node.sendBytes + n["stdout"] + n["stderr"] = w["stdout"] + w["stderr"]
      BY <1>4, <3>2, <3>3, <3>4, <3>5
    <3> QED  BY <1>7, <1>8, <3>6 DEF Conserved, SameStream
  <2>3. ReadersOk(t, p)
    <3>1. \A c \in Channels : n[c] <= PipeCap
      BY <1>4, <1>5 DEF NodeInv, OutputOk, ReadersOk
    <3>2. \A c \in Channels : ~t.open[c] => c # ch /\ ~p.writing[c] /\ t.pipe[c] = 0
      BY <1>1, <1>2, <1>5, <1>7, <1>8 DEF NodeInv, OutputOk, ReadersOk
    <3>3. ~t.exitPending
      BY <1>1, <1>7 DEF NodeInv, OutputOk, StreamOk, SameStream
    <3> QED  BY <1>7, <3>1, <3>2, <3>3 DEF ReadersOk
  <2>4. LifeOk(t, p)
    BY <1>1, <1>7, <1>8, <1>9 DEF NodeInv, OutputOk, LifeOk, SameStream
  <2> QED  BY <2>1, <2>2, <2>3, <2>4 DEF OutputOk
<1>11. ASSUME NEW c \in Channels PROVE Armed(node, c)' /\ Announced(node, c)'
  <2>1. Armed(node, c)'
    BY <1>1, <1>7, <1>9 DEF NodeInv, Armed, Waits, t
  <2>2. CASE c = ch
    BY <1>6, <1>7, <2>1, <2>2 DEF Armed, Announced, t
  <2>3. CASE c # ch
    <3>1. t.event[c] = node.event[c] /\ t.pipe[c] = node.pipe[c]
      BY <1>5, <1>6, <1>7, <2>3
    <3>2. Announced(node, c)
      BY DEF NodeInv
    <3>3. Announced(node, c)'
      BY <1>1, <1>7, <1>8, <1>9, <3>1, <3>2 DEF Announced, Waits, Reports, t, p
    <3> QED  BY <2>1, <3>3
  <2> QED  BY <2>1, <2>2, <2>3
<1>12. Typed' /\ Fresh(node)'
  BY <1>1, <1>7, <1>8, <1>9 DEF t, p, NodeInv, Typed, Fresh
<1>13. Bounded'
  <2>1. \A c \in Channels : w[c] <= load.output
    BY <1>1, <1>5 DEF NodeInv, Bounded
  <2> QED  BY <1>1, <1>8, <2>1 DEF t, p, NodeInv, Bounded
<1>14. StdinOk(node, peer)'
  BY <1>1, <1>7, <1>8, <1>9 DEF t, p, NodeInv, StdinOk, SameStdin
<1> QED  BY <1>10, <1>11, <1>12, <1>13, <1>14 DEF NodeInv, t, p

-----------------------------------------------------------------------------
(* The invariant *)

LEMMA InitHolds == Init => NodeInv
<1> SUFFICES ASSUME Init PROVE NodeInv
  OBVIOUS
<1> DEFINE none == AllChannels(FALSE)
           zero == AllChannels(0)
           silent == [w \in Watches |-> FALSE]
<1>1. /\ none \in [Channels -> BOOLEAN] /\ zero \in [Channels -> Nat] /\ silent \in [Watches -> BOOLEAN]
      /\ \A ch \in Channels : ~none[ch] /\ zero[ch] = 0 /\ ~silent[ch]
  BY DEF AllChannels, Watches
<1>2. /\ node = [phase |-> "none", open |-> none, interest |-> none,
                 stdinOpen |-> FALSE, stdinBuffer |-> 0, stdinEndPending |-> FALSE,
                 stdinInterest |-> FALSE, exited |-> FALSE, paused |-> FALSE, status |-> None,
                 unwatched |-> {}, pipe |-> zero, stdinPipe |-> 0, event |-> silent,
                 streamOpen |-> TRUE, sendBytes |-> 0, sendCredit |-> Window,
                 exitPending |-> FALSE, exit |-> None, delivered |-> 0]
      /\ proc = [leader |-> "none", descendant |-> FALSE, status |-> None,
                 writing |-> none, reading |-> FALSE, written |-> zero, read |-> 0]
      /\ conn = "up" /\ peer = [credit |-> Window, sent |-> 0, ended |-> FALSE] /\ load \in Loads
  BY Zenon DEF Init
<1> HIDE DEF none, zero, silent
<1>3. Window \in Nat \ {0} /\ Chunk \in Nat \ {0} /\ PipeCap \in Nat \ {0} /\ load.output \in Nat
  BY <1>2, NodeStageAssumption
<1>4. node \in Stage
  BY <1>1, <1>2, <1>3 DEF Stage, Exits
<1>5. proc \in Group
  BY <1>1, <1>2 DEF Group, Exits
<1>6. Typed
  BY <1>2, <1>3, <1>4, <1>5 DEF Typed
<1>7. StreamOk(node) /\ Conserved(node, proc) /\ ReadersOk(node, proc) /\ PausedFull(node) /\ LifeOk(node, proc)
  BY <1>1, <1>2, <1>3 DEF StreamOk, Conserved, ReadersOk, PausedFull, LifeOk
<1>8. \A ch \in Channels : Armed(node, ch) /\ Announced(node, ch)
  BY <1>2 DEF Armed, Announced, Waits
<1>9. StdinOk(node, peer) /\ Fresh(node) /\ Bounded
  BY <1>1, <1>2, <1>3 DEF StdinOk, Fresh, Bounded
<1> QED  BY <1>6, <1>7, <1>8, <1>9 DEF NodeInv, OutputOk

LEMMA StepHolds == NodeInv /\ [Next]_vars => NodeInv'
<1> SUFFICES ASSUME NodeInv, [Next]_vars PROVE NodeInv'
  OBVIOUS
<1>1. CASE UNCHANGED vars
  <2>1. UNCHANGED <<node, proc, conn, peer, load>>
    BY <1>1 DEF vars
  <2>2. OutputOk(node, proc)' /\ \A c \in Channels : Armed(node, c)' /\ Announced(node, c)'
    BY <2>1, OutputLater DEF NodeInv
  <2> QED  BY <2>1, <2>2 DEF NodeInv, Typed, StdinOk, Fresh, Bounded
<1>2. CASE Next
  <2>1. UNCHANGED load
    BY <1>2 DEF Next
  <2>2. CASE OpenRefused \/ OpenSpawned \/ ConnectionLost \/ Teardown
    BY <2>1, <2>2, RefusedKeeps, SpawnedKeeps, ConnectionLostKeeps, TeardownKeeps
  <2>3. CASE Handlers
    BY <2>1, <2>3, ReadableKeeps, StdinWritableKeeps, ChildKeeps DEF Handlers
  <2>4. CASE \E k \in 1 .. Window : HandleWindowUpdate(k)
    BY <2>1, <2>4, WindowUpdateKeeps
  <2>5. CASE \E k \in 0 .. load.input, end \in BOOLEAN : HandleData(k, end)
    BY <2>1, <2>5, DataKeeps
  <2>6. CASE Environment
    BY <2>1, <2>6, ClosesOutputKeeps, WritesKeeps, ReadsStdinKeeps, ClosesStdinKeeps, ForksKeeps,
       DescendantExitsKeeps, LeaderExitsKeeps DEF Environment
  <2> QED  BY <1>2, <2>2, <2>3, <2>4, <2>5, <2>6 DEF Next, Step
<1> QED  BY <1>1, <1>2

LEMMA Invariance == Spec => []NodeInv
BY InitHolds, StepHolds, PTL DEF Spec

-----------------------------------------------------------------------------
(* What it gives *)

LEMMA InvGivesStageInv == NodeInv => StageInv
<1> SUFFICES ASSUME NodeInv PROVE StageInv
  OBVIOUS
<1>1. /\ node \in Stage /\ proc \in Group /\ load \in Loads /\ load.output \in Nat
      /\ Window \in Nat /\ Chunk \in Nat /\ PipeCap \in Nat
      /\ peer \in [credit : Nat, sent : Nat, ended : BOOLEAN]
  BY NodeStageAssumption DEF NodeInv, Typed
<1>2. /\ node.sendBytes \in Nat /\ node.sendCredit \in Nat /\ node.delivered \in Nat
      /\ node.pipe \in [Channels -> Nat] /\ node.stdinPipe \in Nat /\ node.stdinBuffer \in Nat
      /\ node.pipe["stdout"] \in Nat /\ node.pipe["stderr"] \in Nat
      /\ proc.written["stdout"] \in Nat /\ proc.written["stderr"] \in Nat
      /\ peer.credit \in Nat /\ proc.read \in Nat
  BY <1>1 DEF Stage, Group, Channels
<1>3. node.sendBytes <= 2 * load.output
  <2>1. CASE proc.leader = "none"
    BY <1>1, <2>1 DEF NodeInv, OutputOk, LifeOk
  <2>2. CASE proc.leader # "none"
    <3>1. node.delivered + node.sendBytes + node.pipe["stdout"] + node.pipe["stderr"]
            = proc.written["stdout"] + proc.written["stderr"]
      BY <2>2 DEF NodeInv, OutputOk, Conserved
    <3>2. proc.written["stdout"] <= load.output /\ proc.written["stderr"] <= load.output
      BY DEF NodeInv, Bounded, Channels
    <3> QED  BY <1>1, <1>2, <3>1, <3>2
  <2> QED  BY <2>1, <2>2
<1>4. TypeOK
  <2>1. node.pipe \in [Channels -> 0 .. PipeCap]
    <3>1. \A ch \in Channels : node.pipe[ch] \in 0 .. PipeCap
      BY <1>1, <1>2 DEF NodeInv, OutputOk, ReadersOk
    <3> QED  BY <1>2, <3>1
  <2>2. node.sendCredit <= Window /\ node.stdinPipe <= PipeCap
        /\ node.stdinBuffer <= Window /\ peer.credit <= Window
    BY <1>1, <1>2 DEF NodeInv, OutputOk, StreamOk, StdinOk
  <2>3. /\ node.phase \in {"none", "live", "erased"} /\ node.exit \in Statuses \cup {None}
        /\ node.event \in [Watches -> BOOLEAN] /\ proc.leader \in {"none", "running", "zombie", "reaped"}
    BY <1>1 DEF Stage, Group, Exits
  <2>4. conn \in {"up", "lost", "gone"}
    BY DEF NodeInv, Typed
  <2> QED  BY <1>1, <1>2, <1>3, <2>1, <2>2, <2>3, <2>4 DEF TypeOK
<1>5. ExitAfterAllOutput
  <2> SUFFICES ASSUME node.exit # None, proc.leader # "none"
               PROVE  node.exit = proc.status
                      /\ node.delivered = proc.written["stdout"] + proc.written["stderr"]
    BY DEF ExitAfterAllOutput
  <2>1. node.exitPending /\ node.sendBytes = 0 /\ node.exit = node.status
    BY DEF NodeInv, OutputOk, StreamOk
  <2>2. node.status = proc.status /\ node.pipe["stdout"] = 0 /\ node.pipe["stderr"] = 0
    BY <2>1 DEF NodeInv, OutputOk, LifeOk, ReadersOk, Channels
  <2>3. node.delivered + node.sendBytes + node.pipe["stdout"] + node.pipe["stderr"]
          = proc.written["stdout"] + proc.written["stderr"]
    BY DEF NodeInv, OutputOk, Conserved
  <2> QED  BY <1>2, <2>1, <2>2, <2>3
<1>6. QueueBounded
  BY DEF NodeInv, OutputOk, StreamOk, QueueBounded
<1>7. StdinCreditConserved
  BY DEF NodeInv, StdinOk, StdinCreditConserved
<1>8. StdinEofAfterInput
  <2> SUFFICES ASSUME node.phase = "live", ~node.stdinOpen, proc.reading
               PROVE  peer.ended /\ proc.read + node.stdinPipe = peer.sent
    BY DEF StdinEofAfterInput
  <2>1. node.stdinEndPending /\ node.stdinBuffer = 0 /\ peer.ended
        /\ proc.read + node.stdinPipe + node.stdinBuffer = peer.sent
    BY DEF NodeInv, StdinOk
  <2> QED  BY <1>2, <2>1
<1> QED  BY <1>4, <1>5, <1>6, <1>7, <1>8 DEF StageInv

\* A stage's EXIT carries its status and follows all its output, the node holds
\* less than a chunk more than a window for it, its stdin is whole before EOF and
\* its credit is conserved, for every window, chunk, pipe and command
\* (node_stage_runner.cpp: onReadable, finishIfDone, drainStdin).
THEOREM StageCorrect == Spec => []StageInv
BY Invariance, InvGivesStageInv, PTL

\* Output or EOF in a watched pipe always has an event on the way, or waits for
\* the WINDOW_UPDATE that will resume the paused reads (resumeReads).
THEOREM StageNeverSleepsThroughOutput == Spec => []NoLostWakeup
<1>1. NodeInv => NoLostWakeup
  <2> SUFFICES ASSUME NodeInv PROVE NoLostWakeup
    OBVIOUS
  <2>1. (node.phase = "live" /\ node.paused) => node.sendBytes >= Window
    BY DEF NodeInv, OutputOk, PausedFull
  <2>2. ASSUME NEW ch \in Channels, node.phase = "live", node.open[ch], ch \notin node.unwatched,
               Reports(node, ch, TRUE)
        PROVE  node.event[ch] \/ node.paused
    BY <2>2 DEF NodeInv, Announced, Waits
  <2> QED  BY <2>1, <2>2 DEF NoLostWakeup
<1> QED  BY <1>1, Invariance, PTL

\* Once the connection is torn down its stage's leader is not running
\* (~NodeStageRunner kills what has not exited).
THEOREM StageFenced == Spec => []Fenced
<1>1. NodeInv => Fenced
  BY DEF NodeInv, OutputOk, LifeOk, Bounded, Fenced
<1> QED  BY <1>1, Invariance, PTL
=============================================================================
