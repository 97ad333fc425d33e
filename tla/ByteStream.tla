----------------------------- MODULE ByteStream -----------------------------
(***************************************************************************)
(* psx::stream::Stream: a one-way byte channel made of a ring of fixed     *)
(* capacity (BoundedBuffer), a temporary file for what does not fit        *)
(* (SpoolBuffer, only under the Spool policy) and the half-close states of *)
(* a pipe.  Bytes are the numbers 1, 2, 3, ... in the order the producer   *)
(* offers them, so that loss, reordering and duplication all show.         *)
(*                                                                         *)
(* The operators on one record are the methods of one object: they take    *)
(* the object before the call and return it after.                         *)
(***************************************************************************)
EXTENDS Naturals, Sequences, FiniteSets, SequencesExt, FiniteSetsExt

CONSTANTS
    Pipes,      \* the streams to try: records [capacity, policy]
    MaxOffer,   \* bound: bytes the producer offers in one behaviour
    ReadSizes   \* bound: how much one read() or drop() asks for

VARIABLES
    stream,     \* the Stream object: [ring, spool, state]
    history     \* what the two ends saw: [accepted, taken, discarded, eof, lost],
                \* eof: the last read since the writer closed returned nothing, and
                \* no call of the disk failed in it; lost: the disk lost accepted bytes

streamVars == <<stream, history>>

Policies == {"Block", "Spool", "DropNewest", "DropOldest"}
States == {"Open", "HalfClosedRemote", "HalfClosedLocal", "Closed", "Error"}

dropsOnOverflow(policy) == policy \in {"DropNewest", "DropOldest"}

\* A stream is made with a capacity, zero included, and one of the four policies.
ASSUME PipesAssumption ==
    /\ \A p \in Pipes : p.capacity \in Nat /\ p.policy \in Policies
    /\ ReadSizes \subseteq Nat /\ 0 \notin ReadSizes
    /\ MaxOffer \in Nat

-----------------------------------------------------------------------------
(* BoundedBuffer: storage is a circular array, its content starts at head. *)

FreshRing(capacity, policy) ==
    [storage |-> [i \in 0 .. (capacity - 1) |-> 0], head |-> 0, size |-> 0,
     capacity |-> capacity, policy |-> policy, dropped |-> 0]

available(r) == r.capacity - r.size

RingContent(r) == [k \in 1 .. r.size |-> r.storage[(r.head + k - 1) % r.capacity]]

\* mutant: the tail is not wrapped, so the first run is computed past the array
appendUpToUnwrapped(r, data) ==
    LET n == Min({Len(data), available(r)})
        tail == r.head + r.size
    IN  [r EXCEPT !.storage = [i \in DOMAIN r.storage |->
                                  IF i \in tail .. (tail + n - 1) THEN data[i - tail + 1] ELSE @[i]],
                  !.size = @ + n]

\* Copies what fits: a first run up to the end of the array, the rest at its start.
appendUpTo(r, data) ==
    IF Min({Len(data), available(r)}) = 0 THEN r
    ELSE LET n == Min({Len(data), available(r)})
             tail == (r.head + r.size) % r.capacity
             firstRun == Min({n, r.capacity - tail})
         IN  [r EXCEPT !.storage =
                          [i \in DOMAIN r.storage |->
                              CASE i \in tail .. (tail + firstRun - 1) -> data[i - tail + 1]
                                [] i < n - firstRun -> data[firstRun + i + 1]
                                [] OTHER -> @[i]],
                       !.size = @ + n]

discardFront(r, m) ==
    LET n == Min({m, r.size})
    IN  [r EXCEPT !.head = (@ + n) % (IF r.capacity = 0 THEN 1 ELSE r.capacity),
                  !.size = @ - n]

clear(r) == [r EXCEPT !.head = 0, !.size = 0]

\* append() returns the ring and how many bytes it took off the caller's hands.
appendBlock(r, data) ==
    [ring |-> appendUpTo(r, data), took |-> Min({Len(data), available(r)})]

appendDropNewest(r, data) ==
    [ring |-> [appendUpTo(r, data) EXCEPT !.dropped = @ + Len(data) - Min({Len(data), available(r)})],
     took |-> Len(data)]

appendDropOldest(r, data) ==
    LET excess == Len(data) - r.capacity
        evict == Len(data) - available(r)
        room == IF evict > 0 THEN [discardFront(r, evict) EXCEPT !.dropped = @ + evict] ELSE r
    IN  [ring |-> IF Len(data) >= r.capacity
                  THEN appendUpTo([clear(r) EXCEPT !.dropped = @ + r.size + excess],
                                  SubSeq(data, excess + 1, Len(data)))
                  ELSE appendUpTo(room, data),
         took |-> Len(data)]

append(r, data) ==
    CASE r.capacity = 0 /\ dropsOnOverflow(r.policy)
                                   -> [ring |-> [r EXCEPT !.dropped = @ + Len(data)], took |-> Len(data)]
      [] r.capacity = 0 /\ ~dropsOnOverflow(r.policy) -> [ring |-> r, took |-> 0]
      [] r.capacity > 0 /\ r.policy = "DropNewest"    -> appendDropNewest(r, data)
      [] r.capacity > 0 /\ r.policy = "DropOldest"    -> appendDropOldest(r, data)
      [] OTHER                                        -> appendBlock(r, data)

\* consume() returns the ring and the bytes copied out, run by run around the array.
consume(r, m) ==
    LET n == Min({m, r.size})
    IN  [ring |-> [r EXCEPT !.head = IF n = 0 THEN @ ELSE (@ + n) % r.capacity, !.size = @ - n],
         out |-> SubSeq(RingContent(r), 1, n)]

-----------------------------------------------------------------------------
(* SpoolBuffer: an append-only temporary file written through the C        *)
(* library's buffer, with a read offset.  size is what append() accepted,  *)
(* whether or not it ever reaches the file.  A failed append poisons the   *)
(* object: no later append and no later read() succeeds.                   *)
(*                                                                         *)
(* Each call into the disk may fail, so an operation is the set of its     *)
(* outcomes.  lost: the call lost bytes that an earlier append accepted;   *)
(* ok: what append() returns, or that a read got all it should have.       *)

FreshSpool == [file |-> <<>>, buffered |-> <<>>, size |-> 0, offset |-> 0, failed |-> FALSE]

remaining(sp) == sp.size - sp.offset
spoolEmpty(sp) == remaining(sp) = 0

Flushed(sp) == [sp EXCEPT !.file = @ \o sp.buffered, !.buffered = <<>>]

\* A fflush() or fseek() that fails: some first part of the buffer reached the
\* file, the rest stays in the buffer or is forgotten (C libraries differ).
CutFlush(sp, k, forgotten) ==
    [spool |-> [sp EXCEPT !.file = @ \o SubSeq(sp.buffered, 1, k),
                          !.buffered = IF forgotten THEN <<>> ELSE SubSeq(@, k + 1, Len(@))],
     lost |-> forgotten /\ k < Len(sp.buffered) /\ ~sp.failed]

FailedFlush(sp) == {CutFlush(sp, k, forgotten) : k \in 0 .. Len(sp.buffered), forgotten \in BOOLEAN}

\* tmpfile(), fseek() to the end, fwrite(): the bytes are accepted into the
\* buffer, or the write is short and leaves a part of them behind uncounted,
\* or the seek that flushes what was accepted earlier fails.
spoolAppend(sp, bytes) ==
    CASE bytes = <<>>              -> {[spool |-> sp, ok |-> TRUE, lost |-> FALSE]}
      [] bytes # <<>> /\ sp.failed -> {[spool |-> sp, ok |-> FALSE, lost |-> FALSE]}
      [] bytes # <<>> /\ ~sp.failed ->
            {[spool |-> [Flushed(sp) EXCEPT !.buffered = bytes, !.size = @ + Len(bytes)],
              ok |-> TRUE, lost |-> FALSE]}
            \cup {[spool |-> [Flushed(sp) EXCEPT !.buffered = SubSeq(bytes, 1, k), !.failed = TRUE],
                   ok |-> FALSE, lost |-> FALSE] : k \in 0 .. (Len(bytes) - 1)}
            \cup {[spool |-> [f.spool EXCEPT !.failed = TRUE], ok |-> FALSE, lost |-> f.lost]
                     : f \in FailedFlush(sp)}

\* What fread() can deliver of the next m bytes once the buffer is flushed.
spoolReadable(sp, m) == Min({m, remaining(sp), Len(sp.file) - sp.offset})

\* read(): a flush or seek that fails returns 0 and poisons nothing, and
\* fread() may come back short.
spoolRead(sp, m) ==
    LET whole == Flushed(sp)
        n == spoolReadable(whole, m)
    IN  IF m = 0 \/ spoolEmpty(sp) \/ sp.failed
        THEN {[spool |-> sp, out |-> <<>>, ok |-> TRUE, lost |-> FALSE]}
        ELSE {[spool |-> [whole EXCEPT !.offset = @ + k],
               out |-> SubSeq(whole.file, sp.offset + 1, sp.offset + k),
               ok |-> k = n, lost |-> FALSE] : k \in 0 .. n}
             \cup {[spool |-> f.spool, out |-> <<>>, ok |-> FALSE, lost |-> f.lost] : f \in FailedFlush(sp)}

\* The bytes not yet read that are still in the file or on their way to it.
spoolRest(sp) ==
    LET all == sp.file \o sp.buffered IN SubSeq(all, sp.offset + 1, Min({sp.size, Len(all)}))

\* readAll() ignores the read offset and the poison, and reads no further than
\* size.  A failed flush or seek gives nothing, a short fread() a first part.
readAll(sp) ==
    LET all == sp.file \o sp.buffered
        whole == SubSeq(all, 1, Min({sp.size, Len(all)}))
    IN  {[out |-> whole, ok |-> TRUE]}
        \cup {[out |-> SubSeq(whole, 1, k), ok |-> FALSE] : k \in 0 .. (Len(whole) - 1)}

\* the file is closed (and so deleted) as soon as everything in it was read
resetIfEmpty(sp) == IF spoolEmpty(sp) THEN FreshSpool ELSE sp

-----------------------------------------------------------------------------
(* Stream                                                                  *)

readable(s) == s.ring.size > 0 \/ ~spoolEmpty(s.spool)

writable(s) ==
    /\ s.state = "Open"
    /\ s.ring.policy = "Block" => s.ring.size < s.ring.capacity

atEnd(s) == s.state \in {"Closed", "Error", "HalfClosedLocal"}
            \/ (s.state = "HalfClosedRemote" /\ ~readable(s))

maybeCloseAfterDrain(s) ==
    IF s.state = "HalfClosedRemote" /\ ~readable(s) THEN [s EXCEPT !.state = "Closed"] ELSE s

\* Once something waits on disk, everything newer goes behind it on disk.
appendSpool(s, data) ==
    LET inRing == append(s.ring, data)
        overflow == SubSeq(data, inRing.took + 1, Len(data))
    IN  IF ~spoolEmpty(s.spool)
        THEN {[stream |-> [s EXCEPT !.spool = a.spool], took |-> IF a.ok THEN Len(data) ELSE 0,
               lost |-> a.lost] : a \in spoolAppend(s.spool, data)}
        ELSE {[stream |-> [s EXCEPT !.ring = inRing.ring, !.spool = a.spool],
               took |-> IF a.ok THEN Len(data) ELSE inRing.took,
               lost |-> a.lost] : a \in spoolAppend(s.spool, overflow)}

\* The ring, once empty, takes the next bytes of the file.
fillFromSpool(s) ==
    IF s.ring.size > 0 \/ s.ring.capacity = 0 \/ spoolEmpty(s.spool)
    THEN {[stream |-> s, ok |-> TRUE, lost |-> FALSE]}
    ELSE {[stream |-> IF got.out = <<>> THEN [s EXCEPT !.spool = got.spool]
                      ELSE [s EXCEPT !.ring = append(@, got.out).ring, !.spool = resetIfEmpty(got.spool)],
           ok |-> got.ok, lost |-> got.lost] : got \in spoolRead(s.spool, s.ring.capacity)}

\* One turn of the loop of read() and drop() after the ring was refilled: from
\* the ring, or straight from the file when the ring has no room at all.  The
\* loop is over with the last byte asked for or with a turn that got none.
takeTurn(work, fill) ==
    LET s == fill.stream
        wanted == work.want - Len(work.out)
        after(s2, out, ok, lost) ==
            [stream |-> s2, out |-> work.out \o out, want |-> work.want,
             over |-> out = <<>> \/ Len(out) = wanted,
             ok |-> work.ok /\ fill.ok /\ ok, lost |-> work.lost \/ fill.lost \/ lost]
        fromRing == consume(s.ring, wanted)
    IN  IF s.ring.size > 0
        THEN {after([s EXCEPT !.ring = fromRing.ring], fromRing.out, TRUE, FALSE)}
        ELSE IF s.ring.capacity = 0 /\ ~spoolEmpty(s.spool)
        THEN {after([s EXCEPT !.spool = resetIfEmpty(got.spool)], got.out, got.ok, got.lost)
                 : got \in spoolRead(s.spool, wanted)}
        ELSE {after(s, <<>>, TRUE, FALSE)}

drainOnce(work) ==
    IF work.over THEN {work} ELSE UNION {takeTurn(work, fill) : fill \in fillFromSpool(work.stream)}

\* read() and drop() of up to m bytes: the stream after, and the bytes that left it.
drain(s, m) ==
    LET start == [stream |-> s, out |-> <<>>, want |-> m, over |-> FALSE, ok |-> TRUE, lost |-> FALSE]
        after[k \in 0 .. m] ==
            IF k = 0 THEN {start} ELSE UNION {drainOnce(work) : work \in after[k - 1]}
    IN  {[work EXCEPT !.stream = maybeCloseAfterDrain(@)] : work \in after[m]}

-----------------------------------------------------------------------------
(* The calls of the two ends, in any order                                 *)

StreamInit ==
    /\ \E p \in Pipes :
          stream = [ring |-> FreshRing(p.capacity, p.policy), spool |-> FreshSpool, state |-> "Open"]
    /\ history = [accepted |-> 0, taken |-> <<>>, discarded |-> 0, eof |-> FALSE, lost |-> FALSE]

\* The producer offers the next n bytes; what is not taken it offers again.
write ==
    /\ stream.state = "Open"
    /\ \E n \in 1 .. (MaxOffer - history.accepted) :
          LET data == [k \in 1 .. n |-> history.accepted + k]
              ringed == append(stream.ring, data)
          IN  \/ /\ stream.ring.policy = "Spool"
                 /\ \E spooled \in appendSpool(stream, data) :
                       /\ stream' = spooled.stream
                       /\ history' = [history EXCEPT !.accepted = @ + spooled.took,
                                                     !.lost = @ \/ spooled.lost]
              \/ /\ stream.ring.policy # "Spool"
                 /\ stream' = [stream EXCEPT !.ring = ringed.ring]
                 /\ history' = [history EXCEPT !.accepted = @ + ringed.took]

read ==
    /\ stream.state # "Error"
    /\ \E m \in ReadSizes : \E got \in drain(stream, m) :
          /\ stream' = got.stream
          /\ history' = [history EXCEPT !.taken = @ \o got.out, !.lost = @ \/ got.lost,
                                        !.eof = got.out = <<>> /\ got.ok]

\* drop() consumes like read() but does not look at the Error state.
drop ==
    \E m \in ReadSizes : \E got \in drain(stream, m) :
        /\ stream' = got.stream
        /\ history' = [history EXCEPT !.taken = @ \o got.out, !.lost = @ \/ got.lost]

\* peek() shows the ring's first run, which it refills from the file.
peek ==
    \E fill \in fillFromSpool(stream) :
        /\ stream' = fill.stream
        /\ history' = [history EXCEPT !.lost = @ \/ fill.lost]

closeRemote ==
    /\ stream.state \in {"Open", "HalfClosedLocal"}
    /\ stream' = [stream EXCEPT !.state = IF @ = "Open" THEN "HalfClosedRemote" ELSE "Closed"]
    /\ history' = [history EXCEPT !.eof = FALSE]

closeLocal ==
    /\ stream.state \in {"Open", "HalfClosedRemote"}
    /\ stream' = [ring |-> clear(stream.ring), spool |-> FreshSpool,
                  state |-> IF stream.state = "Open" THEN "HalfClosedLocal" ELSE "Closed"]
    /\ history' = [history EXCEPT !.discarded = stream.ring.size + remaining(stream.spool)]

fail ==
    /\ stream.state \notin {"Closed", "Error"}
    /\ stream' = [stream EXCEPT !.state = "Error"]
    /\ UNCHANGED history

StreamNext == write \/ read \/ drop \/ peek \/ closeRemote \/ closeLocal \/ fail

StreamSpec == StreamInit /\ [][StreamNext]_streamVars

-----------------------------------------------------------------------------
(* What a stream promises                                                  *)

Contents == RingContent(stream.ring) \o spoolRest(stream.spool)
Increasing(seq) == \A i, j \in DOMAIN seq : i < j => seq[i] < seq[j]
AllNumbersTo(n) == [k \in 1 .. n |-> k]

(***************************************************************************)
(* The bytes that left the stream followed by the bytes in it (ring, then  *)
(* file) are accepted ones in order, each at most once, whatever the disk  *)
(* does; and every accepted byte left, is in the ring, is owed by the      *)
(* file, is in the dropped count or was discarded by closeLocal().         *)
(* Unless the disk lost bytes of the file after they were accepted, the    *)
(* file holds all it owes, a stream that does not drop misses none,        *)
(* DropNewest keeps a prefix of what it was given when nothing is read,    *)
(* and DropOldest always still holds the newest byte (bounded_buffer.cpp   *)
(* append/consume, stream.cpp appendSpool/fillFromSpool, spool_buffer.hpp  *)
(* append/read).                                                           *)
(***************************************************************************)
StreamIsFifo ==
    LET through == history.taken \o Contents
    IN  /\ Increasing(through)
        /\ Len(history.taken) + stream.ring.size + remaining(stream.spool)
              + stream.ring.dropped + history.discarded = history.accepted
        /\ ~history.lost =>
              /\ Len(spoolRest(stream.spool)) = remaining(stream.spool)
              /\ ~dropsOnOverflow(stream.ring.policy) => through = AllNumbersTo(Len(through))
              /\ (stream.ring.policy = "DropNewest" /\ history.taken = <<>>)
                    => through = AllNumbersTo(Len(through))
              /\ (stream.ring.policy = "DropOldest" /\ through # <<>> /\ history.discarded = 0)
                    => through[Len(through)] = history.accepted

(***************************************************************************)
(* The end of the stream is never early and is always found: a stream at   *)
(* its end by a drained remote close holds no byte, and after the writer   *)
(* closed, a read that returned nothing while every call of the disk       *)
(* succeeded left the stream at its end.  Two spools are excepted: a       *)
(* poisoned one, whose bytes read() refuses, and one that owes bytes the   *)
(* disk lost; such a stream never ends (stream.cpp                         *)
(* atEnd/maybeCloseAfterDrain, spool_buffer.hpp read).                     *)
(***************************************************************************)
EndIsExact ==
    /\ stream.state = "Closed" => ~readable(stream)
    /\ (stream.state = "HalfClosedRemote" /\ history.eof) => stream.spool.failed \/ history.lost
    /\ atEnd(stream) => ~writable(stream)

\* What Stream promises its two users: the bytes in order, and an exact end
\* (stream.cpp over bounded_buffer.cpp and spool_buffer.hpp).
StreamSound == StreamIsFifo /\ EndIsExact
=============================================================================
