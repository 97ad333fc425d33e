----------------------------- MODULE SessionProofs -----------------------------
(***************************************************************************)
(* Two sessions, for every window, number of streams, load and faulty      *)
(* frame.  Whatever the peer sends, types hold and a stream that ended     *)
(* stays ended.  Two sessions that follow the protocol, any of which may   *)
(* drain, are sound: SessionsSound, by the invariant HonestInv; and they   *)
(* implement CreditFlow (SessionsRefineFlows, SessionsImplementFlows).     *)
(***************************************************************************)
EXTENDS SessionFlows, SequenceTheorems, FiniteSetTheorems, TLAPS

\* A frame on the wire; an EXIT carries a status.
WireFrame == {f \in FrameType : f.type = "EXIT" => f.value \in Statuses}

\* A stream that waits to send its EXIT knows the status.
StatusKnown(s) == s.exitPending => s.exitStatus \in Statuses

\* The types of the streams and the wire, and of everything else: together TypeOK.
StreamsTyped ==
    /\ streams \in [Ends -> SUBSET Ids]
    /\ locallyClosed \in [Ends -> SUBSET Ids]
    /\ st \in [Ends -> [Ids -> StreamType]]
    /\ net \in [Ends -> Seq(WireFrame)]
    /\ \A e \in Ends, id \in Ids : StatusKnown(st[e][id])

RestTyped ==
    /\ nextStreamId \in 1 .. MaxStreams + 1
    /\ nextPeerStreamId \in 1 .. MaxStreams + 1
    /\ sentGoAway \in [Ends -> BOOLEAN]
    /\ receivedGoAway \in [Ends -> BOOLEAN]
    /\ failed \in [Ends -> Verdicts]
    /\ load \in Loads
    /\ used \in 0 .. load.extras
    /\ sent \in [Ends -> [Ids -> Seq(Channels)]]
    /\ got \in [Ends -> [Ids -> Seq(Channels)]]
    /\ reported \in [Ids -> Statuses \cup {None}]
    /\ seen \in [Ids -> Statuses \cup {None}]

Typed == StreamsTyped /\ RestTyped

\* Ids are given out in order at both ends; a stream is live, or over, or
\* neither, and one that is over has an id that was given out.
IdsInOrder ==
    /\ \A id \in Ids : id \in streams[Controller] \/ seen[id] # None => id < nextStreamId
    /\ \A id \in Ids : seen[id] # None => id \notin streams[Controller]
    /\ \A id \in Ids : id \in streams[Node] \cup locallyClosed[Node] => id < nextPeerStreamId
    /\ \A id \in Ids : id \in locallyClosed[Node] => id \notin streams[Node]

SessionInv == Typed /\ IdsInOrder

-----------------------------------------------------------------------------
(* Types of what the helpers return. *)

LEMMA Constant ==
    /\ Window \in Nat /\ Window > 0 /\ MaxWindow \in Nat /\ Window <= MaxWindow
    /\ MaxStreams \in Nat /\ MaxStreams > 0
    /\ Threshold \in Nat /\ Threshold <= Window
    /\ Ids \subseteq Nat /\ 0 \notin Ids /\ Ids \subseteq 0 .. MaxStreams
    /\ Controller \in Ends /\ Node \in Ends /\ Controller # Node
    /\ \A e \in Ends : Peer(e) \in Ends /\ Peer(e) # e
    /\ None \notin Statuses /\ Statuses \subseteq Nat
    /\ FaultyFrames \subseteq WireFrame
  BY SessionAssumption
  DEF Threshold, Ids, Ends, Controller, Node, Peer, None, Statuses, WireFrame

LEMMA FreshTyped == FreshStream \in StreamType /\ StatusKnown(FreshStream)
  BY Constant DEF FreshStream, StreamType, StatusKnown

\* The frames an endpoint builds.
LEMMA FramesTyped ==
    ASSUME NEW id \in Ids
    PROVE  /\ OpenFrame(id) \in WireFrame
           /\ EofFrame(id) \in WireFrame
           /\ \A ch \in Channels, end \in BOOLEAN : DataFrame(id, ch, end) \in WireFrame
           /\ \A status \in Statuses : ExitFrame(id, status) \in WireFrame
           /\ \A delta \in Nat : UpdateFrame(id, delta) \in WireFrame
           /\ \A type \in {"PING", "PONG", "GOAWAY"} : ConnFrame(type) \in WireFrame
<1>1. id \in 0 .. MaxStreams /\ 0 \in 0 .. MaxStreams /\ "stdout" \in Channels
  BY Constant DEF Channels
<1>2. QED
  BY <1>1, Constant
  DEF WireFrame, FrameType, Frame, OpenFrame, EofFrame, DataFrame, ExitFrame, UpdateFrame,
      ConnFrame, Channels

\* A flush puts well-formed frames on the wire and leaves a stream of the same type.
LEMMA FlushTyped ==
    ASSUME NEW id \in Ids, NEW s \in StreamType, StatusKnown(s)
    PROVE  /\ FlushFrames(id, s) \in Seq(WireFrame)
           /\ AfterFlush(s) \in StreamType /\ StatusKnown(AfterFlush(s))
           /\ ClosedRecord(s) \in StreamType /\ StatusKnown(ClosedRecord(s))
<1>1. /\ s.queue \in Seq(Channels) /\ s.sendCredit \in 0 .. MaxWindow /\ Len(s.queue) \in Nat
      /\ MaxWindow \in Nat /\ s.sendEndPending \in BOOLEAN /\ s.peerDataClosed \in BOOLEAN
  BY Constant DEF StreamType
<1>2. Flushed(s) \in 0 .. Len(s.queue) /\ Flushed(s) <= s.sendCredit
  BY <1>1 DEF Flushed, Minimum
<1>3. FlushData(id, s) \in Seq(WireFrame)
  <2>1. \A i \in 1 .. Flushed(s) : s.queue[i] \in Channels
    BY <1>1, <1>2, ElementOfSeq
  <2>2. \A i \in 1 .. Flushed(s) :
           DataFrame(id, s.queue[i], Drained(s) /\ s.sendEndPending /\ i = Flushed(s)) \in WireFrame
    <3>1. \A i \in 1 .. Flushed(s) : (Drained(s) /\ s.sendEndPending /\ i = Flushed(s)) \in BOOLEAN
      BY Zenon
    <3>2. QED
      BY <2>1, <3>1, FramesTyped
  <2>3. QED
    BY <2>2, <1>2, <1>1 DEF FlushData
<1>4. FlushEof(id, s) \in Seq(WireFrame)
  BY FramesTyped DEF FlushEof
<1>5. FlushExit(id, s) \in Seq(WireFrame)
  BY FramesTyped DEF FlushExit, ExitsNow, StatusKnown
<1>6. FlushFrames(id, s) \in Seq(WireFrame)
  BY <1>3, <1>4, <1>5, ConcatProperties DEF FlushFrames
<1>7. SubSeq(s.queue, Flushed(s) + 1, Len(s.queue)) \in Seq(Channels)
  BY <1>1, <1>2, SubSeqProperties
<1>8. s.sendCredit - Flushed(s) \in 0 .. MaxWindow
  BY <1>1, <1>2
<1>9. PICK b \in BOOLEAN : b = (s.sendEndPending /\ ~Drained(s))
  OBVIOUS
<1>10. AfterFlush(s) \in StreamType /\ StatusKnown(AfterFlush(s))
  BY <1>7, <1>8, <1>9 DEF AfterFlush, StreamType, StatusKnown
<1>11. ClosedRecord(s) \in StreamType /\ StatusKnown(ClosedRecord(s))
  BY <1>1, FreshTyped DEF ClosedRecord, StreamType, StatusKnown, FreshStream
<1>12. QED
  BY <1>6, <1>10, <1>11

-----------------------------------------------------------------------------
(* What each step keeps. *)

\* A step opens no stream: ids move from live to closed at most.
OpensNone ==
    \A e \in Ends :
        /\ streams'[e] \subseteq streams[e]
        /\ locallyClosed'[e] \subseteq locallyClosed[e] \cup (streams[e] \ streams'[e])

LEMMA StreamSet ==
    ASSUME StreamsTyped, NEW e \in Ends, NEW id \in Ids, NEW t \in StreamType, StatusKnown(t),
           st' = [st EXCEPT ![e][id] = t]
    PROVE  /\ st' \in [Ends -> [Ids -> StreamType]]
           /\ \A x \in Ends, i \in Ids : StatusKnown(st'[x][i])
<1>1. \A x \in Ends, i \in Ids : st'[x][i] = IF x = e /\ i = id THEN t ELSE st[x][i]
  BY DEF StreamsTyped
<1>2. \A x \in Ends, i \in Ids : StatusKnown(st'[x][i])
  BY <1>1 DEF StreamsTyped
<1>3. QED
  BY <1>2 DEF StreamsTyped

LEMMA FlushStreamKeeps ==
    ASSUME StreamsTyped, NEW e \in Ends, NEW id \in streams[e], NEW s \in StreamType,
           StatusKnown(s), NEW base \in [Ends -> Seq(WireFrame)], FlushStream(e, id, s, base)
    PROVE  StreamsTyped' /\ OpensNone
<1>1. id \in Ids /\ Peer(e) \in Ends
  BY Constant DEF StreamsTyped
<1>2. /\ FlushFrames(id, s) \in Seq(WireFrame)
      /\ AfterFlush(s) \in StreamType /\ StatusKnown(AfterFlush(s))
      /\ ClosedRecord(s) \in StreamType /\ StatusKnown(ClosedRecord(s))
  BY <1>1, FlushTyped
<1>3. base[Peer(e)] \o FlushFrames(id, s) \in Seq(WireFrame)
  BY <1>1, <1>2, ConcatProperties
<1>4. net' \in [Ends -> Seq(WireFrame)]
  BY <1>1, <1>3 DEF FlushStream
<1>5. PICK t \in StreamType : StatusKnown(t) /\ st' = [st EXCEPT ![e][id] = t]
  BY <1>2 DEF FlushStream
<1>6. /\ st' \in [Ends -> [Ids -> StreamType]]
      /\ \A x \in Ends, i \in Ids : StatusKnown(st'[x][i])
  BY <1>1, <1>5, StreamSet
<1>7. /\ streams' \in [Ends -> SUBSET Ids] /\ locallyClosed' \in [Ends -> SUBSET Ids]
      /\ OpensNone
  <2>1. CASE ExitsNow(s)
    <3>1. /\ streams' = [streams EXCEPT ![e] = @ \ {id}]
          /\ locallyClosed' = [locallyClosed EXCEPT ![e] = @ \cup {id}]
      BY <2>1 DEF FlushStream
    <3>2. /\ \A x \in Ends : streams'[x] = IF x = e THEN streams[e] \ {id} ELSE streams[x]
          /\ \A x \in Ends : locallyClosed'[x] = IF x = e THEN locallyClosed[e] \cup {id}
                                                           ELSE locallyClosed[x]
      BY <3>1 DEF StreamsTyped
    <3>3. /\ streams' \in [Ends -> SUBSET Ids] /\ locallyClosed' \in [Ends -> SUBSET Ids]
      BY <1>1, <3>1 DEF StreamsTyped
    <3>4. QED
      BY <3>2, <3>3 DEF OpensNone
  <2>2. CASE ~ExitsNow(s)
    BY <2>2 DEF FlushStream, StreamsTyped, OpensNone
  <2>3. QED
    BY <2>1, <2>2
<1>8. QED
  BY <1>4, <1>6, <1>7 DEF StreamsTyped

\* The frame at the head of the wire, and the wire without it.
LEMMA HeadTyped ==
    ASSUME net \in [Ends -> Seq(WireFrame)], NEW e \in Ends, net[e] # <<>>
    PROVE  /\ Head(net[e]) \in WireFrame /\ Head(net[e]) \in FrameType
           /\ Head(net[e]).id \in 0 .. MaxStreams /\ Head(net[e]).ch \in Channels
           /\ Head(net[e]).end \in BOOLEAN
           /\ Head(net[e]).units \in Nat /\ Head(net[e]).value \in Nat
           /\ Rest(e) \in [Ends -> Seq(WireFrame)]
<1>1. Head(net[e]) \in WireFrame /\ Tail(net[e]) \in Seq(WireFrame)
  BY HeadTailProperties
<1>2. Head(net[e]) \in FrameType
  BY <1>1 DEF WireFrame
<1>3. Rest(e) \in [Ends -> Seq(WireFrame)]
  BY <1>1 DEF Rest
<1>4. QED
  BY <1>1, <1>2, <1>3 DEF FrameType

\* A step that opens no stream and delivers no exit keeps the ids in order.
LEMMA OrderKept ==
    ASSUME SessionInv, StreamsTyped', OpensNone, UNCHANGED <<nextStreamId, nextPeerStreamId, seen>>
    PROVE  IdsInOrder'
  BY Constant DEF SessionInv, IdsInOrder, OpensNone, StreamsTyped

LEMMA SameStreams ==
    ASSUME StreamsTyped, net' \in [Ends -> Seq(WireFrame)], UNCHANGED <<streams, locallyClosed, st>>
    PROVE  StreamsTyped' /\ OpensNone
  BY DEF StreamsTyped, OpensNone

LEMMA InitTyped == Init => SessionInv
<1> SUFFICES ASSUME Init PROVE SessionInv
  OBVIOUS
<1>1. /\ <<>> \in Seq(WireFrame) /\ <<>> \in Seq(Channels)
  OBVIOUS
<1>2. StreamsTyped
  BY <1>1, FreshTyped DEF Init, StreamsTyped
<1>3. RestTyped
  <2>1. load \in Loads /\ load.extras \in Nat /\ used \in 0 .. load.extras
    BY SessionAssumption DEF Init
  <2>2. 1 \in 1 .. MaxStreams + 1
    BY Constant
  <2>3. "no" \in Verdicts
    BY DEF Verdicts
  <2>4. QED
    BY <1>1, <2>1, <2>2, <2>3 DEF Init, RestTyped
<1>4. IdsInOrder
  BY Constant DEF Init, IdsInOrder
<1>5. QED
  BY <1>2, <1>3, <1>4 DEF SessionInv, Typed

-----------------------------------------------------------------------------
(* The actions, one by one. *)

LEMMA Put ==
    ASSUME StreamsTyped, NEW e \in Ends, NEW f \in WireFrame
    PROVE  [net EXCEPT ![e] = Append(@, f)] \in [Ends -> Seq(WireFrame)]
<1>1. Append(net[e], f) \in Seq(WireFrame)
  BY AppendProperties DEF StreamsTyped
<1>2. QED
  BY <1>1 DEF StreamsTyped

LEMMA OpenKeeps == ASSUME SessionInv, Open, UNCHANGED load PROVE SessionInv'
<1>1. StreamsTyped /\ RestTyped
  BY DEF SessionInv, Typed
<1>2. nextStreamId \in Ids /\ nextStreamId' = nextStreamId + 1 /\ nextStreamId' \in 1 .. MaxStreams + 1
  BY <1>1, Constant DEF Open, RestTyped, Ids
<1>3. net' \in [Ends -> Seq(WireFrame)]
  BY <1>1, <1>2, FramesTyped, Put, Constant DEF Open
<1>4. /\ st' \in [Ends -> [Ids -> StreamType]]
      /\ \A x \in Ends, i \in Ids : StatusKnown(st'[x][i])
  BY <1>1, <1>2, FreshTyped, StreamSet, Constant DEF Open
<1>5. /\ streams' \in [Ends -> SUBSET Ids] /\ locallyClosed' = locallyClosed
      /\ streams'[Controller] = streams[Controller] \cup {nextStreamId}
      /\ streams'[Node] = streams[Node]
  BY <1>1, <1>2, Constant DEF Open, StreamsTyped
<1>6. StreamsTyped'
  BY <1>1, <1>3, <1>4, <1>5 DEF StreamsTyped
<1>7. RestTyped'
  BY <1>1, <1>2 DEF Open, RestTyped
<1>8. IdsInOrder'
  <2>1. IdsInOrder /\ Controller # Node /\ Ids \subseteq Nat /\ nextStreamId \in Nat
        /\ nextPeerStreamId' = nextPeerStreamId /\ seen' = seen
    BY <1>2, Constant DEF Open, SessionInv
  <2>2. nextStreamId' = nextStreamId + 1
    BY <1>2
  <2>3. \A i \in Ids : i < nextStreamId => i < nextStreamId' /\ i # nextStreamId
    BY <2>1, <2>2
  <2>4. nextStreamId < nextStreamId'
    BY <2>1, <2>2
  <2>5. QED
    BY <1>5, <2>1, <2>3, <2>4, SMTT(30) DEF IdsInOrder
<1>9. QED
  BY <1>6, <1>7, <1>8 DEF SessionInv, Typed

LEMMA SendDataKeeps ==
    ASSUME SessionInv, UNCHANGED load, NEW e \in Ends, NEW id \in Ids, NEW ch \in Channels,
           NEW units \in Nat, NEW end \in BOOLEAN, SendData(e, id, ch, units, end)
    PROVE  SessionInv'
<1> DEFINE bytes == [i \in 1 .. units |-> ch]
           s == [st[e][id] EXCEPT !.queue = @ \o bytes,
                                  !.localDataClosed = end,
                                  !.sendEndPending = end]
<1>1. StreamsTyped /\ RestTyped
  BY DEF SessionInv, Typed
<1>2. bytes \in Seq(Channels) /\ st[e][id] \in StreamType /\ StatusKnown(st[e][id])
  BY <1>1 DEF StreamsTyped
<1>3. st[e][id].queue \o bytes \in Seq(Channels)
  BY <1>2, ConcatProperties DEF StreamType
<1>4. s \in StreamType /\ StatusKnown(s)
  BY <1>2, <1>3 DEF StreamType, StatusKnown
<1>5. FlushStream(e, id, s, net) /\ id \in streams[e]
      /\ sent' = [sent EXCEPT ![e][id] = @ \o bytes]
      /\ UNCHANGED <<nextStreamId, nextPeerStreamId, sentGoAway, receivedGoAway,
                     failed, used, got, reported, seen>>
  BY DEF SendData
<1>6. StreamsTyped' /\ OpensNone
  <2> HIDE DEF s
  <2> QED
    BY <1>1, <1>4, <1>5, FlushStreamKeeps DEF StreamsTyped
<1>7. sent' \in [Ends -> [Ids -> Seq(Channels)]]
  <2>1. sent[e][id] \o bytes \in Seq(Channels)
    BY <1>1, <1>2, ConcatProperties DEF RestTyped
  <2>2. QED
    BY <1>1, <1>5, <2>1 DEF RestTyped
<1>8. RestTyped'
  BY <1>1, <1>5, <1>7 DEF RestTyped
<1>9. IdsInOrder'
  BY <1>5, <1>6, OrderKept
<1>10. QED
  BY <1>6, <1>8, <1>9 DEF SessionInv, Typed

LEMMA SendExitKeeps ==
    ASSUME SessionInv, UNCHANGED load, NEW id \in Ids, NEW status \in Statuses, SendExit(id, status)
    PROVE  SessionInv'
<1> DEFINE s == [st[Node][id] EXCEPT !.localDataClosed = TRUE,
                                     !.exitPending = TRUE,
                                     !.exitStatus = status]
<1>1. StreamsTyped /\ RestTyped /\ Node \in Ends
  BY Constant DEF SessionInv, Typed
<1>2. st[Node][id] \in StreamType /\ StatusKnown(st[Node][id])
  BY <1>1 DEF StreamsTyped
<1>3. s \in StreamType /\ StatusKnown(s)
  BY <1>2 DEF StreamType, StatusKnown
<1>4. /\ id \in streams[Node]
      /\ reported' = [reported EXCEPT ![id] = status]
      /\ UNCHANGED <<nextStreamId, nextPeerStreamId, sentGoAway, receivedGoAway,
                     failed, used, sent, got, seen>>
      /\ \/ st' = [st EXCEPT ![Node][id] = s] /\ UNCHANGED <<streams, locallyClosed, net>>
         \/ FlushStream(Node, id, s, net)
  BY DEF SendExit
<1> HIDE DEF s
<1>5. StreamsTyped' /\ OpensNone
  <2>1. CASE st' = [st EXCEPT ![Node][id] = s] /\ UNCHANGED <<streams, locallyClosed, net>>
    <3>1. /\ st' \in [Ends -> [Ids -> StreamType]]
          /\ \A x \in Ends, i \in Ids : StatusKnown(st'[x][i])
      BY <1>1, <1>3, <2>1, StreamSet
    <3>2. QED
      BY <1>1, <2>1, <3>1 DEF StreamsTyped, OpensNone
  <2>2. CASE FlushStream(Node, id, s, net)
    BY <1>1, <1>3, <1>4, <2>2, FlushStreamKeeps DEF StreamsTyped
  <2>3. QED
    BY <1>4, <2>1, <2>2
<1>6. RestTyped'
  BY <1>1, <1>4 DEF RestTyped
<1>7. IdsInOrder'
  BY <1>4, <1>5, OrderKept
<1>8. QED
  BY <1>5, <1>6, <1>7 DEF SessionInv, Typed

LEMMA ConsumeKeeps ==
    ASSUME SessionInv, UNCHANGED load, NEW e \in Ends, NEW id \in Ids, NEW n \in 1 .. Window,
           Consume(e, id, n)
    PROVE  SessionInv'
<1> DEFINE left == st[e][id].outstanding - n
           freed == st[e][id].pendingUpdate + n
           fires == Advertises(left, freed)
           p == IF fires THEN 0 ELSE freed
           t == [st[e][id] EXCEPT !.outstanding = left, !.pendingUpdate = p]
<1>1. StreamsTyped /\ RestTyped /\ Peer(e) \in Ends
  BY Constant DEF SessionInv, Typed
<1>2. st[e][id] \in StreamType /\ StatusKnown(st[e][id])
  BY <1>1 DEF StreamsTyped
<1>3. /\ id \in streams[e] /\ n \in 1 .. st[e][id].outstanding
      /\ st' = [st EXCEPT ![e][id].outstanding = left, ![e][id].pendingUpdate = p]
      /\ net' = IF fires THEN [net EXCEPT ![Peer(e)] = Append(@, UpdateFrame(id, freed))] ELSE net
      /\ UNCHANGED <<streams, locallyClosed, nextStreamId, nextPeerStreamId,
                     sentGoAway, receivedGoAway, failed, used, sent, got, reported, seen>>
  BY DEF Consume
<1>4. /\ left \in 0 .. Window /\ freed \in Nat /\ p \in 0 .. Window
  <2>1. /\ st[e][id].outstanding \in 0 .. Window /\ st[e][id].pendingUpdate \in 0 .. Window
    BY <1>2 DEF StreamType
  <2>2. ~fires => freed < Threshold
    BY <1>3, <2>1, Constant, SMTT(30) DEF Advertises
  <2>3. left \in 0 .. Window /\ freed \in Nat
    <3>1. n \in 1 .. st[e][id].outstanding /\ Window \in Nat
      BY <1>3, Constant
    <3>2. QED
      BY <2>1, <3>1
  <2> HIDE DEF freed, fires
  <2>4. p \in 0 .. Window
    BY <2>2, <2>3, Constant
  <2>5. QED
    BY <2>3, <2>4
<1>5. t \in StreamType /\ StatusKnown(t)
  <2> HIDE DEF left, p
  <2> QED
    BY <1>2, <1>4 DEF StreamType, StatusKnown
<1>6. st' = [st EXCEPT ![e][id] = t]
  <2> HIDE DEF left, p
  <2> QED
    BY <1>1, <1>2, <1>3 DEF StreamsTyped, StreamType
<1>7. net' \in [Ends -> Seq(WireFrame)]
  <2>1. UpdateFrame(id, freed) \in WireFrame
    BY <1>4, FramesTyped
  <2>2. QED
    BY <1>1, <1>3, <2>1, Put DEF StreamsTyped
<1>8. StreamsTyped' /\ OpensNone
  <2> HIDE DEF t
  <2>1. /\ st' \in [Ends -> [Ids -> StreamType]]
        /\ \A x \in Ends, i \in Ids : StatusKnown(st'[x][i])
    BY <1>1, <1>5, <1>6, StreamSet
  <2>2. QED
    BY <1>1, <1>3, <1>7, <2>1 DEF StreamsTyped, OpensNone
<1>9. RestTyped' /\ IdsInOrder'
  BY <1>1, <1>3, <1>8, OrderKept DEF RestTyped
<1>10. QED
  BY <1>8, <1>9 DEF SessionInv, Typed

LEMMA PingKeeps == ASSUME SessionInv, UNCHANGED load, NEW e \in Ends, Ping(e) PROVE SessionInv'
<1>1. StreamsTyped /\ RestTyped /\ Peer(e) \in Ends /\ 1 \in Ids
  BY Constant DEF SessionInv, Typed, Ids
<1>2. net' \in [Ends -> Seq(WireFrame)]
  BY <1>1, FramesTyped, Put DEF Ping
<1>3. StreamsTyped' /\ OpensNone
  BY <1>1, <1>2, SameStreams DEF Ping, sessionVars
<1>4. used' \in 0 .. load'.extras
  BY <1>1, SessionAssumption DEF Ping, RestTyped
<1>5. RestTyped'
  BY <1>1, <1>4 DEF Ping, sessionVars, RestTyped
<1>6. IdsInOrder'
  BY <1>3, OrderKept DEF Ping, sessionVars
<1>7. QED
  BY <1>3, <1>5, <1>6 DEF SessionInv, Typed

LEMMA InjectKeeps == ASSUME SessionInv, UNCHANGED load, NEW e \in Ends, Inject(e) PROVE SessionInv'
<1>1. StreamsTyped /\ RestTyped
  BY DEF SessionInv, Typed
<1>2. net' \in [Ends -> Seq(WireFrame)]
  BY <1>1, Put, Constant DEF Inject
<1>3. StreamsTyped' /\ OpensNone
  BY <1>1, <1>2, SameStreams DEF Inject, sessionVars
<1>4. used' \in 0 .. load'.extras
  BY <1>1, SessionAssumption DEF Inject, RestTyped
<1>5. RestTyped'
  BY <1>1, <1>4 DEF Inject, sessionVars, RestTyped
<1>6. IdsInOrder'
  BY <1>3, OrderKept DEF Inject, sessionVars
<1>7. QED
  BY <1>3, <1>5, <1>6 DEF SessionInv, Typed

LEMMA GoAwayKeeps == ASSUME SessionInv, UNCHANGED load, NEW e \in Ends, GoAway(e) PROVE SessionInv'
<1>1. StreamsTyped /\ RestTyped /\ Peer(e) \in Ends /\ 1 \in Ids
  BY Constant DEF SessionInv, Typed, Ids
<1>2. net' \in [Ends -> Seq(WireFrame)]
  BY <1>1, FramesTyped, Put DEF GoAway
<1>3. StreamsTyped' /\ OpensNone
  BY <1>1, <1>2, SameStreams DEF GoAway
<1>4. RestTyped'
  BY <1>1 DEF GoAway, RestTyped
<1>5. IdsInOrder'
  BY <1>3, OrderKept DEF GoAway
<1>6. QED
  BY <1>3, <1>4, <1>5 DEF SessionInv, Typed

LEMMA PoisonKeeps ==
    ASSUME SessionInv, UNCHANGED load, NEW e \in Ends, net[e] # <<>>,
           NEW reason \in Verdicts, Poison(e, reason)
    PROVE  SessionInv'
<1>1. StreamsTyped /\ RestTyped
  BY DEF SessionInv, Typed
<1>2. net' \in [Ends -> Seq(WireFrame)]
  BY <1>1, HeadTyped DEF Poison, StreamsTyped
<1>3. StreamsTyped' /\ OpensNone
  BY <1>1, <1>2, SameStreams DEF Poison
<1>4. RestTyped'
  BY <1>1 DEF Poison, RestTyped
<1>5. IdsInOrder'
  BY <1>3, OrderKept DEF Poison
<1>6. QED
  BY <1>3, <1>4, <1>5 DEF SessionInv, Typed

LEMMA ReceiveOpenKeeps ==
    ASSUME SessionInv, UNCHANGED load, NEW e \in Ends, ReceiveOpen(e) PROVE SessionInv'
<1> DEFINE f == Head(net[e])
<1>1. StreamsTyped /\ RestTyped /\ net[e] # <<>>
  BY DEF SessionInv, Typed, ReceiveOpen, Arrived
<1>2. CASE OpenVerdict(e, f) # "ok"
  <2>1. Poison(e, OpenVerdict(e, f)) /\ OpenVerdict(e, f) \in Verdicts
    BY <1>2 DEF ReceiveOpen, OpenVerdict, Verdicts
  <2>2. QED
    BY <1>1, <2>1, PoisonKeeps
<1>3. CASE OpenVerdict(e, f) = "ok"
  <2>1. e = Node /\ f.id # 0 /\ f.id = nextPeerStreamId
    BY <1>3 DEF OpenVerdict
  <2>2. /\ nextPeerStreamId' = f.id + 1
        /\ streams' = [streams EXCEPT ![e] = @ \cup {f.id}]
        /\ st' = [st EXCEPT ![e][f.id] = FreshStream]
        /\ net' = Rest(e)
        /\ UNCHANGED <<locallyClosed, nextStreamId, sentGoAway, receivedGoAway,
                       failed, used, sent, got, reported, seen>>
    BY <1>3 DEF ReceiveOpen
  <2>3. f.id \in 0 .. MaxStreams /\ net' \in [Ends -> Seq(WireFrame)]
    BY <1>1, <2>2, HeadTyped DEF StreamsTyped
  <2> HIDE DEF f
  <2>4. f.id \in Ids /\ nextPeerStreamId' \in 1 .. MaxStreams + 1
    BY <2>1, <2>2, <2>3, Constant DEF Ids
  <2>5. /\ st' \in [Ends -> [Ids -> StreamType]]
        /\ \A x \in Ends, i \in Ids : StatusKnown(st'[x][i])
    BY <1>1, <2>2, <2>4, FreshTyped, StreamSet
  <2>6. /\ streams' \in [Ends -> SUBSET Ids]
        /\ streams'[Node] = streams[Node] \cup {f.id}
        /\ streams'[Controller] = streams[Controller]
    BY <1>1, <2>1, <2>2, <2>4, Constant DEF StreamsTyped
  <2>7. StreamsTyped' /\ RestTyped'
    BY <1>1, <2>2, <2>3, <2>4, <2>5, <2>6 DEF StreamsTyped, RestTyped
  <2>8. IdsInOrder'
    <3>1. /\ nextPeerStreamId \in Nat /\ nextPeerStreamId' = nextPeerStreamId + 1
          /\ locallyClosed' = locallyClosed /\ seen' = seen /\ nextStreamId' = nextStreamId
          /\ streams'[Node] = streams[Node] \cup {nextPeerStreamId}
      BY <1>1, <2>1, <2>2, <2>6 DEF RestTyped
    <3>2. \A id \in Ids : id \in Nat
      BY Constant
    <3>3. /\ \A id \in Ids : id \in streams'[Node] \cup locallyClosed'[Node] => id < nextPeerStreamId'
          /\ \A id \in Ids : id \in locallyClosed'[Node] => id \notin streams'[Node]
      BY <3>1, <3>2 DEF SessionInv, IdsInOrder
    <3>4. QED
      BY <2>6, <3>1, <3>3 DEF SessionInv, IdsInOrder
  <2>9. QED
    BY <2>7, <2>8 DEF SessionInv, Typed
<1>4. QED
  BY <1>2, <1>3

LEMMA ReceiveDataKeeps ==
    ASSUME SessionInv, UNCHANGED load, NEW e \in Ends, ReceiveData(e) PROVE SessionInv'
<1> DEFINE f == Head(net[e])
           verdict == DataVerdict(e, f)
<1>1. StreamsTyped /\ RestTyped /\ net[e] # <<>>
  BY DEF SessionInv, Typed, ReceiveData, Arrived
<1>2. CASE verdict \notin {"ok", "crossing"}
  <2>1. Poison(e, verdict) /\ verdict \in Verdicts
    BY <1>2 DEF ReceiveData, DataVerdict, Verdicts
  <2>2. QED
    BY <1>1, <2>1, PoisonKeeps
<1>3. CASE verdict \in {"ok", "crossing"}
  <2> DEFINE s == st[e][f.id]
             c == s.peerDataClosed \/ f.end
             o == IF verdict = "ok" THEN s.outstanding + f.units ELSE s.outstanding
             t == [s EXCEPT !.peerDataClosed = c, !.outstanding = o]
  <2>1. /\ st' = [st EXCEPT
               ![e][f.id].peerDataClosed = @ \/ f.end,
               ![e][f.id].outstanding = IF verdict = "ok" THEN @ + f.units ELSE @]
        /\ got' = IF verdict = "ok" /\ f.units > 0
                  THEN [got EXCEPT ![e][f.id] = Append(@, f.ch)] ELSE got
        /\ net' = Rest(e)
        /\ UNCHANGED <<streams, locallyClosed, nextStreamId, nextPeerStreamId,
                       sentGoAway, receivedGoAway, failed, used, sent, reported, seen>>
    BY <1>3 DEF ReceiveData
  <2>2. /\ f.id \in 0 .. MaxStreams /\ f.units \in Nat /\ f.ch \in Channels
        /\ f.end \in BOOLEAN /\ net' \in [Ends -> Seq(WireFrame)]
    BY <1>1, <2>1, HeadTyped DEF StreamsTyped
  <2>3. /\ f.id \in streams[e] \cup locallyClosed[e]
        /\ verdict = "ok" => ~(f.units > Window - s.outstanding)
    BY <1>3 DEF DataVerdict
  <2>4. f.id \in Ids
    BY <1>1, <2>3 DEF StreamsTyped
  <2> HIDE DEF f, verdict
  <2>5. s \in StreamType /\ StatusKnown(s)
    BY <1>1, <2>4 DEF StreamsTyped
  <2>6. st' = [st EXCEPT ![e][f.id] = t]
    BY <1>1, <2>1, <2>4, <2>5, ZenonT(60) DEF StreamsTyped, StreamType
  <2> HIDE DEF s
  <2>7. s.outstanding \in 0 .. Window /\ s.peerDataClosed \in BOOLEAN
    BY <2>5 DEF StreamType
  <2>8. o \in 0 .. Window
    BY <2>2, <2>3, <2>7, Constant
  <2>9. PICK b \in BOOLEAN : b = c
    OBVIOUS
  <2> HIDE DEF o, c
  <2>10. t \in StreamType /\ StatusKnown(t)
    BY <2>5, <2>8, <2>9 DEF StreamType, StatusKnown
  <2> HIDE DEF t
  <2>11. /\ st' \in [Ends -> [Ids -> StreamType]]
         /\ \A x \in Ends, i \in Ids : StatusKnown(st'[x][i])
    BY <1>1, <2>4, <2>6, <2>10, StreamSet
  <2>12. StreamsTyped' /\ OpensNone
    BY <1>1, <2>1, <2>2, <2>11 DEF StreamsTyped, OpensNone
  <2>13. got' \in [Ends -> [Ids -> Seq(Channels)]]
    <3>1. Append(got[e][f.id], f.ch) \in Seq(Channels)
      BY <1>1, <2>2, <2>4, AppendProperties DEF RestTyped
    <3>2. QED
      BY <1>1, <2>1, <2>4, <3>1 DEF RestTyped
  <2>14. RestTyped' /\ IdsInOrder'
    BY <1>1, <2>1, <2>12, <2>13, OrderKept DEF RestTyped
  <2>15. QED
    BY <2>12, <2>14 DEF SessionInv, Typed
<1>4. QED
  BY <1>2, <1>3

LEMMA ReceiveExitKeeps ==
    ASSUME SessionInv, UNCHANGED load, NEW e \in Ends, ReceiveExit(e) PROVE SessionInv'
<1> DEFINE f == Head(net[e])
<1>1. StreamsTyped /\ RestTyped /\ net[e] # <<>> /\ f.type = "EXIT"
  BY DEF SessionInv, Typed, ReceiveExit, Arrived
<1>2. CASE ExitVerdict(e, f) # "ok"
  <2>1. Poison(e, ExitVerdict(e, f)) /\ ExitVerdict(e, f) \in Verdicts
    BY <1>2 DEF ReceiveExit, ExitVerdict, Verdicts
  <2>2. QED
    BY <1>1, <2>1, PoisonKeeps
<1>3. CASE ExitVerdict(e, f) = "ok"
  <2>1. e = Controller /\ f.id \in streams[Controller]
    BY <1>3 DEF ExitVerdict
  <2>2. /\ streams' = [streams EXCEPT ![e] = @ \ {f.id}]
        /\ st' = [st EXCEPT ![e][f.id] = FreshStream]
        /\ seen' = [seen EXCEPT ![f.id] = f.value]
        /\ net' = Rest(e)
        /\ UNCHANGED <<locallyClosed, nextStreamId, nextPeerStreamId, sentGoAway,
                       receivedGoAway, failed, used, sent, got, reported>>
    BY <1>3 DEF ReceiveExit
  <2>3. f \in WireFrame /\ net' \in [Ends -> Seq(WireFrame)]
    BY <1>1, <2>2, HeadTyped DEF StreamsTyped
  <2>4. f.value \in Statuses
    BY <1>1, <2>3 DEF WireFrame
  <2> HIDE DEF f
  <2>5. f.id \in Ids
    BY <1>1, <2>1, Constant DEF StreamsTyped
  <2>6. /\ st' \in [Ends -> [Ids -> StreamType]]
        /\ \A x \in Ends, i \in Ids : StatusKnown(st'[x][i])
    BY <1>1, <2>2, <2>5, FreshTyped, StreamSet
  <2>7. /\ streams' \in [Ends -> SUBSET Ids]
        /\ streams'[Controller] = streams[Controller] \ {f.id}
        /\ streams'[Node] = streams[Node]
    BY <1>1, <2>1, <2>2, Constant DEF StreamsTyped
  <2>8. StreamsTyped' /\ RestTyped'
    BY <1>1, <2>2, <2>3, <2>4, <2>5, <2>6, <2>7 DEF StreamsTyped, RestTyped
  <2>9. \A i \in Ids : seen'[i] = IF i = f.id THEN f.value ELSE seen[i]
    BY <1>1, <2>2, <2>5 DEF RestTyped
  <2>10. IdsInOrder'
    BY <2>1, <2>2, <2>7, <2>9 DEF SessionInv, IdsInOrder
  <2>11. QED
    BY <2>8, <2>10 DEF SessionInv, Typed
<1>4. QED
  BY <1>2, <1>3

LEMMA ReceiveWindowUpdateKeeps ==
    ASSUME SessionInv, UNCHANGED load, NEW e \in Ends, ReceiveWindowUpdate(e) PROVE SessionInv'
<1> DEFINE f == Head(net[e])
           verdict == UpdateVerdict(e, f)
           s == [st[e][f.id] EXCEPT !.sendCredit = @ + f.value]
<1>1. StreamsTyped /\ RestTyped /\ net[e] # <<>>
  BY DEF SessionInv, Typed, ReceiveWindowUpdate, Arrived
<1>2. /\ f.id \in 0 .. MaxStreams /\ f.value \in Nat /\ Rest(e) \in [Ends -> Seq(WireFrame)]
  BY <1>1, HeadTyped DEF StreamsTyped
<1>3. CASE verdict = "ok"
  <2>1. /\ f.id \in streams[e]
        /\ ~(st[e][f.id].sendCredit + f.value > MaxWindow)
    BY <1>3 DEF UpdateVerdict
  <2>2. /\ FlushStream(e, f.id, s, Rest(e))
        /\ UNCHANGED <<nextStreamId, nextPeerStreamId, sentGoAway,
                       receivedGoAway, failed, used, sent, got, reported, seen>>
    BY <1>3 DEF ReceiveWindowUpdate
  <2> HIDE DEF f, verdict
  <2>3. st[e][f.id] \in StreamType /\ StatusKnown(st[e][f.id])
    BY <1>1, <2>1 DEF StreamsTyped
  <2>4. st[e][f.id].sendCredit + f.value \in 0 .. MaxWindow
    <3>1. st[e][f.id].sendCredit \in 0 .. MaxWindow /\ f.value \in Nat /\ MaxWindow \in Nat
      BY <1>2, <2>3, Constant DEF StreamType
    <3>2. QED
      BY <2>1, <3>1
  <2>5. s \in StreamType /\ StatusKnown(s)
    BY <2>3, <2>4 DEF StreamType, StatusKnown
  <2> HIDE DEF s
  <2>6. StreamsTyped' /\ OpensNone
    BY <1>1, <1>2, <2>1, <2>2, <2>5, FlushStreamKeeps
  <2>7. RestTyped' /\ IdsInOrder'
    BY <1>1, <2>2, <2>6, OrderKept DEF RestTyped
  <2>8. QED
    BY <2>6, <2>7 DEF SessionInv, Typed
<1>4. CASE verdict = "crossing"
  <2>1. net' = Rest(e) /\ UNCHANGED <<sessionVars, used, sent, got, reported, seen>>
    BY <1>4 DEF ReceiveWindowUpdate
  <2>2. StreamsTyped' /\ OpensNone
    BY <1>1, <1>2, <2>1, SameStreams DEF sessionVars
  <2>3. RestTyped' /\ IdsInOrder'
    BY <1>1, <2>1, <2>2, OrderKept DEF RestTyped, sessionVars
  <2>4. QED
    BY <2>2, <2>3 DEF SessionInv, Typed
<1>5. CASE verdict \notin {"ok", "crossing"}
  <2>1. Poison(e, verdict) /\ verdict \in Verdicts
    BY <1>5 DEF ReceiveWindowUpdate, UpdateVerdict, Verdicts
  <2>2. QED
    BY <1>1, <2>1, PoisonKeeps
<1>6. QED
  BY <1>3, <1>4, <1>5

LEMMA ReceiveConnectionKeeps ==
    ASSUME SessionInv, UNCHANGED load, NEW e \in Ends, ReceiveConnection(e) PROVE SessionInv'
<1> DEFINE f == Head(net[e])
<1>1. StreamsTyped /\ RestTyped /\ net[e] # <<>>
  BY DEF SessionInv, Typed, ReceiveConnection, Arrived
<1>2. CASE f.id # 0
  <2>1. Poison(e, "connection frame on a stream") /\ "connection frame on a stream" \in Verdicts
    BY <1>2 DEF ReceiveConnection, Verdicts
  <2>2. QED
    BY <1>1, <2>1, PoisonKeeps
<1>3. CASE f.id = 0
  <2>1. /\ net' = IF f.type = "PING"
                  THEN [Rest(e) EXCEPT ![Peer(e)] = Append(@, ConnFrame("PONG"))]
                  ELSE Rest(e)
        /\ receivedGoAway' = [receivedGoAway EXCEPT ![e] = @ \/ f.type = "GOAWAY"]
        /\ UNCHANGED <<streams, locallyClosed, st, nextStreamId, nextPeerStreamId,
                       sentGoAway, failed, used, sent, got, reported, seen>>
    BY <1>3 DEF ReceiveConnection
  <2>2. Rest(e) \in [Ends -> Seq(WireFrame)] /\ Peer(e) \in Ends /\ 1 \in Ids
    BY <1>1, HeadTyped, Constant DEF StreamsTyped, Ids
  <2>3. net' \in [Ends -> Seq(WireFrame)]
    <3>1. Append(Rest(e)[Peer(e)], ConnFrame("PONG")) \in Seq(WireFrame)
      BY <2>2, FramesTyped, AppendProperties
    <3>2. QED
      BY <2>1, <2>2, <3>1
  <2>4. StreamsTyped' /\ OpensNone
    BY <1>1, <2>1, <2>3, SameStreams
  <2>5. receivedGoAway' \in [Ends -> BOOLEAN]
    <3>1. PICK b \in BOOLEAN : b = (receivedGoAway[e] \/ f.type = "GOAWAY")
      OBVIOUS
    <3>2. receivedGoAway' = [receivedGoAway EXCEPT ![e] = b]
      BY <2>1, <3>1 DEF RestTyped
    <3>3. QED
      BY <1>1, <3>2 DEF RestTyped
  <2>6. RestTyped' /\ IdsInOrder'
    BY <1>1, <2>1, <2>4, <2>5, OrderKept DEF RestTyped
  <2>7. QED
    BY <2>4, <2>6 DEF SessionInv, Typed
<1>4. QED
  BY <1>2, <1>3

\* Every step keeps the types and the order of the ids.
LEMMA NextKeeps == ASSUME SessionInv, Next PROVE SessionInv'
<1>1. UNCHANGED load /\ Step
  BY DEF Next
<1>2. CASE Open
  BY <1>1, <1>2, OpenKeeps
<1>3. ASSUME NEW e \in Ends, NEW id \in Ids, NEW ch \in Channels, NEW units \in 0 .. MaxUnits(e),
             NEW end \in BOOLEAN, SendData(e, id, ch, units, end)
      PROVE  SessionInv'
  <2>1. units \in Nat
    BY SessionAssumption
  <2>2. QED
    BY <1>1, <1>3, <2>1, SendDataKeeps
<1>4. ASSUME NEW e \in Ends, NEW id \in Ids, NEW n \in 1 .. Window, Consume(e, id, n)
      PROVE  SessionInv'
  BY <1>1, <1>4, ConsumeKeeps
<1>5. ASSUME NEW id \in Ids, NEW status \in Statuses, SendExit(id, status)
      PROVE  SessionInv'
  BY <1>1, <1>5, SendExitKeeps
<1>6. ASSUME NEW e \in Ends, Ping(e) \/ GoAway(e) \/ Receive(e) \/ Inject(e)
      PROVE  SessionInv'
  BY <1>1, <1>6, PingKeeps, GoAwayKeeps, InjectKeeps, ReceiveOpenKeeps, ReceiveDataKeeps,
     ReceiveExitKeeps, ReceiveWindowUpdateKeeps, ReceiveConnectionKeeps DEF Receive
<1>7. QED
  BY <1>1, <1>2, <1>3, <1>4, <1>5, <1>6 DEF Step

LEMMA StutterKeeps == ASSUME SessionInv, UNCHANGED vars PROVE SessionInv'
<1>1. UNCHANGED <<streams, locallyClosed, st, nextStreamId, nextPeerStreamId, sentGoAway,
                  receivedGoAway, failed, net, used, sent, got, reported, seen, load>>
  BY DEF vars
<1>2. StreamsTyped'
  BY <1>1 DEF SessionInv, Typed, StreamsTyped
<1>3. RestTyped'
  BY <1>1 DEF SessionInv, Typed, RestTyped
<1>4. IdsInOrder'
  BY <1>1 DEF SessionInv, IdsInOrder
<1>5. QED
  BY <1>2, <1>3, <1>4 DEF SessionInv, Typed

LEMMA SessionInductive == Spec => []SessionInv
<1>1. SessionInv /\ [Next]_vars => SessionInv'
  BY NextKeeps, StutterKeeps
<1>2. QED
  BY InitTyped, <1>1, PTL DEF Spec

\* What a step may do to the streams that ended.
StaysClosed ==
    \A id \in Ids :
        /\ seen[id] # None => /\ seen'[id] = seen[id]
                              /\ got'[Controller][id] = got[Controller][id]
                              /\ id \notin streams'[Controller]
        /\ id \in locallyClosed[Node] => id \notin streams'[Node]

\* Nothing is delivered, and no closed id is forgotten.
Quiet == UNCHANGED <<seen, got>> /\ locallyClosed[Node] \subseteq locallyClosed'[Node]

LEMMA QuietCloses == ASSUME SessionInv, SessionInv', Quiet PROVE StaysClosed
  BY DEF SessionInv, IdsInOrder, Quiet, StaysClosed

LEMMA FlushQuiet ==
    ASSUME StreamsTyped, NEW e \in Ends, NEW id, NEW s, NEW base, FlushStream(e, id, s, base)
    PROVE  locallyClosed[Node] \subseteq locallyClosed'[Node]
<1>1. \/ locallyClosed' = [locallyClosed EXCEPT ![e] = @ \cup {id}]
      \/ locallyClosed' = locallyClosed
  BY DEF FlushStream
<1>2. QED
  <2>1. CASE locallyClosed' = [locallyClosed EXCEPT ![e] = @ \cup {id}]
    BY <2>1, Constant, SMT DEF StreamsTyped
  <2>2. QED
    BY <1>1, <2>1

LEMMA DataCloses ==
    ASSUME SessionInv, SessionInv', NEW e \in Ends, ReceiveData(e) PROVE StaysClosed
<1> DEFINE f == Head(net[e])
           verdict == DataVerdict(e, f)
<1>1. /\ seen' = seen /\ locallyClosed' = locallyClosed
      /\ \/ got' = got
         \/ verdict = "ok" /\ got' = [got EXCEPT ![e][f.id] = Append(@, f.ch)]
  BY DEF ReceiveData, Poison
<1>2. verdict = "ok" => f.id \in streams[e]
  BY DEF DataVerdict
<1> HIDE DEF f, verdict
<1>3. ASSUME NEW id \in Ids, seen[id] # None PROVE got'[Controller][id] = got[Controller][id]
  <2>1. e = Controller => id # f.id \/ got' = got
    BY <1>1, <1>2, <1>3 DEF SessionInv, IdsInOrder
  <2>2. QED
    BY <1>1, <2>1, Constant, SMTT(30) DEF SessionInv, Typed, RestTyped
<1>4. QED
  BY <1>1, <1>3 DEF SessionInv, IdsInOrder, StaysClosed

LEMMA ExitCloses ==
    ASSUME SessionInv, SessionInv', NEW e \in Ends, ReceiveExit(e) PROVE StaysClosed
<1> DEFINE f == Head(net[e])
<1>1. /\ got' = got /\ locallyClosed' = locallyClosed
      /\ \/ seen' = seen
         \/ f.id \in streams[Controller] /\ seen' = [seen EXCEPT ![f.id] = f.value]
  BY DEF ReceiveExit, Poison, ExitVerdict
<1> HIDE DEF f
<1>2. ASSUME NEW id \in Ids, seen[id] # None PROVE seen'[id] = seen[id]
  BY <1>1, <1>2 DEF SessionInv, IdsInOrder, Typed, RestTyped
<1>3. QED
  BY <1>1, <1>2 DEF SessionInv, IdsInOrder, StaysClosed

LEMMA StepCloses == ASSUME SessionInv, SessionInv', Next PROVE StaysClosed
<1>1. StreamsTyped /\ Step
  BY DEF Next, SessionInv, Typed
<1>2. CASE Open
  BY <1>2, QuietCloses DEF Open, Quiet
<1>3. ASSUME NEW e \in Ends, NEW id \in Ids, NEW ch, NEW units, NEW end,
             SendData(e, id, ch, units, end)
      PROVE  StaysClosed
  <2>1. Quiet
    BY <1>1, <1>3, FlushQuiet DEF SendData, Quiet
  <2>2. QED
    BY <2>1, QuietCloses
<1>4. ASSUME NEW e \in Ends, NEW id \in Ids, NEW n, Consume(e, id, n) PROVE StaysClosed
  BY <1>4, QuietCloses DEF Consume, Quiet
<1>5. ASSUME NEW id \in Ids, NEW status, SendExit(id, status) PROVE StaysClosed
  <2>1. Quiet
    BY <1>1, <1>5, FlushQuiet, Constant DEF SendExit, Quiet
  <2>2. QED
    BY <2>1, QuietCloses
<1>6. ASSUME NEW e \in Ends, Ping(e) \/ GoAway(e) \/ Inject(e) PROVE StaysClosed
  BY <1>6, QuietCloses DEF Ping, GoAway, Inject, Quiet, sessionVars
<1>7. ASSUME NEW e \in Ends, ReceiveWindowUpdate(e) PROVE StaysClosed
  <2>1. Quiet
    BY <1>1, <1>7, FlushQuiet DEF ReceiveWindowUpdate, Poison, Quiet, sessionVars
  <2>2. QED
    BY <2>1, QuietCloses
<1>8. ASSUME NEW e \in Ends, ReceiveOpen(e) \/ ReceiveConnection(e) PROVE StaysClosed
  BY <1>8, QuietCloses DEF ReceiveOpen, ReceiveConnection, Poison, Quiet
<1>9. QED
  BY <1>1, <1>2, <1>3, <1>4, <1>5, <1>6, <1>7, <1>8, DataCloses, ExitCloses DEF Step, Receive

\* Two sessions keep their types whatever the peer sends: credit never exceeds
\* kMaxStreamWindow and nothing delivered and unconsumed exceeds the window (the
\* checks of dispatch() and CreditWindow::onData).
THEOREM SessionsTyped == Spec => []TypeOK
<1>1. SessionInv => TypeOK
  BY DEF SessionInv, Typed, StreamsTyped, RestTyped, TypeOK
<1>2. QED
  BY <1>1, SessionInductive, PTL

\* Whatever the peer sends, a stream whose EXIT was delivered or sent stays
\* ended: its output and status are final and its id is never opened again (the
\* sequential ids and the closed-stream rules of dispatch()).
THEOREM SessionsStayClosed == Spec => ClosedStaysClosed
<1>1. SessionInv /\ SessionInv' /\ [Next]_vars => [StaysClosed]_vars
  BY StepCloses
<1>2. Spec => [][StaysClosed]_vars
  BY <1>1, SessionInductive, PTL DEF Spec
<1>3. QED
  BY <1>2 DEF ClosedStaysClosed, StaysClosed

-----------------------------------------------------------------------------
(* Two endpoints that follow the protocol.  What holds of one stream is said *)
(* of its id, the wires toC and toN, its records c and n at the two ends,    *)
(* whether the node has closed it, and what the applications handed in       *)
(* (out, rep) and were given (in, see).                                      *)

IsData(f, id) == f.type = "DATA" /\ f.id = id
IsExit(f, id) == f.type = "EXIT" /\ f.id = id
NoFrame(w, id) == \A i \in 1 .. Len(w) : w[i].id # id
NoData(w, id) == \A i \in 1 .. Len(w) : ~IsData(w[i], id)
NoEnd(w, id) == \A i \in 1 .. Len(w) : ~(IsData(w[i], id) /\ w[i].end)
NoExit(w, id) == \A i \in 1 .. Len(w) : ~IsExit(w[i], id)

\* Nothing of a stream's payload follows its END_STREAM.
EndLast(w, id) ==
    \A i, j \in 1 .. Len(w) : (i < j /\ IsData(w[i], id) /\ w[i].end) => ~IsData(w[j], id)

\* Nothing of a stream follows its EXIT, which has the reported status.
ExitLast(w, id, status) ==
    \A i \in 1 .. Len(w) : IsExit(w[i], id) =>
        /\ w[i].value = status
        /\ \A j \in 1 .. Len(w) : i < j => w[j].id # id

\* The sender s has DATA or END_STREAM still to send.
CanSend(s) == s.queue # <<>> \/ s.sendEndPending \/ ~s.localDataClosed

\* One direction, from record s over wire w to record r: END_STREAM comes last,
\* and has not been sent while s can send.
HalfClose(w, id, s, r, active) ==
    /\ s.sendEndPending => s.localDataClosed
    /\ EndLast(w, id)
    /\ r.peerDataClosed => NoData(w, id)
    /\ (active /\ CanSend(s)) => NoEnd(w, id) /\ ~r.peerDataClosed

\* Credit of one direction, which the receiver returns over wire b: while both
\* ends have the stream none is minted or lost; once one end has closed it, what
\* is still on its way fits the window it will meet.
Balanced(credit, units, outstanding, pending, grants, sends, receives) ==
    /\ (sends /\ receives) => credit + units + outstanding + pending + grants = Window
    /\ receives => units + outstanding + pending <= Window
    /\ sends => credit + grants <= Window
Credit(id, w, b, s, r, sends, receives) ==
    Balanced(s.sendCredit, UnitsOn(w, id), r.outstanding, r.pendingUpdate, CreditOn(b, id),
             sends, receives)

\* One direction of stream id: record s sends over wire w to record r.
Lane(id, w, b, s, r, sends, receives) ==
    /\ HalfClose(w, id, s, r, sends)
    /\ Credit(id, w, b, s, r, sends, receives)

\* The exit: reported, pending, on the wire, delivered.
ExitOk(id, w, n, live, rep, see) ==
    /\ ExitLast(w, id, rep)
    /\ live => NoExit(w, id) /\ see = None
    /\ ~live => n.queue = <<>>
    /\ n.exitPending => n.exitStatus = rep
    /\ see # None => see = rep /\ NoFrame(w, id)

\* The frames that the two ends send; those on the wire to e.
Sane(f) ==
    /\ f.type \in {"PING", "PONG", "GOAWAY"} => f.id = 0
    /\ f.type \in {"OPEN", "DATA", "EXIT", "WINDOW_UPDATE"} => f.id \in Ids
    /\ f.type = "DATA" => f.units \in {0, 1}
    /\ f.type = "WINDOW_UPDATE" => f.value \in 1 .. Window
SaneAt(e, f) ==
    /\ Sane(f)
    /\ e = Controller => f.type # "OPEN"
    /\ e = Node => f.type # "EXIT" /\ (f.type = "DATA" => f.ch = "stdout")
FramesSane == \A e \in Ends : \A i \in 1 .. Len(net[e]) : SaneAt(e, net[e][i])

\* Whether e has not ended stream id, and the first id that e has not seen.
Live(e, id) == IF e = Controller THEN seen[id] = None ELSE id \notin locallyClosed[Node]
Unseen(e) == IF e = Controller THEN nextStreamId ELSE nextPeerStreamId

\* Which streams are open at which end, and that there is nothing of the others.
Known ==
    /\ nextPeerStreamId <= nextStreamId
    /\ locallyClosed[Controller] = {}
    /\ \A e \in Ends, id \in Ids :
          /\ id \in streams[e] <=> id < Unseen(e) /\ Live(e, id)
          /\ id >= Unseen(e) => st[e][id] = FreshStream /\ NoFrame(net[Peer(e)], id)

\* OPENs are on the wire to the node in the order of their ids, each ahead of
\* the other frames of its stream, and none behind a GOAWAY.
OpensInOrder(w, next, end) ==
    /\ \A i \in 1 .. Len(w) : w[i].type = "OPEN" => w[i].id >= next /\ w[i].id < end
    /\ \A i, j \in 1 .. Len(w) : (i < j /\ w[i].type = "OPEN" /\ w[j].type = "OPEN") => w[i].id < w[j].id
    /\ \A id \in Ids : (next <= id /\ id < end) => \E i \in 1 .. Len(w) : w[i].type = "OPEN" /\ w[i].id = id
    /\ \A i \in 1 .. Len(w) : (w[i].type # "OPEN" /\ w[i].id >= next) =>
          \E j \in 1 .. Len(w) : j < i /\ w[j].type = "OPEN" /\ w[j].id = w[i].id
GoAwayLast(w, said, heard) ==
    /\ \A i, j \in 1 .. Len(w) : (i < j /\ w[i].type = "GOAWAY") => w[j].type # "OPEN"
    /\ \A i \in 1 .. Len(w) : w[i].type = "GOAWAY" => said
    /\ heard => said
    /\ heard => \A i \in 1 .. Len(w) : w[i].type # "OPEN"
OpensReadable ==
    failed[Node] = "no" =>
        /\ OpensInOrder(net[Node], nextPeerStreamId, nextStreamId)
        /\ GoAwayLast(net[Node], sentGoAway[Controller], receivedGoAway[Node])

LaneFrom(e, id) ==
    Lane(id, net[Peer(e)], net[e], st[e][id], st[Peer(e)][id], Live(e, id), Live(Peer(e), id))
OutputOf(id) ==
    /\ ExitOk(id, net[Controller], st[Node][id], Live(Node, id), reported[id], seen[id])
    /\ Conserves(sent[Node][id], got[Controller][id], net[Controller], id, st[Node][id].queue)
\* The controller ends no stream by EXIT and sends stdin.
StdinOnly(c) == ~c.exitPending /\ \A i \in 1 .. Len(c.queue) : c.queue[i] = "stdout"
StreamOk(id) ==
    (\A e \in Ends : LaneFrom(e, id)) /\ OutputOf(id) /\ StdinOnly(st[Controller][id])

\* No end has failed, but for a draining node that an OPEN has crossed.
NoneFailed ==
    /\ sentGoAway[Node] => Node \in load.drain
    /\ failed[Controller] = "no"
    /\ failed[Node] = "no" \/ (sentGoAway[Node] /\ failed[Node] = "OPEN after GOAWAY")

HonestInv ==
    FramesSane /\ Known /\ OpensReadable /\ NoneFailed /\ \A id \in Ids : StreamOk(id)

-----------------------------------------------------------------------------
(* Counting on a wire. *)

\* The positions of id's units among the first n frames, and its credit, unit by unit.
UnitsAt(w, id, n) == {i \in 1 .. n : IsUnit(w[i], id)}
CreditAt(w, id) ==
    {x \in (1 .. Len(w)) \X (1 .. MaxWindow) : IsCredit(w[x[1]], id) /\ x[2] <= w[x[1]].value}

LEMMA BijectionCounts ==
    ASSUME NEW S, NEW T, IsFiniteSet(S), NEW f \in [S -> T],
           \A x, y \in S : f[x] = f[y] => x = y, \A t \in T : \E x \in S : f[x] = t
    PROVE  IsFiniteSet(T) /\ Cardinality(T) = Cardinality(S)
<1>1. f \in Bijection(S, T)
  BY DEF Bijection, Injection, Surjection, IsInjective
<1>2. ExistsBijection(S, T)
  BY <1>1 DEF ExistsBijection
<1>3. QED
  BY <1>2, FS_Bijection

LEMMA UnionCounts ==
    ASSUME NEW S, NEW T, IsFiniteSet(S), IsFiniteSet(T), S \cap T = {}
    PROVE  /\ IsFiniteSet(S \cup T) /\ Cardinality(S \cup T) = Cardinality(S) + Cardinality(T)
           /\ Cardinality(S) \in Nat /\ Cardinality(T) \in Nat
<1>1. /\ Cardinality(S) \in Nat /\ Cardinality(T) \in Nat
  BY FS_CardinalityType
<1>2. /\ IsFiniteSet(S \cup T)
      /\ Cardinality(S \cup T) = Cardinality(S) + Cardinality(T) - Cardinality(S \cap T)
  BY FS_Union
<1>3. Cardinality(S \cap T) = 0
  BY FS_EmptySet
<1>4. QED
  BY <1>1, <1>2, <1>3

LEMMA UnitsFinite ==
    ASSUME NEW w, NEW id, NEW n \in Nat
    PROVE  IsFiniteSet(UnitsAt(w, id, n)) /\ UnitsAhead(w, id, n) \in Nat
           /\ UnitsAhead(w, id, n) = Cardinality(UnitsAt(w, id, n))
<1>1. IsFiniteSet(1 .. n) /\ UnitsAt(w, id, n) \in SUBSET (1 .. n)
  BY FS_Interval DEF UnitsAt
<1>2. IsFiniteSet(UnitsAt(w, id, n))
  BY <1>1, FS_Subset
<1>3. UnitsAhead(w, id, n) = Cardinality(UnitsAt(w, id, n))
  BY DEF UnitsAhead, UnitsAt
<1>4. QED
  BY <1>2, <1>3, FS_CardinalityType

\* Only the frames counted matter.
LEMMA UnitsSame ==
    ASSUME NEW v, NEW w, NEW id, NEW n \in Nat, \A i \in 1 .. n : v[i] = w[i]
    PROVE  UnitsAhead(v, id, n) = UnitsAhead(w, id, n)
<1>1. UnitsAt(v, id, n) = UnitsAt(w, id, n)
  BY DEF UnitsAt
<1>2. QED
  BY <1>1, UnitsFinite

\* k frames further, all of them units of id, or none.
LEMMA UnitsMore ==
    ASSUME NEW w, NEW id, NEW n \in Nat, NEW k \in Nat, \A i \in n + 1 .. n + k : IsUnit(w[i], id)
    PROVE  UnitsAhead(w, id, n + k) = UnitsAhead(w, id, n) + k
<1> DEFINE T == n + 1 .. n + k
<1>1. n + k \in Nat /\ n + 1 \in Int /\ n + k \in Int
  OBVIOUS
<1>2. UnitsAt(w, id, n + k) = UnitsAt(w, id, n) \cup T
  BY DEF UnitsAt
<1>3. UnitsAt(w, id, n) \cap T = {}
  BY DEF UnitsAt
<1>4. IsFiniteSet(T) /\ Cardinality(T) = k
  BY <1>1, FS_Interval
<1> HIDE DEF T
<1>5. QED
  BY <1>1, <1>2, <1>3, <1>4, UnitsFinite, UnionCounts

LEMMA NoMoreUnits ==
    ASSUME NEW w, NEW id, NEW n \in Nat, NEW k \in Nat, \A i \in n + 1 .. n + k : ~IsUnit(w[i], id)
    PROVE  UnitsAhead(w, id, n + k) = UnitsAhead(w, id, n)
<1>1. UnitsAt(w, id, n + k) = UnitsAt(w, id, n)
  BY DEF UnitsAt
<1>2. n + k \in Nat
  OBVIOUS
<1>3. QED
  BY <1>1, <1>2, UnitsFinite

\* The same count seen from behind the first frame.
LEMMA UnitsTail ==
    ASSUME NEW S, NEW w \in Seq(S), w # <<>>, NEW id, NEW n \in 0 .. Len(w) - 1
    PROVE  UnitsAhead(w, id, n + 1) = UnitsAhead(Tail(w), id, n) + (IF IsUnit(w[1], id) THEN 1 ELSE 0)
<1> DEFINE A == UnitsAt(Tail(w), id, n)
           B == UnitsAt(w, id, n + 1) \ {1}
           f == [i \in A |-> i + 1]
<1>1. /\ Len(w) \in Nat /\ n \in Nat /\ n + 1 \in Nat /\ Len(Tail(w)) = Len(w) - 1
      /\ \A i \in 1 .. n : Tail(w)[i] = w[i + 1]
  BY HeadTailProperties
<1>2. IsFiniteSet(A) /\ IsFiniteSet(UnitsAt(w, id, n + 1))
  BY <1>1, UnitsFinite
<1>3. \A i \in A : i \in 1 .. n /\ i + 1 \in B
  BY <1>1 DEF UnitsAt
<1>4. \A j \in B : j - 1 \in A /\ j \in Nat
  BY <1>1 DEF UnitsAt
<1> HIDE DEF A, B
<1>5. f \in [A -> B] /\ \A x, y \in A : f[x] = f[y] => x = y
  BY <1>3
<1>6. \A t \in B : \E x \in A : f[x] = t
  <2> TAKE t \in B
  <2>1. t - 1 \in A /\ f[t - 1] = t
    BY <1>4
  <2>2. QED
    BY <2>1
<1> HIDE DEF f
<1>7. IsFiniteSet(B) /\ Cardinality(B) = Cardinality(A)
  BY <1>2, <1>5, <1>6, BijectionCounts
<1>8. Cardinality(B) = IF IsUnit(w[1], id) THEN Cardinality(UnitsAt(w, id, n + 1)) - 1
                                          ELSE Cardinality(UnitsAt(w, id, n + 1))
  <2>1. 1 \in UnitsAt(w, id, n + 1) <=> IsUnit(w[1], id)
    BY <1>1 DEF UnitsAt
  <2>2. QED
    BY <1>2, <2>1, FS_RemoveElement DEF B
<1>9. /\ UnitsAhead(w, id, n + 1) = Cardinality(UnitsAt(w, id, n + 1)) /\ UnitsAhead(w, id, n + 1) \in Nat
      /\ UnitsAhead(Tail(w), id, n) = Cardinality(A) /\ UnitsAhead(Tail(w), id, n) \in Nat
  BY <1>1, UnitsFinite DEF A
<1>10. QED
  BY <1>7, <1>8, <1>9

LEMMA CreditFinite ==
    ASSUME NEW S, NEW w \in Seq(S), NEW id
    PROVE  /\ IsFiniteSet(CreditAt(w, id)) /\ CreditOn(w, id) = Cardinality(CreditAt(w, id))
           /\ CreditOn(w, id) \in Nat
<1>1. IsFiniteSet(1 .. Len(w)) /\ IsFiniteSet(1 .. MaxWindow)
  BY SessionAssumption, FS_Interval
<1>2. IsFiniteSet((1 .. Len(w)) \X (1 .. MaxWindow))
  BY <1>1, FS_Product
<1>3. CreditAt(w, id) \in SUBSET ((1 .. Len(w)) \X (1 .. MaxWindow))
  BY DEF CreditAt
<1>4. IsFiniteSet(CreditAt(w, id))
  BY <1>2, <1>3, FS_Subset
<1>5. CreditOn(w, id) = Cardinality(CreditAt(w, id))
  BY DEF CreditOn, CreditAt
<1>6. QED
  BY <1>4, <1>5, FS_CardinalityType

\* The credit of the frame at position i, unit by unit.
LEMMA RowCounts ==
    ASSUME NEW i \in Nat, NEW v \in Nat
    PROVE  IsFiniteSet({i} \X (1 .. v)) /\ Cardinality({i} \X (1 .. v)) = v
<1>1. IsFiniteSet({i}) /\ Cardinality({i}) = 1
  BY FS_Singleton
<1>2. IsFiniteSet(1 .. v) /\ Cardinality(1 .. v) = v
  BY FS_Interval
<1>3. /\ IsFiniteSet({i} \X (1 .. v))
      /\ Cardinality({i} \X (1 .. v)) = Cardinality({i}) * Cardinality(1 .. v)
  BY <1>1, <1>2, FS_Product, Zenon
<1>4. 1 * v = v
  OBVIOUS
<1>5. QED
  BY <1>1, <1>2, <1>3, <1>4, Zenon

\* Frames put on a wire: without credit for id, or one with v of it.
LEMMA CreditConcat ==
    ASSUME NEW S, NEW w \in Seq(S), NEW g \in Seq(S), NEW id,
           \A i \in 1 .. Len(g) : ~IsCredit(g[i], id)
    PROVE  CreditOn(w \o g, id) = CreditOn(w, id)
<1>1. /\ w \o g \in Seq(S) /\ Len(w) \in Nat /\ Len(g) \in Nat
      /\ Len(w \o g) = Len(w) + Len(g)
      /\ \A i \in 1 .. Len(w) : (w \o g)[i] = w[i]
      /\ \A i \in 1 .. Len(w \o g) : i > Len(w) => i - Len(w) \in 1 .. Len(g) /\ (w \o g)[i] = g[i - Len(w)]
  BY ConcatProperties
<1>2. CreditAt(w \o g, id) = CreditAt(w, id)
  <2> DEFINE v == w \o g
  <2>1. \A i \in 1 .. Len(v) : IsCredit(v[i], id) => i \in 1 .. Len(w)
    BY <1>1
  <2>2. \A i \in 1 .. Len(w) : i \in 1 .. Len(v) /\ v[i] = w[i]
    BY <1>1
  <2> HIDE DEF v
  <2>3. CreditAt(v, id) = CreditAt(w, id)
    BY <2>1, <2>2 DEF CreditAt
  <2>4. QED
    BY <2>3 DEF v
<1>3. QED
  BY <1>1, <1>2, CreditFinite

LEMMA CreditAppend ==
    ASSUME NEW S, NEW w \in Seq(S), NEW f \in S, NEW id, IsCredit(f, id), f.value \in 1 .. MaxWindow
    PROVE  CreditOn(Append(w, f), id) = CreditOn(w, id) + f.value
<1> DEFINE v == Append(w, f)
           R == {Len(w) + 1} \X (1 .. f.value)
<1>1. /\ v \in Seq(S) /\ Len(w) \in Nat /\ Len(v) = Len(w) + 1
      /\ \A i \in 1 .. Len(w) : v[i] = w[i]
      /\ v[Len(w) + 1] = f
  BY AppendProperties
<1>2. MaxWindow \in Nat /\ f.value \in Nat
  BY SessionAssumption
<1> HIDE DEF v
<1>3. CreditAt(v, id) = CreditAt(w, id) \cup R
  <2>1. ASSUME NEW x \in (1 .. Len(v)) \X (1 .. MaxWindow)
        PROVE  x \in CreditAt(v, id) <=> x \in CreditAt(w, id) \cup R
    <3>1. CASE x[1] = Len(w) + 1
      BY <1>1, <1>2, <3>1 DEF CreditAt
    <3>2. CASE x[1] # Len(w) + 1
      <4>1. x[1] \in 1 .. Len(w) /\ v[x[1]] = w[x[1]]
        BY <1>1, <3>2
      <4>2. QED
        BY <1>1, <3>2, <4>1 DEF CreditAt
    <3>3. QED
      BY <3>1, <3>2
  <2>2. CreditAt(v, id) \subseteq (1 .. Len(v)) \X (1 .. MaxWindow)
    BY DEF CreditAt
  <2>3. CreditAt(w, id) \cup R \subseteq (1 .. Len(v)) \X (1 .. MaxWindow)
    BY <1>1, <1>2 DEF CreditAt
  <2>4. QED
    BY <2>1, <2>2, <2>3
<1>4. CreditAt(w, id) \cap R = {}
  BY <1>1 DEF CreditAt
<1>5. IsFiniteSet(R) /\ Cardinality(R) = f.value
  <2>1. Len(w) + 1 \in Nat
    BY <1>1
  <2>2. QED
    BY <1>2, <2>1, RowCounts, Zenon
<1> HIDE DEF R
<1>6. CreditOn(v, id) = CreditOn(w, id) + f.value
  BY <1>1, <1>3, <1>4, <1>5, CreditFinite, UnionCounts
<1>7. QED
  BY <1>6 DEF v

\* The first frame taken off.
LEMMA CreditTail ==
    ASSUME NEW S, NEW w \in Seq(S), w # <<>>, NEW id, IsCredit(w[1], id) => w[1].value \in 1 .. MaxWindow
    PROVE  CreditOn(w, id) = CreditOn(Tail(w), id) + (IF IsCredit(w[1], id) THEN w[1].value ELSE 0)
<1> DEFINE v == Tail(w)
           A == CreditAt(v, id)
           R == IF IsCredit(w[1], id) THEN {1} \X (1 .. w[1].value) ELSE {}
           B == CreditAt(w, id) \ R
           f == [x \in A |-> <<x[1] + 1, x[2]>>]
<1>1. /\ v \in Seq(S) /\ Len(w) \in Nat /\ Len(w) >= 1 /\ Len(v) = Len(w) - 1 /\ Len(v) \in Nat
      /\ \A i \in 1 .. Len(v) : v[i] = w[i + 1]
  BY HeadTailProperties
<1>2. MaxWindow \in Nat
  BY SessionAssumption
<1> HIDE DEF v
<1>3. \A x \in CreditAt(w, id) : x \in R <=> x[1] = 1
  BY <1>1 DEF CreditAt
<1>4. R \subseteq CreditAt(w, id)
  BY <1>1, <1>2 DEF CreditAt
<1>5. \A x \in A : x[1] \in 1 .. Len(v) /\ x[2] \in 1 .. MaxWindow /\ x = <<x[1], x[2]>>
  BY DEF CreditAt
<1>6. \A x \in A : <<x[1] + 1, x[2]>> \in B
  <2> TAKE x \in A
  <2>1. x[1] + 1 \in 1 .. Len(w) /\ w[x[1] + 1] = v[x[1]] /\ x[2] \in 1 .. MaxWindow /\ x[1] + 1 # 1
    BY <1>1, <1>5
  <2>2. <<x[1] + 1, x[2]>> \in CreditAt(w, id)
    BY <2>1 DEF CreditAt
  <2>3. QED
    BY <1>3, <2>1, <2>2
<1>7. \A y \in B : <<y[1] - 1, y[2]>> \in A /\ y = <<(y[1] - 1) + 1, y[2]>>
  <2> TAKE y \in B
  <2>1. y \in CreditAt(w, id) /\ y[1] # 1
    BY <1>3
  <2>2. y[1] \in 2 .. Len(w) /\ y[2] \in 1 .. MaxWindow /\ y = <<y[1], y[2]>>
    BY <1>1, <2>1 DEF CreditAt
  <2>3. y[1] - 1 \in 1 .. Len(v) /\ v[y[1] - 1] = w[y[1]] /\ (y[1] - 1) + 1 = y[1]
    <3>1. y[1] - 1 \in 1 .. Len(v) /\ (y[1] - 1) + 1 = y[1]
      BY <1>1, <2>2
    <3>2. v[y[1] - 1] = w[(y[1] - 1) + 1]
      BY <1>1, <3>1, Zenon
    <3>3. QED
      BY <3>1, <3>2, Zenon
  <2>4. QED
    BY <2>1, <2>2, <2>3 DEF CreditAt
<1>8. IsFiniteSet(A) /\ IsFiniteSet(CreditAt(w, id))
  BY <1>1, CreditFinite
<1>9. IsFiniteSet(R) /\ Cardinality(R) = IF IsCredit(w[1], id) THEN w[1].value ELSE 0
  <2>1. CASE IsCredit(w[1], id)
    <3>1. 1 \in Nat /\ w[1].value \in Nat /\ R = {1} \X (1 .. w[1].value)
      BY <2>1
    <3>2. QED
      BY <2>1, <3>1, RowCounts, Zenon
  <2>2. CASE ~IsCredit(w[1], id)
    BY <2>2, FS_EmptySet
  <2>3. QED
    BY <2>1, <2>2
<1> HIDE DEF A, R
<1>10. B \cap R = {} /\ CreditAt(w, id) = B \cup R /\ IsFiniteSet(B)
  BY <1>4, <1>8, FS_Subset
<1> HIDE DEF B
<1>11. f \in [A -> B]
  BY <1>6
<1>12. \A x, y \in A : f[x] = f[y] => x = y
  BY <1>5
<1>13. \A t \in B : \E x \in A : f[x] = t
  <2> TAKE t \in B
  <2> DEFINE x == <<t[1] - 1, t[2]>>
  <2>1. x \in A /\ f[x] = t
    BY <1>7
  <2>2. QED
    BY <2>1
<1> HIDE DEF f
<1>14. Cardinality(B) = Cardinality(A)
  BY <1>8, <1>11, <1>12, <1>13, BijectionCounts
<1>15. /\ Cardinality(CreditAt(w, id)) = Cardinality(B) + Cardinality(R)
  BY <1>9, <1>10, UnionCounts
<1>16. /\ CreditOn(w, id) = Cardinality(CreditAt(w, id))
       /\ CreditOn(Tail(w), id) = Cardinality(A) /\ CreditOn(Tail(w), id) \in Nat
  BY <1>1, CreditFinite DEF A, v
<1>17. QED
  BY <1>9, <1>14, <1>15, <1>16

-----------------------------------------------------------------------------
(* What other frames do to a stream: nothing. *)

\* As far as the payload of stream id goes, wire v says what w says; ...
SameData(v, w, id) ==
    /\ UnitsOn(v, id) = UnitsOn(w, id)
    /\ NoData(w, id) => NoData(v, id)
    /\ NoEnd(w, id) => NoEnd(v, id)
    /\ EndLast(w, id) => EndLast(v, id)
\* ... as far as its credit goes, too; ...
SameFlow(v, w, id) == SameData(v, w, id) /\ CreditOn(v, id) = CreditOn(w, id)
\* ... as far as what was handed in and what arrived goes; ...
SamePayload(v, w, id) ==
    \A out, in, queue : Conserves(out, in, w, id, queue) => Conserves(out, in, v, id, queue)
\* ... and as far as its exit goes.
SameExit(v, w, id) ==
    /\ NoFrame(w, id) => NoFrame(v, id)
    /\ NoExit(w, id) => NoExit(v, id)
    /\ \A status : ExitLast(w, id, status) => ExitLast(v, id, status)

\* f carries no payload and no credit of id.
Aside(f, id) == ~IsData(f, id) /\ ~IsCredit(f, id)

LEMMA SameRefl ==
    ASSUME NEW w, NEW id
    PROVE  SameFlow(w, w, id) /\ SamePayload(w, w, id) /\ SameExit(w, w, id)
  BY Zenon DEF SameFlow, SameData, SamePayload, SameExit

\* Where a frame of w \o g comes from.
LEMMA ConcatIndex ==
    ASSUME NEW S, NEW w \in Seq(S), NEW g \in Seq(S)
    PROVE  /\ w \o g \in Seq(S) /\ Len(w) \in Nat /\ Len(g) \in Nat /\ Len(w \o g) = Len(w) + Len(g)
           /\ \A i \in 1 .. Len(w) : i \in 1 .. Len(w \o g) /\ (w \o g)[i] = w[i]
           /\ \A k \in 1 .. Len(g) : Len(w) + k \in 1 .. Len(w \o g) /\ (w \o g)[Len(w) + k] = g[k]
           /\ \A i \in 1 .. Len(w \o g) :
                 i \in 1 .. Len(w) \/ \E k \in 1 .. Len(g) : i = Len(w) + k
<1>1. /\ w \o g \in Seq(S) /\ Len(w) \in Nat /\ Len(g) \in Nat /\ Len(w \o g) = Len(w) + Len(g)
      /\ \A i \in 1 .. Len(w) + Len(g) : (w \o g)[i] = IF i <= Len(w) THEN w[i] ELSE g[i - Len(w)]
  BY ConcatProperties
<1> DEFINE v == w \o g
<1> HIDE DEF v
<1>2. \A k \in 1 .. Len(g) : Len(w) + k \in 1 .. Len(w) + Len(g) /\ ~(Len(w) + k <= Len(w)) /\ (Len(w) + k) - Len(w) = k
  BY <1>1
<1>3. \A i \in 1 .. Len(w) + Len(g) : i \in 1 .. Len(w) \/ (i - Len(w) \in 1 .. Len(g) /\ i = Len(w) + (i - Len(w)))
  BY <1>1
<1>4. \A i \in 1 .. Len(w) + Len(g) : i \in 1 .. Len(w) \/ \E k \in 1 .. Len(g) : i = Len(w) + k
  BY <1>3
<1>5. \A k \in 1 .. Len(g) : (w \o g)[Len(w) + k] = g[k]
  BY <1>1, <1>2
<1>6. \A i \in 1 .. Len(w) : i \in 1 .. Len(w) + Len(g) /\ (w \o g)[i] = w[i]
  BY <1>1
<1>7. QED
  BY <1>1, <1>2, <1>4, <1>5, <1>6

\* A stream id is a number.
LEMMA FrameIds ==
    ASSUME NEW w \in Seq(WireFrame)
    PROVE  \A i \in 1 .. Len(w) : w[i].id \in Nat
<1> SUFFICES ASSUME NEW i \in 1 .. Len(w) PROVE w[i].id \in Nat
  OBVIOUS
<1>1. w[i] \in WireFrame
  BY ElementOfSeq
<1>2. w[i].id \in 0 .. MaxStreams
  BY <1>1 DEF WireFrame, FrameType
<1>3. QED
  BY <1>2, Constant

\* The units of a wire to which g was added.
LEMMA UnitsConcat ==
    ASSUME NEW S, NEW w \in Seq(S), NEW g \in Seq(S), NEW id
    PROVE  /\ \A i \in 0 .. Len(w) : UnitsAhead(w \o g, id, i) = UnitsAhead(w, id, i)
           /\ UnitsOn(w, id) \in Nat
           /\ (\A k \in 1 .. Len(g) : ~IsUnit(g[k], id)) => UnitsOn(w \o g, id) = UnitsOn(w, id)
<1> DEFINE v == w \o g
<1>1. /\ Len(w) \in Nat /\ Len(g) \in Nat /\ Len(v) = Len(w) + Len(g)
      /\ \A i \in 1 .. Len(w) : v[i] = w[i]
      /\ \A k \in 1 .. Len(g) : v[Len(w) + k] = g[k]
  BY ConcatIndex
<1> HIDE DEF v
<1>2. ASSUME NEW i \in 0 .. Len(w) PROVE UnitsAhead(v, id, i) = UnitsAhead(w, id, i)
  <2>1. i \in Nat /\ \A j \in 1 .. i : j \in 1 .. Len(w)
    BY <1>1
  <2>2. QED
    BY <1>1, <2>1, UnitsSame
<1>3. UnitsOn(w, id) \in Nat /\ UnitsAhead(v, id, Len(w)) = UnitsOn(w, id)
  BY <1>1, <1>2, UnitsFinite DEF UnitsOn
<1>4. ASSUME \A k \in 1 .. Len(g) : ~IsUnit(g[k], id) PROVE UnitsOn(v, id) = UnitsOn(w, id)
  <2>1. \A i \in Len(w) + 1 .. Len(w) + Len(g) : ~IsUnit(v[i], id)
    <3> TAKE i \in Len(w) + 1 .. Len(w) + Len(g)
    <3>1. i - Len(w) \in 1 .. Len(g) /\ Len(w) + (i - Len(w)) = i
      BY <1>1
    <3>2. v[i] = g[i - Len(w)]
      BY <1>1, <3>1
    <3>3. QED
      BY <1>4, <3>1, <3>2
  <2>2. UnitsAhead(v, id, Len(w) + Len(g)) = UnitsAhead(v, id, Len(w))
    BY <1>1, <2>1, NoMoreUnits, Zenon
  <2>3. QED
    BY <1>1, <1>3, <2>2 DEF UnitsOn
<1>5. QED
  BY <1>2, <1>3, <1>4 DEF v

\* What may be added to a wire without a word to stream id: to its payload, ...
LEMMA ConcatData ==
    ASSUME NEW S, NEW w \in Seq(S), NEW g \in Seq(S), NEW id,
           \A k \in 1 .. Len(g) : ~IsData(g[k], id)
    PROVE  SameData(w \o g, w, id)
<1> DEFINE v == w \o g
<1>1. /\ Len(w) \in Nat
      /\ \A i \in 1 .. Len(w) : i \in 1 .. Len(v) /\ v[i] = w[i]
  BY ConcatIndex
<1>2. \A k \in 1 .. Len(g) : Len(w) + k \in 1 .. Len(v) /\ v[Len(w) + k] = g[k]
  BY ConcatIndex
<1>3. \A i \in 1 .. Len(v) : i \in 1 .. Len(w) \/ \E k \in 1 .. Len(g) : i = Len(w) + k
  BY ConcatIndex
<1>4. UnitsOn(v, id) = UnitsOn(w, id)
  <2>1. \A k \in 1 .. Len(g) : ~IsUnit(g[k], id)
    BY DEF IsUnit, IsData
  <2>2. QED
    BY <2>1, UnitsConcat
<1> HIDE DEF v
<1>5. \A i \in 1 .. Len(v) : IsData(v[i], id) => i \in 1 .. Len(w) /\ v[i] = w[i]
  BY <1>1, <1>2, <1>3
<1>6. /\ NoData(w, id) => NoData(v, id)
      /\ NoEnd(w, id) => NoEnd(v, id)
      /\ EndLast(w, id) => EndLast(v, id)
  BY <1>5, Zenon DEF NoData, NoEnd, EndLast
<1>7. SameData(v, w, id)
  BY <1>4, <1>6 DEF SameData
<1>8. QED
  BY <1>7 DEF v

LEMMA ConcatFlow ==
    ASSUME NEW S, NEW w \in Seq(S), NEW g \in Seq(S), NEW id,
           \A k \in 1 .. Len(g) : Aside(g[k], id)
    PROVE  SameFlow(w \o g, w, id)
<1>1. SameData(w \o g, w, id)
  BY ConcatData DEF Aside
<1>2. CreditOn(w \o g, id) = CreditOn(w, id)
  BY CreditConcat DEF Aside
<1>3. QED
  BY <1>1, <1>2 DEF SameFlow

\* ... to what was handed in and what arrived, ...
LEMMA ConcatPayload ==
    ASSUME NEW S, NEW w \in Seq(S), NEW g \in Seq(S), NEW id,
           \A k \in 1 .. Len(g) : ~IsUnit(g[k], id)
    PROVE  SamePayload(w \o g, w, id)
<1> DEFINE v == w \o g
<1>1. /\ Len(w) \in Nat
      /\ \A i \in 1 .. Len(w) : i \in 1 .. Len(v) /\ v[i] = w[i]
  BY ConcatIndex
<1>2. \A k \in 1 .. Len(g) : Len(w) + k \in 1 .. Len(v) /\ v[Len(w) + k] = g[k]
  BY ConcatIndex
<1>3. \A i \in 1 .. Len(v) : i \in 1 .. Len(w) \/ \E k \in 1 .. Len(g) : i = Len(w) + k
  BY ConcatIndex
<1>4. /\ UnitsOn(v, id) = UnitsOn(w, id)
      /\ \A i \in 0 .. Len(w) : UnitsAhead(v, id, i) = UnitsAhead(w, id, i)
  BY UnitsConcat
<1> HIDE DEF v
<1>5. \A i \in 1 .. Len(v) : IsUnit(v[i], id) => i \in 1 .. Len(w) /\ v[i] = w[i]
  BY <1>1, <1>2, <1>3
<1>6. ASSUME NEW out, NEW in, NEW queue, Conserves(out, in, w, id, queue)
      PROVE  Conserves(out, in, v, id, queue)
  <2>1. \A i \in 1 .. Len(v) : IsUnit(v[i], id) => out[Len(in) + UnitsAhead(v, id, i)] = v[i].ch
    <3> SUFFICES ASSUME NEW i \in 1 .. Len(v), IsUnit(v[i], id)
                 PROVE  out[Len(in) + UnitsAhead(v, id, i)] = v[i].ch
      OBVIOUS
    <3>1. i \in 1 .. Len(w) /\ v[i] = w[i]
      BY <1>5
    <3>2. i \in 0 .. Len(w)
      BY <1>1, <3>1
    <3>3. UnitsAhead(v, id, i) = UnitsAhead(w, id, i)
      BY <1>4, <3>2
    <3>4. out[Len(in) + UnitsAhead(w, id, i)] = w[i].ch
      BY <1>6, <3>1 DEF Conserves
    <3>5. QED
      BY <3>1, <3>3, <3>4, Zenon
  <2>2. QED
    BY <1>4, <1>6, <2>1, Zenon DEF Conserves
<1>7. SamePayload(v, w, id)
  BY <1>6, Zenon DEF SamePayload
<1>8. QED
  BY <1>7 DEF v

\* ... to its exit.
LEMMA ConcatExit ==
    ASSUME NEW S, NEW w \in Seq(S), NEW g \in Seq(S), NEW id,
           \A k \in 1 .. Len(g) : g[k].id # id
    PROVE  SameExit(w \o g, w, id)
<1> DEFINE v == w \o g
<1>1. /\ Len(w) \in Nat
      /\ \A i \in 1 .. Len(w) : i \in 1 .. Len(v) /\ v[i] = w[i]
  BY ConcatIndex
<1>2. \A k \in 1 .. Len(g) : Len(w) + k \in 1 .. Len(v) /\ v[Len(w) + k] = g[k]
  BY ConcatIndex
<1>3. \A i \in 1 .. Len(v) : i \in 1 .. Len(w) \/ \E k \in 1 .. Len(g) : i = Len(w) + k
  BY ConcatIndex
<1> HIDE DEF v
<1>4. \A i \in 1 .. Len(v) : v[i].id = id => i \in 1 .. Len(w) /\ v[i] = w[i]
  <2> SUFFICES ASSUME NEW i \in 1 .. Len(v), v[i].id = id PROVE i \in 1 .. Len(w)
    BY <1>1
  <2>1. ASSUME NEW k \in 1 .. Len(g), i = Len(w) + k PROVE FALSE
    BY <1>2, <2>1
  <2>2. QED
    BY <1>3, <2>1, Zenon
<1>5. SameExit(v, w, id)
  BY <1>4, Zenon DEF SameExit, NoFrame, NoExit, ExitLast, IsExit
<1>6. QED
  BY <1>5 DEF v

\* Where a frame of Tail(w) comes from.
LEMMA TailIndex ==
    ASSUME NEW S, NEW w \in Seq(S), w # <<>>
    PROVE  /\ Tail(w) \in Seq(S) /\ Len(w) \in Nat /\ 1 \in 1 .. Len(w) /\ Head(w) = w[1]
           /\ Len(Tail(w)) \in Nat /\ Len(w) = Len(Tail(w)) + 1
           /\ \A i \in 1 .. Len(Tail(w)) : i + 1 \in 1 .. Len(w) /\ Tail(w)[i] = w[i + 1] /\ 1 < i + 1
           /\ \A i, j \in 1 .. Len(Tail(w)) : i < j => i + 1 < j + 1
           /\ \A i \in 1 .. Len(w) : i = 1 \/ \E k \in 1 .. Len(Tail(w)) : i = k + 1
<1>1. /\ Tail(w) \in Seq(S) /\ Len(Tail(w)) = Len(w) - 1 /\ Len(w) \in Nat /\ Len(w) >= 1
      /\ \A i \in 1 .. Len(Tail(w)) : Tail(w)[i] = w[i + 1]
      /\ Head(w) = w[1]
  BY HeadTailProperties
<1> DEFINE m == Len(Tail(w))
<1>2. m \in Nat /\ Len(w) = m + 1
  BY <1>1
<1> HIDE DEF m
<1>3. /\ \A i \in 1 .. m : i + 1 \in 1 .. m + 1 /\ 1 < i + 1
      /\ \A i, j \in 1 .. m : i < j => i + 1 < j + 1
      /\ 1 \in 1 .. m + 1
  BY <1>2
<1>4. \A i \in 1 .. m + 1 : i = 1 \/ (i - 1 \in 1 .. m /\ i = (i - 1) + 1)
  BY <1>2
<1>5. \A i \in 1 .. m + 1 : i = 1 \/ \E k \in 1 .. m : i = k + 1
  BY <1>4
<1>6. QED
  BY <1>1, <1>2, <1>3, <1>5 DEF m

\* Taking a frame off keeps the order of the others.
LEMMA TailOrder ==
    ASSUME NEW S, NEW w \in Seq(S), w # <<>>, NEW id
    PROVE  /\ NoFrame(w, id) => NoFrame(Tail(w), id)
           /\ NoData(w, id) => NoData(Tail(w), id)
           /\ NoEnd(w, id) => NoEnd(Tail(w), id)
           /\ NoExit(w, id) => NoExit(Tail(w), id)
           /\ EndLast(w, id) => EndLast(Tail(w), id)
           /\ \A status : ExitLast(w, id, status) => ExitLast(Tail(w), id, status)
<1> DEFINE v == Tail(w)
<1>1. /\ \A i \in 1 .. Len(v) : i + 1 \in 1 .. Len(w) /\ v[i] = w[i + 1]
      /\ \A i, j \in 1 .. Len(v) : i < j => i + 1 < j + 1
  BY TailIndex, Zenon
<1> HIDE DEF v
<1>2. /\ NoFrame(w, id) => NoFrame(v, id)
      /\ NoData(w, id) => NoData(v, id)
      /\ NoEnd(w, id) => NoEnd(v, id)
      /\ NoExit(w, id) => NoExit(v, id)
  BY <1>1 DEF NoFrame, NoData, NoEnd, NoExit
<1>3. EndLast(w, id) => EndLast(v, id)
  BY <1>1 DEF EndLast
<1>4. \A status : ExitLast(w, id, status) => ExitLast(v, id, status)
  BY <1>1 DEF ExitLast
<1>5. QED
  BY <1>2, <1>3, <1>4 DEF v

\* What may be taken off it.
LEMMA TailUnits ==
    ASSUME NEW S, NEW w \in Seq(S), w # <<>>, NEW id
    PROVE  /\ UnitsOn(w, id) = UnitsOn(Tail(w), id) + (IF IsUnit(w[1], id) THEN 1 ELSE 0)
           /\ UnitsOn(Tail(w), id) \in Nat
<1>1. Len(Tail(w)) \in 0 .. Len(w) - 1 /\ Len(w) = Len(Tail(w)) + 1 /\ Len(Tail(w)) \in Nat
  BY TailIndex
<1>2. UnitsAhead(w, id, Len(Tail(w)) + 1) =
         UnitsAhead(Tail(w), id, Len(Tail(w))) + (IF IsUnit(w[1], id) THEN 1 ELSE 0)
  BY <1>1, UnitsTail
<1>3. UnitsAhead(Tail(w), id, Len(Tail(w))) \in Nat
  BY <1>1, UnitsFinite
<1>4. QED
  BY <1>1, <1>2, <1>3 DEF UnitsOn

LEMMA TailData ==
    ASSUME NEW S, NEW w \in Seq(S), w # <<>>, NEW id, ~IsUnit(w[1], id)
    PROVE  SameData(Tail(w), w, id)
<1>1. UnitsOn(Tail(w), id) = UnitsOn(w, id)
  BY TailUnits
<1>2. QED
  BY <1>1, TailOrder DEF SameData

LEMMA TailFlow ==
    ASSUME NEW S, NEW w \in Seq(S), w # <<>>, NEW id, Aside(w[1], id)
    PROVE  SameFlow(Tail(w), w, id)
<1>1. CreditOn(w, id) = CreditOn(Tail(w), id) + 0 /\ CreditOn(Tail(w), id) \in Nat
  <2>1. Tail(w) \in Seq(S)
    BY TailIndex
  <2>2. QED
    BY <2>1, CreditTail, CreditFinite DEF Aside
<1>2. ~IsUnit(w[1], id)
  BY DEF Aside, IsUnit, IsData
<1>3. QED
  BY <1>1, <1>2, TailData DEF SameFlow

LEMMA TailPayload ==
    ASSUME NEW S, NEW w \in Seq(S), w # <<>>, NEW id, ~IsUnit(w[1], id)
    PROVE  SamePayload(Tail(w), w, id)
<1> DEFINE v == Tail(w)
<1>1. /\ v \in Seq(S) /\ Len(v) \in Nat /\ Len(w) = Len(v) + 1
      /\ \A i \in 1 .. Len(v) : i + 1 \in 1 .. Len(w) /\ v[i] = w[i + 1]
  BY TailIndex, Zenon
<1>2. UnitsOn(v, id) = UnitsOn(w, id)
  BY TailData DEF SameData
<1>3. \A i \in 1 .. Len(v) : UnitsAhead(v, id, i) = UnitsAhead(w, id, i + 1)
  <2> TAKE i \in 1 .. Len(v)
  <2>1. i \in 0 .. Len(w) - 1 /\ i \in Nat
    BY <1>1
  <2>2. UnitsAhead(w, id, i + 1) = UnitsAhead(v, id, i) + 0 /\ UnitsAhead(v, id, i) \in Nat
    BY <2>1, UnitsTail, UnitsFinite
  <2>3. QED
    BY <2>2
<1> HIDE DEF v
<1>4. ASSUME NEW out, NEW in, NEW queue, Conserves(out, in, w, id, queue)
      PROVE  Conserves(out, in, v, id, queue)
  <2>1. \A i \in 1 .. Len(v) : IsUnit(v[i], id) => out[Len(in) + UnitsAhead(v, id, i)] = v[i].ch
    <3> TAKE i \in 1 .. Len(v)
    <3>1. i + 1 \in 1 .. Len(w) /\ v[i] = w[i + 1]
      BY <1>1, Zenon
    <3>2. IsUnit(w[i + 1], id) => out[Len(in) + UnitsAhead(w, id, i + 1)] = w[i + 1].ch
      BY <1>4, <3>1, Zenon DEF Conserves
    <3>3. QED
      BY <1>3, <3>1, <3>2, Zenon
  <2>2. QED
    BY <1>2, <1>4, <2>1, Zenon DEF Conserves
<1>5. SamePayload(v, w, id)
  BY <1>4, Zenon DEF SamePayload
<1>6. QED
  BY <1>5 DEF v

LEMMA TailExit ==
    ASSUME NEW S, NEW w \in Seq(S), w # <<>>, NEW id
    PROVE  SameExit(Tail(w), w, id)
  BY TailOrder DEF SameExit

-----------------------------------------------------------------------------
(* What a flush puts on the wire. *)

\* The frames of a flush: k units from the head of the queue, END_STREAM on the
\* last of them or by itself once the queue is empty, EXIT at the end.
FlushShape(g, id, s) ==
    /\ g \in Seq(WireFrame) /\ Len(g) \in Nat
    /\ Flushed(s) \in 0 .. Len(s.queue) /\ Flushed(s) <= s.sendCredit /\ Flushed(s) <= Len(g)
    /\ \A i \in 1 .. Flushed(s) : IsUnit(g[i], id) /\ g[i].ch = s.queue[i]
    /\ \A i \in 1 .. Len(g) :
          /\ g[i].id = id
          /\ i > Flushed(s) => ~IsUnit(g[i], id) /\ g[i].ch = "stdout"
          /\ IsData(g[i], id) => CanSend(s)
          /\ (IsData(g[i], id) /\ g[i].end) => Drained(s) /\ s.sendEndPending
          /\ (IsData(g[i], id) /\ g[i].end) => \A j \in 1 .. Len(g) : i < j => ~IsData(g[j], id)
          /\ ~IsCredit(g[i], id)
          /\ g[i].type \in {"DATA", "EXIT"} /\ Sane(g[i])
          /\ IsExit(g[i], id) => ExitsNow(s) /\ i = Len(g) /\ g[i].value = s.exitStatus

LEMMA FlushShaped ==
    ASSUME NEW id \in Ids, NEW s \in StreamType, StatusKnown(s)
    PROVE  FlushShape(FlushFrames(id, s), id, s)
<1> DEFINE F == Flushed(s)
           d == FlushData(id, s)
           z == FlushEof(id, s)
           x == FlushExit(id, s)
           g == FlushFrames(id, s)
<1>1. /\ s.queue \in Seq(Channels) /\ s.sendCredit \in 0 .. MaxWindow /\ Len(s.queue) \in Nat
      /\ MaxWindow \in Nat
  BY Constant DEF StreamType
<1>2. F \in 0 .. Len(s.queue) /\ F <= s.sendCredit /\ F \in Nat
  BY <1>1 DEF Flushed, Minimum
<1>3. g \in Seq(WireFrame)
  BY FlushTyped
<1>4. /\ d \in Seq(WireFrame) /\ Len(d) = F
      /\ \A i \in 1 .. F : /\ d[i] = DataFrame(id, s.queue[i], Drained(s) /\ s.sendEndPending /\ i = F)
                           /\ IsUnit(d[i], id) /\ IsData(d[i], id) /\ d[i].ch = s.queue[i] /\ Sane(d[i])
                           /\ d[i].end => Drained(s) /\ s.sendEndPending /\ i = F
  <2>1. Len(d) = F /\ \A i \in 1 .. F : d[i] = DataFrame(id, s.queue[i], Drained(s) /\ s.sendEndPending /\ i = F)
    BY <1>2 DEF FlushData
  <2>2. d \in Seq(WireFrame)
    <3>1. \A i \in 1 .. F : s.queue[i] \in Channels
      BY <1>1, <1>2, ElementOfSeq
    <3>2. \A i \in 1 .. F : (Drained(s) /\ s.sendEndPending /\ i = F) \in BOOLEAN
      BY Zenon
    <3>3. \A i \in 1 .. F : DataFrame(id, s.queue[i], Drained(s) /\ s.sendEndPending /\ i = F) \in WireFrame
      BY <3>1, <3>2, FramesTyped
    <3>4. QED
      BY <3>3, <1>2 DEF FlushData
  <2>3. ASSUME NEW i \in 1 .. F
        PROVE  /\ IsUnit(d[i], id) /\ IsData(d[i], id) /\ d[i].ch = s.queue[i] /\ Sane(d[i])
               /\ d[i].end => Drained(s) /\ s.sendEndPending /\ i = F
    <3> DEFINE end == Drained(s) /\ s.sendEndPending /\ i = F
    <3>1. d[i] = DataFrame(id, s.queue[i], end)
      BY <2>1
    <3> HIDE DEF end
    <3>2. /\ d[i].type = "DATA" /\ d[i].id = id /\ d[i].units = 1 /\ d[i].ch = s.queue[i]
          /\ d[i].end = end
      BY <3>1 DEF DataFrame, Frame
    <3>3. d[i].end => Drained(s) /\ s.sendEndPending /\ i = F
      BY <3>2 DEF end
    <3>4. QED
      BY <3>2, <3>3 DEF IsUnit, IsData, Sane
  <2>4. QED
    BY <2>1, <2>2, <2>3
<1>5. /\ z \in Seq(WireFrame) /\ Len(z) \in {0, 1}
      /\ Len(z) = 1 => Drained(s) /\ s.sendEndPending /\ F = 0
      /\ \A i \in 1 .. Len(z) : /\ z[i].id = id /\ ~IsUnit(z[i], id) /\ IsData(z[i], id) /\ Sane(z[i])
                                /\ z[i].ch = "stdout"
  BY FramesTyped DEF FlushEof, EofFrame, Frame, IsUnit, IsData, Sane
<1>6. /\ x \in Seq(WireFrame) /\ Len(x) \in {0, 1}
      /\ \A i \in 1 .. Len(x) : /\ ExitsNow(s) /\ i = 1 /\ x[i].id = id /\ x[i].type = "EXIT"
                                /\ x[i].value = s.exitStatus /\ Sane(x[i]) /\ x[i].ch = "stdout"
  BY FramesTyped DEF FlushExit, ExitsNow, ExitFrame, Frame, Sane, StatusKnown
<1>7. /\ d \o z \in Seq(WireFrame) /\ Len(d \o z) = F + Len(z) /\ Len(g) = F + Len(z) + Len(x)
      /\ g = (d \o z) \o x
      /\ \A i \in 1 .. Len(g) : g[i] = IF i <= F THEN d[i] ELSE IF i <= F + Len(z) THEN z[i - F]
                                       ELSE x[i - (F + Len(z))]
  <2>1. /\ d \o z \in Seq(WireFrame) /\ Len(d \o z) = F + Len(z)
        /\ \A i \in 1 .. F + Len(z) : (d \o z)[i] = IF i <= F THEN d[i] ELSE z[i - F]
    BY <1>4, <1>5, ConcatProperties
  <2>2. g = (d \o z) \o x
    BY DEF FlushFrames
  <2> DEFINE y == d \o z
  <2> HIDE DEF d, z, x, y, g, F
  <2>3. /\ Len(y \o x) = Len(y) + Len(x)
        /\ \A i \in 1 .. Len(y) + Len(x) : (y \o x)[i] = IF i <= Len(y) THEN y[i] ELSE x[i - Len(y)]
    BY <1>6, <2>1, ConcatProperties DEF y
  <2>4. /\ Len(g) = F + Len(z) + Len(x)
        /\ \A i \in 1 .. Len(g) : g[i] = IF i <= F + Len(z) THEN y[i] ELSE x[i - (F + Len(z))]
    BY <2>1, <2>2, <2>3 DEF y
  <2>5. \A i \in 1 .. Len(g) : i <= F + Len(z) => y[i] = IF i <= F THEN d[i] ELSE z[i - F]
    BY <2>1, <1>2, <1>5, <1>6, <2>4 DEF y
  <2>6. \A i \in 1 .. Len(g) : i <= F => i <= F + Len(z)
    BY <1>2, <1>5
  <2>7. QED
    BY <2>1, <2>2, <2>4, <2>5, <2>6, Zenon
<1> HIDE DEF d, z, x, g, F
<1>8. /\ Len(g) \in Nat /\ F <= Len(g)
      /\ \A i \in 1 .. F : i \in 1 .. Len(g) /\ g[i] = d[i]
      /\ \A i \in 1 .. Len(g) : \/ i \in 1 .. F /\ g[i] = d[i]
                                \/ i = F + 1 /\ Len(z) = 1 /\ g[i] = z[1]
                                \/ i = Len(g) /\ i > F /\ Len(x) = 1 /\ g[i] = x[1]
  <2>1. Len(g) \in Nat /\ F <= Len(g) /\ \A i \in 1 .. F : i \in 1 .. Len(g) /\ g[i] = d[i]
    BY <1>2, <1>5, <1>6, <1>7
  <2>2. ASSUME NEW i \in 1 .. Len(g)
        PROVE  \/ i \in 1 .. F /\ g[i] = d[i]
               \/ i = F + 1 /\ Len(z) = 1 /\ g[i] = z[1]
               \/ i = Len(g) /\ i > F /\ Len(x) = 1 /\ g[i] = x[1]
    <3>1. CASE i <= F
      BY <1>7, <2>1, <3>1
    <3>2. CASE i > F /\ i <= F + Len(z)
      <4>1. i = F + 1 /\ Len(z) = 1 /\ i - F = 1 /\ ~(i <= F)
        BY <1>2, <1>5, <3>2
      <4>2. QED
        BY <1>7, <3>2, <4>1
    <3>3. CASE i > F + Len(z)
      <4>1. /\ i = Len(g) /\ i > F /\ Len(x) = 1 /\ i - (F + Len(z)) = 1
            /\ ~(i <= F) /\ ~(i <= F + Len(z))
        <5>1. F \in Nat /\ Len(z) \in {0, 1} /\ Len(x) \in {0, 1} /\ Len(g) = F + Len(z) + Len(x)
          BY <1>2, <1>5, <1>6, <1>7, Zenon
        <5>2. \A f \in Nat, a, b \in {0, 1} : \A j \in 1 .. f + a + b : j > f + a =>
                 /\ j = f + a + b /\ j > f /\ b = 1 /\ j - (f + a) = 1
                 /\ ~(j <= f) /\ ~(j <= f + a)
          OBVIOUS
        <5>3. i \in 1 .. F + Len(z) + Len(x)
          BY <5>1, Zenon
        <5>4. F \in Nat /\ Len(z) \in {0, 1} /\ Len(x) \in {0, 1}
          BY <5>1, Zenon
        <5>5. /\ i = F + Len(z) + Len(x) /\ i > F /\ Len(x) = 1 /\ i - (F + Len(z)) = 1
              /\ ~(i <= F) /\ ~(i <= F + Len(z))
          BY <3>3, <5>2, <5>3, <5>4, ZenonT(60)
        <5>6. QED
          BY <5>1, <5>5, Zenon
      <4>2. QED
        BY <1>7, <4>1
    <3>4. QED
      BY <1>2, <1>5, <2>1, <3>1, <3>2, <3>3
  <2>3. QED
    BY <2>1, <2>2
<1>9. ASSUME NEW i \in 1 .. Len(g)
      PROVE  /\ g[i].id = id
             /\ i > F => ~IsUnit(g[i], id) /\ g[i].ch = "stdout"
             /\ IsData(g[i], id) => CanSend(s)
             /\ (IsData(g[i], id) /\ g[i].end) => Drained(s) /\ s.sendEndPending
             /\ (IsData(g[i], id) /\ g[i].end) => \A j \in 1 .. Len(g) : i < j => ~IsData(g[j], id)
             /\ ~IsCredit(g[i], id)
             /\ g[i].type \in {"DATA", "EXIT"} /\ Sane(g[i])
             /\ IsExit(g[i], id) => ExitsNow(s) /\ i = Len(g) /\ g[i].value = s.exitStatus
  <2>1. CASE i \in 1 .. F /\ g[i] = d[i]
    <3>1. s.queue # <<>>
      BY <1>1, <1>2, <2>1
    <3>2. IsUnit(g[i], id) /\ IsData(g[i], id) /\ Sane(g[i]) /\ (g[i].end => Drained(s) /\ s.sendEndPending /\ i = F)
      BY <1>4, <2>1
    <3>3. ASSUME g[i].end, NEW j \in 1 .. Len(g), i < j PROVE ~IsData(g[j], id)
      <4>1. i = F /\ i >= 1
        BY <3>2, <3>3, <2>1
      <4>2. Len(z) = 0
        BY <4>1, <1>5, <1>2
      <4>3. Len(x) = 1 /\ g[j] = x[1]
        BY <4>1, <4>2, <1>8, <3>3, <1>2
      <4>4. QED
        BY <4>3, <1>6 DEF IsData
    <3>4. QED
      BY <3>1, <3>2, <3>3, <2>1, <1>2 DEF IsData, IsExit, IsCredit, CanSend, IsUnit
  <2>2. CASE i = F + 1 /\ Len(z) = 1 /\ g[i] = z[1]
    <3>1. /\ z[1].id = id /\ ~IsUnit(z[1], id) /\ IsData(z[1], id) /\ Sane(z[1]) /\ z[1].ch = "stdout"
          /\ Drained(s) /\ s.sendEndPending /\ F = 0
      BY <1>5, <2>2
    <3>2. \A j \in 1 .. Len(g) : i < j => g[j] = x[1] /\ Len(x) = 1
      BY <1>8, <2>2, <1>2
    <3>3. \A j \in 1 .. Len(g) : i < j => ~IsData(g[j], id)
      BY <3>2, <1>6 DEF IsData
    <3>4. QED
      BY <3>1, <3>3, <2>2 DEF IsData, IsExit, IsCredit, CanSend
  <2>3. CASE i = Len(g) /\ i > F /\ Len(x) = 1 /\ g[i] = x[1]
    <3>1. /\ x[1].id = id /\ x[1].type = "EXIT" /\ x[1].value = s.exitStatus /\ Sane(x[1]) /\ ExitsNow(s)
          /\ x[1].ch = "stdout"
      BY <1>6, <2>3
    <3>2. QED
      BY <3>1, <2>3 DEF IsData, IsExit, IsCredit, IsUnit
  <2>4. QED
    BY <1>8, <2>1, <2>2, <2>3
<1>10. \A i \in 1 .. F : IsUnit(g[i], id) /\ g[i].ch = s.queue[i]
  BY <1>4, <1>8
<1>11. FlushShape(g, id, s)
  BY <1>2, <1>3, <1>8, <1>9, <1>10 DEF FlushShape, F
<1>12. QED
  BY <1>11 DEF g

LEMMA WireCounts ==
    ASSUME NEW w \in Seq(WireFrame), NEW id
    PROVE  UnitsOn(w, id) \in Nat /\ CreditOn(w, id) \in Nat
<1>1. Len(w) \in Nat
  OBVIOUS
<1>2. QED
  BY <1>1, UnitsFinite, CreditFinite DEF UnitsOn

LEMMA FlushUnits ==
    ASSUME NEW id, NEW w \in Seq(WireFrame), NEW s, NEW g, FlushShape(g, id, s),
           Flushed(s) \in Nat
    PROVE  /\ UnitsOn(w \o g, id) = UnitsOn(w, id) + Flushed(s) /\ UnitsOn(w, id) \in Nat
           /\ \A k \in 1 .. Flushed(s) : UnitsAhead(w \o g, id, Len(w) + k) = UnitsOn(w, id) + k
<1> DEFINE v == w \o g
           F == Flushed(s)
           n == Len(w)
<1>1. /\ g \in Seq(WireFrame) /\ Len(g) \in Nat /\ F \in Nat /\ F <= Len(g) /\ n \in Nat
      /\ \A i \in 1 .. F : IsUnit(g[i], id)
      /\ \A i \in 1 .. Len(g) : i > F => ~IsUnit(g[i], id)
  BY DEF FlushShape
<1>2. Len(v) = n + Len(g) /\ \A k \in 1 .. Len(g) : v[n + k] = g[k]
  BY <1>1, ConcatIndex
<1>3. UnitsAhead(v, id, n) = UnitsOn(w, id) /\ UnitsOn(w, id) \in Nat
  BY <1>1, UnitsConcat DEF UnitsOn
<1> HIDE DEF v, F, n
<1>4. \A i \in n + 1 .. n + F : IsUnit(v[i], id)
  <2> TAKE i \in n + 1 .. n + F
  <2>1. i - n \in 1 .. F /\ i - n \in 1 .. Len(g) /\ n + (i - n) = i
    BY <1>1
  <2>2. QED
    BY <1>1, <1>2, <2>1
<1>5. \A i \in (n + F) + 1 .. (n + F) + (Len(g) - F) : ~IsUnit(v[i], id)
  <2> TAKE i \in (n + F) + 1 .. (n + F) + (Len(g) - F)
  <2>1. i - n \in 1 .. Len(g) /\ i - n > F /\ n + (i - n) = i
    BY <1>1
  <2>2. QED
    BY <1>1, <1>2, <2>1
<1>6. ASSUME NEW k \in 0 .. F PROVE UnitsAhead(v, id, n + k) = UnitsOn(w, id) + k
  <2>1. k \in Nat /\ \A i \in n + 1 .. n + k : i \in n + 1 .. n + F
    BY <1>1
  <2>2. UnitsAhead(v, id, n + k) = UnitsAhead(v, id, n) + k
    <3>1. \A i \in n + 1 .. n + k : IsUnit(v[i], id)
      BY <1>4, <2>1
    <3>2. n \in Nat /\ k \in Nat
      BY <1>1, <2>1, Zenon
    <3>3. QED
      BY <3>1, <3>2, UnitsMore
  <2>3. QED
    BY <1>3, <2>2
<1>7. UnitsAhead(v, id, n + F) = UnitsOn(w, id) + F
  BY <1>1, <1>6
<1>8. UnitsAhead(v, id, (n + F) + (Len(g) - F)) = UnitsAhead(v, id, n + F)
  <2>1. n + F \in Nat /\ Len(g) - F \in Nat
    BY <1>1
  <2> DEFINE m == n + F
             k == Len(g) - F
  <2>2. m \in Nat /\ k \in Nat /\ \A i \in m + 1 .. m + k : ~IsUnit(v[i], id)
    BY <1>5, <2>1
  <2> HIDE DEF m, k
  <2>3. UnitsAhead(v, id, m + k) = UnitsAhead(v, id, m)
    BY <2>2, NoMoreUnits, Zenon
  <2>4. QED
    BY <2>2, <2>3, Zenon DEF m, k
<1>9. (n + F) + (Len(g) - F) = Len(v)
  BY <1>1, <1>2
<1>10. \A k \in 1 .. F : k \in 0 .. F
  BY <1>1
<1>11. UnitsOn(v, id) = UnitsOn(w, id) + F
  BY <1>7, <1>8, <1>9 DEF UnitsOn
<1>12. QED
  BY <1>3, <1>6, <1>10, <1>11 DEF v, F, n

-----------------------------------------------------------------------------
(* One direction of a stream. *)

\* The books of a direction: a flush sends k units, a grant of k arrives, ...
LEMMA Sending ==
    ASSUME NEW a \in Nat, NEW u \in Nat, NEW o \in Nat, NEW p \in Nat, NEW c \in Nat, NEW k \in Nat,
           NEW sa, NEW ra, Balanced(a, u, o, p, c, sa, ra), sa, k <= a,
           NEW sb, NEW x, sb => x = a - k
    PROVE  Balanced(x, u + k, o, p, c, sb, ra)
<1>1. Window \in Nat
  BY Constant
<1>2. a + c <= Window
  BY DEF Balanced
<1>3. ASSUME ra PROVE a + u + o + p + c = Window
  BY <1>3 DEF Balanced
<1>4. ASSUME ra PROVE (u + k) + o + p <= Window
  BY <1>1, <1>3, <1>4
<1>5. ASSUME sb PROVE x + c <= Window
  BY <1>1, <1>2, <1>5
<1>6. ASSUME sb, ra PROVE x + (u + k) + o + p + c = Window
  BY <1>1, <1>3, <1>6
<1>7. QED
  BY <1>4, <1>5, <1>6, Zenon DEF Balanced

LEMMA Granting ==
    ASSUME NEW a \in Nat, NEW u \in Nat, NEW o \in Nat, NEW p \in Nat, NEW c \in Nat, NEW k \in Nat,
           NEW sa, NEW ra, NEW d, d = c + k, Balanced(a, u, o, p, d, sa, ra), NEW x, sa => x = a + k
    PROVE  Balanced(x, u, o, p, c, sa, ra)
<1>1. Window \in Nat
  BY Constant
<1>2. ASSUME ra PROVE u + o + p <= Window
  BY <1>2 DEF Balanced
<1>3. ASSUME sa PROVE x + c <= Window
  <2>1. a + (c + k) <= Window
    BY <1>3 DEF Balanced
  <2>2. QED
    BY <1>1, <1>3, <2>1
<1>4. ASSUME sa, ra PROVE x + u + o + p + c = Window
  <2>1. a + u + o + p + (c + k) = Window
    BY <1>4 DEF Balanced
  <2>2. QED
    BY <1>1, <1>4, <2>1
<1>5. QED
  BY <1>2, <1>3, <1>4, Zenon DEF Balanced

\* ... k units arrive, what was consumed becomes pending, and then a grant.
LEMMA Receiving ==
    ASSUME NEW a \in Nat, NEW u \in Nat, NEW o \in Nat, NEW p \in Nat, NEW c \in Nat, NEW k \in Nat,
           NEW sa, NEW ra, Balanced(a, u + k, o, p, c, sa, ra), NEW x, NEW y, ra => x = o + k /\ y = p
    PROVE  Balanced(a, u, x, y, c, sa, ra)
<1>1. Window \in Nat
  BY Constant
<1>2. ASSUME ra PROVE u + x + y <= Window
  <2>1. (u + k) + o + p <= Window
    BY <1>2 DEF Balanced
  <2>2. QED
    BY <1>1, <1>2, <2>1
<1>3. ASSUME sa PROVE a + c <= Window
  BY <1>3 DEF Balanced
<1>4. ASSUME sa, ra PROVE a + u + x + y + c = Window
  <2>1. a + (u + k) + o + p + c = Window
    BY <1>4 DEF Balanced
  <2>2. QED
    BY <1>1, <1>4, <2>1
<1>5. QED
  BY <1>2, <1>3, <1>4, Zenon DEF Balanced

LEMMA Consuming ==
    ASSUME NEW a \in Nat, NEW u \in Nat, NEW o \in Nat, NEW p \in Nat, NEW c \in Nat,
           NEW sa, NEW ra, Balanced(a, u, o, p, c, sa, ra), ra,
           NEW x \in Nat, NEW y \in Nat, NEW d \in Nat, d + x + y = c + o + p, d >= c
    PROVE  Balanced(a, u, x, y, d, sa, ra)
<1>1. Window \in Nat
  BY Constant
<1>2. u + x + y <= Window
  <2>1. u + o + p <= Window
    BY DEF Balanced
  <2>2. QED
    BY <1>1, <2>1
<1>3. ASSUME sa PROVE a + u + x + y + d = Window
  <2>1. a + u + o + p + c = Window
    BY <1>3 DEF Balanced
  <2>2. QED
    BY <1>1, <2>1
<1>4. ASSUME sa PROVE a + d <= Window
  BY <1>1, <1>3, <1>4
<1>5. QED
  BY <1>2, <1>3, <1>4, Zenon DEF Balanced

\* What Lane looks at.
LEMMA LaneAlike ==
    ASSUME NEW id, NEW w, NEW b, NEW s, NEW r, NEW sa, NEW ra, Lane(id, w, b, s, r, sa, ra),
           NEW v, NEW c, NEW t, NEW q, NEW sb, NEW rb,
           SameData(v, w, id), CreditOn(c, id) = CreditOn(b, id),
           t.sendEndPending => t.localDataClosed,
           sb => sa /\ t.sendCredit = s.sendCredit /\ (CanSend(t) => CanSend(s)),
           q.peerDataClosed = r.peerDataClosed,
           rb => ra /\ q.outstanding = r.outstanding /\ q.pendingUpdate = r.pendingUpdate
    PROVE  Lane(id, v, c, t, q, sb, rb)
<1>1. HalfClose(v, id, t, q, sb)
  BY Zenon DEF Lane, HalfClose, SameData
<1>2. Credit(id, v, c, t, q, sb, rb)
  BY DEF Lane, Credit, Balanced, SameData
<1>3. QED
  BY <1>1, <1>2 DEF Lane

\* A flush at the sender.
LEMMA LaneFlush ==
    ASSUME NEW id \in Ids, NEW w \in Seq(WireFrame), NEW b \in Seq(WireFrame), NEW s \in StreamType,
           NEW r \in StreamType, NEW sa, NEW ra, Lane(id, w, b, s, r, sa, ra), sa,
           NEW g, FlushShape(g, id, s), NEW t, NEW sb,
           IF sb THEN t = AfterFlush(s) ELSE t = ClosedRecord(s)
    PROVE  Lane(id, w \o g, b, t, r, sb, ra)
<1> DEFINE v == w \o g
           F == Flushed(s)
<1>1. /\ g \in Seq(WireFrame) /\ Len(g) \in Nat /\ F \in Nat /\ F <= Len(g)
      /\ F \in 0 .. Len(s.queue) /\ F <= s.sendCredit
      /\ s.sendCredit \in Nat /\ r.outstanding \in Nat /\ r.pendingUpdate \in Nat
      /\ s.queue \in Seq(Channels) /\ Len(s.queue) \in Nat
      /\ s.sendEndPending \in BOOLEAN /\ s.localDataClosed \in BOOLEAN
  BY Constant DEF FlushShape, StreamType
<1>2. /\ v \in Seq(WireFrame) /\ Len(w) \in Nat /\ Len(v) = Len(w) + Len(g)
      /\ \A i \in 1 .. Len(w) : i \in 1 .. Len(v) /\ v[i] = w[i]
      /\ \A k \in 1 .. Len(g) : Len(w) + k \in 1 .. Len(v) /\ v[Len(w) + k] = g[k]
  BY <1>1, ConcatIndex
<1>3. \A i \in 1 .. Len(v) : i \in 1 .. Len(w) \/ \E k \in 1 .. Len(g) : i = Len(w) + k
  BY <1>1, ConcatIndex
<1>4. UnitsOn(v, id) = UnitsOn(w, id) + F /\ UnitsOn(w, id) \in Nat
  BY <1>1, FlushUnits
<1>5. CreditOn(b, id) \in Nat /\ Window \in Nat
  BY WireCounts, Constant
<1> HIDE DEF v, F
<1>6. \A k \in 1 .. Len(g) :
         /\ IsData(g[k], id) => CanSend(s)
         /\ (IsData(g[k], id) /\ g[k].end) => Drained(s) /\ s.sendEndPending
         /\ (IsData(g[k], id) /\ g[k].end) => \A j \in 1 .. Len(g) : k < j => ~IsData(g[j], id)
  BY DEF FlushShape
<1>7. /\ s.sendEndPending => s.localDataClosed
      /\ EndLast(w, id)
      /\ r.peerDataClosed => NoData(w, id)
      /\ CanSend(s) => NoEnd(w, id) /\ ~r.peerDataClosed
  BY DEF Lane, HalfClose
<1>8. EndLast(v, id)
  <2> SUFFICES ASSUME NEW i \in 1 .. Len(v), NEW j \in 1 .. Len(v), i < j, IsData(v[i], id), v[i].end,
                      IsData(v[j], id)
               PROVE  FALSE
    BY DEF EndLast
  <2>1. CASE i \in 1 .. Len(w)
    <3>1. IsData(w[i], id) /\ w[i].end
      BY <1>2, <2>1
    <3>2. ~CanSend(s)
      BY <1>7, <2>1, <3>1 DEF NoEnd
    <3>3. j \in 1 .. Len(w)
      BY <1>2, <1>3, <1>6, <3>2
    <3>4. QED
      BY <1>2, <1>7, <2>1, <3>1, <3>3 DEF EndLast
  <2>2. ASSUME NEW k \in 1 .. Len(g), i = Len(w) + k PROVE FALSE
    <3>1. PICK m \in 1 .. Len(g) : j = Len(w) + m
      <4>1. ASSUME j \in 1 .. Len(w) PROVE FALSE
        BY <1>2, <2>2, <4>1
      <4>2. QED
        BY <1>3, <4>1, Zenon
    <3>2. k < m /\ IsData(g[k], id) /\ g[k].end /\ IsData(g[m], id)
      BY <1>2, <2>2, <3>1
    <3>3. QED
      BY <1>6, <3>2
  <2>3. QED
    BY <1>3, <2>1, <2>2
<1>9. r.peerDataClosed => NoData(v, id)
  <2> SUFFICES ASSUME r.peerDataClosed, NEW i \in 1 .. Len(v) PROVE ~IsData(v[i], id)
    BY DEF NoData
  <2>1. NoData(w, id) /\ ~CanSend(s)
    BY <1>7
  <2>2. CASE i \in 1 .. Len(w)
    BY <1>2, <2>1, <2>2 DEF NoData
  <2>3. ASSUME NEW k \in 1 .. Len(g), i = Len(w) + k PROVE ~IsData(v[i], id)
    BY <1>2, <1>6, <2>1, <2>3
  <2>4. QED
    BY <1>3, <2>2, <2>3
<1>10. t.sendEndPending => t.localDataClosed
  BY <1>1, <1>7 DEF AfterFlush, ClosedRecord, FreshStream, StreamType
<1>11. (sb /\ CanSend(t)) => NoEnd(v, id) /\ ~r.peerDataClosed
  <2> SUFFICES ASSUME sb, CanSend(t) PROVE NoEnd(v, id) /\ ~r.peerDataClosed
    OBVIOUS
  <2>1. PICK p \in BOOLEAN : p = (s.sendEndPending /\ ~Drained(s))
    OBVIOUS
  <2>2. /\ t.sendEndPending = p /\ t.localDataClosed = s.localDataClosed
        /\ t.queue = SubSeq(s.queue, F + 1, Len(s.queue))
    BY <2>1 DEF AfterFlush, F, StreamType
  <2>3. (F = Len(s.queue)) => t.queue = <<>>
    BY <1>1, <2>2
  <2>4. CanSend(s)
    <3>1. s.queue = <<>> => F = Len(s.queue)
      BY <1>1
    <3>2. QED
      BY <2>1, <2>2, <2>3, <3>1 DEF CanSend
  <2>5. ~(Drained(s) /\ s.sendEndPending)
    BY <1>7, <2>1, <2>2, <2>3 DEF CanSend, Drained, F
  <2>6. NoEnd(w, id) /\ ~r.peerDataClosed
    BY <1>7, <2>4
  <2>7. NoEnd(v, id)
    <3> SUFFICES ASSUME NEW i \in 1 .. Len(v), IsData(v[i], id), v[i].end PROVE FALSE
      BY DEF NoEnd
    <3>1. CASE i \in 1 .. Len(w)
      BY <1>2, <2>6, <3>1 DEF NoEnd
    <3>2. ASSUME NEW k \in 1 .. Len(g), i = Len(w) + k PROVE FALSE
      BY <1>2, <1>6, <2>5, <3>2
    <3>3. QED
      BY <1>3, <3>1, <3>2
  <2>8. QED
    BY <2>6, <2>7
<1>12. HalfClose(v, id, t, r, sb)
  BY <1>8, <1>9, <1>10, <1>11 DEF HalfClose
<1>13. Credit(id, v, b, t, r, sb, ra)
  <2>1. sb => t.sendCredit = s.sendCredit - F
    BY DEF AfterFlush, F, StreamType
  <2>2. Balanced(s.sendCredit, UnitsOn(w, id), r.outstanding, r.pendingUpdate, CreditOn(b, id), sa, ra)
    BY DEF Lane, Credit
  <2>3. Balanced(t.sendCredit, UnitsOn(w, id) + F, r.outstanding, r.pendingUpdate, CreditOn(b, id), sb, ra)
    BY <1>1, <1>4, <1>5, <2>1, <2>2, Sending, ZenonT(60)
  <2>4. QED
    BY <1>4, <2>3, Zenon DEF Credit
<1>14. Lane(id, v, b, t, r, sb, ra)
  BY <1>12, <1>13 DEF Lane
<1>15. QED
  BY <1>14 DEF v

\* The sender gets credit.
LEMMA LaneCredited ==
    ASSUME NEW id, NEW w \in Seq(WireFrame), NEW b \in Seq(WireFrame), b # <<>>, IsCredit(b[1], id),
           b[1].value \in 1 .. MaxWindow, NEW s \in StreamType, NEW r \in StreamType, NEW sa, NEW ra,
           Lane(id, w, b, s, r, sa, ra), NEW t,
           t.sendEndPending = s.sendEndPending, t.localDataClosed = s.localDataClosed, t.queue = s.queue,
           sa => t.sendCredit = s.sendCredit + b[1].value
    PROVE  Lane(id, w, Tail(b), t, r, sa, ra)
<1>1. CreditOn(b, id) = CreditOn(Tail(b), id) + b[1].value /\ CreditOn(Tail(b), id) \in Nat
  <2>1. Tail(b) \in Seq(WireFrame)
    BY TailIndex
  <2>2. QED
    BY <2>1, CreditTail, CreditFinite
<1>3. HalfClose(w, id, t, r, sa)
  BY DEF Lane, HalfClose, CanSend
<1>4. Credit(id, w, Tail(b), t, r, sa, ra)
  <2>1. s.sendCredit \in Nat /\ r.outstanding \in Nat /\ r.pendingUpdate \in Nat
    BY Constant DEF StreamType
  <2>2. UnitsOn(w, id) \in Nat
    BY WireCounts, Zenon
  <2>5. b[1].value \in Nat
    <3>1. \A x \in 1 .. MaxWindow : x \in Nat
      OBVIOUS
    <3>2. QED
      BY <3>1, Zenon
  <2>3. Balanced(s.sendCredit, UnitsOn(w, id), r.outstanding, r.pendingUpdate, CreditOn(b, id), sa, ra)
    BY DEF Lane, Credit
  <2>6. CreditOn(Tail(b), id) \in Nat
    BY <1>1, Zenon
  <2>7. Balanced(t.sendCredit, UnitsOn(w, id), r.outstanding, r.pendingUpdate, CreditOn(Tail(b), id), sa, ra)
    BY <1>1, <2>1, <2>2, <2>3, <2>5, <2>6, Granting, Zenon
  <2>8. QED
    BY <2>7, Zenon DEF Credit
<1>5. QED
  BY <1>3, <1>4 DEF Lane

\* The receiver takes a DATA frame; one that has closed the stream drops the payload.
LEMMA LaneReceived ==
    ASSUME NEW id, NEW w \in Seq(WireFrame), w # <<>>, IsData(w[1], id), w[1].units \in {0, 1},
           NEW b \in Seq(WireFrame), NEW s \in StreamType, NEW r \in StreamType, NEW sa, NEW ra,
           Lane(id, w, b, s, r, sa, ra), NEW q \in StreamType,
           q.peerDataClosed = (r.peerDataClosed \/ w[1].end),
           ra => q.outstanding = r.outstanding + w[1].units /\ q.pendingUpdate = r.pendingUpdate
    PROVE  Lane(id, Tail(w), b, s, q, sa, ra)
<1>1. /\ s.sendEndPending => s.localDataClosed
      /\ EndLast(w, id)
      /\ (sa /\ CanSend(s)) => NoEnd(w, id) /\ ~r.peerDataClosed
      /\ r.peerDataClosed => NoData(w, id)
  BY DEF Lane, HalfClose
<1>2. 1 \in 1 .. Len(w) /\ ~r.peerDataClosed
  <2>1. 1 \in 1 .. Len(w)
    BY TailIndex
  <2>2. QED
    BY <1>1, <2>1 DEF NoData
<1>3. q.peerDataClosed => w[1].end
  BY <1>2
<1>4. EndLast(Tail(w), id) /\ (NoEnd(w, id) => NoEnd(Tail(w), id))
  BY <1>1, TailOrder
<1>5. q.peerDataClosed => NoData(Tail(w), id)
  <2> SUFFICES ASSUME w[1].end, NEW i \in 1 .. Len(Tail(w)) PROVE ~IsData(Tail(w)[i], id)
    BY <1>3 DEF NoData
  <2>1. i + 1 \in 1 .. Len(w) /\ Tail(w)[i] = w[i + 1] /\ 1 < i + 1
    BY TailIndex
  <2>2. QED
    BY <1>1, <1>2, <2>1 DEF EndLast
<1>6. (sa /\ CanSend(s)) => NoEnd(Tail(w), id) /\ ~q.peerDataClosed
  BY <1>1, <1>2, <1>3, <1>4 DEF NoEnd
<1>7. HalfClose(Tail(w), id, s, q, sa)
  BY <1>1, <1>4, <1>5, <1>6 DEF HalfClose
<1>8. UnitsOn(w, id) = UnitsOn(Tail(w), id) + w[1].units /\ UnitsOn(Tail(w), id) \in Nat
  BY TailUnits DEF IsUnit, IsData
<1>9. Credit(id, Tail(w), b, s, q, sa, ra)
  <2>1. s.sendCredit \in Nat /\ r.outstanding \in Nat /\ r.pendingUpdate \in Nat
    BY Constant DEF StreamType
  <2>2. CreditOn(b, id) \in Nat
    BY WireCounts
  <2>3. w[1].units \in Nat
    OBVIOUS
  <2>4. Balanced(s.sendCredit, UnitsOn(Tail(w), id) + w[1].units, r.outstanding, r.pendingUpdate,
                 CreditOn(b, id), sa, ra)
    BY <1>8 DEF Lane, Credit
  <2>5. QED
    BY <1>8, <2>1, <2>2, <2>3, <2>4, Receiving, Zenon DEF Credit
<1>10. QED
  BY <1>7, <1>9 DEF Lane

\* The receiver consumes: what it frees it keeps, or returns.
LEMMA LaneConsumed ==
    ASSUME NEW id, NEW w \in Seq(WireFrame), NEW b \in Seq(WireFrame), NEW c \in Seq(WireFrame),
           NEW s \in StreamType, NEW r \in StreamType, NEW sa, NEW ra, Lane(id, w, b, s, r, sa, ra), ra,
           NEW q \in StreamType, q.peerDataClosed = r.peerDataClosed,
           CreditOn(c, id) + q.outstanding + q.pendingUpdate =
               CreditOn(b, id) + r.outstanding + r.pendingUpdate,
           CreditOn(c, id) >= CreditOn(b, id)
    PROVE  Lane(id, w, c, s, q, sa, ra)
<1>1. HalfClose(w, id, s, q, sa)
  BY DEF Lane, HalfClose
<1>2. Credit(id, w, c, s, q, sa, ra)
  <2>1. /\ s.sendCredit \in Nat /\ r.outstanding \in Nat /\ r.pendingUpdate \in Nat
        /\ q.outstanding \in Nat /\ q.pendingUpdate \in Nat
    BY Constant DEF StreamType
  <2>2. UnitsOn(w, id) \in Nat /\ CreditOn(b, id) \in Nat /\ CreditOn(c, id) \in Nat
    BY WireCounts, Zenon
  <2>3. Balanced(s.sendCredit, UnitsOn(w, id), r.outstanding, r.pendingUpdate, CreditOn(b, id), sa, ra)
    BY DEF Lane, Credit
  <2>4. QED
    BY <2>1, <2>2, <2>3, Consuming, Zenon DEF Credit
<1>3. QED
  BY <1>1, <1>2 DEF Lane

-----------------------------------------------------------------------------
(* The output and the exit of a stream. *)

LEMMA UnitsBounds ==
    ASSUME NEW w \in Seq(WireFrame), NEW id, NEW i \in 1 .. Len(w), IsUnit(w[i], id)
    PROVE  UnitsAhead(w, id, i) \in 1 .. UnitsOn(w, id)
<1>1. Len(w) \in Nat /\ i \in Nat /\ i \in UnitsAt(w, id, i)
  BY DEF UnitsAt
<1>2. UnitsAt(w, id, i) \subseteq UnitsAt(w, id, Len(w))
  BY <1>1 DEF UnitsAt
<1>3. /\ IsFiniteSet(UnitsAt(w, id, i)) /\ UnitsAhead(w, id, i) \in Nat
      /\ UnitsAhead(w, id, i) = Cardinality(UnitsAt(w, id, i))
      /\ IsFiniteSet(UnitsAt(w, id, Len(w))) /\ UnitsOn(w, id) \in Nat
      /\ UnitsOn(w, id) = Cardinality(UnitsAt(w, id, Len(w)))
  BY <1>1, UnitsFinite, Zenon DEF UnitsOn
<1>4. Cardinality(UnitsAt(w, id, i)) <= Cardinality(UnitsAt(w, id, Len(w)))
  BY <1>2, <1>3, FS_Subset, Zenon
<1>5. Cardinality(UnitsAt(w, id, i)) # 0
  BY <1>1, <1>3, FS_EmptySet, Zenon
<1>6. \A a, b \in Nat : a # 0 /\ a <= b => a \in 1 .. b
  OBVIOUS
<1>7. QED
  BY <1>3, <1>4, <1>5, <1>6, Zenon

\* The application hands in bytes, which are queued.
LEMMA PayloadSent ==
    ASSUME NEW id, NEW w \in Seq(WireFrame), NEW out \in Seq(Channels), NEW in \in Seq(Channels),
           NEW queue \in Seq(Channels), Conserves(out, in, w, id, queue), NEW bytes \in Seq(Channels)
    PROVE  Conserves(out \o bytes, in, w, id, queue \o bytes)
<1> DEFINE o == out \o bytes
           q == queue \o bytes
<1>1. /\ Len(out) \in Nat /\ Len(in) \in Nat /\ Len(queue) \in Nat /\ Len(bytes) \in Nat
      /\ Len(out) = Len(in) + UnitsOn(w, id) + Len(queue)
      /\ \A i \in 1 .. Len(in) : out[i] = in[i]
      /\ \A i \in 1 .. Len(queue) : out[Len(out) - Len(queue) + i] = queue[i]
  BY DEF Conserves
<1>2. UnitsOn(w, id) \in Nat
  BY WireCounts, Zenon
<1>3. /\ Len(o) = Len(out) + Len(bytes)
      /\ \A i \in 1 .. Len(out) : o[i] = out[i]
      /\ \A k \in 1 .. Len(bytes) : o[Len(out) + k] = bytes[k]
  BY ConcatIndex
<1>4. /\ Len(q) = Len(queue) + Len(bytes)
      /\ \A i \in 1 .. Len(queue) : q[i] = queue[i]
      /\ \A k \in 1 .. Len(bytes) : q[Len(queue) + k] = bytes[k]
      /\ \A i \in 1 .. Len(q) : i \in 1 .. Len(queue) \/ \E k \in 1 .. Len(bytes) : i = Len(queue) + k
  <2>1. \A i \in 1 .. Len(q) : i \in 1 .. Len(queue) \/ \E k \in 1 .. Len(bytes) : i = Len(queue) + k
    BY ConcatIndex
  <2>2. QED
    BY <2>1, ConcatIndex
<1> HIDE DEF o, q
<1>5. Len(o) = Len(in) + UnitsOn(w, id) + Len(q)
  BY <1>1, <1>2, <1>3, <1>4
<1>6. \A i \in 1 .. Len(in) : o[i] = in[i]
  BY <1>1, <1>2, <1>3
<1>7. ASSUME NEW i \in 1 .. Len(w), IsUnit(w[i], id) PROVE o[Len(in) + UnitsAhead(w, id, i)] = w[i].ch
  <2>1. UnitsAhead(w, id, i) \in 1 .. UnitsOn(w, id)
    BY <1>7, UnitsBounds, Zenon
  <2>2. Len(in) + UnitsAhead(w, id, i) \in 1 .. Len(out)
    BY <1>1, <1>2, <2>1, SMTT(30)
  <2>3. out[Len(in) + UnitsAhead(w, id, i)] = w[i].ch
    BY <1>7, Zenon DEF Conserves
  <2>4. QED
    BY <1>3, <2>2, <2>3, Zenon
<1>8. ASSUME NEW i \in 1 .. Len(q) PROVE o[Len(o) - Len(q) + i] = q[i]
  <2>1. CASE i \in 1 .. Len(queue)
    <3>1. /\ Len(out) - Len(queue) + i \in 1 .. Len(out)
          /\ Len(o) - Len(q) + i = Len(out) - Len(queue) + i
      BY <1>1, <1>2, <1>3, <1>4, <2>1, SMTT(30)
    <3>2. QED
      BY <1>1, <1>3, <1>4, <2>1, <3>1
  <2>2. ASSUME NEW k \in 1 .. Len(bytes), i = Len(queue) + k PROVE o[Len(o) - Len(q) + i] = q[i]
    <3>1. Len(o) - Len(q) + i = Len(out) + k
      BY <1>1, <1>3, <1>4, <2>2
    <3>2. QED
      BY <1>3, <1>4, <2>2, <3>1
  <2>3. QED
    BY <1>4, <2>1, <2>2
<1>9. Conserves(o, in, w, id, q)
  BY <1>5, <1>6, <1>7, <1>8, Zenon DEF Conserves
<1>10. QED
  BY <1>9 DEF o, q

\* A flush moves the head of the queue to the wire.
LEMMA PayloadFlushed ==
    ASSUME NEW id, NEW w \in Seq(WireFrame), NEW s \in StreamType, NEW g, FlushShape(g, id, s),
           NEW out \in Seq(Channels), NEW in \in Seq(Channels), Conserves(out, in, w, id, s.queue)
    PROVE  /\ Conserves(out, in, w \o g, id, AfterFlush(s).queue)
           /\ Drained(s) => Conserves(out, in, w \o g, id, <<>>)
<1> DEFINE v == w \o g
           F == Flushed(s)
           q == s.queue
           rest == SubSeq(q, F + 1, Len(q))
           n == Len(w)
<1>1. /\ g \in Seq(WireFrame) /\ Len(g) \in Nat /\ F \in Nat /\ F <= Len(g) /\ F <= Len(q)
      /\ Len(q) \in Nat /\ n \in Nat /\ Len(out) \in Nat /\ Len(in) \in Nat /\ q \in Seq(Channels)
      /\ \A i \in 1 .. F : IsUnit(g[i], id) /\ g[i].ch = q[i]
      /\ \A i \in 1 .. Len(g) : i > F => ~IsUnit(g[i], id)
  BY DEF FlushShape, StreamType
<1>2. /\ Len(out) = Len(in) + UnitsOn(w, id) + Len(q)
      /\ \A i \in 1 .. Len(in) : out[i] = in[i]
      /\ \A i \in 1 .. n : IsUnit(w[i], id) => out[Len(in) + UnitsAhead(w, id, i)] = w[i].ch
      /\ \A i \in 1 .. Len(q) : out[Len(out) - Len(q) + i] = q[i]
  BY DEF Conserves
<1>3. /\ UnitsOn(v, id) = UnitsOn(w, id) + F /\ UnitsOn(w, id) \in Nat
      /\ \A k \in 1 .. F : UnitsAhead(v, id, n + k) = UnitsOn(w, id) + k
  <2>1. UnitsOn(v, id) = UnitsOn(w, id) + F /\ UnitsOn(w, id) \in Nat
    BY <1>1, FlushUnits
  <2>2. \A k \in 1 .. F : UnitsAhead(v, id, n + k) = UnitsOn(w, id) + k
    BY <1>1, FlushUnits
  <2>3. QED
    BY <2>1, <2>2
<1>seq. g \in Seq(WireFrame)
  BY <1>1
<1>4. /\ \A i \in 1 .. n : v[i] = w[i]
      /\ \A k \in 1 .. Len(g) : v[n + k] = g[k]
  BY <1>seq, ConcatIndex, SMTT(30)
<1>5. \A i \in 1 .. Len(v) : i \in 1 .. n \/ \E k \in 1 .. Len(g) : i = n + k
  BY <1>seq, ConcatIndex, SMTT(30)
<1>6. \A i \in 1 .. n : UnitsAhead(v, id, i) = UnitsAhead(w, id, i)
  <2>1. \A i \in 1 .. n : i \in 0 .. n
    BY <1>1
  <2>2. \A i \in 0 .. n : UnitsAhead(v, id, i) = UnitsAhead(w, id, i)
    BY <1>1, UnitsConcat
  <2>3. QED
    BY <2>1, <2>2, Zenon
<1>7. /\ rest \in Seq(Channels) /\ Len(rest) = Len(q) - F
      /\ \A i \in 1 .. Len(rest) : rest[i] = q[F + i] /\ F + i \in 1 .. Len(q)
  <2> DEFINE m == F + 1
             l == Len(q)
  <2>1. m \in Int /\ l \in Int /\ \A i \in m .. l : q[i] \in Channels
    BY <1>1, ElementOfSeq
  <2> HIDE DEF m, l
  <2>9. /\ SubSeq(q, m, l) \in Seq(Channels)
        /\ Len(SubSeq(q, m, l)) = IF m <= l THEN l - m + 1 ELSE 0
        /\ \A i \in 1 .. l - m + 1 : SubSeq(q, m, l)[i] = q[m + i - 1]
    BY <2>1, SubSeqProperties
  <2>2. /\ rest \in Seq(Channels)
        /\ Len(rest) = IF F + 1 <= Len(q) THEN Len(q) - (F + 1) + 1 ELSE 0
        /\ \A i \in 1 .. Len(q) - (F + 1) + 1 : rest[i] = q[(F + 1) + i - 1]
    BY <2>9, Zenon DEF m, l
  <2>3. Len(rest) = Len(q) - F
    BY <1>1, <2>2
  <2>4. ASSUME NEW i \in 1 .. Len(rest) PROVE rest[i] = q[F + i] /\ F + i \in 1 .. Len(q)
    <3>1. i \in 1 .. Len(q) - (F + 1) + 1 /\ (F + 1) + i - 1 = F + i /\ F + i \in 1 .. Len(q)
      BY <1>1, <2>3, SMTT(30)
    <3>2. QED
      BY <2>2, <3>1
  <2>5. QED
    BY <2>2, <2>3, <2>4
<1>8. Drained(s) => rest = <<>>
  BY <1>1, <1>7 DEF Drained
<1>9. AfterFlush(s).queue = rest
  BY DEF AfterFlush, StreamType
<1> HIDE DEF v, F, q, rest, n
<1>10. Len(out) = Len(in) + UnitsOn(v, id) + Len(rest)
  BY <1>1, <1>2, <1>3, <1>7, SMTT(30)
<1>11. ASSUME NEW i \in 1 .. Len(v), IsUnit(v[i], id) PROVE out[Len(in) + UnitsAhead(v, id, i)] = v[i].ch
  <2>1. CASE i \in 1 .. n
    BY <1>2, <1>4, <1>6, <1>11, <2>1, Zenon
  <2>2. ASSUME NEW k \in 1 .. Len(g), i = n + k PROVE out[Len(in) + UnitsAhead(v, id, i)] = v[i].ch
    <3>1. v[i] = g[k]
      BY <1>4, <2>2, Zenon
    <3>2. k \in 1 .. F
      BY <1>1, <1>11, <3>1
    <3>3. UnitsAhead(v, id, i) = UnitsOn(w, id) + k /\ g[k].ch = q[k]
      BY <1>1, <1>3, <2>2, <3>2, Zenon
    <3>4. k \in 1 .. Len(q) /\ Len(in) + (UnitsOn(w, id) + k) = Len(out) - Len(q) + k
      <4>1. \A a, b, c, d, m \in Nat : (d = a + b + c) => a + (b + m) = d - c + m
        OBVIOUS
      <4>2. k \in Nat /\ k \in 1 .. Len(q)
        BY <1>1, <3>2
      <4>3. Len(in) + (UnitsOn(w, id) + k) = Len(out) - Len(q) + k
        <5>1. /\ Len(in) \in Nat /\ UnitsOn(w, id) \in Nat /\ Len(q) \in Nat /\ Len(out) \in Nat
              /\ Len(out) = Len(in) + UnitsOn(w, id) + Len(q)
          BY <1>1, <1>2, <1>3, Zenon
        <5>2. QED
          BY <4>1, <4>2, <5>1, SMTT(30)
      <4>4. QED
        BY <4>2, <4>3
    <3>5. QED
      BY <1>2, <3>1, <3>3, <3>4
  <2>3. QED
    BY <1>5, <2>1, <2>2
<1>12. ASSUME NEW i \in 1 .. Len(rest) PROVE out[Len(out) - Len(rest) + i] = rest[i]
  <2>1. Len(out) - Len(rest) + i = Len(out) - Len(q) + (F + i)
    BY <1>1, <1>7
  <2>2. QED
    BY <1>2, <1>7, <2>1
<1>13. Conserves(out, in, v, id, rest)
  BY <1>2, <1>10, <1>11, <1>12, Zenon DEF Conserves
<1>14. QED
  BY <1>8, <1>9, <1>13 DEF v

\* A unit is delivered.
LEMMA PayloadReceived ==
    ASSUME NEW id, NEW w \in Seq(WireFrame), w # <<>>, IsUnit(w[1], id), NEW out \in Seq(Channels),
           NEW in \in Seq(Channels), NEW queue, Conserves(out, in, w, id, queue), w[1].ch \in Channels
    PROVE  Conserves(out, Append(in, w[1].ch), Tail(w), id, queue)
<1> DEFINE v == Tail(w)
           a == Append(in, w[1].ch)
<1>1. /\ Len(w) \in Nat /\ Len(v) \in Nat /\ Len(w) = Len(v) + 1 /\ 1 \in 1 .. Len(w) /\ Len(in) \in Nat
      /\ \A i \in 1 .. Len(v) : i + 1 \in 1 .. Len(w) /\ v[i] = w[i + 1]
  BY TailIndex
<1>2. UnitsOn(w, id) = UnitsOn(v, id) + 1 /\ UnitsOn(v, id) \in Nat
  BY TailUnits
<1>3. \A i \in 0 .. Len(v) : UnitsAhead(w, id, i + 1) = UnitsAhead(v, id, i) + 1 /\ UnitsAhead(v, id, i) \in Nat
  <2> TAKE i \in 0 .. Len(v)
  <2>1. i \in 0 .. Len(w) - 1 /\ i \in Nat
    BY <1>1
  <2>2. QED
    BY <2>1, UnitsTail, UnitsFinite
<1>4. UnitsAhead(w, id, 1) = 1
  <2>1. UnitsAhead(v, id, 0) = 0
    <3>1. UnitsAt(v, id, 0) = {}
      BY DEF UnitsAt
    <3>2. QED
      BY <3>1, UnitsFinite, FS_EmptySet
  <2>2. 0 \in 0 .. Len(v) /\ 0 + 1 = 1
    BY <1>1
  <2>3. QED
    BY <1>3, <2>1, <2>2
<1>5. /\ Len(a) = Len(in) + 1 /\ a[Len(in) + 1] = w[1].ch
      /\ \A i \in 1 .. Len(in) : a[i] = in[i]
  BY AppendProperties
<1> HIDE DEF v, a
<1>6. /\ Len(out) = Len(in) + UnitsOn(w, id) + Len(queue)
      /\ \A i \in 1 .. Len(in) : out[i] = in[i]
      /\ \A i \in 1 .. Len(w) : IsUnit(w[i], id) => out[Len(in) + UnitsAhead(w, id, i)] = w[i].ch
      /\ \A i \in 1 .. Len(queue) : out[Len(out) - Len(queue) + i] = queue[i]
  BY DEF Conserves
<1>7. Len(out) = Len(a) + UnitsOn(v, id) + Len(queue)
  <2>1. Len(in) + UnitsOn(w, id) = Len(a) + UnitsOn(v, id)
    BY <1>1, <1>2, <1>5
  <2>2. QED
    BY <1>6, <2>1, Zenon
<1>8. ASSUME NEW i \in 1 .. Len(a) PROVE out[i] = a[i]
  <2>1. i \in 1 .. Len(in) \/ i = Len(in) + 1
    BY <1>1, <1>5
  <2>2. out[Len(in) + 1] = w[1].ch
    BY <1>1, <1>4, <1>6
  <2>3. QED
    BY <1>5, <1>6, <2>1, <2>2
<1>9. ASSUME NEW i \in 1 .. Len(v), IsUnit(v[i], id) PROVE out[Len(a) + UnitsAhead(v, id, i)] = v[i].ch
  <2>1. i \in 0 .. Len(v) /\ i + 1 \in 1 .. Len(w) /\ v[i] = w[i + 1]
    BY <1>1
  <2>2. out[Len(in) + UnitsAhead(w, id, i + 1)] = v[i].ch
    BY <1>6, <1>9, <2>1
  <2>3. Len(in) + UnitsAhead(w, id, i + 1) = Len(a) + UnitsAhead(v, id, i)
    BY <1>1, <1>3, <1>5, <2>1
  <2>4. QED
    BY <2>2, <2>3
<1>10. Conserves(out, a, v, id, queue)
  BY <1>6, <1>7, <1>8, <1>9, Zenon DEF Conserves
<1>11. QED
  BY <1>10 DEF v, a

\* With nothing on the wire and nothing queued, what was handed in has arrived.
LEMMA PayloadComplete ==
    ASSUME NEW id, NEW w \in Seq(WireFrame), NEW out \in Seq(Channels), NEW in \in Seq(Channels),
           Conserves(out, in, w, id, <<>>), NoFrame(w, id)
    PROVE  in = out
<1>1. UnitsAt(w, id, Len(w)) = {} /\ Len(w) \in Nat
  BY DEF UnitsAt, NoFrame, IsUnit
<1>2. UnitsOn(w, id) = 0
  BY <1>1, UnitsFinite, FS_EmptySet DEF UnitsOn
<1>3. Len(out) = Len(in) /\ \A i \in 1 .. Len(in) : out[i] = in[i]
  BY <1>2 DEF Conserves
<1>4. QED
  BY <1>3, SeqEqual

\* The flush of a stream whose EXIT it carries, or not.
LEMMA ExitFlushed ==
    ASSUME NEW id, NEW w \in Seq(WireFrame), NEW s \in StreamType, NEW g, FlushShape(g, id, s),
           NEW la, la, NEW rep, NEW see, ExitOk(id, w, s, la, rep, see),
           NEW lb, lb <=> ~ExitsNow(s), NEW t, IF lb THEN t = AfterFlush(s) ELSE t = ClosedRecord(s)
    PROVE  ExitOk(id, w \o g, t, lb, rep, see)
<1> DEFINE v == w \o g
<1>1. /\ g \in Seq(WireFrame) /\ Len(g) \in Nat
      /\ \A i \in 1 .. Len(g) : IsExit(g[i], id) => ExitsNow(s) /\ i = Len(g) /\ g[i].value = s.exitStatus
  BY DEF FlushShape
<1>2. /\ Len(w) \in Nat /\ Len(v) = Len(w) + Len(g)
      /\ \A i \in 1 .. Len(w) : v[i] = w[i]
      /\ \A k \in 1 .. Len(g) : v[Len(w) + k] = g[k]
  BY <1>1, ConcatIndex
<1>3. \A i \in 1 .. Len(v) : i \in 1 .. Len(w) \/ \E k \in 1 .. Len(g) : i = Len(w) + k
  BY <1>1, ConcatIndex
<1>4. NoExit(w, id) /\ see = None /\ (s.exitPending => s.exitStatus = rep)
  BY DEF ExitOk
<1> HIDE DEF v
<1>5. ASSUME NEW i \in 1 .. Len(v), IsExit(v[i], id)
      PROVE  ExitsNow(s) /\ i = Len(v) /\ v[i].value = s.exitStatus
  <2>1. i \notin 1 .. Len(w)
    BY <1>2, <1>4, <1>5 DEF NoExit
  <2>2. PICK k \in 1 .. Len(g) : i = Len(w) + k
    BY <1>3, <2>1
  <2>3. QED
    BY <1>1, <1>2, <1>5, <2>2
<1>6. ExitLast(v, id, rep)
  <2>1. \A i \in 1 .. Len(v) : IsExit(v[i], id) => v[i].value = rep /\ \A j \in 1 .. Len(v) : ~(i < j)
    BY <1>1, <1>2, <1>4, <1>5 DEF ExitsNow
  <2>2. QED
    BY <2>1, Zenon DEF ExitLast
<1>7. lb => NoExit(v, id)
  BY <1>5 DEF NoExit
<1>8. ~lb => t.queue = <<>> /\ ~t.exitPending
  BY DEF ClosedRecord, FreshStream
<1>9. lb => t.exitPending = s.exitPending /\ t.exitStatus = s.exitStatus
  BY DEF AfterFlush, StreamType
<1>10. ExitOk(id, v, t, lb, rep, see)
  BY <1>4, <1>6, <1>7, <1>8, <1>9 DEF ExitOk
<1>11. QED
  BY <1>10 DEF v

\* Frames that are not EXITs may be added while the stream is live.
LEMMA ExitAside ==
    ASSUME NEW id, NEW w \in Seq(WireFrame), NEW g \in Seq(WireFrame), NEW n, NEW la, la, NEW rep, NEW see,
           ExitOk(id, w, n, la, rep, see), \A k \in 1 .. Len(g) : ~IsExit(g[k], id),
           NEW t, t.exitPending = n.exitPending, t.exitStatus = n.exitStatus
    PROVE  ExitOk(id, w \o g, t, la, rep, see)
<1> DEFINE v == w \o g
<1>1. /\ \A i \in 1 .. Len(w) : v[i] = w[i]
      /\ \A k \in 1 .. Len(g) : v[Len(w) + k] = g[k]
  BY ConcatIndex
<1>2. \A i \in 1 .. Len(v) : i \in 1 .. Len(w) \/ \E k \in 1 .. Len(g) : i = Len(w) + k
  BY ConcatIndex
<1>3. NoExit(w, id) /\ see = None /\ (n.exitPending => n.exitStatus = rep)
  BY DEF ExitOk
<1> HIDE DEF v
<1>4. NoExit(v, id)
  BY <1>1, <1>2, <1>3 DEF NoExit
<1>5. ExitOk(id, v, t, la, rep, see)
  BY <1>3, <1>4, Zenon DEF ExitOk, ExitLast, NoExit
<1>6. QED
  BY <1>5 DEF v

-----------------------------------------------------------------------------
(* A step of endpoint e takes at most one frame off its own wire and puts the *)
(* frames g on its peer's.                                                    *)

Wires(e, took, g) ==
    /\ took => net[e] # <<>>
    /\ net'[e] = IF took THEN Tail(net[e]) ELSE net[e]
    /\ net'[Peer(e)] = net[Peer(e)] \o g

\* Nothing else of stream j changes.
SameStream(j) ==
    /\ \A x \in Ends : st'[x][j] = st[x][j] /\ (Live(x, j)' <=> Live(x, j))
    /\ sent'[Node][j] = sent[Node][j] /\ got'[Controller][j] = got[Controller][j]
    /\ reported'[j] = reported[j] /\ seen'[j] = seen[j]

LEMMA TwoEnds ==
    ASSUME NEW e \in Ends
    PROVE  /\ Peer(e) \in Ends /\ Peer(Peer(e)) = e /\ e # Peer(e) /\ \A x \in Ends : x = e \/ x = Peer(e)
           /\ (e = Node /\ Peer(e) = Controller) \/ (e = Controller /\ Peer(e) = Node)
           /\ Controller \in Ends /\ Node \in Ends /\ Controller # Node
  BY DEF Ends, Peer, Controller, Node

LEMMA Records ==
    ASSUME StreamsTyped, NEW e \in Ends
    PROVE  /\ net[e] \in Seq(WireFrame)
           /\ \A id \in Ids : st[e][id] \in StreamType /\ StatusKnown(st[e][id])
  BY DEF StreamsTyped

\* Frames of other streams and of the connection do not touch a stream.
LEMMA Others ==
    ASSUME StreamsTyped, NEW e \in Ends, NEW took \in BOOLEAN, NEW g \in Seq(WireFrame),
           Wires(e, took, g), NEW j \in Ids, SameStream(j), StreamOk(j),
           took => Aside(net[e][1], j),
           \A k \in 1 .. Len(g) : Aside(g[k], j) /\ (e = Node => g[k].id # j)
    PROVE  StreamOk(j)'
<1>1. \A x \in Ends : net[x] \in Seq(WireFrame)
  BY Records
<1>2. ASSUME NEW x \in Ends PROVE SameFlow(net'[x], net[x], j)
  <2>1. CASE x = e
    <3>1. CASE took
      BY <1>1, <2>1, <3>1, TailFlow DEF Wires
    <3>2. CASE ~took
      BY <2>1, <3>2, SameRefl DEF Wires
    <3>3. QED
      BY <3>1, <3>2
  <2>2. CASE x = Peer(e)
    BY <1>1, <2>2, ConcatFlow DEF Wires
  <2>3. QED
    BY <2>1, <2>2, TwoEnds
<1>3. SamePayload(net'[Controller], net[Controller], j) /\ SameExit(net'[Controller], net[Controller], j)
  <2>1. CASE e = Controller
    <3>1. CASE took
      <4>1. ~IsUnit(net[e][1], j)
        BY <3>1 DEF Aside, IsUnit, IsData
      <4>2. QED
        BY <1>1, <2>1, <3>1, <4>1, TailPayload, TailExit DEF Wires
    <3>2. CASE ~took
      BY <2>1, <3>2, SameRefl DEF Wires
    <3>3. QED
      BY <3>1, <3>2
  <2>2. CASE e = Node
    <3>1. Peer(e) = Controller /\ Controller \in Ends
      BY <2>2, TwoEnds
    <3>2. \A k \in 1 .. Len(g) : ~IsUnit(g[k], j) /\ g[k].id # j
      BY <2>2 DEF IsUnit
    <3>3. QED
      BY <1>1, <3>1, <3>2, ConcatPayload, ConcatExit DEF Wires
  <2>3. QED
    BY <2>1, <2>2, TwoEnds
<1>4. ASSUME NEW x \in Ends PROVE LaneFrom(x, j)'
  <2> DEFINE p == Peer(x)
  <2>1. p \in Ends
    BY TwoEnds
  <2>2. LaneFrom(x, j)
    BY DEF StreamOk
  <2>3. Lane(j, net[p], net[x], st[x][j], st[p][j], Live(x, j), Live(p, j))
    BY <2>2 DEF LaneFrom
  <2> HIDE DEF p
  <2>4. SameData(net'[p], net[p], j) /\ CreditOn(net'[x], j) = CreditOn(net[x], j)
    BY <1>2, <2>1, Zenon DEF SameFlow
  <2>5. /\ st'[x][j] = st[x][j] /\ st'[p][j] = st[p][j]
        /\ Live(x, j)' <=> Live(x, j)
        /\ Live(p, j)' <=> Live(p, j)
    BY <2>1 DEF SameStream
  <2>6. st'[x][j].sendEndPending => st'[x][j].localDataClosed
    BY <2>3, <2>5 DEF Lane, HalfClose
  <2>7. Lane(j, net'[p], net'[x], st'[x][j], st'[p][j], Live(x, j)', Live(p, j)')
    <3>1. /\ Live(x, j)' => /\ Live(x, j)
                            /\ st'[x][j].sendCredit = st[x][j].sendCredit
                            /\ (CanSend(st'[x][j]) => CanSend(st[x][j]))
          /\ st'[p][j].peerDataClosed = st[p][j].peerDataClosed
          /\ Live(p, j)' => /\ Live(p, j)
                            /\ st'[p][j].outstanding = st[p][j].outstanding
                            /\ st'[p][j].pendingUpdate = st[p][j].pendingUpdate
      BY <2>5, Zenon
    <3> DEFINE t == st'[x][j]
               q == st'[p][j]
               sb == Live(x, j)'
               rb == Live(p, j)'
    <3>2. /\ t.sendEndPending => t.localDataClosed
          /\ sb => Live(x, j) /\ t.sendCredit = st[x][j].sendCredit /\ (CanSend(t) => CanSend(st[x][j]))
          /\ q.peerDataClosed = st[p][j].peerDataClosed
          /\ rb => Live(p, j) /\ q.outstanding = st[p][j].outstanding
                             /\ q.pendingUpdate = st[p][j].pendingUpdate
      BY <2>6, <3>1, Zenon
    <3> HIDE DEF t, q, sb, rb
    <3>3. Lane(j, net'[p], net'[x], t, q, sb, rb)
      BY <2>3, <2>4, <3>2, LaneAlike
    <3>4. QED
      BY <3>3, Zenon DEF t, q, sb, rb
  <2>8. QED
    BY <2>7 DEF LaneFrom, p
<1>5. OutputOf(j)'
  <2>1. Node \in Ends
    BY TwoEnds
  <2>2. /\ st'[Node][j] = st[Node][j] /\ (Live(Node, j)' <=> Live(Node, j))
        /\ sent'[Node][j] = sent[Node][j] /\ got'[Controller][j] = got[Controller][j]
        /\ reported'[j] = reported[j] /\ seen'[j] = seen[j]
    BY <2>1 DEF SameStream
  <2>3. ExitOk(j, net[Controller], st[Node][j], Live(Node, j), reported[j], seen[j])
    BY DEF StreamOk, OutputOf
  <2>4. ExitOk(j, net'[Controller], st'[Node][j], Live(Node, j)', reported'[j], seen'[j])
    BY <1>3, <2>2, <2>3, Zenon DEF ExitOk, SameExit
  <2>5. Conserves(sent'[Node][j], got'[Controller][j], net'[Controller], j, st'[Node][j].queue)
    BY <1>3, <2>2, Zenon DEF StreamOk, OutputOf, SamePayload
  <2>6. QED
    BY <2>4, <2>5 DEF OutputOf
<1>6. StdinOnly(st'[Controller][j])
  <2>1. st'[Controller][j] = st[Controller][j]
    BY TwoEnds DEF SameStream
  <2>2. QED
    BY <2>1, Zenon DEF StreamOk
<1>7. QED
  BY <1>4, <1>5, <1>6 DEF StreamOk

LEMMA SaneKept ==
    ASSUME StreamsTyped, FramesSane, NEW e \in Ends, NEW took \in BOOLEAN, NEW g \in Seq(WireFrame),
           Wires(e, took, g), \A k \in 1 .. Len(g) : SaneAt(Peer(e), g[k])
    PROVE  FramesSane'
<1>1. \A x \in Ends : net[x] \in Seq(WireFrame)
  BY Records
<1>2. ASSUME NEW x \in Ends, NEW i \in 1 .. Len(net'[x]) PROVE SaneAt(x, net'[x][i])
  <2>1. CASE x = e /\ took
    <3>1. net'[x] = Tail(net[x]) /\ net[x] # <<>>
      BY <2>1 DEF Wires
    <3>2. i + 1 \in 1 .. Len(net[x]) /\ net'[x][i] = net[x][i + 1]
      BY <1>1, <3>1, TailIndex
    <3>3. QED
      BY <3>2 DEF FramesSane
  <2>2. CASE x = e /\ ~took
    <3>1. net'[x] = net[x]
      BY <2>2 DEF Wires
    <3>2. QED
      BY <3>1 DEF FramesSane
  <2>3. CASE x = Peer(e)
    <3>1. net'[x] = net[x] \o g
      BY <2>3 DEF Wires
    <3>2. CASE i \in 1 .. Len(net[x])
      <4>1. net'[x][i] = net[x][i]
        BY <1>1, <3>1, <3>2, ConcatIndex
      <4>2. QED
        BY <3>2, <4>1 DEF FramesSane
    <3>3. ASSUME NEW k \in 1 .. Len(g), i = Len(net[x]) + k PROVE SaneAt(x, net'[x][i])
      <4>1. net'[x][i] = g[k]
        BY <1>1, <3>1, <3>3, ConcatIndex
      <4>2. QED
        BY <2>3, <4>1
    <3>4. i \in 1 .. Len(net[x]) \/ \E k \in 1 .. Len(g) : i = Len(net[x]) + k
      BY <1>1, <3>1, ConcatIndex
    <3>5. QED
      BY <3>2, <3>3, <3>4
  <2>4. QED
    BY <2>1, <2>2, <2>3, TwoEnds
<1>3. QED
  BY <1>2 DEF FramesSane

\* OPENs stay readable when other frames of streams that were opened are added, ...
LEMMA OpensConcat ==
    ASSUME NEW w \in Seq(WireFrame), NEW g \in Seq(WireFrame), NEW next \in Nat, NEW end \in Nat,
           OpensInOrder(w, next, end), next > 0,
           \A k \in 1 .. Len(g) : g[k].type # "OPEN" /\ g[k].id < end /\ g[k].id \in Ids \cup {0}
    PROVE  OpensInOrder(w \o g, next, end)
<1> DEFINE v == w \o g
<1>1. /\ Len(w) \in Nat
      /\ \A i \in 1 .. Len(w) : i \in 1 .. Len(v) /\ v[i] = w[i]
      /\ \A k \in 1 .. Len(g) : Len(w) + k \in 1 .. Len(v) /\ v[Len(w) + k] = g[k]
  <2>1. /\ Len(w) \in Nat
        /\ \A i \in 1 .. Len(w) : i \in 1 .. Len(v) /\ v[i] = w[i]
    BY ConcatIndex
  <2>2. \A k \in 1 .. Len(g) : Len(w) + k \in 1 .. Len(v) /\ v[Len(w) + k] = g[k]
    BY ConcatIndex
  <2>3. QED
    BY <2>1, <2>2
<1>2. \A i \in 1 .. Len(v) : i \in 1 .. Len(w) \/ \E k \in 1 .. Len(g) : i = Len(w) + k
  BY ConcatIndex
<1> HIDE DEF v
<1>3. \A i \in 1 .. Len(v) : v[i].type = "OPEN" => i \in 1 .. Len(w) /\ v[i] = w[i]
  <2> SUFFICES ASSUME NEW i \in 1 .. Len(v), v[i].type = "OPEN" PROVE i \in 1 .. Len(w)
    BY <1>1
  <2>1. ASSUME NEW k \in 1 .. Len(g), i = Len(w) + k PROVE FALSE
    BY <1>1, <2>1
  <2>2. QED
    BY <1>2, <2>1, Zenon
<1>4. /\ \A i \in 1 .. Len(v) : v[i].type = "OPEN" => v[i].id >= next /\ v[i].id < end
      /\ \A i, j \in 1 .. Len(v) :
            (i < j /\ v[i].type = "OPEN" /\ v[j].type = "OPEN") => v[i].id < v[j].id
  BY <1>3, ZenonT(60) DEF OpensInOrder
<1>5. ASSUME NEW id \in Ids, next <= id, id < end
      PROVE  \E i \in 1 .. Len(v) : i \in 1 .. Len(w) /\ v[i].type = "OPEN" /\ v[i].id = id
  <2>1. PICK i \in 1 .. Len(w) : w[i].type = "OPEN" /\ w[i].id = id
    BY <1>5, Zenon DEF OpensInOrder
  <2>2. QED
    BY <1>1, <2>1, Zenon
<1>6. ASSUME NEW i \in 1 .. Len(v), v[i].type # "OPEN", v[i].id >= next
      PROVE  \E j \in 1 .. Len(v) : j < i /\ v[j].type = "OPEN" /\ v[j].id = v[i].id
  <2>1. CASE i \in 1 .. Len(w)
    <3>1. PICK j \in 1 .. Len(w) : j < i /\ w[j].type = "OPEN" /\ w[j].id = w[i].id
      BY <1>1, <1>6, <2>1, Zenon DEF OpensInOrder
    <3>2. QED
      BY <1>1, <2>1, <3>1, Zenon
  <2>2. ASSUME NEW k \in 1 .. Len(g), i = Len(w) + k
        PROVE  \E j \in 1 .. Len(v) : j < i /\ v[j].type = "OPEN" /\ v[j].id = v[i].id
    <3>1. v[i] = g[k]
      BY <1>1, <2>2, Zenon
    <3>2. g[k].id \in Ids /\ g[k].id >= next /\ g[k].id < end
      BY <1>6, <3>1
    <3>3. next <= g[k].id
      BY <3>2, Constant
    <3>4. PICK j \in 1 .. Len(v) : j \in 1 .. Len(w) /\ v[j].type = "OPEN" /\ v[j].id = g[k].id
      BY <1>5, <3>2, <3>3, Zenon
    <3>5. j < i
      BY <1>1, <2>2, <3>4
    <3>6. QED
      BY <3>1, <3>4, <3>5, Zenon
  <2>3. QED
    BY <1>2, <2>1, <2>2
<1>7. OpensInOrder(v, next, end)
  BY <1>4, <1>5, <1>6, Zenon DEF OpensInOrder
<1>8. QED
  BY <1>7 DEF v

LEMMA GoAwayConcat ==
    ASSUME NEW w \in Seq(WireFrame), NEW g \in Seq(WireFrame), NEW said, NEW heard,
           GoAwayLast(w, said, heard),
           \A k \in 1 .. Len(g) : g[k].type # "OPEN" /\ g[k].type # "GOAWAY"
    PROVE  GoAwayLast(w \o g, said, heard)
<1> DEFINE v == w \o g
<1>1. /\ \A i \in 1 .. Len(w) : i \in 1 .. Len(v) /\ v[i] = w[i]
  BY ConcatIndex
<1>2. \A k \in 1 .. Len(g) : v[Len(w) + k] = g[k]
  BY ConcatIndex
<1>3. \A i \in 1 .. Len(v) : i \in 1 .. Len(w) \/ \E k \in 1 .. Len(g) : i = Len(w) + k
  BY ConcatIndex
<1> HIDE DEF v
<1>4. \A i \in 1 .. Len(v) : v[i].type \in {"OPEN", "GOAWAY"} => i \in 1 .. Len(w) /\ v[i] = w[i]
  <2> SUFFICES ASSUME NEW i \in 1 .. Len(v), v[i].type \in {"OPEN", "GOAWAY"} PROVE i \in 1 .. Len(w)
    BY <1>1
  <2>1. ASSUME NEW k \in 1 .. Len(g), i = Len(w) + k PROVE FALSE
    BY <1>2, <2>1
  <2>2. QED
    BY <1>3, <2>1, Zenon
<1>5. GoAwayLast(v, said, heard)
  BY <1>4, Zenon DEF GoAwayLast
<1>6. QED
  BY <1>5 DEF v

\* ... when the node takes a frame, which must be the next OPEN if it is one, ...
LEMMA OpensTail ==
    ASSUME NEW w \in Seq(WireFrame), w # <<>>, NEW next \in Nat, next > 0, NEW end \in Nat,
           OpensInOrder(w, next, end), \A i \in 1 .. Len(w) : w[i].type = "OPEN" => w[i].id \in Ids
    PROVE  /\ w[1].type # "OPEN" => w[1].id < next /\ OpensInOrder(Tail(w), next, end)
           /\ w[1].type = "OPEN" => w[1].id = next /\ OpensInOrder(Tail(w), next + 1, end)
<1> DEFINE v == Tail(w)
<1>1. /\ Len(w) \in Nat /\ Len(v) \in Nat /\ 1 \in 1 .. Len(w)
      /\ \A i \in 1 .. Len(v) : i + 1 \in 1 .. Len(w) /\ v[i] = w[i + 1] /\ 1 < i + 1
      /\ \A i, j \in 1 .. Len(v) : i < j => i + 1 < j + 1
  BY TailIndex
<1>2. \A i \in 1 .. Len(w) : i = 1 \/ \E k \in 1 .. Len(v) : i = k + 1
  BY TailIndex
<1>3. \A i \in 1 .. Len(w) : w[i].id \in Nat
  BY FrameIds
<1>4. Ids \subseteq Nat
  BY Constant
<1> HIDE DEF v
<1>5. /\ \A i \in 1 .. Len(w) : w[i].type = "OPEN" => w[i].id >= next /\ w[i].id < end
      /\ \A i, j \in 1 .. Len(w) :
            (i < j /\ w[i].type = "OPEN" /\ w[j].type = "OPEN") => w[i].id < w[j].id
      /\ \A id \in Ids : (next <= id /\ id < end) => \E i \in 1 .. Len(w) : w[i].type = "OPEN" /\ w[i].id = id
      /\ \A i \in 1 .. Len(w) : (w[i].type # "OPEN" /\ w[i].id >= next) =>
            \E j \in 1 .. Len(w) : j < i /\ w[j].type = "OPEN" /\ w[j].id = w[i].id
  BY DEF OpensInOrder
<1>6. ASSUME NEW i \in 1 .. Len(v), NEW j \in 1 .. Len(v), i < j, v[i].type = "OPEN", v[j].type = "OPEN"
      PROVE  v[i].id < v[j].id
  <2>1. \A a, b \in 1 .. Len(w) :
           (a < b /\ w[a].type = "OPEN" /\ w[b].type = "OPEN") => w[a].id < w[b].id
    BY <1>5, Zenon
  <2>2. /\ i + 1 \in 1 .. Len(w) /\ v[i] = w[i + 1]
        /\ j + 1 \in 1 .. Len(w) /\ v[j] = w[j + 1]
        /\ i + 1 < j + 1
    BY <1>1, <1>6, Zenon
  <2>3. QED
    BY <1>6, <2>1, <2>2, Zenon
<1>7. ASSUME w[1].type # "OPEN" PROVE w[1].id < next /\ OpensInOrder(v, next, end)
  <2>1. w[1].id < next
    <3>1. \A j \in 1 .. Len(w) : ~(j < 1)
      BY <1>1
    <3>2. ~(w[1].id >= next)
      BY <1>1, <1>5, <1>7, <3>1, Zenon
    <3>3. QED
      BY <1>1, <1>3, <3>2
  <2>2. \A i \in 1 .. Len(v) : v[i].type = "OPEN" => v[i].id >= next /\ v[i].id < end
    <3> TAKE i \in 1 .. Len(v)
    <3>1. i + 1 \in 1 .. Len(w) /\ v[i] = w[i + 1]
      BY <1>1, Zenon
    <3>2. QED
      BY <1>5, <3>1, Zenon
  <2>3. ASSUME NEW id \in Ids, next <= id, id < end
        PROVE  \E i \in 1 .. Len(v) : v[i].type = "OPEN" /\ v[i].id = id
    <3>1. PICK i \in 1 .. Len(w) : w[i].type = "OPEN" /\ w[i].id = id
      BY <1>5, <2>3, Zenon
    <3>2. PICK k \in 1 .. Len(v) : i = k + 1
      BY <1>2, <1>7, <3>1, Zenon
    <3>3. QED
      BY <1>1, <3>1, <3>2, Zenon
  <2>4. ASSUME NEW i \in 1 .. Len(v), v[i].type # "OPEN", v[i].id >= next
        PROVE  \E j \in 1 .. Len(v) : j < i /\ v[j].type = "OPEN" /\ v[j].id = v[i].id
    <3>1. PICK m \in 1 .. Len(w) : m < i + 1 /\ w[m].type = "OPEN" /\ w[m].id = w[i + 1].id
      BY <1>1, <1>5, <2>4, Zenon
    <3>2. PICK k \in 1 .. Len(v) : m = k + 1
      BY <1>2, <1>7, <3>1, Zenon
    <3>3. k < i
      BY <1>1, <3>1, <3>2
    <3>4. QED
      BY <1>1, <3>1, <3>2, <3>3, Zenon
  <2>5. QED
    BY <1>6, <2>1, <2>2, <2>3, <2>4, Zenon DEF OpensInOrder
<1>8. ASSUME w[1].type = "OPEN" PROVE w[1].id = next /\ OpensInOrder(v, next + 1, end)
  <2>1. w[1].id >= next /\ w[1].id < end /\ w[1].id \in Ids
    BY <1>1, <1>5, <1>8
  <2>2. w[1].id = next
    <3>1. next \in Ids /\ next <= next /\ next < end
      BY <1>3, <1>1, <2>1, Constant DEF Ids
    <3>2. PICK i \in 1 .. Len(w) : w[i].type = "OPEN" /\ w[i].id = next
      BY <1>5, <3>1, Zenon
    <3>3. i = 1 \/ 1 < i
      BY <1>1
    <3>4. CASE 1 < i
      <4>1. w[1].id < next
        BY <1>1, <1>5, <1>8, <3>2, <3>4, Zenon
      <4>2. QED
        BY <1>1, <1>3, <2>1, <4>1
    <3>5. QED
      BY <3>2, <3>3, <3>4
  <2>3. ASSUME NEW i \in 1 .. Len(v), v[i].type = "OPEN" PROVE v[i].id >= next + 1 /\ v[i].id < end
    <3>1. i + 1 \in 1 .. Len(w) /\ v[i] = w[i + 1] /\ 1 < i + 1 /\ 1 \in 1 .. Len(w)
      BY <1>1
    <3>2. w[1].id < w[i + 1].id /\ w[i + 1].id < end
      BY <1>5, <1>8, <2>3, <3>1, Zenon
    <3>3. w[i + 1].id \in Nat
      BY <1>3, <3>1
    <3>4. QED
      BY <2>2, <3>1, <3>2, <3>3
  <2>4. ASSUME NEW id \in Ids, next + 1 <= id, id < end
        PROVE  \E i \in 1 .. Len(v) : v[i].type = "OPEN" /\ v[i].id = id
    <3>1. next <= id /\ id # next
      BY <1>4, <2>4
    <3>2. PICK i \in 1 .. Len(w) : w[i].type = "OPEN" /\ w[i].id = id
      BY <1>5, <2>4, <3>1, Zenon
    <3>3. PICK k \in 1 .. Len(v) : i = k + 1
      BY <1>2, <2>2, <3>1, <3>2, Zenon
    <3>4. QED
      BY <1>1, <3>2, <3>3, Zenon
  <2>5. ASSUME NEW i \in 1 .. Len(v), v[i].type # "OPEN", v[i].id >= next + 1
        PROVE  \E j \in 1 .. Len(v) : j < i /\ v[j].type = "OPEN" /\ v[j].id = v[i].id
    <3>1. v[i] = w[i + 1] /\ i + 1 \in 1 .. Len(w) /\ w[i + 1].id \in Nat
      BY <1>1, <1>3
    <3>2. w[i + 1].id >= next /\ w[i + 1].id # next
      BY <2>5, <3>1
    <3>3. PICK m \in 1 .. Len(w) : m < i + 1 /\ w[m].type = "OPEN" /\ w[m].id = w[i + 1].id
      BY <1>5, <2>5, <3>1, <3>2, Zenon
    <3>4. PICK k \in 1 .. Len(v) : m = k + 1
      BY <1>2, <2>2, <3>2, <3>3, Zenon
    <3>5. k < i
      BY <1>1, <3>3, <3>4
    <3>6. QED
      BY <1>1, <3>1, <3>3, <3>4, <3>5, Zenon
  <2>6. QED
    BY <1>6, <2>2, <2>3, <2>4, <2>5, Zenon DEF OpensInOrder
<1>9. QED
  BY <1>7, <1>8 DEF v

LEMMA GoAwayTail ==
    ASSUME NEW w \in Seq(WireFrame), w # <<>>, NEW said, NEW heard, GoAwayLast(w, said, heard)
    PROVE  /\ GoAwayLast(Tail(w), said, heard)
           /\ w[1].type = "GOAWAY" => said /\ GoAwayLast(Tail(w), said, TRUE)
<1> DEFINE v == Tail(w)
<1>1. /\ 1 \in 1 .. Len(w)
      /\ \A i \in 1 .. Len(v) : i + 1 \in 1 .. Len(w) /\ v[i] = w[i + 1] /\ 1 < i + 1
      /\ \A i, j \in 1 .. Len(v) : i < j => i + 1 < j + 1
  BY TailIndex
<1> HIDE DEF v
<1>2. GoAwayLast(v, said, heard)
  BY <1>1 DEF GoAwayLast
<1>3. ASSUME w[1].type = "GOAWAY" PROVE said /\ \A i \in 1 .. Len(v) : v[i].type # "OPEN"
  BY <1>1, <1>3 DEF GoAwayLast
<1>4. QED
  BY <1>2, <1>3 DEF GoAwayLast, v

\* ... when the controller opens a stream, not having said GOAWAY, and when it says it.
LEMMA OpensAppend ==
    ASSUME NEW w \in Seq(WireFrame), NEW next \in Nat, NEW end \in Ids, next <= end,
           OpensInOrder(w, next, end)
    PROVE  OpensInOrder(w \o <<OpenFrame(end)>>, next, end + 1)
<1> DEFINE f == OpenFrame(end)
           v == w \o <<f>>
<1>1. f \in WireFrame /\ f.type = "OPEN" /\ f.id = end
  BY FramesTyped DEF OpenFrame, Frame
<1>2. end \in Nat /\ Ids \subseteq Nat
  BY Constant
<1> HIDE DEF f
<1>3. <<f>> \in Seq(WireFrame) /\ Len(<<f>>) = 1 /\ <<f>>[1] = f
  BY <1>1
<1>4. /\ Len(w) \in Nat /\ Len(v) = Len(w) + 1
      /\ \A i \in 1 .. Len(w) : i \in 1 .. Len(v) /\ v[i] = w[i]
  BY <1>3, ConcatIndex
<1>5. Len(w) + 1 \in 1 .. Len(v) /\ v[Len(w) + 1] = f
  BY <1>3, ConcatIndex
<1> HIDE DEF v
<1>6. \A i \in 1 .. Len(v) : i \in 1 .. Len(w) \/ i = Len(w) + 1
  BY <1>4
<1>7. \A i \in 1 .. Len(w) : w[i].id \in Nat
  BY FrameIds
<1>8. ASSUME NEW i \in 1 .. Len(v), v[i].type = "OPEN" PROVE v[i].id >= next /\ v[i].id < end + 1
  <2>1. CASE i \in 1 .. Len(w)
    <3>1. w[i].id >= next /\ w[i].id < end /\ w[i].id \in Nat /\ v[i] = w[i]
      BY <1>4, <1>7, <1>8, <2>1 DEF OpensInOrder
    <3>2. QED
      BY <1>2, <3>1
  <2>2. CASE i = Len(w) + 1
    BY <1>1, <1>2, <1>5, <2>2
  <2>3. QED
    BY <1>6, <2>1, <2>2
<1>9. ASSUME NEW i \in 1 .. Len(v), NEW j \in 1 .. Len(v), i < j, v[i].type = "OPEN", v[j].type = "OPEN"
      PROVE  v[i].id < v[j].id
  <2>1. i \in 1 .. Len(w)
    BY <1>4, <1>6, <1>9
  <2>2. CASE j \in 1 .. Len(w)
    BY <1>4, <1>9, <2>1, <2>2, Zenon DEF OpensInOrder
  <2>3. CASE j = Len(w) + 1
    BY <1>1, <1>4, <1>5, <1>9, <2>1, <2>3 DEF OpensInOrder
  <2>4. QED
    BY <1>6, <2>2, <2>3
<1>10. ASSUME NEW id \in Ids, next <= id, id < end + 1
       PROVE  \E i \in 1 .. Len(v) : v[i].type = "OPEN" /\ v[i].id = id
  <2>1. CASE id = end
    BY <1>1, <1>5, <2>1, Zenon
  <2>2. CASE id # end
    <3>1. id < end
      BY <1>2, <1>10, <2>2
    <3>2. PICK i \in 1 .. Len(w) : w[i].type = "OPEN" /\ w[i].id = id
      BY <1>10, <3>1, Zenon DEF OpensInOrder
    <3>3. QED
      BY <1>4, <3>2, Zenon
  <2>3. QED
    BY <2>1, <2>2
<1>11. ASSUME NEW i \in 1 .. Len(v), v[i].type # "OPEN", v[i].id >= next
       PROVE  \E j \in 1 .. Len(v) : j < i /\ v[j].type = "OPEN" /\ v[j].id = v[i].id
  <2>1. i \in 1 .. Len(w) /\ v[i] = w[i]
    BY <1>1, <1>4, <1>5, <1>6, <1>11
  <2>2. PICK j \in 1 .. Len(w) : j < i /\ w[j].type = "OPEN" /\ w[j].id = w[i].id
    BY <1>11, <2>1, Zenon DEF OpensInOrder
  <2>3. QED
    BY <1>4, <2>1, <2>2, Zenon
<1>12. OpensInOrder(v, next, end + 1)
  BY <1>8, <1>9, <1>10, <1>11, Zenon DEF OpensInOrder
<1>13. QED
  BY <1>12 DEF v, f

LEMMA GoAwayAppend ==
    ASSUME NEW w \in Seq(WireFrame), NEW f \in WireFrame, NEW said, NEW heard, GoAwayLast(w, said, heard)
    PROVE  /\ f.type = "OPEN" /\ ~said => GoAwayLast(w \o <<f>>, said, heard)
           /\ f.type = "GOAWAY" => GoAwayLast(w \o <<f>>, TRUE, heard)
<1> DEFINE v == w \o <<f>>
<1>1. <<f>> \in Seq(WireFrame) /\ Len(<<f>>) = 1 /\ <<f>>[1] = f
  OBVIOUS
<1>2. /\ Len(w) \in Nat /\ Len(v) = Len(w) + 1
      /\ \A i \in 1 .. Len(w) : i \in 1 .. Len(v) /\ v[i] = w[i]
  BY <1>1, ConcatIndex
<1>3. v[Len(w) + 1] = f
  BY <1>1, ConcatIndex
<1> HIDE DEF v
<1>4. \A i \in 1 .. Len(v) : (i \in 1 .. Len(w) /\ v[i] = w[i]) \/ v[i] = f
  BY <1>2, <1>3
<1>5. ASSUME f.type = "OPEN", ~said PROVE GoAwayLast(v, said, heard)
  <2>1. \A i \in 1 .. Len(v) : v[i].type # "GOAWAY"
    BY <1>4, <1>5 DEF GoAwayLast
  <2>2. QED
    BY <1>5, <2>1, Zenon DEF GoAwayLast
<1>6. ASSUME f.type = "GOAWAY" PROVE GoAwayLast(v, TRUE, heard)
  <2>1. \A i \in 1 .. Len(v) : v[i].type = "OPEN" => i \in 1 .. Len(w) /\ v[i] = w[i]
    BY <1>4, <1>6
  <2>2. \A i, j \in 1 .. Len(v) : i < j /\ j \in 1 .. Len(w) => i \in 1 .. Len(w) /\ v[i] = w[i]
    BY <1>2
  <2>3. QED
    BY <2>1, <2>2, Zenon DEF GoAwayLast
<1>7. QED
  BY <1>5, <1>6 DEF v


\* A step of e that concerns stream own only (0 is the connection).
Alone(e, own) ==
    /\ UNCHANGED <<nextStreamId, nextPeerStreamId>>
    /\ \A x \in Ends, j \in Ids : (x # e \/ j # own) =>
          /\ st'[x][j] = st[x][j]
          /\ j \in streams'[x] <=> j \in streams[x]
          /\ Live(x, j)' <=> Live(x, j)
    /\ \A j \in Ids : j # own =>
          /\ sent'[Node][j] = sent[Node][j] /\ got'[Controller][j] = got[Controller][j]
          /\ reported'[j] = reported[j] /\ seen'[j] = seen[j]
    /\ locallyClosed'[Controller] = {}
    /\ own \in Ids => (own \in streams'[e] <=> Live(e, own)')

LEMMA AloneKeeps ==
    ASSUME SessionInv, HonestInv, NEW e \in Ends, NEW own \in Ids \cup {0}, own < Unseen(e), Alone(e, own),
           NEW took \in BOOLEAN, NEW g \in Seq(WireFrame), Wires(e, took, g),
           took => net[e][1].id = own,
           \A k \in 1 .. Len(g) : g[k].id = own /\ SaneAt(Peer(e), g[k]),
           own \in Ids => StreamOk(own)'
    PROVE  FramesSane' /\ Known' /\ \A j \in Ids : StreamOk(j)'
<1>1. StreamsTyped /\ RestTyped /\ Known /\ FramesSane
  BY DEF SessionInv, Typed, HonestInv
<1>2. \A x \in Ends : net[x] \in Seq(WireFrame)
  BY <1>1, Records
<1>3. FramesSane'
  BY <1>1, SaneKept
<1>4. ASSUME NEW j \in Ids PROVE StreamOk(j)'
  <2>1. CASE j = own
    BY <2>1
  <2>2. CASE j # own
    <3>1. SameStream(j)
      BY <2>2 DEF Alone, SameStream
    <3>2. took => Aside(net[e][1], j)
      BY <2>2 DEF Aside, IsData, IsCredit
    <3>3. \A k \in 1 .. Len(g) : Aside(g[k], j) /\ (e = Node => g[k].id # j)
      BY <2>2 DEF Aside, IsData, IsCredit
    <3>4. StreamOk(j)
      BY DEF HonestInv
    <3>5. QED
      BY <1>1, <3>1, <3>2, <3>3, <3>4, Others
  <2>3. QED
    BY <2>1, <2>2
<1>5. Known'
  <2>1. nextPeerStreamId' <= nextStreamId' /\ locallyClosed'[Controller] = {}
    BY <1>1 DEF Known, Alone
  <2>2. \A x \in Ends : Unseen(x)' = Unseen(x) /\ Unseen(x) \in Nat
    BY <1>1, Constant DEF Alone, Unseen, RestTyped
  <2>3. ASSUME NEW x \in Ends, NEW j \in Ids
        PROVE  j \in streams'[x] <=> j < Unseen(x)' /\ Live(x, j)'
    <3>1. CASE x = e /\ j = own
      BY <2>2, <3>1 DEF Alone
    <3>2. CASE x # e \/ j # own
      BY <1>1, <2>2, <3>2 DEF Alone, Known
    <3>3. QED
      BY <3>1, <3>2
  <2>4. ASSUME NEW x \in Ends, NEW j \in Ids, j >= Unseen(x)'
        PROVE  st'[x][j] = FreshStream /\ NoFrame(net'[Peer(x)], j)
    <3>1. j >= Unseen(x) /\ st[x][j] = FreshStream /\ NoFrame(net[Peer(x)], j)
      BY <1>1, <2>2, <2>4 DEF Known
    <3>2. x # e \/ j # own
      <4>1. j \in Nat /\ own \in Nat
        BY Constant
      <4>2. QED
        BY <2>2, <3>1, <4>1
    <3>3. st'[x][j] = FreshStream
      BY <3>1, <3>2 DEF Alone
    <3>4. CASE x = e
      <4>1. \A k \in 1 .. Len(g) : g[k].id # j
        BY <3>2, <3>4
      <4>2. SameExit(net[Peer(e)] \o g, net[Peer(e)], j)
        BY <1>2, <4>1, TwoEnds, ConcatExit
      <4>3. QED
        BY <3>1, <3>3, <3>4, <4>2 DEF SameExit, Wires
    <3>5. CASE x = Peer(e)
      <4>1. Peer(x) = e
        BY <3>5, TwoEnds
      <4>2. took => NoFrame(Tail(net[e]), j)
        BY <1>2, <3>1, <4>1, TailOrder DEF Wires
      <4>3. QED
        BY <3>1, <3>3, <4>1, <4>2 DEF Wires
    <3>6. QED
      BY <3>4, <3>5, TwoEnds
  <2>5. QED
    BY <2>1, <2>3, <2>4 DEF Known
<1>6. QED
  BY <1>3, <1>4, <1>5

\* ... and of the connection changes nothing: a step that handles frames of one stream.
StreamFrame == {"DATA", "EXIT", "WINDOW_UPDATE"}
LEMMA OwnStep ==
    ASSUME SessionInv, HonestInv, UNCHANGED <<load, sentGoAway, receivedGoAway, failed>>,
           NEW e \in Ends, NEW own \in Ids, own < Unseen(e), Alone(e, own),
           NEW took \in BOOLEAN, NEW g \in Seq(WireFrame), Wires(e, took, g),
           took => net[e][1].id = own /\ net[e][1].type \in StreamFrame,
           \A k \in 1 .. Len(g) : g[k].id = own /\ g[k].type \in StreamFrame /\ SaneAt(Peer(e), g[k]),
           StreamOk(own)'
    PROVE  HonestInv'
<1>1. StreamsTyped /\ RestTyped /\ OpensReadable /\ NoneFailed /\ FramesSane
  BY DEF SessionInv, Typed, HonestInv
<1>2. \A x \in Ends : net[x] \in Seq(WireFrame)
  BY <1>1, Records
<1>3. FramesSane' /\ Known' /\ \A j \in Ids : StreamOk(j)'
  BY AloneKeeps
<1>4. NoneFailed'
  BY <1>1 DEF NoneFailed
<1>5. OpensReadable'
  <2> SUFFICES ASSUME failed[Node] = "no"
               PROVE  /\ OpensInOrder(net'[Node], nextPeerStreamId, nextStreamId)
                      /\ GoAwayLast(net'[Node], sentGoAway[Controller], receivedGoAway[Node])
    BY DEF OpensReadable, Alone
  <2>1. /\ OpensInOrder(net[Node], nextPeerStreamId, nextStreamId)
        /\ GoAwayLast(net[Node], sentGoAway[Controller], receivedGoAway[Node])
    BY <1>1 DEF OpensReadable
  <2>2. /\ nextPeerStreamId \in Nat /\ nextPeerStreamId > 0 /\ nextStreamId \in Nat
        /\ Node \in Ends
    BY <1>1, Constant DEF RestTyped
  <2>3. CASE e = Node
    <3>1. CASE took
      <4>1. net[Node] # <<>> /\ net'[Node] = Tail(net[Node]) /\ net[Node][1].type \notin {"OPEN", "GOAWAY"}
        BY <2>3, <3>1 DEF Wires, StreamFrame
      <4>2. \A i \in 1 .. Len(net[Node]) : net[Node][i].type = "OPEN" => net[Node][i].id \in Ids
        BY <1>1, <2>2 DEF FramesSane, SaneAt, Sane
      <4>3. OpensInOrder(Tail(net[Node]), nextPeerStreamId, nextStreamId)
        BY <1>2, <2>1, <2>2, <4>1, <4>2, OpensTail
      <4>4. GoAwayLast(Tail(net[Node]), sentGoAway[Controller], receivedGoAway[Node])
        BY <1>2, <2>1, <2>2, <4>1, GoAwayTail
      <4>5. QED
        BY <4>1, <4>3, <4>4
    <3>2. CASE ~took
      BY <2>1, <2>3, <3>2 DEF Wires
    <3>3. QED
      BY <3>1, <3>2
  <2>4. CASE e = Controller
    <3>1. net'[Node] = net[Node] \o g
      BY <2>4, TwoEnds DEF Wires
    <3>2. \A k \in 1 .. Len(g) : /\ g[k].type # "OPEN" /\ g[k].type # "GOAWAY"
                                 /\ g[k].id < nextStreamId /\ g[k].id \in Ids \cup {0}
      BY <2>4 DEF Unseen, StreamFrame
    <3>3. OpensInOrder(net[Node] \o g, nextPeerStreamId, nextStreamId)
      BY <1>2, <2>1, <2>2, <3>2, OpensConcat
    <3>4. GoAwayLast(net[Node] \o g, sentGoAway[Controller], receivedGoAway[Node])
      BY <1>2, <2>1, <2>2, <3>2, GoAwayConcat
    <3>5. QED
      BY <3>1, <3>3, <3>4
  <2>5. QED
    BY <2>3, <2>4, TwoEnds
<1>6. QED
  BY <1>3, <1>4, <1>5 DEF HonestInv

-----------------------------------------------------------------------------
(* A flush: sendData, sendExit and a WINDOW_UPDATE end in one. *)

LEMMA FlushEffect ==
    ASSUME StreamsTyped, NEW e \in Ends, NEW id \in Ids, NEW s,
           NEW base \in [Ends -> Seq(WireFrame)], FlushStream(e, id, s, base)
    PROVE  /\ net'[e] = base[e] /\ net'[Peer(e)] = base[Peer(e)] \o FlushFrames(id, s)
           /\ \A x \in Ends, j \in Ids : (x # e \/ j # id) =>
                 /\ st'[x][j] = st[x][j] /\ (j \in streams'[x] <=> j \in streams[x])
                 /\ j \in locallyClosed'[x] <=> j \in locallyClosed[x]
           /\ ExitsNow(s) => /\ st'[e][id] = ClosedRecord(s)
                             /\ id \notin streams'[e] /\ id \in locallyClosed'[e]
           /\ ~ExitsNow(s) => /\ st'[e][id] = AfterFlush(s)
                              /\ streams' = streams /\ locallyClosed' = locallyClosed
           /\ locallyClosed'[Peer(e)] = locallyClosed[Peer(e)]
<1>1. Peer(e) \in Ends /\ Peer(e) # e
  BY Constant
<1>2. net'[e] = base[e] /\ net'[Peer(e)] = base[Peer(e)] \o FlushFrames(id, s)
  BY <1>1 DEF FlushStream
<1>3. CASE ExitsNow(s)
  <2>1. /\ streams' = [streams EXCEPT ![e] = @ \ {id}]
        /\ locallyClosed' = [locallyClosed EXCEPT ![e] = @ \cup {id}]
        /\ st' = [st EXCEPT ![e][id] = ClosedRecord(s)]
    BY <1>3 DEF FlushStream
  <2>2. \A x \in Ends : /\ streams'[x] = IF x = e THEN streams[e] \ {id} ELSE streams[x]
                        /\ locallyClosed'[x] = IF x = e THEN locallyClosed[e] \cup {id} ELSE locallyClosed[x]
    BY <2>1 DEF StreamsTyped
  <2>3. \A x \in Ends, j \in Ids : st'[x][j] = IF x = e /\ j = id THEN ClosedRecord(s) ELSE st[x][j]
    BY <2>1 DEF StreamsTyped
  <2>4. QED
    BY <1>1, <1>2, <1>3, <2>2, <2>3
<1>4. CASE ~ExitsNow(s)
  <2>1. streams' = streams /\ locallyClosed' = locallyClosed /\ st' = [st EXCEPT ![e][id] = AfterFlush(s)]
    BY <1>4 DEF FlushStream
  <2>2. \A x \in Ends, j \in Ids : st'[x][j] = IF x = e /\ j = id THEN AfterFlush(s) ELSE st[x][j]
    BY <2>1 DEF StreamsTyped
  <2>3. QED
    BY <1>1, <1>2, <1>4, <2>1, <2>2
<1>5. QED
  BY <1>3, <1>4

\* What a flush leaves in the record.
LEMMA FlushLeaves ==
    ASSUME NEW s \in StreamType
    PROVE  /\ AfterFlush(s).outstanding = s.outstanding /\ AfterFlush(s).pendingUpdate = s.pendingUpdate
           /\ AfterFlush(s).peerDataClosed = s.peerDataClosed
           /\ AfterFlush(s).exitPending = s.exitPending
           /\ AfterFlush(s).queue = SubSeq(s.queue, Flushed(s) + 1, Len(s.queue))
           /\ ClosedRecord(s).peerDataClosed = s.peerDataClosed /\ ClosedRecord(s).queue = <<>>
  BY DEF AfterFlush, ClosedRecord, StreamType, FreshStream

LEMMA SubSeqShift ==
    ASSUME NEW q \in Seq(Channels), NEW n \in 0 .. Len(q)
    PROVE  /\ Len(SubSeq(q, n + 1, Len(q))) = Len(q) - n
           /\ \A i \in 1 .. Len(q) - n : SubSeq(q, n + 1, Len(q))[i] = q[n + i]
<1>1. Len(q) \in Nat /\ n + 1 \in 1 .. Len(q) + 1
  OBVIOUS
<1>2. Len(SubSeq(q, n + 1, Len(q))) = Len(q) - n
  BY <1>1, SubSeqProperties
<1>3. ASSUME NEW i \in 1 .. Len(q) - n PROVE SubSeq(q, n + 1, Len(q))[i] = q[n + i]
  BY <1>1, SubSeqProperties
<1>4. QED
  BY <1>2, <1>3

LEMMA FlushStdin ==
    ASSUME NEW id \in Ids, NEW s \in StreamType, StatusKnown(s), StdinOnly(s)
    PROVE  /\ StdinOnly(AfterFlush(s)) /\ ~ExitsNow(s)
           /\ \A k \in 1 .. Len(FlushFrames(id, s)) : SaneAt(Node, FlushFrames(id, s)[k])
<1> DEFINE g == FlushFrames(id, s)
<1>1. FlushShape(g, id, s)
  BY FlushShaped
<1>2. ~ExitsNow(s)
  BY DEF StdinOnly, ExitsNow
<1>3. /\ Len(s.queue) \in Nat /\ Flushed(s) \in 0 .. Len(s.queue) /\ s.queue \in Seq(Channels)
      /\ Node # Controller
  BY <1>1, Constant DEF FlushShape, StreamType
<1>4. StdinOnly(AfterFlush(s))
  <2> DEFINE q == SubSeq(s.queue, Flushed(s) + 1, Len(s.queue))
  <2>1. \A i \in 1 .. Len(q) : Flushed(s) + i \in 1 .. Len(s.queue) /\ q[i] = s.queue[Flushed(s) + i]
    <3>1. /\ Len(q) = Len(s.queue) - Flushed(s)
          /\ \A i \in 1 .. Len(s.queue) - Flushed(s) : q[i] = s.queue[Flushed(s) + i]
      BY <1>3, SubSeqShift
    <3> HIDE DEF q
    <3>2. QED
      BY <1>3, <3>1
  <2>2. \A i \in 1 .. Len(q) : q[i] = "stdout"
    BY <2>1, Zenon DEF StdinOnly
  <2>3. AfterFlush(s).queue = q /\ AfterFlush(s).exitPending = s.exitPending
    BY FlushLeaves
  <2> HIDE DEF q
  <2>4. QED
    BY <2>2, <2>3 DEF StdinOnly
<1> HIDE DEF g
<1>5. ASSUME NEW k \in 1 .. Len(g) PROVE SaneAt(Node, g[k])
  <2>1. /\ g[k].id = id /\ Sane(g[k])
        /\ k > Flushed(s) => g[k].ch = "stdout"
        /\ IsExit(g[k], id) => ExitsNow(s)
    BY <1>1, Zenon DEF FlushShape
  <2>2. g[k].type # "EXIT"
    BY <1>2, <2>1 DEF IsExit
  <2>3. g[k].ch = "stdout"
    <3>1. CASE k > Flushed(s)
      BY <2>1, <3>1
    <3>2. CASE ~(k > Flushed(s))
      <4>1. k \in 1 .. Flushed(s) /\ k \in 1 .. Len(s.queue)
        BY <1>1, <1>3, <3>2 DEF FlushShape
      <4>2. g[k].ch = s.queue[k]
        BY <1>1, <4>1, Zenon DEF FlushShape
      <4>3. QED
        BY <4>1, <4>2 DEF StdinOnly
    <3>3. QED
      BY <3>1, <3>2
  <2>4. QED
    BY <1>3, <2>1, <2>2, <2>3 DEF SaneAt
<1>6. QED
  BY <1>2, <1>4, <1>5 DEF g

LEMMA FlushStep ==
    ASSUME SessionInv, SessionInv', HonestInv,
           UNCHANGED <<load, nextStreamId, nextPeerStreamId, sentGoAway, receivedGoAway, failed, got, seen>>,
           NEW e \in Ends, NEW id \in Ids, id \in streams[e], NEW s \in StreamType, StatusKnown(s),
           NEW took \in BOOLEAN,
           took => net[e] # <<>> /\ net[e][1].id = id /\ net[e][1].type = "WINDOW_UPDATE",
           FlushStream(e, id, s, IF took THEN Rest(e) ELSE net),
           NEW b, b = (IF took THEN Tail(net[e]) ELSE net[e]), NEW p, p = Peer(e),
           Lane(id, net[p], b, s, st[p][id], Live(e, id), Live(p, id)),
           Lane(id, b, net[p], st[p][id], s, Live(p, id), Live(e, id)),
           e = Controller => StdinOnly(s) /\ reported' = reported /\ sent'[Node] = sent[Node],
           e = Node => /\ ExitOk(id, net[Controller], s, Live(Node, id), reported'[id], seen[id])
                       /\ Conserves(sent'[Node][id], got[Controller][id], net[Controller], id, s.queue),
           \A j \in Ids : j # id => sent'[Node][j] = sent[Node][j] /\ reported'[j] = reported[j]
    PROVE  HonestInv'
<1> DEFINE g == FlushFrames(id, s)
           t == st'[e][id]
<1>1. StreamsTyped /\ RestTyped /\ Known /\ FramesSane /\ StreamsTyped' /\ RestTyped'
  BY DEF SessionInv, Typed, HonestInv
<1>2. \A x \in Ends : net[x] \in Seq(WireFrame) /\ net'[x] \in Seq(WireFrame)
  BY <1>1 DEF StreamsTyped
<1>3. /\ p \in Ends /\ p # e /\ Peer(p) = e /\ Controller \in Ends /\ Node \in Ends
      /\ (e = Node /\ p = Controller) \/ (e = Controller /\ p = Node)
      /\ Node # Controller
      /\ \A x \in Ends : x = e \/ x = p
  BY TwoEnds
<1>4. /\ st[p][id] \in StreamType /\ st[e][id] \in StreamType /\ b \in Seq(WireFrame)
  <2>1. took => Tail(net[e]) \in Seq(WireFrame)
    BY <1>2, TailIndex
  <2>2. QED
    BY <1>1, <1>2, <1>3, <2>1, Records
<1>5. /\ net'[e] = b /\ net'[p] = net[p] \o g
      /\ \A x \in Ends, j \in Ids : (x # e \/ j # id) =>
            /\ st'[x][j] = st[x][j] /\ (j \in streams'[x] <=> j \in streams[x])
            /\ j \in locallyClosed'[x] <=> j \in locallyClosed[x]
      /\ ExitsNow(s) => t = ClosedRecord(s) /\ id \notin streams'[e] /\ id \in locallyClosed'[e]
      /\ ~ExitsNow(s) => t = AfterFlush(s) /\ streams' = streams /\ locallyClosed' = locallyClosed
      /\ locallyClosed'[p] = locallyClosed[p]
  <2> DEFINE base == IF took THEN Rest(e) ELSE net
  <2>1. Rest(e)[e] = Tail(net[e]) /\ Rest(e)[p] = net[p]
    BY <1>1, <1>3 DEF Rest, StreamsTyped
  <2>2. base[e] = b /\ base[p] = net[p]
    BY <2>1
  <2>3. base \in [Ends -> Seq(WireFrame)]
    BY <1>1, HeadTyped DEF StreamsTyped
  <2>4. FlushStream(e, id, s, base)
    OBVIOUS
  <2> HIDE DEF base
  <2>5. QED
    <3>1. /\ net'[e] = base[e] /\ net'[Peer(e)] = base[Peer(e)] \o FlushFrames(id, s)
          /\ \A x \in Ends, j \in Ids : (x # e \/ j # id) =>
                /\ st'[x][j] = st[x][j] /\ (j \in streams'[x] <=> j \in streams[x])
                /\ j \in locallyClosed'[x] <=> j \in locallyClosed[x]
          /\ ExitsNow(s) => /\ st'[e][id] = ClosedRecord(s)
                            /\ id \notin streams'[e] /\ id \in locallyClosed'[e]
          /\ ~ExitsNow(s) => /\ st'[e][id] = AfterFlush(s)
                             /\ streams' = streams /\ locallyClosed' = locallyClosed
          /\ locallyClosed'[Peer(e)] = locallyClosed[Peer(e)]
      BY <1>1, <2>3, <2>4, FlushEffect
    <3>2. QED
      BY <2>2, <3>1, Zenon
<1>6. FlushShape(g, id, s) /\ g \in Seq(WireFrame)
  BY FlushShaped DEF FlushShape
<1>7. Wires(e, took, g)
  BY <1>5 DEF Wires
<1>8. Live(e, id) /\ id < Unseen(e)
  BY <1>1 DEF Known
<1>9. e = Controller => ~ExitsNow(s)
  BY FlushStdin
<1>10. Live(e, id)' <=> ~ExitsNow(s)
  BY <1>3, <1>5, <1>8, <1>9 DEF Live
<1>11. \A x \in Ends, j \in Ids : (x # e \/ j # id) => (Live(x, j)' <=> Live(x, j))
  BY <1>3, <1>5 DEF Live
<1>12. Alone(e, id)
  <2>1. locallyClosed'[Controller] = {}
    BY <1>1, <1>3, <1>5, <1>9 DEF Known
  <2>2. id \in streams'[e] <=> Live(e, id)'
    BY <1>5, <1>10
  <2>3. \A j \in Ids : j # id =>
           /\ sent'[Node][j] = sent[Node][j] /\ got'[Controller][j] = got[Controller][j]
           /\ reported'[j] = reported[j] /\ seen'[j] = seen[j]
    BY <1>3
  <2>4. QED
    BY <1>5, <1>11, <2>1, <2>2, <2>3 DEF Alone
<1>13. \A k \in 1 .. Len(g) : g[k].id = id /\ g[k].type \in StreamFrame /\ SaneAt(p, g[k])
  <2>1. \A k \in 1 .. Len(g) : g[k].id = id /\ g[k].type \in {"DATA", "EXIT"} /\ Sane(g[k])
    BY <1>6, Zenon DEF FlushShape
  <2>2. CASE e = Controller
    BY <1>3, <2>1, <2>2, FlushStdin DEF StreamFrame
  <2>3. CASE e = Node
    BY <1>3, <2>1, <2>3 DEF StreamFrame, SaneAt
  <2>4. QED
    BY <1>3, <2>2, <2>3
<1> DEFINE sb == Live(e, id)'
<1>14. t \in StreamType /\ (IF sb THEN t = AfterFlush(s) ELSE t = ClosedRecord(s))
  BY <1>1, <1>5, <1>10 DEF StreamsTyped
<1> HIDE DEF g, t, sb
<1>15. Lane(id, net'[p], net'[e], t, st[p][id], sb, Live(p, id))
  <2>1. Lane(id, net[p] \o g, b, t, st[p][id], sb, Live(p, id))
    BY <1>2, <1>3, <1>4, <1>6, <1>8, <1>14, LaneFlush
  <2>2. QED
    BY <1>5, <2>1
<1>16. Lane(id, net'[e], net'[p], st[p][id], t, Live(p, id), sb)
  <2>1. CreditOn(net[p] \o g, id) = CreditOn(net[p], id)
    <3>1. \A k \in 1 .. Len(g) : ~IsCredit(g[k], id)
      BY <1>6, Zenon DEF FlushShape
    <3>2. QED
      BY <1>2, <1>3, <1>6, <3>1, CreditConcat
  <2>2. SameData(b, b, id)
    BY SameRefl DEF SameFlow
  <2>3. /\ t.peerDataClosed = s.peerDataClosed
        /\ sb => t.outstanding = s.outstanding /\ t.pendingUpdate = s.pendingUpdate
    BY <1>14, FlushLeaves
  <2>4. st[p][id].sendEndPending => st[p][id].localDataClosed
    BY DEF Lane, HalfClose
  <2>5. sb => Live(e, id)
    BY <1>8
  <2>6. Lane(id, b, net[p] \o g, st[p][id], t, Live(p, id), sb)
    BY <2>1, <2>2, <2>3, <2>4, <2>5, LaneAlike
  <2>7. QED
    BY <1>5, <2>6
<1>17. \A x \in Ends : LaneFrom(x, id)'
  <2>1. st'[p][id] = st[p][id] /\ (Live(p, id)' <=> Live(p, id))
    BY <1>3, <1>5, <1>11
  <2>2. LaneFrom(e, id)'
    BY <1>15, <2>1 DEF LaneFrom, t, sb, Live
  <2>3. LaneFrom(p, id)'
    BY <1>3, <1>16, <2>1 DEF LaneFrom, t, sb, Live
  <2>4. QED
    BY <1>3, <2>2, <2>3
<1>18. OutputOf(id)'
  <2>1. CASE e = Node
    <3>1. sb <=> ~ExitsNow(s)
      BY <1>10 DEF sb
    <3>2. ExitOk(id, net[p] \o g, t, sb, reported'[id], seen[id])
      <4>1. ExitOk(id, net[p], s, Live(Node, id), reported'[id], seen[id]) /\ Live(Node, id)
        BY <1>3, <1>8, <2>1
      <4>2. QED
        BY <1>2, <1>3, <1>6, <1>14, <3>1, <4>1, ExitFlushed
    <3>3. Conserves(sent'[Node][id], got[Controller][id], net[p] \o g, id, t.queue)
      <4>1. sent'[Node][id] \in Seq(Channels) /\ got[Controller][id] \in Seq(Channels)
        BY <1>1, <1>3 DEF RestTyped
      <4>2. Conserves(sent'[Node][id], got[Controller][id], net[p], id, s.queue)
        BY <1>3, <2>1
      <4>3. /\ Conserves(sent'[Node][id], got[Controller][id], net[p] \o g, id, AfterFlush(s).queue)
            /\ Drained(s) => Conserves(sent'[Node][id], got[Controller][id], net[p] \o g, id, <<>>)
        BY <1>2, <1>3, <1>6, <4>1, <4>2, PayloadFlushed
      <4>4. ~sb => Drained(s) /\ t.queue = <<>>
        BY <1>14, <3>1, FlushLeaves DEF ExitsNow
      <4>5. QED
        BY <1>14, <4>3, <4>4
    <3>4. QED
      <4>1. /\ net'[Controller] = net[p] \o g /\ st'[Node][id] = t
            /\ seen'[id] = seen[id] /\ got'[Controller][id] = got[Controller][id]
        BY <1>3, <1>5, <2>1 DEF t
      <4>2. Live(Node, id)' <=> sb
        BY <1>3, <2>1 DEF Live, sb
      <4>3. ExitOk(id, net'[Controller], st'[Node][id], Live(Node, id)', reported'[id], seen'[id])
        BY <3>2, <4>1, <4>2, Zenon DEF ExitOk
      <4>4. Conserves(sent'[Node][id], got'[Controller][id], net'[Controller], id, st'[Node][id].queue)
        BY <3>3, <4>1
      <4>5. QED
        BY <4>3, <4>4 DEF OutputOf
  <2>2. CASE e = Controller
    <3>1. OutputOf(id)
      BY DEF HonestInv, StreamOk
    <3>2. SameExit(b, net[Controller], id) /\ SamePayload(b, net[Controller], id)
      <4>1. CASE took
        <5>1. ~IsUnit(net[e][1], id)
          BY <4>1 DEF IsUnit
        <5>2. QED
          BY <1>2, <2>2, <4>1, <5>1, TailExit, TailPayload
      <4>2. CASE ~took
        BY <2>2, <4>2, SameRefl
      <4>3. QED
        BY <4>1, <4>2
    <3>3. /\ st'[Node][id] = st[Node][id] /\ (Live(Node, id)' <=> Live(Node, id))
          /\ net'[Controller] = b
      BY <1>3, <1>5, <1>11, <2>2
    <3>4. ExitOk(id, b, st[Node][id], Live(Node, id), reported[id], seen[id])
      BY <3>1, <3>2, Zenon DEF OutputOf, ExitOk, SameExit
    <3>5. Conserves(sent[Node][id], got[Controller][id], b, id, st[Node][id].queue)
      BY <3>1, <3>2, Zenon DEF OutputOf, SamePayload
    <3>6. QED
      BY <2>2, <3>3, <3>4, <3>5 DEF OutputOf, Live
  <2>3. QED
    BY <1>3, <2>1, <2>2
<1>19. StdinOnly(st'[Controller][id])
  <2>1. CASE e = Node
    <3>1. StdinOnly(st[Controller][id])
      BY DEF HonestInv, StreamOk
    <3>2. QED
      BY <1>3, <1>5, <2>1, <3>1
  <2>2. CASE e = Controller
    <3>1. st'[Controller][id] = AfterFlush(s)
      BY <1>9, <1>10, <1>14, <2>2 DEF t, sb
    <3>2. QED
      BY <2>2, <3>1, FlushStdin
  <2>3. QED
    BY <1>3, <2>1, <2>2
<1>20. StreamOk(id)'
  BY <1>17, <1>18, <1>19 DEF StreamOk
<1>21. took => net[e][1].id = id /\ net[e][1].type \in StreamFrame
  BY DEF StreamFrame
<1>22. QED
  BY <1>6, <1>7, <1>8, <1>12, <1>13, <1>20, <1>21, OwnStep

-----------------------------------------------------------------------------
(* The actions of honest endpoints, one by one. *)

\* The two lanes of stream id at e, with record s in place of the one e has.
LanesAt(e, id, s) ==
    /\ Lane(id, net[Peer(e)], net[e], s, st[Peer(e)][id], Live(e, id), Live(Peer(e), id))
    /\ Lane(id, net[e], net[Peer(e)], st[Peer(e)][id], s, Live(Peer(e), id), Live(e, id))

\* A record that sends no more than it could keeps both lanes.
LEMMA RecordLanes ==
    ASSUME NEW e \in Ends, NEW id \in Ids, StreamOk(id), NEW s,
           s.sendEndPending => s.localDataClosed, s.sendCredit = st[e][id].sendCredit,
           CanSend(s) => CanSend(st[e][id]), s.peerDataClosed = st[e][id].peerDataClosed,
           s.outstanding = st[e][id].outstanding, s.pendingUpdate = st[e][id].pendingUpdate
    PROVE  LanesAt(e, id, s)
<1> DEFINE p == Peer(e)
           le == Live(e, id)
           lp == Live(p, id)
<1>1. p \in Ends /\ Peer(p) = e
  BY TwoEnds
<1>2. LaneFrom(e, id) /\ LaneFrom(p, id)
  BY <1>1 DEF StreamOk
<1>3. /\ Lane(id, net[p], net[e], st[e][id], st[p][id], le, lp)
      /\ Lane(id, net[e], net[p], st[p][id], st[e][id], lp, le)
  <2>1. Lane(id, net[p], net[e], st[e][id], st[p][id], le, lp)
    BY <1>2 DEF LaneFrom
  <2>2. Lane(id, net[e], net[p], st[p][id], st[e][id], lp, le)
    BY <1>1, <1>2 DEF LaneFrom
  <2>3. QED
    BY <2>1, <2>2
<1>4. st[p][id].sendEndPending => st[p][id].localDataClosed
  BY <1>3 DEF Lane, HalfClose
<1>5. SameData(net[p], net[p], id) /\ SameData(net[e], net[e], id)
  BY SameRefl DEF SameFlow
<1> HIDE DEF p, le, lp
<1>6. Lane(id, net[p], net[e], s, st[p][id], le, lp)
  BY <1>3, <1>5, LaneAlike
<1>7. Lane(id, net[e], net[p], st[p][id], s, lp, le)
  BY <1>3, <1>4, <1>5, LaneAlike
<1>8. QED
  BY <1>6, <1>7 DEF LanesAt, p, le, lp

\* A step that sets one record and moves no id between open and closed.
LEMMA RecordAlone ==
    ASSUME StreamsTyped, Known, NEW e \in Ends, NEW id \in Ids, id < Unseen(e), NEW t,
           st' = [st EXCEPT ![e][id] = t],
           UNCHANGED <<streams, locallyClosed, nextStreamId, nextPeerStreamId, seen>>,
           \A j \in Ids : j # id =>
              /\ sent'[Node][j] = sent[Node][j] /\ got'[Controller][j] = got[Controller][j]
              /\ reported'[j] = reported[j]
    PROVE  /\ Alone(e, id) /\ st'[e][id] = t /\ st'[Peer(e)][id] = st[Peer(e)][id]
           /\ \A x \in Ends : Live(x, id)' <=> Live(x, id)
<1>1. \A x \in Ends, j \in Ids : st'[x][j] = IF x = e /\ j = id THEN t ELSE st[x][j]
  BY DEF StreamsTyped
<1>2. \A x \in Ends, j \in Ids : Live(x, j)' <=> Live(x, j)
  BY DEF Live
<1>3. id \in streams'[e] <=> Live(e, id)'
  BY <1>2 DEF Known
<1>4. locallyClosed'[Controller] = {}
  BY DEF Known
<1>5. QED
  BY <1>1, <1>2, <1>3, <1>4, TwoEnds DEF Alone

LEMMA SendDataHonest ==
    ASSUME SessionInv, SessionInv', HonestInv, UNCHANGED load, NEW e \in Ends, NEW id \in Ids,
           NEW ch \in Channels, NEW units \in Nat, NEW end \in BOOLEAN,
           SendData(e, id, ch, units, end)
    PROVE  HonestInv'
<1> DEFINE bytes == [i \in 1 .. units |-> ch]
           s == [st[e][id] EXCEPT !.queue = @ \o bytes,
                                  !.localDataClosed = end,
                                  !.sendEndPending = end]
<1>1. StreamsTyped /\ RestTyped /\ Known /\ StreamOk(id)
  BY DEF SessionInv, Typed, HonestInv
<1>2. bytes \in Seq(Channels) /\ st[e][id] \in StreamType /\ StatusKnown(st[e][id])
  BY <1>1 DEF StreamsTyped
<1>3. st[e][id].queue \o bytes \in Seq(Channels) /\ st[e][id].queue \in Seq(Channels)
  BY <1>2, ConcatProperties DEF StreamType
<1>4. s \in StreamType /\ StatusKnown(s)
  BY <1>2, <1>3 DEF StreamType, StatusKnown
<1>5. /\ FlushStream(e, id, s, net) /\ id \in streams[e] /\ ~st[e][id].localDataClosed
      /\ sent' = [sent EXCEPT ![e][id] = @ \o bytes] /\ (e = Controller => ch = "stdout")
      /\ UNCHANGED <<nextStreamId, nextPeerStreamId, sentGoAway, receivedGoAway,
                     failed, used, got, reported, seen>>
  BY DEF SendData
<1>6. /\ s.queue = st[e][id].queue \o bytes /\ s.localDataClosed = end /\ s.sendEndPending = end
      /\ s.sendCredit = st[e][id].sendCredit /\ s.exitPending = st[e][id].exitPending
      /\ s.exitStatus = st[e][id].exitStatus /\ s.peerDataClosed = st[e][id].peerDataClosed
      /\ s.outstanding = st[e][id].outstanding /\ s.pendingUpdate = st[e][id].pendingUpdate
  BY <1>2 DEF StreamType
<1> HIDE DEF s
<1>7. LanesAt(e, id, s)
  <2>1. CanSend(st[e][id])
    BY <1>5 DEF CanSend
  <2>2. s.sendEndPending => s.localDataClosed
    BY <1>6
  <2>3. QED
    BY <1>1, <1>6, <2>1, <2>2, RecordLanes
<1>8. e = Controller => StdinOnly(s) /\ reported' = reported /\ sent'[Node] = sent[Node]
  <2> SUFFICES ASSUME e = Controller PROVE StdinOnly(s) /\ sent'[Node] = sent[Node]
    BY <1>5
  <2>1. StdinOnly(st[e][id]) /\ ch = "stdout"
    BY <1>1, <1>5 DEF StreamOk
  <2>2. \A i \in 1 .. Len(bytes) : bytes[i] = "stdout"
    BY <2>1
  <2> DEFINE q == st[e][id].queue
             v == q \o bytes
  <2>3. /\ \A i \in 1 .. Len(q) : v[i] = q[i]
        /\ \A k \in 1 .. Len(bytes) : v[Len(q) + k] = bytes[k]
        /\ \A i \in 1 .. Len(v) : i \in 1 .. Len(q) \/ \E k \in 1 .. Len(bytes) : i = Len(q) + k
    <3>1. q \in Seq(Channels) /\ bytes \in Seq(Channels)
      BY <1>2, <1>3
    <3> HIDE DEF bytes, q
    <3>2. \A i \in 1 .. Len(q) : v[i] = q[i]
      BY <3>1, ConcatIndex
    <3>3. \A k \in 1 .. Len(bytes) : v[Len(q) + k] = bytes[k]
      BY <3>1, ConcatIndex
    <3>4. \A i \in 1 .. Len(v) : i \in 1 .. Len(q) \/ \E k \in 1 .. Len(bytes) : i = Len(q) + k
      BY <3>1, ConcatIndex
    <3>5. QED
      BY <3>2, <3>3, <3>4
  <2>4. \A i \in 1 .. Len(q) : q[i] = "stdout"
    BY <2>1 DEF StdinOnly
  <2> HIDE DEF v, q, bytes
  <2>5. \A i \in 1 .. Len(v) : v[i] = "stdout"
    BY <2>2, <2>3, <2>4
  <2>6. StdinOnly(s)
    BY <1>6, <2>1, <2>5 DEF StdinOnly, v, q
  <2>7. sent'[Node] = sent[Node]
    BY <1>1, <1>5, Constant DEF RestTyped
  <2>8. QED
    BY <2>6, <2>7
<1>9. ASSUME e = Node
      PROVE  /\ ExitOk(id, net[Controller], s, Live(Node, id), reported'[id], seen[id])
             /\ Conserves(sent'[Node][id], got[Controller][id], net[Controller], id, s.queue)
  <2>1. OutputOf(id) /\ Live(Node, id)
    BY <1>1, <1>5, <1>9 DEF StreamOk, Known
  <2>2. ExitOk(id, net[Controller], s, Live(Node, id), reported'[id], seen[id])
    BY <1>5, <1>6, <1>9, <2>1 DEF OutputOf, ExitOk
  <2>3. /\ sent[Node][id] \in Seq(Channels) /\ got[Controller][id] \in Seq(Channels)
        /\ net[Controller] \in Seq(WireFrame) /\ sent'[Node][id] = sent[Node][id] \o bytes
    BY <1>1, <1>5, <1>9, Constant DEF RestTyped, StreamsTyped
  <2>4. Conserves(sent[Node][id], got[Controller][id], net[Controller], id, st[Node][id].queue)
    BY <2>1 DEF OutputOf
  <2> HIDE DEF bytes
  <2>5. Conserves(sent[Node][id] \o bytes, got[Controller][id], net[Controller], id, st[Node][id].queue \o bytes)
    BY <1>2, <1>3, <1>9, <2>3, <2>4, PayloadSent
  <2>6. QED
    BY <1>6, <1>9, <2>2, <2>3, <2>5
<1>10. \A j \in Ids : j # id => sent'[Node][j] = sent[Node][j] /\ reported'[j] = reported[j]
  BY <1>1, <1>5 DEF RestTyped
<1> HIDE DEF bytes
<1>11. FlushStream(e, id, s, IF FALSE THEN Rest(e) ELSE net)
  BY <1>5
<1>12. net[e] = (IF FALSE THEN Tail(net[e]) ELSE net[e])
  OBVIOUS
<1>13. /\ Lane(id, net[Peer(e)], net[e], s, st[Peer(e)][id], Live(e, id), Live(Peer(e), id))
       /\ Lane(id, net[e], net[Peer(e)], st[Peer(e)][id], s, Live(Peer(e), id), Live(e, id))
  BY <1>7 DEF LanesAt
<1>14. QED
  BY <1>4, <1>5, <1>8, <1>9, <1>10, <1>11, <1>12, <1>13, FlushStep

LEMMA NothingSent ==
    ASSUME StreamsTyped, NEW e \in Ends, UNCHANGED net PROVE Wires(e, FALSE, <<>>)
<1>1. net[Peer(e)] \o <<>> = net[Peer(e)]
  BY TwoEnds, Records, ConcatEmptySeq
<1>2. QED
  BY <1>1 DEF Wires

LEMMA ConsumeHonest ==
    ASSUME SessionInv, SessionInv', HonestInv, UNCHANGED load, NEW e \in Ends, NEW id \in Ids,
           NEW n \in 1 .. Window, Consume(e, id, n)
    PROVE  HonestInv'
<1> DEFINE left == st[e][id].outstanding - n
           freed == st[e][id].pendingUpdate + n
           fires == Advertises(left, freed)
           kept == IF fires THEN 0 ELSE freed
           t == [st[e][id] EXCEPT !.outstanding = left, !.pendingUpdate = kept]
           g == IF fires THEN <<UpdateFrame(id, freed)>> ELSE <<>>
           p == Peer(e)
           le == Live(e, id)
           lp == Live(p, id)
<1>1. /\ StreamsTyped /\ RestTyped /\ Known /\ StreamOk(id) /\ StreamsTyped'
      /\ Node \in Ends /\ Controller \in Ends /\ p \in Ends /\ Peer(p) = e /\ p # e
      /\ \A x \in Ends : x = e \/ x = p
  BY TwoEnds, Constant DEF SessionInv, Typed, HonestInv
<1>2. /\ st[e][id] \in StreamType /\ st[p][id] \in StreamType
      /\ net[e] \in Seq(WireFrame) /\ net[p] \in Seq(WireFrame)
  BY <1>1, Records
<1>3. /\ id \in streams[e] /\ n \in 1 .. st[e][id].outstanding
      /\ st' = [st EXCEPT ![e][id].outstanding = left, ![e][id].pendingUpdate = kept]
      /\ net' = IF fires THEN [net EXCEPT ![p] = Append(@, UpdateFrame(id, freed))] ELSE net
      /\ UNCHANGED <<streams, locallyClosed, nextStreamId, nextPeerStreamId,
                     sentGoAway, receivedGoAway, failed, used, sent, got, reported, seen>>
  BY DEF Consume
<1>4. st' = [st EXCEPT ![e][id] = t]
  <2>1. st' = [st EXCEPT ![e][id].outstanding = left, ![e][id].pendingUpdate = kept]
    BY <1>3
  <2>2. st \in [Ends -> [Ids -> StreamType]]
    BY <1>1 DEF StreamsTyped
  <2> HIDE DEF left, kept
  <2> QED
    BY <2>1, <2>2 DEF StreamType
<1>5. le /\ id < Unseen(e)
  BY <1>1, <1>3 DEF Known
<1>6. /\ Alone(e, id) /\ st'[e][id] = t /\ st'[p][id] = st[p][id]
      /\ \A x \in Ends : Live(x, id)' <=> Live(x, id)
  <2> HIDE DEF t
  <2>1. \A j \in Ids : j # id =>
           /\ sent'[Node][j] = sent[Node][j] /\ got'[Controller][j] = got[Controller][j]
           /\ reported'[j] = reported[j]
    BY <1>3
  <2>2. UNCHANGED <<streams, locallyClosed, nextStreamId, nextPeerStreamId, seen>>
    BY <1>3
  <2>3. QED
    BY <1>1, <1>4, <1>5, <2>1, <2>2, RecordAlone
<1>7. /\ t.outstanding = left /\ t.pendingUpdate = kept /\ t.queue = st[e][id].queue
      /\ t.sendCredit = st[e][id].sendCredit /\ t.sendEndPending = st[e][id].sendEndPending
      /\ t.localDataClosed = st[e][id].localDataClosed /\ t.peerDataClosed = st[e][id].peerDataClosed
      /\ t.exitPending = st[e][id].exitPending /\ t.exitStatus = st[e][id].exitStatus
  <2> HIDE DEF left, kept
  <2> QED
    BY <1>2 DEF StreamType
<1>8. t \in StreamType
  BY <1>1, <1>6 DEF StreamsTyped
<1>9. /\ left \in Nat /\ freed \in Nat /\ freed > 0 /\ left + freed = st[e][id].outstanding + st[e][id].pendingUpdate
      /\ st[e][id].outstanding \in Nat /\ st[e][id].pendingUpdate \in Nat
  <2>1. st[e][id].outstanding \in 0 .. Window /\ st[e][id].pendingUpdate \in 0 .. Window
    BY <1>2 DEF StreamType
  <2>2. n \in 1 .. st[e][id].outstanding /\ Window \in Nat
    BY <1>3, Constant
  <2>3. QED
    BY <2>1, <2>2
<1>10. le /\ Lane(id, net[e], net[p], st[p][id], st[e][id], lp, le) /\ freed <= Window
  <2>1. LaneFrom(p, id)
    BY <1>1 DEF StreamOk
  <2>2. Lane(id, net[e], net[p], st[p][id], st[e][id], lp, le)
    BY <1>1, <2>1 DEF LaneFrom
  <2>3. UnitsOn(net[e], id) \in Nat
    BY <1>2, WireCounts
  <2>4. UnitsOn(net[e], id) + st[e][id].outstanding + st[e][id].pendingUpdate <= Window
    BY <1>5, <2>2, Zenon DEF Lane, Credit, Balanced
  <2> DEFINE u == UnitsOn(net[e], id)
             o == st[e][id].outstanding
             q == st[e][id].pendingUpdate
  <2>5. /\ u \in Nat /\ o \in Nat /\ q \in Nat /\ left \in Nat /\ freed \in Nat /\ Window \in Nat
        /\ u + o + q <= Window /\ left + freed = o + q
    BY <1>9, <2>3, <2>4, Constant
  <2> HIDE DEF left, freed, u, o, q
  <2>6. freed <= Window
    BY <2>5
  <2>7. QED
    BY <1>5, <2>2, <2>6
<1>11. UpdateFrame(id, freed) \in WireFrame
  BY <1>9, FramesTyped
<1> HIDE DEF t, freed, left, fires, kept
<1>12. /\ g \in Seq(WireFrame) /\ net'[e] = net[e] /\ net'[p] = net[p] \o g
  <2>1. CASE fires
    <3>1. Append(net[p], UpdateFrame(id, freed)) = net[p] \o <<UpdateFrame(id, freed)>>
      BY <1>2, <1>11, AppendIsConcat
    <3>2. QED
      <4>1. net' = [net EXCEPT ![p] = Append(@, UpdateFrame(id, freed))] /\ g = <<UpdateFrame(id, freed)>>
        BY <1>3, <2>1
      <4>2. net'[e] = net[e] /\ net'[p] = Append(net[p], UpdateFrame(id, freed))
        BY <1>1, <4>1 DEF StreamsTyped
      <4>3. <<UpdateFrame(id, freed)>> \in Seq(WireFrame)
        BY <1>11
      <4>4. QED
        BY <3>1, <4>1, <4>2, <4>3
  <2>2. CASE ~fires
    <3>1. net[p] \o <<>> = net[p]
      BY <1>2, ConcatEmptySeq
    <3>2. net' = net /\ g = <<>> /\ <<>> \in Seq(WireFrame)
      BY <1>3, <2>2
    <3>3. QED
      BY <3>1, <3>2
  <2>3. QED
    BY <2>1, <2>2
<1>13. Wires(e, FALSE, g)
  BY <1>12 DEF Wires
<1>14. \A k \in 1 .. Len(g) : g[k] = UpdateFrame(id, freed) /\ fires
  OBVIOUS
<1>15. \A k \in 1 .. Len(g) : /\ g[k].id = id /\ g[k].type = "WINDOW_UPDATE" /\ g[k].value = freed
                               /\ SaneAt(p, g[k])
  <2>1. freed \in 1 .. Window
    BY <1>9, <1>10, Constant
  <2>2. LET u == UpdateFrame(id, freed) IN u.id = id /\ u.type = "WINDOW_UPDATE" /\ u.value = freed
    BY DEF UpdateFrame, Frame
  <2>3. SaneAt(p, UpdateFrame(id, freed))
    BY <2>1, <2>2 DEF SaneAt, Sane
  <2>4. QED
    BY <1>14, <2>2, <2>3
<1>16. CreditOn(net[p] \o g, id) = CreditOn(net[p], id) + (IF fires THEN freed ELSE 0)
  <2>1. CASE fires
    <3>1. IsCredit(UpdateFrame(id, freed), id) /\ UpdateFrame(id, freed).value \in 1 .. MaxWindow
      BY <1>9, <1>10, Constant DEF IsCredit, UpdateFrame, Frame
    <3>2. CreditOn(Append(net[p], UpdateFrame(id, freed)), id) = CreditOn(net[p], id) + freed
      <4>1. UpdateFrame(id, freed).value = freed
        BY DEF UpdateFrame, Frame
      <4>2. QED
        BY <1>2, <1>11, <3>1, <4>1, CreditAppend
    <3>3. Append(net[p], UpdateFrame(id, freed)) = net[p] \o g
      BY <1>2, <1>11, <2>1, AppendIsConcat
    <3>4. QED
      BY <2>1, <3>2, <3>3
  <2>2. CASE ~fires
    <3>1. net[p] \o g = net[p] /\ CreditOn(net[p], id) \in Nat
      BY <1>2, <2>2, ConcatEmptySeq, WireCounts
    <3>2. QED
      BY <2>2, <3>1
  <2>3. QED
    BY <2>1, <2>2
<1> HIDE DEF le, lp
<1>17. Lane(id, net[e], net[p] \o g, st[p][id], t, lp, le)
  <2>1. CreditOn(net[p], id) \in Nat
    BY <1>2, WireCounts
  <2>2. /\ CreditOn(net[p] \o g, id) + t.outstanding + t.pendingUpdate =
               CreditOn(net[p], id) + st[e][id].outstanding + st[e][id].pendingUpdate
        /\ CreditOn(net[p] \o g, id) >= CreditOn(net[p], id)
    <3> DEFINE c == CreditOn(net[p], id)
               d == CreditOn(net[p] \o g, id)
    <3>1. d = c + (IF fires THEN freed ELSE 0) /\ c \in Nat
      BY <1>16, <2>1
    <3> HIDE DEF c, d
    <3>2. d + t.outstanding + t.pendingUpdate = c + st[e][id].outstanding + st[e][id].pendingUpdate /\ d >= c
      BY <1>7, <1>9, <3>1 DEF kept
    <3>3. QED
      BY <3>2 DEF c, d
  <2>3. net[p] \o g \in Seq(WireFrame)
    BY <1>2, <1>12, ConcatProperties
  <2>4. QED
    BY <1>2, <1>7, <1>8, <1>10, <2>2, <2>3, LaneConsumed
<1>18. Lane(id, net[p] \o g, net[e], t, st[p][id], le, lp)
  <2>1. Lane(id, net[p], net[e], st[e][id], st[p][id], le, lp)
    <3>1. LaneFrom(e, id)
      BY <1>1 DEF StreamOk
    <3>2. QED
      BY <3>1 DEF LaneFrom, le, lp
  <2>2. SameData(net[p] \o g, net[p], id)
    <3>1. \A k \in 1 .. Len(g) : ~IsData(g[k], id)
      BY <1>15 DEF IsData
    <3>2. QED
      BY <1>2, <1>12, <3>1, ConcatData
  <2>3. /\ t.sendEndPending => t.localDataClosed
        /\ CanSend(t) => CanSend(st[e][id])
    BY <1>7, <2>1 DEF Lane, HalfClose, CanSend
  <2>4. QED
    BY <1>7, <2>1, <2>2, <2>3, LaneAlike
<1>19. \A x \in Ends : LaneFrom(x, id)'
  BY <1>1, <1>6, <1>12, <1>17, <1>18 DEF LaneFrom, Live, le, lp
<1>20. OutputOf(id)'
  <2>1. OutputOf(id)
    BY <1>1 DEF StreamOk
  <2>2. CASE e = Node
    <3>1. p = Controller
      BY <2>2, TwoEnds
    <3>2. ExitOk(id, net[Controller] \o g, t, Live(Node, id), reported[id], seen[id])
      <4>1. \A k \in 1 .. Len(g) : ~IsExit(g[k], id)
        BY <1>15 DEF IsExit
      <4>2. ExitOk(id, net[Controller], st[Node][id], Live(Node, id), reported[id], seen[id]) /\ Live(Node, id)
        BY <1>5, <2>1, <2>2 DEF OutputOf, le
      <4>3. QED
        BY <1>2, <1>7, <1>12, <2>2, <3>1, <4>1, <4>2, ExitAside
    <3>3. Conserves(sent[Node][id], got[Controller][id], net[Controller] \o g, id, t.queue)
      <4>1. \A k \in 1 .. Len(g) : ~IsUnit(g[k], id)
        BY <1>15 DEF IsUnit
      <4>2. SamePayload(net[Controller] \o g, net[Controller], id)
        BY <1>2, <1>12, <3>1, <4>1, ConcatPayload
      <4>3. QED
        BY <1>7, <2>1, <2>2, <4>2, Zenon DEF OutputOf, SamePayload
    <3>4. QED
      BY <1>3, <1>6, <1>12, <2>2, <3>1, <3>2, <3>3 DEF OutputOf, Live
  <2>3. CASE e = Controller
    <3>1. p = Node
      BY <2>3, TwoEnds
    <3>2. QED
      BY <1>3, <1>6, <1>12, <2>1, <2>3, <3>1 DEF OutputOf, Live
  <2>4. QED
    BY <2>2, <2>3, TwoEnds
<1>21. StdinOnly(st'[Controller][id])
  <2>1. StdinOnly(st[Controller][id])
    BY <1>1 DEF StreamOk
  <2>2. /\ st'[Controller][id].queue = st[Controller][id].queue
        /\ st'[Controller][id].exitPending = st[Controller][id].exitPending
    BY <1>1, <1>6, <1>7
  <2>3. QED
    BY <2>1, <2>2 DEF StdinOnly
<1>22. StreamOk(id)'
  BY <1>19, <1>20, <1>21 DEF StreamOk
<1>23. \A k \in 1 .. Len(g) : g[k].id = id /\ g[k].type \in StreamFrame /\ SaneAt(Peer(e), g[k])
  BY <1>15 DEF StreamFrame
<1>24. QED
  BY <1>3, <1>5, <1>6, <1>12, <1>13, <1>22, <1>23, OwnStep

LEMMA SendExitHonest ==
    ASSUME SessionInv, SessionInv', HonestInv, UNCHANGED load, NEW id \in Ids, NEW status \in Statuses,
           SendExit(id, status)
    PROVE  HonestInv'
<1> DEFINE s == [st[Node][id] EXCEPT !.localDataClosed = TRUE,
                                     !.exitPending = TRUE,
                                     !.exitStatus = status]
<1>1. StreamsTyped /\ RestTyped /\ Known /\ StreamOk(id) /\ Node \in Ends /\ Peer(Node) = Controller /\ Node # Controller
  BY TwoEnds, Constant DEF SessionInv, Typed, HonestInv
<1>2. st[Node][id] \in StreamType
  BY <1>1 DEF StreamsTyped
<1>3. s \in StreamType /\ StatusKnown(s)
  BY <1>2 DEF StreamType, StatusKnown
<1>4. /\ id \in streams[Node]
      /\ reported' = [reported EXCEPT ![id] = status]
      /\ UNCHANGED <<nextStreamId, nextPeerStreamId, sentGoAway, receivedGoAway,
                     failed, used, sent, got, seen>>
      /\ \/ st' = [st EXCEPT ![Node][id] = s] /\ UNCHANGED <<streams, locallyClosed, net>>
         \/ FlushStream(Node, id, s, net)
  BY DEF SendExit
<1>5. /\ s.queue = st[Node][id].queue /\ s.localDataClosed /\ s.sendEndPending = st[Node][id].sendEndPending
      /\ s.sendCredit = st[Node][id].sendCredit /\ s.exitPending /\ s.exitStatus = status
      /\ s.peerDataClosed = st[Node][id].peerDataClosed
      /\ s.outstanding = st[Node][id].outstanding /\ s.pendingUpdate = st[Node][id].pendingUpdate
  BY <1>2 DEF StreamType
<1> HIDE DEF s
<1>6. LanesAt(Node, id, s)
  BY <1>1, <1>5, RecordLanes DEF CanSend
<1>7. OutputOf(id) /\ Live(Node, id) /\ id < Unseen(Node) /\ reported'[id] = status
  BY <1>1, <1>4 DEF StreamOk, Known, RestTyped
<1>8. ExitOk(id, net[Controller], s, Live(Node, id), reported'[id], seen[id])
  BY <1>5, <1>7 DEF OutputOf, ExitOk, ExitLast, NoExit
<1>9. Conserves(sent[Node][id], got[Controller][id], net[Controller], id, s.queue)
  BY <1>5, <1>7 DEF OutputOf
<1>10. \A j \in Ids : j # id => reported'[j] = reported[j]
  BY <1>1, <1>4 DEF RestTyped
<1>11. CASE FlushStream(Node, id, s, net)
  <2>1. FlushStream(Node, id, s, IF FALSE THEN Rest(Node) ELSE net)
    BY <1>11
  <2>2. net[Node] = (IF FALSE THEN Tail(net[Node]) ELSE net[Node])
    OBVIOUS
  <2>3. /\ Lane(id, net[Peer(Node)], net[Node], s, st[Peer(Node)][id], Live(Node, id), Live(Peer(Node), id))
        /\ Lane(id, net[Node], net[Peer(Node)], st[Peer(Node)][id], s, Live(Peer(Node), id), Live(Node, id))
    BY <1>6 DEF LanesAt
  <2>4. QED
    BY <1>1, <1>3, <1>4, <1>8, <1>9, <1>10, <2>1, <2>2, <2>3, FlushStep
<1>12. CASE st' = [st EXCEPT ![Node][id] = s] /\ UNCHANGED <<streams, locallyClosed, net>>
  <2>1. /\ Alone(Node, id) /\ st'[Node][id] = s /\ st'[Controller][id] = st[Controller][id]
        /\ \A x \in Ends : Live(x, id)' <=> Live(x, id)
    <3>1. /\ st' = [st EXCEPT ![Node][id] = s]
          /\ UNCHANGED <<streams, locallyClosed, nextStreamId, nextPeerStreamId, seen>>
          /\ \A j \in Ids : j # id =>
                /\ sent'[Node][j] = sent[Node][j] /\ got'[Controller][j] = got[Controller][j]
                /\ reported'[j] = reported[j]
      BY <1>4, <1>10, <1>12
    <3>2. /\ Alone(Node, id) /\ st'[Node][id] = s /\ st'[Peer(Node)][id] = st[Peer(Node)][id]
          /\ \A x \in Ends : Live(x, id)' <=> Live(x, id)
      BY <1>1, <1>7, <3>1, RecordAlone
    <3>3. QED
      BY <1>1, <3>2
  <2>2. Wires(Node, FALSE, <<>>)
    BY <1>1, <1>12, NothingSent
  <2>3. StreamOk(id)'
    <3>1. LaneFrom(Node, id)' /\ LaneFrom(Controller, id)'
      BY <1>1, <1>6, <1>12, <2>1, TwoEnds DEF LaneFrom, LanesAt, Live
    <3>2. OutputOf(id)'
      BY <1>1, <1>4, <1>8, <1>9, <1>12, <2>1 DEF OutputOf, Live
    <3>3. StdinOnly(st'[Controller][id])
      BY <1>1, <2>1 DEF StreamOk
    <3>4. QED
      BY <3>1, <3>2, <3>3, TwoEnds DEF StreamOk
  <2>4. /\ <<>> \in Seq(WireFrame)
        /\ \A k \in 1 .. Len(<<>>) : FALSE
    OBVIOUS
  <2>5. QED
    BY <1>1, <1>4, <1>7, <2>1, <2>2, <2>3, <2>4, OwnStep
<1>13. QED
  BY <1>4, <1>11, <1>12

\* A step that takes or sends OPENs and frames of the connection touches no stream.
LEMMA Quietly ==
    ASSUME StreamsTyped, HonestInv, NEW e \in Ends, NEW took \in BOOLEAN, NEW g \in Seq(WireFrame),
           Wires(e, took, g), \A j \in Ids : SameStream(j),
           took => net[e][1].type \notin {"DATA", "WINDOW_UPDATE"},
           \A k \in 1 .. Len(g) : /\ g[k].type \notin {"DATA", "WINDOW_UPDATE"} /\ SaneAt(Peer(e), g[k])
                                  /\ e = Node => g[k].id \notin Ids
    PROVE  /\ FramesSane' /\ \A j \in Ids : StreamOk(j)'
           /\ \A x \in Ends, j \in Ids :
                 (NoFrame(net[Peer(x)], j) /\ (x = e => \A k \in 1 .. Len(g) : g[k].id # j)) =>
                     NoFrame(net'[Peer(x)], j)
<1>1. \A x \in Ends : net[x] \in Seq(WireFrame)
  BY Records
<1>2. FramesSane'
  BY SaneKept DEF HonestInv
<1>3. ASSUME NEW j \in Ids PROVE StreamOk(j)'
  <2>1. took => Aside(net[e][1], j)
    BY DEF Aside, IsData, IsCredit
  <2>2. \A k \in 1 .. Len(g) : Aside(g[k], j) /\ (e = Node => g[k].id # j)
    BY DEF Aside, IsData, IsCredit
  <2>3. StreamOk(j) /\ SameStream(j)
    BY DEF HonestInv
  <2>4. QED
    BY <2>1, <2>2, <2>3, Others
<1>4. ASSUME NEW x \in Ends, NEW j \in Ids, NoFrame(net[Peer(x)], j),
             x = e => \A k \in 1 .. Len(g) : g[k].id # j
      PROVE  NoFrame(net'[Peer(x)], j)
  <2>1. CASE x = e
    <3>1. SameExit(net[Peer(e)] \o g, net[Peer(e)], j)
      BY <1>1, <1>4, <2>1, TwoEnds, ConcatExit
    <3>2. QED
      BY <1>4, <2>1, <3>1 DEF SameExit, Wires
  <2>2. CASE x = Peer(e)
    <3>1. Peer(x) = e
      BY <2>2, TwoEnds
    <3>2. took => NoFrame(Tail(net[e]), j)
      BY <1>1, <1>4, <3>1, TailOrder DEF Wires
    <3>3. QED
      BY <1>4, <3>1, <3>2 DEF Wires
  <2>3. QED
    BY <2>1, <2>2, TwoEnds
<1>5. QED
  BY <1>2, <1>3, <1>4

\* A step of the connection only: PING, PONG and GOAWAY.
LEMMA ConnStep ==
    ASSUME SessionInv, HonestInv, NEW e \in Ends, NEW took \in BOOLEAN, NEW g \in Seq(WireFrame),
           Wires(e, took, g),
           UNCHANGED <<streams, locallyClosed, st, nextStreamId, nextPeerStreamId, failed,
                       sent, got, reported, seen>>,
           took => net[e][1].type \in {"PING", "PONG", "GOAWAY"},
           \A k \in 1 .. Len(g) : g[k].type \in {"PING", "PONG", "GOAWAY"} /\ g[k].id = 0
    PROVE  /\ FramesSane' /\ Known' /\ \A j \in Ids : StreamOk(j)'
           /\ failed[Node] = "no" => OpensInOrder(net'[Node], nextPeerStreamId, nextStreamId)
<1>1. StreamsTyped /\ RestTyped /\ Known /\ FramesSane /\ OpensReadable /\ 0 \notin Ids
  BY Constant DEF SessionInv, Typed, HonestInv
<1>2. \A x \in Ends, j \in Ids : Live(x, j)' <=> Live(x, j)
  BY DEF Live
<1>3. \A j \in Ids : SameStream(j)
  BY <1>2 DEF SameStream
<1>4. \A k \in 1 .. Len(g) : SaneAt(Peer(e), g[k])
  BY DEF SaneAt, Sane
<1>5. /\ FramesSane' /\ \A j \in Ids : StreamOk(j)'
      /\ \A x \in Ends, j \in Ids : NoFrame(net[Peer(x)], j) => NoFrame(net'[Peer(x)], j)
  BY <1>1, <1>3, <1>4, Quietly
<1>6. Known'
  BY <1>1, <1>2, <1>5 DEF Known, Unseen
<1>7. ASSUME failed[Node] = "no" PROVE OpensInOrder(net'[Node], nextPeerStreamId, nextStreamId)
  <2>1. /\ OpensInOrder(net[Node], nextPeerStreamId, nextStreamId)
        /\ nextPeerStreamId \in Nat /\ nextPeerStreamId > 0 /\ nextStreamId \in Nat /\ nextStreamId > 0
        /\ Node \in Ends /\ net[Node] \in Seq(WireFrame)
    BY <1>1, <1>7, Constant, Records DEF RestTyped, OpensReadable
  <2>2. CASE e = Node
    <3>1. CASE took
      <4>1. net[Node] # <<>> /\ net'[Node] = Tail(net[Node]) /\ net[Node][1].type # "OPEN"
        BY <2>2, <3>1 DEF Wires
      <4>2. \A i \in 1 .. Len(net[Node]) : net[Node][i].type = "OPEN" => net[Node][i].id \in Ids
        BY <1>1, <2>1 DEF FramesSane, SaneAt, Sane
      <4>3. QED
        BY <2>1, <4>1, <4>2, OpensTail
    <3>2. CASE ~took
      BY <2>1, <2>2, <3>2 DEF Wires
    <3>3. QED
      BY <3>1, <3>2
  <2>3. CASE e = Controller
    <3>1. net'[Node] = net[Node] \o g
      BY <2>3, TwoEnds DEF Wires
    <3>2. \A k \in 1 .. Len(g) : g[k].type # "OPEN" /\ g[k].id < nextStreamId /\ g[k].id \in Ids \cup {0}
      BY <2>1
    <3>3. QED
      BY <2>1, <3>1, <3>2, OpensConcat
  <2>4. QED
    BY <2>2, <2>3, TwoEnds
<1>8. QED
  BY <1>5, <1>6, <1>7

\* One frame of the connection, put on the wire.
LEMMA ConnSent ==
    ASSUME NEW e \in Ends, NEW type \in {"PING", "PONG", "GOAWAY"}, NEW w \in Seq(WireFrame)
    PROVE  /\ <<ConnFrame(type)>> \in Seq(WireFrame) /\ Append(w, ConnFrame(type)) = w \o <<ConnFrame(type)>>
           /\ ConnFrame(type) \in WireFrame /\ ConnFrame(type).type = type /\ ConnFrame(type).id = 0
           /\ \A k \in 1 .. Len(<<ConnFrame(type)>>) :
                 <<ConnFrame(type)>>[k].type = type /\ <<ConnFrame(type)>>[k].id = 0
<1>1. 1 \in Ids
  BY Constant DEF Ids
<1>2. ConnFrame(type) \in WireFrame
  BY <1>1, FramesTyped
<1>3. ConnFrame(type).type = type /\ ConnFrame(type).id = 0
  BY DEF ConnFrame, Frame
<1>4. QED
  BY <1>2, <1>3, AppendIsConcat

LEMMA PingHonest ==
    ASSUME SessionInv, HonestInv, UNCHANGED load, NEW e \in Ends, Ping(e) PROVE HonestInv'
<1> DEFINE g == <<ConnFrame("PING")>>
<1>1. /\ StreamsTyped /\ NoneFailed /\ OpensReadable /\ net[Peer(e)] \in Seq(WireFrame) /\ Peer(e) \in Ends /\ Peer(e) # e
      /\ net[Node] \in Seq(WireFrame)
  BY TwoEnds, Records DEF SessionInv, Typed, HonestInv
<1>2. /\ g \in Seq(WireFrame) /\ Append(net[Peer(e)], ConnFrame("PING")) = net[Peer(e)] \o g
      /\ \A k \in 1 .. Len(g) : g[k].type = "PING" /\ g[k].id = 0
  BY <1>1, ConnSent
<1>3. /\ net' = [net EXCEPT ![Peer(e)] = Append(@, ConnFrame("PING"))]
      /\ UNCHANGED <<streams, locallyClosed, st, nextStreamId, nextPeerStreamId, failed,
                     sent, got, reported, seen, sentGoAway, receivedGoAway>>
  BY DEF Ping, sessionVars
<1> HIDE DEF g
<1>4. Wires(e, FALSE, g)
  BY <1>1, <1>2, <1>3 DEF Wires, StreamsTyped
<1>5. /\ FramesSane' /\ Known' /\ \A j \in Ids : StreamOk(j)'
      /\ failed[Node] = "no" => OpensInOrder(net'[Node], nextPeerStreamId, nextStreamId)
  BY <1>2, <1>3, <1>4, ConnStep
<1>6. ASSUME failed[Node] = "no"
      PROVE  GoAwayLast(net'[Node], sentGoAway[Controller], receivedGoAway[Node])
  <2>1. GoAwayLast(net[Node], sentGoAway[Controller], receivedGoAway[Node])
    BY <1>1, <1>6 DEF OpensReadable
  <2>2. CASE e = Node
    BY <1>4, <2>1, <2>2 DEF Wires
  <2>3. CASE e = Controller
    <3>1. net'[Node] = net[Node] \o g
      BY <1>4, <2>3, TwoEnds DEF Wires
    <3>2. \A k \in 1 .. Len(g) : g[k].type # "OPEN" /\ g[k].type # "GOAWAY"
      BY <1>2
    <3>3. QED
      BY <1>1, <1>2, <2>1, <3>1, <3>2, GoAwayConcat
  <2>4. QED
    BY <2>2, <2>3, TwoEnds
<1>7. QED
  BY <1>1, <1>3, <1>5, <1>6 DEF HonestInv, OpensReadable, NoneFailed

LEMMA GoAwayHonest ==
    ASSUME SessionInv, HonestInv, UNCHANGED load, NEW e \in Ends, GoAway(e) PROVE HonestInv'
<1> DEFINE g == <<ConnFrame("GOAWAY")>>
<1>1. /\ StreamsTyped /\ RestTyped /\ NoneFailed /\ OpensReadable /\ net[Peer(e)] \in Seq(WireFrame)
      /\ Peer(e) \in Ends /\ Peer(e) # e /\ net[Node] \in Seq(WireFrame) /\ Controller # Node
  BY TwoEnds, Records DEF SessionInv, Typed, HonestInv
<1>2. /\ g \in Seq(WireFrame) /\ Append(net[Peer(e)], ConnFrame("GOAWAY")) = net[Peer(e)] \o g
      /\ ConnFrame("GOAWAY") \in WireFrame /\ ConnFrame("GOAWAY").type = "GOAWAY"
      /\ \A k \in 1 .. Len(g) : g[k].type = "GOAWAY" /\ g[k].id = 0
  BY <1>1, ConnSent
<1>3. /\ net' = [net EXCEPT ![Peer(e)] = Append(@, ConnFrame("GOAWAY"))]
      /\ e \in load.drain /\ sentGoAway' = [sentGoAway EXCEPT ![e] = TRUE]
      /\ UNCHANGED <<streams, locallyClosed, st, nextStreamId, nextPeerStreamId, failed,
                     sent, got, reported, seen, receivedGoAway>>
  BY DEF GoAway
<1>4. Wires(e, FALSE, g)
  <2> HIDE DEF g
  <2> QED
    BY <1>1, <1>2, <1>3 DEF Wires, StreamsTyped
<1>5. /\ FramesSane' /\ Known' /\ \A j \in Ids : StreamOk(j)'
      /\ failed[Node] = "no" => OpensInOrder(net'[Node], nextPeerStreamId, nextStreamId)
  <2> HIDE DEF g
  <2> QED
    BY <1>2, <1>3, <1>4, ConnStep
<1>6. \A x \in Ends : sentGoAway'[x] = IF x = e THEN TRUE ELSE sentGoAway[x]
  BY <1>1, <1>3 DEF RestTyped
<1>7. ASSUME failed[Node] = "no"
      PROVE  GoAwayLast(net'[Node], sentGoAway'[Controller], receivedGoAway[Node])
  <2>1. GoAwayLast(net[Node], sentGoAway[Controller], receivedGoAway[Node])
    BY <1>1, <1>7 DEF OpensReadable
  <2>2. CASE e = Node
    <3>1. net'[Node] = net[Node] /\ sentGoAway'[Controller] = sentGoAway[Controller]
      BY <1>1, <1>4, <1>6, <2>2, TwoEnds DEF Wires
    <3>2. QED
      BY <2>1, <3>1
  <2>3. CASE e = Controller
    <3>1. net'[Node] = net[Node] \o <<ConnFrame("GOAWAY")>> /\ sentGoAway'[Controller] = TRUE
      BY <1>4, <1>6, <2>3, TwoEnds DEF Wires
    <3>2. GoAwayLast(net[Node] \o <<ConnFrame("GOAWAY")>>, TRUE, receivedGoAway[Node])
      BY <1>1, <1>2, <2>1, GoAwayAppend
    <3>3. QED
      BY <3>1, <3>2
  <2>4. QED
    BY <2>2, <2>3, TwoEnds
<1>8. NoneFailed'
  BY <1>1, <1>3, <1>6, TwoEnds DEF NoneFailed
<1>9. QED
  BY <1>3, <1>5, <1>7, <1>8 DEF HonestInv, OpensReadable

\* The frame at the head of a wire between honest ends, and a step that takes it.
LEMMA Taken ==
    ASSUME StreamsTyped, FramesSane, NEW e \in Ends, net[e] # <<>>
    PROVE  /\ Head(net[e]) = net[e][1] /\ Head(net[e]) \in WireFrame /\ SaneAt(e, Head(net[e]))
           /\ net[e] \in Seq(WireFrame) /\ 1 \in 1 .. Len(net[e])
           /\ <<>> \in Seq(WireFrame) /\ \A k \in 1 .. Len(<<>>) : FALSE
           /\ Rest(e)[e] = Tail(net[e]) /\ Rest(e)[Peer(e)] = net[Peer(e)]
           /\ net' = Rest(e) => Wires(e, TRUE, <<>>)
<1>1. net[e] \in Seq(WireFrame) /\ net[Peer(e)] \in Seq(WireFrame) /\ Peer(e) # e /\ Peer(e) \in Ends
  BY TwoEnds, Records
<1>2. Head(net[e]) = net[e][1] /\ 1 \in 1 .. Len(net[e])
  BY <1>1, TailIndex
<1>3. Rest(e)[e] = Tail(net[e]) /\ Rest(e)[Peer(e)] = net[Peer(e)]
  BY <1>1 DEF Rest, StreamsTyped
<1>4. net[Peer(e)] \o <<>> = net[Peer(e)]
  BY <1>1, ConcatEmptySeq
<1>5. Head(net[e]) \in WireFrame
  BY <1>1, HeadTailProperties
<1>6. QED
  BY <1>1, <1>2, <1>3, <1>4, <1>5 DEF FramesSane, Wires

LEMMA ReceiveConnectionHonest ==
    ASSUME SessionInv, HonestInv, UNCHANGED load, NEW e \in Ends, ReceiveConnection(e)
    PROVE  HonestInv'
<1> DEFINE f == Head(net[e])
           g == IF f.type = "PING" THEN <<ConnFrame("PONG")>> ELSE <<>>
<1>1. /\ StreamsTyped /\ RestTyped /\ NoneFailed /\ OpensReadable /\ FramesSane /\ net[e] # <<>>
      /\ Peer(e) \in Ends /\ Peer(e) # e /\ net[Peer(e)] \in Seq(WireFrame) /\ net[Node] \in Seq(WireFrame)
      /\ f.type \in {"PING", "PONG", "GOAWAY"}
  BY TwoEnds, Records DEF SessionInv, Typed, HonestInv, ReceiveConnection, Arrived
<1>2. f = net[e][1] /\ SaneAt(e, f) /\ Rest(e)[e] = Tail(net[e]) /\ Rest(e)[Peer(e)] = net[Peer(e)]
  BY <1>1, Taken
<1>3. f.id = 0
  BY <1>1, <1>2 DEF SaneAt, Sane
<1>4. /\ net' = IF f.type = "PING"
                THEN [Rest(e) EXCEPT ![Peer(e)] = Append(@, ConnFrame("PONG"))]
                ELSE Rest(e)
      /\ receivedGoAway' = [receivedGoAway EXCEPT ![e] = @ \/ f.type = "GOAWAY"]
      /\ UNCHANGED <<streams, locallyClosed, st, nextStreamId, nextPeerStreamId,
                     sentGoAway, failed, used, sent, got, reported, seen>>
  BY <1>3 DEF ReceiveConnection
<1>5. /\ g \in Seq(WireFrame) /\ Wires(e, TRUE, g)
      /\ \A k \in 1 .. Len(g) : g[k].type = "PONG" /\ g[k].id = 0
  <2>1. CASE f.type = "PING"
    <3>1. /\ <<ConnFrame("PONG")>> \in Seq(WireFrame)
          /\ Append(net[Peer(e)], ConnFrame("PONG")) = net[Peer(e)] \o <<ConnFrame("PONG")>>
          /\ \A k \in 1 .. Len(<<ConnFrame("PONG")>>) :
                <<ConnFrame("PONG")>>[k].type = "PONG" /\ <<ConnFrame("PONG")>>[k].id = 0
      BY <1>1, ConnSent
    <3>2. g = <<ConnFrame("PONG")>> /\ net' = [Rest(e) EXCEPT ![Peer(e)] = Append(@, ConnFrame("PONG"))]
      BY <1>4, <2>1
    <3>3. net'[e] = Tail(net[e]) /\ net'[Peer(e)] = Append(net[Peer(e)], ConnFrame("PONG"))
      <4>1. DOMAIN Rest(e) = Ends
        BY <1>1 DEF Rest, StreamsTyped
      <4>2. QED
        BY <1>1, <1>2, <3>2, <4>1
    <3> HIDE DEF g, f
    <3>4. QED
      BY <1>1, <3>1, <3>2, <3>3 DEF Wires
  <2>2. CASE f.type # "PING"
    <3>1. g = <<>> /\ net' = Rest(e)
      BY <1>4, <2>2
    <3> HIDE DEF g, f
    <3>2. QED
      BY <1>1, <3>1, Taken
  <2>3. QED
    BY <2>1, <2>2
<1> HIDE DEF f, g
<1>6. /\ FramesSane' /\ Known' /\ \A j \in Ids : StreamOk(j)'
      /\ failed[Node] = "no" => OpensInOrder(net'[Node], nextPeerStreamId, nextStreamId)
  BY <1>1, <1>2, <1>4, <1>5, ConnStep
<1>7. ASSUME failed[Node] = "no"
      PROVE  GoAwayLast(net'[Node], sentGoAway[Controller], receivedGoAway'[Node])
  <2>1. GoAwayLast(net[Node], sentGoAway[Controller], receivedGoAway[Node])
    BY <1>1, <1>7 DEF OpensReadable
  <2>2. CASE e = Node
    <3>1. net'[Node] = Tail(net[Node]) /\ net[Node] # <<>> /\ f = net[Node][1]
      BY <1>1, <1>2, <1>5, <2>2 DEF Wires
    <3>2. receivedGoAway'[Node] = (receivedGoAway[Node] \/ f.type = "GOAWAY")
      BY <1>1, <1>4, <2>2 DEF RestTyped
    <3>3. /\ GoAwayLast(Tail(net[Node]), sentGoAway[Controller], receivedGoAway[Node])
          /\ f.type = "GOAWAY" => GoAwayLast(Tail(net[Node]), sentGoAway[Controller], TRUE)
      BY <1>1, <2>1, <3>1, GoAwayTail
    <3>4. CASE f.type = "GOAWAY"
      BY <3>1, <3>2, <3>3, <3>4
    <3>5. CASE f.type # "GOAWAY"
      <4>1. receivedGoAway'[Node] = receivedGoAway[Node]
        BY <1>1, <2>2, <3>2, <3>5 DEF RestTyped
      <4>2. QED
        BY <3>1, <3>3, <4>1
    <3>6. QED
      BY <3>4, <3>5
  <2>3. CASE e = Controller
    <3>1. net'[Node] = net[Node] \o g
      BY <1>5, <2>3, TwoEnds DEF Wires
    <3>2. receivedGoAway'[Node] = receivedGoAway[Node]
      BY <1>1, <1>4, <2>3, TwoEnds DEF RestTyped
    <3>3. \A k \in 1 .. Len(g) : g[k].type # "OPEN" /\ g[k].type # "GOAWAY"
      BY <1>5
    <3>4. QED
      BY <1>1, <1>5, <2>1, <3>1, <3>2, <3>3, GoAwayConcat
  <2>4. QED
    BY <2>2, <2>3, TwoEnds
<1>8. QED
  BY <1>1, <1>4, <1>6, <1>7 DEF HonestInv, OpensReadable, NoneFailed

LEMMA OpenHonest ==
    ASSUME SessionInv, HonestInv, UNCHANGED load, Open PROVE HonestInv'
<1> DEFINE n == nextStreamId
           g == <<OpenFrame(n)>>
<1>1. /\ StreamsTyped /\ RestTyped /\ Known /\ NoneFailed /\ OpensReadable /\ IdsInOrder
      /\ net[Node] \in Seq(WireFrame)
      /\ Controller \in Ends /\ Node \in Ends /\ Peer(Controller) = Node /\ Peer(Node) = Controller /\ Controller # Node
      /\ \A x \in Ends : x = Controller \/ x = Node
  BY TwoEnds, Records, Constant DEF SessionInv, Typed, HonestInv
<1>2. n \in Ids /\ n \in Nat /\ nextPeerStreamId \in Nat /\ nextPeerStreamId <= n /\ Ids \subseteq Nat
  BY <1>1, Constant, SMTT(30) DEF Open, RestTyped, Ids, Known
<1>3. /\ ~sentGoAway[Controller] /\ nextStreamId' = n + 1
      /\ streams' = [streams EXCEPT ![Controller] = @ \cup {n}]
      /\ st' = [st EXCEPT ![Controller][n] = FreshStream]
      /\ net' = [net EXCEPT ![Node] = Append(@, OpenFrame(n))]
      /\ UNCHANGED <<locallyClosed, nextPeerStreamId, sentGoAway, receivedGoAway,
                     failed, used, sent, got, reported, seen>>
  BY DEF Open
<1>4. st' = st
  <2>1. st[Controller][n] = FreshStream
    BY <1>1, <1>2 DEF Known, Unseen
  <2>2. QED
    BY <1>1, <1>3, <2>1 DEF StreamsTyped
<1>5. /\ OpenFrame(n) \in WireFrame /\ OpenFrame(n).type = "OPEN" /\ OpenFrame(n).id = n
      /\ g \in Seq(WireFrame) /\ Append(net[Node], OpenFrame(n)) = net[Node] \o g
  <2>1. OpenFrame(n) \in WireFrame
    BY <1>2, FramesTyped
  <2>2. OpenFrame(n).type = "OPEN" /\ OpenFrame(n).id = n
    BY DEF OpenFrame, Frame
  <2>3. QED
    BY <1>1, <2>1, <2>2, AppendIsConcat
<1>6. Wires(Controller, FALSE, g)
  <2> HIDE DEF g
  <2> QED
    BY <1>1, <1>3, <1>5 DEF Wires, StreamsTyped
<1>7. \A k \in 1 .. Len(g) : g[k] = OpenFrame(n)
  OBVIOUS
<1> HIDE DEF g
<1>8. \A x \in Ends, j \in Ids : Live(x, j)' <=> Live(x, j)
  BY <1>3 DEF Live
<1>9. \A j \in Ids : SameStream(j)
  BY <1>3, <1>4, <1>8 DEF SameStream
<1>10. \A k \in 1 .. Len(g) : /\ g[k].type \notin {"DATA", "WINDOW_UPDATE"}
                              /\ SaneAt(Peer(Controller), g[k])
                              /\ Controller = Node => g[k].id \notin Ids
  BY <1>1, <1>2, <1>5, <1>7 DEF SaneAt, Sane
<1>11. /\ FramesSane' /\ \A j \in Ids : StreamOk(j)'
       /\ \A x \in Ends, j \in Ids :
             (NoFrame(net[Peer(x)], j) /\ (x = Controller => \A k \in 1 .. Len(g) : g[k].id # j)) =>
                 NoFrame(net'[Peer(x)], j)
  <2>1. StreamsTyped /\ Controller \in Ends /\ g \in Seq(WireFrame) /\ FALSE \in BOOLEAN
    BY <1>1, <1>5
  <2>2. PICK e \in Ends : e = Controller
    BY <2>1
  <2>3. /\ Wires(e, FALSE, g)
        /\ \A k \in 1 .. Len(g) : /\ g[k].type \notin {"DATA", "WINDOW_UPDATE"} /\ SaneAt(Peer(e), g[k])
                                  /\ e = Node => g[k].id \notin Ids
    BY <1>6, <1>10, <2>2
  <2>4. FramesSane' /\ \A j \in Ids : StreamOk(j)'
    BY <1>9, <2>1, <2>3, Quietly
  <2>5. ASSUME NEW x \in Ends, NEW j \in Ids, NoFrame(net[Peer(x)], j),
               x = e => \A k \in 1 .. Len(g) : g[k].id # j
        PROVE  NoFrame(net'[Peer(x)], j)
    BY <1>9, <2>1, <2>3, <2>5, Quietly, ZenonT(60)
  <2>6. QED
    BY <2>2, <2>4, <2>5
<1>12. Known'
  <2>1. nextPeerStreamId' <= nextStreamId' /\ locallyClosed'[Controller] = {}
    BY <1>1, <1>2, <1>3 DEF Known
  <2>2. /\ Unseen(Controller) = n /\ Unseen(Controller)' = n + 1
        /\ Unseen(Node)' = Unseen(Node) /\ Unseen(Node) \in Nat
        /\ streams'[Controller] = streams[Controller] \cup {n} /\ streams'[Node] = streams[Node]
    BY <1>1, <1>2, <1>3 DEF Unseen, StreamsTyped
  <2>3. Live(Controller, n)
    BY <1>1, <1>2 DEF IdsInOrder, Live
  <2>4. ASSUME NEW x \in Ends, NEW j \in Ids
        PROVE  j \in streams'[x] <=> j < Unseen(x)' /\ Live(x, j)'
    <3>1. /\ j \in streams[x] <=> j < Unseen(x) /\ Live(x, j)
          /\ j \in Nat /\ (Live(x, j)' <=> Live(x, j))
      BY <1>1, <1>2, <1>8 DEF Known
    <3>2. CASE x = Controller
      <4>1. j < n + 1 <=> j < n \/ j = n
        BY <1>2, <3>1
      <4>2. QED
        BY <1>2, <2>2, <2>3, <3>1, <3>2, <4>1 DEF Unseen, Live
    <3>3. CASE x = Node
      <4>1. streams'[x] = streams[x]
        BY <2>2, <3>3
      <4>2. Unseen(x)' = Unseen(x)
        BY <1>1, <1>3, <3>3 DEF Unseen
      <4>3. QED
        BY <3>1, <4>1, <4>2
    <3>4. QED
      BY <1>1, <3>2, <3>3
  <2>5. ASSUME NEW x \in Ends, NEW j \in Ids, j >= Unseen(x)'
        PROVE  st'[x][j] = FreshStream /\ NoFrame(net'[Peer(x)], j)
    <3>1. j >= Unseen(x) /\ (x = Controller => j # n)
      <4>1. j \in Nat
        BY <1>2
      <4>2. CASE x = Controller
        BY <1>2, <2>2, <2>5, <4>1, <4>2
      <4>3. CASE x = Node
        BY <1>1, <2>2, <2>5, <4>3
      <4>4. QED
        BY <1>1, <4>2, <4>3
    <3>2. st[x][j] = FreshStream /\ NoFrame(net[Peer(x)], j)
      BY <1>1, <3>1 DEF Known
    <3>3. x = Controller => \A k \in 1 .. Len(g) : g[k].id # j
      BY <1>5, <1>7, <3>1
    <3>4. QED
      BY <1>4, <1>11, <3>2, <3>3
  <2>6. QED
    BY <2>1, <2>4, <2>5 DEF Known
<1>13. ASSUME failed[Node] = "no"
       PROVE  /\ OpensInOrder(net'[Node], nextPeerStreamId, nextStreamId')
              /\ GoAwayLast(net'[Node], sentGoAway[Controller], receivedGoAway[Node])
  <2>1. /\ OpensInOrder(net[Node], nextPeerStreamId, n)
        /\ GoAwayLast(net[Node], sentGoAway[Controller], receivedGoAway[Node])
    BY <1>1, <1>13 DEF OpensReadable
  <2>2. net'[Node] = net[Node] \o <<OpenFrame(n)>>
    BY <1>1, <1>6 DEF Wires, g
  <2>3. OpensInOrder(net[Node] \o <<OpenFrame(n)>>, nextPeerStreamId, n + 1)
    BY <1>1, <1>2, <2>1, OpensAppend
  <2>4. GoAwayLast(net[Node] \o <<OpenFrame(n)>>, sentGoAway[Controller], receivedGoAway[Node])
    BY <1>1, <1>3, <1>5, <2>1, GoAwayAppend
  <2>5. QED
    BY <1>3, <2>2, <2>3, <2>4
<1>14. QED
  BY <1>1, <1>3, <1>11, <1>12, <1>13 DEF HonestInv, OpensReadable, NoneFailed

LEMMA ReceiveOpenHonest ==
    ASSUME SessionInv, HonestInv, UNCHANGED load, NEW e \in Ends, ReceiveOpen(e) PROVE HonestInv'
<1> DEFINE f == Head(net[e])
           n == nextPeerStreamId
<1>1. /\ StreamsTyped /\ RestTyped /\ Known /\ NoneFailed /\ OpensReadable /\ IdsInOrder /\ FramesSane
      /\ net[e] # <<>> /\ f.type = "OPEN" /\ failed[e] = "no"
  BY DEF SessionInv, Typed, HonestInv, ReceiveOpen, Arrived, Usable
<1>2. /\ f = net[e][1] /\ SaneAt(e, f) /\ net[e] \in Seq(WireFrame)
      /\ <<>> \in Seq(WireFrame) /\ \A k \in 1 .. Len(<<>>) : FALSE
      /\ net' = Rest(e) => Wires(e, TRUE, <<>>)
  BY <1>1, Taken
<1>3. /\ e = Node /\ Node \in Ends /\ Controller \in Ends /\ Node # Controller /\ f.id \in Ids
      /\ Peer(Controller) = Node /\ Peer(Node) = Controller /\ \A x \in Ends : x = Node \/ x = Controller
      /\ Ids \subseteq Nat /\ 0 \notin Ids
  BY <1>1, <1>2, TwoEnds, Constant DEF SaneAt, Sane
<1>4. n \in Nat /\ n > 0 /\ nextStreamId \in Nat
  BY <1>1, Constant DEF RestTyped
<1>5. /\ OpensInOrder(net[Node], n, nextStreamId)
      /\ GoAwayLast(net[Node], sentGoAway[Controller], receivedGoAway[Node])
  BY <1>1, <1>3 DEF OpensReadable
<1>6. f.id = n /\ n < nextStreamId /\ OpensInOrder(Tail(net[Node]), n + 1, nextStreamId)
  <2>1. \A i \in 1 .. Len(net[Node]) : net[Node][i].type = "OPEN" => net[Node][i].id \in Ids
    BY <1>1, <1>3 DEF FramesSane, SaneAt, Sane
  <2>2. 1 \in 1 .. Len(net[Node])
    BY <1>1, <1>3, Taken
  <2>3. f.id < nextStreamId
    <3>1. net[Node][1].type = "OPEN" /\ net[Node][1].id = f.id
      BY <1>1, <1>2, <1>3
    <3>2. net[Node][1].id < nextStreamId
      BY <1>5, <2>2, <3>1, Zenon DEF OpensInOrder
    <3>3. QED
      BY <3>1, <3>2
  <2>4. f.id = n /\ OpensInOrder(Tail(net[Node]), n + 1, nextStreamId)
    BY <1>1, <1>2, <1>3, <1>4, <1>5, <2>1, OpensTail
  <2>5. QED
    BY <2>3, <2>4
<1>7. /\ GoAwayLast(Tail(net[Node]), sentGoAway[Controller], receivedGoAway[Node])
      /\ ~receivedGoAway[Node]
  <2>1. 1 \in 1 .. Len(net[Node])
    BY <1>1, <1>3, Taken
  <2>2. QED
    BY <1>1, <1>2, <1>3, <1>5, <2>1, GoAwayTail DEF GoAwayLast
\* What taking the OPEN does to the streams, whatever comes of it.
<1>8. ASSUME net' = Rest(e), st' = st,
             UNCHANGED <<locallyClosed, nextStreamId, sent, got, reported, seen>>
      PROVE  /\ FramesSane' /\ \A j \in Ids : StreamOk(j)'
             /\ \A x \in Ends, j \in Ids : NoFrame(net[Peer(x)], j) => NoFrame(net'[Peer(x)], j)
             /\ \A x \in Ends, j \in Ids : Live(x, j)' <=> Live(x, j)
  <2>1. \A x \in Ends, j \in Ids : Live(x, j)' <=> Live(x, j)
    BY <1>8 DEF Live
  <2>2. \A j \in Ids : SameStream(j)
    BY <1>8, <2>1 DEF SameStream
  <2>3. Wires(e, TRUE, <<>>) /\ net[e][1].type \notin {"DATA", "WINDOW_UPDATE"}
    BY <1>1, <1>2, <1>8
  <2>4. \A k \in 1 .. Len(<<>>) :
           /\ <<>>[k].type \notin {"DATA", "WINDOW_UPDATE"} /\ SaneAt(Peer(e), <<>>[k])
           /\ e = Node => <<>>[k].id \notin Ids
    BY <1>2
  <2>5. FramesSane' /\ \A j \in Ids : StreamOk(j)'
    BY <1>1, <1>2, <2>2, <2>3, <2>4, Quietly
  <2>6. ASSUME NEW x \in Ends, NEW j \in Ids, NoFrame(net[Peer(x)], j) PROVE NoFrame(net'[Peer(x)], j)
    <3>1. x = e => \A k \in 1 .. Len(<<>>) : <<>>[k].id # j
      BY <1>2
    <3>2. QED
      BY <1>1, <1>2, <2>2, <2>3, <2>4, <2>6, <3>1, Quietly, Zenon
  <2>7. QED
    BY <2>1, <2>5, <2>6
<1>9. CASE sentGoAway[Node]
  <2>1. OpenVerdict(e, f) = "OPEN after GOAWAY"
    BY <1>3, <1>9 DEF OpenVerdict
  <2>2. Poison(e, "OPEN after GOAWAY")
    BY <2>1 DEF ReceiveOpen
  <2>3. /\ failed' = [failed EXCEPT ![Node] = "OPEN after GOAWAY"] /\ net' = Rest(e)
        /\ UNCHANGED <<streams, locallyClosed, st, nextStreamId, nextPeerStreamId,
                       sentGoAway, receivedGoAway, used, sent, got, reported, seen>>
    BY <1>3, <2>2 DEF Poison
  <2>4. /\ failed'[Node] = "OPEN after GOAWAY" /\ failed'[Controller] = failed[Controller]
    BY <1>1, <1>3, <2>3 DEF RestTyped
  <2>5. /\ FramesSane' /\ \A j \in Ids : StreamOk(j)'
        /\ \A x \in Ends, j \in Ids : NoFrame(net[Peer(x)], j) => NoFrame(net'[Peer(x)], j)
        /\ \A x \in Ends, j \in Ids : Live(x, j)' <=> Live(x, j)
    BY <1>8, <2>3
  <2>6. Known'
    BY <1>1, <2>3, <2>5 DEF Known, Unseen
  <2>7. NoneFailed'
    BY <1>1, <1>9, <2>3, <2>4 DEF NoneFailed
  <2>8. OpensReadable'
    BY <2>4 DEF OpensReadable
  <2>9. QED
    BY <2>5, <2>6, <2>7, <2>8 DEF HonestInv
<1>10. CASE ~sentGoAway[Node]
  <2>1. OpenVerdict(e, f) = "ok"
    BY <1>3, <1>6, <1>7, <1>10 DEF OpenVerdict
  <2>2. /\ nextPeerStreamId' = n + 1 /\ net' = Rest(e)
        /\ streams' = [streams EXCEPT ![Node] = @ \cup {n}]
        /\ st' = [st EXCEPT ![Node][n] = FreshStream]
        /\ UNCHANGED <<locallyClosed, nextStreamId, sentGoAway, receivedGoAway,
                       failed, used, sent, got, reported, seen>>
    BY <1>3, <1>6, <2>1 DEF ReceiveOpen
  <2>3. st' = st
    <3>1. st[Node][n] = FreshStream
      BY <1>1, <1>3, <1>4, <1>6 DEF Known, Unseen
    <3>2. QED
      BY <1>1, <2>2, <3>1 DEF StreamsTyped
  <2>4. /\ FramesSane' /\ \A j \in Ids : StreamOk(j)'
        /\ \A x \in Ends, j \in Ids : NoFrame(net[Peer(x)], j) => NoFrame(net'[Peer(x)], j)
        /\ \A x \in Ends, j \in Ids : Live(x, j)' <=> Live(x, j)
    BY <1>8, <2>2, <2>3
  <2>5. Known'
    <3>1. nextPeerStreamId' <= nextStreamId' /\ locallyClosed'[Controller] = {}
      BY <1>1, <1>4, <1>6, <2>2 DEF Known
    <3>2. streams'[Node] = streams[Node] \cup {n} /\ streams'[Controller] = streams[Controller]
      BY <1>1, <1>3, <2>2 DEF StreamsTyped
    <3>3. n \notin locallyClosed[Node]
      BY <1>1, <1>3, <1>4, <1>6 DEF IdsInOrder
    <3>4. ASSUME NEW x \in Ends, NEW j \in Ids
          PROVE  j \in streams'[x] <=> j < Unseen(x)' /\ Live(x, j)'
      <4>1. /\ j \in streams[x] <=> j < Unseen(x) /\ Live(x, j)
            /\ Live(x, j)' <=> Live(x, j)
        BY <1>1, <2>4 DEF Known
      <4>2. CASE x = Controller
        <5>1. Unseen(x)' = Unseen(x) /\ streams'[x] = streams[x]
          BY <2>2, <3>2, <4>2 DEF Unseen
        <5>2. QED
          BY <4>1, <5>1
      <4>3. CASE x = Node
        <5>1. j \in Nat /\ (j < n + 1 <=> j < n \/ j = n)
          BY <1>3, <1>4
        <5>2. Unseen(x) = n /\ Unseen(x)' = n + 1 /\ streams'[x] = streams[x] \cup {n}
          BY <1>3, <2>2, <3>2, <4>3 DEF Unseen
        <5>3. j = n => Live(x, j)
          BY <1>3, <3>3, <4>3 DEF Live
        <5>4. QED
          BY <4>1, <5>1, <5>2, <5>3
      <4>4. QED
        BY <1>3, <4>2, <4>3
    <3>5. ASSUME NEW x \in Ends, NEW j \in Ids, j >= Unseen(x)'
          PROVE  st'[x][j] = FreshStream /\ NoFrame(net'[Peer(x)], j)
      <4>1. j >= Unseen(x)
        <5>1. j \in Nat
          BY <1>3
        <5>2. CASE x = Controller
          BY <2>2, <3>5, <5>2 DEF Unseen
        <5>3. CASE x = Node
          BY <1>3, <1>4, <2>2, <3>5, <5>1, <5>3 DEF Unseen
        <5>4. QED
          BY <1>3, <5>2, <5>3
      <4>2. st[x][j] = FreshStream /\ NoFrame(net[Peer(x)], j)
        BY <1>1, <4>1 DEF Known
      <4>3. QED
        BY <2>3, <2>4, <4>2
    <3>6. QED
      BY <3>1, <3>4, <3>5 DEF Known
  <2>6. OpensReadable'
    <3>1. net'[Node] = Tail(net[Node])
      BY <1>1, <1>3, <2>2, Taken
    <3>2. QED
      BY <1>6, <1>7, <2>2, <3>1 DEF OpensReadable
  <2>7. NoneFailed'
    BY <1>1, <2>2 DEF NoneFailed
  <2>8. QED
    BY <2>4, <2>5, <2>6, <2>7 DEF HonestInv
<1>11. QED
  BY <1>9, <1>10

\* A frame of a stream that an honest end receives: its id was opened there, and
\* if the stream is over there then because the node sent its EXIT.
LEMMA HeadOfStream ==
    ASSUME SessionInv, HonestInv, NEW e \in Ends, net[e] # <<>>, failed[e] = "no",
           NEW f, f = Head(net[e]), f.type \in StreamFrame
    PROVE  /\ f.id \in Ids /\ f.id # 0 /\ f = net[e][1] /\ SaneAt(e, f) /\ f \in WireFrame
           /\ f.id < Unseen(e) /\ StreamOk(f.id)
           /\ f.id \in streams[e] <=> Live(e, f.id)
           /\ f.id \in locallyClosed[e] <=> ~Live(e, f.id)
           /\ e = Controller => Live(Controller, f.id)
           /\ Lane(f.id, net[e], net[Peer(e)], st[Peer(e)][f.id], st[e][f.id], Live(Peer(e), f.id), Live(e, f.id))
           /\ Lane(f.id, net[Peer(e)], net[e], st[e][f.id], st[Peer(e)][f.id], Live(e, f.id), Live(Peer(e), f.id))
<1> DEFINE id == f.id
           p == Peer(e)
<1>1. /\ StreamsTyped /\ RestTyped /\ FramesSane /\ OpensReadable /\ Known /\ IdsInOrder
  BY DEF SessionInv, Typed, HonestInv
<1>2. f = net[e][1] /\ SaneAt(e, f) /\ net[e] \in Seq(WireFrame) /\ 1 \in 1 .. Len(net[e]) /\ f \in WireFrame
  BY <1>1, Taken
<1>3. /\ id \in Ids /\ id # 0 /\ id \in Nat /\ p \in Ends /\ Peer(p) = e
      /\ (e = Node /\ p = Controller) \/ (e = Controller /\ p = Node)
      /\ Node # Controller
      /\ Node \in Ends /\ Controller \in Ends
  BY <1>2, TwoEnds, Constant DEF SaneAt, Sane, StreamFrame
<1> HIDE DEF id, p
<1>4. ~NoFrame(net[e], id)
  BY <1>2 DEF NoFrame, id
<1>5. nextPeerStreamId \in Nat /\ nextPeerStreamId > 0 /\ nextStreamId \in Nat /\ nextPeerStreamId <= nextStreamId
  BY <1>1, Constant DEF RestTyped, Known
<1>6. id < Unseen(e)
  <2>1. CASE e = Node
    <3>1. OpensInOrder(net[Node], nextPeerStreamId, nextStreamId)
      BY <1>1, <2>1 DEF OpensReadable
    <3>2. \A i \in 1 .. Len(net[Node]) : net[Node][i].type = "OPEN" => net[Node][i].id \in Ids
      BY <1>1, <1>3 DEF FramesSane, SaneAt, Sane
    <3>3. net[Node][1].type # "OPEN" /\ net[Node][1].id = id /\ net[Node] # <<>>
      BY <1>2, <2>1 DEF StreamFrame, id
    <3>4. id < nextPeerStreamId
      BY <1>2, <1>5, <2>1, <3>1, <3>2, <3>3, OpensTail
    <3>5. QED
      BY <1>3, <2>1, <3>4 DEF Unseen
  <2>2. CASE e = Controller
    <3>1. id >= nextPeerStreamId => NoFrame(net[Peer(Node)], id)
      BY <1>1, <1>3, <2>2 DEF Known, Unseen
    <3>2. id < nextPeerStreamId
      BY <1>3, <1>4, <1>5, <2>2, <3>1
    <3>3. QED
      BY <1>3, <1>5, <2>2, <3>2 DEF Unseen
  <2>3. QED
    BY <1>3, <2>1, <2>2
<1>7. StreamOk(id) /\ (id \in streams[e] <=> Live(e, id))
  BY <1>1, <1>3, <1>6 DEF HonestInv, Known
<1>8. e = Controller => Live(Controller, id)
  <2> SUFFICES ASSUME e = Controller, seen[id] # None PROVE FALSE
    BY DEF Live
  <2>1. NoFrame(net[Controller], id)
    BY <1>7 DEF StreamOk, OutputOf, ExitOk
  <2>2. QED
    BY <1>4, <2>1
<1>9. id \in locallyClosed[e] <=> ~Live(e, id)
  <2>1. CASE e = Node
    BY <1>3, <2>1 DEF Live
  <2>2. CASE e = Controller
    BY <1>1, <1>8, <2>2 DEF Known
  <2>3. QED
    BY <1>3, <2>1, <2>2
<1>10. /\ Lane(id, net[e], net[p], st[p][id], st[e][id], Live(p, id), Live(e, id))
       /\ Lane(id, net[p], net[e], st[e][id], st[p][id], Live(e, id), Live(p, id))
  <2>1. LaneFrom(e, id) /\ LaneFrom(p, id)
    BY <1>3, <1>7 DEF StreamOk
  <2>2. Lane(id, net[p], net[e], st[e][id], st[p][id], Live(e, id), Live(p, id))
    BY <2>1 DEF LaneFrom, p
  <2>3. Lane(id, net[e], net[p], st[p][id], st[e][id], Live(p, id), Live(e, id))
    BY <1>3, <2>1 DEF LaneFrom, Live
  <2>4. QED
    BY <2>2, <2>3
<1>11. QED
  BY <1>2, <1>3, <1>6, <1>7, <1>8, <1>9, <1>10 DEF id, p

LEMMA ReceiveWindowUpdateHonest ==
    ASSUME SessionInv, SessionInv', HonestInv, UNCHANGED load, NEW e \in Ends, ReceiveWindowUpdate(e)
    PROVE  HonestInv'
<1>head. PICK f : f = Head(net[e])
  OBVIOUS
<1>stream. PICK id : id = f.id
  OBVIOUS
<1> DEFINE p == Peer(e)
           le == Live(e, id)
           lp == Live(p, id)
           s == [st[e][id] EXCEPT !.sendCredit = @ + f.value]
<1>1. /\ StreamsTyped /\ RestTyped /\ FramesSane /\ Known
      /\ net[e] # <<>> /\ f.type = "WINDOW_UPDATE" /\ f.type \in StreamFrame /\ failed[e] = "no"
  BY <1>head DEF SessionInv, Typed, HonestInv, ReceiveWindowUpdate, Arrived, Usable, StreamFrame
<1>2. /\ id \in Ids /\ id # 0 /\ f = net[e][1] /\ SaneAt(e, f)
      /\ id < Unseen(e) /\ StreamOk(id)
      /\ id \in streams[e] <=> le
      /\ id \in locallyClosed[e] <=> ~le
      /\ e = Controller => le
      /\ Lane(id, net[e], net[p], st[p][id], st[e][id], lp, le)
      /\ Lane(id, net[p], net[e], st[e][id], st[p][id], le, lp)
  <2>1. /\ f.id \in Ids /\ f.id # 0 /\ f = net[e][1] /\ SaneAt(e, f)
        /\ f.id < Unseen(e) /\ StreamOk(f.id)
        /\ f.id \in streams[e] <=> Live(e, f.id)
        /\ f.id \in locallyClosed[e] <=> ~Live(e, f.id)
        /\ e = Controller => Live(Controller, f.id)
        /\ Lane(f.id, net[e], net[p], st[p][f.id], st[e][f.id], Live(p, f.id), Live(e, f.id))
        /\ Lane(f.id, net[p], net[e], st[e][f.id], st[p][f.id], Live(e, f.id), Live(p, f.id))
    BY <1>1, <1>head, HeadOfStream
  <2>2. QED
    BY <1>stream, <2>1 DEF Live
<1>3. f.value \in 1 .. Window /\ f.value \in 1 .. MaxWindow
  BY <1>1, <1>2, Constant DEF SaneAt, Sane
<1>4. /\ net[e] \in Seq(WireFrame) /\ net[p] \in Seq(WireFrame) /\ st[e][id] \in StreamType
      /\ st[p][id] \in StreamType /\ p \in Ends /\ p # e /\ StatusKnown(st[e][id])
      /\ Node \in Ends /\ Controller \in Ends /\ Node # Controller
      /\ (e = Node /\ p = Controller) \/ (e = Controller /\ p = Node)
      /\ Peer(p) = e /\ \A x \in Ends : x = e \/ x = p
  BY <1>1, <1>2, TwoEnds, Records
<1> HIDE DEF p, le, lp, s
<1>5. IsCredit(net[e][1], id) /\ ~IsUnit(net[e][1], id) /\ net[e][1].value = f.value
  BY <1>1, <1>2, <1>stream DEF IsCredit, IsUnit
<1>6. CreditOn(net[e], id) = CreditOn(Tail(net[e]), id) + f.value /\ CreditOn(Tail(net[e]), id) \in Nat
  <2>1. Tail(net[e]) \in Seq(WireFrame)
    BY <1>1, <1>4, TailIndex
  <2>2. net[e][1].value \in 1 .. MaxWindow
    BY <1>3, <1>5
  <2>3. QED
    BY <1>1, <1>4, <1>5, <2>1, <2>2, CreditTail, WireCounts
<1>7. SameData(Tail(net[e]), net[e], id)
  BY <1>1, <1>4, <1>5, TailData
<1>8. st[p][id].sendEndPending => st[p][id].localDataClosed
  BY <1>2 DEF Lane, HalfClose
<1>9. CASE ~le
  <2>1. UpdateVerdict(e, f) = "crossing" /\ e = Node
    <3>1. f.id \in locallyClosed[e] /\ f.id # 0 /\ f.value # 0
      <4>1. f.id \in locallyClosed[e] /\ f.id # 0
        BY <1>2, <1>9, <1>stream, Zenon
      <4>2. f.value # 0
        BY <1>3
      <4>3. QED
        BY <4>1, <4>2
    <3>2. e # Controller
      BY <1>2, <1>9, Zenon
    <3>3. QED
      BY <1>4, <3>1, <3>2, Zenon DEF UpdateVerdict
  <2>2. net' = Rest(e) /\ UNCHANGED <<sessionVars, used, sent, got, reported, seen>>
    BY <1>head, <2>1 DEF ReceiveWindowUpdate
  <2>3. /\ st' = [st EXCEPT ![e][id] = st[e][id]]
        /\ UNCHANGED <<streams, locallyClosed, nextStreamId, nextPeerStreamId, seen>>
        /\ UNCHANGED <<sentGoAway, receivedGoAway, failed, sent, got, reported>>
    BY <1>1, <1>2, <2>2 DEF StreamsTyped, sessionVars
  <2>4. /\ Alone(e, id) /\ st'[e][id] = st[e][id] /\ st'[p][id] = st[p][id]
        /\ \A x \in Ends : Live(x, id)' <=> Live(x, id)
    <3>1. \A j \in Ids : j # id =>
             /\ sent'[Node][j] = sent[Node][j] /\ got'[Controller][j] = got[Controller][j]
             /\ reported'[j] = reported[j]
      BY <2>3
    <3>2. PICK t : t = st[e][id]
      OBVIOUS
    <3>3. st' = [st EXCEPT ![e][id] = t]
      BY <2>3, <3>2
    <3>4. /\ Alone(e, id) /\ st'[e][id] = t /\ st'[Peer(e)][id] = st[Peer(e)][id]
          /\ \A x \in Ends : Live(x, id)' <=> Live(x, id)
      <4>1. StreamsTyped /\ Known /\ id \in Ids /\ id < Unseen(e)
        BY <1>1, <1>2
      <4>2. UNCHANGED <<streams, locallyClosed, nextStreamId, nextPeerStreamId, seen>>
        BY <2>3
      <4>3. QED
        BY <3>1, <3>3, <4>1, <4>2, RecordAlone
    <3>5. QED
      BY <3>2, <3>4 DEF p
  <2>5. Wires(e, TRUE, <<>>) /\ net'[e] = Tail(net[e]) /\ net'[p] = net[p]
    BY <1>1, <2>2, Taken DEF p
  <2>6. Lane(id, net[p], Tail(net[e]), st[e][id], st[p][id], le, lp)
    BY <1>1, <1>2, <1>3, <1>4, <1>5, <1>9, LaneCredited
  <2>7. Lane(id, Tail(net[e]), net[p], st[p][id], st[e][id], lp, le)
    BY <1>2, <1>7, <1>8, LaneAlike
  <2>8. StreamOk(id)'
    <3>1. \A x \in Ends : LaneFrom(x, id)'
      BY <1>4, <2>4, <2>5, <2>6, <2>7 DEF LaneFrom, Live, le, lp, p
    <3>2. OutputOf(id)'
      <4>1. OutputOf(id)
        BY <1>2 DEF StreamOk
      <4>2. QED
        BY <1>4, <2>1, <2>3, <2>4, <2>5, <4>1 DEF OutputOf, Live
    <3>3. StdinOnly(st'[Controller][id])
      BY <1>2, <1>4, <2>4 DEF StreamOk
    <3>4. QED
      BY <3>1, <3>2, <3>3 DEF StreamOk
  <2>9. <<>> \in Seq(WireFrame) /\ \A k \in 1 .. Len(<<>>) : FALSE
    BY <1>1, Taken
  <2>10. net[e][1].id = id /\ net[e][1].type \in StreamFrame
    BY <1>1, <1>2, <1>stream
  <2>11. QED
    BY <1>2, <2>3, <2>4, <2>5, <2>8, <2>9, <2>10, OwnStep
<1>10. CASE le
  <2>1. st[e][id].sendCredit + f.value <= Window /\ st[e][id].sendCredit \in Nat
    <3>1. st[e][id].sendCredit + CreditOn(net[e], id) <= Window
      BY <1>2, <1>10 DEF Lane, Credit, Balanced
    <3>2. st[e][id].sendCredit \in 0 .. MaxWindow
      BY <1>4 DEF StreamType
    <3> DEFINE a == st[e][id].sendCredit
               c == CreditOn(Tail(net[e]), id)
               d == CreditOn(net[e], id)
    <3>3. a \in Nat /\ c \in Nat /\ f.value \in Nat /\ d = c + f.value /\ a + d <= Window /\ Window \in Nat
      BY <1>3, <1>6, <3>1, <3>2, Constant
    <3> HIDE DEF a, c, d
    <3>4. a + f.value <= Window
      BY <3>3
    <3>5. QED
      BY <3>3, <3>4 DEF a
  <2>2. UpdateVerdict(e, f) = "ok" /\ id \in streams[e]
    <3>1. ~(st[e][id].sendCredit + f.value > MaxWindow)
      BY <1>3, <2>1, Constant
    <3>2. f.value # 0
      BY <1>3
    <3>3. QED
      BY <1>2, <1>10, <1>stream, <3>1, <3>2 DEF UpdateVerdict
  <2>3. /\ FlushStream(e, id, s, Rest(e))
        /\ UNCHANGED <<nextStreamId, nextPeerStreamId, sentGoAway,
                       receivedGoAway, failed, used, sent, got, reported, seen>>
    BY <1>head, <1>stream, <2>2 DEF ReceiveWindowUpdate, s
  <2>4. /\ s.sendCredit = st[e][id].sendCredit + f.value /\ s.queue = st[e][id].queue
        /\ s.sendEndPending = st[e][id].sendEndPending /\ s.localDataClosed = st[e][id].localDataClosed
        /\ s.peerDataClosed = st[e][id].peerDataClosed /\ s.outstanding = st[e][id].outstanding
        /\ s.pendingUpdate = st[e][id].pendingUpdate
        /\ s.exitPending = st[e][id].exitPending /\ s.exitStatus = st[e][id].exitStatus
    BY <1>4 DEF StreamType, s
  <2>5. s \in StreamType /\ StatusKnown(s)
    <3>1. st[e][id].sendCredit + f.value \in 0 .. MaxWindow
      BY <1>3, <2>1, Constant
    <3>2. QED
      BY <1>4, <3>1 DEF StreamType, StatusKnown, s
  <2>6. Lane(id, net[p], Tail(net[e]), s, st[p][id], le, lp)
    <3>1. s.sendCredit = st[e][id].sendCredit + net[e][1].value /\ net[e][1].value \in 1 .. MaxWindow
      BY <1>3, <1>5, <2>4
    <3>2. QED
      BY <1>1, <1>2, <1>4, <1>5, <2>4, <3>1, LaneCredited
  <2>7. Lane(id, Tail(net[e]), net[p], st[p][id], s, lp, le)
    BY <1>2, <1>7, <1>8, <2>4, LaneAlike
  <2>8. e = Controller => StdinOnly(s) /\ reported' = reported /\ sent'[Node] = sent[Node]
    BY <1>2, <2>3, <2>4 DEF StreamOk, StdinOnly
  <2>9. ASSUME e = Node
        PROVE  /\ ExitOk(id, net[Controller], s, Live(Node, id), reported'[id], seen[id])
               /\ Conserves(sent'[Node][id], got[Controller][id], net[Controller], id, s.queue)
    BY <1>2, <2>3, <2>4, <2>9 DEF StreamOk, OutputOf, ExitOk
  <2>10. FlushStream(e, id, s, IF TRUE THEN Rest(e) ELSE net)
    BY <2>3
  <2>11. Tail(net[e]) = (IF TRUE THEN Tail(net[e]) ELSE net[e])
    OBVIOUS
  <2>12. /\ Lane(id, net[p], Tail(net[e]), s, st[p][id], Live(e, id), Live(p, id))
         /\ Lane(id, Tail(net[e]), net[p], st[p][id], s, Live(p, id), Live(e, id)) /\ p = Peer(e)
    BY <2>6, <2>7 DEF le, lp, p
  <2>13. /\ net[e] # <<>> /\ net[e][1].id = id /\ net[e][1].type = "WINDOW_UPDATE"
         /\ UNCHANGED <<load, nextStreamId, nextPeerStreamId, sentGoAway, receivedGoAway, failed, got, seen>>
         /\ \A j \in Ids : j # id => sent'[Node][j] = sent[Node][j] /\ reported'[j] = reported[j]
    BY <1>1, <1>2, <1>stream, <2>3
  <2>14. QED
    BY <1>2, <2>2, <2>5, <2>8, <2>9, <2>10, <2>11, <2>12, <2>13, FlushStep
<1>11. QED
  BY <1>9, <1>10

LEMMA ReceiveExitHonest ==
    ASSUME SessionInv, SessionInv', HonestInv, UNCHANGED load, NEW e \in Ends, ReceiveExit(e)
    PROVE  HonestInv'
<1>head. PICK f : f = Head(net[e])
  OBVIOUS
<1>stream. PICK id : id = f.id
  OBVIOUS
<1>1. /\ StreamsTyped /\ RestTyped /\ FramesSane /\ Known
      /\ net[e] # <<>> /\ f.type = "EXIT" /\ f.type \in StreamFrame /\ failed[e] = "no"
  BY <1>head DEF SessionInv, Typed, HonestInv, ReceiveExit, Arrived, Usable, StreamFrame
<1>2. /\ f.id \in Ids /\ f.id # 0 /\ f = net[e][1] /\ SaneAt(e, f) /\ f \in WireFrame
      /\ f.id < Unseen(e) /\ StreamOk(f.id)
      /\ f.id \in streams[e] <=> Live(e, f.id)
      /\ e = Controller => Live(Controller, f.id)
      /\ Lane(f.id, net[e], net[Peer(e)], st[Peer(e)][f.id], st[e][f.id], Live(Peer(e), f.id), Live(e, f.id))
      /\ Lane(f.id, net[Peer(e)], net[e], st[e][f.id], st[Peer(e)][f.id], Live(e, f.id), Live(Peer(e), f.id))
  BY <1>head, <1>1, HeadOfStream
<1>3. /\ e = Controller /\ Peer(e) = Node /\ Peer(Node) = Controller /\ Node # Controller
      /\ Node \in Ends /\ Controller \in Ends /\ \A x \in Ends : x = Node \/ x = Controller
  BY <1>1, <1>2, TwoEnds DEF SaneAt
<1>4. /\ id \in Ids /\ id # 0 /\ f = net[Controller][1] /\ net[Controller] # <<>> /\ f \in WireFrame
      /\ id < Unseen(Controller) /\ StreamOk(id) /\ id \in streams[Controller] /\ Live(Controller, id)
      /\ Lane(id, net[Controller], net[Node], st[Node][id], st[Controller][id], Live(Node, id), Live(Controller, id))
      /\ Lane(id, net[Node], net[Controller], st[Controller][id], st[Node][id], Live(Controller, id), Live(Node, id))
  BY <1>1, <1>2, <1>3, <1>stream
<1>5. /\ streams' = [streams EXCEPT ![Controller] = @ \ {id}]
      /\ st' = [st EXCEPT ![Controller][id] = FreshStream]
      /\ seen' = [seen EXCEPT ![id] = f.value]
      /\ net' = Rest(Controller)
      /\ UNCHANGED <<locallyClosed, nextStreamId, nextPeerStreamId, sentGoAway,
                     receivedGoAway, failed, used, sent, got, reported>>
  <2>1. ExitVerdict(e, f) = "ok"
    BY <1>3, <1>4, <1>stream DEF ExitVerdict
  <2>2. QED
    BY <1>head, <1>stream, <1>3, <2>1 DEF ReceiveExit
<1>6. /\ net[Controller] \in Seq(WireFrame) /\ 1 \in 1 .. Len(net[Controller])
      /\ Wires(e, TRUE, <<>>) /\ net'[Controller] = Tail(net[Controller]) /\ net'[Node] = net[Node]
      /\ <<>> \in Seq(WireFrame) /\ \A k \in 1 .. Len(<<>>) : FALSE
  <2>1. net' = Rest(e)
    BY <1>3, <1>5
  <2>2. QED
    BY <1>1, <1>3, <2>1, Taken
<1>7. IsExit(net[Controller][1], id)
  BY <1>1, <1>4, <1>stream DEF IsExit
<1>8. OutputOf(id) /\ ExitOk(id, net[Controller], st[Node][id], Live(Node, id), reported[id], seen[id])
  BY <1>4 DEF StreamOk, OutputOf
<1>9. f.value = reported[id] /\ f.value # None /\ ~Live(Node, id)
  <2>1. f.value \in Statuses
    BY <1>1, <1>4 DEF WireFrame
  <2>2. f.value = reported[id] /\ ~Live(Node, id)
    BY <1>4, <1>6, <1>7, <1>8, Zenon DEF ExitOk, ExitLast, NoExit
  <2>3. QED
    BY <2>1, <2>2, Constant
<1>10. NoFrame(Tail(net[Controller]), id)
  <2>1. \A j \in 1 .. Len(net[Controller]) : 1 < j => net[Controller][j].id # id
    BY <1>6, <1>7, <1>8, Zenon DEF ExitOk, ExitLast
  <2>2. \A i \in 1 .. Len(Tail(net[Controller])) :
           i + 1 \in 1 .. Len(net[Controller]) /\ Tail(net[Controller])[i] = net[Controller][i + 1] /\ 1 < i + 1
    BY <1>4, <1>6, TailIndex
  <2>3. QED
    BY <2>1, <2>2, Zenon DEF NoFrame
<1>11. /\ SameExit(Tail(net[Controller]), net[Controller], id)
       /\ SamePayload(Tail(net[Controller]), net[Controller], id)
       /\ SameFlow(Tail(net[Controller]), net[Controller], id)
  <2>1. ~IsUnit(net[Controller][1], id) /\ Aside(net[Controller][1], id)
    BY <1>7 DEF IsUnit, IsExit, Aside, IsData, IsCredit
  <2>2. QED
    BY <1>4, <1>6, <2>1, TailExit, TailPayload, TailFlow
<1>12. /\ \A x \in Ends, j \in Ids : st'[x][j] = IF x = Controller /\ j = id THEN FreshStream ELSE st[x][j]
       /\ \A j \in Ids : seen'[j] = IF j = id THEN f.value ELSE seen[j]
       /\ streams'[Controller] = streams[Controller] \ {id} /\ streams'[Node] = streams[Node]
  BY <1>1, <1>3, <1>4, <1>5 DEF StreamsTyped, RestTyped
<1>13. ~Live(Controller, id)' /\ ~Live(Node, id)'
  BY <1>3, <1>4, <1>5, <1>9, <1>12 DEF Live
<1>14. \A x \in Ends, j \in Ids : (x # Controller \/ j # id) => (Live(x, j)' <=> Live(x, j))
  BY <1>3, <1>5, <1>12 DEF Live
<1>15. Alone(e, id)
  <2>1. \A x \in Ends, j \in Ids : (x # Controller \/ j # id) =>
           /\ st'[x][j] = st[x][j]
           /\ j \in streams'[x] <=> j \in streams[x]
           /\ Live(x, j)' <=> Live(x, j)
    BY <1>3, <1>12, <1>14
  <2>2. locallyClosed'[Controller] = {}
    BY <1>1, <1>5 DEF Known
  <2>3. \A j \in Ids : j # id =>
           /\ sent'[Node][j] = sent[Node][j] /\ got'[Controller][j] = got[Controller][j]
           /\ reported'[j] = reported[j] /\ seen'[j] = seen[j]
    BY <1>5, <1>12
  <2>4. id \in streams'[Controller] <=> Live(Controller, id)'
    BY <1>12, <1>13
  <2>5. QED
    BY <1>3, <1>5, <2>1, <2>2, <2>3, <2>4 DEF Alone, Live
<1>16. LaneFrom(Node, id)'
  <2>1. /\ st[Node][id].sendEndPending => st[Node][id].localDataClosed
        /\ EndLast(net[Controller], id)
    BY <1>4 DEF Lane, HalfClose
  <2>2. EndLast(Tail(net[Controller]), id)
    BY <1>4, <1>6, <2>1, TailOrder
  <2>3. st'[Node][id] = st[Node][id] /\ st'[Controller][id] = FreshStream /\ ~FreshStream.peerDataClosed
    BY <1>3, <1>4, <1>12 DEF FreshStream
  <2>4. Lane(id, net'[Controller], net'[Node], st'[Node][id], st'[Controller][id], Live(Node, id)', Live(Controller, id)')
    BY <1>6, <1>13, <2>1, <2>2, <2>3 DEF Lane, HalfClose, Credit, Balanced
  <2>5. QED
    BY <1>3, <2>4 DEF LaneFrom, Live
<1>17. LaneFrom(Controller, id)'
  <2>1. SameData(net[Node], net[Node], id) /\ CreditOn(Tail(net[Controller]), id) = CreditOn(net[Controller], id)
    BY <1>11, SameRefl DEF SameFlow
  <2>2. st'[Node][id] = st[Node][id] /\ st'[Controller][id] = FreshStream /\ ~FreshStream.sendEndPending
    BY <1>3, <1>4, <1>12 DEF FreshStream
  <2>3. Lane(id, net[Node], Tail(net[Controller]), FreshStream, st[Node][id], FALSE, FALSE)
    BY <1>4, <2>1, <2>2, LaneAlike
  <2>4. Lane(id, net'[Node], net'[Controller], st'[Controller][id], st'[Node][id], Live(Controller, id)', Live(Node, id)')
    BY <1>6, <1>13, <2>2, <2>3 DEF Lane, HalfClose, Credit, Balanced
  <2>5. QED
    BY <1>3, <2>4 DEF LaneFrom, Live
<1>18. OutputOf(id)'
  <2>1. st'[Node][id] = st[Node][id] /\ seen'[id] = f.value
    BY <1>3, <1>4, <1>12
  <2>2. ExitOk(id, net'[Controller], st'[Node][id], Live(Node, id)', reported'[id], seen'[id])
    BY <1>5, <1>6, <1>8, <1>9, <1>10, <1>11, <1>13, <2>1 DEF ExitOk, SameExit
  <2>3. Conserves(sent'[Node][id], got'[Controller][id], net'[Controller], id, st'[Node][id].queue)
    BY <1>5, <1>6, <1>8, <1>11, <2>1 DEF OutputOf, SamePayload
  <2>4. QED
    BY <2>2, <2>3 DEF OutputOf
<1>19. StdinOnly(st'[Controller][id])
  BY <1>3, <1>4, <1>12 DEF StdinOnly, FreshStream
<1>20. StreamOk(id)'
  BY <1>3, <1>16, <1>17, <1>18, <1>19 DEF StreamOk
<1>21. net[e][1].id = id /\ net[e][1].type \in StreamFrame /\ id < Unseen(e)
  BY <1>1, <1>2, <1>stream
<1>22. UNCHANGED <<sentGoAway, receivedGoAway, failed>>
  BY <1>5
<1>23. QED
  BY <1>4, <1>6, <1>15, <1>20, <1>21, <1>22, OwnStep

LEMMA ReceiveDataHonest ==
    ASSUME SessionInv, SessionInv', HonestInv, UNCHANGED load, NEW e \in Ends, ReceiveData(e)
    PROVE  HonestInv'
<1>head. PICK f : f = Head(net[e])
  OBVIOUS
<1>stream. PICK id : id = f.id
  OBVIOUS
<1> DEFINE p == Peer(e)
           le == Live(e, id)
           lp == Live(p, id)
           s == st[e][id]
<1>1. /\ StreamsTyped /\ RestTyped /\ FramesSane /\ Known /\ StreamsTyped' /\ RestTyped'
      /\ net[e] # <<>> /\ f.type = "DATA" /\ f.type \in StreamFrame /\ failed[e] = "no"
  BY <1>head DEF SessionInv, Typed, HonestInv, ReceiveData, Arrived, Usable, StreamFrame
<1>2. /\ id \in Ids /\ id # 0 /\ f = net[e][1] /\ SaneAt(e, f) /\ f \in WireFrame
      /\ id < Unseen(e) /\ StreamOk(id)
      /\ id \in streams[e] <=> le
      /\ id \in locallyClosed[e] <=> ~le
      /\ e = Controller => le
      /\ Lane(id, net[e], net[p], st[p][id], s, lp, le)
      /\ Lane(id, net[p], net[e], s, st[p][id], le, lp)
  <2>1. /\ f.id \in Ids /\ f.id # 0 /\ f = net[e][1] /\ SaneAt(e, f) /\ f \in WireFrame
        /\ f.id < Unseen(e) /\ StreamOk(f.id)
        /\ f.id \in streams[e] <=> Live(e, f.id)
        /\ f.id \in locallyClosed[e] <=> ~Live(e, f.id)
        /\ e = Controller => Live(Controller, f.id)
        /\ Lane(f.id, net[e], net[p], st[p][f.id], st[e][f.id], Live(p, f.id), Live(e, f.id))
        /\ Lane(f.id, net[p], net[e], st[e][f.id], st[p][f.id], Live(e, f.id), Live(p, f.id))
    BY <1>1, <1>head, HeadOfStream
  <2>2. QED
    BY <1>stream, <2>1 DEF Live
<1>3. /\ f.units \in {0, 1} /\ f.ch \in Channels /\ f.end \in BOOLEAN /\ (e = Node => f.ch = "stdout")
  BY <1>1, <1>2 DEF SaneAt, Sane, WireFrame, FrameType
<1>4. /\ net[e] \in Seq(WireFrame) /\ net[p] \in Seq(WireFrame) /\ s \in StreamType
      /\ st[p][id] \in StreamType /\ p \in Ends /\ p # e
      /\ Node \in Ends /\ Controller \in Ends /\ Node # Controller
      /\ (e = Node /\ p = Controller) \/ (e = Controller /\ p = Node)
      /\ Peer(p) = e /\ \A x \in Ends : x = e \/ x = p
      /\ 1 \in 1 .. Len(net[e])
  BY <1>1, <1>2, TwoEnds, Records, Taken
<1> HIDE DEF p, le, lp, s
<1>5. IsData(net[e][1], id) /\ (IsUnit(net[e][1], id) <=> f.units = 1) /\ ~IsCredit(net[e][1], id)
  <2>1. net[e][1] = f /\ f.id = id /\ f.type = "DATA"
    BY <1>1, <1>2, <1>stream, Zenon
  <2>2. QED
    BY <1>3, <2>1, SMTT(30) DEF IsData, IsUnit, IsCredit
<1>6. ~s.peerDataClosed
  BY <1>2, <1>4, <1>5 DEF Lane, HalfClose, NoData
<1>7. s.outstanding \in 0 .. Window
  BY <1>4 DEF StreamType
<1>8. le => f.units <= Window - s.outstanding
  <2> SUFFICES ASSUME le PROVE f.units <= Window - s.outstanding
    OBVIOUS
  <2>1. CASE f.units = 0
    BY <1>7, <2>1, Constant
  <2>2. CASE f.units = 1
    <3>1. UnitsOn(net[e], id) = UnitsOn(Tail(net[e]), id) + 1 /\ UnitsOn(Tail(net[e]), id) \in Nat
      BY <1>1, <1>4, <1>5, <2>2, TailUnits
    <3>2. UnitsOn(net[e], id) + s.outstanding + s.pendingUpdate <= Window
      BY <1>2 DEF Lane, Credit, Balanced
    <3>3. s.pendingUpdate \in Nat
      BY <1>4, Constant DEF StreamType
    <3> DEFINE u == UnitsOn(Tail(net[e]), id)
               v == UnitsOn(net[e], id)
    <3>4. u \in Nat /\ v = u + 1 /\ v + s.outstanding + s.pendingUpdate <= Window
      BY <3>1, <3>2
    <3> HIDE DEF u, v
    <3>5. s.outstanding \in Nat /\ Window \in Nat
      BY <1>7, Constant
    <3>6. QED
      BY <2>2, <3>3, <3>4, <3>5
  <2>3. QED
    BY <1>3, <2>1, <2>2
<1>9. DataVerdict(e, f) = IF le THEN "ok" ELSE "crossing"
  <2>1. ~(e = Node /\ f.ch = "stderr")
    BY <1>3
  <2>2. le => ~(f.units > Window - s.outstanding)
    <3>1. Window \in Nat /\ s.outstanding \in Nat /\ f.units \in Nat
      BY <1>3, <1>7, Constant
    <3>2. QED
      BY <1>8, <3>1
  <2>3. QED
    BY <1>2, <1>6, <1>stream, <2>1, <2>2 DEF DataVerdict, s
<1> DEFINE c == s.peerDataClosed \/ f.end
           o == IF le THEN s.outstanding + f.units ELSE s.outstanding
           t == [s EXCEPT !.peerDataClosed = c, !.outstanding = o]
<1>10. /\ st' = [st EXCEPT ![e][id].peerDataClosed = @ \/ f.end,
                           ![e][id].outstanding = IF le THEN @ + f.units ELSE @]
       /\ got' = IF le /\ f.units > 0 THEN [got EXCEPT ![e][id] = Append(@, f.ch)] ELSE got
       /\ net' = Rest(e)
       /\ UNCHANGED <<streams, locallyClosed, nextStreamId, nextPeerStreamId,
                      sentGoAway, receivedGoAway, failed, used, sent, reported, seen>>
  <2>1. CASE le
    <3>1. DataVerdict(e, f) = "ok"
      BY <1>9, <2>1
    <3>2. QED
      BY <1>head, <1>stream, <2>1, <3>1 DEF ReceiveData
  <2>2. CASE ~le
    <3>1. DataVerdict(e, f) = "crossing"
      BY <1>9, <2>2
    <3>2. QED
      BY <1>head, <1>stream, <2>2, <3>1 DEF ReceiveData
  <2>3. QED
    BY <2>1, <2>2
<1>11. st' = [st EXCEPT ![e][id] = t]
  <2>1. st \in [Ends -> [Ids -> StreamType]] /\ id \in Ids
    BY <1>1, <1>2 DEF StreamsTyped
  <2>2. st' = [st EXCEPT ![e][id].peerDataClosed = @ \/ f.end,
                         ![e][id].outstanding = IF le THEN @ + f.units ELSE @]
    BY <1>10
  <2>3. QED
    BY <2>1, <2>2 DEF StreamType, s
<1> HIDE DEF t
<1>12. UNCHANGED <<streams, locallyClosed, nextStreamId, nextPeerStreamId, seen>>
       /\ UNCHANGED <<sentGoAway, receivedGoAway, failed, sent, reported>>
  BY <1>10
<1>13. /\ e = Controller => got'[Controller][id] = (IF f.units = 1 THEN Append(got[Controller][id], f.ch)
                                                    ELSE got[Controller][id])
       /\ e = Node => got'[Controller][id] = got[Controller][id]
       /\ \A j \in Ids : j # id => got'[Controller][j] = got[Controller][j]
  <2>1. got \in [Ends -> [Ids -> Seq(Channels)]] /\ id \in Ids
    BY <1>1, <1>2 DEF RestTyped
  <2>2. (f.units > 0 <=> f.units = 1) /\ (e = Controller => le)
    BY <1>2, <1>3
  <2>3. got' = IF le /\ f.units > 0 THEN [got EXCEPT ![e][id] = Append(@, f.ch)] ELSE got
    BY <1>10, Zenon
  <2>4. e = Controller \/ e = Node
    BY <1>4
  <2>5. QED
    BY <1>4, <2>1, <2>2, <2>3, <2>4, SMTT(30)
<1>14. /\ Alone(e, id) /\ st'[e][id] = t /\ st'[p][id] = st[p][id]
       /\ \A x \in Ends : Live(x, id)' <=> Live(x, id)
  <2>1. StreamsTyped /\ Known /\ id \in Ids /\ id < Unseen(e)
    BY <1>1, <1>2
  <2>2. \A j \in Ids : j # id =>
           /\ sent'[Node][j] = sent[Node][j] /\ got'[Controller][j] = got[Controller][j]
           /\ reported'[j] = reported[j]
    BY <1>12, <1>13
  <2>3. UNCHANGED <<streams, locallyClosed, nextStreamId, nextPeerStreamId, seen>>
    BY <1>12
  <2>4. /\ Alone(e, id) /\ st'[e][id] = t /\ st'[Peer(e)][id] = st[Peer(e)][id]
        /\ \A x \in Ends : Live(x, id)' <=> Live(x, id)
    BY <1>11, <2>1, <2>2, <2>3, RecordAlone
  <2>5. QED
    BY <2>4 DEF p
<1>15. /\ t.peerDataClosed = c /\ t.outstanding = o /\ t.pendingUpdate = s.pendingUpdate
       /\ t.queue = s.queue /\ t.sendCredit = s.sendCredit /\ t.sendEndPending = s.sendEndPending
       /\ t.localDataClosed = s.localDataClosed /\ t.exitPending = s.exitPending /\ t.exitStatus = s.exitStatus
  <2> HIDE DEF c, o
  <2> QED
    BY <1>4 DEF StreamType, t
<1>16. t \in StreamType
  BY <1>1, <1>2, <1>14 DEF StreamsTyped
<1>17. Wires(e, TRUE, <<>>) /\ net'[e] = Tail(net[e]) /\ net'[p] = net[p]
  BY <1>1, <1>10, Taken DEF p
<1>18. Lane(id, Tail(net[e]), net[p], st[p][id], t, lp, le)
  <2>1. /\ net[e][1].units \in {0, 1} /\ t.peerDataClosed = (s.peerDataClosed \/ net[e][1].end)
        /\ le => t.outstanding = s.outstanding + net[e][1].units /\ t.pendingUpdate = s.pendingUpdate
    BY <1>2, <1>3, <1>15
  <2> HIDE DEF c, o
  <2>2. QED
    BY <1>1, <1>2, <1>4, <1>5, <1>16, <2>1, LaneReceived
<1> HIDE DEF c, o
<1>19. Lane(id, net[p], Tail(net[e]), t, st[p][id], le, lp)
  <2>1. CreditOn(Tail(net[e]), id) = CreditOn(net[e], id)
    <3>1. CreditOn(net[e], id) = CreditOn(Tail(net[e]), id) + 0
      BY <1>1, <1>4, <1>5, CreditTail
    <3>2. Tail(net[e]) \in Seq(WireFrame)
      BY <1>1, <1>4, TailIndex
    <3>3. CreditOn(Tail(net[e]), id) \in Nat
      BY <3>2, WireCounts
    <3>4. QED
      BY <3>1, <3>3
  <2>2. SameData(net[p], net[p], id)
    BY SameRefl DEF SameFlow
  <2>3. /\ t.sendEndPending => t.localDataClosed
        /\ CanSend(t) => CanSend(s)
    BY <1>2, <1>15 DEF Lane, HalfClose, CanSend
  <2>4. QED
    BY <1>2, <1>15, <2>1, <2>2, <2>3, LaneAlike
<1>20. \A x \in Ends : LaneFrom(x, id)'
  BY <1>4, <1>14, <1>17, <1>18, <1>19 DEF LaneFrom, Live, le, lp, p
<1>21. OutputOf(id)'
  <2>1. OutputOf(id)
    BY <1>2 DEF StreamOk
  <2>2. CASE e = Node
    <3>1. /\ net'[Controller] = net[Controller] /\ st'[Node][id] = t /\ got'[Controller][id] = got[Controller][id]
          /\ s = st[Node][id]
      BY <1>4, <1>13, <1>14, <1>17, <2>2 DEF s
    <3>2. ExitOk(id, net'[Controller], st'[Node][id], Live(Node, id)', reported'[id], seen'[id])
      BY <1>4, <1>12, <1>14, <1>15, <2>1, <3>1 DEF OutputOf, ExitOk
    <3>3. Conserves(sent'[Node][id], got'[Controller][id], net'[Controller], id, st'[Node][id].queue)
      BY <1>12, <1>15, <2>1, <3>1 DEF OutputOf
    <3>4. QED
      BY <3>2, <3>3 DEF OutputOf
  <2>3. CASE e = Controller
    <3>1. net'[Controller] = Tail(net[Controller]) /\ st'[Node][id] = st[Node][id]
      BY <1>4, <1>14, <1>17, <2>3
    <3>2. SameExit(Tail(net[Controller]), net[Controller], id)
      BY <1>1, <1>4, <2>3, TailExit
    <3>3. ExitOk(id, net'[Controller], st'[Node][id], Live(Node, id)', reported'[id], seen'[id])
      BY <1>4, <1>12, <1>14, <2>1, <3>1, <3>2 DEF OutputOf, ExitOk, SameExit
    <3>4. Conserves(sent[Node][id], got[Controller][id], net[Controller], id, st[Node][id].queue)
      BY <2>1 DEF OutputOf
    <3>5. Conserves(sent[Node][id], got'[Controller][id], Tail(net[Controller]), id, st[Node][id].queue)
      <4>1. CASE f.units = 1
        <5>1. /\ sent[Node][id] \in Seq(Channels) /\ got[Controller][id] \in Seq(Channels)
              /\ net[Controller] \in Seq(WireFrame) /\ net[Controller] # <<>>
              /\ IsUnit(net[Controller][1], id) /\ net[Controller][1].ch \in Channels
          BY <1>1, <1>2, <1>3, <1>4, <1>5, <2>3, <4>1 DEF RestTyped
        <5>2. Conserves(sent[Node][id], Append(got[Controller][id], net[Controller][1].ch),
                        Tail(net[Controller]), id, st[Node][id].queue)
          BY <3>4, <5>1, PayloadReceived
        <5>3. got'[Controller][id] = Append(got[Controller][id], net[Controller][1].ch)
          BY <1>2, <1>13, <2>3, <4>1
        <5>4. QED
          BY <5>2, <5>3
      <4>2. CASE f.units # 1
        <5>1. SamePayload(Tail(net[Controller]), net[Controller], id)
          BY <1>1, <1>4, <1>5, <2>3, <4>2, TailPayload
        <5>2. got'[Controller][id] = got[Controller][id]
          BY <1>13, <2>3, <4>2
        <5>3. QED
          BY <3>4, <5>1, <5>2 DEF SamePayload
      <4>3. QED
        BY <4>1, <4>2
    <3>6. QED
      BY <1>12, <3>1, <3>3, <3>5 DEF OutputOf
  <2>4. QED
    BY <1>4, <2>2, <2>3
<1>22. StdinOnly(st'[Controller][id])
  <2>1. StdinOnly(st[Controller][id])
    BY <1>2 DEF StreamOk
  <2>2. /\ st'[Controller][id].queue = st[Controller][id].queue
        /\ st'[Controller][id].exitPending = st[Controller][id].exitPending
    BY <1>4, <1>14, <1>15 DEF s
  <2>3. QED
    BY <2>1, <2>2 DEF StdinOnly
<1>23. StreamOk(id)'
  BY <1>20, <1>21, <1>22 DEF StreamOk
<1>24. net[e][1].id = id /\ net[e][1].type \in StreamFrame
  BY <1>1, <1>2, <1>stream
<1>25. <<>> \in Seq(WireFrame) /\ \A k \in 1 .. Len(<<>>) : FALSE
  BY <1>1, Taken
<1>26. QED
  BY <1>2, <1>12, <1>14, <1>17, <1>23, <1>24, <1>25, OwnStep

-----------------------------------------------------------------------------
(* Two honest endpoints keep it all. *)

LEMMA InitHonest == Init => HonestInv
<1> SUFFICES ASSUME Init PROVE HonestInv
  OBVIOUS
<1>1. /\ \A e \in Ends : net[e] = <<>> /\ Len(net[e]) = 0 /\ streams[e] = {} /\ locallyClosed[e] = {}
      /\ \A e \in Ends, id \in Ids : st[e][id] = FreshStream /\ sent[e][id] = <<>> /\ got[e][id] = <<>>
      /\ \A id \in Ids : seen[id] = None /\ reported[id] = None
      /\ \A e \in Ends : failed[e] = "no" /\ sentGoAway[e] = FALSE /\ receivedGoAway[e] = FALSE
      /\ nextStreamId = 1 /\ nextPeerStreamId = 1
  BY DEF Init
<1>2. \A id \in Ids : id \in Nat /\ id >= 1
  BY Constant
<1>3. /\ Controller \in Ends /\ Node \in Ends /\ \A e \in Ends : Peer(e) \in Ends
      /\ \A i \in 1 .. 0 : FALSE
  BY Constant
<1>4. FramesSane
  BY <1>1, <1>3 DEF FramesSane
<1>5. Known
  BY <1>1, <1>2, <1>3 DEF Known, Unseen, Live, NoFrame
<1>6. OpensReadable
  BY <1>1, <1>2, <1>3 DEF OpensReadable, OpensInOrder, GoAwayLast
<1>7. NoneFailed
  BY <1>1, <1>3 DEF NoneFailed
<1>8. ASSUME NEW id \in Ids PROVE StreamOk(id)
  <2>1. UnitsOn(<<>>, id) = 0 /\ CreditOn(<<>>, id) = 0
    <3>1. {i \in 1 .. Len(<<>>) : IsUnit(<<>>[i], id)} = {} /\ Len(<<>>) = 0
      BY <1>3
    <3>2. {x \in (1 .. Len(<<>>)) \X (1 .. MaxWindow) : IsCredit(<<>>[x[1]], id) /\ x[2] <= <<>>[x[1]].value} = {}
      BY <1>3, <3>1
    <3>3. QED
      BY <3>1, <3>2, FS_EmptySet DEF UnitsOn, UnitsAhead, CreditOn
  <2>2. /\ NoData(<<>>, id) /\ NoEnd(<<>>, id) /\ EndLast(<<>>, id) /\ NoExit(<<>>, id)
        /\ \A status : ExitLast(<<>>, id, status)
    BY <1>3 DEF NoData, NoEnd, EndLast, NoExit, ExitLast
  <2>3. /\ FreshStream.queue = <<>> /\ FreshStream.sendCredit = Window /\ ~FreshStream.sendEndPending
        /\ ~FreshStream.exitPending /\ ~FreshStream.peerDataClosed
        /\ FreshStream.outstanding = 0 /\ FreshStream.pendingUpdate = 0
    BY DEF FreshStream
  <2>4. ASSUME NEW sends, NEW receives
        PROVE  Lane(id, <<>>, <<>>, FreshStream, FreshStream, sends, receives)
    <3>1. HalfClose(<<>>, id, FreshStream, FreshStream, sends)
      BY <2>2, <2>3 DEF HalfClose
    <3>2. Balanced(Window, 0, 0, 0, 0, sends, receives)
      BY Constant DEF Balanced
    <3>3. QED
      BY <2>1, <2>3, <3>1, <3>2 DEF Lane, Credit
  <2>5. \A e \in Ends : LaneFrom(e, id)
    BY <1>1, <1>3, <2>4 DEF LaneFrom
  <2>6. OutputOf(id)
    <3>1. ExitOk(id, <<>>, FreshStream, Live(Node, id), None, None)
      BY <1>1, <1>3, <2>2, <2>3 DEF ExitOk, Live
    <3>2. Conserves(<<>>, <<>>, <<>>, id, <<>>)
      BY <2>1, <1>3 DEF Conserves
    <3>3. QED
      BY <1>1, <1>3, <2>3, <3>1, <3>2 DEF OutputOf
  <2>7. StdinOnly(st[Controller][id])
    BY <1>1, <1>3, <2>3 DEF StdinOnly
  <2>8. QED
    BY <2>5, <2>6, <2>7 DEF StreamOk
<1>9. QED
  BY <1>4, <1>5, <1>6, <1>7, <1>8 DEF HonestInv

LEMMA NextHonest ==
    ASSUME SessionInv, SessionInv', ~load.faulty, HonestInv, Next PROVE HonestInv'
<1>1. UNCHANGED load /\ Step
  BY DEF Next
<1>2. CASE Open
  BY <1>1, <1>2, OpenHonest
<1>3. ASSUME NEW e \in Ends, NEW id \in Ids, NEW ch \in Channels, NEW units \in 0 .. MaxUnits(e),
             NEW end \in BOOLEAN, SendData(e, id, ch, units, end)
      PROVE  HonestInv'
  <2>1. units \in Nat
    BY SessionAssumption
  <2>2. QED
    BY <1>1, <1>3, <2>1, SendDataHonest
<1>4. ASSUME NEW e \in Ends, NEW id \in Ids, NEW n \in 1 .. Window, Consume(e, id, n)
      PROVE  HonestInv'
  BY <1>1, <1>4, ConsumeHonest
<1>5. ASSUME NEW id \in Ids, NEW status \in Statuses, SendExit(id, status)
      PROVE  HonestInv'
  BY <1>1, <1>5, SendExitHonest
<1>6. ASSUME NEW e \in Ends, Ping(e) \/ GoAway(e) \/ Receive(e)
      PROVE  HonestInv'
  BY <1>1, <1>6, PingHonest, GoAwayHonest, ReceiveOpenHonest, ReceiveDataHonest, ReceiveExitHonest,
     ReceiveWindowUpdateHonest, ReceiveConnectionHonest DEF Receive
<1>7. ASSUME NEW e \in Ends, Inject(e) PROVE FALSE
  BY <1>7 DEF Inject
<1>8. QED
  BY <1>1, <1>2, <1>3, <1>4, <1>5, <1>6, <1>7 DEF Step

LEMMA StutterHonest == ASSUME HonestInv, UNCHANGED vars PROVE HonestInv'
<1>1. UNCHANGED <<streams, locallyClosed, st, nextStreamId, nextPeerStreamId, sentGoAway,
                  receivedGoAway, failed, net, sent, got, reported, seen, load>>
  BY DEF vars
<1>2. \A x \in Ends, j \in Ids : Live(x, j)' <=> Live(x, j)
  BY <1>1 DEF Live
<1>3. FramesSane' /\ OpensReadable' /\ NoneFailed'
  BY <1>1 DEF HonestInv, FramesSane, OpensReadable, NoneFailed
<1>4. Known'
  BY <1>1 DEF HonestInv, Known, Unseen, Live
<1>5. ASSUME NEW j \in Ids PROVE StreamOk(j)'
  <2>1. StreamOk(j)
    BY DEF HonestInv
  <2>2. \A e \in Ends : LaneFrom(e, j)'
    BY <1>1, <2>1 DEF StreamOk, LaneFrom, Live
  <2>3. OutputOf(j)' /\ StdinOnly(st[Controller][j])'
    BY <1>1, <2>1 DEF StreamOk, OutputOf, Live
  <2>4. QED
    BY <2>2, <2>3 DEF StreamOk
<1>6. QED
  BY <1>3, <1>4, <1>5 DEF HonestInv

\* What the runs check follows.
LEMMA HonestSound ==
    ASSUME SessionInv, ~load.faulty => HonestInv PROVE SessionSound
<1>1. RestTyped /\ StreamsTyped /\ Controller \in Ends /\ Node \in Ends
  BY Constant DEF SessionInv, Typed
<1>2. TypeOK
  BY <1>1 DEF StreamsTyped, RestTyped, TypeOK
<1>3. NeverPoisoned
  BY DEF NeverPoisoned, HonestInv, NoneFailed
<1>4. OutputConserved
  BY DEF OutputConserved, HonestInv, StreamOk, OutputOf
<1>5. ExitAfterOutput
  <2> SUFFICES ASSUME HonestInv, NEW id \in Ids, seen[id] # None
               PROVE  got[Controller][id] = sent[Node][id] /\ seen[id] = reported[id]
    BY DEF ExitAfterOutput
  <2>1. /\ ExitOk(id, net[Controller], st[Node][id], Live(Node, id), reported[id], seen[id])
        /\ Conserves(sent[Node][id], got[Controller][id], net[Controller], id, st[Node][id].queue)
    BY DEF HonestInv, StreamOk, OutputOf
  <2>2. seen[id] = reported[id] /\ NoFrame(net[Controller], id) /\ st[Node][id].queue = <<>>
    BY <2>1 DEF ExitOk
  <2>3. /\ net[Controller] \in Seq(WireFrame)
        /\ sent[Node][id] \in Seq(Channels) /\ got[Controller][id] \in Seq(Channels)
    BY <1>1 DEF StreamsTyped, RestTyped
  <2>4. QED
    BY <2>1, <2>2, <2>3, PayloadComplete
<1>6. QED
  BY <1>2, <1>3, <1>4, <1>5 DEF SessionSound

\* Whatever two sessions that follow the protocol do and in whatever order their
\* frames cross, neither takes the other for a broken peer (but for an OPEN that
\* crosses a draining node's GOAWAY), the output arrives whole, in order and on
\* its channel, and the exit comes after it with the status that was reported
\* (sendData, flushStream, sendExit, consume and dispatch of session.cpp).
THEOREM SessionsSound == Spec => []SessionSound
<1>1. Init => (~load.faulty => HonestInv)
  BY InitHonest
<1>2. SessionInv /\ SessionInv' /\ (~load.faulty => HonestInv) /\ [Next]_vars => (~load.faulty => HonestInv)'
  <2> SUFFICES ASSUME SessionInv, SessionInv', ~load.faulty => HonestInv, [Next]_vars, ~load'.faulty
               PROVE  HonestInv'
    OBVIOUS
  <2>1. load' = load
    BY DEF Next, vars
  <2>2. CASE Next
    BY <2>1, <2>2, NextHonest
  <2>3. CASE UNCHANGED vars
    BY <2>1, <2>3, StutterHonest
  <2>4. QED
    BY <2>2, <2>3
<1>3. SessionInv /\ (~load.faulty => HonestInv) => SessionSound
  BY HonestSound
<1>4. QED
  BY <1>1, <1>2, <1>3, SessionInductive, PTL DEF Spec

-----------------------------------------------------------------------------
(* The sessions implement CreditFlow in each direction of each stream.  A    *)
(* step of two honest endpoints is traced through what it does to the window *)
(* at either end and to the frames between them; that the five parts of a    *)
(* window still add up to it is the invariant HonestInv.                     *)


\* The window of the direction in which x sends is whole while the stream runs.
Whole(x, j) ==
    LET p == Peer(x)
    IN /\ st[x][j].sendCredit \in Nat /\ UnitsOn(net[p], j) \in Nat
       /\ st[p][j].outstanding \in Nat /\ st[p][j].pendingUpdate \in Nat
       /\ CreditOn(net[x], j) \in Nat
       /\ Running(j) =>
            st[x][j].sendCredit + UnitsOn(net[p], j) + st[p][j].outstanding
                + st[p][j].pendingUpdate + CreditOn(net[x], j) = Window

LEMMA WindowWhole ==
    ASSUME SessionInv, HonestInv, NEW x \in Ends, NEW j \in Ids
    PROVE  Whole(x, j) /\ ~FlowViolated
<1> DEFINE p == Peer(x)
<1>1. /\ StreamsTyped /\ RestTyped /\ Known /\ NoneFailed /\ StreamOk(j)
      /\ p \in Ends /\ (\A y \in Ends : y = Controller \/ y = Node)
      /\ (x = Node /\ p = Controller) \/ (x = Controller /\ p = Node)
  BY TwoEnds, Constant DEF SessionInv, Typed, HonestInv
<1>2. ~FlowViolated
  BY <1>1 DEF FlowViolated, NoneFailed
<1>3. /\ net[x] \in Seq(WireFrame) /\ net[p] \in Seq(WireFrame)
      /\ st[x][j] \in StreamType /\ st[p][j] \in StreamType
  BY <1>1, Records
<1>4. UnitsOn(net[p], j) \in Nat /\ CreditOn(net[x], j) \in Nat
  BY <1>3, WireCounts
<1>5. st[x][j].sendCredit \in Nat /\ st[p][j].outstanding \in Nat /\ st[p][j].pendingUpdate \in Nat
  BY <1>3, Constant DEF StreamType
<1>6. ASSUME Running(j)
      PROVE  st[x][j].sendCredit + UnitsOn(net[p], j) + st[p][j].outstanding
                + st[p][j].pendingUpdate + CreditOn(net[x], j) = Window
  <2>1. Live(Node, j)
    BY <1>6, Constant DEF Live, Running
  <2>2. Live(Controller, j)
    BY <1>1, <2>1 DEF StreamOk, OutputOf, ExitOk, Live
  <2>3. Live(x, j) /\ Live(p, j)
    BY <1>1, <2>1, <2>2 DEF Live
  <2>4. Credit(j, net[p], net[x], st[x][j], st[p][j], Live(x, j), Live(p, j))
    BY <1>1 DEF StreamOk, LaneFrom, Lane
  <2>5. QED
    BY <2>3, <2>4, Zenon DEF Credit, Balanced
<1>7. QED
  BY <1>2, <1>4, <1>5, <1>6 DEF Whole

LEMMA WindowWholeNext ==
    ASSUME NEW x \in Ends, NEW j \in Ids
    PROVE  SessionInv' /\ HonestInv' => Whole(x, j)' /\ ~FlowViolated'
<1>1. SessionInv /\ HonestInv => Whole(x, j) /\ ~FlowViolated
  BY WindowWhole
<1>2. QED
  BY <1>1, PTL

\* Nothing of the direction in which x sends changes.
LEMMA FlowSame ==
    ASSUME NEW x \in Ends, NEW j \in Ids, ~load.faulty, load' = load, ~FlowViolated, ~FlowViolated',
           Running(j)' <=> Running(j),
           Running(j) => /\ st'[x][j].sendCredit = st[x][j].sendCredit
                         /\ UnitsOn(net'[Peer(x)], j) = UnitsOn(net[Peer(x)], j)
                         /\ st'[Peer(x)][j].outstanding = st[Peer(x)][j].outstanding
                         /\ st'[Peer(x)][j].pendingUpdate = st[Peer(x)][j].pendingUpdate
                         /\ CreditOn(net'[x], j) = CreditOn(net[x], j)
    PROVE  UNCHANGED Flow(x, j)!vars
<1>1. CASE Running(j)
  BY <1>1 DEF Flow!vars, Mapped
<1>2. CASE ~Running(j)
  BY <1>2 DEF Flow!vars, Mapped
<1>3. QED
  BY <1>1, <1>2

\* Both ends have the stream, before and after, and none has failed: the values
\* that CreditFlow sees are those of the records and of the wires.
FlowKept(x, j) ==
    /\ ~load.faulty /\ load' = load /\ ~FlowViolated /\ ~FlowViolated'
    /\ Running(j) /\ Running(j)' /\ Whole(x, j) /\ Whole(x, j)'

LEMMA FlowTransmits ==
    ASSUME NEW x \in Ends, NEW j \in Ids, FlowKept(x, j), NEW k \in Nat, k <= st[x][j].sendCredit,
           st'[x][j].sendCredit = st[x][j].sendCredit - k,
           UnitsOn(net'[Peer(x)], j) = UnitsOn(net[Peer(x)], j) + k,
           st'[Peer(x)][j].outstanding = st[Peer(x)][j].outstanding,
           st'[Peer(x)][j].pendingUpdate = st[Peer(x)][j].pendingUpdate,
           CreditOn(net'[x], j) = CreditOn(net[x], j)
    PROVE  [Flow(x, j)!Next]_(Flow(x, j)!vars)
<1>1. CASE k = 0
  <2>1. UNCHANGED Flow(x, j)!vars
    BY <1>1, FlowSame DEF FlowKept, Whole
  <2>2. QED
    BY <2>1
<1>2. CASE k > 0
  <2>1. k \in 1 .. st[x][j].sendCredit /\ k \in 1 .. Window
    BY <1>2, Constant DEF FlowKept, Whole
  <2>2. Flow(x, j)!Transmit(k)
    BY <2>1 DEF Flow!Transmit, FlowKept, Mapped
  <2>3. QED
    BY <2>1, <2>2 DEF Flow!Next
<1>3. QED
  BY <1>1, <1>2

LEMMA FlowDelivers ==
    ASSUME NEW x \in Ends, NEW j \in Ids, FlowKept(x, j),
           st'[x][j].sendCredit = st[x][j].sendCredit,
           UnitsOn(net[Peer(x)], j) = UnitsOn(net'[Peer(x)], j) + 1,
           st'[Peer(x)][j].outstanding = st[Peer(x)][j].outstanding + 1,
           st'[Peer(x)][j].pendingUpdate = st[Peer(x)][j].pendingUpdate,
           CreditOn(net'[x], j) = CreditOn(net[x], j)
    PROVE  [Flow(x, j)!Next]_(Flow(x, j)!vars)
<1>1. /\ 1 \in 1 .. UnitsOn(net[Peer(x)], j) /\ 1 \in 1 .. Window
      /\ ~(1 > Window - st[Peer(x)][j].outstanding)
      /\ UnitsOn(net'[Peer(x)], j) = UnitsOn(net[Peer(x)], j) - 1
  BY Constant DEF FlowKept, Whole
<1>2. Flow(x, j)!Deliver(1)
  BY <1>1 DEF Flow!Deliver, Flow!Sendable, FlowKept, Mapped
<1>3. QED
  BY <1>1, <1>2 DEF Flow!Next

LEMMA FlowConsumes ==
    ASSUME NEW x \in Ends, NEW j \in Ids, FlowKept(x, j), NEW n \in 1 .. st[Peer(x)][j].outstanding,
           NEW left, left = st[Peer(x)][j].outstanding - n,
           NEW freed, freed = st[Peer(x)][j].pendingUpdate + n,
           st'[x][j].sendCredit = st[x][j].sendCredit,
           UnitsOn(net'[Peer(x)], j) = UnitsOn(net[Peer(x)], j),
           st'[Peer(x)][j].outstanding = left,
           st'[Peer(x)][j].pendingUpdate = (IF Advertises(left, freed) THEN 0 ELSE freed),
           CreditOn(net'[x], j) = CreditOn(net[x], j) + (IF Advertises(left, freed) THEN freed ELSE 0)
    PROVE  [Flow(x, j)!Next]_(Flow(x, j)!vars)
<1>1. n \in 1 .. Window
  BY Constant DEF FlowKept, Whole
<1>2. Advertises(left, freed) <=> Flow(x, j)!Advertises(left, freed)
  BY DEF Advertises, Flow!Advertises, Threshold, Flow!Threshold
<1>3. Flow(x, j)!Consume(n)
  <2>1. CASE Advertises(left, freed)
    <3>1. CreditOn(net'[x], j) = CreditOn(net[x], j) + st[Peer(x)][j].pendingUpdate + n
      BY <2>1 DEF FlowKept, Whole
    <3>2. QED
      BY <1>2, <2>1, <3>1 DEF Flow!Consume, FlowKept, Mapped
  <2>2. CASE ~Advertises(left, freed)
    <3>1. CreditOn(net'[x], j) = CreditOn(net[x], j)
      BY <2>2 DEF FlowKept, Whole
    <3>2. QED
      BY <1>2, <2>2, <3>1 DEF Flow!Consume, FlowKept, Mapped
  <2>3. QED
    BY <2>1, <2>2
<1>4. QED
  BY <1>1, <1>3 DEF Flow!Next

LEMMA FlowGrants ==
    ASSUME NEW x \in Ends, NEW j \in Ids, FlowKept(x, j), NEW d \in Nat \ {0}, NEW k \in Nat,
           k <= st[x][j].sendCredit + d,
           st'[x][j].sendCredit = (st[x][j].sendCredit + d) - k,
           UnitsOn(net'[Peer(x)], j) = UnitsOn(net[Peer(x)], j) + k,
           st'[Peer(x)][j].outstanding = st[Peer(x)][j].outstanding,
           st'[Peer(x)][j].pendingUpdate = st[Peer(x)][j].pendingUpdate,
           CreditOn(net[x], j) = CreditOn(net'[x], j) + d
    PROVE  [Flow(x, j)!Next]_(Flow(x, j)!vars)
<1>1. /\ d \in 1 .. CreditOn(net[x], j) /\ d \in 1 .. Window
      /\ st[x][j].sendCredit + d <= MaxWindow
      /\ k \in 0 .. st[x][j].sendCredit + d /\ k \in 0 .. Window
      /\ CreditOn(net'[x], j) = CreditOn(net[x], j) - d
      /\ st'[x][j].sendCredit = st[x][j].sendCredit + d - k
  <2> DEFINE a == st[x][j].sendCredit
             u == UnitsOn(net[Peer(x)], j)
             o == st[Peer(x)][j].outstanding
             q == st[Peer(x)][j].pendingUpdate
             c == CreditOn(net[x], j)
             c2 == CreditOn(net'[x], j)
  <2>1. /\ a \in Nat /\ u \in Nat /\ o \in Nat /\ q \in Nat /\ c \in Nat /\ c2 \in Nat
        /\ a + u + o + q + c = Window /\ c = c2 + d /\ k <= a + d
        /\ Window \in Nat /\ MaxWindow \in Nat /\ Window <= MaxWindow
    BY Constant DEF FlowKept, Whole
  <2> HIDE DEF a, u, o, q, c, c2
  <2>2. /\ d \in 1 .. c /\ d \in 1 .. Window /\ a + d <= MaxWindow
        /\ k \in 0 .. a + d /\ k \in 0 .. Window /\ c2 = c - d
        /\ (a + d) - k = a + d - k
    BY <2>1
  <2>3. QED
    BY <2>2 DEF a, c, c2
<1>2. Flow(x, j)!Grant(d, k)
  <2>1. ~(st[x][j].sendCredit + d > MaxWindow)
    BY <1>1, Constant DEF FlowKept, Whole
  <2>2. /\ ~load.faulty /\ load' = load /\ ~FlowViolated /\ ~FlowViolated'
        /\ Running(j) /\ Running(j)'
    BY DEF FlowKept
  <2>3. QED
    BY <1>1, <2>1, <2>2 DEF Flow!Grant, Mapped
<1>3. QED
  BY <1>1, <1>2 DEF Flow!Next

LEMMA FlowCloses ==
    ASSUME NEW x \in Ends, NEW j \in Ids, ~load.faulty, load' = load, ~FlowViolated, ~FlowViolated',
           Running(j), ~Running(j)'
    PROVE  [Flow(x, j)!Next]_(Flow(x, j)!vars)
<1>1. Flow(x, j)!Close
  BY DEF Flow!Close, Mapped
<1>2. QED
  BY <1>1 DEF Flow!Next

\* Frames that carry no payload and no credit of j move nothing of it.
LEMMA WiresAside ==
    ASSUME StreamsTyped, NEW e \in Ends, NEW took \in BOOLEAN, NEW g \in Seq(WireFrame),
           Wires(e, took, g), NEW j \in Ids, took => Aside(net[e][1], j),
           \A k \in 1 .. Len(g) : Aside(g[k], j), NEW x \in Ends
    PROVE  UnitsOn(net'[x], j) = UnitsOn(net[x], j) /\ CreditOn(net'[x], j) = CreditOn(net[x], j)
<1>1. \A y \in Ends : net[y] \in Seq(WireFrame)
  BY Records
<1>2. SameFlow(net'[x], net[x], j)
  <2>1. CASE x = e
    <3>1. CASE took
      BY <1>1, <2>1, <3>1, TailFlow DEF Wires
    <3>2. CASE ~took
      BY <2>1, <3>2, SameRefl DEF Wires
    <3>3. QED
      BY <3>1, <3>2
  <2>2. CASE x = Peer(e)
    BY <1>1, <2>2, ConcatFlow DEF Wires
  <2>3. QED
    BY <2>1, <2>2, TwoEnds
<1>3. QED
  BY <1>2 DEF SameFlow, SameData

\* Two honest endpoints before and after a step.
Honest ==
    /\ SessionInv /\ SessionInv' /\ HonestInv /\ HonestInv' /\ ~load.faulty /\ load' = load
    /\ ~FlowViolated /\ ~FlowViolated'

\* What the step that CreditFlow sees is made of.
FlowStep(j) == \A x \in Ends : [Flow(x, j)!Next]_(Flow(x, j)!vars)

\* The windows that both ends keep of j do not change.
SameWindows(j) ==
    \A x \in Ends : /\ st'[x][j].sendCredit = st[x][j].sendCredit
                    /\ st'[x][j].outstanding = st[x][j].outstanding
                    /\ st'[x][j].pendingUpdate = st[x][j].pendingUpdate

LEMMA FlowAside ==
    ASSUME Honest, NEW e \in Ends, NEW took \in BOOLEAN, NEW g \in Seq(WireFrame),
           Wires(e, took, g), NEW j \in Ids, took => Aside(net[e][1], j),
           \A k \in 1 .. Len(g) : Aside(g[k], j),
           Running(j)' <=> Running(j), Running(j) => SameWindows(j)
    PROVE  FlowStep(j)
<1>1. StreamsTyped
  BY DEF Honest, SessionInv, Typed
<1>2. ASSUME NEW x \in Ends PROVE [Flow(x, j)!Next]_(Flow(x, j)!vars)
  <2>1. Peer(x) \in Ends
    BY Constant
  <2>2. /\ UnitsOn(net'[Peer(x)], j) = UnitsOn(net[Peer(x)], j)
        /\ CreditOn(net'[x], j) = CreditOn(net[x], j)
    BY <1>1, <2>1, WiresAside
  <2>3. UNCHANGED Flow(x, j)!vars
    BY <2>1, <2>2, FlowSame DEF Honest, SameWindows
  <2>4. QED
    BY <2>3
<1>3. QED
  BY <1>2 DEF FlowStep

\* A stream that is over moves no credit.
LEMMA FlowOver ==
    ASSUME Honest, NEW j \in Ids, ~Running(j), ~Running(j)'
    PROVE  FlowStep(j)
  BY FlowSame DEF Honest, FlowStep

\* sendData, sendExit and a WINDOW_UPDATE (which brings d) end in a flush.
LEMMA FlowFlush ==
    ASSUME Honest, NEW e \in Ends, NEW id \in Ids, NEW s \in StreamType, StatusKnown(s),
           e = Controller => ~s.exitPending, NEW took \in BOOLEAN,
           took => net[e] # <<>> /\ IsCredit(net[e][1], id) /\ net[e][1].value \in 1 .. MaxWindow,
           FlushStream(e, id, s, IF took THEN Rest(e) ELSE net),
           NEW d, d = (IF took THEN net[e][1].value ELSE 0),
           s.sendCredit = st[e][id].sendCredit + d,
           s.outstanding = st[e][id].outstanding, s.pendingUpdate = st[e][id].pendingUpdate,
           NEW j \in Ids
    PROVE  FlowStep(j)
<1> DEFINE p == Peer(e)
           g == FlushFrames(id, s)
           b == IF took THEN Rest(e) ELSE net
           k == Flushed(s)
<1>1. /\ StreamsTyped /\ StreamsTyped' /\ SessionInv /\ HonestInv /\ SessionInv' /\ HonestInv'
      /\ ~load.faulty /\ load' = load /\ ~FlowViolated /\ ~FlowViolated'
      /\ p \in Ends /\ p # e /\ Peer(p) = e /\ Node \in Ends /\ Controller \in Ends
      /\ (e = Node /\ p = Controller) \/ (e = Controller /\ p = Node)
      /\ \A x \in Ends : x = e \/ x = p
      /\ Window \in Nat /\ MaxWindow \in Nat
  BY TwoEnds, Constant DEF Honest, SessionInv, Typed
<1>2. /\ net[e] \in Seq(WireFrame) /\ net[p] \in Seq(WireFrame) /\ net \in [Ends -> Seq(WireFrame)]
      /\ st[e][id] \in StreamType
  BY <1>1, Records DEF StreamsTyped
<1>3. /\ FlushShape(g, id, s) /\ g \in Seq(WireFrame)
      /\ k \in Nat /\ k <= s.sendCredit
  <2>1. FlushShape(g, id, s)
    BY FlushShaped
  <2>2. Len(s.queue) \in Nat
    BY DEF StreamType
  <2>3. QED
    BY <2>1, <2>2 DEF FlushShape
<1>4. b \in [Ends -> Seq(WireFrame)] /\ b[e] = (IF took THEN Tail(net[e]) ELSE net[e]) /\ b[p] = net[p]
  <2>1. took => Tail(net[e]) \in Seq(WireFrame)
    BY <1>2, TailIndex
  <2>2. QED
    BY <1>1, <1>2, <2>1 DEF Rest
<1> HIDE DEF b, g, k
<1>5. /\ net'[e] = b[e] /\ net'[p] = b[p] \o g
      /\ \A x \in Ends, i \in Ids : (x # e \/ i # id) =>
            st'[x][i] = st[x][i] /\ (i \in locallyClosed'[x] <=> i \in locallyClosed[x])
      /\ ExitsNow(s) => id \in locallyClosed'[e]
      /\ ~ExitsNow(s) => st'[e][id] = AfterFlush(s) /\ locallyClosed' = locallyClosed
  <2>1. FlushStream(e, id, s, b)
    BY DEF b
  <2>2. StreamsTyped
    BY <1>1
  <2>3. /\ net'[e] = b[e] /\ net'[Peer(e)] = b[Peer(e)] \o FlushFrames(id, s)
        /\ \A x \in Ends, i \in Ids : (x # e \/ i # id) =>
              /\ st'[x][i] = st[x][i] /\ (i \in streams'[x] <=> i \in streams[x])
              /\ i \in locallyClosed'[x] <=> i \in locallyClosed[x]
        /\ ExitsNow(s) => /\ st'[e][id] = ClosedRecord(s)
                          /\ id \notin streams'[e] /\ id \in locallyClosed'[e]
        /\ ~ExitsNow(s) => /\ st'[e][id] = AfterFlush(s)
                           /\ streams' = streams /\ locallyClosed' = locallyClosed
        /\ locallyClosed'[Peer(e)] = locallyClosed[Peer(e)]
    BY <1>4, <2>1, <2>2, FlushEffect
  <2>4. QED
    BY <2>3, ZenonT(60) DEF g
<1>6. Wires(e, took, g)
  BY <1>4, <1>5 DEF Wires
<1>7. CASE j # id
  <2>1. took => Aside(net[e][1], j)
    BY <1>7 DEF Aside, IsData, IsCredit
  <2>2. \A i \in 1 .. Len(g) : Aside(g[i], j)
    BY <1>3, <1>7 DEF FlushShape, Aside, IsData, IsCredit
  <2>3. (Running(j)' <=> Running(j)) /\ SameWindows(j)
    BY <1>1, <1>5, <1>7 DEF Running, SameWindows
  <2>4. QED
    BY <1>3, <1>6, <2>1, <2>2, <2>3, FlowAside
<1>8. CASE j = id /\ ~Running(id)
  <2>1. ~Running(id)'
    BY <1>1, <1>5, <1>8 DEF Running
  <2>2. QED
    BY <1>8, <2>1, FlowOver
<1>9. CASE j = id /\ Running(id) /\ ExitsNow(s)
  <2>1. ~Running(id)'
    BY <1>1, <1>5, <1>9 DEF Running, ExitsNow
  <2>2. QED
    BY <1>1, <1>9, <2>1, FlowCloses DEF FlowStep
<1>10. CASE j = id /\ Running(id) /\ ~ExitsNow(s)
  <2>1. Running(id)' /\ st'[e][id] = AfterFlush(s) /\ st'[p][id] = st[p][id]
    BY <1>1, <1>5, <1>10 DEF Running
  <2>2. \A x \in Ends : FlowKept(x, id)
    BY <1>1, <1>10, <2>1, WindowWhole, WindowWholeNext DEF FlowKept
  <2>3. /\ st'[e][id].sendCredit = (st[e][id].sendCredit + d) - k
        /\ st'[e][id].outstanding = st[e][id].outstanding
        /\ st'[e][id].pendingUpdate = st[e][id].pendingUpdate
    <3>1. /\ AfterFlush(s).sendCredit = s.sendCredit - k
          /\ AfterFlush(s).outstanding = s.outstanding /\ AfterFlush(s).pendingUpdate = s.pendingUpdate
      BY DEF AfterFlush, StreamType, k
    <3>2. QED
      BY <2>1, <3>1
  <2>4. UnitsOn(net'[p], id) = UnitsOn(net[p], id) + k /\ CreditOn(net'[p], id) = CreditOn(net[p], id)
    <3>1. UnitsOn(net[p] \o g, id) = UnitsOn(net[p], id) + k
      BY <1>2, <1>3, FlushUnits DEF k
    <3>2. CreditOn(net[p] \o g, id) = CreditOn(net[p], id)
      <4>1. \A i \in 1 .. Len(g) : ~IsCredit(g[i], id)
        BY <1>3 DEF FlushShape
      <4>2. QED
        BY <1>2, <1>3, <4>1, CreditConcat
    <3>3. QED
      BY <1>4, <1>5, <3>1, <3>2
  <2>5. UnitsOn(net'[e], id) = UnitsOn(net[e], id) /\ CreditOn(net[e], id) = CreditOn(net'[e], id) + d
        /\ (took => d \in Nat \ {0})
    <3>1. CASE took
      <4>1. ~IsUnit(net[e][1], id) /\ net[e] # <<>> /\ net'[e] = Tail(net[e])
        BY <1>4, <1>5, <3>1 DEF IsUnit, IsCredit
      <4>2. UnitsOn(Tail(net[e]), id) = UnitsOn(net[e], id)
        BY <1>2, <4>1, TailData DEF SameData
      <4>3. CreditOn(net[e], id) = CreditOn(Tail(net[e]), id) + net[e][1].value
        BY <1>2, <3>1, <4>1, CreditTail
      <4>4. QED
        BY <1>1, <3>1, <4>1, <4>2, <4>3
    <3>2. CASE ~took
      <4>1. CreditOn(net[e], id) \in Nat
        BY <1>2, WireCounts
      <4>2. QED
        BY <1>4, <1>5, <3>2, <4>1
    <3>3. QED
      BY <3>1, <3>2
  <2>6. [Flow(e, id)!Next]_(Flow(e, id)!vars)
    <3>1. st'[p][id].outstanding = st[p][id].outstanding /\ st'[p][id].pendingUpdate = st[p][id].pendingUpdate
      BY <2>1
    <3>2. CASE took
      <4>1. k <= st[e][id].sendCredit + d /\ d \in Nat \ {0}
        BY <1>3, <2>5, <3>2
      <4>2. QED
        BY <1>3, <2>2, <2>3, <2>4, <2>5, <3>1, <4>1, FlowGrants
    <3>3. CASE ~took
      <4>1. st[e][id].sendCredit \in Nat /\ d = 0 /\ CreditOn(net'[e], id) \in Nat
        BY <2>2, <3>3 DEF FlowKept, Whole
      <4>2. /\ k <= st[e][id].sendCredit /\ st'[e][id].sendCredit = st[e][id].sendCredit - k
            /\ CreditOn(net'[e], id) = CreditOn(net[e], id)
        <5>1. k <= st[e][id].sendCredit + 0 /\ st'[e][id].sendCredit = (st[e][id].sendCredit + 0) - k
              /\ CreditOn(net[e], id) = CreditOn(net'[e], id) + 0
          BY <1>3, <2>3, <2>5, <4>1
        <5>2. QED
          BY <4>1, <5>1
      <4>3. QED
        BY <1>3, <2>2, <2>4, <3>1, <4>2, FlowTransmits
    <3>4. QED
      BY <3>2, <3>3
  <2>7. [Flow(p, id)!Next]_(Flow(p, id)!vars)
    <3>1. UNCHANGED Flow(p, id)!vars
      BY <1>1, <1>10, <2>1, <2>3, <2>4, <2>5, FlowSame
    <3>2. QED
      BY <3>1
  <2>8. QED
    BY <1>1, <1>10, <2>6, <2>7 DEF FlowStep
<1>11. QED
  BY <1>7, <1>8, <1>9, <1>10

\* The facts about two honest endpoints that the steps below use.
LEMMA HonestFacts ==
    ASSUME Honest
    PROVE  /\ SessionInv /\ SessionInv' /\ HonestInv /\ HonestInv' /\ load' = load
           /\ StreamsTyped /\ RestTyped /\ FramesSane /\ Known /\ NoneFailed'
           /\ \A id \in Ids : StreamOk(id)
  BY DEF Honest, SessionInv, Typed, HonestInv

\* The only frame that fails an honest endpoint is an OPEN that crosses GOAWAY.
LEMMA PoisonedByOpen ==
    ASSUME Honest, NEW e \in Ends, NEW reason, Poison(e, reason)
    PROVE  reason \in {"no", "OPEN after GOAWAY"}
<1>1. failed \in [Ends -> Verdicts] /\ NoneFailed' /\ failed' = [failed EXCEPT ![e] = reason]
  BY HonestFacts DEF RestTyped, Poison
<1>2. failed'[e] = reason /\ (e = Node \/ e = Controller)
  BY <1>1, TwoEnds
<1>3. QED
  BY <1>1, <1>2 DEF NoneFailed

\* A frame without payload and credit is taken, and nothing is sent.
LEMMA FlowTaken ==
    ASSUME Honest, NEW e \in Ends, net[e] # <<>>, net' = Rest(e), UNCHANGED locallyClosed,
           NEW j \in Ids, Aside(Head(net[e]), j), Running(j) => SameWindows(j)
    PROVE  FlowStep(j)
<1>1. /\ Wires(e, TRUE, <<>>) /\ Head(net[e]) = net[e][1] /\ <<>> \in Seq(WireFrame)
      /\ \A k \in 1 .. Len(<<>>) : FALSE
  BY HonestFacts, Taken
<1>2. Running(j)' <=> Running(j)
  BY DEF Running
<1>3. QED
  BY <1>1, <1>2, FlowAside

\* Frames without payload and credit are sent.
LEMMA FlowSent ==
    ASSUME Honest, NEW e \in Ends, NEW f \in WireFrame, net' = [net EXCEPT ![Peer(e)] = Append(@, f)],
           UNCHANGED locallyClosed, NEW j \in Ids, Aside(f, j), Running(j) => SameWindows(j)
    PROVE  FlowStep(j)
<1>1. /\ net[Peer(e)] \in Seq(WireFrame) /\ Peer(e) \in Ends /\ Peer(e) # e
      /\ net \in [Ends -> Seq(WireFrame)]
  BY HonestFacts, TwoEnds DEF StreamsTyped
<1>2. Append(net[Peer(e)], f) = net[Peer(e)] \o <<f>> /\ <<f>> \in Seq(WireFrame)
  BY <1>1, AppendIsConcat
<1>3. Wires(e, FALSE, <<f>>)
  BY <1>1, <1>2 DEF Wires
<1>4. \A k \in 1 .. Len(<<f>>) : Aside(<<f>>[k], j)
  OBVIOUS
<1>5. Running(j)' <=> Running(j)
  BY DEF Running
<1>6. QED
  BY <1>2, <1>3, <1>4, <1>5, FlowAside

LEMMA OpenFlow == ASSUME Honest, Open, NEW j \in Ids PROVE FlowStep(j)
<1> DEFINE n == nextStreamId
<1>1. /\ Controller \in Ends /\ Node \in Ends /\ Peer(Controller) = Node
      /\ n \in Ids /\ st[Controller][n] = FreshStream
  <2>1. Controller \in Ends /\ Node \in Ends /\ Peer(Controller) = Node
    BY Constant DEF Peer
  <2>2. n \in 1 .. MaxStreams + 1 /\ n <= MaxStreams
    BY HonestFacts DEF Open, RestTyped
  <2>3. n \in Ids /\ n \in Nat
    BY <2>2, Constant DEF Ids
  <2>4. QED
    BY <2>1, <2>3, HonestFacts DEF Known, Unseen
<1>2. /\ st' = [st EXCEPT ![Controller][n] = FreshStream]
      /\ net' = [net EXCEPT ![Node] = Append(@, OpenFrame(n))] /\ UNCHANGED locallyClosed
  BY DEF Open
<1>3. st' = st
  BY <1>1, <1>2, HonestFacts DEF StreamsTyped
<1>4. OpenFrame(n) \in WireFrame /\ Aside(OpenFrame(n), j)
  BY <1>1, FramesTyped DEF OpenFrame, Frame, Aside, IsData, IsCredit
<1>5. net' = [net EXCEPT ![Peer(Controller)] = Append(@, OpenFrame(n))]
  BY <1>1, <1>2
<1>6. QED
  BY <1>1, <1>2, <1>3, <1>4, <1>5, FlowSent DEF SameWindows

LEMMA SendDataFlow ==
    ASSUME Honest, NEW e \in Ends, NEW id \in Ids, NEW ch \in Channels, NEW units \in Nat,
           NEW end \in BOOLEAN, SendData(e, id, ch, units, end), NEW j \in Ids
    PROVE  FlowStep(j)
<1> DEFINE bytes == [i \in 1 .. units |-> ch]
           s == [st[e][id] EXCEPT !.queue = @ \o bytes,
                                  !.localDataClosed = end,
                                  !.sendEndPending = end]
<1>1. st[e][id] \in StreamType /\ StatusKnown(st[e][id]) /\ ~st[e][id].exitPending
  BY HonestFacts DEF StreamsTyped, SendData
<1>2. st[e][id].queue \o bytes \in Seq(Channels)
  <2>1. bytes \in Seq(Channels) /\ st[e][id].queue \in Seq(Channels)
    BY <1>1 DEF StreamType
  <2>2. QED
    BY <2>1, ConcatProperties
<1>3. s \in StreamType /\ StatusKnown(s)
  BY <1>1, <1>2 DEF StreamType, StatusKnown
<1>4. /\ s.sendCredit = st[e][id].sendCredit /\ s.outstanding = st[e][id].outstanding
      /\ s.pendingUpdate = st[e][id].pendingUpdate /\ s.exitPending = st[e][id].exitPending
      /\ st[e][id].sendCredit \in Nat
  BY <1>1, Constant DEF StreamType
<1>5. FlushStream(e, id, s, net)
  BY DEF SendData
<1> HIDE DEF s
<1>6. FlushStream(e, id, s, IF FALSE THEN Rest(e) ELSE net)
  BY <1>5
<1>7. s.sendCredit = st[e][id].sendCredit + 0 /\ 0 = (IF FALSE THEN net[e][1].value ELSE 0)
  BY <1>4
<1>8. QED
  BY <1>1, <1>3, <1>4, <1>6, <1>7, FlowFlush

LEMMA SendExitFlow ==
    ASSUME Honest, NEW id \in Ids, NEW status \in Statuses, SendExit(id, status), NEW j \in Ids
    PROVE  FlowStep(j)
<1> DEFINE s == [st[Node][id] EXCEPT !.localDataClosed = TRUE,
                                     !.exitPending = TRUE,
                                     !.exitStatus = status]
<1>1. st[Node][id] \in StreamType /\ Node \in Ends /\ Node # Controller
  BY HonestFacts, Constant DEF StreamsTyped
<1>2. s \in StreamType /\ StatusKnown(s)
  BY <1>1 DEF StreamType, StatusKnown
<1>3. /\ s.sendCredit = st[Node][id].sendCredit /\ s.outstanding = st[Node][id].outstanding
      /\ s.pendingUpdate = st[Node][id].pendingUpdate /\ st[Node][id].sendCredit \in Nat
  BY <1>1, Constant DEF StreamType
<1>4. \/ st' = [st EXCEPT ![Node][id] = s] /\ UNCHANGED <<locallyClosed, net>>
      \/ FlushStream(Node, id, s, net)
  BY DEF SendExit
<1> HIDE DEF s
<1>5. CASE st' = [st EXCEPT ![Node][id] = s] /\ UNCHANGED <<locallyClosed, net>>
  <2>1. SameWindows(j)
    BY <1>1, <1>3, <1>5, HonestFacts DEF SameWindows, StreamsTyped
  <2>2. Wires(Node, FALSE, <<>>)
    BY <1>1, <1>5, HonestFacts, NothingSent
  <2>3. (Running(j)' <=> Running(j)) /\ <<>> \in Seq(WireFrame) /\ \A k \in 1 .. Len(<<>>) : FALSE
    BY <1>5 DEF Running
  <2>4. QED
    BY <1>1, <2>1, <2>2, <2>3, FlowAside
<1>6. CASE FlushStream(Node, id, s, net)
  <2>1. FlushStream(Node, id, s, IF FALSE THEN Rest(Node) ELSE net)
    BY <1>6
  <2>2. s.sendCredit = st[Node][id].sendCredit + 0 /\ 0 = (IF FALSE THEN net[Node][1].value ELSE 0)
    BY <1>3
  <2>3. QED
    BY <1>1, <1>2, <1>3, <2>1, <2>2, FlowFlush
<1>7. QED
  BY <1>4, <1>5, <1>6

LEMMA PingFlow == ASSUME Honest, NEW e \in Ends, Ping(e), NEW j \in Ids PROVE FlowStep(j)
<1>1. ConnFrame("PING") \in WireFrame /\ Aside(ConnFrame("PING"), j)
  BY FramesTyped DEF ConnFrame, Frame, Aside, IsData, IsCredit
<1>2. net' = [net EXCEPT ![Peer(e)] = Append(@, ConnFrame("PING"))] /\ UNCHANGED <<locallyClosed, st>>
  BY DEF Ping, sessionVars
<1>3. QED
  BY <1>1, <1>2, FlowSent DEF SameWindows

LEMMA GoAwayFlow == ASSUME Honest, NEW e \in Ends, GoAway(e), NEW j \in Ids PROVE FlowStep(j)
<1>1. ConnFrame("GOAWAY") \in WireFrame /\ Aside(ConnFrame("GOAWAY"), j)
  BY FramesTyped DEF ConnFrame, Frame, Aside, IsData, IsCredit
<1>2. net' = [net EXCEPT ![Peer(e)] = Append(@, ConnFrame("GOAWAY"))] /\ UNCHANGED <<locallyClosed, st>>
  BY DEF GoAway
<1>3. QED
  BY <1>1, <1>2, FlowSent DEF SameWindows

LEMMA ReceiveOpenFlow == ASSUME Honest, NEW e \in Ends, ReceiveOpen(e), NEW j \in Ids PROVE FlowStep(j)
<1>1. PICK f : f = Head(net[e])
  OBVIOUS
<1>2. net[e] # <<>> /\ Aside(f, j)
  BY <1>1 DEF ReceiveOpen, Arrived, Aside, IsData, IsCredit
<1>3. net' = Rest(e) /\ UNCHANGED locallyClosed /\ (st' = st \/ st' = [st EXCEPT ![e][f.id] = FreshStream])
  BY <1>1 DEF ReceiveOpen, Poison
<1>4. st' = st
  <2>1. CASE OpenVerdict(e, f) # "ok"
    BY <1>1, <2>1 DEF ReceiveOpen, Poison
  <2>2. CASE OpenVerdict(e, f) = "ok"
    <3>1. f.id = nextPeerStreamId /\ f.id # 0 /\ e = Node /\ st' = [st EXCEPT ![e][f.id] = FreshStream]
      BY <1>1, <2>2 DEF ReceiveOpen, OpenVerdict
    <3>2. f \in WireFrame
      BY <1>1, <1>2, HonestFacts, Taken
    <3>3. f.id \in 0 .. MaxStreams
      BY <3>2 DEF WireFrame, FrameType
    <3>4. f.id \in Ids /\ f.id \in Nat
      BY <3>1, <3>3, Constant DEF Ids
    <3>5. st[Node][f.id] = FreshStream
      BY <3>1, <3>4, HonestFacts, Constant DEF Known, Unseen
    <3>6. QED
      BY <3>1, <3>4, <3>5, HonestFacts DEF StreamsTyped
  <2>3. QED
    BY <2>1, <2>2
<1>5. QED
  BY <1>1, <1>2, <1>3, <1>4, FlowTaken DEF SameWindows

LEMMA ReceiveExitFlow == ASSUME Honest, NEW e \in Ends, ReceiveExit(e), NEW j \in Ids PROVE FlowStep(j)
<1>1. PICK f : f = Head(net[e])
  OBVIOUS
<1>2. net[e] # <<>> /\ Aside(f, j) /\ f.type = "EXIT"
  BY <1>1 DEF ReceiveExit, Arrived, Aside, IsData, IsCredit
<1>3. net' = Rest(e) /\ UNCHANGED locallyClosed /\ (st' = st \/ st' = [st EXCEPT ![e][f.id] = FreshStream])
  BY <1>1 DEF ReceiveExit, Poison
<1>4. Running(j) => j # f.id
  <2> SUFFICES ASSUME j = f.id PROVE ~Running(j)
    OBVIOUS
  <2>1. f = net[e][1] /\ SaneAt(e, f) /\ 1 \in 1 .. Len(net[e])
    BY <1>1, <1>2, HonestFacts, Taken
  <2>2. e = Controller
    BY <1>2, <2>1, TwoEnds DEF SaneAt
  <2>3. ~NoExit(net[Controller], j)
    BY <1>2, <2>1, <2>2 DEF NoExit, IsExit
  <2>4. ~Live(Node, j)
    BY <2>3, HonestFacts DEF StreamOk, OutputOf, ExitOk
  <2>5. QED
    BY <2>4, TwoEnds DEF Live, Running
<1>5. Running(j) => SameWindows(j)
  <2> SUFFICES ASSUME j # f.id PROVE \A x \in Ends : st'[x][j] = st[x][j]
    BY <1>4 DEF SameWindows
  <2>1. st \in [Ends -> [Ids -> StreamType]]
    BY HonestFacts DEF StreamsTyped
  <2>2. QED
    BY <1>3, <2>1
<1>6. QED
  BY <1>1, <1>2, <1>3, <1>5, FlowTaken

LEMMA ReceiveConnectionFlow ==
    ASSUME Honest, NEW e \in Ends, ReceiveConnection(e), NEW j \in Ids PROVE FlowStep(j)
<1>1. PICK f : f = Head(net[e])
  OBVIOUS
<1>2. net[e] # <<>> /\ f.type \in {"PING", "PONG", "GOAWAY"}
  BY <1>1 DEF ReceiveConnection, Arrived
<1>3. f = net[e][1] /\ SaneAt(e, f) /\ Rest(e)[e] = Tail(net[e]) /\ Rest(e)[Peer(e)] = net[Peer(e)]
  BY <1>1, <1>2, HonestFacts, Taken
<1>4. f.id = 0 /\ Aside(f, j)
  BY <1>2, <1>3 DEF SaneAt, Sane, Aside, IsData, IsCredit
<1>5. /\ net' = IF f.type = "PING"
                THEN [Rest(e) EXCEPT ![Peer(e)] = Append(@, ConnFrame("PONG"))]
                ELSE Rest(e)
      /\ UNCHANGED <<locallyClosed, st>>
  BY <1>1, <1>4 DEF ReceiveConnection
<1>6. CASE f.type = "PING"
  <2>1. Peer(e) \in Ends /\ Peer(e) # e /\ net[Peer(e)] \in Seq(WireFrame)
    BY HonestFacts, TwoEnds, Records
  <2>2. ConnFrame("PONG") \in WireFrame /\ Aside(ConnFrame("PONG"), j)
    BY FramesTyped DEF ConnFrame, Frame, Aside, IsData, IsCredit
  <2> DEFINE g == <<ConnFrame("PONG")>>
  <2>3. Append(net[Peer(e)], ConnFrame("PONG")) = net[Peer(e)] \o g /\ g \in Seq(WireFrame)
    BY <2>1, <2>2, AppendIsConcat
  <2>4. \A k \in 1 .. Len(g) : Aside(g[k], j)
    BY <2>2
  <2>5. net'[e] = Tail(net[e]) /\ net'[Peer(e)] = Append(net[Peer(e)], ConnFrame("PONG"))
    <3>1. DOMAIN Rest(e) = Ends
      BY HonestFacts DEF Rest, StreamsTyped
    <3>2. QED
      BY <1>3, <1>5, <1>6, <2>1, <3>1
  <2> HIDE DEF g
  <2>6. Wires(e, TRUE, g)
    BY <1>2, <2>3, <2>5 DEF Wires
  <2>7. (Running(j)' <=> Running(j)) /\ SameWindows(j)
    BY <1>5 DEF Running, SameWindows
  <2>8. QED
    BY <1>3, <1>4, <2>3, <2>4, <2>6, <2>7, FlowAside
<1>7. CASE f.type # "PING"
  BY <1>1, <1>2, <1>4, <1>5, <1>7, FlowTaken DEF SameWindows
<1>8. QED
  BY <1>6, <1>7

LEMMA ConsumeFlow ==
    ASSUME Honest, NEW e \in Ends, NEW id \in Ids, NEW n \in 1 .. Window, Consume(e, id, n), NEW j \in Ids
    PROVE  FlowStep(j)
<1> DEFINE p == Peer(e)
           left == st[e][id].outstanding - n
           freed == st[e][id].pendingUpdate + n
           fires == Advertises(left, freed)
           kept == IF fires THEN 0 ELSE freed
           g == IF fires THEN <<UpdateFrame(id, freed)>> ELSE <<>>
<1>1. /\ StreamsTyped /\ SessionInv /\ HonestInv /\ SessionInv' /\ HonestInv'
      /\ ~load.faulty /\ load' = load /\ ~FlowViolated /\ ~FlowViolated'
      /\ p \in Ends /\ p # e /\ Peer(p) = e /\ \A x \in Ends : x = e \/ x = p
      /\ net \in [Ends -> Seq(WireFrame)] /\ net[p] \in Seq(WireFrame)
      /\ st \in [Ends -> [Ids -> StreamType]] /\ st[e][id] \in StreamType
  BY TwoEnds, Records DEF Honest, SessionInv, Typed, StreamsTyped
<1>2. /\ n \in 1 .. st[e][id].outstanding
      /\ st' = [st EXCEPT ![e][id].outstanding = left, ![e][id].pendingUpdate = kept]
      /\ net' = IF fires THEN [net EXCEPT ![p] = Append(@, UpdateFrame(id, freed))] ELSE net
      /\ UNCHANGED <<locallyClosed, failed>>
  BY DEF Consume
<1>3. st[e][id].pendingUpdate \in Nat /\ n \in Nat /\ freed \in Nat /\ freed > 0
  <2>1. st[e][id].pendingUpdate \in 0 .. Window /\ st[e][id].outstanding \in 0 .. Window
    <3> HIDE DEF left, freed, kept, fires, g
    <3>1. st[e][id] \in StreamType
      BY <1>1
    <3>2. QED
      BY <3>1 DEF StreamType
  <2>2. Window \in Nat
    BY Constant
  <2> DEFINE q == st[e][id].pendingUpdate
  <2>3. q \in Nat /\ n \in Nat /\ n > 0 /\ freed = q + n
    BY <2>1, <2>2 DEF freed
  <2> HIDE DEF q, freed
  <2>4. freed \in Nat /\ freed > 0
    BY <2>3
  <2>5. QED
    BY <2>3, <2>4 DEF q
<1> HIDE DEF left, freed, kept, fires
<1>4. /\ \A x \in Ends, i \in Ids : (x # e \/ i # id) => st'[x][i] = st[x][i]
      /\ st'[e][id].outstanding = left /\ st'[e][id].pendingUpdate = kept
      /\ st'[e][id].sendCredit = st[e][id].sendCredit
  BY <1>1, <1>2 DEF StreamType
<1>5. UpdateFrame(id, freed) \in WireFrame
  BY <1>3, FramesTyped
<1>6. g \in Seq(WireFrame) /\ net'[e] = net[e] /\ net'[p] = net[p] \o g
  <2>1. CASE fires
    <3>1. /\ Append(net[p], UpdateFrame(id, freed)) = net[p] \o <<UpdateFrame(id, freed)>>
          /\ <<UpdateFrame(id, freed)>> \in Seq(WireFrame)
      BY <1>1, <1>5, AppendIsConcat
    <3>2. net'[e] = net[e] /\ net'[p] = Append(net[p], UpdateFrame(id, freed))
      BY <1>1, <1>2, <2>1
    <3>3. QED
      BY <2>1, <3>1, <3>2
  <2>2. CASE ~fires
    <3>1. net[p] \o <<>> = net[p] /\ <<>> \in Seq(WireFrame)
      BY <1>1, ConcatEmptySeq
    <3>2. QED
      BY <1>2, <2>2, <3>1
  <2>3. QED
    BY <2>1, <2>2
<1>7. \A k \in 1 .. Len(g) : /\ g[k].id = id /\ g[k].type = "WINDOW_UPDATE"
                             /\ ~IsData(g[k], id)
  <2>1. LET u == UpdateFrame(id, freed) IN u.id = id /\ u.type = "WINDOW_UPDATE"
    BY DEF UpdateFrame, Frame
  <2>2. QED
    BY <2>1 DEF IsData
<1>8. (Running(j)' <=> Running(j)) /\ Wires(e, FALSE, g)
  BY <1>2, <1>6 DEF Running, Wires
<1>9. CASE j # id
  <2>1. \A k \in 1 .. Len(g) : Aside(g[k], j)
    BY <1>7, <1>9 DEF Aside, IsData, IsCredit
  <2>2. SameWindows(j)
    BY <1>4, <1>9 DEF SameWindows
  <2>3. QED
    BY <1>6, <1>8, <2>1, <2>2, FlowAside
<1>10. CASE j = id /\ ~Running(id)
  BY <1>8, <1>10, FlowOver
<1>11. CASE j = id /\ Running(id)
  <2>1. Running(id)'
    BY <1>8, <1>11
  <2>2. \A x \in Ends : FlowKept(x, id)
    BY <1>1, <1>11, <2>1, WindowWhole, WindowWholeNext DEF FlowKept
  <2>3. freed \in 1 .. MaxWindow
    <3>1. FlowKept(p, id)
      BY <1>1, <2>2
    <3> DEFINE a == st[p][id].sendCredit
               u == UnitsOn(net[e], id)
               o == st[e][id].outstanding
               q == st[e][id].pendingUpdate
               c == CreditOn(net[p], id)
    <3>2. /\ a \in Nat /\ u \in Nat /\ o \in Nat /\ q \in Nat /\ c \in Nat
          /\ a + u + o + q + c = Window
      BY <1>1, <1>11, <3>1 DEF FlowKept, Whole
    <3>3. n \in 1 .. o /\ freed = q + n /\ Window \in Nat /\ MaxWindow \in Nat /\ Window <= MaxWindow
      BY <1>2, Constant DEF freed
    <3> HIDE DEF a, u, o, q, c
    <3>4. QED
      BY <3>2, <3>3
  <2>4. /\ UnitsOn(net'[p], id) = UnitsOn(net[p], id)
        /\ CreditOn(net'[p], id) = CreditOn(net[p], id) + (IF fires THEN freed ELSE 0)
    <3>1. SameData(net[p] \o g, net[p], id)
      <4>1. \A k \in 1 .. Len(g) : ~IsData(g[k], id)
        BY <1>7
      <4> HIDE DEF g
      <4>2. QED
        BY <1>1, <1>6, <4>1, ConcatData
    <3>2. CASE fires
      <4>1. IsCredit(UpdateFrame(id, freed), id) /\ UpdateFrame(id, freed).value = freed
        BY DEF UpdateFrame, Frame, IsCredit
      <4>2. CreditOn(Append(net[p], UpdateFrame(id, freed)), id) = CreditOn(net[p], id) + freed
        BY <1>1, <1>5, <2>3, <4>1, CreditAppend
      <4>3. net'[p] = Append(net[p], UpdateFrame(id, freed))
        BY <1>1, <1>2, <3>2
      <4>4. QED
        BY <1>6, <3>1, <3>2, <4>2, <4>3 DEF SameData
    <3>3. CASE ~fires
      <4>1. net'[p] = net[p] /\ CreditOn(net[p], id) \in Nat
        BY <1>1, <1>2, <3>3, WireCounts
      <4>2. QED
        BY <3>3, <4>1
    <3>4. QED
      BY <3>2, <3>3
  <2>5. UnitsOn(net'[e], id) = UnitsOn(net[e], id) /\ CreditOn(net'[e], id) = CreditOn(net[e], id)
        /\ st'[p][id] = st[p][id]
    BY <1>1, <1>4, <1>6
  <2>6. [Flow(p, id)!Next]_(Flow(p, id)!vars)
    <3>1. FlowKept(p, id) /\ st'[p][id].sendCredit = st[p][id].sendCredit
      BY <1>1, <2>2, <2>5
    <3>2. /\ st'[e][id].pendingUpdate = (IF Advertises(left, freed) THEN 0 ELSE freed)
          /\ CreditOn(net'[p], id) = CreditOn(net[p], id) + (IF Advertises(left, freed) THEN freed ELSE 0)
      BY <1>4, <2>4 DEF kept, fires
    <3>3. left = st[e][id].outstanding - n /\ freed = st[e][id].pendingUpdate + n
      BY DEF left, freed
    <3>4. /\ Peer(p) = e /\ p \in Ends /\ n \in 1 .. st[Peer(p)][id].outstanding
          /\ left = st[Peer(p)][id].outstanding - n /\ freed = st[Peer(p)][id].pendingUpdate + n
          /\ UnitsOn(net'[Peer(p)], id) = UnitsOn(net[Peer(p)], id)
          /\ st'[Peer(p)][id].outstanding = left
          /\ st'[Peer(p)][id].pendingUpdate = (IF Advertises(left, freed) THEN 0 ELSE freed)
      BY <1>1, <1>2, <1>4, <2>5, <3>2, <3>3
    <3> HIDE DEF p, left, freed, kept, fires
    <3>5. QED
      BY <3>1, <3>2, <3>4, FlowConsumes
  <2>7. [Flow(e, id)!Next]_(Flow(e, id)!vars)
    <3>1. UNCHANGED Flow(e, id)!vars
      BY <1>1, <1>4, <1>8, <1>11, <2>4, <2>5, FlowSame
    <3>2. QED
      BY <3>1
  <2>8. QED
    BY <1>1, <1>11, <2>6, <2>7 DEF FlowStep
<1>12. QED
  BY <1>9, <1>10, <1>11

LEMMA ReceiveDataFlow == ASSUME Honest, NEW e \in Ends, ReceiveData(e), NEW j \in Ids PROVE FlowStep(j)
<1>head. PICK f : f = Head(net[e])
  OBVIOUS
<1>stream. PICK id : id = f.id
  OBVIOUS
<1> DEFINE p == Peer(e)
<1>1. /\ net[e] # <<>> /\ f.type = "DATA" /\ failed[e] = "no" /\ f.type \in StreamFrame
      /\ StreamsTyped /\ SessionInv /\ HonestInv /\ SessionInv' /\ HonestInv'
      /\ ~load.faulty /\ load' = load /\ ~FlowViolated /\ ~FlowViolated'
      /\ p \in Ends /\ p # e /\ Peer(p) = e /\ \A x \in Ends : x = e \/ x = p
      /\ (e = Node /\ p = Controller) \/ (e = Controller /\ p = Node)
      /\ net[e] \in Seq(WireFrame) /\ st \in [Ends -> [Ids -> StreamType]]
  BY <1>head, HonestFacts, TwoEnds, Records
  DEF Honest, ReceiveData, Arrived, Usable, StreamFrame, StreamsTyped
<1>2. /\ id \in Ids /\ f = net[e][1] /\ SaneAt(e, f)
      /\ id \in locallyClosed[e] <=> ~Live(e, id)
  <2>1. /\ f.id \in Ids /\ f = net[e][1] /\ SaneAt(e, f)
        /\ f.id \in locallyClosed[e] <=> ~Live(e, f.id)
    BY <1>1, <1>head, HeadOfStream
  <2>2. QED
    BY <1>stream, <2>1 DEF Live
<1>3. f.units \in {0, 1}
  BY <1>1, <1>2 DEF SaneAt, Sane
<1>4. DataVerdict(e, f) \in {"ok", "crossing"} /\ (DataVerdict(e, f) = "crossing" => id \in locallyClosed[e])
  <2>1. CASE DataVerdict(e, f) \notin {"ok", "crossing"}
    <3>1. Poison(e, DataVerdict(e, f))
      BY <1>head, <2>1 DEF ReceiveData
    <3>2. DataVerdict(e, f) \in {"no", "OPEN after GOAWAY"}
      BY <3>1, PoisonedByOpen
    <3>3. QED
      BY <3>2 DEF DataVerdict
  <2>2. CASE DataVerdict(e, f) \in {"ok", "crossing"}
    BY <1>stream, <2>2 DEF DataVerdict
  <2>3. QED
    BY <2>1, <2>2
<1> DEFINE taken == DataVerdict(e, f) = "ok"
<1>5. /\ st' = [st EXCEPT ![e][id].peerDataClosed = @ \/ f.end,
                          ![e][id].outstanding = IF taken THEN @ + f.units ELSE @]
      /\ net' = Rest(e) /\ UNCHANGED locallyClosed
  BY <1>head, <1>stream, <1>4 DEF ReceiveData
<1> HIDE DEF taken
<1>6. /\ \A x \in Ends, i \in Ids : (x # e \/ i # id) => st'[x][i] = st[x][i]
      /\ st'[e][id].outstanding = (IF taken THEN st[e][id].outstanding + f.units ELSE st[e][id].outstanding)
      /\ st'[e][id].pendingUpdate = st[e][id].pendingUpdate
      /\ st'[e][id].sendCredit = st[e][id].sendCredit
  <2> DEFINE u == IF taken THEN st[e][id].outstanding + f.units ELSE st[e][id].outstanding
             d == st[e][id].peerDataClosed \/ f.end
  <2>1. st \in [Ends -> [Ids -> StreamType]] /\ id \in Ids /\ st[e][id] \in StreamType
    BY <1>1, <1>2
  <2>2. st' = [st EXCEPT ![e] = [st[e] EXCEPT ![id] = [st[e][id] EXCEPT !.peerDataClosed = d, !.outstanding = u]]]
    BY <1>5, <2>1 DEF StreamType
  <2> HIDE DEF u, d
  <2>3. st'[e][id] = [st[e][id] EXCEPT !.peerDataClosed = d, !.outstanding = u]
    BY <2>1, <2>2
  <2>4. \A x \in Ends, i \in Ids : (x # e \/ i # id) => st'[x][i] = st[x][i]
    BY <2>1, <2>2
  <2>5. /\ st'[e][id].outstanding = u /\ st'[e][id].pendingUpdate = st[e][id].pendingUpdate
        /\ st'[e][id].sendCredit = st[e][id].sendCredit
    BY <2>1, <2>3 DEF StreamType
  <2>6. QED
    BY <2>4, <2>5 DEF u
<1>7. Wires(e, TRUE, <<>>) /\ net'[e] = Tail(net[e]) /\ net'[p] = net[p] /\ <<>> \in Seq(WireFrame)
      /\ \A k \in 1 .. Len(<<>>) : FALSE
  BY <1>1, <1>5, HonestFacts, Taken
<1>8. Running(j)' <=> Running(j)
  BY <1>5 DEF Running
<1>9. CASE j # id
  <2>1. Aside(net[e][1], j)
    BY <1>2, <1>9, <1>stream DEF Aside, IsData, IsCredit
  <2>2. SameWindows(j)
    BY <1>6, <1>9 DEF SameWindows
  <2>3. QED
    BY <1>7, <1>8, <2>1, <2>2, FlowAside
<1>10. CASE j = id /\ ~Running(id)
  BY <1>8, <1>10, FlowOver
<1>11. CASE j = id /\ Running(id)
  <2>1. Running(id)' /\ id \notin locallyClosed[e]
    <3>1. id \notin locallyClosed[e]
      <4>1. e = Node => id \notin locallyClosed[e]
        BY <1>11 DEF Running
      <4>2. e = Controller => id \notin locallyClosed[e]
        BY HonestFacts DEF Known
      <4>3. QED
        BY <1>1, <4>1, <4>2
    <3>2. QED
      BY <1>8, <1>11, <3>1
  <2>2. taken
    BY <1>4, <2>1 DEF taken
  <2>3. \A x \in Ends : FlowKept(x, id)
    BY <1>1, <1>11, <2>1, WindowWhole, WindowWholeNext DEF FlowKept
  <2>4. /\ UnitsOn(net[e], id) = UnitsOn(net'[e], id) + f.units
        /\ CreditOn(net'[e], id) = CreditOn(net[e], id)
        /\ UnitsOn(net'[e], id) \in Nat
    <3>1. IsUnit(net[e][1], id) <=> f.units = 1
      BY <1>1, <1>2, <1>3, <1>stream DEF IsUnit
    <3>2. UnitsOn(net[e], id) = UnitsOn(Tail(net[e]), id) + f.units /\ UnitsOn(Tail(net[e]), id) \in Nat
      BY <1>1, <1>3, <3>1, TailUnits
    <3>3. ~IsCredit(net[e][1], id)
      BY <1>1, <1>2 DEF IsCredit
    <3>4. CreditOn(net[e], id) = CreditOn(Tail(net[e]), id) + 0
      BY <1>1, <3>3, CreditTail
    <3>5. Tail(net[e]) \in Seq(WireFrame)
      BY <1>1, TailIndex
    <3>6. CreditOn(Tail(net[e]), id) \in Nat
      BY <3>5, WireCounts
    <3>7. QED
      BY <1>7, <3>2, <3>4, <3>6
  <2>5. /\ UnitsOn(net'[p], id) = UnitsOn(net[p], id) /\ CreditOn(net'[p], id) = CreditOn(net[p], id)
        /\ st'[p][id] = st[p][id] /\ st'[e][id].outstanding = st[e][id].outstanding + f.units
    BY <1>1, <1>2, <1>6, <1>7, <2>2
  <2>6. [Flow(p, id)!Next]_(Flow(p, id)!vars)
    <3>1. FlowKept(p, id) /\ st'[p][id].sendCredit = st[p][id].sendCredit
      BY <1>1, <2>3, <2>5
    <3>2. CASE f.units = 1
      <4>1. /\ Peer(p) = e /\ p \in Ends
            /\ UnitsOn(net[Peer(p)], id) = UnitsOn(net'[Peer(p)], id) + 1
            /\ st'[Peer(p)][id].outstanding = st[Peer(p)][id].outstanding + 1
            /\ st'[Peer(p)][id].pendingUpdate = st[Peer(p)][id].pendingUpdate
            /\ CreditOn(net'[p], id) = CreditOn(net[p], id)
        BY <1>1, <1>6, <2>4, <2>5, <3>2
      <4> HIDE DEF p
      <4>2. QED
        BY <1>2, <3>1, <4>1, FlowDelivers
    <3>3. CASE f.units = 0
      <4>1. UnitsOn(net'[e], id) = UnitsOn(net[e], id) /\ st'[e][id].outstanding = st[e][id].outstanding
        <5>1. st[e][id].outstanding \in Nat
          BY <1>1, <3>1 DEF FlowKept, Whole
        <5>2. QED
          BY <2>4, <2>5, <3>3, <5>1
      <4>2. UNCHANGED Flow(p, id)!vars
        BY <1>1, <1>6, <1>8, <1>11, <2>5, <3>1, <4>1, FlowSame
      <4>3. QED
        BY <4>2
    <3>4. QED
      BY <1>3, <3>2, <3>3
  <2>7. [Flow(e, id)!Next]_(Flow(e, id)!vars)
    <3>1. UNCHANGED Flow(e, id)!vars
      BY <1>1, <1>6, <1>8, <1>11, <2>4, <2>5, FlowSame
    <3>2. QED
      BY <3>1
  <2>8. QED
    BY <1>1, <1>11, <2>6, <2>7 DEF FlowStep
<1>12. QED
  BY <1>9, <1>10, <1>11

LEMMA ReceiveWindowUpdateFlow ==
    ASSUME Honest, NEW e \in Ends, ReceiveWindowUpdate(e), NEW j \in Ids PROVE FlowStep(j)
<1>head. PICK f : f = Head(net[e])
  OBVIOUS
<1>stream. PICK id : id = f.id
  OBVIOUS
<1>1. /\ net[e] # <<>> /\ f.type = "WINDOW_UPDATE" /\ failed[e] = "no" /\ f.type \in StreamFrame
      /\ StreamsTyped /\ SessionInv /\ HonestInv /\ (e = Node \/ e = Controller)
  BY <1>head, HonestFacts, TwoEnds DEF ReceiveWindowUpdate, Arrived, Usable, StreamFrame
<1>2. /\ id \in Ids /\ f = net[e][1] /\ SaneAt(e, f) /\ f.id = id
      /\ f.value \in 1 .. Window /\ f.value \in 1 .. MaxWindow
  <2>1. f.id \in Ids /\ f = net[e][1] /\ SaneAt(e, f)
    BY <1>1, <1>head, HeadOfStream
  <2>2. QED
    BY <1>1, <1>stream, <2>1, Constant DEF SaneAt, Sane
<1>3. UpdateVerdict(e, f) \in {"ok", "crossing"}
  <2> SUFFICES ASSUME UpdateVerdict(e, f) \notin {"ok", "crossing"} PROVE FALSE
    OBVIOUS
  <2>1. Poison(e, UpdateVerdict(e, f))
    BY <1>head DEF ReceiveWindowUpdate
  <2>2. UpdateVerdict(e, f) \in {"no", "OPEN after GOAWAY"}
    BY <2>1, PoisonedByOpen
  <2>3. QED
    BY <2>2 DEF UpdateVerdict
<1>4. CASE UpdateVerdict(e, f) = "crossing"
  <2>1. net' = Rest(e) /\ UNCHANGED <<locallyClosed, st>>
    BY <1>head, <1>4 DEF ReceiveWindowUpdate, sessionVars
  <2>2. id \in locallyClosed[e]
    BY <1>2, <1>4 DEF UpdateVerdict
  <2>3. ~Running(id)
    BY <1>1, <2>2, HonestFacts DEF Running, Known
  <2>4. CASE j = id
    <3>1. ~Running(id)'
      BY <2>1, <2>3 DEF Running
    <3>2. QED
      BY <2>3, <2>4, <3>1, FlowOver
  <2>5. CASE j # id
    <3>1. Aside(f, j)
      BY <1>2, <2>5 DEF Aside, IsData, IsCredit
    <3>2. QED
      BY <1>1, <1>head, <2>1, <3>1, FlowTaken DEF SameWindows
  <2>6. QED
    BY <2>4, <2>5
<1>5. CASE UpdateVerdict(e, f) = "ok"
  <2> DEFINE s == [st[e][id] EXCEPT !.sendCredit = @ + f.value]
  <2>1. st[e][id] \in StreamType /\ StatusKnown(st[e][id])
    BY <1>1, <1>2, Records
  <2>2. FlushStream(e, id, s, Rest(e))
    BY <1>2, <1>5, <1>head DEF ReceiveWindowUpdate
  <2>3. st[e][id].sendCredit + f.value \in 0 .. MaxWindow
    <3>1. ~(st[e][id].sendCredit + f.value > MaxWindow)
      BY <1>2, <1>5 DEF UpdateVerdict
    <3>2. st[e][id].sendCredit \in 0 .. MaxWindow /\ MaxWindow \in Nat
      BY <2>1, Constant DEF StreamType
    <3>3. QED
      BY <1>2, <3>1, <3>2
  <2>4. s \in StreamType /\ StatusKnown(s)
    BY <2>1, <2>3 DEF StreamType, StatusKnown
  <2>5. /\ s.sendCredit = st[e][id].sendCredit + f.value /\ s.outstanding = st[e][id].outstanding
        /\ s.pendingUpdate = st[e][id].pendingUpdate /\ s.exitPending = st[e][id].exitPending
    BY <2>1 DEF StreamType
  <2> HIDE DEF s
  <2>6. e = Controller => ~s.exitPending
    BY <1>2, <2>5, HonestFacts DEF StreamOk, StdinOnly
  <2>7. IsCredit(net[e][1], id) /\ net[e][1].value \in 1 .. MaxWindow
    BY <1>1, <1>2 DEF IsCredit
  <2>8. FlushStream(e, id, s, IF TRUE THEN Rest(e) ELSE net) /\ f.value = (IF TRUE THEN net[e][1].value ELSE 0)
    BY <1>2, <2>2
  <2>9. QED
    BY <1>1, <1>2, <2>4, <2>5, <2>6, <2>7, <2>8, FlowFlush, ZenonT(60)
<1>6. QED
  BY <1>3, <1>4, <1>5

-----------------------------------------------------------------------------

\* Every step of two honest endpoints is one of CreditFlow, or a stutter, in each
\* direction of each stream.
LEMMA NextFlow == ASSUME Honest, Next, NEW j \in Ids PROVE FlowStep(j)
<1>1. ~load.faulty /\ Step
  BY DEF Honest, Next
<1>2. CASE Open
  BY <1>2, OpenFlow
<1>3. ASSUME NEW e \in Ends, NEW id \in Ids, NEW ch \in Channels, NEW units \in 0 .. MaxUnits(e),
             NEW end \in BOOLEAN, SendData(e, id, ch, units, end)
      PROVE  FlowStep(j)
  <2>1. units \in Nat
    BY SessionAssumption
  <2>2. QED
    BY <1>3, <2>1, SendDataFlow
<1>4. ASSUME NEW e \in Ends, NEW id \in Ids, NEW n \in 1 .. Window, Consume(e, id, n)
      PROVE  FlowStep(j)
  BY <1>4, ConsumeFlow
<1>5. ASSUME NEW id \in Ids, NEW status \in Statuses, SendExit(id, status)
      PROVE  FlowStep(j)
  BY <1>5, SendExitFlow
<1>6. ASSUME NEW e \in Ends, Ping(e) \/ GoAway(e) \/ Receive(e)
      PROVE  FlowStep(j)
  BY <1>6, PingFlow, GoAwayFlow, ReceiveOpenFlow, ReceiveDataFlow, ReceiveExitFlow,
     ReceiveWindowUpdateFlow, ReceiveConnectionFlow DEF Receive
<1>7. ASSUME NEW e \in Ends, Inject(e) PROVE FALSE
  BY <1>1, <1>7 DEF Inject
<1>8. QED
  BY <1>1, <1>2, <1>3, <1>4, <1>5, <1>6, <1>7 DEF Step

LEMMA InitFlow == ASSUME Init, NEW e \in Ends, NEW id \in Ids PROVE Flow(e, id)!Init
<1>1. /\ \A x \in Ends : net[x] = <<>> /\ failed[x] = "no" /\ st[x][id] = FreshStream
      /\ locallyClosed[Node] = {} /\ Peer(e) \in Ends
  BY Constant DEF Init
<1>2. Running(id) /\ ~FlowViolated
  BY <1>1 DEF Running, FlowViolated
<1>3. UnitsOn(<<>>, id) = 0 /\ CreditOn(<<>>, id) = 0
  <2>1. {i \in 1 .. Len(<<>>) : IsUnit(<<>>[i], id)} = {} /\ Len(<<>>) = 0
    OBVIOUS
  <2>2. {x \in (1 .. Len(<<>>)) \X (1 .. MaxWindow) : IsCredit(<<>>[x[1]], id) /\ x[2] <= <<>>[x[1]].value} = {}
    BY <2>1
  <2>3. QED
    BY <2>1, <2>2, FS_EmptySet DEF UnitsOn, UnitsAhead, CreditOn
<1>4. FreshStream.sendCredit = Window /\ FreshStream.outstanding = 0 /\ FreshStream.pendingUpdate = 0
  BY DEF FreshStream
<1>5. QED
  BY <1>1, <1>2, <1>3, <1>4 DEF Flow!Init, Mapped

\* Every step, a faulty peer's included, of the sessions is one of CreditFlow.
LEMMA StepFlow ==
    ASSUME SessionInv, SessionInv', ~load.faulty => HonestInv, (~load.faulty => HonestInv)', [Next]_vars,
           NEW e \in Ends, NEW id \in Ids
    PROVE  [Flow(e, id)!Next]_(Flow(e, id)!vars)
<1>1. load' = load
  BY DEF Next, vars
<1>2. CASE load.faulty
  BY <1>1, <1>2 DEF Flow!vars, Mapped
<1>3. CASE UNCHANGED vars
  <2>1. /\ st' = st /\ net' = net /\ failed' = failed /\ locallyClosed' = locallyClosed
    BY <1>3 DEF vars
  <2>2. UNCHANGED Flow(e, id)!vars
    BY <1>1, <2>1 DEF Flow!vars, Mapped, Running, FlowViolated
  <2>3. QED
    BY <2>2
<1>4. CASE Next /\ ~load.faulty
  <2>1. Honest
    BY <1>1, <1>4, WindowWhole, WindowWholeNext DEF Honest
  <2>2. QED
    BY <1>4, <2>1, NextFlow DEF FlowStep
<1>5. QED
  BY <1>2, <1>3, <1>4

-----------------------------------------------------------------------------

\* What is proved of honest endpoints holds of every run without a broken peer.
LEMMA HonestRuns == Spec => [](SessionInv /\ (~load.faulty => HonestInv))
<1>1. Init => (~load.faulty => HonestInv)
  BY InitHonest
<1>2. SessionInv /\ SessionInv' /\ (~load.faulty => HonestInv) /\ [Next]_vars => (~load.faulty => HonestInv)'
  <2> SUFFICES ASSUME SessionInv, SessionInv', ~load.faulty => HonestInv, [Next]_vars, ~load'.faulty
               PROVE  HonestInv'
    OBVIOUS
  <2>1. load' = load
    BY DEF Next, vars
  <2>2. CASE Next
    BY <2>1, <2>2, NextHonest
  <2>3. CASE UNCHANGED vars
    BY <2>1, <2>3, StutterHonest
  <2>4. QED
    BY <2>2, <2>3
<1>3. QED
  BY <1>1, <1>2, SessionInductive, PTL DEF Spec

\* Each direction of each stream of the sessions is a CreditFlow: whatever the
\* endpoints do (sendData, dispatch, consume and flush in session.cpp), the
\* windows at both ends and the frames between them take only the steps that
\* credit_window.cpp allows, for every window, threshold and number of streams.
THEOREM SessionsRefineFlows ==
    ASSUME NEW e \in Ends, NEW id \in Ids
    PROVE  Spec => Flow(e, id)!Spec
<1>1. Init => Flow(e, id)!Init
  BY InitFlow
<1>2. /\ SessionInv /\ (~load.faulty => HonestInv)
      /\ (SessionInv /\ (~load.faulty => HonestInv))'
      /\ [Next]_vars
      => [Flow(e, id)!Next]_(Flow(e, id)!vars)
  BY StepFlow
<1>3. QED
  BY <1>1, <1>2, HonestRuns, PTL DEF Spec, Flow!Spec

\* The same of all directions at once, in the form that the run checks.
THEOREM SessionsImplementFlows == Spec => FlowsImplemented
<1>1. Init => \A e \in Ends, id \in Ids : Flow(e, id)!Init
  BY InitFlow
<1> DEFINE Steps == \A e \in Ends, id \in Ids : [Flow(e, id)!Next]_(Flow(e, id)!vars)
<1>2. /\ SessionInv /\ (~load.faulty => HonestInv)
      /\ (SessionInv /\ (~load.faulty => HonestInv))'
      /\ [Next]_vars
      => Steps
  BY StepFlow
<1>3. SessionInv /\ (~load.faulty => HonestInv)
      /\ (SessionInv /\ (~load.faulty => HonestInv))' /\ [Next]_vars => [Steps]_vars
  BY <1>2
<1> HIDE DEF Steps
<1>4. Spec => [][Steps]_vars
  BY <1>3, HonestRuns, PTL DEF Spec
<1>5. Spec => \A e \in Ends, id \in Ids : Flow(e, id)!Init
  BY <1>1 DEF Spec
<1>6. QED
  BY <1>4, <1>5 DEF FlowsImplemented, Steps
=============================================================================
