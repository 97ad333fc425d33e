-------------------------------- MODULE Session --------------------------------
(***************************************************************************)
(* psx/1 sessions: a controller's Session and a node's Session             *)
(* (src/transport/session.cpp) joined by one ordered byte stream in each   *)
(* direction.  Payload is counted in units of credit, and a DATA frame of  *)
(* n units is n consecutive one-unit frames (END_STREAM on the last): the  *)
(* sessions treat the units of a frame alike, so this only adds            *)
(* interleavings at the receiver.                                          *)
(*                                                                         *)
(* Besides the protocol state, sent, got, reported and seen record what    *)
(* the two applications handed in and were given, for the properties.      *)
(***************************************************************************)
EXTENDS Naturals, Sequences, FiniteSets

CONSTANTS
    Window,      \* initialWindow_
    MaxWindow,   \* kMaxStreamWindow
    MaxStreams,  \* bound: streams opened on the connection
    FaultyFrames,\* the frames a peer that breaks the protocol may inject
    Loads        \* what a connection may carry: records of the bounds
                 \*   input   stdin units the controller sends per stream
                 \*   output  output units the node sends per stream
                 \*   extras  PINGs and faulty frames on the connection
                 \*   drain   the endpoints whose application calls goAway()
                 \*   faulty  whether a peer breaks the protocol

Controller == "controller"
Node == "node"
Ends == {Controller, Node}
Peer(e) == IF e = Controller THEN Node ELSE Controller
Ids == 1 .. MaxStreams
Channels == {"stdout", "stderr"}
Statuses == {0, 1}
None == 99   \* no exit status yet

\* A frame the codec can produce.  units is the payload length of DATA, value
\* the WINDOW_UPDATE delta or the exit status.
FrameType ==
    [type : {"OPEN", "DATA", "EXIT", "WINDOW_UPDATE", "PING", "PONG", "GOAWAY"},
     id : 0 .. MaxStreams, ch : Channels, end : BOOLEAN, units : Nat, value : Nat]

ASSUME SessionAssumption ==
    /\ Window \in Nat \ {0}
    /\ MaxWindow \in Nat /\ Window <= MaxWindow
    /\ MaxStreams \in Nat \ {0}
    /\ \A l \in Loads :
          {l.input, l.output, l.extras} \subseteq Nat /\ l.drain \subseteq Ends /\ l.faulty \in BOOLEAN
    /\ FaultyFrames \subseteq {f \in FrameType : f.type = "EXIT" => f.value \in Statuses}

Threshold == Window \div 2

Frame(type, id, ch, end, units, value) ==
    [type |-> type, id |-> id, ch |-> ch, end |-> end, units |-> units, value |-> value]
OpenFrame(id)            == Frame("OPEN", id, "stdout", FALSE, 0, 0)
DataFrame(id, ch, end)   == Frame("DATA", id, ch, end, 1, 0)
EofFrame(id)             == Frame("DATA", id, "stdout", TRUE, 0, 0)
ExitFrame(id, status)    == Frame("EXIT", id, "stdout", TRUE, 0, status)
UpdateFrame(id, delta)   == Frame("WINDOW_UPDATE", id, "stdout", FALSE, 0, delta)
ConnFrame(type)          == Frame(type, 0, "stdout", FALSE, 0, 0)

\* Session::Stream as try_emplace(id, initialWindow_) constructs it.
FreshStream ==
    [queue |-> <<>>, sendCredit |-> Window, sendEndPending |-> FALSE,
     exitPending |-> FALSE, exitStatus |-> None,
     localDataClosed |-> FALSE, peerDataClosed |-> FALSE,
     outstanding |-> 0, pendingUpdate |-> 0]

VARIABLES
    streams,         \* streams_: ids with a live Stream, per endpoint
    locallyClosed,   \* locallyClosedStreams_: ids this endpoint ended by EXIT
    st,              \* the Stream records
    nextStreamId,    \* controller: nextStreamId_
    nextPeerStreamId,\* node: nextPeerStreamId_
    sentGoAway, receivedGoAway,
    failed,          \* protocolFailed_, with the reason
    net,             \* net[e]: frames on their way to e
    used,            \* bound: PINGs and faulty frames sent so far
    sent, got,       \* units handed to sendData / delivered by onData
    reported, seen,  \* status handed to sendExit / delivered by onExit
    load             \* the bounds of this behaviour

sessionVars == <<streams, locallyClosed, st, nextStreamId, nextPeerStreamId,
                 sentGoAway, receivedGoAway, failed>>
vars == <<streams, locallyClosed, st, nextStreamId, nextPeerStreamId, sentGoAway,
          receivedGoAway, failed, net, used, sent, got, reported, seen, load>>

MaxUnits(e) == IF e = Controller THEN load.input ELSE load.output

Init ==
    /\ streams = [e \in Ends |-> {}]
    /\ locallyClosed = [e \in Ends |-> {}]
    /\ st = [e \in Ends |-> [id \in Ids |-> FreshStream]]
    /\ nextStreamId = 1
    /\ nextPeerStreamId = 1
    /\ sentGoAway = [e \in Ends |-> FALSE]
    /\ receivedGoAway = [e \in Ends |-> FALSE]
    /\ failed = [e \in Ends |-> "no"]
    /\ net = [e \in Ends |-> <<>>]
    /\ used = 0
    /\ sent = [e \in Ends |-> [id \in Ids |-> <<>>]]
    /\ got = [e \in Ends |-> [id \in Ids |-> <<>>]]
    /\ reported = [id \in Ids |-> None]
    /\ seen = [id \in Ids |-> None]
    /\ load \in Loads

-----------------------------------------------------------------------------
\* flushStream(): what leaves stream s of id, and what is left of it.
Minimum(a, b) == IF a < b THEN a ELSE b
Flushed(s) == Minimum(Len(s.queue), s.sendCredit)
Drained(s) == Flushed(s) = Len(s.queue)
\* The END_STREAM flag rides the last unit, or an empty frame of its own.
FlushData(id, s) ==
    [i \in 1 .. Flushed(s) |->
        DataFrame(id, s.queue[i], Drained(s) /\ s.sendEndPending /\ i = Flushed(s))]
FlushEof(id, s) ==
    IF Drained(s) /\ s.sendEndPending /\ Flushed(s) = 0 THEN <<EofFrame(id)>> ELSE <<>>
\* A deferred EXIT rides out once its DATA has drained.
ExitsNow(s) == Drained(s) /\ s.exitPending
FlushExit(id, s) == IF ExitsNow(s) THEN <<ExitFrame(id, s.exitStatus)>> ELSE <<>>
\* (Mutant: the EXIT is put on the wire ahead of the DATA it waited for.)
FlushFramesExitFirst(id, s) == FlushExit(id, s) \o FlushData(id, s) \o FlushEof(id, s)
FlushFrames(id, s) == FlushData(id, s) \o FlushEof(id, s) \o FlushExit(id, s)
AfterFlush(s) ==
    [s EXCEPT !.queue = SubSeq(s.queue, Flushed(s) + 1, Len(s.queue)),
              !.sendCredit = s.sendCredit - Flushed(s),
              !.sendEndPending = s.sendEndPending /\ ~Drained(s)]

\* closeLocally(): the Stream goes, only peerDataClosed is remembered.
ClosedRecord(s) == [FreshStream EXCEPT !.peerDataClosed = s.peerDataClosed]

\* Replace stream id of e by s, flush it, and put the frames on the wire; base
\* is the network without the frame being handled, if there is one.
FlushStream(e, id, s, base) ==
    /\ net' = [base EXCEPT ![Peer(e)] = @ \o FlushFrames(id, s)]
    /\ IF ExitsNow(s)
       THEN /\ streams' = [streams EXCEPT ![e] = @ \ {id}]
            /\ locallyClosed' = [locallyClosed EXCEPT ![e] = @ \cup {id}]
            /\ st' = [st EXCEPT ![e][id] = ClosedRecord(s)]
       ELSE /\ st' = [st EXCEPT ![e][id] = AfterFlush(s)]
            /\ UNCHANGED <<streams, locallyClosed>>

Usable(e) == failed[e] = "no"

-----------------------------------------------------------------------------
\* The API.  A call the code ignores (wrong role, unknown stream, after a local
\* half-close) changes nothing and is left to stuttering.

Open ==
    /\ Usable(Controller)
    /\ ~sentGoAway[Controller] /\ ~receivedGoAway[Controller]
    /\ nextStreamId <= MaxStreams
    /\ nextStreamId' = nextStreamId + 1
    /\ streams' = [streams EXCEPT ![Controller] = @ \cup {nextStreamId}]
    /\ st' = [st EXCEPT ![Controller][nextStreamId] = FreshStream]
    /\ net' = [net EXCEPT ![Node] = Append(@, OpenFrame(nextStreamId))]
    /\ UNCHANGED <<locallyClosed, nextPeerStreamId, sentGoAway, receivedGoAway,
                   failed, used, sent, got, reported, seen>>

SendData(e, id, ch, units, end) ==
    /\ Usable(e)
    /\ e = Controller => ch = "stdout"
    /\ id \in streams[e]
    /\ ~st[e][id].localDataClosed /\ ~st[e][id].exitPending
    /\ units > 0 \/ end
    /\ Len(sent[e][id]) + units <= MaxUnits(e)
    /\ LET bytes == [i \in 1 .. units |-> ch]
           s == [st[e][id] EXCEPT !.queue = @ \o bytes,
                                  !.localDataClosed = end,
                                  !.sendEndPending = end]
       IN /\ FlushStream(e, id, s, net)
          /\ sent' = [sent EXCEPT ![e][id] = @ \o bytes]
    /\ UNCHANGED <<nextStreamId, nextPeerStreamId, sentGoAway, receivedGoAway,
                   failed, used, got, reported, seen>>

\* sendExit(): at once when nothing is buffered, else behind the DATA.
SendExit(id, status) ==
    /\ Usable(Node)
    /\ id \in streams[Node]
    /\ ~st[Node][id].exitPending
    /\ LET s == [st[Node][id] EXCEPT !.localDataClosed = TRUE,
                                     !.exitPending = TRUE,
                                     !.exitStatus = status]
       IN IF s.queue # <<>> \/ s.sendEndPending
          THEN /\ st' = [st EXCEPT ![Node][id] = s]
               /\ UNCHANGED <<streams, locallyClosed, net>>
          ELSE FlushStream(Node, id, s, net)
    /\ reported' = [reported EXCEPT ![id] = status]
    /\ UNCHANGED <<nextStreamId, nextPeerStreamId, sentGoAway, receivedGoAway,
                   failed, used, sent, got, seen>>

\* CreditWindow::onConsumed.  (Mutant: without the outstanding = 0 rule.)
AdvertisesAtThreshold(left, freed) == freed > 0 /\ freed >= Threshold
Advertises(left, freed) == freed > 0 /\ (freed >= Threshold \/ left = 0)

Consume(e, id, n) ==
    /\ Usable(e)
    /\ id \in streams[e]
    /\ n \in 1 .. st[e][id].outstanding
    /\ LET left == st[e][id].outstanding - n
           freed == st[e][id].pendingUpdate + n
           fires == Advertises(left, freed)
       IN /\ st' = [st EXCEPT ![e][id].outstanding = left,
                              ![e][id].pendingUpdate = IF fires THEN 0 ELSE freed]
          /\ net' = IF fires
                    THEN [net EXCEPT ![Peer(e)] = Append(@, UpdateFrame(id, freed))]
                    ELSE net
    /\ UNCHANGED <<streams, locallyClosed, nextStreamId, nextPeerStreamId,
                   sentGoAway, receivedGoAway, failed, used, sent, got, reported, seen>>

Ping(e) ==
    /\ Usable(e)
    /\ used < load.extras
    /\ used' = used + 1
    /\ net' = [net EXCEPT ![Peer(e)] = Append(@, ConnFrame("PING"))]
    /\ UNCHANGED <<sessionVars, sent, got, reported, seen>>

GoAway(e) ==
    /\ e \in load.drain
    /\ Usable(e) /\ ~sentGoAway[e]
    /\ sentGoAway' = [sentGoAway EXCEPT ![e] = TRUE]
    /\ net' = [net EXCEPT ![Peer(e)] = Append(@, ConnFrame("GOAWAY"))]
    /\ UNCHANGED <<streams, locallyClosed, st, nextStreamId, nextPeerStreamId,
                   receivedGoAway, failed, used, sent, got, reported, seen>>

-----------------------------------------------------------------------------
\* receive() -> dispatch(): one complete frame.

Arrived(e, type) == Usable(e) /\ net[e] # <<>> /\ Head(net[e]).type = type
Rest(e) == [net EXCEPT ![e] = Tail(@)]

\* protocolFailed_: nothing after this frame is dispatched and nothing is sent.
Poison(e, reason) ==
    /\ failed' = [failed EXCEPT ![e] = reason]
    /\ net' = Rest(e)
    /\ UNCHANGED <<streams, locallyClosed, st, nextStreamId, nextPeerStreamId,
                   sentGoAway, receivedGoAway, used, sent, got, reported, seen>>

\* A verdict is the first check of dispatch() that the frame fails, or "ok".
\* (Mutant: any id that is not open is accepted.)
OpenVerdictReusing(e, f) ==
    IF f.id = 0 THEN "stream 0"
    ELSE IF e # Node THEN "role"
    ELSE IF sentGoAway[e] \/ receivedGoAway[e] THEN "OPEN after GOAWAY"
    ELSE IF f.id \in streams[e] THEN "OPEN out of sequence"
    ELSE "ok"
OpenVerdict(e, f) ==
    IF f.id = 0 THEN "stream 0"
    ELSE IF e # Node THEN "role"
    ELSE IF sentGoAway[e] \/ receivedGoAway[e] THEN "OPEN after GOAWAY"
    ELSE IF f.id # nextPeerStreamId THEN "OPEN out of sequence"
    ELSE "ok"

ReceiveOpen(e) ==
    /\ Arrived(e, "OPEN")
    /\ LET f == Head(net[e]) IN
       IF OpenVerdict(e, f) # "ok"
       THEN Poison(e, OpenVerdict(e, f))
       ELSE /\ nextPeerStreamId' = f.id + 1
            /\ streams' = [streams EXCEPT ![e] = @ \cup {f.id}]
            /\ st' = [st EXCEPT ![e][f.id] = FreshStream]
            /\ net' = Rest(e)
            /\ UNCHANGED <<locallyClosed, nextStreamId, sentGoAway, receivedGoAway,
                           failed, used, sent, got, reported, seen>>

\* A DATA frame for a stream this endpoint ended by EXIT crossed it and is
\* dropped, unless the peer had already half-closed.
DataVerdict(e, f) ==
    IF f.id = 0 THEN "stream 0"
    ELSE IF e = Node /\ f.ch = "stderr" THEN "role"
    ELSE IF f.id \in locallyClosed[e]
         THEN IF st[e][f.id].peerDataClosed THEN "DATA after END_STREAM" ELSE "crossing"
    ELSE IF f.id \notin streams[e] THEN "unknown stream"
    ELSE IF st[e][f.id].peerDataClosed THEN "DATA after END_STREAM"
    ELSE IF f.units > Window - st[e][f.id].outstanding THEN "window exceeded"
    ELSE "ok"

ReceiveData(e) ==
    /\ Arrived(e, "DATA")
    /\ LET f == Head(net[e])
           verdict == DataVerdict(e, f)
       IN IF verdict \notin {"ok", "crossing"}
          THEN Poison(e, verdict)
          ELSE /\ st' = [st EXCEPT
                     ![e][f.id].peerDataClosed = @ \/ f.end,
                     ![e][f.id].outstanding = IF verdict = "ok" THEN @ + f.units ELSE @]
               /\ got' = IF verdict = "ok" /\ f.units > 0
                         THEN [got EXCEPT ![e][f.id] = Append(@, f.ch)] ELSE got
               /\ net' = Rest(e)
               /\ UNCHANGED <<streams, locallyClosed, nextStreamId, nextPeerStreamId,
                              sentGoAway, receivedGoAway, failed, used, sent,
                              reported, seen>>

ExitVerdict(e, f) ==
    IF f.id = 0 THEN "stream 0"
    ELSE IF e # Controller THEN "role"
    ELSE IF f.id \notin streams[e] THEN "unknown stream"
    ELSE "ok"

ReceiveExit(e) ==
    /\ Arrived(e, "EXIT")
    /\ LET f == Head(net[e]) IN
       IF ExitVerdict(e, f) # "ok"
       THEN Poison(e, ExitVerdict(e, f))
       ELSE /\ streams' = [streams EXCEPT ![e] = @ \ {f.id}]
            /\ st' = [st EXCEPT ![e][f.id] = FreshStream]
            /\ seen' = [seen EXCEPT ![f.id] = f.value]
            /\ net' = Rest(e)
            /\ UNCHANGED <<locallyClosed, nextStreamId, nextPeerStreamId, sentGoAway,
                           receivedGoAway, failed, used, sent, got, reported>>

UpdateVerdict(e, f) ==
    IF f.id = 0 THEN "stream 0"
    ELSE IF f.value = 0 THEN "zero delta"
    ELSE IF f.id \in locallyClosed[e] THEN "crossing"
    ELSE IF f.id \notin streams[e] THEN "unknown stream"
    ELSE IF st[e][f.id].sendCredit + f.value > MaxWindow THEN "window overflow"
    ELSE "ok"

\* (Mutant: the credit is noted and nothing is flushed.)
ReceiveWindowUpdateNoFlush(e) ==
    /\ Arrived(e, "WINDOW_UPDATE")
    /\ LET f == Head(net[e]) IN
       IF UpdateVerdict(e, f) # "ok"
       THEN UNCHANGED <<st>>
       ELSE st' = [st EXCEPT ![e][f.id].sendCredit = @ + f.value]
    /\ net' = Rest(e)
    /\ UNCHANGED <<streams, locallyClosed, nextStreamId, nextPeerStreamId, sentGoAway,
                   receivedGoAway, failed, used, sent, got, reported, seen>>
ReceiveWindowUpdate(e) ==
    /\ Arrived(e, "WINDOW_UPDATE")
    /\ LET f == Head(net[e])
           verdict == UpdateVerdict(e, f)
       IN CASE verdict = "ok" ->
                 /\ FlushStream(e, f.id, [st[e][f.id] EXCEPT !.sendCredit = @ + f.value],
                                Rest(e))
                 /\ UNCHANGED <<nextStreamId, nextPeerStreamId, sentGoAway,
                                receivedGoAway, failed, used, sent, got, reported, seen>>
            [] verdict = "crossing" ->
                 /\ net' = Rest(e)
                 /\ UNCHANGED <<sessionVars, used, sent, got, reported, seen>>
            [] OTHER -> Poison(e, verdict)

\* PING, PONG and GOAWAY must be connection frames (stream 0).
ReceiveConnection(e) ==
    /\ \E type \in {"PING", "PONG", "GOAWAY"} : Arrived(e, type)
    /\ LET f == Head(net[e]) IN
       IF f.id # 0
       THEN Poison(e, "connection frame on a stream")
       ELSE /\ net' = IF f.type = "PING"
                      THEN [Rest(e) EXCEPT ![Peer(e)] = Append(@, ConnFrame("PONG"))]
                      ELSE Rest(e)
            /\ receivedGoAway' = [receivedGoAway EXCEPT ![e] = @ \/ f.type = "GOAWAY"]
            /\ UNCHANGED <<streams, locallyClosed, st, nextStreamId, nextPeerStreamId,
                           sentGoAway, failed, used, sent, got, reported, seen>>

\* A peer that does not follow the protocol puts an arbitrary frame on the wire.
Inject(e) ==
    /\ load.faulty
    /\ used < load.extras
    /\ used' = used + 1
    /\ \E f \in FaultyFrames : net' = [net EXCEPT ![e] = Append(@, f)]
    /\ UNCHANGED <<sessionVars, sent, got, reported, seen>>

Receive(e) ==
    \/ ReceiveOpen(e) \/ ReceiveData(e) \/ ReceiveExit(e)
    \/ ReceiveWindowUpdate(e) \/ ReceiveConnection(e)

Step ==
    \/ Open
    \/ \E e \in Ends, id \in Ids :
          \/ \E ch \in Channels, units \in 0 .. MaxUnits(e), end \in BOOLEAN :
                SendData(e, id, ch, units, end)
          \/ \E n \in 1 .. Window : Consume(e, id, n)
    \/ \E id \in Ids, status \in Statuses : SendExit(id, status)
    \/ \E e \in Ends : Ping(e) \/ GoAway(e) \/ Receive(e) \/ Inject(e)

Next == Step /\ UNCHANGED load

Spec == Init /\ [][Next]_vars

\* The reactor dispatches every frame that arrives, and an application that
\* was given data consumes it (the controller's onData at once, the node as the
\* stage reads its stdin).  Nothing is assumed of the producers.
Fairness ==
    \A e \in Ends :
        /\ WF_vars(Receive(e) /\ UNCHANGED load)
        /\ \A id \in Ids : WF_vars((\E n \in 1 .. Window : Consume(e, id, n)) /\ UNCHANGED load)

FairSpec == Spec /\ Fairness

-----------------------------------------------------------------------------
\* No failure, or what dispatch() says of a frame ("ok" and "crossing" are harmless).
Verdicts ==
    {"no", "ok", "crossing", "stream 0", "role", "OPEN after GOAWAY", "OPEN out of sequence",
     "DATA after END_STREAM", "unknown stream", "window exceeded", "zero delta",
     "window overflow", "connection frame on a stream"}

StreamType ==
    [queue : Seq(Channels), sendCredit : 0 .. MaxWindow, sendEndPending : BOOLEAN,
     exitPending : BOOLEAN, exitStatus : Statuses \cup {None},
     localDataClosed : BOOLEAN, peerDataClosed : BOOLEAN,
     outstanding : 0 .. Window, pendingUpdate : 0 .. Window]

TypeOK ==
    /\ streams \in [Ends -> SUBSET Ids]
    /\ locallyClosed \in [Ends -> SUBSET Ids]
    /\ st \in [Ends -> [Ids -> StreamType]]
    /\ nextStreamId \in 1 .. MaxStreams + 1
    /\ nextPeerStreamId \in 1 .. MaxStreams + 1
    /\ sentGoAway \in [Ends -> BOOLEAN]
    /\ receivedGoAway \in [Ends -> BOOLEAN]
    /\ failed \in [Ends -> Verdicts]
    /\ used \in 0 .. load.extras
    /\ sent \in [Ends -> [Ids -> Seq(Channels)]]
    /\ got \in [Ends -> [Ids -> Seq(Channels)]]
    /\ reported \in [Ids -> Statuses \cup {None}]
    /\ seen \in [Ids -> Statuses \cup {None}]

\* Two sessions that run this code never poison each other: no interleaving of
\* half-closes, EXITs and credit with frames crossing them is mistaken for a
\* protocol violation (the locallyClosedStreams_ rules of dispatch()).  The one
\* exception is an OPEN that crosses the GOAWAY of a draining node.
NeverPoisoned ==
    ~load.faulty =>
        /\ failed[Controller] = "no"
        /\ failed[Node] = "no" \/ (Node \in load.drain /\ failed[Node] = "OPEN after GOAWAY")

\* A frame with a unit of id's payload, and one with credit for id.
IsUnit(f, id) == f.type = "DATA" /\ f.id = id /\ f.units > 0
IsCredit(f, id) == f.type = "WINDOW_UPDATE" /\ f.id = id

\* The units of id among the first n frames of a wire, and the credit on it.
UnitsAhead(wire, id, n) == Cardinality({i \in 1 .. n : IsUnit(wire[i], id)})
UnitsOn(wire, id) == UnitsAhead(wire, id, Len(wire))
CreditOn(wire, id) ==
    Cardinality({x \in (1 .. Len(wire)) \X (1 .. MaxWindow) :
                    IsCredit(wire[x[1]], id) /\ x[2] <= wire[x[1]].value})

\* out is in, then the units of id on the wire, then queue.
Conserves(out, in, wire, id, queue) ==
    /\ Len(out) = Len(in) + UnitsOn(wire, id) + Len(queue)
    /\ \A i \in 1 .. Len(in) : out[i] = in[i]
    /\ \A i \in 1 .. Len(wire) :
          IsUnit(wire[i], id) => out[Len(in) + UnitsAhead(wire, id, i)] = wire[i].ch
    /\ \A i \in 1 .. Len(queue) : out[Len(out) - Len(queue) + i] = queue[i]

\* Stage output is neither lost, duplicated nor reordered across the credit
\* queue and the wire, and its channel tags survive: what the node handed to
\* sendData is what was delivered, then what is in flight, then what is queued.
OutputConserved ==
    ~load.faulty => \A id \in Ids :
        Conserves(sent[Node][id], got[Controller][id], net[Controller], id, st[Node][id].queue)

\* The controller learns of an exit only after every byte of output, and it is
\* the status the stage reported: EXIT never overtakes credit-blocked DATA.
ExitAfterOutput ==
    ~load.faulty => \A id \in Ids : seen[id] # None =>
        /\ got[Controller][id] = sent[Node][id]
        /\ seen[id] = reported[id]

\* Whatever the peer sends, a stream that ended stays ended: its output and its
\* status are final, and its id is never opened again.
ClosedStaysClosed ==
    [][\A id \in Ids :
          /\ seen[id] # None => /\ seen'[id] = seen[id]
                                /\ got'[Controller][id] = got[Controller][id]
                                /\ id \notin streams'[Controller]
          /\ id \in locallyClosed[Node] => id \notin streams'[Node]]_vars

\* Every exit a stage reports reaches the controller, however little credit the
\* output ahead of it had, unless the connection is poisoned: credit-blocked DATA
\* always drains.
ExitDelivered ==
    \A id \in Ids :
        reported[id] # None ~> seen[id] # None \/ \E e \in Ends : failed[e] # "no"

\* What two sessions owe each other on every interleaving: no honest frame is
\* fatal, the output arrives whole and in order, and EXIT comes last (sendData,
\* flushStream, sendExit and dispatch of session.cpp).
SessionSound == TypeOK /\ NeverPoisoned /\ OutputConserved /\ ExitAfterOutput
=============================================================================
