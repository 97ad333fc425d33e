------------------------------ MODULE Connection ------------------------------
(***************************************************************************)
(* One native backplane connection per controller-node pair: the resolved  *)
(* addresses tried in turn (socket.cpp), the mutual TLS 1.3 handshake      *)
(* (os/tls.cpp) driven by TlsStream on the reactor (tls_stream.cpp), the   *)
(* identity check and the heartbeat lease of NativeTransport               *)
(* (native_transport.cpp), and the NodeServer that accepts connections and *)
(* reaps the failed ones (node_server.cpp).                                *)
(*                                                                         *)
(* A record on the wire is a TLS flight ("CH", "SF", "CF") or one frame of *)
(* the session: "ping", "pong", "bad" (a frame the session refuses) or a   *)
(* numbered data frame.  Session itself is the module Session; here it     *)
(* answers a ping and keeps the data it is given.  A partition delays      *)
(* everything in flight; a closed socket shows as end-of-file or a reset.  *)
(***************************************************************************)
EXTENDS Integers, Sequences, FiniteSets, FiniteSetsExt, SequencesExt

CONSTANTS
    Scenarios,     \* link count, addresses, credentials and budgets of a run
    SockCapacity,  \* records one direction of a socket buffers
    maxMissed      \* HeartbeatOptions.maxMissed

VARIABLES
    sc,      \* the scenario of this run
    link,    \* link[k]: both ends of connection k and the wire between them
    server,  \* NodeServer's members
    faults   \* faults used so far

vars == <<sc, link, server, faults>>

Sides == {"ctl", "node"}

ASSUME ConnectionAssumption == SockCapacity \in Nat \ {0} /\ maxMissed \in Nat \ {0}

\* The addresses of each connection are up, on this host, refused or silent.
ASSUME ScenariosAssumption ==
    \A s \in Scenarios :
        /\ s.conns \in Nat /\ s.faults \in Nat
        /\ s.addrs \in [1 .. s.conns -> Seq({"up", "local", "refused", "timeout"})]
        /\ s.data \in [Sides -> Nat] /\ s.ticks \in [Sides -> Nat]
        /\ s.timely \in BOOLEAN /\ s.hangup \in BOOLEAN

Peer(e) == IF e = "ctl" THEN "node" ELSE "ctl"
Conns == 1..sc.conns
Frame(t) == [t |-> t, n |-> 0]
Data(i) == [t |-> "data", n |-> i]

\* What TlsStream, NativeTransport and the socket of one end hold before start().
FreshEnd ==
    [life |-> "none", connectConfirmed |-> TRUE, token |-> FALSE, wantWrite |-> FALSE,
     hs |-> "start", established |-> FALSE, streamFailed |-> FALSE, outbound |-> <<>>, fed |-> <<>>,
     ready |-> FALSE, failed |-> FALSE, cause |-> "none", timer |-> FALSE,
     sawInbound |-> FALSE, missedBeats |-> 0, addressCursor |-> 0,
     sent |-> 0, got |-> <<>>, silent |-> 0, ticks |-> 0, badSeen |-> FALSE]

FreshLink ==
    [end |-> [e \in Sides |-> FreshEnd], to |-> [e \in Sides |-> <<>>], shut |-> [e \in Sides |-> FALSE],
     tcp |-> FALSE, cut |-> FALSE, everCut |-> FALSE, reset |-> FALSE]

Init ==
    /\ sc \in Scenarios
    /\ link = [k \in 1..sc.conns |-> FreshLink]
    /\ server = [connections |-> {}, pendingRemoval |-> <<>>, reapScheduled |-> FALSE,
                 reapTimer |-> FALSE, acceptedTotal |-> 0]
    /\ faults = 0

-----------------------------------------------------------------------------
(* TlsStream and NativeTransport.  Every operator takes a link l and a side  *)
(* e and returns the link after the call, re-entrant callbacks included.     *)

\* NativeTransport::fail: the first failure only; the owner's onError runs.
transportFail(l, e, why) ==
    IF l.end[e].failed THEN l
    ELSE [l EXCEPT !.end[e].failed = TRUE, !.end[e].cause = why]

\* TlsStream::fail: stop watching, then report to the transport.
fail(l, e, why) ==
    IF l.end[e].streamFailed THEN l
    ELSE transportFail([l EXCEPT !.end[e].streamFailed = TRUE, !.end[e].token = FALSE], e, why)

\* flushOutbound: write until the socket is full; a reset socket refuses.  What
\* is written to a peer that has closed is lost.
flushOutbound(l, e) ==
    LET out == l.end[e].outbound
        room == SockCapacity - Len(l.to[Peer(e)])
        n == IF Len(out) <= room THEN Len(out) ELSE room
    IN  CASE out = <<>> -> l
          [] out # <<>> /\ l.reset -> fail(l, e, "write")
          [] out # <<>> /\ ~l.reset /\ l.shut[Peer(e)] -> [l EXCEPT !.end[e].outbound = <<>>]
          [] OTHER -> [l EXCEPT !.end[e].outbound = SubSeq(out, n + 1, Len(out)),
                                !.to[Peer(e)] = @ \o SubSeq(out, 1, n)]

\* Mutant: the interest set never asks for writability.
updateInterestReadOnly(l, e) == l
updateInterest(l, e) ==
    IF l.end[e].streamFailed \/ ~l.end[e].token THEN l
    ELSE [l EXCEPT !.end[e].wantWrite = l.end[e].outbound # <<>>]

\* Tls::write and takeEncrypted: a frame is encrypted in order, behind the rest.
write(l, e, frame) == [l EXCEPT !.end[e].outbound = Append(@, frame)]

send(l, e, frame) ==
    IF l.end[e].streamFailed THEN l ELSE updateInterest(flushOutbound(write(l, e, frame), e), e)

\* NativeTransport::armHeartbeat with the lease on.
armHeartbeat(l, e) == [l EXCEPT !.end[e].timer = TRUE]

\* Session::receive, frame by frame: a ping is answered, data is handed on, a
\* frame the session refuses poisons the rest and fails the transport.
receiveFrame(l, e, f) ==
    CASE l.end[e].badSeen -> l
      [] ~l.end[e].badSeen /\ f.t = "ping" -> send(l, e, Frame("pong"))
      [] ~l.end[e].badSeen /\ f.t = "pong" -> l
      [] ~l.end[e].badSeen /\ f.t = "bad" ->
            transportFail([l EXCEPT !.end[e].badSeen = TRUE], e, "protocol")
      [] OTHER -> [l EXCEPT !.end[e].got = Append(@, f)]
receive(l, e, frames) ==
    LET after[i \in 0 .. Len(frames)] == IF i = 0 THEN l ELSE receiveFrame(after[i - 1], e, frames[i])
    IN  after[Len(frames)]

\* Mutant: data is handed to the session of a transport that has failed.
onDataAlways(l, e, frames) ==
    receive([l EXCEPT !.end[e].sawInbound = TRUE, !.end[e].silent = 0], e, frames)
onData(l, e, frames) ==
    IF l.end[e].failed THEN l
    ELSE receive([l EXCEPT !.end[e].sawInbound = TRUE, !.end[e].silent = 0], e, frames)

\* What the socket held goes into Tls, to be decrypted.
feedEncrypted(l, e) == [l EXCEPT !.end[e].fed = @ \o l.to[e], !.to[e] = <<>>]

\* deliverAppData: everything SSL_read can decrypt goes up in one callback.
deliverAppData(l, e) ==
    LET frames == l.end[e].fed
        m == [l EXCEPT !.end[e].fed = <<>>]
    IN  IF l.end[e].streamFailed \/ frames = <<>> THEN l ELSE onData(m, e, frames)

\* The transport's onReady: authorize the peer's SAN URI, then start the lease.
peerSanUri(k) == IF sc.cred[k] = "unlisted" THEN "psx://other" ELSE "psx://controller"
authorize(san) == san = "psx://controller"
onReady(k, l, e) ==
    IF e = "node" /\ ~authorize(peerSanUri(k)) THEN transportFail(l, e, "unauthorized")
    ELSE armHeartbeat([l EXCEPT !.end[e].sawInbound = TRUE, !.end[e].ready = TRUE], e)

\* SSL_do_handshake on what has been fed: done, wants more, or a refused peer
\* certificate (each end verifies the other against the CA and its CRL).
handshake(k, e, hs, fed) ==
    CASE e = "ctl" /\ hs = "start" -> [hs |-> "wait", used |-> 0, out |-> <<Frame("CH")>>]
      [] e = "node" /\ hs = "start" /\ fed # <<>> -> [hs |-> "wait", used |-> 1, out |-> <<Frame("SF")>>]
      [] e = "ctl" /\ hs = "wait" /\ fed # <<>> ->
            IF sc.cred[k] = "imposter" THEN [hs |-> "refused", used |-> 0, out |-> <<>>]
            ELSE [hs |-> "done", used |-> 1, out |-> <<Frame("CF")>>]
      [] e = "node" /\ hs = "wait" /\ fed # <<>> ->
            IF sc.cred[k] = "revoked" THEN [hs |-> "refused", used |-> 0, out |-> <<>>]
            ELSE [hs |-> "done", used |-> 1, out |-> <<>>]
      [] OTHER -> [hs |-> hs, used |-> 0, out |-> <<>>]

driveHandshake(k, l, e) ==
    LET r == handshake(k, e, l.end[e].hs, l.end[e].fed)
        m == [l EXCEPT !.end[e].hs = r.hs, !.end[e].outbound = @ \o r.out,
                       !.end[e].fed = SubSeq(@, r.used + 1, Len(@))]
    IN  CASE l.end[e].established \/ l.end[e].streamFailed -> l
          [] ~l.end[e].established /\ ~l.end[e].streamFailed /\ r.hs = "refused" -> fail(l, e, "handshake")
          [] ~l.end[e].established /\ ~l.end[e].streamFailed /\ r.hs = "done" ->
                deliverAppData(onReady(k, [m EXCEPT !.end[e].established = TRUE], e), e)
          [] OTHER -> m

\* The tail of start(), confirmConnect() and onReadable().
settle(l, e) == updateInterest(flushOutbound(l, e), e)

\* onReadable drains the socket; end-of-file or an error found while draining
\* fails the stream at once, before what was drained is decrypted.
onReadable(k, l, e) ==
    LET m == feedEncrypted(l, e)
    IN  CASE l.reset -> fail(l, e, "reset")
          [] ~l.reset /\ l.shut[Peer(e)] -> fail(m, e, "closed")
          [] ~l.reset /\ ~l.shut[Peer(e)] /\ ~l.end[e].established -> settle(driveHandshake(k, m, e), e)
          [] OTHER -> settle(deliverAppData(m, e), e)

\* Socket::connectFrom(i): the first address from i on that answers at once or
\* is in progress; the cursor moves past every address tried.
Answers(k, i) == sc.addrs[k][i] \in {"up", "local"}
Tried(k, i) == {j \in (i + 1)..Len(sc.addrs[k]) : sc.addrs[k][j] # "refused"}
connectFrom(k, l, i) ==
    LET j == Min(Tried(k, i))
    IN  IF Tried(k, i) = {} THEN [l EXCEPT !.end["ctl"].addressCursor = Len(sc.addrs[k])]
        ELSE [l EXCEPT !.end["ctl"].addressCursor = j,
                       !.end["ctl"].connectConfirmed = sc.addrs[k][j] = "local",
                       !.tcp = Answers(k, j)]

\* TlsStream::start on a socket that is connected or still connecting.
start(k, l, e) ==
    LET m == [l EXCEPT !.end[e].life = "live", !.end[e].token = TRUE,
                       !.end[e].wantWrite = ~l.end[e].connectConfirmed]
    IN  IF l.end[e].connectConfirmed THEN settle(driveHandshake(k, m, e), e) ELSE m

\* confirmConnect: the pending connect succeeded, or the next address is tried
\* and confirmed in its turn, or there is none left.
confirmConnect(k, l) ==
    LET i == l.end["ctl"].addressCursor
        next == connectFrom(k, l, i)
    IN  CASE Answers(k, i) ->
                settle(driveHandshake(k, [l EXCEPT !.end["ctl"].connectConfirmed = TRUE], "ctl"), "ctl")
          [] ~Answers(k, i) /\ Tried(k, i) = {} -> fail(next, "ctl", "connect")
          [] OTHER -> [next EXCEPT !.end["ctl"].connectConfirmed = FALSE]

\* The part of heartbeatTick that judges the interval that just ended.  silent
\* and ticks are history variables: ticks since the last inbound data, and all.
countBeat(l, e) ==
    [l EXCEPT !.end[e].timer = FALSE, !.end[e].silent = @ + 1, !.end[e].ticks = @ + 1,
              !.end[e].missedBeats = IF l.end[e].sawInbound THEN 0 ELSE @ + 1]
expired(l, e) == ~l.end[e].sawInbound /\ l.end[e].missedBeats + 1 >= maxMissed

\* Mutant: a tick does not elicit proof of life for the next interval.
heartbeatTickNoPing(l, e) ==
    CASE l.end[e].failed -> [l EXCEPT !.end[e].timer = FALSE]
      [] ~l.end[e].failed /\ expired(l, e) -> transportFail(countBeat(l, e), e, "lease")
      [] OTHER -> armHeartbeat([countBeat(l, e) EXCEPT !.end[e].sawInbound = FALSE], e)

\* heartbeatTick: give up after maxMissed silent intervals in a row, otherwise
\* ping and arm the next tick.
heartbeatTick(l, e) ==
    CASE l.end[e].failed -> [l EXCEPT !.end[e].timer = FALSE]
      [] ~l.end[e].failed /\ expired(l, e) -> transportFail(countBeat(l, e), e, "lease")
      [] OTHER -> armHeartbeat(send([countBeat(l, e) EXCEPT !.end[e].sawInbound = FALSE], e, Frame("ping")), e)

\* ~NativeTransport and ~TlsStream: cancel the timer, unwatch, close the socket.
destroy(l, e) ==
    [l EXCEPT !.end[e].life = "gone", !.end[e].token = FALSE, !.end[e].timer = FALSE,
              !.end[e].outbound = <<>>, !.end[e].fed = <<>>, !.shut[e] = TRUE, !.to[e] = <<>>]

-----------------------------------------------------------------------------
(* NodeServer *)

\* dropConnection: queue the id and schedule one reap after this dispatch.
dropConnection(s, k) ==
    [s EXCEPT !.pendingRemoval = Append(@, k), !.reapScheduled = TRUE,
              !.reapTimer = IF s.reapScheduled THEN @ ELSE TRUE]

\* The node's onError is dropConnection; the controller's owner sees the cause.
Become(k, l) ==
    /\ link' = [link EXCEPT ![k] = l]
    /\ server' = IF l.end["node"].failed /\ ~link[k].end["node"].failed
                 THEN dropConnection(server, k) ELSE server

Live(k, e) == link[k].end[e].life = "live"
Watched(k, e) == Live(k, e) /\ link[k].end[e].token

\* The readiness a poller reports for the socket of this end.
Writable(k, e) ==
    link[k].end[e].wantWrite /\ (Len(link[k].to[Peer(e)]) < SockCapacity \/ link[k].reset \/ link[k].shut[Peer(e)])
Readable(k, e) ==
    ~link[k].cut /\ (link[k].to[e] # <<>> \/ link[k].shut[Peer(e)] \/ link[k].reset)

\* onEvent on a connected socket: flush what waits, then read.
EventDue(k, e) ==
    Watched(k, e) /\ link[k].end[e].connectConfirmed
    /\ (Readable(k, e) \/ (Writable(k, e) /\ link[k].end[e].outbound # <<>>))
onEvent(k, e) ==
    /\ EventDue(k, e)
    /\ LET flushed == IF Writable(k, e) THEN flushOutbound(link[k], e) ELSE link[k]
       IN  Become(k, IF Readable(k, e) /\ ~flushed.end[e].streamFailed
                     THEN onReadable(k, flushed, e) ELSE flushed)
    /\ UNCHANGED <<sc, faults>>

\* onEvent while the connect is pending: it succeeded or failed.
Connecting(k) == Watched(k, "ctl") /\ ~link[k].end["ctl"].connectConfirmed
onConnectEvent(k) ==
    /\ Connecting(k) /\ Become(k, confirmConnect(k, link[k]))
    /\ UNCHANGED <<sc, faults>>

\* Socket::connect, then the transport's start(); with no address that answers
\* the caller gets the error and there is no transport.
connect(k) ==
    /\ link[k].end["ctl"].life = "none"
    /\ LET l == connectFrom(k, link[k], 0)
       IN  Become(k, IF Tried(k, 0) = {}
                     THEN destroy(transportFail(l, "ctl", "connect"), "ctl") ELSE start(k, l, "ctl"))
    /\ UNCHANGED <<sc, faults>>

\* onAccept drains the backlog; a connection whose Tls object or registration
\* cannot be created is closed and forgotten.
Backlog == {k \in Conns : link[k].tcp /\ link[k].end["node"].life = "none"}
onAccept ==
    /\ Backlog # {}
    /\ \E lost \in SUBSET Backlog :
        /\ faults + Cardinality(lost) <= sc.faults
        /\ faults' = faults + Cardinality(lost)
        /\ link' = [k \in Conns |-> CASE k \in lost -> destroy(link[k], "node")
                                      [] k \in Backlog \ lost -> start(k, link[k], "node")
                                      [] OTHER -> link[k]]
        /\ server' = [server EXCEPT !.connections = @ \union (Backlog \ lost),
                                    !.acceptedTotal = @ + Cardinality(Backlog \ lost)]
    /\ UNCHANGED sc

\* Mutant: the flag that says a reap is scheduled is never cleared.
reapOnce(s) ==
    [s EXCEPT !.reapTimer = FALSE, !.pendingRemoval = <<>>, !.connections = @ \ ToSet(s.pendingRemoval)]
reapPending(s) ==
    [s EXCEPT !.reapTimer = FALSE, !.reapScheduled = FALSE, !.pendingRemoval = <<>>,
              !.connections = @ \ ToSet(s.pendingRemoval)]

\* The zero-delay timer: erase, and so destroy, every queued connection.
reap ==
    /\ server.reapTimer
    /\ server' = reapPending(server)
    /\ link' = [k \in Conns |-> IF k \in ToSet(server.pendingRemoval) THEN destroy(link[k], "node") ELSE link[k]]
    /\ UNCHANGED <<sc, faults>>

-----------------------------------------------------------------------------
(* Timers, the network, and the owners of the transports *)

\* Something on connection k is due before the next heartbeat on a network
\* whose round trip is shorter than the interval.
Busy(k) ==
    \/ \E e \in Sides : EventDue(k, e)
    \/ Connecting(k) \/ k \in Backlog
    \/ server.reapTimer /\ k \in ToSet(server.pendingRemoval)
    \/ Live(k, "ctl") /\ link[k].end["ctl"].failed

tick(k, e) ==
    /\ Live(k, e) /\ link[k].end[e].timer
    /\ link[k].end[e].ticks < sc.ticks[e] \/ link[k].end[e].failed
    /\ sc.timely => link[k].cut \/ ~Busy(k)
    /\ Become(k, heartbeatTick(link[k], e))
    /\ UNCHANGED <<sc, faults>>

\* The owner of an end sends a numbered data frame once it is ready.
sendData(k, e) ==
    /\ Live(k, e) /\ link[k].end[e].ready /\ ~link[k].end[e].failed
    /\ link[k].end[e].sent < sc.data[e]
    /\ Become(k, send([link[k] EXCEPT !.end[e].sent = @ + 1], e, Data(link[k].end[e].sent + 1)))
    /\ UNCHANGED <<sc, faults>>

\* A fault: this end sends a frame its peer's session refuses.
sendBad(k, e) ==
    /\ Live(k, e) /\ link[k].end[e].ready /\ ~link[k].end[e].failed /\ faults < sc.faults
    /\ Become(k, send(link[k], e, Frame("bad"))) /\ faults' = faults + 1
    /\ UNCHANGED sc

\* The controller's owner tears its transport down after a failure, or when it
\* has all it wants.
teardown(k) ==
    /\ Live(k, "ctl") /\ (link[k].end["ctl"].failed \/ sc.hangup)
    /\ Become(k, destroy(link[k], "ctl"))
    /\ UNCHANGED <<sc, faults>>

\* The network stops carrying this connection, and starts again.
partition(k) ==
    /\ link[k].tcp /\ ~link[k].cut /\ faults < sc.faults
    /\ Become(k, [link[k] EXCEPT !.cut = TRUE, !.everCut = TRUE]) /\ faults' = faults + 1
    /\ UNCHANGED sc
heal(k) ==
    /\ link[k].cut /\ Become(k, [link[k] EXCEPT !.cut = FALSE])
    /\ UNCHANGED <<sc, faults>>

\* A peer that has closed answers what it is still sent with a reset.
peerResets(k) ==
    /\ link[k].tcp /\ ~link[k].reset /\ \E e \in Sides : link[k].shut[e]
    /\ faults < sc.faults
    /\ Become(k, [link[k] EXCEPT !.reset = TRUE]) /\ faults' = faults + 1
    /\ UNCHANGED sc

Next ==
    \/ \E k \in Conns :
        \/ connect(k) \/ onConnectEvent(k) \/ teardown(k)
        \/ partition(k) \/ heal(k) \/ peerResets(k)
        \/ \E e \in Sides : onEvent(k, e) \/ tick(k, e) \/ sendData(k, e) \/ sendBad(k, e)
    \/ onAccept \/ reap

Spec == Init /\ [][Next]_vars

-----------------------------------------------------------------------------
(* Properties *)

\* Whatever is split over reads, buffered behind a full socket or sent before
\* the peer has finished verifying, each end hands its session a prefix of what
\* the other sent, in order, and the node hands it nothing at all from a peer
\* whose certificate is refused or whose identity is not authorized.
OnlyAuthorizedInOrder ==
    \A k \in Conns, e \in Sides :
        LET got == link[k].end[e].got
        IN  /\ got = [i \in 1..Len(got) |-> Data(i)]
            /\ Len(got) <= link[k].end[Peer(e)].sent
            /\ e = "node" /\ sc.cred[k] \in {"revoked", "unlisted", "imposter"} => got = <<>>

\* A peer that has gone silent is fenced: an end that has gone through maxMissed
\* whole intervals without inbound traffic is failed, so no live end has.
SilentPeerFenced ==
    \A k \in Conns, e \in Sides :
        link[k].end[e].ready /\ ~link[k].end[e].failed => link[k].end[e].silent <= maxMissed

\* A connection fails only for a reason: the connect error means every address
\* was tried and none answers, a lease expiry means maxMissed whole silent
\* intervals, and while the network answers within an interval a live peer
\* never loses its lease, however quiet it is.
FailureJustified ==
    \A k \in Conns, e \in Sides :
        LET end == link[k].end[e]
        IN  /\ end.cause = "connect" => \A i \in DOMAIN sc.addrs[k] : sc.addrs[k][i] \in {"refused", "timeout"}
            /\ end.cause = "lease" =>
                  /\ end.silent > maxMissed
                  /\ sc.timely => link[k].everCut
            /\ end.cause = "unauthorized" => sc.cred[k] = "unlisted"
            /\ end.cause = "handshake" => sc.cred[k] \in {"revoked", "imposter"}

\* Every failed connection the server holds is going to be reaped, and what it
\* has reaped it no longer holds.
FailedIsReaped ==
    \A k \in server.connections :
        /\ link[k].end["node"].failed => server.reapTimer /\ k \in ToSet(server.pendingRemoval)
        /\ link[k].end["node"].life = "live"

\* When nothing more is due on a connection that is up, both ends live and the
\* network whole, then every data frame sent has been delivered: no record is
\* left behind in a buffer that nobody will flush or read again.
NothingStranded ==
    \A k \in Conns :
        /\ ~Busy(k) /\ ~link[k].cut
        /\ \A e \in Sides : Live(k, e) /\ ~link[k].end[e].failed
        => \A e \in Sides : Len(link[k].end[e].got) = link[k].end[Peer(e)].sent /\ link[k].end[e].ready

\* The lease is exact on both sides: it fences a silent peer, and nothing fails
\* a live one (heartbeatTick of native_transport.cpp, confirmConnect of
\* tls_stream.cpp).
LeaseExact == SilentPeerFenced /\ FailureJustified
=============================================================================
