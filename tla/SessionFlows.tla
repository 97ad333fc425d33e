----------------------------- MODULE SessionFlows -----------------------------
(***************************************************************************)
(* What the sessions implement: each direction of each stream is a         *)
(* CreditFlow (flow control of session.cpp against credit_window.cpp).     *)
(***************************************************************************)
EXTENDS Session

\* The node has not ended stream id.
Running(id) == id \notin locallyClosed[Node]

\* A peer rejected a frame as a flow-control error.
FlowViolated ==
    \E e \in Ends : failed[e] \in {"window exceeded", "window overflow"}

\* The refinement is about two endpoints that follow the protocol; a broken
\* peer's behaviours map to one in which nothing happens.  The windows of a stream
\* go when its EXIT is sent.
Mapped(id, value, initial) ==
    IF load.faulty THEN initial ELSE IF Running(id) THEN value ELSE 0

\* The direction of stream id in which e sends.
Flow(e, id) ==
    INSTANCE CreditFlow WITH
        live <- load.faulty \/ Running(id),
        sendCredit <- Mapped(id, st[e][id].sendCredit, Window),
        wire <- Mapped(id, UnitsOn(net[Peer(e)], id), 0),
        outstanding <- Mapped(id, st[Peer(e)][id].outstanding, 0),
        pendingUpdate <- Mapped(id, st[Peer(e)][id].pendingUpdate, 0),
        grants <- Mapped(id, CreditOn(net[e], id), 0),
        violated <- ~load.faulty /\ FlowViolated

\* Each direction of each stream behaves as CreditFlow allows, that is
\* \A e, id : Flow(e, id)!Spec in a form that TLC evaluates: sendData, dispatch
\* and consume never mint, lose or strand credit (session.cpp against
\* credit_window.cpp).
FlowsImplemented ==
    /\ \A e \in Ends, id \in Ids : Flow(e, id)!Init
    /\ [][\A e \in Ends, id \in Ids : [Flow(e, id)!Next]_(Flow(e, id)!vars)]_vars
=============================================================================
