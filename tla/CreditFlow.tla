------------------------------ MODULE CreditFlow ------------------------------
(***************************************************************************)
(* The promise psx/1 flow control makes for one direction of one stream:   *)
(* the sender's Session::Stream::sendCredit on one side, the receiver's    *)
(* CreditWindow on the other, DATA bytes travelling one way and            *)
(* WINDOW_UPDATE credit travelling back.  Bytes and credit in flight are   *)
(* counted, not enumerated: how the bytes are cut into frames is left to   *)
(* module Session, which implements this specification.                    *)
(***************************************************************************)
EXTENDS Naturals

CONSTANTS
    Window,     \* initialWindow_: the credit both peers start a stream with
    MaxWindow   \* kMaxStreamWindow: what sendCredit may never exceed

ASSUME WindowAssumption ==
    /\ Window \in Nat \ {0}
    /\ MaxWindow \in Nat
    /\ Window <= MaxWindow

\* CreditWindow's updateThreshold when none is given.
Threshold == Window \div 2

VARIABLES
    live,           \* the stream has not been closed by its EXIT
    sendCredit,     \* sender: bytes it may still send
    wire,           \* DATA bytes in flight
    outstanding,    \* receiver: delivered to the application, not yet consumed
    pendingUpdate,  \* receiver: consumed, not yet advertised
    grants,         \* WINDOW_UPDATE credit in flight
    violated        \* a peer rejected a frame as a flow-control error

vars == <<live, sendCredit, wire, outstanding, pendingUpdate, grants, violated>>

TypeOK ==
    /\ live \in BOOLEAN
    /\ violated \in BOOLEAN
    /\ sendCredit \in Nat
    /\ wire \in Nat
    /\ outstanding \in Nat
    /\ pendingUpdate \in Nat
    /\ grants \in Nat

Init ==
    /\ live = TRUE
    /\ sendCredit = Window
    /\ wire = 0
    /\ outstanding = 0
    /\ pendingUpdate = 0
    /\ grants = 0
    /\ violated = FALSE

-----------------------------------------------------------------------------
\* CreditWindow::sendable(): what the peer may still send.
Sendable == Window - outstanding

\* CreditWindow::onConsumed advertises at the threshold, or as soon as nothing
\* delivered is left unconsumed.
Advertises(left, freed) == freed > 0 /\ (freed >= Threshold \/ left = 0)

\* flushStream(): k queued bytes leave while credit lasts.
Transmit(k) ==
    /\ live /\ ~violated
    /\ k \in 1 .. sendCredit
    /\ sendCredit' = sendCredit - k
    /\ wire' = wire + k
    /\ UNCHANGED <<live, outstanding, pendingUpdate, grants, violated>>

\* A DATA frame of k bytes arrives: CreditWindow::onData accepts or refuses it.
Deliver(k) ==
    /\ live /\ ~violated
    /\ k \in 1 .. wire
    /\ wire' = wire - k
    /\ IF k > Sendable
       THEN violated' = TRUE /\ UNCHANGED outstanding
       ELSE outstanding' = outstanding + k /\ UNCHANGED violated
    /\ UNCHANGED <<live, sendCredit, pendingUpdate, grants>>

\* Session::consume -> CreditWindow::onConsumed, and the WINDOW_UPDATE it emits.
\* (Mutant: pendingUpdate_ is not reset when it is advertised.)
ConsumeKeepingUpdate(k) ==
    /\ live /\ ~violated
    /\ k \in 1 .. outstanding
    /\ outstanding' = outstanding - k
    /\ pendingUpdate' = pendingUpdate + k
    /\ grants' = IF Advertises(outstanding - k, pendingUpdate + k)
                 THEN grants + pendingUpdate + k ELSE grants
    /\ UNCHANGED <<live, sendCredit, wire, violated>>
Consume(k) ==
    /\ live /\ ~violated
    /\ k \in 1 .. outstanding
    /\ outstanding' = outstanding - k
    /\ IF Advertises(outstanding - k, pendingUpdate + k)
       THEN pendingUpdate' = 0 /\ grants' = grants + pendingUpdate + k
       ELSE pendingUpdate' = pendingUpdate + k /\ UNCHANGED grants
    /\ UNCHANGED <<live, sendCredit, wire, violated>>

\* A WINDOW_UPDATE of d arrives; the sender flushes k queued bytes at once.
Grant(d, k) ==
    /\ live /\ ~violated
    /\ d \in 1 .. grants
    /\ grants' = grants - d
    /\ IF sendCredit + d > MaxWindow
       THEN violated' = TRUE /\ UNCHANGED <<sendCredit, wire>>
       ELSE /\ k \in 0 .. sendCredit + d
            /\ sendCredit' = sendCredit + d - k
            /\ wire' = wire + k
            /\ UNCHANGED violated
    /\ UNCHANGED <<live, outstanding, pendingUpdate>>

\* The stream's EXIT is sent: the Stream and its windows are erased.
Close ==
    /\ live /\ ~violated
    /\ live' = FALSE
    /\ sendCredit' = 0 /\ wire' = 0
    /\ outstanding' = 0 /\ pendingUpdate' = 0 /\ grants' = 0
    /\ UNCHANGED violated

Next ==
    \/ \E k \in 1 .. Window : Transmit(k) \/ Deliver(k) \/ Consume(k)
    \/ \E d \in 1 .. Window, k \in 0 .. Window : Grant(d, k)
    \/ Close

Spec == Init /\ [][Next]_vars

-----------------------------------------------------------------------------
\* Every byte of the window is somewhere: no credit is minted or lost, whatever
\* the order in which frames, consumption and updates interleave.
CreditConserved ==
    live => sendCredit + wire + outstanding + pendingUpdate + grants = Window

\* Peers that follow the code never see each other break flow control: onData
\* never refuses, and no WINDOW_UPDATE overflows kMaxStreamWindow.
NeverViolated == ~violated

\* Credit is never stranded at the receiver: what it holds back is below the
\* threshold and some delivered byte is still unconsumed, whose consumption
\* will release it.  (This is why onConsumed also fires at outstanding = 0.)
NoStrandedCredit ==
    (live /\ pendingUpdate > 0) => (outstanding > 0 /\ pendingUpdate < Threshold)

\* The inductive invariant behind all three.
CreditInv == TypeOK /\ CreditConserved /\ NeverViolated /\ NoStrandedCredit
=============================================================================
