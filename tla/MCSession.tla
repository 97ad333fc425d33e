------------------------------ MODULE MCSession ------------------------------
(***************************************************************************)
(* Session for TLC: what the application sends, and the frames a faulty    *)
(* peer may send.                                                          *)
(***************************************************************************)
EXTENDS SessionFlows

\* Well-formed and misplaced frames of every type, stream 0 included.
AnyFrame ==
    {OpenFrame(id) : id \in 0 .. MaxStreams}
    \cup {DataFrame(id, ch, end) : id \in 0 .. MaxStreams, ch \in Channels, end \in BOOLEAN}
    \cup {ExitFrame(id, 1) : id \in 0 .. MaxStreams}
    \cup {UpdateFrame(id, delta) : id \in 0 .. MaxStreams, delta \in 0 .. 1}
    \cup {[DataFrame(1, "stdout", FALSE) EXCEPT !.units = Window + 1]}
    \cup {ConnFrame("GOAWAY"), [ConnFrame("PONG") EXCEPT !.id = 1]}

\* Output that outlasts its window, stdin that does, a controller that drains, a
\* node that does (an OPEN may cross its GOAWAY), and a peer that breaks the
\* protocol once.
Load(input, output, extras, drain, faulty) ==
    [input |-> input, output |-> output, extras |-> extras, drain |-> drain, faulty |-> faulty]
MCLoads ==
    {Load(0, 5, 0, {}, FALSE), Load(5, 0, 0, {}, FALSE), Load(2, 1, 0, {Controller}, FALSE),
     Load(0, 1, 0, {Node}, FALSE), Load(0, 1, 1, {}, TRUE)}

=============================================================================
