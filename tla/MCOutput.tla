------------------------------ MODULE MCOutput ------------------------------
(***************************************************************************)
(* Bounded instances of the way of the bytes: credit for a direction of a  *)
(* stream, the byte stream, the output path.  They share the spool and     *)
(* nothing else, so a behaviour exercises the one that subject names.      *)
(***************************************************************************)
EXTENDS OutputPath, CreditFlow

VARIABLE subject

MCPipes == [capacity : {0, 2, 3}, policy : Policies]

Setting(hosts, native, kind, ordered, policy, retries, chunks, bytes) ==
    [hosts |-> hosts, native |-> native, sink |-> kind, ordered |-> ordered, policy |-> policy,
     cap |-> 2, maxLine |-> 2, maxRetries |-> retries, chunks |-> chunks, maxBytes |-> bytes]

\* all chunks of one byte and some longer ones, so that a CR and its LF, or the
\* bytes of an over-long line, fall into one chunk or into two
Mixed == {<<"x">>, <<"LF">>, <<"CR">>, <<"CR", "LF">>, <<"x", "x", "x">>, <<"x", "LF", "x">>}
Plain == {<<"x">>, <<"x", "LF">>, <<"x", "x", "x">>}

MCRuns ==
    {Setting(0, FALSE, "group", FALSE, "Block", 0, {}, 0)}
    \cup {Setting(1, native, "stream", FALSE, "Block", 1, Mixed, IF native THEN 5 ELSE 4) : native \in BOOLEAN}
    \cup {Setting(1, native, "json", FALSE, policy, 1, Plain, 4) :
             native \in BOOLEAN, policy \in Policies}
    \cup {Setting(2, FALSE, kind, ordered, "DropOldest", 0, {<<"x">>, <<"x", "LF">>}, 2) :
             kind \in {"group", "json", "stream"}, ordered \in BOOLEAN}
    \cup {Setting(2, FALSE, "group", FALSE, "Spool", 1, {<<"x", "x", "x">>}, 3)}
    \cup {Setting(3, TRUE, "consensus", ordered, "Block", 0, {<<"x", "LF">>}, 2) : ordered \in BOOLEAN}

MCInit ==
    /\ subject \in {"credit", "stream", "output"}
    /\ Init /\ StreamInit /\ OutputInit
    /\ subject # "stream" => stream.ring.capacity = 0 /\ stream.ring.policy = "Block"
    /\ subject = "output" <=> setting.hosts > 0

MCNext ==
    /\ \/ subject = "credit" /\ Next /\ UNCHANGED <<streamVars, outputVars>>
       \/ subject = "stream" /\ StreamNext /\ UNCHANGED <<vars, outputVars>>
       \/ subject = "output" /\ OutputNext /\ UNCHANGED <<vars, streamVars>>
    /\ UNCHANGED subject

MCSpec == MCInit /\ [][MCNext]_<<subject, vars, streamVars, outputVars>>
=============================================================================
