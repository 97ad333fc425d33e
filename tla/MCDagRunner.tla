----------------------------- MODULE MCDagRunner -----------------------------
(* Pipelines for DagRunner: a chain, a fan-out, a fan-in, a diamond and ones *)
(* that run() refuses.                                                       *)
EXTENDS DagRunner

Local(id) == [id |-> id, argv |-> TRUE, placement |-> "local"]
Pipe(ids, es, units, size) ==
    [stages |-> [i \in DOMAIN ids |-> Local(ids[i])], edges |-> es, work |-> units, capacity |-> size]

Chain == Pipe(<<"a", "b">>, << <<"a", "b">>, <<"a", "b">> >>, 5, 2)
FanOut == Pipe(<<"b", "a", "c">>, << <<"a", "b">>, <<"a", "c">> >>, 3, 1)
FanIn == Pipe(<<"a", "b", "c">>, << <<"a", "c">>, <<"b", "c">> >>, 1, 1)
Diamond == Pipe(<<"a", "b", "c", "d">>,
                << <<"a", "b">>, <<"a", "c">>, <<"b", "d">>, <<"c", "d">> >>, 1, 1)
Loop == Pipe(<<"a", "b">>, << <<"a", "b">>, <<"b", "a">> >>, 1, 1)
Remote == [Chain EXCEPT !.stages[2].placement = "web1"]

MCPipelines == {Chain, FanOut, FanIn, Diamond, Loop, Remote}

\* Every graph on three stages, and some on four, each edge mentioned twice.
Edges3 == << <<"c", "a">>, <<"a", "b">>, <<"a", "c">>, <<"b", "a">>, <<"b", "c">>,
             <<"c", "b">>, <<"b", "b">> >>
Chosen(es) == SelectSeq(Edges3, LAMBDA e : e \in es)
Edges4 == {<< <<"a", "b">>, <<"b", "c">>, <<"c", "b">>, <<"c", "d">> >>,
           << <<"d", "c">>, <<"c", "b">>, <<"b", "a">>, <<"d", "a">> >>,
           << <<"a", "d">>, <<"b", "d">>, <<"d", "c">>, <<"c", "a">> >>,
           << <<"a", "e">> >>}
MCGraphs ==
    {Pipe(<<"a", "b", "c">>, Chosen(es) \o Chosen(es), 1, 1) : es \in SUBSET ToSet(Edges3)}
    \cup {Pipe(<<"c", "a", "b", "d">>, es \o es, 1, 1) : es \in Edges4}
    \cup {Pipe(<<"a", "b", "a">>, <<>>, 1, 1), Pipe(<<>>, <<>>, 1, 1), Pipe(<<"a", NoId>>, <<>>, 1, 1)}

\* A host, a group of two, a group of one, and a group with a host's name.
MCInventories == {<< [name |-> "web1", groups |-> {"web", "one"}], [name |-> "web2", groups |-> {"web"}] >>,
                  << [name |-> "web1", groups |-> {"web1"}], [name |-> "web2", groups |-> {"web1"}] >>}

MCPlacements == {<<a, b, c, "">> : a, b, c \in {"", "web1", "web", "one"}}
=============================================================================
