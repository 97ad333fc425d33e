------------------------------- MODULE Planner -------------------------------
(***************************************************************************)
(* The validation of a pipeline and its execution order (Planner::plan of  *)
(* src/pipeline/planner.cpp).                                              *)
(*                                                                         *)
(* A pipeline is [stages |-> Seq([id, argv, placement]), edges |->         *)
(* Seq(<<from, to>>)], the edges naming stage ids.  An argv is whether the *)
(* stage has a command; NoId is the empty id.                              *)
(***************************************************************************)
EXTENDS Integers, Sequences, FiniteSets, SequencesExt

NoId == "noid"

Ids(p) == {p.stages[i].id : i \in DOMAIN p.stages}

\* The stage's place in definition order.
Position(p, id) == CHOOSE i \in DOMAIN p.stages : p.stages[i].id = id

\* The checks of plan() up to the search for a cycle.
WellFormed(p) ==
    /\ p.stages # <<>>
    /\ \A i \in DOMAIN p.stages :
          /\ p.stages[i].id # NoId
          /\ p.stages[i].argv
          /\ \A j \in 1 .. i - 1 : p.stages[j].id # p.stages[i].id
    /\ \A k \in DOMAIN p.edges :
          /\ {p.edges[k][1], p.edges[k][2]} \subseteq Ids(p)
          /\ p.edges[k][1] # p.edges[k][2]

\* The edges, by position, without the duplicates (`seen`).
UniqueEdges(p) ==
    LET firsts == SelectSeq([k \in DOMAIN p.edges |-> k],
                            LAMBDA k : \A j \in 1 .. k - 1 : p.edges[j] # p.edges[k])
    IN  [k \in DOMAIN firsts |-> << Position(p, p.edges[firsts[k]][1]),
                                    Position(p, p.edges[firsts[k]][2]) >>]

\* (Mutant: a stage is ready as soon as one of its producers is placed.)
KahnTurnEager(es, s) ==
    IF s.ready = <<>> THEN s
    ELSE LET into == SelectSeq(es, LAMBDA e : e[1] = Head(s.ready) /\ e[2] \notin ToSet(s.order))
         IN  [order |-> Append(s.order, Head(s.ready)),
              ready |-> Tail(s.ready) \o [k \in DOMAIN into |-> into[k][2]]]

\* One turn of Kahn's loop: `indegree` of a stage is zero when every producer
\* of it is in the order already.
KahnTurn(es, s) ==
    IF s.ready = <<>> THEN s
    ELSE LET order == Append(s.order, Head(s.ready))
             into == SelectSeq(es, LAMBDA e : e[1] = Head(s.ready))
             fed == SelectSeq([k \in DOMAIN into |-> into[k][2]],
                        LAMBDA n : \A e \in ToSet(es) : e[2] = n => e[1] \in ToSet(order))
         IN  [order |-> order, ready |-> Tail(s.ready) \o fed]

\* Sources first, in definition order; the result is the order as positions.
Order(p) ==
    LET es == UniqueEdges(p)
        sources == SelectSeq([i \in DOMAIN p.stages |-> i],
                             LAMBDA i : \A e \in ToSet(es) : e[2] # i)
    IN  FoldLeft(LAMBDA s, i : KahnTurn(es, s), [order |-> <<>>, ready |-> sources],
                 [i \in DOMAIN p.stages |-> i]).order

\* plan() succeeds: well formed, and the loop placed every stage.
Plannable(p) == WellFormed(p) /\ Len(Order(p)) = Len(p.stages)
=============================================================================
