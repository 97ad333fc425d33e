------------------------- MODULE MCSegmentedPipeline -------------------------
(* Chains of every mix of localities up to three stages, with and without a  *)
(* fan-in source and an endless producer.                                    *)
EXTENDS SegmentedPipeline

L == "local"
R == "remote"
Plain(ss, n, e) == [stages |-> ss, hosts |-> 0, work |-> n, endless |-> e]
FanIn(ss, h, n, e) == [stages |-> ss, hosts |-> h, work |-> n, endless |-> e]

MCChains ==
    {Plain(ss, 2, e) : ss \in {<<L, L>>, <<L, R>>, <<R, L>>, <<R, R>>}, e \in BOOLEAN}
    \cup {Plain(ss, 2, e) : ss \in {<<L, R, L>>, <<R, L, R>>, <<R, R, R>>}, e \in BOOLEAN}
    \cup {FanIn(ss, 2, 2, e) : ss \in {<<>>, <<L>>, <<R>>, <<R, L>>}, e \in BOOLEAN}
=============================================================================
