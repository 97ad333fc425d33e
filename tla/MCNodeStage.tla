----------------------------- MODULE MCNodeStage -----------------------------
(* What stages do in the model-checked instance of NodeStage. *)
EXTENDS NodeStage

Load(output, input, forks, unwatched) ==
    [output |-> output, input |-> input, forks |-> forks, unwatched |-> unwatched]

\* Output that passes the high-water mark by a chunk, from a group that outlives
\* its leader; stdin that outlasts its window and its pipe, next to some output;
\* and a stage whose stdin and exit the reactor could not watch.
MCLoads ==
    {Load(3, 0, TRUE, {}), Load(1, 4, FALSE, {}), Load(1, 1, FALSE, {"stdin", "child"})}
=============================================================================
