------------------------------ MODULE MCNativeRun ------------------------------
(* Model values for module NativeRun. *)
EXTENDS NativeRun

\* No canary, one target, 50 % (two of three), all of them, and 0 %, which counts
\* as 1 %.
MCCanarySpecs ==
    {NoCanary, [percent |-> FALSE, value |-> 1], [percent |-> TRUE, value |-> 50],
     [percent |-> TRUE, value |-> 100], [percent |-> TRUE, value |-> 0]}
=============================================================================
