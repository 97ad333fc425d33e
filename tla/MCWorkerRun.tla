------------------------------ MODULE MCWorkerRun ------------------------------
(* Constants for TLC runs of module WorkerRun. *)
EXTENDS WorkerRun

\* --fail-fast or not; Ctrl-C and the deadline may come, at any time or never;
\* one slot or two.
RemoteOptions == [failFast : BOOLEAN, cancellable : {TRUE}, deadline : {TRUE},
                  concurrency : {1, 2}]
=============================================================================
