------------------------------ MODULE MCReactor ------------------------------
(* Programs and spawn specifications for Reactor. *)
EXTENDS Reactor

Plain == [program |-> TRUE, cwdExists |-> TRUE, stdio |-> <<Null, 5, 5>>, open |-> 0..6, extra |-> <<>>]
\* The password pipe at descriptor 3, with sources that other dup2s overwrite.
Crossed == [Plain EXCEPT !.stdio = <<3, Inherit, 4>>,
                         !.extra = << [source |-> 4, target |-> 3], [source |-> 3, target |-> 4],
                                      [source |-> 6, target |-> 6] >>]
Clash == [Plain EXCEPT !.extra = << [source |-> 4, target |-> 3], [source |-> 5, target |-> 3] >>]
MCSpecs == {Plain, Crossed, Clash}

Program(b, c, calls, batch) == [backend |-> b, children |-> c, calls |-> calls, kEventBatch |-> batch]
MCScenarios ==
    {Program(b, "pidfd", {"io"}, 2) : b \in {"epoll", "poll"}}
    \union {Program("epoll", "pidfd", {"io", "stop"}, 1)}
    \union {Program("epoll", c, {"child"}, 1) : c \in {"pidfd", "signal"}}
    \union {Program("poll", "signal", {"timer", "signal", "stop"}, 2)}
=============================================================================
