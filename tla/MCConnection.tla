---------------------------- MODULE MCConnection ----------------------------
(* Scenarios for Connection: every way a connect can go, each kind of peer,  *)
(* a partition on a slow and on a fast network, a peer that hangs up, and    *)
(* two connections failing one after the other on one server.                *)
EXTENDS Connection

Each(c, n) == [ctl |-> c, node |-> n]

One(addrs, cred) ==
    [conns |-> 1, addrs |-> <<addrs>>, cred |-> <<cred>>, ticks |-> Each(3, 1), data |-> Each(0, 1),
     faults |-> 1, timely |-> FALSE, hangup |-> FALSE]
Two(cred, ticks) ==
    [conns |-> 2, addrs |-> << <<"local">>, <<"local">> >>, cred |-> cred, ticks |-> ticks,
     data |-> Each(0, 0), faults |-> 1, timely |-> TRUE, hangup |-> TRUE]

MCScenarios ==
    { One(<<"up">>, "ok"),
      [One(<<"up">>, "ok") EXCEPT !.ticks = Each(0, 3), !.data = Each(1, 0)],
      [One(<<"refused", "timeout", "up">>, "ok") EXCEPT
          !.data = Each(1, 2), !.ticks = Each(0, 1), !.faults = 2, !.hangup = TRUE],
      [One(<<"timeout", "local">>, "ok") EXCEPT !.timely = TRUE, !.ticks = Each(5, 3)],
      One(<<"timeout", "refused">>, "ok"), One(<<"refused">>, "ok"),
      [One(<<"local">>, "unlisted") EXCEPT !.data = Each(2, 0)],
      [One(<<"up">>, "revoked") EXCEPT !.data = Each(1, 0)], One(<<"up">>, "imposter"),
      Two(<<"unlisted", "revoked">>, Each(1, 1)), Two(<<"unlisted", "ok">>, Each(1, 0)) }
=============================================================================
