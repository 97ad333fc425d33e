----------------------------- MODULE PipeCommand -----------------------------
(***************************************************************************)
(* What `pipeshellx pipe` makes of a planned pipeline: which runner gets   *)
(* it, with which hosts, or why it is refused (src/cli/pipe_command.cpp).  *)
(*                                                                         *)
(* An inventory is a sequence of [name, groups].  args is [usage: whether  *)
(* the arguments name one pipeline that parses, inventory: whether -i was  *)
(* given, identity: whether the PEM files were given and read, check].     *)
(* A result is [kind, source, chain]: kind is "refused" (exit 2), "valid"  *)
(* (--check), "local", "segmented" or "fanin"; a chain has a host name for *)
(* each stage, Here for one on the controller.                             *)
(***************************************************************************)
EXTENDS Planner

Here == ""

Refused == [kind |-> "refused", source |-> <<>>, chain |-> <<>>]

\* A placement of "" or "local" is on the controller.
isLocalPlacement(placement) == placement \in {"", "local"}

selectGroup(inventory, group) == SelectSeq(inventory, LAMBDA h : group \in h.groups)

\* Whether selectHosts() knows the name; it throws on one it does not know.
KnownHost(inventory, name) == \E i \in DOMAIN inventory : inventory[i].name = name

stagesInPlanOrder(p) == [n \in DOMAIN Order(p) |-> p.stages[Order(p)[n]]]

\* The declared graph is the plan's order as one chain.
isDeclaredChain(p) ==
    LET es == ToSet(UniqueEdges(p))
        order == Order(p)
    IN  IF Len(order) = 1 THEN es = {}
        ELSE /\ Cardinality(es) + 1 = Len(order)
             /\ \A i \in 1 .. Len(order) - 1 : << order[i], order[i + 1] >> \in es

HostOf(stage) == IF isLocalPlacement(stage.placement) THEN Here ELSE stage.placement

\* The group's hosts are the source; a group further on is refused.
runFanIn(stages, inventory) ==
    LET later == Tail(stages)
        resolves(stage) == \/ isLocalPlacement(stage.placement)
                           \/ /\ selectGroup(inventory, stage.placement) = <<>>
                              /\ KnownHost(inventory, stage.placement)
        group == selectGroup(inventory, stages[1].placement)
    IN  IF \A i \in DOMAIN later : resolves(later[i])
        THEN [kind |-> "fanin", source |-> [i \in DOMAIN group |-> group[i].name],
              chain |-> [i \in DOMAIN later |-> HostOf(later[i])]]
        ELSE Refused

runSegmented(stages, inventory, args) ==
    LET resolves(stage) == isLocalPlacement(stage.placement) \/ KnownHost(inventory, stage.placement)
    IN  IF ~(args.inventory /\ args.identity) THEN Refused
        ELSE IF /\ ~isLocalPlacement(stages[1].placement)
                /\ Len(selectGroup(inventory, stages[1].placement)) > 1
        THEN runFanIn(stages, inventory)
        ELSE IF \A i \in DOMAIN stages : resolves(stages[i])
        THEN [kind |-> "segmented", source |-> <<>>, chain |-> [i \in DOMAIN stages |-> HostOf(stages[i])]]
        ELSE Refused

\* --check resolves the placements and makes no connection.
runCheck(stages, inventory, args) ==
    LET resolves(stage) == \/ isLocalPlacement(stage.placement)
                           \/ Len(selectGroup(inventory, stage.placement)) > 1
                           \/ KnownHost(inventory, stage.placement)
        anyRemote == \E i \in DOMAIN stages : ~isLocalPlacement(stages[i].placement)
    IN  IF (anyRemote => args.inventory) /\ \A i \in DOMAIN stages : resolves(stages[i])
        THEN [Refused EXCEPT !.kind = "valid"] ELSE Refused

pipeSubcommand(p, inventory, args) ==
    LET anyRemote == \E i \in DOMAIN p.stages : ~isLocalPlacement(p.stages[i].placement)
    IN  IF ~args.usage \/ ~Plannable(p) \/ (anyRemote /\ ~isDeclaredChain(p)) THEN Refused
        ELSE IF args.check THEN runCheck(stagesInPlanOrder(p), inventory, args)
        ELSE IF ~anyRemote THEN [Refused EXCEPT !.kind = "local"]
        ELSE runSegmented(stagesInPlanOrder(p), inventory, args)
=============================================================================
