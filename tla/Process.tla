------------------------------- MODULE Process -------------------------------
(***************************************************************************)
(* Child processes and the handles that own them (os/posix/process.cpp):   *)
(* spawn with its descriptor renumbering, the ownership rules of wait,     *)
(* tryWait, stop, signal, move and destruction, and the kernel's side: a   *)
(* process number is free again once its leader has been reaped            *)
(* and its group is empty, and the next spawn may be given it.             *)
(***************************************************************************)
EXTENDS Integers, Sequences, FiniteSets, FiniteSetsExt, SequencesExt

CONSTANTS
    Pids,      \* process numbers the kernel hands out
    Handles,   \* Process objects of the program
    Specs,     \* spawn specifications the program uses
    MaxSpawns  \* bound on the number of spawns

VARIABLES
    kernel,  \* kernel[p]: the process with number p
    handle,  \* handle[h]: the members of a Process
    struck,  \* <<handle's child, victim>> for every kill sent by an owner
    spawned  \* number of spawns so far; a child's serial is its spawn number

processVars == <<kernel, handle, struck, spawned>>

NoPid == 0

\* The kernel's process table is finite, and it hands out no number 0.
ASSUME PidAssumption == IsFiniteSet(Pids) /\ NoPid \notin Pids

Free == [state |-> "free", serial |-> 0, group |-> FALSE, fds |-> <<>>, want |-> <<>>]
NoChild == [id |-> NoPid, owns |-> FALSE, status |-> "none", serial |-> 0]

ProcessInit ==
    /\ kernel = [p \in Pids |-> Free]
    /\ handle = [h \in Handles |-> NoChild]
    /\ struck = {}
    /\ spawned = 0

-----------------------------------------------------------------------------
(* The descriptors of a child.  A specification has stdio, three sources     *)
(* (Inherit, Null or a descriptor), and extra, a sequence of source/target   *)
(* pairs.  open is the parent's open descriptors; file f is open at f.       *)

Inherit == -1
Null == -2

\* The program has finitely many descriptors open, its own stdio among them.
ASSUME SpecsAssumption ==
    \A spec \in Specs :
        /\ spec.open \in SUBSET Nat /\ IsFiniteSet(spec.open) /\ 0 .. 2 \subseteq spec.open
        /\ spec.stdio \in [1 .. 3 -> Nat \union {Inherit, Null}]
        /\ spec.extra \in Seq([source : Nat, target : Nat])

\* validate: a program, sources the parent has open, targets above stdio and
\* pairwise distinct, and a working directory that exists.
validate(spec) ==
    /\ spec.program /\ spec.cwdExists
    /\ \A i \in 1..3 : spec.stdio[i] >= 0 => spec.stdio[i] \in spec.open /\ spec.stdio[i] > 2
    /\ \A i \in DOMAIN spec.extra :
        /\ spec.extra[i].source \in spec.open /\ spec.extra[i].target > 2
        /\ \A j \in 1..(i - 1) : spec.extra[j].target # spec.extra[i].target

MaxTarget(spec) == Max({2} \union {spec.extra[i].target : i \in DOMAIN spec.extra})
LowestFree(open, above) == Min({f \in (above + 1)..(above + 1 + Cardinality(open)) : f \notin open})

\* Mutant: only a source that is its own target is moved.
renumberOne(spec, acc, i) ==
    LET source == spec.extra[i].source
        moved == LowestFree(acc.open, MaxTarget(spec))
    IN  IF source # spec.extra[i].target THEN [acc EXCEPT !.sources = Append(@, source)]
        ELSE [open |-> acc.open \union {moved}, sources |-> Append(acc.sources, moved),
              at |-> [f \in DOMAIN acc.at \union {moved} |-> IF f = moved THEN acc.at[source] ELSE acc.at[f]]]

\* One turn of renumberExtras: a source at or below the highest target is
\* duplicated above it, so that no later dup2 can overwrite it.
renumber(spec, acc, i) ==
    LET source == spec.extra[i].source
        moved == LowestFree(acc.open, MaxTarget(spec))
    IN  IF source > MaxTarget(spec) THEN [acc EXCEPT !.sources = Append(@, source)]
        ELSE [open |-> acc.open \union {moved}, sources |-> Append(acc.sources, moved),
              at |-> [f \in DOMAIN acc.at \union {moved} |-> IF f = moved THEN acc.at[source] ELSE acc.at[f]]]

renumberExtras(spec) ==
    LET after[k \in 0 .. Len(spec.extra)] ==
            IF k = 0 THEN [open |-> spec.open, sources |-> <<>>, at |-> [f \in spec.open |-> f]]
            ELSE renumber(spec, after[k - 1], k)
    IN  after[Len(spec.extra)]

\* dup2(source, target) in the child; Null opens /dev/null there.
dup2(at, source, target) ==
    CASE source = Inherit -> at
      [] source = Null -> [f \in DOMAIN at \union {target} |-> IF f = target THEN Null ELSE at[f]]
      [] OTHER -> [f \in DOMAIN at \union {target} |-> IF f = target THEN at[source] ELSE at[f]]

\* The file actions in the order both spawn paths run them: stdio, then the
\* extra handles; at exec every descriptor not placed by them is closed.
placeStdio(spec, at) == dup2(dup2(dup2(at, spec.stdio[1], 0), spec.stdio[2], 1), spec.stdio[3], 2)

placeExtras(spec, sources, at) ==
    LET after[k \in 0 .. Len(spec.extra)] ==
            IF k = 0 THEN at ELSE dup2(after[k - 1], sources[k], spec.extra[k].target)
    IN  after[Len(spec.extra)]

placed(spec) == {0, 1, 2} \union {spec.extra[i].target : i \in DOMAIN spec.extra}

childTable(spec) ==
    LET extras == renumberExtras(spec)
        all == placeExtras(spec, extras.sources, placeStdio(spec, extras.at))
    IN  [f \in placed(spec) |-> all[f]]

\* What the caller asked for.
wantedTable(spec) ==
    [f \in placed(spec) |->
        IF f <= 2 THEN (IF spec.stdio[f + 1] = Inherit THEN f ELSE spec.stdio[f + 1])
        ELSE spec.extra[CHOOSE i \in DOMAIN spec.extra : spec.extra[i].target = f].source]

-----------------------------------------------------------------------------
(* Kernel events *)

\* A running leader exits; what it started may stay behind in its group.
childExits(p) ==
    /\ kernel[p].state = "running"
    /\ kernel' = [kernel EXCEPT ![p].state = "zombie"]

\* A leader starts a descendant in its group; the descendants end.
childForks(p) ==
    /\ kernel[p].state = "running" /\ ~kernel[p].group
    /\ kernel' = [kernel EXCEPT ![p].group = TRUE]
groupEnds(p) ==
    /\ kernel[p].group
    /\ kernel' = [kernel EXCEPT ![p] = IF @.state = "free" THEN Free ELSE [@ EXCEPT !.group = FALSE]]

\* waitpid on a zombie; the number stays taken while the group lives.
reaped(k, p) == [k EXCEPT ![p] = IF @.group THEN [@ EXCEPT !.state = "free"] ELSE Free]
\* kill(-p, SIGKILL) and the wait that follows it.
killedAndReaped(k, p) == [k EXCEPT ![p] = Free]

-----------------------------------------------------------------------------
(* Process.  Each operator is one member function called on handle h. *)

\* spawn into an empty handle: an invalid specification, a failed exec or a
\* limit that cannot be applied leave no child behind.
spawn(h, spec, p, execs) ==
    /\ handle[h] = NoChild /\ spawned < MaxSpawns
    /\ kernel[p] = Free
    /\ spawned' = spawned + 1
    /\ IF validate(spec) /\ execs
       THEN /\ kernel' = [kernel EXCEPT ![p] = [state |-> "running", serial |-> spawned + 1, group |-> FALSE,
                                                fds |-> childTable(spec), want |-> wantedTable(spec)]]
            /\ handle' = [handle EXCEPT ![h] = [id |-> p, owns |-> TRUE, status |-> "none", serial |-> spawned + 1]]
       ELSE UNCHANGED <<kernel, handle>>
    /\ UNCHANGED struck

\* Who a signal to the group of h reaches.
Struck(h) ==
    IF handle[h].id = NoPid \/ kernel[handle[h].id] = Free THEN {}
    ELSE {<<handle[h].serial, kernel[handle[h].id].serial>>}

\* Mutant: a reaped child is still owned.
collectedOwned(c, what) == [c EXCEPT !.status = what]
collected(c, what) == [c EXCEPT !.owns = FALSE, !.status = what]

\* tryWait and wait: a cached status, or the zombie is reaped.
tryWait(h) ==
    /\ handle[h].owns /\ kernel[handle[h].id].state = "zombie"
    /\ handle' = [handle EXCEPT ![h] = collected(@, "exited")]
    /\ kernel' = reaped(kernel, handle[h].id)
    /\ UNCHANGED <<struck, spawned>>

\* stop(grace): SIGTERM and poll; a child that outlives the grace is killed with
\* its group.  One that exits in time leaves its group behind.
stop(h) ==
    /\ handle[h].owns /\ handle[h].status = "none"
    /\ handle' = [handle EXCEPT ![h] = collected(@, "stopped")]
    /\ \/ kernel' = reaped(kernel, handle[h].id)
       \/ kernel' = killedAndReaped(kernel, handle[h].id)
    /\ struck' = struck \union Struck(h)
    /\ UNCHANGED spawned

\* terminate(): kill the group and reap, only when the child is owned.
terminate(k, c) == IF c.owns THEN killedAndReaped(k, c.id) ELSE k

\* ~Process.
destroyProcess(h) ==
    /\ handle[h] # NoChild
    /\ kernel' = terminate(kernel, handle[h])
    /\ struck' = struck \union (IF handle[h].owns THEN Struck(h) ELSE {})
    /\ handle' = [handle EXCEPT ![h] = NoChild]
    /\ UNCHANGED spawned

\* operator=: terminate what h owns, then take over what g has.
moveAssign(h, g) ==
    /\ h # g /\ handle[g] # NoChild
    /\ kernel' = terminate(kernel, handle[h])
    /\ struck' = struck \union (IF handle[h].owns THEN Struck(h) ELSE {})
    /\ handle' = [handle EXCEPT ![h] = handle[g], ![g] = [@ EXCEPT !.owns = FALSE]]
    /\ UNCHANGED spawned

\* signal(Kill): the group with this number, whoever's it is by now.  A leader
\* becomes a zombie and its descendants die.
signalKill(h) ==
    /\ handle[h].id # NoPid
    /\ kernel' = [kernel EXCEPT ![handle[h].id] =
                     IF @.state = "free" THEN Free ELSE [@ EXCEPT !.state = "zombie", !.group = FALSE]]
    /\ struck' = struck \union (IF handle[h].owns THEN Struck(h) ELSE {})
    /\ UNCHANGED <<handle, spawned>>

-----------------------------------------------------------------------------
(* Properties *)

\* Process numbers are reused, handles outlive their children and are moved and
\* reassigned; yet a kill sent by an owning handle always strikes the child that
\* handle spawned, and every child that has not been reaped has exactly one owner.
OwnersKillTheirOwn ==
    /\ \A s \in struck : s[1] = s[2]
    /\ \A p \in Pids : kernel[p].state # "free" =>
        Cardinality({h \in Handles : handle[h].owns /\ handle[h].id = p}) = 1
    /\ \A h \in Handles : handle[h].owns =>
        kernel[handle[h].id].state # "free" /\ kernel[handle[h].id].serial = handle[h].serial

\* Whatever numbers the caller's descriptors happen to have, the child finds each
\* extra handle and each stdio stream at the number asked for, and nothing else.
ChildGetsItsHandles == \A p \in Pids : kernel[p].fds = kernel[p].want
=============================================================================
