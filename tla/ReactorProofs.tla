---------------------------- MODULE ReactorProofs ----------------------------
(***************************************************************************)
(* The event loop and the processes it watches, for any number of          *)
(* descriptors, children, timers and handler calls: kills reach only their *)
(* own children, children find their descriptors where they were asked     *)
(* for, handlers are called only for what is theirs, and wait() never      *)
(* sleeps through work.                                                    *)
(***************************************************************************)
EXTENDS Reactor, FiniteSetTheorems, SequenceTheorems, WellFoundedInduction, TLAPS

(* Processes *)

Table == {<<>>} \cup {childTable(spec) : spec \in Specs} \cup {wantedTable(spec) : spec \in Specs}
KernelProcess ==
    [state : {"free", "running", "zombie"}, serial : Nat, group : BOOLEAN, fds : Table, want : Table]
ProcessObject ==
    [id : Pids \cup {NoPid}, owns : BOOLEAN, status : {"none", "exited", "stopped"}, serial : Nat]

ProcessTypeOK ==
    /\ kernel \in [Pids -> KernelProcess]
    /\ handle \in [Handles -> ProcessObject]
    /\ spawned \in Nat

\* A handle that owns has a child with its serial, and no other handle owns that
\* child; a child that has not been reaped has an owner.
Ownership ==
    /\ \A h \in Handles : handle[h].owns =>
          /\ handle[h].id \in Pids
          /\ kernel[handle[h].id].state # "free"
          /\ kernel[handle[h].id].serial = handle[h].serial
    /\ \A h, g \in Handles : (handle[h].owns /\ handle[g].owns /\ handle[h].id = handle[g].id) => h = g
    /\ \A p \in Pids : kernel[p].state # "free" => \E h \in Handles : handle[h].owns /\ handle[h].id = p
    /\ \A s \in struck : s[1] = s[2]

ProcessInv == ProcessTypeOK /\ Ownership

\* A step of some process or of some member function of Process.
ProcessNext ==
    \/ \E h \in Handles, spec \in Specs, p \in Pids, execs \in BOOLEAN : spawn(h, spec, p, execs)
    \/ \E h \in Handles : tryWait(h) \/ stop(h) \/ destroyProcess(h) \/ signalKill(h)
    \/ \E h, g \in Handles : moveAssign(h, g)
    \/ \E p \in Pids : /\ childExits(p) \/ childForks(p) \/ groupEnds(p)
                       /\ UNCHANGED <<handle, struck, spawned>>

-----------------------------------------------------------------------------
(* The loop *)

Registration == [fd : Fds, file : Nat, interest : BOOLEAN, edge : BOOLEAN]
QueuedTimer == [deadline : Nat, id : Nat]

Registrations == UNION {[T -> Registration] : T \in SUBSET Nat}
PolledEvent == [token : Nat, file : Nat]
OpenFile == [file : Nat, ready : BOOLEAN]
ReactorMembers ==
    [io : Registrations, nextToken : Nat, timers : SUBSET Nat, timerQueue : SUBSET QueuedTimer,
     nextTimer : Nat, childHandlers : SUBSET Pids, watched : SUBSET Pids, selfPipe : BOOLEAN,
     signals : BOOLEAN, stopRequested : BOOLEAN, wake : BOOLEAN]
LoopState ==
    [pc : {"idle", "check", "wait", "events", "scan", "children", "timers", "call"},
     back : {"idle", "events", "children", "timers"},
     events : Seq(PolledEvent), exited : Seq(Pids), due : Seq(QueuedTimer), until : Nat,
     stale : BOOLEAN, early : BOOLEAN, fired : SUBSET Nat, stopper : {"none", "stored", "done"}]

\* The types of the reactor's members, of the loop and of the world around it.
ReactorTypeOK ==
    /\ fd \in [Fds -> OpenFile]
    /\ rx \in ReactorMembers /\ loop \in LoopState
    /\ clock \in Nat
    /\ used \in [calls : Nat, arrivals : Nat, files : Nat]

\* A token is used for one registration; an event that is still to be dispatched
\* is of the file its registration was made for, if that is still there.
EventsFresh ==
    /\ \A t \in Tokens : t > signalToken /\ t < rx.nextToken
    /\ rx.nextToken > signalToken
    /\ \A i \in 1 .. Len(loop.events) :
          /\ loop.events[i].token < rx.nextToken
          /\ loop.events[i].token \in Tokens => loop.events[i].file = rx.io[loop.events[i].token].file
    /\ ~loop.stale

\* A child whose handler is registered has not been reaped, and one that drain()
\* found is not running: its number is not handed out in between.
ChildrenFresh ==
    /\ \A p \in rx.childHandlers : kernel[p].state # "free"
    /\ \A i \in 1 .. Len(loop.exited) : kernel[loop.exited[i]].state # "running"

\* A timer is pending, collected or fired, and only one of these; collected ones
\* are due.
TimersFresh ==
    /\ IsFiniteSet(rx.timerQueue)
    /\ \A id \in rx.timers \cup loop.fired : id < rx.nextTimer
    /\ \A e \in rx.timerQueue : e.id < rx.nextTimer
    /\ \A e, d \in rx.timerQueue : e.id = d.id => e = d
    /\ rx.timers \cap loop.fired = {}
    /\ \A i \in 1 .. Len(loop.due) :
          /\ loop.due[i].deadline <= clock
          /\ loop.due[i].id < rx.nextTimer
          /\ loop.due[i].id \notin rx.timers \cup loop.fired
          /\ \A j \in 1 .. Len(loop.due) : loop.due[i].id = loop.due[j].id => i = j

\* No edge is lost: it is with the kernel or among the events to be dispatched.
EdgesKept ==
    \A t \in Tokens :
        (rx.io[t].interest /\ fd[rx.io[t].fd].ready) =>
            rx.io[t].edge \/ \E i \in 1 .. Len(loop.events) : loop.events[i].token = t

\* No exit is lost: its byte is in the self-pipe, or drain() is yet to look.
ExitsKept ==
    (sc.children = "signal" /\ \E p \in rx.watched : kernel[p].state = "zombie") =>
        rx.selfPipe \/ loop.pc = "scan"

\* The loop waits when every event has been dispatched; the wait ends with the
\* first timer, and with a stop() that has returned.
WaitBounded ==
    /\ loop.pc \in {"idle", "check", "wait", "timers"} => loop.events = <<>>
    /\ loop.pc = "call" => loop.back # "idle" /\ (loop.back = "timers" => loop.events = <<>>)
    /\ loop.pc = "wait" =>
          /\ \A q \in rx.timerQueue : q.id \in rx.timers => loop.until <= q.deadline
          /\ (loop.stopper = "done" /\ rx.stopRequested) => rx.wake

ReactorInv ==
    /\ ProcessInv /\ ReactorTypeOK
    /\ EventsFresh /\ ChildrenFresh /\ TimersFresh /\ ~loop.early
    /\ EdgesKept /\ ExitsKept /\ WaitBounded

-----------------------------------------------------------------------------
\* A nonempty set of numbers has a least one.
LEMMA MinNat ==
    ASSUME NEW S \in SUBSET Nat, S # {}
    PROVE  Min(S) \in S /\ \A y \in S : Min(S) <= y
<1> DEFINE Below == {ss \in Nat \X Nat : ss[1] < ss[2]}
<1>1. IsWellFoundedOn(Below, Nat)
  BY NatLessThanWellFounded, Zenon DEF OpToRel
<1> HIDE DEF Below
<1>2. PICK x \in S : \A y \in S : ~(<<y, x>> \in Below)
  BY <1>1, WFMin
<1>3. ASSUME NEW y \in S PROVE x <= y
  <2>1. x \in Nat /\ y \in Nat
    OBVIOUS
  <2>2. y < x => <<y, x>> \in Below
    BY <2>1 DEF Below
  <2>3. QED
    BY <1>2, <2>1, <2>2
<1>4. QED
  BY <1>3 DEF Min

-----------------------------------------------------------------------------
(* Processes *)

\* A free number.
LEMMA FreeTyped == Free \in KernelProcess /\ Free.state = "free"
<1>1. <<>> \in Table
  BY DEF Table
<1>2. QED
  BY <1>1 DEF Free, KernelProcess

LEMMA NoChildTyped == NoChild \in ProcessObject /\ ~NoChild.owns
BY DEF NoChild, ProcessObject

LEMMA ProcessInitInv == ProcessInit => ProcessInv
<1> SUFFICES ASSUME ProcessInit PROVE ProcessInv
  OBVIOUS
<1>1. ProcessTypeOK
  BY FreeTyped, NoChildTyped DEF ProcessInit, ProcessTypeOK
<1>2. /\ \A h \in Handles : ~handle[h].owns
      /\ \A p \in Pids : kernel[p].state = "free"
      /\ struck = {}
  BY FreeTyped, NoChildTyped DEF ProcessInit
<1>3. Ownership
  BY <1>2 DEF Ownership
<1>4. QED
  BY <1>1, <1>3 DEF ProcessInv

\* An owner's signal reaches its own child.
LEMMA StruckOwn ==
    ASSUME Ownership, NEW h \in Handles, handle[h].owns
    PROVE  \A s \in Struck(h) : s[1] = s[2]
BY DEF Ownership, Struck

\* The child of an owner is reaped and the owner lets go of it.
LEMMA ChildReleased ==
    ASSUME ProcessInv, NEW h \in Handles, handle[h].owns,
           NEW k \in KernelProcess, k.state = "free",
           kernel' = [kernel EXCEPT ![handle[h].id] = k],
           NEW c \in ProcessObject, ~c.owns,
           handle' = [handle EXCEPT ![h] = c],
           spawned' = spawned, \A s \in struck' : s \in struck \/ s[1] = s[2]
    PROVE  ProcessInv'
<1>1. ProcessTypeOK /\ Ownership /\ handle[h].id \in Pids
  BY DEF ProcessInv, Ownership
<1>2. ProcessTypeOK'
  BY <1>1 DEF ProcessTypeOK
<1>3. /\ handle'[h] = c /\ \A g \in Handles : g # h => handle'[g] = handle[g]
      /\ kernel'[handle[h].id] = k /\ \A p \in Pids : p # handle[h].id => kernel'[p] = kernel[p]
  BY <1>1 DEF ProcessTypeOK
<1>4. Ownership'
  BY <1>1, <1>3 DEF Ownership
<1>5. QED
  BY <1>2, <1>4 DEF ProcessInv

\* A step of the kernel that reaps and starts nobody.
LEMMA KernelMoves ==
    ASSUME ProcessInv, kernel' \in [Pids -> KernelProcess],
           \A p \in Pids : /\ kernel'[p].state = "free" <=> kernel[p].state = "free"
                           /\ kernel[p].state # "free" => kernel'[p].serial = kernel[p].serial,
           UNCHANGED <<handle, spawned>>, \A s \in struck' : s \in struck \/ s[1] = s[2]
    PROVE  ProcessInv'
<1>1. ProcessTypeOK'
  BY DEF ProcessInv, ProcessTypeOK
<1>2. Ownership'
  BY DEF ProcessInv, Ownership
<1>3. QED
  BY <1>1, <1>2 DEF ProcessInv

\* What waitpid leaves of a leader.
LEMMA ReapedTyped ==
    ASSUME ProcessTypeOK, NEW p \in Pids
    PROVE  \E k \in KernelProcess : k.state = "free" /\ reaped(kernel, p) = [kernel EXCEPT ![p] = k]
<1> DEFINE k == IF kernel[p].group THEN [kernel[p] EXCEPT !.state = "free"] ELSE Free
<1>1. kernel[p] \in KernelProcess /\ kernel \in [Pids -> KernelProcess]
  BY DEF ProcessTypeOK
<1>2. k \in KernelProcess /\ k.state = "free"
  BY <1>1, FreeTyped DEF KernelProcess
<1>3. reaped(kernel, p) = [kernel EXCEPT ![p] = k]
  BY <1>1 DEF reaped
<1>4. QED
  BY <1>2, <1>3

LEMMA SpawnKeeps ==
    ASSUME ProcessInv, NEW h \in Handles, NEW spec \in Specs, NEW p \in Pids, NEW execs \in BOOLEAN,
           spawn(h, spec, p, execs)
    PROVE  ProcessInv'
<1>1. /\ handle[h] = NoChild /\ kernel[p] = Free
      /\ spawned' = spawned + 1 /\ struck' = struck
      /\ ProcessTypeOK /\ Ownership
  BY DEF spawn, ProcessInv
<1>2. CASE validate(spec) /\ execs
  <2> DEFINE child == [state |-> "running", serial |-> spawned + 1, group |-> FALSE,
                       fds |-> childTable(spec), want |-> wantedTable(spec)]
             owner == [id |-> p, owns |-> TRUE, status |-> "none", serial |-> spawned + 1]
  <2>1. kernel' = [kernel EXCEPT ![p] = child] /\ handle' = [handle EXCEPT ![h] = owner]
    BY <1>2 DEF spawn
  <2>2. child \in KernelProcess /\ child.state = "running" /\ child.serial = spawned + 1
    <3>1. childTable(spec) \in Table /\ wantedTable(spec) \in Table /\ spawned + 1 \in Nat
      BY <1>1 DEF Table, ProcessTypeOK
    <3>2. QED
      BY <3>1 DEF KernelProcess
  <2>3. owner \in ProcessObject /\ owner.owns /\ owner.id = p /\ owner.serial = spawned + 1
    <3>1. spawned + 1 \in Nat
      BY <1>1 DEF ProcessTypeOK
    <3>2. QED
      BY <3>1 DEF ProcessObject
  <2> HIDE DEF child, owner
  <2>4. ProcessTypeOK'
    BY <1>1, <2>1, <2>2, <2>3 DEF ProcessTypeOK
  <2>5. /\ handle'[h] = owner /\ \A g \in Handles : g # h => handle'[g] = handle[g]
        /\ kernel'[p] = child /\ \A q \in Pids : q # p => kernel'[q] = kernel[q]
    BY <1>1, <2>1 DEF ProcessTypeOK
  <2>6. ~handle[h].owns /\ kernel[p].state = "free"
    BY <1>1, FreeTyped, NoChildTyped
  <2>7. Ownership'
    BY <1>1, <2>2, <2>3, <2>5, <2>6 DEF Ownership
  <2>8. QED
    BY <2>4, <2>7 DEF ProcessInv
<1>3. CASE ~(validate(spec) /\ execs)
  <2>1. UNCHANGED <<kernel, handle>>
    BY <1>3 DEF spawn
  <2>2. ProcessTypeOK' /\ Ownership'
    BY <1>1, <2>1 DEF ProcessTypeOK, Ownership
  <2>3. QED
    BY <2>2 DEF ProcessInv
<1>4. QED
  BY <1>2, <1>3

LEMMA TryWaitKeeps ==
    ASSUME ProcessInv, NEW h \in Handles, tryWait(h)
    PROVE  ProcessInv'
<1>1. /\ ProcessTypeOK /\ Ownership /\ handle[h].owns /\ handle[h].id \in Pids
      /\ handle[h] \in ProcessObject
  BY DEF tryWait, ProcessInv, ProcessTypeOK, Ownership
<1>2. PICK k \in KernelProcess : k.state = "free" /\ kernel' = [kernel EXCEPT ![handle[h].id] = k]
  BY <1>1, ReapedTyped DEF tryWait
<1> DEFINE c == collected(handle[h], "exited")
<1>3. c \in ProcessObject /\ ~c.owns
  BY <1>1 DEF collected, ProcessObject
<1>4. handle' = [handle EXCEPT ![h] = c] /\ UNCHANGED <<struck, spawned>>
  BY DEF tryWait
<1> HIDE DEF c
<1>5. QED
  BY <1>1, <1>2, <1>3, <1>4, ChildReleased

LEMMA StopKeeps ==
    ASSUME ProcessInv, NEW h \in Handles, stop(h)
    PROVE  ProcessInv'
<1>1. /\ ProcessTypeOK /\ Ownership /\ handle[h].owns /\ handle[h].id \in Pids
      /\ handle[h] \in ProcessObject
  BY DEF stop, ProcessInv, ProcessTypeOK, Ownership
<1>2. PICK k \in KernelProcess : k.state = "free" /\ kernel' = [kernel EXCEPT ![handle[h].id] = k]
  BY <1>1, ReapedTyped, FreeTyped DEF stop, killedAndReaped
<1> DEFINE c == collected(handle[h], "stopped")
<1>3. c \in ProcessObject /\ ~c.owns
  BY <1>1 DEF collected, ProcessObject
<1>4. /\ handle' = [handle EXCEPT ![h] = c] /\ spawned' = spawned
      /\ \A s \in struck' : s \in struck \/ s[1] = s[2]
  BY <1>1, StruckOwn DEF stop
<1> HIDE DEF c
<1>5. QED
  BY <1>1, <1>2, <1>3, <1>4, ChildReleased

LEMMA DestroyKeeps ==
    ASSUME ProcessInv, NEW h \in Handles, destroyProcess(h)
    PROVE  ProcessInv'
<1>1. /\ ProcessTypeOK /\ Ownership
      /\ handle' = [handle EXCEPT ![h] = NoChild] /\ spawned' = spawned
  BY DEF destroyProcess, ProcessInv
<1>2. CASE handle[h].owns
  <2>1. /\ kernel' = [kernel EXCEPT ![handle[h].id] = Free]
        /\ \A s \in struck' : s \in struck \/ s[1] = s[2]
    BY <1>1, <1>2, StruckOwn DEF destroyProcess, terminate, killedAndReaped
  <2>2. QED
    BY <1>1, <1>2, <2>1, FreeTyped, NoChildTyped, ChildReleased
<1>3. CASE ~handle[h].owns
  <2>1. kernel' = kernel /\ struck' = struck
    BY <1>3 DEF destroyProcess, terminate
  <2>2. ProcessTypeOK'
    BY <1>1, <2>1, NoChildTyped DEF ProcessTypeOK
  <2>3. ~handle'[h].owns /\ \A g \in Handles : g # h => handle'[g] = handle[g]
    BY <1>1, NoChildTyped DEF ProcessTypeOK
  <2>4. Ownership'
    BY <1>1, <1>3, <2>1, <2>3 DEF Ownership
  <2>5. QED
    BY <2>2, <2>4 DEF ProcessInv
<1>4. QED
  BY <1>2, <1>3

LEMMA MoveKeeps ==
    ASSUME ProcessInv, NEW h \in Handles, NEW g \in Handles, moveAssign(h, g)
    PROVE  ProcessInv'
<1>1. /\ ProcessTypeOK /\ Ownership /\ h # g /\ spawned' = spawned
      /\ handle' = [handle EXCEPT ![h] = handle[g], ![g] = [handle[g] EXCEPT !.owns = FALSE]]
  BY DEF moveAssign, ProcessInv, ProcessTypeOK
<1> DEFINE c == [handle[g] EXCEPT !.owns = FALSE]
<1>2. c \in ProcessObject /\ ~c.owns /\ handle[g] \in ProcessObject
  <2>1. handle[g] \in ProcessObject
    BY <1>1 DEF ProcessTypeOK
  <2>2. QED
    BY <2>1 DEF ProcessObject
<1>3. handle' = [handle EXCEPT ![h] = handle[g], ![g] = c]
  BY <1>1
<1> HIDE DEF c
<1>4. /\ handle' \in [Handles -> ProcessObject]
      /\ handle'[h] = handle[g] /\ handle'[g] = c
      /\ \A x \in Handles : x \notin {h, g} => handle'[x] = handle[x]
  BY <1>1, <1>2, <1>3 DEF ProcessTypeOK
<1>5. \A s \in struck' : s \in struck \/ s[1] = s[2]
  BY <1>1, StruckOwn DEF moveAssign
<1>6. CASE handle[h].owns
  <2>1. kernel' = [kernel EXCEPT ![handle[h].id] = Free] /\ handle[h].id \in Pids
    BY <1>1, <1>6 DEF moveAssign, terminate, killedAndReaped, Ownership
  <2>2. /\ kernel' \in [Pids -> KernelProcess] /\ kernel'[handle[h].id].state = "free"
        /\ \A p \in Pids : p # handle[h].id => kernel'[p] = kernel[p]
    BY <1>1, <2>1, FreeTyped DEF ProcessTypeOK
  <2>3. Ownership'
    BY <1>1, <1>2, <1>4, <1>5, <1>6, <2>2 DEF Ownership
  <2>4. QED
    BY <1>1, <1>4, <2>2, <2>3 DEF ProcessInv, ProcessTypeOK
<1>7. CASE ~handle[h].owns
  <2>1. kernel' = kernel
    BY <1>7 DEF moveAssign, terminate
  <2>2. Ownership'
    BY <1>1, <1>2, <1>4, <1>5, <1>7, <2>1 DEF Ownership
  <2>3. QED
    BY <1>1, <1>4, <2>1, <2>2 DEF ProcessInv, ProcessTypeOK
<1>8. QED
  BY <1>6, <1>7

LEMMA SignalKeeps ==
    ASSUME ProcessInv, NEW h \in Handles, signalKill(h)
    PROVE  ProcessInv'
<1> DEFINE p == handle[h].id
           k == IF kernel[p].state = "free" THEN Free
                ELSE [kernel[p] EXCEPT !.state = "zombie", !.group = FALSE]
<1>1. /\ ProcessTypeOK /\ Ownership /\ p \in Pids
      /\ UNCHANGED <<handle, spawned>>
  <2>1. handle[h] \in ProcessObject
    BY DEF ProcessInv, ProcessTypeOK
  <2>2. QED
    BY <2>1 DEF signalKill, ProcessInv, ProcessObject
<1>2. \A s \in struck' : s \in struck \/ s[1] = s[2]
  BY <1>1, StruckOwn DEF signalKill
<1>3. kernel[p] \in KernelProcess /\ kernel \in [Pids -> KernelProcess]
  BY <1>1 DEF ProcessTypeOK
<1>4. /\ k \in KernelProcess /\ (k.state = "free" <=> kernel[p].state = "free")
      /\ kernel[p].state # "free" => k.serial = kernel[p].serial
  BY <1>3, FreeTyped DEF KernelProcess
<1>5. kernel' = [kernel EXCEPT ![p] = k]
  BY <1>3 DEF signalKill
<1> HIDE DEF k, p
<1>6. /\ kernel' \in [Pids -> KernelProcess] /\ kernel'[p] = k
      /\ \A q \in Pids : q # p => kernel'[q] = kernel[q]
  BY <1>1, <1>3, <1>4, <1>5
<1>7. \A q \in Pids : /\ kernel'[q].state = "free" <=> kernel[q].state = "free"
                      /\ kernel[q].state # "free" => kernel'[q].serial = kernel[q].serial
  BY <1>4, <1>6
<1>8. QED
  BY <1>1, <1>2, <1>6, <1>7, KernelMoves

LEMMA ChildEventKeeps ==
    ASSUME ProcessInv, NEW p \in Pids, childExits(p) \/ childForks(p) \/ groupEnds(p),
           UNCHANGED <<handle, struck, spawned>>
    PROVE  ProcessInv'
<1>1. kernel[p] \in KernelProcess /\ kernel \in [Pids -> KernelProcess]
  BY DEF ProcessInv, ProcessTypeOK
<1>2. \E k \in KernelProcess :
         /\ kernel' = [kernel EXCEPT ![p] = k]
         /\ k.state = "free" <=> kernel[p].state = "free"
         /\ kernel[p].state # "free" => k.serial = kernel[p].serial
  <2>1. CASE childExits(p)
    <3> DEFINE k == [kernel[p] EXCEPT !.state = "zombie"]
    <3>1. k \in KernelProcess /\ k.state = "zombie" /\ k.serial = kernel[p].serial
      BY <1>1 DEF KernelProcess
    <3>2. kernel' = [kernel EXCEPT ![p] = k] /\ kernel[p].state = "running"
      BY <1>1, <2>1 DEF childExits
    <3>3. QED
      BY <3>1, <3>2
  <2>2. CASE childForks(p)
    <3> DEFINE k == [kernel[p] EXCEPT !.group = TRUE]
    <3>1. k \in KernelProcess /\ k.state = kernel[p].state /\ k.serial = kernel[p].serial
      BY <1>1 DEF KernelProcess
    <3>2. kernel' = [kernel EXCEPT ![p] = k]
      BY <1>1, <2>2 DEF childForks
    <3>3. QED
      BY <3>1, <3>2
  <2>3. CASE groupEnds(p)
    <3> DEFINE k == IF kernel[p].state = "free" THEN Free ELSE [kernel[p] EXCEPT !.group = FALSE]
    <3>1. /\ k \in KernelProcess /\ k.state = kernel[p].state
          /\ kernel[p].state # "free" => k.serial = kernel[p].serial
      BY <1>1, FreeTyped DEF KernelProcess
    <3>2. kernel' = [kernel EXCEPT ![p] = k]
      BY <1>1, <2>3 DEF groupEnds
    <3>3. QED
      BY <3>1, <3>2
  <2>4. QED
    BY <2>1, <2>2, <2>3
<1>3. PICK k \in KernelProcess :
         /\ kernel' = [kernel EXCEPT ![p] = k]
         /\ k.state = "free" <=> kernel[p].state = "free"
         /\ kernel[p].state # "free" => k.serial = kernel[p].serial
  BY <1>2
<1>4. /\ kernel' \in [Pids -> KernelProcess] /\ kernel'[p] = k
      /\ \A q \in Pids : q # p => kernel'[q] = kernel[q]
  BY <1>1, <1>3
<1>5. \A q \in Pids : /\ kernel'[q].state = "free" <=> kernel[q].state = "free"
                      /\ kernel[q].state # "free" => kernel'[q].serial = kernel[q].serial
  BY <1>3, <1>4
<1>6. QED
  BY <1>4, <1>5, KernelMoves

LEMMA ProcessStep ==
    ASSUME ProcessInv, ProcessNext \/ UNCHANGED processVars
    PROVE  ProcessInv'
<1>1. CASE \E h \in Handles, spec \in Specs, p \in Pids, execs \in BOOLEAN : spawn(h, spec, p, execs)
  BY <1>1, SpawnKeeps
<1>2. CASE \E h \in Handles : tryWait(h) \/ stop(h) \/ destroyProcess(h) \/ signalKill(h)
  BY <1>2, TryWaitKeeps, StopKeeps, DestroyKeeps, SignalKeeps
<1>3. CASE \E h, g \in Handles : moveAssign(h, g)
  BY <1>3, MoveKeeps
<1>4. CASE \E p \in Pids : /\ childExits(p) \/ childForks(p) \/ groupEnds(p)
                           /\ UNCHANGED <<handle, struck, spawned>>
  BY <1>4, ChildEventKeeps
<1>5. CASE UNCHANGED processVars
  BY <1>5 DEF ProcessInv, ProcessTypeOK, Ownership, processVars
<1>6. QED
  BY <1>1, <1>2, <1>3, <1>4, <1>5 DEF ProcessNext

\* What handlers do to processes, they do through the members of Process.
LEMMA CallUsesProcess ==
    ASSUME Call
    PROVE  ProcessNext \/ UNCHANGED processVars
<1>1. CASE \E h \in Handles : ownerCall(h)
  <2>1. PICK h \in Handles : ownerCall(h)
    BY <1>1
  <2>2. CASE \E spec \in Specs, p \in Pids \ ToSet(loop.exited), execs \in BOOLEAN : spawn(h, spec, p, execs)
    BY <2>2 DEF ProcessNext
  <2>3. CASE tryWait(h) \/ stop(h) \/ destroyProcess(h) \/ signalKill(h)
    BY <2>3 DEF ProcessNext
  <2>4. CASE \E g \in Handles : moveAssign(h, g)
    BY <2>4 DEF ProcessNext
  <2>5. QED
    BY <2>1, <2>2, <2>3, <2>4 DEF ownerCall
<1>2. CASE ~\E h \in Handles : ownerCall(h)
  BY <1>2 DEF Call, watchNew, unwatch, modify, after, cancel, watchChild, unwatchChild
<1>3. QED
  BY <1>1, <1>2

LEMMA ReactorUsesProcess ==
    ASSUME [Next]_vars
    PROVE  ProcessNext \/ UNCHANGED processVars
<1>1. CASE setup \/ handlerCall
  BY <1>1, CallUsesProcess DEF setup, handlerCall
<1>2. CASE childHandler
  BY <1>2 DEF childHandler, ProcessNext
<1>3. CASE \E p \in Pids : childEvent(p)
  BY <1>3 DEF childEvent, ProcessNext
<1>4. CASE run \/ check \/ wait \/ dispatchSkip \/ dispatchIo \/ dispatchSignals \/ dispatchChildren
  BY <1>4 DEF run, check, wait, dispatchSkip, dispatchIo, dispatchSignals, dispatchChildren
<1>5. CASE drain \/ childrenDone \/ fireDueTimers \/ timerHandler \/ timersDone
  BY <1>5 DEF drain, childrenDone, fireDueTimers, timerHandler, timersDone
<1>6. CASE stopStore \/ stopWake \/ signalArrives \/ timePasses \/ \E f \in Fds : arrive(f)
  BY <1>6 DEF stopStore, stopWake, signalArrives, timePasses, arrive
<1>7. CASE UNCHANGED vars
  BY <1>7 DEF vars
<1>8. QED
  BY <1>1, <1>2, <1>3, <1>4, <1>5, <1>6, <1>7 DEF Next

LEMMA ProcessInvariant == Spec => []ProcessInv
<1>1. Init => ProcessInv
  BY ProcessInitInv DEF Init
<1>2. ProcessInv /\ [Next]_vars => ProcessInv'
  BY ProcessStep, ReactorUsesProcess
<1>3. QED
  BY <1>1, <1>2, PTL DEF Spec

(***************************************************************************)
(* Whatever handlers do with their Process objects and however the kernel  *)
(* reuses numbers, an owner's kill strikes its own child, and every child  *)
(* that has not been reaped has exactly one owner (os/posix/process.cpp).  *)
(***************************************************************************)
THEOREM KillsStrikeTheirOwn == Spec => []OwnersKillTheirOwn
<1>1. ProcessInv => OwnersKillTheirOwn
  <2> SUFFICES ASSUME ProcessInv PROVE OwnersKillTheirOwn
    OBVIOUS
  <2>1. ASSUME NEW p \in Pids, kernel[p].state # "free"
        PROVE  Cardinality({h \in Handles : handle[h].owns /\ handle[h].id = p}) = 1
    <3>1. PICK h \in Handles : handle[h].owns /\ handle[h].id = p
      BY <2>1 DEF ProcessInv, Ownership
    <3>2. {g \in Handles : handle[g].owns /\ handle[g].id = p} = {h}
      BY <3>1 DEF ProcessInv, Ownership
    <3>3. QED
      BY <3>2, FS_Singleton
  <2>2. QED
    BY <2>1 DEF ProcessInv, Ownership, OwnersKillTheirOwn
<1>2. QED
  BY <1>1, ProcessInvariant, PTL

-----------------------------------------------------------------------------
(* Descriptors *)

\* Induction, over a set of naturals: the theorems of the library that take a
\* predicate do not serve here.
LEMMA SetInduction ==
    ASSUME NEW S, 0 \in S, \A n \in Nat : n \in S => n + 1 \in S PROVE Nat \subseteq S
<1> DEFINE T == Nat \ S
<1> SUFFICES ASSUME T # {} PROVE FALSE
  OBVIOUS
<1>1. T \in SUBSET Nat
  OBVIOUS
<1>2. Min(T) \in T /\ \A k \in T : Min(T) <= k
  <2> HIDE DEF T
  <2>1. QED
    BY <1>1, MinNat
<1>3. PICK m \in T : \A k \in T : m <= k
  BY <1>2
<1>4. m # 0 /\ m - 1 \in Nat
  BY <1>3
<1>5. m - 1 \in S
  BY <1>3, <1>4
<1>6. QED
  BY <1>3, <1>4, <1>5

\* What holds of a loop's variable before the first turn, and after a turn if it
\* held before, holds at the end.
LEMMA LoopInduction ==
    ASSUME NEW n \in Nat, NEW P, NEW f, f[0] \in P[0],
           \A k \in 1 .. n : f[k - 1] \in P[k - 1] => f[k] \in P[k]
    PROVE  f[n] \in P[n]
<1> DEFINE S == {k \in Nat : k <= n => f[k] \in P[k]}
<1>1. 0 \in S
  OBVIOUS
<1>2. ASSUME NEW k \in Nat, k \in S PROVE k + 1 \in S
  <2>1. CASE k + 1 <= n
    <3>1. k + 1 \in 1 .. n /\ (k + 1) - 1 = k /\ f[k] \in P[k]
      BY <1>2, <2>1
    <3>2. QED
      BY <3>1
  <2>2. CASE ~(k + 1 <= n)
    BY <2>2
  <2>3. QED
    BY <2>1, <2>2
<1>3. n \in S
  <2> HIDE DEF S
  <2>1. QED
    BY <1>1, <1>2, SetInduction
<1>4. QED
  BY <1>3

\* The loop has a value, where each turn maps one set of values into the next.
Course(g, n, P, step, r) ==
    /\ g = [k \in 0 .. n |-> g[k]] /\ g[0] = r /\ \A k \in 0 .. n : g[k] \in P[k]
    /\ \A k \in 1 .. n : g[k] = step[k][g[k - 1]]
LoopOf(n, P, step, r) == \E g : Course(g, n, P, step, r)
LEMMA LoopExists ==
    ASSUME NEW n \in Nat, NEW P, NEW step, NEW r, r \in P[0],
           \A k \in 1 .. n : \A x \in P[k - 1] : step[k][x] \in P[k]
    PROVE  LoopOf(n, P, step, r)
<1> DEFINE S == {m \in Nat : m <= n => LoopOf(m, P, step, r)}
<1>1. 0 \in S
  <2> DEFINE g == [k \in 0 .. 0 |-> r]
  <2>1. Course(g, 0, P, step, r)
    BY DEF Course
  <2> HIDE DEF g
  <2>2. LoopOf(0, P, step, r)
    BY <2>1 DEF LoopOf
  <2>3. QED
    BY <2>2
<1>2. ASSUME NEW m \in Nat, m \in S PROVE m + 1 \in S
  <2>1. CASE m + 1 <= n
    <3>1. PICK g : Course(g, m, P, step, r)
      BY <1>2, <2>1 DEF LoopOf
    <3> DEFINE h == [k \in 0 .. m + 1 |-> IF k = m + 1 THEN step[m + 1][g[m]] ELSE g[k]]
    <3>2. /\ g[0] = r /\ (\A k \in 0 .. m : g[k] \in P[k])
          /\ \A k \in 1 .. m : g[k] = step[k][g[k - 1]]
      BY <3>1 DEF Course
    <3>3. m \in 0 .. m /\ m + 1 \in 1 .. n /\ (m + 1) - 1 = m /\ 0 \in 0 .. m + 1 /\ m + 1 \in 0 .. m + 1
      BY <2>1
    <3>4. h[0] = g[0] /\ h[m + 1] = step[m + 1][g[m]] /\ h[m] = g[m] /\ h = [k \in 0 .. m + 1 |-> h[k]]
      BY <3>3
    <3>5. \A k \in 0 .. m : h[k] = g[k]
      OBVIOUS
    <3> HIDE DEF h
    <3>6. step[m + 1][g[m]] \in P[m + 1]
      BY <3>2, <3>3
    <3>7. \A k \in 0 .. m + 1 : h[k] \in P[k]
      <4>1. \A k \in 0 .. m + 1 : k = m + 1 \/ k \in 0 .. m
        OBVIOUS
      <4>2. QED
        BY <3>2, <3>4, <3>5, <3>6, <4>1
    <3>8. ASSUME NEW k \in 1 .. m + 1 PROVE h[k] = step[k][h[k - 1]]
      <4>1. CASE k = m + 1
        BY <3>3, <3>4, <4>1
      <4>2. CASE k \in 1 .. m
        <5>1. h[k] = g[k] /\ h[k - 1] = g[k - 1]
          BY <3>5, <4>2
        <5>2. QED
          BY <3>2, <4>2, <5>1
      <4>3. QED
        BY <4>1, <4>2
    <3>9. Course(h, m + 1, P, step, r)
      BY <3>2, <3>4, <3>7, <3>8 DEF Course
    <3>10. QED
      BY <3>9 DEF LoopOf
  <2>2. CASE ~(m + 1 <= n)
    BY <2>2
  <2>3. QED
    BY <2>1, <2>2
<1>3. n \in S
  <2> HIDE DEF S
  <2>1. QED
    BY <1>1, <1>2, SetInduction
<1>4. QED
  BY <1>3

\* A nonempty bounded set of numbers has a greatest one.
LEMMA MaxNat ==
    ASSUME NEW S \in SUBSET Nat, S # {}, NEW b \in Nat, \A x \in S : x <= b
    PROVE  Max(S) \in S /\ \A y \in S : y <= Max(S)
<1> DEFINE Bounds == {n \in Nat : \A x \in S : x <= n}
<1>1. Bounds \in SUBSET Nat /\ Bounds # {}
  OBVIOUS
<1>2. Min(Bounds) \in Bounds /\ \A n \in Bounds : Min(Bounds) <= n
  <2> HIDE DEF Bounds
  <2>1. QED
    BY <1>1, MinNat
<1>3. PICK m \in Nat : (\A x \in S : x <= m) /\ \A n \in Nat : (\A x \in S : x <= n) => m <= n
  BY <1>2
<1>4. m \in S
  <2> SUFFICES ASSUME m \notin S PROVE FALSE
    OBVIOUS
  <2>1. m # 0
    <3>1. PICK x \in S : TRUE
      OBVIOUS
    <3>2. x \in Nat /\ x <= m /\ x # m
      BY <1>3, <3>1
    <3>3. QED
      BY <3>2
  <2>2. m - 1 \in Nat /\ \A x \in S : x <= m - 1
    BY <1>3, <2>1
  <2>3. QED
    BY <1>3, <2>2
<1>5. \E x \in S : \A y \in S : x >= y
  BY <1>3, <1>4
<1>6. QED
  BY <1>5 DEF Max

\* The extra handles of a specification.
LEMMA ExtrasTyped ==
    ASSUME NEW spec \in Specs
    PROVE  /\ Len(spec.extra) \in Nat /\ DOMAIN spec.extra = 1 .. Len(spec.extra)
           /\ \A i \in 1 .. Len(spec.extra) : spec.extra[i].source \in Nat /\ spec.extra[i].target \in Nat
<1> DEFINE e == spec.extra
<1>1. e \in Seq([source : Nat, target : Nat])
  BY SpecsAssumption
<1> HIDE DEF e
<1>2. Len(e) \in Nat /\ DOMAIN e = 1 .. Len(e) /\ \A i \in 1 .. Len(e) : e[i] \in [source : Nat, target : Nat]
  BY <1>1, LenProperties, ElementOfSeq
<1>3. \A i \in 1 .. Len(e) : e[i].source \in Nat /\ e[i].target \in Nat
  BY <1>2
<1>4. QED
  BY <1>2, <1>3 DEF e

\* Their targets are bounded.
Bounded(spec, k) == \E b \in Nat : \A i \in 1 .. k : spec.extra[i].target <= b
LEMMA TargetsBounded ==
    ASSUME NEW spec \in Specs
    PROVE  \E b \in Nat : \A i \in DOMAIN spec.extra : spec.extra[i].target <= b
<1> DEFINE n == Len(spec.extra)
           S == {k \in Nat : k <= n => Bounded(spec, k)}
<1>1. n \in Nat /\ DOMAIN spec.extra = 1 .. n /\ \A i \in 1 .. n : spec.extra[i].target \in Nat
  BY ExtrasTyped
<1> HIDE DEF n
<1>2. 0 \in S
  BY DEF Bounded
<1>3. ASSUME NEW k \in Nat, k \in S PROVE k + 1 \in S
  <2>1. CASE k + 1 <= n
    <3>0. Bounded(spec, k)
      BY <1>1, <1>3, <2>1
    <3>1. PICK b \in Nat : \A i \in 1 .. k : spec.extra[i].target <= b
      BY <3>0 DEF Bounded
    <3> DEFINE t == spec.extra[k + 1].target
               c == IF b <= t THEN t ELSE b
    <3>2. t \in Nat
      BY <1>1, <2>1
    <3> HIDE DEF t
    <3>3. c \in Nat /\ b <= c /\ t <= c
      BY <3>2
    <3> HIDE DEF c
    <3>4. ASSUME NEW i \in 1 .. k + 1 PROVE spec.extra[i].target <= c
      <4>1. CASE i = k + 1
        BY <3>3, <4>1 DEF t
      <4>2. CASE i \in 1 .. k
        <5>1. spec.extra[i].target \in Nat /\ spec.extra[i].target <= b
          BY <1>1, <2>1, <3>1, <4>2
        <5>2. QED
          BY <3>3, <5>1
      <4>3. QED
        BY <4>1, <4>2
    <3>5. QED
      BY <3>3, <3>4 DEF Bounded
  <2>2. CASE ~(k + 1 <= n)
    BY <2>2
  <2>3. QED
    BY <2>1, <2>2
<1>4. n \in S
  <2> HIDE DEF S
  <2>1. QED
    BY <1>1, <1>2, <1>3, SetInduction
<1>5. Bounded(spec, n)
  BY <1>1, <1>4
<1>6. QED
  BY <1>1, <1>5 DEF Bounded

\* The highest target is above stdio and not below any target.
LEMMA MaxTargetBounds ==
    ASSUME NEW spec \in Specs
    PROVE  /\ MaxTarget(spec) \in Nat /\ MaxTarget(spec) >= 2
           /\ \A i \in DOMAIN spec.extra : spec.extra[i].target <= MaxTarget(spec)
<1> DEFINE S == {2} \union {spec.extra[i].target : i \in DOMAIN spec.extra}
<1>1. \A i \in DOMAIN spec.extra : spec.extra[i].target \in Nat
  BY ExtrasTyped
<1>2. S \in SUBSET Nat /\ S # {} /\ 2 \in S
  BY <1>1
<1>3. PICK b \in Nat : \A i \in DOMAIN spec.extra : spec.extra[i].target <= b
  BY TargetsBounded
<1>4. b + 2 \in Nat /\ \A x \in S : x <= b + 2
  BY <1>1, <1>3
<1>5. \A i \in DOMAIN spec.extra : spec.extra[i].target \in S
  OBVIOUS
<1>6. MaxTarget(spec) = Max(S)
  BY DEF MaxTarget
<1> HIDE DEF S
<1>7. Max(S) \in S /\ \A y \in S : y <= Max(S)
  BY <1>2, <1>4, MaxNat
<1>8. QED
  BY <1>2, <1>5, <1>6, <1>7

\* F_DUPFD finds a free number above the given one.
LEMMA LowestFreeIsFree ==
    ASSUME NEW open \in SUBSET Nat, IsFiniteSet(open), NEW above \in Nat
    PROVE  /\ LowestFree(open, above) \in Nat /\ LowestFree(open, above) > above
           /\ LowestFree(open, above) \notin open
<1> DEFINE c == Cardinality(open)
           I == (above + 1) .. (above + 1 + c)
           S == {f \in I : f \notin open}
<1>1. c \in Nat
  BY FS_CardinalityType
<1> HIDE DEF c
<1>2. Cardinality(I) = c + 1
  BY <1>1, FS_Interval
<1>3. S # {}
  <2> SUFFICES ASSUME I \subseteq open PROVE FALSE
    OBVIOUS
  <2> HIDE DEF I
  <2>1. Cardinality(I) <= Cardinality(open)
    BY FS_Subset
  <2>2. QED
    BY <1>1, <1>2, <2>1 DEF c
<1>4. S \in SUBSET Nat /\ \A f \in S : f > above /\ f \notin open
  BY <1>1
<1>5. LowestFree(open, above) = Min(S)
  BY DEF LowestFree, c
<1> HIDE DEF S
<1>6. Min(S) \in S
  BY <1>3, <1>4, MinNat
<1>7. QED
  BY <1>4, <1>5, <1>6

\* What k turns of renumberExtras() have made: the parent's files are where they
\* were, and source i is above every target and has the file that was asked for.
Descriptors == [open : SUBSET Nat, sources : Seq(Nat), at : UNION {[S -> Nat] : S \in SUBSET Nat}]
Renumbered(spec, k) ==
    {a \in Descriptors :
        /\ IsFiniteSet(a.open) /\ spec.open \subseteq a.open
        /\ DOMAIN a.at = a.open /\ \A f \in spec.open : a.at[f] = f
        /\ Len(a.sources) = k
        /\ \A i \in 1 .. k : /\ a.sources[i] \in a.open /\ a.sources[i] > MaxTarget(spec)
                             /\ a.at[a.sources[i]] = spec.extra[i].source}

LEMMA RenumberTurn ==
    ASSUME NEW spec \in Specs, validate(spec), NEW k \in 1 .. Len(spec.extra), NEW a \in Renumbered(spec, k - 1)
    PROVE  renumber(spec, a, k) \in Renumbered(spec, k)
<1> DEFINE source == spec.extra[k].source
           M == MaxTarget(spec)
<1>1. /\ k \in DOMAIN spec.extra /\ k \in Nat /\ k - 1 \in Nat /\ k >= 1
      /\ \A i \in 1 .. k : i = k \/ i \in 1 .. k - 1
  BY SpecsAssumption
<1>2. source \in spec.open
  BY <1>1 DEF validate
<1>3. M \in Nat
  BY MaxTargetBounds
<1>4. /\ a \in Descriptors /\ a.open \in SUBSET Nat /\ a.sources \in Seq(Nat)
      /\ IsFiniteSet(a.open) /\ spec.open \subseteq a.open
      /\ a.at \in [a.open -> Nat] /\ \A f \in spec.open : a.at[f] = f
  BY DEF Renumbered, Descriptors
<1>5. /\ Len(a.sources) = k - 1
      /\ \A i \in 1 .. k - 1 : /\ a.sources[i] \in a.open /\ a.sources[i] > M
                               /\ a.at[a.sources[i]] = spec.extra[i].source
  BY DEF Renumbered
<1>6. source \in Nat /\ a.at[source] = source /\ source \in a.open
  BY <1>2, <1>4
<1> HIDE DEF source, M
<1>7. CASE source > M
  <2> DEFINE s == Append(a.sources, source)
             b == [a EXCEPT !.sources = s]
  <2>1. renumber(spec, a, k) = b
    BY <1>7 DEF renumber, source, M
  <2>2. s \in Seq(Nat) /\ Len(s) = k /\ s[k] = source /\ \A i \in 1 .. k - 1 : s[i] = a.sources[i]
    BY <1>1, <1>4, <1>5, <1>6
  <2> HIDE DEF s
  <2>3. b \in Descriptors /\ b.open = a.open /\ b.at = a.at /\ b.sources = s
    BY <1>4, <2>2 DEF Descriptors
  <2> HIDE DEF b
  <2>4. \A i \in 1 .. k : s[i] \in a.open /\ s[i] > M /\ a.at[s[i]] = spec.extra[i].source
    BY <1>1, <1>5, <1>6, <1>7, <2>2 DEF source
  <2>5. QED
    BY <1>4, <2>1, <2>2, <2>3, <2>4 DEF Renumbered, M
<1>8. CASE ~(source > M)
  <2> DEFINE moved == LowestFree(a.open, M)
             s == Append(a.sources, moved)
             o == a.open \union {moved}
             m == [f \in DOMAIN a.at \union {moved} |-> IF f = moved THEN a.at[source] ELSE a.at[f]]
             b == [open |-> o, sources |-> s, at |-> m]
  <2>1. renumber(spec, a, k) = b
    BY <1>8 DEF renumber, source, M
  <2>2. moved \in Nat /\ moved > M /\ moved \notin a.open
    BY <1>3, <1>4, LowestFreeIsFree
  <2> HIDE DEF moved
  <2>3. s \in Seq(Nat) /\ Len(s) = k /\ s[k] = moved /\ \A i \in 1 .. k - 1 : s[i] = a.sources[i]
    BY <1>1, <1>4, <1>5, <2>2
  <2>4. o \in SUBSET Nat /\ IsFiniteSet(o) /\ a.open \subseteq o /\ moved \in o
    BY <1>4, <2>2, FS_AddElement
  <2>5. m \in [o -> Nat] /\ m[moved] = source /\ \A f \in a.open : m[f] = a.at[f]
    BY <1>4, <1>6, <2>2
  <2> HIDE DEF s, o, m
  <2>6. b \in Descriptors /\ b.open = o /\ b.at = m /\ b.sources = s
    BY <2>3, <2>4, <2>5 DEF Descriptors
  <2> HIDE DEF b
  <2>7. \A i \in 1 .. k : s[i] \in o /\ s[i] > M /\ m[s[i]] = spec.extra[i].source
    <3>1. s[k] \in o /\ s[k] > M /\ m[s[k]] = spec.extra[k].source
      BY <2>2, <2>3, <2>4, <2>5 DEF source
    <3>2. ASSUME NEW i \in 1 .. k - 1 PROVE s[i] \in o /\ s[i] > M /\ m[s[i]] = spec.extra[i].source
      <4>1. s[i] = a.sources[i] /\ s[i] \in a.open /\ s[i] > M /\ a.at[s[i]] = spec.extra[i].source
        BY <1>5, <2>3
      <4>2. QED
        BY <2>4, <2>5, <4>1
    <3>3. QED
      BY <1>1, <3>1, <3>2
  <2>8. spec.open \subseteq o /\ DOMAIN m = o /\ \A f \in spec.open : m[f] = f
    BY <1>4, <2>4, <2>5
  <2>9. QED
    BY <2>1, <2>3, <2>4, <2>6, <2>7, <2>8 DEF Renumbered, M
<1>9. QED
  BY <1>7, <1>8

LEMMA RenumberExtrasEffect ==
    ASSUME NEW spec \in Specs, validate(spec)
    PROVE  renumberExtras(spec) \in Renumbered(spec, Len(spec.extra))
<1> DEFINE n == Len(spec.extra)
           r == [open |-> spec.open, sources |-> <<>>, at |-> [f \in spec.open |-> f]]
           P == [k \in 0 .. n |-> Renumbered(spec, k)]
           f == CHOOSE h : h = [k \in 0 .. n |-> IF k = 0 THEN r ELSE renumber(spec, h[k - 1], k)]
           step == [k \in 1 .. n |-> [a \in P[k - 1] |-> renumber(spec, a, k)]]
<1>1. renumberExtras(spec) = f[n]
  BY DEF renumberExtras
<1>2. n \in Nat
  BY SpecsAssumption
<1>3. r \in Renumbered(spec, 0)
  <2> DEFINE m == [g \in spec.open |-> g]
  <2>1. spec.open \in SUBSET Nat /\ IsFiniteSet(spec.open)
    BY SpecsAssumption
  <2>2. m \in [spec.open -> Nat] /\ \A g \in spec.open : m[g] = g
    BY <2>1
  <2> HIDE DEF m
  <2>3. r = [open |-> spec.open, sources |-> <<>>, at |-> m]
    BY DEF m
  <2> HIDE DEF r
  <2>4. r \in Descriptors /\ r.open = spec.open /\ r.at = m /\ r.sources = <<>>
    BY <2>1, <2>2, <2>3 DEF Descriptors
  <2>5. QED
    BY <2>1, <2>2, <2>4 DEF Renumbered
<1> HIDE DEF n, r
<1>4. \A k \in 0 .. n : P[k] = Renumbered(spec, k)
  OBVIOUS
<1>5. \A k \in 1 .. n : k - 1 \in 0 .. n /\ k \in 0 .. n /\ k # 0
  BY <1>2
<1>6. \A k \in 1 .. n : \A a \in Renumbered(spec, k - 1) : renumber(spec, a, k) \in Renumbered(spec, k)
  BY RenumberTurn DEF n
<1>7. \A k \in 1 .. n : \A a \in P[k - 1] : step[k][a] = renumber(spec, a, k) /\ renumber(spec, a, k) \in P[k]
  BY <1>4, <1>5, <1>6
<1>8. r \in P[0]
  BY <1>2, <1>3, <1>4
<1> HIDE DEF step, P
<1>9. PICK g : Course(g, n, P, step, r)
  <2>1. LoopOf(n, P, step, r)
    BY <1>2, <1>7, <1>8, LoopExists
  <2>2. QED
    BY <2>1 DEF LoopOf
<1>10. g = [k \in 0 .. n |-> g[k]] /\ g[0] = r /\ (\A k \in 0 .. n : g[k] \in P[k])
       /\ \A k \in 1 .. n : g[k] = step[k][g[k - 1]]
  BY <1>9 DEF Course
<1>11. ASSUME NEW k \in 0 .. n PROVE g[k] = IF k = 0 THEN r ELSE renumber(spec, g[k - 1], k)
  <2>1. k # 0 => k \in 1 .. n /\ k - 1 \in 0 .. n
    BY <1>2
  <2>2. QED
    BY <1>7, <1>10, <2>1
<1>12. g = [k \in 0 .. n |-> IF k = 0 THEN r ELSE renumber(spec, g[k - 1], k)]
  BY <1>10, <1>11
<1>13. f = [k \in 0 .. n |-> IF k = 0 THEN r ELSE renumber(spec, f[k - 1], k)]
  BY <1>12
<1> HIDE DEF f
<1>14. f[0] = r /\ \A k \in 1 .. n : f[k] = renumber(spec, f[k - 1], k)
  BY <1>2, <1>13
<1>15. f[0] \in P[0] /\ \A k \in 1 .. n : f[k - 1] \in P[k - 1] => f[k] \in P[k]
  BY <1>7, <1>8, <1>14
<1>16. f[n] \in P[n]
  BY <1>2, <1>15, LoopInduction
<1>17. QED
  BY <1>1, <1>2, <1>4, <1>16 DEF n

\* What the file actions have made of the table once k extra handles are placed:
\* stdio is as asked for, what is above every target is untouched.
StdioAsAsked(spec, t) ==
    \A f \in 0 .. 2 : t[f] = IF spec.stdio[f + 1] = Inherit THEN f ELSE spec.stdio[f + 1]
Tables == UNION {[S -> Int] : S \in SUBSET Nat}
PlacedBy(spec, a, k) ==
    {t \in Tables :
        /\ a.open \subseteq DOMAIN t /\ StdioAsAsked(spec, t)
        /\ \A f \in a.open : f > MaxTarget(spec) => t[f] = a.at[f]
        /\ \A i \in 1 .. k : /\ spec.extra[i].target \in DOMAIN t
                             /\ t[spec.extra[i].target] = spec.extra[i].source}

\* dup2() onto one number leaves the others.
Dup2Made(D, t, source, target, u) ==
    /\ u \in [D \union {target} -> Int]
    /\ \A f \in D \ {target} : u[f] = t[f]
    /\ u[target] = IF source = Inherit THEN t[target] ELSE IF source = Null THEN Null ELSE t[source]

LEMMA Dup2Effect ==
    ASSUME NEW D \in SUBSET Nat, NEW t \in [D -> Int], NEW target \in Nat, NEW source,
           source \in D \/ (source = Null) \/ (source = Inherit /\ target \in D)
    PROVE  Dup2Made(D, t, source, target, dup2(t, source, target))
<1>1. CASE source = Inherit
  BY <1>1 DEF dup2, Dup2Made, Inherit, Null
<1>2. CASE source = Null
  BY <1>2 DEF dup2, Dup2Made, Inherit, Null
<1>3. CASE source \in D
  BY <1>3 DEF dup2, Dup2Made, Inherit, Null
<1>4. QED
  BY <1>1, <1>2, <1>3

\* The three file actions for stdio.
LEMMA StdioPlaced ==
    ASSUME NEW spec \in Specs, validate(spec), NEW k \in Nat, NEW a \in Renumbered(spec, k)
    PROVE  placeStdio(spec, a.at) \in PlacedBy(spec, a, 0)
<1> DEFINE D == a.open
           s == spec.stdio
           t1 == dup2(a.at, s[1], 0)
           t2 == dup2(t1, s[2], 1)
           t3 == dup2(t2, s[3], 2)
<1>1. D \in SUBSET Nat /\ a.at \in [D -> Nat] /\ spec.open \subseteq D /\ \A f \in spec.open : a.at[f] = f
  BY DEF Renumbered, Descriptors
<1>2. /\ 0 \in spec.open /\ 1 \in spec.open /\ 2 \in spec.open
      /\ \A i \in 1 .. 3 : s[i] \in Nat \union {Inherit, Null}
  BY SpecsAssumption
<1>3. \A i \in 1 .. 3 : s[i] = Inherit \/ s[i] = Null \/ (s[i] \in spec.open /\ s[i] > 2 /\ s[i] # Inherit /\ s[i] # Null)
  <2>1. \A i \in 1 .. 3 : s[i] >= 0 => s[i] \in spec.open /\ s[i] > 2
    BY DEF validate
  <2>2. QED
    BY <1>2, <2>1 DEF Inherit, Null
<1>4. placeStdio(spec, a.at) = t3
  BY DEF placeStdio
<1>5. spec.open \subseteq Nat /\ a.at \in [D -> Int]
  BY <1>1, SpecsAssumption
<1>6. D \union {0} = D /\ D \union {1} = D /\ D \union {2} = D
  BY <1>1, <1>2
<1> HIDE DEF D, s
<1>7. /\ t1 \in [D -> Int] /\ (\A f \in D \ {0} : t1[f] = a.at[f])
      /\ t1[0] = IF s[1] = Inherit THEN a.at[0] ELSE IF s[1] = Null THEN Null ELSE a.at[s[1]]
  <2>1. s[1] \in D \/ (s[1] = Null) \/ (s[1] = Inherit /\ 0 \in D)
    BY <1>1, <1>2, <1>3
  <2>2. Dup2Made(D, a.at, s[1], 0, t1)
    BY <1>1, <1>5, <2>1, Dup2Effect
  <2>3. QED
    BY <1>6, <2>2 DEF Dup2Made
<1> HIDE DEF t1
<1>8. /\ t2 \in [D -> Int] /\ (\A f \in D \ {1} : t2[f] = t1[f])
      /\ t2[1] = IF s[2] = Inherit THEN t1[1] ELSE IF s[2] = Null THEN Null ELSE t1[s[2]]
  <2>1. s[2] \in D \/ (s[2] = Null) \/ (s[2] = Inherit /\ 1 \in D)
    BY <1>1, <1>2, <1>3
  <2>2. Dup2Made(D, t1, s[2], 1, t2)
    BY <1>1, <1>7, <2>1, Dup2Effect
  <2>3. QED
    BY <1>6, <2>2 DEF Dup2Made
<1> HIDE DEF t2
<1>9. /\ t3 \in [D -> Int] /\ (\A f \in D \ {2} : t3[f] = t2[f])
      /\ t3[2] = IF s[3] = Inherit THEN t2[2] ELSE IF s[3] = Null THEN Null ELSE t2[s[3]]
  <2>1. s[3] \in D \/ (s[3] = Null) \/ (s[3] = Inherit /\ 2 \in D)
    BY <1>1, <1>2, <1>3
  <2>2. Dup2Made(D, t2, s[3], 2, t3)
    BY <1>1, <1>8, <2>1, Dup2Effect
  <2>3. QED
    BY <1>6, <2>2 DEF Dup2Made
<1> HIDE DEF t3
<1>10. 0 \in D /\ 1 \in D /\ 2 \in D /\ a.at[0] = 0 /\ a.at[1] = 1 /\ a.at[2] = 2
  BY <1>1, <1>2
<1>11. \A f \in D : f > 2 => t3[f] = a.at[f] /\ t2[f] = a.at[f] /\ t1[f] = a.at[f]
  BY <1>1, <1>7, <1>8, <1>9
<1>12. t3[0] = IF s[1] = Inherit THEN 0 ELSE s[1]
  <2>1. t3[0] = t1[0]
    BY <1>8, <1>9, <1>10
  <2>2. s[1] # Inherit /\ s[1] # Null => a.at[s[1]] = s[1]
    BY <1>1, <1>3
  <2>3. QED
    BY <1>7, <1>10, <2>1, <2>2
<1>13. t3[1] = IF s[2] = Inherit THEN 1 ELSE s[2]
  <2>1. t3[1] = t2[1] /\ t1[1] = 1
    BY <1>7, <1>9, <1>10
  <2>2. s[2] = Inherit \/ s[2] = Null \/ (s[2] \in spec.open /\ s[2] > 2)
    BY <1>3
  <2>3. s[2] # Inherit /\ s[2] # Null => t1[s[2]] = s[2]
    BY <1>1, <1>11, <2>2
  <2>4. QED
    BY <1>8, <2>1, <2>3
<1>14. t3[2] = IF s[3] = Inherit THEN 2 ELSE s[3]
  <2>1. t2[2] = 2
    BY <1>7, <1>8, <1>10
  <2>2. s[3] = Inherit \/ s[3] = Null \/ (s[3] \in spec.open /\ s[3] > 2)
    BY <1>3
  <2>3. s[3] # Inherit /\ s[3] # Null => t2[s[3]] = s[3]
    BY <1>1, <1>11, <2>2
  <2>4. QED
    BY <1>9, <2>1, <2>3
<1>15. StdioAsAsked(spec, t3)
  <2>1. \A f \in 0 .. 2 : f = 0 \/ f = 1 \/ f = 2
    OBVIOUS
  <2>2. QED
    BY <1>12, <1>13, <1>14, <2>1 DEF StdioAsAsked, s
<1>16. MaxTarget(spec) \in Nat /\ MaxTarget(spec) >= 2
  BY MaxTargetBounds
<1>17. \A f \in D : f > MaxTarget(spec) => t3[f] = a.at[f]
  BY <1>1, <1>11, <1>16
<1>18. t3 \in Tables /\ DOMAIN t3 = D
  BY <1>1, <1>9 DEF Tables
<1>19. QED
  BY <1>4, <1>15, <1>17, <1>18 DEF PlacedBy, D

\* Placing one more extra handle.
LEMMA ExtraTurn ==
    ASSUME NEW spec \in Specs, validate(spec), NEW a \in Renumbered(spec, Len(spec.extra)),
           NEW k \in 1 .. Len(spec.extra), NEW t \in PlacedBy(spec, a, k - 1)
    PROVE  dup2(t, a.sources[k], spec.extra[k].target) \in PlacedBy(spec, a, k)
<1> DEFINE source == a.sources[k]
           target == spec.extra[k].target
           M == MaxTarget(spec)
           u == dup2(t, source, target)
<1>1. PICK D \in SUBSET Nat : t \in [D -> Int]
  BY DEF PlacedBy, Tables
<1>2. /\ a.open \subseteq D /\ StdioAsAsked(spec, t) /\ (\A f \in a.open : f > M => t[f] = a.at[f])
      /\ \A i \in 1 .. k - 1 : spec.extra[i].target \in D /\ t[spec.extra[i].target] = spec.extra[i].source
  BY <1>1 DEF PlacedBy
<1>3. /\ source \in a.open /\ source > M /\ a.at[source] = spec.extra[k].source
      /\ a.open \in SUBSET Nat /\ 0 .. 2 \subseteq a.open
  BY SpecsAssumption DEF Renumbered, Descriptors
<1>4. M \in Nat /\ target \in Nat /\ target <= M /\ k \in Nat
  BY ExtrasTyped, MaxTargetBounds
<1>5. target > 2 /\ \A i \in 1 .. k - 1 : spec.extra[i].target # target
  BY ExtrasTyped DEF validate
<1> HIDE DEF source, target, M
<1>6. /\ u \in [D \union {target} -> Int] /\ (\A f \in D \ {target} : u[f] = t[f])
      /\ u[target] = t[source]
  <2>1. source \in D /\ source \in Nat /\ source # Inherit /\ source # Null
    BY <1>2, <1>3 DEF Inherit, Null
  <2>2. Dup2Made(D, t, source, target, u)
    BY <1>1, <1>4, <2>1, Dup2Effect
  <2>3. QED
    BY <2>1, <2>2 DEF Dup2Made
<1> HIDE DEF u
<1>7. StdioAsAsked(spec, u)
  <2>1. \A f \in 0 .. 2 : f \in D \ {target}
    BY <1>2, <1>3, <1>5
  <2>2. QED
    BY <1>2, <1>6, <2>1 DEF StdioAsAsked
<1>8. ASSUME NEW f \in a.open, f > M PROVE u[f] = a.at[f]
  <2>1. f \in D \ {target} /\ t[f] = a.at[f]
    BY <1>2, <1>3, <1>4, <1>8
  <2>2. QED
    BY <1>6, <2>1
<1>9. \A i \in 1 .. k - 1 : spec.extra[i].target \in D \ {target} /\ u[spec.extra[i].target] = spec.extra[i].source
  BY <1>2, <1>5, <1>6
<1>10. u[target] = spec.extra[k].source
  BY <1>2, <1>3, <1>6
<1>11. \A i \in 1 .. k : spec.extra[i].target \in D \union {target} /\ u[spec.extra[i].target] = spec.extra[i].source
  <2>1. \A i \in 1 .. k : i = k \/ i \in 1 .. k - 1
    BY <1>4
  <2>2. QED
    BY <1>9, <1>10, <2>1 DEF target
<1>12. u \in Tables /\ DOMAIN u = D \union {target}
  BY <1>4, <1>6 DEF Tables
<1>13. QED
  BY <1>2, <1>7, <1>8, <1>11, <1>12 DEF PlacedBy, u, source, target, M

LEMMA ExtrasPlaced ==
    ASSUME NEW spec \in Specs, validate(spec), NEW a \in Renumbered(spec, Len(spec.extra)),
           NEW r \in PlacedBy(spec, a, 0)
    PROVE  placeExtras(spec, a.sources, r) \in PlacedBy(spec, a, Len(spec.extra))
<1> DEFINE n == Len(spec.extra)
           P == [k \in 0 .. n |-> PlacedBy(spec, a, k)]
           f == CHOOSE h : h = [k \in 0 .. n |-> IF k = 0 THEN r ELSE dup2(h[k - 1], a.sources[k], spec.extra[k].target)]
           step == [k \in 1 .. n |-> [t \in P[k - 1] |-> dup2(t, a.sources[k], spec.extra[k].target)]]
<1>1. placeExtras(spec, a.sources, r) = f[n]
  BY DEF placeExtras
<1>2. n \in Nat
  BY SpecsAssumption
<1> HIDE DEF n
<1>3. \A k \in 0 .. n : P[k] = PlacedBy(spec, a, k)
  OBVIOUS
<1>4. \A k \in 1 .. n : k - 1 \in 0 .. n /\ k \in 0 .. n /\ k # 0
  BY <1>2
<1>5. \A k \in 1 .. n : \A t \in PlacedBy(spec, a, k - 1) :
         dup2(t, a.sources[k], spec.extra[k].target) \in PlacedBy(spec, a, k)
  BY ExtraTurn DEF n
<1>6. \A k \in 1 .. n : \A t \in P[k - 1] :
         /\ step[k][t] = dup2(t, a.sources[k], spec.extra[k].target)
         /\ dup2(t, a.sources[k], spec.extra[k].target) \in P[k]
  BY <1>3, <1>4, <1>5
<1>7. r \in P[0]
  BY <1>2, <1>3
<1> HIDE DEF step, P
<1>8. PICK g : Course(g, n, P, step, r)
  <2>1. LoopOf(n, P, step, r)
    BY <1>2, <1>6, <1>7, LoopExists
  <2>2. QED
    BY <2>1 DEF LoopOf
<1>9. g = [k \in 0 .. n |-> g[k]] /\ g[0] = r /\ (\A k \in 0 .. n : g[k] \in P[k])
       /\ \A k \in 1 .. n : g[k] = step[k][g[k - 1]]
  BY <1>8 DEF Course
<1>10. ASSUME NEW k \in 0 .. n
       PROVE  g[k] = IF k = 0 THEN r ELSE dup2(g[k - 1], a.sources[k], spec.extra[k].target)
  <2>1. k # 0 => k \in 1 .. n /\ k - 1 \in 0 .. n
    BY <1>2
  <2>2. QED
    BY <1>6, <1>9, <2>1
<1>11. g = [k \in 0 .. n |-> IF k = 0 THEN r ELSE dup2(g[k - 1], a.sources[k], spec.extra[k].target)]
  BY <1>9, <1>10
<1>12. f = [k \in 0 .. n |-> IF k = 0 THEN r ELSE dup2(f[k - 1], a.sources[k], spec.extra[k].target)]
  BY <1>11
<1> HIDE DEF f
<1>13. f[0] = r /\ \A k \in 1 .. n : f[k] = dup2(f[k - 1], a.sources[k], spec.extra[k].target)
  BY <1>2, <1>12
<1>14. f[0] \in P[0] /\ \A k \in 1 .. n : f[k - 1] \in P[k - 1] => f[k] \in P[k]
  BY <1>6, <1>7, <1>13
<1>15. f[n] \in P[n]
  BY <1>2, <1>14, LoopInduction
<1>16. QED
  BY <1>1, <1>2, <1>3, <1>15 DEF n

\* The table of a child is the one that was asked for.
LEMMA ChildTableIsWanted ==
    ASSUME NEW spec \in Specs, validate(spec)
    PROVE  childTable(spec) = wantedTable(spec)
<1> DEFINE n == Len(spec.extra)
           a == renumberExtras(spec)
           t == placeExtras(spec, a.sources, placeStdio(spec, a.at))
<1>1. n \in Nat /\ DOMAIN spec.extra = 1 .. n /\ \A i \in 1 .. n : spec.extra[i].target \in Nat
  BY ExtrasTyped
<1>2. a \in Renumbered(spec, n)
  BY RenumberExtrasEffect
<1>3. childTable(spec) = [f \in placed(spec) |-> t[f]]
  BY DEF childTable
<1> HIDE DEF a
<1>4. t \in PlacedBy(spec, a, n)
  BY <1>1, <1>2, StdioPlaced, ExtrasPlaced
<1> HIDE DEF t
<1>5. StdioAsAsked(spec, t) /\ \A i \in 1 .. n : t[spec.extra[i].target] = spec.extra[i].source
  BY <1>4 DEF PlacedBy
<1>6. ASSUME NEW f \in placed(spec)
      PROVE  t[f] = IF f <= 2 THEN (IF spec.stdio[f + 1] = Inherit THEN f ELSE spec.stdio[f + 1])
                    ELSE spec.extra[CHOOSE i \in DOMAIN spec.extra : spec.extra[i].target = f].source
  <2>1. CASE f \in {0, 1, 2}
    BY <1>5, <2>1 DEF StdioAsAsked
  <2>2. CASE f \notin {0, 1, 2}
    <3>1. PICK i \in DOMAIN spec.extra : spec.extra[i].target = f
      BY <2>2 DEF placed
    <3> DEFINE j == CHOOSE x \in DOMAIN spec.extra : spec.extra[x].target = f
    <3>2. j \in DOMAIN spec.extra /\ spec.extra[j].target = f
      BY <3>1
    <3> HIDE DEF j
    <3>3. f \in Nat /\ ~(f <= 2)
      BY <1>1, <2>2, <3>1
    <3>4. t[f] = spec.extra[j].source
      BY <1>1, <1>5, <3>2
    <3>5. QED
      BY <3>3, <3>4 DEF j
  <2>3. QED
    BY <2>1, <2>2
<1>7. QED
  BY <1>3, <1>6, ZenonT(60) DEF wantedTable

\* No step of a process or of its handle touches the tables of another process,
\* and what it makes of its own is empty or that of a valid specification.
LEMMA TablesKept ==
    ASSUME ProcessInv, ChildGetsItsHandles, ProcessNext \/ UNCHANGED processVars
    PROVE  ChildGetsItsHandles'
<1> DEFINE Fits(k) == k.fds = k.want
<1>1. kernel \in [Pids -> KernelProcess] /\ \A p \in Pids : Fits(kernel[p])
  BY DEF ProcessInv, ProcessTypeOK, ChildGetsItsHandles
<1>2. Fits(Free)
  BY DEF Free
<1>3. ASSUME NEW q \in Pids, NEW k, kernel' = [kernel EXCEPT ![q] = k], Fits(k) PROVE ChildGetsItsHandles'
  BY <1>1, <1>3 DEF ChildGetsItsHandles
<1>4. ASSUME NEW id, kernel' = reaped(kernel, id) \/ kernel' = killedAndReaped(kernel, id)
      PROVE  ChildGetsItsHandles'
  <2>1. CASE id \notin Pids
    BY <1>1, <1>4, <2>1 DEF reaped, killedAndReaped, ChildGetsItsHandles
  <2>2. CASE id \in Pids
    <3> DEFINE k == IF kernel[id].group THEN [kernel[id] EXCEPT !.state = "free"] ELSE Free
    <3>1. kernel' = [kernel EXCEPT ![id] = k] \/ kernel' = [kernel EXCEPT ![id] = Free]
      BY <1>1, <1>4, <2>2 DEF reaped, killedAndReaped
    <3>2. Fits(k)
      BY <1>1, <1>2, <2>2 DEF KernelProcess
    <3> HIDE DEF k, Fits
    <3>3. QED
      BY <1>2, <1>3, <2>2, <3>1, <3>2
  <2>3. QED
    BY <2>1, <2>2
<1>5. ASSUME kernel' = kernel PROVE ChildGetsItsHandles'
  BY <1>5 DEF ChildGetsItsHandles
<1>6. ASSUME NEW h \in Handles, NEW spec \in Specs, NEW p \in Pids, NEW execs \in BOOLEAN,
             spawn(h, spec, p, execs)
      PROVE  ChildGetsItsHandles'
  <2>1. CASE validate(spec) /\ execs
    <3> DEFINE k == [state |-> "running", serial |-> spawned + 1, group |-> FALSE,
                     fds |-> childTable(spec), want |-> wantedTable(spec)]
    <3>1. kernel' = [kernel EXCEPT ![p] = k]
      BY <1>6, <2>1 DEF spawn
    <3>2. Fits(k)
      BY <2>1, ChildTableIsWanted
    <3> HIDE DEF k, Fits
    <3>3. QED
      BY <1>3, <3>1, <3>2
  <2>2. CASE ~(validate(spec) /\ execs)
    BY <1>5, <1>6, <2>2 DEF spawn
  <2>3. QED
    BY <2>1, <2>2
<1>7. ASSUME NEW h \in Handles, tryWait(h) \/ stop(h) \/ destroyProcess(h) PROVE ChildGetsItsHandles'
  <2> HIDE DEF Fits
  <2>1. CASE tryWait(h)
    BY <1>4, <2>1 DEF tryWait
  <2>2. CASE stop(h)
    BY <1>4, <2>2 DEF stop
  <2>3. CASE destroyProcess(h)
    BY <1>4, <1>5, <2>3 DEF destroyProcess, terminate
  <2>4. QED
    BY <1>7, <2>1, <2>2, <2>3
<1>8. ASSUME NEW h \in Handles, signalKill(h) PROVE ChildGetsItsHandles'
  <2> DEFINE id == handle[h].id
             k == IF kernel[id].state = "free" THEN Free ELSE [kernel[id] EXCEPT !.state = "zombie", !.group = FALSE]
  <2>1. id \in Pids
    BY <1>8 DEF signalKill, ProcessInv, ProcessTypeOK, ProcessObject
  <2>2. kernel' = [kernel EXCEPT ![id] = k]
    BY <1>1, <1>8, <2>1 DEF signalKill
  <2>3. Fits(k)
    BY <1>1, <1>2, <2>1 DEF KernelProcess
  <2> HIDE DEF k, id, Fits
  <2>4. QED
    BY <1>3, <2>1, <2>2, <2>3
<1>9. ASSUME NEW h \in Handles, NEW g \in Handles, moveAssign(h, g) PROVE ChildGetsItsHandles'
  BY <1>4, <1>5, <1>9 DEF moveAssign, terminate
<1>10. ASSUME NEW p \in Pids, childExits(p) \/ childForks(p) \/ groupEnds(p) PROVE ChildGetsItsHandles'
  <2>1. kernel[p] \in KernelProcess /\ Fits(kernel[p])
    BY <1>1
  <2>2. PICK k : /\ kernel' = [kernel EXCEPT ![p] = k]
                 /\ k \in {[kernel[p] EXCEPT !.state = "zombie"], [kernel[p] EXCEPT !.group = TRUE],
                           [kernel[p] EXCEPT !.group = FALSE], Free}
    BY <1>10 DEF childExits, childForks, groupEnds
  <2>3. Fits(k)
    BY <1>2, <2>1, <2>2 DEF KernelProcess
  <2> HIDE DEF Fits
  <2>4. QED
    BY <1>3, <2>2, <2>3
<1> HIDE DEF Fits
<1>11. CASE ProcessNext
  BY <1>6, <1>7, <1>8, <1>9, <1>10, <1>11 DEF ProcessNext
<1>12. CASE UNCHANGED processVars
  BY <1>5, <1>12 DEF processVars
<1>13. QED
  BY <1>11, <1>12

(***************************************************************************)
(* However the numbers of the parent's descriptors, of the stdio sources   *)
(* and of the targets collide, a child finds at each number what its       *)
(* caller asked for there (process.cpp renumberExtras and the file         *)
(* actions of both spawn paths).                                           *)
(***************************************************************************)
THEOREM ChildrenGetTheirHandles == Spec => []ChildGetsItsHandles
<1>1. Init => ChildGetsItsHandles
  BY DEF Init, ProcessInit, ChildGetsItsHandles, Free
<1>2. ProcessInv /\ ChildGetsItsHandles /\ [Next]_vars => ChildGetsItsHandles'
  BY TablesKept, ReactorUsesProcess
<1>3. QED
  BY <1>1, <1>2, ProcessInvariant, PTL DEF Spec

-----------------------------------------------------------------------------
(* Types *)

\* The registrations as a function.
LEMMA IoTyped ==
    ASSUME NEW io
    PROVE  io \in Registrations <=> DOMAIN io \in SUBSET Nat /\ io \in [DOMAIN io -> Registration]
BY DEF Registrations

\* An order of a finite set lists each element once.
Lists(s, S, T) ==
    /\ s \in Seq(T) /\ DOMAIN s = 1 .. Len(s) /\ Len(s) \in Nat
    /\ \A i \in 1 .. Len(s) : s[i] \in S
    /\ \A i, j \in 1 .. Len(s) : s[i] = s[j] => i = j
    /\ \A x \in S : \E i \in 1 .. Len(s) : s[i] = x

LEMMA SetToSeqsLists ==
    ASSUME NEW T, NEW S \in SUBSET T, IsFiniteSet(S), NEW s \in SetToSeqs(S)
    PROVE  Lists(s, S, T)
<1> DEFINE n == Cardinality(S)
<1>1. n \in Nat
  BY FS_CardinalityType
<1>2. s \in [1 .. n -> S] /\ \A i, j \in 1 .. n : i # j => s[i] # s[j]
  BY DEF SetToSeqs
<1> HIDE DEF n
<1>3. s \in Seq(T) /\ Len(s) = n /\ DOMAIN s = 1 .. n
  BY <1>1, <1>2
<1>4. s \in Injection(1 .. n, S)
  BY <1>2 DEF Injection, IsInjective
<1>5. Cardinality(1 .. n) = n /\ 1 \in Int /\ n \in Int
  BY <1>1, FS_Interval
<1>6. s \in Surjection(1 .. n, S)
  BY <1>4, <1>5, FS_Injection DEF n
<1>7. \A x \in S : \E i \in 1 .. n : s[i] = x
  BY <1>6 DEF Surjection
<1>8. QED
  BY <1>1, <1>2, <1>3, <1>7 DEF Lists

\* The rest of a queue.
LEMMA TailTyped ==
    ASSUME NEW T, NEW s \in Seq(T), s # <<>>
    PROVE  /\ Tail(s) \in Seq(T) /\ Head(s) \in T /\ Head(s) = s[1] /\ 1 \in 1 .. Len(s)
           /\ \A i \in 1 .. Len(Tail(s)) : i + 1 \in 1 .. Len(s) /\ Tail(s)[i] = s[i + 1]
           /\ \A i \in 2 .. Len(s) : i - 1 \in 1 .. Len(Tail(s)) /\ Tail(s)[i - 1] = s[i]
<1>1. Len(s) \in Nat /\ Len(s) # 0
  BY EmptySeq
<1>2. Tail(s) \in Seq(T) /\ Len(Tail(s)) = Len(s) - 1 /\ \A i \in 1 .. Len(Tail(s)) : Tail(s)[i] = s[i + 1]
  BY HeadTailProperties
<1>3. Head(s) = s[1] /\ 1 \in 1 .. Len(s)
  BY <1>1
<1>4. \A i \in 1 .. Len(Tail(s)) : i + 1 \in 1 .. Len(s)
  BY <1>1, <1>2
<1>5. \A i \in 2 .. Len(s) : i - 1 \in 1 .. Len(Tail(s)) /\ Tail(s)[i - 1] = s[i]
  BY <1>1, <1>2
<1>6. QED
  BY <1>2, <1>3, <1>4, <1>5

LEMMA SigChldDoes ==
    ASSUME rx \in ReactorMembers
    PROVE  \E b \in BOOLEAN : /\ sigChld(rx) = [rx EXCEPT !.selfPipe = b]
                              /\ b <=> (rx.selfPipe \/ sc.children = "signal")
<1>1. PICK b \in BOOLEAN : b = (rx.selfPipe \/ sc.children = "signal")
  OBVIOUS
<1>2. QED
  BY <1>1 DEF sigChld

LEMMA ReactorInitTyped == Init => ReactorTypeOK
<1> SUFFICES ASSUME Init PROVE ReactorTypeOK
  OBVIOUS
<1>1. <<>> \in Registrations
  <2>1. <<>> \in Seq(Registration) /\ Len(<<>>) = 0
    OBVIOUS
  <2>2. DOMAIN <<>> = {}
    BY <2>1
  <2>3. <<>> \in [{} -> Registration]
    BY <2>1, <2>2
  <2>4. QED
    BY <2>3 DEF Registrations
<1>2. rx \in ReactorMembers
  BY <1>1 DEF Init, ReactorMembers
<1>3. loop \in LoopState
  BY ReactorAssumption DEF Init, LoopState
<1>4. QED
  BY <1>2, <1>3 DEF Init, ReactorTypeOK, Closed, OpenFile

\* The steps of the loop between handlers, of stop() and of signals.
LEMMA LoopTyped ==
    ASSUME ReactorTypeOK,
           run \/ dispatchSkip \/ dispatchSignals \/ dispatchChildren \/ childrenDone \/ timersDone
               \/ stopStore \/ stopWake \/ signalArrives \/ timePasses
    PROVE  ReactorTypeOK'
<1>1. CASE run
  <2>1. rx' \in ReactorMembers
    BY <1>1 DEF run, ReactorTypeOK, ReactorMembers
  <2>2. loop' \in LoopState
    BY <1>1, ZenonT(60) DEF run, ReactorTypeOK, LoopState
  <2>3. UNCHANGED <<fd, clock, used>>
    BY <1>1 DEF run
  <2>4. QED
    BY <2>1, <2>2, <2>3 DEF ReactorTypeOK
<1>2. CASE dispatchSkip
  <2>1. Tail(loop.events) \in Seq(PolledEvent)
    BY <1>2 DEF dispatchSkip, ReactorTypeOK, LoopState
  <2>2. QED
    BY <1>2, <2>1 DEF dispatchSkip, ReactorTypeOK, LoopState
<1>3. CASE dispatchSignals
  <2>1. Tail(loop.events) \in Seq(PolledEvent)
    BY <1>3 DEF dispatchSignals, ReactorTypeOK, LoopState
  <2>2. QED
    BY <1>3, <2>1 DEF dispatchSignals, drainedSignals, pollerWake, ReactorTypeOK, ReactorMembers, LoopState
<1>4. CASE dispatchChildren
  <2>1. Tail(loop.events) \in Seq(PolledEvent)
    BY <1>4 DEF dispatchChildren, ReactorTypeOK, LoopState
  <2>2. QED
    BY <1>4, <2>1 DEF dispatchChildren, ReactorTypeOK, ReactorMembers, LoopState
<1>5. CASE childrenDone \/ timersDone
  BY <1>5 DEF childrenDone, timersDone, ReactorTypeOK, LoopState
<1>6. CASE stopStore
  <2>1. rx' \in ReactorMembers
    BY <1>6 DEF stopStore, ReactorTypeOK, ReactorMembers
  <2>2. loop' \in LoopState
    BY <1>6 DEF stopStore, ReactorTypeOK, LoopState
  <2>3. UNCHANGED <<fd, clock, used>>
    BY <1>6 DEF stopStore
  <2>4. QED
    BY <2>1, <2>2, <2>3 DEF ReactorTypeOK
<1>7. CASE stopWake
  <2>1. rx' \in ReactorMembers
    BY <1>7 DEF stopWake, pollerWake, ReactorTypeOK, ReactorMembers
  <2>2. loop' \in LoopState
    BY <1>7 DEF stopWake, ReactorTypeOK, LoopState
  <2>3. UNCHANGED <<fd, clock, used>>
    BY <1>7 DEF stopWake
  <2>4. QED
    BY <2>1, <2>2, <2>3 DEF ReactorTypeOK
<1>8. CASE signalArrives
  <2>1. rx' \in ReactorMembers
    BY <1>8 DEF signalArrives, ReactorTypeOK, ReactorMembers
  <2>2. loop' \in LoopState
    BY <1>8 DEF signalArrives, ReactorTypeOK, LoopState
  <2>3. used' \in [calls : Nat, arrivals : Nat, files : Nat] /\ UNCHANGED <<fd, clock>>
    BY <1>8 DEF signalArrives, ReactorTypeOK
  <2>4. QED
    BY <2>1, <2>2, <2>3 DEF ReactorTypeOK
<1>9. CASE timePasses
  BY <1>9 DEF timePasses, ReactorTypeOK
<1>10. QED
  BY <1>1, <1>2, <1>3, <1>4, <1>5, <1>6, <1>7, <1>8, <1>9

\* The deadline of a wait.
LEMMA DeadlineTyped ==
    ASSUME ReactorTypeOK
    PROVE  /\ NextDeadline \in Nat
           /\ \A q \in rx.timerQueue : q.id \in rx.timers => NextDeadline <= q.deadline
<1> DEFINE S == {MaxClock + 1} \union {q.deadline : q \in {r \in rx.timerQueue : r.id \in rx.timers}}
<1>1. rx.timerQueue \subseteq QueuedTimer
  BY DEF ReactorTypeOK, ReactorMembers
<1>2. S \in SUBSET Nat /\ S # {}
  BY <1>1, ReactorAssumption DEF QueuedTimer
<1>3. \A q \in rx.timerQueue : q.id \in rx.timers => q.deadline \in S
  OBVIOUS
<1>4. NextDeadline = Min(S)
  BY DEF NextDeadline
<1> HIDE DEF S
<1>5. Min(S) \in S /\ \A y \in S : Min(S) <= y
  BY <1>2, MinNat
<1>6. QED
  BY <1>2, <1>3, <1>4, <1>5

LEMMA CheckTyped ==
    ASSUME ReactorTypeOK, check
    PROVE  ReactorTypeOK'
<1>1. NextDeadline \in Nat
  BY DeadlineTyped
<1>2. loop \in LoopState /\ rx \in ReactorMembers /\ UNCHANGED <<fd, clock, used>>
  BY DEF check, ReactorTypeOK
<1>3. loop' \in LoopState
  BY <1>1, <1>2, ZenonT(60) DEF check, LoopState
<1>4. rx' \in ReactorMembers
  BY <1>2 DEF check, ReactorMembers
<1>5. QED
  BY <1>2, <1>3, <1>4 DEF ReactorTypeOK

\* What is due is a finite set of tokens.
LEMMA DueTyped ==
    ASSUME ReactorTypeOK, EventsFresh
    PROVE  /\ Due \in SUBSET Nat /\ IsFiniteSet(Due)
           /\ \A t \in Due : t \in Tokens \/ t = childToken \/ t = signalToken
<1>1. rx.nextToken \in Nat /\ rx.io \in Registrations
  BY DEF ReactorTypeOK, ReactorMembers
<1>2. Tokens \in SUBSET Nat
  BY <1>1, IoTyped DEF Tokens
<1>3. \A t \in Due : t \in Tokens \/ t = childToken \/ t = signalToken
  BY DEF Due
<1>4. Due \in SUBSET Nat /\ \A t \in Due : t <= rx.nextToken
  <2> SUFFICES ASSUME NEW t \in Due PROVE t \in Nat /\ t <= rx.nextToken
    OBVIOUS
  <2>1. rx.nextToken > 2
    BY DEF EventsFresh, signalToken
  <2>2. CASE t \in Tokens
    BY <1>1, <1>2, <2>2 DEF EventsFresh
  <2>3. CASE t = childToken \/ t = signalToken
    BY <1>1, <2>1, <2>3 DEF childToken, signalToken
  <2>4. QED
    BY <1>3, <2>2, <2>3
<1>5. QED
  BY <1>1, <1>3, <1>4, FS_BoundedSetOfNaturals

\* The edges of the delivered events are consumed, nothing else changes.
LEMMA ConsumedTyped ==
    ASSUME NEW io \in Registrations, NEW got
    PROVE  /\ consumed(io, got) \in Registrations /\ DOMAIN consumed(io, got) = DOMAIN io
           /\ \A t \in DOMAIN io : /\ consumed(io, got)[t].fd = io[t].fd
                                   /\ consumed(io, got)[t].file = io[t].file
                                   /\ consumed(io, got)[t].interest = io[t].interest
                                   /\ t \notin got => consumed(io, got)[t] = io[t]
<1>1. DOMAIN io \in SUBSET Nat /\ \A t \in DOMAIN io : io[t] \in Registration
  BY IoTyped
<1>2. /\ DOMAIN consumed(io, got) = DOMAIN io
      /\ \A t \in DOMAIN io : consumed(io, got)[t] = IF t \in got THEN [io[t] EXCEPT !.edge = FALSE] ELSE io[t]
  BY DEF consumed
<1>3. \A t \in DOMAIN io : /\ consumed(io, got)[t] \in Registration
                           /\ consumed(io, got)[t].fd = io[t].fd
                           /\ consumed(io, got)[t].file = io[t].file
                           /\ consumed(io, got)[t].interest = io[t].interest
                           /\ t \notin got => consumed(io, got)[t] = io[t]
  BY <1>1, <1>2 DEF Registration
<1>4. consumed(io, got) \in [DOMAIN io -> Registration]
  BY <1>3 DEF consumed
<1>5. QED
  BY <1>1, <1>2, <1>3, <1>4 DEF Registrations

\* wait() returns some of what is due, as events of the files registered.
LEMMA WaitDoes ==
    ASSUME ReactorTypeOK, EventsFresh, wait
    PROVE  \E got \in SUBSET Due, events \in Seq(PolledEvent) :
              /\ loop' = [loop EXCEPT !.pc = "events", !.events = events]
              /\ rx' = [rx EXCEPT !.wake = FALSE, !.io = consumed(rx.io, got)]
              /\ \A i \in 1 .. Len(events) :
                    /\ events[i].token \in got
                    /\ events[i].token \in Tokens => events[i].file = rx.io[events[i].token].file
              /\ \A t \in got : \E i \in 1 .. Len(events) : events[i].token = t
<1>1. PICK got \in SUBSET Due : \E order \in SetToSeqs(got) :
            /\ loop' = [loop EXCEPT !.pc = "events",
                          !.events = [i \in DOMAIN order |->
                              [token |-> order[i],
                               file |-> IF order[i] > signalToken THEN rx.io[order[i]].file ELSE 0]]]
            /\ rx' = [rx EXCEPT !.wake = FALSE, !.io = consumed(rx.io, got)]
  BY DEF wait
<1>2. PICK order \in SetToSeqs(got) :
            /\ loop' = [loop EXCEPT !.pc = "events",
                          !.events = [i \in DOMAIN order |->
                              [token |-> order[i],
                               file |-> IF order[i] > signalToken THEN rx.io[order[i]].file ELSE 0]]]
            /\ rx' = [rx EXCEPT !.wake = FALSE, !.io = consumed(rx.io, got)]
  BY <1>1
<1>3. got \in SUBSET Nat /\ IsFiniteSet(got)
  <2>1. Due \in SUBSET Nat /\ IsFiniteSet(Due)
    BY DueTyped
  <2>2. IsFiniteSet(got)
    BY <2>1, FS_Subset
  <2>3. QED
    BY <2>1, <2>2
<1>4. /\ order \in Seq(Nat) /\ DOMAIN order = 1 .. Len(order) /\ Len(order) \in Nat
      /\ \A i \in 1 .. Len(order) : order[i] \in got
      /\ \A x \in got : \E i \in 1 .. Len(order) : order[i] = x
  <2>1. Lists(order, got, Nat)
    BY <1>3, SetToSeqsLists
  <2>2. QED
    BY <2>1 DEF Lists
<1> DEFINE event(i) == [token |-> order[i],
                        file |-> IF order[i] > signalToken THEN rx.io[order[i]].file ELSE 0]
           events == [i \in 1 .. Len(order) |-> event(i)]
<1>5. rx.io \in Registrations
  BY DEF ReactorTypeOK, ReactorMembers
<1>6. ASSUME NEW i \in 1 .. Len(order)
      PROVE  /\ event(i) \in PolledEvent /\ event(i).token \in got
             /\ event(i).token = order[i]
             /\ event(i).token \in Tokens => event(i).file = rx.io[event(i).token].file
  <2>1. order[i] \in got /\ order[i] \in Nat
    BY <1>3, <1>4
  <2>2. order[i] > signalToken => order[i] \in Tokens
    BY <2>1, DueTyped DEF childToken, signalToken
  <2>3. order[i] \in Tokens => order[i] > signalToken /\ rx.io[order[i]].file \in Nat
    BY <1>5, IoTyped DEF Tokens, EventsFresh, Registration
  <2>4. QED
    BY <2>1, <2>2, <2>3 DEF PolledEvent
<1>7. events \in [1 .. Len(order) -> PolledEvent] /\ \A i \in 1 .. Len(order) : events[i] = event(i)
  BY <1>6
<1>8. loop' = [loop EXCEPT !.pc = "events", !.events = events]
  BY <1>2, <1>4
<1> HIDE DEF event, events
<1>9. events \in Seq(PolledEvent) /\ Len(events) = Len(order)
  BY <1>4, <1>7
<1>10. \A t \in got : \E i \in 1 .. Len(events) : events[i].token = t
  BY <1>4, <1>6, <1>7, <1>9
<1>11. \A i \in 1 .. Len(events) :
          /\ events[i].token \in got
          /\ events[i].token \in Tokens => events[i].file = rx.io[events[i].token].file
  BY <1>6, <1>7, <1>9
<1>12. QED
  BY <1>2, <1>8, <1>9, <1>10, <1>11, ZenonT(60)

LEMMA WaitTyped ==
    ASSUME ReactorTypeOK, EventsFresh, wait
    PROVE  ReactorTypeOK'
<1>1. PICK got \in SUBSET Due, events \in Seq(PolledEvent) :
              /\ loop' = [loop EXCEPT !.pc = "events", !.events = events]
              /\ rx' = [rx EXCEPT !.wake = FALSE, !.io = consumed(rx.io, got)]
  BY WaitDoes
<1>2. rx \in ReactorMembers /\ loop \in LoopState /\ rx.io \in Registrations
  BY DEF ReactorTypeOK, ReactorMembers
<1>3. consumed(rx.io, got) \in Registrations
  BY <1>2, ConsumedTyped
<1>4. rx' \in ReactorMembers
  BY <1>1, <1>2, <1>3 DEF ReactorMembers
<1>5. loop' \in LoopState
  BY <1>1, <1>2 DEF LoopState
<1>6. UNCHANGED <<fd, clock, used>>
  BY DEF wait
<1>7. QED
  BY <1>4, <1>5, <1>6 DEF ReactorTypeOK

\* The handler of a registration drains the open file, and is told when the event
\* was another file's.
LEMMA DispatchIoDoes ==
    ASSUME ReactorTypeOK, dispatchIo
    PROVE  \E b \in BOOLEAN :
              /\ loop' = [loop EXCEPT !.pc = "call", !.back = "events", !.events = Tail(loop.events), !.stale = b]
              /\ b <=> (loop.stale \/ Event.file # rx.io[Event.token].file)
<1>1. PICK b \in BOOLEAN : b = (loop.stale \/ Event.file # rx.io[Event.token].file)
  OBVIOUS
<1>2. QED
  BY <1>1 DEF dispatchIo

LEMMA DispatchIoTyped ==
    ASSUME ReactorTypeOK, dispatchIo
    PROVE  /\ ReactorTypeOK'
           /\ rx.io[Event.token].fd \in Fds
           /\ ~fd'[rx.io[Event.token].fd].ready
           /\ \A f \in Fds : fd'[f].ready => fd[f].ready
<1>1. PICK b \in BOOLEAN :
         loop' = [loop EXCEPT !.pc = "call", !.back = "events", !.events = Tail(loop.events), !.stale = b]
  BY DispatchIoDoes
<1>2. loop \in LoopState /\ loop.events \in Seq(PolledEvent) /\ loop.events # <<>>
  BY DEF dispatchIo, ReactorTypeOK, LoopState
<1>3. Tail(loop.events) \in Seq(PolledEvent)
  BY <1>2, TailTyped
<1>4. loop' \in LoopState
  BY <1>1, <1>2, <1>3 DEF LoopState
<1>5. rx.io \in Registrations /\ Event.token \in DOMAIN rx.io
  BY DEF dispatchIo, ReactorTypeOK, ReactorMembers, Tokens
<1>6. rx.io[Event.token].fd \in Fds
  BY <1>5, IoTyped DEF Registration
<1> DEFINE f == rx.io[Event.token].fd
<1>7. fd \in [Fds -> OpenFile] /\ f \in Fds /\ fd' = [fd EXCEPT ![f].ready = FALSE]
  BY <1>6 DEF dispatchIo, ReactorTypeOK
<1> HIDE DEF f
<1>8. fd' \in [Fds -> OpenFile]
  BY <1>7 DEF OpenFile
<1>9. /\ ~fd'[f].ready
      /\ \A g \in Fds : fd'[g].ready => fd[g].ready
  <2>1. fd[f] \in OpenFile
    BY <1>7
  <2>2. fd'[f] = [fd[f] EXCEPT !.ready = FALSE] /\ \A g \in Fds : g # f => fd'[g] = fd[g]
    BY <1>7
  <2>3. ~fd'[f].ready
    BY <2>1, <2>2 DEF OpenFile
  <2>4. QED
    BY <2>2, <2>3
<1>10. UNCHANGED <<rx, clock, used>>
  BY DEF dispatchIo
<1>11. QED
  BY <1>4, <1>6, <1>8, <1>9, <1>10 DEF ReactorTypeOK, f

\* drain() takes the watched children that are not running.
LEMMA DrainDoes ==
    ASSUME ReactorTypeOK, drain
    PROVE  /\ ReactorTypeOK'
           /\ rx' = [rx EXCEPT !.watched = rx.watched \ Exited]
           /\ \E order : /\ Lists(order, Exited, Pids)
                         /\ loop' = [loop EXCEPT !.pc = "children", !.exited = order]
<1>1. PICK order \in SetToSeqs(Exited) : loop' = [loop EXCEPT !.pc = "children", !.exited = order]
  BY DEF drain
<1>2. rx \in ReactorMembers /\ loop \in LoopState /\ rx.watched \subseteq Pids
  BY DEF ReactorTypeOK, ReactorMembers
<1>3. Exited \in SUBSET Pids
  BY <1>2 DEF Exited
<1>4. IsFiniteSet(Exited)
  BY <1>3, PidAssumption, FS_Subset
<1>5. Lists(order, Exited, Pids)
  BY <1>3, <1>4, SetToSeqsLists
<1>6. loop' \in LoopState
  <2>1. order \in Seq(Pids)
    BY <1>5 DEF Lists
  <2>2. QED
    BY <1>1, <1>2, <2>1 DEF LoopState
<1>7. rx' = [rx EXCEPT !.watched = rx.watched \ Exited]
  BY DEF drain
<1>8. rx' \in ReactorMembers
  BY <1>2, <1>7 DEF ReactorMembers
<1>9. UNCHANGED <<fd, clock, used>>
  BY DEF drain
<1>10. QED
  BY <1>1, <1>5, <1>6, <1>7, <1>8, <1>9 DEF ReactorTypeOK

\* A handler of a child that drain() found.
LEMMA ChildHandlerDoes ==
    ASSUME ReactorTypeOK, childHandler
    PROVE  /\ ReactorTypeOK' /\ UNCHANGED <<sc, fd, clock, used>>
           /\ loop.exited \in Seq(Pids) /\ loop.exited # <<>>
           /\ loop'.exited = Tail(loop.exited)
           /\ loop'.events = loop.events /\ loop'.stale = loop.stale
           /\ loop'.fired = loop.fired /\ loop'.due = loop.due
           /\ loop.pc = "children"
           /\ loop'.pc = "children" \/ (loop'.pc = "call" /\ loop'.back = "children")
           /\ \E handlers \in SUBSET rx.childHandlers : rx' = [rx EXCEPT !.childHandlers = handlers]
           /\ loop'.early => loop.early \/ ( /\ Head(loop.exited) \in rx.childHandlers
                                             /\ kernel[Head(loop.exited)].state # "zombie" )
<1> DEFINE p == Head(loop.exited)
<1>1. /\ rx \in ReactorMembers /\ loop \in LoopState /\ rx.childHandlers \subseteq Pids
      /\ loop.exited \in Seq(Pids) /\ loop.exited # <<>>
      /\ UNCHANGED <<sc, fd, clock, used>> /\ loop.pc = "children"
  BY DEF childHandler, ReactorTypeOK, ReactorMembers, LoopState
<1>2. Tail(loop.exited) \in Seq(Pids)
  BY <1>1, TailTyped
<1>3. CASE p \notin rx.childHandlers
  <2>1. loop' = [loop EXCEPT !.exited = Tail(loop.exited)] /\ rx' = rx
    BY <1>3 DEF childHandler
  <2>2. loop' \in LoopState
    BY <1>1, <1>2, <2>1 DEF LoopState
  <2>3. /\ loop'.exited = Tail(loop.exited) /\ loop'.events = loop.events /\ loop'.stale = loop.stale
        /\ loop'.fired = loop.fired /\ loop'.due = loop.due /\ loop'.pc = loop.pc /\ loop'.early = loop.early
    BY <1>1, <2>1 DEF LoopState
  <2>4. rx' = [rx EXCEPT !.childHandlers = rx.childHandlers]
    BY <1>1, <2>1 DEF ReactorMembers
  <2>5. QED
    BY <1>1, <2>1, <2>2, <2>3, <2>4 DEF ReactorTypeOK
<1>4. CASE p \in rx.childHandlers
  <2>1. PICK b \in BOOLEAN : b = (loop.early \/ kernel[p].state # "zombie")
    OBVIOUS
  <2>2. /\ loop' = [loop EXCEPT !.exited = Tail(loop.exited), !.pc = "call", !.back = "children", !.early = b]
        /\ rx' = [rx EXCEPT !.childHandlers = rx.childHandlers \ {p}]
    BY <1>4, <2>1 DEF childHandler
  <2>3. loop' \in LoopState
    BY <1>1, <1>2, <2>2 DEF LoopState
  <2>4. /\ loop'.exited = Tail(loop.exited) /\ loop'.events = loop.events /\ loop'.stale = loop.stale
        /\ loop'.fired = loop.fired /\ loop'.due = loop.due
        /\ loop'.pc = "call" /\ loop'.back = "children" /\ loop'.early = b
    BY <1>1, <2>2 DEF LoopState
  <2>5. rx' \in ReactorMembers
    BY <1>1, <2>2 DEF ReactorMembers
  <2>6. QED
    BY <1>1, <1>4, <2>1, <2>2, <2>3, <2>4, <2>5 DEF ReactorTypeOK
<1>5. QED
  BY <1>3, <1>4

\* fireDueTimers() collects the live timers that are due.
DueNow == {e \in rx.timerQueue : e.deadline <= clock}
LiveNow == {e \in DueNow : e.id \in rx.timers}
LEMMA FireDoes ==
    ASSUME ReactorTypeOK, TimersFresh, fireDueTimers
    PROVE  /\ ReactorTypeOK'
           /\ rx' = [rx EXCEPT !.timerQueue = rx.timerQueue \ DueNow, !.timers = rx.timers \ {e.id : e \in LiveNow}]
           /\ \E order : /\ Lists(order, LiveNow, QueuedTimer)
                         /\ loop' = [loop EXCEPT !.pc = "timers", !.due = order]
<1>1. PICK order \in dueOrder(LiveNow) : loop' = [loop EXCEPT !.pc = "timers", !.due = order]
  BY DEF fireDueTimers, DueNow, LiveNow
<1>2. rx \in ReactorMembers /\ loop \in LoopState /\ rx.timerQueue \subseteq QueuedTimer /\ rx.timers \subseteq Nat
  BY DEF ReactorTypeOK, ReactorMembers
<1>3. LiveNow \in SUBSET rx.timerQueue /\ LiveNow \in SUBSET QueuedTimer
  BY <1>2 DEF LiveNow, DueNow
<1>4. IsFiniteSet(LiveNow)
  BY <1>3, FS_Subset DEF TimersFresh
<1>5. Lists(order, LiveNow, QueuedTimer)
  BY <1>3, <1>4, SetToSeqsLists DEF dueOrder
<1>6. loop' \in LoopState
  <2>1. order \in Seq(QueuedTimer)
    BY <1>5 DEF Lists
  <2>2. QED
    BY <1>1, <1>2, <2>1 DEF LoopState
<1>7. rx' = [rx EXCEPT !.timerQueue = rx.timerQueue \ DueNow, !.timers = rx.timers \ {e.id : e \in LiveNow}]
  BY DEF fireDueTimers, LiveNow, DueNow
<1>8. rx' \in ReactorMembers
  BY <1>2, <1>7 DEF ReactorMembers
<1>9. UNCHANGED <<fd, clock, used>>
  BY DEF fireDueTimers
<1>10. QED
  BY <1>1, <1>5, <1>6, <1>7, <1>8, <1>9 DEF ReactorTypeOK

\* The handler of a collected timer.
LEMMA TimerHandlerDoes ==
    ASSUME ReactorTypeOK, timerHandler
    PROVE  /\ ReactorTypeOK' /\ UNCHANGED <<sc, fd, rx, clock, used, kernel>>
           /\ loop.due \in Seq(QueuedTimer) /\ loop.due # <<>>
           /\ loop'.due = Tail(loop.due) /\ loop'.fired = loop.fired \cup {Head(loop.due).id}
           /\ loop'.events = loop.events /\ loop'.stale = loop.stale /\ loop'.exited = loop.exited
           /\ loop.pc = "timers" /\ loop'.pc = "call" /\ loop'.back = "timers"
           /\ loop'.early => \/ loop.early \/ Head(loop.due).deadline > clock
                             \/ Head(loop.due).id \in loop.fired
<1>1. /\ loop \in LoopState /\ loop.due \in Seq(QueuedTimer) /\ loop.due # <<>> /\ loop.fired \subseteq Nat
      /\ UNCHANGED <<sc, fd, rx, clock, used, kernel>> /\ loop.pc = "timers"
  BY DEF timerHandler, ReactorTypeOK, LoopState, processVars
<1>2. Tail(loop.due) \in Seq(QueuedTimer) /\ Head(loop.due) \in QueuedTimer
  BY <1>1, TailTyped
<1>3. loop.fired \cup {Head(loop.due).id} \in SUBSET Nat
  BY <1>1, <1>2 DEF QueuedTimer
<1>4. PICK b \in BOOLEAN : b = (\/ loop.early \/ Head(loop.due).deadline > clock
                                \/ Head(loop.due).id \in loop.fired)
  OBVIOUS
<1>5. loop' = [loop EXCEPT !.due = Tail(loop.due), !.pc = "call", !.back = "timers",
                           !.fired = loop.fired \cup {Head(loop.due).id}, !.early = b]
  BY <1>4 DEF timerHandler
<1>6. loop' \in LoopState
  BY <1>1, <1>2, <1>3, <1>5 DEF LoopState
<1>7. /\ loop'.due = Tail(loop.due) /\ loop'.fired = loop.fired \cup {Head(loop.due).id}
      /\ loop'.events = loop.events /\ loop'.stale = loop.stale /\ loop'.exited = loop.exited
      /\ loop'.pc = "call" /\ loop'.back = "timers" /\ loop'.early = b
  BY <1>1, <1>5 DEF LoopState
<1>8. QED
  BY <1>1, <1>4, <1>6, <1>7 DEF ReactorTypeOK

-----------------------------------------------------------------------------
(* Each part of the invariant depends on a few fields only.                *)

LEMMA EventsFrame ==
    ASSUME EventsFresh, rx'.io = rx.io, rx'.nextToken = rx.nextToken,
           loop'.events = loop.events, loop'.stale = loop.stale
    PROVE  EventsFresh'
BY DEF EventsFresh, Tokens

LEMMA ChildrenFrame ==
    ASSUME ChildrenFresh, kernel' = kernel, rx'.childHandlers = rx.childHandlers,
           loop'.exited = loop.exited
    PROVE  ChildrenFresh'
BY DEF ChildrenFresh

LEMMA TimersFrame ==
    ASSUME TimersFresh, clock' = clock, rx'.timers = rx.timers, rx'.timerQueue = rx.timerQueue,
           rx'.nextTimer = rx.nextTimer, loop'.due = loop.due, loop'.fired = loop.fired
    PROVE  TimersFresh'
BY DEF TimersFresh

LEMMA EdgesFrame ==
    ASSUME EdgesKept, rx'.io = rx.io, fd' = fd, loop'.events = loop.events
    PROVE  EdgesKept'
BY DEF EdgesKept, Tokens

LEMMA ExitsFrame ==
    ASSUME ExitsKept, sc' = sc, kernel' = kernel, rx'.watched = rx.watched,
           rx.selfPipe => rx'.selfPipe, loop.pc = "scan" => loop'.pc = "scan"
    PROVE  ExitsKept'
BY DEF ExitsKept

\* What a reactor step leaves alone beside the variables it names.
LEMMA ReactorInvParts ==
    ASSUME ReactorInv
    PROVE  /\ ProcessInv /\ ReactorTypeOK /\ EventsFresh /\ ChildrenFresh /\ TimersFresh /\ ~loop.early
           /\ EdgesKept /\ ExitsKept /\ WaitBounded
           /\ rx \in ReactorMembers /\ loop \in LoopState
BY DEF ReactorInv, ReactorTypeOK

-----------------------------------------------------------------------------
(* The steps of the loop *)

LEMMA ReactorInitInv == Init => ReactorInv
<1> SUFFICES ASSUME Init PROVE ReactorInv
  OBVIOUS
<1>1. ProcessInv /\ ReactorTypeOK
  BY ProcessInitInv, ReactorInitTyped DEF Init
<1>2. /\ rx.io = <<>> /\ rx.nextToken = 3 /\ rx.timers = {} /\ rx.timerQueue = {} /\ rx.childHandlers = {}
      /\ rx.watched = {} /\ loop.pc = "idle" /\ loop.events = <<>> /\ loop.exited = <<>> /\ loop.due = <<>>
      /\ ~loop.stale /\ ~loop.early /\ loop.fired = {}
  BY DEF Init
<1>3. Tokens = {} /\ Len(<<>>) = 0
  <2>1. <<>> \in Seq(Nat) /\ Len(<<>>) = 0 /\ DOMAIN <<>> = 1 .. Len(<<>>)
    OBVIOUS
  <2>2. QED
    BY <1>2, <2>1 DEF Tokens
<1>4. EventsFresh /\ EdgesKept
  BY <1>2, <1>3 DEF EventsFresh, EdgesKept, signalToken
<1>5. ChildrenFresh /\ ExitsKept
  BY <1>2, <1>3 DEF ChildrenFresh, ExitsKept
<1>6. TimersFresh
  BY <1>2, <1>3, FS_EmptySet DEF TimersFresh
<1>7. WaitBounded
  BY <1>2 DEF WaitBounded
<1>8. QED
  BY <1>1, <1>2, <1>4, <1>5, <1>6, <1>7 DEF ReactorInv

LEMMA RunKeeps ==
    ASSUME ReactorInv, ProcessInv', run
    PROVE  ReactorInv'
<1>1. ReactorTypeOK'
  BY ReactorInvParts, LoopTyped
<1>2. /\ UNCHANGED <<sc, fd, clock, kernel>> /\ loop.pc = "idle"
      /\ rx' = rx \/ rx' = [rx EXCEPT !.stopRequested = FALSE]
      /\ loop' = loop \/ loop' = [loop EXCEPT !.pc = "check"]
  BY DEF run, processVars
<1>3. /\ rx'.io = rx.io /\ rx'.nextToken = rx.nextToken /\ rx'.timers = rx.timers
      /\ rx'.timerQueue = rx.timerQueue /\ rx'.nextTimer = rx.nextTimer
      /\ rx'.childHandlers = rx.childHandlers /\ rx'.watched = rx.watched /\ rx'.selfPipe = rx.selfPipe
  BY <1>2, ReactorInvParts DEF ReactorMembers
<1>4. /\ loop'.events = loop.events /\ loop'.stale = loop.stale /\ loop'.exited = loop.exited
      /\ loop'.due = loop.due /\ loop'.fired = loop.fired /\ loop'.early = loop.early
      /\ loop'.pc \in {"idle", "check"}
  BY <1>2, ReactorInvParts DEF LoopState
<1>5. EventsFresh' /\ ChildrenFresh' /\ TimersFresh' /\ ~loop'.early /\ EdgesKept' /\ ExitsKept'
  BY <1>2, <1>3, <1>4, ReactorInvParts, EventsFrame, ChildrenFrame, TimersFrame, EdgesFrame, ExitsFrame
<1>6. WaitBounded'
  BY <1>2, <1>4, ReactorInvParts DEF WaitBounded
<1>7. QED
  BY <1>1, <1>5, <1>6 DEF ReactorInv

LEMMA CheckKeeps ==
    ASSUME ReactorInv, ProcessInv', check
    PROVE  ReactorInv'
<1>1. ReactorTypeOK'
  BY ReactorInvParts, CheckTyped
<1>2. /\ UNCHANGED <<sc, fd, clock, kernel>> /\ loop.pc = "check"
      /\ rx' = rx \/ rx' = [rx EXCEPT !.stopRequested = FALSE]
      /\ \/ loop' = [loop EXCEPT !.pc = "idle"]
         \/ loop' = [loop EXCEPT !.pc = "wait", !.until = NextDeadline] /\ ~rx.stopRequested /\ rx' = rx
  BY DEF check, processVars
<1>3. /\ rx'.io = rx.io /\ rx'.nextToken = rx.nextToken /\ rx'.timers = rx.timers
      /\ rx'.timerQueue = rx.timerQueue /\ rx'.nextTimer = rx.nextTimer
      /\ rx'.childHandlers = rx.childHandlers /\ rx'.watched = rx.watched /\ rx'.selfPipe = rx.selfPipe
  BY <1>2, ReactorInvParts DEF ReactorMembers
<1>4. /\ loop'.events = loop.events /\ loop'.stale = loop.stale /\ loop'.exited = loop.exited
      /\ loop'.due = loop.due /\ loop'.fired = loop.fired /\ loop'.early = loop.early
      /\ \/ loop'.pc = "idle"
         \/ loop'.pc = "wait" /\ loop'.until = NextDeadline /\ ~rx'.stopRequested
  BY <1>2, ReactorInvParts DEF LoopState
<1>5. EventsFresh' /\ ChildrenFresh' /\ TimersFresh' /\ ~loop'.early /\ EdgesKept' /\ ExitsKept'
  BY <1>2, <1>3, <1>4, ReactorInvParts, EventsFrame, ChildrenFrame, TimersFrame, EdgesFrame, ExitsFrame
<1>6. \A q \in rx.timerQueue : q.id \in rx.timers => NextDeadline <= q.deadline
  BY ReactorInvParts, DeadlineTyped
<1>7. WaitBounded'
  BY <1>2, <1>3, <1>4, <1>6, ReactorInvParts DEF WaitBounded
<1>8. QED
  BY <1>1, <1>5, <1>7 DEF ReactorInv

LEMMA WaitKeeps ==
    ASSUME ReactorInv, ProcessInv', wait
    PROVE  ReactorInv'
<1>1. ReactorTypeOK'
  BY ReactorInvParts, WaitTyped
<1>2. UNCHANGED <<sc, fd, clock, kernel>> /\ loop.pc = "wait"
  BY DEF wait, processVars
<1>3. PICK got \in SUBSET Due, events \in Seq(PolledEvent) :
              /\ loop' = [loop EXCEPT !.pc = "events", !.events = events]
              /\ rx' = [rx EXCEPT !.wake = FALSE, !.io = consumed(rx.io, got)]
              /\ \A i \in 1 .. Len(events) :
                    /\ events[i].token \in got
                    /\ events[i].token \in Tokens => events[i].file = rx.io[events[i].token].file
              /\ \A t \in got : \E i \in 1 .. Len(events) : events[i].token = t
  BY ReactorInvParts, WaitDoes
<1>4. /\ rx'.io = consumed(rx.io, got) /\ rx'.nextToken = rx.nextToken /\ rx'.timers = rx.timers
      /\ rx'.timerQueue = rx.timerQueue /\ rx'.nextTimer = rx.nextTimer
      /\ rx'.childHandlers = rx.childHandlers /\ rx'.watched = rx.watched /\ rx'.selfPipe = rx.selfPipe
  BY <1>3, ReactorInvParts DEF ReactorMembers
<1>5. /\ loop'.events = events /\ loop'.stale = loop.stale /\ loop'.exited = loop.exited
      /\ loop'.due = loop.due /\ loop'.fired = loop.fired /\ loop'.early = loop.early /\ loop'.pc = "events"
  BY <1>3, ReactorInvParts DEF LoopState
<1>6. rx.io \in Registrations /\ rx.nextToken \in Nat
  BY ReactorInvParts DEF ReactorMembers
<1>7. /\ Tokens' = Tokens
      /\ \A t \in Tokens : /\ rx'.io[t].fd = rx.io[t].fd /\ rx'.io[t].file = rx.io[t].file
                           /\ rx'.io[t].interest = rx.io[t].interest
                           /\ t \notin got => rx'.io[t] = rx.io[t]
  BY <1>4, <1>6, ConsumedTyped DEF Tokens
<1>8. \A t \in got : t \in Nat /\ t < rx.nextToken
  <2>1. \A t \in Due : t \in Tokens \/ t = childToken \/ t = signalToken
    BY ReactorInvParts, DueTyped
  <2>2. Due \in SUBSET Nat
    BY ReactorInvParts, DueTyped
  <2>3. rx.nextToken > 2 /\ \A t \in Tokens : t < rx.nextToken
    BY ReactorInvParts DEF EventsFresh, signalToken
  <2>4. QED
    BY <1>6, <2>1, <2>2, <2>3 DEF childToken, signalToken
<1>9. EventsFresh'
  BY <1>3, <1>4, <1>5, <1>7, <1>8, ReactorInvParts DEF EventsFresh
<1>10. EdgesKept'
  <2> SUFFICES ASSUME NEW t \in Tokens, rx.io[t].interest, fd[rx.io[t].fd].ready
               PROVE  rx'.io[t].edge \/ \E i \in 1 .. Len(events) : events[i].token = t
    BY <1>2, <1>5, <1>7 DEF EdgesKept
  <2>1. CASE t \in got
    BY <1>3, <2>1
  <2>2. CASE t \notin got
    <3>1. rx.io[t].edge \/ \E i \in 1 .. Len(loop.events) : loop.events[i].token = t
      BY ReactorInvParts DEF EdgesKept
    <3>2. loop.events = <<>>
      BY <1>2, ReactorInvParts DEF WaitBounded
    <3>3. rx.io[t].edge
      BY <3>1, <3>2
    <3>4. QED
      BY <1>7, <2>2, <3>3
  <2>3. QED
    BY <2>1, <2>2
<1>11. ChildrenFresh' /\ TimersFresh' /\ ~loop'.early /\ ExitsKept'
  BY <1>2, <1>4, <1>5, ReactorInvParts, ChildrenFrame, TimersFrame, ExitsFrame
<1>12. WaitBounded'
  BY <1>5 DEF WaitBounded
<1>13. QED
  BY <1>1, <1>9, <1>10, <1>11, <1>12 DEF ReactorInv

\* One event is taken off the list: nothing of the loop's fields but pc, back,
\* events and stale changes.
LEMMA EventTaken ==
    ASSUME ReactorInv, loop.events # <<>>, loop'.events = Tail(loop.events),
           rx'.io = rx.io, rx'.nextToken = rx.nextToken, ~loop'.stale,
           \A f \in Fds : fd'[f].ready => fd[f].ready,
           Event.token \in Tokens => ~fd'[rx.io[Event.token].fd].ready
    PROVE  EventsFresh' /\ EdgesKept'
<1>1. loop.events \in Seq(PolledEvent) /\ rx.io \in Registrations
  BY ReactorInvParts DEF LoopState, ReactorMembers
<1> DEFINE es == loop.events
           rest == Tail(loop.events)
<1>2. /\ Event = es[1] /\ 1 \in 1 .. Len(es) /\ Len(es) \in Nat
      /\ \A i \in 1 .. Len(rest) : i + 1 \in 1 .. Len(es) /\ rest[i] = es[i + 1]
      /\ \A i \in 2 .. Len(es) : i - 1 \in 1 .. Len(rest) /\ rest[i - 1] = es[i]
  BY <1>1, TailTyped DEF Event
<1>3. EventsFresh /\ EdgesKept
  BY ReactorInvParts
<1>4. loop'.events = rest /\ Tokens' = Tokens
  BY DEF Tokens
<1> HIDE DEF rest
<1>5. EventsFresh'
  <2>1. /\ \A t \in Tokens : t > signalToken /\ t < rx.nextToken
        /\ rx.nextToken > signalToken
        /\ \A i \in 1 .. Len(es) :
              /\ es[i].token < rx.nextToken
              /\ es[i].token \in Tokens => es[i].file = rx.io[es[i].token].file
    BY <1>3 DEF EventsFresh
  <2> HIDE DEF es
  <2>2. \A i \in 1 .. Len(rest) :
           /\ rest[i].token < rx.nextToken
           /\ rest[i].token \in Tokens => rest[i].file = rx.io[rest[i].token].file
    BY <1>2, <2>1
  <2>3. QED
    BY <1>4, <2>1, <2>2 DEF EventsFresh
<1>6. EdgesKept'
  <2> SUFFICES ASSUME NEW t \in Tokens, rx.io[t].interest, fd'[rx.io[t].fd].ready
               PROVE  rx.io[t].edge \/ \E i \in 1 .. Len(rest) : rest[i].token = t
    BY <1>4 DEF EdgesKept
  <2>1. rx.io[t].fd \in Fds
    BY <1>1, IoTyped DEF Tokens, Registration
  <2>2. rx.io[t].edge \/ \E i \in 1 .. Len(es) : es[i].token = t
    BY <1>3, <2>1 DEF EdgesKept
  <2>3. ASSUME NEW i \in 1 .. Len(es), es[i].token = t
        PROVE  \E j \in 1 .. Len(rest) : rest[j].token = t
    <3>1. i # 1
      BY <1>2, <2>3
    <3>2. i \in 2 .. Len(es)
      BY <1>2, <3>1
    <3>3. QED
      BY <1>2, <2>3, <3>2
  <2>4. QED
    BY <2>2, <2>3
<1>7. QED
  BY <1>5, <1>6

LEMMA DispatchSkipKeeps ==
    ASSUME ReactorInv, ProcessInv', dispatchSkip
    PROVE  ReactorInv'
<1>1. ReactorTypeOK'
  BY ReactorInvParts, LoopTyped
<1>2. /\ UNCHANGED <<sc, fd, rx, clock, kernel>> /\ loop.pc = "events" /\ loop.events # <<>>
      /\ Event.token \notin Tokens /\ loop' = [loop EXCEPT !.events = Tail(loop.events)]
  BY DEF dispatchSkip, processVars
<1>3. /\ loop'.events = Tail(loop.events) /\ loop'.stale = loop.stale /\ loop'.exited = loop.exited
      /\ loop'.due = loop.due /\ loop'.fired = loop.fired /\ loop'.early = loop.early /\ loop'.pc = "events"
  BY <1>2, ReactorInvParts DEF LoopState
<1>4. ~loop.stale
  BY ReactorInvParts DEF EventsFresh
<1>5. EventsFresh' /\ EdgesKept'
  BY <1>2, <1>3, <1>4, EventTaken
<1>6. ChildrenFresh' /\ TimersFresh' /\ ~loop'.early /\ ExitsKept'
  BY <1>2, <1>3, ReactorInvParts, ChildrenFrame, TimersFrame, ExitsFrame
<1>7. WaitBounded'
  BY <1>3 DEF WaitBounded
<1>8. QED
  BY <1>1, <1>5, <1>6, <1>7 DEF ReactorInv

LEMMA DispatchIoKeeps ==
    ASSUME ReactorInv, ProcessInv', dispatchIo
    PROVE  ReactorInv'
<1>1. /\ ReactorTypeOK' /\ ~fd'[rx.io[Event.token].fd].ready
      /\ \A f \in Fds : fd'[f].ready => fd[f].ready
  BY ReactorInvParts, DispatchIoTyped
<1>2. /\ UNCHANGED <<sc, rx, clock, kernel>> /\ loop.pc = "events" /\ loop.events # <<>> /\ Event.token \in Tokens
  BY DEF dispatchIo, processVars
<1>3. PICK b \in BOOLEAN :
              /\ loop' = [loop EXCEPT !.pc = "call", !.back = "events", !.events = Tail(loop.events), !.stale = b]
              /\ b <=> (loop.stale \/ Event.file # rx.io[Event.token].file)
  BY ReactorInvParts, DispatchIoDoes
<1>4. /\ loop'.events = Tail(loop.events) /\ loop'.stale = b /\ loop'.exited = loop.exited
      /\ loop'.due = loop.due /\ loop'.fired = loop.fired /\ loop'.early = loop.early
      /\ loop'.pc = "call" /\ loop'.back = "events"
  BY <1>3, ReactorInvParts DEF LoopState
<1>5. ~b
  <2>1. Event = loop.events[1] /\ 1 \in 1 .. Len(loop.events)
    <3>1. loop.events \in Seq(PolledEvent)
      BY ReactorInvParts DEF LoopState
    <3>2. QED
      BY <1>2, <3>1, TailTyped DEF Event
  <2>2. ~loop.stale /\ Event.file = rx.io[Event.token].file
    BY <1>2, <2>1, ReactorInvParts DEF EventsFresh
  <2>3. QED
    BY <1>3, <2>2
<1>6. EventsFresh' /\ EdgesKept'
  BY <1>1, <1>2, <1>4, <1>5, EventTaken
<1>7. ChildrenFresh' /\ TimersFresh' /\ ~loop'.early /\ ExitsKept'
  BY <1>2, <1>4, ReactorInvParts, ChildrenFrame, TimersFrame, ExitsFrame
<1>8. WaitBounded'
  BY <1>4 DEF WaitBounded
<1>9. QED
  BY <1>1, <1>6, <1>7, <1>8 DEF ReactorInv

LEMMA DispatchSourceKeeps ==
    ASSUME ReactorInv, ProcessInv', dispatchSignals \/ dispatchChildren
    PROVE  ReactorInv'
<1>1. ReactorTypeOK'
  BY ReactorInvParts, LoopTyped
<1>2. /\ UNCHANGED <<sc, fd, clock, kernel>> /\ loop.pc = "events" /\ loop.events # <<>>
      /\ Event.token \in {childToken, signalToken}
  BY DEF dispatchSignals, dispatchChildren, processVars
<1>3. /\ rx'.io = rx.io /\ rx'.nextToken = rx.nextToken /\ rx'.timers = rx.timers
      /\ rx'.timerQueue = rx.timerQueue /\ rx'.nextTimer = rx.nextTimer
      /\ rx'.childHandlers = rx.childHandlers /\ rx'.watched = rx.watched
  BY ReactorInvParts DEF dispatchSignals, dispatchChildren, drainedSignals, pollerWake, ReactorMembers
<1>4. /\ loop'.events = Tail(loop.events) /\ loop'.stale = loop.stale /\ loop'.exited = loop.exited
      /\ loop'.due = loop.due /\ loop'.fired = loop.fired /\ loop'.early = loop.early
      /\ loop'.pc \in {"events", "scan"}
  BY <1>2, ReactorInvParts DEF dispatchSignals, dispatchChildren, LoopState
<1>5. rx'.selfPipe = rx.selfPipe \/ loop'.pc = "scan"
  <2>1. CASE dispatchSignals
    BY <2>1, ReactorInvParts DEF dispatchSignals, drainedSignals, pollerWake, ReactorMembers
  <2>2. CASE dispatchChildren
    BY <2>2, ReactorInvParts DEF dispatchChildren, LoopState
  <2>3. QED
    BY <2>1, <2>2
<1>6. EventsFresh' /\ EdgesKept'
  <2>1. ~loop.stale /\ Event.token \notin Tokens
    BY <1>2, ReactorInvParts DEF EventsFresh, childToken, signalToken
  <2>2. QED
    BY <1>2, <1>3, <1>4, <2>1, EventTaken
<1>7. ChildrenFresh' /\ TimersFresh' /\ ~loop'.early
  BY <1>2, <1>3, <1>4, ReactorInvParts, ChildrenFrame, TimersFrame
<1>8. ExitsKept'
  BY <1>2, <1>3, <1>5, ReactorInvParts DEF ExitsKept
<1>9. WaitBounded'
  BY <1>4 DEF WaitBounded
<1>10. QED
  BY <1>1, <1>6, <1>7, <1>8, <1>9 DEF ReactorInv

LEMMA DrainKeeps ==
    ASSUME ReactorInv, ProcessInv', drain
    PROVE  ReactorInv'
<1>1. ReactorTypeOK' /\ rx' = [rx EXCEPT !.watched = rx.watched \ Exited]
  BY ReactorInvParts, DrainDoes
<1>2. UNCHANGED <<sc, fd, clock, kernel>>
  BY DEF drain, processVars
<1>3. PICK order : /\ Lists(order, Exited, Pids)
                   /\ loop' = [loop EXCEPT !.pc = "children", !.exited = order]
  BY ReactorInvParts, DrainDoes
<1>4. /\ rx'.io = rx.io /\ rx'.nextToken = rx.nextToken /\ rx'.timers = rx.timers
      /\ rx'.timerQueue = rx.timerQueue /\ rx'.nextTimer = rx.nextTimer
      /\ rx'.childHandlers = rx.childHandlers /\ rx'.watched = rx.watched \ Exited
  BY <1>1, ReactorInvParts DEF ReactorMembers
<1>5. /\ loop'.events = loop.events /\ loop'.stale = loop.stale /\ loop'.exited = order
      /\ loop'.due = loop.due /\ loop'.fired = loop.fired /\ loop'.early = loop.early /\ loop'.pc = "children"
  BY <1>3, ReactorInvParts DEF LoopState
<1>6. EventsFresh' /\ TimersFresh' /\ ~loop'.early /\ EdgesKept'
  BY <1>2, <1>4, <1>5, ReactorInvParts, EventsFrame, TimersFrame, EdgesFrame
<1>7. ChildrenFresh'
  BY <1>2, <1>3, <1>4, <1>5, ReactorInvParts DEF ChildrenFresh, Lists, Exited
<1>8. ExitsKept'
  <2>1. \A p \in rx'.watched : kernel'[p].state # "zombie"
    BY <1>2, <1>4 DEF Exited
  <2>2. QED
    BY <2>1 DEF ExitsKept
<1>9. WaitBounded'
  BY <1>5 DEF WaitBounded
<1>10. QED
  BY <1>1, <1>6, <1>7, <1>8, <1>9 DEF ReactorInv

\* A child that its owner reaps stops being one of those that run.
LEMMA TryWaitFrees ==
    ASSUME ProcessInv, NEW h \in Handles, tryWait(h)
    PROVE  /\ handle[h].id \in Pids
           /\ \A q \in Pids : q # handle[h].id => kernel'[q] = kernel[q]
           /\ kernel'[handle[h].id].state = "free"
<1>1. ProcessTypeOK /\ handle[h].id \in Pids
  BY DEF tryWait, ProcessInv, Ownership
<1>2. PICK k \in KernelProcess : k.state = "free" /\ kernel' = [kernel EXCEPT ![handle[h].id] = k]
  BY <1>1, ReapedTyped DEF tryWait
<1>3. QED
  BY <1>1, <1>2 DEF ProcessTypeOK

LEMMA ChildHandlerKeeps ==
    ASSUME ReactorInv, ProcessInv', childHandler
    PROVE  ReactorInv'
<1> DEFINE p == Head(loop.exited)
<1>1. /\ ReactorTypeOK' /\ UNCHANGED <<sc, fd, clock, used>>
      /\ loop.exited \in Seq(Pids) /\ loop.exited # <<>>
      /\ loop'.exited = Tail(loop.exited)
      /\ loop'.events = loop.events /\ loop'.stale = loop.stale
      /\ loop'.fired = loop.fired /\ loop'.due = loop.due
      /\ loop'.pc = "children" \/ (loop'.pc = "call" /\ loop'.back = "children")
      /\ loop.pc = "children"
      /\ loop'.early => loop.early \/ (p \in rx.childHandlers /\ kernel[p].state # "zombie")
  BY ReactorInvParts, ChildHandlerDoes
<1>2. PICK handlers \in SUBSET rx.childHandlers : rx' = [rx EXCEPT !.childHandlers = handlers]
  BY ReactorInvParts, ChildHandlerDoes
<1>3. /\ rx'.io = rx.io /\ rx'.nextToken = rx.nextToken /\ rx'.timers = rx.timers
      /\ rx'.timerQueue = rx.timerQueue /\ rx'.nextTimer = rx.nextTimer
      /\ rx'.childHandlers = handlers /\ rx'.watched = rx.watched /\ rx'.selfPipe = rx.selfPipe
  BY <1>2, ReactorInvParts DEF ReactorMembers
<1>4. /\ p = loop.exited[1] /\ 1 \in 1 .. Len(loop.exited) /\ p \in Pids
      /\ \A i \in 1 .. Len(Tail(loop.exited)) :
            i + 1 \in 1 .. Len(loop.exited) /\ Tail(loop.exited)[i] = loop.exited[i + 1]
  BY <1>1, TailTyped
<1>5. kernel[p].state # "running" /\ (p \in rx.childHandlers => kernel[p].state # "free")
  BY <1>4, ReactorInvParts DEF ChildrenFresh
<1>6. ~loop'.early
  <2>1. kernel[p].state \in {"free", "running", "zombie"}
    BY <1>4, ReactorInvParts DEF ProcessInv, ProcessTypeOK, KernelProcess
  <2>2. QED
    BY <1>1, <1>5, <2>1, ReactorInvParts
<1>7. /\ \A q \in Pids : kernel'[q] = kernel[q] \/ (q = p /\ kernel'[q].state = "free" /\ p \notin rx'.childHandlers)
  <2>1. CASE p \notin rx.childHandlers
    BY <2>1 DEF childHandler, processVars
  <2>2. CASE p \in rx.childHandlers
    <3>1. p \notin rx'.childHandlers
      BY <2>2, ReactorInvParts DEF childHandler, ReactorMembers
    <3>2. CASE UNCHANGED processVars
      BY <3>2 DEF processVars
    <3>3. CASE \E h \in {h \in Handles : handle[h].owns /\ handle[h].id = p} : tryWait(h)
      BY <3>1, <3>3, ReactorInvParts, TryWaitFrees
    <3>4. QED
      BY <2>2, <3>2, <3>3 DEF childHandler
  <2>3. QED
    BY <2>1, <2>2
<1>8. EventsFresh' /\ TimersFresh' /\ EdgesKept'
  BY <1>1, <1>3, ReactorInvParts, EventsFrame, TimersFrame, EdgesFrame
<1>9. ChildrenFresh'
  <2>1. ASSUME NEW q \in rx'.childHandlers PROVE kernel'[q].state # "free"
    <3>1. q \in rx.childHandlers /\ q \in Pids
      BY <1>3, ReactorInvParts DEF ReactorMembers
    <3>2. QED
      BY <1>7, <3>1, ReactorInvParts DEF ChildrenFresh
  <2>2. ASSUME NEW i \in 1 .. Len(loop'.exited) PROVE kernel'[loop'.exited[i]].state # "running"
    <3>1. i + 1 \in 1 .. Len(loop.exited) /\ loop'.exited[i] = loop.exited[i + 1]
      BY <1>1, <1>4
    <3>2. kernel[loop.exited[i + 1]].state # "running" /\ loop.exited[i + 1] \in Pids
      BY <1>1, <3>1, ReactorInvParts DEF ChildrenFresh
    <3>3. QED
      BY <1>7, <3>1, <3>2
  <2>3. QED
    BY <2>1, <2>2 DEF ChildrenFresh
<1>10. ExitsKept'
  <2>1. rx.watched \subseteq Pids
    BY ReactorInvParts DEF ReactorMembers
  <2>2. \A q \in rx'.watched : kernel'[q].state = "zombie" => kernel[q].state = "zombie"
    BY <1>3, <1>7, <2>1
  <2>3. loop.pc # "scan"
    BY DEF childHandler
  <2>4. QED
    BY <1>1, <1>3, <2>2, <2>3, ReactorInvParts DEF ExitsKept
<1>11. WaitBounded'
  BY <1>1 DEF WaitBounded
<1>12. QED
  BY <1>1, <1>6, <1>8, <1>9, <1>10, <1>11 DEF ReactorInv

LEMMA PhaseDoneKeeps ==
    ASSUME ReactorInv, ProcessInv', childrenDone \/ timersDone
    PROVE  ReactorInv'
<1>1. ReactorTypeOK'
  BY ReactorInvParts, LoopTyped
<1>2. /\ UNCHANGED <<sc, fd, rx, clock, kernel>> /\ loop.pc \in {"children", "timers"}
      /\ \/ loop' = [loop EXCEPT !.pc = "events"]
         \/ loop' = [loop EXCEPT !.pc = "check"] /\ loop.pc = "timers"
  BY DEF childrenDone, timersDone, processVars
<1>3. /\ loop'.events = loop.events /\ loop'.stale = loop.stale /\ loop'.exited = loop.exited
      /\ loop'.due = loop.due /\ loop'.fired = loop.fired /\ loop'.early = loop.early
      /\ loop'.pc = "events" \/ (loop'.pc = "check" /\ loop.pc = "timers")
  BY <1>2, ReactorInvParts DEF LoopState
<1>4. EventsFresh' /\ ChildrenFresh' /\ TimersFresh' /\ ~loop'.early /\ EdgesKept' /\ ExitsKept'
  BY <1>2, <1>3, ReactorInvParts, EventsFrame, ChildrenFrame, TimersFrame, EdgesFrame, ExitsFrame
<1>5. WaitBounded'
  BY <1>3, ReactorInvParts DEF WaitBounded
<1>6. QED
  BY <1>1, <1>4, <1>5 DEF ReactorInv

LEMMA FireKeeps ==
    ASSUME ReactorInv, ProcessInv', fireDueTimers
    PROVE  ReactorInv'
<1>1. /\ ReactorTypeOK'
      /\ rx' = [rx EXCEPT !.timerQueue = rx.timerQueue \ DueNow, !.timers = rx.timers \ {e.id : e \in LiveNow}]
  BY ReactorInvParts, FireDoes
<1>2. PICK order : /\ Lists(order, LiveNow, QueuedTimer)
                   /\ loop' = [loop EXCEPT !.pc = "timers", !.due = order]
  BY ReactorInvParts, FireDoes
<1>3. UNCHANGED <<sc, fd, clock, kernel>> /\ loop.pc = "events" /\ loop.events = <<>>
  BY DEF fireDueTimers, processVars
<1>4. /\ rx'.io = rx.io /\ rx'.nextToken = rx.nextToken /\ rx'.timers = rx.timers \ {e.id : e \in LiveNow}
      /\ rx'.timerQueue = rx.timerQueue \ DueNow /\ rx'.nextTimer = rx.nextTimer
      /\ rx'.childHandlers = rx.childHandlers /\ rx'.watched = rx.watched /\ rx'.selfPipe = rx.selfPipe
  BY <1>1, ReactorInvParts DEF ReactorMembers
<1>5. /\ loop'.events = loop.events /\ loop'.stale = loop.stale /\ loop'.exited = loop.exited
      /\ loop'.due = order /\ loop'.fired = loop.fired /\ loop'.early = loop.early /\ loop'.pc = "timers"
  BY <1>2, ReactorInvParts DEF LoopState
<1>6. EventsFresh' /\ ChildrenFresh' /\ ~loop'.early /\ EdgesKept' /\ ExitsKept'
  BY <1>3, <1>4, <1>5, ReactorInvParts, EventsFrame, ChildrenFrame, EdgesFrame, ExitsFrame
<1>7. TimersFresh'
  <2>1. TimersFresh
    BY ReactorInvParts
  <2>2. IsFiniteSet(rx'.timerQueue)
    <3>1. rx.timerQueue \ DueNow \in SUBSET rx.timerQueue
      OBVIOUS
    <3>2. QED
      BY <1>4, <2>1, <3>1, FS_Subset DEF TimersFresh
  <2>3. ASSUME NEW i \in 1 .. Len(order)
        PROVE  /\ order[i].deadline <= clock
               /\ order[i].id < rx.nextTimer
               /\ order[i].id \notin rx'.timers \cup loop.fired
               /\ \A j \in 1 .. Len(order) : order[i].id = order[j].id => i = j
    <3>1. \A j \in 1 .. Len(order) : order[j] \in LiveNow
      BY <1>2 DEF Lists
    <3>2. \A j \in 1 .. Len(order) :
             order[j] \in rx.timerQueue /\ order[j].deadline <= clock /\ order[j].id \in rx.timers
      BY <3>1 DEF LiveNow, DueNow
    <3>3. order[i].id < rx.nextTimer /\ order[i].id \notin loop.fired
      BY <2>1, <3>2 DEF TimersFresh
    <3>4. order[i].id \notin rx'.timers
      BY <1>4, <3>1
    <3>5. ASSUME NEW j \in 1 .. Len(order), order[i].id = order[j].id PROVE i = j
      <4>1. order[i] = order[j]
        BY <2>1, <3>2, <3>5 DEF TimersFresh
      <4>2. QED
        BY <1>2, <4>1 DEF Lists
    <3>6. QED
      BY <3>2, <3>3, <3>4, <3>5
  <2>4. /\ \A id \in rx'.timers \cup loop.fired : id < rx.nextTimer
        /\ \A e \in rx'.timerQueue : e.id < rx.nextTimer
        /\ \A e, d \in rx'.timerQueue : e.id = d.id => e = d
        /\ rx'.timers \cap loop.fired = {}
    BY <1>4, <2>1 DEF TimersFresh
  <2>5. QED
    BY <1>3, <1>4, <1>5, <2>2, <2>3, <2>4 DEF TimersFresh
<1>8. WaitBounded'
  BY <1>3, <1>5 DEF WaitBounded
<1>9. QED
  BY <1>1, <1>6, <1>7, <1>8 DEF ReactorInv

LEMMA TimerHandlerKeeps ==
    ASSUME ReactorInv, ProcessInv', timerHandler
    PROVE  ReactorInv'
<1> DEFINE due == loop.due
           rest == Tail(loop.due)
<1>1. /\ ReactorTypeOK' /\ UNCHANGED <<sc, fd, rx, clock, used, kernel>>
      /\ due \in Seq(QueuedTimer) /\ due # <<>>
      /\ loop'.due = rest /\ loop'.fired = loop.fired \cup {Head(due).id}
      /\ loop'.events = loop.events /\ loop'.stale = loop.stale /\ loop'.exited = loop.exited
      /\ loop.pc = "timers" /\ loop'.pc = "call" /\ loop'.back = "timers"
      /\ loop'.early => \/ loop.early \/ Head(due).deadline > clock
                        \/ Head(due).id \in loop.fired
  BY ReactorInvParts, TimerHandlerDoes
<1>2. /\ Head(due) = due[1] /\ 1 \in 1 .. Len(due) /\ due[1] \in QueuedTimer
      /\ \A i \in 1 .. Len(rest) : i + 1 \in 1 .. Len(due) /\ rest[i] = due[i + 1]
  BY <1>1, TailTyped
<1>3. TimersFresh /\ clock \in Nat
  BY ReactorInvParts DEF ReactorTypeOK
<1> HIDE DEF due, rest
<1>4. /\ due[1].deadline <= clock /\ due[1].id < rx.nextTimer /\ due[1].id \notin rx.timers \cup loop.fired
      /\ due[1].deadline \in Nat
  BY <1>2, <1>3 DEF TimersFresh, due, QueuedTimer
<1>5. ~loop'.early
  BY <1>1, <1>2, <1>3, <1>4, ReactorInvParts
<1>6. EventsFresh' /\ ChildrenFresh' /\ EdgesKept' /\ ExitsKept'
  BY <1>1, ReactorInvParts, EventsFrame, ChildrenFrame, EdgesFrame, ExitsFrame
<1>7. TimersFresh'
  <2>1. ASSUME NEW i \in 1 .. Len(rest)
        PROVE  /\ rest[i].deadline <= clock /\ rest[i].id < rx.nextTimer
               /\ rest[i].id \notin rx.timers \cup loop'.fired
               /\ \A j \in 1 .. Len(rest) : rest[i].id = rest[j].id => i = j
    <3>1. i + 1 \in 1 .. Len(due) /\ rest[i] = due[i + 1] /\ i \in Nat
      BY <1>2, <2>1
    <3>2. /\ rest[i].deadline <= clock /\ rest[i].id < rx.nextTimer
          /\ rest[i].id \notin rx.timers \cup loop.fired
          /\ \A j \in 1 .. Len(due) : rest[i].id = due[j].id => i + 1 = j
      BY <1>3, <3>1 DEF TimersFresh, due
    <3>3. i + 1 # 1
      BY <3>1
    <3>4. rest[i].id # due[1].id
      BY <1>2, <3>2, <3>3
    <3>5. ASSUME NEW j \in 1 .. Len(rest), rest[i].id = rest[j].id PROVE i = j
      <4>1. j + 1 \in 1 .. Len(due) /\ rest[j] = due[j + 1] /\ j \in Nat
        BY <1>2, <3>5
      <4>2. i + 1 = j + 1
        BY <3>2, <3>5, <4>1
      <4>3. QED
        BY <3>1, <4>1, <4>2
    <3>6. QED
      BY <1>1, <1>2, <3>2, <3>4, <3>5
  <2>2. /\ \A id \in rx.timers \cup loop'.fired : id < rx.nextTimer
        /\ rx.timers \cap loop'.fired = {}
    BY <1>1, <1>2, <1>3, <1>4 DEF TimersFresh
  <2>3. QED
    BY <1>1, <1>3, <2>1, <2>2 DEF TimersFresh
<1>8. WaitBounded'
  BY <1>1, ReactorInvParts DEF WaitBounded
<1>9. QED
  BY <1>1, <1>5, <1>6, <1>7, <1>8 DEF ReactorInv

LEMMA StopThreadKeeps ==
    ASSUME ReactorInv, ProcessInv', stopStore \/ stopWake
    PROVE  ReactorInv'
<1>1. ReactorTypeOK'
  BY ReactorInvParts, LoopTyped
<1>2. /\ UNCHANGED <<sc, fd, clock, kernel>>
      /\ \/ rx' = [rx EXCEPT !.stopRequested = TRUE] /\ loop' = [loop EXCEPT !.stopper = "stored"]
         \/ rx' = [rx EXCEPT !.wake = TRUE] /\ loop' = [loop EXCEPT !.stopper = "done"]
  BY DEF stopStore, stopWake, pollerWake, processVars
<1>3. /\ rx'.io = rx.io /\ rx'.nextToken = rx.nextToken /\ rx'.timers = rx.timers
      /\ rx'.timerQueue = rx.timerQueue /\ rx'.nextTimer = rx.nextTimer
      /\ rx'.childHandlers = rx.childHandlers /\ rx'.watched = rx.watched /\ rx'.selfPipe = rx.selfPipe
  BY <1>2, ReactorInvParts DEF ReactorMembers
<1>4. /\ loop'.events = loop.events /\ loop'.stale = loop.stale /\ loop'.exited = loop.exited
      /\ loop'.due = loop.due /\ loop'.fired = loop.fired /\ loop'.early = loop.early
      /\ loop'.pc = loop.pc /\ loop'.back = loop.back /\ loop'.until = loop.until
  BY <1>2, ReactorInvParts DEF LoopState
<1>5. loop'.stopper = "stored" \/ rx'.wake
  BY <1>2, ReactorInvParts DEF LoopState, ReactorMembers
<1>6. EventsFresh' /\ ChildrenFresh' /\ TimersFresh' /\ ~loop'.early /\ EdgesKept' /\ ExitsKept'
  BY <1>2, <1>3, <1>4, ReactorInvParts, EventsFrame, ChildrenFrame, TimersFrame, EdgesFrame, ExitsFrame
<1>7. WaitBounded'
  BY <1>3, <1>4, <1>5, ReactorInvParts DEF WaitBounded
<1>8. QED
  BY <1>1, <1>6, <1>7 DEF ReactorInv

LEMMA SignalArrivesKeeps ==
    ASSUME ReactorInv, ProcessInv', signalArrives
    PROVE  ReactorInv'
<1>1. ReactorTypeOK'
  BY ReactorInvParts, LoopTyped
<1>2. UNCHANGED <<sc, fd, loop, clock, kernel>> /\ rx' = [rx EXCEPT !.signals = TRUE]
  BY DEF signalArrives, processVars
<1>3. /\ rx'.io = rx.io /\ rx'.nextToken = rx.nextToken /\ rx'.timers = rx.timers
      /\ rx'.timerQueue = rx.timerQueue /\ rx'.nextTimer = rx.nextTimer
      /\ rx'.childHandlers = rx.childHandlers /\ rx'.watched = rx.watched /\ rx'.selfPipe = rx.selfPipe
      /\ rx'.wake = rx.wake /\ rx'.stopRequested = rx.stopRequested
  BY <1>2, ReactorInvParts DEF ReactorMembers
<1>4. EventsFresh' /\ ChildrenFresh' /\ TimersFresh' /\ ~loop'.early /\ EdgesKept' /\ ExitsKept'
  BY <1>2, <1>3, ReactorInvParts, EventsFrame, ChildrenFrame, TimersFrame, EdgesFrame, ExitsFrame
<1>5. WaitBounded'
  BY <1>2, <1>3, ReactorInvParts DEF WaitBounded
<1>6. QED
  BY <1>1, <1>4, <1>5 DEF ReactorInv

LEMMA TimePassesKeeps ==
    ASSUME ReactorInv, ProcessInv', timePasses
    PROVE  ReactorInv'
<1>1. ReactorTypeOK'
  BY ReactorInvParts, LoopTyped
<1>2. UNCHANGED <<sc, fd, rx, loop, kernel>> /\ clock' = clock + 1
  BY DEF timePasses, processVars
<1>3. EventsFresh' /\ ChildrenFresh' /\ ~loop'.early /\ EdgesKept' /\ ExitsKept'
  BY <1>2, ReactorInvParts, EventsFrame, ChildrenFrame, EdgesFrame, ExitsFrame
<1>4. TimersFresh'
  <2>1. TimersFresh /\ clock \in Nat /\ loop.due \in Seq(QueuedTimer)
    BY ReactorInvParts DEF ReactorTypeOK, LoopState
  <2>2. \A i \in 1 .. Len(loop.due) : loop.due[i].deadline <= clock + 1
    <3> TAKE i \in 1 .. Len(loop.due)
    <3>1. loop.due[i] \in QueuedTimer /\ loop.due[i].deadline <= clock
      BY <2>1 DEF TimersFresh
    <3>2. loop.due[i].deadline \in Nat
      BY <3>1 DEF QueuedTimer
    <3>3. QED
      BY <2>1, <3>1, <3>2
  <2>3. QED
    BY <1>2, <2>1, <2>2 DEF TimersFresh
<1>5. WaitBounded'
  BY <1>2, ReactorInvParts DEF WaitBounded
<1>6. QED
  BY <1>1, <1>3, <1>4, <1>5 DEF ReactorInv

\* Input arrives on a file: its descriptor is ready, and its registration has an edge.
LEMMA ArriveKeeps ==
    ASSUME ReactorInv, ProcessInv', NEW f \in Fds, arrive(f)
    PROVE  ReactorInv'
<1> DEFINE io == [t \in Tokens |-> IF rx.io[t].fd = f THEN [rx.io[t] EXCEPT !.edge = TRUE] ELSE rx.io[t]]
<1>1. /\ UNCHANGED <<sc, loop, clock, kernel>> /\ rx' = [rx EXCEPT !.io = io]
      /\ fd' = [fd EXCEPT ![f].ready = TRUE] /\ used' = [used EXCEPT !.arrivals = used.arrivals + 1]
  BY DEF arrive, processVars
<1>2. /\ rx.io \in Registrations /\ fd \in [Fds -> OpenFile]
      /\ used \in [calls : Nat, arrivals : Nat, files : Nat]
  BY ReactorInvParts DEF ReactorMembers, ReactorTypeOK
<1>3. Tokens \in SUBSET Nat /\ \A t \in Tokens : rx.io[t] \in Registration
  BY <1>2, IoTyped DEF Tokens
<1>4. /\ DOMAIN io = Tokens
      /\ \A t \in Tokens : /\ io[t] \in Registration /\ io[t].fd = rx.io[t].fd /\ io[t].file = rx.io[t].file
                           /\ io[t].interest = rx.io[t].interest
                           /\ rx.io[t].edge \/ rx.io[t].fd = f => io[t].edge
  BY <1>3 DEF Registration
<1>5. io \in Registrations
  BY <1>3, <1>4 DEF Registrations
<1> HIDE DEF io
<1>6. /\ rx'.io = io /\ rx'.nextToken = rx.nextToken /\ rx'.timers = rx.timers
      /\ rx'.timerQueue = rx.timerQueue /\ rx'.nextTimer = rx.nextTimer
      /\ rx'.childHandlers = rx.childHandlers /\ rx'.watched = rx.watched /\ rx'.selfPipe = rx.selfPipe
      /\ rx'.wake = rx.wake /\ rx'.stopRequested = rx.stopRequested
  BY <1>1, ReactorInvParts DEF ReactorMembers
<1>7. ReactorTypeOK'
  <2>1. rx' \in ReactorMembers
    BY <1>1, <1>5, ReactorInvParts DEF ReactorMembers
  <2>2. fd' \in [Fds -> OpenFile]
    BY <1>1, <1>2 DEF OpenFile
  <2>3. used' \in [calls : Nat, arrivals : Nat, files : Nat]
    BY <1>1, <1>2
  <2>4. QED
    BY <1>1, <2>1, <2>2, <2>3, ReactorInvParts DEF ReactorTypeOK
<1>8. Tokens' = Tokens
  BY <1>4, <1>6 DEF Tokens
<1>9. EventsFresh'
  BY <1>1, <1>4, <1>6, <1>8, ReactorInvParts DEF EventsFresh
<1>10. EdgesKept'
  <2>1. \A g \in Fds : g # f => fd'[g] = fd[g]
    BY <1>1, <1>2
  <2>2. \A t \in Tokens : rx.io[t].fd \in Fds
    BY <1>3 DEF Registration
  <2>3. QED
    BY <1>1, <1>4, <1>6, <1>8, <2>1, <2>2, ReactorInvParts DEF EdgesKept
<1>11. ChildrenFresh' /\ TimersFresh' /\ ~loop'.early /\ ExitsKept'
  BY <1>1, <1>6, ReactorInvParts, ChildrenFrame, TimersFrame, ExitsFrame
<1>12. WaitBounded'
  BY <1>1, <1>6, ReactorInvParts DEF WaitBounded
<1>13. QED
  BY <1>7, <1>9, <1>10, <1>11, <1>12 DEF ReactorInv

\* A process that exits, forks or loses its group: an exit leaves its byte.
LEMMA ChildEventsKeep ==
    ASSUME ReactorInv, ProcessInv', NEW p \in Pids, childEvent(p)
    PROVE  ReactorInv'
<1>1. UNCHANGED <<sc, fd, loop, clock, used>>
  BY DEF childEvent
<1>2. kernel \in [Pids -> KernelProcess] /\ kernel[p] \in KernelProcess
  BY ReactorInvParts DEF ProcessInv, ProcessTypeOK
<1>3. PICK b \in BOOLEAN : /\ rx' = [rx EXCEPT !.selfPipe = b]
                           /\ rx.selfPipe => b
                           /\ (childExits(p) /\ sc.children = "signal") => b
  <2>1. CASE childExits(p) /\ rx' = sigChld(rx)
    BY <2>1, ReactorInvParts, SigChldDoes
  <2>2. CASE (childForks(p) \/ groupEnds(p)) /\ UNCHANGED rx
    <3>1. ~childExits(p)
      <4>1. CASE childForks(p)
        <5>1. [kernel[p] EXCEPT !.group = TRUE].state = kernel[p].state /\ kernel[p].state = "running"
          BY <1>2, <4>1 DEF childForks, KernelProcess
        <5>2. kernel'[p].state = "running"
          BY <1>2, <4>1, <5>1 DEF childForks
        <5>3. childExits(p) => kernel'[p].state = "zombie"
          BY <1>2 DEF childExits, KernelProcess
        <5>4. QED
          BY <5>2, <5>3
      <4>2. CASE groupEnds(p)
        <5> SUFFICES ASSUME childExits(p) PROVE FALSE
          OBVIOUS
        <5>1. kernel[p].state = "running" /\ kernel'[p].state = "zombie"
          BY <1>2 DEF childExits, KernelProcess
        <5>2. kernel'[p].state = "running"
          BY <1>2, <4>2, <5>1 DEF groupEnds, KernelProcess
        <5>3. QED
          BY <5>1, <5>2
      <4>3. QED
        BY <2>2, <4>1, <4>2
    <3>2. rx' = [rx EXCEPT !.selfPipe = rx.selfPipe] /\ rx.selfPipe \in BOOLEAN
      BY <2>2, ReactorInvParts DEF ReactorMembers
    <3>3. QED
      BY <3>1, <3>2
  <2>3. QED
    BY <2>1, <2>2 DEF childEvent
<1>4. /\ rx' \in ReactorMembers
      /\ rx'.io = rx.io /\ rx'.nextToken = rx.nextToken /\ rx'.timers = rx.timers
      /\ rx'.timerQueue = rx.timerQueue /\ rx'.nextTimer = rx.nextTimer
      /\ rx'.childHandlers = rx.childHandlers /\ rx'.watched = rx.watched /\ rx'.selfPipe = b
      /\ rx'.wake = rx.wake /\ rx'.stopRequested = rx.stopRequested
  <2>1. rx' \in ReactorMembers
    BY <1>3, ReactorInvParts DEF ReactorMembers
  <2>2. QED
    BY <1>3, <2>1, ReactorInvParts DEF ReactorMembers
<1>5. /\ \A q \in Pids : q # p => kernel'[q] = kernel[q]
      /\ kernel'[p].state = kernel[p].state
            \/ (childExits(p) /\ kernel[p].state = "running" /\ kernel'[p].state = "zombie")
  <2>1. CASE childExits(p)
    BY <1>2, <2>1 DEF childExits, KernelProcess
  <2>2. CASE childForks(p)
    <3>1. [kernel[p] EXCEPT !.group = TRUE].state = kernel[p].state
      BY <1>2 DEF KernelProcess
    <3>2. QED
      BY <1>2, <2>2, <3>1 DEF childForks
  <2>3. CASE groupEnds(p)
    <3>1. [kernel[p] EXCEPT !.group = FALSE].state = kernel[p].state
      BY <1>2 DEF KernelProcess
    <3>2. QED
      BY <1>2, <2>3, <3>1, FreeTyped DEF groupEnds
  <2>4. QED
    BY <2>1, <2>2, <2>3 DEF childEvent
<1>6. ReactorTypeOK'
  BY <1>1, <1>4, ReactorInvParts DEF ReactorTypeOK
<1>7. EventsFresh' /\ TimersFresh' /\ ~loop'.early /\ EdgesKept'
  BY <1>1, <1>4, ReactorInvParts, EventsFrame, TimersFrame, EdgesFrame
<1>8. ChildrenFresh'
  <2>1. rx.childHandlers \subseteq Pids /\ loop.exited \in Seq(Pids)
    BY ReactorInvParts DEF ReactorMembers, LoopState
  <2>2. \A i \in 1 .. Len(loop.exited) : loop.exited[i] \in Pids
    BY <2>1
  <2>3. \A q \in Pids : /\ kernel'[q].state = "free" => kernel[q].state = "free"
                        /\ kernel'[q].state = "running" => kernel[q].state = "running"
    BY <1>5
  <2>4. QED
    BY <1>1, <1>4, <2>1, <2>2, <2>3, ReactorInvParts DEF ChildrenFresh
<1>9. ExitsKept'
  <2>1. rx.watched \subseteq Pids
    BY ReactorInvParts DEF ReactorMembers
  <2>2. \A q \in Pids : kernel'[q].state = "zombie" => kernel[q].state = "zombie" \/ childExits(p)
    BY <1>5
  <2>3. QED
    BY <1>1, <1>3, <1>4, <2>1, <2>2, ReactorInvParts DEF ExitsKept
<1>10. WaitBounded'
  BY <1>1, <1>4, ReactorInvParts DEF WaitBounded
<1>11. QED
  BY <1>6, <1>7, <1>8, <1>9, <1>10 DEF ReactorInv

-----------------------------------------------------------------------------
(* The calls that handlers make *)

\* A handler's turn: the loop is outside run() or inside the handler.
HandlerTurn ==
    /\ UNCHANGED <<sc, clock>>
    /\ \/ loop.pc = "idle" /\ loop' = loop
       \/ loop.pc = "call" /\ \E pc \in {"call", loop.back} : loop' = [loop EXCEPT !.pc = pc]

LEMMA TurnDoes ==
    ASSUME ReactorInv, HandlerTurn
    PROVE  /\ sc' = sc /\ clock' = clock /\ loop' \in LoopState
           /\ loop'.events = loop.events /\ loop'.stale = loop.stale /\ loop'.exited = loop.exited
           /\ loop'.due = loop.due /\ loop'.fired = loop.fired /\ ~loop'.early
           /\ loop.pc \in {"idle", "call"} /\ loop'.pc # "scan"
           /\ WaitBounded'
<1>1. sc' = sc /\ clock' = clock /\ loop \in LoopState
  BY ReactorInvParts DEF HandlerTurn
<1>2. CASE loop.pc = "idle" /\ loop' = loop
  <2>1. WaitBounded'
    BY <1>2, ReactorInvParts DEF WaitBounded
  <2>2. QED
    BY <1>1, <1>2, <2>1, ReactorInvParts
<1>3. CASE loop.pc = "call" /\ \E pc \in {"call", loop.back} : loop' = [loop EXCEPT !.pc = pc]
  <2>1. PICK pc \in {"call", loop.back} : loop' = [loop EXCEPT !.pc = pc]
    BY <1>3
  <2>2. loop.back \in {"events", "children", "timers"} /\ (loop.back = "timers" => loop.events = <<>>)
    BY <1>1, <1>3, ReactorInvParts DEF WaitBounded, LoopState
  <2>3. loop' \in LoopState
    BY <1>1, <2>1, <2>2 DEF LoopState
  <2>4. /\ loop'.events = loop.events /\ loop'.stale = loop.stale /\ loop'.exited = loop.exited
        /\ loop'.due = loop.due /\ loop'.fired = loop.fired /\ loop'.early = loop.early
        /\ loop'.pc = pc /\ loop'.back = loop.back
    BY <1>1, <2>1 DEF LoopState
  <2>5. WaitBounded'
    BY <2>2, <2>4 DEF WaitBounded
  <2>6. QED
    BY <1>1, <1>3, <2>2, <2>3, <2>4, <2>5, ReactorInvParts
<1>4. QED
  BY <1>2, <1>3 DEF HandlerTurn

\* A call on registrations changes nothing but these and the descriptors.
LEMMA IoCallKeeps ==
    ASSUME ReactorInv, ProcessInv', HandlerTurn, kernel' = kernel,
           NEW io \in Registrations, NEW n \in Nat, rx' = [rx EXCEPT !.io = io, !.nextToken = n],
           fd' \in [Fds -> OpenFile], used' \in [calls : Nat, arrivals : Nat, files : Nat],
           EventsFresh', EdgesKept'
    PROVE  ReactorInv'
<1>1. /\ rx'.timers = rx.timers /\ rx'.timerQueue = rx.timerQueue /\ rx'.nextTimer = rx.nextTimer
      /\ rx'.childHandlers = rx.childHandlers /\ rx'.watched = rx.watched /\ rx'.selfPipe = rx.selfPipe
  BY ReactorInvParts DEF ReactorMembers
<1>2. rx' \in ReactorMembers
  BY ReactorInvParts DEF ReactorMembers
<1>3. /\ sc' = sc /\ clock' = clock /\ loop' \in LoopState
      /\ loop'.exited = loop.exited /\ loop'.due = loop.due /\ loop'.fired = loop.fired /\ ~loop'.early
      /\ loop.pc # "scan" /\ WaitBounded'
  BY TurnDoes
<1>4. ReactorTypeOK'
  BY <1>2, <1>3, ReactorInvParts DEF ReactorTypeOK
<1>5. ChildrenFresh' /\ TimersFresh' /\ ExitsKept'
  BY <1>1, <1>3, ReactorInvParts, ChildrenFrame, TimersFrame, ExitsFrame
<1>6. QED
  BY <1>3, <1>4, <1>5 DEF ReactorInv

\* A registration of a new file, under a token never used before.
LEMMA WatchNewKeeps ==
    ASSUME ReactorInv, ProcessInv', HandlerTurn, watchNew
    PROVE  ReactorInv'
<1> DEFINE S == {g \in Fds : fd[g] = Closed}
           f == Min(S)
           t == rx.nextToken
           new == [fd |-> f, file |-> used.files + 1, interest |-> TRUE, edge |-> FALSE]
           io == [u \in Tokens \union {t} |-> IF u = t THEN new ELSE rx.io[u]]
<1>1. /\ rx \in ReactorMembers /\ rx.io \in Registrations /\ t \in Nat /\ fd \in [Fds -> OpenFile]
      /\ used \in [calls : Nat, arrivals : Nat, files : Nat] /\ used.files + 1 \in Nat
  BY ReactorInvParts DEF ReactorMembers, ReactorTypeOK
<1>2. f \in Fds
  <2>1. S \in SUBSET Nat /\ S # {}
    BY ReactorAssumption DEF watchNew
  <2> HIDE DEF S
  <2>2. f \in S
    BY <2>1, MinNat
  <2>3. QED
    BY <2>2 DEF S
<1>3. /\ fd' = [fd EXCEPT ![f] = [file |-> used.files + 1, ready |-> FALSE]]
      /\ used' = [used EXCEPT !.calls = used.calls + 1, !.files = used.files + 1] /\ kernel' = kernel
  BY DEF watchNew, processVars
<1>4. rx' = [rx EXCEPT !.io = io, !.nextToken = t + 1]
  <2>1. rx' = pollerAdd([rx EXCEPT !.nextToken = t + 1], t, f, used.files + 1)
    BY DEF watchNew, newToken
  <2>2. [rx EXCEPT !.nextToken = t + 1].io = rx.io
    BY <1>1 DEF ReactorMembers
  <2>3. rx' = [[rx EXCEPT !.nextToken = t + 1] EXCEPT !.io = io]
    BY <2>1, <2>2 DEF pollerAdd, Tokens
  <2>4. QED
    BY <1>1, <2>3 DEF ReactorMembers
<1> HIDE DEF S, f
<1>5. new \in Registration /\ new.fd = f /\ new.file = used.files + 1
  BY <1>1, <1>2 DEF Registration
<1>6. Tokens \in SUBSET Nat /\ \A u \in Tokens : rx.io[u] \in Registration /\ rx.io[u].fd \in Fds
  BY <1>1, IoTyped DEF Tokens, Registration
<1> HIDE DEF new
<1>7. /\ DOMAIN io = Tokens \cup {t} /\ io \in [Tokens \cup {t} -> Registration] /\ io[t] = new
      /\ \A u \in Tokens : u # t => io[u] = rx.io[u]
  BY <1>5, <1>6
<1> HIDE DEF io
<1>8. io \in Registrations
  BY <1>1, <1>6, <1>7 DEF Registrations
<1>9. fd' \in [Fds -> OpenFile] /\ ~fd'[f].ready /\ \A g \in Fds : g # f => fd'[g] = fd[g]
  BY <1>1, <1>2, <1>3 DEF OpenFile
<1>10. rx'.io = io /\ rx'.nextToken = t + 1 /\ Tokens' = Tokens \cup {t}
  BY <1>1, <1>4, <1>7 DEF ReactorMembers, Tokens
<1>11. loop'.events = loop.events /\ loop'.stale = loop.stale /\ loop.events \in Seq(PolledEvent)
  BY TurnDoes, ReactorInvParts DEF LoopState
<1>12. EventsFresh'
  <2>1. /\ EventsFresh /\ \A u \in Tokens : u < t
        /\ \A i \in 1 .. Len(loop.events) : loop.events[i].token < t /\ loop.events[i].token \in Nat
    <3>1. EventsFresh /\ \A u \in Tokens : u < t
      BY ReactorInvParts DEF EventsFresh
    <3>2. ASSUME NEW i \in 1 .. Len(loop.events)
          PROVE  loop.events[i].token < t /\ loop.events[i].token \in Nat
      <4>1. loop.events[i] \in PolledEvent
        BY <1>11, <3>2
      <4>2. QED
        BY <3>1, <4>1 DEF EventsFresh, PolledEvent
    <3>3. QED
      BY <3>1, <3>2
  <2>2. \A u \in Tokens' : u > signalToken /\ u < t + 1
    BY <1>1, <1>6, <1>10, <2>1 DEF EventsFresh, signalToken
  <2>3. ASSUME NEW i \in 1 .. Len(loop.events)
        PROVE  /\ loop.events[i].token < t + 1
               /\ loop.events[i].token \in Tokens' => loop.events[i].file = io[loop.events[i].token].file
    <3>1. loop.events[i].token < t + 1 /\ loop.events[i].token # t
      BY <1>1, <2>1
    <3>2. QED
      BY <1>7, <1>10, <2>1, <3>1 DEF EventsFresh
  <2>4. ~loop.stale /\ t + 1 > signalToken
    BY <1>1, <2>1 DEF EventsFresh, signalToken
  <2>5. QED
    BY <1>10, <1>11, <2>2, <2>3, <2>4 DEF EventsFresh
<1>13. EdgesKept'
  <2> SUFFICES ASSUME NEW u \in Tokens \cup {t}, io[u].interest, fd'[io[u].fd].ready
               PROVE  io[u].edge \/ \E i \in 1 .. Len(loop.events) : loop.events[i].token = u
    BY <1>10, <1>11 DEF EdgesKept
  <2>1. u # t
    BY <1>5, <1>7, <1>9
  <2>2. u \in Tokens /\ io[u] = rx.io[u] /\ fd[rx.io[u].fd].ready
    BY <1>6, <1>7, <1>9, <2>1
  <2>3. QED
    BY <2>2, ReactorInvParts DEF EdgesKept
<1>14. used' \in [calls : Nat, arrivals : Nat, files : Nat]
  <2>1. used.calls + 1 \in Nat
    BY <1>1
  <2>2. QED
    BY <1>1, <1>3, <2>1
<1>15. t + 1 \in Nat
  BY <1>1
<1>16. QED
  BY <1>3, <1>4, <1>8, <1>9, <1>12, <1>13, <1>14, <1>15, IoCallKeeps

\* A registration is removed and its descriptor closed.
LEMMA UnwatchKeeps ==
    ASSUME ReactorInv, ProcessInv', HandlerTurn, NEW t \in Tokens, unwatch(t),
           used' = [used EXCEPT !.calls = used.calls + 1]
    PROVE  ReactorInv'
<1> DEFINE io == [u \in Tokens \ {t} |-> rx.io[u]]
           f == rx.io[t].fd
<1>1. /\ rx \in ReactorMembers /\ rx.io \in Registrations /\ rx.nextToken \in Nat /\ fd \in [Fds -> OpenFile]
      /\ used \in [calls : Nat, arrivals : Nat, files : Nat]
  BY ReactorInvParts DEF ReactorMembers, ReactorTypeOK
<1>2. Tokens \in SUBSET Nat /\ \A u \in Tokens : rx.io[u] \in Registration /\ rx.io[u].fd \in Fds
  BY <1>1, IoTyped DEF Tokens, Registration
<1>3. fd' = [fd EXCEPT ![f] = Closed] /\ kernel' = kernel /\ f \in Fds
  BY <1>2 DEF unwatch, processVars
<1>4. rx' = [rx EXCEPT !.io = io, !.nextToken = rx.nextToken]
  <2>1. rx' = [rx EXCEPT !.io = io]
    BY DEF unwatch, pollerRemove, Tokens
  <2>2. QED
    BY <1>1, <2>1 DEF ReactorMembers
<1>5. DOMAIN io = Tokens \ {t} /\ io \in [Tokens \ {t} -> Registration] /\ \A u \in Tokens \ {t} : io[u] = rx.io[u]
  BY <1>2
<1> HIDE DEF io, f
<1>6. io \in Registrations
  BY <1>2, <1>5 DEF Registrations
<1>7. fd' \in [Fds -> OpenFile] /\ ~fd'[f].ready /\ \A g \in Fds : g # f => fd'[g] = fd[g]
  BY <1>1, <1>3 DEF OpenFile, Closed
<1>8. rx'.io = io /\ rx'.nextToken = rx.nextToken /\ Tokens' = Tokens \ {t}
  BY <1>1, <1>4, <1>5 DEF ReactorMembers, Tokens
<1>9. loop'.events = loop.events /\ loop'.stale = loop.stale
  BY TurnDoes
<1>10. EventsFresh'
  BY <1>5, <1>8, <1>9, ReactorInvParts DEF EventsFresh
<1>11. EdgesKept'
  BY <1>2, <1>5, <1>7, <1>8, <1>9, ReactorInvParts DEF EdgesKept
<1>12. used' \in [calls : Nat, arrivals : Nat, files : Nat]
  BY <1>1
<1>13. QED
  BY <1>1, <1>3, <1>4, <1>6, <1>7, <1>10, <1>11, <1>12, IoCallKeeps

\* A registration is paused or resumed: pending input makes a new edge.
LEMMA ModifyKeeps ==
    ASSUME ReactorInv, ProcessInv', HandlerTurn, NEW t \in Tokens, modify(t),
           used' = [used EXCEPT !.calls = used.calls + 1]
    PROVE  ReactorInv'
<1>1. /\ rx \in ReactorMembers /\ rx.io \in Registrations /\ rx.nextToken \in Nat /\ fd \in [Fds -> OpenFile]
      /\ used \in [calls : Nat, arrivals : Nat, files : Nat]
  BY ReactorInvParts DEF ReactorMembers, ReactorTypeOK
<1>2. Tokens \in SUBSET Nat /\ \A u \in Tokens : rx.io[u] \in Registration /\ rx.io[u].fd \in Fds
  BY <1>1, IoTyped DEF Tokens, Registration
<1>3. fd' = fd /\ kernel' = kernel
  BY DEF modify, processVars
<1>4. PICK b \in BOOLEAN : b = ~rx.io[t].interest
  OBVIOUS
<1> DEFINE e == fd[rx.io[t].fd].ready
           new == [rx.io[t] EXCEPT !.interest = b, !.edge = e]
           io == [rx.io EXCEPT ![t] = new]
<1>5. e \in BOOLEAN
  BY <1>1, <1>2 DEF OpenFile
<1>6. rx' = [rx EXCEPT !.io = io, !.nextToken = rx.nextToken]
  <2>1. rx' = [rx EXCEPT !.io = io]
    BY <1>1, <1>2, <1>4, ZenonT(60) DEF modify, pollerModify, ReactorMembers, Tokens, Registration
  <2>2. QED
    BY <1>1, <2>1 DEF ReactorMembers
<1>7. new \in Registration /\ new.fd = rx.io[t].fd /\ new.file = rx.io[t].file /\ new.edge = e
  BY <1>2, <1>5 DEF Registration
<1> HIDE DEF new
<1>8. /\ DOMAIN io = Tokens /\ io \in [Tokens -> Registration] /\ io[t] = new
      /\ \A u \in Tokens : u # t => io[u] = rx.io[u]
  BY <1>1, <1>2, <1>7, IoTyped DEF Tokens
<1> HIDE DEF io
<1>9. io \in Registrations
  BY <1>2, <1>8 DEF Registrations
<1>10. rx'.io = io /\ rx'.nextToken = rx.nextToken /\ Tokens' = Tokens
  BY <1>1, <1>6, <1>8 DEF ReactorMembers, Tokens
<1>11. loop'.events = loop.events /\ loop'.stale = loop.stale
  BY TurnDoes
<1>12. \A u \in Tokens : io[u].fd = rx.io[u].fd /\ io[u].file = rx.io[u].file
  BY <1>7, <1>8
<1>13. EventsFresh'
  <2>1. EventsFresh
    BY ReactorInvParts
  <2>2. \A i \in 1 .. Len(loop.events) :
           loop.events[i].token \in Tokens => loop.events[i].file = io[loop.events[i].token].file
    BY <1>12, <2>1 DEF EventsFresh
  <2>3. QED
    BY <1>10, <1>11, <2>1, <2>2 DEF EventsFresh
<1>14. EdgesKept'
  <2> SUFFICES ASSUME NEW u \in Tokens, io[u].interest, fd[rx.io[u].fd].ready
               PROVE  io[u].edge \/ \E i \in 1 .. Len(loop.events) : loop.events[i].token = u
    BY <1>3, <1>10, <1>11, <1>12 DEF EdgesKept
  <2>1. CASE u = t
    BY <1>7, <1>8, <2>1
  <2>2. CASE u # t
    BY <1>8, <2>2, ReactorInvParts DEF EdgesKept
  <2>3. QED
    BY <2>1, <2>2
<1>15. used' \in [calls : Nat, arrivals : Nat, files : Nat]
  BY <1>1
<1>16. fd' \in [Fds -> OpenFile]
  BY <1>1, <1>3
<1>17. QED
  BY <1>1, <1>3, <1>6, <1>9, <1>13, <1>14, <1>15, <1>16, IoCallKeeps

\* after() and cancel().
LEMMA TimerCallKeeps ==
    ASSUME ReactorInv, ProcessInv', HandlerTurn,
           (\E d \in 0 .. 1 : after(d)) \/ (\E id \in rx.timers : cancel(id)),
           used' = [used EXCEPT !.calls = used.calls + 1]
    PROVE  ReactorInv'
<1>1. /\ rx \in ReactorMembers /\ used \in [calls : Nat, arrivals : Nat, files : Nat] /\ clock \in Nat
      /\ rx.nextTimer \in Nat /\ rx.timers \subseteq Nat /\ rx.timerQueue \subseteq QueuedTimer
      /\ loop.due \in Seq(QueuedTimer) /\ loop.fired \subseteq Nat
  BY ReactorInvParts DEF ReactorMembers, ReactorTypeOK, LoopState
<1>2. fd' = fd /\ kernel' = kernel
  BY DEF after, cancel, processVars
<1>3. /\ sc' = sc /\ clock' = clock /\ loop' \in LoopState
      /\ loop'.events = loop.events /\ loop'.stale = loop.stale /\ loop'.exited = loop.exited
      /\ loop'.due = loop.due /\ loop'.fired = loop.fired /\ ~loop'.early
      /\ loop.pc # "scan" /\ WaitBounded'
  BY TurnDoes
<1>4. TimersFresh
  BY ReactorInvParts
<1>5. \E timers \in SUBSET Nat, queue \in SUBSET QueuedTimer, n \in Nat :
         /\ rx' = [rx EXCEPT !.timers = timers, !.nextTimer = n, !.timerQueue = queue]
         /\ IsFiniteSet(queue)
         /\ \A id \in timers \cup loop.fired : id < n
         /\ \A e \in queue : e.id < n
         /\ \A e, d \in queue : e.id = d.id => e = d
         /\ timers \cap loop.fired = {}
         /\ \A i \in 1 .. Len(loop.due) : loop.due[i].id < n /\ loop.due[i].id \notin timers
  <2>1. CASE \E d \in 0 .. 1 : after(d)
    <3>1. PICK d \in 0 .. 1 : after(d)
      BY <2>1
    <3> DEFINE n == rx.nextTimer
               q == [deadline |-> clock + d, id |-> n]
               timers == rx.timers \union {n}
               queue == rx.timerQueue \union {q}
    <3>2. rx' = [rx EXCEPT !.timers = timers, !.nextTimer = n + 1, !.timerQueue = queue]
      BY <3>1 DEF after
    <3>3. q \in QueuedTimer /\ q.id = n
      BY <1>1 DEF QueuedTimer
    <3> HIDE DEF q
    <3>4. timers \in SUBSET Nat /\ queue \in SUBSET QueuedTimer /\ n + 1 \in Nat
      BY <1>1, <3>3
    <3>5. IsFiniteSet(queue)
      BY <1>4, FS_AddElement DEF TimersFresh
    <3>6. \A e \in rx.timerQueue : e.id \in Nat
      BY <1>1 DEF QueuedTimer
    <3>7. \A i \in 1 .. Len(loop.due) : loop.due[i].id \in Nat
      <4> TAKE i \in 1 .. Len(loop.due)
      <4>1. loop.due[i] \in QueuedTimer
        BY <1>1
      <4>2. QED
        BY <4>1 DEF QueuedTimer
    <3>8. /\ \A id \in rx.timers \cup loop.fired : id < n /\ id \in Nat
          /\ \A e \in rx.timerQueue : e.id < n
          /\ \A e, c \in rx.timerQueue : e.id = c.id => e = c
          /\ rx.timers \cap loop.fired = {}
          /\ \A i \in 1 .. Len(loop.due) : loop.due[i].id < n /\ loop.due[i].id \notin rx.timers
      BY <1>1, <1>4 DEF TimersFresh
    <3>9. \A id \in timers \cup loop.fired : id < n + 1
      BY <1>1, <3>8
    <3>10. \A e \in queue : e.id < n + 1
      BY <1>1, <3>3, <3>6, <3>8
    <3>11. \A e, c \in queue : e.id = c.id => e = c
      BY <1>1, <3>3, <3>6, <3>8
    <3>12. timers \cap loop.fired = {}
      BY <1>1, <3>8
    <3>13. \A i \in 1 .. Len(loop.due) : loop.due[i].id < n + 1 /\ loop.due[i].id \notin timers
      BY <1>1, <3>7, <3>8
    <3> HIDE DEF n, timers, queue
    <3>14. QED
      BY <3>2, <3>4, <3>5, <3>9, <3>10, <3>11, <3>12, <3>13
  <2>2. CASE \E id \in rx.timers : cancel(id)
    <3>1. PICK id \in rx.timers : cancel(id)
      BY <2>2
    <3>2. rx' = [rx EXCEPT !.timers = rx.timers \ {id}]
      BY <3>1 DEF cancel
    <3>3. rx' = [rx EXCEPT !.timers = rx.timers \ {id}, !.nextTimer = rx.nextTimer, !.timerQueue = rx.timerQueue]
      BY <1>1, <3>2 DEF ReactorMembers
    <3>4. rx.timers \ {id} \in SUBSET Nat
      BY <1>1
    <3> DEFINE timers == rx.timers \ {id}
    <3>5. /\ IsFiniteSet(rx.timerQueue) /\ rx.timerQueue \in SUBSET QueuedTimer
          /\ \A x \in timers \cup loop.fired : x < rx.nextTimer
          /\ \A e \in rx.timerQueue : e.id < rx.nextTimer
          /\ \A e, d \in rx.timerQueue : e.id = d.id => e = d
          /\ timers \cap loop.fired = {}
          /\ \A i \in 1 .. Len(loop.due) : loop.due[i].id < rx.nextTimer /\ loop.due[i].id \notin timers
      BY <1>1, <1>4 DEF TimersFresh
    <3> HIDE DEF timers
    <3>6. QED
      BY <1>1, <3>3, <3>4, <3>5 DEF timers
  <2>3. QED
    BY <2>1, <2>2
<1>6. PICK timers \in SUBSET Nat, queue \in SUBSET QueuedTimer, n \in Nat :
         /\ rx' = [rx EXCEPT !.timers = timers, !.nextTimer = n, !.timerQueue = queue]
         /\ IsFiniteSet(queue)
         /\ \A id \in timers \cup loop.fired : id < n
         /\ \A e \in queue : e.id < n
         /\ \A e, d \in queue : e.id = d.id => e = d
         /\ timers \cap loop.fired = {}
         /\ \A i \in 1 .. Len(loop.due) : loop.due[i].id < n /\ loop.due[i].id \notin timers
  BY <1>5
<1>7. rx' \in ReactorMembers
  BY <1>1, <1>6 DEF ReactorMembers
<1>8. /\ rx'.io = rx.io /\ rx'.nextToken = rx.nextToken /\ rx'.timers = timers
      /\ rx'.timerQueue = queue /\ rx'.nextTimer = n
      /\ rx'.childHandlers = rx.childHandlers /\ rx'.watched = rx.watched /\ rx'.selfPipe = rx.selfPipe
  BY <1>1, <1>6 DEF ReactorMembers
<1>9. TimersFresh'
  <2>1. ASSUME NEW i \in 1 .. Len(loop.due)
        PROVE  /\ loop.due[i].deadline <= clock /\ loop.due[i].id < n
               /\ loop.due[i].id \notin timers \cup loop.fired
               /\ \A j \in 1 .. Len(loop.due) : loop.due[i].id = loop.due[j].id => i = j
    BY <1>4, <1>6 DEF TimersFresh
  <2>2. QED
    BY <1>3, <1>6, <1>8, <2>1 DEF TimersFresh
<1>10. EventsFresh' /\ ChildrenFresh' /\ EdgesKept' /\ ExitsKept'
  BY <1>2, <1>3, <1>8, ReactorInvParts, EventsFrame, ChildrenFrame, EdgesFrame, ExitsFrame
<1>11. ReactorTypeOK'
  <2>1. used' \in [calls : Nat, arrivals : Nat, files : Nat]
    BY <1>1
  <2>2. QED
    BY <1>2, <1>3, <1>7, <2>1, ReactorInvParts DEF ReactorTypeOK
<1>12. QED
  BY <1>3, <1>9, <1>10, <1>11 DEF ReactorInv

\* A call on children: handlers are registered for unreaped children only, and
\* an exit leaves its byte.
LEMMA ChildCallKeeps ==
    ASSUME ReactorInv, ProcessInv', HandlerTurn, fd' = fd,
           NEW handlers \in SUBSET Pids, NEW watched \in SUBSET Pids, NEW b \in BOOLEAN,
           rx' = [rx EXCEPT !.childHandlers = handlers, !.watched = watched, !.selfPipe = b],
           used' = [used EXCEPT !.calls = used.calls + 1],
           ChildrenFresh', ExitsKept'
    PROVE  ReactorInv'
<1>1. rx \in ReactorMembers /\ used \in [calls : Nat, arrivals : Nat, files : Nat]
  BY ReactorInvParts DEF ReactorTypeOK
<1>2. /\ sc' = sc /\ clock' = clock /\ loop' \in LoopState
      /\ loop'.events = loop.events /\ loop'.stale = loop.stale /\ loop'.exited = loop.exited
      /\ loop'.due = loop.due /\ loop'.fired = loop.fired /\ ~loop'.early /\ WaitBounded'
  BY TurnDoes
<1>3. rx' \in ReactorMembers
  BY <1>1 DEF ReactorMembers
<1>4. /\ rx'.io = rx.io /\ rx'.nextToken = rx.nextToken /\ rx'.timers = rx.timers
      /\ rx'.timerQueue = rx.timerQueue /\ rx'.nextTimer = rx.nextTimer
  BY <1>1 DEF ReactorMembers
<1>5. used' \in [calls : Nat, arrivals : Nat, files : Nat]
  BY <1>1
<1>6. ReactorTypeOK'
  BY <1>2, <1>3, <1>5, ReactorInvParts DEF ReactorTypeOK
<1>7. EventsFresh' /\ TimersFresh' /\ EdgesKept'
  BY <1>2, <1>4, ReactorInvParts, EventsFrame, TimersFrame, EdgesFrame
<1>8. QED
  BY <1>2, <1>6, <1>7 DEF ReactorInv

LEMMA WatchChildKeeps ==
    ASSUME ReactorInv, ProcessInv', HandlerTurn, NEW h \in Handles, watchChild(h),
           used' = [used EXCEPT !.calls = used.calls + 1]
    PROVE  ReactorInv'
<1> DEFINE p == handle[h].id
           handlers == rx.childHandlers \cup {p}
           watched == rx.watched \cup {p}
<1>1. p \in Pids /\ kernel[p].state # "free"
  BY ReactorInvParts DEF watchChild, ProcessInv, Ownership
<1>2. fd' = fd /\ kernel' = kernel
  BY DEF watchChild, processVars
<1>3. rx \in ReactorMembers /\ rx.childHandlers \subseteq Pids /\ rx.watched \subseteq Pids
  BY ReactorInvParts DEF ReactorMembers
<1>4. PICK b \in BOOLEAN : b = (rx.selfPipe \/ (sc.children = "signal" /\ kernel[p].state = "zombie"))
  OBVIOUS
<1>5. rx' = [rx EXCEPT !.childHandlers = handlers, !.watched = watched, !.selfPipe = b]
  <2> DEFINE r == [rx EXCEPT !.childHandlers = handlers]
  <2>1. r.watched = rx.watched /\ r.selfPipe = rx.selfPipe
    BY <1>3 DEF ReactorMembers
  <2>2. rx' = [r EXCEPT !.watched = watched, !.selfPipe = b]
    BY <1>4, <2>1 DEF watchChild, childWatch
  <2>3. QED
    BY <1>3, <2>2 DEF ReactorMembers
<1>6. handlers \in SUBSET Pids /\ watched \in SUBSET Pids
  BY <1>1, <1>3
<1>7. rx'.childHandlers = handlers /\ rx'.watched = watched /\ rx'.selfPipe = b
  BY <1>3, <1>5 DEF ReactorMembers
<1>8. sc' = sc /\ loop'.exited = loop.exited /\ loop.pc \in {"idle", "call"}
  BY TurnDoes
<1>9. ChildrenFresh'
  BY <1>1, <1>2, <1>7, <1>8, ReactorInvParts DEF ChildrenFresh
<1>10. ExitsKept'
  BY <1>2, <1>4, <1>7, <1>8, ReactorInvParts DEF ExitsKept
<1> HIDE DEF handlers, watched
<1>11. QED
  BY <1>2, <1>5, <1>6, <1>9, <1>10, ChildCallKeeps

LEMMA UnwatchChildKeeps ==
    ASSUME ReactorInv, ProcessInv', HandlerTurn, NEW p \in rx.childHandlers, unwatchChild(p),
           used' = [used EXCEPT !.calls = used.calls + 1]
    PROVE  ReactorInv'
<1> DEFINE handlers == rx.childHandlers \ {p}
           watched == rx.watched \ {p}
<1>1. fd' = fd /\ kernel' = kernel
  BY DEF unwatchChild, processVars
<1>2. /\ rx \in ReactorMembers /\ rx.childHandlers \subseteq Pids /\ rx.watched \subseteq Pids
      /\ rx.selfPipe \in BOOLEAN
  BY ReactorInvParts DEF ReactorMembers
<1>3. rx' = [rx EXCEPT !.childHandlers = handlers, !.watched = watched, !.selfPipe = rx.selfPipe]
  <2> DEFINE r == [rx EXCEPT !.childHandlers = handlers]
  <2>1. r.watched = rx.watched
    BY <1>2 DEF ReactorMembers
  <2>2. rx' = [r EXCEPT !.watched = watched]
    BY <2>1 DEF unwatchChild, childUnwatch
  <2>3. QED
    BY <1>2, <2>2 DEF ReactorMembers
<1>4. handlers \in SUBSET Pids /\ watched \in SUBSET Pids
  BY <1>2
<1>5. rx'.childHandlers = handlers /\ rx'.watched = watched /\ rx'.selfPipe = rx.selfPipe
  BY <1>2, <1>3 DEF ReactorMembers
<1>6. sc' = sc /\ loop'.exited = loop.exited /\ loop.pc \in {"idle", "call"}
  BY TurnDoes
<1>7. ChildrenFresh'
  BY <1>1, <1>5, <1>6, ReactorInvParts DEF ChildrenFresh
<1>8. ExitsKept'
  BY <1>1, <1>5, <1>6, ReactorInvParts DEF ExitsKept
<1> HIDE DEF handlers, watched
<1>9. QED
  BY <1>1, <1>2, <1>3, <1>4, <1>7, <1>8, ChildCallKeeps

\* What a member function called by an owner does to the processes: only its own
\* child is reaped, and only a free number that drain() has not reported starts.
LEMMA OwnerCallDoes ==
    ASSUME ReactorInv, NEW h \in Handles, ownerCall(h), NEW p \in Pids
    PROVE  /\ kernel'[p].state = "zombie" => kernel[p].state \in {"running", "zombie"}
           /\ kernel'[p].state = "running" => kernel[p].state = "running" \/ p \notin ToSet(loop.exited)
           /\ (kernel[p].state # "free" /\ kernel'[p].state = "free") =>
                 p = handle[h].id /\ handle[h].id \notin rx.childHandlers
<1>1. /\ ProcessTypeOK /\ Ownership /\ kernel \in [Pids -> KernelProcess] /\ handle[h] \in ProcessObject
      /\ kernel[p] \in KernelProcess /\ handle[h].id \in Pids \cup {NoPid}
  BY ReactorInvParts DEF ProcessInv, ProcessTypeOK, ProcessObject
<1>2. kernel[p].state \in {"free", "running", "zombie"}
  BY <1>1 DEF KernelProcess
<1>3. CASE \E spec \in Specs, q \in Pids \ ToSet(loop.exited), execs \in BOOLEAN : spawn(h, spec, q, execs)
  <2>1. PICK spec \in Specs, q \in Pids \ ToSet(loop.exited), execs \in BOOLEAN : spawn(h, spec, q, execs)
    BY <1>3
  <2>2. CASE UNCHANGED <<kernel, handle>>
    BY <1>2, <2>2
  <2>3. CASE validate(spec) /\ execs
    <3>1. kernel[q] = Free /\ kernel' = [kernel EXCEPT ![q] =
             [state |-> "running", serial |-> spawned + 1, group |-> FALSE,
              fds |-> childTable(spec), want |-> wantedTable(spec)]]
      BY <2>1, <2>3 DEF spawn
    <3>2. kernel'[q].state = "running" /\ (p # q => kernel'[p] = kernel[p])
      BY <1>1, <3>1
    <3>3. QED
      BY <1>2, <2>1, <3>2
  <2>4. QED
    BY <2>1, <2>2, <2>3 DEF spawn
<1>4. ASSUME NEW q \in Pids, NEW k, k.state = "free", kernel' = [kernel EXCEPT ![q] = k],
             q = handle[h].id, handle[h].id \notin rx.childHandlers
      PROVE  /\ kernel'[p].state = "zombie" => kernel[p].state \in {"running", "zombie"}
             /\ kernel'[p].state = "running" => kernel[p].state = "running" \/ p \notin ToSet(loop.exited)
             /\ (kernel[p].state # "free" /\ kernel'[p].state = "free") =>
                   p = handle[h].id /\ handle[h].id \notin rx.childHandlers
  <2>1. kernel'[q] = k /\ (p # q => kernel'[p] = kernel[p])
    BY <1>1, <1>4
  <2>2. QED
    BY <1>2, <1>4, <2>1
<1>5. handle[h].owns => handle[h].id \in Pids
  BY <1>1 DEF Ownership
<1>6. CASE Unwatched(h) /\ tryWait(h)
  <2>1. handle[h].id \in Pids /\ handle[h].id \notin rx.childHandlers
    BY <1>5, <1>6 DEF Unwatched, tryWait
  <2>2. PICK k \in KernelProcess : k.state = "free" /\ kernel' = [kernel EXCEPT ![handle[h].id] = k]
    BY <1>1, <1>6, <2>1, ReapedTyped DEF tryWait
  <2>3. QED
    BY <1>4, <2>1, <2>2
<1>7. CASE Unwatched(h) /\ stop(h)
  <2>1. handle[h].id \in Pids /\ handle[h].id \notin rx.childHandlers
    BY <1>5, <1>7 DEF Unwatched, stop
  <2>2. PICK k \in KernelProcess : k.state = "free" /\ kernel' = [kernel EXCEPT ![handle[h].id] = k]
    BY <1>1, <1>7, <2>1, ReapedTyped, FreeTyped DEF stop, killedAndReaped
  <2>3. QED
    BY <1>4, <2>1, <2>2
<1>8. CASE Unwatched(h) /\ (destroyProcess(h) \/ \E g \in Handles : moveAssign(h, g))
  <2>1. kernel' = terminate(kernel, handle[h]) /\ handle[h].id \notin rx.childHandlers
    BY <1>8 DEF destroyProcess, moveAssign, Unwatched
  <2>2. CASE handle[h].owns
    <3>1. kernel' = [kernel EXCEPT ![handle[h].id] = Free]
      BY <2>1, <2>2 DEF terminate, killedAndReaped
    <3>2. QED
      BY <1>4, <1>5, <2>1, <2>2, <3>1, FreeTyped
  <2>3. CASE ~handle[h].owns
    BY <1>2, <2>1, <2>3 DEF terminate
  <2>4. QED
    BY <2>2, <2>3
<1>9. CASE Unwatched(h) /\ signalKill(h)
  <2> DEFINE q == handle[h].id
             k == IF kernel[q].state = "free" THEN Free
                  ELSE [kernel[q] EXCEPT !.state = "zombie", !.group = FALSE]
  <2>1. q \in Pids /\ kernel[q] \in KernelProcess
    BY <1>1, <1>9 DEF signalKill
  <2>2. k.state = IF kernel[q].state = "free" THEN "free" ELSE "zombie"
    BY <2>1, FreeTyped DEF KernelProcess
  <2>3. kernel' = [kernel EXCEPT ![q] = k]
    BY <1>1, <1>9, <2>1 DEF signalKill
  <2> HIDE DEF k, q
  <2>4. kernel'[q] = k /\ (p # q => kernel'[p] = kernel[p])
    BY <1>1, <2>1, <2>3
  <2>5. kernel[q].state \in {"free", "running", "zombie"}
    BY <2>1 DEF KernelProcess
  <2>6. QED
    BY <1>2, <2>2, <2>4, <2>5
<1>10. QED
  BY <1>3, <1>6, <1>7, <1>8, <1>9 DEF ownerCall

LEMMA OwnerCallKeeps ==
    ASSUME ReactorInv, ProcessInv', HandlerTurn, NEW h \in Handles, ownerCall(h),
           used' = [used EXCEPT !.calls = used.calls + 1]
    PROVE  ReactorInv'
<1>1. /\ rx \in ReactorMembers /\ rx.childHandlers \in SUBSET Pids /\ rx.watched \in SUBSET Pids
      /\ rx.selfPipe \in BOOLEAN /\ loop.exited \in Seq(Pids)
  BY ReactorInvParts DEF ReactorMembers, LoopState
<1>2. PICK b \in BOOLEAN :
         /\ rx' = [rx EXCEPT !.selfPipe = b]
         /\ rx.selfPipe => b
         /\ (sc.children = "signal" /\ \E p \in Pids : kernel[p].state = "running" /\ kernel'[p].state # "running") => b
  <2>1. CASE \E p \in Pids : kernel[p].state = "running" /\ kernel'[p].state # "running"
    <3>1. rx' = sigChld(rx)
      BY <2>1 DEF ownerCall
    <3>2. QED
      BY <1>1, <2>1, <3>1, SigChldDoes
  <2>2. CASE ~\E p \in Pids : kernel[p].state = "running" /\ kernel'[p].state # "running"
    <3>1. rx' = rx
      BY <2>2 DEF ownerCall
    <3>2. rx' = [rx EXCEPT !.selfPipe = rx.selfPipe]
      BY <1>1, <3>1 DEF ReactorMembers
    <3>3. QED
      BY <1>1, <2>2, <3>2
  <2>3. QED
    BY <2>1, <2>2
<1>3. rx' = [rx EXCEPT !.childHandlers = rx.childHandlers, !.watched = rx.watched, !.selfPipe = b]
  BY <1>1, <1>2 DEF ReactorMembers
<1>4. rx'.childHandlers = rx.childHandlers /\ rx'.watched = rx.watched /\ rx'.selfPipe = b
  BY <1>1, <1>2 DEF ReactorMembers
<1>5. sc' = sc /\ loop'.exited = loop.exited /\ loop.pc \in {"idle", "call"}
  BY TurnDoes
<1>6. ChildrenFresh'
  <2>1. ASSUME NEW p \in rx.childHandlers PROVE kernel'[p].state # "free"
    <3>1. p \in Pids /\ kernel[p].state # "free"
      BY <1>1, ReactorInvParts DEF ChildrenFresh
    <3>2. QED
      BY <3>1, OwnerCallDoes
  <2>2. ASSUME NEW i \in 1 .. Len(loop.exited) PROVE kernel'[loop.exited[i]].state # "running"
    <3>1. /\ loop.exited[i] \in Pids /\ loop.exited[i] \in ToSet(loop.exited)
          /\ kernel[loop.exited[i]].state # "running"
      BY <1>1, ReactorInvParts DEF ChildrenFresh, ToSet
    <3>2. QED
      BY <3>1, OwnerCallDoes
  <2>3. QED
    BY <1>4, <1>5, <2>1, <2>2 DEF ChildrenFresh
<1>7. ExitsKept'
  <2> SUFFICES ASSUME sc.children = "signal", NEW p \in rx.watched, kernel'[p].state = "zombie" PROVE b
    BY <1>4, <1>5 DEF ExitsKept
  <2>1. p \in Pids /\ kernel[p].state \in {"running", "zombie"}
    BY <1>1, OwnerCallDoes
  <2>2. CASE kernel[p].state = "running"
    BY <1>2, <2>1, <2>2
  <2>3. CASE kernel[p].state = "zombie"
    BY <1>2, <1>5, <2>3, ReactorInvParts DEF ExitsKept
  <2>4. QED
    BY <2>1, <2>2, <2>3
<1>8. fd' = fd
  BY DEF ownerCall
<1>9. QED
  BY <1>1, <1>3, <1>6, <1>7, <1>8, ChildCallKeeps

LEMMA CallKeeps ==
    ASSUME ReactorInv, ProcessInv', HandlerTurn, Call
    PROVE  ReactorInv'
<1>1. CASE UNCHANGED <<fd, rx, used, processVars>>
  <2>1. UNCHANGED <<fd, rx, used, kernel>>
    BY <1>1 DEF processVars
  <2>2. /\ sc' = sc /\ clock' = clock /\ loop' \in LoopState
        /\ loop'.events = loop.events /\ loop'.stale = loop.stale /\ loop'.exited = loop.exited
        /\ loop'.due = loop.due /\ loop'.fired = loop.fired /\ ~loop'.early
        /\ loop.pc \in {"idle", "call"} /\ WaitBounded'
    BY TurnDoes
  <2>3. ReactorTypeOK'
    BY <2>1, <2>2, ReactorInvParts DEF ReactorTypeOK
  <2>4. EventsFresh' /\ ChildrenFresh' /\ TimersFresh' /\ EdgesKept' /\ ExitsKept'
    BY <2>1, <2>2, ReactorInvParts, EventsFrame, ChildrenFrame, TimersFrame, EdgesFrame, ExitsFrame
  <2>5. QED
    BY <2>2, <2>3, <2>4 DEF ReactorInv
<1>2. CASE watchNew
  BY <1>2, WatchNewKeeps
<1>3. CASE used' = [used EXCEPT !.calls = used.calls + 1]
             /\ \E t \in Tokens : unwatch(t) \/ modify(t)
  BY <1>3, UnwatchKeeps, ModifyKeeps
<1>4. CASE used' = [used EXCEPT !.calls = used.calls + 1]
             /\ ((\E d \in 0 .. 1 : after(d)) \/ (\E id \in rx.timers : cancel(id)))
  BY <1>4, TimerCallKeeps
<1>5. CASE used' = [used EXCEPT !.calls = used.calls + 1]
             /\ \/ \E h \in Handles : ownerCall(h) \/ watchChild(h)
                \/ \E p \in rx.childHandlers : unwatchChild(p)
  BY <1>5, OwnerCallKeeps, WatchChildKeeps, UnwatchChildKeeps
<1>6. QED
  BY <1>1, <1>2, <1>3, <1>4, <1>5 DEF Call

-----------------------------------------------------------------------------
\* Every step keeps the invariant.
LEMMA ReactorStep == ReactorInv /\ [Next]_vars => ReactorInv'
<1> SUFFICES ASSUME ReactorInv, [Next]_vars PROVE ReactorInv'
  OBVIOUS
<1>1. ProcessInv'
  BY ReactorInvParts, ReactorUsesProcess, ProcessStep
<1>2. CASE run
  BY <1>1, <1>2, RunKeeps
<1>3. CASE setup \/ handlerCall
  <2>1. HandlerTurn /\ Call
    BY <1>3 DEF setup, handlerCall, HandlerTurn
  <2>2. QED
    BY <1>1, <2>1, CallKeeps
<1>4. CASE check
  BY <1>1, <1>4, CheckKeeps
<1>5. CASE wait
  BY <1>1, <1>5, WaitKeeps
<1>6. CASE dispatchSkip
  BY <1>1, <1>6, DispatchSkipKeeps
<1>7. CASE dispatchIo
  BY <1>1, <1>7, DispatchIoKeeps
<1>8. CASE dispatchSignals \/ dispatchChildren
  BY <1>1, <1>8, DispatchSourceKeeps
<1>9. CASE drain
  BY <1>1, <1>9, DrainKeeps
<1>10. CASE childHandler
  BY <1>1, <1>10, ChildHandlerKeeps
<1>11. CASE childrenDone \/ timersDone
  BY <1>1, <1>11, PhaseDoneKeeps
<1>12. CASE fireDueTimers
  BY <1>1, <1>12, FireKeeps
<1>13. CASE timerHandler
  BY <1>1, <1>13, TimerHandlerKeeps
<1>14. CASE stopStore \/ stopWake
  BY <1>1, <1>14, StopThreadKeeps
<1>15. CASE signalArrives
  BY <1>1, <1>15, SignalArrivesKeeps
<1>16. CASE timePasses
  BY <1>1, <1>16, TimePassesKeeps
<1>17. CASE \E f \in Fds : arrive(f)
  BY <1>1, <1>17, ArriveKeeps
<1>18. CASE \E p \in Pids : childEvent(p)
  BY <1>1, <1>18, ChildEventsKeep
<1>19. CASE UNCHANGED vars
  <2>1. UNCHANGED <<sc, fd, rx, loop, clock, used, kernel>>
    BY <1>19 DEF vars, reactorVars, processVars
  <2>2. ReactorTypeOK'
    BY <2>1, ReactorInvParts DEF ReactorTypeOK
  <2>3. EventsFresh' /\ ChildrenFresh' /\ TimersFresh' /\ ~loop'.early /\ EdgesKept' /\ ExitsKept'
    BY <2>1, ReactorInvParts, EventsFrame, ChildrenFrame, TimersFrame, EdgesFrame, ExitsFrame
  <2>4. WaitBounded'
    BY <2>1, ReactorInvParts DEF WaitBounded
  <2>5. QED
    BY <1>1, <2>2, <2>3, <2>4 DEF ReactorInv
<1>20. QED
  BY <1>2, <1>3, <1>4, <1>5, <1>6, <1>7, <1>8, <1>9, <1>10, <1>11, <1>12, <1>13, <1>14, <1>15, <1>16,
     <1>17, <1>18, <1>19 DEF Next

LEMMA ReactorInvariant == Spec => []ReactorInv
<1>1. Init => ReactorInv
  BY ReactorInitInv
<1>2. ReactorInv /\ [Next]_vars => ReactorInv'
  BY ReactorStep
<1>3. QED
  BY <1>1, <1>2, PTL DEF Spec

(***************************************************************************)
(* A handler is called only for its own registration, for its own child    *)
(* once it has exited, and for its own timer once it is due, whatever      *)
(* handlers do between an event and its dispatch (reactor.cpp runOnce).    *)
(***************************************************************************)
THEOREM HandlersCalledForTheirOwn == Spec => []HandlersGetTheirOwn
<1>1. ReactorInv => HandlersGetTheirOwn
  BY DEF ReactorInv, EventsFresh, HandlersGetTheirOwn
<1>2. QED
  BY <1>1, ReactorInvariant, PTL

(***************************************************************************)
(* The loop never blocks with work to do: input, an exit, a signal, a due  *)
(* timer or a finished stop() from another thread ends the wait            *)
(* (reactor.cpp run, stop; poller_epoll.cpp wait; child_exit.cpp drain).   *)
(***************************************************************************)
THEOREM WakeupsNeverLost == Spec => []NoLostWakeup
<1>1. ReactorInv => NoLostWakeup
  <2> SUFFICES ASSUME ReactorInv, loop.pc = "wait",
                      \/ \E t \in Tokens : rx.io[t].interest /\ fd[rx.io[t].fd].ready
                      \/ \E p \in rx.watched : kernel[p].state = "zombie"
                      \/ rx.signals
                      \/ \E q \in rx.timerQueue : q.id \in rx.timers /\ q.deadline <= clock
                      \/ loop.stopper = "done" /\ rx.stopRequested
               PROVE  CanReturn
    BY DEF NoLostWakeup
  <2>1. CASE \E t \in Tokens : rx.io[t].interest /\ fd[rx.io[t].fd].ready
    <3>1. PICK t \in Tokens : rx.io[t].interest /\ fd[rx.io[t].fd].ready
      BY <2>1
    <3>2. loop.events = <<>>
      BY ReactorInvParts DEF WaitBounded
    <3>3. rx.io[t].edge
      BY <3>1, <3>2, ReactorInvParts DEF EdgesKept
    <3>4. t \in Due
      BY <3>1, <3>3 DEF Due, HandleDue
    <3>5. QED
      BY <3>4 DEF CanReturn
  <2>2. CASE \E p \in rx.watched : kernel[p].state = "zombie"
    <3>1. ChildDue
      BY <2>2, ReactorInvParts DEF ChildDue, ExitsKept
    <3>2. QED
      BY <3>1 DEF CanReturn, Due
  <2>3. CASE rx.signals
    BY <2>3 DEF CanReturn, Due
  <2>4. CASE \E q \in rx.timerQueue : q.id \in rx.timers /\ q.deadline <= clock
    <3>1. PICK q \in rx.timerQueue : q.id \in rx.timers /\ q.deadline <= clock
      BY <2>4
    <3>2. loop.until <= q.deadline
      BY <3>1, ReactorInvParts DEF WaitBounded
    <3>3. rx.timerQueue \subseteq QueuedTimer /\ loop.until \in Nat /\ clock \in Nat
      BY ReactorInvParts DEF ReactorMembers, LoopState, ReactorTypeOK
    <3>4. q.deadline \in Nat
      BY <3>1, <3>3 DEF QueuedTimer
    <3>5. QED
      BY <3>1, <3>2, <3>3, <3>4 DEF CanReturn
  <2>5. CASE loop.stopper = "done" /\ rx.stopRequested
    BY <2>5, ReactorInvParts DEF WaitBounded, CanReturn
  <2>6. QED
    BY <2>1, <2>2, <2>3, <2>4, <2>5
<1>2. QED
  BY <1>1, ReactorInvariant, PTL
=============================================================================
