---------------------------- MODULE NativeRunProofs ----------------------------
(***************************************************************************)
(* `pipeshellx run --transport native` keeps its promises for every number *)
(* of targets, every --canary, every concurrency limit, with and without   *)
(* fail-fast.                                                              *)
(*                                                                         *)
(* First the fan-out of module NativeController: ControllerInv is          *)
(* inductive.  NeverStalls is the conjunct that needs the others: that an  *)
(* idle controller is a complete one follows from the counters agreeing    *)
(* with the sets, from the order of launching and from every finished      *)
(* transport having its retire timer.                                      *)
(*                                                                         *)
(* Then the run of module NativeRun: the fan-out's invariant survives the  *)
(* change of controllers, the targets behind the canaries wait for them, a *)
(* stop is a stop for both controllers, and the exit code is the truth.    *)
(***************************************************************************)
EXTENDS NativeRun, FiniteSetTheorems, TLAPS

-----------------------------------------------------------------------------
\* The fan-out of one controller.

\* A controller launches its targets in order, so those it has still to launch
\* are an interval, whatever targets it was started with: all of them, the
\* canaries, or the rest.
Interval == \A i \in conns, j \in Targets : (nextToStart <= j /\ j <= i) => j \in conns

\* The targets of another controller have no live link.
OthersQuiet ==
    \A i \in Targets \ conns : link[i] \notin {"connecting", "unopened", "open", "exited"}

\* The invariant for a controller that is started on any interval of targets.
FanOutInv == Interval /\ OthersQuiet /\ ControllerInv

\* The target set and its subsets are finite and counted by naturals.
LEMMA TargetsFinite ==
    /\ IsFiniteSet(Targets) /\ Cardinality(Targets) = N
    /\ \A S \in SUBSET Targets : IsFiniteSet(S) /\ Cardinality(S) \in Nat
<1>1. IsFiniteSet(Targets) /\ Cardinality(Targets) = N
  BY FS_Interval, ControllerAssumption DEF Targets
<1>2. \A S \in SUBSET Targets : IsFiniteSet(S)
  BY <1>1, FS_Subset
<1>3. QED
  BY <1>1, <1>2, FS_CardinalityType

\* A subset of the targets has no element exactly when it counts zero.
LEMMA ZeroMeansEmpty ==
    ASSUME NEW S \in SUBSET Targets
    PROVE  Cardinality(S) = 0 <=> S = {}
BY TargetsFinite, FS_EmptySet

\* Finishing one more target takes exactly one from the unfinished ones.
LEMMA OneFewer ==
    ASSUME conns \in SUBSET Targets, NEW D \in SUBSET conns, NEW i \in conns \ D
    PROVE  Less(Cardinality(conns \ D), 1) = Cardinality(conns \ (D \cup {i}))
<1>1. conns \ D \in SUBSET Targets /\ i \in conns \ D /\ conns \ (D \cup {i}) \in SUBSET Targets
  OBVIOUS
<1>2. Cardinality((conns \ D) \ {i}) = Cardinality(conns \ D) - 1
  BY <1>1, TargetsFinite, FS_RemoveElement
<1>3. (conns \ D) \ {i} = conns \ (D \cup {i})
  OBVIOUS
<1>4. Cardinality(conns \ D) \in Nat /\ Cardinality(conns \ (D \cup {i})) \in Nat
  BY <1>1, TargetsFinite
<1>5. QED
  BY <1>2, <1>3, <1>4 DEF Less

\* What the loop of cancel() leaves: nothing unfinished, every target with a
\* result of its own, and a retire timer for each transport of act.
LEMMA FailRestEffect ==
    ASSUME TypeOK, conns \in SUBSET Targets, remaining = Cardinality(conns \ done),
           NEW act \in SUBSET conns, NEW kind \in CancelKinds,
           NEW base \in [Targets -> Results],
           \A j \in conns : j \in done => base[j] # "pending",
           FailRest(act), result' = CancelledResults(base, kind)
    PROVE  /\ cancelling' = TRUE /\ done' = conns
           /\ remaining' = 0
           /\ retiring' = retiring \cup (act \ done)
           /\ result' \in [Targets -> Results]
           /\ \A j \in conns : result'[j] # "pending"
           /\ \A j \in Targets : base[j] # "pending" => result'[j] = base[j]
           /\ \A j \in Targets \ conns : result'[j] = base[j]
<1>1. cancelling' = TRUE /\ done' = conns /\ retiring' = retiring \cup (act \ done)
  BY DEF FailRest
<1>2. remaining' = 0
  <2>1. Cardinality(conns \ done) \in Nat
    BY TargetsFinite DEF TypeOK
  <2>2. QED
    BY <2>1 DEF FailRest, Less
<1>3. kind \in Results /\ kind # "pending"
  BY DEF CancelKinds, Results
<1>4. result' \in [Targets -> Results]
  BY <1>3 DEF CancelledResults
<1>5. \A j \in conns : result'[j] # "pending"
  BY <1>3 DEF CancelledResults
<1>6. /\ \A j \in Targets : base[j] # "pending" => result'[j] = base[j]
      /\ \A j \in Targets \ conns : result'[j] = base[j]
  BY DEF CancelledResults
<1>7. QED
  BY <1>1, <1>2, <1>4, <1>5, <1>6

\* What finish() leaves for a target that was not done, when act are the targets
\* with a transport.
Finished(i, act) ==
    /\ done' \in SUBSET conns /\ done \subseteq done' /\ i \in done'
    /\ remaining' = Cardinality(conns \ done')
    /\ retiring' = retiring \cup (act \cap (done' \ done))
    /\ result' \in [Targets -> Results]
    /\ \A j \in conns : j \in done' <=> result'[j] # "pending"
    /\ \A j \in Targets : result[j] # "pending" => result'[j] = result[j]
    /\ \A j \in Targets \ conns : result'[j] = result[j]
    /\ cancelling' \in BOOLEAN
    /\ (cancelling => cancelling') /\ (cancelling' => done' = conns)
    /\ \A j \in done' \ done : j = i \/ cancelling'

\* finish() does that, fail-fast included.
LEMMA FinishEffect ==
    ASSUME TypeOK, Bookkeeping, conns \in SUBSET Targets, remaining = Cardinality(conns \ done),
           NEW i \in conns, i \notin done, NEW r \in {"ok", "nonzero", "error"},
           NEW act \in SUBSET conns, i \in act,
           Finish(i, r, act)
    PROVE  Finished(i, act)
<1> DEFINE base == [result EXCEPT ![i] = r]
<1>1. conns \in SUBSET Targets /\ result \in [Targets -> Results] /\ done \in SUBSET conns
      /\ cancelling \in BOOLEAN
  BY DEF TypeOK, Bookkeeping
<1>2. \A j \in conns : j \in done <=> result[j] # "pending"
  BY DEF Bookkeeping
<1>3. r \in Results /\ r # "pending"
  BY DEF Results
<1>4. /\ base \in [Targets -> Results]
      /\ base[i] = r /\ \A j \in conns : j # i => base[j] = result[j]
  BY <1>1, <1>3
<1>5. remaining = Cardinality(conns \ done)
  BY <1>1
<1>5a. /\ \A j \in Targets : result[j] # "pending" => base[j] = result[j] /\ base[j] # "pending"
      /\ \A j \in Targets \ conns : base[j] = result[j]
  <2>1. result[i] = "pending" /\ i \in conns
    BY <1>2
  <2>2. QED
    BY <1>4, <2>1
<1>6. CASE failFast /\ ~cancelling /\ r # "ok"
  <2>1. result' = CancelledResults(base, "failfast") /\ FailRest(act)
    BY <1>6 DEF Finish
  <2>2. \A j \in conns : j \in done => base[j] # "pending"
    BY <1>2, <1>4
  <2>3. "failfast" \in CancelKinds
    BY DEF CancelKinds
  <2> HIDE DEF base
  <2>4. /\ cancelling' = TRUE /\ done' = conns /\ remaining' = 0
        /\ retiring' = retiring \cup (act \ done)
        /\ result' \in [Targets -> Results]
        /\ \A j \in conns : result'[j] # "pending"
        /\ \A j \in Targets : base[j] # "pending" => result'[j] = base[j]
        /\ \A j \in Targets \ conns : result'[j] = base[j]
    BY <1>1, <1>4, <1>5, <2>1, <2>2, <2>3, FailRestEffect, ZenonT(60)
  <2>5. Cardinality(conns \ done') = 0
    BY <2>4, FS_EmptySet
  <2>6. /\ \A j \in Targets : result[j] # "pending" => result'[j] = result[j]
        /\ \A j \in Targets \ conns : result'[j] = result[j]
    BY <1>1, <1>5a, <2>4
  <2>7. act \cap (done' \ done) = act \ done
    BY <2>4
  <2>8. QED
    BY <1>1, <2>4, <2>5, <2>6, <2>7 DEF Finished
<1>7. CASE ~(failFast /\ ~cancelling /\ r # "ok")
  <2>1. /\ result' = base /\ done' = done \cup {i}
        /\ remaining' = Less(remaining, 1)
        /\ retiring' = retiring \cup {i} /\ cancelling' = cancelling
    BY <1>7 DEF Finish
  <2>2. remaining' = Cardinality(conns \ done')
    BY <1>1, <1>5, <2>1, OneFewer
  <2>3. act \cap (done' \ done) = {i}
    BY <2>1
  <2>4. cancelling' => done' = conns
    BY <1>1, <2>1 DEF Bookkeeping
  <2>5. QED
    BY <1>1, <1>2, <1>3, <1>4, <1>5a, <2>1, <2>2, <2>3, <2>4 DEF Finished
<1>8. QED
  BY <1>6, <1>7

-----------------------------------------------------------------------------
\* The initial state: nothing launched, nothing finished.
LEMMA ControllerInit == Init => FanOutInv
<1> SUFFICES ASSUME Init PROVE FanOutInv
  OBVIOUS
<1>1. TypeOK
  <2>1. N \in Nat /\ nextToStart \in 1 .. N + 1 /\ activeCount \in Nat /\ remaining \in Nat
    BY ControllerAssumption DEF Init
  <2>2. result \in [Targets -> Results] /\ link \in [Targets -> Links]
    BY DEF Init, Results, Links
  <2>3. QED
    BY <2>1, <2>2 DEF Init, TypeOK
<1>2. Bookkeeping
  BY DEF Init, Bookkeeping, Targets
<1>3. CountersAgree
  <2>1. conns \ done = Targets
    BY DEF Init
  <2>2. QED
    BY <2>1, TargetsFinite, FS_EmptySet DEF Init, CountersAgree
<1>4. ConcurrencyBounded
  <2>1. Limit \in Nat
    BY TargetsFinite, ControllerAssumption DEF Init, Limit
  <2>2. QED
    BY <2>1 DEF Init, ConcurrencyBounded
<1>5. RetireTimersExact /\ NeverStalls /\ CompletionIsFinal
  BY DEF Init, RetireTimersExact, NeverStalls, CompletionIsFinal
<1>6. QED
  BY <1>1, <1>2, <1>3, <1>4, <1>5 DEF Init, FanOutInv, Interval, OthersQuiet, ControllerInv

\* start() only decides whether there is anything to launch.
LEMMA StartKeeps == FanOutInv /\ Start => ControllerInv'
<1> SUFFICES ASSUME FanOutInv, Start PROVE ControllerInv'
  OBVIOUS
<1>1. /\ UNCHANGED <<failFast, conns, nextToStart, active, activeCount, done, remaining, result,
                     link, retiring, cancelling>>
      /\ phase = "created" /\ conns \in SUBSET Targets /\ active = {} /\ done = {}
  BY DEF Start, FanOutInv, ControllerInv, Bookkeeping, TypeOK
<1>2. CASE conns = {}
  <2>1. completed' = TRUE /\ phase' = "waiting"
    BY <1>1, <1>2 DEF Start
  <2>2. TypeOK'
    BY <1>1, <2>1 DEF FanOutInv, ControllerInv, TypeOK
  <2>3. Bookkeeping'
    BY <1>1, <2>1 DEF FanOutInv, ControllerInv, Bookkeeping, Targets
  <2>4. (CountersAgree /\ ConcurrencyBounded /\ RetireTimersExact)'
    BY <1>1 DEF FanOutInv, ControllerInv, CountersAgree, ConcurrencyBounded, RetireTimersExact, Limit
  <2>5. NeverStalls' /\ CompletionIsFinal'
    BY <1>1, <1>2, <2>1 DEF FanOutInv, ControllerInv, NeverStalls, CompletionIsFinal, RetireTimersExact
  <2>6. QED
    BY <1>1, <2>2, <2>3, <2>4, <2>5 DEF FanOutInv, ControllerInv
<1>3. CASE conns # {}
  <2>1. completed' = completed /\ phase' = "filling" /\ ~completed
    BY <1>1, <1>3 DEF Start, FanOutInv, ControllerInv, Bookkeeping
  <2>2. TypeOK'
    BY <1>1, <2>1 DEF FanOutInv, ControllerInv, TypeOK
  <2>3. Bookkeeping'
    BY <1>1, <1>3, <2>1 DEF FanOutInv, ControllerInv, Bookkeeping, Targets
  <2>4. (CountersAgree /\ ConcurrencyBounded /\ RetireTimersExact)'
    BY <1>1 DEF FanOutInv, ControllerInv, CountersAgree, ConcurrencyBounded, RetireTimersExact, Limit
  <2>5. NeverStalls' /\ CompletionIsFinal'
    BY <2>1 DEF NeverStalls, CompletionIsFinal
  <2>6. QED
    BY <1>1, <2>2, <2>3, <2>4, <2>5 DEF FanOutInv, ControllerInv
<1>4. QED
  BY <1>2, <1>3

\* Taking a slot: the next target is a fresh one, and there was room for it.
LEMMA SlotTaken ==
    ASSUME FanOutInv, MoreToLaunch, phase = "filling"
    PROVE  /\ conns \in SUBSET Targets /\ nextToStart \in conns /\ ~completed /\ ~cancelling
           /\ nextToStart \notin active /\ nextToStart \notin done
           /\ activeCount \in Nat /\ Limit \in Nat /\ activeCount + 1 <= Limit
           /\ Cardinality(active \cup {nextToStart}) = activeCount + 1
           /\ nextToStart + 1 \in 1 .. N + 1
<1>1. conns \in SUBSET Targets /\ nextToStart \in conns /\ ~completed /\ ~cancelling
  BY DEF MoreToLaunch, FanOutInv, ControllerInv, Bookkeeping, TypeOK
<1>2. N \in Nat /\ nextToStart \in Nat /\ nextToStart \in 1 .. N
  BY <1>1, ControllerAssumption DEF Targets
<1>3. nextToStart \notin active /\ nextToStart \notin done
  BY <1>1, <1>2 DEF FanOutInv, ControllerInv, Bookkeeping
<1>4. Limit \in Nat /\ activeCount \in Nat
  BY <1>1, TargetsFinite, ControllerAssumption DEF Limit, FanOutInv, ControllerInv, TypeOK
<1>5. activeCount < Limit
  BY DEF MoreToLaunch
<1>6. activeCount = Cardinality(active) /\ active \in SUBSET Targets
  BY <1>1 DEF FanOutInv, ControllerInv, CountersAgree, TypeOK
<1>7. Cardinality(active \cup {nextToStart}) = activeCount + 1
  BY <1>3, <1>6, TargetsFinite, FS_AddElement
<1>8. QED
  BY <1>1, <1>2, <1>3, <1>4, <1>5, <1>7

\* launch() with the connection under way.
LEMMA LaunchStartsKeeps == FanOutInv /\ LaunchStarts => ControllerInv'
<1> SUFFICES ASSUME FanOutInv, LaunchStarts PROVE ControllerInv'
  OBVIOUS
<1> USE DEF LaunchStarts
<1>1. /\ conns \in SUBSET Targets /\ nextToStart \in conns /\ ~completed /\ ~cancelling
      /\ nextToStart \notin active /\ nextToStart \notin done
      /\ activeCount \in Nat /\ Limit \in Nat /\ activeCount + 1 <= Limit
      /\ Cardinality(active \cup {nextToStart}) = activeCount + 1
      /\ nextToStart + 1 \in 1 .. N + 1
  BY SlotTaken
<1>2. TypeOK'
  <2>1. (active \cup {nextToStart}) \subseteq conns
    BY <1>1 DEF FanOutInv, ControllerInv, TypeOK
  <2>2. [link EXCEPT ![nextToStart] = "connecting"] \in [Targets -> Links]
    BY <1>1 DEF FanOutInv, ControllerInv, TypeOK, Links
  <2>3. activeCount + 1 \in Nat
    BY <1>1
  <2>4. QED
    BY <1>1, <2>1, <2>2, <2>3 DEF FanOutInv, ControllerInv, TypeOK
<1>3. Bookkeeping'
  <2>1. N \in Nat /\ nextToStart \in Nat
    BY <1>1, ControllerAssumption DEF Targets
  <2>2. \A i \in conns :
          /\ i >= nextToStart' => i > nextToStart
          /\ i < nextToStart' => i < nextToStart \/ i = nextToStart
    BY <1>1, <2>1 DEF Targets
  <2>3. \A i \in conns :
          /\ i >= nextToStart' => i \notin active'
          /\ (i >= nextToStart' /\ i \in done') => cancelling'
          /\ i < nextToStart' => i \in active' \/ i \in done'
    <3>1. \A i \in conns : i > nextToStart => i >= nextToStart /\ i # nextToStart
      BY <1>1, <2>1 DEF Targets
    <3>2. QED
      BY <2>2, <3>1 DEF FanOutInv, ControllerInv, Bookkeeping
  <2>4. \A i \in conns :
          link'[i] \in {"connecting", "unopened", "open", "exited"} => i \in active'
    BY <1>1 DEF FanOutInv, ControllerInv, Bookkeeping, TypeOK
  <2>5. QED
    BY <1>1, <2>3, <2>4 DEF FanOutInv, ControllerInv, Bookkeeping
<1>4. CountersAgree' /\ ConcurrencyBounded'
  <2>1. Limit' = Limit
    BY DEF Limit
  <2>2. QED
    BY <1>1, <2>1 DEF FanOutInv, ControllerInv, CountersAgree, ConcurrencyBounded
<1>5. RetireTimersExact'
  BY <1>1 DEF FanOutInv, ControllerInv, RetireTimersExact
<1>6. NeverStalls' /\ CompletionIsFinal'
  BY <1>1 DEF NeverStalls, CompletionIsFinal
<1>7. QED
  BY <1>2, <1>3, <1>4, <1>5, <1>6 DEF ControllerInv

\* launch() failing on the spot, with or without fail-fast.
LEMMA LaunchFailsKeeps == FanOutInv /\ LaunchFails => ControllerInv'
<1> SUFFICES ASSUME FanOutInv, LaunchFails PROVE ControllerInv'
  OBVIOUS
<1> DEFINE n == nextToStart
           act == active \cup {n}
<1>1. /\ conns \in SUBSET Targets /\ n \in conns /\ ~completed /\ ~cancelling
      /\ n \notin active /\ n \notin done
      /\ activeCount \in Nat /\ Limit \in Nat /\ activeCount + 1 <= Limit
      /\ Cardinality(act) = activeCount + 1
      /\ n + 1 \in 1 .. N + 1
  BY SlotTaken DEF LaunchFails
<1>2. /\ nextToStart' = n + 1 /\ active' = act /\ activeCount' = activeCount + 1
      /\ link' = [link EXCEPT ![n] = "lost"] /\ Finish(n, "error", act)
      /\ conns' = conns /\ phase' = phase /\ phase = "filling" /\ completed' = completed
      /\ failFast' = failFast
  BY DEF LaunchFails
<1>3. active \in SUBSET conns /\ act \in SUBSET conns /\ retiring = active \cap done
      /\ done \in SUBSET conns
  BY <1>1 DEF FanOutInv, ControllerInv, TypeOK, RetireTimersExact
<1>4. /\ done' \in SUBSET conns /\ done \subseteq done' /\ n \in done'
      /\ remaining' = Cardinality(conns \ done')
      /\ retiring' = retiring \cup (act \cap (done' \ done))
      /\ result' \in [Targets -> Results]
      /\ \A j \in conns : j \in done' <=> result'[j] # "pending"
      /\ cancelling' \in BOOLEAN /\ (cancelling' => done' = conns)
      /\ \A j \in done' \ done : j = n \/ cancelling'
  <2>1. TypeOK /\ Bookkeeping /\ remaining = Cardinality(conns \ done)
    BY DEF FanOutInv, ControllerInv, CountersAgree
  <2> HIDE DEF n, act
  <2>2. n \in act
    BY DEF act
  <2>3. QED
    BY <1>1, <1>2, <1>3, <2>1, <2>2, FinishEffect DEF Finished
<1>5. TypeOK'
  <2>1. link' \in [Targets -> Links]
    BY <1>1, <1>2 DEF FanOutInv, ControllerInv, TypeOK, Links
  <2>2. activeCount' \in Nat /\ remaining' \in Nat
    <3>1. Cardinality(conns \ done') \in Nat
      BY <1>1, TargetsFinite
    <3>2. QED
      BY <1>1, <1>2, <1>4, <3>1
  <2>3. retiring' \subseteq conns /\ phase' \in {"created", "filling", "waiting"}
    BY <1>2, <1>3, <1>4
  <2>4. completed' \in BOOLEAN /\ failFast' \in BOOLEAN
    BY <1>2 DEF FanOutInv, ControllerInv, TypeOK
  <2>5. QED
    BY <1>1, <1>2, <1>3, <1>4, <2>1, <2>2, <2>3, <2>4 DEF TypeOK
<1>6. Bookkeeping'
  <2>1. N \in Nat /\ n \in Nat
    BY <1>1, ControllerAssumption DEF Targets
  <2>2. \A i \in conns :
          /\ i >= n + 1 => i >= n /\ i # n
          /\ i < n + 1 => i < n \/ i = n
    BY <1>1, <2>1 DEF Targets
  <2>3. \A i \in conns :
          /\ i >= nextToStart' => i \notin active'
          /\ (i >= nextToStart' /\ i \in done') => cancelling'
          /\ i < nextToStart' => i \in active' \/ i \in done'
    BY <1>1, <1>2, <1>4, <2>2 DEF FanOutInv, ControllerInv, Bookkeeping
  <2>4. \A i \in conns :
          link'[i] \in {"connecting", "unopened", "open", "exited"} => i \in active'
    BY <1>1, <1>2 DEF FanOutInv, ControllerInv, Bookkeeping, TypeOK
  <2>5. QED
    BY <1>1, <1>2, <1>4, <2>3, <2>4 DEF Bookkeeping
<1>7. CountersAgree' /\ ConcurrencyBounded'
  <2>1. Limit' = Limit
    BY <1>2 DEF Limit
  <2>2. QED
    BY <1>1, <1>2, <1>4, <2>1 DEF CountersAgree, ConcurrencyBounded
<1>8. RetireTimersExact'
  BY <1>1, <1>2, <1>3, <1>4 DEF RetireTimersExact
<1>9. NeverStalls' /\ CompletionIsFinal'
  BY <1>1, <1>2 DEF NeverStalls, CompletionIsFinal
<1>10. QED
  BY <1>1, <1>2, <1>5, <1>6, <1>7, <1>8, <1>9 DEF ControllerInv

\* The end of fillSlots(): if nothing is left to wait for, nothing was left to
\* launch either, so the run is complete.
LEMMA FillEndsKeeps == FanOutInv /\ FillEnds => ControllerInv'
<1> SUFFICES ASSUME FanOutInv, FillEnds PROVE ControllerInv'
  OBVIOUS
<1>1. /\ UNCHANGED <<failFast, conns, nextToStart, active, activeCount, done, remaining, result,
                     link, retiring, cancelling>>
      /\ phase = "filling" /\ phase' = "waiting" /\ ~MoreToLaunch
      /\ completed' \in BOOLEAN
      /\ completed' <=> completed \/ ReadyToComplete(remaining, activeCount)
  BY DEF FillEnds
<1>a. /\ conns \in SUBSET Targets /\ conns # {} /\ ~completed
      /\ active \in SUBSET conns /\ done \in SUBSET conns
  BY <1>1 DEF FanOutInv, ControllerInv, Bookkeeping, TypeOK
<1>2. activeCount = 0 <=> active = {}
  BY <1>1, <1>a, ZeroMeansEmpty DEF FanOutInv, ControllerInv, CountersAgree
<1>3. remaining = 0 <=> done = conns
  <2>1. remaining = Cardinality(conns \ done)
    BY <1>a DEF FanOutInv, ControllerInv, CountersAgree
  <2>2. conns \ done \in SUBSET Targets
    BY <1>a
  <2>3. remaining = 0 <=> conns \ done = {}
    BY <2>1, <2>2, ZeroMeansEmpty
  <2>4. QED
    BY <1>1, <1>a, <2>3
<1>4. TypeOK'
  BY <1>1 DEF FanOutInv, ControllerInv, TypeOK
<1>5. Bookkeeping'
  BY <1>1 DEF FanOutInv, ControllerInv, Bookkeeping
<1>6. (CountersAgree /\ ConcurrencyBounded /\ RetireTimersExact)'
  BY <1>1 DEF FanOutInv, ControllerInv, CountersAgree, ConcurrencyBounded, RetireTimersExact, Limit
<1>7. NeverStalls'
  <2> SUFFICES ASSUME active = {}, ~completed' PROVE FALSE
    BY <1>1, <1>a DEF NeverStalls
  <2>1. activeCount = 0 /\ done # conns
    BY <1>1, <1>a, <1>2, <1>3 DEF ReadyToComplete
  <2>2. PICK i \in conns : i \notin done
    BY <1>1, <1>a, <2>1
  <2>3. ~cancelling /\ ~(i < nextToStart)
    BY <2>1, <2>2 DEF FanOutInv, ControllerInv, Bookkeeping
  <2>4. nextToStart \in conns
    <3>1. N \in Nat /\ nextToStart \in 1 .. N + 1
      BY ControllerAssumption DEF FanOutInv, ControllerInv, TypeOK
    <3>2. i \in Targets /\ nextToStart <= i /\ i <= i
      BY <1>a, <2>3, <3>1 DEF Targets
    <3>3. nextToStart \in Targets /\ nextToStart <= nextToStart
      BY <3>1, <3>2 DEF Targets
    <3>4. QED
      BY <3>2, <3>3 DEF FanOutInv, Interval
  <2>5. activeCount < Limit
    <3>1. Concurrency \in Nat
      BY ControllerAssumption
    <3>2. Cardinality(conns) \in Nat /\ Cardinality(conns) # 0
      BY <1>1, <1>a, TargetsFinite, ZeroMeansEmpty
    <3>3. QED
      BY <1>1, <1>a, <2>1, <3>1, <3>2 DEF Limit
  <2>6. QED
    BY <1>1, <1>a, <2>3, <2>4, <2>5 DEF MoreToLaunch
<1>8. CompletionIsFinal'
  <2> SUFFICES ASSUME completed'
               PROVE  /\ done = conns /\ active = {} /\ retiring = {}
                      /\ \A i \in conns : result[i] # "pending"
    BY <1>1, <1>a DEF CompletionIsFinal
  <2>1. done = conns /\ active = {}
    BY <1>1, <1>a, <1>2, <1>3 DEF ReadyToComplete
  <2>2. QED
    BY <2>1 DEF FanOutInv, ControllerInv, RetireTimersExact, Bookkeeping
<1>9. QED
  BY <1>1, <1>4, <1>5, <1>6, <1>7, <1>8 DEF ControllerInv

\* A transport that calls back is one of this controller's active ones.
LEMMA OwnLink ==
    ASSUME FanOutInv, NEW i \in Targets,
           link[i] \in {"connecting", "unopened", "open", "exited"}
    PROVE  i \in conns /\ i \in active
<1>1. i \in conns
  BY DEF FanOutInv, OthersQuiet
<1>2. QED
  BY <1>1 DEF FanOutInv, ControllerInv, Bookkeeping

\* Steps that only move the link of an active target.
LEMMA LinkMoveKeeps ==
    ASSUME FanOutInv, NEW i \in Targets, i \in active, NEW l \in Links,
           link' = [link EXCEPT ![i] = l],
           UNCHANGED <<failFast, conns, nextToStart, active, activeCount, done, remaining, result,
                       retiring, phase, cancelling, completed>>
    PROVE  ControllerInv'
<1>1. TypeOK'
  BY DEF FanOutInv, ControllerInv, TypeOK
<1>2. Bookkeeping'
  BY DEF FanOutInv, ControllerInv, Bookkeeping, TypeOK
<1>3. (CountersAgree /\ ConcurrencyBounded /\ RetireTimersExact)'
  BY DEF FanOutInv, ControllerInv, CountersAgree, ConcurrencyBounded, RetireTimersExact, Limit
<1>4. NeverStalls' /\ CompletionIsFinal'
  BY DEF FanOutInv, ControllerInv, NeverStalls, CompletionIsFinal
<1>5. QED
  BY <1>1, <1>2, <1>3, <1>4 DEF ControllerInv

\* A callback of a live transport that finishes its target.
LEMMA FinishKeeps ==
    ASSUME FanOutInv, NEW i \in conns, i \in active, i \notin done,
           NEW r \in {"ok", "nonzero", "error"}, NEW l \in {"exited", "lost"},
           link' = [link EXCEPT ![i] = l], Finish(i, r, active),
           UNCHANGED <<failFast, conns, nextToStart, active, activeCount, phase, completed>>
    PROVE  ControllerInv'
<1>1. conns \in SUBSET Targets /\ active \in SUBSET conns /\ done \in SUBSET conns
      /\ retiring = active \cap done
  BY DEF FanOutInv, ControllerInv, TypeOK, Bookkeeping, RetireTimersExact
<1>a. TypeOK /\ Bookkeeping /\ remaining = Cardinality(conns \ done) /\ Finish(i, r, active)
  BY DEF FanOutInv, ControllerInv, CountersAgree
<1>b. Finished(i, active)
  BY <1>1, <1>a, FinishEffect
<1>2. /\ done' \in SUBSET conns /\ done \subseteq done' /\ i \in done'
      /\ remaining' = Cardinality(conns \ done')
      /\ retiring' = retiring \cup (active \cap (done' \ done))
      /\ result' \in [Targets -> Results]
      /\ \A j \in conns : j \in done' <=> result'[j] # "pending"
      /\ cancelling' \in BOOLEAN
      /\ (cancelling => cancelling') /\ (cancelling' => done' = conns)
      /\ \A j \in done' \ done : j = i \/ cancelling'
  BY <1>b DEF Finished
<1>3. TypeOK'
  <2>1. link' \in [Targets -> Links]
    BY DEF FanOutInv, ControllerInv, TypeOK, Links
  <2>2. Cardinality(conns \ done') \in Nat
    BY <1>1, TargetsFinite
  <2>3. QED
    BY <1>1, <1>2, <2>1, <2>2 DEF FanOutInv, ControllerInv, TypeOK
<1>4. Bookkeeping'
  <2>1. \A j \in conns :
          /\ j >= nextToStart' => j \notin active'
          /\ (j >= nextToStart' /\ j \in done') => cancelling'
          /\ j < nextToStart' => j \in active' \/ j \in done'
    BY <1>2 DEF FanOutInv, ControllerInv, Bookkeeping
  <2>2. \A j \in conns :
          link'[j] \in {"connecting", "unopened", "open", "exited"} => j \in active'
    BY DEF FanOutInv, ControllerInv, Bookkeeping, TypeOK
  <2>3. phase # "created"
    BY DEF FanOutInv, ControllerInv, Bookkeeping
  <2>4. QED
    BY <1>1, <1>2, <2>1, <2>2, <2>3 DEF FanOutInv, ControllerInv, Bookkeeping
<1>5. (CountersAgree /\ ConcurrencyBounded)'
  BY <1>1, <1>2 DEF FanOutInv, ControllerInv, CountersAgree, ConcurrencyBounded, Limit
<1>6. RetireTimersExact'
  BY <1>1, <1>2 DEF RetireTimersExact
<1>7. NeverStalls' /\ CompletionIsFinal'
  BY DEF FanOutInv, ControllerInv, NeverStalls, CompletionIsFinal
<1>8. QED
  BY <1>3, <1>4, <1>5, <1>6, <1>7 DEF ControllerInv

\* onReady.
LEMMA ReadyKeeps ==
    ASSUME FanOutInv, NEW i \in Targets, Ready(i)
    PROVE  ControllerInv'
<1>1. i \in active /\ i \in conns
  BY OwnLink DEF Ready
<1>2. PICK l \in Links : link' = [link EXCEPT ![i] = l]
  BY DEF Ready, Links
<1>3. QED
  BY <1>1, <1>2, LinkMoveKeeps DEF Ready

\* onExit.
LEMMA ExitKeeps ==
    ASSUME FanOutInv, NEW i \in Targets, NEW r \in {"ok", "nonzero"}, Exit(i, r)
    PROVE  ControllerInv'
<1>1. i \in active /\ i \in conns
  BY OwnLink DEF Exit
<1>2. "exited" \in Links
  BY DEF Links
<1>3. CASE i \in done
  BY <1>1, <1>2, <1>3, LinkMoveKeeps DEF Exit
<1>4. CASE i \notin done
  BY <1>1, <1>4, FinishKeeps DEF Exit
<1>5. QED
  BY <1>3, <1>4

\* onError.
LEMMA LoseKeeps ==
    ASSUME FanOutInv, NEW i \in Targets, Lose(i)
    PROVE  ControllerInv'
<1>1. i \in active /\ i \in conns
  BY OwnLink DEF Lose
<1>2. "lost" \in Links
  BY DEF Links
<1>3. CASE i \in done
  BY <1>1, <1>2, <1>3, LinkMoveKeeps DEF Lose
<1>4. CASE i \notin done
  BY <1>1, <1>4, FinishKeeps DEF Lose
<1>5. QED
  BY <1>3, <1>4

\* retire(): the transport goes, its slot is free.
LEMMA RetireKeeps ==
    ASSUME FanOutInv, NEW i \in Targets, Retire(i)
    PROVE  ControllerInv'
<1>1. /\ UNCHANGED <<failFast, conns, nextToStart, done, remaining, result, cancelling>>
      /\ phase = "waiting" /\ i \in retiring
      /\ retiring' = retiring \ {i} /\ active' = active \ {i}
      /\ activeCount' = Less(activeCount, 1)
      /\ link' = [link EXCEPT ![i] = "retired"]
  BY DEF Retire
<1>2. conns \in SUBSET Targets /\ active \in SUBSET conns /\ retiring = active \cap done
      /\ i \in active /\ i \in done /\ activeCount = Cardinality(active)
  BY <1>1 DEF FanOutInv, ControllerInv, TypeOK, Bookkeeping, RetireTimersExact, CountersAgree
<1>3. ~completed
  BY <1>2 DEF FanOutInv, ControllerInv, CompletionIsFinal
<1>4. activeCount' = Cardinality(active') /\ activeCount' \in Nat /\ activeCount' <= activeCount
  <2>1. Cardinality(active) \in Nat /\ Cardinality(active \ {i}) \in Nat
    BY <1>2, TargetsFinite
  <2>2. Cardinality(active \ {i}) = Cardinality(active) - 1
    BY <1>2, TargetsFinite, FS_RemoveElement
  <2>3. QED
    BY <1>1, <1>2, <2>1, <2>2 DEF Less
<1>5. Bookkeeping' /\ TypeOK'
  <2>1. \/ phase' = "filling" /\ completed' = completed
        \/ phase' = "waiting" /\ completed' \in BOOLEAN
    BY <1>1 DEF Retire
  <2>2. link' \in [Targets -> Links]
    BY <1>1 DEF FanOutInv, ControllerInv, TypeOK, Links
  <2>3. TypeOK'
    <3>1. completed \in BOOLEAN
      BY DEF FanOutInv, ControllerInv, TypeOK
    <3>2. completed' \in BOOLEAN /\ phase' \in {"created", "filling", "waiting"}
      BY <2>1, <3>1
    <3>3. QED
      BY <1>1, <1>2, <1>4, <2>2, <3>2 DEF FanOutInv, ControllerInv, TypeOK
  <2>4. \A j \in conns :
          /\ j >= nextToStart' => j \notin active'
          /\ (j >= nextToStart' /\ j \in done') => cancelling'
          /\ j < nextToStart' => j \in active' \/ j \in done'
    BY <1>1, <1>2 DEF FanOutInv, ControllerInv, Bookkeeping
  <2>5. \A j \in conns :
          link'[j] \in {"connecting", "unopened", "open", "exited"} => j \in active'
    BY <1>1, <1>2 DEF FanOutInv, ControllerInv, Bookkeeping, TypeOK
  <2>6. Bookkeeping'
    BY <1>1, <1>2, <1>3, <2>1, <2>4, <2>5 DEF FanOutInv, ControllerInv, Bookkeeping
  <2>7. QED
    BY <2>3, <2>6
<1>6. CountersAgree'
  BY <1>1, <1>4 DEF FanOutInv, ControllerInv, CountersAgree
<1>7. ConcurrencyBounded'
  <2>1. Limit' = Limit /\ Limit \in Nat /\ activeCount \in Nat
    BY <1>1, <1>2, TargetsFinite, ControllerAssumption DEF Limit, FanOutInv, ControllerInv, TypeOK
  <2>2. activeCount <= Limit
    BY DEF FanOutInv, ControllerInv, ConcurrencyBounded
  <2>3. QED
    BY <1>4, <2>1, <2>2 DEF ConcurrencyBounded
<1>8. RetireTimersExact'
  BY <1>1, <1>2 DEF RetireTimersExact
<1>9. NeverStalls' /\ CompletionIsFinal'
  <2>1. CASE ~cancelling
    <3>1. phase' = "filling" /\ ~completed'
      BY <1>3, <2>1 DEF Retire
    <3>2. QED
      BY <3>1 DEF NeverStalls, CompletionIsFinal
  <2>2. CASE cancelling
    <3>1. done' = conns /\ conns' = conns
      BY <1>1, <1>2, <2>2 DEF FanOutInv, ControllerInv, Bookkeeping
    <3>2. remaining' = 0
      <4>1. remaining' = Cardinality(conns \ conns)
        BY <1>6, <3>1 DEF CountersAgree
      <4>2. conns \ conns = {}
        OBVIOUS
      <4>3. QED
        BY <4>1, <4>2, FS_EmptySet
    <3>3. completed' <=> ReadyToComplete(remaining', activeCount')
      BY <1>1, <1>3, <2>2 DEF Retire
    <3>4. active' \in SUBSET Targets
      BY <1>1, <1>2
    <3>5. activeCount' = 0 <=> active' = {}
      BY <1>4, <3>4, ZeroMeansEmpty
    <3>6. completed' <=> active' = {}
      BY <3>2, <3>3, <3>5 DEF ReadyToComplete
    <3>7. \A j \in conns : result'[j] # "pending"
      BY <1>5, <3>1 DEF Bookkeeping
    <3>8. active' = {} => retiring' = {}
      BY <1>8 DEF RetireTimersExact
    <3>9. QED
      BY <3>1, <3>6, <3>7, <3>8 DEF NeverStalls, CompletionIsFinal
  <2>3. QED
    BY <2>1, <2>2
<1>10. QED
  BY <1>1, <1>2, <1>5, <1>6, <1>7, <1>8, <1>9 DEF ControllerInv

\* cancel() from the deadline or from Ctrl-C.
LEMMA CancelKeeps ==
    ASSUME FanOutInv, NEW kind \in {"timeout", "interrupt"}, Cancel(kind)
    PROVE  ControllerInv'
<1>1. /\ UNCHANGED <<failFast, conns, nextToStart, active, activeCount, link, phase>>
      /\ phase = "waiting" /\ ~completed
      /\ result' = CancelledResults(result, kind) /\ FailRest(active)
      /\ completed' = ReadyToComplete(remaining', activeCount)
  BY DEF Cancel
<1>2. TypeOK /\ conns \in SUBSET Targets /\ remaining = Cardinality(conns \ done)
      /\ active \in SUBSET conns /\ done \in SUBSET conns /\ retiring = active \cap done
      /\ result \in [Targets -> Results]
      /\ \A j \in conns : j \in done => result[j] # "pending"
  BY DEF FanOutInv, ControllerInv, TypeOK, Bookkeeping, CountersAgree, RetireTimersExact
<1>3. kind \in CancelKinds
  BY DEF CancelKinds
<1>4. /\ cancelling' = TRUE /\ done' = conns /\ remaining' = 0
      /\ retiring' = retiring \cup (active \ done)
      /\ result' \in [Targets -> Results]
      /\ \A j \in conns : result'[j] # "pending"
  BY <1>1, <1>2, <1>3, FailRestEffect
<1>5. active # {} /\ activeCount # 0
  <2>1. active # {}
    BY <1>1 DEF FanOutInv, ControllerInv, NeverStalls
  <2>2. QED
    BY <1>2, <2>1, ZeroMeansEmpty DEF FanOutInv, ControllerInv, CountersAgree
<1>6. completed' = FALSE
  BY <1>1, <1>5 DEF ReadyToComplete
<1>7. TypeOK'
  BY <1>1, <1>2, <1>4, <1>6 DEF TypeOK
<1>8. Bookkeeping'
  BY <1>1, <1>2, <1>4, <1>6 DEF FanOutInv, ControllerInv, Bookkeeping
<1>9. CountersAgree'
  <2>1. conns \ conns = {}
    OBVIOUS
  <2>2. QED
    BY <1>1, <1>2, <1>4, <2>1, FS_EmptySet DEF FanOutInv, ControllerInv, CountersAgree
<1>10. ConcurrencyBounded'
  BY <1>1 DEF FanOutInv, ControllerInv, ConcurrencyBounded, Limit
<1>11. RetireTimersExact' /\ NeverStalls' /\ CompletionIsFinal'
  BY <1>1, <1>2, <1>4, <1>5, <1>6 DEF RetireTimersExact, NeverStalls, CompletionIsFinal
<1>12. QED
  BY <1>1, <1>2, <1>7, <1>8, <1>9, <1>10, <1>11 DEF ControllerInv

-----------------------------------------------------------------------------
\* No step gives the controller other targets or goes back in their order, and
\* none touches the link of a target that is not its own.
LEMMA ShapeStep ==
    ASSUME FanOutInv, Next
    PROVE  Interval' /\ OthersQuiet'
<1>1. /\ N \in Nat /\ nextToStart \in Nat /\ conns \in SUBSET Targets
      /\ link \in [Targets -> Links] /\ retiring \in SUBSET conns
  BY ControllerAssumption DEF FanOutInv, ControllerInv, TypeOK
<1>2. /\ conns' = conns
      /\ nextToStart' = nextToStart \/ nextToStart' = nextToStart + 1
  BY DEF Next, Start, LaunchStarts, LaunchFails, FillEnds, Ready, Exit, Lose, Retire, Cancel
<1>3. Interval'
  <2>1. \A j \in Targets : nextToStart' <= j => nextToStart <= j
    BY <1>1, <1>2 DEF Targets
  <2>2. QED
    BY <1>2, <2>1 DEF Interval, FanOutInv
<1>4. ASSUME NEW j \in Targets \ conns PROVE link'[j] = link[j]
  <2>1. link[j] \notin {"connecting", "unopened", "open", "exited"} /\ j \notin retiring
    BY <1>1, <1>4 DEF FanOutInv, OthersQuiet
  <2>2. CASE LaunchStarts \/ LaunchFails
    BY <1>1, <1>4, <2>2 DEF LaunchStarts, LaunchFails, MoreToLaunch
  <2>3. ASSUME NEW i \in Targets,
               Ready(i) \/ Exit(i, "ok") \/ Exit(i, "nonzero") \/ Lose(i) \/ Retire(i)
        PROVE  link'[j] = link[j]
    BY <1>1, <2>1, <2>3 DEF Ready, Exit, Lose, Retire
  <2>4. CASE Start \/ FillEnds \/ \E kind \in {"timeout", "interrupt"} : Cancel(kind)
    BY <2>4 DEF Start, FillEnds, Cancel
  <2>5. QED
    BY <2>2, <2>3, <2>4 DEF Next
<1>5. QED
  BY <1>2, <1>3, <1>4 DEF FanOutInv, OthersQuiet

\* Every step of the controller keeps the invariant.
LEMMA ControllerStep == FanOutInv /\ [Next]_vars => FanOutInv'
<1> SUFFICES ASSUME FanOutInv, [Next]_vars PROVE FanOutInv'
  OBVIOUS
<1>1. CASE Start
  BY <1>1, StartKeeps, ShapeStep DEF Next, FanOutInv
<1>2. CASE LaunchStarts
  BY <1>2, LaunchStartsKeeps, ShapeStep DEF Next, FanOutInv
<1>3. CASE LaunchFails
  BY <1>3, LaunchFailsKeeps, ShapeStep DEF Next, FanOutInv
<1>4. CASE FillEnds
  BY <1>4, FillEndsKeeps, ShapeStep DEF Next, FanOutInv
<1>5. ASSUME NEW i \in Targets, Ready(i) PROVE FanOutInv'
  BY <1>5, ReadyKeeps, ShapeStep DEF Next, FanOutInv
<1>6. ASSUME NEW i \in Targets, Exit(i, "ok") \/ Exit(i, "nonzero") PROVE FanOutInv'
  BY <1>6, ExitKeeps, ShapeStep DEF Next, FanOutInv
<1>7. ASSUME NEW i \in Targets, Lose(i) PROVE FanOutInv'
  BY <1>7, LoseKeeps, ShapeStep DEF Next, FanOutInv
<1>8. ASSUME NEW i \in Targets, Retire(i) PROVE FanOutInv'
  BY <1>8, RetireKeeps, ShapeStep DEF Next, FanOutInv
<1>9. ASSUME NEW kind \in {"timeout", "interrupt"}, Cancel(kind) PROVE FanOutInv'
  BY <1>9, CancelKeeps, ShapeStep DEF Next, FanOutInv
<1>10. CASE UNCHANGED vars
  BY <1>10 DEF vars, FanOutInv, Interval, OthersQuiet, ControllerInv, TypeOK, Bookkeeping,
               CountersAgree, ConcurrencyBounded, Limit, RetireTimersExact, NeverStalls,
               CompletionIsFinal
<1>11. QED
  BY <1>1, <1>2, <1>3, <1>4, <1>5, <1>6, <1>7, <1>8, <1>9, <1>10 DEF Next

\* A controller started on all targets keeps the invariant.
LEMMA FanOutInvariant == Spec => []FanOutInv
<1>1. Init => FanOutInv
  BY ControllerInit
<1>2. FanOutInv /\ [Next]_vars => FanOutInv'
  BY ControllerStep
<1>3. QED
  BY <1>1, <1>2, PTL DEF Spec

\* The fan-out keeps its books: for any number of targets and any concurrency
\* limit, with or without fail-fast, through cancellation and nested finishes.
THEOREM ControllerCorrect == Spec => []ControllerInv
<1>1. FanOutInv => ControllerInv
  BY DEF FanOutInv
<1>2. QED
  BY <1>1, FanOutInvariant, PTL

\* A controller that waits in the reactor without having completed always has
\* a connection to wait for.
THEOREM ControllerNeverStalls == Spec => []NeverStalls
<1>1. ControllerInv => NeverStalls
  BY DEF ControllerInv
<1>2. QED
  BY <1>1, ControllerCorrect, PTL

\* onComplete() may destroy the controller: no transport, no timer, no target
\* without a result is left when it is called.
THEOREM ControllerCompletionIsFinal == Spec => []CompletionIsFinal
<1>1. ControllerInv => CompletionIsFinal
  BY DEF ControllerInv
<1>2. QED
  BY <1>1, ControllerCorrect, PTL

\* A target that has its result keeps it.
LEMMA ResultStep == FanOutInv /\ [Next]_vars => KeepsResults
<1> SUFFICES ASSUME FanOutInv, [Next]_vars, NEW j \in Targets, result[j] # "pending"
             PROVE  result'[j] = result[j]
  BY DEF KeepsResults
<1>1. /\ TypeOK /\ Bookkeeping /\ conns \in SUBSET Targets /\ remaining = Cardinality(conns \ done)
      /\ active \in SUBSET conns /\ result \in [Targets -> Results]
  BY DEF FanOutInv, ControllerInv, TypeOK, Bookkeeping, CountersAgree
<1>2. ASSUME NEW i \in conns, i \notin done, NEW r \in {"ok", "nonzero", "error"},
             NEW act \in SUBSET conns, i \in act, Finish(i, r, act)
      PROVE  result'[j] = result[j]
  <2>1. Finished(i, act)
    BY <1>1, <1>2, FinishEffect
  <2>2. QED
    BY <2>1 DEF Finished
<1>3. CASE LaunchFails
  <2> DEFINE act == active \cup {nextToStart}
  <2>1. nextToStart \in conns /\ nextToStart \notin done
    BY <1>3, SlotTaken DEF LaunchFails
  <2>2. nextToStart \in act /\ act \in SUBSET conns /\ Finish(nextToStart, "error", act)
    BY <1>1, <1>3, <2>1 DEF LaunchFails
  <2> HIDE DEF act
  <2>3. QED
    BY <1>2, <2>1, <2>2
<1>4. ASSUME NEW i \in Targets, NEW r \in {"ok", "nonzero"}, Exit(i, r)
      PROVE  result'[j] = result[j]
  <2>1. i \in active /\ i \in conns
    BY <1>4, OwnLink DEF Exit
  <2>2. QED
    BY <1>1, <1>2, <1>4, <2>1 DEF Exit
<1>5. ASSUME NEW i \in Targets, Lose(i) PROVE result'[j] = result[j]
  <2>1. i \in active /\ i \in conns
    BY <1>5, OwnLink DEF Lose
  <2>2. QED
    BY <1>1, <1>2, <1>5, <2>1 DEF Lose
<1>6. ASSUME NEW kind \in {"timeout", "interrupt"}, Cancel(kind) PROVE result'[j] = result[j]
  BY <1>6 DEF Cancel, CancelledResults
<1>7. CASE Start \/ LaunchStarts \/ FillEnds \/ UNCHANGED vars
  BY <1>7 DEF Start, LaunchStarts, FillEnds, vars
<1>8. ASSUME NEW i \in Targets, Ready(i) \/ Retire(i) PROVE result'[j] = result[j]
  BY <1>8 DEF Ready, Retire
<1>9. QED
  BY <1>3, <1>4, <1>5, <1>6, <1>7, <1>8 DEF Next

\* A recorded result is final: neither a late frame of a finished target, nor
\* cancellation, nor another target's fail-fast overwrites it.
THEOREM ControllerResultsAreFinal == Spec => ResultsAreFinal
<1>1. FanOutInv /\ [Next]_vars => [KeepsResults]_vars
  BY ResultStep
<1>2. QED
  BY <1>1, FanOutInvariant, PTL DEF Spec, ResultsAreFinal

-----------------------------------------------------------------------------
\* The run, from its first controller to its exit code.

\* What runNative()'s own variables can be.
RunTypeOK ==
    /\ hasDeadline \in BOOLEAN
    /\ canary \in 0 .. N
    /\ stage \in {"all", "canary", "rest"}
    /\ stopCause \in {"none", "timeout", "interrupt"}
    /\ finalized \in BOOLEAN
    /\ exitCode \in {0, 1, 130}

\* Which targets the current controller has, and what is known of the others:
\* those behind the canaries are untouched, the canaries before the rest are ok.
Stages ==
    /\ stage = "all" => conns = Targets
    /\ stage # "all" /\ N > 0 => canary >= 1
    /\ stage = "canary" =>
          /\ conns = 1 .. canary
          /\ \A i \in Targets : i > canary =>
                link[i] = "idle" /\ (~finalized => result[i] = "pending")
    /\ stage = "rest" =>
          /\ conns = canary + 1 .. N
          /\ \A j \in 1 .. canary : result[j] = "ok"

\* A transport that exists was launched, and a target that is ok has had its
\* transport destroyed once it is not active any more.
LinksTell ==
    /\ \A i \in active : link[i] # "idle"
    /\ \A i \in Targets : (result[i] = "ok" /\ i \notin active) => link[i] = "retired"

\* A stop cancels the current controller, and only Ctrl-C interrupts a target.
StopsTell ==
    /\ stopCause # "none" => cancelling
    /\ \A i \in Targets : result[i] = "interrupt" => stopCause = "interrupt"

\* The inductive invariant of a run.
RunInv ==
    /\ FanOutInv
    /\ RunTypeOK /\ Stages /\ LinksTell /\ StopsTell
    /\ finalized => completed
    /\ VerdictSound

-----------------------------------------------------------------------------
\* Quotient and remainder by a hundred.
LEMMA DivMod100 ==
    ASSUME NEW n \in Nat
    PROVE  n \div 100 \in Nat /\ n % 100 \in 0 .. 99 /\ n = 100 * (n \div 100) + (n % 100)
OBVIOUS

\* --canary, parsed as it may be, puts at least one target in front, and never
\* more than there are.
LEMMA CanaryCountBounds ==
    ASSUME NEW spec \in CanarySpecs \ {NoCanary}
    PROVE  CanaryCount(spec) \in 0 .. N /\ (N > 0 => CanaryCount(spec) >= 1)
<1> DEFINE value == IF spec.value = 0 THEN 1 ELSE spec.value
           rest == (N % 100) * value
           up == IF rest % 100 = 0 THEN 0 ELSE 1
<1>1. N \in Nat /\ spec.percent \in BOOLEAN /\ value \in Nat /\ value >= 1
  BY ControllerAssumption, RunAssumption
<1>2. CASE value >= (IF spec.percent THEN 100 ELSE N)
  BY <1>1, <1>2 DEF CanaryCount
<1>3. CASE ~(value >= (IF spec.percent THEN 100 ELSE N)) /\ ~spec.percent
  BY <1>1, <1>3 DEF CanaryCount
<1>4. CASE ~(value >= (IF spec.percent THEN 100 ELSE N)) /\ spec.percent
  <2>1. CanaryCount(spec) = (N \div 100) * value + (rest \div 100) + up
    BY <1>1, <1>4 DEF CanaryCount
  <2>2. value \in 1 .. 99
    BY <1>1, <1>4
  <2> HIDE DEF value
  <2>3. N \div 100 \in Nat /\ N % 100 \in 0 .. 99 /\ N = 100 * (N \div 100) + (N % 100)
    BY <1>1, DivMod100
  <2>4. rest \in Nat
    BY <2>2, <2>3
  <2>5. rest \div 100 \in Nat /\ rest % 100 \in 0 .. 99 /\ rest = 100 * (rest \div 100) + (rest % 100)
    <3> HIDE DEF rest
    <3> QED
      BY <2>4, DivMod100
  <2>6. up \in {0, 1} /\ (up = 0 <=> rest % 100 = 0)
    OBVIOUS
  <2>7. (N % 100) * value = 100 * (rest \div 100) + (rest % 100)
    BY <2>5
  <2>8. QED
    <3> DEFINE q == N \div 100
               m == N % 100
               d == rest \div 100
               e == rest % 100
    <3>1. /\ q \in Nat /\ m \in 0 .. 99 /\ d \in Nat /\ e \in 0 .. 99
          /\ m * value = 100 * d + e /\ up \in {0, 1} /\ (up = 0 <=> e = 0)
          /\ N = 100 * q + m /\ CanaryCount(spec) = q * value + d + up
      BY <2>1, <2>3, <2>5, <2>6, <2>7
    <3> HIDE DEF rest, up, q, m, d, e
    <3>2. q * value \in Nat /\ q * value <= 100 * q /\ q * value >= q
      BY <2>2, <3>1
    <3>3. m * value \in Nat /\ m * value >= m /\ m * value <= 99 * m
      BY <2>2, <3>1
    <3>4. d + up <= m
      <4>1. CASE m = 0
        BY <3>1, <3>3, <4>1
      <4>2. CASE m >= 1
        BY <3>1, <3>3, <4>2
      <4>3. QED
        BY <3>1, <4>1, <4>2
    <3>5. m >= 1 => d + up >= 1
      BY <3>1, <3>3
    <3>6. QED
      BY <1>1, <3>1, <3>2, <3>4, <3>5
<1>5. QED
  BY <1>2, <1>3, <1>4

\* A run starts with nothing launched, on all the targets or on the canaries.
LEMMA RunInitInv == RunInit => RunInv
<1> SUFFICES ASSUME RunInit PROVE RunInv
  OBVIOUS
<1> USE DEF RunInit
<1>1. N \in Nat
  BY ControllerAssumption
<1>2. stage \in {"all", "canary"} /\ canary \in 0 .. N /\ (stage # "all" /\ N > 0 => canary >= 1)
  <2>1. PICK spec \in CanarySpecs :
          /\ stage = IF spec = NoCanary THEN "all" ELSE "canary"
          /\ canary = IF spec = NoCanary THEN 0 ELSE CanaryCount(spec)
    OBVIOUS
  <2>2. CASE spec = NoCanary
    BY <1>1, <2>1, <2>2
  <2>3. CASE spec # NoCanary
    BY <1>1, <2>1, <2>3, CanaryCountBounds
  <2>4. QED
    BY <2>2, <2>3
<1>3. conns \in SUBSET Targets /\ (stage = "all" => conns = Targets)
      /\ (stage = "canary" => conns = 1 .. canary)
  BY <1>1, <1>2 DEF Targets
<1>4. /\ result \in [Targets -> Results] /\ link \in [Targets -> Links]
      /\ \A i \in Targets : result[i] = "pending" /\ link[i] = "idle"
  BY DEF Results, Links
<1>5. TypeOK
  <2>1. Cardinality(conns) \in Nat /\ nextToStart \in 1 .. N + 1
    BY <1>1, <1>3, TargetsFinite
  <2>2. QED
    BY <1>3, <1>4, <2>1 DEF TypeOK
<1>6. Bookkeeping
  <2>1. \A i \in conns : ~(i < nextToStart)
    BY <1>1, <1>3 DEF Targets
  <2>2. QED
    BY <1>3, <1>4, <2>1 DEF Bookkeeping
<1>7. CountersAgree
  <2>1. conns \ done = conns
    OBVIOUS
  <2>2. QED
    BY <2>1, FS_EmptySet DEF CountersAgree
<1>8. ConcurrencyBounded
  <2>1. Limit \in Nat
    BY <1>3, TargetsFinite, ControllerAssumption DEF Limit
  <2>2. QED
    BY <2>1 DEF ConcurrencyBounded
<1>9. RetireTimersExact /\ NeverStalls /\ CompletionIsFinal
  BY DEF RetireTimersExact, NeverStalls, CompletionIsFinal
<1>10. Interval
  <2>1. CASE stage = "all"
    BY <1>3, <2>1 DEF Interval
  <2>2. CASE stage = "canary"
    BY <1>1, <1>2, <1>3, <2>2 DEF Interval, Targets
  <2>3. QED
    BY <1>2, <2>1, <2>2
<1>11. OthersQuiet
  BY <1>4 DEF OthersQuiet
<1>12. RunTypeOK
  BY <1>2 DEF RunTypeOK
<1>13. Stages /\ LinksTell /\ StopsTell /\ VerdictSound
  BY <1>2, <1>3, <1>4 DEF Stages, LinksTell, StopsTell, VerdictSound
<1>14. QED
  BY <1>5, <1>6, <1>7, <1>8, <1>9, <1>10, <1>11, <1>12, <1>13 DEF RunInv, FanOutInv, ControllerInv

-----------------------------------------------------------------------------
\* What a handler of the controller may do to links and results: transports
\* come into being at launch and go with retire(), the links of other targets
\* stay, and a target gets one of the given results.
HandlerEffect(given) ==
    /\ conns' = conns
    /\ cancelling => cancelling'
    /\ \A j \in active' : j \in active \/ (~cancelling /\ link'[j] # "idle")
    /\ \A j \in active : link'[j] = link[j] \/ link'[j] # "idle"
    /\ \A j \in active \ active' : link'[j] = "retired"
    /\ \A j \in Targets : (j \notin active /\ j \notin active') => link'[j] = link[j]
    /\ \A j \in Targets :
          \/ result'[j] = result[j]
          \/ j \in conns /\ result'[j] \in given /\ (result'[j] = "ok" => j \in active')

\* The results a handler other than cancel() gives.
Outcomes == {"ok", "nonzero", "error", "failfast"}

\* The results after finish(): that of its target, and fail-fast for others.
LEMMA FinishResults ==
    ASSUME result \in [Targets -> Results], NEW i \in Targets,
           NEW r \in {"ok", "nonzero", "error"}, NEW act, Finish(i, r, act)
    PROVE  /\ result'[i] = r
           /\ \A j \in Targets \ {i} :
                 result'[j] = result[j] \/ (j \in conns /\ result'[j] = "failfast")
           /\ cancelling => cancelling'
<1>1. CASE failFast /\ ~cancelling /\ r # "ok"
  BY <1>1 DEF Finish, FailRest, CancelledResults
<1>2. CASE ~(failFast /\ ~cancelling /\ r # "ok")
  BY <1>2 DEF Finish
<1>3. QED
  BY <1>1, <1>2

\* The handlers of a running controller.
LEMMA HandlersDo ==
    ASSUME FanOutInv, NEW i \in Targets,
           \/ Start \/ LaunchStarts \/ LaunchFails \/ FillEnds
           \/ Ready(i) \/ Exit(i, "ok") \/ Exit(i, "nonzero") \/ Lose(i) \/ Retire(i)
    PROVE  HandlerEffect(Outcomes)
<1>1. /\ result \in [Targets -> Results] /\ link \in [Targets -> Links]
      /\ conns \in SUBSET Targets /\ active \in SUBSET conns /\ retiring = active \cap done
  BY DEF FanOutInv, ControllerInv, TypeOK, RetireTimersExact
<1>2. CASE Start \/ FillEnds
  BY <1>2 DEF Start, FillEnds, HandlerEffect
<1>3. CASE LaunchStarts
  BY <1>1, <1>3 DEF LaunchStarts, MoreToLaunch, HandlerEffect
<1>4. CASE LaunchFails
  <2>1. /\ conns' = conns /\ nextToStart \in conns /\ ~cancelling
        /\ active' = active \cup {nextToStart}
        /\ link' = [link EXCEPT ![nextToStart] = "lost"]
        /\ Finish(nextToStart, "error", active \cup {nextToStart})
    BY <1>4 DEF LaunchFails, MoreToLaunch
  <2>2. /\ result'[nextToStart] = "error"
        /\ \A j \in Targets \ {nextToStart} :
              result'[j] = result[j] \/ (j \in conns /\ result'[j] = "failfast")
    BY <1>1, <2>1, FinishResults
  <2>3. QED
    BY <1>1, <2>1, <2>2 DEF HandlerEffect, Outcomes
<1>5. CASE Ready(i)
  <2>1. i \in active
    BY <1>5, OwnLink DEF Ready
  <2>2. QED
    BY <1>1, <1>5, <2>1 DEF Ready, HandlerEffect
<1>6. ASSUME NEW r \in {"ok", "nonzero", "error"}, NEW l \in {"exited", "lost"},
             i \in active, link' = [link EXCEPT ![i] = l],
             UNCHANGED <<conns, active>>,
             \/ UNCHANGED <<result, cancelling>>
             \/ Finish(i, r, active)
      PROVE  HandlerEffect(Outcomes)
  <2>1. CASE UNCHANGED <<result, cancelling>>
    BY <1>1, <1>6, <2>1 DEF HandlerEffect
  <2>2. CASE Finish(i, r, active)
    <3>1. /\ result'[i] = r
          /\ \A j \in Targets \ {i} :
                result'[j] = result[j] \/ (j \in conns /\ result'[j] = "failfast")
          /\ cancelling => cancelling'
      BY <1>1, <2>2, FinishResults
    <3>2. QED
      BY <1>1, <1>6, <3>1 DEF HandlerEffect, Outcomes
  <2>3. QED
    BY <1>6, <2>1, <2>2
<1>7. ASSUME NEW r \in {"ok", "nonzero"}, Exit(i, r) PROVE HandlerEffect(Outcomes)
  <2>1. i \in active
    BY <1>7, OwnLink DEF Exit
  <2>2. QED
    BY <1>6, <1>7, <2>1 DEF Exit
<1>8. CASE Lose(i)
  <2>1. i \in active
    BY <1>8, OwnLink DEF Lose
  <2>2. QED
    BY <1>6, <1>8, <2>1 DEF Lose
<1>9. CASE Retire(i)
  BY <1>1, <1>9 DEF Retire, HandlerEffect
<1>10. QED
  BY <1>2, <1>3, <1>4, <1>5, <1>7, <1>8, <1>9

\* cancel().
LEMMA CancelDoes ==
    ASSUME FanOutInv, NEW kind \in {"timeout", "interrupt"}, Cancel(kind)
    PROVE  HandlerEffect({kind}) /\ cancelling'
BY DEF Cancel, FailRest, CancelledResults, HandlerEffect, FanOutInv, ControllerInv, TypeOK

-----------------------------------------------------------------------------
\* A handler keeps what is known of links and stages, as long as the run is not
\* finalized: the other controller's targets are not touched.
LEMMA HandlerKeeps ==
    ASSUME RunInv, ~completed, FanOutInv', NEW given, HandlerEffect(given),
           UNCHANGED <<hasDeadline, canary, stage, finalized, exitCode>>
    PROVE  Stages' /\ LinksTell' /\ ~finalized'
<1>1. /\ FanOutInv /\ RunTypeOK /\ Stages /\ LinksTell /\ ~finalized
      /\ active \in SUBSET conns /\ conns \in SUBSET Targets
  BY DEF RunInv, FanOutInv, ControllerInv, TypeOK
<1>2. active' \in SUBSET conns /\ conns' = conns
  BY DEF FanOutInv, ControllerInv, TypeOK, HandlerEffect
<1>3. \A i \in Targets \ conns : link'[i] = link[i] /\ result'[i] = result[i]
  BY <1>1, <1>2 DEF HandlerEffect
<1>4. Stages'
  <2>1. N \in Nat /\ canary \in 0 .. N /\ stage \in {"all", "canary", "rest"}
    BY <1>1, ControllerAssumption DEF RunTypeOK
  <2>2. CASE stage = "all"
    BY <1>1, <1>2, <2>2 DEF Stages
  <2>3. CASE stage = "canary"
    <3>1. conns = 1 .. canary
      BY <1>1, <2>3 DEF Stages
    <3>2. \A i \in Targets : i > canary => i \in Targets \ conns
      BY <2>1, <3>1 DEF Targets
    <3>3. QED
      BY <1>1, <1>2, <1>3, <2>3, <3>2 DEF Stages
  <2>4. CASE stage = "rest"
    <3>1. conns = canary + 1 .. N
      BY <1>1, <2>4 DEF Stages
    <3>2. \A j \in 1 .. canary : j \in Targets \ conns
      BY <2>1, <3>1 DEF Targets
    <3>3. QED
      BY <1>1, <1>2, <1>3, <2>4, <3>2 DEF Stages
  <2>5. QED
    BY <2>1, <2>2, <2>3, <2>4
<1>5. LinksTell'
  <2>1. \A i \in active' : link'[i] # "idle"
    BY <1>1 DEF LinksTell, HandlerEffect
  <2>2. ASSUME NEW i \in Targets, result'[i] = "ok", i \notin active' PROVE link'[i] = "retired"
    <3>1. result[i] = "ok"
      BY <2>2 DEF HandlerEffect
    <3>2. CASE i \in active
      BY <2>2, <3>2 DEF HandlerEffect
    <3>3. CASE i \notin active
      BY <1>1, <2>2, <3>1, <3>3 DEF HandlerEffect, LinksTell
    <3>4. QED
      BY <3>2, <3>3
  <2>3. QED
    BY <2>1, <2>2 DEF LinksTell
<1>6. QED
  BY <1>1, <1>4, <1>5

\* A handler of the controller is a step of it.
LEMMA RunsStep ==
    ASSUME RunInv, ControllerRuns
    PROVE  FanOutInv' /\ HandlerEffect(Outcomes)
<1>1. FanOutInv
  BY DEF RunInv
<1>2. Next
  BY DEF ControllerRuns, Next
<1>3. HandlerEffect(Outcomes)
  <2>1. CASE Start
    <3>1. CASE Targets = {}
      <4>1. /\ conns' = conns /\ link' = link /\ result' = result /\ active' = active
            /\ cancelling' = cancelling
        BY <2>1 DEF Start
      <4>2. QED
        BY <4>1 DEF HandlerEffect
    <3>2. CASE Targets # {}
      BY <1>1, <2>1, <3>2, HandlersDo
    <3>3. QED
      BY <3>1, <3>2
  <2>2. CASE LaunchStarts \/ LaunchFails
    <3>1. nextToStart \in Targets
      BY <1>1, <2>2, SlotTaken DEF LaunchStarts, LaunchFails
    <3>2. QED
      BY <1>1, <2>2, <3>1, HandlersDo
  <2>3. CASE FillEnds
    <3>1. /\ conns' = conns /\ link' = link /\ result' = result /\ active' = active
          /\ cancelling' = cancelling
      BY <2>3 DEF FillEnds
    <3>2. QED
      BY <3>1 DEF HandlerEffect
  <2>4. CASE \E i \in Targets :
               Ready(i) \/ Exit(i, "ok") \/ Exit(i, "nonzero") \/ Lose(i) \/ Retire(i)
    BY <1>1, <2>4, HandlersDo
  <2>5. QED
    BY <2>1, <2>2, <2>3, <2>4 DEF ControllerRuns
<1>4. QED
  BY <1>1, <1>2, <1>3, ControllerStep

\* The reactor goes on.
LEMMA ControllerRunsKeeps ==
    ASSUME RunInv, ControllerRuns
    PROVE  RunInv'
<1>1. FanOutInv' /\ HandlerEffect(Outcomes)
  BY RunsStep
<1>2. UNCHANGED <<hasDeadline, canary, stage, stopCause, finalized, exitCode>> /\ ~completed
  BY DEF ControllerRuns, runVars
<1>3. Stages' /\ LinksTell' /\ ~finalized'
  BY <1>1, <1>2, HandlerKeeps
<1>4. StopsTell'
  BY <1>1, <1>2 DEF RunInv, StopsTell, HandlerEffect, Outcomes
<1>5. RunTypeOK'
  BY <1>2 DEF RunInv, RunTypeOK
<1>6. QED
  BY <1>1, <1>3, <1>4, <1>5 DEF RunInv, VerdictSound

\* The deadline or Ctrl-C cancels the controller that runs.
LEMMA StopKeeps ==
    ASSUME RunInv, Deadline \/ Interrupted
    PROVE  RunInv'
<1>1. PICK kind \in {"timeout", "interrupt"} :
        /\ Cancel(kind) /\ stopCause' = kind
        /\ stopCause # "interrupt"
        /\ UNCHANGED <<hasDeadline, canary, stage, finalized, exitCode>> /\ ~completed
  BY DEF Deadline, Interrupted
<1>2. FanOutInv
  BY DEF RunInv
<1>3. FanOutInv' /\ HandlerEffect({kind}) /\ cancelling'
  BY <1>1, <1>2, ControllerStep, CancelDoes DEF Next
<1>4. Stages' /\ LinksTell' /\ ~finalized'
  BY <1>1, <1>3, HandlerKeeps
<1>5. StopsTell'
  BY <1>1, <1>3 DEF RunInv, StopsTell, HandlerEffect
<1>6. RunTypeOK'
  BY <1>1 DEF RunInv, RunTypeOK
<1>7. QED
  BY <1>3, <1>4, <1>5, <1>6 DEF RunInv, VerdictSound

\* The controller of the rest starts from a clean slate: the canaries' transports
\* and timers are gone, and none of its own targets was touched.
LEMMA StartRestKeeps ==
    ASSUME RunInv, StartRest
    PROVE  RunInv'
<1>1. /\ completed /\ ~finalized /\ stage = "canary" /\ canary < N /\ stopCause = "none"
      /\ \A i \in conns : result[i] = "ok"
      /\ stage' = "rest" /\ conns' = canary + 1 .. N /\ remaining' = N - canary
      /\ nextToStart' = canary + 1 /\ done' = {}
      /\ phase' = "created" /\ cancelling' = FALSE /\ completed' = FALSE
      /\ UNCHANGED <<result, link, hasDeadline, canary, stopCause, finalized, exitCode>>
      /\ UNCHANGED <<failFast, active, activeCount, retiring>>
  BY DEF StartRest, CanaryPassed
<1>2. /\ N \in Nat /\ canary \in 0 .. N /\ canary >= 1
      /\ conns = 1 .. canary
      /\ \A i \in Targets : i > canary => link[i] = "idle" /\ result[i] = "pending"
  BY <1>1, ControllerAssumption DEF RunInv, Stages, RunTypeOK
<1>3. /\ active = {} /\ retiring = {} /\ activeCount = 0 /\ TypeOK /\ Bookkeeping
  BY <1>1, FS_EmptySet DEF RunInv, FanOutInv, ControllerInv, CompletionIsFinal, CountersAgree
<1>4. /\ conns' \in SUBSET Targets
      /\ \A i \in conns' : i \in Targets /\ i > canary
      /\ \A i \in Targets \ conns' : i \in conns
  BY <1>1, <1>2 DEF Targets
<1>5. TypeOK'
  <2>1. nextToStart' \in 1 .. N + 1 /\ remaining' \in Nat
    BY <1>1, <1>2
  <2>2. QED
    BY <1>1, <1>3, <1>4, <2>1 DEF TypeOK
<1>6. Bookkeeping'
  <2>1. \A i \in conns' : ~(i < nextToStart')
    BY <1>1, <1>2
  <2>2. QED
    BY <1>1, <1>2, <1>3, <1>4, <2>1 DEF Bookkeeping
<1>7. CountersAgree'
  <2>1. Cardinality(canary + 1 .. N) = N - canary
    BY <1>1, <1>2, FS_Interval
  <2>2. conns' \ done' = canary + 1 .. N
    BY <1>1
  <2>3. QED
    BY <1>1, <1>3, <2>1, <2>2, FS_EmptySet DEF CountersAgree
<1>8. ConcurrencyBounded'
  <2>1. Limit' \in Nat
    BY <1>4, TargetsFinite, ControllerAssumption DEF Limit
  <2>2. QED
    BY <1>1, <1>3, <2>1 DEF ConcurrencyBounded
<1>9. RetireTimersExact' /\ NeverStalls' /\ CompletionIsFinal'
  BY <1>1, <1>3 DEF RetireTimersExact, NeverStalls, CompletionIsFinal
<1>10. Interval'
  BY <1>1, <1>2 DEF Interval, Targets
<1>11. OthersQuiet'
  BY <1>1, <1>3, <1>4 DEF OthersQuiet, Bookkeeping
<1>12. Stages'
  BY <1>1, <1>2 DEF Stages
<1>13. LinksTell' /\ StopsTell' /\ RunTypeOK' /\ VerdictSound'
  BY <1>1 DEF RunInv, LinksTell, StopsTell, RunTypeOK, VerdictSound
<1>14. QED
  BY <1>1, <1>5, <1>6, <1>7, <1>8, <1>9, <1>10, <1>11, <1>12, <1>13
     DEF RunInv, FanOutInv, ControllerInv

\* finishResults(): every target has a result now, and the exit code follows from
\* the results and the stop.
LEMMA FinalizeKeeps ==
    ASSUME RunInv, Finalize
    PROVE  RunInv'
<1>1. /\ completed /\ ~finalized /\ finalized' = TRUE /\ exitCode' = ExitCodeFor(result')
      /\ UNCHANGED <<failFast, conns, nextToStart, active, activeCount, done, remaining, link,
                     retiring, phase, cancelling, completed, hasDeadline, canary, stage, stopCause>>
      /\ result' = [i \in Targets |-> IF stage = "canary" /\ i > canary
                                      THEN IF stopCause = "none" THEN "skipped" ELSE stopCause
                                      ELSE result[i]]
  BY DEF Finalize
<1>2. /\ N \in Nat /\ canary \in 0 .. N /\ stopCause \in {"none", "timeout", "interrupt"}
      /\ stage \in {"all", "canary", "rest"}
      /\ result \in [Targets -> Results] /\ conns \in SUBSET Targets
  BY ControllerAssumption DEF RunInv, RunTypeOK, FanOutInv, ControllerInv, TypeOK
<1>3. /\ active = {} /\ retiring = {} /\ done = conns
      /\ \A i \in conns : result[i] # "pending"
  BY <1>1 DEF RunInv, FanOutInv, ControllerInv, CompletionIsFinal
<1>4. /\ result' \in [Targets -> Results]
      /\ \A i \in conns : result'[i] = result[i]
      /\ \A i \in Targets : result'[i] # "pending"
      /\ \A i \in Targets : result'[i] = "ok" => result[i] = "ok"
      /\ \A i \in Targets : result'[i] = "interrupt" => stopCause = "interrupt"
  <2>1. CASE stage = "all"
    BY <1>1, <1>2, <1>3, <2>1 DEF RunInv, Stages, StopsTell
  <2>2. CASE stage = "canary"
    <3>1. conns = 1 .. canary
      BY <2>2 DEF RunInv, Stages
    <3>2. \A i \in Targets : i \in conns <=> ~(i > canary)
      BY <1>2, <3>1 DEF Targets
    <3>3. (IF stopCause = "none" THEN "skipped" ELSE stopCause) \in Results \ {"pending", "ok"}
      BY <1>2 DEF Results, CancelKinds
    <3>4. QED
      BY <1>1, <1>2, <1>3, <2>2, <3>2, <3>3 DEF RunInv, StopsTell
  <2>3. CASE stage = "rest"
    <3>1. /\ conns = canary + 1 .. N
          /\ \A j \in 1 .. canary : result[j] = "ok"
      BY <2>3 DEF RunInv, Stages
    <3>2. \A i \in Targets : i \in conns \/ i \in 1 .. canary
      BY <1>2, <3>1 DEF Targets
    <3>3. result' = result
      BY <1>1, <1>2, <2>3
    <3>4. QED
      BY <1>2, <1>3, <3>1, <3>2, <3>3 DEF RunInv, StopsTell
  <2>4. QED
    BY <1>2, <2>1, <2>2, <2>3
<1>5. FanOutInv'
  <2>1. TypeOK' /\ Bookkeeping'
    BY <1>1, <1>4 DEF RunInv, FanOutInv, ControllerInv, TypeOK, Bookkeeping
  <2>2. (CountersAgree /\ ConcurrencyBounded /\ RetireTimersExact /\ NeverStalls)'
    BY <1>1 DEF RunInv, FanOutInv, ControllerInv, CountersAgree, ConcurrencyBounded, Limit,
                RetireTimersExact, NeverStalls
  <2>3. CompletionIsFinal'
    BY <1>1, <1>2, <1>3, <1>4 DEF CompletionIsFinal
  <2>4. Interval' /\ OthersQuiet'
    BY <1>1 DEF RunInv, FanOutInv, Interval, OthersQuiet
  <2>5. QED
    BY <2>1, <2>2, <2>3, <2>4 DEF FanOutInv, ControllerInv
<1>6. Stages'
  <2>1. stage = "rest" => \A j \in 1 .. canary : result'[j] = "ok"
    BY <1>1, <1>2 DEF RunInv, Stages, Targets
  <2>2. QED
    BY <1>1, <2>1 DEF RunInv, Stages
<1>7. LinksTell' /\ StopsTell'
  BY <1>1, <1>4 DEF RunInv, LinksTell, StopsTell
<1>8. VerdictSound'
  <2>1. /\ exitCode' = 130 <=> stopCause = "interrupt"
        /\ exitCode' = 0 <=> stopCause # "interrupt" /\ \A i \in Targets : result'[i] = "ok"
    BY <1>1, <1>4 DEF ExitCodeFor
  <2>2. exitCode' = 0 => \A i \in Targets : link'[i] = "retired"
    BY <1>1, <1>3, <1>7, <2>1 DEF LinksTell
  <2>3. QED
    BY <1>1, <1>3, <1>4, <2>1, <2>2 DEF VerdictSound
<1>9. RunTypeOK'
  BY <1>1 DEF RunInv, RunTypeOK, ExitCodeFor
<1>10. QED
  BY <1>1, <1>5, <1>6, <1>7, <1>8, <1>9 DEF RunInv

\* Every step of a run keeps its invariant.
LEMMA RunStep == RunInv /\ [RunNext]_allVars => RunInv'
<1> SUFFICES ASSUME RunInv, [RunNext]_allVars PROVE RunInv'
  OBVIOUS
<1>1. CASE UNCHANGED allVars
  <2>1. UNCHANGED vars /\ UNCHANGED runVars
    BY <1>1 DEF allVars
  <2>2. FanOutInv'
    BY <2>1, ControllerStep DEF RunInv
  <2>3. QED
    BY <2>1, <2>2 DEF vars, runVars, RunInv, RunTypeOK, Stages, LinksTell, StopsTell, VerdictSound
<1>2. QED
  BY <1>1, ControllerRunsKeeps, StopKeeps, StartRestKeeps, FinalizeKeeps DEF RunNext

\* The inductive invariant of a run holds.
LEMMA RunInvariant == RunSpec => []RunInv
<1>1. RunInit => RunInv
  BY RunInitInv
<1>2. RunInv /\ [RunNext]_allVars => RunInv'
  BY RunStep
<1>3. QED
  BY <1>1, <1>2, PTL DEF RunSpec

\* The canaries come first and the exit code is the truth, for any number of
\* targets and any --canary (runNative).
THEOREM RunCorrect == RunSpec => []RunSound
<1>1. RunInv => CanaryGate
  <2> SUFFICES ASSUME RunInv, stage # "all",
                      NEW i \in Targets, i > canary, link[i] # "idle"
               PROVE  canary >= 1 /\ \A j \in 1 .. canary : result[j] = "ok"
    BY DEF CanaryGate
  <2>1. stage = "rest"
    BY DEF RunInv, Stages, RunTypeOK
  <2>2. N > 0
    BY ControllerAssumption DEF Targets
  <2>3. QED
    BY <2>1, <2>2 DEF RunInv, Stages
<1>2. RunInv => RunSound
  BY <1>1 DEF RunInv, RunSound
<1>3. QED
  BY <1>2, RunInvariant, PTL

\* The books of both controllers of a run are right: counters, slots, timers,
\* completion, and no stall.
THEOREM RunControllersCorrect == RunSpec => []ControllerInv
<1>1. RunInv => ControllerInv
  BY DEF RunInv, FanOutInv
<1>2. QED
  BY <1>1, RunInvariant, PTL

\* A deadline or Ctrl-C stops the launching for good: no step connects to another
\* target, and no second controller is started.
THEOREM RunStops == RunSpec => NothingLaunchedAfterStop
<1> DEFINE Launches == stopCause # "none" =>
                         \A i \in Targets : link[i] = "idle" => link'[i] = "idle"
<1>1. RunInv /\ [RunNext]_allVars => [Launches]_allVars
  <2> SUFFICES ASSUME RunInv, RunNext, stopCause # "none", NEW i \in Targets, link[i] = "idle"
               PROVE  link'[i] = "idle"
    OBVIOUS
  <2>1. cancelling /\ i \notin active /\ FanOutInv
    BY DEF RunInv, StopsTell, LinksTell
  <2>2. ASSUME NEW given, HandlerEffect(given) PROVE link'[i] = "idle"
    BY <2>1, <2>2 DEF HandlerEffect
  <2>3. CASE ControllerRuns
    BY <2>2, <2>3, RunsStep
  <2>4. CASE Deadline \/ Interrupted
    BY <2>1, <2>2, <2>4, CancelDoes DEF Deadline, Interrupted
  <2>5. CASE StartRest \/ Finalize
    BY <2>5 DEF StartRest, Finalize
  <2>6. QED
    BY <2>3, <2>4, <2>5 DEF RunNext
<1>2. QED
  BY <1>1, RunInvariant, PTL DEF RunSpec, NothingLaunchedAfterStop

\* A recorded result is final across the whole run, the results finishResults()
\* adds included.
THEOREM RunResultsAreFinal == RunSpec => ResultsAreFinal
<1>1. RunInv /\ [RunNext]_allVars => [KeepsResults]_vars
  <2> SUFFICES ASSUME RunInv, [RunNext]_allVars PROVE KeepsResults \/ UNCHANGED vars
    OBVIOUS
  <2>1. FanOutInv
    BY DEF RunInv
  <2>2. CASE ControllerRuns \/ Deadline \/ Interrupted
    <3>1. Next
      BY <2>2 DEF ControllerRuns, Deadline, Interrupted, Next
    <3>2. QED
      BY <2>1, <3>1, ResultStep
  <2>3. CASE StartRest \/ UNCHANGED allVars
    BY <2>3 DEF StartRest, KeepsResults, allVars
  <2>4. CASE Finalize
    BY <2>4 DEF Finalize, KeepsResults, RunInv, Stages
  <2>5. QED
    BY <2>2, <2>3, <2>4 DEF RunNext
<1>2. QED
  BY <1>1, RunInvariant, PTL DEF RunSpec, ResultsAreFinal

=============================================================================
