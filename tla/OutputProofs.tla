----------------------------- MODULE OutputProofs -----------------------------
(***************************************************************************)
(* The way of the bytes: psx/1 flow control for every window, and capture  *)
(* of a stage's output for every cap, policy, number of hosts and way of   *)
(* cutting the output into chunks, over a disk any call of which may fail. *)
(***************************************************************************)
EXTENDS OutputPath, CreditFlow, SequenceTheorems, WellFoundedInduction, TLAPS

-----------------------------------------------------------------------------
(* Minimum, maximum and parts of sequences *)

LEMMA MinOfTwo ==
    ASSUME NEW a \in Int, NEW b \in Int
    PROVE  Min({a, b}) = IF a <= b THEN a ELSE b
<1> DEFINE m == IF a <= b THEN a ELSE b
<1>1. m \in {a, b} /\ \A y \in {a, b} : m <= y
  OBVIOUS
<1>2. \A x \in {a, b} : (\A y \in {a, b} : x <= y) => x = m
  OBVIOUS
<1> HIDE DEF m
<1>3. Min({a, b}) = m
  BY <1>1, <1>2 DEF Min
<1> QED
  BY <1>3 DEF m

LEMMA MaxOfTwo ==
    ASSUME NEW a \in Int, NEW b \in Int
    PROVE  Max({a, b}) = IF a >= b THEN a ELSE b
<1> DEFINE m == IF a >= b THEN a ELSE b
<1>1. m \in {a, b} /\ \A y \in {a, b} : m >= y
  OBVIOUS
<1>2. \A x \in {a, b} : (\A y \in {a, b} : x >= y) => x = m
  OBVIOUS
<1> HIDE DEF m
<1>3. Max({a, b}) = m
  BY <1>1, <1>2 DEF Max
<1> QED
  BY <1>3 DEF m

\* Concatenation by its laws alone.
Cat(a, b) == a \o b
Size(a) == Len(a)

LEMMA CatLaws ==
    ASSUME NEW S
    PROVE  /\ \A a, b \in Seq(S) : Cat(a, b) \in Seq(S) /\ Size(Cat(a, b)) = Size(a) + Size(b)
           /\ \A a \in Seq(S) : Size(a) \in Nat /\ (Size(a) = 0 <=> a = <<>>)
           /\ \A a \in Seq(S) : Cat(a, <<>>) = a /\ Cat(<<>>, a) = a
           /\ \A a, b, c \in Seq(S) : Cat(Cat(a, b), c) = Cat(a, Cat(b, c))
<1>1. ASSUME NEW a \in Seq(S), NEW b \in Seq(S)
      PROVE  Cat(a, b) \in Seq(S) /\ Size(Cat(a, b)) = Size(a) + Size(b)
  BY ConcatProperties DEF Cat, Size
<1>4. ASSUME NEW a \in Seq(S) PROVE Size(a) \in Nat /\ (Size(a) = 0 <=> a = <<>>)
  BY EmptySeq, LenProperties DEF Size
<1>2. ASSUME NEW a \in Seq(S) PROVE Cat(a, <<>>) = a /\ Cat(<<>>, a) = a
  BY ConcatEmptySeq DEF Cat
<1>3. ASSUME NEW a \in Seq(S), NEW b \in Seq(S), NEW c \in Seq(S)
      PROVE  Cat(Cat(a, b), c) = Cat(a, Cat(b, c))
  BY ConcatAssociative DEF Cat
<1> QED
  BY <1>1, <1>2, <1>3, <1>4

\* Two adjacent parts can change places when one is empty.
LEMMA Regrouped ==
    ASSUME NEW S, NEW a \in Seq(S), NEW b \in Seq(S), NEW c \in Seq(S), NEW d \in Seq(S),
           b = <<>> \/ c = <<>>
    PROVE  Cat(Cat(a, b), Cat(c, d)) = Cat(Cat(a, c), Cat(b, d))
<1>1. Cat(c, d) \in Seq(S) /\ Cat(b, d) \in Seq(S)
  BY CatLaws
<1>2. Cat(Cat(a, b), Cat(c, d)) = Cat(a, Cat(b, Cat(c, d)))
  BY <1>1, CatLaws
<1>3. Cat(Cat(a, c), Cat(b, d)) = Cat(a, Cat(c, Cat(b, d)))
  BY <1>1, CatLaws
<1>4. Cat(b, Cat(c, d)) = Cat(c, Cat(b, d))
  <2>1. CASE b = <<>>
    BY <1>1, <2>1, CatLaws
  <2>2. CASE c = <<>>
    BY <1>1, <2>2, CatLaws
  <2> QED
    BY <2>1, <2>2
<1> QED
  BY <1>2, <1>3, <1>4

\* A sequence is its first k elements and the others.
LEMMA CutAt ==
    ASSUME NEW S, NEW s \in Seq(S), NEW k \in 0 .. Len(s)
    PROVE  /\ SubSeq(s, 1, k) \in Seq(S) /\ Size(SubSeq(s, 1, k)) = k
           /\ SubSeq(s, k + 1, Len(s)) \in Seq(S) /\ Size(SubSeq(s, k + 1, Len(s))) = Size(s) - k
           /\ Cat(SubSeq(s, 1, k), SubSeq(s, k + 1, Len(s))) = s
<1>1. Len(s) \in Nat /\ k \in Nat /\ k + 1 \in Int /\ Len(s) \in Int /\ 1 \in Int
  BY LenProperties
<1>2. \A i \in 1 .. Len(s) : s[i] \in S
  BY ElementOfSeq
<1>3. SubSeq(s, 1, k) \in Seq(S) /\ Len(SubSeq(s, 1, k)) = k
  <2>1. \A i \in 1 .. k : s[i] \in S
    BY <1>1, <1>2
  <2> QED
    BY <1>1, <2>1, SubSeqProperties
<1>4. SubSeq(s, k + 1, Len(s)) \in Seq(S) /\ Len(SubSeq(s, k + 1, Len(s))) = Len(s) - k
  <2>1. \A i \in k + 1 .. Len(s) : s[i] \in S
    BY <1>1, <1>2
  <2> QED
    BY <1>1, <2>1, SubSeqProperties
<1>5. SubSeq(s, 1, k) \o SubSeq(s, k + 1, Len(s)) = SubSeq(s, 1, Len(s))
  <2>1. 1 \in 1 .. Len(s) + 1 /\ k \in 1 - 1 .. Len(s) /\ Len(s) \in k .. Len(s)
    BY <1>1
  <2> QED
    BY <2>1, ConcatAdjacentSubSeq
<1> QED
  BY <1>3, <1>4, <1>5, SubSeqFull DEF Cat, Size

\* What is cut off the front of two sequences, the second only after the first.
LEMMA CutTwo ==
    ASSUME NEW S, NEW s \in Seq(S), NEW t \in Seq(S),
           NEW k \in 0 .. Len(s), NEW j \in 0 .. Len(t), j > 0 => k = Len(s)
    PROVE  Cat(s, t) = Cat(Cat(SubSeq(s, 1, k), SubSeq(t, 1, j)),
                          Cat(SubSeq(s, k + 1, Len(s)), SubSeq(t, j + 1, Len(t))))
<1> DEFINE s1 == SubSeq(s, 1, k)
           s2 == SubSeq(s, k + 1, Len(s))
           t1 == SubSeq(t, 1, j)
           t2 == SubSeq(t, j + 1, Len(t))
<1>1. /\ s1 \in Seq(S) /\ s2 \in Seq(S) /\ Cat(s1, s2) = s /\ Size(s2) = Len(s) - k
      /\ t1 \in Seq(S) /\ t2 \in Seq(S) /\ Cat(t1, t2) = t /\ Size(t1) = j
  BY CutAt DEF Size
<1>2. Len(s) \in Nat
  BY LenProperties
<1> HIDE DEF s1, s2, t1, t2
<1>3. t1 = <<>> \/ s2 = <<>>
  <2>1. j = 0 \/ Size(s2) = 0
    BY <1>1, <1>2
  <2> QED
    BY <1>1, <2>1, CatLaws
<1>4. Cat(Cat(s1, s2), Cat(t1, t2)) = Cat(Cat(s1, t1), Cat(s2, t2))
  BY <1>1, <1>3, Regrouped
<1> QED
  BY <1>1, <1>4 DEF s1, s2, t1, t2

-----------------------------------------------------------------------------
(* Capture *)

Bytes == [c : {"x", "LF", "CR"}, n : Nat]
SpillFile == [file : Seq(Bytes), buffered : Seq(Bytes), size : Nat, offset : {0}, failed : BOOLEAN]

\* The first n elements, or all when there are not so many.
Given(all, n) == SubSeq(all, 1, Min({n, Size(all)}))
Written(file) == Cat(file.file, file.buffered)
OnDisk(file) == Given(Written(file), file.size)

LEMMA ByteLaws ==
    /\ \A a, b \in Seq(Bytes) : Cat(a, b) \in Seq(Bytes) /\ Size(Cat(a, b)) = Size(a) + Size(b)
    /\ \A a \in Seq(Bytes) : Size(a) \in Nat /\ (Size(a) = 0 <=> a = <<>>)
    /\ \A a \in Seq(Bytes) : Cat(a, <<>>) = a /\ Cat(<<>>, a) = a
    /\ \A a, b, c \in Seq(Bytes) : Cat(Cat(a, b), c) = Cat(a, Cat(b, c))
BY CatLaws

LEMMA GivenFront ==
    ASSUME NEW a \in Seq(Bytes), NEW b \in Seq(Bytes)
    PROVE  Given(Cat(a, b), Size(a)) = a
<1>1. /\ Size(a) \in Nat /\ Size(b) \in Nat /\ Size(Cat(a, b)) \in Nat
      /\ Size(Cat(a, b)) = Size(a) + Size(b)
  BY ByteLaws
<1>2. Min({Size(a), Size(Cat(a, b))}) = Size(a)
  BY <1>1, MinOfTwo
<1>3. SubSeq(a \o b, 1, Len(a)) = a
  BY SubSeqOfConcat1
<1> QED
  BY <1>2, <1>3 DEF Given, Cat, Size

LEMMA GivenAll ==
    ASSUME NEW a \in Seq(Bytes), NEW n \in Nat, Size(a) <= n
    PROVE  Given(a, n) = a
<1>1. Size(a) \in Nat
  BY ByteLaws
<1>2. Min({n, Size(a)}) = Size(a)
  BY <1>1, MinOfTwo
<1> QED
  BY <1>2, SubSeqFull DEF Given, Size

\* A spill file that accepted the bytes in disk: unless it failed it has them
\* all, and it would give back a first part of them, all if the disk lost none.
Stored(file, disk, clean) ==
    /\ Size(disk) = file.size
    /\ ~file.failed => Written(file) = disk
    /\ \E rest \in Seq(Bytes) : disk = Cat(OnDisk(file), rest) /\ (clean => rest = <<>>)
    /\ OnDisk(file) \in Seq(Bytes)

LEMMA StoredWhole ==
    ASSUME NEW file \in SpillFile, NEW disk \in Seq(Bytes), NEW orphan \in Seq(Bytes),
           Written(file) = Cat(disk, orphan), file.size = Size(disk), orphan = <<>> \/ file.failed
    PROVE  Stored(file, disk, TRUE)
<1>1. OnDisk(file) = disk
  BY GivenFront DEF OnDisk
<1>2. Cat(disk, <<>>) = disk /\ <<>> \in Seq(Bytes)
  BY ByteLaws, EmptySeq
<1> QED
  BY <1>1, <1>2 DEF Stored

LEMMA StoredPart ==
    ASSUME NEW file \in SpillFile, NEW a \in Seq(Bytes), NEW b \in Seq(Bytes),
           Written(file) = a, file.size = Size(Cat(a, b)), file.failed
    PROVE  Stored(file, Cat(a, b), FALSE)
<1>1. /\ Size(a) \in Nat /\ Size(b) \in Nat /\ Size(Cat(a, b)) = Size(a) + Size(b) /\ file.size \in Nat
  BY ByteLaws DEF SpillFile
<1>2. OnDisk(file) = a
  BY <1>1, GivenAll DEF OnDisk
<1> QED
  BY <1>2 DEF Stored

LEMMA StoredLess ==
    ASSUME NEW file, NEW disk, NEW clean \in BOOLEAN, NEW good \in BOOLEAN, Stored(file, disk, clean),
           good => clean
    PROVE  Stored(file, disk, good)
BY DEF Stored

\* What is in memory and on disk of a channel's bytes: all of them but a middle
\* part, which is missing only once bytes had to be dropped.  Before the middle
\* part is what the file accepted, or under DropNewest the ring; after it is the ring.
KeptUnder(cap, policy, ring, file, bytes, clean) ==
    /\ cap > 0 => Size(ring) <= cap
    /\ (policy # "Spool" \/ cap = 0) => file = FreshSpool
    /\ cap = 0 => ring = bytes
    /\ policy = "DropNewest" /\ cap > 0 =>
          \E mid \in Seq(Bytes) : bytes = Cat(ring, mid) /\ (mid # <<>> => Size(ring) = cap)
    /\ policy # "DropNewest" /\ cap > 0 =>
          \E disk, mid \in Seq(Bytes) : /\ Stored(file, disk, clean)
                                        /\ bytes = Cat(Cat(disk, mid), ring)
                                        /\ (policy = "Spool" /\ ~file.failed) => mid = <<>>

Kept(ring, file, bytes, clean) == KeptUnder(OutputCap, setting.policy, ring, file, bytes, clean)

CaptureType(w, bytes, clean) ==
    /\ DOMAIN w = DOMAIN FreshStage
    /\ w.ring \in [Channels -> Seq(Bytes)]
    /\ w.spool \in [Channels -> SpillFile]
    /\ w.dropped \in Nat
    /\ bytes \in [Channels -> Seq(Bytes)]
    /\ clean \in [Channels -> BOOLEAN]

AllKept(w, bytes, clean) == \A c \in Channels : Kept(w.ring[c], w.spool[c], bytes[c], clean[c])

\* the bytes a channel still has, or gave to the disk
Dropped(w) == w.dropped
Held(w, c) == w.spool[c].size + Size(w.ring[c])
Counted(w, bytes) == Held(w, "out") + Held(w, "err") + Dropped(w) = Size(bytes["out"]) + Size(bytes["err"])

CaptureSound(w, bytes, clean) == CaptureType(w, bytes, clean) /\ AllKept(w, bytes, clean) /\ Counted(w, bytes)

\* A stage's result is put together once, after the last of its output.
HasResult(w, m) == m.reported \/ (setting.native /\ w.done)
ResultSound(w, m) ==
    /\ w.done => ~w.running
    /\ m.reported => w.done
    /\ HasResult(w, m) => \A c \in Channels : ResultExact(w, c, m.bytes[c], m.clean[c])

MadeFields == {"count", "bytes", "earlier", "reported", "clean"}
HostSound(w, m) ==
    /\ DOMAIN m = MadeFields
    /\ m.count \in Nat
    /\ CaptureSound(w, m.bytes, m.clean)
    /\ ResultSound(w, m)

\* The bytes of all channels are accounted for in the state of every stage.
CaptureInv ==
    /\ setting \in Runs
    /\ DOMAIN stage = Hosts /\ DOMAIN made = Hosts
    /\ \A h \in Hosts : HostSound(stage[h], made[h])

LEMMA CapType ==
    ASSUME setting \in Runs
    PROVE  OutputCap \in Nat /\ setting.policy \in Policies /\ setting.hosts \in Nat
BY RunsAssumption DEF OutputCap

LEMMA FreshFile ==
    /\ FreshSpool \in SpillFile /\ FreshSpool.size = 0 /\ FreshSpool.offset = 0
    /\ Stored(FreshSpool, <<>>, TRUE)
<1>1. FreshSpool \in SpillFile /\ FreshSpool.size = 0 /\ FreshSpool.offset = 0
  BY EmptySeq DEF FreshSpool, SpillFile
<1>2. /\ <<>> \in Seq(Bytes) /\ Size(<<>>) = 0 /\ Cat(<<>>, <<>>) = <<>>
      /\ Cat(FreshSpool.file, FreshSpool.buffered) = Cat(<<>>, <<>>)
  BY ByteLaws, EmptySeq DEF FreshSpool
<1> QED
  BY <1>1, <1>2, StoredWhole DEF Written

\* One channel under DropNewest.
NewestResult(n, ring, file, bytes, data, clean) ==
    /\ n \in 0 .. Size(data)
    /\ Cat(ring, SubSeq(data, 1, n)) \in Seq(Bytes)
    /\ Size(Cat(ring, SubSeq(data, 1, n))) = Size(ring) + n
    /\ Kept(Cat(ring, SubSeq(data, 1, n)), file, Cat(bytes, data), clean)

LEMMA NewestKept ==
    ASSUME setting \in Runs, setting.policy = "DropNewest", OutputCap > 0,
           NEW ring \in Seq(Bytes), NEW file \in SpillFile, NEW bytes \in Seq(Bytes),
           NEW data \in Seq(Bytes), NEW clean, Kept(ring, file, bytes, clean),
           NEW n, n = Min({OutputCap - Size(ring), Size(data)})
    PROVE  NewestResult(n, ring, file, bytes, data, clean)
<1>1. OutputCap \in Nat /\ Size(ring) \in Nat /\ Size(data) \in Nat /\ Size(ring) <= OutputCap
  BY CapType, ByteLaws DEF Kept, KeptUnder
<1>2. n = IF OutputCap - Size(ring) <= Size(data) THEN OutputCap - Size(ring) ELSE Size(data)
  BY <1>1, MinOfTwo
<1>3. n \in 0 .. Size(data)
  BY <1>1, <1>2
<1> DEFINE d1 == SubSeq(data, 1, n)
           d2 == SubSeq(data, n + 1, Len(data))
<1>4. /\ d1 \in Seq(Bytes) /\ Size(d1) = n /\ d2 \in Seq(Bytes) /\ Size(d2) = Size(data) - n
      /\ Cat(d1, d2) = data
  BY <1>3, CutAt DEF Size
<1> HIDE DEF d1, d2
<1>5. Cat(ring, d1) \in Seq(Bytes) /\ Size(Cat(ring, d1)) = Size(ring) + n
  <2>1. d1 \in Seq(Bytes) /\ Size(d1) = n
    BY <1>4
  <2>2. Cat(ring, d1) \in Seq(Bytes)
    BY <2>1, ByteLaws
  <2>3. Size(Cat(ring, d1)) = Size(ring) + Size(d1)
    BY <2>1, ByteLaws
  <2> QED
    BY <2>1, <2>2, <2>3
<1>6. PICK mid \in Seq(Bytes) : bytes = Cat(ring, mid) /\ (mid # <<>> => Size(ring) = OutputCap)
  BY DEF Kept, KeptUnder
<1>7. Cat(mid, d2) \in Seq(Bytes)
  BY <1>4, ByteLaws
<1>8. Cat(bytes, data) = Cat(Cat(ring, d1), Cat(mid, d2))
  <2>1. mid = <<>> \/ d1 = <<>>
    <3>1. CASE mid # <<>>
      <4>1. n = 0
        BY <1>1, <1>2, <1>6, <3>1
      <4>2. d1 \in Seq(Bytes) /\ Size(d1) = 0
        BY <1>4, <4>1
      <4> QED
        BY <4>2, ByteLaws
    <3> QED
      BY <3>1
  <2>2. Cat(Cat(ring, mid), Cat(d1, d2)) = Cat(Cat(ring, d1), Cat(mid, d2))
    BY <1>4, <2>1, Regrouped
  <2> QED
    BY <1>4, <1>6, <2>2
<1>9. Cat(mid, d2) # <<>> => Size(Cat(ring, d1)) = OutputCap
  <2>1. CASE mid # <<>>
    <3>1. n = 0
      BY <1>1, <1>2, <1>6, <2>1
    <3> QED
      BY <1>1, <1>5, <1>6, <2>1, <3>1
  <2>2. CASE mid = <<>> /\ d2 # <<>>
    <3>1. Size(d2) # 0
      BY <1>4, <2>2, ByteLaws
    <3> QED
      BY <1>1, <1>2, <1>4, <1>5, <3>1
  <2>3. CASE mid = <<>> /\ d2 = <<>>
    BY <2>3, <1>4, ByteLaws
  <2> QED
    BY <2>1, <2>2, <2>3
<1>10. Size(Cat(ring, d1)) <= OutputCap
  BY <1>1, <1>2, <1>5
<1>11. Kept(Cat(ring, d1), file, Cat(bytes, data), clean)
  <2>1. \E m \in Seq(Bytes) : Cat(bytes, data) = Cat(Cat(ring, d1), m) /\ (m # <<>> => Size(Cat(ring, d1)) = OutputCap)
    BY <1>7, <1>8, <1>9
  <2> QED
    BY <1>1, <1>10, <2>1 DEF Kept, KeptUnder
<1> QED
  BY <1>3, <1>5, <1>11 DEF d1, NewestResult

\* One write to the spill file: accepted whole, or refused and the file poisoned;
\* only bytes make a write.
AppendOutcome(file, disk, clean, part, a) ==
    /\ a.spool \in SpillFile /\ a.ok \in BOOLEAN /\ a.lost \in BOOLEAN
    /\ a.ok => /\ Stored(a.spool, Cat(disk, part), clean /\ ~a.lost)
               /\ a.spool.failed = file.failed /\ (file.failed => part = <<>>)
               /\ a.spool.size = file.size + Size(part)
    /\ ~a.ok => /\ Stored(a.spool, disk, clean /\ ~a.lost)
                /\ a.spool.failed /\ a.spool.size = file.size

LEMMA AppendNothing ==
    ASSUME NEW file \in SpillFile, NEW disk \in Seq(Bytes), NEW clean \in BOOLEAN, Stored(file, disk, clean),
           NEW part \in Seq(Bytes), NEW a, part = <<>>, a = [spool |-> file, ok |-> TRUE, lost |-> FALSE]
    PROVE  AppendOutcome(file, disk, clean, part, a)
<1>1. Cat(disk, part) = disk /\ Size(part) = 0
  BY ByteLaws
<1>2. file.size \in Nat
  BY DEF SpillFile
<1>3. file.size = file.size + Size(part)
  BY <1>1, <1>2
<1> QED
  BY <1>1, <1>3 DEF AppendOutcome

LEMMA AppendPoisoned ==
    ASSUME NEW file \in SpillFile, NEW disk \in Seq(Bytes), NEW clean \in BOOLEAN, Stored(file, disk, clean),
           NEW part \in Seq(Bytes), NEW a, file.failed, a = [spool |-> file, ok |-> FALSE, lost |-> FALSE]
    PROVE  AppendOutcome(file, disk, clean, part, a)
BY DEF AppendOutcome

LEMMA AppendAccepted ==
    ASSUME NEW file \in SpillFile, NEW disk \in Seq(Bytes), NEW clean \in BOOLEAN, Stored(file, disk, clean),
           NEW part \in Seq(Bytes), NEW a, ~file.failed,
           a = [spool |-> [Flushed(file) EXCEPT !.buffered = part, !.size = @ + Len(part)],
                ok |-> TRUE, lost |-> FALSE]
    PROVE  AppendOutcome(file, disk, clean, part, a)
<1>1. /\ Written(file) = disk /\ Size(disk) = file.size /\ file.size \in Nat /\ Size(part) \in Nat
  BY ByteLaws DEF Stored, SpillFile
<1>2. a.spool = [file EXCEPT !.file = disk, !.buffered = part, !.size = file.size + Size(part)]
  <2>1. Flushed(file) = [file EXCEPT !.file = disk, !.buffered = <<>>]
    BY <1>1 DEF Flushed, SpillFile, Written, Cat
  <2>2. a.spool = [Flushed(file) EXCEPT !.buffered = part, !.size = @ + Size(part)]
    BY DEF Size
  <2>3. DOMAIN file = {"file", "buffered", "size", "offset", "failed"}
    BY DEF SpillFile
  <2> QED
    BY <2>1, <2>2, <2>3
<1>3. a.spool \in SpillFile /\ a.spool.failed = file.failed /\ a.spool.size = file.size + Size(part)
  <2> DEFINE n == file.size + Size(part)
  <2>1. n \in Nat /\ a.spool = [file EXCEPT !.file = disk, !.buffered = part, !.size = n]
    BY <1>1, <1>2
  <2> HIDE DEF n
  <2>2. a.spool \in SpillFile /\ a.spool.failed = file.failed /\ a.spool.size = n
    BY <2>1 DEF SpillFile
  <2> QED
    BY <2>2 DEF n
<1>4. Written(a.spool) = Cat(disk, part)
  BY <1>2 DEF Written, SpillFile
<1>5. Cat(disk, part) \in Seq(Bytes) /\ Size(Cat(disk, part)) = Size(disk) + Size(part)
      /\ Cat(Cat(disk, part), <<>>) = Cat(disk, part) /\ <<>> \in Seq(Bytes)
  BY ByteLaws, EmptySeq
<1>6. Stored(a.spool, Cat(disk, part), TRUE)
  BY <1>1, <1>3, <1>4, <1>5, StoredWhole
<1>7. Stored(a.spool, Cat(disk, part), clean /\ ~a.lost)
  BY <1>6 DEF Stored
<1> QED
  BY <1>3, <1>7 DEF AppendOutcome

LEMMA AppendShort ==
    ASSUME NEW file \in SpillFile, NEW disk \in Seq(Bytes), NEW clean \in BOOLEAN, Stored(file, disk, clean),
           NEW part \in Seq(Bytes), NEW a, ~file.failed, NEW k \in 0 .. Len(part),
           a = [spool |-> [Flushed(file) EXCEPT !.buffered = SubSeq(part, 1, k), !.failed = TRUE],
                ok |-> FALSE, lost |-> FALSE]
    PROVE  AppendOutcome(file, disk, clean, part, a)
<1> DEFINE orphan == SubSeq(part, 1, k)
<1>1. Written(file) = disk /\ Size(disk) = file.size /\ orphan \in Seq(Bytes)
  BY CutAt DEF Stored
<1> HIDE DEF orphan
<1>2. a.spool = [file EXCEPT !.file = disk, !.buffered = orphan, !.failed = TRUE]
  BY <1>1 DEF Flushed, SpillFile, Written, Cat, orphan
<1>3. a.spool \in SpillFile /\ a.spool.failed /\ a.spool.size = file.size
  BY <1>1, <1>2 DEF SpillFile
<1>4. Written(a.spool) = Cat(disk, orphan)
  BY <1>2 DEF Written, SpillFile
<1>5. Stored(a.spool, disk, TRUE)
  BY <1>1, <1>3, <1>4, StoredWhole
<1>6. Stored(a.spool, disk, clean /\ ~a.lost)
  BY <1>5 DEF Stored
<1> QED
  BY <1>3, <1>6 DEF AppendOutcome

\* The seek to the end that fails: what it flushes may be cut, and the rest
\* stays in the buffer or is forgotten.
LEMMA AppendLosing ==
    ASSUME NEW file \in SpillFile, NEW disk \in Seq(Bytes), NEW clean \in BOOLEAN, Stored(file, disk, clean),
           NEW part \in Seq(Bytes), NEW a, ~file.failed, NEW f \in FailedFlush(file),
           a = [spool |-> [f.spool EXCEPT !.failed = TRUE], ok |-> FALSE, lost |-> f.lost]
    PROVE  AppendOutcome(file, disk, clean, part, a)
<1>1. PICK k \in 0 .. Len(file.buffered), forgotten \in BOOLEAN :
         f = CutFlush(file, k, forgotten)
  BY DEF FailedFlush
<1> DEFINE b1 == SubSeq(file.buffered, 1, k)
           b2 == SubSeq(file.buffered, k + 1, Len(file.buffered))
           left == IF forgotten THEN <<>> ELSE b2
<1>2. /\ file.file \in Seq(Bytes) /\ file.buffered \in Seq(Bytes) /\ Len(file.buffered) \in Nat
      /\ Written(file) = disk /\ Size(disk) = file.size /\ <<>> \in Seq(Bytes)
  BY LenProperties, EmptySeq DEF Stored, SpillFile
<1>3. /\ b1 \in Seq(Bytes) /\ b2 \in Seq(Bytes) /\ Cat(b1, b2) = file.buffered
      /\ Size(b2) = Len(file.buffered) - k
  BY <1>2, CutAt DEF Size
<1>4. a.spool = [file EXCEPT !.file = Cat(file.file, b1), !.buffered = left, !.failed = TRUE]
  <2>1. f.spool = [file EXCEPT !.file = Cat(file.file, b1), !.buffered = left]
    BY <1>1 DEF CutFlush, Cat
  <2> HIDE DEF b1, left
  <2> QED
    BY <2>1 DEF SpillFile
<1>5. a.lost = (forgotten /\ k < Len(file.buffered)) /\ a.ok = FALSE
  BY <1>1 DEF CutFlush
<1>6. left \in Seq(Bytes)
  BY <1>2, <1>3
<1> HIDE DEF b1, b2, left
<1>7. Cat(file.file, b1) \in Seq(Bytes) /\ Cat(Cat(file.file, b1), b2) = disk
      /\ Cat(Cat(file.file, b1), <<>>) = Cat(file.file, b1) /\ Cat(disk, <<>>) = disk
  <2>1. Cat(file.file, b1) \in Seq(Bytes)
    BY <1>2, <1>3, ByteLaws
  <2>2. Cat(Cat(file.file, b1), b2) = Cat(file.file, Cat(b1, b2))
    <3> DEFINE fl == file.file
    <3>1. fl \in Seq(Bytes) /\ b1 \in Seq(Bytes) /\ b2 \in Seq(Bytes)
      BY <1>2, <1>3
    <3> HIDE DEF fl
    <3>2. Cat(Cat(fl, b1), b2) = Cat(fl, Cat(b1, b2))
      BY <3>1, ByteLaws
    <3> QED
      BY <3>2 DEF fl
  <2>3. Cat(file.file, Cat(b1, b2)) = disk
    BY <1>2, <1>3 DEF Written
  <2>4. disk \in Seq(Bytes)
    OBVIOUS
  <2> QED
    BY <2>1, <2>2, <2>3, <2>4, ByteLaws
<1>8. a.spool \in SpillFile /\ a.spool.failed /\ a.spool.size = file.size
  BY <1>4, <1>6, <1>7 DEF SpillFile
<1>9. Written(a.spool) = Cat(Cat(file.file, b1), left)
  BY <1>4 DEF Written, SpillFile
<1>10. Stored(a.spool, disk, clean /\ ~a.lost)
  <2>1. CASE forgotten /\ k < Len(file.buffered)
    <3>1. Written(a.spool) = Cat(file.file, b1) /\ a.lost
      BY <1>5, <1>7, <1>9, <2>1 DEF left
    <3>2. Stored(a.spool, Cat(Cat(file.file, b1), b2), FALSE)
      BY <1>2, <1>3, <1>7, <1>8, <3>1, StoredPart
    <3> QED
      BY <1>7, <3>1, <3>2 DEF Stored
  <2>2. CASE ~(forgotten /\ k < Len(file.buffered))
    <3>1. left = b2
      <4>1. CASE forgotten
        <5>1. Size(b2) = 0
          BY <1>2, <1>3, <2>2, <4>1
        <5> QED
          BY <1>3, <4>1, <5>1, ByteLaws DEF left
      <4> QED
        BY <4>1 DEF left
    <3>2. Written(a.spool) = Cat(disk, <<>>)
      BY <1>7, <1>9, <3>1
    <3>3. Stored(a.spool, disk, TRUE)
      BY <1>2, <1>8, <3>2, StoredWhole
    <3> QED
      BY <3>3 DEF Stored
  <2> QED
    BY <2>1, <2>2
<1>11. a.lost \in BOOLEAN
  BY <1>5
<1> QED
  BY <1>5, <1>8, <1>10, <1>11 DEF AppendOutcome

LEMMA AppendStored ==
    ASSUME NEW file \in SpillFile, NEW disk \in Seq(Bytes), NEW clean \in BOOLEAN, Stored(file, disk, clean),
           NEW part \in Seq(Bytes), NEW a \in spoolAppend(file, part)
    PROVE  AppendOutcome(file, disk, clean, part, a)
<1>1. file.failed \in BOOLEAN
  BY DEF SpillFile
<1>2. CASE part = <<>>
  BY <1>2, AppendNothing DEF spoolAppend
<1>3. CASE part # <<>> /\ file.failed
  BY <1>3, AppendPoisoned DEF spoolAppend
<1>4. CASE part # <<>> /\ ~file.failed
  <2>1. \/ a = [spool |-> [Flushed(file) EXCEPT !.buffered = part, !.size = @ + Len(part)],
                ok |-> TRUE, lost |-> FALSE]
        \/ \E k \in 0 .. (Len(part) - 1) :
              a = [spool |-> [Flushed(file) EXCEPT !.buffered = SubSeq(part, 1, k), !.failed = TRUE],
                   ok |-> FALSE, lost |-> FALSE]
        \/ \E f \in FailedFlush(file) :
              a = [spool |-> [f.spool EXCEPT !.failed = TRUE], ok |-> FALSE, lost |-> f.lost]
    BY <1>4 DEF spoolAppend
  <2>2. \A k \in 0 .. (Len(part) - 1) : k \in 0 .. Len(part)
    BY LenProperties
  <2> QED
    BY <1>4, <2>1, <2>2, AppendAccepted, AppendShort, AppendLosing
<1> QED
  BY <1>1, <1>2, <1>3, <1>4

\* How DropOldest and Spool share the overflow between the ring and the chunk.
LEMMA Overflow ==
    ASSUME NEW cap \in Nat, NEW have \in 0 .. cap, NEW new \in Nat, NEW over, NEW k, NEW j \in Int,
           over = IF 0 >= new - (cap - have) THEN 0 ELSE new - (cap - have),
           k = IF over <= have THEN over ELSE have, j = over - k
    PROVE  /\ over \in Nat /\ k \in 0 .. have /\ j \in 0 .. new /\ k + j = over
           /\ j > 0 => k = have
           /\ (have - k) + (new - j) <= cap
<1>1. over \in Nat
  OBVIOUS
<1>2. k \in Nat
  BY <1>1
<1> QED
  BY <1>1, <1>2

\* v is w with a new ring and a new file of channel c and more bytes dropped.
Recorded(w, v, c, ring, file, lost) ==
    /\ DOMAIN v = DOMAIN w
    /\ v.ring = [w.ring EXCEPT ![c] = ring]
    /\ v.spool = [w.spool EXCEPT ![c] = file]
    /\ Dropped(v) = Dropped(w) + lost

\* Every byte that was held or comes in is held or lost.
Balanced(w, c, data, ring, file, lost) == file.size + Size(ring) + lost = Held(w, c) + Size(data)

LEMMA RecordedSound ==
    ASSUME NEW w, NEW v, NEW bytes, NEW clean, CaptureSound(w, bytes, clean), NEW c \in Channels, NEW data \in Seq(Bytes),
           NEW ring \in Seq(Bytes), NEW file \in SpillFile, NEW lost \in Nat, NEW good \in BOOLEAN,
           Recorded(w, v, c, ring, file, lost),
           Kept(ring, file, Cat(bytes[c], data), good),
           Balanced(w, c, data, ring, file, lost)
    PROVE  CaptureSound(v, [bytes EXCEPT ![c] = Cat(@, data)], [clean EXCEPT ![c] = good])
<1> DEFINE more == [bytes EXCEPT ![c] = Cat(@, data)]
           goods == [clean EXCEPT ![c] = good]
           d == IF c = "out" THEN "err" ELSE "out"
<1>1. /\ DOMAIN w = DOMAIN FreshStage /\ w.ring \in [Channels -> Seq(Bytes)]
      /\ w.spool \in [Channels -> SpillFile] /\ Dropped(w) \in Nat /\ bytes \in [Channels -> Seq(Bytes)] /\ clean \in [Channels -> BOOLEAN]
  BY DEF CaptureSound, CaptureType, Dropped
<1>2. /\ Channels = {c, d} /\ c # d /\ d \in Channels
      /\ (c = "out" /\ d = "err") \/ (c = "err" /\ d = "out")
  BY DEF Channels
<1> HIDE DEF d
<1>3. Cat(bytes[c], data) \in Seq(Bytes) /\ Size(Cat(bytes[c], data)) = Size(bytes[c]) + Size(data)
  <2>1. bytes[c] \in Seq(Bytes)
    BY <1>1
  <2> QED
    BY <2>1, ByteLaws
<1>4. /\ more \in [Channels -> Seq(Bytes)] /\ more[c] = Cat(bytes[c], data) /\ more[d] = bytes[d]
      /\ goods \in [Channels -> BOOLEAN] /\ goods[c] = good /\ goods[d] = clean[d]
  BY <1>1, <1>2, <1>3
<1>5. /\ v.ring \in [Channels -> Seq(Bytes)] /\ v.ring[c] = ring /\ v.ring[d] = w.ring[d]
      /\ v.spool \in [Channels -> SpillFile] /\ v.spool[c] = file /\ v.spool[d] = w.spool[d]
      /\ Dropped(v) = Dropped(w) + lost /\ DOMAIN v = DOMAIN FreshStage
  BY <1>1, <1>2 DEF Recorded
<1> HIDE DEF more, goods
<1>6. \A x \in Channels : Kept(v.ring[x], v.spool[x], more[x], goods[x])
  <2>1. Kept(w.ring[d], w.spool[d], bytes[d], clean[d])
    BY <1>2 DEF CaptureSound, AllKept
  <2>2. Kept(v.ring[d], v.spool[d], more[d], goods[d])
    BY <1>4, <1>5, <2>1
  <2>3. Kept(v.ring[c], v.spool[c], more[c], goods[c])
    BY <1>4, <1>5
  <2> QED
    BY <1>2, <2>2, <2>3
<1>7. Counted(v, more)
  <2>1. \A x \in Channels : Held(w, x) \in Nat /\ Size(bytes[x]) \in Nat
    <3> SUFFICES ASSUME NEW x \in Channels PROVE Held(w, x) \in Nat /\ Size(bytes[x]) \in Nat
      OBVIOUS
    <3>1. w.spool[x] \in SpillFile /\ w.ring[x] \in Seq(Bytes) /\ bytes[x] \in Seq(Bytes)
      BY <1>1
    <3>2. w.spool[x].size \in Nat /\ Size(w.ring[x]) \in Nat /\ Size(bytes[x]) \in Nat
      BY <3>1, ByteLaws DEF SpillFile
    <3> QED
      BY <3>2 DEF Held
  <2>2. file.size \in Nat /\ Size(ring) \in Nat /\ Size(data) \in Nat
    <3>1. file.size \in Nat
      BY DEF SpillFile
    <3> QED
      BY <3>1, ByteLaws
  <2>3. Held(v, d) = Held(w, d) /\ Size(more[d]) = Size(bytes[d])
    BY <1>4, <1>5 DEF Held
  <2>4. Held(v, c) = file.size + Size(ring)
    BY <1>5 DEF Held
  <2>5. Held(v, c) + lost = Held(w, c) + Size(data)
    BY <2>4 DEF Balanced
  <2>6. Held(v, c) \in Nat /\ Size(more[c]) = Size(bytes[c]) + Size(data)
    BY <1>3, <1>4, <2>2, <2>4
  <2>7. Dropped(v) = Dropped(w) + lost
    BY <1>5
  <2>8. Held(w, "out") + Held(w, "err") + Dropped(w) = Size(bytes["out"]) + Size(bytes["err"])
    BY DEF CaptureSound, Counted
  <2>9. Held(w, c) + Held(w, d) + Dropped(w) = Size(bytes[c]) + Size(bytes[d])
    <3>1. CASE c = "out" /\ d = "err"
      BY <2>8, <3>1
    <3>2. CASE c = "err" /\ d = "out"
      BY <1>1, <2>1, <2>8, <3>2 DEF Channels
    <3> QED
      BY <1>2, <3>1, <3>2
  <2>10. Held(v, c) + Held(v, d) + Dropped(v) = Size(more[c]) + Size(more[d])
    <3>1. /\ Held(w, c) \in Nat /\ Held(w, d) \in Nat /\ Held(v, c) \in Nat /\ Dropped(w) \in Nat
          /\ Size(bytes[c]) \in Nat /\ Size(bytes[d]) \in Nat
      BY <1>1, <1>2, <2>1, <2>6
    <3> DEFINE a == Held(w, c)
               b == Held(w, d)
               a2 == Held(v, c)
               x == Size(bytes[c])
               y == Size(bytes[d])
               g == Dropped(w)
               z == Size(data)
    <3>2. a \in Nat /\ b \in Nat /\ a2 \in Nat /\ g \in Nat /\ x \in Nat /\ y \in Nat /\ z \in Nat
      BY <2>2, <3>1
    <3>3. a + b + g = x + y /\ a2 + lost = a + z
      BY <2>5, <2>9
    <3>4. /\ Held(v, d) = b /\ Dropped(v) = g + lost
          /\ Size(more[c]) = x + z /\ Size(more[d]) = y
      BY <2>3, <2>6, <2>7
    <3> HIDE DEF a, b, a2, x, y, g, z
    <3>5. a2 + b + (g + lost) = (x + z) + y
      BY <3>2, <3>3
    <3> QED
      BY <3>4, <3>5 DEF a2
  <2>11. Held(v, "out") + Held(v, "err") + Dropped(v) = Size(more["out"]) + Size(more["err"])
    <3>1. /\ Held(v, c) \in Nat /\ Held(v, d) \in Nat /\ Dropped(v) \in Nat
          /\ Size(more[c]) \in Nat /\ Size(more[d]) \in Nat
      <4>1. Held(v, d) \in Nat /\ Size(more[d]) \in Nat
        BY <1>2, <2>1, <2>3
      <4>2. Size(bytes[c]) \in Nat
        BY <2>1
      <4>3. Size(more[c]) \in Nat
        BY <2>2, <2>6, <4>2
      <4>4. Dropped(v) \in Nat
        BY <1>1, <2>7
      <4> QED
        BY <2>6, <4>1, <4>3, <4>4
    <3>2. Held(v, d) + Held(v, c) + Dropped(v) = Size(more[d]) + Size(more[c])
      BY <2>10, <3>1
    <3> QED
      BY <1>2, <2>10, <3>2
  <2> QED
    BY <2>11 DEF Counted
<1>8. CaptureType(v, more, goods)
  BY <1>1, <1>4, <1>5 DEF CaptureType, Dropped
<1>9. AllKept(v, more, goods)
  BY <1>6 DEF AllKept
<1> QED
  BY <1>7, <1>8, <1>9 DEF CaptureSound, more, goods

Refused(a, part) == IF a.ok THEN 0 ELSE Size(part)

\* What the file accepted, what is missing after it, and one more part.
Behind(disk, mid, part, after, good) ==
    \E disk2, rest \in Seq(Bytes) : /\ Stored(after, disk2, good)
                                    /\ Cat(Cat(disk, mid), part) = Cat(disk2, rest)
                                    /\ ~after.failed => rest = <<>>

\* One attempt to spill a part that comes after what is on disk and what is missing.
LEMMA SpillKept ==
    ASSUME NEW file \in SpillFile, NEW disk \in Seq(Bytes), NEW clean \in BOOLEAN, Stored(file, disk, clean),
           NEW mid \in Seq(Bytes), NEW part \in Seq(Bytes), ~file.failed => mid = <<>>,
           NEW a \in spoolAppend(file, part), NEW good, good = (clean /\ ~a.lost),
           NEW refused, refused = Refused(a, part)
    PROVE  /\ a.spool \in SpillFile /\ a.lost \in BOOLEAN /\ refused \in Nat
           /\ a.spool.size + refused = file.size + Size(part)
           /\ Behind(disk, mid, part, a.spool, good)
<1>1. AppendOutcome(file, disk, clean, part, a)
  BY AppendStored
<1>2. a.spool \in SpillFile /\ a.ok \in BOOLEAN /\ a.lost \in BOOLEAN
  BY <1>1 DEF AppendOutcome
<1>3. file.size \in Nat /\ Size(part) \in Nat /\ file.failed \in BOOLEAN
  BY ByteLaws DEF SpillFile
<1>4. CASE a.ok
  <2>1. /\ Stored(a.spool, Cat(disk, part), good) /\ a.spool.failed = file.failed
        /\ (file.failed => part = <<>>) /\ a.spool.size = file.size + Size(part) /\ refused = 0
    BY <1>1, <1>4 DEF AppendOutcome, Refused
  <2>2. a.spool.size + refused = file.size + Size(part)
    BY <1>3, <2>1
  <2>3. Cat(Cat(disk, mid), part) = Cat(Cat(disk, part), mid) /\ Cat(disk, part) \in Seq(Bytes)
    <3>1. Cat(disk, mid) \in Seq(Bytes) /\ Cat(disk, part) \in Seq(Bytes)
      BY ByteLaws
    <3>2. CASE file.failed
      <4>1. part = <<>>
        BY <2>1, <3>2
      <4>2. Cat(Cat(disk, mid), <<>>) = Cat(disk, mid) /\ Cat(disk, <<>>) = disk
        BY <3>1, ByteLaws
      <4> QED
        BY <3>1, <4>1, <4>2
    <3>3. CASE ~file.failed
      <4>1. mid = <<>>
        BY <3>3
      <4>2. Cat(disk, <<>>) = disk /\ Cat(Cat(disk, part), <<>>) = Cat(disk, part)
        BY <3>1, ByteLaws
      <4> QED
        BY <3>1, <4>1, <4>2
    <3> QED
      BY <3>2, <3>3
  <2>4. ~a.spool.failed => mid = <<>>
    BY <2>1
  <2>5. Behind(disk, mid, part, a.spool, good)
    BY <2>1, <2>3, <2>4 DEF Behind
  <2> QED
    BY <1>2, <2>1, <2>2, <2>5
<1>5. CASE ~a.ok
  <2>1. /\ Stored(a.spool, disk, good) /\ a.spool.failed /\ a.spool.size = file.size /\ refused = Size(part)
    BY <1>1, <1>5 DEF AppendOutcome, Refused
  <2>2. Cat(mid, part) \in Seq(Bytes) /\ Cat(Cat(disk, mid), part) = Cat(disk, Cat(mid, part))
    BY ByteLaws
  <2>3. Behind(disk, mid, part, a.spool, good)
    BY <2>1, <2>2 DEF Behind
  <2> QED
    BY <1>2, <1>3, <2>1, <2>3
<1> QED
  BY <1>2, <1>4, <1>5

\* A channel after a chunk: what is kept of it, and what is lost.
TailResult(ring2, file2, lost, good, ring, file, bytes, data) ==
    /\ file2 \in SpillFile /\ lost \in Nat
    /\ Kept(ring2, file2, Cat(bytes, data), good)
    /\ file2.size + Size(ring2) + lost = (file.size + Size(ring)) + Size(data)

\* What leaves the memory, first and then second, and what stays in it.
Moved(front, ring, data, first, second, ring2) ==
    /\ Cat(Cat(front, ring), data) = Cat(Cat(Cat(front, first), second), ring2)
    /\ Size(ring) + Size(data) = Size(first) + Size(second) + Size(ring2)

LEMMA Rearranged ==
    ASSUME NEW front \in Seq(Bytes), NEW ring \in Seq(Bytes),
           NEW data \in Seq(Bytes), NEW first \in Seq(Bytes), NEW second \in Seq(Bytes), NEW ring2 \in Seq(Bytes),
           Cat(ring, data) = Cat(Cat(first, second), ring2)
    PROVE  Moved(front, ring, data, first, second, ring2)
<1>1. Cat(front, first) \in Seq(Bytes) /\ Cat(first, second) \in Seq(Bytes) /\ Cat(front, ring) \in Seq(Bytes)
  BY ByteLaws
<1>2. Cat(Cat(front, ring), data) = Cat(Cat(front, Cat(first, second)), ring2)
  <2>1. Cat(Cat(front, ring), data) = Cat(front, Cat(ring, data))
    BY ByteLaws
  <2>2. Cat(Cat(front, Cat(first, second)), ring2) = Cat(front, Cat(Cat(first, second), ring2))
    BY <1>1, ByteLaws
  <2> QED
    BY <2>1, <2>2
<1>3. Cat(front, Cat(first, second)) = Cat(Cat(front, first), second)
  BY ByteLaws
<1>4. Size(ring) + Size(data) = Size(first) + Size(second) + Size(ring2)
  <2>1. Size(Cat(ring, data)) = Size(ring) + Size(data)
    BY ByteLaws
  <2>2. Size(Cat(Cat(first, second), ring2)) = Size(Cat(first, second)) + Size(ring2)
    BY <1>1, ByteLaws
  <2>3. Size(Cat(first, second)) = Size(first) + Size(second)
    BY ByteLaws
  <2> QED
    BY <2>1, <2>2, <2>3
<1> QED
  BY <1>2, <1>3, <1>4 DEF Moved

\* The sizes add up over the two writes of a spill.
AddsUp(f, f1, f2, x, x2, d, p, q, r1, r2) ==
    (f1 + r1 = f + p /\ f2 + r2 = f1 + q /\ x + d = p + q + x2)
       => (r1 + r2 \in Nat /\ f2 + x2 + (r1 + r2) = (f + x) + d)

LEMMA TwoRefused == \A f, f1, f2, x, x2, d, p, q, r1, r2 \in Nat : AddsUp(f, f1, f2, x, x2, d, p, q, r1, r2)
BY DEF AddsUp

\* One channel under Spool.
LEMMA SpillTail ==
    ASSUME setting \in Runs, setting.policy = "Spool", OutputCap > 0,
           NEW ring \in Seq(Bytes), NEW file \in SpillFile, NEW bytes \in Seq(Bytes), NEW clean \in BOOLEAN,
           NEW data \in Seq(Bytes), Kept(ring, file, bytes, clean),
           NEW first \in Seq(Bytes), NEW second \in Seq(Bytes), NEW ring2 \in Seq(Bytes),
           Cat(ring, data) = Cat(Cat(first, second), ring2), Size(ring2) <= OutputCap,
           NEW a \in spoolAppend(file, first), NEW b \in spoolAppend(a.spool, second),
           NEW good, good = (clean /\ ~(a.lost \/ b.lost)),
           NEW r1, r1 = Refused(a, first), NEW r2, r2 = Refused(b, second)
    PROVE  TailResult(ring2, b.spool, r1 + r2, good, ring, file, bytes, data)
<1>1. OutputCap \in Nat
  BY CapType
<1>2. PICK disk \in Seq(Bytes), mid \in Seq(Bytes) :
         /\ Stored(file, disk, clean) /\ bytes = Cat(Cat(disk, mid), ring)
         /\ (setting.policy = "Spool" /\ ~file.failed) => mid = <<>>
  BY DEF Kept, KeptUnder
<1> DEFINE good1 == clean /\ ~a.lost
<1>3. /\ a.spool \in SpillFile /\ a.lost \in BOOLEAN /\ r1 \in Nat
      /\ a.spool.size + r1 = file.size + Size(first)
      /\ Behind(disk, mid, first, a.spool, good1)
  BY <1>2, SpillKept
<1>4. good1 \in BOOLEAN
  OBVIOUS
<1>5. PICK disk1 \in Seq(Bytes), rest \in Seq(Bytes) :
         /\ Stored(a.spool, disk1, good1)
         /\ Cat(Cat(disk, mid), first) = Cat(disk1, rest)
         /\ ~a.spool.failed => rest = <<>>
  BY <1>3 DEF Behind
<1> DEFINE good2 == good1 /\ ~b.lost
<1> HIDE DEF good1
<1>6. /\ b.spool \in SpillFile /\ b.lost \in BOOLEAN /\ r2 \in Nat
      /\ b.spool.size + r2 = a.spool.size + Size(second)
      /\ Behind(disk1, rest, second, b.spool, good2)
  BY <1>3, <1>4, <1>5, SpillKept
<1>7. PICK disk2 \in Seq(Bytes), more \in Seq(Bytes) :
         /\ Stored(b.spool, disk2, good2)
         /\ Cat(Cat(disk1, rest), second) = Cat(disk2, more)
         /\ ~b.spool.failed => more = <<>>
  BY <1>6 DEF Behind
<1>8. good = good2
  BY <1>3, <1>6 DEF good1
<1>9. Cat(bytes, data) = Cat(Cat(disk2, more), ring2)
      /\ Size(ring) + Size(data) = Size(first) + Size(second) + Size(ring2)
  <2>1. Cat(disk, mid) \in Seq(Bytes)
    BY ByteLaws
  <2>2. Moved(Cat(disk, mid), ring, data, first, second, ring2)
    BY <2>1, Rearranged
  <2> QED
    BY <1>2, <1>5, <1>7, <2>2 DEF Moved
<1> HIDE DEF good2
<1>10. Kept(ring2, b.spool, Cat(bytes, data), good)
  BY <1>1, <1>7, <1>8, <1>9 DEF Kept, KeptUnder
<1>11. /\ r1 + r2 \in Nat
       /\ b.spool.size + Size(ring2) + (r1 + r2) = (file.size + Size(ring)) + Size(data)
  <2> DEFINE f == file.size
             f1 == a.spool.size
             f2 == b.spool.size
             x == Size(ring)
             x2 == Size(ring2)
             d == Size(data)
             p == Size(first)
             q == Size(second)
  <2>1. f \in Nat /\ f1 \in Nat /\ f2 \in Nat
    BY <1>3, <1>6 DEF SpillFile
  <2>2. x \in Nat /\ x2 \in Nat /\ d \in Nat /\ p \in Nat /\ q \in Nat
    BY ByteLaws
  <2>3. f1 + r1 = f + p /\ f2 + r2 = f1 + q /\ x + d = p + q + x2 /\ r1 \in Nat /\ r2 \in Nat
    BY <1>3, <1>6, <1>9
  <2> HIDE DEF f, f1, f2, x, x2, d, p, q
  <2>4. r1 + r2 \in Nat /\ f2 + x2 + (r1 + r2) = (f + x) + d
    <3>1. AddsUp(f, f1, f2, x, x2, d, p, q, r1, r2)
      BY <2>1, <2>2, <2>3, TwoRefused
    <3> QED
      BY <2>3, <3>1, Zenon DEF AddsUp
  <2> QED
    BY <2>4 DEF f, f2, x, x2, d
<1> QED
  BY <1>6, <1>10, <1>11 DEF TailResult

\* One channel under DropOldest (and Block, which has no cap).
LEMMA DropTail ==
    ASSUME setting \in Runs, setting.policy # "Spool", setting.policy # "DropNewest", OutputCap > 0,
           NEW ring \in Seq(Bytes), NEW file \in SpillFile, NEW bytes \in Seq(Bytes), NEW clean \in BOOLEAN,
           NEW data \in Seq(Bytes), Kept(ring, file, bytes, clean),
           NEW first \in Seq(Bytes), NEW second \in Seq(Bytes), NEW ring2 \in Seq(Bytes),
           Cat(ring, data) = Cat(Cat(first, second), ring2), Size(ring2) <= OutputCap
    PROVE  TailResult(ring2, file, Size(first) + Size(second), clean, ring, file, bytes, data)
<1>1. OutputCap \in Nat
  BY CapType
<1>2. PICK disk \in Seq(Bytes), mid \in Seq(Bytes) :
         Stored(file, disk, clean) /\ bytes = Cat(Cat(disk, mid), ring)
  BY DEF Kept, KeptUnder
<1>3. /\ Cat(bytes, data) = Cat(Cat(Cat(Cat(disk, mid), first), second), ring2)
      /\ Size(ring) + Size(data) = Size(first) + Size(second) + Size(ring2)
  <2>1. Cat(disk, mid) \in Seq(Bytes)
    BY ByteLaws
  <2>2. Moved(Cat(disk, mid), ring, data, first, second, ring2)
    BY <2>1, Rearranged
  <2> QED
    BY <1>2, <2>2 DEF Moved
<1>4. /\ Cat(Cat(mid, first), second) \in Seq(Bytes)
      /\ Cat(Cat(Cat(disk, mid), first), second) = Cat(disk, Cat(Cat(mid, first), second))
  <2>1. Cat(mid, first) \in Seq(Bytes) /\ Cat(Cat(disk, mid), first) = Cat(disk, Cat(mid, first))
    BY ByteLaws
  <2>2. Cat(Cat(mid, first), second) \in Seq(Bytes)
    BY <2>1, ByteLaws
  <2>3. Cat(Cat(disk, Cat(mid, first)), second) = Cat(disk, Cat(Cat(mid, first), second))
    BY <2>1, ByteLaws
  <2> QED
    BY <2>1, <2>2, <2>3
<1>5. Kept(ring2, file, Cat(bytes, data), clean)
  <2>1. file = FreshSpool
    BY DEF Kept, KeptUnder
  <2>2. Cat(bytes, data) = Cat(Cat(disk, Cat(Cat(mid, first), second)), ring2)
    BY <1>3, <1>4
  <2> QED
    BY <1>1, <1>2, <1>4, <2>1, <2>2 DEF Kept, KeptUnder
<1>6. /\ Size(first) + Size(second) \in Nat
      /\ file.size + Size(ring2) + (Size(first) + Size(second)) = (file.size + Size(ring)) + Size(data)
  <2> DEFINE f == file.size
             x == Size(ring)
             x2 == Size(ring2)
             d == Size(data)
             p == Size(first)
             q == Size(second)
  <2>1. f \in Nat /\ x \in Nat /\ x2 \in Nat /\ d \in Nat /\ p \in Nat /\ q \in Nat /\ x + d = p + q + x2
    BY <1>3, ByteLaws DEF SpillFile
  <2> HIDE DEF f, x, x2, d, p, q
  <2>2. p + q \in Nat /\ f + x2 + (p + q) = (f + x) + d
    BY <2>1
  <2> QED
    BY <2>2 DEF f, x, x2, d, p, q
<1> QED
  BY <1>5, <1>6 DEF TailResult

\* What capture leaves behind: a stage that accounts for the chunk too.
ChunkKept(after, bytes, clean, c, data) ==
    /\ after.lost \in BOOLEAN
    /\ CaptureSound(after.stage, [bytes EXCEPT ![c] = Cat(@, data)], [clean EXCEPT ![c] = @ /\ ~after.lost])

LEMMA CaptureAll ==
    ASSUME setting \in Runs, NEW w, NEW bytes, NEW clean, CaptureSound(w, bytes, clean), NEW c \in Channels,
           NEW data \in Seq(Bytes), OutputCap = 0
    PROVE  ChunkKept(Captured([w EXCEPT !.ring[c] = @ \o data], FALSE), bytes, clean, c, data)
<1> DEFINE v == [w EXCEPT !.ring[c] = @ \o data]
           ring2 == Cat(w.ring[c], data)
           good == clean[c]
<1>1. /\ w.ring \in [Channels -> Seq(Bytes)] /\ w.spool \in [Channels -> SpillFile] /\ w.dropped \in Nat
      /\ DOMAIN w = DOMAIN FreshStage /\ Kept(w.ring[c], w.spool[c], bytes[c], good)
      /\ clean \in [Channels -> BOOLEAN]
  BY DEF CaptureSound, CaptureType, AllKept
<1>2. w.ring[c] \in Seq(Bytes) /\ w.spool[c] \in SpillFile /\ good \in BOOLEAN
  BY <1>1
<1>3. ring2 \in Seq(Bytes) /\ Size(ring2) = Size(w.ring[c]) + Size(data)
  BY <1>2, ByteLaws
<1>4. v = [w EXCEPT !.ring[c] = ring2]
  BY DEF Cat
<1> HIDE DEF v, ring2
<1>5. Recorded(w, v, c, ring2, w.spool[c], 0)
  <2>1. /\ DOMAIN v = DOMAIN w /\ v.ring = [w.ring EXCEPT ![c] = ring2]
        /\ v.spool = w.spool /\ v.dropped = w.dropped
    BY <1>1, <1>4 DEF FreshStage
  <2>2. w.spool = [w.spool EXCEPT ![c] = w.spool[c]]
    BY <1>1
  <2>3. Dropped(v) = Dropped(w) + 0
    BY <1>1, <2>1 DEF Dropped
  <2> QED
    BY <2>1, <2>2, <2>3 DEF Recorded
<1> HIDE DEF good
<1>6. Kept(ring2, w.spool[c], Cat(bytes[c], data), good)
  BY <1>1 DEF Kept, KeptUnder, ring2
<1>7. Balanced(w, c, data, ring2, w.spool[c], 0)
  <2> DEFINE a == w.spool[c].size
             b == Size(w.ring[c])
             d == Size(data)
  <2>1. a \in Nat /\ b \in Nat /\ d \in Nat
    BY <1>2, ByteLaws DEF SpillFile
  <2>2. Size(ring2) = b + d /\ Held(w, c) = a + b
    BY <1>3 DEF Held
  <2> HIDE DEF a, b, d
  <2>3. a + (b + d) + 0 = (a + b) + d
    BY <2>1
  <2> QED
    BY <2>2, <2>3 DEF Balanced, a, d
<1>8. CaptureSound(v, [bytes EXCEPT ![c] = Cat(@, data)], [clean EXCEPT ![c] = good])
  BY <1>2, <1>3, <1>5, <1>6, <1>7, RecordedSound
<1> QED
  BY <1>1, <1>2, <1>8 DEF ChunkKept, Captured, v, good

LEMMA CaptureNewest ==
    ASSUME setting \in Runs, NEW w, NEW bytes, NEW clean, CaptureSound(w, bytes, clean), NEW c \in Channels,
           NEW data \in Seq(Bytes), OutputCap > 0, setting.policy = "DropNewest"
    PROVE  ChunkKept(captureNewest(w, c, data), bytes, clean, c, data)
<1> DEFINE v == captureNewest(w, c, data).stage
           n == Min({OutputCap - Size(w.ring[c]), Size(data)})
           ring2 == Cat(w.ring[c], SubSeq(data, 1, n))
           lost == Size(data) - n
           good == clean[c]
<1>1. /\ w.ring \in [Channels -> Seq(Bytes)] /\ w.spool \in [Channels -> SpillFile] /\ w.dropped \in Nat
      /\ DOMAIN w = DOMAIN FreshStage /\ Kept(w.ring[c], w.spool[c], bytes[c], good)
      /\ bytes \in [Channels -> Seq(Bytes)] /\ clean \in [Channels -> BOOLEAN]
  BY DEF CaptureSound, CaptureType, AllKept
<1>2. /\ w.ring[c] \in Seq(Bytes) /\ w.spool[c] \in SpillFile /\ bytes[c] \in Seq(Bytes) /\ OutputCap \in Nat
      /\ good \in BOOLEAN
  BY <1>1, CapType
<1>3. /\ v = [w EXCEPT !.ring[c] = ring2, !.dropped = @ + Size(data) - n]
      /\ captureNewest(w, c, data) = Captured(v, FALSE)
  BY <1>2 DEF captureNewest, Captured, Cat, Size
<1> HIDE DEF n, good
<1>4. /\ n \in 0 .. Size(data) /\ ring2 \in Seq(Bytes) /\ Size(ring2) = Size(w.ring[c]) + n
      /\ Kept(ring2, w.spool[c], Cat(bytes[c], data), good)
  <2>1. NewestResult(n, w.ring[c], w.spool[c], bytes[c], data, good)
    BY <1>1, <1>2, NewestKept DEF n
  <2> QED
    BY <2>1 DEF NewestResult
<1>5. Size(data) \in Nat /\ lost \in Nat /\ n \in Nat
  <2>1. Size(data) \in Nat
    BY ByteLaws
  <2> QED
    BY <1>4, <2>1
<1> HIDE DEF v, ring2, lost
<1>6. Recorded(w, v, c, ring2, w.spool[c], lost)
  <2>1. /\ DOMAIN v = DOMAIN w /\ v.ring = [w.ring EXCEPT ![c] = ring2]
        /\ v.spool = w.spool /\ v.dropped = w.dropped + Size(data) - n
    BY <1>1, <1>3 DEF FreshStage
  <2>2. w.spool = [w.spool EXCEPT ![c] = w.spool[c]]
    BY <1>1
  <2>3. Dropped(v) = Dropped(w) + lost
    BY <1>1, <1>5, <2>1 DEF Dropped, lost
  <2> QED
    BY <2>1, <2>2, <2>3 DEF Recorded
<1>7. Balanced(w, c, data, ring2, w.spool[c], lost)
  <2> DEFINE a == w.spool[c].size
             b == Size(w.ring[c])
             d == Size(data)
  <2>1. a \in Nat /\ b \in Nat /\ d \in Nat
    BY <1>2, ByteLaws DEF SpillFile
  <2>2. Size(ring2) = b + n /\ Held(w, c) = a + b /\ lost = d - n
    BY <1>4 DEF Held, lost
  <2> HIDE DEF a, b, d
  <2>3. a + (b + n) + (d - n) = (a + b) + d
    BY <1>5, <2>1
  <2> QED
    BY <2>2, <2>3 DEF Balanced, a, d
<1>8. CaptureSound(v, [bytes EXCEPT ![c] = Cat(@, data)], [clean EXCEPT ![c] = good])
  BY <1>2, <1>4, <1>5, <1>6, <1>7, RecordedSound
<1>9. [clean EXCEPT ![c] = good] = [clean EXCEPT ![c] = @ /\ ~FALSE]
  BY <1>1, <1>2 DEF good
<1>10. captureNewest(w, c, data).stage = v /\ captureNewest(w, c, data).lost = FALSE
  BY <1>3 DEF Captured
<1> QED
  BY <1>8, <1>9, <1>10 DEF ChunkKept

LEMMA CaptureTail ==
    ASSUME setting \in Runs, NEW w, NEW bytes, NEW clean, CaptureSound(w, bytes, clean), NEW c \in Channels,
           NEW data \in Seq(Bytes), OutputCap > 0, setting.policy # "DropNewest",
           NEW after \in captureTail(w, c, data)
    PROVE  ChunkKept(after, bytes, clean, c, data)
<1> DEFINE r == w.ring[c]
           over == Max({0, Size(data) - (OutputCap - Size(r))})
           k == Min({over, Size(r)})
           j == over - k
           first == SubSeq(r, 1, k)
           second == SubSeq(data, 1, j)
           ring2 == Cat(SubSeq(r, k + 1, Len(r)), SubSeq(data, j + 1, Len(data)))
           good == clean[c]
           Next2(file, refused) == [w EXCEPT !.ring[c] = ring2, !.spool[c] = file, !.dropped = @ + refused]
<1>1. /\ w.ring \in [Channels -> Seq(Bytes)] /\ w.spool \in [Channels -> SpillFile] /\ w.dropped \in Nat
      /\ DOMAIN w = DOMAIN FreshStage /\ Kept(r, w.spool[c], bytes[c], good)
      /\ bytes \in [Channels -> Seq(Bytes)] /\ clean \in [Channels -> BOOLEAN]
  BY DEF CaptureSound, CaptureType, AllKept
<1>2. /\ r \in Seq(Bytes) /\ w.spool[c] \in SpillFile /\ bytes[c] \in Seq(Bytes) /\ OutputCap \in Nat
      /\ good \in BOOLEAN
  BY <1>1, CapType
<1>3. /\ setting.policy = "Spool" =>
            \E s \in Spilled(w.spool[c], first, second) : after = Captured(Next2(s.spool, s.refused), s.lost)
      /\ setting.policy # "Spool" => after = Captured(Next2(w.spool[c], over), FALSE)
  <2> DEFINE spills == IF setting.policy = "Spool" THEN Spilled(w.spool[c], first, second)
                       ELSE {[spool |-> w.spool[c], lost |-> FALSE, refused |-> over]}
  <2>1. captureTail(w, c, data) = {Captured(Next2(s.spool, s.refused), s.lost) : s \in spills}
    BY DEF captureTail, Cat, Size
  <2> HIDE DEF Next2, first, second, over
  <2>2. PICK s \in spills : after = Captured(Next2(s.spool, s.refused), s.lost)
    BY <2>1
  <2>3. CASE setting.policy = "Spool"
    BY <2>2, <2>3
  <2>4. CASE setting.policy # "Spool"
    <3>1. s = [spool |-> w.spool[c], lost |-> FALSE, refused |-> over]
      BY <2>2, <2>4
    <3>2. s.spool = w.spool[c] /\ s.lost = FALSE /\ s.refused = over
      BY <3>1
    <3> QED
      BY <2>2, <2>4, <3>2
  <2> QED
    BY <2>3, <2>4
<1> HIDE DEF over
<1>4. over = IF 0 >= Size(data) - (OutputCap - Size(r)) THEN 0 ELSE Size(data) - (OutputCap - Size(r))
  <2>1. Size(data) - (OutputCap - Size(r)) \in Int
    <3>1. Size(data) \in Nat /\ Size(r) \in Nat
      BY <1>2, ByteLaws
    <3> HIDE DEF r
    <3> QED
      BY <1>2, <3>1
  <2> QED
    BY <2>1, MaxOfTwo DEF over
<1>5. Size(data) \in Nat /\ Size(r) \in Nat /\ Size(r) \in 0 .. OutputCap /\ over \in Nat
  <2>1. Size(data) \in Nat /\ Size(r) \in Nat
    BY <1>2, ByteLaws
  <2>2. Size(r) <= OutputCap
    BY <1>1 DEF Kept, KeptUnder
  <2> QED
    BY <1>2, <1>4, <2>1, <2>2
<1> HIDE DEF k
<1>6. k = IF over <= Size(r) THEN over ELSE Size(r)
  BY <1>5, MinOfTwo DEF k
<1>7. j \in Int /\ j = over - k
  BY <1>5, <1>6
<1> HIDE DEF r, j
<1>8. /\ k \in 0 .. Size(r) /\ j \in 0 .. Size(data) /\ k + j = over /\ (j > 0 => k = Size(r))
      /\ (Size(r) - k) + (Size(data) - j) <= OutputCap
  <2> DEFINE have == Size(r)
             new == Size(data)
  <2>1. /\ OutputCap \in Nat /\ have \in 0 .. OutputCap /\ new \in Nat /\ j \in Int /\ j = over - k
        /\ over = IF 0 >= new - (OutputCap - have) THEN 0 ELSE new - (OutputCap - have)
        /\ k = IF over <= have THEN over ELSE have
    BY <1>2, <1>4, <1>5, <1>6, <1>7
  <2> HIDE DEF have, new
  <2>2. /\ k \in 0 .. have /\ j \in 0 .. new /\ k + j = over /\ (j > 0 => k = have)
        /\ (have - k) + (new - j) <= OutputCap
    BY <2>1, Overflow
  <2> QED
    BY <2>2 DEF have, new
<1>9. k \in 0 .. Len(r) /\ j \in 0 .. Len(data) /\ (j > 0 => k = Len(r))
  BY <1>8 DEF Size
<1>10. /\ first \in Seq(Bytes) /\ Size(first) = k /\ second \in Seq(Bytes) /\ Size(second) = j
       /\ SubSeq(r, k + 1, Len(r)) \in Seq(Bytes) /\ Size(SubSeq(r, k + 1, Len(r))) = Size(r) - k
       /\ SubSeq(data, j + 1, Len(data)) \in Seq(Bytes)
       /\ Size(SubSeq(data, j + 1, Len(data))) = Size(data) - j
  BY <1>2, <1>9, CutAt
<1>11. Cat(r, data) = Cat(Cat(first, second), ring2)
  BY <1>2, <1>9, CutTwo
<1>12. ring2 \in Seq(Bytes) /\ Size(ring2) <= OutputCap
  <2> DEFINE p == SubSeq(r, k + 1, Len(r))
             q == SubSeq(data, j + 1, Len(data))
  <2>2. p \in Seq(Bytes) /\ q \in Seq(Bytes) /\ Size(p) = Size(r) - k /\ Size(q) = Size(data) - j
    BY <1>10
  <2> HIDE DEF p, q
  <2>3. Cat(p, q) \in Seq(Bytes) /\ Size(Cat(p, q)) = Size(p) + Size(q)
    BY <2>2, ByteLaws
  <2>1. ring2 \in Seq(Bytes) /\ Size(ring2) = (Size(r) - k) + (Size(data) - j)
    BY <2>2, <2>3 DEF p, q
  <2> QED
    BY <1>8, <2>1
<1> HIDE DEF first, second, ring2
<1> HIDE DEF good, Next2
<1>13. \E file, refused, lost : /\ after = Captured(Next2(file, refused), lost)
                                /\ lost \in BOOLEAN
                                /\ TailResult(ring2, file, refused, good /\ ~lost, r, w.spool[c], bytes[c], data)
  <2>1. CASE setting.policy = "Spool"
    <3>1. PICK s \in Spilled(w.spool[c], first, second) : after = Captured(Next2(s.spool, s.refused), s.lost)
      BY <1>3, <2>1
    <3>5. PICK a \in spoolAppend(w.spool[c], first) : \E b \in spoolAppend(a.spool, second) :
             s = [spool |-> b.spool, lost |-> a.lost \/ b.lost,
                  refused |-> (IF a.ok THEN 0 ELSE Len(first)) + (IF b.ok THEN 0 ELSE Len(second))]
      BY DEF Spilled
    <3>2. PICK b \in spoolAppend(a.spool, second) :
             s = [spool |-> b.spool, lost |-> a.lost \/ b.lost,
                  refused |-> (IF a.ok THEN 0 ELSE Len(first)) + (IF b.ok THEN 0 ELSE Len(second))]
      BY <3>5
    <3>3. /\ s.spool = b.spool /\ s.lost = (a.lost \/ b.lost)
          /\ s.refused = Refused(a, first) + Refused(b, second)
      BY <3>2 DEF Refused, Size
    <3>4. TailResult(ring2, b.spool, Refused(a, first) + Refused(b, second), good /\ ~(a.lost \/ b.lost),
                     r, w.spool[c], bytes[c], data)
      BY <1>1, <1>2, <1>10, <1>11, <1>12, <2>1, SpillTail
    <3> QED
      BY <3>1, <3>3, <3>4
  <2>2. CASE setting.policy # "Spool"
    <3>1. after = Captured(Next2(w.spool[c], over), FALSE)
      BY <1>3, <2>2
    <3>2. TailResult(ring2, w.spool[c], Size(first) + Size(second), good, r, w.spool[c], bytes[c], data)
      BY <1>1, <1>2, <1>10, <1>11, <1>12, <2>2, DropTail
    <3>3. Size(first) + Size(second) = over /\ (good /\ ~FALSE) = good
      BY <1>2, <1>8, <1>10
    <3> QED
      BY <3>1, <3>2, <3>3
  <2> QED
    BY <2>1, <2>2
<1>14. PICK file, refused, lost : /\ after = Captured(Next2(file, refused), lost)
                                  /\ lost \in BOOLEAN
                                  /\ TailResult(ring2, file, refused, good /\ ~lost, r, w.spool[c], bytes[c], data)
  BY <1>13
<1> DEFINE v == Next2(file, refused)
           good2 == good /\ ~lost
<1>15. good2 \in BOOLEAN /\ file \in SpillFile /\ refused \in Nat
       /\ Kept(ring2, file, Cat(bytes[c], data), good2)
  BY <1>14 DEF TailResult
<1>16. Recorded(w, v, c, ring2, file, refused)
  <2>1. /\ DOMAIN v = DOMAIN w /\ v.ring = [w.ring EXCEPT ![c] = ring2]
        /\ v.spool = [w.spool EXCEPT ![c] = file] /\ v.dropped = w.dropped + refused
    BY <1>1 DEF FreshStage, Next2
  <2> QED
    BY <2>1 DEF Recorded, Dropped
<1>17. Balanced(w, c, data, ring2, file, refused)
  BY <1>14 DEF Balanced, TailResult, Held, r
<1> HIDE DEF v, good2
<1>18. CaptureSound(v, [bytes EXCEPT ![c] = Cat(@, data)], [clean EXCEPT ![c] = good2])
  BY <1>12, <1>15, <1>16, <1>17, RecordedSound
<1>19. [clean EXCEPT ![c] = good2] = [clean EXCEPT ![c] = @ /\ ~lost]
  BY <1>1 DEF good2, good
<1>20. after.stage = v /\ after.lost = lost
  BY <1>14 DEF Captured, v
<1> QED
  BY <1>14, <1>18, <1>19, <1>20 DEF ChunkKept

LEMMA CaptureKeeps ==
    ASSUME setting \in Runs, NEW w, NEW bytes, NEW clean, CaptureSound(w, bytes, clean), NEW c \in Channels,
           NEW data \in Seq(Bytes), NEW after \in capture(w, c, data)
    PROVE  ChunkKept(after, bytes, clean, c, data)
<1>1. OutputCap = 0 \/ OutputCap > 0
  BY CapType
<1>2. CASE OutputCap = 0
  <2>1. after = Captured([w EXCEPT !.ring[c] = @ \o data], FALSE)
    BY <1>2 DEF capture
  <2> QED
    BY <1>2, <2>1, CaptureAll
<1>3. CASE OutputCap > 0 /\ setting.policy = "DropNewest"
  <2>1. after = captureNewest(w, c, data)
    BY <1>3 DEF capture
  <2> QED
    BY <1>3, <2>1, CaptureNewest
<1>4. CASE OutputCap > 0 /\ setting.policy # "DropNewest"
  <2>1. capture(w, c, data) = captureTail(w, c, data)
    <3>1. OutputCap # 0
      BY <1>4, CapType
    <3>2. ~(OutputCap = 0) /\ ~(OutputCap > 0 /\ setting.policy = "DropNewest")
      BY <1>4, <3>1
    <3> QED
      BY <1>4, <3>2, SMTT(30) DEF capture
  <2> QED
    BY <1>4, <2>1, CaptureTail
<1> QED
  BY <1>1, <1>2, <1>3, <1>4

\* It neither starts nor ends a stage.
SameRun(after, w) == after.stage.running = w.running /\ after.stage.done = w.done

LEMMA CaptureRuns ==
    ASSUME setting \in Runs, NEW w, DOMAIN w = DOMAIN FreshStage, NEW c \in Channels, NEW data,
           NEW after \in capture(w, c, data)
    PROVE  SameRun(after, w)
<1>1. OutputCap = 0 \/ OutputCap > 0
  BY CapType
<1>2. CASE OutputCap = 0
  <2>1. after = Captured([w EXCEPT !.ring[c] = @ \o data], FALSE)
    BY <1>2 DEF capture
  <2> QED
    BY <2>1 DEF Captured, FreshStage, SameRun
<1>3. CASE OutputCap > 0 /\ setting.policy = "DropNewest"
  <2>1. after = captureNewest(w, c, data)
    BY <1>3 DEF capture
  <2> QED
    BY <2>1 DEF Captured, captureNewest, FreshStage, SameRun
<1>4. CASE OutputCap > 0 /\ setting.policy # "DropNewest"
  <2>1. capture(w, c, data) = captureTail(w, c, data)
    <3>1. OutputCap # 0
      BY <1>4, CapType
    <3>2. ~(OutputCap = 0) /\ ~(OutputCap > 0 /\ setting.policy = "DropNewest")
      BY <1>4, <3>1
    <3> QED
      BY <1>4, <3>2, SMTT(30) DEF capture
  <2> DEFINE over == Max({0, Len(data) - (OutputCap - Len(w.ring[c]))})
             k == Min({over, Len(w.ring[c])})
             j == over - k
             spills == IF setting.policy = "Spool"
                       THEN Spilled(w.spool[c], SubSeq(w.ring[c], 1, k), SubSeq(data, 1, j))
                       ELSE {[spool |-> w.spool[c], lost |-> FALSE, refused |-> over]}
             ring2 == SubSeq(w.ring[c], k + 1, Len(w.ring[c])) \o SubSeq(data, j + 1, Len(data))
             Next2(s) == [w EXCEPT !.ring[c] = ring2, !.spool[c] = s.spool, !.dropped = @ + s.refused]
  <2>2. captureTail(w, c, data) = {Captured(Next2(s), s.lost) : s \in spills}
    BY DEF captureTail
  <2> HIDE DEF ring2, spills
  <2>3. \A s : Next2(s).running = w.running /\ Next2(s).done = w.done
    BY DEF FreshStage
  <2> HIDE DEF Next2
  <2>4. PICK s \in spills : after = Captured(Next2(s), s.lost)
    BY <2>1, <2>2
  <2> QED
    BY <2>3, <2>4 DEF Captured, SameRun
<1> QED
  BY <1>1, <1>2, <1>3, <1>4

\* Capture looks at the ring, the file and the count of a stage only.
LEMMA SameCapture ==
    ASSUME NEW w, NEW v, NEW bytes, NEW clean, CaptureSound(w, bytes, clean),
           DOMAIN v = DOMAIN w, v.ring = w.ring, v.spool = w.spool, v.dropped = w.dropped
    PROVE  CaptureSound(v, bytes, clean)
<1>1. CaptureType(v, bytes, clean)
  BY DEF CaptureSound, CaptureType
<1>2. AllKept(v, bytes, clean)
  BY DEF CaptureSound, AllKept
<1>3. Counted(v, bytes)
  <2>1. \A c \in {"out", "err"} : Held(v, c) = Held(w, c)
    BY DEF Held
  <2>2. Dropped(v) = Dropped(w)
    BY DEF Dropped
  <2> QED
    BY <2>1, <2>2 DEF CaptureSound, Counted
<1> QED
  BY <1>1, <1>2, <1>3 DEF CaptureSound

NoBytes == [c \in Channels |-> <<>>]
AllClean == [c \in Channels |-> TRUE]

LEMMA FreshCapture ==
    ASSUME setting \in Runs, NEW w, DOMAIN w = DOMAIN FreshStage, w.ring = FreshStage.ring,
           w.spool = FreshStage.spool, w.dropped = FreshStage.dropped
    PROVE  CaptureSound(w, NoBytes, AllClean)
<1>1. /\ w.ring = [c \in Channels |-> <<>>] /\ w.spool = [c \in Channels |-> FreshSpool] /\ w.dropped = 0
  BY DEF FreshStage
<1>2. /\ <<>> \in Seq(Bytes) /\ FreshSpool \in SpillFile /\ FreshSpool.size = 0 /\ Size(<<>>) = 0
      /\ Stored(FreshSpool, <<>>, TRUE)
  BY FreshFile, ByteLaws, EmptySeq
<1>3. CaptureType(w, NoBytes, AllClean)
  BY <1>1, <1>2 DEF CaptureType, NoBytes, AllClean
<1>4. AllKept(w, NoBytes, AllClean)
  <2> SUFFICES ASSUME NEW c \in Channels PROVE Kept(w.ring[c], w.spool[c], NoBytes[c], AllClean[c])
    BY DEF AllKept
  <2>1. w.ring[c] = <<>> /\ w.spool[c] = FreshSpool /\ NoBytes[c] = <<>> /\ AllClean[c] = TRUE
    BY <1>1 DEF NoBytes, AllClean
  <2>2. Cat(<<>>, <<>>) = <<>> /\ Cat(Cat(<<>>, <<>>), <<>>) = <<>>
    BY <1>2, ByteLaws
  <2>3. Kept(<<>>, FreshSpool, <<>>, TRUE)
    <3>1. OutputCap > 0 => Size(<<>>) <= OutputCap
      BY <1>2, CapType
    <3>2. <<>> = Cat(<<>>, <<>>) /\ <<>> = Cat(Cat(<<>>, <<>>), <<>>)
      BY <1>2, <2>2
    <3> QED
      BY <1>2, <3>1, <3>2 DEF Kept, KeptUnder
  <2> QED
    BY <2>1, <2>3
<1>5. Counted(w, NoBytes)
  <2>1. "out" \in Channels /\ "err" \in Channels
    BY DEF Channels
  <2>2. \A c \in Channels : Held(w, c) = 0 + 0 /\ Size(NoBytes[c]) = 0
    BY <1>1, <1>2 DEF Held, NoBytes
  <2>3. Dropped(w) = 0
    BY <1>1 DEF Dropped
  <2> QED
    BY <2>1, <2>2, <2>3 DEF Counted
<1> QED
  BY <1>3, <1>4, <1>5 DEF CaptureSound

\* A first part of the front is a first part of the whole.
LEMMA PartOfFront ==
    ASSUME NEW a \in Seq(Bytes), NEW b \in Seq(Bytes), NEW k \in 0 .. Len(a)
    PROVE  SubSeq(Cat(a, b), 1, k) = SubSeq(a, 1, k)
<1> DEFINE front == SubSeq(a, 1, k)
           back == SubSeq(a, k + 1, Len(a))
<1>1. front \in Seq(Bytes) /\ back \in Seq(Bytes) /\ Size(front) = k /\ Cat(front, back) = a
  BY CutAt
<1> HIDE DEF front, back
<1>2. Cat(a, b) = Cat(front, Cat(back, b)) /\ Cat(back, b) \in Seq(Bytes)
  BY <1>1, ByteLaws
<1>3. SubSeq(front \o Cat(back, b), 1, Len(front)) = front
  BY <1>1, <1>2, SubSeqOfConcat1
<1> QED
  BY <1>1, <1>2, <1>3 DEF Cat, Size, front

\* What is read back of a channel is a first part of its bytes, all the file
\* accepted unless the disk failed.
BackExact(out, ok, file, bytes, clean) ==
    \E k \in 0 .. file.size : out = SubSeq(bytes, 1, k) /\ (clean /\ ok => k = file.size)

LEMMA ReadBackExact ==
    ASSUME NEW file \in SpillFile, NEW disk \in Seq(Bytes), NEW rest \in Seq(Bytes), NEW clean \in BOOLEAN,
           Stored(file, disk, clean), NEW b \in readAll(file)
    PROVE  BackExact(b.out, b.ok, file, Cat(disk, rest), clean)
<1> DEFINE whole == OnDisk(file)
           bytes == Cat(disk, rest)
<1>1. PICK gone \in Seq(Bytes) : disk = Cat(whole, gone) /\ (clean => gone = <<>>)
  BY DEF Stored
<1>2. whole \in Seq(Bytes) /\ Size(disk) = file.size
  BY DEF Stored
<1>3. \/ b = [out |-> whole, ok |-> TRUE]
      \/ \E k \in 0 .. (Len(whole) - 1) : b = [out |-> SubSeq(whole, 1, k), ok |-> FALSE]
  BY DEF readAll, OnDisk, Given, Written, Cat, Size
<1> HIDE DEF whole
<1>4. /\ Size(whole) \in Nat /\ Size(gone) \in Nat /\ file.size = Size(whole) + Size(gone)
      /\ clean => file.size = Size(whole)
  BY <1>1, <1>2, ByteLaws
<1>5. bytes = Cat(whole, Cat(gone, rest)) /\ Cat(gone, rest) \in Seq(Bytes)
  BY <1>1, <1>2, ByteLaws
<1> HIDE DEF bytes
<1>6. \A k \in 0 .. Size(whole) : SubSeq(bytes, 1, k) = SubSeq(whole, 1, k) /\ k \in 0 .. file.size
  <2> SUFFICES ASSUME NEW k \in 0 .. Size(whole)
               PROVE  SubSeq(bytes, 1, k) = SubSeq(whole, 1, k) /\ k \in 0 .. file.size
    OBVIOUS
  <2>1. k \in 0 .. Len(whole)
    BY DEF Size
  <2>2. SubSeq(Cat(whole, Cat(gone, rest)), 1, k) = SubSeq(whole, 1, k)
    BY <1>2, <1>5, <2>1, PartOfFront
  <2>3. k \in 0 .. file.size
    BY <1>4
  <2> QED
    BY <1>5, <2>2, <2>3
<1>7. CASE b = [out |-> whole, ok |-> TRUE]
  <2>1. SubSeq(whole, 1, Size(whole)) = whole
    BY <1>2, SubSeqFull DEF Size
  <2>2. Size(whole) \in 0 .. Size(whole)
    BY <1>4
  <2>3. b.out = SubSeq(bytes, 1, Size(whole)) /\ Size(whole) \in 0 .. file.size
    BY <1>6, <1>7, <2>1, <2>2
  <2> QED
    BY <1>4, <2>3 DEF BackExact, bytes
<1>8. CASE \E k \in 0 .. (Len(whole) - 1) : b = [out |-> SubSeq(whole, 1, k), ok |-> FALSE]
  <2>1. PICK k \in 0 .. (Len(whole) - 1) : b = [out |-> SubSeq(whole, 1, k), ok |-> FALSE]
    BY <1>8
  <2>2. k \in 0 .. Size(whole)
    BY <1>4 DEF Size
  <2>3. b.out = SubSeq(bytes, 1, k) /\ k \in 0 .. file.size /\ b.ok = FALSE
    BY <1>6, <2>1, <2>2
  <2> QED
    BY <2>3 DEF BackExact, bytes
<1> QED
  BY <1>3, <1>7, <1>8

\* The result of one channel.
Assembled(file, ring, out) == IF spoolEmpty(file) THEN ring ELSE out \o ring

ExactOf(result, file, ring, bytes, clean) ==
    \E k \in 0 .. file.size : result = SubSeq(bytes, 1, k) \o ring /\ (clean => k = file.size)

LEMMA ChannelExact ==
    ASSUME setting \in Runs, NEW ring \in Seq(Bytes), NEW file \in SpillFile, NEW bytes \in Seq(Bytes),
           NEW clean \in BOOLEAN, Kept(ring, file, bytes, clean), NEW b \in readAll(file)
    PROVE  ExactOf(Assembled(file, ring, b.out), file, ring, bytes, clean /\ b.ok)
<1>1. file.size \in Nat /\ file.offset = 0
  BY DEF SpillFile
<1>2. spoolEmpty(file) <=> file.size = 0
  BY <1>1 DEF spoolEmpty, remaining
<1>3. CASE file.size = 0
  <2>1. Assembled(file, ring, b.out) = ring
    BY <1>2, <1>3 DEF Assembled
  <2>2. SubSeq(bytes, 1, 0) = <<>> /\ <<>> \o ring = ring
    BY ByteLaws, SubSeqEmpty DEF Cat
  <2>3. 0 \in 0 .. file.size
    BY <1>1
  <2> QED
    BY <1>3, <2>1, <2>2, <2>3 DEF ExactOf
<1>4. CASE file.size # 0
  <2>1. Assembled(file, ring, b.out) = b.out \o ring
    BY <1>2, <1>4 DEF Assembled
  <2>2. OutputCap > 0 /\ setting.policy # "DropNewest"
    <3>1. file # FreshSpool
      BY <1>4, FreshFile
    <3>2. setting.policy = "Spool" /\ OutputCap # 0
      BY <3>1 DEF Kept, KeptUnder
    <3>3. OutputCap \in Nat
      BY CapType
    <3> QED
      BY <3>2, <3>3
  <2>3. PICK disk \in Seq(Bytes), mid \in Seq(Bytes) :
           Stored(file, disk, clean) /\ bytes = Cat(Cat(disk, mid), ring)
    BY <2>2 DEF Kept, KeptUnder
  <2>4. bytes = Cat(disk, Cat(mid, ring)) /\ Cat(mid, ring) \in Seq(Bytes)
    BY <2>3, ByteLaws
  <2>5. BackExact(b.out, b.ok, file, bytes, clean)
    BY <2>3, <2>4, ReadBackExact
  <2>6. PICK k \in 0 .. file.size : b.out = SubSeq(bytes, 1, k) /\ (clean /\ b.ok => k = file.size)
    BY <2>5 DEF BackExact
  <2> QED
    BY <2>1, <2>6 DEF ExactOf
<1> QED
  BY <1>3, <1>4

\* The result that a stage is given from what was read back.
Seen(clean, back) == [c \in Channels |-> clean[c] /\ back[c].ok]

LEMMA ResultAssembled ==
    ASSUME setting \in Runs, NEW w, NEW bytes, NEW clean, CaptureSound(w, bytes, clean), NEW back \in ReadBack(w)
    PROVE  /\ CaptureSound(withResult(w, back), bytes, Seen(clean, back))
           /\ \A c \in Channels : ResultExact(withResult(w, back), c, bytes[c], Seen(clean, back)[c])
<1> DEFINE v == withResult(w, back)
           seen == Seen(clean, back)
<1>1. /\ w.ring \in [Channels -> Seq(Bytes)] /\ w.spool \in [Channels -> SpillFile] /\ w.dropped \in Nat
      /\ DOMAIN w = DOMAIN FreshStage /\ bytes \in [Channels -> Seq(Bytes)] /\ clean \in [Channels -> BOOLEAN]
      /\ \A c \in Channels : Kept(w.ring[c], w.spool[c], bytes[c], clean[c])
  BY DEF CaptureSound, CaptureType, AllKept
<1>2. /\ DOMAIN v = DOMAIN w /\ v.ring = w.ring /\ v.spool = w.spool /\ v.dropped = w.dropped
      /\ v.result = [c \in Channels |-> Assembled(w.spool[c], w.ring[c], back[c].out)]
  BY <1>1 DEF withResult, Assembled, FreshStage
<1>3. \A c \in Channels : back[c] \in readAll(w.spool[c])
  BY DEF ReadBack
<1>4. \A c \in Channels : back[c].ok \in BOOLEAN
  <2> SUFFICES ASSUME NEW c \in Channels PROVE back[c].ok \in BOOLEAN
    OBVIOUS
  <2> DEFINE b == back[c]
             whole == OnDisk(w.spool[c])
  <2>1. \/ b = [out |-> whole, ok |-> TRUE]
        \/ \E k \in 0 .. (Len(whole) - 1) : b = [out |-> SubSeq(whole, 1, k), ok |-> FALSE]
    BY <1>3 DEF readAll, OnDisk, Given, Written, Cat, Size
  <2> HIDE DEF b, whole
  <2>2. b.ok = TRUE \/ b.ok = FALSE
    <3>1. CASE b = [out |-> whole, ok |-> TRUE]
      BY <3>1
    <3>2. CASE \E k \in 0 .. (Len(whole) - 1) : b = [out |-> SubSeq(whole, 1, k), ok |-> FALSE]
      BY <3>2
    <3> QED
      BY <2>1, <3>1, <3>2
  <2> QED
    BY <2>2 DEF b
<1>5. seen \in [Channels -> BOOLEAN] /\ \A c \in Channels : seen[c] = (clean[c] /\ back[c].ok)
  BY <1>1, <1>4 DEF Seen
<1> HIDE DEF v, seen
<1>6. ASSUME NEW c \in Channels PROVE Kept(w.ring[c], w.spool[c], bytes[c], seen[c])
  <2>1. /\ Kept(w.ring[c], w.spool[c], bytes[c], clean[c]) /\ seen[c] \in BOOLEAN /\ clean[c] \in BOOLEAN
        /\ (seen[c] => clean[c])
    BY <1>1, <1>5
  <2>2. \A disk \in Seq(Bytes) : Stored(w.spool[c], disk, clean[c]) => Stored(w.spool[c], disk, seen[c])
    BY <2>1, StoredLess
  <2> QED
    BY <2>1, <2>2 DEF Kept, KeptUnder
<1>7. CaptureSound(v, bytes, seen)
  <2>1. CaptureSound(w, bytes, seen)
    BY <1>1, <1>5, <1>6 DEF CaptureSound, CaptureType, AllKept
  <2> QED
    BY <1>2, <2>1, SameCapture
<1>8. ASSUME NEW c \in Channels PROVE ResultExact(v, c, bytes[c], seen[c])
  <2>1. /\ w.ring[c] \in Seq(Bytes) /\ w.spool[c] \in SpillFile /\ bytes[c] \in Seq(Bytes) /\ clean[c] \in BOOLEAN
        /\ Kept(w.ring[c], w.spool[c], bytes[c], clean[c]) /\ back[c] \in readAll(w.spool[c])
    BY <1>1, <1>3
  <2>2. ExactOf(Assembled(w.spool[c], w.ring[c], back[c].out), w.spool[c], w.ring[c], bytes[c],
                clean[c] /\ back[c].ok)
    BY <2>1, ChannelExact
  <2>3. v.result[c] = Assembled(w.spool[c], w.ring[c], back[c].out)
    BY <1>2
  <2> HIDE DEF Assembled
  <2> QED
    BY <1>2, <1>5, <2>2, <2>3 DEF ResultExact, ExactOf
<1> QED
  BY <1>7, <1>8 DEF v, seen

LEMMA CaptureInvInit == OutputInit => CaptureInv
<1> SUFFICES ASSUME OutputInit PROVE CaptureInv
  OBVIOUS
<1> DEFINE m == [count |-> 0, bytes |-> NoBytes, earlier |-> [c \in Channels |-> 0], reported |-> FALSE,
                 clean |-> AllClean]
<1>1. setting \in Runs /\ stage = [h \in Hosts |-> FreshStage] /\ made = [h \in Hosts |-> m]
  BY DEF OutputInit, NoBytes, AllClean
<1>2. CaptureSound(FreshStage, NoBytes, AllClean)
  BY <1>1, FreshCapture
<1>3. /\ DOMAIN m = MadeFields /\ m.count \in Nat /\ m.bytes = NoBytes /\ m.clean = AllClean /\ m.reported = FALSE
      /\ FreshStage.done = FALSE
  BY DEF MadeFields, FreshStage
<1> HIDE DEF m
<1>4. ResultSound(FreshStage, m)
  BY <1>3 DEF ResultSound, HasResult
<1>5. HostSound(FreshStage, m)
  BY <1>2, <1>3, <1>4 DEF HostSound
<1> QED
  BY <1>1, <1>5 DEF CaptureInv

\* The setting stays, so the invariant is about the next stages and records.
LEMMA EveryHost ==
    ASSUME CaptureInv, setting' = setting, DOMAIN stage' = Hosts, DOMAIN made' = Hosts,
           \A h \in Hosts : HostSound(stage'[h], made'[h])
    PROVE  CaptureInv'
<1>1. Hosts' = Hosts /\ OutputCap' = OutputCap
  BY DEF Hosts, OutputCap
<1>2. setting' \in Runs
  BY DEF CaptureInv
<1> QED
  BY <1>1, <1>2
     DEF CaptureInv, HostSound, CaptureSound, CaptureType, AllKept, Counted, Held, Dropped, Kept,
         ResultSound, HasResult, ResultExact

\* A step that changes one host's stage and record.
LEMMA OneHost ==
    ASSUME CaptureInv, setting' = setting, NEW h \in Hosts, NEW w, NEW m,
           stage' = [stage EXCEPT ![h] = w], made' = [made EXCEPT ![h] = m], HostSound(w, m)
    PROVE  CaptureInv'
<1>1. DOMAIN stage' = Hosts /\ DOMAIN made' = Hosts
  BY DEF CaptureInv
<1>2. \A g \in Hosts : HostSound(stage'[g], made'[g])
  BY <1>1 DEF CaptureInv
<1> QED
  BY <1>1, <1>2, EveryHost

\* A chunk of the host's next bytes.
LEMMA ChunkType ==
    ASSUME CaptureInv, NEW h \in Hosts, NEW c, NEW data \in Chunk(h, c)
    PROVE  data \in Seq(Bytes)
<1>1. PICK classes \in setting.chunks : data = Numbered(h, classes)
  BY DEF Chunk
<1>2. classes \in Seq({"x", "LF", "CR"}) /\ made[h].count \in Nat
  BY RunsAssumption DEF CaptureInv, HostSound
<1>3. Len(classes) \in Nat /\ DOMAIN classes = 1 .. Len(classes)
      /\ \A k \in 1 .. Len(classes) : classes[k] \in {"x", "LF", "CR"}
  BY <1>2, LenProperties, ElementOfSeq
<1>4. data = [k \in 1 .. Len(classes) |-> [c |-> classes[k], n |-> made[h].count + k]]
  BY <1>1, <1>3 DEF Numbered
<1>5. \A k \in 1 .. Len(classes) : [c |-> classes[k], n |-> made[h].count + k] \in Bytes
  BY <1>2, <1>3 DEF Bytes
<1> QED
  BY <1>3, <1>4, <1>5

\* A stage that is still running has no result yet.
LEMMA NoResultYet ==
    ASSUME NEW w, NEW m, ResultSound(w, m), w.running \/ ~w.done
    PROVE  ~HasResult(w, m) /\ ~w.done /\ ~m.reported
BY DEF ResultSound, HasResult

LEMMA ChunkStep ==
    ASSUME CaptureInv, NEW h \in Hosts, NEW c \in Channels, NEW data \in Chunk(h, c),
           stage[h].running, receiveChunk(h, c, data)
    PROVE  CaptureInv'
<1>1. setting \in Runs /\ HostSound(stage[h], made[h]) /\ DOMAIN stage = Hosts /\ DOMAIN made = Hosts
  BY DEF CaptureInv
<1>2. /\ CaptureSound(stage[h], made[h].bytes, made[h].clean) /\ made[h].count \in Nat
      /\ DOMAIN made[h] = MadeFields /\ ResultSound(stage[h], made[h]) /\ made[h].clean \in [Channels -> BOOLEAN]
  BY <1>1 DEF HostSound, CaptureSound, CaptureType
<1>3. data \in Seq(Bytes) /\ Len(data) \in Nat
  BY ChunkType, LenProperties
<1> DEFINE f == onOutput(h, c, data)
<1>4. PICK after \in capture(stage[h], c, data) :
         /\ stage' = [stage EXCEPT ![h] = [after.stage EXCEPT !.framer[c] = Framer(f)]]
         /\ made' = [made EXCEPT ![h].count = @ + Len(data), ![h].bytes[c] = @ \o data,
                                 ![h].clean[c] = @ /\ ~after.lost]
         /\ setting' = setting
  BY DEF receiveChunk
<1> HIDE DEF f
<1> DEFINE v == after.stage
           w == [v EXCEPT !.framer[c] = Framer(f)]
           more == [made[h].bytes EXCEPT ![c] = Cat(@, data)]
           seen == [made[h].clean EXCEPT ![c] = @ /\ ~after.lost]
           m == [made[h] EXCEPT !.count = @ + Len(data), !.bytes = more, !.clean = seen]
<1>5. CaptureSound(v, more, seen)
  <2>1. ChunkKept(after, made[h].bytes, made[h].clean, c, data)
    BY <1>1, <1>2, <1>3, CaptureKeeps
  <2> QED
    BY <2>1 DEF ChunkKept
<1>6. stage' = [stage EXCEPT ![h] = w] /\ made' = [made EXCEPT ![h] = m]
  BY <1>1, <1>2, <1>4 DEF Cat, MadeFields
<1>7. /\ DOMAIN v = DOMAIN FreshStage
      /\ v.running = stage[h].running /\ v.done = stage[h].done
  <2>1. DOMAIN v = DOMAIN FreshStage
    BY <1>5 DEF CaptureSound, CaptureType
  <2>2. DOMAIN stage[h] = DOMAIN FreshStage
    BY <1>2 DEF CaptureSound, CaptureType
  <2>3. SameRun(after, stage[h])
    BY <1>1, <2>2, CaptureRuns
  <2> QED
    BY <2>1, <2>3 DEF SameRun
<1> HIDE DEF v, more, seen
<1>8. /\ DOMAIN w = DOMAIN v /\ w.ring = v.ring /\ w.spool = v.spool /\ w.dropped = v.dropped
      /\ w.running = v.running /\ w.done = v.done
  BY <1>7 DEF FreshStage
<1>9. /\ DOMAIN m = MadeFields /\ m.count \in Nat /\ m.bytes = more /\ m.clean = seen
      /\ m.reported = made[h].reported
  BY <1>2, <1>3 DEF MadeFields
<1> HIDE DEF w, m
<1>10. CaptureSound(w, m.bytes, m.clean)
  BY <1>5, <1>8, <1>9, SameCapture
<1>11. ResultSound(w, m)
  <2>1. ~stage[h].done /\ ~made[h].reported
    BY <1>2, NoResultYet
  <2> QED
    BY <1>7, <1>8, <1>9, <2>1 DEF ResultSound, HasResult
<1>12. HostSound(w, m)
  BY <1>9, <1>10, <1>11 DEF HostSound
<1> QED
  BY <1>4, <1>6, <1>12, OneHost

\* A stage that ended is sound with the result it is given.
LEMMA ResultGiven ==
    ASSUME setting \in Runs, NEW w, NEW bytes, NEW clean, CaptureSound(w, bytes, clean), NEW back \in ReadBack(w),
           w.done, ~w.running, NEW m, DOMAIN m = MadeFields, m.count \in Nat, m.bytes = bytes,
           m.clean = Seen(clean, back)
    PROVE  HostSound(withResult(w, back), m)
<1> DEFINE v == withResult(w, back)
<1>1. CaptureSound(v, bytes, Seen(clean, back))
  BY ResultAssembled
<1>2. \A c \in Channels : ResultExact(v, c, bytes[c], Seen(clean, back)[c])
  BY ResultAssembled
<1>3. v.done = w.done /\ v.running = w.running
  <2>1. DOMAIN w = DOMAIN FreshStage
    BY DEF CaptureSound, CaptureType
  <2> QED
    BY <2>1 DEF withResult, FreshStage
<1> HIDE DEF v
<1>4. ResultSound(v, m)
  BY <1>2, <1>3 DEF ResultSound
<1> QED
  BY <1>1, <1>4 DEF HostSound, v

LEMMA CaptureInvStep == CaptureInv /\ [OutputNext]_outputVars => CaptureInv'
<1> SUFFICES ASSUME CaptureInv, [OutputNext]_outputVars PROVE CaptureInv'
  OBVIOUS
<1>1. /\ setting \in Runs /\ DOMAIN stage = Hosts /\ DOMAIN made = Hosts
      /\ \A h \in Hosts : HostSound(stage[h], made[h])
  BY DEF CaptureInv
<1>2. ASSUME NEW h \in Hosts
      PROVE  /\ CaptureSound(stage[h], made[h].bytes, made[h].clean) /\ made[h].count \in Nat
             /\ DOMAIN made[h] = MadeFields /\ ResultSound(stage[h], made[h])
             /\ DOMAIN stage[h] = DOMAIN FreshStage
  BY <1>1 DEF HostSound, CaptureSound, CaptureType
<1>3. ASSUME NEW h \in Hosts, setting' = setting, made' = made, NEW w, stage' = [stage EXCEPT ![h] = w],
             DOMAIN w = DOMAIN stage[h], w.ring = stage[h].ring, w.spool = stage[h].spool,
             w.dropped = stage[h].dropped, ResultSound(w, made[h])
      PROVE  CaptureInv'
  <2>1. CaptureSound(w, made[h].bytes, made[h].clean)
    BY <1>2, <1>3, SameCapture
  <2>2. HostSound(w, made[h])
    BY <1>2, <1>3, <2>1 DEF HostSound
  <2>3. \A g \in Hosts : HostSound(stage'[g], made'[g])
    BY <1>1, <1>3, <2>2
  <2>4. DOMAIN stage' = Hosts /\ DOMAIN made' = Hosts
    BY <1>1, <1>3
  <2> QED
    BY <1>3, <2>3, <2>4, EveryHost
<1>4. ASSUME NEW h \in Hosts, stageStarted(h) PROVE CaptureInv'
  <2> DEFINE w == [stage[h] EXCEPT !.running = TRUE]
  <2>1. stage' = [stage EXCEPT ![h] = w] /\ setting' = setting /\ made' = made /\ ~stage[h].done
    BY <1>4 DEF stageStarted
  <2>2. DOMAIN w = DOMAIN stage[h] /\ w.ring = stage[h].ring /\ w.spool = stage[h].spool
        /\ w.dropped = stage[h].dropped /\ w.done = stage[h].done
    BY <1>2 DEF FreshStage
  <2> HIDE DEF w
  <2>3. ResultSound(w, made[h])
    BY <1>2, <2>1, <2>2, NoResultYet DEF ResultSound, HasResult
  <2> QED
    BY <1>3, <2>1, <2>2, <2>3
<1>5. ASSUME NEW h \in Hosts, retry(h) PROVE CaptureInv'
  <2> DEFINE w == resetForRetry(stage[h])
             e == [c \in Channels |-> Len(TextsOf(sink.printed, h, c))]
             m == [made[h] EXCEPT !.earlier = e, !.bytes = NoBytes, !.clean = AllClean]
  <2>1. stage' = [stage EXCEPT ![h] = w] /\ setting' = setting /\ stage[h].running
    BY <1>5 DEF retry
  <2>2. made' = [made EXCEPT ![h] = m]
    BY <1>1, <1>2, <1>5 DEF retry, NoBytes, AllClean, MadeFields
  <2> HIDE DEF e
  <2>3. DOMAIN m = MadeFields /\ m.count \in Nat /\ m.bytes = NoBytes /\ m.clean = AllClean
        /\ m.reported = made[h].reported
    BY <1>2 DEF MadeFields
  <2>4. DOMAIN w = DOMAIN FreshStage /\ w.ring = FreshStage.ring /\ w.spool = FreshStage.spool
        /\ w.dropped = FreshStage.dropped /\ w.done = FALSE
    BY DEF resetForRetry, FreshStage
  <2> HIDE DEF w, m
  <2>5. CaptureSound(w, m.bytes, m.clean)
    BY <1>1, <2>3, <2>4, FreshCapture
  <2>6. ResultSound(w, m)
    <3>1. ~made[h].reported
      BY <1>2, <2>1, NoResultYet
    <3> QED
      BY <2>3, <2>4, <3>1 DEF ResultSound, HasResult
  <2>7. HostSound(w, m)
    BY <2>3, <2>5, <2>6 DEF HostSound
  <2> QED
    BY <2>1, <2>2, <2>7, OneHost
<1>6. ASSUME NEW h \in Hosts, stageOver(h) \/ abandon(h) PROVE CaptureInv'
  <2> DEFINE w == [stage[h] EXCEPT !.running = FALSE, !.done = TRUE]
  <2>1. setting' = setting /\ stage[h].running
    BY <1>6 DEF stageOver, abandon
  <2>2. DOMAIN w = DOMAIN stage[h] /\ w.ring = stage[h].ring /\ w.spool = stage[h].spool
        /\ w.dropped = stage[h].dropped /\ w.running = FALSE /\ w.done = TRUE
    BY <1>2 DEF FreshStage
  <2>3. ~made[h].reported
    BY <1>2, <2>1, NoResultYet
  <2>4. CASE ~setting.native
    <3>1. stage' = [stage EXCEPT ![h] = w] /\ made' = made
      BY <1>6, <2>4 DEF stageOver, abandon
    <3> HIDE DEF w
    <3>2. ResultSound(w, made[h])
      BY <2>2, <2>3, <2>4 DEF ResultSound, HasResult
    <3> QED
      BY <1>3, <2>1, <2>2, <3>1, <3>2
  <2>5. CASE setting.native
    <3>1. PICK back \in ReadBack(stage[h]) : /\ stage' = [stage EXCEPT ![h] = withResult(w, back)]
                                             /\ made' = [made EXCEPT ![h] = Cleanly(@, back)]
      BY <1>6, <2>5 DEF stageOver, abandon
    <3> DEFINE m == Cleanly(made[h], back)
    <3>2. /\ DOMAIN m = MadeFields /\ m.count \in Nat /\ m.bytes = made[h].bytes
          /\ m.clean = Seen(made[h].clean, back)
      BY <1>2 DEF Cleanly, Seen, MadeFields
    <3>3. made' = [made EXCEPT ![h] = m]
      BY <1>1, <3>1
    <3> HIDE DEF w, m
    <3>4. CaptureSound(w, made[h].bytes, made[h].clean)
      BY <1>2, <2>2, SameCapture
    <3>5. back \in ReadBack(w)
      BY <2>2, <3>1 DEF ReadBack
    <3>6. HostSound(withResult(w, back), m)
      BY <1>1, <2>2, <3>2, <3>4, <3>5, ResultGiven
    <3> QED
      BY <2>1, <3>1, <3>3, <3>6, OneHost
  <2> QED
    BY <2>4, <2>5
<1>7. ASSUME NEW h \in Hosts, NEW c \in Channels, onReadable(h, c) \/ onData(h, c) PROVE CaptureInv'
  BY <1>7, ChunkStep DEF onReadable, onData
<1>8. ASSUME NEW h \in Hosts, NEW c \in Channels, endOfStream(h, c) PROVE CaptureInv'
  <2> DEFINE w == [stage[h] EXCEPT !.closed[c] = TRUE, !.framer[c] = FreshFramer]
  <2>1. stage' = [stage EXCEPT ![h] = w] /\ setting' = setting /\ made' = made /\ stage[h].running
    BY <1>8 DEF endOfStream
  <2>2. DOMAIN w = DOMAIN stage[h] /\ w.ring = stage[h].ring /\ w.spool = stage[h].spool
        /\ w.dropped = stage[h].dropped /\ w.running = stage[h].running /\ w.done = stage[h].done
    BY <1>2 DEF FreshStage
  <2> HIDE DEF w
  <2>3. ResultSound(w, made[h])
    BY <1>2, <2>1, <2>2, NoResultYet DEF ResultSound, HasResult
  <2> QED
    BY <1>3, <2>1, <2>2, <2>3
<1>9. CASE runFinished
  <2>1. PICK backs \in Results :
           /\ assemble(backs)
           /\ made' = [h \in Hosts |-> [(IF setting.native THEN made[h] ELSE Cleanly(made[h], backs[h]))
                                           EXCEPT !.reported = TRUE]]
    BY <1>9 DEF runFinished
  <2>2. setting' = setting /\ DOMAIN made' = Hosts /\ \A h \in Hosts : stage[h].done
    BY <1>9, <2>1 DEF runFinished
  <2>3. CASE setting.native
    <3>1. stage' = stage /\ \A h \in Hosts : made'[h] = [made[h] EXCEPT !.reported = TRUE]
      BY <2>1, <2>3 DEF assemble
    <3>2. ASSUME NEW h \in Hosts PROVE HostSound(stage'[h], made'[h])
      <4> DEFINE m == [made[h] EXCEPT !.reported = TRUE]
      <4>1. /\ DOMAIN m = MadeFields /\ m.count = made[h].count /\ m.bytes = made[h].bytes
            /\ m.clean = made[h].clean
        BY <1>2 DEF MadeFields
      <4>2. made'[h] = m
        BY <3>1
      <4> HIDE DEF m
      <4>3. ResultSound(stage[h], m)
        BY <1>2, <2>2, <2>3, <4>1 DEF ResultSound, HasResult
      <4>4. HostSound(stage[h], m)
        BY <1>2, <4>1, <4>3 DEF HostSound
      <4> QED
        BY <3>1, <4>2, <4>4
    <3> QED
      BY <1>1, <2>2, <3>1, <3>2, EveryHost
  <2>4. CASE ~setting.native
    <3>1. /\ stage' = [h \in Hosts |-> withResult(stage[h], backs[h])]
          /\ \A h \in Hosts : made'[h] = [Cleanly(made[h], backs[h]) EXCEPT !.reported = TRUE]
      BY <2>1, <2>4 DEF assemble
    <3>2. ASSUME NEW h \in Hosts PROVE HostSound(withResult(stage[h], backs[h]), made'[h])
      <4> DEFINE m == [Cleanly(made[h], backs[h]) EXCEPT !.reported = TRUE]
      <4>1. /\ DOMAIN m = MadeFields /\ m.count \in Nat /\ m.bytes = made[h].bytes
            /\ m.clean = Seen(made[h].clean, backs[h])
        BY <1>2 DEF MadeFields, Cleanly, Seen
      <4>2. made'[h] = m
        BY <3>1
      <4> HIDE DEF m
      <4>3. backs[h] \in ReadBack(stage[h])
        BY DEF Results
      <4>4. ~stage[h].running
        BY <1>2, <2>2 DEF ResultSound
      <4>5. HostSound(withResult(stage[h], backs[h]), m)
        BY <1>1, <1>2, <2>2, <4>1, <4>3, <4>4, ResultGiven
      <4> QED
        BY <4>2, <4>5
    <3>3. DOMAIN stage' = Hosts /\ \A h \in Hosts : HostSound(stage'[h], made'[h])
      BY <3>1, <3>2
    <3> QED
      BY <2>2, <3>3, EveryHost
  <2> QED
    BY <2>3, <2>4
<1>10. CASE UNCHANGED outputVars
  <2>1. setting' = setting /\ stage' = stage /\ made' = made
    BY <1>10 DEF outputVars
  <2> QED
    BY <1>1, <2>1, EveryHost
<1> QED
  BY <1>4, <1>5, <1>6, <1>7, <1>8, <1>9, <1>10 DEF OutputNext

LEMMA FrontIsPrefix ==
    ASSUME NEW a \in Seq(Bytes), NEW b \in Seq(Bytes)
    PROVE  IsPrefix(a, Cat(a, b))
<1>1. Len(a) \in Nat /\ Len(b) \in Nat /\ Len(Cat(a, b)) = Len(a) + Len(b)
  BY LenProperties, ConcatProperties DEF Cat
<1>2. Len(a) \in 0 .. Len(a)
  BY <1>1
<1>3. SubSeq(Cat(a, b), 1, Len(a)) = SubSeq(a, 1, Len(a))
  BY <1>2, PartOfFront
<1> QED
  BY <1>1, <1>3 DEF IsPrefix

LEMMA BackIsSuffix ==
    ASSUME NEW a \in Seq(Bytes), NEW b \in Seq(Bytes)
    PROVE  IsSuffix(b, Cat(a, b))
<1> DEFINE s == Cat(a, b)
           p == Reverse(b)
           q == Reverse(s)
<1>1. /\ s \in Seq(Bytes) /\ Len(s) = Len(a) + Len(b)
      /\ \A i \in 1 .. Len(a) + Len(b) : s[i] = IF i <= Len(a) THEN a[i] ELSE b[i - Len(a)]
  BY ConcatProperties DEF Cat
<1>2. Len(a) \in Nat /\ Len(b) \in Nat
  BY LenProperties
<1> HIDE DEF s
<1>3. \A t \in Seq(Bytes) : /\ Reverse(t) \in Seq(Bytes) /\ Len(Reverse(t)) = Len(t)
                        /\ \A i \in 1 .. Len(t) : Reverse(t)[i] = t[(Len(t) - i) + 1]
  <2> SUFFICES ASSUME NEW t \in Seq(Bytes)
               PROVE  /\ Reverse(t) \in Seq(Bytes) /\ Len(Reverse(t)) = Len(t)
                      /\ \A i \in 1 .. Len(t) : Reverse(t)[i] = t[(Len(t) - i) + 1]
    OBVIOUS
  <2>1. Len(t) \in Nat /\ \A i \in 1 .. Len(t) : t[i] \in Bytes
    BY LenProperties, ElementOfSeq
  <2>2. \A i \in 1 .. Len(t) : (Len(t) - i) + 1 \in 1 .. Len(t)
    BY <2>1
  <2>3. \A i \in 1 .. Len(t) : t[(Len(t) - i) + 1] \in Bytes
    BY <2>1, <2>2
  <2> QED
    BY <2>1, <2>3, IsASeq DEF Reverse
<1>4. /\ p \in Seq(Bytes) /\ Len(p) = Len(b) /\ q \in Seq(Bytes) /\ Len(q) = Len(a) + Len(b)
      /\ \A i \in 1 .. Len(b) : p[i] = b[(Len(b) - i) + 1]
      /\ \A i \in 1 .. Len(a) + Len(b) : q[i] = s[(Len(a) + Len(b) - i) + 1]
  <2>1. Len(p) = Len(b) /\ p \in Seq(Bytes) /\ \A i \in 1 .. Len(b) : p[i] = b[(Len(b) - i) + 1]
    BY <1>3
  <2>2. Len(q) = Len(s) /\ q \in Seq(Bytes) /\ \A i \in 1 .. Len(s) : q[i] = s[(Len(s) - i) + 1]
    BY <1>1, <1>3
  <2> HIDE DEF p, q
  <2> QED
    BY <1>1, <2>1, <2>2
<1> HIDE DEF p, q
<1>5. \A i \in 1 .. Len(b) : q[i] = p[i]
  <2> SUFFICES ASSUME NEW i \in 1 .. Len(b) PROVE q[i] = p[i]
    OBVIOUS
  <2> DEFINE k == (Len(a) + Len(b) - i) + 1
  <2>1. /\ i \in 1 .. Len(a) + Len(b) /\ k \in 1 .. Len(a) + Len(b) /\ ~(k <= Len(a))
        /\ k - Len(a) = (Len(b) - i) + 1
    BY <1>2
  <2>2. q[i] = s[k]
    BY <1>4, <2>1
  <2> HIDE DEF k
  <2>3. s[k] = b[k - Len(a)]
    BY <1>1, <2>1
  <2> QED
    BY <1>4, <2>1, <2>2, <2>3
<1>6. SubSeq(q, 1, Len(b)) = p
  <2>1. \A i \in 1 .. Len(b) : q[i] \in Bytes
    BY <1>4, <1>5, ElementOfSeq
  <2>2. /\ SubSeq(q, 1, Len(b)) \in Seq(Bytes) /\ Len(SubSeq(q, 1, Len(b))) = Len(b)
        /\ \A i \in 1 .. Len(b) : SubSeq(q, 1, Len(b))[i] = q[i]
    BY <1>2, <2>1, SubSeqProperties
  <2> QED
    BY <1>4, <1>5, <2>2, SeqEqual
<1>7. SubSeq(p, 1, Len(p)) = p
  BY <1>4, SubSeqFull
<1> QED
  BY <1>2, <1>4, <1>6, <1>7 DEF IsSuffix, IsPrefix, p, q, s

\* What the invariant says of one channel, in the words of OutputAccounted.
InOrderOf(policy, ring, bytes) == IF policy = "DropNewest" THEN IsPrefix(ring, bytes) ELSE IsSuffix(ring, bytes)

LEMMA RingInOrder ==
    ASSUME setting \in Runs, NEW ring \in Seq(Bytes), NEW file \in SpillFile, NEW bytes \in Seq(Bytes),
           NEW clean, Kept(ring, file, bytes, clean)
    PROVE  InOrderOf(setting.policy, ring, bytes)
<1>1. OutputCap \in Nat
  BY CapType
<1>2. CASE OutputCap = 0
  <2>1. ring = bytes
    BY <1>2 DEF Kept, KeptUnder
  <2>2. Cat(bytes, <<>>) = bytes /\ Cat(<<>>, bytes) = bytes /\ <<>> \in Seq(Bytes)
    BY ByteLaws, EmptySeq
  <2>3. IsPrefix(bytes, Cat(bytes, <<>>)) /\ IsSuffix(bytes, Cat(<<>>, bytes))
    BY <2>2, FrontIsPrefix, BackIsSuffix
  <2> QED
    BY <2>1, <2>2, <2>3 DEF InOrderOf
<1>3. CASE OutputCap > 0 /\ setting.policy = "DropNewest"
  <2>1. PICK mid \in Seq(Bytes) : bytes = Cat(ring, mid)
    BY <1>3 DEF Kept, KeptUnder
  <2>2. IsPrefix(ring, bytes)
    BY <2>1, FrontIsPrefix
  <2> QED
    BY <1>3, <2>2 DEF InOrderOf
<1>4. CASE OutputCap > 0 /\ setting.policy # "DropNewest"
  <2>1. PICK disk \in Seq(Bytes), mid \in Seq(Bytes) : bytes = Cat(Cat(disk, mid), ring)
    BY <1>4 DEF Kept, KeptUnder
  <2>2. Cat(disk, mid) \in Seq(Bytes)
    BY ByteLaws
  <2>3. IsSuffix(ring, bytes)
    BY <2>1, <2>2, BackIsSuffix
  <2> QED
    BY <1>4, <2>3 DEF InOrderOf
<1> QED
  BY <1>1, <1>2, <1>3, <1>4

LEMMA SpoolDropsNothing ==
    ASSUME setting \in Runs, setting.policy = "Spool", NEW ring \in Seq(Bytes), NEW file \in SpillFile,
           NEW bytes \in Seq(Bytes), NEW clean, Kept(ring, file, bytes, clean), ~file.failed
    PROVE  file.size + Size(ring) = Size(bytes)
<1>1. OutputCap \in Nat /\ Size(ring) \in Nat /\ file.size \in Nat
  BY CapType, ByteLaws DEF SpillFile
<1>2. CASE OutputCap = 0
  <2>1. ring = bytes /\ file.size = 0
    BY <1>2, FreshFile DEF Kept, KeptUnder
  <2> QED
    BY <1>1, <2>1
<1>3. CASE OutputCap > 0
  <2>1. PICK disk \in Seq(Bytes), mid \in Seq(Bytes) :
           Stored(file, disk, clean) /\ bytes = Cat(Cat(disk, mid), ring) /\ mid = <<>>
    BY <1>3 DEF Kept, KeptUnder
  <2>2. bytes = Cat(disk, ring) /\ Size(disk) = file.size
    BY <2>1, ByteLaws DEF Stored
  <2>3. Size(Cat(disk, ring)) = Size(disk) + Size(ring)
    BY ByteLaws
  <2> QED
    BY <2>2, <2>3
<1> QED
  BY <1>1, <1>2, <1>3

LEMMA CaptureInvSuffices == CaptureInv => OutputAccounted
<1> SUFFICES ASSUME CaptureInv, NEW h \in Hosts
             PROVE  /\ Accepted(stage[h], "out") + Accepted(stage[h], "err") + stage[h].dropped
                          = Len(made[h].bytes["out"]) + Len(made[h].bytes["err"])
                    /\ \A c \in Channels :
                          /\ OutputCap > 0 => Len(stage[h].ring[c]) <= OutputCap
                          /\ OutputCap = 0 => stage[h].ring[c] = made[h].bytes[c]
                          /\ (setting.policy = "Spool" /\ ~stage[h].spool[c].failed)
                                => Accepted(stage[h], c) = Len(made[h].bytes[c])
                          /\ InOrderOf(setting.policy, stage[h].ring[c], made[h].bytes[c])
                          /\ made[h].reported => ResultExact(stage[h], c, made[h].bytes[c], made[h].clean[c])
  BY DEF OutputAccounted, InOrderOf
<1> DEFINE w == stage[h]
           bytes == made[h].bytes
           clean == made[h].clean
<1>1. setting \in Runs /\ CaptureSound(w, bytes, clean) /\ ResultSound(w, made[h])
  BY DEF CaptureInv, HostSound
<1> HIDE DEF w, bytes, clean
<1>2. \A c \in Channels : /\ w.ring[c] \in Seq(Bytes) /\ w.spool[c] \in SpillFile /\ bytes[c] \in Seq(Bytes)
                          /\ Kept(w.ring[c], w.spool[c], bytes[c], clean[c])
  BY <1>1 DEF CaptureSound, CaptureType, AllKept
<1>3. \A c : Accepted(w, c) = Held(w, c)
  BY DEF Accepted, Held, Size
<1>4. Accepted(w, "out") + Accepted(w, "err") + w.dropped = Len(bytes["out"]) + Len(bytes["err"])
  <2>1. Held(w, "out") + Held(w, "err") + w.dropped = Len(bytes["out"]) + Len(bytes["err"])
    BY <1>1 DEF CaptureSound, Counted, Dropped, Size
  <2>2. Accepted(w, "out") = Held(w, "out") /\ Accepted(w, "err") = Held(w, "err")
    BY <1>3
  <2> QED
    BY <2>1, <2>2
<1>5. ASSUME NEW c \in Channels
      PROVE  /\ OutputCap > 0 => Len(w.ring[c]) <= OutputCap
             /\ OutputCap = 0 => w.ring[c] = bytes[c]
             /\ (setting.policy = "Spool" /\ ~w.spool[c].failed) => Accepted(w, c) = Len(bytes[c])
             /\ InOrderOf(setting.policy, w.ring[c], bytes[c])
  <2>1. /\ w.ring[c] \in Seq(Bytes) /\ w.spool[c] \in SpillFile /\ bytes[c] \in Seq(Bytes)
        /\ Kept(w.ring[c], w.spool[c], bytes[c], clean[c])
    BY <1>2
  <2>2. (OutputCap > 0 => Len(w.ring[c]) <= OutputCap) /\ (OutputCap = 0 => w.ring[c] = bytes[c])
    BY <2>1 DEF Kept, KeptUnder, Size
  <2>3. ASSUME setting.policy = "Spool", ~w.spool[c].failed PROVE Accepted(w, c) = Len(bytes[c])
    <3>1. w.spool[c].size + Size(w.ring[c]) = Size(bytes[c])
      BY <1>1, <2>1, <2>3, SpoolDropsNothing
    <3> QED
      BY <3>1 DEF Accepted, Size
  <2>4. InOrderOf(setting.policy, w.ring[c], bytes[c])
    BY <1>1, <2>1, RingInOrder
  <2> QED
    BY <2>2, <2>3, <2>4
<1>6. ASSUME NEW c \in Channels, made[h].reported PROVE ResultExact(w, c, bytes[c], clean[c])
  BY <1>1, <1>6 DEF ResultSound, HasResult, bytes, clean
<1> QED
  BY <1>4, <1>5, <1>6 DEF w, bytes, clean

(***************************************************************************)
(* For any cap, policy and number of stages, however the output is cut     *)
(* into chunks, whichever calls of the disk fail (an append, a flush of    *)
(* what was accepted before, a read-back) and however often a stage is     *)
(* retried: every byte of the current attempt is in memory, was accepted   *)
(* by the spill file or is counted as dropped, and a result is the part    *)
(* the file accepted, cut short only by the disk, before the part in       *)
(* memory (process_manager.cpp capture, resetForRetry and executeRemote,   *)
(* native_controller.cpp onData and finish, spool_buffer.hpp).             *)
(***************************************************************************)
THEOREM OutputIsAccounted == OutputSpec => []OutputAccounted
BY CaptureInvInit, CaptureInvStep, CaptureInvSuffices, PTL DEF OutputSpec

-----------------------------------------------------------------------------
(* Flow control.  CreditInv is inductive as it stands: conservation bounds  *)
(* every counter by Window, which is what makes onData accept and the       *)
(* overflow check pass.                                                     *)

LEMMA ThresholdType == Threshold \in Nat /\ Threshold <= Window
BY WindowAssumption DEF Threshold

LEMMA CreditInvInit == Init => CreditInv
<1> SUFFICES ASSUME Init PROVE CreditInv
  OBVIOUS
<1>1. TypeOK
  BY WindowAssumption DEF Init, TypeOK
<1>2. CreditConserved /\ NoStrandedCredit
  BY WindowAssumption DEF Init, CreditConserved, NoStrandedCredit
<1>3. NeverViolated
  BY DEF Init, NeverViolated
<1> QED BY <1>1, <1>2, <1>3 DEF CreditInv

LEMMA CreditInvStep == CreditInv /\ [Next]_vars => CreditInv'
<1> SUFFICES ASSUME CreditInv, [Next]_vars PROVE CreditInv'
  OBVIOUS
<1> USE WindowAssumption, ThresholdType
<1> USE DEF CreditInv, TypeOK, CreditConserved, NeverViolated, NoStrandedCredit
<1>1. ASSUME NEW k \in 1 .. Window, Transmit(k) PROVE CreditInv'
  BY <1>1 DEF Transmit
<1>2. ASSUME NEW k \in 1 .. Window, Deliver(k) PROVE CreditInv'
  BY <1>2 DEF Deliver, Sendable
<1>3. ASSUME NEW k \in 1 .. Window, Consume(k) PROVE CreditInv'
  <2>1. CASE Advertises(outstanding - k, pendingUpdate + k)
    BY <1>3, <2>1 DEF Consume
  <2>2. CASE ~Advertises(outstanding - k, pendingUpdate + k)
    BY <1>3, <2>2 DEF Consume, Advertises
  <2> QED BY <2>1, <2>2
<1>4. ASSUME NEW d \in 1 .. Window, NEW k \in 0 .. Window, Grant(d, k)
      PROVE CreditInv'
  BY <1>4 DEF Grant
<1>5. CASE Close
  BY <1>5 DEF Close
<1>6. CASE UNCHANGED vars
  BY <1>6 DEF vars
<1> QED
  BY <1>1, <1>2, <1>3, <1>4, <1>5, <1>6 DEF Next

\* For every window size and every interleaving of sends, deliveries,
\* consumption and updates: credit is conserved (session.cpp sendCredit and
\* credit_window.cpp), no honest frame is refused, and none is stranded.
THEOREM FlowControlCorrect == Spec => []CreditInv
BY CreditInvInit, CreditInvStep, PTL DEF Spec
=============================================================================
