--------------------------- MODULE ConnectionProofs ---------------------------
(***************************************************************************)
(* Proofs about Connection, for every scenario, socket capacity and lease: *)
(* what a session is handed is a prefix of what an authorized peer sent,   *)
(* nothing is stranded, a lease expires on silent peers only, and failed   *)
(* connections are reaped.  LinkOk is the invariant of one connection; the *)
(* lemmas on it follow the operators of TlsStream and NativeTransport.     *)
(***************************************************************************)
EXTENDS Connection, SequenceTheorems, FiniteSetTheorems, NaturalsInduction, WellFoundedInduction, TLAPS

FrameKinds == {"CH", "SF", "CF", "ping", "pong", "bad", "data"}
Flights == {"CH", "SF", "CF"}
AnyFrame == [t : FrameKinds, n : Nat]
Wire == Seq(AnyFrame)
Causes == {"none", "connect", "lease", "unauthorized", "handshake", "write", "reset", "closed", "protocol"}
Addresses == {"up", "local", "refused", "timeout"}

\* The types of one end and of a connection.
EndType ==
    [life : {"none", "live", "gone"}, connectConfirmed : BOOLEAN, token : BOOLEAN, wantWrite : BOOLEAN,
     hs : {"start", "wait", "done"}, established : BOOLEAN, streamFailed : BOOLEAN,
     outbound : Wire, fed : Wire, ready : BOOLEAN, failed : BOOLEAN, cause : Causes, timer : BOOLEAN,
     sawInbound : BOOLEAN, missedBeats : Nat, addressCursor : Nat,
     sent : Nat, got : Wire, silent : Nat, ticks : Nat, badSeen : BOOLEAN]

LinkType ==
    [end : [Sides -> EndType], to : [Sides -> Wire], shut : [Sides -> BOOLEAN],
     tcp : BOOLEAN, cut : BOOLEAN, everCut : BOOLEAN, reset : BOOLEAN]

\* The data frames of s are those numbered a + 1 to b, in order: c counts them.
Counts(c, s, a, b) ==
    /\ c \in [0 .. Len(s) -> Nat] /\ c[0] = a /\ c[Len(s)] = b
    /\ \A i \in 0 .. Len(s) : c[i] <= b
    /\ \A i, j \in 0 .. Len(s) : i <= j => c[i] <= c[j]
    /\ \A i \in 1 .. Len(s) :
        IF s[i].t = "data" THEN c[i] = c[i - 1] + 1 /\ s[i].n = c[i] ELSE c[i] = c[i - 1]
Runs(s, a, b) == \E c : Counts(c, s, a, b)

-----------------------------------------------------------------------------
(* Sequences of frames *)

LEMMA RunsEmpty ==
    ASSUME NEW a \in Nat PROVE Runs(<<>>, a, a) /\ \A b : Runs(<<>>, a, b) => b = a
<1>1. Counts([i \in 0 .. 0 |-> a], <<>>, a, a)
  BY DEF Counts
<1>2. \A b : Runs(<<>>, a, b) => b = a
  BY DEF Runs, Counts
<1>3. QED
  BY <1>1, <1>2 DEF Runs

LEMMA RunsBounds ==
    ASSUME NEW s \in Wire, NEW a, NEW b, Runs(s, a, b) PROVE a \in Nat /\ b \in Nat /\ a <= b
<1>1. PICK c : Counts(c, s, a, b)
  BY DEF Runs
<1>2. Len(s) \in Nat
  BY LenProperties DEF Wire
<1>3. 0 \in 0 .. Len(s) /\ Len(s) \in 0 .. Len(s)
  BY <1>2
<1>4. QED
  BY <1>1, <1>3 DEF Counts

\* A frame at the end.
LEMMA RunsAppend ==
    ASSUME NEW s \in Wire, NEW a, NEW b, Runs(s, a, b), NEW f \in AnyFrame
    PROVE  /\ f.t # "data" => Runs(Append(s, f), a, b)
           /\ f.t = "data" /\ f.n = b + 1 => Runs(Append(s, f), a, b + 1)
<1> DEFINE n == Len(s)
           t == Append(s, f)
<1>1. n \in Nat /\ Len(t) = n + 1 /\ t[n + 1] = f /\ \A i \in 1 .. n : t[i] = s[i]
  BY LenProperties, AppendProperties DEF Wire
<1>2. PICK c : Counts(c, s, a, b)
  BY DEF Runs
<1> HIDE DEF t, n
<1>3. a \in Nat /\ b \in Nat /\ a <= b
  BY RunsBounds
<1>4. /\ c \in [0 .. n -> Nat] /\ c[0] = a /\ c[n] = b /\ (\A i \in 0 .. n : c[i] <= b)
      /\ \A i, j \in 0 .. n : i <= j => c[i] <= c[j]
      /\ \A i \in 1 .. n : IF s[i].t = "data" THEN c[i] = c[i - 1] + 1 /\ s[i].n = c[i] ELSE c[i] = c[i - 1]
  BY <1>2 DEF Counts, n
<1>5. ASSUME NEW d \in {b, b + 1}, IF f.t = "data" THEN d = b + 1 /\ f.n = d ELSE d = b
      PROVE  Runs(t, a, d)
  <2> DEFINE e == [i \in 0 .. n + 1 |-> IF i = n + 1 THEN d ELSE c[i]]
  <2>1. e \in [0 .. n + 1 -> Nat] /\ e[0] = a /\ e[n + 1] = d /\ e[n] = b
    BY <1>1, <1>3, <1>4
  <2>2. \A i \in 0 .. n : e[i] = c[i]
    BY <1>1
  <2>3. \A i \in 0 .. n + 1 : i = n + 1 \/ i \in 0 .. n
    BY <1>1
  <2> HIDE DEF e
  <2>4. \A i \in 0 .. n + 1 : e[i] <= d
    BY <1>3, <1>4, <2>1, <2>2, <2>3
  <2>5. \A i, j \in 0 .. n + 1 : i <= j => e[i] <= e[j]
    <3>1. SUFFICES ASSUME NEW i \in 0 .. n + 1, NEW j \in 0 .. n + 1, i <= j PROVE e[i] <= e[j]
      OBVIOUS
    <3>2. CASE j = n + 1
      BY <2>1, <2>4, <3>2
    <3>3. CASE j \in 0 .. n
      BY <1>1, <1>4, <2>2, <3>1, <3>3
    <3>4. QED
      BY <2>3, <3>2, <3>3
  <2>6. ASSUME NEW i \in 1 .. n + 1
        PROVE  IF t[i].t = "data" THEN e[i] = e[i - 1] + 1 /\ t[i].n = e[i] ELSE e[i] = e[i - 1]
    <3>1. CASE i = n + 1
      BY <1>1, <1>3, <1>5, <2>1, <3>1
    <3>2. CASE i \in 1 .. n
      <4>1. i \in 0 .. n /\ i - 1 \in 0 .. n
        BY <1>1, <3>2
      <4>2. QED
        BY <1>1, <1>4, <2>2, <3>2, <4>1
    <3>3. QED
      BY <1>1, <3>1, <3>2
  <2>7. Counts(e, t, a, d)
    BY <1>1, <2>1, <2>4, <2>5, <2>6 DEF Counts
  <2>8. QED
    BY <2>7 DEF Runs
<1>6. f.t # "data" => Runs(t, a, b)
  BY <1>5
<1>7. f.t = "data" /\ f.n = b + 1 => Runs(t, a, b + 1)
  BY <1>5
<1>8. QED
  BY <1>6, <1>7 DEF t

\* The first frame.
LEMMA RunsTail ==
    ASSUME NEW s \in Wire, NEW a, NEW b, Runs(s, a, b), s # <<>>
    PROVE  /\ Head(s).t # "data" => Runs(Tail(s), a, b)
           /\ Head(s).t = "data" => Head(s).n = a + 1 /\ Runs(Tail(s), a + 1, b)
<1> DEFINE n == Len(s)
           t == Tail(s)
<1>1. n \in Nat /\ n # 0 /\ Len(t) = n - 1 /\ Head(s) = s[1] /\ \A i \in 1 .. n - 1 : t[i] = s[i + 1]
  BY LenProperties, HeadTailProperties, EmptySeq DEF Wire
<1>2. PICK c : Counts(c, s, a, b)
  BY DEF Runs
<1>3. a \in Nat /\ b \in Nat /\ a <= b
  BY RunsBounds
<1> HIDE DEF t, n
<1>4. /\ c \in [0 .. n -> Nat] /\ c[0] = a /\ c[n] = b /\ (\A i \in 0 .. n : c[i] <= b)
      /\ \A i, j \in 0 .. n : i <= j => c[i] <= c[j]
      /\ \A i \in 1 .. n : IF s[i].t = "data" THEN c[i] = c[i - 1] + 1 /\ s[i].n = c[i] ELSE c[i] = c[i - 1]
  BY <1>2 DEF Counts, n
<1> DEFINE e == [i \in 0 .. n - 1 |-> c[i + 1]]
<1>5. e \in [0 .. n - 1 -> Nat] /\ e[0] = c[1] /\ e[n - 1] = b /\ \A i \in 0 .. n - 1 : e[i] = c[i + 1]
  BY <1>1, <1>4
<1> HIDE DEF e
<1>6. \A i \in 0 .. n - 1 : e[i] <= b
  BY <1>1, <1>4, <1>5
<1>7. \A i, j \in 0 .. n - 1 : i <= j => e[i] <= e[j]
  BY <1>1, <1>4, <1>5
<1>8. ASSUME NEW i \in 1 .. n - 1
      PROVE  IF t[i].t = "data" THEN e[i] = e[i - 1] + 1 /\ t[i].n = e[i] ELSE e[i] = e[i - 1]
  <2>1. i \in 0 .. n - 1 /\ i - 1 \in 0 .. n - 1 /\ i + 1 \in 1 .. n /\ (i + 1) - 1 = i /\ (i - 1) + 1 = i
    BY <1>1
  <2>2. e[i] = c[i + 1] /\ e[i - 1] = c[i] /\ t[i] = s[i + 1]
    BY <1>1, <1>5, <2>1
  <2>3. QED
    BY <1>4, <2>1, <2>2
<1>9. Counts(e, t, c[1], b)
  BY <1>1, <1>5, <1>6, <1>7, <1>8 DEF Counts
<1>10. Runs(t, c[1], b)
  BY <1>9 DEF Runs
<1>11. 1 \in 1 .. n /\ 1 - 1 = 0
  BY <1>1
<1>12. IF s[1].t = "data" THEN c[1] = a + 1 /\ s[1].n = c[1] ELSE c[1] = a
  BY <1>4, <1>11
<1>13. QED
  BY <1>1, <1>10, <1>12 DEF t

\* A prefix.
LEMMA RunsPrefix ==
    ASSUME NEW s \in Wire, NEW t \in Wire, NEW a, NEW b, Runs(s \o t, a, b)
    PROVE  \E m \in Nat : m <= b /\ Runs(s, a, m)
<1> DEFINE u == s \o t
           n == Len(s)
<1>1. u \in Wire /\ n \in Nat /\ Len(u) \in Nat /\ n <= Len(u) /\ \A i \in 1 .. n : u[i] = s[i]
  BY LenProperties, ConcatProperties DEF Wire
<1>2. PICK c : Counts(c, u, a, b)
  BY DEF Runs
<1> HIDE DEF u, n
<1>3. \A i \in 0 .. n : i \in 0 .. Len(u)
  BY <1>1
<1>4. /\ c \in [0 .. Len(u) -> Nat] /\ c[0] = a /\ (\A i \in 0 .. Len(u) : c[i] <= b)
      /\ \A i, j \in 0 .. Len(u) : i <= j => c[i] <= c[j]
      /\ \A i \in 1 .. Len(u) : IF u[i].t = "data" THEN c[i] = c[i - 1] + 1 /\ u[i].n = c[i] ELSE c[i] = c[i - 1]
  BY <1>2 DEF Counts
<1> DEFINE e == [i \in 0 .. n |-> c[i]]
<1>5. e \in [0 .. n -> Nat] /\ e[0] = a /\ \A i \in 0 .. n : e[i] = c[i]
  BY <1>1, <1>3, <1>4
<1> HIDE DEF e
<1>6. n \in 0 .. n /\ n \in 0 .. Len(u)
  BY <1>1
<1>7. (\A i \in 0 .. n : e[i] <= e[n]) /\ \A i, j \in 0 .. n : i <= j => e[i] <= e[j]
  <2>1. ASSUME NEW i \in 0 .. n, NEW j \in 0 .. n, i <= j PROVE e[i] <= e[j]
    BY <1>3, <1>4, <1>5, <2>1
  <2>2. \A i \in 0 .. n : i <= n
    BY <1>1
  <2>3. QED
    BY <1>6, <2>1, <2>2
<1>8. ASSUME NEW i \in 1 .. n
      PROVE  IF s[i].t = "data" THEN e[i] = e[i - 1] + 1 /\ s[i].n = e[i] ELSE e[i] = e[i - 1]
  <2>1. i \in 0 .. n /\ i - 1 \in 0 .. n /\ i \in 1 .. Len(u)
    BY <1>1
  <2>2. e[i] = c[i] /\ e[i - 1] = c[i - 1] /\ u[i] = s[i]
    BY <1>1, <1>5, <2>1
  <2>3. QED
    BY <1>4, <2>1, <2>2
<1>9. Counts(e, s, a, e[n])
  BY <1>5, <1>7, <1>8 DEF Counts, n
<1>10. Runs(s, a, e[n]) /\ e[n] \in Nat /\ e[n] <= b
  BY <1>4, <1>5, <1>6, <1>9 DEF Runs
<1>11. QED
  BY <1>10

-----------------------------------------------------------------------------
(* What is in order on the way to a session, and how many flights come first. *)

\* n data frames were handed up and the rest of the sender's follow in s, to
\* the last one unless the sender is gone.
InOrder(s, n, sent, gone) ==
    \E m \in Nat : m <= sent /\ Runs(s, n, m) /\ (~gone => m = sent)

\* The first d records of s are its flights; before the sender's handshake is done
\* there is nothing else.
Flown(s, d, done, gone) ==
    /\ d \in Nat
    /\ ~done => Len(s) <= d
    /\ ~gone => d <= Len(s)
    /\ \A i \in 1 .. Len(s) : i <= d <=> s[i].t \in Flights

LEMMA InOrderAppend ==
    ASSUME NEW s \in Wire, NEW n, NEW sent \in Nat, NEW gone \in BOOLEAN, InOrder(s, n, sent, gone),
           NEW f \in AnyFrame
    PROVE  /\ f.t # "data" => InOrder(Append(s, f), n, sent, gone)
           /\ f = Data(sent + 1) /\ ~gone => InOrder(Append(s, f), n, sent + 1, gone)
<1>1. PICK m \in Nat : m <= sent /\ Runs(s, n, m) /\ (~gone => m = sent)
  BY DEF InOrder
<1>2. f.t # "data" => Runs(Append(s, f), n, m)
  BY <1>1, RunsAppend
<1>3. f = Data(sent + 1) /\ ~gone => Runs(Append(s, f), n, sent + 1)
  <2>1. f = Data(sent + 1) => f.t = "data" /\ f.n = sent + 1
    BY DEF Data
  <2>2. QED
    BY <1>1, <2>1, RunsAppend
<1>4. QED
  BY <1>1, <1>2, <1>3 DEF InOrder

LEMMA InOrderTail ==
    ASSUME NEW s \in Wire, NEW n \in Nat, NEW sent \in Nat, NEW gone \in BOOLEAN, InOrder(s, n, sent, gone), s # <<>>
    PROVE  /\ Head(s).t # "data" => InOrder(Tail(s), n, sent, gone)
           /\ Head(s).t = "data" => Head(s) = Data(n + 1) /\ n + 1 <= sent /\ InOrder(Tail(s), n + 1, sent, gone)
<1>1. PICK m \in Nat : m <= sent /\ Runs(s, n, m) /\ (~gone => m = sent)
  BY DEF InOrder
<1>2. /\ Head(s).t # "data" => Runs(Tail(s), n, m)
      /\ Head(s).t = "data" => Head(s).n = n + 1 /\ Runs(Tail(s), n + 1, m)
  BY <1>1, RunsTail
<1>3. Tail(s) \in Wire /\ Head(s) \in AnyFrame
  BY HeadTailProperties DEF Wire
<1>4. Head(s).t = "data" => Head(s) = Data(n + 1)
  BY <1>2, <1>3 DEF Data, AnyFrame
<1>5. Head(s).t = "data" => n + 1 <= m
  BY <1>2, <1>3, RunsBounds
<1>6. QED
  BY <1>1, <1>2, <1>4, <1>5 DEF InOrder

LEMMA InOrderPrefix ==
    ASSUME NEW s \in Wire, NEW t \in Wire, NEW n, NEW sent \in Nat, NEW gone, InOrder(s \o t, n, sent, gone)
    PROVE  InOrder(s, n, sent, TRUE)
<1>1. PICK m \in Nat : m <= sent /\ Runs(s \o t, n, m)
  BY DEF InOrder
<1>2. PICK i \in Nat : i <= m /\ Runs(s, n, i)
  BY <1>1, RunsPrefix
<1>3. i <= sent
  BY <1>1, <1>2
<1>4. QED
  BY <1>2, <1>3 DEF InOrder

LEMMA FlownAppend ==
    ASSUME NEW s \in Wire, NEW d, NEW f \in AnyFrame
    PROVE  /\ Flown(s, d, TRUE, FALSE) /\ f.t \notin Flights => Flown(Append(s, f), d, TRUE, FALSE)
           /\ Flown(s, d, FALSE, FALSE) /\ f.t \in Flights =>
                \A done \in BOOLEAN : Flown(Append(s, f), d + 1, done, FALSE)
<1> DEFINE t == Append(s, f)
<1>1. Len(s) \in Nat /\ Len(t) = Len(s) + 1 /\ t[Len(s) + 1] = f /\ \A i \in 1 .. Len(s) : t[i] = s[i]
  BY LenProperties, AppendProperties DEF Wire
<1>2. \A i \in 1 .. Len(s) + 1 : i = Len(s) + 1 \/ i \in 1 .. Len(s)
  BY <1>1
<1> HIDE DEF t
<1>3. Flown(s, d, TRUE, FALSE) /\ f.t \notin Flights => Flown(t, d, TRUE, FALSE)
  BY <1>1, <1>2 DEF Flown
<1>4. Flown(s, d, FALSE, FALSE) /\ f.t \in Flights => \A done \in BOOLEAN : Flown(t, d + 1, done, FALSE)
  <2>1. SUFFICES ASSUME Flown(s, d, FALSE, FALSE), f.t \in Flights, NEW done \in BOOLEAN
                 PROVE  Flown(t, d + 1, done, FALSE)
    OBVIOUS
  <2>2. d \in Nat /\ d = Len(s) /\ \A i \in 1 .. Len(s) : s[i].t \in Flights
    BY <1>1, <2>1 DEF Flown
  <2>3. QED
    BY <1>1, <1>2, <2>1, <2>2 DEF Flown
<1>5. QED
  BY <1>3, <1>4 DEF t

LEMMA FlownTail ==
    ASSUME NEW s \in Wire, NEW d \in Nat, NEW done \in BOOLEAN, NEW gone \in BOOLEAN, Flown(s, d, done, gone), s # <<>>
    PROVE  /\ d # 0 => Head(s).t \in Flights /\ Flown(Tail(s), d - 1, done, gone)
           /\ d = 0 => done /\ Head(s).t \notin Flights /\ Flown(Tail(s), d, done, gone)
<1> DEFINE t == Tail(s)
<1>1. Len(s) \in Nat /\ Len(s) # 0 /\ Len(t) = Len(s) - 1 /\ Head(s) = s[1] /\ \A i \in 1 .. Len(s) - 1 : t[i] = s[i + 1]
  BY LenProperties, HeadTailProperties, EmptySeq DEF Wire
<1> HIDE DEF t
<1>2. d # 0 => Head(s).t \in Flights
  BY <1>1 DEF Flown
<1>3. d # 0 => Flown(t, d - 1, done, gone)
  <2>1. SUFFICES ASSUME d # 0 PROVE Flown(t, d - 1, done, gone)
    OBVIOUS
  <2>2. \A i \in 1 .. Len(t) : i + 1 \in 1 .. Len(s) /\ t[i] = s[i + 1]
    BY <1>1
  <2>3. QED
    BY <1>1, <2>1, <2>2 DEF Flown
<1>4. d = 0 => done /\ Head(s).t \notin Flights /\ Flown(t, d, done, gone)
  BY <1>1 DEF Flown
<1>5. QED
  BY <1>2, <1>3, <1>4 DEF t

LEMMA FlownPrefix ==
    ASSUME NEW s \in Wire, NEW t \in Wire, NEW d, NEW done, NEW gone, Flown(s \o t, d, done, gone)
    PROVE  Flown(s, d, done, TRUE)
<1>1. /\ Len(s) \in Nat /\ Len(t) \in Nat /\ Len(s \o t) = Len(s) + Len(t)
      /\ \A i \in 1 .. Len(s) : (s \o t)[i] = s[i]
  BY LenProperties, ConcatProperties DEF Wire
<1> DEFINE u == s \o t
<1>2. Flown(u, d, done, gone) /\ Len(u) = Len(s) + Len(t) /\ \A i \in 1 .. Len(s) : u[i] = s[i] /\ i \in 1 .. Len(u)
  BY <1>1
<1> HIDE DEF u
<1>3. QED
  BY <1>1, <1>2 DEF Flown

\* The records that were read, that are in the socket, and that wait to be sent.
Joined(a, b, c) == (a \o b) \o c
IsJoin(s, a, b) == s = a \o b

LEMMA JoinMoves ==
    ASSUME NEW S, NEW a \in Seq(S), NEW b \in Seq(S), NEW c \in Seq(S), NEW d \in Seq(S)
    PROVE  /\ a \o b \in Seq(S) /\ Joined(a, b, c) \in Seq(S) /\ Joined(a \o b, <<>>, c) = Joined(a, b, c)
           /\ Joined(a, b \o c, d) = Joined(a, b, c \o d)
<1>1. a \o b \in Seq(S) /\ (a \o b) \o c \in Seq(S) /\ b \o c \in Seq(S) /\ c \o d \in Seq(S)
  BY ConcatProperties
<1>2. (a \o b) \o <<>> = a \o b
  BY <1>1, ConcatEmptySeq
<1>3. (a \o b) \o c = a \o (b \o c)
  BY SMTT(30), ConcatAssociative
<1>4. ((a \o b) \o c) \o d = (a \o b) \o (c \o d)
  BY SMTT(30), <1>1, ConcatAssociative
<1>5. QED
  BY <1>1, <1>2, <1>3, <1>4 DEF Joined

LEMMA JoinAppends ==
    ASSUME NEW S, NEW a \in Seq(S), NEW b \in Seq(S), NEW c \in Seq(S), NEW f \in S
    PROVE  Joined(a, b, Append(c, f)) = Append(Joined(a, b, c), f)
<1>1. a \o b \in Seq(S) /\ (a \o b) \o c \in Seq(S) /\ <<f>> \in Seq(S)
  BY ConcatProperties
<1>2. Append(c, f) = c \o <<f>> /\ Append((a \o b) \o c, f) = ((a \o b) \o c) \o <<f>>
  BY <1>1, AppendIsConcat
<1>3. ((a \o b) \o c) \o <<f>> = (a \o b) \o (c \o <<f>>)
  BY <1>1, ConcatAssociative
<1>4. QED
  BY <1>2, <1>3 DEF Joined

LEMMA TailOfJoin ==
    ASSUME NEW S, NEW a \in Seq(S), NEW b \in Seq(S), NEW c \in Seq(S), a # <<>>
    PROVE  /\ Joined(a, b, c) # <<>> /\ Head(Joined(a, b, c)) = Head(a)
           /\ Joined(Tail(a), b, c) = Tail(Joined(a, b, c))
<1>1. ASSUME NEW x \in Seq(S), NEW y \in Seq(S), x # <<>>
      PROVE  x \o y \in Seq(S) /\ x \o y # <<>> /\ Head(x \o y) = Head(x) /\ Tail(x \o y) = Tail(x) \o y
  <2>1. x = <<Head(x)>> \o Tail(x) /\ Tail(x) \in Seq(S) /\ Head(x) \in S
    <3>1. /\ Head(x) = x[1] /\ Tail(x) \in Seq(S) /\ Len(Tail(x)) = Len(x) - 1
          /\ (\A i \in 1 .. Len(Tail(x)) : Tail(x)[i] = x[i + 1]) /\ Len(x) \in Nat /\ Len(x) # 0 /\ Head(x) \in S
      BY <1>1, HeadTailProperties, LenProperties, EmptySeq
    <3> DEFINE h == <<Head(x)>>
               w == Tail(x)
    <3>2. h \in Seq(S) /\ Len(h) = 1 /\ h[1] = Head(x)
      BY <3>1
    <3>3. w \in Seq(S) /\ Len(w) = Len(x) - 1 /\ \A i \in 1 .. Len(x) - 1 : w[i] = x[i + 1]
      BY <3>1
    <3> HIDE DEF h, w
    <3>4. /\ h \o w \in Seq(S) /\ Len(h \o w) = Len(x)
          /\ \A i \in 1 .. Len(x) : (h \o w)[i] = IF i <= 1 THEN h[i] ELSE w[i - 1]
      <4>1. /\ h \o w \in Seq(S) /\ Len(h \o w) = Len(h) + Len(w)
            /\ \A i \in 1 .. Len(h) + Len(w) : (h \o w)[i] = IF i <= Len(h) THEN h[i] ELSE w[i - Len(h)]
        <5>1. h \in Seq(S) /\ w \in Seq(S)
          BY <3>2, <3>3
        <5>2. QED
          BY <5>1, ConcatProperties
      <4>2. Len(h) + Len(w) = Len(x)
        BY <3>1, <3>2, <3>3
      <4>3. QED
        BY <3>2, <4>1, <4>2
    <3> DEFINE u == h \o w
    <3>5. \A i \in 1 .. Len(x) : u[i] = x[i]
      <4>1. \A i \in 1 .. Len(x) : u[i] = IF i <= 1 THEN h[i] ELSE w[i - 1]
        BY <3>4
      <4> HIDE DEF u
      <4>2. \A i \in 1 .. Len(x) : i > 1 => i - 1 \in 1 .. Len(x) - 1 /\ (i - 1) + 1 = i
        BY <3>1
      <4>3. QED
        BY <3>1, <3>2, <3>3, <4>1, <4>2
    <3>6. h \o w = x
      BY <1>1, <3>4, <3>5, SeqEqual
    <3>7. QED
      BY <3>1, <3>6 DEF h, w
  <2>2. x \o y \in Seq(S)
    BY <1>1, ConcatProperties
  <2>3. Tail(x) \o y \in Seq(S)
    BY <1>1, <2>1, ConcatProperties
  <2>4. x \o y = <<Head(x)>> \o (Tail(x) \o y)
    <3>1. <<Head(x)>> \in Seq(S)
      BY <2>1
    <3>2. (<<Head(x)>> \o Tail(x)) \o y = <<Head(x)>> \o (Tail(x) \o y)
      BY SMTT(30), <1>1, <2>1, <3>1, ConcatAssociative
    <3>3. QED
      BY <2>1, <3>2
  <2>5. ASSUME NEW h \in S, NEW w \in Seq(S)
        PROVE  <<h>> \o w # <<>> /\ Head(<<h>> \o w) = h /\ Tail(<<h>> \o w) = w
    <3> DEFINE u == <<h>> \o w
    <3>1. <<h>> \in Seq(S) /\ Len(<<h>>) = 1 /\ Len(w) \in Nat
      BY <2>5, LenProperties
    <3>2. u \in Seq(S) /\ Len(u) = Len(w) + 1 /\ u[1] = h /\ \A i \in 1 .. Len(w) : u[i + 1] = w[i]
      <4>1. /\ u \in Seq(S) /\ Len(u) = 1 + Len(w)
            /\ \A i \in 1 .. 1 + Len(w) : u[i] = IF i <= 1 THEN <<h>>[i] ELSE w[i - 1]
        BY <2>5, <3>1, ConcatProperties
      <4>2. QED
        BY <3>1, <4>1
    <3> HIDE DEF u
    <3>3. u # <<>> /\ Head(u) = h
      BY <3>1, <3>2, EmptySeq, HeadTailProperties
    <3>4. Tail(u) \in Seq(S) /\ Len(Tail(u)) = Len(w) /\ \A i \in 1 .. Len(w) : Tail(u)[i] = w[i]
      BY <3>1, <3>2, <3>3, HeadTailProperties
    <3>5. Tail(u) = w
      BY <2>5, <3>4, SeqEqual
    <3>6. QED
      BY <3>3, <3>5 DEF u
  <2>6. QED
    BY <2>1, <2>2, <2>3, <2>4, <2>5
<1>2. a \o b \in Seq(S) /\ a \o b # <<>> /\ Head(a \o b) = Head(a) /\ Tail(a \o b) = Tail(a) \o b
  BY <1>1
<1>3. (Tail(a) \o b) \o c = Tail((a \o b) \o c) /\ (a \o b) \o c # <<>> /\ Head((a \o b) \o c) = Head(a)
  <2> DEFINE x == a \o b
  <2>1. x \in Seq(S) /\ x # <<>> /\ Head(x) = Head(a) /\ Tail(x) = Tail(a) \o b
    BY <1>2
  <2> HIDE DEF x
  <2>2. x \o c # <<>> /\ Head(x \o c) = Head(x) /\ Tail(x \o c) = Tail(x) \o c
    BY <1>1, <2>1
  <2>3. QED
    BY <2>1, <2>2, Zenon DEF x
<1>4. QED
  BY <1>3 DEF Joined

\* What moving records, adding one and taking one make of the whole.
LEMMA JoinedTyped ==
    ASSUME NEW a \in Wire, NEW b \in Wire, NEW c \in Wire
    PROVE  Joined(a, b, c) \in Wire /\ a \o b \in Wire
<1>1. a \o b \in Wire
  BY ConcatProperties DEF Wire
<1>2. QED
  BY <1>1, ConcatProperties DEF Wire, Joined

LEMMA JoinedFeed ==
    ASSUME NEW a \in Wire, NEW b \in Wire, NEW c \in Wire, NEW u, IsJoin(u, a, b)
    PROVE  Joined(u, <<>>, c) = Joined(a, b, c)
BY JoinMoves DEF Wire, IsJoin

LEMMA JoinedFlush ==
    ASSUME NEW a \in Wire, NEW b \in Wire, NEW c \in Wire, NEW d \in Wire, NEW t, IsJoin(t, b, c), NEW u, IsJoin(u, c, d)
    PROVE  Joined(a, t, d) = Joined(a, b, u)
BY JoinMoves DEF Wire, IsJoin

LEMMA JoinedAppend ==
    ASSUME NEW a \in Wire, NEW b \in Wire, NEW c \in Wire, NEW f \in AnyFrame
    PROVE  Joined(a, b, Append(c, f)) = Append(Joined(a, b, c), f)
BY JoinAppends DEF Wire

LEMMA JoinedTail ==
    ASSUME NEW a \in Wire, NEW b \in Wire, NEW c \in Wire, a # <<>>
    PROVE  /\ Joined(a, b, c) # <<>> /\ Head(Joined(a, b, c)) = Head(a)
           /\ Joined(Tail(a), b, c) = Tail(Joined(a, b, c))
<1>1. a \in Seq(AnyFrame) /\ b \in Seq(AnyFrame) /\ c \in Seq(AnyFrame)
  BY DEF Wire
<1>2. /\ Joined(a, b, c) # <<>> /\ Head(Joined(a, b, c)) = Head(a)
      /\ Joined(Tail(a), b, c) = Tail(Joined(a, b, c))
  BY <1>1, TailOfJoin
<1>3. QED
  BY <1>2

LEMMA JoinedCut ==
    ASSUME NEW a \in Wire, NEW b \in Wire, NEW c \in Wire
    PROVE  Joined(a, b, c) = Joined(a, b, <<>>) \o c
<1>1. (a \o b) \o <<>> = a \o b
  <2>1. a \o b \in Seq(AnyFrame)
    BY ConcatProperties DEF Wire
  <2>2. QED
    BY <2>1, ConcatEmptySeq
<1>2. QED
  BY <1>1 DEF Joined

-----------------------------------------------------------------------------
(* The invariant of one connection *)

\* The records on their way to the session of e, and how many flights its peer
\* has given and it has used.
In(l, e) == Joined(l.end[e].fed, l.to[e], l.end[Peer(e)].outbound)
Given(e, hs) ==
    IF e = "ctl" THEN (IF hs = "start" THEN 0 ELSE IF hs = "wait" THEN 1 ELSE 2)
    ELSE (IF hs = "start" THEN 0 ELSE 1)
Used(e, hs) ==
    IF e = "ctl" THEN (IF hs = "done" THEN 1 ELSE 0)
    ELSE (IF hs = "start" THEN 0 ELSE IF hs = "wait" THEN 1 ELSE 2)

Way(l, e) ==
    /\ InOrder(In(l, e), Len(l.end[e].got), l.end[Peer(e)].sent, l.shut[Peer(e)])
    /\ Flown(In(l, e), Given(Peer(e), l.end[Peer(e)].hs) - Used(e, l.end[e].hs),
             l.end[Peer(e)].hs = "done", l.shut[Peer(e)])
WayOk(l, e) == ~l.end[e].failed /\ ~l.shut[e] => Way(l, e)

\* No flight is used that was not given.
Turns(l, e) == Used(e, l.end[e].hs) <= Given(Peer(e), l.end[Peer(e)].hs)

\* A socket holds no more than it can.
Fits(l, e) == Len(l.to[e]) <= SockCapacity

\* What the session was handed.
GotOk(l, e) ==
    /\ Len(l.end[e].got) <= l.end[Peer(e)].sent
    /\ \A i \in 1 .. Len(l.end[e].got) : l.end[e].got[i] = Data(i)

\* An end that has heard nothing since its last tick is owed an answer: it is
\* on its way, or the ping still is.
Pinged(l, e) == \E i \in DOMAIN In(l, e) : In(l, e)[i].t = "ping"
Waits(l, e) == l.end[e].ready /\ ~l.end[e].failed /\ ~l.shut[e] /\ ~l.end[e].sawInbound
Owed(l, e) ==
    Waits(l, e) /\ ~l.end[Peer(e)].failed /\ ~l.shut[Peer(e)] => In(l, e) # <<>> \/ Pinged(l, Peer(e))

\* An end is ready only after its handshake, and sends and receives only then.
Handshaken(r) ==
    /\ r.established <=> r.hs = "done"
    /\ r.ready => r.established
    /\ r.established /\ ~r.failed => r.ready
    /\ r.timer => r.ready
    /\ r.sent > 0 => r.hs = "done"
    /\ r.got # <<>> => r.ready

\* A failed stream is off the reactor and its transport has failed.
Stopped(r) ==
    /\ r.streamFailed => r.failed /\ ~r.token
    /\ r.badSeen => r.failed
    /\ r.token <=> r.life = "live" /\ ~r.streamFailed
    /\ r.failed <=> r.cause # "none"
    /\ r.life = "live" /\ r.failed /\ ~r.streamFailed => r.established

\* Who is refused: by its certificate at the handshake, by its name after it.
Admitted(k, e, r) ==
    /\ e = "node" /\ sc.cred[k] = "unlisted" => ~r.ready
    /\ e = "node" /\ sc.cred[k] = "revoked" => r.hs # "done"
    /\ e = "ctl" /\ sc.cred[k] = "imposter" => r.hs # "done"

\* The missed beats count the silent intervals but the first.
Leased(r) ==
    /\ ~r.ready => r.silent = 0
    /\ r.ready /\ ~r.failed /\ r.sawInbound => r.silent = 0
    /\ r.ready /\ ~r.failed /\ ~r.sawInbound => r.silent = r.missedBeats + 1 /\ r.silent <= maxMissed

\* The addresses before the cursor do not answer.
Unreachable(k, i) == sc.addrs[k][i] \in {"refused", "timeout"}
Reached(k, e, r) ==
    /\ e = "node" \/ r.hs # "start" => r.connectConfirmed
    /\ r.addressCursor <= Len(sc.addrs[k])
    /\ \A j \in 1 .. Len(sc.addrs[k]) : j < r.addressCursor => Unreachable(k, j)

EndOk(k, e, r) ==
    /\ Handshaken(r) /\ Stopped(r) /\ Admitted(k, e, r) /\ Leased(r) /\ Reached(k, e, r)
    /\ r.life = "none" => r = FreshEnd

\* Each failure has its reason.
CauseOk(k, l, e) ==
    /\ l.end[e].cause = "connect" => \A i \in DOMAIN sc.addrs[k] : Unreachable(k, i)
    /\ l.end[e].cause = "lease" => l.end[e].silent > maxMissed /\ (sc.timely => l.everCut)
    /\ l.end[e].cause = "unauthorized" => sc.cred[k] = "unlisted"
    /\ l.end[e].cause = "handshake" => sc.cred[k] \in {"revoked", "imposter"}

SideOk(k, l, e) ==
    /\ EndOk(k, e, l.end[e]) /\ CauseOk(k, l, e) /\ (l.shut[e] <=> l.end[e].life = "gone")
    /\ WayOk(l, e) /\ Turns(l, e) /\ Fits(l, e) /\ GotOk(l, e) /\ Owed(l, e)

LinkOk(k, l) ==
    /\ l \in LinkType
    /\ \A e \in Sides : SideOk(k, l, e)
    /\ l.cut => l.everCut

\* Between two callbacks nothing that was read waits, and what is to be written
\* is waited for.
Wanted(l, e) == l.end[e].token /\ l.end[e].outbound # <<>> => l.end[e].wantWrite
Read(l, e) == ~l.end[e].streamFailed => l.end[e].fed = <<>>
Begun(l, e) ==
    /\ e = "ctl" /\ l.end[e].token /\ l.end[e].connectConfirmed => l.end[e].hs # "start"
    /\ ~l.end[e].connectConfirmed => l.end[e].outbound = <<>>
AtRest(l, e) == Wanted(l, e) /\ Read(l, e) /\ Begun(l, e)

-----------------------------------------------------------------------------

\* A change at e leaves the other end and the network alone.
Beside(l, m, e) ==
    /\ m \in LinkType
    /\ m.end[Peer(e)] = l.end[Peer(e)]
    /\ m.shut = l.shut /\ m.cut = l.cut /\ m.everCut = l.everCut /\ m.reset = l.reset /\ m.tcp = l.tcp

LEMMA Two ==
    ASSUME NEW e \in Sides
    PROVE  Peer(e) \in Sides /\ Peer(e) # e /\ Peer(Peer(e)) = e /\ \A x \in Sides : x = e \/ x = Peer(e)
BY DEF Sides, Peer

LEMMA Linked ==
    ASSUME NEW l \in LinkType, NEW e \in Sides
    PROVE  /\ l.end[e] \in EndType /\ l.to[e] \in Wire /\ l.shut[e] \in BOOLEAN
           /\ l.cut \in BOOLEAN /\ l.everCut \in BOOLEAN /\ l.reset \in BOOLEAN /\ l.tcp \in BOOLEAN
BY DEF LinkType

\* An end becomes r, and the wire to q t.
Put(l, e, r) == [l EXCEPT !.end[e] = r]
PutBoth(l, e, r, q, t) == [l EXCEPT !.end[e] = r, !.to[q] = t]
Becomes(l, m, e, r, q, t) ==
    /\ Beside(l, m, e) /\ m.end[e] = r
    /\ m.to[q] = t /\ m.to[Peer(q)] = l.to[Peer(q)]
LEMMA Changed ==
    ASSUME NEW l \in LinkType, NEW e \in Sides, NEW r \in EndType, NEW q \in Sides, NEW t \in Wire
    PROVE  Becomes(l, PutBoth(l, e, r, q, t), e, r, q, t)
<1> DEFINE m == [l EXCEPT !.end[e] = r, !.to[q] = t]
<1>1. Peer(e) \in Sides /\ Peer(e) # e /\ Peer(q) \in Sides /\ Peer(q) # q
  BY Two
<1>2. /\ m.end = [l.end EXCEPT ![e] = r] /\ m.to = [l.to EXCEPT ![q] = t]
      /\ m.shut = l.shut /\ m.cut = l.cut /\ m.everCut = l.everCut /\ m.reset = l.reset /\ m.tcp = l.tcp
  BY DEF LinkType
<1>3. m \in LinkType
  BY DEF LinkType
<1> HIDE DEF m
<1>4. QED
  BY <1>1, <1>2, <1>3 DEF Beside, Becomes, LinkType, PutBoth, m

LEMMA Placed ==
    ASSUME NEW l \in LinkType, NEW e \in Sides, NEW r \in EndType
    PROVE  /\ Becomes(l, Put(l, e, r), e, r, e, l.to[e]) /\ Put(l, e, r).to = l.to
           /\ \A z : Put(Put(l, e, r), e, z) = Put(l, e, z)
<1> DEFINE m == [l EXCEPT !.end[e] = r]
<1>1. Peer(e) \in Sides /\ Peer(e) # e
  BY Two
<1>2. /\ m.end = [l.end EXCEPT ![e] = r] /\ m.to = l.to
      /\ m.shut = l.shut /\ m.cut = l.cut /\ m.everCut = l.everCut /\ m.reset = l.reset /\ m.tcp = l.tcp
  BY DEF LinkType
<1>3. m \in LinkType
  BY DEF LinkType
<1>4. \A z : [m EXCEPT !.end[e] = z] = [l EXCEPT !.end[e] = z]
  BY DEF LinkType
<1> HIDE DEF m
<1>5. QED
  BY <1>1, <1>2, <1>3, <1>4 DEF Beside, Becomes, LinkType, Put, m

\* What is left to show of a step of one end.
LEMMA MoveOk ==
    ASSUME NEW k \in Conns, NEW l, LinkOk(k, l), NEW e \in Sides, NEW m, Beside(l, m, e),
           EndOk(k, e, m.end[e]), CauseOk(k, m, e), m.end[e].life = "gone" <=> l.end[e].life = "gone",
           WayOk(m, e), WayOk(m, Peer(e)), Turns(m, e), Turns(m, Peer(e)), Fits(m, e), Fits(m, Peer(e)), GotOk(m, e),
           l.end[e].sent <= m.end[e].sent, Owed(m, e), Owed(m, Peer(e))
    PROVE  LinkOk(k, m)
<1> DEFINE p == Peer(e)
<1>1. p \in Sides /\ p # e /\ Peer(p) = e /\ \A x \in Sides : x = e \/ x = p
  BY Two
<1>2. m \in LinkType /\ l \in LinkType /\ m.end[p] = l.end[p] /\ m.shut = l.shut /\ m.everCut = l.everCut /\ m.cut = l.cut
  BY DEF Beside, LinkOk
<1>3. SideOk(k, l, e) /\ SideOk(k, l, p)
  BY <1>1 DEF LinkOk
<1>4. l.end[e] \in EndType /\ m.end[e] \in EndType /\ m.end[p] \in EndType
  BY <1>1, <1>2, Linked
<1> HIDE DEF p
<1>5. EndOk(k, p, m.end[p]) /\ CauseOk(k, m, p) /\ (m.shut[p] <=> m.end[p].life = "gone")
  BY <1>2, <1>3 DEF SideOk, CauseOk
<1>6. GotOk(m, p)
  <2>1. Len(m.end[p].got) \in Nat /\ l.end[e].sent \in Nat /\ m.end[e].sent \in Nat
    BY <1>4, LenProperties DEF EndType, Wire
  <2>2. GotOk(l, p)
    BY <1>3 DEF SideOk
  <2>3. QED
    BY <1>1, <1>2, <2>1, <2>2 DEF GotOk
<1>7. SideOk(k, m, p)
  BY <1>5, <1>6 DEF SideOk, p
<1>8. SideOk(k, m, e)
  BY <1>2, <1>3 DEF SideOk
<1>9. QED
  BY <1>1, <1>2, <1>7, <1>8 DEF LinkOk

LEMMA StepOk ==
    ASSUME NEW k \in Conns, NEW l, LinkOk(k, l), NEW e \in Sides, NEW m, Beside(l, m, e),
           EndOk(k, e, m.end[e]), CauseOk(k, m, e), m.end[e].life = l.end[e].life,
           WayOk(m, e), WayOk(m, Peer(e)), Turns(m, e), Turns(m, Peer(e)), Fits(m, e), Fits(m, Peer(e)), GotOk(m, e),
           l.end[e].sent <= m.end[e].sent, Owed(m, e), Owed(m, Peer(e))
    PROVE  LinkOk(k, m)
<1>1. m.end[e].life = "gone" <=> l.end[e].life = "gone"
  OBVIOUS
<1>2. QED
  BY <1>1, MoveOk

\* What a step leaves of the two ways when it moves no record.
Unmoved(l, m, e) ==
    /\ Beside(l, m, e) /\ m.to = l.to
    /\ m.end[e].fed = l.end[e].fed /\ m.end[e].outbound = l.end[e].outbound
    /\ m.end[e].hs = l.end[e].hs /\ m.end[e].got = l.end[e].got /\ m.end[e].sent = l.end[e].sent
    /\ m.end[e].life = l.end[e].life
LEMMA QuietStep ==
    ASSUME NEW k \in Conns, NEW l, LinkOk(k, l), NEW e \in Sides, NEW m, Unmoved(l, m, e),
           EndOk(k, e, m.end[e]), CauseOk(k, m, e),
           l.end[e].failed => m.end[e].failed, Waits(m, e) => Waits(l, e)
    PROVE  LinkOk(k, m) /\ In(m, e) = In(l, e) /\ In(m, Peer(e)) = In(l, Peer(e))
<1> DEFINE p == Peer(e)
<1>1. p \in Sides /\ p # e /\ Peer(p) = e /\ \A x \in Sides : x = e \/ x = p
  BY Two
<1>2. /\ m \in LinkType /\ l \in LinkType /\ m.end[p] = l.end[p] /\ m.shut = l.shut /\ m.to = l.to
      /\ m.end[e].fed = l.end[e].fed /\ m.end[e].outbound = l.end[e].outbound
      /\ m.end[e].hs = l.end[e].hs /\ m.end[e].got = l.end[e].got /\ m.end[e].sent = l.end[e].sent
  BY DEF Beside, LinkOk, Unmoved
<1>3. SideOk(k, l, e) /\ SideOk(k, l, p)
  BY <1>1 DEF LinkOk
<1> HIDE DEF p
<1>4. In(m, e) = In(l, e) /\ In(m, p) = In(l, p)
  BY <1>1, <1>2 DEF In, p
<1>5. (Way(m, e) <=> Way(l, e)) /\ (Way(m, p) <=> Way(l, p)) /\ (Turns(m, e) <=> Turns(l, e)) /\ (Turns(m, p) <=> Turns(l, p))
  BY <1>1, <1>2, <1>4 DEF Way, Turns, p
<1>6. WayOk(m, e) /\ WayOk(m, p) /\ Turns(m, e) /\ Turns(m, p)
  BY <1>2, <1>3, <1>5 DEF WayOk, SideOk
<1>7. GotOk(m, e)
  BY <1>2, <1>3 DEF GotOk, SideOk, p
<1>8. Owed(m, e)
  <2>1. Owed(l, e) /\ (Pinged(m, p) <=> Pinged(l, p))
    BY <1>3, <1>4 DEF SideOk, Pinged
  <2>2. QED
    BY <1>2, <1>4, <2>1 DEF Owed, p
<1>9. Owed(m, p)
  <2>1. Owed(l, p) /\ (Pinged(m, e) <=> Pinged(l, e))
    BY <1>3, <1>4 DEF SideOk, Pinged
  <2>2. Waits(m, p) => Waits(l, p)
    BY <1>2 DEF Waits
  <2>3. QED
    BY <1>1, <1>2, <1>4, <2>1, <2>2 DEF Owed
<1>10. l.end[e].sent <= m.end[e].sent /\ m.end[e].life = l.end[e].life
  <2>1. l.end[e].sent \in Nat
    BY <1>2, Linked DEF EndType
  <2>2. QED
    BY <1>2, <2>1 DEF Unmoved
<1>11. LinkOk(k, m)
  <2>1. Fits(m, e) /\ Fits(m, p)
    BY <1>2, <1>3 DEF SideOk, Fits
  <2>2. QED
    BY <1>6, <1>7, <1>8, <1>9, <1>10, <2>1, StepOk DEF Unmoved, p
<1>12. QED
  BY <1>4, <1>11 DEF p

-----------------------------------------------------------------------------
(* TlsStream and NativeTransport, operator by operator *)

\* What failing, flushing and settling leave of an end.
Steady(x, y) ==
    /\ y.life = x.life /\ y.connectConfirmed = x.connectConfirmed /\ y.hs = x.hs /\ y.established = x.established
    /\ y.fed = x.fed /\ y.ready = x.ready /\ y.timer = x.timer /\ y.sawInbound = x.sawInbound
    /\ y.missedBeats = x.missedBeats /\ y.addressCursor = x.addressCursor /\ y.sent = x.sent
    /\ y.got = x.got /\ y.silent = x.silent /\ y.ticks = x.ticks /\ y.badSeen = x.badSeen
    /\ x.failed => y.failed
    /\ x.streamFailed => y.streamFailed

\* why may be the cause of a failure of e.
Excuse(k, l, e, why) ==
    /\ why \in Causes \ {"none"}
    /\ why = "connect" => \A i \in DOMAIN sc.addrs[k] : Unreachable(k, i)
    /\ why = "lease" => l.end[e].silent > maxMissed /\ (sc.timely => l.everCut)
    /\ why = "unauthorized" => sc.cred[k] = "unlisted"
    /\ why = "handshake" => sc.cred[k] \in {"revoked", "imposter"}

LEMMA Records ==
    ASSUME NEW k \in Conns, NEW l, LinkOk(k, l), NEW e \in Sides
    PROVE  /\ l \in LinkType /\ l.end[e] \in EndType /\ l.end[Peer(e)] \in EndType
           /\ l.to[e] \in Wire /\ l.to[Peer(e)] \in Wire
           /\ SideOk(k, l, e) /\ SideOk(k, l, Peer(e)) /\ EndOk(k, e, l.end[e])
BY Two, Linked DEF LinkOk, SideOk

\* A failure of e, of its stream too or of its transport only.
Failing(l, m, e) ==
    /\ Unmoved(l, m, e) /\ Steady(l.end[e], m.end[e]) /\ m.end[e].failed
    /\ m.end[e].wantWrite = l.end[e].wantWrite
    /\ In(m, e) = In(l, e) /\ In(m, Peer(e)) = In(l, Peer(e))

LEMMA Marked ==
    ASSUME NEW l \in LinkType, NEW e \in Sides, NEW why
    PROVE  transportFail(l, e, why) =
             IF l.end[e].failed THEN l ELSE Put(l, e, [l.end[e] EXCEPT !.failed = TRUE, !.cause = why])
<1>1. l.end[e] \in EndType
  BY Linked
<1>2. QED
  BY <1>1 DEF transportFail, LinkType, EndType, Put

LEMMA TransportFails ==
    ASSUME NEW k \in Conns, NEW l, LinkOk(k, l), NEW e \in Sides, NEW why, Excuse(k, l, e, why),
           l.end[e].established
    PROVE  /\ LinkOk(k, transportFail(l, e, why)) /\ Failing(l, transportFail(l, e, why), e)
           /\ transportFail(l, e, why).end[e].token = l.end[e].token
<1> DEFINE x == l.end[e]
           r == [x EXCEPT !.failed = TRUE, !.cause = why]
           m == transportFail(l, e, why)
<1>1. /\ l \in LinkType /\ x \in EndType /\ l.to[e] \in Wire /\ EndOk(k, e, x) /\ CauseOk(k, l, e)
      /\ l.to \in [Sides -> Wire] /\ Peer(e) \in Sides
  BY Records, Two DEF SideOk, LinkType
<1>2. CASE x.failed
  <2>1. m = l
    BY <1>2 DEF transportFail
  <2>2. Unmoved(l, l, e) /\ Steady(x, x)
    BY <1>1 DEF Unmoved, Beside, Steady
  <2>3. QED
    BY <1>2, <2>1, <2>2 DEF Failing
<1>3. CASE ~x.failed
  <2>1. m = Put(l, e, r)
    BY <1>1, <1>3, Marked
  <2>2. r \in EndType
    <3>1. why \in Causes
      BY DEF Excuse
    <3>2. QED
      BY <1>1, <3>1 DEF EndType
  <2> HIDE DEF m
  <2>3. Becomes(l, m, e, r, e, l.to[e]) /\ m.to = l.to
    <3> HIDE DEF r
    <3>1. QED
      BY <1>1, <2>1, <2>2, Placed
  <2>5. /\ Steady(x, r) /\ r.failed /\ r.outbound = x.outbound /\ r.cause = why /\ r.token = x.token
        /\ r.streamFailed = x.streamFailed /\ r.wantWrite = x.wantWrite
    BY <1>1 DEF Steady, EndType
  <2> HIDE DEF r
  <2>6. EndOk(k, e, r)
    <3>1. Handshaken(r)
      BY <1>1, <2>5 DEF EndOk, Handshaken, Steady
    <3>2. Stopped(r)
      BY <1>1, <2>5 DEF EndOk, Stopped, Steady, Excuse
    <3>3. Admitted(k, e, r) /\ Leased(r) /\ Reached(k, e, r)
      BY <1>1, <2>5 DEF EndOk, Admitted, Leased, Reached, Steady
    <3>4. r.life # "none"
      BY <1>1, <2>5 DEF EndOk, FreshEnd, Steady
    <3>5. QED
      BY <3>1, <3>2, <3>3, <3>4 DEF EndOk
  <2>7. CauseOk(k, m, e)
    BY <2>3, <2>5 DEF Excuse, CauseOk, Becomes, Beside, Steady
  <2>8. Unmoved(l, m, e) /\ m.end[e] = r
    BY <2>3, <2>5 DEF Unmoved, Becomes, Steady
  <2>9. LinkOk(k, m) /\ In(m, e) = In(l, e) /\ In(m, Peer(e)) = In(l, Peer(e))
    <3>1. ~Waits(m, e)
      BY <2>5, <2>8 DEF Waits
    <3>2. QED
      BY <2>5, <2>6, <2>7, <2>8, <3>1, QuietStep
  <2>10. QED
    BY <2>5, <2>8, <2>9 DEF Failing, m
<1>4. QED
  BY <1>2, <1>3

LEMMA StreamFails ==
    ASSUME NEW k \in Conns, NEW l, LinkOk(k, l), NEW e \in Sides, NEW why, Excuse(k, l, e, why),
           l.end[e].life = "live"
    PROVE  /\ LinkOk(k, fail(l, e, why)) /\ Failing(l, fail(l, e, why), e)
           /\ fail(l, e, why).end[e].streamFailed /\ ~fail(l, e, why).end[e].token
<1> DEFINE x == l.end[e]
           r == IF x.failed THEN [x EXCEPT !.streamFailed = TRUE, !.token = FALSE]
                ELSE [x EXCEPT !.streamFailed = TRUE, !.token = FALSE, !.failed = TRUE, !.cause = why]
           m == fail(l, e, why)
<1>1. /\ l \in LinkType /\ x \in EndType /\ l.to[e] \in Wire /\ EndOk(k, e, x) /\ CauseOk(k, l, e)
      /\ l.to \in [Sides -> Wire] /\ Peer(e) \in Sides
  BY Records, Two DEF SideOk, LinkType
<1>2. CASE x.streamFailed
  <2>1. m = l
    BY <1>2 DEF fail
  <2>2. Unmoved(l, l, e) /\ Steady(x, x)
    BY <1>1 DEF Unmoved, Beside, Steady
  <2>3. x.failed /\ ~x.token
    BY <1>1, <1>2 DEF EndOk, Stopped
  <2>4. QED
    BY <1>2, <2>1, <2>2, <2>3 DEF Failing
<1>3. CASE ~x.streamFailed
  <2>1. m = Put(l, e, r)
    <3> DEFINE n == [l EXCEPT !.end[e].streamFailed = TRUE, !.end[e].token = FALSE]
               y == [x EXCEPT !.streamFailed = TRUE, !.token = FALSE]
    <3>1. m = transportFail(n, e, why)
      BY <1>3 DEF fail
    <3>2. n = Put(l, e, y) /\ y \in EndType /\ y.failed = x.failed
      BY ZenonT(90), <1>1 DEF Put, LinkType, EndType
    <3> DEFINE z == [y EXCEPT !.failed = TRUE, !.cause = why]
    <3>3. r = IF x.failed THEN y ELSE z
      OBVIOUS
    <3> HIDE DEF n, y, m, r
    <3>4. n \in LinkType /\ n.end[e] = y
      BY <1>1, <3>2, Placed DEF Becomes, Beside
    <3>5. m = IF y.failed THEN n ELSE Put(n, e, z)
      BY <3>1, <3>4, Marked, Zenon DEF z
    <3> HIDE DEF z
    <3>6. Put(n, e, z) = Put(l, e, z)
      BY <1>1, <3>2, Placed
    <3>7. QED
      BY <3>2, <3>3, <3>5, <3>6, Zenon
  <2>2. r \in EndType
    <3>1. why \in Causes
      BY DEF Excuse
    <3>2. QED
      BY <1>1, <3>1 DEF EndType
  <2> HIDE DEF m
  <2>3. Becomes(l, m, e, r, e, l.to[e]) /\ m.to = l.to
    <3> HIDE DEF r
    <3>1. QED
      BY <1>1, <2>1, <2>2, Placed
  <2>5. /\ Steady(x, r) /\ r.failed /\ r.outbound = x.outbound /\ ~r.token /\ r.streamFailed
        /\ r.cause = IF x.failed THEN x.cause ELSE why
        /\ r.wantWrite = x.wantWrite
    BY <1>1 DEF Steady, EndType
  <2> HIDE DEF r
  <2>6. EndOk(k, e, r)
    <3>1. Handshaken(r)
      BY <1>1, <2>5 DEF EndOk, Handshaken, Steady
    <3>2. Stopped(r)
      BY <1>1, <2>5 DEF EndOk, Stopped, Steady, Excuse
    <3>3. Admitted(k, e, r) /\ Leased(r) /\ Reached(k, e, r)
      BY <1>1, <2>5 DEF EndOk, Admitted, Leased, Reached, Steady
    <3>4. r.life # "none"
      BY <1>1, <2>5 DEF Steady
    <3>5. QED
      BY <3>1, <3>2, <3>3, <3>4 DEF EndOk
  <2>7. CauseOk(k, m, e)
    BY <1>1, <2>3, <2>5 DEF Excuse, CauseOk, Becomes, Beside, Steady
  <2>8. Unmoved(l, m, e) /\ m.end[e] = r
    BY <2>3, <2>5 DEF Unmoved, Becomes, Steady
  <2>9. LinkOk(k, m) /\ In(m, e) = In(l, e) /\ In(m, Peer(e)) = In(l, Peer(e))
    <3>1. ~Waits(m, e)
      BY <2>5, <2>8 DEF Waits
    <3>2. QED
      BY <2>5, <2>6, <2>7, <2>8, <3>1, QuietStep
  <2>10. QED
    BY <2>5, <2>8, <2>9 DEF Failing, m
<1>4. QED
  BY <1>2, <1>3

\* How many records the socket takes.
Taken(l, e) ==
    IF Len(l.end[e].outbound) <= SockCapacity - Len(l.to[Peer(e)]) THEN Len(l.end[e].outbound)
    ELSE SockCapacity - Len(l.to[Peer(e)])

LEMMA FlushShape ==
    ASSUME NEW l \in LinkType, NEW e \in Sides, Fits(l, Peer(e))
    PROVE  \E n \in 0 .. Len(l.end[e].outbound) :
             /\ n = Taken(l, e)
             /\ n <= SockCapacity - Len(l.to[Peer(e)])
             /\ n < Len(l.end[e].outbound) => n = SockCapacity - Len(l.to[Peer(e)])
             /\ flushOutbound(l, e) =
                  IF l.end[e].outbound = <<>> THEN l
                  ELSE IF l.reset THEN fail(l, e, "write")
                  ELSE IF l.shut[Peer(e)] THEN Put(l, e, [l.end[e] EXCEPT !.outbound = <<>>])
                  ELSE PutBoth(l, e, [l.end[e] EXCEPT !.outbound = SubSeq(@, n + 1, Len(@))],
                               Peer(e), l.to[Peer(e)] \o SubSeq(l.end[e].outbound, 1, n))
<1> DEFINE p == Peer(e)
           out == l.end[e].outbound
           room == SockCapacity - Len(l.to[p])
           n == IF Len(out) <= room THEN Len(out) ELSE room
<1>1. p \in Sides /\ p # e /\ l.end[e] \in EndType /\ l.to[p] \in Wire /\ out \in Wire /\ l.reset \in BOOLEAN /\ l.shut[p] \in BOOLEAN
  <2>1. l.end[e] \in EndType /\ p \in Sides /\ p # e
    BY Two, Linked
  <2>2. QED
    BY <2>1, Linked DEF EndType
<1>2. Len(l.to[p]) \in Nat /\ Len(out) \in Nat
  BY <1>1, LenProperties DEF Wire
<1>3. room \in Nat
  BY <1>2, ConnectionAssumption DEF Fits
<1>4. n \in 0 .. Len(out) /\ n <= room /\ (n < Len(out) => n = room)
  BY <1>2, <1>3
<1>5. flushOutbound(l, e) =
        CASE out = <<>> -> l
          [] out # <<>> /\ l.reset -> fail(l, e, "write")
          [] out # <<>> /\ ~l.reset /\ l.shut[p] -> [l EXCEPT !.end[e].outbound = <<>>]
          [] OTHER -> [l EXCEPT !.end[e].outbound = SubSeq(out, n + 1, Len(out)),
                                !.to[p] = @ \o SubSeq(out, 1, n)]
  BY DEF flushOutbound
<1> HIDE DEF n
<1>6. \A w : [l EXCEPT !.end[e].outbound = w] = Put(l, e, [l.end[e] EXCEPT !.outbound = w])
  BY <1>1 DEF LinkType, EndType, Put
<1>7. \A w, v : [l EXCEPT !.end[e].outbound = w, !.to[p] = @ \o v]
                = PutBoth(l, e, [l.end[e] EXCEPT !.outbound = w], p, l.to[p] \o v)
  BY <1>1 DEF LinkType, EndType, PutBoth
<1>8. flushOutbound(l, e) =
        IF out = <<>> THEN l ELSE IF l.reset THEN fail(l, e, "write")
        ELSE IF l.shut[p] THEN Put(l, e, [l.end[e] EXCEPT !.outbound = <<>>])
        ELSE PutBoth(l, e, [l.end[e] EXCEPT !.outbound = SubSeq(out, n + 1, Len(out))], p, l.to[p] \o SubSeq(out, 1, n))
  BY <1>1, <1>5, <1>6, <1>7
<1>9. n = Taken(l, e)
  BY DEF n, Taken
<1>10. QED
  BY <1>4, <1>8, <1>9

LEMMA Halves ==
    ASSUME NEW S, NEW s \in Seq(S), NEW n \in 0 .. Len(s)
    PROVE  /\ SubSeq(s, 1, n) \o SubSeq(s, n + 1, Len(s)) = s
           /\ SubSeq(s, 1, n) \in Seq(S) /\ SubSeq(s, n + 1, Len(s)) \in Seq(S)
           /\ Len(SubSeq(s, 1, n)) = n
<1>1. Len(s) \in Nat /\ \A i \in 1 .. Len(s) : s[i] \in S
  BY LenProperties, ElementOfSeq
<1>2. SubSeq(s, 1, n) \o SubSeq(s, n + 1, Len(s)) = SubSeq(s, 1, Len(s))
  <2>1. 1 \in 1 .. Len(s) + 1 /\ n \in 1 - 1 .. Len(s) /\ Len(s) \in n .. Len(s)
    BY <1>1
  <2>2. QED
    BY <2>1, ConcatAdjacentSubSeq
<1>3. SubSeq(s, 1, Len(s)) = s
  BY SubSeqFull
<1>4. 1 \in Int /\ n \in Int /\ n + 1 \in Int /\ Len(s) \in Int
  BY <1>1
<1>5. SubSeq(s, 1, n) \in Seq(S) /\ Len(SubSeq(s, 1, n)) = IF 1 <= n THEN n - 1 + 1 ELSE 0
  <2>1. \A i \in 1 .. n : s[i] \in S
    BY <1>1
  <2>2. QED
    BY <1>4, <2>1, SubSeqProperties
<1>6. SubSeq(s, n + 1, Len(s)) \in Seq(S)
  <2>1. \A i \in n + 1 .. Len(s) : s[i] \in S
    BY <1>1
  <2>2. QED
    BY <1>4, <2>1, SubSeqProperties
<1>7. Len(SubSeq(s, 1, n)) = n
  BY <1>1, <1>5
<1>8. QED
  BY <1>2, <1>3, <1>5, <1>6, <1>7

\* What keeps an end as it should be.
LEMMA EndKept ==
    ASSUME NEW k, NEW e, NEW x \in EndType, NEW y \in EndType, EndOk(k, e, x), Steady(x, y), x.life # "none",
           y.streamFailed = x.streamFailed, y.failed = x.failed, y.cause = x.cause, y.token = x.token
    PROVE  EndOk(k, e, y)
<1>1. Handshaken(y)
  BY DEF EndOk, Handshaken, Steady
<1>2. Stopped(y)
  BY DEF EndOk, Stopped, Steady
<1>3. Admitted(k, e, y) /\ Leased(y) /\ Reached(k, e, y)
  BY DEF EndOk, Admitted, Leased, Reached, Steady
<1>4. y.life # "none"
  BY DEF Steady
<1>5. QED
  BY <1>1, <1>2, <1>3, <1>4 DEF EndOk

\* What a flush does.
Flushed(l, m, e) ==
    /\ Beside(l, m, e) /\ Steady(l.end[e], m.end[e]) /\ m.to[e] = l.to[e]
    /\ In(m, e) = In(l, e)
    /\ In(m, Peer(e)) = In(l, Peer(e)) \/ l.shut[Peer(e)]
    /\ m.end[e].outbound # <<>> => l.end[e].outbound # <<>>
    /\ m.end[e].token => l.end[e].token
LEMMA FlushOk ==
    ASSUME NEW k \in Conns, NEW l, LinkOk(k, l), NEW e \in Sides, l.end[e].life = "live"
    PROVE  /\ LinkOk(k, flushOutbound(l, e)) /\ Flushed(l, flushOutbound(l, e), e)
           /\ flushOutbound(l, e).end[e].wantWrite = l.end[e].wantWrite
<1> DEFINE p == Peer(e)
           x == l.end[e]
           out == x.outbound
           m == flushOutbound(l, e)
<1>1. /\ p \in Sides /\ p # e /\ Peer(p) = e /\ l \in LinkType /\ x \in EndType /\ l.end[p] \in EndType
      /\ l.to[e] \in Wire /\ l.to[p] \in Wire /\ SideOk(k, l, e) /\ SideOk(k, l, p) /\ EndOk(k, e, x)
      /\ out \in Wire
  <2>1. x \in EndType
    BY Records
  <2>2. out \in Wire
    BY <2>1 DEF EndType
  <2>3. QED
    BY <2>2, Two, Records
<1>2. Fits(l, p)
  BY <1>1 DEF SideOk
<1>3. PICK n \in 0 .. Len(out) :
        /\ n <= SockCapacity - Len(l.to[p])
        /\ m = IF out = <<>> THEN l ELSE IF l.reset THEN fail(l, e, "write")
               ELSE IF l.shut[p] THEN Put(l, e, [x EXCEPT !.outbound = <<>>])
               ELSE PutBoth(l, e, [x EXCEPT !.outbound = SubSeq(@, n + 1, Len(@))], p, l.to[p] \o SubSeq(out, 1, n))
  BY <1>1, <1>2, FlushShape
<1> HIDE DEF m
<1>4. CASE out = <<>>
  <2>1. m = l
    BY <1>3, <1>4
  <2>2. Beside(l, l, e) /\ Steady(x, x)
    BY <1>1 DEF Beside, Steady
  <2>3. QED
    BY <2>1, <2>2 DEF Flushed, m
<1>5. CASE out # <<>> /\ l.reset
  <2>1. m = fail(l, e, "write")
    BY <1>3, <1>5
  <2>2. Excuse(k, l, e, "write")
    BY DEF Excuse, Causes
  <2>3. LinkOk(k, m) /\ Failing(l, m, e) /\ ~m.end[e].token
    BY <2>1, <2>2, StreamFails
  <2>4. QED
    BY <1>5, <2>3 DEF Flushed, Failing, Unmoved, m
<1>6. CASE out # <<>> /\ ~l.reset /\ l.shut[p]
  <2> DEFINE r == [x EXCEPT !.outbound = <<>>]
  <2>1. m = Put(l, e, r)
    BY <1>3, <1>6
  <2>2. r \in EndType
    BY <1>1, EmptySeq DEF EndType, Wire
  <2>3. /\ Steady(x, r) /\ r.outbound = <<>> /\ r.wantWrite = x.wantWrite
        /\ r.streamFailed = x.streamFailed /\ r.failed = x.failed /\ r.cause = x.cause /\ r.token = x.token
    BY <1>1 DEF Steady, EndType
  <2> HIDE DEF r
  <2>4. Becomes(l, m, e, r, e, l.to[e]) /\ m.to = l.to
    BY <1>1, <2>1, <2>2, Placed
  <2>5. /\ Beside(l, m, e) /\ m.end[e] = r /\ m.end[p] = l.end[p] /\ m.shut = l.shut /\ m.everCut = l.everCut
        /\ m \in LinkType
    BY <2>4 DEF Becomes, Beside
  <2>6. In(m, e) = In(l, e)
    BY <2>3, <2>4, <2>5 DEF In, Steady
  <2>7. LinkOk(k, m)
    <3>1. EndOk(k, e, m.end[e])
      BY <1>1, <2>2, <2>3, <2>5, EndKept
    <3>2. CauseOk(k, m, e)
      BY <1>1, <2>3, <2>5 DEF SideOk, CauseOk, Steady
    <3>3. WayOk(m, e)
      BY <1>1, <2>3, <2>5, <2>6 DEF SideOk, WayOk, Way, Steady
    <3>4. WayOk(m, p) /\ Owed(m, e) /\ Owed(m, p)
      BY <1>1, <1>6, <2>5 DEF WayOk, Owed, Waits
    <3>5. Turns(m, e) /\ Turns(m, p) /\ Fits(m, e) /\ Fits(m, p)
      BY <1>1, <2>3, <2>4, <2>5 DEF SideOk, Turns, Fits, Steady
    <3>6. GotOk(m, e)
      BY <1>1, <2>3, <2>5 DEF SideOk, GotOk, Steady
    <3>7. l.end[e].sent <= m.end[e].sent /\ m.end[e].life = l.end[e].life
      BY <1>1, <2>3, <2>5 DEF EndType, Steady
    <3>8. QED
      BY <2>5, <3>1, <3>2, <3>3, <3>4, <3>5, <3>6, <3>7, StepOk
  <2>8. QED
    BY <1>6, <2>3, <2>4, <2>5, <2>6, <2>7 DEF Flushed, m
<1>7. CASE out # <<>> /\ ~l.reset /\ ~l.shut[p]
  <2> DEFINE a == SubSeq(out, 1, n)
             b == SubSeq(out, n + 1, Len(out))
             r == [x EXCEPT !.outbound = b]
             t == l.to[p] \o a
  <2>1. m = PutBoth(l, e, r, p, t)
    BY <1>3, <1>7
  <2>2. a \o b = out /\ a \in Wire /\ b \in Wire /\ Len(a) = n
    BY <1>1, <1>3, Halves DEF Wire
  <2> HIDE DEF a, b
  <2>3. r \in EndType
    BY <1>1, <2>2 DEF EndType
  <2>4. t \in Wire /\ Len(t) = Len(l.to[p]) + n
    BY <1>1, <2>2, ConcatProperties DEF Wire
  <2>5. Len(t) <= SockCapacity
    BY <1>1, <1>3, <2>4, LenProperties, ConnectionAssumption DEF Wire
  <2>6. /\ Steady(x, r) /\ r.outbound = b /\ r.wantWrite = x.wantWrite
        /\ r.streamFailed = x.streamFailed /\ r.failed = x.failed /\ r.cause = x.cause /\ r.token = x.token
    BY <1>1 DEF Steady, EndType
  <2> HIDE DEF r
  <2>7. Becomes(l, m, e, r, p, t)
    <3> HIDE DEF t
    <3>1. QED
      BY <1>1, <2>1, <2>3, <2>4, Changed
  <2>8. /\ Beside(l, m, e) /\ m.end[e] = r /\ m.end[p] = l.end[p] /\ m.shut = l.shut /\ m.everCut = l.everCut
        /\ m \in LinkType /\ m.to[p] = t /\ m.to[e] = l.to[e]
    BY <1>1, <2>7 DEF Becomes, Beside
  <2>9. In(m, e) = In(l, e)
    BY <2>6, <2>8 DEF In, Steady
  <2>10. In(m, p) = In(l, p)
    <3>1. l.end[p].fed \in Wire
      BY <1>1 DEF EndType
    <3>2. Joined(l.end[p].fed, t, b) = Joined(l.end[p].fed, l.to[p], out)
      <4>1. l.to[p] \in Wire /\ a \in Wire /\ b \in Wire
        BY <1>1, <2>2
      <4>2. QED
        <5>1. IsJoin(out, a, b) /\ IsJoin(t, l.to[p], a)
          BY <2>2 DEF IsJoin
        <5> HIDE DEF out, t
        <5>2. QED
          BY <3>1, <4>1, <5>1, JoinedFlush
    <3>3. QED
      BY <1>1, <2>2, <2>6, <2>8, <3>2 DEF In
  <2>11. LinkOk(k, m)
    <3>1. EndOk(k, e, m.end[e])
      BY <1>1, <2>3, <2>6, <2>8, EndKept
    <3>2. CauseOk(k, m, e)
      BY <1>1, <2>6, <2>8 DEF SideOk, CauseOk, Steady
    <3>3. WayOk(m, e)
      BY <1>1, <2>6, <2>8, <2>9 DEF SideOk, WayOk, Way, Steady
    <3>4. WayOk(m, p)
      BY <1>1, <2>6, <2>8, <2>10 DEF SideOk, WayOk, Way, Steady
    <3>5. Owed(m, e) /\ Owed(m, p)
      BY <1>1, <2>6, <2>8, <2>9, <2>10 DEF SideOk, Owed, Waits, Pinged, Steady
    <3>6. Turns(m, e) /\ Turns(m, p) /\ Fits(m, e) /\ Fits(m, p)
      BY <1>1, <2>5, <2>6, <2>8 DEF SideOk, Turns, Fits, Steady
    <3>7. GotOk(m, e)
      BY <1>1, <2>6, <2>8 DEF SideOk, GotOk, Steady
    <3>8. l.end[e].sent <= m.end[e].sent /\ m.end[e].life = l.end[e].life
      BY <1>1, <2>6, <2>8 DEF EndType, Steady
    <3>9. QED
      BY <2>8, <3>1, <3>2, <3>3, <3>4, <3>5, <3>6, <3>7, <3>8, StepOk
  <2>12. QED
    BY <1>7, <2>6, <2>8, <2>9, <2>10, <2>11 DEF Flushed, m
<1>8. QED
  BY <1>1, <1>4, <1>5, <1>6, <1>7, Linked

LEMMA SettleOk ==
    ASSUME NEW k \in Conns, NEW l, LinkOk(k, l), NEW e \in Sides, l.end[e].life = "live"
    PROVE  LinkOk(k, settle(l, e)) /\ Flushed(l, settle(l, e), e) /\ Wanted(settle(l, e), e)
<1> DEFINE p == Peer(e)
           n == flushOutbound(l, e)
           x == n.end[e]
           m == settle(l, e)
           r == [x EXCEPT !.wantWrite = x.outbound # <<>>]
<1>1. LinkOk(k, n) /\ Flushed(l, n, e)
  BY FlushOk
<1>2. /\ n \in LinkType /\ x \in EndType /\ n.to[e] \in Wire /\ EndOk(k, e, x) /\ CauseOk(k, n, e)
      /\ n.to \in [Sides -> Wire] /\ p \in Sides /\ p # e /\ Peer(p) = e
  BY <1>1, Records, Two DEF SideOk, LinkType
<1>3. m = IF x.streamFailed \/ ~x.token THEN n ELSE Put(n, e, r)
  <2>1. m = updateInterest(n, e)
    BY DEF settle
  <2> HIDE DEF n, m
  <2>2. QED
    BY <1>2, <2>1 DEF updateInterest, LinkType, EndType, Put
<1> HIDE DEF n, m
<1>4. CASE x.streamFailed \/ ~x.token
  <2>1. m = n /\ ~x.token
    BY <1>2, <1>3, <1>4 DEF EndOk, Stopped
  <2>2. QED
    BY <1>1, <2>1 DEF Wanted, m
<1>5. CASE ~(x.streamFailed \/ ~x.token)
  <2>1. m = Put(n, e, r)
    BY <1>3, <1>5
  <2>2. r \in EndType
    BY <1>2 DEF EndType
  <2>3. /\ Steady(x, r) /\ r.outbound = x.outbound /\ r.wantWrite = (x.outbound # <<>>)
        /\ r.streamFailed = x.streamFailed /\ r.failed = x.failed /\ r.cause = x.cause /\ r.token = x.token
    BY <1>2 DEF Steady, EndType
  <2>4. x.life = "live"
    BY <1>1 DEF Flushed, Steady
  <2> HIDE DEF r
  <2>5. Becomes(n, m, e, r, e, n.to[e]) /\ m.to = n.to
    BY <1>2, <2>1, <2>2, Placed
  <2>6. Unmoved(n, m, e) /\ m.end[e] = r /\ m.everCut = n.everCut
    BY <2>3, <2>5 DEF Unmoved, Becomes, Beside, Steady
  <2>7. EndOk(k, e, r)
    BY <1>2, <2>2, <2>3, <2>4, EndKept
  <2>8. CauseOk(k, m, e)
    BY <1>2, <2>3, <2>6 DEF CauseOk, Steady
  <2>9. Waits(m, e) => Waits(n, e)
    BY <2>3, <2>5 DEF Waits, Steady, Becomes, Beside
  <2>10. LinkOk(k, m) /\ In(m, e) = In(n, e) /\ In(m, p) = In(n, p)
    BY <1>1, <2>3, <2>6, <2>7, <2>8, <2>9, QuietStep
  <2>11. Beside(l, m, e)
    BY <1>1, <2>5 DEF Flushed, Becomes, Beside
  <2>12. Steady(l.end[e], r)
    BY <1>1, <2>3 DEF Flushed, Steady
  <2>13. Flushed(l, m, e)
    BY <1>1, <2>3, <2>5, <2>6, <2>10, <2>11, <2>12 DEF Flushed
  <2>14. QED
    BY <2>3, <2>6, <2>10, <2>13 DEF Wanted, m
<1>6. QED
  BY <1>4, <1>5

\* One more record to send.
Writes(l, m, e, f) ==
    /\ Beside(l, m, e) /\ m.to = l.to
    /\ m.end[e].outbound = Append(l.end[e].outbound, f)
    /\ m.end[e].fed = l.end[e].fed /\ m.end[e].hs = l.end[e].hs
    /\ m.end[e].got = l.end[e].got /\ m.end[e].life = l.end[e].life
LEMMA WriteStep ==
    ASSUME NEW k \in Conns, NEW l, LinkOk(k, l), NEW e \in Sides, NEW m, NEW f \in AnyFrame, Writes(l, m, e, f),
           l.end[e].hs = "done", l.end[e].life = "live",
           f.t \notin Flights,
           \/ f.t # "data" /\ m.end[e].sent = l.end[e].sent
           \/ f = Data(l.end[e].sent + 1) /\ m.end[e].sent = l.end[e].sent + 1,
           EndOk(k, e, m.end[e]), CauseOk(k, m, e),
           l.end[e].failed => m.end[e].failed, Waits(m, e) => Waits(l, e) \/ f.t = "ping"
    PROVE  LinkOk(k, m) /\ In(m, e) = In(l, e) /\ In(m, Peer(e)) = Append(In(l, Peer(e)), f)
<1> DEFINE p == Peer(e)
           x == l.end[e]
           y == l.end[p]
           s == In(l, p)
<1>1. /\ p \in Sides /\ p # e /\ Peer(p) = e /\ l \in LinkType /\ x \in EndType /\ y \in EndType
      /\ l.to[e] \in Wire /\ l.to[p] \in Wire /\ SideOk(k, l, e) /\ SideOk(k, l, p)
  BY Two, Records
<1>2. /\ m \in LinkType /\ m.end[p] = y /\ m.shut = l.shut /\ m.to = l.to /\ Beside(l, m, e)
      /\ m.end[e].fed = x.fed /\ m.end[e].hs = x.hs /\ m.end[e].got = x.got /\ m.end[e].life = x.life
      /\ m.end[e].outbound = Append(x.outbound, f)
  BY DEF Writes, Beside
<1>3. x.outbound \in Wire /\ y.fed \in Wire /\ y.got \in Wire /\ x.sent \in Nat /\ y.hs \in {"start", "wait", "done"}
  BY <1>1 DEF EndType
<1>4. ~l.shut[e] /\ l.shut[e] \in BOOLEAN
  BY <1>1, Linked DEF SideOk
<1>5. In(m, e) = In(l, e)
  BY <1>2 DEF In
<1>6. In(m, p) = Append(s, f) /\ s \in Wire
  <2>1. In(m, p) = Joined(y.fed, l.to[p], Append(x.outbound, f)) /\ s = Joined(y.fed, l.to[p], x.outbound)
    BY <1>1, <1>2 DEF In
  <2>2. l.to[p] \in Wire
    BY <1>1
  <2>3. Joined(y.fed, l.to[p], Append(x.outbound, f)) = Append(Joined(y.fed, l.to[p], x.outbound), f)
    <3> HIDE DEF x, y, p
    <3>1. y.fed \in Wire /\ x.outbound \in Wire
      BY <1>3
    <3>2. ASSUME NEW a \in Wire, NEW b \in Wire, NEW c \in Wire
          PROVE  Joined(a, b, Append(c, f)) = Append(Joined(a, b, c), f)
      BY JoinedAppend
    <3>3. QED
      BY ZenonT(90), <2>2, <3>1, <3>2
  <2>4. Joined(y.fed, l.to[p], x.outbound) \in Wire
    <3> HIDE DEF x, y
    <3>1. QED
      BY <1>3, <2>2, JoinedTyped
  <2>5. QED
    BY <2>1, <2>3, <2>4
<1> HIDE DEF s
<1>7. WayOk(m, e)
  BY <1>1, <1>2, <1>5 DEF SideOk, WayOk, Way
<1>8. WayOk(m, p)
  <2>1. SUFFICES ASSUME ~y.failed, ~l.shut[p] PROVE Way(m, p)
    BY <1>1, <1>2 DEF WayOk
  <2>2. InOrder(s, Len(y.got), x.sent, FALSE) /\ Flown(s, Given(e, "done") - Used(p, y.hs), TRUE, FALSE)
    BY <1>1, <1>4, <2>1 DEF SideOk, WayOk, Way, s
  <2>3. InOrder(Append(s, f), Len(y.got), m.end[e].sent, FALSE)
    BY <1>3, <1>6, <2>2, InOrderAppend
  <2>4. Flown(Append(s, f), Given(e, "done") - Used(p, y.hs), TRUE, FALSE)
    BY <1>6, <2>2, FlownAppend
  <2>5. QED
    BY <1>1, <1>2, <1>4, <1>6, <2>3, <2>4 DEF Way
<1>9. Turns(m, e) /\ Turns(m, p) /\ Fits(m, e) /\ Fits(m, p) /\ GotOk(m, e)
  BY <1>1, <1>2 DEF SideOk, Turns, Fits, GotOk
<1>10. Len(s) \in Nat /\ Len(Append(s, f)) = Len(s) + 1 /\ Append(s, f)[Len(s) + 1] = f
       /\ (\A i \in 1 .. Len(s) : Append(s, f)[i] = s[i]) /\ DOMAIN s = 1 .. Len(s)
       /\ DOMAIN Append(s, f) = 1 .. Len(s) + 1
  BY <1>6, LenProperties, AppendProperties DEF Wire
<1>11. Owed(m, p)
  <2>1. In(m, p) # <<>>
    <3> DEFINE u == Append(s, f)
    <3>1. Len(u) # 0
      BY <1>10
    <3> HIDE DEF u
    <3>2. u # <<>>
      BY <3>1
    <3>3. QED
      BY <1>6, <3>2 DEF u
  <2>2. QED
    BY <2>1 DEF Owed
<1>12. Owed(m, e)
  <2>1. Owed(l, e)
    BY <1>1 DEF SideOk
  <2>2. f.t = "ping" => Pinged(m, p)
    BY <1>6, <1>10 DEF Pinged
  <2>3. Pinged(l, p) => Pinged(m, p)
    <3>1. \A i \in DOMAIN s : i \in DOMAIN Append(s, f) /\ Append(s, f)[i] = s[i]
      BY <1>10
    <3>2. QED
      BY <1>6, <3>1 DEF Pinged, s
  <2>4. QED
    BY <1>2, <1>5, <2>1, <2>2, <2>3 DEF Owed
<1>13. l.end[e].sent <= m.end[e].sent
  BY <1>3
<1>14. LinkOk(k, m)
  BY <1>2, <1>7, <1>8, <1>9, <1>11, <1>12, <1>13, StepOk
<1>15. QED
  BY <1>5, <1>6, <1>14 DEF s


-----------------------------------------------------------------------------
(* What was decrypted does not matter to what is sent: a link with other     *)
(* records read behaves alike.                                               *)

Refed(l, e, s) == Put(l, e, [l.end[e] EXCEPT !.fed = s])

LEMMA RefedIs ==
    ASSUME NEW l \in LinkType, NEW e \in Sides, NEW s \in Wire
    PROVE  /\ Refed(l, e, s) \in LinkType /\ Beside(l, Refed(l, e, s), e)
           /\ Refed(l, e, s).to = l.to /\ Refed(l, e, s).end[e] = [l.end[e] EXCEPT !.fed = s]
           /\ [l.end[e] EXCEPT !.fed = s] \in EndType
<1> DEFINE r == [l.end[e] EXCEPT !.fed = s]
<1>1. r \in EndType
  <2>1. l.end[e] \in EndType
    BY Linked
  <2>2. QED
    BY <2>1 DEF EndType
<1> HIDE DEF r
<1>2. Becomes(l, Put(l, e, r), e, r, e, l.to[e]) /\ Put(l, e, r).to = l.to
  BY <1>1, Placed
<1>3. QED
  BY <1>1, <1>2 DEF Becomes, Beside, Refed, r

LEMMA RefedPut ==
    ASSUME NEW l \in LinkType, NEW e \in Sides, NEW s \in Wire, NEW r \in EndType
    PROVE  /\ Refed(Put(l, e, r), e, s) = Put(l, e, [r EXCEPT !.fed = s])
           /\ Put(Refed(l, e, s), e, r) = Put(l, e, r)
<1> DEFINE n == Put(l, e, r)
           x == [l.end[e] EXCEPT !.fed = s]
<1>1. n.end[e] = r /\ \A z : Put(n, e, z) = Put(l, e, z)
  BY Placed DEF Becomes
<1>2. Refed(n, e, s) = Put(l, e, [r EXCEPT !.fed = s])
  <2> HIDE DEF n
  <2>1. QED
    BY <1>1 DEF Refed
<1>3. x \in EndType
  BY RefedIs
<1>4. Put(Put(l, e, x), e, r) = Put(l, e, r)
  <2> HIDE DEF x
  <2>1. QED
    BY <1>3, Placed
<1>5. QED
  BY <1>2, <1>4 DEF Refed

LEMMA RefedPutBoth ==
    ASSUME NEW l \in LinkType, NEW e \in Sides, NEW s \in Wire, NEW r \in EndType, NEW q \in Sides, NEW t \in Wire
    PROVE  /\ Refed(PutBoth(l, e, r, q, t), e, s) = PutBoth(l, e, [r EXCEPT !.fed = s], q, t)
           /\ PutBoth(Refed(l, e, s), e, r, q, t) = PutBoth(l, e, r, q, t)
<1>1. ASSUME NEW z, NEW y
      PROVE  Put(PutBoth(l, e, y, q, t), e, z) = PutBoth(l, e, z, q, t) /\ PutBoth(Put(l, e, y), e, z, q, t) = PutBoth(l, e, z, q, t)
  BY DEF LinkType, Put, PutBoth
<1>2. PutBoth(l, e, r, q, t).end[e] = r
  BY Changed DEF Becomes
<1>3. QED
  BY <1>1, <1>2 DEF Refed

LEMMA RefedTransportFail ==
    ASSUME NEW l \in LinkType, NEW e \in Sides, NEW s \in Wire, NEW why \in Causes
    PROVE  transportFail(Refed(l, e, s), e, why) = Refed(transportFail(l, e, why), e, s)
<1> DEFINE x == l.end[e]
           r == [x EXCEPT !.failed = TRUE, !.cause = why]
           n == Refed(l, e, s)
           y == n.end[e]
           z == [y EXCEPT !.failed = TRUE, !.cause = why]
<1>1. x \in EndType
  BY Linked
<1>2. r \in EndType
  BY <1>1 DEF EndType
<1>3. n \in LinkType /\ y = [x EXCEPT !.fed = s] /\ y \in EndType
  BY RefedIs
<1>4. y.failed = x.failed /\ z = [r EXCEPT !.fed = s] /\ z \in EndType
  <2> HIDE DEF n
  <2>1. QED
    BY <1>1, <1>3 DEF EndType
<1>5. transportFail(n, e, why) = IF y.failed THEN n ELSE Put(n, e, z)
  <2> HIDE DEF n
  <2>1. QED
    BY ZenonT(90), <1>3, Marked
<1>6. transportFail(l, e, why) = IF x.failed THEN l ELSE Put(l, e, r)
  BY Marked
<1> HIDE DEF z, r, y, x
<1>7. Put(n, e, z) = Put(l, e, z) /\ Refed(Put(l, e, r), e, s) = Put(l, e, z)
  BY <1>2, <1>4, RefedPut DEF n
<1>8. QED
  BY <1>4, <1>5, <1>6, <1>7 DEF n

LEMMA RefedFail ==
    ASSUME NEW l \in LinkType, NEW e \in Sides, NEW s \in Wire, NEW why \in Causes
    PROVE  fail(Refed(l, e, s), e, why) = Refed(fail(l, e, why), e, s)
<1> DEFINE x == l.end[e]
           r == [x EXCEPT !.streamFailed = TRUE, !.token = FALSE]
           n == Refed(l, e, s)
           y == n.end[e]
           z == [y EXCEPT !.streamFailed = TRUE, !.token = FALSE]
<1>1. x \in EndType
  BY Linked
<1>2. r \in EndType
  BY <1>1 DEF EndType
<1>3. n \in LinkType /\ y = [x EXCEPT !.fed = s] /\ y \in EndType
  BY RefedIs
<1>4. y.streamFailed = x.streamFailed /\ z = [r EXCEPT !.fed = s] /\ z \in EndType
  <2> HIDE DEF n
  <2>1. QED
    BY <1>1, <1>3 DEF EndType
<1>5. ASSUME NEW w \in LinkType
      PROVE  fail(w, e, why) = IF w.end[e].streamFailed THEN w
                               ELSE transportFail(Put(w, e, [w.end[e] EXCEPT !.streamFailed = TRUE, !.token = FALSE]), e, why)
  <2>1. w.end[e] \in EndType
    BY <1>5, Linked
  <2>2. [w EXCEPT !.end[e].streamFailed = TRUE, !.end[e].token = FALSE]
        = Put(w, e, [w.end[e] EXCEPT !.streamFailed = TRUE, !.token = FALSE])
    BY <1>5, <2>1 DEF LinkType, EndType, Put
  <2>3. QED
    BY <2>2 DEF fail
<1>6. fail(n, e, why) = IF y.streamFailed THEN n ELSE transportFail(Put(n, e, z), e, why)
  <2> HIDE DEF n
  <2>1. QED
    BY <1>3, <1>5
<1>7. fail(l, e, why) = IF x.streamFailed THEN l ELSE transportFail(Put(l, e, r), e, why)
  BY <1>5
<1> HIDE DEF z, r, y, x
<1>8. Put(n, e, z) = Put(l, e, z) /\ Refed(Put(l, e, r), e, s) = Put(l, e, z)
  BY <1>2, <1>4, RefedPut DEF n
<1>9. Put(l, e, r) \in LinkType
  BY <1>2, Placed DEF Becomes, Beside
<1>10. transportFail(Refed(Put(l, e, r), e, s), e, why) = Refed(transportFail(Put(l, e, r), e, why), e, s)
  BY <1>9, RefedTransportFail
<1>11. QED
  BY <1>4, <1>6, <1>7, <1>8, <1>10 DEF n

LEMMA RefedFlush ==
    ASSUME NEW l \in LinkType, NEW e \in Sides, NEW s \in Wire, Fits(l, Peer(e))
    PROVE  flushOutbound(Refed(l, e, s), e) = Refed(flushOutbound(l, e), e, s)
<1> DEFINE x == l.end[e]
           n == Refed(l, e, s)
           y == n.end[e]
           p == Peer(e)
           r == [x EXCEPT !.outbound = <<>>]
           z == [y EXCEPT !.outbound = <<>>]
<1>1. x \in EndType /\ p \in Sides
  BY Linked, Two
<1>2. /\ n \in LinkType /\ y = [x EXCEPT !.fed = s] /\ y \in EndType /\ n.to = l.to /\ n.shut = l.shut
      /\ n.reset = l.reset
  BY RefedIs DEF Beside
<1>3. y.outbound = x.outbound /\ x.outbound \in Wire
  <2> HIDE DEF n
  <2>1. QED
    BY <1>1, <1>2 DEF EndType
<1>4. Fits(n, p) /\ Taken(n, e) = Taken(l, e)
  BY <1>2, <1>3 DEF Fits, Taken
<1>5. PICK i \in 0 .. Len(x.outbound) :
        /\ i = Taken(l, e)
        /\ flushOutbound(l, e) =
             IF x.outbound = <<>> THEN l ELSE IF l.reset THEN fail(l, e, "write")
             ELSE IF l.shut[p] THEN Put(l, e, r)
             ELSE PutBoth(l, e, [x EXCEPT !.outbound = SubSeq(@, i + 1, Len(@))], p, l.to[p] \o SubSeq(x.outbound, 1, i))
  BY FlushShape
<1>6. PICK j \in 0 .. Len(y.outbound) :
        /\ j = Taken(n, e)
        /\ flushOutbound(n, e) =
             IF y.outbound = <<>> THEN n ELSE IF n.reset THEN fail(n, e, "write")
             ELSE IF n.shut[p] THEN Put(n, e, z)
             ELSE PutBoth(n, e, [y EXCEPT !.outbound = SubSeq(@, j + 1, Len(@))], p, n.to[p] \o SubSeq(y.outbound, 1, j))
  <2> HIDE DEF n
  <2>1. QED
    BY <1>2, <1>4, FlushShape
<1>7. i = j
  BY <1>4, <1>5, <1>6
<1> DEFINE v == [x EXCEPT !.outbound = SubSeq(@, i + 1, Len(@))]
           w == [y EXCEPT !.outbound = SubSeq(@, i + 1, Len(@))]
           t == l.to[p] \o SubSeq(x.outbound, 1, i)
<1>8. SubSeq(x.outbound, 1, i) \in Wire /\ SubSeq(x.outbound, i + 1, Len(x.outbound)) \in Wire
  BY <1>3, <1>5, Halves DEF Wire
<1>9. r \in EndType /\ z = [r EXCEPT !.fed = s] /\ z \in EndType /\ v \in EndType /\ w = [v EXCEPT !.fed = s] /\ w \in EndType
  <2>1. <<>> \in Wire
    BY EmptySeq DEF Wire
  <2> HIDE DEF n
  <2>2. QED
    BY ZenonT(90), <1>1, <1>2, <1>8, <2>1 DEF EndType
<1>10. t \in Wire
  <2>1. l.to[p] \in Wire
    BY <1>1, Linked
  <2>2. QED
    BY <1>8, <2>1, ConcatProperties DEF Wire
<1>11. Put(n, e, z) = Refed(Put(l, e, r), e, s)
  <2> HIDE DEF r, z
  <2>1. QED
    BY <1>9, RefedPut DEF n
<1>12. PutBoth(n, e, w, p, t) = Refed(PutBoth(l, e, v, p, t), e, s)
  <2> HIDE DEF v, w, t
  <2>1. QED
    BY <1>1, <1>9, <1>10, RefedPutBoth DEF n
<1>13. fail(n, e, "write") = Refed(fail(l, e, "write"), e, s)
  BY RefedFail DEF Causes
<1>14. flushOutbound(n, e) =
         IF x.outbound = <<>> THEN n ELSE IF l.reset THEN fail(n, e, "write")
         ELSE IF l.shut[p] THEN Put(n, e, z) ELSE PutBoth(n, e, w, p, t)
  <2> HIDE DEF n
  <2>1. QED
    BY <1>2, <1>3, <1>6, <1>7
<1>15. flushOutbound(l, e) =
         IF x.outbound = <<>> THEN l ELSE IF l.reset THEN fail(l, e, "write")
         ELSE IF l.shut[p] THEN Put(l, e, r) ELSE PutBoth(l, e, v, p, t)
  BY <1>5
<1> HIDE DEF r, z, v, w, t, y, x
<1>16. flushOutbound(n, e) = Refed(flushOutbound(l, e), e, s)
  <2>1. CASE x.outbound = <<>>
    BY <1>14, <1>15, <2>1 DEF n
  <2>2. CASE x.outbound # <<>> /\ l.reset
    BY <1>13, <1>14, <1>15, <2>2
  <2>3. CASE x.outbound # <<>> /\ ~l.reset /\ l.shut[p]
    BY <1>11, <1>14, <1>15, <2>3
  <2>4. CASE x.outbound # <<>> /\ ~l.reset /\ ~l.shut[p]
    BY <1>12, <1>14, <1>15, <2>4
  <2>5. QED
    BY <2>1, <2>2, <2>3, <2>4
<1>17. QED
  BY <1>16 DEF n

\* updateInterest and write.
LEMMA InterestShape ==
    ASSUME NEW l \in LinkType, NEW e \in Sides
    PROVE  updateInterest(l, e) =
             IF l.end[e].streamFailed \/ ~l.end[e].token THEN l
             ELSE Put(l, e, [l.end[e] EXCEPT !.wantWrite = l.end[e].outbound # <<>>])
<1>1. l.end[e] \in EndType
  BY Linked
<1>2. QED
  BY <1>1 DEF updateInterest, LinkType, EndType, Put

LEMMA WriteShape ==
    ASSUME NEW l \in LinkType, NEW e \in Sides, NEW f \in AnyFrame
    PROVE  /\ write(l, e, f) = Put(l, e, [l.end[e] EXCEPT !.outbound = Append(@, f)])
           /\ [l.end[e] EXCEPT !.outbound = Append(@, f)] \in EndType
<1>1. l.end[e] \in EndType
  BY Linked
<1>2. Append(l.end[e].outbound, f) \in Wire
  BY <1>1, AppendProperties DEF EndType, Wire
<1>3. QED
  BY <1>1, <1>2 DEF write, LinkType, EndType, Put

LEMMA RefedInterest ==
    ASSUME NEW l \in LinkType, NEW e \in Sides, NEW s \in Wire
    PROVE  updateInterest(Refed(l, e, s), e) = Refed(updateInterest(l, e), e, s)
<1> DEFINE x == l.end[e]
           r == [x EXCEPT !.wantWrite = x.outbound # <<>>]
           n == Refed(l, e, s)
           y == n.end[e]
           z == [y EXCEPT !.wantWrite = y.outbound # <<>>]
<1>1. x \in EndType
  BY Linked
<1>2. r \in EndType
  BY <1>1 DEF EndType
<1>3. n \in LinkType /\ y = [x EXCEPT !.fed = s] /\ y \in EndType
  BY RefedIs
<1>4. y.streamFailed = x.streamFailed /\ y.token = x.token /\ z = [r EXCEPT !.fed = s] /\ z \in EndType
  <2> HIDE DEF n
  <2>1. QED
    BY ZenonT(90), <1>1, <1>3 DEF EndType
<1>5. updateInterest(n, e) = IF y.streamFailed \/ ~y.token THEN n ELSE Put(n, e, z)
  <2> HIDE DEF n
  <2>1. QED
    BY <1>3, InterestShape
<1>6. updateInterest(l, e) = IF x.streamFailed \/ ~x.token THEN l ELSE Put(l, e, r)
  BY InterestShape
<1> HIDE DEF z, r, y, x
<1>7. Put(n, e, z) = Put(l, e, z) /\ Refed(Put(l, e, r), e, s) = Put(l, e, z)
  BY <1>2, <1>4, RefedPut DEF n
<1>8. QED
  BY <1>4, <1>5, <1>6, <1>7 DEF n

LEMMA RefedWrite ==
    ASSUME NEW l \in LinkType, NEW e \in Sides, NEW s \in Wire, NEW f \in AnyFrame
    PROVE  /\ write(Refed(l, e, s), e, f) = Refed(write(l, e, f), e, s)
           /\ write(l, e, f) \in LinkType /\ write(l, e, f).to = l.to
<1> DEFINE x == l.end[e]
           r == [x EXCEPT !.outbound = Append(@, f)]
           n == Refed(l, e, s)
           y == n.end[e]
           z == [y EXCEPT !.outbound = Append(@, f)]
<1>1. x \in EndType
  BY Linked
<1>2. r \in EndType
  BY WriteShape
<1>3. n \in LinkType /\ y = [x EXCEPT !.fed = s] /\ y \in EndType
  BY RefedIs
<1>4. z = [r EXCEPT !.fed = s] /\ z \in EndType
  <2>1. z \in EndType
    <3> HIDE DEF n
    <3>1. QED
      BY <1>3, WriteShape
  <2> HIDE DEF n
  <2>2. QED
    BY <1>1, <1>3, <2>1 DEF EndType
<1>5. write(n, e, f) = Put(n, e, z)
  <2> HIDE DEF n
  <2>1. n \in LinkType
    BY <1>3
  <2>2. QED
    BY <2>1, WriteShape
<1>6. write(l, e, f) = Put(l, e, r)
  BY WriteShape
<1> HIDE DEF z, r, y, x
<1>7. Put(n, e, z) = Put(l, e, z) /\ Refed(Put(l, e, r), e, s) = Put(l, e, z)
  BY <1>2, <1>4, RefedPut DEF n
<1>8. Put(l, e, r) \in LinkType /\ Put(l, e, r).to = l.to
  BY <1>2, Placed DEF Becomes, Beside
<1>9. QED
  BY <1>5, <1>6, <1>7, <1>8 DEF n

-----------------------------------------------------------------------------
(* send *)

LEMMA WriteOk ==
    ASSUME NEW k \in Conns, NEW l, LinkOk(k, l), NEW e \in Sides, NEW f \in AnyFrame, f.t \notin Flights, f.t # "data",
           l.end[e].hs = "done", l.end[e].life = "live"
    PROVE  /\ LinkOk(k, write(l, e, f)) /\ Writes(l, write(l, e, f), e, f) /\ Steady(l.end[e], write(l, e, f).end[e])
           /\ In(write(l, e, f), e) = In(l, e) /\ In(write(l, e, f), Peer(e)) = Append(In(l, Peer(e)), f)
           /\ write(l, e, f).end[e].token = l.end[e].token
           /\ write(l, e, f).end[e].streamFailed = l.end[e].streamFailed
<1> DEFINE x == l.end[e]
           r == [x EXCEPT !.outbound = Append(@, f)]
           m == write(l, e, f)
<1>1. l \in LinkType /\ x \in EndType /\ EndOk(k, e, x) /\ CauseOk(k, l, e)
  BY Records DEF SideOk
<1>2. m = Put(l, e, r) /\ r \in EndType
  BY <1>1, WriteShape
<1> HIDE DEF m
<1>3. /\ Steady(x, r) /\ r.outbound = Append(x.outbound, f) /\ r.token = x.token
      /\ r.streamFailed = x.streamFailed /\ r.failed = x.failed /\ r.cause = x.cause
  BY <1>1 DEF Steady, EndType
<1> HIDE DEF r
<1>4. Becomes(l, m, e, r, e, l.to[e]) /\ m.to = l.to
  BY <1>1, <1>2, Placed
<1>5. Beside(l, m, e) /\ m.end[e] = r /\ m.everCut = l.everCut /\ m.shut = l.shut
  BY <1>4 DEF Becomes, Beside
<1>6. Writes(l, m, e, f)
  BY <1>3, <1>4, <1>5 DEF Writes, Steady
<1>7. EndOk(k, e, r)
  BY <1>1, <1>2, <1>3, EndKept
<1>8. CauseOk(k, m, e)
  BY <1>1, <1>3, <1>5 DEF CauseOk, Steady
<1>9. Waits(m, e) => Waits(l, e)
  BY <1>3, <1>5 DEF Waits, Steady
<1>10. m.end[e].sent = l.end[e].sent /\ (l.end[e].failed => m.end[e].failed)
  BY <1>3, <1>5 DEF Steady
<1>11. LinkOk(k, m) /\ In(m, e) = In(l, e) /\ In(m, Peer(e)) = Append(In(l, Peer(e)), f)
  BY <1>5, <1>6, <1>7, <1>8, <1>9, <1>10, WriteStep
<1>12. QED
  BY <1>3, <1>5, <1>6, <1>11 DEF m

\* What a send leaves.
Sent(l, m, e, f) ==
    /\ Beside(l, m, e) /\ Steady(l.end[e], m.end[e]) /\ m.to[e] = l.to[e]
    /\ In(m, e) = In(l, e)
    /\ In(m, Peer(e)) = Append(In(l, Peer(e)), f) \/ l.shut[Peer(e)] \/ m.end[e].failed
    /\ m.end[e].token => l.end[e].token
    /\ Wanted(l, e) => Wanted(m, e)

LEMMA SendIs ==
    ASSUME NEW l, NEW e, NEW f
    PROVE  send(l, e, f) = IF l.end[e].streamFailed THEN l ELSE settle(write(l, e, f), e)
BY DEF send, settle

LEMMA SendOk ==
    ASSUME NEW k \in Conns, NEW l, LinkOk(k, l), NEW e \in Sides, NEW f \in AnyFrame, f.t \notin Flights, f.t # "data",
           l.end[e].hs = "done", l.end[e].life = "live"
    PROVE  LinkOk(k, send(l, e, f)) /\ Sent(l, send(l, e, f), e, f)
<1> DEFINE w == write(l, e, f)
           m == send(l, e, f)
<1>1. l \in LinkType /\ EndOk(k, e, l.end[e])
  BY Records
<1>2. m = IF l.end[e].streamFailed THEN l ELSE settle(w, e)
  BY SendIs
<1>3. CASE l.end[e].streamFailed
  <2>1. Beside(l, l, e) /\ Steady(l.end[e], l.end[e])
    BY <1>1 DEF Beside, Steady
  <2>2. l.end[e].failed
    BY <1>1, <1>3 DEF EndOk, Stopped
  <2>3. QED
    BY <1>2, <1>3, <2>1, <2>2 DEF Sent
<1>4. CASE ~l.end[e].streamFailed
  <2>1. /\ LinkOk(k, w) /\ Writes(l, w, e, f) /\ Steady(l.end[e], w.end[e]) /\ w.end[e].token = l.end[e].token
        /\ In(w, e) = In(l, e) /\ In(w, Peer(e)) = Append(In(l, Peer(e)), f)
    BY WriteOk
  <2> HIDE DEF w
  <2>2. w.end[e].life = "live" /\ Beside(l, w, e) /\ w.to = l.to
    BY <2>1 DEF Writes
  <2>3. LinkOk(k, settle(w, e)) /\ Flushed(w, settle(w, e), e) /\ Wanted(settle(w, e), e)
    BY <2>1, <2>2, SettleOk
  <2>4. m = settle(w, e)
    BY <1>2, <1>4
  <2> HIDE DEF m
  <2>5. LinkOk(k, m) /\ Flushed(w, m, e) /\ Wanted(m, e)
    BY <2>3, <2>4
  <2>6. Beside(l, m, e)
    BY <2>2, <2>5 DEF Flushed, Beside
  <2>7. Steady(l.end[e], m.end[e])
    BY <2>1, <2>5 DEF Flushed, Steady
  <2>8. w.shut = l.shut
    BY <2>2 DEF Beside
  <2>9. Sent(l, m, e, f)
    BY <2>1, <2>2, <2>5, <2>6, <2>7, <2>8 DEF Flushed, Sent
  <2>10. QED
    BY <2>5, <2>9 DEF m
<1>5. QED
  BY <1>3, <1>4

LEMMA RefedSend ==
    ASSUME NEW k \in Conns, NEW l, LinkOk(k, l), NEW e \in Sides, NEW f \in AnyFrame, f.t \notin Flights, f.t # "data",
           l.end[e].hs = "done", l.end[e].life = "live", NEW s \in Wire
    PROVE  send(Refed(l, e, s), e, f) = Refed(send(l, e, f), e, s)
<1> DEFINE n == Refed(l, e, s)
           w == write(l, e, f)
           v == flushOutbound(w, e)
<1>1. l \in LinkType /\ l.end[e] \in EndType
  BY Records
<1>2. n.end[e] = [l.end[e] EXCEPT !.fed = s]
  BY <1>1, RefedIs
<1>3. n.end[e].streamFailed = l.end[e].streamFailed
  <2> HIDE DEF n
  <2>1. QED
    BY <1>1, <1>2 DEF EndType
<1>4. write(n, e, f) = Refed(w, e, s) /\ w \in LinkType
  BY <1>1, RefedWrite
<1>5. LinkOk(k, w) /\ Writes(l, w, e, f)
  BY WriteOk
<1> HIDE DEF w
<1>6. w.end[e].life = "live" /\ Fits(w, Peer(e))
  BY <1>5, Records DEF Writes, SideOk
<1>7. flushOutbound(Refed(w, e, s), e) = Refed(v, e, s)
  BY <1>4, <1>6, RefedFlush
<1>8. v \in LinkType
  BY <1>5, <1>6, FlushOk DEF LinkOk
<1> HIDE DEF v
<1>9. updateInterest(Refed(v, e, s), e) = Refed(updateInterest(v, e), e, s)
  BY <1>8, RefedInterest
<1>10. send(n, e, f) = IF n.end[e].streamFailed THEN n ELSE updateInterest(flushOutbound(write(n, e, f), e), e)
  BY DEF send
<1>11. send(l, e, f) = IF l.end[e].streamFailed THEN l ELSE updateInterest(v, e)
  BY DEF send, v, w
<1>12. CASE l.end[e].streamFailed
  BY <1>3, <1>10, <1>11, <1>12
<1>13. CASE ~l.end[e].streamFailed
  <2>1. send(n, e, f) = updateInterest(flushOutbound(Refed(w, e, s), e), e)
    BY <1>3, <1>4, <1>10, <1>13
  <2>2. QED
    BY <1>7, <1>9, <1>11, <1>13, <2>1
<1>14. QED
  BY <1>12, <1>13

-----------------------------------------------------------------------------
(* Session::receive *)

\* After the handshake what comes up is in order and no flight.
LEMMA HeadIs ==
    ASSUME NEW k \in Conns, NEW l, LinkOk(k, l), NEW e \in Sides, Way(l, e), l.end[e].hs = "done", l.end[e].fed # <<>>
    PROVE  /\ Head(l.end[e].fed) \in AnyFrame /\ Head(l.end[e].fed).t \notin Flights
           /\ Head(l.end[e].fed).t = "data" =>
                /\ Head(l.end[e].fed) = Data(Len(l.end[e].got) + 1)
                /\ Len(l.end[e].got) + 1 <= l.end[Peer(e)].sent
           /\ \A m : /\ In(m, e) = Tail(In(l, e)) /\ m.end[e].hs = "done" /\ m.shut = l.shut
                     /\ m.end[Peer(e)] = l.end[Peer(e)]
                     /\ Len(m.end[e].got) = IF Head(l.end[e].fed).t = "data" THEN Len(l.end[e].got) + 1 ELSE Len(l.end[e].got)
                     => Way(m, e)
<1> DEFINE x == l.end[e]
           y == l.end[Peer(e)]
           s == In(l, e)
           f == Head(x.fed)
           gone == l.shut[Peer(e)]
           d == Given(Peer(e), y.hs) - Used(e, "done")
<1>1. /\ l \in LinkType /\ x \in EndType /\ y \in EndType /\ l.to[e] \in Wire /\ Peer(e) \in Sides
  BY Records, Two
<1>2. x.fed \in Wire /\ y.outbound \in Wire /\ x.got \in Wire /\ y.sent \in Nat /\ y.hs \in {"start", "wait", "done"}
  BY <1>1 DEF EndType
<1>3. gone \in BOOLEAN
  BY <1>1, Linked
<1>4. s \in Wire /\ s # <<>> /\ Head(s) = f
  <2>1. s = Joined(x.fed, l.to[e], y.outbound)
    BY DEF In
  <2>2. x.fed \in Wire /\ l.to[e] \in Wire /\ y.outbound \in Wire /\ x.fed # <<>>
    BY <1>1, <1>2
  <2> HIDE DEF s, x, y
  <2>3. Joined(x.fed, l.to[e], y.outbound) \in Wire
    BY <2>2, JoinedTyped
  <2>4. Joined(x.fed, l.to[e], y.outbound) # <<>> /\ Head(Joined(x.fed, l.to[e], y.outbound)) = Head(x.fed)
    BY <2>2, JoinedTail
  <2>5. QED
    BY <2>1, <2>3, <2>4
<1>5. f \in AnyFrame
  BY <1>2, HeadTailProperties DEF Wire
<1>6. InOrder(s, Len(x.got), y.sent, gone) /\ Flown(s, d, y.hs = "done", gone)
  BY DEF Way
<1>7. Len(x.got) \in Nat
  BY <1>2, LenProperties DEF Wire
<1> HIDE DEF s, f, gone
<1>8. d = 0
  <2>1. d \in Nat
    BY <1>6 DEF Flown
  <2>2. QED
    BY <1>2, <2>1 DEF Given, Used, Sides, Peer
<1>9. y.hs = "done" /\ f.t \notin Flights /\ Flown(Tail(s), 0, y.hs = "done", gone)
  <2>1. Flown(s, 0, y.hs = "done", gone)
    BY <1>6, <1>8
  <2>2. (y.hs = "done") \in BOOLEAN
    OBVIOUS
  <2>3. QED
    BY ZenonT(90), <1>3, <1>4, <2>1, <2>2, FlownTail
<1>10. /\ f.t # "data" => InOrder(Tail(s), Len(x.got), y.sent, gone)
       /\ f.t = "data" => f = Data(Len(x.got) + 1) /\ Len(x.got) + 1 <= y.sent
                          /\ InOrder(Tail(s), Len(x.got) + 1, y.sent, gone)
  BY <1>2, <1>3, <1>4, <1>6, <1>7, InOrderTail
<1>11. ASSUME NEW m, In(m, e) = Tail(s), m.end[e].hs = "done", m.shut = l.shut, m.end[Peer(e)] = y,
              Len(m.end[e].got) = IF f.t = "data" THEN Len(x.got) + 1 ELSE Len(x.got)
       PROVE  Way(m, e)
  <2>1. InOrder(In(m, e), Len(m.end[e].got), y.sent, m.shut[Peer(e)])
    BY <1>10, <1>11 DEF gone
  <2>2. Flown(In(m, e), d, y.hs = "done", m.shut[Peer(e)])
    BY <1>8, <1>9, <1>11 DEF gone
  <2>3. QED
    BY <1>11, <2>1, <2>2 DEF Way
<1>12. QED
  BY <1>5, <1>9, <1>10, <1>11 DEF s, f

\* One frame less to hand up.
Pops(l, m, e) ==
    /\ Beside(l, m, e) /\ m.to = l.to
    /\ m.end[e].outbound = l.end[e].outbound /\ m.end[e].hs = l.end[e].hs
    /\ m.end[e].sent = l.end[e].sent /\ m.end[e].life = l.end[e].life
    /\ m.end[e].fed = Tail(l.end[e].fed)
Handed(l, m, e) ==
    /\ Way(l, e)
    /\ m.end[e].got = IF Head(l.end[e].fed).t = "data" THEN Append(l.end[e].got, Head(l.end[e].fed)) ELSE l.end[e].got

LEMMA PopStep ==
    ASSUME NEW k \in Conns, NEW l, LinkOk(k, l), NEW e \in Sides, NEW m, Pops(l, m, e),
           l.end[e].hs = "done", l.end[e].fed # <<>>,
           EndOk(k, e, m.end[e]), CauseOk(k, m, e), l.end[e].failed => m.end[e].failed, m.end[e].sawInbound,
           (m.end[e].failed /\ m.end[e].got = l.end[e].got) \/ Handed(l, m, e),
           Head(l.end[e].fed).t # "ping" \/ In(l, Peer(e)) # <<>> \/ m.end[e].failed \/ l.shut[Peer(e)]
    PROVE  LinkOk(k, m) /\ (Handed(l, m, e) => Way(m, e))
<1> DEFINE p == Peer(e)
           x == l.end[e]
           y == l.end[p]
           s == In(l, e)
           f == Head(x.fed)
<1>1. /\ p \in Sides /\ p # e /\ Peer(p) = e /\ l \in LinkType /\ x \in EndType /\ y \in EndType
      /\ l.to[e] \in Wire /\ SideOk(k, l, e) /\ SideOk(k, l, p)
  BY Two, Records
<1>2. /\ m \in LinkType /\ m.end[p] = y /\ m.shut = l.shut /\ m.to = l.to /\ Beside(l, m, e)
      /\ m.end[e].outbound = x.outbound /\ m.end[e].hs = x.hs /\ m.end[e].sent = x.sent /\ m.end[e].life = x.life
      /\ m.end[e].fed = Tail(x.fed)
  BY DEF Pops, Beside
<1>3. x.fed \in Wire /\ y.outbound \in Wire /\ x.got \in Wire /\ x.sent \in Nat /\ y.sent \in Nat
  BY <1>1 DEF EndType
<1>4. In(m, p) = In(l, p)
  BY <1>1, <1>2 DEF In
<1>5. In(m, e) = Tail(s) /\ s # <<>> /\ Head(s) = f /\ s \in Wire
  <2>1. s = Joined(x.fed, l.to[e], y.outbound) /\ In(m, e) = Joined(Tail(x.fed), l.to[e], y.outbound)
    BY <1>2 DEF In
  <2>2. x.fed \in Wire /\ l.to[e] \in Wire /\ y.outbound \in Wire /\ x.fed # <<>>
    BY <1>1, <1>3
  <2> HIDE DEF s, x, y
  <2>3. /\ Joined(x.fed, l.to[e], y.outbound) # <<>> /\ Head(Joined(x.fed, l.to[e], y.outbound)) = Head(x.fed)
        /\ Joined(Tail(x.fed), l.to[e], y.outbound) = Tail(Joined(x.fed, l.to[e], y.outbound))
    BY <2>2, JoinedTail
  <2>4. Joined(x.fed, l.to[e], y.outbound) \in Wire
    BY <2>2, JoinedTyped
  <2>5. QED
    BY <2>1, <2>3, <2>4
<1>6. Len(x.got) \in Nat /\ (\A g \in AnyFrame : Len(Append(x.got, g)) = Len(x.got) + 1
        /\ Append(x.got, g)[Len(x.got) + 1] = g /\ \A i \in 1 .. Len(x.got) : Append(x.got, g)[i] = x.got[i])
  BY <1>3, LenProperties, AppendProperties DEF Wire
<1>7. ASSUME Handed(l, m, e) PROVE Way(m, e) /\ GotOk(m, e)
  <2>1. Way(l, e) /\ m.end[e].got = IF f.t = "data" THEN Append(x.got, f) ELSE x.got
    BY <1>7 DEF Handed
  <2>2. /\ f \in AnyFrame /\ f.t \notin Flights
        /\ f.t = "data" => f = Data(Len(x.got) + 1) /\ Len(x.got) + 1 <= y.sent
        /\ \A n : /\ In(n, e) = Tail(In(l, e)) /\ n.end[e].hs = "done" /\ n.shut = l.shut
                  /\ n.end[Peer(e)] = l.end[Peer(e)]
                  /\ Len(n.end[e].got) = IF f.t = "data" THEN Len(x.got) + 1 ELSE Len(x.got)
                  => Way(n, e)
    BY <2>1, HeadIs
  <2> HIDE DEF f
  <2>3. Len(m.end[e].got) = IF f.t = "data" THEN Len(x.got) + 1 ELSE Len(x.got)
    BY <1>6, <2>1, <2>2
  <2>4. Way(m, e)
    BY <1>2, <1>5, <2>2, <2>3
  <2>5. GotOk(l, e)
    BY <1>1 DEF SideOk
  <2>6. CASE f.t # "data"
    <3>1. m.end[e].got = x.got /\ m.end[Peer(e)].sent = y.sent
      BY <1>2, <2>1, <2>6
    <3>2. QED
      BY <2>4, <2>5, <3>1 DEF GotOk
  <2>7. CASE f.t = "data"
    <3>1. m.end[e].got = Append(x.got, f) /\ f = Data(Len(x.got) + 1) /\ Len(x.got) + 1 <= y.sent
      BY <2>1, <2>2, <2>7
    <3>2. \A i \in 1 .. Len(x.got) + 1 : i = Len(x.got) + 1 \/ i \in 1 .. Len(x.got)
      BY <1>6
    <3>3. \A i \in 1 .. Len(x.got) : x.got[i] = Data(i)
      BY <2>5 DEF GotOk
    <3>4. \A i \in 1 .. Len(x.got) + 1 : m.end[e].got[i] = Data(i)
      BY SMTT(30), <1>6, <2>2, <3>1, <3>2, <3>3
    <3>5. m.end[Peer(e)].sent = y.sent /\ Len(m.end[e].got) = Len(x.got) + 1
      BY <1>2, <2>3, <2>7
    <3>6. QED
      BY <2>4, <3>1, <3>4, <3>5 DEF GotOk
  <2>8. QED
    BY <2>4, <2>6, <2>7
<1>8. GotOk(m, e)
  <2>1. CASE m.end[e].got = x.got
    BY <1>1, <1>2, <2>1 DEF SideOk, GotOk
  <2>2. QED
    BY <1>7, <2>1
<1>9. WayOk(m, e)
  BY <1>7 DEF WayOk
<1>10. WayOk(m, p) /\ Turns(m, e) /\ Turns(m, p) /\ Fits(m, e) /\ Fits(m, p)
  BY <1>1, <1>2, <1>4 DEF SideOk, WayOk, Way, Turns, Fits
<1>11. Owed(m, e)
  BY DEF Owed, Waits
<1>12. Owed(m, p)
  <2>1. SUFFICES ASSUME Waits(m, p), ~m.end[e].failed, ~m.shut[e], In(m, p) = <<>> PROVE Pinged(m, e)
    BY <1>1 DEF Owed
  <2>2. Waits(l, p) /\ ~l.end[e].failed /\ ~l.shut[e] /\ ~l.shut[p]
    BY <1>2, <2>1 DEF Waits
  <2>3. Pinged(l, e)
    BY <1>1, <1>4, <2>1, <2>2 DEF SideOk, Owed
  <2>4. f.t # "ping"
    BY <1>4, <2>1, <2>2
  <2>5. PICK i \in DOMAIN s : s[i].t = "ping"
    BY <2>3 DEF Pinged
  <2> HIDE DEF s, f
  <2>6. /\ DOMAIN s = 1 .. Len(s) /\ Len(s) \in Nat /\ s[1] = f /\ DOMAIN Tail(s) = 1 .. Len(s) - 1
        /\ \A j \in 1 .. Len(s) - 1 : Tail(s)[j] = s[j + 1]
    <3>1. DOMAIN s = 1 .. Len(s) /\ Len(s) \in Nat
      BY <1>5, LenProperties DEF Wire
    <3>2. /\ Head(s) = s[1] /\ Tail(s) \in Seq(AnyFrame) /\ Len(Tail(s)) = Len(s) - 1
          /\ \A j \in 1 .. Len(Tail(s)) : Tail(s)[j] = s[j + 1]
      BY <1>5, HeadTailProperties DEF Wire
    <3>3. DOMAIN Tail(s) = 1 .. Len(Tail(s))
      BY <3>2, LenProperties
    <3>4. QED
      BY <1>5, <3>1, <3>2, <3>3
  <2>7. i # 1
    BY <2>4, <2>5, <2>6
  <2>8. i - 1 \in DOMAIN Tail(s) /\ Tail(s)[i - 1] = s[i]
    BY <2>5, <2>6, <2>7
  <2>9. QED
    BY <1>5, <2>5, <2>8 DEF Pinged
<1>13. x.sent <= m.end[e].sent
  BY <1>2, <1>3
<1>14. LinkOk(k, m)
  BY <1>2, <1>8, <1>9, <1>10, <1>11, <1>12, <1>13, StepOk
<1>15. QED
  BY <1>7, <1>14

\* What reading leaves of an end.
Kept(x, y) ==
    /\ y.life = x.life /\ y.connectConfirmed = x.connectConfirmed /\ y.hs = x.hs /\ y.established = x.established
    /\ y.ready = x.ready /\ y.timer = x.timer /\ y.sawInbound = x.sawInbound
    /\ y.missedBeats = x.missedBeats /\ y.addressCursor = x.addressCursor /\ y.sent = x.sent
    /\ y.silent = x.silent /\ y.ticks = x.ticks
    /\ x.failed => y.failed
    /\ x.streamFailed => y.streamFailed
    /\ y.token => x.token

\* In the middle of a batch: what is left of it is still to be handed up.
Reading(k, l, e, v) ==
    /\ LinkOk(k, v) /\ Beside(l, v, e) /\ Kept(l.end[e], v.end[e]) /\ (Wanted(l, e) => Wanted(v, e))
    /\ v.end[e].badSeen \/ Way(v, e)
    /\ v.end[e].hs = "done" /\ v.end[e].life = "live" /\ v.end[e].sawInbound /\ v.end[e].ready

LEMMA ReadingKept ==
    ASSUME NEW k \in Conns, NEW l, NEW e \in Sides, NEW v, Reading(k, l, e, v), NEW b, LinkOk(k, b), Beside(v, b, e),
           Steady(v.end[e], b.end[e]), In(b, e) = In(v, e), b.end[e].token => v.end[e].token,
           Wanted(v, e) => Wanted(b, e)
    PROVE  Reading(k, l, e, b)
<1>1. Beside(l, b, e) /\ b.end[Peer(e)] = v.end[Peer(e)] /\ b.shut = v.shut
  BY DEF Reading, Beside
<1>2. Kept(l.end[e], b.end[e])
  BY DEF Reading, Kept, Steady
<1>3. b.end[e].badSeen \/ Way(b, e)
  <2>1. Way(v, e) => Way(b, e)
    BY <1>1 DEF Way, Steady
  <2>2. QED
    BY <2>1 DEF Reading, Steady
<1>4. b.end[e].hs = "done" /\ b.end[e].life = "live" /\ b.end[e].sawInbound /\ b.end[e].ready
  BY DEF Reading, Steady
<1>5. QED
  BY <1>1, <1>2, <1>3, <1>4 DEF Reading

\* The end after one frame.
FrameLeaves(x, r) ==
    /\ Kept(x, r) /\ r.outbound = x.outbound /\ r.fed = Tail(x.fed) /\ r.wantWrite = x.wantWrite
    /\ r.failed = x.failed /\ r.cause = x.cause /\ r.token = x.token /\ r.streamFailed = x.streamFailed
    /\ r.badSeen => r.failed
    /\ \/ r.badSeen /\ r.got = x.got
       \/ ~x.badSeen /\ r.got = IF Head(x.fed).t = "data" THEN Append(x.got, Head(x.fed)) ELSE x.got

LEMMA FrameRead ==
    ASSUME NEW k \in Conns, NEW l, NEW e \in Sides, NEW v, Reading(k, l, e, v), v.end[e].fed # <<>>,
           NEW r \in EndType, FrameLeaves(v.end[e], r),
           Head(v.end[e].fed).t # "ping" \/ In(v, Peer(e)) # <<>> \/ r.failed \/ v.shut[Peer(e)]
    PROVE  Reading(k, l, e, Put(v, e, r)) /\ Put(v, e, r).end[e].fed = Tail(v.end[e].fed)
<1> DEFINE x == v.end[e]
           m == Put(v, e, r)
<1>1. LinkOk(k, v) /\ v \in LinkType /\ x \in EndType /\ EndOk(k, e, x) /\ CauseOk(k, v, e)
  BY Records DEF Reading, SideOk
<1>2. Becomes(v, m, e, r, e, v.to[e]) /\ m.to = v.to
  BY <1>1, Placed
<1> HIDE DEF m
<1>3. Beside(v, m, e) /\ m.end[e] = r /\ m.everCut = v.everCut
  BY <1>2 DEF Becomes, Beside
<1>4. Pops(v, m, e)
  BY <1>2, <1>3 DEF Pops, FrameLeaves, Kept
<1>5. EndOk(k, e, r)
  <2>1. x.ready /\ x.life = "live" /\ x.hs = "done"
    BY DEF Reading
  <2>2. Handshaken(r)
    BY <1>1, <2>1 DEF EndOk, Handshaken, FrameLeaves, Kept
  <2>3. Stopped(r)
    BY <1>1, <2>1 DEF EndOk, Stopped, FrameLeaves, Kept
  <2>4. Admitted(k, e, r) /\ Leased(r) /\ Reached(k, e, r)
    BY <1>1 DEF EndOk, Admitted, Leased, Reached, FrameLeaves, Kept
  <2>5. r.life # "none"
    BY <2>1 DEF FrameLeaves, Kept
  <2>6. QED
    BY <2>2, <2>3, <2>4, <2>5 DEF EndOk
<1>6. CauseOk(k, m, e)
  BY <1>1, <1>3 DEF CauseOk, FrameLeaves, Kept
<1>7. r.sawInbound /\ (x.failed => r.failed)
  BY DEF Reading, FrameLeaves, Kept
<1>8. (r.failed /\ r.got = x.got /\ r.badSeen) \/ Handed(v, m, e)
  BY <1>3 DEF Handed, FrameLeaves, Reading
<1>9. LinkOk(k, m) /\ (Handed(v, m, e) => Way(m, e))
  BY <1>1, <1>3, <1>4, <1>5, <1>6, <1>7, <1>8, PopStep DEF Reading
<1>10. Kept(l.end[e], r)
  BY DEF Reading, FrameLeaves, Kept
<1>11. Beside(l, m, e)
  BY <1>3 DEF Reading, Beside
<1>12. Wanted(l, e) => Wanted(m, e)
  BY <1>3 DEF Reading, Wanted, FrameLeaves
<1>13. r.badSeen \/ Way(m, e)
  BY <1>8, <1>9
<1>14. r.hs = "done" /\ r.life = "live" /\ r.sawInbound /\ r.ready
  BY DEF Reading, FrameLeaves, Kept
<1>15. QED
  BY <1>3, <1>4, <1>9, <1>10, <1>11, <1>12, <1>13, <1>14 DEF Reading, Pops, m

LEMMA RefedTwice ==
    ASSUME NEW v \in LinkType, NEW e \in Sides, NEW s \in Wire, NEW t \in Wire
    PROVE  Refed(Refed(v, e, s), e, t) = Refed(v, e, t)
<1> DEFINE x == v.end[e]
           r == [x EXCEPT !.fed = s]
<1>1. x \in EndType /\ r \in EndType
  BY Linked, RefedIs
<1>2. Refed(Put(v, e, r), e, t) = Put(v, e, [r EXCEPT !.fed = t])
  <2> HIDE DEF r
  <2>1. QED
    BY <1>1, RefedPut
<1>3. [r EXCEPT !.fed = t] = [x EXCEPT !.fed = t]
  BY <1>1 DEF EndType
<1> HIDE DEF r
<1>4. QED
  BY <1>2, <1>3 DEF Refed, r

\* A batch, and the link while its frames are on the stack of the caller.
Handing(k, l, e, s) == {w \in LinkType : \E v : Reading(k, l, e, v) /\ v.end[e].fed = s /\ w = Refed(v, e, <<>>)}

LEMMA Empties == <<>> \in Wire
BY EmptySeq DEF Wire

\* One frame of it.
LEMMA FrameTurn ==
    ASSUME NEW k \in Conns, NEW l, NEW e \in Sides, NEW v, Reading(k, l, e, v), v.end[e].fed # <<>>
    PROVE  \E n : /\ Reading(k, l, e, n) /\ n.end[e].fed = Tail(v.end[e].fed)
                  /\ receiveFrame(Refed(v, e, <<>>), e, Head(v.end[e].fed)) = Refed(n, e, <<>>)
<1> DEFINE x == v.end[e]
           f == Head(x.fed)
           rest == Tail(x.fed)
           u == Refed(v, e, <<>>)
           y == u.end[e]
<1>1. LinkOk(k, v) /\ v \in LinkType /\ x \in EndType /\ EndOk(k, e, x) /\ x.fed \in Wire
  <2>1. LinkOk(k, v) /\ v \in LinkType /\ x \in EndType /\ EndOk(k, e, x)
    BY Records DEF Reading
  <2>2. QED
    BY <2>1 DEF EndType
<1>2. u \in LinkType /\ y = [x EXCEPT !.fed = <<>>] /\ y \in EndType
  BY <1>1, Empties, RefedIs
<1>3. f \in AnyFrame /\ rest \in Wire
  BY <1>1, HeadTailProperties DEF Wire
<1>4. y.badSeen = x.badSeen /\ y.got = x.got /\ y.failed = x.failed
  <2> HIDE DEF u
  <2>1. QED
    BY <1>1, <1>2 DEF EndType
<1> HIDE DEF u, y
<1>5. x.hs = "done" /\ x.life = "live" /\ (x.badSeen => x.failed) /\ (x.badSeen \/ Way(v, e)) /\ x.established
  BY <1>1 DEF Reading, EndOk, Stopped, Handshaken
\* A frame that changes nothing but the batch.
<1>6. ASSUME NEW b, Reading(k, l, e, b), b.end[e].fed = x.fed, b.end[e].badSeen \/ f.t # "data",
             f.t # "ping" \/ In(b, Peer(e)) # <<>> \/ b.end[e].failed \/ b.shut[Peer(e)]
      PROVE  /\ Reading(k, l, e, Refed(b, e, rest)) /\ Refed(b, e, rest).end[e].fed = rest
             /\ Refed(Refed(b, e, rest), e, <<>>) = Refed(b, e, <<>>)
  <2> DEFINE z == b.end[e]
             r == [z EXCEPT !.fed = rest]
  <2>1. b \in LinkType /\ z \in EndType /\ EndOk(k, e, z)
    BY <1>6, Records DEF Reading
  <2>2. r \in EndType
    BY <1>3, <2>1, RefedIs
  <2>3. /\ Kept(z, r) /\ r.outbound = z.outbound /\ r.fed = rest /\ r.wantWrite = z.wantWrite
        /\ r.failed = z.failed /\ r.cause = z.cause /\ r.token = z.token /\ r.streamFailed = z.streamFailed
        /\ r.badSeen = z.badSeen /\ r.got = z.got
    BY <2>1 DEF Kept, EndType
  <2> HIDE DEF r
  <2>4. z.badSeen => z.failed
    BY <2>1 DEF EndOk, Stopped
  <2>5. FrameLeaves(z, r)
    BY <1>6, <2>3, <2>4 DEF FrameLeaves
  <2>6. Reading(k, l, e, Put(b, e, r)) /\ Put(b, e, r).end[e].fed = rest
    <3>1. b.end[e].fed # <<>> /\ Tail(b.end[e].fed) = rest
      BY <1>6
    <3>2. Head(b.end[e].fed).t # "ping" \/ In(b, Peer(e)) # <<>> \/ r.failed \/ b.shut[Peer(e)]
      BY <1>6, <2>3
    <3>3. Reading(k, l, e, b) /\ FrameLeaves(b.end[e], r)
      BY <1>6, <2>5
    <3>4. Reading(k, l, e, Put(b, e, r)) /\ Put(b, e, r).end[e].fed = Tail(b.end[e].fed)
      <4> HIDE DEF z
      <4>1. QED
        BY <2>2, <3>1, <3>2, <3>3, FrameRead
    <3>5. QED
      BY <3>1, <3>4
  <2>7. Refed(b, e, rest) = Put(b, e, r)
    BY DEF Refed, r
  <2>8. QED
    BY <1>3, <2>1, <2>6, <2>7, Empties, RefedTwice
<1>7. receiveFrame(u, e, f) =
        CASE x.badSeen -> u
          [] ~x.badSeen /\ f.t = "ping" -> send(u, e, Frame("pong"))
          [] ~x.badSeen /\ f.t = "pong" -> u
          [] ~x.badSeen /\ f.t = "bad" -> transportFail([u EXCEPT !.end[e].badSeen = TRUE], e, "protocol")
          [] OTHER -> [u EXCEPT !.end[e].got = Append(@, f)]
  BY <1>4 DEF receiveFrame, y
<1>8. CASE x.badSeen \/ f.t = "pong"
  <2>1. receiveFrame(u, e, f) = u
    BY <1>7, <1>8
  <2>2. x.badSeen \/ f.t # "data"
    BY <1>8
  <2>3. f.t # "ping" \/ x.failed
    BY <1>5, <1>8
  <2>4. Reading(k, l, e, Refed(v, e, rest)) /\ Refed(v, e, rest).end[e].fed = rest
        /\ Refed(Refed(v, e, rest), e, <<>>) = Refed(v, e, <<>>)
    BY <1>6, <2>2, <2>3
  <2>5. QED
    BY <2>1, <2>4 DEF u
<1>9. CASE ~x.badSeen /\ f.t = "ping"
  <2> DEFINE b == send(v, e, Frame("pong"))
  <2>1. Frame("pong") \in AnyFrame /\ Frame("pong").t \notin Flights /\ Frame("pong").t # "data"
    BY DEF Frame, AnyFrame, FrameKinds, Flights
  <2>2. LinkOk(k, b) /\ Sent(v, b, e, Frame("pong"))
    BY <1>1, <1>5, <2>1, SendOk
  <2>3. receiveFrame(u, e, f) = Refed(b, e, <<>>)
    <3>1. receiveFrame(u, e, f) = send(u, e, Frame("pong"))
      BY <1>7, <1>9
    <3>2. QED
      BY <1>1, <1>5, <2>1, <3>1, Empties, RefedSend DEF u
  <2> HIDE DEF b
  <2>4. Reading(k, l, e, b)
    BY <2>2, ReadingKept DEF Sent
  <2>5. b.end[e].fed = x.fed /\ b.shut = v.shut
    BY <2>2 DEF Sent, Steady, Beside
  <2>6. In(b, Peer(e)) # <<>> \/ b.end[e].failed \/ b.shut[Peer(e)]
    <3> DEFINE s == In(v, Peer(e))
    <3>1. In(b, Peer(e)) = Append(s, Frame("pong")) \/ b.end[e].failed \/ b.shut[Peer(e)]
      BY <2>2, <2>5 DEF Sent
    <3>2. Append(s, Frame("pong")) # <<>>
      <4>1. s \in Seq(AnyFrame)
        <5>1. v.end[Peer(e)] \in EndType /\ v.to[Peer(e)] \in Wire /\ Peer(Peer(e)) = e
          BY <1>1, Two, Records
        <5>2. v.end[Peer(e)].fed \in Wire /\ x.outbound \in Wire /\ s = Joined(v.end[Peer(e)].fed, v.to[Peer(e)], x.outbound)
          BY <1>1, <5>1 DEF EndType, In
        <5> HIDE DEF x, s
        <5>3. QED
          BY <5>1, <5>2, JoinedTyped DEF Wire
      <4> HIDE DEF s
      <4>2. QED
        BY <2>1, <4>1, AppendProperties
    <3>3. QED
      BY <3>1, <3>2
  <2>7. b.end[e].badSeen \/ f.t # "data"
    BY <1>9
  <2>8. /\ Reading(k, l, e, Refed(b, e, rest)) /\ Refed(b, e, rest).end[e].fed = rest
        /\ Refed(Refed(b, e, rest), e, <<>>) = Refed(b, e, <<>>)
    BY <1>6, <2>4, <2>5, <2>6, <2>7
  <2>9. QED
    BY <2>3, <2>8 DEF u
<1>10. CASE ~x.badSeen /\ f.t = "bad"
  <2> DEFINE b == transportFail(v, e, "protocol")
             z == b.end[e]
             r == [z EXCEPT !.fed = rest, !.badSeen = TRUE]
             w == Put(b, e, r)
             why == "protocol"
  <2>1. LinkOk(k, b) /\ Failing(v, b, e) /\ z.token = x.token
    <3>1. Excuse(k, v, e, "protocol")
      BY DEF Excuse, Causes
    <3>2. QED
      BY <1>1, <1>5, <3>1, TransportFails
  <2>2. b = IF x.failed THEN v ELSE Put(v, e, [x EXCEPT !.failed = TRUE, !.cause = why])
    BY <1>1, Marked
  <2> HIDE DEF b
  <2>3. b \in LinkType /\ z \in EndType /\ EndOk(k, e, z)
    BY <2>1, Records
  <2>4. Reading(k, l, e, b)
    <3>1. Wanted(v, e) => Wanted(b, e)
      BY <2>1 DEF Wanted, Failing, Unmoved
    <3>2. QED
      BY <2>1, <3>1, ReadingKept DEF Failing, Unmoved
  <2>5. z.failed /\ z.fed = x.fed
    BY <2>1 DEF Failing, Unmoved
  <2>6. r \in EndType /\ r = [[z EXCEPT !.badSeen = TRUE] EXCEPT !.fed = rest]
    BY <1>3, <2>3 DEF EndType
  <2>7. /\ Kept(z, r) /\ r.outbound = z.outbound /\ r.fed = rest /\ r.wantWrite = z.wantWrite
        /\ r.failed = z.failed /\ r.cause = z.cause /\ r.token = z.token /\ r.streamFailed = z.streamFailed
        /\ r.badSeen /\ r.got = z.got
    BY <2>3 DEF Kept, EndType
  <2> HIDE DEF r
  <2>8. FrameLeaves(z, r)
    BY <2>5, <2>7 DEF FrameLeaves
  <2>9. Reading(k, l, e, w) /\ w.end[e].fed = rest
    <3>1. b.end[e].fed # <<>> /\ Tail(b.end[e].fed) = rest
      BY <2>5
    <3>2. r.failed /\ r \in EndType /\ FrameLeaves(b.end[e], r)
      BY <2>5, <2>6, <2>7, <2>8
    <3>3. Reading(k, l, e, Put(b, e, r)) /\ Put(b, e, r).end[e].fed = Tail(b.end[e].fed)
      <4> HIDE DEF z
      <4>1. QED
        BY <2>4, <3>1, <3>2, FrameRead
    <3>4. QED
      BY <3>1, <3>3
  <2>10. receiveFrame(u, e, f) = Refed(w, e, <<>>)
    <3> DEFINE t == [u EXCEPT !.end[e].badSeen = TRUE]
               q == [y EXCEPT !.badSeen = TRUE]
               o == [r EXCEPT !.fed = <<>>]
    <3>1. receiveFrame(u, e, f) = transportFail(t, e, why)
      BY <1>7, <1>10
    <3>2. t = Put(u, e, q) /\ q \in EndType /\ q.failed = x.failed
      BY <1>2, <1>4 DEF LinkType, EndType, Put, y
    <3>3. \A g \in EndType : Put(u, e, g) = Put(v, e, g)
      BY <1>1, Empties, RefedPut DEF u
    <3> HIDE DEF t
    <3>4. t \in LinkType /\ t.end[e] = q /\ \A g : Put(t, e, g) = Put(u, e, g)
      <4> HIDE DEF q
      <4>1. QED
        BY <1>2, <3>2, Placed DEF Becomes, Beside
    <3>5. transportFail(t, e, why) = IF q.failed THEN t ELSE Put(t, e, [q EXCEPT !.failed = TRUE, !.cause = why])
      <4> HIDE DEF q
      <4>1. QED
        BY <3>4, Marked
    <3>6. Refed(w, e, <<>>) = Put(b, e, o)
      <4>1. b \in LinkType /\ r \in EndType
        BY <2>3, <2>6
      <4>2. QED
        BY <4>1, Empties, RefedPut
    <3>7. o \in EndType
      BY ZenonT(90), <2>6, Empties DEF EndType
    <3>8. CASE x.failed
      <4>1. b = v /\ receiveFrame(u, e, f) = Put(v, e, q)
        BY <2>2, <3>1, <3>2, <3>3, <3>5, <3>8
      <4>2. o = q
        BY <1>1, <1>2, <2>5, <4>1 DEF EndType, r
      <4>3. QED
        BY <3>6, <4>1, <4>2
    <3>9. CASE ~x.failed
      <4> DEFINE h == [q EXCEPT !.failed = TRUE, !.cause = why]
                 g == [x EXCEPT !.failed = TRUE, !.cause = why]
      <4>1. g \in EndType /\ h \in EndType
        BY ZenonT(90), <1>1, <3>2 DEF EndType, Causes
      <4>2. b = Put(v, e, g)
        BY <2>2, <3>9
      <4>3. z = g /\ Put(b, e, o) = Put(v, e, o)
        <5> HIDE DEF g, o, h, q
        <5>1. QED
          BY <1>1, <4>1, <4>2, Placed DEF Becomes
      <4>4. receiveFrame(u, e, f) = Put(v, e, h)
        <5>1. receiveFrame(u, e, f) = Put(t, e, h)
          BY <3>1, <3>2, <3>5, <3>9
        <5> HIDE DEF h
        <5>2. QED
          BY <3>3, <3>4, <4>1, <5>1
      <4>5. o = h
        BY <1>1, <1>2, <4>3 DEF EndType, r
      <4>6. QED
        BY <3>6, <4>3, <4>4, <4>5
    <3>10. QED
      BY <3>8, <3>9
  <2>11. QED
    BY <2>9, <2>10 DEF u
<1>11. CASE ~x.badSeen /\ f.t \notin {"ping", "pong", "bad"}
  <2> DEFINE r == [x EXCEPT !.fed = rest, !.got = Append(@, f)]
             w == Put(v, e, r)
  <2>1. f.t \notin Flights
    BY <1>1, <1>5, <1>11, HeadIs
  <2>2. f.t = "data"
    BY <1>3, <1>11, <2>1 DEF AnyFrame, FrameKinds, Flights
  <2>3. Append(x.got, f) \in Wire
    <3>1. x.got \in Wire
      BY <1>1 DEF EndType
    <3>2. QED
      BY <1>3, <3>1, AppendProperties DEF Wire
  <2>4. r \in EndType
    BY <1>1, <1>3, <2>3 DEF EndType
  <2>5. /\ Kept(x, r) /\ r.outbound = x.outbound /\ r.fed = rest /\ r.wantWrite = x.wantWrite
        /\ r.failed = x.failed /\ r.cause = x.cause /\ r.token = x.token /\ r.streamFailed = x.streamFailed
        /\ r.badSeen = x.badSeen /\ r.got = Append(x.got, f)
    BY <1>1 DEF Kept, EndType
  <2> HIDE DEF r
  <2>6. FrameLeaves(x, r)
    BY <1>11, <2>2, <2>5 DEF FrameLeaves
  <2>7. Reading(k, l, e, w) /\ w.end[e].fed = rest
    BY <1>11, <2>4, <2>6, FrameRead
  <2>8. receiveFrame(u, e, f) = Refed(w, e, <<>>)
    <3> DEFINE q == [y EXCEPT !.got = Append(@, f)]
               o == [r EXCEPT !.fed = <<>>]
    <3>1. receiveFrame(u, e, f) = [u EXCEPT !.end[e].got = Append(@, f)]
      BY <1>7, <1>11
    <3>2. [u EXCEPT !.end[e].got = Append(@, f)] = Put(u, e, q)
      BY <1>2 DEF LinkType, EndType, Put, y
    <3>3. q \in EndType
      BY ZenonT(90), <1>2, <1>4, <2>3 DEF EndType
    <3>4. o = q
      BY <1>1, <1>2, <1>4 DEF EndType, r
    <3>5. Put(u, e, q) = Put(v, e, q)
      <4> HIDE DEF q
      <4>1. QED
        BY <1>1, <3>3, Empties, RefedPut DEF u
    <3>6. Refed(w, e, <<>>) = Put(v, e, o)
      BY <1>1, <2>4, Empties, RefedPut
    <3>7. QED
      BY <3>1, <3>2, <3>4, <3>5, <3>6
  <2>9. QED
    BY <2>7, <2>8 DEF u
<1>12. QED
  BY <1>8, <1>9, <1>10, <1>11

-----------------------------------------------------------------------------
(* Induction, over sets of naturals and along a loop: the theorems of the    *)
(* library that take a predicate do not serve here.                          *)

\* A nonempty set of numbers has a least one.
LEMMA MinNat ==
    ASSUME NEW S \in SUBSET Nat, S # {}
    PROVE  Min(S) \in S /\ \A y \in S : Min(S) <= y
<1> DEFINE Below == {ss \in Nat \X Nat : ss[1] < ss[2]}
<1>1. IsWellFoundedOn(Below, Nat)
  BY NatLessThanWellFounded, Zenon DEF OpToRel
<1> HIDE DEF Below
<1>2. PICK x \in S : \A y \in S : ~(<<y, x>> \in Below)
  BY <1>1, WFMin
<1>3. ASSUME NEW y \in S PROVE x <= y
  <2>1. x \in Nat /\ y \in Nat
    OBVIOUS
  <2>2. y < x => <<y, x>> \in Below
    BY <2>1 DEF Below
  <2>3. QED
    BY <1>2, <2>1, <2>2
<1>4. QED
  BY <1>3 DEF Min

LEMMA SetInduction ==
    ASSUME NEW S, 0 \in S, \A n \in Nat : n \in S => n + 1 \in S PROVE Nat \subseteq S
<1> DEFINE T == Nat \ S
<1> SUFFICES ASSUME T # {} PROVE FALSE
  OBVIOUS
<1>1. T \in SUBSET Nat
  OBVIOUS
<1>2. Min(T) \in T /\ \A k \in T : Min(T) <= k
  <2> HIDE DEF T
  <2>1. QED
    BY <1>1, MinNat
<1>3. PICK m \in T : \A k \in T : m <= k
  BY <1>2
<1>4. m # 0 /\ m - 1 \in Nat
  BY <1>3
<1>5. m - 1 \in S
  BY <1>3, <1>4
<1>6. QED
  BY <1>3, <1>4, <1>5

\* What holds of a loop's variable before the first turn, and after a turn if it
\* held before, holds at the end.
LEMMA LoopInduction ==
    ASSUME NEW n \in Nat, NEW P, NEW f, f[0] \in P[0],
           \A k \in 1 .. n : f[k - 1] \in P[k - 1] => f[k] \in P[k]
    PROVE  f[n] \in P[n]
<1> DEFINE S == {k \in Nat : k <= n => f[k] \in P[k]}
<1>1. 0 \in S
  OBVIOUS
<1>2. ASSUME NEW k \in Nat, k \in S PROVE k + 1 \in S
  <2>1. CASE k + 1 <= n
    <3>1. k + 1 \in 1 .. n /\ (k + 1) - 1 = k /\ f[k] \in P[k]
      BY <1>2, <2>1
    <3>2. QED
      BY <3>1
  <2>2. CASE ~(k + 1 <= n)
    BY <2>2
  <2>3. QED
    BY <2>1, <2>2
<1>3. n \in S
  <2> HIDE DEF S
  <2>1. QED
    BY <1>1, <1>2, SetInduction
<1>4. QED
  BY <1>3

\* The loop has a value, where each turn maps one set of values into the next.
Course(g, n, P, step, r) ==
    /\ g = [k \in 0 .. n |-> g[k]] /\ g[0] = r /\ \A k \in 0 .. n : g[k] \in P[k]
    /\ \A k \in 1 .. n : g[k] = step[k][g[k - 1]]
LoopOf(n, P, step, r) == \E g : Course(g, n, P, step, r)
LEMMA LoopExists ==
    ASSUME NEW n \in Nat, NEW P, NEW step, NEW r, r \in P[0],
           \A k \in 1 .. n : \A x \in P[k - 1] : step[k][x] \in P[k]
    PROVE  LoopOf(n, P, step, r)
<1> DEFINE S == {m \in Nat : m <= n => LoopOf(m, P, step, r)}
<1>1. 0 \in S
  <2> DEFINE g == [k \in 0 .. 0 |-> r]
  <2>1. Course(g, 0, P, step, r)
    BY DEF Course
  <2> HIDE DEF g
  <2>2. LoopOf(0, P, step, r)
    BY <2>1 DEF LoopOf
  <2>3. QED
    BY <2>2
<1>2. ASSUME NEW m \in Nat, m \in S PROVE m + 1 \in S
  <2>1. CASE m + 1 <= n
    <3>1. PICK g : Course(g, m, P, step, r)
      BY <1>2, <2>1 DEF LoopOf
    <3> DEFINE h == [k \in 0 .. m + 1 |-> IF k = m + 1 THEN step[m + 1][g[m]] ELSE g[k]]
    <3>2. /\ g[0] = r /\ (\A k \in 0 .. m : g[k] \in P[k])
          /\ \A k \in 1 .. m : g[k] = step[k][g[k - 1]]
      BY <3>1 DEF Course
    <3>3. m \in 0 .. m /\ m + 1 \in 1 .. n /\ (m + 1) - 1 = m /\ 0 \in 0 .. m + 1 /\ m + 1 \in 0 .. m + 1
      BY <2>1
    <3>4. h[0] = g[0] /\ h[m + 1] = step[m + 1][g[m]] /\ h[m] = g[m] /\ h = [k \in 0 .. m + 1 |-> h[k]]
      BY <3>3
    <3>5. \A k \in 0 .. m : h[k] = g[k]
      OBVIOUS
    <3> HIDE DEF h
    <3>6. step[m + 1][g[m]] \in P[m + 1]
      BY <3>2, <3>3
    <3>7. \A k \in 0 .. m + 1 : h[k] \in P[k]
      <4>1. \A k \in 0 .. m + 1 : k = m + 1 \/ k \in 0 .. m
        OBVIOUS
      <4>2. QED
        BY <3>2, <3>4, <3>5, <3>6, <4>1
    <3>8. ASSUME NEW k \in 1 .. m + 1 PROVE h[k] = step[k][h[k - 1]]
      <4>1. CASE k = m + 1
        BY <3>3, <3>4, <4>1
      <4>2. CASE k \in 1 .. m
        <5>1. h[k] = g[k] /\ h[k - 1] = g[k - 1]
          BY <3>5, <4>2
        <5>2. QED
          BY <3>2, <4>2, <5>1
      <4>3. QED
        BY <4>1, <4>2
    <3>9. Course(h, m + 1, P, step, r)
      BY <3>2, <3>4, <3>7, <3>8 DEF Course
    <3>10. QED
      BY <3>9 DEF LoopOf
  <2>2. CASE ~(m + 1 <= n)
    BY <2>2
  <2>3. QED
    BY <2>1, <2>2
<1>3. n \in S
  <2> HIDE DEF S
  <2>1. QED
    BY <1>1, <1>2, SetInduction
<1>4. QED
  BY <1>3

-----------------------------------------------------------------------------
(* The batch *)

Rest(s, i) == SubSeq(s, i + 1, Len(s))

LEMMA RestIs ==
    ASSUME NEW s \in Wire
    PROVE  /\ Rest(s, 0) = s /\ Rest(s, Len(s)) = <<>>
           /\ \A i \in 1 .. Len(s) : Rest(s, i - 1) # <<>> /\ Head(Rest(s, i - 1)) = s[i] /\ Tail(Rest(s, i - 1)) = Rest(s, i)
<1>1. Len(s) \in Nat /\ \A i \in 1 .. Len(s) : s[i] \in AnyFrame
  BY LenProperties, ElementOfSeq DEF Wire
<1>2. ASSUME NEW i \in 0 .. Len(s)
      PROVE  /\ Rest(s, i) \in Seq(AnyFrame) /\ Len(Rest(s, i)) = Len(s) - i
             /\ \A j \in 1 .. Len(s) - i : Rest(s, i)[j] = s[i + j]
  <2>1. i + 1 \in Int /\ Len(s) \in Int /\ \A j \in i + 1 .. Len(s) : s[j] \in AnyFrame
    BY <1>1
  <2>2. /\ Rest(s, i) \in Seq(AnyFrame)
        /\ Len(Rest(s, i)) = IF i + 1 <= Len(s) THEN Len(s) - (i + 1) + 1 ELSE 0
        /\ \A j \in 1 .. Len(s) - (i + 1) + 1 : Rest(s, i)[j] = s[i + 1 + j - 1]
    BY <2>1, SubSeqProperties DEF Rest
  <2>3. QED
    BY <1>1, <2>2
<1>3. Rest(s, 0) = s
  BY SubSeqFull DEF Rest, Wire
<1>4. Rest(s, Len(s)) = <<>>
  <2>1. Len(s) \in 0 .. Len(s)
    BY <1>1
  <2>2. Rest(s, Len(s)) \in Seq(AnyFrame) /\ Len(Rest(s, Len(s))) = 0
    BY <1>1, <1>2, <2>1
  <2>3. QED
    BY <2>2, EmptySeq
<1>5. ASSUME NEW i \in 1 .. Len(s)
      PROVE  Rest(s, i - 1) # <<>> /\ Head(Rest(s, i - 1)) = s[i] /\ Tail(Rest(s, i - 1)) = Rest(s, i)
  <2> DEFINE x == Rest(s, i - 1)
             y == Rest(s, i)
  <2>1. i - 1 \in 0 .. Len(s) /\ i \in 0 .. Len(s) /\ Len(s) - (i - 1) = Len(s) - i + 1
    BY <1>1
  <2>2. /\ x \in Seq(AnyFrame) /\ Len(x) = Len(s) - i + 1
        /\ \A j \in 1 .. Len(s) - i + 1 : x[j] = s[(i - 1) + j]
    <3>1. /\ x \in Seq(AnyFrame) /\ Len(x) = Len(s) - (i - 1)
          /\ \A j \in 1 .. Len(s) - (i - 1) : x[j] = s[(i - 1) + j]
      BY <1>2, <2>1
    <3> HIDE DEF x
    <3>2. QED
      BY <2>1, <3>1
  <2>3. /\ y \in Seq(AnyFrame) /\ Len(y) = Len(s) - i /\ \A j \in 1 .. Len(s) - i : y[j] = s[i + j]
    BY <1>2, <2>1
  <2> HIDE DEF x, y
  <2>4. Len(x) # 0 /\ 1 \in 1 .. Len(s) - i + 1
    BY <1>1, <2>2
  <2>5. x # <<>>
    BY <2>4, EmptySeq
  <2>6. /\ Head(x) = x[1] /\ Tail(x) \in Seq(AnyFrame) /\ Len(Tail(x)) = Len(x) - 1
        /\ \A j \in 1 .. Len(Tail(x)) : Tail(x)[j] = x[j + 1]
    BY <2>2, <2>5, HeadTailProperties
  <2>7. Head(x) = s[i]
    BY <1>1, <2>2, <2>4, <2>6
  <2>8. Len(Tail(x)) = Len(y) /\ \A j \in 1 .. Len(y) : Tail(x)[j] = y[j]
    <3>1. Len(Tail(x)) = Len(y) /\ Len(y) = Len(s) - i
      BY <1>1, <2>2, <2>3, <2>6
    <3>2. ASSUME NEW j \in 1 .. Len(s) - i PROVE Tail(x)[j] = y[j]
      <4>1. j \in 1 .. Len(Tail(x)) /\ j + 1 \in 1 .. Len(s) - i + 1 /\ (i - 1) + (j + 1) = i + j
        BY <1>1, <3>1
      <4>2. Tail(x)[j] = x[j + 1] /\ x[j + 1] = s[(i - 1) + (j + 1)] /\ y[j] = s[i + j]
        BY <2>2, <2>3, <2>6, <4>1
      <4>3. QED
        BY <4>1, <4>2
    <3>3. QED
      BY <3>1, <3>2
  <2>9. Tail(x) = y
    BY <2>3, <2>6, <2>8, SeqEqual
  <2>10. QED
    BY <2>5, <2>7, <2>9 DEF x, y
<1>6. QED
  BY <1>3, <1>4, <1>5

LEMMA HandingTurn ==
    ASSUME NEW k \in Conns, NEW l, NEW e \in Sides, NEW s \in Wire, NEW i \in 1 .. Len(s),
           NEW w \in Handing(k, l, e, Rest(s, i - 1))
    PROVE  receiveFrame(w, e, s[i]) \in Handing(k, l, e, Rest(s, i))
<1>1. PICK v : Reading(k, l, e, v) /\ v.end[e].fed = Rest(s, i - 1) /\ w = Refed(v, e, <<>>)
  BY DEF Handing
<1>2. Rest(s, i - 1) # <<>> /\ Head(Rest(s, i - 1)) = s[i] /\ Tail(Rest(s, i - 1)) = Rest(s, i)
  BY RestIs
<1>3. PICK n : /\ Reading(k, l, e, n) /\ n.end[e].fed = Tail(v.end[e].fed)
               /\ receiveFrame(Refed(v, e, <<>>), e, Head(v.end[e].fed)) = Refed(n, e, <<>>)
  <2>1. Reading(k, l, e, v) /\ v.end[e].fed # <<>>
    BY <1>1, <1>2
  <2>2. QED
    BY <2>1, FrameTurn
<1>4. Refed(n, e, <<>>) \in LinkType
  BY <1>3, Empties, RefedIs DEF Reading, LinkOk
<1>5. QED
  BY <1>1, <1>2, <1>3, <1>4 DEF Handing

LEMMA ReceiveOk ==
    ASSUME NEW k \in Conns, NEW l, NEW e \in Sides, NEW v, Reading(k, l, e, v)
    PROVE  /\ Reading(k, l, e, receive(Refed(v, e, <<>>), e, v.end[e].fed))
           /\ receive(Refed(v, e, <<>>), e, v.end[e].fed).end[e].fed = <<>>
<1> DEFINE s == v.end[e].fed
           r == Refed(v, e, <<>>)
           n == Len(s)
           P == [i \in 0 .. n |-> Handing(k, l, e, Rest(s, i))]
           f == CHOOSE h : h = [i \in 0 .. n |-> IF i = 0 THEN r ELSE receiveFrame(h[i - 1], e, s[i])]
           step == [i \in 1 .. n |-> [w \in P[i - 1] |-> receiveFrame(w, e, s[i])]]
<1>1. receive(r, e, s) = f[n]
  BY DEF receive
<1>2. v \in LinkType /\ s \in Wire
  <2>1. v \in LinkType /\ v.end[e] \in EndType
    BY Records DEF Reading
  <2>2. QED
    BY <2>1 DEF EndType
<1>3. n \in Nat
  BY <1>2, LenProperties DEF Wire
<1>4. r \in Handing(k, l, e, Rest(s, 0))
  <2>1. Rest(s, 0) = s
    BY <1>2, RestIs
  <2>2. r \in LinkType
    BY <1>2, Empties, RefedIs
  <2>3. QED
    BY <2>1, <2>2 DEF Handing
<1> HIDE DEF r
<1>5. \A i \in 1 .. n : \A w \in Handing(k, l, e, Rest(s, i - 1)) : receiveFrame(w, e, s[i]) \in Handing(k, l, e, Rest(s, i))
  <2>1. ASSUME NEW i \in 1 .. n, NEW w \in Handing(k, l, e, Rest(s, i - 1))
        PROVE  receiveFrame(w, e, s[i]) \in Handing(k, l, e, Rest(s, i))
    <3> HIDE DEF s
    <3>1. QED
      BY <1>2, <2>1, HandingTurn DEF n
  <2>2. QED
    BY <2>1
<1>6. Rest(s, n) = <<>>
  BY <1>2, RestIs
<1> HIDE DEF n, s
<1>7. \A i \in 0 .. n : P[i] = Handing(k, l, e, Rest(s, i))
  OBVIOUS
<1>8. \A i \in 1 .. n : i - 1 \in 0 .. n /\ i \in 0 .. n /\ i # 0
  BY <1>3
<1>9. \A i \in 1 .. n : \A w \in P[i - 1] :
         step[i][w] = receiveFrame(w, e, s[i]) /\ receiveFrame(w, e, s[i]) \in P[i]
  BY <1>5, <1>7, <1>8
<1>10. r \in P[0]
  BY <1>3, <1>4, <1>7
<1> HIDE DEF step, P
<1>11. PICK g : Course(g, n, P, step, r)
  <2>1. LoopOf(n, P, step, r)
    BY <1>3, <1>9, <1>10, LoopExists
  <2>2. QED
    BY <2>1 DEF LoopOf
<1>12. g = [i \in 0 .. n |-> g[i]] /\ g[0] = r /\ (\A i \in 0 .. n : g[i] \in P[i])
       /\ \A i \in 1 .. n : g[i] = step[i][g[i - 1]]
  BY <1>11 DEF Course
<1>13. ASSUME NEW i \in 0 .. n
       PROVE  g[i] = IF i = 0 THEN r ELSE receiveFrame(g[i - 1], e, s[i])
  <2>1. i # 0 => i \in 1 .. n /\ i - 1 \in 0 .. n
    BY <1>3
  <2>2. QED
    BY <1>9, <1>12, <2>1
<1>14. g = [i \in 0 .. n |-> IF i = 0 THEN r ELSE receiveFrame(g[i - 1], e, s[i])]
  BY <1>12, <1>13
<1>15. f = [i \in 0 .. n |-> IF i = 0 THEN r ELSE receiveFrame(f[i - 1], e, s[i])]
  BY <1>14
<1> HIDE DEF f
<1>16. f[0] = r /\ \A i \in 1 .. n : f[i] = receiveFrame(f[i - 1], e, s[i])
  BY <1>3, <1>15
<1>17. f[0] \in P[0] /\ \A i \in 1 .. n : f[i - 1] \in P[i - 1] => f[i] \in P[i]
  BY <1>9, <1>10, <1>16
<1>18. f[n] \in P[n]
  BY <1>3, <1>17, LoopInduction
<1>19. f[n] \in Handing(k, l, e, <<>>)
  BY <1>3, <1>6, <1>7, <1>18
<1>20. PICK w : Reading(k, l, e, w) /\ w.end[e].fed = <<>> /\ f[n] = Refed(w, e, <<>>)
  BY <1>19 DEF Handing
<1>21. Refed(w, e, <<>>) = w
  <2>1. w \in LinkType /\ w.end[e] \in EndType
    BY <1>20, Records DEF Reading
  <2>2. [w.end[e] EXCEPT !.fed = <<>>] = w.end[e]
    BY <1>20, <2>1 DEF EndType
  <2>3. Put(w, e, w.end[e]) = w
    BY <2>1 DEF Put, LinkType
  <2>4. QED
    BY <2>2, <2>3 DEF Refed
<1>22. QED
  BY <1>1, <1>20, <1>21 DEF r, s

-----------------------------------------------------------------------------
(* deliverAppData and onData *)

\* What handing up leaves of an end.
Upheld(x, y) ==
    /\ y.life = x.life /\ y.connectConfirmed = x.connectConfirmed /\ y.hs = x.hs /\ y.established = x.established
    /\ y.ready = x.ready /\ y.timer = x.timer /\ y.missedBeats = x.missedBeats
    /\ y.addressCursor = x.addressCursor /\ y.sent = x.sent /\ y.ticks = x.ticks
    /\ x.failed => y.failed
    /\ x.streamFailed => y.streamFailed
    /\ y.token => x.token

Delivered(l, m, e) ==
    /\ Beside(l, m, e) /\ Upheld(l.end[e], m.end[e]) /\ (Wanted(l, e) => Wanted(m, e))
    /\ Read(m, e)

\* What a failed transport is not handed is dropped.
LEMMA DropOk ==
    ASSUME NEW k \in Conns, NEW l, LinkOk(k, l), NEW e \in Sides, l.end[e].failed, l.end[e].life # "none"
    PROVE  LinkOk(k, Refed(l, e, <<>>)) /\ Delivered(l, Refed(l, e, <<>>), e)
<1> DEFINE p == Peer(e)
           x == l.end[e]
           r == [x EXCEPT !.fed = <<>>]
           m == Refed(l, e, <<>>)
<1>1. /\ p \in Sides /\ p # e /\ Peer(p) = e /\ l \in LinkType /\ x \in EndType /\ EndOk(k, e, x)
      /\ SideOk(k, l, e) /\ SideOk(k, l, p)
  BY Two, Records
<1>2. m \in LinkType /\ Beside(l, m, e) /\ m.to = l.to /\ m.end[e] = r
  BY <1>1, Empties, RefedIs
<1>3. /\ r.outbound = x.outbound /\ r.fed = <<>> /\ r.got = x.got /\ r.hs = x.hs /\ r.sent = x.sent /\ r.life = x.life
      /\ r.failed = x.failed /\ r.streamFailed = x.streamFailed /\ r.token = x.token /\ r.wantWrite = x.wantWrite
      /\ r.cause = x.cause /\ r.silent = x.silent
      /\ Upheld(x, r)
  BY <1>1 DEF EndType, Upheld
<1>4. EndOk(k, e, r)
  <2>1. Handshaken(r) /\ Stopped(r) /\ Admitted(k, e, r) /\ Leased(r) /\ Reached(k, e, r)
    BY <1>1 DEF EndOk, Handshaken, Stopped, Admitted, Leased, Reached, EndType
  <2>2. QED
    BY <1>3, <2>1 DEF EndOk
<1> HIDE DEF m, r
<1>5. m.end[p] = l.end[p] /\ m.shut = l.shut /\ m.everCut = l.everCut
  BY <1>2 DEF Beside
<1>6. In(m, p) = In(l, p)
  BY <1>1, <1>2, <1>3, <1>5 DEF In
<1>7. CauseOk(k, m, e)
  BY <1>1, <1>2, <1>3, <1>5 DEF SideOk, CauseOk
<1>8. WayOk(m, e) /\ Owed(m, e) /\ Owed(m, p)
  BY <1>1, <1>2, <1>3 DEF WayOk, Owed, Waits
<1>9. WayOk(m, p) /\ Turns(m, e) /\ Turns(m, p) /\ Fits(m, e) /\ Fits(m, p) /\ GotOk(m, e)
  BY <1>1, <1>2, <1>3, <1>5, <1>6 DEF SideOk, WayOk, Way, Turns, Fits, GotOk
<1>10. x.sent <= r.sent
  BY <1>1, <1>3 DEF EndType
<1>11. LinkOk(k, m)
  BY <1>2, <1>3, <1>4, <1>7, <1>8, <1>9, <1>10, StepOk
<1>12. Delivered(l, m, e)
  BY <1>2, <1>3 DEF Delivered, Wanted, Read
<1>13. QED
  BY <1>11, <1>12 DEF m

\* Inbound data renews the lease.
Hears(u, e) == [u EXCEPT !.end[e].sawInbound = TRUE, !.end[e].silent = 0]
Heard(l, e) == Put(l, e, [l.end[e] EXCEPT !.sawInbound = TRUE, !.silent = 0])

LEMMA HeardOk ==
    ASSUME NEW k \in Conns, NEW l, LinkOk(k, l), NEW e \in Sides, l.end[e].established, ~l.end[e].failed,
           l.end[e].life = "live"
    PROVE  /\ LinkOk(k, Heard(l, e)) /\ Reading(k, Heard(l, e), e, Heard(l, e))
           /\ Beside(l, Heard(l, e), e) /\ Upheld(l.end[e], Heard(l, e).end[e])
           /\ Heard(l, e).end[e].fed = l.end[e].fed /\ (Wanted(l, e) => Wanted(Heard(l, e), e))
           /\ Hears(Refed(l, e, <<>>), e) = Refed(Heard(l, e), e, <<>>)
<1> DEFINE x == l.end[e]
           r == [x EXCEPT !.sawInbound = TRUE, !.silent = 0]
           m == Heard(l, e)
<1>1. /\ l \in LinkType /\ x \in EndType /\ EndOk(k, e, x) /\ CauseOk(k, l, e) /\ SideOk(k, l, e)
  BY Records DEF SideOk
<1>2. r \in EndType
  BY <1>1 DEF EndType
<1>3. /\ r.outbound = x.outbound /\ r.fed = x.fed /\ r.got = x.got /\ r.hs = x.hs /\ r.sent = x.sent /\ r.life = x.life
      /\ r.failed = x.failed /\ r.streamFailed = x.streamFailed /\ r.token = x.token /\ r.wantWrite = x.wantWrite
      /\ r.cause = x.cause /\ r.silent = 0 /\ r.sawInbound /\ r.ready = x.ready /\ Upheld(x, r)
  BY <1>1 DEF EndType, Upheld
<1>4. x.ready /\ x.hs = "done" /\ x.cause = "none"
  BY <1>1 DEF EndOk, Handshaken, Stopped
<1>5. EndOk(k, e, r)
  <2>1. Handshaken(r) /\ Stopped(r) /\ Admitted(k, e, r) /\ Reached(k, e, r)
    BY <1>1 DEF EndOk, Handshaken, Stopped, Admitted, Reached, EndType
  <2>2. Leased(r)
    BY <1>3, <1>4 DEF Leased
  <2>3. QED
    BY <1>3, <2>1, <2>2 DEF EndOk
<1>6. Hears(Refed(l, e, <<>>), e) = Put(l, e, [r EXCEPT !.fed = <<>>])
  <2> DEFINE c == Refed(l, e, <<>>)
             y == c.end[e]
             z == [y EXCEPT !.sawInbound = TRUE, !.silent = 0]
  <2>1. c \in LinkType /\ y = [x EXCEPT !.fed = <<>>] /\ y \in EndType
    BY <1>1, Empties, RefedIs
  <2> HIDE DEF c
  <2>2. [c EXCEPT !.end[e].sawInbound = TRUE, !.end[e].silent = 0] = Put(c, e, z)
    BY ZenonT(90), <2>1 DEF LinkType, EndType, Put
  <2>3. z = [r EXCEPT !.fed = <<>>] /\ z \in EndType
    BY <1>1, <2>1 DEF EndType
  <2> HIDE DEF z, r
  <2>4. Put(c, e, z) = Put(l, e, z)
    BY <1>1, <2>3, Empties, RefedPut DEF c
  <2>5. QED
    BY <2>2, <2>3, <2>4 DEF c, Hears
<1> HIDE DEF r
<1>7. Refed(Put(l, e, r), e, <<>>) = Put(l, e, [r EXCEPT !.fed = <<>>])
  BY <1>1, <1>2, Empties, RefedPut
<1>8. m = Put(l, e, r)
  BY DEF Heard, r
<1> HIDE DEF m
<1>9. Becomes(l, m, e, r, e, l.to[e]) /\ m.to = l.to
  BY <1>1, <1>2, <1>8, Placed
<1>10. Unmoved(l, m, e) /\ m.end[e] = r /\ Beside(l, m, e) /\ m.everCut = l.everCut /\ m.shut = l.shut
  BY <1>3, <1>9 DEF Unmoved, Becomes, Beside
<1>11. CauseOk(k, m, e) /\ ~Waits(m, e)
  BY <1>3, <1>4, <1>10 DEF CauseOk, Waits
<1>12. LinkOk(k, m) /\ In(m, e) = In(l, e)
  BY <1>3, <1>5, <1>10, <1>11, QuietStep
<1>13. Way(m, e)
  <2>1. WayOk(m, e)
    BY <1>12, Records DEF SideOk
  <2>2. ~m.shut[e]
    BY <1>1, <1>10 DEF SideOk
  <2>3. QED
    BY <1>3, <1>10, <2>1, <2>2 DEF WayOk
<1>14. Reading(k, m, e, m)
  <2>1. Beside(m, m, e) /\ Kept(m.end[e], m.end[e])
    BY <1>10 DEF Beside, Kept
  <2>2. QED
    BY <1>3, <1>4, <1>10, <1>12, <1>13, <2>1 DEF Reading
<1>15. Wanted(l, e) => Wanted(m, e)
  BY <1>3, <1>10 DEF Wanted
<1>16. QED
  BY <1>3, <1>6, <1>7, <1>8, <1>10, <1>12, <1>14, <1>15 DEF m

LEMMA DeliverOk ==
    ASSUME NEW k \in Conns, NEW l, LinkOk(k, l), NEW e \in Sides, l.end[e].established, l.end[e].life = "live"
    PROVE  LinkOk(k, deliverAppData(l, e)) /\ Delivered(l, deliverAppData(l, e), e)
<1> DEFINE x == l.end[e]
           m == deliverAppData(l, e)
           c == [l EXCEPT !.end[e].fed = <<>>]
<1>1. l \in LinkType /\ x \in EndType
  BY Records
<1>2. c = Refed(l, e, <<>>)
  BY <1>1 DEF LinkType, EndType, Put, Refed
<1>3. c.end[e].failed = x.failed
  <2>1. Refed(l, e, <<>>).end[e] = [x EXCEPT !.fed = <<>>]
    BY <1>1, Empties, RefedIs
  <2> HIDE DEF c
  <2>2. QED
    BY <1>1, <1>2, <2>1 DEF EndType
<1>4. m = IF x.streamFailed \/ x.fed = <<>> THEN l
          ELSE IF x.failed THEN c
          ELSE receive(Hears(c, e), e, x.fed)
  <2>2. m = IF x.streamFailed \/ x.fed = <<>> THEN l ELSE onData(c, e, x.fed)
    BY DEF deliverAppData
  <2>3. onData(c, e, x.fed) = IF c.end[e].failed THEN c
                              ELSE receive(Hears(c, e), e, x.fed)
    BY DEF onData, Hears
  <2> HIDE DEF m, c
  <2>4. QED
    BY <1>3, <2>2, <2>3
<1> HIDE DEF m, c
<1>5. CASE x.streamFailed \/ x.fed = <<>>
  <2>1. m = l
    BY <1>4, <1>5
  <2>2. Beside(l, l, e) /\ Upheld(x, x)
    BY <1>1 DEF Beside, Upheld
  <2>3. QED
    BY <1>5, <2>1, <2>2 DEF Delivered, Read, m
<1>6. CASE ~x.streamFailed /\ x.fed # <<>> /\ x.failed
  <2>1. m = Refed(l, e, <<>>)
    BY <1>2, <1>4, <1>6
  <2>2. QED
    BY <1>6, <2>1, DropOk DEF m
<1>7. CASE ~x.streamFailed /\ x.fed # <<>> /\ ~x.failed
  <2> DEFINE h == Heard(l, e)
  <2>1. /\ Reading(k, h, e, h) /\ Beside(l, h, e) /\ Upheld(x, h.end[e]) /\ h.end[e].fed = x.fed
        /\ (Wanted(l, e) => Wanted(h, e))
        /\ Hears(Refed(l, e, <<>>), e) = Refed(h, e, <<>>)
    BY <1>7, HeardOk
  <2> HIDE DEF h
  <2>2. m = receive(Refed(h, e, <<>>), e, h.end[e].fed)
    BY <1>2, <1>4, <1>7, <2>1
  <2>3. Reading(k, h, e, m) /\ m.end[e].fed = <<>>
    BY <2>1, <2>2, ReceiveOk
  <2>4. LinkOk(k, m) /\ Beside(h, m, e) /\ Kept(h.end[e], m.end[e]) /\ (Wanted(h, e) => Wanted(m, e))
    BY <2>3 DEF Reading
  <2>5. Beside(l, m, e)
    BY <2>1, <2>4 DEF Beside
  <2>6. Upheld(x, m.end[e])
    BY <2>1, <2>4 DEF Upheld, Kept
  <2>7. Delivered(l, m, e)
    BY <2>1, <2>3, <2>4, <2>5, <2>6 DEF Delivered, Read
  <2>8. QED
    BY <2>4, <2>7 DEF m
<1>8. QED
  BY <1>5, <1>6, <1>7

-----------------------------------------------------------------------------
(* The handshake *)

LEMMA PingStays ==
    ASSUME NEW s \in Wire, s # <<>>, Head(s).t # "ping", NEW i \in DOMAIN s, s[i].t = "ping"
    PROVE  \E j \in DOMAIN Tail(s) : Tail(s)[j].t = "ping"
<1>1. DOMAIN s = 1 .. Len(s) /\ Len(s) \in Nat
  BY LenProperties DEF Wire
<1>2. /\ Head(s) = s[1] /\ Tail(s) \in Seq(AnyFrame) /\ Len(Tail(s)) = Len(s) - 1
      /\ \A j \in 1 .. Len(Tail(s)) : Tail(s)[j] = s[j + 1]
  BY HeadTailProperties DEF Wire
<1>3. DOMAIN Tail(s) = 1 .. Len(s) - 1
  BY <1>2, LenProperties
<1>4. i # 1 /\ i \in 1 .. Len(s)
  BY <1>1, <1>2
<1>5. i - 1 \in 1 .. Len(s) - 1 /\ (i - 1) + 1 = i
  BY <1>1, <1>4
<1>6. Tail(s)[i - 1] = s[i]
  BY <1>2, <1>5
<1>7. QED
  BY <1>3, <1>5, <1>6

\* u flights are used and a given: u and a are 0 or 1.
Shakes(l, m, e, u, a, g) ==
    /\ Beside(l, m, e) /\ m.to = l.to
    /\ m.end[e].got = l.end[e].got /\ m.end[e].sent = l.end[e].sent /\ m.end[e].life = l.end[e].life
    /\ u \in {0, 1} /\ a \in {0, 1}
    /\ u = 1 => l.end[e].fed # <<>>
    /\ m.end[e].fed = IF u = 1 THEN Tail(l.end[e].fed) ELSE l.end[e].fed
    /\ m.end[e].outbound = IF a = 1 THEN Append(l.end[e].outbound, g) ELSE l.end[e].outbound
    /\ Given(e, m.end[e].hs) = Given(e, l.end[e].hs) + a
    /\ Used(e, m.end[e].hs) = Used(e, l.end[e].hs) + u

LEMMA ShakeStep ==
    ASSUME NEW k \in Conns, NEW l, LinkOk(k, l), NEW e \in Sides, NEW m, NEW u, NEW a, NEW g \in AnyFrame,
           Shakes(l, m, e, u, a, g), g.t \in Flights,
           l.end[e].hs # "done", l.end[e].life = "live", ~l.end[e].failed,
           EndOk(k, e, m.end[e]), CauseOk(k, m, e), ~Waits(m, e)
    PROVE  LinkOk(k, m)
<1> DEFINE p == Peer(e)
           x == l.end[e]
           y == l.end[p]
           r == m.end[e]
           s == In(l, e)
           t == In(l, p)
           d == Given(p, y.hs) - Used(e, x.hs)
           c == Given(e, x.hs) - Used(p, y.hs)
<1>1. /\ p \in Sides /\ p # e /\ Peer(p) = e /\ l \in LinkType /\ x \in EndType /\ y \in EndType
      /\ l.to[e] \in Wire /\ l.to[p] \in Wire /\ SideOk(k, l, e) /\ SideOk(k, l, p)
  BY Two, Records
<1>2. /\ m \in LinkType /\ m.end[p] = y /\ m.shut = l.shut /\ m.to = l.to /\ Beside(l, m, e)
      /\ r.got = x.got /\ r.sent = x.sent /\ r.life = x.life
      /\ u \in {0, 1} /\ a \in {0, 1}
      /\ u = 1 => x.fed # <<>>
      /\ r.fed = IF u = 1 THEN Tail(x.fed) ELSE x.fed
      /\ r.outbound = IF a = 1 THEN Append(x.outbound, g) ELSE x.outbound
      /\ Given(e, r.hs) = Given(e, x.hs) + a
      /\ Used(e, r.hs) = Used(e, x.hs) + u
  BY DEF Shakes, Beside
<1>3. /\ x.fed \in Wire /\ y.fed \in Wire /\ x.outbound \in Wire /\ y.outbound \in Wire /\ x.got \in Wire /\ y.got \in Wire
      /\ x.sent \in Nat /\ y.sent \in Nat
      /\ x.hs \in {"start", "wait"} /\ y.hs \in {"start", "wait", "done"} /\ r.hs \in {"start", "wait", "done"}
  <2>1. r \in EndType
    BY <1>2, Linked
  <2>2. QED
    BY <1>1, <2>1 DEF EndType
<1>4. Len(x.got) \in Nat /\ Len(y.got) \in Nat
  BY <1>3, LenProperties DEF Wire
<1>5. l.shut[e] = FALSE /\ l.shut[p] \in BOOLEAN
  <2>1. l.shut[e] \in BOOLEAN /\ l.shut[p] \in BOOLEAN
    BY <1>1, Linked
  <2>2. QED
    BY <1>1, <2>1 DEF SideOk
<1>6. InOrder(s, Len(x.got), y.sent, l.shut[p]) /\ Flown(s, d, y.hs = "done", l.shut[p])
  BY <1>1, <1>5 DEF SideOk, WayOk, Way
<1>7. In(m, e) = (IF u = 1 THEN Tail(s) ELSE s) /\ s \in Wire /\ (u = 1 => s # <<>>)
  <2>1. s = Joined(x.fed, l.to[e], y.outbound) /\ In(m, e) = Joined(r.fed, l.to[e], y.outbound)
    BY <1>2 DEF In
  <2>2. x.fed \in Wire /\ l.to[e] \in Wire /\ y.outbound \in Wire
    BY <1>1, <1>3
  <2>3. r.fed = IF u = 1 THEN Tail(x.fed) ELSE x.fed
    BY <1>2
  <2>4. u = 1 => x.fed # <<>>
    BY <1>2
  <2> HIDE DEF s, x, y, r
  <2>5. x.fed # <<>> =>
        /\ Joined(x.fed, l.to[e], y.outbound) # <<>>
        /\ Joined(Tail(x.fed), l.to[e], y.outbound) = Tail(Joined(x.fed, l.to[e], y.outbound))
    BY <2>2, JoinedTail
  <2>6. Joined(x.fed, l.to[e], y.outbound) \in Wire
    BY <2>2, JoinedTyped
  <2>7. QED
    BY <2>1, <2>3, <2>4, <2>5, <2>6
<1>8. In(m, p) = (IF a = 1 THEN Append(t, g) ELSE t) /\ t \in Wire
  <2>1. t = Joined(y.fed, l.to[p], x.outbound) /\ In(m, p) = Joined(y.fed, l.to[p], r.outbound)
    BY <1>1, <1>2 DEF In
  <2>2. y.fed \in Wire /\ l.to[p] \in Wire /\ x.outbound \in Wire
    BY <1>1, <1>3
  <2>3. r.outbound = IF a = 1 THEN Append(x.outbound, g) ELSE x.outbound
    BY <1>2
  <2> HIDE DEF t, x, y, r
  <2>4. Joined(y.fed, l.to[p], Append(x.outbound, g)) = Append(Joined(y.fed, l.to[p], x.outbound), g)
    <3>1. ASSUME NEW i \in Wire, NEW j \in Wire, NEW h \in Wire
          PROVE  Joined(i, j, Append(h, g)) = Append(Joined(i, j, h), g)
      BY JoinedAppend
    <3>2. QED
      BY <2>2, <3>1
  <2>5. Joined(y.fed, l.to[p], x.outbound) \in Wire
    BY <2>2, JoinedTyped
  <2>6. QED
    BY <2>1, <2>3, <2>4, <2>5
<1>9. d \in Nat
  BY <1>6 DEF Flown
<1>10. (y.hs = "done") \in BOOLEAN
  OBVIOUS
<1>11. u = 1 => d # 0 /\ Head(s).t \in Flights /\ Flown(Tail(s), d - 1, y.hs = "done", l.shut[p])
  <2>1. SUFFICES ASSUME u = 1
                 PROVE  d # 0 /\ Head(s).t \in Flights /\ Flown(Tail(s), d - 1, y.hs = "done", l.shut[p])
    OBVIOUS
  <2>2. s \in Wire /\ s # <<>>
    BY <1>7, <2>1
  <2> HIDE DEF s, d
  <2>3. /\ d # 0 => Head(s).t \in Flights /\ Flown(Tail(s), d - 1, y.hs = "done", l.shut[p])
        /\ d = 0 => y.hs = "done"
    <3> DEFINE done == y.hs = "done"
    <3>1. done \in BOOLEAN /\ l.shut[p] \in BOOLEAN /\ d \in Nat /\ Flown(s, d, done, l.shut[p])
      BY <1>5, <1>6, <1>9
    <3> HIDE DEF done
    <3>2. /\ d # 0 => Head(s).t \in Flights /\ Flown(Tail(s), d - 1, done, l.shut[p])
          /\ d = 0 => done
      BY <2>2, <3>1, FlownTail
    <3>3. QED
      BY <3>2 DEF done
  <2>4. y.hs = "done" => d # 0
    BY <1>3 DEF d, Given, Used, Sides, Peer
  <2>5. QED
    BY <2>3, <2>4
<1>12. u = 1 => InOrder(Tail(s), Len(x.got), y.sent, l.shut[p])
  <2>1. SUFFICES ASSUME u = 1 PROVE InOrder(Tail(s), Len(x.got), y.sent, l.shut[p])
    OBVIOUS
  <2>2. Head(s).t # "data"
    BY <1>11, <2>1 DEF Flights
  <2>3. s \in Wire /\ s # <<>>
    BY <1>7, <2>1
  <2> HIDE DEF s
  <2>4. QED
    BY <1>3, <1>4, <1>5, <1>6, <2>2, <2>3, InOrderTail
<1>13. Way(m, e)
  <2> DEFINE b == Given(p, y.hs) - Used(e, r.hs)
  <2>1. Given(p, y.hs) \in Int /\ Used(e, x.hs) \in Int
    BY <1>3 DEF Given, Used
  <2>2. b = IF u = 1 THEN d - 1 ELSE d
    BY <1>2, <2>1
  <2>3. InOrder(In(m, e), Len(x.got), y.sent, l.shut[p])
    BY <1>2, <1>6, <1>7, <1>12
  <2>4. Flown(In(m, e), b, y.hs = "done", l.shut[p])
    <3> HIDE DEF d, b, s
    <3>1. CASE u = 1
      BY <1>7, <1>11, <2>2, <3>1
    <3>2. CASE u # 1
      BY <1>6, <1>7, <2>2, <3>2
    <3>3. QED
      BY <3>1, <3>2
  <2>5. QED
    BY <1>2, <2>3, <2>4 DEF Way
<1>14. ~y.failed /\ ~l.shut[p] => InOrder(t, Len(y.got), x.sent, FALSE) /\ Flown(t, c, FALSE, FALSE)
  <2>1. (x.hs = "done") = FALSE
    BY <1>3
  <2>2. WayOk(l, p)
    BY <1>1 DEF SideOk
  <2>3. QED
    BY <1>1, <1>5, <2>1, <2>2 DEF WayOk, Way
<1>15. WayOk(m, p)
  <2>1. SUFFICES ASSUME ~y.failed, ~l.shut[p] PROVE Way(m, p)
    BY <1>2 DEF WayOk
  <2>2. InOrder(t, Len(y.got), x.sent, FALSE) /\ Flown(t, c, FALSE, FALSE)
    BY <1>14, <2>1
  <2>3. InOrder(In(m, p), Len(y.got), x.sent, FALSE)
    <3>1. g.t # "data"
      BY DEF Flights
    <3>2. InOrder(Append(t, g), Len(y.got), x.sent, FALSE)
      <4> HIDE DEF t
      <4>1. QED
        BY <1>3, <1>8, <2>2, <3>1, InOrderAppend
    <3>3. QED
      BY <1>8, <2>2, <3>2
  <2> DEFINE b == Given(e, r.hs) - Used(p, y.hs)
  <2>4. b = c + a
    <3>1. Given(e, x.hs) \in Int /\ Used(p, y.hs) \in Int
      BY <1>3 DEF Given, Used
    <3>2. QED
      BY <1>2, <3>1
  <2>5. c \in Nat
    BY <2>2 DEF Flown
  <2>6. Flown(In(m, p), b, r.hs = "done", FALSE)
    <3> HIDE DEF b, c, t, r
    <3>1. CASE a = 1
      <4>1. \A done \in BOOLEAN : Flown(Append(t, g), c + 1, done, FALSE)
        BY <1>8, <2>2, FlownAppend
      <4>2. (r.hs = "done") \in BOOLEAN
        OBVIOUS
      <4>3. QED
        BY <1>8, <2>4, <3>1, <4>1, <4>2
    <3>2. CASE a = 0
      <4>1. In(m, p) = t /\ b = c
        BY <1>8, <2>4, <2>5, <3>2
      <4>2. QED
        BY <2>2, <4>1 DEF Flown
    <3>3. QED
      BY <1>2, <3>1, <3>2
  <2>7. QED
    BY <1>1, <1>2, <1>5, <2>3, <2>6 DEF Way
<1>16. Turns(m, e) /\ Turns(m, p)
  <2>1. Given(p, y.hs) \in Nat /\ Used(e, x.hs) \in Nat /\ Given(e, x.hs) \in Nat /\ Used(p, y.hs) \in Nat
    BY <1>3 DEF Given, Used
  <2>2. Turns(l, e) /\ Turns(l, p)
    BY <1>1 DEF SideOk
  <2>3. Used(e, r.hs) <= Given(p, y.hs)
    <3>1. CASE u = 1
      BY <1>2, <1>9, <1>11, <2>1, <3>1
    <3>2. CASE u = 0
      BY <1>2, <2>1, <2>2, <3>2 DEF Turns
    <3>3. QED
      BY <1>2, <3>1, <3>2
  <2>4. Used(p, y.hs) <= Given(e, r.hs)
    BY <1>1, <1>2, <2>1, <2>2 DEF Turns
  <2>5. QED
    BY <1>1, <1>2, <2>3, <2>4 DEF Turns
<1>17. Fits(m, e) /\ Fits(m, p) /\ GotOk(m, e)
  BY <1>1, <1>2 DEF SideOk, Fits, GotOk
<1>18. Owed(m, e)
  BY DEF Owed
<1>19. Owed(m, p)
  <2>1. SUFFICES ASSUME Waits(m, p), ~r.failed, ~m.shut[e], In(m, p) = <<>> PROVE Pinged(m, e)
    BY <1>1 DEF Owed
  <2>2. In(l, p) # <<>> \/ Pinged(l, e)
    BY <1>1, <1>2, <1>5, <2>1 DEF SideOk, Owed, Waits
  <2>3. t = <<>>
    <3>1. Append(t, g) # <<>>
      <4> HIDE DEF t
      <4>1. QED
        BY <1>8, AppendProperties DEF Wire
    <3>2. QED
      BY <1>8, <2>1, <3>1
  <2>4. PICK i \in DOMAIN s : s[i].t = "ping"
    BY <2>2, <2>3 DEF Pinged
  <2>5. CASE u = 1
    <3>1. Head(s).t # "ping"
      BY <1>11, <2>5 DEF Flights
    <3> HIDE DEF s
    <3>2. \E j \in DOMAIN Tail(s) : Tail(s)[j].t = "ping"
      BY <1>7, <2>4, <2>5, <3>1, PingStays
    <3>3. QED
      BY <1>7, <2>5, <3>2 DEF Pinged
  <2>6. CASE u # 1
    BY <1>7, <2>4, <2>6 DEF Pinged
  <2>7. QED
    BY <2>5, <2>6
<1>20. x.sent <= r.sent
  BY <1>2, <1>3
<1>21. WayOk(m, e)
  BY <1>13 DEF WayOk
<1>22. QED
  BY <1>2, <1>15, <1>16, <1>17, <1>18, <1>19, <1>20, <1>21, StepOk

\* The end after a step of the handshake.
Shook(x, r) ==
    [x EXCEPT !.hs = r.hs, !.outbound = @ \o r.out, !.fed = SubSeq(@, r.used + 1, Len(@))]

\* What it leaves of the end.
Shaken(x, y) ==
    /\ y.life = x.life /\ y.connectConfirmed = x.connectConfirmed /\ y.token = x.token
    /\ y.streamFailed = x.streamFailed
    /\ y.missedBeats = x.missedBeats /\ y.addressCursor = x.addressCursor
    /\ y.sent = x.sent /\ y.got = x.got /\ y.silent = x.silent /\ y.ticks = x.ticks /\ y.badSeen = x.badSeen

Flight(a, g) == IF a = 1 THEN <<g>> ELSE <<>>
Shake(hs, u, a, g) == [hs |-> hs, used |-> u, out |-> Flight(a, g)]

Stepped(x, y, hs, u, a, g) ==
    /\ y \in EndType /\ y.hs = hs /\ Shaken(x, y)
    /\ y.outbound = IF a = 1 THEN Append(x.outbound, g) ELSE x.outbound
    /\ y.fed = IF u = 1 THEN Tail(x.fed) ELSE x.fed
    /\ y.established = x.established /\ y.ready = x.ready /\ y.failed = x.failed /\ y.cause = x.cause
    /\ y.timer = x.timer /\ y.sawInbound = x.sawInbound

LEMMA ShookIs ==
    ASSUME NEW x \in EndType, NEW hs \in {"start", "wait", "done"}, NEW u \in {0, 1},
           NEW a \in {0, 1}, NEW g \in AnyFrame, u = 1 => x.fed # <<>>,
           NEW y, y = Shook(x, Shake(hs, u, a, g))
    PROVE  Stepped(x, y, hs, u, a, g)
<1> DEFINE out == Flight(a, g)
           o == x.outbound \o out
           f == SubSeq(x.fed, u + 1, Len(x.fed))
           z == [x EXCEPT !.hs = hs, !.outbound = o, !.fed = f]
<1>1. x.outbound \in Wire /\ x.fed \in Wire
  BY DEF EndType
<1>2. o = IF a = 1 THEN Append(x.outbound, g) ELSE x.outbound
  <2>1. CASE a = 1
    <3>1. out = <<g>>
      BY <2>1 DEF Flight
    <3>2. Append(x.outbound, g) = x.outbound \o <<g>>
      <4> DEFINE w == x.outbound
      <4>1. w \in Seq(AnyFrame)
        BY <1>1 DEF Wire
      <4> HIDE DEF w
      <4>2. Append(w, g) = w \o <<g>>
        BY <4>1, AppendIsConcat
      <4>3. QED
        BY <4>2 DEF w
    <3>3. QED
      BY <2>1, <3>1, <3>2
  <2>2. CASE a # 1
    <3>1. out = <<>>
      BY <2>2 DEF Flight
    <3>2. x.outbound \o <<>> = x.outbound
      BY <1>1, ConcatEmptySeq DEF Wire
    <3>3. QED
      BY <2>2, <3>1, <3>2
  <2>3. QED
    BY <2>1, <2>2
<1>3. f = IF u = 1 THEN Tail(x.fed) ELSE x.fed
  <2> DEFINE s == x.fed
  <2>1. s \in Wire /\ Len(s) \in Nat
    BY <1>1, LenProperties DEF Wire
  <2> HIDE DEF s
  <2>2. Rest(s, 0) = s /\ \A i \in 1 .. Len(s) : Tail(Rest(s, i - 1)) = Rest(s, i)
    BY <2>1, RestIs
  <2>3. s # <<>> => 1 \in 1 .. Len(s)
    BY <2>1, EmptySeq DEF Wire
  <2>4. s # <<>> => Rest(s, 1) = Tail(s)
    <3>1. 1 - 1 = 0
      OBVIOUS
    <3>2. s # <<>> => Tail(Rest(s, 1 - 1)) = Rest(s, 1)
      BY <2>2, <2>3
    <3>3. QED
      BY <2>2, <3>1, <3>2
  <2>5. f = Rest(s, u)
    BY DEF Rest, s
  <2>6. u = 1 => s # <<>>
    BY DEF s
  <2> HIDE DEF f
  <2>7. f = IF u = 1 THEN Tail(s) ELSE s
    BY <2>2, <2>4, <2>5, <2>6
  <2>8. QED
    BY <2>7 DEF s
<1>4. o \in Wire
  <2>1. Append(x.outbound, g) \in Wire
    BY <1>1, AppendProperties DEF Wire
  <2>2. QED
    BY <1>1, <1>2, <2>1
<1>5. f \in Wire
  <2>1. x.fed # <<>> => Tail(x.fed) \in Wire
    BY <1>1, HeadTailProperties DEF Wire
  <2>2. QED
    BY <1>1, <1>3, <2>1
<1>6. y = z
  BY DEF Shook, Shake
<1> HIDE DEF o, f, out
<1>7. /\ z \in EndType /\ z.hs = hs /\ z.outbound = o /\ z.fed = f /\ Shaken(x, z)
      /\ z.established = x.established /\ z.ready = x.ready /\ z.failed = x.failed /\ z.cause = x.cause
      /\ z.timer = x.timer /\ z.sawInbound = x.sawInbound
  BY <1>4, <1>5 DEF EndType, Shaken
<1> HIDE DEF z
<1>8. QED
  BY <1>2, <1>3, <1>6, <1>7 DEF Stepped

LEMMA DriveIs ==
    ASSUME NEW k \in Conns, NEW l \in LinkType, NEW e \in Sides, ~l.end[e].established, ~l.end[e].streamFailed,
           NEW r, r = handshake(k, e, l.end[e].hs, l.end[e].fed)
    PROVE  driveHandshake(k, l, e) =
             IF r.hs = "refused" THEN fail(l, e, "handshake")
             ELSE IF r.hs = "done"
             THEN deliverAppData(onReady(k, [Put(l, e, Shook(l.end[e], r)) EXCEPT !.end[e].established = TRUE], e), e)
             ELSE Put(l, e, Shook(l.end[e], r))
<1>1. l.end[e] \in EndType
  BY Linked
<1>2. [l EXCEPT !.end[e].hs = r.hs, !.end[e].outbound = @ \o r.out, !.end[e].fed = SubSeq(@, r.used + 1, Len(@))]
      = Put(l, e, Shook(l.end[e], r))
  <2> DEFINE x == l.end[e]
             a == x.outbound \o r.out
             b == SubSeq(x.fed, r.used + 1, Len(x.fed))
  <2> DEFINE h == r.hs
  <2> HIDE DEF a, b, h
  <2>1. [l EXCEPT !.end[e].hs = h, !.end[e].outbound = a, !.end[e].fed = b]
        = Put(l, e, [x EXCEPT !.hs = h, !.outbound = a, !.fed = b])
    <3> HIDE DEF x
    <3>1. [l EXCEPT !.end[e].hs = h, !.end[e].outbound = a, !.end[e].fed = b]
          = [l EXCEPT !.end = [l.end EXCEPT ![e] = [l.end[e] EXCEPT !.hs = h, !.outbound = a, !.fed = b]]]
      BY <1>1 DEF LinkType
    <3>2. QED
      BY <3>1 DEF LinkType, Put, x
  <2>2. [l EXCEPT !.end[e].hs = r.hs, !.end[e].outbound = @ \o r.out, !.end[e].fed = SubSeq(@, r.used + 1, Len(@))]
        = [l EXCEPT !.end[e].hs = r.hs, !.end[e].outbound = a, !.end[e].fed = b]
    BY <1>1 DEF LinkType, EndType, a, b
  <2>3. [x EXCEPT !.hs = r.hs, !.outbound = @ \o r.out, !.fed = SubSeq(@, r.used + 1, Len(@))]
        = [x EXCEPT !.hs = r.hs, !.outbound = a, !.fed = b]
    BY <1>1 DEF EndType, a, b
  <2> HIDE DEF x
  <2>4. QED
    <3>1. Shook(x, r) = [x EXCEPT !.hs = r.hs, !.outbound = a, !.fed = b]
      BY <2>3 DEF Shook
    <3>2. [l EXCEPT !.end[e].hs = r.hs, !.end[e].outbound = a, !.end[e].fed = b]
          = Put(l, e, [x EXCEPT !.hs = r.hs, !.outbound = a, !.fed = b])
      BY <2>1 DEF h
    <3>3. Put(l, e, Shook(x, r)) = [l EXCEPT !.end[e].hs = r.hs, !.end[e].outbound = a, !.end[e].fed = b]
      BY <3>1, <3>2, Zenon
    <3>4. QED
      BY <2>2, <3>3, Zenon DEF x
<1>3. driveHandshake(k, l, e) =
        CASE l.end[e].established \/ l.end[e].streamFailed -> l
          [] ~l.end[e].established /\ ~l.end[e].streamFailed /\ r.hs = "refused" -> fail(l, e, "handshake")
          [] ~l.end[e].established /\ ~l.end[e].streamFailed /\ r.hs = "done" ->
                deliverAppData(onReady(k, [Put(l, e, Shook(l.end[e], r)) EXCEPT !.end[e].established = TRUE], e), e)
          [] OTHER -> Put(l, e, Shook(l.end[e], r))
  <2> DEFINE h == handshake(k, e, l.end[e].hs, l.end[e].fed)
             m == [l EXCEPT !.end[e].hs = h.hs, !.end[e].outbound = @ \o h.out,
                            !.end[e].fed = SubSeq(@, h.used + 1, Len(@))]
  <2>1. driveHandshake(k, l, e) =
        CASE l.end[e].established \/ l.end[e].streamFailed -> l
          [] ~l.end[e].established /\ ~l.end[e].streamFailed /\ h.hs = "refused" -> fail(l, e, "handshake")
          [] ~l.end[e].established /\ ~l.end[e].streamFailed /\ h.hs = "done" ->
                deliverAppData(onReady(k, [m EXCEPT !.end[e].established = TRUE], e), e)
          [] OTHER -> m
    BY DEF driveHandshake
  <2>2. h = r
    OBVIOUS
  <2>3. m = Put(l, e, Shook(l.end[e], r))
    BY <1>2, <2>2
  <2> HIDE DEF h, m
  <2>4. QED
    BY <2>1, <2>2, <2>3
<1>4. QED
  BY <1>3

LEMMA OnReadyIs ==
    ASSUME NEW k \in Conns, NEW l \in LinkType, NEW e \in Sides, ~l.end[e].failed
    PROVE  onReady(k, l, e) =
             IF e = "node" /\ sc.cred[k] = "unlisted"
             THEN Put(l, e, [l.end[e] EXCEPT !.failed = TRUE, !.cause = "unauthorized"])
             ELSE Put(l, e, [l.end[e] EXCEPT !.sawInbound = TRUE, !.ready = TRUE, !.timer = TRUE])
<1>1. l.end[e] \in EndType
  BY Linked
<1>2. authorize(peerSanUri(k)) <=> sc.cred[k] # "unlisted"
  BY DEF authorize, peerSanUri
<1>3. armHeartbeat([l EXCEPT !.end[e].sawInbound = TRUE, !.end[e].ready = TRUE], e)
      = Put(l, e, [l.end[e] EXCEPT !.sawInbound = TRUE, !.ready = TRUE, !.timer = TRUE])
  BY ZenonT(90), <1>1 DEF armHeartbeat, LinkType, EndType, Put
<1>4. transportFail(l, e, "unauthorized") = Put(l, e, [l.end[e] EXCEPT !.failed = TRUE, !.cause = "unauthorized"])
  BY Marked
<1>5. QED
  BY <1>2, <1>3, <1>4 DEF onReady

\* What a step of the handshake leaves, with the callbacks it makes.
Advanced(l, m, e) ==
    /\ Beside(l, m, e) /\ Read(m, e)
    /\ m.end[e].life = l.end[e].life /\ m.end[e].connectConfirmed = l.end[e].connectConfirmed
    /\ m.end[e].addressCursor = l.end[e].addressCursor
    /\ l.end[e].failed => m.end[e].failed
    /\ m.end[e].token => l.end[e].token
    /\ e = "ctl" => m.end[e].hs # "start" \/ ~m.end[e].token

\* One step of the handshake as it was asked for.
Asked(e, x, hs, u, a, g) ==
    /\ hs \in {"start", "wait", "done"} /\ u \in {0, 1} /\ a \in {0, 1} /\ g \in AnyFrame /\ g.t \in Flights
    /\ u = 1 => x.fed # <<>>
    /\ Given(e, hs) = Given(e, x.hs) + a /\ Used(e, hs) = Used(e, x.hs) + u

\* Before its handshake is done an end that runs has neither failed nor heard
\* anything of the session.
LEMMA Early ==
    ASSUME NEW k \in Conns, NEW l, LinkOk(k, l), NEW e \in Sides, ~l.end[e].established, ~l.end[e].streamFailed,
           l.end[e].life = "live"
    PROVE  /\ l \in LinkType /\ l.end[e] \in EndType /\ EndOk(k, e, l.end[e])
           /\ ~l.end[e].failed /\ l.end[e].cause = "none" /\ ~l.end[e].ready /\ l.end[e].silent = 0
           /\ l.end[e].hs \in {"start", "wait"} /\ l.end[e].token /\ ~l.end[e].timer /\ l.end[e].sent = 0
           /\ l.end[e].got = <<>> /\ ~l.end[e].badSeen /\ ~l.shut[e]
<1>1. l \in LinkType /\ l.end[e] \in EndType /\ EndOk(k, e, l.end[e]) /\ SideOk(k, l, e)
  BY Records
<1>2. ~l.end[e].failed /\ l.end[e].cause = "none" /\ l.end[e].token /\ ~l.end[e].badSeen
  BY <1>1 DEF EndOk, Stopped
<1>3. ~l.end[e].ready /\ l.end[e].hs # "done" /\ ~l.end[e].timer /\ ~(l.end[e].sent > 0) /\ l.end[e].got = <<>>
  BY <1>1 DEF EndOk, Handshaken
<1>4. l.end[e].silent = 0
  BY <1>1, <1>3 DEF EndOk, Leased
<1>5. l.end[e].sent \in Nat /\ l.end[e].hs \in {"start", "wait", "done"}
  BY <1>1 DEF EndType
<1>6. QED
  BY <1>1, <1>2, <1>3, <1>4, <1>5 DEF SideOk

LEMMA WaitingOk ==
    ASSUME NEW k \in Conns, NEW l, LinkOk(k, l), NEW e \in Sides, ~l.end[e].established, ~l.end[e].streamFailed,
           l.end[e].life = "live", l.end[e].connectConfirmed,
           NEW hs, NEW u, NEW a, NEW g, Asked(e, l.end[e], hs, u, a, g), hs # "done",
           NEW y, y = Shook(l.end[e], Shake(hs, u, a, g))
    PROVE  /\ LinkOk(k, Put(l, e, y)) /\ Beside(l, Put(l, e, y), e) /\ Put(l, e, y).end[e] = y
           /\ Shaken(l.end[e], y) /\ y.hs = hs /\ y.failed = l.end[e].failed
           /\ y.fed = IF u = 1 THEN Tail(l.end[e].fed) ELSE l.end[e].fed
<1> DEFINE x == l.end[e]
           m == Put(l, e, y)
<1>1. /\ l \in LinkType /\ x \in EndType /\ EndOk(k, e, x) /\ ~x.failed /\ x.cause = "none" /\ ~x.ready
      /\ x.hs \in {"start", "wait"}
  BY Early
<1>2. hs \in {"start", "wait", "done"} /\ u \in {0, 1} /\ a \in {0, 1} /\ g \in AnyFrame /\ g.t \in Flights
      /\ (u = 1 => x.fed # <<>>) /\ Given(e, hs) = Given(e, x.hs) + a /\ Used(e, hs) = Used(e, x.hs) + u
  BY DEF Asked
<1>3. /\ y \in EndType /\ y.hs = hs /\ Shaken(x, y)
      /\ y.outbound = IF a = 1 THEN Append(x.outbound, g) ELSE x.outbound
      /\ y.fed = IF u = 1 THEN Tail(x.fed) ELSE x.fed
      /\ y.established = x.established /\ y.ready = x.ready /\ y.failed = x.failed /\ y.cause = x.cause
      /\ y.timer = x.timer /\ y.sawInbound = x.sawInbound
  <2>1. y = Shook(x, Shake(hs, u, a, g))
    OBVIOUS
  <2> HIDE DEF x
  <2>2. Stepped(x, y, hs, u, a, g)
    BY <1>1, <1>2, <2>1, ShookIs
  <2>3. QED
    BY <2>2 DEF Stepped
<1>4. Becomes(l, m, e, y, e, l.to[e]) /\ m.to = l.to
  BY <1>1, <1>3, Placed
<1> HIDE DEF m
<1>5. Beside(l, m, e) /\ m.end[e] = y /\ m.everCut = l.everCut
  BY <1>4 DEF Becomes, Beside
<1>6. Shakes(l, m, e, u, a, g)
  BY <1>2, <1>3, <1>4, <1>5 DEF Shakes, Shaken
<1>7. EndOk(k, e, y)
  <2>1. Handshaken(y)
    BY <1>1, <1>3 DEF EndOk, Handshaken, Shaken
  <2>2. Stopped(y)
    BY <1>1, <1>3 DEF EndOk, Stopped, Shaken
  <2>3. Admitted(k, e, y)
    BY <1>1, <1>3 DEF EndOk, Admitted
  <2>4. Leased(y)
    BY <1>1, <1>3 DEF EndOk, Leased, Shaken
  <2>5. Reached(k, e, y)
    BY <1>1, <1>3 DEF EndOk, Reached, Shaken
  <2>6. QED
    BY <1>3, <2>1, <2>2, <2>3, <2>4, <2>5 DEF EndOk, Shaken
<1>8. CauseOk(k, m, e) /\ ~Waits(m, e)
  BY <1>1, <1>3, <1>5 DEF CauseOk, Waits
<1>9. LinkOk(k, m)
  BY <1>1, <1>2, <1>5, <1>6, <1>7, <1>8, ShakeStep
<1>10. QED
  BY <1>3, <1>5, <1>9 DEF m

\* The end that onReady leaves.
Greeted(k, e, z) ==
    IF e = "node" /\ sc.cred[k] = "unlisted" THEN [z EXCEPT !.failed = TRUE, !.cause = "unauthorized"]
    ELSE [z EXCEPT !.sawInbound = TRUE, !.ready = TRUE, !.timer = TRUE]

LEMMA FinishingOk ==
    ASSUME NEW k \in Conns, NEW l, LinkOk(k, l), NEW e \in Sides, ~l.end[e].established, ~l.end[e].streamFailed,
           l.end[e].life = "live", l.end[e].connectConfirmed,
           NEW u, NEW a, NEW g, Asked(e, l.end[e], "done", u, a, g),
           sc.cred[k] # (IF e = "ctl" THEN "imposter" ELSE "revoked"),
           NEW y, y = Shook(l.end[e], Shake("done", u, a, g)),
           NEW m, m = onReady(k, [Put(l, e, y) EXCEPT !.end[e].established = TRUE], e)
    PROVE  /\ LinkOk(k, m) /\ Beside(l, m, e) /\ m.end[e].established /\ m.end[e].hs = "done"
           /\ Shaken(l.end[e], m.end[e])
           /\ m.end[e].fed = IF u = 1 THEN Tail(l.end[e].fed) ELSE l.end[e].fed
<1> DEFINE x == l.end[e]
           z == [y EXCEPT !.established = TRUE]
           w == Greeted(k, e, z)
           n == [Put(l, e, y) EXCEPT !.end[e].established = TRUE]
<1>1. /\ l \in LinkType /\ x \in EndType /\ EndOk(k, e, x) /\ ~x.failed /\ x.cause = "none" /\ ~x.ready
      /\ x.hs \in {"start", "wait"} /\ x.silent = 0 /\ x.token
  BY Early
<1>2. u \in {0, 1} /\ a \in {0, 1} /\ g \in AnyFrame /\ g.t \in Flights
      /\ (u = 1 => x.fed # <<>>) /\ Given(e, "done") = Given(e, x.hs) + a /\ Used(e, "done") = Used(e, x.hs) + u
  BY DEF Asked
<1>3. /\ y \in EndType /\ y.hs = "done" /\ Shaken(x, y)
      /\ y.outbound = IF a = 1 THEN Append(x.outbound, g) ELSE x.outbound
      /\ y.fed = IF u = 1 THEN Tail(x.fed) ELSE x.fed
      /\ y.established = x.established /\ y.ready = x.ready /\ y.failed = x.failed /\ y.cause = x.cause
      /\ y.timer = x.timer /\ y.sawInbound = x.sawInbound
  <2>1. "done" \in {"start", "wait", "done"} /\ y = Shook(x, Shake("done", u, a, g))
    OBVIOUS
  <2> HIDE DEF x
  <2>2. Stepped(x, y, "done", u, a, g)
    BY <1>1, <1>2, <2>1, ShookIs
  <2>3. QED
    BY <2>2 DEF Stepped
<1>4. n = Put(l, e, z) /\ z \in EndType /\ w \in EndType
  <2>1. z \in EndType
    BY ZenonT(90), <1>3 DEF EndType
  <2>2. w \in EndType
    <3> HIDE DEF z
    <3>1. [z EXCEPT !.failed = TRUE, !.cause = "unauthorized"] \in EndType
      BY <2>1 DEF EndType, Causes
    <3>2. [z EXCEPT !.sawInbound = TRUE, !.ready = TRUE, !.timer = TRUE] \in EndType
      BY <2>1 DEF EndType
    <3>3. QED
      BY <3>1, <3>2 DEF Greeted
  <2>3. n = Put(l, e, z)
    <3> DEFINE v == Put(l, e, y)
    <3>1. v \in LinkType /\ v.end[e] = y /\ \A i : Put(v, e, i) = Put(l, e, i)
      BY <1>1, <1>3, Placed DEF Becomes, Beside
    <3> HIDE DEF v
    <3>2. [v EXCEPT !.end[e].established = TRUE] = Put(v, e, z)
      BY <1>3, <3>1 DEF LinkType, EndType, Put
    <3> HIDE DEF z
    <3>3. QED
      BY <3>1, <3>2 DEF v
  <2>4. QED
    BY <2>1, <2>2, <2>3
<1>5. m = Put(l, e, w)
  <2> DEFINE v == Put(l, e, z)
  <2>1. v \in LinkType /\ v.end[e] = z /\ \A i : Put(v, e, i) = Put(l, e, i)
    <3> HIDE DEF z
    <3>1. QED
      BY <1>1, <1>4, Placed DEF Becomes, Beside
  <2>2. ~z.failed
    BY <1>1, <1>3 DEF EndType
  <2>3. m = onReady(k, v, e)
    BY <1>4
  <2> HIDE DEF v, z
  <2>4. onReady(k, v, e) =
          IF e = "node" /\ sc.cred[k] = "unlisted"
          THEN Put(v, e, [z EXCEPT !.failed = TRUE, !.cause = "unauthorized"])
          ELSE Put(v, e, [z EXCEPT !.sawInbound = TRUE, !.ready = TRUE, !.timer = TRUE])
    BY <2>1, <2>2, OnReadyIs
  <2>5. onReady(k, v, e) = Put(v, e, w)
    BY <2>4 DEF Greeted
  <2>6. QED
    BY <2>1, <2>3, <2>5
<1>6. /\ w.hs = "done" /\ w.outbound = y.outbound /\ w.fed = y.fed /\ w.established /\ Shaken(x, w)
      /\ IF e = "node" /\ sc.cred[k] = "unlisted" THEN w.failed /\ w.cause = "unauthorized" /\ ~w.ready /\ ~w.timer
         ELSE ~w.failed /\ w.cause = "none" /\ w.ready /\ w.timer /\ w.sawInbound
  <2>0. ~x.timer
    BY Early
  <2>1. /\ z \in EndType /\ z.hs = "done" /\ z.outbound = y.outbound /\ z.fed = y.fed /\ z.established /\ Shaken(x, z)
        /\ ~z.failed /\ z.cause = "none" /\ ~z.ready /\ ~z.timer
    <3> HIDE DEF x
    <3>1. x \in EndType /\ y \in EndType /\ z \in EndType
      BY <1>1, <1>3, <1>4
    <3>2. /\ z.hs = y.hs /\ z.outbound = y.outbound /\ z.fed = y.fed /\ z.established /\ z.failed = y.failed
          /\ z.cause = y.cause /\ z.ready = y.ready /\ z.timer = y.timer /\ Shaken(y, z)
      BY <3>1 DEF Shaken, EndType
    <3> HIDE DEF z
    <3>3. Shaken(x, z)
      BY <1>3, <3>2 DEF Shaken
    <3>4. QED
      BY <1>1, <1>3, <2>0, <3>1, <3>2, <3>3
  <2> HIDE DEF z
  <2>2. CASE e = "node" /\ sc.cred[k] = "unlisted"
    <3>1. w = [z EXCEPT !.failed = TRUE, !.cause = "unauthorized"]
      BY <2>2 DEF Greeted
    <3> HIDE DEF w
    <3>2. QED
      BY <2>1, <2>2, <3>1 DEF Shaken, EndType
  <2>3. CASE ~(e = "node" /\ sc.cred[k] = "unlisted")
    <3>1. w = [z EXCEPT !.sawInbound = TRUE, !.ready = TRUE, !.timer = TRUE]
      BY <2>3 DEF Greeted
    <3> HIDE DEF w
    <3>2. QED
      BY <2>1, <2>3, <3>1 DEF Shaken, EndType
  <2>4. QED
    BY <2>2, <2>3
<1> HIDE DEF w, z, n
<1>7. Becomes(l, m, e, w, e, l.to[e]) /\ m.to = l.to
  BY <1>1, <1>4, <1>5, Placed
<1>8. Beside(l, m, e) /\ m.end[e] = w /\ m.everCut = l.everCut
  BY <1>7 DEF Becomes, Beside
<1>9. Shakes(l, m, e, u, a, g)
  <2>1. w.got = x.got /\ w.sent = x.sent /\ w.life = x.life
    BY <1>6 DEF Shaken
  <2>2. w.fed = (IF u = 1 THEN Tail(x.fed) ELSE x.fed) /\ w.outbound = IF a = 1 THEN Append(x.outbound, g) ELSE x.outbound
    BY <1>3, <1>6
  <2>3. QED
    BY <1>2, <1>6, <1>7, <1>8, <2>1, <2>2 DEF Shakes
<1>10. EndOk(k, e, w)
  <2>1. Handshaken(w)
    BY <1>1, <1>6 DEF EndOk, Handshaken, Shaken
  <2>2. Stopped(w)
    BY <1>1, <1>6 DEF EndOk, Stopped, Shaken
  <2>3. Admitted(k, e, w)
    BY <1>1, <1>6 DEF EndOk, Admitted
  <2>4. Leased(w)
    BY <1>1, <1>6 DEF EndOk, Leased, Shaken
  <2>5. Reached(k, e, w)
    BY <1>1, <1>6 DEF EndOk, Reached, Shaken
  <2>6. QED
    BY <1>6, <2>1, <2>2, <2>3, <2>4, <2>5 DEF EndOk, Shaken
<1>11. CauseOk(k, m, e) /\ ~Waits(m, e)
  BY <1>6, <1>8 DEF CauseOk, Waits
<1>12. LinkOk(k, m)
  BY <1>1, <1>2, <1>8, <1>9, <1>10, <1>11, ShakeStep
<1>13. QED
  BY <1>3, <1>6, <1>8, <1>12

\* Before the peer's handshake is done there are only flights on the way.
LEMMA JoinedLen ==
    ASSUME NEW a \in Wire, NEW b \in Wire, NEW c \in Wire
    PROVE  Len(a) \in Nat /\ Len(Joined(a, b, c)) \in Nat /\ Len(a) <= Len(Joined(a, b, c))
<1>1. a \o b \in Seq(AnyFrame) /\ Len(a \o b) = Len(a) + Len(b)
  BY ConcatProperties DEF Wire
<1>2. Len((a \o b) \o c) = Len(a \o b) + Len(c)
  BY <1>1, ConcatProperties DEF Wire
<1>3. Len(a) \in Nat /\ Len(b) \in Nat /\ Len(c) \in Nat
  BY LenProperties DEF Wire
<1>4. QED
  BY <1>1, <1>2, <1>3 DEF Joined

LEMMA OnlyFlights ==
    ASSUME NEW k \in Conns, NEW l, LinkOk(k, l), NEW e \in Sides, ~l.end[e].failed, ~l.shut[e],
           l.end[Peer(e)].hs # "done"
    PROVE  /\ Len(l.end[e].fed) \in Nat
           /\ Len(l.end[e].fed) <= Given(Peer(e), l.end[Peer(e)].hs) - Used(e, l.end[e].hs)
<1> DEFINE p == Peer(e)
           x == l.end[e]
           y == l.end[p]
           d == Given(p, y.hs) - Used(e, x.hs)
<1>1. /\ p \in Sides /\ x \in EndType /\ y \in EndType /\ l.to[e] \in Wire /\ SideOk(k, l, e)
  BY Two, Records
<1>2. x.fed \in Wire /\ y.outbound \in Wire
  BY <1>1 DEF EndType
<1>3. Flown(In(l, e), d, y.hs = "done", l.shut[p])
  BY <1>1 DEF SideOk, WayOk, Way
<1>4. d \in Nat /\ Len(In(l, e)) <= d
  BY <1>3 DEF Flown
<1>5. In(l, e) = Joined(x.fed, l.to[e], y.outbound)
  BY DEF In
<1> HIDE DEF d, x, y
<1>6. Len(x.fed) \in Nat /\ Len(Joined(x.fed, l.to[e], y.outbound)) \in Nat /\ Len(x.fed) <= Len(Joined(x.fed, l.to[e], y.outbound))
  BY <1>1, <1>2, JoinedLen
<1>7. Len(x.fed) <= d
  BY <1>4, <1>5, <1>6
<1>8. QED
  BY <1>6, <1>7 DEF d, x, y

LEMMA ShortTail ==
    ASSUME NEW s \in Wire, Len(s) <= 1 PROVE s # <<>> => Tail(s) = <<>>
<1>1. Len(s) \in Nat
  BY LenProperties DEF Wire
<1>2. s # <<>> => Tail(s) \in Seq(AnyFrame) /\ Len(Tail(s)) = Len(s) - 1
  BY HeadTailProperties DEF Wire
<1>3. s # <<>> => Len(s) # 0
  BY EmptySeq DEF Wire
<1> DEFINE n == Len(s)
           m == Len(Tail(s))
<1>4. s # <<>> => m = 0
  <2>1. n \in Nat /\ n <= 1 /\ (s # <<>> => m = n - 1 /\ n # 0)
    BY <1>1, <1>2, <1>3
  <2> HIDE DEF n, m
  <2>2. QED
    BY <2>1
<1>5. QED
  BY <1>2, <1>4, EmptySeq

\* What SSL_do_handshake asks of an end that runs.
Takes(k, e, x, r) ==
    \/ /\ e = "ctl" /\ x.hs = "start"
       /\ r = Shake("wait", 0, 1, Frame("CH")) /\ Asked(e, x, "wait", 0, 1, Frame("CH"))
    \/ /\ e = "node" /\ x.hs = "start" /\ x.fed # <<>>
       /\ r = Shake("wait", 1, 1, Frame("SF")) /\ Asked(e, x, "wait", 1, 1, Frame("SF"))
    \/ r.hs = "refused" /\ sc.cred[k] \in {"revoked", "imposter"}
    \/ /\ sc.cred[k] # (IF e = "ctl" THEN "imposter" ELSE "revoked") /\ x.hs = "wait"
       /\ \E a \in {0, 1} : r = Shake("done", 1, a, Frame("CF")) /\ Asked(e, x, "done", 1, a, Frame("CF"))
    \/ /\ ~(e = "ctl" /\ x.hs = "start") /\ x.fed = <<>>
       /\ r = Shake(x.hs, 0, 0, Frame("CH")) /\ Asked(e, x, x.hs, 0, 0, Frame("CH"))

LEMMA HandshakeIs ==
    ASSUME NEW k, NEW e \in Sides, NEW x \in EndType, x.hs \in {"start", "wait"}
    PROVE  Takes(k, e, x, handshake(k, e, x.hs, x.fed))
<1>0. SUFFICES ASSUME NEW r, r = handshake(k, e, x.hs, x.fed) PROVE Takes(k, e, x, r)
  OBVIOUS
<1>1. /\ Frame("CH") \in AnyFrame /\ Frame("SF") \in AnyFrame /\ Frame("CF") \in AnyFrame
      /\ Frame("CH").t \in Flights /\ Frame("SF").t \in Flights /\ Frame("CF").t \in Flights
  BY DEF Frame, AnyFrame, FrameKinds, Flights
<1>2. e = "ctl" \/ e = "node"
  BY DEF Sides
<1>3. CASE e = "ctl" /\ x.hs = "start"
  <2>1. r = Shake("wait", 0, 1, Frame("CH"))
    BY <1>0, <1>3 DEF handshake, Shake, Flight
  <2>2. Asked(e, x, "wait", 0, 1, Frame("CH"))
    BY <1>1, <1>3 DEF Asked, Given, Used
  <2>3. QED
    BY <1>3, <2>1, <2>2 DEF Takes
<1>4. CASE e = "node" /\ x.hs = "start" /\ x.fed # <<>>
  <2>1. r = Shake("wait", 1, 1, Frame("SF"))
    BY <1>0, <1>4 DEF handshake, Shake, Flight
  <2>2. Asked(e, x, "wait", 1, 1, Frame("SF"))
    BY <1>1, <1>4 DEF Asked, Given, Used
  <2>3. QED
    BY <1>4, <2>1, <2>2 DEF Takes
<1>5. CASE e = "ctl" /\ x.hs = "wait" /\ x.fed # <<>>
  <2>1. r = IF sc.cred[k] = "imposter" THEN [hs |-> "refused", used |-> 0, out |-> <<>>] ELSE Shake("done", 1, 1, Frame("CF"))
    BY <1>0, <1>5 DEF handshake, Shake, Flight
  <2>2. Asked(e, x, "done", 1, 1, Frame("CF"))
    BY <1>1, <1>5 DEF Asked, Given, Used
  <2>3. QED
    BY <1>5, <2>1, <2>2 DEF Takes
<1>6. CASE e = "node" /\ x.hs = "wait" /\ x.fed # <<>>
  <2>1. r = IF sc.cred[k] = "revoked" THEN [hs |-> "refused", used |-> 0, out |-> <<>>] ELSE Shake("done", 1, 0, Frame("CF"))
    BY <1>0, <1>6 DEF handshake, Shake, Flight
  <2>2. Asked(e, x, "done", 1, 0, Frame("CF"))
    BY <1>1, <1>6 DEF Asked, Given, Used
  <2>3. QED
    BY <1>6, <2>1, <2>2 DEF Takes
<1>7. CASE ~(e = "ctl" /\ x.hs = "start") /\ x.fed = <<>>
  <2>1. r = Shake(x.hs, 0, 0, Frame("CH"))
    BY <1>0, <1>7 DEF handshake, Shake, Flight
  <2>2. Asked(e, x, x.hs, 0, 0, Frame("CH"))
    BY <1>1, <1>2, <1>7 DEF Asked, Given, Used
  <2>3. QED
    BY <1>7, <2>1, <2>2 DEF Takes
<1>8. QED
  BY <1>2, <1>3, <1>4, <1>5, <1>6, <1>7

LEMMA HandshakeOk ==
    ASSUME NEW k \in Conns, NEW l, LinkOk(k, l), NEW e \in Sides, ~l.end[e].established, ~l.end[e].streamFailed,
           l.end[e].life = "live", l.end[e].connectConfirmed
    PROVE  LinkOk(k, driveHandshake(k, l, e)) /\ Advanced(l, driveHandshake(k, l, e), e)
<1> DEFINE p == Peer(e)
           x == l.end[e]
           y == l.end[p]
           h == handshake(k, e, x.hs, x.fed)
<1>1. /\ l \in LinkType /\ x \in EndType /\ EndOk(k, e, x) /\ ~x.failed /\ x.cause = "none"
      /\ x.hs \in {"start", "wait"} /\ ~l.shut[e]
  BY Early
<1>2. /\ p \in Sides /\ p # e /\ Peer(p) = e /\ y \in EndType /\ SideOk(k, l, e) /\ SideOk(k, l, p)
  BY Two, Records
<1>3. x.fed \in Wire /\ y.hs \in {"start", "wait", "done"}
  BY <1>1, <1>2 DEF EndType
<1>4. PICK r : r = h
  OBVIOUS
<1> HIDE DEF h
<1>5. driveHandshake(k, l, e) =
        IF r.hs = "refused" THEN fail(l, e, "handshake")
        ELSE IF r.hs = "done"
        THEN deliverAppData(onReady(k, [Put(l, e, Shook(x, r)) EXCEPT !.end[e].established = TRUE], e), e)
        ELSE Put(l, e, Shook(x, r))
  <2>1. r = handshake(k, e, l.end[e].hs, l.end[e].fed)
    BY <1>4 DEF h
  <2>2. QED
    BY <1>1, <2>1, DriveIs
<1>6. \/ /\ e = "ctl" /\ x.hs = "start"
         /\ r = Shake("wait", 0, 1, Frame("CH")) /\ Asked(e, x, "wait", 0, 1, Frame("CH"))
      \/ /\ e = "node" /\ x.hs = "start" /\ x.fed # <<>>
         /\ r = Shake("wait", 1, 1, Frame("SF")) /\ Asked(e, x, "wait", 1, 1, Frame("SF"))
      \/ r.hs = "refused" /\ sc.cred[k] \in {"revoked", "imposter"}
      \/ /\ sc.cred[k] # (IF e = "ctl" THEN "imposter" ELSE "revoked") /\ x.hs = "wait"
         /\ \E a \in {0, 1} : r = Shake("done", 1, a, Frame("CF")) /\ Asked(e, x, "done", 1, a, Frame("CF"))
      \/ /\ ~(e = "ctl" /\ x.hs = "start") /\ x.fed = <<>>
         /\ r = Shake(x.hs, 0, 0, Frame("CH")) /\ Asked(e, x, x.hs, 0, 0, Frame("CH"))
  <2>1. r = handshake(k, e, x.hs, x.fed)
    BY <1>4 DEF h
  <2> HIDE DEF x
  <2>2. Takes(k, e, x, handshake(k, e, x.hs, x.fed))
    BY <1>1, HandshakeIs
  <2>3. QED
    BY <2>1, <2>2 DEF Takes
<1>7. ASSUME NEW hs, NEW u, NEW a, NEW g, r = Shake(hs, u, a, g), Asked(e, x, hs, u, a, g), hs # "done",
             (IF u = 1 THEN Tail(x.fed) ELSE x.fed) = <<>>, e = "ctl" => hs # "start"
      PROVE  LinkOk(k, driveHandshake(k, l, e)) /\ Advanced(l, driveHandshake(k, l, e), e)
  <2> DEFINE z == Shook(x, r)
             m == Put(l, e, z)
  <2>1. r.hs = hs /\ hs # "refused"
    BY <1>7 DEF Shake, Asked
  <2>2. driveHandshake(k, l, e) = m
    BY <1>5, <1>7, <2>1
  <2>3. z = Shook(l.end[e], Shake(hs, u, a, g))
    BY <1>7
  <2> HIDE DEF z
  <2>4. /\ LinkOk(k, m) /\ Beside(l, m, e) /\ m.end[e] = z
        /\ Shaken(l.end[e], z) /\ z.hs = hs /\ z.failed = l.end[e].failed
        /\ z.fed = IF u = 1 THEN Tail(l.end[e].fed) ELSE l.end[e].fed
    BY <1>7, <2>3, WaitingOk
  <2> HIDE DEF m
  <2>5. Advanced(l, m, e)
    BY <1>7, <2>4 DEF Advanced, Read, Shaken
  <2>6. QED
    BY <2>2, <2>4, <2>5
<1>8. CASE e = "ctl" /\ r = Shake("wait", 0, 1, Frame("CH")) /\ Asked(e, x, "wait", 0, 1, Frame("CH")) /\ x.hs = "start"
  <2>1. Len(x.fed) \in Nat /\ Len(x.fed) <= 0
    <3>1. Turns(l, p) /\ p = "node"
      BY <1>2, <1>8 DEF SideOk, Peer
    <3>2. y.hs = "start"
      BY <1>2, <1>3, <1>8, <3>1 DEF Turns, Used, Given
    <3>3. Given(p, y.hs) - Used(e, x.hs) = 0
      BY <1>8, <3>1, <3>2 DEF Used, Given
    <3>4. y.hs # "done"
      BY <3>2
    <3>5. QED
      BY <1>1, <3>3, <3>4, OnlyFlights
  <2>2. x.fed = <<>>
    <3>1. Len(x.fed) = 0
      BY <2>1
    <3>2. QED
      BY <1>3, <3>1, EmptySeq DEF Wire
  <2>3. QED
    BY <1>7, <1>8, <2>2
<1>9. CASE e = "node" /\ r = Shake("wait", 1, 1, Frame("SF")) /\ Asked(e, x, "wait", 1, 1, Frame("SF")) /\ x.hs = "start" /\ x.fed # <<>>
  <2>1. Len(x.fed) \in Nat /\ Len(x.fed) <= 1
    <3>1. Turns(l, p) /\ p = "ctl"
      BY <1>2, <1>9 DEF SideOk, Peer
    <3>2. y.hs \in {"start", "wait"}
      BY <1>2, <1>3, <1>9, <3>1 DEF Turns, Used, Given
    <3>3. Given(p, y.hs) - Used(e, x.hs) \in {0, 1}
      BY <1>9, <3>1, <3>2 DEF Used, Given
    <3>4. y.hs # "done"
      BY <3>2
    <3>5. Len(x.fed) \in Nat /\ Len(x.fed) <= Given(p, y.hs) - Used(e, x.hs)
      BY <1>1, <3>4, OnlyFlights
    <3>6. QED
      BY <3>3, <3>5
  <2>2. Tail(x.fed) = <<>>
    BY <1>3, <1>9, <2>1, ShortTail
  <2>3. QED
    BY <1>7, <1>9, <2>2
<1>10. CASE r.hs = "refused" /\ sc.cred[k] \in {"revoked", "imposter"}
  <2> DEFINE m == fail(l, e, "handshake")
  <2>1. driveHandshake(k, l, e) = m
    BY <1>5, <1>10
  <2>2. Excuse(k, l, e, "handshake")
    BY <1>10 DEF Excuse, Causes
  <2>3. LinkOk(k, m) /\ Failing(l, m, e) /\ m.end[e].streamFailed /\ ~m.end[e].token
    BY <2>2, StreamFails
  <2> HIDE DEF m
  <2>4. Advanced(l, m, e)
    BY <2>3 DEF Failing, Unmoved, Steady, Advanced, Read
  <2>5. QED
    BY <2>1, <2>3, <2>4
<1>11. ASSUME sc.cred[k] # (IF e = "ctl" THEN "imposter" ELSE "revoked"), x.hs = "wait",
              NEW a \in {0, 1}, r = Shake("done", 1, a, Frame("CF")), Asked(e, x, "done", 1, a, Frame("CF"))
       PROVE  LinkOk(k, driveHandshake(k, l, e)) /\ Advanced(l, driveHandshake(k, l, e), e)
  <2> DEFINE z == Shook(x, r)
             m == onReady(k, [Put(l, e, z) EXCEPT !.end[e].established = TRUE], e)
             n == deliverAppData(m, e)
  <2>1. r.hs = "done"
    BY <1>11 DEF Shake
  <2>2. driveHandshake(k, l, e) = n
    BY <1>5, <2>1
  <2>3. z = Shook(l.end[e], Shake("done", 1, a, Frame("CF")))
    BY <1>11
  <2> HIDE DEF z
  <2>4. PICK w : w = m
    OBVIOUS
  <2>5. LinkOk(k, w) /\ Beside(l, w, e) /\ w.end[e].established /\ w.end[e].hs = "done" /\ Shaken(l.end[e], w.end[e])
    BY SMTT(30), <1>11, <2>3, <2>4, FinishingOk
  <2>6. n = deliverAppData(w, e)
    BY <2>4
  <2>7. w.end[e].life = "live"
    BY <2>5 DEF Shaken
  <2> HIDE DEF m, n
  <2>8. LinkOk(k, n) /\ Delivered(w, n, e)
    BY <2>5, <2>6, <2>7, DeliverOk
  <2>9. Advanced(l, n, e)
    BY <1>1, <2>5, <2>8 DEF Delivered, Upheld, Beside, Advanced, Shaken
  <2>10. QED
    BY <2>2, <2>8, <2>9
<1>12. CASE ~(e = "ctl" /\ x.hs = "start") /\ x.fed = <<>> /\ r = Shake(x.hs, 0, 0, Frame("CH")) /\ Asked(e, x, x.hs, 0, 0, Frame("CH"))
  <2>1. x.hs # "done"
    BY <1>1
  <2>2. QED
    BY <1>7, <1>12, <2>1
<1> HIDE DEF x, y, p
<1>13. QED
  BY <1>6, <1>8, <1>9, <1>10, <1>11, <1>12

-----------------------------------------------------------------------------
(* What a whole handler leaves *)

\* A handler of e is over: the invariant holds and e is at rest.
Turned(k, l, m, e) ==
    /\ LinkOk(k, m) /\ Beside(l, m, e) /\ AtRest(m, e)
    /\ m.end[e].life = l.end[e].life

LEMMA RestStays ==
    ASSUME NEW l, NEW m, NEW e \in Sides, Beside(l, m, e), AtRest(l, Peer(e)) PROVE AtRest(m, Peer(e))
BY DEF Beside, AtRest, Wanted, Read, Begun

\* What the socket held, fed to Tls.
LEMMA FeedIs ==
    ASSUME NEW l \in LinkType, NEW e \in Sides
    PROVE  /\ feedEncrypted(l, e) = PutBoth(l, e, [l.end[e] EXCEPT !.fed = @ \o l.to[e]], e, <<>>)
           /\ [l.end[e] EXCEPT !.fed = @ \o l.to[e]] \in EndType
<1>1. l.end[e] \in EndType /\ l.to[e] \in Wire
  BY Linked
<1>2. l.end[e].fed \o l.to[e] \in Wire
  <2>1. l.end[e].fed \in Wire
    BY <1>1 DEF EndType
  <2>2. QED
    BY <1>1, <2>1, JoinedTyped
<1> DEFINE s == l.end[e].fed \o l.to[e]
           r == [l.end[e] EXCEPT !.fed = s]
<1>3. r \in EndType
  <2> HIDE DEF s
  <2>1. s \in Wire
    BY <1>2 DEF s
  <2>2. QED
    BY <1>1, <2>1 DEF EndType
<1>4. feedEncrypted(l, e) = [l EXCEPT !.end[e].fed = s, !.to[e] = <<>>]
  BY <1>1 DEF feedEncrypted, LinkType, EndType
<1>5. [l EXCEPT !.end[e].fed = s, !.to[e] = <<>>] = [l EXCEPT !.end[e] = r, !.to[e] = <<>>]
  <2> HIDE DEF s
  <2>1. QED
    BY <1>1 DEF LinkType, EndType
<1>6. r = [l.end[e] EXCEPT !.fed = @ \o l.to[e]]
  BY <1>1 DEF EndType
<1>7. QED
  BY <1>3, <1>4, <1>5, <1>6 DEF PutBoth

LEMMA FeedOk ==
    ASSUME NEW k \in Conns, NEW l, LinkOk(k, l), NEW e \in Sides, l.end[e].life = "live"
    PROVE  /\ LinkOk(k, feedEncrypted(l, e)) /\ Beside(l, feedEncrypted(l, e), e)
           /\ Kept(l.end[e], feedEncrypted(l, e).end[e])
           /\ feedEncrypted(l, e).end[e].streamFailed = l.end[e].streamFailed
<1> DEFINE p == Peer(e)
           x == l.end[e]
           y == l.end[p]
           s == x.fed \o l.to[e]
           r == [x EXCEPT !.fed = s]
           m == feedEncrypted(l, e)
<1>1. /\ p \in Sides /\ p # e /\ Peer(p) = e /\ l \in LinkType /\ x \in EndType /\ y \in EndType
      /\ l.to[e] \in Wire /\ l.to[p] \in Wire /\ SideOk(k, l, e) /\ SideOk(k, l, p) /\ EndOk(k, e, x)
  BY Two, Records
<1>2. m = PutBoth(l, e, r, e, <<>>) /\ r \in EndType
  BY <1>1, FeedIs
<1> HIDE DEF m
<1>3. /\ Kept(x, r) /\ r.fed = s /\ r.streamFailed = x.streamFailed /\ r.failed = x.failed
      /\ r.cause = x.cause /\ r.token = x.token /\ r.outbound = x.outbound /\ r.got = x.got /\ r.badSeen = x.badSeen
  <2> HIDE DEF s
  <2>1. QED
    BY <1>1 DEF Kept, EndType
<1> HIDE DEF r
<1>4. Becomes(l, m, e, r, e, <<>>)
  <2>1. <<>> \in Wire
    BY Empties
  <2>2. QED
    BY <1>1, <1>2, <2>1, Changed
<1>5. /\ Beside(l, m, e) /\ m.end[e] = r /\ m.end[p] = y /\ m.shut = l.shut /\ m.everCut = l.everCut
      /\ m \in LinkType /\ m.to[e] = <<>> /\ m.to[p] = l.to[p]
  BY <1>4 DEF Becomes, Beside
<1>6. In(m, p) = In(l, p)
  BY <1>1, <1>3, <1>5 DEF In
<1>7. In(m, e) = In(l, e)
  <2>1. In(m, e) = Joined(s, <<>>, y.outbound) /\ In(l, e) = Joined(x.fed, l.to[e], y.outbound)
    BY <1>3, <1>5 DEF In
  <2>2. x.fed \in Wire /\ y.outbound \in Wire
    BY <1>1 DEF EndType
  <2>3. IsJoin(s, x.fed, l.to[e])
    BY DEF IsJoin
  <2> HIDE DEF s, x, y
  <2>4. QED
    BY <1>1, <2>1, <2>2, <2>3, JoinedFeed
<1>8. EndOk(k, e, r)
  <2>1. Handshaken(r)
    BY <1>1, <1>3 DEF EndOk, Handshaken, Kept
  <2>2. Stopped(r)
    BY <1>1, <1>3 DEF EndOk, Stopped, Kept
  <2>3. Admitted(k, e, r)
    BY <1>1, <1>3 DEF EndOk, Admitted, Kept
  <2>4. Leased(r)
    BY <1>1, <1>3 DEF EndOk, Leased, Kept
  <2>5. Reached(k, e, r)
    BY <1>1, <1>3 DEF EndOk, Reached, Kept
  <2>6. QED
    BY <1>3, <2>1, <2>2, <2>3, <2>4, <2>5 DEF EndOk, Kept
<1>9. CauseOk(k, m, e)
  BY <1>1, <1>3, <1>5 DEF SideOk, CauseOk, Kept
<1>10. WayOk(m, e) /\ WayOk(m, p)
  BY <1>1, <1>3, <1>5, <1>6, <1>7 DEF SideOk, WayOk, Way, Kept
<1>11. Owed(m, e) /\ Owed(m, p)
  BY <1>1, <1>3, <1>5, <1>6, <1>7 DEF SideOk, Owed, Waits, Pinged, Kept
<1>12. Turns(m, e) /\ Turns(m, p)
  BY <1>1, <1>3, <1>5 DEF SideOk, Turns, Kept
<1>13. Fits(m, e) /\ Fits(m, p)
  <2>1. Len(<<>>) = 0
    BY EmptySeq
  <2>2. QED
    BY <1>1, <1>5, <2>1, ConnectionAssumption DEF SideOk, Fits
<1>14. GotOk(m, e)
  BY <1>1, <1>3, <1>5 DEF SideOk, GotOk, Kept
<1>15. x.sent <= r.sent
  BY <1>1, <1>3 DEF EndType, Kept
<1>16. LinkOk(k, m)
  BY <1>3, <1>5, <1>8, <1>9, <1>10, <1>11, <1>12, <1>13, <1>14, <1>15, StepOk DEF Kept
<1>17. QED
  BY <1>3, <1>5, <1>16 DEF m

\* A flush alone leaves an end at rest.
LEMMA FlushRest ==
    ASSUME NEW k \in Conns, NEW l, LinkOk(k, l), NEW e \in Sides, l.end[e].life = "live", AtRest(l, e),
           l.end[e].connectConfirmed
    PROVE  Turned(k, l, flushOutbound(l, e), e) /\ flushOutbound(l, e).end[e].connectConfirmed
<1> DEFINE m == flushOutbound(l, e)
<1>1. LinkOk(k, m) /\ Flushed(l, m, e) /\ m.end[e].wantWrite = l.end[e].wantWrite
  BY FlushOk
<1> HIDE DEF m
<1>2. Beside(l, m, e) /\ Steady(l.end[e], m.end[e])
  BY <1>1 DEF Flushed
<1>3. Wanted(m, e)
  BY <1>1 DEF Flushed, AtRest, Wanted
<1>4. Read(m, e)
  BY <1>2 DEF AtRest, Read, Steady
<1>5. Begun(m, e)
  BY <1>1, <1>2 DEF Flushed, AtRest, Begun, Steady
<1>6. QED
  BY <1>1, <1>2, <1>3, <1>4, <1>5 DEF Turned, AtRest, Steady, m

\* Settling what a handshake or a delivery left.
LEMMA SettleRest ==
    ASSUME NEW k \in Conns, NEW l, NEW n, LinkOk(k, n), NEW e \in Sides, Beside(l, n, e), Read(n, e),
           l.end[e].life = "live", n.end[e].life = "live", n.end[e].connectConfirmed,
           e = "ctl" => n.end[e].hs # "start" \/ ~n.end[e].token
    PROVE  Turned(k, l, settle(n, e), e)
<1> DEFINE m == settle(n, e)
<1>1. LinkOk(k, m) /\ Flushed(n, m, e) /\ Wanted(m, e)
  BY SettleOk
<1> HIDE DEF m
<1>2. Beside(n, m, e) /\ Steady(n.end[e], m.end[e]) /\ (m.end[e].token => n.end[e].token)
  BY <1>1 DEF Flushed
<1>3. Read(m, e)
  BY <1>2 DEF Read, Steady
<1>4. Begun(m, e)
  BY <1>2 DEF Begun, Steady
<1>5. Beside(l, m, e)
  BY <1>2 DEF Beside
<1>6. QED
  BY <1>1, <1>2, <1>3, <1>4, <1>5 DEF Turned, AtRest, Steady, m

\* A stream that has failed is at rest.
LEMMA FailRest ==
    ASSUME NEW k \in Conns, NEW l, NEW n, LinkOk(k, n), NEW e \in Sides, Beside(l, n, e), NEW why, Excuse(k, n, e, why),
           l.end[e].life = "live", n.end[e].life = "live", n.end[e].connectConfirmed \/ n.end[e].outbound = <<>>
    PROVE  Turned(k, l, fail(n, e, why), e)
<1> DEFINE m == fail(n, e, why)
<1>1. LinkOk(k, m) /\ Failing(n, m, e) /\ m.end[e].streamFailed /\ ~m.end[e].token
  BY StreamFails
<1> HIDE DEF m
<1>2. Unmoved(n, m, e) /\ Steady(n.end[e], m.end[e]) /\ Beside(n, m, e)
  BY <1>1 DEF Failing, Unmoved
<1>3. AtRest(m, e)
  BY <1>1, <1>2 DEF AtRest, Wanted, Read, Begun, Unmoved, Steady
<1>4. Beside(l, m, e)
  BY <1>2 DEF Beside
<1>5. QED
  BY <1>1, <1>2, <1>3, <1>4 DEF Turned, Steady, m

LEMMA OnReadableOk ==
    ASSUME NEW k \in Conns, NEW l, LinkOk(k, l), NEW e \in Sides, l.end[e].life = "live",
           l.end[e].connectConfirmed, ~l.end[e].streamFailed
    PROVE  Turned(k, l, onReadable(k, l, e), e)
<1> DEFINE m == feedEncrypted(l, e)
<1>1. LinkOk(k, m) /\ Beside(l, m, e) /\ Kept(l.end[e], m.end[e]) /\ m.end[e].streamFailed = l.end[e].streamFailed
  BY FeedOk
<1>2. onReadable(k, l, e) =
        CASE l.reset -> fail(l, e, "reset")
          [] ~l.reset /\ l.shut[Peer(e)] -> fail(m, e, "closed")
          [] ~l.reset /\ ~l.shut[Peer(e)] /\ ~l.end[e].established -> settle(driveHandshake(k, m, e), e)
          [] OTHER -> settle(deliverAppData(m, e), e)
  BY DEF onReadable
<1> HIDE DEF m
<1>3. m.end[e].life = "live" /\ m.end[e].connectConfirmed /\ m.end[e].established = l.end[e].established
  BY <1>1 DEF Kept
<1>4. CASE l.reset
  <2>1. Excuse(k, l, e, "reset")
    BY DEF Excuse, Causes
  <2>2. Beside(l, l, e)
    BY Records DEF Beside
  <2>3. QED
    BY <1>2, <1>4, <2>1, <2>2, FailRest
<1>5. CASE ~l.reset /\ l.shut[Peer(e)]
  <2>1. Excuse(k, m, e, "closed")
    BY DEF Excuse, Causes
  <2>2. Turned(k, l, fail(m, e, "closed"), e)
    BY <1>1, <1>3, <2>1, FailRest
  <2>3. QED
    BY <1>2, <1>5, <2>2
<1>6. CASE ~l.reset /\ ~l.shut[Peer(e)] /\ ~l.end[e].established
  <2> DEFINE n == driveHandshake(k, m, e)
  <2>1. LinkOk(k, n) /\ Advanced(m, n, e)
    BY <1>1, <1>3, <1>6, HandshakeOk
  <2> HIDE DEF n
  <2>2. /\ Beside(l, n, e) /\ Read(n, e) /\ n.end[e].life = "live" /\ n.end[e].connectConfirmed
        /\ e = "ctl" => n.end[e].hs # "start" \/ ~n.end[e].token
    BY <1>1, <1>3, <2>1 DEF Advanced, Beside
  <2>3. Turned(k, l, settle(n, e), e)
    BY <2>1, <2>2, SettleRest
  <2>4. QED
    BY <1>2, <1>6, <2>3 DEF n
<1>7. CASE ~l.reset /\ ~l.shut[Peer(e)] /\ l.end[e].established
  <2> DEFINE n == deliverAppData(m, e)
  <2>1. LinkOk(k, n) /\ Delivered(m, n, e)
    BY <1>1, <1>3, <1>7, DeliverOk
  <2> HIDE DEF n
  <2>2. m.end[e].hs = "done"
    <3>1. EndOk(k, e, m.end[e])
      BY <1>1, Records
    <3>2. QED
      BY <1>3, <1>7, <3>1 DEF EndOk, Handshaken
  <2>3. /\ Beside(l, n, e) /\ Read(n, e) /\ n.end[e].life = "live" /\ n.end[e].connectConfirmed
        /\ n.end[e].hs # "start"
    BY <1>1, <1>3, <2>1, <2>2 DEF Delivered, Upheld, Beside
  <2>4. Turned(k, l, settle(n, e), e)
    BY <2>1, <2>3, SettleRest
  <2>5. onReadable(k, l, e) = settle(n, e)
    BY <1>2, <1>7 DEF n
  <2>6. QED
    BY <2>4, <2>5
<1>8. QED
  BY <1>4, <1>5, <1>6, <1>7, Linked, Records

\* onEvent: flush, then read.
LEMMA EventOk ==
    ASSUME NEW k \in Conns, NEW l, LinkOk(k, l), NEW e \in Sides, l.end[e].life = "live", AtRest(l, e),
           l.end[e].connectConfirmed, NEW writable \in BOOLEAN, NEW readable \in BOOLEAN,
           NEW f, f = IF writable THEN flushOutbound(l, e) ELSE l,
           NEW m, m = IF readable /\ ~f.end[e].streamFailed THEN onReadable(k, f, e) ELSE f
    PROVE  Turned(k, l, m, e)
<1>1. Turned(k, l, l, e)
  BY Records DEF Turned, Beside
<1>2. Turned(k, l, f, e) /\ f.end[e].connectConfirmed
  BY <1>1, FlushRest
<1>3. LinkOk(k, f) /\ Beside(l, f, e) /\ f.end[e].life = "live"
  BY <1>2 DEF Turned
<1>4. readable /\ ~f.end[e].streamFailed => Turned(k, f, m, e)
  BY <1>2, <1>3, OnReadableOk
<1>5. readable /\ ~f.end[e].streamFailed => Turned(k, l, m, e)
  BY <1>3, <1>4 DEF Turned, Beside
<1>6. QED
  BY <1>2, <1>5

\* A frame that is neither data nor a flight, sent between two handlers.
LEMMA SendRest ==
    ASSUME NEW k \in Conns, NEW l, LinkOk(k, l), NEW e \in Sides, NEW f \in AnyFrame, f.t \notin Flights, f.t # "data",
           l.end[e].ready, l.end[e].life = "live", AtRest(l, e)
    PROVE  Turned(k, l, send(l, e, f), e)
<1> DEFINE m == send(l, e, f)
<1>1. EndOk(k, e, l.end[e])
  BY Records
<1>2. l.end[e].hs = "done" /\ l.end[e].connectConfirmed
  BY <1>1 DEF EndOk, Handshaken, Reached
<1>3. LinkOk(k, m) /\ Sent(l, m, e, f)
  BY <1>2, SendOk
<1> HIDE DEF m
<1>4. Beside(l, m, e) /\ Steady(l.end[e], m.end[e]) /\ Wanted(m, e)
  BY <1>3 DEF Sent, AtRest
<1>5. Read(m, e)
  BY <1>4 DEF AtRest, Read, Steady
<1>6. Begun(m, e)
  BY <1>2, <1>4 DEF Begun, Steady
<1>7. QED
  BY <1>3, <1>4, <1>5, <1>6 DEF Turned, AtRest, Steady, m

\* A step that touches neither the stream nor the records.
LEMMA QuietRest ==
    ASSUME NEW k \in Conns, NEW l, LinkOk(k, l), NEW e \in Sides, AtRest(l, e), NEW m, Unmoved(l, m, e),
           EndOk(k, e, m.end[e]), CauseOk(k, m, e),
           l.end[e].failed => m.end[e].failed, Waits(m, e) => Waits(l, e),
           m.end[e].token = l.end[e].token, m.end[e].wantWrite = l.end[e].wantWrite,
           m.end[e].streamFailed = l.end[e].streamFailed, m.end[e].connectConfirmed = l.end[e].connectConfirmed
    PROVE  Turned(k, l, m, e)
<1>1. LinkOk(k, m)
  BY QuietStep
<1>2. AtRest(m, e)
  BY DEF AtRest, Wanted, Read, Begun, Unmoved
<1>3. QED
  BY <1>1, <1>2 DEF Turned, Unmoved

\* sendData.
Numbers(x) == [x EXCEPT !.sent = @ + 1, !.outbound = Append(@, Data(x.sent + 1))]
LEMMA SendDataIs ==
    ASSUME NEW l \in LinkType, NEW e \in Sides, ~l.end[e].streamFailed
    PROVE  /\ send([l EXCEPT !.end[e].sent = @ + 1], e, Data(l.end[e].sent + 1)) = settle(Put(l, e, Numbers(l.end[e])), e)
           /\ Numbers(l.end[e]) \in EndType /\ Data(l.end[e].sent + 1) \in AnyFrame
<1> DEFINE x == l.end[e]
           f == Data(x.sent + 1)
           y == [x EXCEPT !.sent = @ + 1]
           n == [l EXCEPT !.end[e].sent = @ + 1]
           z == [y EXCEPT !.outbound = Append(@, f)]
<1>1. x \in EndType
  BY Linked
<1>2. f \in AnyFrame
  BY <1>1 DEF EndType, Data, AnyFrame, FrameKinds
<1>3. y \in EndType /\ y.streamFailed = x.streamFailed
  BY <1>1 DEF EndType
<1>4. n = Put(l, e, y)
  BY <1>1 DEF LinkType, EndType, Put
<1>5. z = Numbers(x)
  BY <1>1 DEF EndType, Numbers
<1> HIDE DEF n, y, f
<1>6. n \in LinkType /\ n.end[e] = y /\ \A i : Put(n, e, i) = Put(l, e, i)
  BY <1>3, <1>4, Placed DEF Becomes, Beside
<1>7. write(n, e, f) = Put(n, e, [n.end[e] EXCEPT !.outbound = Append(@, f)]) /\ [n.end[e] EXCEPT !.outbound = Append(@, f)] \in EndType
  BY <1>2, <1>6, WriteShape
<1>8. write(n, e, f) = Put(l, e, Numbers(x)) /\ Numbers(x) \in EndType
  BY <1>5, <1>6, <1>7
<1>9. send(n, e, f) = settle(write(n, e, f), e)
  BY <1>3, <1>6, SendIs
<1>10. QED
  BY <1>2, <1>8, <1>9 DEF n, f

LEMMA SendDataOk ==
    ASSUME NEW k \in Conns, NEW l, LinkOk(k, l), NEW e \in Sides, l.end[e].ready, ~l.end[e].failed,
           l.end[e].life = "live", AtRest(l, e)
    PROVE  Turned(k, l, send([l EXCEPT !.end[e].sent = @ + 1], e, Data(l.end[e].sent + 1)), e)
<1> DEFINE x == l.end[e]
           r == Numbers(x)
           f == Data(x.sent + 1)
           w == Put(l, e, r)
<1>1. l \in LinkType /\ x \in EndType /\ EndOk(k, e, x) /\ SideOk(k, l, e)
  BY Records
<1>2. x.hs = "done" /\ x.connectConfirmed /\ ~x.streamFailed
  BY <1>1 DEF EndOk, Handshaken, Reached, Stopped
<1>3. /\ send([l EXCEPT !.end[e].sent = @ + 1], e, f) = settle(w, e)
      /\ r \in EndType /\ f \in AnyFrame
  BY <1>1, <1>2, SendDataIs
<1>4. f.t = "data" /\ f.t \notin Flights
  BY DEF Data, Flights
<1>5. /\ r.sent = x.sent + 1 /\ r.outbound = Append(x.outbound, f)
      /\ r.fed = x.fed /\ r.hs = x.hs /\ r.got = x.got /\ r.life = x.life /\ r.failed = x.failed /\ r.cause = x.cause
      /\ r.ready = x.ready /\ r.sawInbound = x.sawInbound /\ r.connectConfirmed = x.connectConfirmed
      /\ r.established = x.established /\ r.timer = x.timer /\ r.token = x.token /\ r.streamFailed = x.streamFailed
      /\ r.badSeen = x.badSeen /\ r.silent = x.silent /\ r.missedBeats = x.missedBeats /\ r.addressCursor = x.addressCursor
  <2> HIDE DEF f
  <2>1. r = [x EXCEPT !.sent = @ + 1, !.outbound = Append(@, f)]
    BY DEF Numbers, f
  <2> HIDE DEF r, x
  <2>2. QED
    BY <1>1, <2>1 DEF EndType
<1> HIDE DEF r, f
<1>6. Becomes(l, w, e, r, e, l.to[e]) /\ w.to = l.to
  BY <1>1, <1>3, Placed
<1> HIDE DEF w
<1>7. Beside(l, w, e) /\ w.end[e] = r /\ w.everCut = l.everCut /\ w.shut = l.shut
  BY <1>6 DEF Becomes, Beside
<1>8. Writes(l, w, e, f)
  BY <1>5, <1>6, <1>7 DEF Writes
<1>9. EndOk(k, e, r)
  <2>1. Handshaken(r)
    BY <1>1, <1>2, <1>5 DEF EndOk, Handshaken
  <2>2. Stopped(r)
    BY <1>1, <1>5 DEF EndOk, Stopped
  <2>3. Admitted(k, e, r)
    BY <1>1, <1>5 DEF EndOk, Admitted
  <2>4. Leased(r)
    BY <1>1, <1>5 DEF EndOk, Leased
  <2>5. Reached(k, e, r)
    BY <1>1, <1>5 DEF EndOk, Reached
  <2>6. QED
    BY <1>5, <2>1, <2>2, <2>3, <2>4, <2>5 DEF EndOk
<1>10. CauseOk(k, w, e) /\ (Waits(w, e) => Waits(l, e))
  BY <1>1, <1>5, <1>7 DEF SideOk, CauseOk, Waits
<1>11. f = Data(x.sent + 1) /\ w.end[e].sent = x.sent + 1
  BY <1>5, <1>7 DEF f
<1>12. LinkOk(k, w)
  BY <1>2, <1>3, <1>4, <1>5, <1>7, <1>8, <1>9, <1>10, <1>11, WriteStep
<1>13. Read(w, e)
  BY <1>5, <1>7 DEF AtRest, Read
<1>14. Turned(k, l, settle(w, e), e)
  BY <1>2, <1>5, <1>7, <1>12, <1>13, SettleRest
<1>15. QED
  BY <1>3, <1>14 DEF f

\* heartbeatTick: what it makes of the interval that ended, and the ping.
Beaten(x) ==
    [x EXCEPT !.timer = FALSE, !.silent = @ + 1, !.ticks = @ + 1,
              !.missedBeats = IF x.sawInbound THEN 0 ELSE @ + 1]
LEMMA BeatIs ==
    ASSUME NEW l \in LinkType, NEW e \in Sides
    PROVE  countBeat(l, e) = Put(l, e, Beaten(l.end[e])) /\ Beaten(l.end[e]) \in EndType
<1> DEFINE x == l.end[e]
           a == x.silent + 1
           b == x.ticks + 1
           c == IF x.sawInbound THEN 0 ELSE x.missedBeats + 1
<1>1. x \in EndType
  BY Linked
<1>2. a \in Nat /\ b \in Nat /\ c \in Nat
  BY <1>1 DEF EndType
<1>3. Beaten(x) = [x EXCEPT !.timer = FALSE, !.silent = a, !.ticks = b, !.missedBeats = c]
  BY <1>1 DEF EndType, Beaten
<1>4. countBeat(l, e) = [l EXCEPT !.end[e].timer = FALSE, !.end[e].silent = a, !.end[e].ticks = b, !.end[e].missedBeats = c]
  BY <1>1 DEF LinkType, EndType, countBeat
<1> HIDE DEF a, b, c
<1>5. [l EXCEPT !.end[e].timer = FALSE, !.end[e].silent = a, !.end[e].ticks = b, !.end[e].missedBeats = c]
      = Put(l, e, [x EXCEPT !.timer = FALSE, !.silent = a, !.ticks = b, !.missedBeats = c])
  <2>1. [l EXCEPT !.end[e].timer = FALSE, !.end[e].silent = a, !.end[e].ticks = b, !.end[e].missedBeats = c]
        = [l EXCEPT !.end = [l.end EXCEPT ![e] = [l.end[e] EXCEPT !.timer = FALSE, !.silent = a, !.ticks = b, !.missedBeats = c]]]
    BY ZenonT(90), <1>1 DEF LinkType
  <2>2. QED
    BY <2>1 DEF LinkType, Put
<1>6. [x EXCEPT !.timer = FALSE, !.silent = a, !.ticks = b, !.missedBeats = c] \in EndType
  BY <1>1, <1>2 DEF EndType
<1>7. QED
  BY <1>3, <1>4, <1>5, <1>6, Zenon

LEMMA BeatenIs ==
    ASSUME NEW x \in EndType, NEW y, y = Beaten(x)
    PROVE  /\ y \in EndType /\ ~y.timer /\ y.silent = x.silent + 1
           /\ y.missedBeats = IF x.sawInbound THEN 0 ELSE x.missedBeats + 1
           /\ y.life = x.life /\ y.connectConfirmed = x.connectConfirmed /\ y.token = x.token /\ y.wantWrite = x.wantWrite
           /\ y.hs = x.hs /\ y.established = x.established /\ y.streamFailed = x.streamFailed /\ y.outbound = x.outbound
           /\ y.fed = x.fed /\ y.ready = x.ready /\ y.failed = x.failed /\ y.cause = x.cause /\ y.sawInbound = x.sawInbound
           /\ y.addressCursor = x.addressCursor /\ y.sent = x.sent /\ y.got = x.got /\ y.badSeen = x.badSeen
<1> DEFINE a == x.silent + 1
           b == x.ticks + 1
           c == IF x.sawInbound THEN 0 ELSE x.missedBeats + 1
<1>1. a \in Nat /\ b \in Nat /\ c \in Nat
  BY DEF EndType
<1>2. y = [x EXCEPT !.timer = FALSE, !.silent = a, !.ticks = b, !.missedBeats = c]
  BY DEF EndType, Beaten
<1> HIDE DEF a, b, c
<1>3. /\ y \in EndType /\ ~y.timer /\ y.silent = a /\ y.missedBeats = c
      /\ y.life = x.life /\ y.connectConfirmed = x.connectConfirmed /\ y.token = x.token /\ y.wantWrite = x.wantWrite
      /\ y.hs = x.hs /\ y.established = x.established /\ y.streamFailed = x.streamFailed /\ y.outbound = x.outbound
      /\ y.fed = x.fed /\ y.ready = x.ready /\ y.failed = x.failed /\ y.cause = x.cause /\ y.sawInbound = x.sawInbound
      /\ y.addressCursor = x.addressCursor /\ y.sent = x.sent /\ y.got = x.got /\ y.badSeen = x.badSeen
  BY ZenonT(90), <1>1, <1>2 DEF EndType
<1>4. QED
  BY <1>3 DEF a, c

\* An end whose timer is armed has finished its handshake.
LEMMA Armed ==
    ASSUME NEW k \in Conns, NEW l, LinkOk(k, l), NEW e \in Sides, l.end[e].timer
    PROVE  l.end[e].ready /\ l.end[e].established /\ l.end[e].hs = "done" /\ l.end[e].connectConfirmed
<1>1. EndOk(k, e, l.end[e])
  BY Records
<1>2. QED
  BY <1>1 DEF EndOk, Handshaken, Reached

LEMMA TickFailedOk ==
    ASSUME NEW k \in Conns, NEW l, LinkOk(k, l), NEW e \in Sides, l.end[e].timer, l.end[e].failed, AtRest(l, e)
    PROVE  Turned(k, l, heartbeatTick(l, e), e)
<1> DEFINE x == l.end[e]
           r == [x EXCEPT !.timer = FALSE]
           m == Put(l, e, r)
<1>1. l \in LinkType /\ x \in EndType /\ EndOk(k, e, x) /\ SideOk(k, l, e)
  BY Records
<1>2. heartbeatTick(l, e) = m
  BY <1>1 DEF heartbeatTick, LinkType, EndType, Put
<1>3. r \in EndType
  BY <1>1 DEF EndType
<1>4. Steady([x EXCEPT !.timer = FALSE], r) /\ ~r.timer /\ r.outbound = x.outbound
      /\ r.fed = x.fed /\ r.hs = x.hs /\ r.got = x.got /\ r.life = x.life /\ r.failed = x.failed /\ r.cause = x.cause
      /\ r.ready = x.ready /\ r.sawInbound = x.sawInbound /\ r.connectConfirmed = x.connectConfirmed /\ r.sent = x.sent
      /\ r.established = x.established /\ r.token = x.token /\ r.streamFailed = x.streamFailed /\ r.wantWrite = x.wantWrite
      /\ r.badSeen = x.badSeen /\ r.silent = x.silent /\ r.missedBeats = x.missedBeats /\ r.addressCursor = x.addressCursor
  BY <1>1 DEF EndType, Steady
<1> HIDE DEF r
<1>5. Becomes(l, m, e, r, e, l.to[e]) /\ m.to = l.to
  BY <1>1, <1>3, Placed
<1> HIDE DEF m
<1>6. Beside(l, m, e) /\ m.end[e] = r /\ m.everCut = l.everCut /\ m.shut = l.shut
  BY <1>5 DEF Becomes, Beside
<1>7. Unmoved(l, m, e)
  BY <1>4, <1>5, <1>6 DEF Unmoved
<1>8. EndOk(k, e, r)
  <2>1. Handshaken(r)
    BY <1>1, <1>4 DEF EndOk, Handshaken
  <2>2. Stopped(r)
    BY <1>1, <1>4 DEF EndOk, Stopped
  <2>3. Admitted(k, e, r)
    BY <1>1, <1>4 DEF EndOk, Admitted
  <2>4. Leased(r)
    BY <1>1, <1>4 DEF EndOk, Leased
  <2>5. Reached(k, e, r)
    BY <1>1, <1>4 DEF EndOk, Reached
  <2>6. x.life # "none"
    BY <1>1 DEF EndOk, FreshEnd
  <2>7. QED
    BY <1>4, <2>1, <2>2, <2>3, <2>4, <2>5, <2>6 DEF EndOk
<1>9. CauseOk(k, m, e) /\ (Waits(m, e) => Waits(l, e))
  BY <1>1, <1>4, <1>6 DEF SideOk, CauseOk, Waits
<1>10. QED
  BY <1>2, <1>4, <1>6, <1>7, <1>8, <1>9, QuietRest

LEMMA TickExpiredOk ==
    ASSUME NEW k \in Conns, NEW l, LinkOk(k, l), NEW e \in Sides, l.end[e].timer, ~l.end[e].failed, AtRest(l, e),
           expired(l, e), sc.timely => l.everCut
    PROVE  Turned(k, l, heartbeatTick(l, e), e)
<1> DEFINE x == l.end[e]
           y == Beaten(x)
           r == [y EXCEPT !.failed = TRUE, !.cause = "lease"]
           m == Put(l, e, r)
<1>1. l \in LinkType /\ x \in EndType /\ EndOk(k, e, x) /\ SideOk(k, l, e)
  BY Records
<1>2. heartbeatTick(l, e) = transportFail(countBeat(l, e), e, "lease")
  BY DEF heartbeatTick
<1>3. countBeat(l, e) = Put(l, e, y) /\ y \in EndType
  BY <1>1, BeatIs
<1>4. PICK z : z = y
  OBVIOUS
<1>5. /\ z \in EndType /\ ~z.timer /\ z.silent = x.silent + 1
      /\ z.missedBeats = IF x.sawInbound THEN 0 ELSE x.missedBeats + 1
      /\ z.life = x.life /\ z.connectConfirmed = x.connectConfirmed /\ z.token = x.token /\ z.wantWrite = x.wantWrite
      /\ z.hs = x.hs /\ z.established = x.established /\ z.streamFailed = x.streamFailed /\ z.outbound = x.outbound
      /\ z.fed = x.fed /\ z.ready = x.ready /\ z.failed = x.failed /\ z.cause = x.cause /\ z.sawInbound = x.sawInbound
      /\ z.addressCursor = x.addressCursor /\ z.sent = x.sent /\ z.got = x.got /\ z.badSeen = x.badSeen
  <2>1. z = Beaten(x)
    BY <1>4
  <2> HIDE DEF x
  <2>2. QED
    BY <1>1, <2>1, BeatenIs
<1>6. heartbeatTick(l, e) = m
  <2> DEFINE n == Put(l, e, z)
  <2>1. n \in LinkType /\ n.end[e] = z /\ \A i : Put(n, e, i) = Put(l, e, i)
    BY <1>1, <1>5, Placed DEF Becomes, Beside
  <2> HIDE DEF n
  <2>2. transportFail(n, e, "lease") = Put(n, e, [z EXCEPT !.failed = TRUE, !.cause = "lease"])
    BY <1>5, <2>1, Marked
  <2>3. n = countBeat(l, e)
    BY <1>3, <1>4 DEF n
  <2>4. QED
    BY <1>2, <1>4, <2>1, <2>2, <2>3
<1>7. r \in EndType
  <2>1. "lease" \in Causes
    BY DEF Causes
  <2>2. y \in EndType
    BY <1>3
  <2> HIDE DEF y
  <2>3. QED
    BY <2>1, <2>2 DEF EndType
<1>8. /\ ~r.timer /\ r.silent = x.silent + 1 /\ r.failed /\ r.cause = "lease"
      /\ r.life = x.life /\ r.connectConfirmed = x.connectConfirmed /\ r.token = x.token /\ r.wantWrite = x.wantWrite
      /\ r.hs = x.hs /\ r.established = x.established /\ r.streamFailed = x.streamFailed /\ r.outbound = x.outbound
      /\ r.fed = x.fed /\ r.ready = x.ready
      /\ r.addressCursor = x.addressCursor /\ r.sent = x.sent /\ r.got = x.got /\ r.badSeen = x.badSeen
  <2>1. r = [z EXCEPT !.failed = TRUE, !.cause = "lease"]
    BY <1>4
  <2>2. z \in EndType
    BY <1>5
  <2> HIDE DEF r, x, y
  <2>3. /\ r.timer = z.timer /\ r.silent = z.silent /\ r.failed /\ r.cause = "lease"
        /\ r.life = z.life /\ r.connectConfirmed = z.connectConfirmed /\ r.token = z.token /\ r.wantWrite = z.wantWrite
        /\ r.hs = z.hs /\ r.established = z.established /\ r.streamFailed = z.streamFailed /\ r.outbound = z.outbound
        /\ r.fed = z.fed /\ r.ready = z.ready
        /\ r.addressCursor = z.addressCursor /\ r.sent = z.sent /\ r.got = z.got /\ r.badSeen = z.badSeen
    BY <2>1, <2>2 DEF EndType
  <2>4. QED
    BY <1>5, <2>3
<1> HIDE DEF r, y
<1>9. Becomes(l, m, e, r, e, l.to[e]) /\ m.to = l.to
  BY <1>1, <1>7, Placed
<1> HIDE DEF m
<1>10. Beside(l, m, e) /\ m.end[e] = r /\ m.everCut = l.everCut /\ m.shut = l.shut
  BY <1>9 DEF Becomes, Beside
<1>11. Unmoved(l, m, e)
  BY <1>8, <1>9, <1>10 DEF Unmoved
<1>12. x.ready /\ x.established /\ x.hs = "done" /\ x.connectConfirmed
  BY Armed
<1>13. EndOk(k, e, r)
  <2>1. Handshaken(r)
    BY <1>1, <1>8, <1>12 DEF EndOk, Handshaken
  <2>2. Stopped(r)
    BY <1>1, <1>8, <1>12 DEF EndOk, Stopped
  <2>3. Admitted(k, e, r)
    BY <1>1, <1>8 DEF EndOk, Admitted
  <2>4. Leased(r)
    BY <1>8, <1>12 DEF Leased
  <2>5. Reached(k, e, r)
    BY <1>1, <1>8 DEF EndOk, Reached
  <2>6. x.life # "none"
    BY <1>1, <1>12 DEF EndOk, FreshEnd
  <2>7. QED
    BY <1>8, <2>1, <2>2, <2>3, <2>4, <2>5, <2>6 DEF EndOk
<1>14. CauseOk(k, m, e)
  <2>1. x.silent = x.missedBeats + 1 /\ x.missedBeats + 1 >= maxMissed
    BY <1>1, <1>12 DEF EndOk, Leased, expired
  <2>2. x.missedBeats \in Nat /\ maxMissed \in Nat
    BY <1>1, ConnectionAssumption DEF EndType
  <2>3. r.silent > maxMissed
    BY <1>8, <2>1, <2>2
  <2>4. QED
    BY <1>8, <1>10, <2>3 DEF CauseOk
<1>15. ~Waits(m, e)
  BY <1>8, <1>10 DEF Waits
<1>16. QED
  BY <1>6, <1>8, <1>10, <1>11, <1>13, <1>14, <1>15, QuietRest

\* The ping that asks for proof of life, and what is left to settle.
Pings(x) == [Beaten(x) EXCEPT !.sawInbound = FALSE, !.outbound = Append(x.outbound, Frame("ping"))]

LEMMA PingsIs ==
    ASSUME NEW x \in EndType, NEW r, r = Pings(x)
    PROVE  /\ r \in EndType /\ ~r.timer /\ r.silent = x.silent + 1 /\ ~r.sawInbound
           /\ r.missedBeats = IF x.sawInbound THEN 0 ELSE x.missedBeats + 1
           /\ r.outbound = Append(x.outbound, Frame("ping"))
           /\ r.life = x.life /\ r.connectConfirmed = x.connectConfirmed /\ r.token = x.token /\ r.wantWrite = x.wantWrite
           /\ r.hs = x.hs /\ r.established = x.established /\ r.streamFailed = x.streamFailed
           /\ r.fed = x.fed /\ r.ready = x.ready /\ r.failed = x.failed /\ r.cause = x.cause
           /\ r.addressCursor = x.addressCursor /\ r.sent = x.sent /\ r.got = x.got /\ r.badSeen = x.badSeen
<1>1. PICK y : y = Beaten(x)
  OBVIOUS
<1>2. /\ y \in EndType /\ ~y.timer /\ y.silent = x.silent + 1
      /\ y.missedBeats = IF x.sawInbound THEN 0 ELSE x.missedBeats + 1
      /\ y.life = x.life /\ y.connectConfirmed = x.connectConfirmed /\ y.token = x.token /\ y.wantWrite = x.wantWrite
      /\ y.hs = x.hs /\ y.established = x.established /\ y.streamFailed = x.streamFailed /\ y.outbound = x.outbound
      /\ y.fed = x.fed /\ y.ready = x.ready /\ y.failed = x.failed /\ y.cause = x.cause /\ y.sawInbound = x.sawInbound
      /\ y.addressCursor = x.addressCursor /\ y.sent = x.sent /\ y.got = x.got /\ y.badSeen = x.badSeen
  BY <1>1, BeatenIs
<1> DEFINE o == Append(x.outbound, Frame("ping"))
<1>3. o \in Wire
  <2>1. x.outbound \in Seq(AnyFrame) /\ Frame("ping") \in AnyFrame
    BY DEF EndType, Wire, Frame, AnyFrame, FrameKinds
  <2>2. QED
    BY <2>1, AppendProperties DEF Wire
<1>4. r = [y EXCEPT !.sawInbound = FALSE, !.outbound = o]
  BY <1>1 DEF Pings
<1> HIDE DEF o
<1>5. /\ r \in EndType /\ r.timer = y.timer /\ r.silent = y.silent /\ ~r.sawInbound
      /\ r.missedBeats = y.missedBeats /\ r.outbound = o
      /\ r.life = y.life /\ r.connectConfirmed = y.connectConfirmed /\ r.token = y.token /\ r.wantWrite = y.wantWrite
      /\ r.hs = y.hs /\ r.established = y.established /\ r.streamFailed = y.streamFailed
      /\ r.fed = y.fed /\ r.ready = y.ready /\ r.failed = y.failed /\ r.cause = y.cause
      /\ r.addressCursor = y.addressCursor /\ r.sent = y.sent /\ r.got = y.got /\ r.badSeen = y.badSeen
  BY ZenonT(90), <1>2, <1>3, <1>4 DEF EndType
<1>6. QED
  BY <1>2, <1>5 DEF o

LEMMA TickPings ==
    ASSUME NEW l \in LinkType, NEW e \in Sides, ~l.end[e].failed, ~l.end[e].streamFailed, ~expired(l, e)
    PROVE  heartbeatTick(l, e) = armHeartbeat(settle(Put(l, e, Pings(l.end[e])), e), e)
<1> DEFINE x == l.end[e]
           f == Frame("ping")
<1>1. x \in EndType
  BY Linked
<1>2. PICK y : y = Beaten(x)
  OBVIOUS
<1>3. y \in EndType /\ y.streamFailed = x.streamFailed /\ y.outbound = x.outbound
  <2> HIDE DEF x
  <2>1. QED
    BY <1>1, <1>2, BeatenIs
<1>4. countBeat(l, e) = Put(l, e, y)
  BY <1>2, BeatIs
<1> DEFINE z == [y EXCEPT !.sawInbound = FALSE]
           n == [Put(l, e, y) EXCEPT !.end[e].sawInbound = FALSE]
<1>5. z \in EndType /\ z.streamFailed = x.streamFailed /\ z.outbound = x.outbound
  <2> HIDE DEF x
  <2>1. QED
    BY <1>3 DEF EndType
<1>6. n = Put(l, e, z)
  <2> DEFINE v == Put(l, e, y)
  <2>1. v \in LinkType /\ v.end[e] = y /\ \A i : Put(v, e, i) = Put(l, e, i)
    BY <1>3, Placed DEF Becomes, Beside
  <2> HIDE DEF v
  <2>2. [v EXCEPT !.end[e].sawInbound = FALSE] = Put(v, e, z)
    BY <1>3, <2>1 DEF LinkType, EndType, Put
  <2> HIDE DEF z
  <2>3. QED
    BY <2>1, <2>2 DEF v
<1>7. [z EXCEPT !.outbound = Append(@, f)] = Pings(x)
  <2> DEFINE o == Append(x.outbound, f)
  <2>1. [z EXCEPT !.outbound = Append(@, f)] = [z EXCEPT !.outbound = o]
    <3> HIDE DEF z, x
    <3>1. QED
      BY <1>5 DEF EndType, o
  <2>2. Pings(x) = [y EXCEPT !.sawInbound = FALSE, !.outbound = o]
    BY <1>2 DEF Pings
  <2> HIDE DEF o, x
  <2>3. [z EXCEPT !.outbound = o] = [y EXCEPT !.sawInbound = FALSE, !.outbound = o]
    BY <1>3 DEF EndType
  <2>4. QED
    BY <2>1, <2>2, <2>3, Zenon
<1>8. f \in AnyFrame
  BY DEF Frame, AnyFrame, FrameKinds
<1> HIDE DEF z, f
<1>9. n \in LinkType /\ n.end[e] = z /\ \A i : Put(n, e, i) = Put(l, e, i)
  <2> HIDE DEF n
  <2>1. QED
    BY <1>5, <1>6, Placed DEF Becomes, Beside
<1>10. heartbeatTick(l, e) = armHeartbeat(send(n, e, f), e)
  BY <1>4 DEF heartbeatTick, f
<1> HIDE DEF n
<1>11. write(n, e, f) = Put(n, e, [n.end[e] EXCEPT !.outbound = Append(@, f)])
  BY <1>8, <1>9, WriteShape
<1>12. write(n, e, f) = Put(l, e, Pings(x))
  BY <1>7, <1>9, <1>11
<1>13. send(n, e, f) = settle(write(n, e, f), e)
  BY <1>5, <1>9, SendIs
<1>14. QED
  BY <1>10, <1>12, <1>13

LEMMA TickPingsOk ==
    ASSUME NEW k \in Conns, NEW l, LinkOk(k, l), NEW e \in Sides, l.end[e].timer, ~l.end[e].failed, AtRest(l, e),
           l.end[e].life = "live", ~expired(l, e)
    PROVE  Turned(k, l, heartbeatTick(l, e), e)
<1> DEFINE x == l.end[e]
           f == Frame("ping")
<1>1. l \in LinkType /\ x \in EndType /\ EndOk(k, e, x) /\ SideOk(k, l, e)
  BY Records
<1>2. x.ready /\ x.established /\ x.hs = "done" /\ x.connectConfirmed /\ ~x.streamFailed
  BY <1>1, Armed DEF EndOk, Stopped
<1>3. PICK r : r = Pings(x)
  OBVIOUS
<1> DEFINE w == Put(l, e, r)
<1>4. heartbeatTick(l, e) = armHeartbeat(settle(w, e), e)
  BY <1>1, <1>2, <1>3, TickPings
<1>5. /\ r \in EndType /\ ~r.timer /\ r.silent = x.silent + 1 /\ ~r.sawInbound
      /\ r.missedBeats = IF x.sawInbound THEN 0 ELSE x.missedBeats + 1
      /\ r.outbound = Append(x.outbound, f)
      /\ r.life = x.life /\ r.connectConfirmed = x.connectConfirmed /\ r.token = x.token /\ r.wantWrite = x.wantWrite
      /\ r.hs = x.hs /\ r.established = x.established /\ r.streamFailed = x.streamFailed
      /\ r.fed = x.fed /\ r.ready = x.ready /\ r.failed = x.failed /\ r.cause = x.cause
      /\ r.addressCursor = x.addressCursor /\ r.sent = x.sent /\ r.got = x.got /\ r.badSeen = x.badSeen
  <2> HIDE DEF x
  <2>1. QED
    BY <1>1, <1>3, PingsIs
<1>6. f \in AnyFrame /\ f.t \notin Flights /\ f.t # "data" /\ f.t = "ping"
  BY DEF Frame, AnyFrame, FrameKinds, Flights
<1> HIDE DEF f
<1>7. Becomes(l, w, e, r, e, l.to[e]) /\ w.to = l.to
  BY <1>1, <1>5, Placed
<1> HIDE DEF w
<1>8. Beside(l, w, e) /\ w.end[e] = r /\ w.everCut = l.everCut /\ w.shut = l.shut
  BY <1>7 DEF Becomes, Beside
<1>9. Writes(l, w, e, f)
  BY <1>5, <1>7, <1>8 DEF Writes
<1>10. EndOk(k, e, r)
  <2>1. Handshaken(r)
    BY <1>1, <1>2, <1>5 DEF EndOk, Handshaken
  <2>2. Stopped(r)
    BY <1>1, <1>5 DEF EndOk, Stopped
  <2>3. Admitted(k, e, r)
    BY <1>1, <1>5 DEF EndOk, Admitted
  <2>4. Leased(r)
    <3>1. x.missedBeats \in Nat /\ maxMissed \in Nat /\ maxMissed # 0
      BY <1>1, ConnectionAssumption DEF EndType
    <3>2. x.sawInbound => x.silent = 0
      BY <1>1, <1>2 DEF EndOk, Leased
    <3>3. ~x.sawInbound => x.silent = x.missedBeats + 1 /\ ~(x.missedBeats + 1 >= maxMissed)
      BY <1>1, <1>2 DEF EndOk, Leased, expired
    <3>4. CASE x.sawInbound
      BY <1>2, <1>5, <3>1, <3>2, <3>4 DEF Leased
    <3>5. CASE ~x.sawInbound
      BY <1>2, <1>5, <3>1, <3>3, <3>5 DEF Leased
    <3>6. QED
      BY <3>4, <3>5
  <2>5. Reached(k, e, r)
    BY <1>1, <1>5 DEF EndOk, Reached
  <2>6. QED
    BY <1>5, <2>1, <2>2, <2>3, <2>4, <2>5 DEF EndOk
<1>11. CauseOk(k, w, e)
  <2>1. r.cause = "none"
    BY <1>1, <1>5 DEF EndOk, Stopped
  <2>2. QED
    BY <1>8, <2>1 DEF CauseOk
<1>12. LinkOk(k, w)
  BY <1>2, <1>5, <1>6, <1>8, <1>9, <1>10, <1>11, WriteStep
<1>13. Read(w, e)
  BY <1>5, <1>8 DEF AtRest, Read
<1> DEFINE s == settle(w, e)
           z == [s.end[e] EXCEPT !.timer = TRUE]
           m == armHeartbeat(s, e)
<1>14. LinkOk(k, s) /\ Flushed(w, s, e) /\ Wanted(s, e)
  BY <1>5, <1>8, <1>12, SettleOk
<1>15. Turned(k, l, s, e)
  BY <1>2, <1>5, <1>8, <1>12, <1>13, SettleRest
<1> HIDE DEF s
<1>16. Steady(r, s.end[e]) /\ s \in LinkType /\ s.end[e] \in EndType /\ EndOk(k, e, s.end[e]) /\ SideOk(k, s, e)
  BY <1>8, <1>14, Records DEF Flushed
<1>17. s.end[e].ready /\ s.end[e].hs = "done"
  BY <1>2, <1>5, <1>16 DEF Steady
<1>18. m = Put(s, e, z)
  BY <1>16 DEF armHeartbeat, LinkType, EndType, Put
<1>19. /\ z \in EndType /\ z.timer /\ z.outbound = s.end[e].outbound
       /\ z.fed = s.end[e].fed /\ z.hs = s.end[e].hs /\ z.got = s.end[e].got /\ z.life = s.end[e].life
       /\ z.failed = s.end[e].failed /\ z.cause = s.end[e].cause
       /\ z.ready = s.end[e].ready /\ z.sawInbound = s.end[e].sawInbound
       /\ z.connectConfirmed = s.end[e].connectConfirmed /\ z.sent = s.end[e].sent
       /\ z.established = s.end[e].established /\ z.token = s.end[e].token
       /\ z.streamFailed = s.end[e].streamFailed /\ z.wantWrite = s.end[e].wantWrite
       /\ z.badSeen = s.end[e].badSeen /\ z.silent = s.end[e].silent
       /\ z.missedBeats = s.end[e].missedBeats /\ z.addressCursor = s.end[e].addressCursor
  <2> DEFINE y == s.end[e]
  <2> HIDE DEF y
  <2>1. y \in EndType /\ z = [y EXCEPT !.timer = TRUE]
    BY <1>16 DEF y
  <2> HIDE DEF z
  <2>2. /\ z \in EndType /\ z.timer /\ z.outbound = y.outbound
        /\ z.fed = y.fed /\ z.hs = y.hs /\ z.got = y.got /\ z.life = y.life
        /\ z.failed = y.failed /\ z.cause = y.cause /\ z.ready = y.ready /\ z.sawInbound = y.sawInbound
        /\ z.connectConfirmed = y.connectConfirmed /\ z.sent = y.sent
        /\ z.established = y.established /\ z.token = y.token
        /\ z.streamFailed = y.streamFailed /\ z.wantWrite = y.wantWrite
        /\ z.badSeen = y.badSeen /\ z.silent = y.silent
        /\ z.missedBeats = y.missedBeats /\ z.addressCursor = y.addressCursor
    BY <2>1 DEF EndType
  <2>3. QED
    BY <2>2 DEF y
<1> HIDE DEF z
<1>20. Becomes(s, m, e, z, e, s.to[e]) /\ m.to = s.to
  BY <1>16, <1>18, <1>19, Placed
<1> HIDE DEF m
<1>21. Beside(s, m, e) /\ m.end[e] = z /\ m.everCut = s.everCut /\ m.shut = s.shut
  BY <1>20 DEF Becomes, Beside
<1>22. Unmoved(s, m, e)
  BY <1>19, <1>20, <1>21 DEF Unmoved
<1>23. EndOk(k, e, z)
  <2>1. Handshaken(z)
    BY <1>16, <1>17, <1>19 DEF EndOk, Handshaken
  <2>2. Stopped(z)
    BY <1>16, <1>19 DEF EndOk, Stopped
  <2>3. Admitted(k, e, z)
    BY <1>16, <1>19 DEF EndOk, Admitted
  <2>4. Leased(z)
    BY <1>16, <1>19 DEF EndOk, Leased
  <2>5. Reached(k, e, z)
    BY <1>16, <1>19 DEF EndOk, Reached
  <2>6. z.life = "live"
    BY <1>5, <1>16, <1>19 DEF Steady
  <2>7. QED
    BY <2>1, <2>2, <2>3, <2>4, <2>5, <2>6 DEF EndOk
<1>24. CauseOk(k, m, e) /\ (Waits(m, e) => Waits(s, e))
  BY <1>16, <1>19, <1>21 DEF SideOk, CauseOk, Waits
<1>25. Turned(k, s, m, e)
  BY <1>14, <1>15, <1>19, <1>21, <1>22, <1>23, <1>24, QuietRest DEF Turned
<1>26. Turned(k, l, m, e)
  BY <1>15, <1>25 DEF Turned, Beside
<1>27. QED
  BY <1>4, <1>26 DEF m, s

LEMMA TickOk ==
    ASSUME NEW k \in Conns, NEW l, LinkOk(k, l), NEW e \in Sides, l.end[e].timer, AtRest(l, e), l.end[e].life = "live",
           ~l.end[e].failed /\ expired(l, e) /\ sc.timely => l.everCut
    PROVE  Turned(k, l, heartbeatTick(l, e), e)
BY TickFailedOk, TickExpiredOk, TickPingsOk

-----------------------------------------------------------------------------
(* The network, and an end that is destroyed *)

\* Only the network changes; what was ever cut stays so.
NetChange(l, m) ==
    /\ m \in LinkType /\ m.end = l.end /\ m.to = l.to /\ m.shut = l.shut
    /\ l.everCut => m.everCut
    /\ m.cut => m.everCut
LEMMA NetOk ==
    ASSUME NEW k \in Conns, NEW l, LinkOk(k, l), NEW m, NetChange(l, m)
    PROVE  LinkOk(k, m) /\ \A e \in Sides : AtRest(l, e) => AtRest(m, e)
<1>1. /\ m \in LinkType /\ m.end = l.end /\ m.to = l.to /\ m.shut = l.shut /\ (l.everCut => m.everCut)
      /\ m.cut => m.everCut
  BY DEF NetChange
<1>2. ASSUME NEW e \in Sides PROVE SideOk(k, m, e)
  <2>1. SideOk(k, l, e)
    BY DEF LinkOk
  <2>2. EndOk(k, e, m.end[e]) /\ CauseOk(k, m, e) /\ (m.shut[e] <=> m.end[e].life = "gone")
    BY <1>1, <2>1 DEF SideOk, CauseOk
  <2>3. In(m, e) = In(l, e) /\ In(m, Peer(e)) = In(l, Peer(e))
    BY <1>1 DEF In
  <2>4. WayOk(m, e) /\ Turns(m, e) /\ Fits(m, e) /\ GotOk(m, e)
    BY <1>1, <2>1, <2>3 DEF SideOk, WayOk, Way, Turns, Fits, GotOk
  <2>5. Owed(m, e)
    BY <1>1, <2>1, <2>3 DEF SideOk, Owed, Waits, Pinged
  <2>6. QED
    BY <2>2, <2>4, <2>5 DEF SideOk
<1>3. \A e \in Sides : AtRest(l, e) => AtRest(m, e)
  BY <1>1 DEF AtRest, Wanted, Read, Begun
<1>4. QED
  BY <1>1, <1>2, <1>3 DEF LinkOk

\* An end becomes r and its socket is closed.
Closed(l, e, r) == [l EXCEPT !.end[e] = r, !.shut[e] = TRUE, !.to[e] = <<>>]
Closes(l, m, e, r) ==
    /\ m \in LinkType /\ m.end[e] = r /\ m.end[Peer(e)] = l.end[Peer(e)]
    /\ m.shut[e] = TRUE /\ m.shut[Peer(e)] = l.shut[Peer(e)]
    /\ m.to[e] = <<>> /\ m.to[Peer(e)] = l.to[Peer(e)]
    /\ m.tcp = l.tcp /\ m.cut = l.cut /\ m.everCut = l.everCut /\ m.reset = l.reset
LEMMA ClosedIs ==
    ASSUME NEW l \in LinkType, NEW e \in Sides, NEW r \in EndType
    PROVE  Closes(l, Closed(l, e, r), e, r)
<1>0. PICK m : m = Closed(l, e, r)
  OBVIOUS
<1>1. Peer(e) \in Sides /\ Peer(e) # e
  BY Two
<1>2. /\ m.end = [l.end EXCEPT ![e] = r] /\ m.to = [l.to EXCEPT ![e] = <<>>] /\ m.shut = [l.shut EXCEPT ![e] = TRUE]
      /\ m.cut = l.cut /\ m.everCut = l.everCut /\ m.reset = l.reset /\ m.tcp = l.tcp
  BY <1>0 DEF LinkType, Closed
<1>3. m \in LinkType
  BY <1>0, Empties DEF LinkType, Closed
<1>4. Closes(l, m, e, r)
  BY <1>1, <1>2, <1>3 DEF LinkType, Closes
<1>5. QED
  BY <1>0, <1>4

LEMMA GoneOk ==
    ASSUME NEW k \in Conns, NEW l, LinkOk(k, l), NEW e \in Sides, NEW r \in EndType,
           r.life = "gone", ~r.token, r.outbound = <<>>, r.fed = <<>>,
           r.hs = l.end[e].hs, r.got = l.end[e].got, r.sent = l.end[e].sent,
           EndOk(k, e, r), NEW m, m = Closed(l, e, r), CauseOk(k, m, e)
    PROVE  LinkOk(k, m) /\ AtRest(m, e) /\ m.end[Peer(e)] = l.end[Peer(e)] /\ m.end[e] = r
<1> DEFINE p == Peer(e)
           x == l.end[e]
           y == l.end[p]
<1>1. /\ p \in Sides /\ p # e /\ Peer(p) = e /\ l \in LinkType /\ x \in EndType /\ y \in EndType
      /\ l.to[e] \in Wire /\ l.to[p] \in Wire /\ SideOk(k, l, e) /\ SideOk(k, l, p) /\ EndOk(k, e, x)
      /\ \A z \in Sides : z = e \/ z = p
  BY Two, Records
<1>2. /\ m \in LinkType /\ m.end[e] = r /\ m.end[p] = y /\ m.shut[e] = TRUE /\ m.shut[p] = l.shut[p]
      /\ m.to[e] = <<>> /\ m.to[p] = l.to[p] /\ m.cut = l.cut /\ m.everCut = l.everCut
  <2>1. Closes(l, Closed(l, e, r), e, r)
    BY <1>1, ClosedIs
  <2>2. Closes(l, m, e, r)
    BY <2>1
  <2>3. QED
    BY <2>2 DEF Closes
<1>3. EndOk(k, p, m.end[p]) /\ CauseOk(k, m, p) /\ (m.shut[p] <=> m.end[p].life = "gone")
  BY <1>1, <1>2 DEF SideOk, CauseOk
<1>4. Turns(m, e) /\ Turns(m, p)
  BY <1>1, <1>2 DEF SideOk, Turns
<1>5. Fits(m, e) /\ Fits(m, p)
  <2>1. Len(<<>>) = 0
    BY EmptySeq
  <2>2. QED
    BY <1>1, <1>2, <2>1, ConnectionAssumption DEF SideOk, Fits
<1>6. GotOk(m, e) /\ GotOk(m, p)
  BY <1>1, <1>2 DEF SideOk, GotOk
<1>7. WayOk(m, e) /\ Owed(m, e) /\ Owed(m, p)
  BY <1>1, <1>2 DEF WayOk, Owed, Waits
<1>8. WayOk(m, p)
  <2>1. SUFFICES ASSUME ~y.failed, ~l.shut[p] PROVE Way(m, p)
    BY <1>2 DEF WayOk
  <2> DEFINE d == Given(e, x.hs) - Used(p, y.hs)
             s == Joined(y.fed, l.to[p], <<>>)
  <2>2. Way(l, p)
    BY <1>1, <2>1 DEF SideOk, WayOk
  <2>3. In(m, p) = s /\ In(l, p) = s \o x.outbound /\ s \in Wire /\ x.outbound \in Wire
    <3>1. In(m, p) = s /\ In(l, p) = Joined(y.fed, l.to[p], x.outbound)
      BY <1>1, <1>2 DEF In
    <3>2. y.fed \in Wire /\ l.to[p] \in Wire /\ x.outbound \in Wire
      BY <1>1 DEF EndType
    <3> HIDE DEF x, y
    <3>3. Joined(y.fed, l.to[p], x.outbound) = Joined(y.fed, l.to[p], <<>>) \o x.outbound
      BY <3>2, JoinedCut
    <3>4. Joined(y.fed, l.to[p], <<>>) \in Wire
      BY <3>2, Empties, JoinedTyped
    <3>5. QED
      BY <3>1, <3>2, <3>3, <3>4
  <2>4. InOrder(s \o x.outbound, Len(y.got), x.sent, l.shut[e])
    BY <1>1, <2>2, <2>3 DEF Way
  <2>5. Flown(s \o x.outbound, d, x.hs = "done", l.shut[e])
    BY <1>1, <2>2, <2>3 DEF Way
  <2>6. x.sent \in Nat
    BY <1>1 DEF EndType
  <2> HIDE DEF s
  <2>7. InOrder(s, Len(y.got), x.sent, TRUE)
    BY <2>3, <2>4, <2>6, InOrderPrefix
  <2>8. Flown(s, d, x.hs = "done", TRUE)
    <3> DEFINE done == x.hs = "done"
    <3> HIDE DEF done, d
    <3>1. Flown(s \o x.outbound, d, done, l.shut[e])
      BY <2>5 DEF done
    <3>2. Flown(s, d, done, TRUE)
      BY <2>3, <3>1, FlownPrefix
    <3>3. QED
      BY <3>2 DEF done
  <2>9. QED
    BY <1>1, <1>2, <2>3, <2>7, <2>8 DEF Way
<1>9. SideOk(k, m, e) /\ SideOk(k, m, p)
  BY <1>2, <1>3, <1>4, <1>5, <1>6, <1>7, <1>8 DEF SideOk
<1>10. LinkOk(k, m)
  BY <1>1, <1>2, <1>9 DEF LinkOk
<1>11. AtRest(m, e)
  BY <1>2 DEF AtRest, Wanted, Read, Begun
<1>12. QED
  BY <1>2, <1>10, <1>11

\* destroy, on a link whose other members are those of l.
Buried(x) == [x EXCEPT !.life = "gone", !.token = FALSE, !.timer = FALSE, !.outbound = <<>>, !.fed = <<>>]
LEMMA DestroyIs ==
    ASSUME NEW l \in LinkType, NEW e \in Sides
    PROVE  destroy(l, e) = Closed(l, e, Buried(l.end[e]))
<1>1. l.end[e] \in EndType
  BY Linked
<1> DEFINE b == Buried(l.end[e])
           n == [l EXCEPT !.end[e].life = "gone", !.end[e].token = FALSE, !.end[e].timer = FALSE,
                          !.end[e].outbound = <<>>, !.end[e].fed = <<>>]
<1>2. destroy(l, e) = [n EXCEPT !.shut[e] = TRUE, !.to[e] = <<>>]
  BY DEF destroy
<1>5. n = [l EXCEPT !.end[e] = b]
  <2> DEFINE x == l.end[e]
             c == [x EXCEPT !.life = "gone", !.token = FALSE, !.timer = FALSE]
             i == [l EXCEPT !.end[e].life = "gone", !.end[e].token = FALSE, !.end[e].timer = FALSE]
  <2>1. i = [l EXCEPT !.end[e] = c]
    BY <1>1 DEF LinkType
  <2>2. n = [i EXCEPT !.end[e].outbound = <<>>, !.end[e].fed = <<>>]
    OBVIOUS
  <2>3. c \in EndType
    BY <1>1 DEF EndType
  <2>4. b = [c EXCEPT !.outbound = <<>>, !.fed = <<>>]
    BY <1>1 DEF Buried
  <2> HIDE DEF c, i, n, b
  <2>5. i \in LinkType /\ i.end[e] = c /\ \A z : [i EXCEPT !.end[e] = z] = [l EXCEPT !.end[e] = z]
    <3>1. i = Put(l, e, c)
      BY <2>1 DEF Put
    <3>2. i \in LinkType /\ i.end[e] = c /\ \A z : Put(i, e, z) = Put(l, e, z)
      BY <2>3, <3>1, Placed DEF Becomes, Beside
    <3>3. QED
      BY <3>2 DEF Put
  <2>6. n = [i EXCEPT !.end[e] = [c EXCEPT !.outbound = <<>>, !.fed = <<>>]]
    BY <2>2, <2>3, <2>5 DEF LinkType
  <2>7. QED
    BY <2>4, <2>5, <2>6
<1> HIDE DEF n, b
<1>6. [n EXCEPT !.shut[e] = TRUE, !.to[e] = <<>>] = Closed(l, e, b)
  BY <1>5 DEF Closed
<1>7. QED
  BY <1>2, <1>6 DEF b

LEMMA BuriedIs ==
    ASSUME NEW x \in EndType, NEW r, r = Buried(x)
    PROVE  /\ r \in EndType /\ r.life = "gone" /\ ~r.token /\ ~r.timer /\ r.outbound = <<>> /\ r.fed = <<>>
           /\ r.connectConfirmed = x.connectConfirmed
           /\ r.hs = x.hs /\ r.established = x.established /\ r.streamFailed = x.streamFailed
           /\ r.ready = x.ready /\ r.failed = x.failed /\ r.cause = x.cause /\ r.sawInbound = x.sawInbound
           /\ r.silent = x.silent /\ r.missedBeats = x.missedBeats
           /\ r.addressCursor = x.addressCursor /\ r.sent = x.sent /\ r.got = x.got /\ r.badSeen = x.badSeen
BY Empties DEF EndType, Buried

LEMMA DestroyOk ==
    ASSUME NEW k \in Conns, NEW l, LinkOk(k, l), NEW e \in Sides, NEW m, m = destroy(l, e)
    PROVE  /\ LinkOk(k, m) /\ AtRest(m, e) /\ m.end[Peer(e)] = l.end[Peer(e)]
           /\ m.end[e].life = "gone" /\ m.end[e].failed = l.end[e].failed
<1> DEFINE x == l.end[e]
<1>1. l \in LinkType /\ x \in EndType /\ EndOk(k, e, x) /\ SideOk(k, l, e)
  BY Records
<1>2. PICK r : r = Buried(x)
  OBVIOUS
<1>3. m = Closed(l, e, r)
  BY <1>1, <1>2, DestroyIs
<1>4. /\ r \in EndType /\ r.life = "gone" /\ ~r.token /\ ~r.timer /\ r.outbound = <<>> /\ r.fed = <<>>
      /\ r.connectConfirmed = x.connectConfirmed
      /\ r.hs = x.hs /\ r.established = x.established /\ r.streamFailed = x.streamFailed
      /\ r.ready = x.ready /\ r.failed = x.failed /\ r.cause = x.cause /\ r.sawInbound = x.sawInbound
      /\ r.silent = x.silent /\ r.missedBeats = x.missedBeats
      /\ r.addressCursor = x.addressCursor /\ r.sent = x.sent /\ r.got = x.got /\ r.badSeen = x.badSeen
  <2> HIDE DEF x
  <2>1. QED
    BY <1>1, <1>2, BuriedIs
<1>5. EndOk(k, e, r)
  <2>1. Handshaken(r)
    BY <1>1, <1>4 DEF EndOk, Handshaken
  <2>2. Stopped(r)
    BY <1>1, <1>4 DEF EndOk, Stopped
  <2>3. Admitted(k, e, r)
    BY <1>1, <1>4 DEF EndOk, Admitted
  <2>4. Leased(r)
    BY <1>1, <1>4 DEF EndOk, Leased
  <2>5. Reached(k, e, r)
    BY <1>1, <1>4 DEF EndOk, Reached
  <2>6. QED
    BY <1>4, <2>1, <2>2, <2>3, <2>4, <2>5 DEF EndOk
<1>6. m.everCut = l.everCut /\ m.end[e] = r
  <2>1. Closes(l, m, e, r)
    BY <1>1, <1>3, <1>4, ClosedIs
  <2>2. QED
    BY <2>1 DEF Closes
<1>7. CauseOk(k, m, e)
  BY <1>1, <1>4, <1>6 DEF SideOk, CauseOk
<1>8. LinkOk(k, m) /\ AtRest(m, e) /\ m.end[Peer(e)] = l.end[Peer(e)]
  BY <1>3, <1>4, <1>5, <1>7, GoneOk
<1>9. QED
  BY <1>4, <1>6, <1>8

-----------------------------------------------------------------------------
(* Connecting and starting *)

\* What an end holds when it is started.
Pending(c, j) == [FreshEnd EXCEPT !.connectConfirmed = c, !.addressCursor = j]
Opened(c, j) == [Pending(c, j) EXCEPT !.life = "live", !.token = TRUE, !.wantWrite = ~c]

LEMMA FreshIs == FreshEnd \in EndType
BY Empties DEF FreshEnd, EndType, Causes

\* What a start leaves as it was in FreshEnd.
Blank(r) ==
    /\ r.hs = "start" /\ ~r.established /\ ~r.streamFailed /\ r.outbound = <<>> /\ r.fed = <<>>
    /\ ~r.ready /\ ~r.timer /\ ~r.sawInbound /\ r.missedBeats = 0
    /\ r.sent = 0 /\ r.got = <<>> /\ r.silent = 0 /\ ~r.badSeen

LEMMA OpenedIs ==
    ASSUME NEW c \in BOOLEAN, NEW j \in Nat, NEW r, r = Opened(c, j)
    PROVE  /\ r \in EndType /\ Blank(r) /\ r.life = "live" /\ r.token /\ (r.wantWrite <=> ~c)
           /\ r.connectConfirmed = c /\ r.addressCursor = j /\ ~r.failed /\ r.cause = "none"
BY Empties DEF FreshEnd, EndType, Causes, Pending, Opened, Blank

LEMMA OpenOk ==
    ASSUME NEW k \in Conns, NEW l, LinkOk(k, l), NEW e \in Sides, l.end[e].life = "none",
           NEW c \in BOOLEAN, NEW j \in Nat, j <= Len(sc.addrs[k]), e = "node" => c,
           \A i \in 1 .. Len(sc.addrs[k]) : i < j => Unreachable(k, i),
           NEW r, r = Opened(c, j)
    PROVE  LinkOk(k, Put(l, e, r)) /\ Beside(l, Put(l, e, r), e) /\ Put(l, e, r).end[e] = r
<1> DEFINE p == Peer(e)
           x == l.end[e]
           m == Put(l, e, r)
<1>1. /\ p \in Sides /\ p # e /\ Peer(p) = e /\ l \in LinkType /\ x \in EndType /\ l.end[p] \in EndType
      /\ SideOk(k, l, e) /\ SideOk(k, l, p) /\ EndOk(k, e, x)
  BY Two, Records
<1>2. x = FreshEnd
  BY <1>1 DEF EndOk
<1>3. Blank(x) /\ ~x.failed /\ x.life = "none"
  BY <1>2 DEF FreshEnd, Blank
<1>4. /\ r \in EndType /\ Blank(r) /\ r.life = "live" /\ r.token
      /\ r.connectConfirmed = c /\ r.addressCursor = j /\ ~r.failed /\ r.cause = "none"
  BY OpenedIs
<1>5. Becomes(l, m, e, r, e, l.to[e]) /\ m.to = l.to
  BY <1>1, <1>4, Placed
<1> HIDE DEF m
<1>6. /\ Beside(l, m, e) /\ m.end[e] = r /\ m.everCut = l.everCut /\ m.shut = l.shut /\ m.end[p] = l.end[p]
      /\ m \in LinkType
  BY <1>5 DEF Becomes, Beside
<1> HIDE DEF x
<1>7. In(m, e) = In(l, e) /\ In(m, p) = In(l, p)
  <2>1. r.fed = x.fed /\ r.outbound = x.outbound
    BY <1>3, <1>4 DEF Blank
  <2>2. QED
    BY <1>1, <1>5, <1>6, <2>1 DEF In, x
<1>8. r.hs = x.hs /\ r.got = x.got /\ r.sent = x.sent
  BY <1>3, <1>4 DEF Blank
<1>9. EndOk(k, e, r)
  <2>1. Handshaken(r) /\ Stopped(r) /\ Admitted(k, e, r) /\ Leased(r)
    BY <1>4 DEF Blank, Handshaken, Stopped, Admitted, Leased
  <2>2. Reached(k, e, r)
    BY <1>4 DEF Blank, Reached
  <2>3. QED
    BY <1>4, <2>1, <2>2 DEF EndOk
<1>10. CauseOk(k, m, e)
  BY <1>4, <1>6 DEF CauseOk
<1>11. WayOk(m, e) /\ WayOk(m, p)
  <2>1. (Way(m, e) <=> Way(l, e)) /\ (Way(m, p) <=> Way(l, p))
    BY <1>1, <1>6, <1>7, <1>8 DEF Way, x
  <2>2. QED
    BY <1>1, <1>3, <1>6, <2>1 DEF SideOk, WayOk, x
<1>12. Turns(m, e) /\ Turns(m, p) /\ Fits(m, e) /\ Fits(m, p)
  BY <1>1, <1>5, <1>6, <1>8 DEF SideOk, Turns, Fits, x
<1>13. GotOk(m, e)
  BY <1>1, <1>6, <1>8 DEF SideOk, GotOk, x
<1>14. ~Waits(m, e)
  BY <1>4, <1>6 DEF Waits, Blank
<1>15. Owed(m, p)
  <2>1. Owed(l, p) /\ (Pinged(m, e) <=> Pinged(l, e))
    BY <1>1, <1>7 DEF SideOk, Pinged
  <2>2. Waits(m, p) => Waits(l, p)
    BY <1>6 DEF Waits
  <2>3. ~x.failed
    BY <1>3
  <2>4. QED
    BY <1>1, <1>6, <1>7, <2>1, <2>2, <2>3 DEF Owed, x
<1>16. Owed(m, e)
  BY <1>14 DEF Owed
<1>17. x.sent <= r.sent
  <2>1. r.sent \in Nat
    BY <1>4 DEF EndType
  <2>2. QED
    BY <1>8, <2>1
<1>18. r.life = "gone" <=> x.life = "gone"
  BY <1>3, <1>4
<1>19. LinkOk(k, m)
  BY <1>6, <1>9, <1>10, <1>11, <1>12, <1>13, <1>15, <1>16, <1>17, <1>18, MoveOk DEF x
<1>20. QED
  BY <1>6, <1>19 DEF m

\* start().
LEMMA StartIs ==
    ASSUME NEW k, NEW l \in LinkType, NEW e \in Sides, NEW c \in BOOLEAN, NEW j \in Nat, l.end[e] = Pending(c, j)
    PROVE  start(k, l, e) = IF c THEN settle(driveHandshake(k, Put(l, e, Opened(c, j)), e), e) ELSE Put(l, e, Opened(c, j))
<1> DEFINE x == Pending(c, j)
           m == [l EXCEPT !.end[e].life = "live", !.end[e].token = TRUE, !.end[e].wantWrite = ~l.end[e].connectConfirmed]
<1>1. x.connectConfirmed = c
  BY DEF Pending, FreshEnd
<1>2. [x EXCEPT !.life = "live", !.token = TRUE, !.wantWrite = ~c] = Opened(c, j)
  BY DEF Opened
<1>3. m = Put(l, e, [l.end[e] EXCEPT !.life = "live", !.token = TRUE, !.wantWrite = ~c])
  <2> DEFINE d == ~c
  <2>1. m = [l EXCEPT !.end[e].life = "live", !.end[e].token = TRUE, !.end[e].wantWrite = d]
    BY <1>1
  <2> HIDE DEF d, m
  <2>2. [l EXCEPT !.end[e].life = "live", !.end[e].token = TRUE, !.end[e].wantWrite = d]
        = Put(l, e, [l.end[e] EXCEPT !.life = "live", !.token = TRUE, !.wantWrite = d])
    BY DEF LinkType, Put
  <2>3. QED
    BY <2>1, <2>2 DEF d
<1>4. start(k, l, e) = IF l.end[e].connectConfirmed THEN settle(driveHandshake(k, m, e), e) ELSE m
  BY DEF start
<1>5. m = Put(l, e, Opened(c, j))
  BY <1>2, <1>3
<1> HIDE DEF m, x
<1>6. l.end[e].connectConfirmed = c
  BY <1>1 DEF x
<1>7. QED
  BY <1>4, <1>5, <1>6

LEMMA StartOk ==
    ASSUME NEW k \in Conns, NEW n, LinkOk(k, n), NEW e \in Sides, NEW c \in BOOLEAN, NEW j \in Nat,
           NEW r, r = Opened(c, j), n.end[e] = r,
           NEW m, m = IF c THEN settle(driveHandshake(k, n, e), e) ELSE n
    PROVE  Turned(k, n, m, e)
<1>1. /\ r \in EndType /\ Blank(r) /\ r.life = "live" /\ r.token
      /\ r.connectConfirmed = c /\ r.addressCursor = j /\ ~r.failed /\ r.cause = "none"
  BY OpenedIs
<1>2. CASE c
  <2> DEFINE h == driveHandshake(k, n, e)
  <2>1. ~n.end[e].established /\ ~n.end[e].streamFailed /\ n.end[e].life = "live" /\ n.end[e].connectConfirmed
    BY <1>1, <1>2 DEF Blank
  <2>2. LinkOk(k, h) /\ Advanced(n, h, e)
    BY <2>1, HandshakeOk
  <2> HIDE DEF h
  <2>3. Turned(k, n, settle(h, e), e)
    BY <2>1, <2>2, SettleRest DEF Advanced
  <2>4. QED
    BY <1>2, <2>3 DEF h
<1>3. CASE ~c
  <2>1. Beside(n, n, e)
    BY Records DEF Beside
  <2>2. AtRest(n, e)
    BY <1>1, <1>3 DEF AtRest, Wanted, Read, Begun, Blank
  <2>3. QED
    BY <1>3, <2>1, <2>2 DEF Turned
<1>4. QED
  BY <1>2, <1>3

\* onAccept starts a fresh end.
LEMMA AcceptOk ==
    ASSUME NEW k \in Conns, NEW l, LinkOk(k, l), l.end["node"].life = "none", NEW m, m = start(k, l, "node")
    PROVE  LinkOk(k, m) /\ AtRest(m, "node") /\ Beside(l, m, "node") /\ m.end["node"].life = "live"
<1>1. PICK e \in Sides, c \in BOOLEAN, j \in Nat : e = "node" /\ c = TRUE /\ j = 0
  BY DEF Sides
<1>2. l \in LinkType /\ l.end[e] = FreshEnd /\ EndOk(k, e, FreshEnd)
  BY <1>1, Records DEF EndOk
<1>3. FreshEnd = Pending(c, j)
  <2>1. FreshEnd \in EndType /\ FreshEnd.connectConfirmed = c /\ FreshEnd.addressCursor = j
    BY <1>1, FreshIs DEF FreshEnd
  <2>2. QED
    BY <2>1 DEF Pending, EndType
<1>4. PICK r : r = Opened(c, j)
  OBVIOUS
<1> DEFINE n == Put(l, e, r)
<1>5. m = settle(driveHandshake(k, n, e), e)
  <2>1. l.end[e] = Pending(c, j)
    BY <1>2, <1>3
  <2>2. start(k, l, e) = IF c THEN settle(driveHandshake(k, n, e), e) ELSE n
    BY <1>2, <1>4, <2>1, StartIs
  <2>3. QED
    BY <1>1, <2>2
<1>6. LinkOk(k, n) /\ Beside(l, n, e) /\ n.end[e] = r
  <2>1. Reached(k, e, FreshEnd) /\ FreshEnd.addressCursor = j
    BY <1>1, <1>2 DEF EndOk, FreshEnd
  <2>2. j <= Len(sc.addrs[k]) /\ \A i \in 1 .. Len(sc.addrs[k]) : i < j => Unreachable(k, i)
    BY <2>1 DEF Reached
  <2>3. l.end[e].life = "none" /\ (e = "node" => c)
    BY <1>1
  <2> HIDE DEF n
  <2>4. QED
    BY <1>4, <2>2, <2>3, OpenOk DEF n
<1> HIDE DEF n
<1>7. Turned(k, n, m, e)
  <2>1. m = IF c THEN settle(driveHandshake(k, n, e), e) ELSE n
    BY <1>1, <1>5
  <2>2. QED
    BY <1>4, <1>6, <2>1, StartOk
<1>8. r.life = "live"
  BY <1>4, OpenedIs
<1>9. QED
  BY <1>1, <1>6, <1>7, <1>8 DEF Turned, Beside

\* The addresses of a connection, and the next one worth a try.
LEMMA AddressesAre ==
    ASSUME sc \in Scenarios, NEW k \in Conns
    PROVE  /\ Len(sc.addrs[k]) \in Nat /\ DOMAIN sc.addrs[k] = 1 .. Len(sc.addrs[k])
           /\ \A i \in 1 .. Len(sc.addrs[k]) : sc.addrs[k][i] \in Addresses
<1>1. sc.addrs[k] \in Seq(Addresses)
  BY ScenariosAssumption DEF Conns, Addresses
<1> DEFINE s == sc.addrs[k]
<1> HIDE DEF s
<1>2. s \in Seq(Addresses)
  BY <1>1 DEF s
<1>3. Len(s) \in Nat /\ DOMAIN s = 1 .. Len(s) /\ \A i \in 1 .. Len(s) : s[i] \in Addresses
  BY <1>2, LenProperties, ElementOfSeq
<1>4. QED
  BY <1>3 DEF s

LEMMA TriedIs ==
    ASSUME sc \in Scenarios, NEW k \in Conns, NEW i \in Nat, i <= Len(sc.addrs[k]),
           \A h \in 1 .. Len(sc.addrs[k]) : h <= i => Unreachable(k, h)
    PROVE  /\ Tried(k, i) = {} => \A h \in 1 .. Len(sc.addrs[k]) : Unreachable(k, h)
           /\ Tried(k, i) # {} =>
                /\ Min(Tried(k, i)) \in 1 .. Len(sc.addrs[k])
                /\ \A h \in 1 .. Len(sc.addrs[k]) : h < Min(Tried(k, i)) => Unreachable(k, h)
<1> DEFINE n == Len(sc.addrs[k])
           T == Tried(k, i)
<1>1. n \in Nat /\ \A h \in 1 .. n : sc.addrs[k][h] \in Addresses
  BY AddressesAre
<1>2. T = {h \in (i + 1) .. n : sc.addrs[k][h] # "refused"}
  BY DEF Tried
<1>3. \A h \in 1 .. n : h \notin T => Unreachable(k, h)
  <2>1. SUFFICES ASSUME NEW h \in 1 .. n, h \notin T PROVE Unreachable(k, h)
    OBVIOUS
  <2>2. CASE h <= i
    BY <2>2
  <2>3. CASE ~(h <= i)
    <3>1. h \in (i + 1) .. n
      BY <1>1, <2>3
    <3>2. sc.addrs[k][h] = "refused"
      BY <1>2, <2>1, <3>1
    <3>3. QED
      BY <3>2 DEF Unreachable
  <2>4. QED
    BY <2>2, <2>3
<1>4. T \in SUBSET Nat /\ T \subseteq 1 .. n
  BY <1>1, <1>2
<1> HIDE DEF T
<1>5. T # {} => Min(T) \in T /\ \A y \in T : Min(T) <= y
  BY <1>4, MinNat
<1>6. T # {} => \A h \in 1 .. n : h < Min(T) => Unreachable(k, h)
  <2>1. SUFFICES ASSUME T # {}, NEW h \in 1 .. n, h < Min(T) PROVE h \notin T
    BY <1>3
  <2>2. Min(T) \in 1 .. n
    BY <1>4, <1>5, <2>1
  <2>3. QED
    BY <1>5, <2>1, <2>2
<1>7. QED
  BY <1>3, <1>4, <1>5, <1>6 DEF T

LEMMA ConnectFromIs ==
    ASSUME NEW k, NEW l \in LinkType, NEW i
    PROVE  connectFrom(k, l, i) =
             IF Tried(k, i) = {} THEN Put(l, "ctl", [l.end["ctl"] EXCEPT !.addressCursor = Len(sc.addrs[k])])
             ELSE Put([l EXCEPT !.tcp = Answers(k, Min(Tried(k, i)))], "ctl",
                      [l.end["ctl"] EXCEPT !.connectConfirmed = sc.addrs[k][Min(Tried(k, i))] = "local",
                                           !.addressCursor = Min(Tried(k, i))])
<1>1. "ctl" \in Sides
  BY DEF Sides
<1>2. l.end["ctl"] \in EndType
  BY <1>1, Linked
<1> DEFINE a == Len(sc.addrs[k])
           j == Min(Tried(k, i))
           c == sc.addrs[k][j] = "local"
           b == Answers(k, j)
<1>3. connectFrom(k, l, i) =
        IF Tried(k, i) = {} THEN [l EXCEPT !.end["ctl"].addressCursor = a]
        ELSE [l EXCEPT !.end["ctl"].addressCursor = j, !.end["ctl"].connectConfirmed = c, !.tcp = b]
  BY DEF connectFrom
<1> HIDE DEF a, j, c, b
<1>4. [l EXCEPT !.end["ctl"].addressCursor = a] = Put(l, "ctl", [l.end["ctl"] EXCEPT !.addressCursor = a])
  BY <1>1, <1>2 DEF LinkType, Put
<1>5. [l EXCEPT !.end["ctl"].addressCursor = j, !.end["ctl"].connectConfirmed = c, !.tcp = b]
      = Put([l EXCEPT !.tcp = b], "ctl", [l.end["ctl"] EXCEPT !.connectConfirmed = c, !.addressCursor = j])
  <2>1. [l.end["ctl"] EXCEPT !.addressCursor = j, !.connectConfirmed = c]
        = [l.end["ctl"] EXCEPT !.connectConfirmed = c, !.addressCursor = j]
    BY <1>2 DEF EndType
  <2> DEFINE r == [l.end["ctl"] EXCEPT !.addressCursor = j, !.connectConfirmed = c]
  <2>2. [l EXCEPT !.end["ctl"].addressCursor = j, !.end["ctl"].connectConfirmed = c, !.tcp = b]
        = [l EXCEPT !.end = [l.end EXCEPT !["ctl"] = r], !.tcp = b]
    BY <1>1, <1>2 DEF LinkType
  <2> HIDE DEF r
  <2>3. [l EXCEPT !.end = [l.end EXCEPT !["ctl"] = r], !.tcp = b] = Put([l EXCEPT !.tcp = b], "ctl", r)
    BY <1>1 DEF LinkType, Put
  <2>4. QED
    BY <2>1, <2>2, <2>3 DEF r
<1>6. QED
  BY <1>3, <1>4, <1>5 DEF a, j, c, b

LEMMA WithTcp ==
    ASSUME NEW k \in Conns, NEW l, LinkOk(k, l), NEW b \in BOOLEAN, NEW m, m = [l EXCEPT !.tcp = b]
    PROVE  LinkOk(k, m) /\ m.end = l.end /\ m \in LinkType /\ \A e \in Sides : AtRest(l, e) => AtRest(m, e)
<1>1. l \in LinkType /\ (l.cut => l.everCut)
  BY DEF LinkOk
<1>2. NetChange(l, m) /\ m.end = l.end /\ m \in LinkType
  BY <1>1 DEF NetChange, LinkType
<1>3. QED
  BY <1>2, NetOk

\* Socket::connect finds no address: the transport is given up.
LEMMA RefusedOk ==
    ASSUME sc \in Scenarios, NEW k \in Conns, NEW l, LinkOk(k, l), l.end["ctl"].life = "none",
           \A h \in 1 .. Len(sc.addrs[k]) : Unreachable(k, h), NEW x, x = [FreshEnd EXCEPT !.addressCursor = Len(sc.addrs[k])],
           NEW m, m = destroy(transportFail(Put(l, "ctl", x), "ctl", "connect"), "ctl")
    PROVE  LinkOk(k, m) /\ AtRest(m, "ctl") /\ m.end["node"] = l.end["node"]
<1>1. PICK e \in Sides : e = "ctl" /\ Peer(e) = "node"
  BY DEF Sides, Peer
<1>2. l \in LinkType /\ l.end[e] = FreshEnd /\ EndOk(k, e, FreshEnd)
  BY <1>1, Records DEF EndOk
<1> DEFINE n == Len(sc.addrs[k])
<1>3. n \in Nat /\ DOMAIN sc.addrs[k] = 1 .. n
  BY AddressesAre
<1> HIDE DEF n
<1>4. FreshEnd \in EndType /\ Blank(FreshEnd) /\ ~FreshEnd.failed /\ FreshEnd.connectConfirmed
  BY FreshIs DEF FreshEnd, Blank
<1>5. x = [FreshEnd EXCEPT !.addressCursor = n]
  BY DEF n
<1>6. x \in EndType /\ Blank(x) /\ ~x.failed /\ x.addressCursor = n /\ x.connectConfirmed
  BY <1>3, <1>4, <1>5 DEF EndType, Blank
<1>7. PICK y : y = [x EXCEPT !.failed = TRUE, !.cause = "connect"]
  OBVIOUS
<1>8. y \in EndType /\ Blank(y) /\ y.failed /\ y.cause = "connect" /\ y.addressCursor = n /\ y.connectConfirmed
  <2>1. "connect" \in Causes
    BY DEF Causes
  <2>2. /\ y \in EndType /\ y.failed /\ y.cause = "connect" /\ y.addressCursor = x.addressCursor
        /\ y.connectConfirmed = x.connectConfirmed
        /\ y.hs = x.hs /\ y.established = x.established /\ y.streamFailed = x.streamFailed
        /\ y.outbound = x.outbound /\ y.fed = x.fed /\ y.ready = x.ready /\ y.timer = x.timer
        /\ y.sawInbound = x.sawInbound /\ y.missedBeats = x.missedBeats /\ y.sent = x.sent /\ y.got = x.got
        /\ y.silent = x.silent /\ y.badSeen = x.badSeen
    BY ZenonT(90), <1>6, <1>7, <2>1 DEF EndType
  <2>3. QED
    BY <1>6, <2>2 DEF Blank
<1>9. PICK r : r = Buried(y)
  OBVIOUS
<1>10. r \in EndType /\ Blank(r) /\ r.failed /\ r.cause = "connect" /\ r.addressCursor = n /\ r.connectConfirmed
       /\ r.life = "gone" /\ ~r.token
  BY <1>8, <1>9, BuriedIs DEF Blank
<1>11. transportFail(Put(l, e, x), e, "connect") = Put(l, e, y)
  <2> DEFINE v == Put(l, e, x)
  <2>1. v \in LinkType /\ v.end[e] = x /\ \A i : Put(v, e, i) = Put(l, e, i)
    BY <1>2, <1>6, Placed DEF Becomes, Beside
  <2> HIDE DEF v
  <2>2. transportFail(v, e, "connect") = Put(v, e, y)
    <3>1. transportFail(v, e, "connect") =
            IF v.end[e].failed THEN v ELSE Put(v, e, [v.end[e] EXCEPT !.failed = TRUE, !.cause = "connect"])
      BY ZenonT(90), <2>1, Marked
    <3>2. v.end[e] = x /\ ~x.failed /\ y = [x EXCEPT !.failed = TRUE, !.cause = "connect"]
      BY <1>6, <1>7, <2>1
    <3>3. QED
      BY <3>1, <3>2, Zenon
  <2>3. QED
    BY <2>1, <2>2 DEF v
<1>12. m = Closed(l, e, r)
  <2> DEFINE v == Put(l, e, y)
  <2>1. v \in LinkType /\ v.end[e] = y
    BY <1>2, <1>8, Placed DEF Becomes, Beside
  <2>2. Closed(v, e, r) = Closed(l, e, r)
    BY <1>2 DEF Closed, Put, LinkType
  <2>3. m = destroy(v, e)
    BY <1>1, <1>11
  <2> HIDE DEF v
  <2>4. destroy(v, e) = Closed(v, e, Buried(v.end[e]))
    BY <2>1, DestroyIs
  <2>5. QED
    BY <1>9, <2>1, <2>2, <2>3, <2>4
<1>13. EndOk(k, e, r)
  <2>1. Handshaken(r) /\ Stopped(r) /\ Admitted(k, e, r) /\ Leased(r)
    BY <1>10 DEF Blank, Handshaken, Stopped, Admitted, Leased
  <2>2. Reached(k, e, r)
    BY <1>3, <1>10 DEF Reached, n
  <2>3. QED
    BY <1>10, <2>1, <2>2 DEF EndOk
<1>14. m.end[e] = r
  <2>1. Closes(l, m, e, r)
    BY <1>2, <1>10, <1>12, ClosedIs
  <2>2. QED
    BY <2>1 DEF Closes
<1>15. CauseOk(k, m, e)
  BY <1>3, <1>10, <1>14 DEF CauseOk, n
<1>16. r.outbound = <<>> /\ r.fed = <<>> /\ r.hs = FreshEnd.hs /\ r.got = FreshEnd.got /\ r.sent = FreshEnd.sent
  BY <1>4, <1>10 DEF Blank
<1>17. LinkOk(k, m) /\ AtRest(m, e) /\ m.end[Peer(e)] = l.end[Peer(e)]
  <2>1. r.hs = l.end[e].hs /\ r.got = l.end[e].got /\ r.sent = l.end[e].sent
    BY <1>2, <1>16
  <2>2. QED
    BY <1>10, <1>12, <1>13, <1>15, <1>16, <2>1, GoneOk
<1>18. QED
  BY <1>1, <1>17

LEMMA ConnectOk ==
    ASSUME sc \in Scenarios, NEW k \in Conns, NEW l, LinkOk(k, l), l.end["ctl"].life = "none",
           NEW n, n = connectFrom(k, l, 0),
           NEW m, m = IF Tried(k, 0) = {} THEN destroy(transportFail(n, "ctl", "connect"), "ctl") ELSE start(k, n, "ctl")
    PROVE  LinkOk(k, m) /\ AtRest(m, "ctl") /\ m.end["node"] = l.end["node"]
<1>1. PICK e \in Sides : e = "ctl" /\ Peer(e) = "node"
  BY DEF Sides, Peer
<1>2. l \in LinkType /\ l.end[e] = FreshEnd
  BY <1>1, Records DEF EndOk
<1>3. Len(sc.addrs[k]) \in Nat
  BY AddressesAre
<1>4. /\ Tried(k, 0) = {} => \A h \in 1 .. Len(sc.addrs[k]) : Unreachable(k, h)
      /\ Tried(k, 0) # {} =>
           /\ Min(Tried(k, 0)) \in 1 .. Len(sc.addrs[k])
           /\ \A h \in 1 .. Len(sc.addrs[k]) : h < Min(Tried(k, 0)) => Unreachable(k, h)
  <2>1. 0 \in Nat /\ 0 <= Len(sc.addrs[k]) /\ \A h \in 1 .. Len(sc.addrs[k]) : h <= 0 => Unreachable(k, h)
    BY <1>3
  <2>2. QED
    BY <2>1, TriedIs
<1>5. CASE Tried(k, 0) = {}
  <2>1. PICK x : x = [FreshEnd EXCEPT !.addressCursor = Len(sc.addrs[k])]
    OBVIOUS
  <2>2. n = Put(l, "ctl", x)
    BY <1>1, <1>2, <1>5, <2>1, ConnectFromIs
  <2>3. m = destroy(transportFail(Put(l, "ctl", x), "ctl", "connect"), "ctl")
    BY <1>5, <2>2
  <2>4. QED
    BY <1>1, <1>4, <1>5, <2>1, <2>3, RefusedOk
<1>6. CASE Tried(k, 0) # {}
  <2>1. PICK j \in 1 .. Len(sc.addrs[k]) : j = Min(Tried(k, 0))
    BY <1>4, <1>6
  <2>2. PICK c \in BOOLEAN : c = (sc.addrs[k][j] = "local")
    OBVIOUS
  <2>3. PICK b \in BOOLEAN : b = Answers(k, j)
    <3>1. Answers(k, j) \in BOOLEAN
      BY DEF Answers
    <3>2. QED
      BY <3>1, Zenon
  <2>4. PICK z : z = [l EXCEPT !.tcp = b]
    OBVIOUS
  <2>5. n = Put(z, e, Pending(c, j))
    <3>1. n = Put([l EXCEPT !.tcp = Answers(k, Min(Tried(k, 0)))], "ctl",
                  [l.end["ctl"] EXCEPT !.connectConfirmed = sc.addrs[k][Min(Tried(k, 0))] = "local",
                                       !.addressCursor = Min(Tried(k, 0))])
      BY <1>2, <1>6, ConnectFromIs
    <3>2. [l.end["ctl"] EXCEPT !.connectConfirmed = sc.addrs[k][Min(Tried(k, 0))] = "local",
                               !.addressCursor = Min(Tried(k, 0))]
          = [FreshEnd EXCEPT !.connectConfirmed = c, !.addressCursor = j]
      <4>1. l.end["ctl"] = FreshEnd
        BY <1>1, <1>2
      <4>2. QED
        BY <2>1, <2>2, <4>1, Zenon
    <3>3. [l EXCEPT !.tcp = Answers(k, Min(Tried(k, 0)))] = z
      BY <2>1, <2>3, <2>4, Zenon
    <3>4. QED
      BY <1>1, <3>1, <3>2, <3>3, Zenon DEF Pending
  <2>6. LinkOk(k, z) /\ z.end = l.end /\ z \in LinkType
    BY <2>4, WithTcp
  <2>7. j \in Nat /\ j <= Len(sc.addrs[k]) /\ \A i \in 1 .. Len(sc.addrs[k]) : i < j => Unreachable(k, i)
    BY <1>3, <1>4, <1>6, <2>1
  <2>8. PICK r : r = Opened(c, j)
    OBVIOUS
  <2> DEFINE v == Put(z, e, r)
  <2>9. LinkOk(k, v) /\ Beside(z, v, e) /\ v.end[e] = r
    <3>1. z.end[e].life = "none" /\ (e = "node" => c)
      BY <1>1, <2>6
    <3> HIDE DEF v
    <3>2. QED
      BY <2>6, <2>7, <2>8, <3>1, OpenOk DEF v
  <2>10. Pending(c, j) \in EndType
    BY <2>7, FreshIs DEF Pending, EndType
  <2>11. n \in LinkType /\ n.end[e] = Pending(c, j) /\ \A i : Put(n, e, i) = Put(z, e, i)
    <3> DEFINE w == Pending(c, j)
    <3> HIDE DEF w
    <3>1. w \in EndType /\ n = Put(z, e, w)
      BY <2>5, <2>10 DEF w
    <3>2. n \in LinkType /\ n.end[e] = w /\ \A i : Put(n, e, i) = Put(z, e, i)
      BY <2>6, <3>1, Placed DEF Becomes, Beside
    <3>3. QED
      BY <3>2 DEF w
  <2>12. Put(n, e, Opened(c, j)) = v
    BY <2>8, <2>11
  <2>13. m = IF c THEN settle(driveHandshake(k, v, e), e) ELSE v
    <3>1. start(k, n, e) = IF c THEN settle(driveHandshake(k, Put(n, e, Opened(c, j)), e), e) ELSE Put(n, e, Opened(c, j))
      <4>1. n \in LinkType /\ n.end[e] = Pending(c, j) /\ j \in Nat
        BY <2>7, <2>11
      <4> HIDE DEF v
      <4>2. QED
        BY <4>1, StartIs
    <3>2. m = start(k, n, e)
      BY <1>1, <1>6
    <3> HIDE DEF v
    <3>3. QED
      BY <2>12, <3>1, <3>2
  <2> HIDE DEF v
  <2>14. Turned(k, v, m, e)
    BY <2>7, <2>8, <2>9, <2>13, StartOk
  <2>15. QED
    BY <1>1, <2>6, <2>9, <2>14 DEF Turned, Beside
<1>7. QED
  BY <1>5, <1>6

\* confirmConnect: the end while its connect is pending moves to another address.
Shifted(k, l, m, x, r, c) ==
    /\ LinkOk(k, m) /\ Unmoved(l, m, "ctl") /\ m.end["ctl"] = r
    /\ r.connectConfirmed = c /\ r.token = x.token /\ r.wantWrite = x.wantWrite /\ r.outbound = x.outbound
    /\ r.fed = x.fed /\ r.streamFailed = x.streamFailed /\ r.life = x.life /\ r.hs = x.hs
    /\ r.established = x.established
LEMMA MovesOn ==
    ASSUME NEW k \in Conns, NEW l, LinkOk(k, l), NEW x, x = l.end["ctl"], x.hs = "start", x.life = "live",
           NEW c \in BOOLEAN, NEW j \in Nat, j <= Len(sc.addrs[k]),
           \A i \in 1 .. Len(sc.addrs[k]) : i < j => Unreachable(k, i),
           NEW r, r = [x EXCEPT !.connectConfirmed = c, !.addressCursor = j],
           NEW m, m = Put(l, "ctl", r)
    PROVE  Shifted(k, l, m, x, r, c)
<1>1. PICK e \in Sides : e = "ctl"
  BY DEF Sides
<1>2. l \in LinkType /\ x \in EndType /\ EndOk(k, e, x) /\ SideOk(k, l, e)
  BY <1>1, Records
<1>3. /\ r \in EndType /\ r.connectConfirmed = c /\ r.addressCursor = j
      /\ r.outbound = x.outbound /\ r.fed = x.fed /\ r.hs = x.hs /\ r.got = x.got /\ r.life = x.life
      /\ r.failed = x.failed /\ r.cause = x.cause /\ r.ready = x.ready /\ r.sawInbound = x.sawInbound
      /\ r.sent = x.sent /\ r.established = x.established /\ r.token = x.token
      /\ r.streamFailed = x.streamFailed /\ r.wantWrite = x.wantWrite /\ r.timer = x.timer
      /\ r.badSeen = x.badSeen /\ r.silent = x.silent /\ r.missedBeats = x.missedBeats
  BY ZenonT(90), <1>2 DEF EndType
<1>4. Becomes(l, m, e, r, e, l.to[e]) /\ m.to = l.to
  BY <1>1, <1>2, <1>3, Placed
<1>5. Beside(l, m, e) /\ m.end[e] = r /\ m.everCut = l.everCut /\ m.shut = l.shut
  BY <1>4 DEF Becomes, Beside
<1>6. Unmoved(l, m, e)
  BY <1>1, <1>3, <1>4, <1>5 DEF Unmoved
<1>7. EndOk(k, e, r)
  <2>1. Handshaken(r)
    BY <1>2, <1>3 DEF EndOk, Handshaken
  <2>2. Stopped(r)
    BY <1>2, <1>3 DEF EndOk, Stopped
  <2>3. Admitted(k, e, r)
    BY <1>2, <1>3 DEF EndOk, Admitted
  <2>4. Leased(r)
    BY <1>2, <1>3 DEF EndOk, Leased
  <2>5. Reached(k, e, r)
    BY <1>1, <1>3 DEF Reached
  <2>6. QED
    BY <1>3, <2>1, <2>2, <2>3, <2>4, <2>5 DEF EndOk
<1>8. CauseOk(k, m, e) /\ (Waits(m, e) => Waits(l, e)) /\ (l.end[e].failed => m.end[e].failed)
  <2>1. l.end[e] = x /\ CauseOk(k, l, e)
    BY <1>1, <1>2 DEF SideOk
  <2>2. l.end[e].cause = r.cause /\ l.end[e].silent = r.silent /\ l.end[e].failed = r.failed /\ l.end[e].ready = r.ready
        /\ l.end[e].sawInbound = r.sawInbound
    BY <1>3, <2>1
  <2>3. CauseOk(k, m, e)
    <3>1. m.end[e].cause = l.end[e].cause /\ m.end[e].silent = l.end[e].silent /\ m.everCut = l.everCut
      BY <1>5, <2>2
    <3>2. QED
      BY <2>1, <3>1, Zenon DEF CauseOk
  <2>4. QED
    BY <1>5, <2>2, <2>3 DEF Waits
<1>9. LinkOk(k, m)
  BY <1>5, <1>6, <1>7, <1>8, QuietStep
<1>10. QED
  BY <1>1, <1>3, <1>5, <1>6, <1>9 DEF Shifted

\* confirmConnect, in each of its three cases.
LEMMA ConfirmOk ==
    ASSUME sc \in Scenarios, NEW k \in Conns, NEW l, LinkOk(k, l), l.end["ctl"].life = "live", l.end["ctl"].token,
           ~l.end["ctl"].connectConfirmed, AtRest(l, "ctl"),
           NEW m, m = confirmConnect(k, l)
    PROVE  LinkOk(k, m) /\ AtRest(m, "ctl") /\ m.end["node"] = l.end["node"]
<1>1. PICK e \in Sides : e = "ctl" /\ Peer(e) = "node"
  BY DEF Sides, Peer
<1>2. PICK x : x = l.end["ctl"]
  OBVIOUS
<1>3. l \in LinkType /\ x \in EndType /\ EndOk(k, e, x)
  BY <1>1, <1>2, Records
<1>4. x.hs = "start" /\ ~x.established /\ ~x.streamFailed /\ x.outbound = <<>> /\ x.life = "live" /\ x.token /\ x.fed = <<>>
  <2>1. x.hs = "start" /\ ~x.streamFailed
    BY <1>2, <1>3 DEF EndOk, Reached, Stopped
  <2>2. ~x.established
    BY <1>3, <2>1 DEF EndOk, Handshaken
  <2>3. x.outbound = <<>> /\ x.fed = <<>>
    BY <1>2, <2>1 DEF AtRest, Begun, Read
  <2>4. QED
    BY <1>2, <2>1, <2>2, <2>3
<1> DEFINE i == x.addressCursor
           n == Len(sc.addrs[k])
<1>5. i \in Nat /\ n \in Nat /\ i <= n /\ \A h \in 1 .. n : h < i => Unreachable(k, h)
  BY <1>3, AddressesAre DEF EndOk, Reached, EndType
<1>6. ~Answers(k, i) => \A h \in 1 .. n : h <= i => Unreachable(k, h)
  <2>1. SUFFICES ASSUME ~Answers(k, i), NEW h \in 1 .. n, h <= i PROVE Unreachable(k, h)
    OBVIOUS
  <2>2. CASE h < i
    BY <1>5, <2>2
  <2>3. CASE h = i
    <3>1. sc.addrs[k][i] \in Addresses
      BY <2>3, AddressesAre
    <3>2. QED
      BY <2>1, <2>3, <3>1 DEF Unreachable, Answers, Addresses
  <2>4. QED
    BY <1>5, <2>1, <2>2, <2>3
<1>7. ~Answers(k, i) =>
        /\ Tried(k, i) = {} => \A h \in 1 .. n : Unreachable(k, h)
        /\ Tried(k, i) # {} =>
             /\ Min(Tried(k, i)) \in 1 .. n
             /\ \A h \in 1 .. n : h < Min(Tried(k, i)) => Unreachable(k, h)
  BY <1>5, <1>6, TriedIs
<1>8. m = IF Answers(k, i)
          THEN settle(driveHandshake(k, [l EXCEPT !.end["ctl"].connectConfirmed = TRUE], "ctl"), "ctl")
          ELSE IF Tried(k, i) = {} THEN fail(connectFrom(k, l, i), "ctl", "connect")
          ELSE [connectFrom(k, l, i) EXCEPT !.end["ctl"].connectConfirmed = FALSE]
  BY <1>2 DEF confirmConnect
<1> HIDE DEF i, n
<1>9. CASE Answers(k, i)
  <2>1. PICK r : r = [x EXCEPT !.connectConfirmed = TRUE, !.addressCursor = i]
    OBVIOUS
  <2>2. r = [x EXCEPT !.connectConfirmed = TRUE]
    BY <1>3, <2>1 DEF EndType, i
  <2>3. PICK v : v = Put(l, "ctl", r)
    OBVIOUS
  <2>4. [l EXCEPT !.end["ctl"].connectConfirmed = TRUE] = v
    <3>1. [l EXCEPT !.end["ctl"].connectConfirmed = TRUE] = [l EXCEPT !.end["ctl"] = [l.end["ctl"] EXCEPT !.connectConfirmed = TRUE]]
      BY <1>1, <1>3 DEF LinkType
    <3>2. QED
      BY <1>2, <2>2, <2>3, <3>1, Zenon DEF Put
  <2>5. /\ LinkOk(k, v) /\ Unmoved(l, v, "ctl") /\ v.end["ctl"] = r
        /\ r.connectConfirmed = TRUE /\ r.streamFailed = x.streamFailed /\ r.life = x.life /\ r.established = x.established
    <3>1. PICK c \in BOOLEAN : c = TRUE
      OBVIOUS
    <3>2. i <= Len(sc.addrs[k]) /\ \A h \in 1 .. Len(sc.addrs[k]) : h < i => Unreachable(k, h)
      BY <1>5 DEF n
    <3>3. r = [x EXCEPT !.connectConfirmed = c, !.addressCursor = i]
      BY <2>1, <3>1, Zenon
    <3>4. Shifted(k, l, v, x, r, c)
      BY <1>2, <1>4, <1>5, <2>3, <3>2, <3>3, MovesOn
    <3>5. QED
      BY <3>1, <3>4 DEF Shifted
  <2>6. LinkOk(k, v) /\ Beside(l, v, e) /\ ~v.end[e].established /\ ~v.end[e].streamFailed
        /\ v.end[e].life = "live" /\ v.end[e].connectConfirmed
    BY <1>1, <1>4, <2>5 DEF Unmoved
  <2>7. PICK w : w = driveHandshake(k, v, e)
    OBVIOUS
  <2>8. LinkOk(k, w) /\ Advanced(v, w, e)
    BY <2>6, <2>7, HandshakeOk
  <2>9. Beside(v, w, e) /\ Read(w, e) /\ w.end[e].life = "live" /\ w.end[e].connectConfirmed
        /\ (e = "ctl" => w.end[e].hs # "start" \/ ~w.end[e].token)
    BY <2>6, <2>8 DEF Advanced
  <2>10. Turned(k, v, settle(w, e), e)
    BY <2>6, <2>8, <2>9, SettleRest
  <2>11. m = settle(w, e)
    BY <1>1, <1>8, <1>9, <2>4, <2>7
  <2>12. QED
    BY <1>1, <2>6, <2>10, <2>11 DEF Turned, Beside
<1>10. CASE ~Answers(k, i) /\ Tried(k, i) = {}
  <2>1. PICK c \in BOOLEAN : c = x.connectConfirmed
    BY <1>3 DEF EndType
  <2>2. PICK r : r = [x EXCEPT !.connectConfirmed = c, !.addressCursor = n]
    OBVIOUS
  <2>3. r = [x EXCEPT !.addressCursor = n]
    BY <1>3, <2>1, <2>2 DEF EndType
  <2>4. PICK v : v = Put(l, "ctl", r)
    OBVIOUS
  <2>5. connectFrom(k, l, i) = v
    <3>1. connectFrom(k, l, i) = Put(l, "ctl", [l.end["ctl"] EXCEPT !.addressCursor = Len(sc.addrs[k])])
      BY <1>3, <1>10, ConnectFromIs
    <3>2. QED
      BY <1>2, <2>3, <2>4, <3>1 DEF n
  <2>6. /\ LinkOk(k, v) /\ Unmoved(l, v, "ctl") /\ v.end["ctl"] = r
        /\ r.outbound = x.outbound /\ r.life = x.life
    <3>1. n \in Nat /\ n <= Len(sc.addrs[k]) /\ \A h \in 1 .. Len(sc.addrs[k]) : h < n => Unreachable(k, h)
      BY <1>5, <1>7, <1>10 DEF n
    <3>2. Shifted(k, l, v, x, r, c)
      BY <1>2, <1>4, <2>2, <2>4, <3>1, MovesOn
    <3>3. QED
      BY <3>2 DEF Shifted
  <2>7. LinkOk(k, v) /\ Beside(l, v, e) /\ v.end[e].outbound = <<>> /\ v.end[e].life = "live"
    BY <1>1, <1>4, <2>6 DEF Unmoved
  <2>8. Excuse(k, v, e, "connect")
    <3>1. "connect" \in Causes \ {"none"}
      BY DEF Causes
    <3>2. \A h \in DOMAIN sc.addrs[k] : Unreachable(k, h)
      BY <1>7, <1>10, AddressesAre DEF n
    <3>3. QED
      BY <3>1, <3>2 DEF Excuse
  <2>9. Turned(k, v, fail(v, e, "connect"), e)
    <3>1. Beside(v, v, e)
      BY <2>7 DEF Beside
    <3>2. QED
      BY <2>7, <2>8, <3>1, FailRest
  <2>10. m = fail(v, e, "connect")
    BY <1>1, <1>8, <1>10, <2>5
  <2>11. QED
    BY <1>1, <2>7, <2>9, <2>10 DEF Turned, Beside
<1>11. CASE ~Answers(k, i) /\ Tried(k, i) # {}
  <2>1. PICK j \in 1 .. n : j = Min(Tried(k, i))
    BY <1>7, <1>11
  <2>2. PICK b \in BOOLEAN : b = Answers(k, j)
    <3>1. Answers(k, j) \in BOOLEAN
      BY DEF Answers
    <3>2. QED
      BY <3>1, Zenon
  <2>3. PICK z : z = [l EXCEPT !.tcp = b]
    OBVIOUS
  <2>4. LinkOk(k, z) /\ z.end = l.end /\ z \in LinkType
    BY <2>3, WithTcp
  <2>5. PICK q : q = [x EXCEPT !.connectConfirmed = sc.addrs[k][j] = "local", !.addressCursor = j]
    OBVIOUS
  <2>6. connectFrom(k, l, i) = Put(z, "ctl", q)
    <3>1. connectFrom(k, l, i) = Put([l EXCEPT !.tcp = Answers(k, Min(Tried(k, i)))], "ctl",
                  [l.end["ctl"] EXCEPT !.connectConfirmed = sc.addrs[k][Min(Tried(k, i))] = "local",
                                       !.addressCursor = Min(Tried(k, i))])
      BY <1>3, <1>11, ConnectFromIs
    <3>2. QED
      BY <1>2, <2>1, <2>2, <2>3, <2>5, <3>1, Zenon
  <2>7. PICK r : r = [x EXCEPT !.connectConfirmed = FALSE, !.addressCursor = j]
    OBVIOUS
  <2>8. q \in EndType /\ [q EXCEPT !.connectConfirmed = FALSE] = r
    <3>1. PICK d \in BOOLEAN : d = (sc.addrs[k][j] = "local")
      OBVIOUS
    <3>2. q = [x EXCEPT !.connectConfirmed = d, !.addressCursor = j]
      BY <2>5, <3>1, Zenon
    <3>3. j \in Nat
      BY <1>5, <2>1
    <3>4. QED
      BY <1>3, <2>7, <3>2, <3>3 DEF EndType
  <2>9. PICK v : v = Put(z, "ctl", q)
    OBVIOUS
  <2>10. v \in LinkType /\ v.end[e] = q /\ \A y : Put(v, e, y) = Put(z, e, y)
    BY <1>1, <2>4, <2>8, <2>9, Placed DEF Becomes, Beside
  <2>11. m = Put(z, "ctl", r)
    <3>1. m = [v EXCEPT !.end["ctl"].connectConfirmed = FALSE]
      BY <1>8, <1>11, <2>6, <2>9
    <3>2. [v EXCEPT !.end["ctl"].connectConfirmed = FALSE] = [v EXCEPT !.end["ctl"] = [v.end["ctl"] EXCEPT !.connectConfirmed = FALSE]]
      BY <1>1, <2>10 DEF LinkType
    <3>3. [v EXCEPT !.end["ctl"] = [v.end["ctl"] EXCEPT !.connectConfirmed = FALSE]] = Put(v, "ctl", r)
      BY <1>1, <2>8, <2>10, Zenon DEF Put
    <3>4. QED
      BY <1>1, <2>10, <3>1, <3>2, <3>3
  <2>12. /\ LinkOk(k, m) /\ Unmoved(z, m, "ctl") /\ m.end["ctl"] = r
         /\ r.connectConfirmed = FALSE /\ r.outbound = x.outbound
         /\ r.fed = x.fed /\ r.streamFailed = x.streamFailed
    <3>1. j \in Nat /\ j <= Len(sc.addrs[k]) /\ \A h \in 1 .. Len(sc.addrs[k]) : h < j => Unreachable(k, h)
      BY <1>5, <1>7, <1>11, <2>1 DEF n
    <3>2. x = z.end["ctl"]
      BY <1>2, <2>4
    <3>3. PICK c \in BOOLEAN : c = FALSE
      OBVIOUS
    <3>4. r = [x EXCEPT !.connectConfirmed = c, !.addressCursor = j]
      BY <2>7, <3>3, Zenon
    <3>5. Shifted(k, z, m, x, r, c)
      BY <1>4, <2>4, <2>11, <3>1, <3>2, <3>4, MovesOn
    <3>6. QED
      BY <3>3, <3>5 DEF Shifted
  <2>13. Beside(z, m, e) /\ m.end[e] = r
    BY <1>1, <2>12 DEF Unmoved
  <2>14. AtRest(m, e)
    BY <1>4, <2>12, <2>13 DEF AtRest, Wanted, Read, Begun
  <2>15. QED
    BY <1>1, <2>4, <2>12, <2>13, <2>14 DEF Beside
<1>12. QED
  BY <1>9, <1>10, <1>11

-----------------------------------------------------------------------------
(* The invariant of the module *)

LEMMA LinkStays ==
    ASSUME NEW k, NEW v, LinkOk(k, v), sc' = sc, link'[k] = v PROVE LinkOk(k, link[k])'
<1>1. ASSUME NEW e \in Sides PROVE SideOk(k, link[k], e)'
  <2>1. SideOk(k, v, e)
    BY DEF LinkOk
  <2>2. EndOk(k, e, link[k].end[e])'
    BY <2>1 DEF SideOk, EndOk, Admitted, Reached, Unreachable, Handshaken, Stopped, Leased
  <2>3. CauseOk(k, link[k], e)'
    BY <2>1 DEF SideOk, CauseOk, Unreachable
  <2>4. QED
    BY <2>1, <2>2, <2>3 DEF SideOk
<1>2. QED
  BY <1>1 DEF LinkOk

ServerType ==
    [connections : SUBSET Conns, pendingRemoval : Seq(Conns), reapScheduled : BOOLEAN, reapTimer : BOOLEAN,
     acceptedTotal : Nat]

LinksOk ==
    /\ link \in [Conns -> LinkType]
    /\ \A k \in Conns : LinkOk(k, link[k]) /\ \A e \in Sides : AtRest(link[k], e)

\* NodeServer holds the live nodes, and each failed one waits for the reap timer.
ServerOk ==
    /\ server \in ServerType
    /\ server.reapScheduled <=> server.reapTimer
    /\ server.connections = {k \in Conns : link[k].end["node"].life = "live"}
    /\ \A k \in server.connections :
        link[k].end["node"].failed => server.reapTimer /\ k \in ToSet(server.pendingRemoval)

Inv == sc \in Scenarios /\ LinksOk /\ ServerOk

LEMMA DropIs ==
    ASSUME server \in ServerType, NEW k \in Conns, NEW s, s = dropConnection(server, k),
           server.reapScheduled <=> server.reapTimer
    PROVE  /\ s \in ServerType /\ s.connections = server.connections /\ s.reapTimer /\ s.reapScheduled
           /\ k \in ToSet(s.pendingRemoval)
           /\ \A j : j \in ToSet(server.pendingRemoval) => j \in ToSet(s.pendingRemoval)
<1> DEFINE q == server.pendingRemoval
           u == Append(q, k)
<1>1. q \in Seq(Conns)
  BY DEF ServerType
<1> HIDE DEF q
<1>2. /\ u \in Seq(Conns) /\ DOMAIN u = 1 .. Len(q) + 1 /\ u[Len(q) + 1] = k
      /\ (\A i \in 1 .. Len(q) : u[i] = q[i]) /\ DOMAIN q = 1 .. Len(q) /\ Len(q) \in Nat
  BY <1>1, LenProperties, AppendProperties
<1> HIDE DEF u
<1>3. k \in ToSet(u) /\ \A j : j \in ToSet(q) => j \in ToSet(u)
  BY <1>2 DEF ToSet
<1>4. /\ s \in ServerType /\ s.connections = server.connections /\ s.reapTimer /\ s.reapScheduled
      /\ s.pendingRemoval = u
  BY <1>2 DEF dropConnection, ServerType, u, q
<1>5. QED
  BY <1>3, <1>4 DEF q

\* A step of one connection that neither accepts nor closes its node.
LEMMA BecomeOk ==
    ASSUME Inv, NEW k \in Conns, NEW m, LinkOk(k, m), \A e \in Sides : AtRest(m, e), Become(k, m), sc' = sc,
           m.end["node"].life = "live" <=> link[k].end["node"].life = "live"
    PROVE  Inv'
<1>1. sc \in Scenarios /\ link \in [Conns -> LinkType] /\ Conns' = Conns /\ m \in LinkType
  BY DEF Inv, LinksOk, LinkOk, Conns
<1>2. link' = [link EXCEPT ![k] = m]
  BY DEF Become
<1>3. link'[k] = m /\ link' \in [Conns -> LinkType] /\ \A j \in Conns : j # k => link'[j] = link[j]
  BY <1>1, <1>2
<1>4. \A j \in Conns : LinkOk(j, link'[j]) /\ \A e \in Sides : AtRest(link'[j], e)
  <2>1. SUFFICES ASSUME NEW j \in Conns PROVE LinkOk(j, link'[j]) /\ \A e \in Sides : AtRest(link'[j], e)
    OBVIOUS
  <2>2. CASE j = k
    BY <1>3, <2>2
  <2>3. CASE j # k
    <3>1. LinkOk(j, link[j]) /\ \A e \in Sides : AtRest(link[j], e)
      BY DEF Inv, LinksOk
    <3>2. QED
      BY <1>3, <2>3, <3>1
  <2>4. QED
    BY <2>2, <2>3
<1>5. LinksOk'
  <2>1. ASSUME NEW j \in Conns PROVE LinkOk(j, link[j])' /\ \A e \in Sides : AtRest(link[j], e)'
    <3>1. PICK v : v = link'[j]
      OBVIOUS
    <3>2. LinkOk(j, v) /\ \A e \in Sides : AtRest(v, e)
      BY <1>4, <3>1
    <3>3. LinkOk(j, link[j])'
      BY <3>1, <3>2, LinkStays
    <3>4. QED
      BY <3>1, <3>2, <3>3
  <2>2. QED
    BY <1>1, <1>3, <2>1 DEF LinksOk
<1>6. ServerType' = ServerType
  BY <1>1 DEF ServerType
<1>7. {j \in Conns : link'[j].end["node"].life = "live"} = {j \in Conns : link[j].end["node"].life = "live"}
  BY <1>3
<1>8. ServerOk'
  <2>1. ServerOk
    BY DEF Inv
  <2>2. CASE m.end["node"].failed /\ ~link[k].end["node"].failed
    <3>1. server' = dropConnection(server, k)
      BY <2>2 DEF Become
    <3>2. /\ server' \in ServerType /\ server'.connections = server.connections /\ server'.reapTimer /\ server'.reapScheduled
          /\ k \in ToSet(server'.pendingRemoval)
          /\ \A j : j \in ToSet(server.pendingRemoval) => j \in ToSet(server'.pendingRemoval)
      BY <2>1, <3>1, DropIs DEF ServerOk
    <3>3. \A j \in server.connections : link'[j].end["node"].failed => j \in ToSet(server'.pendingRemoval)
      BY <1>3, <2>1, <3>2 DEF ServerOk
    <3>4. QED
      BY <1>1, <1>6, <1>7, <2>1, <3>2, <3>3 DEF ServerOk
  <2>3. CASE ~(m.end["node"].failed /\ ~link[k].end["node"].failed)
    <3>1. server' = server
      BY <2>3 DEF Become
    <3>2. \A j \in server.connections : link'[j].end["node"].failed => link[j].end["node"].failed
      BY <1>3, <2>1, <2>3 DEF ServerOk
    <3>3. QED
      BY <1>1, <1>6, <1>7, <2>1, <3>1, <3>2 DEF ServerOk
  <2>4. QED
    BY <2>2, <2>3
<1>9. QED
  BY <1>1, <1>5, <1>8 DEF Inv

\* A link of the state.
LEMMA LinkIs ==
    ASSUME Inv, NEW k \in Conns
    PROVE  sc \in Scenarios /\ LinkOk(k, link[k]) /\ link[k] \in LinkType /\ \A e \in Sides : AtRest(link[k], e)
BY DEF Inv, LinksOk

LEMMA TurnedStep ==
    ASSUME Inv, NEW k \in Conns, NEW e \in Sides, NEW m, Turned(k, link[k], m, e), Become(k, m), sc' = sc
    PROVE  Inv'
<1>1. LinkOk(k, m) /\ Beside(link[k], m, e) /\ AtRest(m, e) /\ m.end[e].life = link[k].end[e].life
  BY DEF Turned
<1>2. AtRest(m, Peer(e)) /\ m.end[Peer(e)] = link[k].end[Peer(e)]
  BY <1>1, Two, LinkIs, RestStays DEF Beside
<1>3. \A i \in Sides : AtRest(m, i) /\ m.end[i].life = link[k].end[i].life
  BY <1>1, <1>2, Two
<1>4. "node" \in Sides
  BY DEF Sides
<1>5. QED
  BY <1>1, <1>3, <1>4, BecomeOk

\* A step of the controller's end of a connection, its node's left alone.
LEMMA CtlStep ==
    ASSUME Inv, NEW k \in Conns, NEW m, LinkOk(k, m), AtRest(m, "ctl"), m.end["node"] = link[k].end["node"],
           Become(k, m), sc' = sc
    PROVE  Inv'
<1>1. \A e \in Sides : e = "ctl" \/ e = "node"
  BY DEF Sides
<1>2. AtRest(link[k], "node")
  BY LinkIs DEF Sides
<1>3. AtRest(m, "node")
  BY <1>2 DEF AtRest, Wanted, Read, Begun
<1>4. QED
  BY <1>1, <1>3, BecomeOk

\* A step of the network.
LEMMA NetStep ==
    ASSUME Inv, NEW k \in Conns, NEW m, NetChange(link[k], m), Become(k, m), sc' = sc PROVE Inv'
<1>1. LinkOk(k, m) /\ \A e \in Sides : AtRest(m, e)
  BY LinkIs, NetOk
<1>2. m.end["node"] = link[k].end["node"]
  BY DEF NetChange
<1>3. QED
  BY <1>1, <1>2, BecomeOk

LEMMA EventStep ==
    ASSUME Inv, NEW k \in Conns, NEW e \in Sides, onEvent(k, e) PROVE Inv'
<1>1. PICK l : l = link[k]
  OBVIOUS
<1>2. LinkOk(k, l) /\ AtRest(l, e) /\ l.end[e].life = "live" /\ l.end[e].connectConfirmed
  BY <1>1, LinkIs DEF onEvent, EventDue, Watched, Live
<1>3. PICK writable \in BOOLEAN : writable = Writable(k, e)
  <2>1. Writable(k, e) \in BOOLEAN
    BY <1>2, Records DEF Writable, EndType, LinkType
  <2>2. QED
    BY <2>1, Zenon
<1>4. PICK readable \in BOOLEAN : readable = Readable(k, e)
  <2>1. Readable(k, e) \in BOOLEAN
    BY DEF Readable
  <2>2. QED
    BY <2>1, Zenon
<1>5. PICK f : f = IF writable THEN flushOutbound(l, e) ELSE l
  OBVIOUS
<1>6. PICK m : m = IF readable /\ ~f.end[e].streamFailed THEN onReadable(k, f, e) ELSE f
  OBVIOUS
<1>7. Turned(k, link[k], m, e)
  BY <1>1, <1>2, <1>5, <1>6, EventOk
<1>8. Become(k, m) /\ sc' = sc
  <2>1. f = IF Writable(k, e) THEN flushOutbound(link[k], e) ELSE link[k]
    BY <1>1, <1>3, <1>5, Zenon
  <2>2. m = IF Readable(k, e) /\ ~f.end[e].streamFailed THEN onReadable(k, f, e) ELSE f
    BY <1>4, <1>6, Zenon
  <2>3. Become(k, IF Readable(k, e) /\ ~f.end[e].streamFailed THEN onReadable(k, f, e) ELSE f)
    BY <2>1, Zenon DEF onEvent
  <2>4. QED
    BY <2>2, <2>3, Zenon DEF onEvent
<1>9. QED
  BY <1>7, <1>8, TurnedStep

LEMMA ConnectEventStep ==
    ASSUME Inv, NEW k \in Conns, onConnectEvent(k) PROVE Inv'
<1>1. PICK l : l = link[k]
  OBVIOUS
<1>2. PICK m : m = confirmConnect(k, l)
  OBVIOUS
<1>3. sc \in Scenarios /\ LinkOk(k, l) /\ AtRest(l, "ctl")
  BY <1>1, LinkIs DEF Sides
<1>4. l.end["ctl"].life = "live" /\ l.end["ctl"].token /\ ~l.end["ctl"].connectConfirmed
  BY <1>1 DEF onConnectEvent, Connecting, Watched, Live
<1>5. LinkOk(k, m) /\ AtRest(m, "ctl") /\ m.end["node"] = l.end["node"]
  BY <1>2, <1>3, <1>4, ConfirmOk
<1>6. Become(k, m) /\ sc' = sc
  BY <1>1, <1>2 DEF onConnectEvent
<1>7. QED
  BY <1>1, <1>5, <1>6, CtlStep

LEMMA ConnectStep ==
    ASSUME Inv, NEW k \in Conns, connect(k) PROVE Inv'
<1>1. PICK l : l = link[k]
  OBVIOUS
<1>2. PICK n : n = connectFrom(k, l, 0)
  OBVIOUS
<1>3. PICK m : m = IF Tried(k, 0) = {} THEN destroy(transportFail(n, "ctl", "connect"), "ctl") ELSE start(k, n, "ctl")
  OBVIOUS
<1>4. sc \in Scenarios /\ LinkOk(k, l) /\ l.end["ctl"].life = "none"
  BY <1>1, LinkIs DEF connect
<1>5. LinkOk(k, m) /\ AtRest(m, "ctl") /\ m.end["node"] = l.end["node"]
  BY <1>2, <1>3, <1>4, ConnectOk
<1>6. Become(k, m) /\ sc' = sc
  BY <1>1, <1>2, <1>3, Zenon DEF connect
<1>7. QED
  BY <1>1, <1>5, <1>6, CtlStep

LEMMA TeardownStep ==
    ASSUME Inv, NEW k \in Conns, teardown(k) PROVE Inv'
<1>1. PICK e \in Sides : e = "ctl" /\ Peer(e) = "node"
  BY DEF Sides, Peer
<1>2. PICK m : m = destroy(link[k], e)
  OBVIOUS
<1>3. LinkOk(k, m) /\ AtRest(m, e) /\ m.end[Peer(e)] = link[k].end[Peer(e)]
  BY <1>2, LinkIs, DestroyOk
<1>4. Become(k, m) /\ sc' = sc
  BY <1>1, <1>2 DEF teardown
<1>5. QED
  BY <1>1, <1>3, <1>4, CtlStep

LEMMA NetworkStep ==
    ASSUME Inv, NEW k \in Conns, partition(k) \/ heal(k) \/ peerResets(k) PROVE Inv'
<1>1. link[k] \in LinkType /\ (link[k].cut => link[k].everCut)
  BY LinkIs DEF LinkOk
<1>2. CASE partition(k)
  <2>1. NetChange(link[k], [link[k] EXCEPT !.cut = TRUE, !.everCut = TRUE])
    BY <1>1 DEF NetChange, LinkType
  <2>2. QED
    BY <1>2, <2>1, NetStep DEF partition
<1>3. CASE heal(k)
  <2>1. NetChange(link[k], [link[k] EXCEPT !.cut = FALSE])
    BY <1>1 DEF NetChange, LinkType
  <2>2. QED
    BY <1>3, <2>1, NetStep DEF heal
<1>4. CASE peerResets(k)
  <2>1. NetChange(link[k], [link[k] EXCEPT !.reset = TRUE])
    BY <1>1 DEF NetChange, LinkType
  <2>2. QED
    BY <1>4, <2>1, NetStep DEF peerResets
<1>5. QED
  BY <1>2, <1>3, <1>4

LEMMA SendDataStep ==
    ASSUME Inv, NEW k \in Conns, NEW e \in Sides, sendData(k, e) PROVE Inv'
<1>1. PICK l : l = link[k]
  OBVIOUS
<1>2. PICK m : m = send([l EXCEPT !.end[e].sent = @ + 1], e, Data(l.end[e].sent + 1))
  OBVIOUS
<1>3. LinkOk(k, l) /\ AtRest(l, e) /\ l.end[e].life = "live" /\ l.end[e].ready /\ ~l.end[e].failed
  BY <1>1, LinkIs DEF sendData, Live
<1>4. Turned(k, link[k], m, e)
  BY <1>1, <1>2, <1>3, SendDataOk
<1>5. Become(k, m) /\ sc' = sc
  BY <1>1, <1>2, Zenon DEF sendData
<1>6. QED
  BY <1>4, <1>5, TurnedStep

LEMMA SendBadStep ==
    ASSUME Inv, NEW k \in Conns, NEW e \in Sides, sendBad(k, e) PROVE Inv'
<1>1. PICK f : f = Frame("bad")
  OBVIOUS
<1>2. f \in AnyFrame /\ f.t \notin Flights /\ f.t # "data"
  BY <1>1 DEF Frame, AnyFrame, FrameKinds, Flights
<1>3. PICK m : m = send(link[k], e, f)
  OBVIOUS
<1>4. LinkOk(k, link[k]) /\ AtRest(link[k], e) /\ link[k].end[e].life = "live" /\ link[k].end[e].ready
  BY LinkIs DEF sendBad, Live
<1>5. Turned(k, link[k], m, e)
  BY <1>2, <1>3, <1>4, SendRest
<1>6. Become(k, m) /\ sc' = sc
  BY <1>1, <1>3 DEF sendBad
<1>7. QED
  BY <1>5, <1>6, TurnedStep

\* A node that starts has been fed nothing yet, and does not fail.
LEMMA CalmStart ==
    ASSUME NEW k \in Conns, NEW n \in LinkType, NEW e \in Sides, e = "node", n.end[e].hs = "start",
           n.end[e].fed = <<>>, n.end[e].outbound = <<>>, ~n.end[e].established, ~n.end[e].streamFailed,
           ~n.end[e].failed, NEW m, m = settle(driveHandshake(k, n, e), e)
    PROVE  ~m.end[e].failed
<1>1. PICK x : x = n.end[e]
  OBVIOUS
<1>2. x \in EndType
  BY <1>1, Linked
<1>3. PICK g \in AnyFrame : g = Frame("CH")
  BY DEF Frame, AnyFrame, FrameKinds
<1>4. PICK r : r = handshake(k, e, n.end[e].hs, n.end[e].fed)
  OBVIOUS
<1>5. r = Shake("start", 0, 0, g)
  BY <1>4 DEF handshake, Shake, Flight
<1>6. PICK z : z = Shook(n.end[e], r)
  OBVIOUS
<1>7. driveHandshake(k, n, e) = Put(n, e, z)
  <2>1. r.hs = "start"
    BY <1>5 DEF Shake
  <2>2. driveHandshake(k, n, e) =
          IF r.hs = "refused" THEN fail(n, e, "handshake")
          ELSE IF r.hs = "done"
          THEN deliverAppData(onReady(k, [Put(n, e, Shook(n.end[e], r)) EXCEPT !.end[e].established = TRUE], e), e)
          ELSE Put(n, e, Shook(n.end[e], r))
    BY <1>4, DriveIs
  <2>3. QED
    BY <1>6, <2>1, <2>2
<1>8. z \in EndType /\ z.outbound = <<>> /\ ~z.failed
  <2>1. Stepped(x, z, "start", 0, 0, g)
    <3>1. PICK hs \in {"start", "wait", "done"}, u \in {0, 1}, a \in {0, 1} : hs = "start" /\ u = 0 /\ a = 0
      OBVIOUS
    <3>2. z = Shook(x, Shake(hs, u, a, g)) /\ (u = 1 => x.fed # <<>>)
      BY <1>1, <1>5, <1>6, <3>1
    <3>3. Stepped(x, z, hs, u, a, g)
      BY <1>2, <3>2, ShookIs
    <3>4. QED
      BY <3>1, <3>3
  <2>2. QED
    BY <1>1, <2>1 DEF Stepped
<1>9. PICK v : v = Put(n, e, z)
  OBVIOUS
<1>10. v \in LinkType /\ v.end[e] = z
  BY <1>8, <1>9, Placed DEF Becomes, Beside
<1>11. flushOutbound(v, e) = v
  BY <1>8, <1>10 DEF flushOutbound
<1>12. m = updateInterest(v, e)
  BY <1>7, <1>9, <1>11 DEF settle
<1>13. PICK b \in BOOLEAN : b = (z.outbound # <<>>)
  OBVIOUS
<1>14. PICK y : y = [z EXCEPT !.wantWrite = b]
  OBVIOUS
<1>15. m = v \/ m = Put(v, e, y)
  <2>1. m = IF v.end[e].streamFailed \/ ~v.end[e].token THEN v
            ELSE Put(v, e, [v.end[e] EXCEPT !.wantWrite = v.end[e].outbound # <<>>])
    BY <1>10, <1>12, InterestShape
  <2>2. [v.end[e] EXCEPT !.wantWrite = v.end[e].outbound # <<>>] = y
    BY <1>10, <1>13, <1>14, Zenon
  <2>3. QED
    BY <2>1, <2>2
<1>16. y \in EndType /\ ~y.failed
  BY <1>8, <1>14 DEF EndType
<1>17. Put(v, e, y).end[e] = y
  BY <1>10, <1>16, Placed DEF Becomes
<1>18. QED
  BY <1>8, <1>10, <1>15, <1>16, <1>17

LEMMA AcceptCalm ==
    ASSUME NEW k \in Conns, NEW l, LinkOk(k, l), l.end["node"].life = "none", NEW m, m = start(k, l, "node")
    PROVE  ~m.end["node"].failed
<1>1. PICK e \in Sides, c \in BOOLEAN, j \in Nat : e = "node" /\ c = TRUE /\ j = 0
  BY DEF Sides
<1>2. l \in LinkType /\ l.end[e] = FreshEnd
  BY <1>1, Records DEF EndOk
<1>3. FreshEnd = Pending(c, j)
  <2>1. FreshEnd \in EndType /\ FreshEnd.connectConfirmed = c /\ FreshEnd.addressCursor = j
    BY <1>1, FreshIs DEF FreshEnd
  <2>2. QED
    BY <2>1 DEF Pending, EndType
<1>4. PICK r : r = Opened(c, j)
  OBVIOUS
<1>5. r \in EndType /\ Blank(r) /\ ~r.failed
  BY <1>4, OpenedIs
<1>6. PICK n : n = Put(l, e, r)
  OBVIOUS
<1>7. n \in LinkType /\ n.end[e] = r
  BY <1>2, <1>5, <1>6, Placed DEF Becomes, Beside
<1>8. m = settle(driveHandshake(k, n, e), e)
  <2>1. l.end[e] = Pending(c, j)
    BY <1>2, <1>3
  <2>2. start(k, l, e) = IF c THEN settle(driveHandshake(k, Put(l, e, Opened(c, j)), e), e) ELSE Put(l, e, Opened(c, j))
    BY <1>2, <2>1, StartIs
  <2>3. QED
    BY <1>1, <1>4, <1>6, <2>2
<1>9. ~m.end[e].failed
  BY <1>1, <1>5, <1>7, <1>8, CalmStart DEF Blank
<1>10. QED
  BY <1>1, <1>9

\* Each link as a step leaves it.
LEMMA LinksBecome ==
    ASSUME sc' = sc, NEW g, link' = g, g \in [Conns -> LinkType],
           \A k \in Conns : LinkOk(k, g[k]) /\ \A e \in Sides : AtRest(g[k], e)
    PROVE  LinksOk' /\ Conns' = Conns /\ ServerType' = ServerType
<1>1. Conns' = Conns
  BY DEF Conns
<1>2. ASSUME NEW k \in Conns PROVE LinkOk(k, link[k])' /\ \A e \in Sides : AtRest(link[k], e)'
  <2>1. PICK v : v = g[k]
    OBVIOUS
  <2>2. LinkOk(k, v) /\ \A e \in Sides : AtRest(v, e)
    BY <2>1
  <2>3. link'[k] = v
    BY <2>1
  <2>4. LinkOk(k, link[k])'
    BY <2>2, <2>3, LinkStays
  <2>5. QED
    BY <2>2, <2>3, <2>4
<1>3. QED
  BY <1>1, <1>2 DEF LinksOk, ServerType

\* The node's end of a link is accepted, closed or left alone.
LEMMA NodeIs ==
    ASSUME Inv, NEW k \in Conns
    PROVE  /\ LET m == destroy(link[k], "node")
              IN  /\ LinkOk(k, m) /\ \A e \in Sides : AtRest(m, e)
                  /\ m.end["node"].life = "gone"
           /\ link[k].end["node"].life = "none" =>
              LET m == start(k, link[k], "node")
              IN  /\ LinkOk(k, m) /\ \A e \in Sides : AtRest(m, e)
                  /\ m.end["node"].life = "live" /\ ~m.end["node"].failed
<1>1. PICK e \in Sides : e = "node" /\ Peer(e) = "ctl"
  BY DEF Sides, Peer
<1>2. Peer(e) \in Sides /\ \A i \in Sides : i = e \/ i = Peer(e)
  BY Two
<1>3. LinkOk(k, link[k]) /\ AtRest(link[k], Peer(e))
  BY <1>2, LinkIs
<1>4. ASSUME NEW m, m.end[Peer(e)] = link[k].end[Peer(e)], AtRest(m, e) PROVE \A i \in Sides : AtRest(m, i)
  <2>1. AtRest(m, Peer(e))
    BY <1>3, <1>4 DEF AtRest, Wanted, Read, Begun
  <2>2. QED
    BY <1>2, <1>4, <2>1
<1>5. ASSUME NEW m, m = destroy(link[k], "node")
      PROVE  LinkOk(k, m) /\ (\A i \in Sides : AtRest(m, i)) /\ m.end["node"].life = "gone"
  <2>1. LinkOk(k, m) /\ AtRest(m, e) /\ m.end[Peer(e)] = link[k].end[Peer(e)] /\ m.end[e].life = "gone"
    BY <1>1, <1>3, <1>5, DestroyOk
  <2>2. QED
    BY <1>1, <1>4, <2>1
<1>6. ASSUME link[k].end["node"].life = "none", NEW m, m = start(k, link[k], "node")
      PROVE  LinkOk(k, m) /\ (\A i \in Sides : AtRest(m, i)) /\ m.end["node"].life = "live" /\ ~m.end["node"].failed
  <2>1. LinkOk(k, m) /\ AtRest(m, "node") /\ Beside(link[k], m, "node") /\ m.end["node"].life = "live"
    BY <1>3, <1>6, AcceptOk
  <2>2. ~m.end["node"].failed
    BY <1>3, <1>6, AcceptCalm
  <2>3. QED
    BY <1>1, <1>4, <2>1, <2>2 DEF Beside
<1>7. QED
  BY <1>5, <1>6

LEMMA AcceptStep ==
    ASSUME Inv, onAccept PROVE Inv'
<1>1. sc \in Scenarios /\ sc' = sc /\ link \in [Conns -> LinkType] /\ ServerOk /\ server \in ServerType
  BY DEF Inv, LinksOk, ServerOk, onAccept
<1>2. PICK lost \in SUBSET Backlog :
        /\ link' = [k \in Conns |-> CASE k \in lost -> destroy(link[k], "node")
                                      [] k \in Backlog \ lost -> start(k, link[k], "node")
                                      [] OTHER -> link[k]]
        /\ server' = [server EXCEPT !.connections = @ \union (Backlog \ lost),
                                    !.acceptedTotal = @ + Cardinality(Backlog \ lost)]
  BY DEF onAccept
<1>3. Backlog \subseteq Conns /\ \A k \in Backlog : link[k].end["node"].life = "none"
  BY DEF Backlog
<1> DEFINE taken == Backlog \ lost
<1>4. taken \subseteq Conns /\ \A k \in lost : k \in Conns /\ k \notin taken
  BY <1>3
<1>5. \A k \in taken : link[k].end["node"].life = "none"
  BY <1>3
<1>6. PICK g : g = link'
  OBVIOUS
<1>7. DOMAIN g = Conns
  BY <1>2, <1>6
<1>8. \A k \in Conns : g[k] = IF k \in lost THEN destroy(link[k], "node")
                               ELSE IF k \in taken THEN start(k, link[k], "node") ELSE link[k]
  BY <1>2, <1>6
<1> HIDE DEF taken
<1>9. ASSUME NEW k \in Conns
      PROVE  /\ LinkOk(k, g[k]) /\ \A e \in Sides : AtRest(g[k], e)
             /\ k \in lost => g[k].end["node"].life = "gone"
             /\ k \in taken => g[k].end["node"].life = "live" /\ ~g[k].end["node"].failed
             /\ k \notin lost \union taken => g[k] = link[k]
  <2>1. CASE k \in lost
    <3>1. g[k] = destroy(link[k], "node")
      BY <1>8, <2>1
    <3>2. QED
      BY <1>4, <2>1, <3>1, NodeIs
  <2>2. CASE k \in taken
    <3>1. g[k] = start(k, link[k], "node")
      BY <1>4, <1>8, <2>2
    <3>2. QED
      BY <1>4, <1>5, <2>2, <3>1, NodeIs
  <2>3. CASE k \notin lost \union taken
    <3>1. g[k] = link[k]
      BY <1>8, <2>3
    <3>2. QED
      BY <2>3, <3>1, LinkIs
  <2>4. QED
    BY <2>1, <2>2, <2>3
<1>10. g \in [Conns -> LinkType]
  <2>1. \A k \in Conns : g[k] \in LinkType
    BY <1>9 DEF LinkOk
  <2>2. g = [k \in Conns |-> CASE k \in lost -> destroy(link[k], "node")
                               [] k \in Backlog \ lost -> start(k, link[k], "node")
                               [] OTHER -> link[k]]
    BY <1>2, <1>6
  <2>3. g = [k \in Conns |-> g[k]]
    BY <2>2, Zenon
  <2>4. QED
    BY <2>1, <2>3
<1>11. LinksOk' /\ Conns' = Conns /\ ServerType' = ServerType
  BY <1>1, <1>6, <1>9, <1>10, LinksBecome
<1>12. Cardinality(taken) \in Nat
  <2>1. IsFiniteSet(Conns)
    BY <1>1, ScenariosAssumption, FS_Interval DEF Conns
  <2>2. QED
    BY <1>4, <2>1, FS_Subset, FS_CardinalityType
<1>13. /\ server' \in ServerType /\ server'.connections = server.connections \union taken
       /\ server'.reapScheduled = server.reapScheduled /\ server'.reapTimer = server.reapTimer
       /\ server'.pendingRemoval = server.pendingRemoval
  <2>1. PICK n \in Nat : n = server.acceptedTotal + Cardinality(taken)
    BY <1>1, <1>12 DEF ServerType
  <2>2. PICK c \in SUBSET Conns : c = server.connections \union taken
    BY <1>1, <1>4 DEF ServerType
  <2>3. server' = [server EXCEPT !.connections = c, !.acceptedTotal = n]
    BY <1>2, <2>1, <2>2 DEF taken
  <2>4. QED
    BY <1>1, <2>2, <2>3 DEF ServerType
<1>14. server.connections = {k \in Conns : link[k].end["node"].life = "live"}
  BY <1>1 DEF ServerOk
<1>15. server'.connections = {k \in Conns : g[k].end["node"].life = "live"}
  <2>1. ASSUME NEW k \in Conns PROVE g[k].end["node"].life = "live" <=> k \in server.connections \union taken
    <3>1. CASE k \in lost
      BY <1>3, <1>4, <1>9, <1>14, <3>1
    <3>2. CASE k \in taken
      BY <1>9, <3>2
    <3>3. CASE k \notin lost \union taken
      BY <1>9, <1>14, <3>3
    <3>4. QED
      BY <3>1, <3>2, <3>3
  <2>2. QED
    BY <1>4, <1>13, <1>14, <2>1
<1>16. \A k \in server'.connections :
         g[k].end["node"].failed => server'.reapTimer /\ k \in ToSet(server'.pendingRemoval)
  <2>1. SUFFICES ASSUME NEW k \in server'.connections, g[k].end["node"].failed
                 PROVE  server'.reapTimer /\ k \in ToSet(server'.pendingRemoval)
    OBVIOUS
  <2>2. k \in Conns /\ g[k].end["node"].life = "live"
    BY <1>15
  <2>3. k \notin lost /\ k \notin taken
    BY <1>9, <2>1, <2>2
  <2>4. k \in server.connections /\ link[k].end["node"].failed
    BY <1>9, <1>14, <2>1, <2>2, <2>3
  <2>5. QED
    BY <1>1, <1>13, <2>4 DEF ServerOk
<1>17. ServerOk'
  BY <1>1, <1>6, <1>11, <1>13, <1>15, <1>16 DEF ServerOk
<1>18. QED
  BY <1>1, <1>11, <1>17 DEF Inv

LEMMA ReapStep ==
    ASSUME Inv, reap PROVE Inv'
<1>1. sc \in Scenarios /\ sc' = sc /\ link \in [Conns -> LinkType] /\ ServerOk /\ server \in ServerType
  BY DEF Inv, LinksOk, ServerOk, reap
<1> DEFINE dead == ToSet(server.pendingRemoval)
<1>2. PICK g : g = link'
  OBVIOUS
<1>3. DOMAIN g = Conns /\ \A k \in Conns : g[k] = IF k \in dead THEN destroy(link[k], "node") ELSE link[k]
  BY <1>2 DEF reap
<1>4. g = [k \in Conns |-> IF k \in dead THEN destroy(link[k], "node") ELSE link[k]]
  BY <1>2 DEF reap
<1> HIDE DEF dead
<1>5. ASSUME NEW k \in Conns
      PROVE  /\ LinkOk(k, g[k]) /\ \A e \in Sides : AtRest(g[k], e)
             /\ k \in dead => g[k].end["node"].life = "gone"
             /\ k \notin dead => g[k] = link[k]
  <2>1. CASE k \in dead
    <3>1. g[k] = destroy(link[k], "node")
      BY <1>3, <2>1
    <3>2. QED
      BY <2>1, <3>1, NodeIs
  <2>2. CASE k \notin dead
    <3>1. g[k] = link[k]
      BY <1>3, <2>2
    <3>2. QED
      BY <2>2, <3>1, LinkIs
  <2>3. QED
    BY <2>1, <2>2
<1>6. g \in [Conns -> LinkType]
  <2>1. \A k \in Conns : g[k] \in LinkType
    BY <1>5 DEF LinkOk
  <2>2. g = [k \in Conns |-> g[k]]
    BY <1>4, Zenon
  <2>3. QED
    BY <2>1, <2>2
<1>7. LinksOk' /\ Conns' = Conns /\ ServerType' = ServerType
  BY <1>1, <1>2, <1>5, <1>6, LinksBecome
<1>8. /\ server' \in ServerType /\ server'.connections = server.connections \ dead
      /\ ~server'.reapScheduled /\ ~server'.reapTimer
  <2>1. <<>> \in Seq(Conns)
    OBVIOUS
  <2>2. server' = [server EXCEPT !.reapTimer = FALSE, !.reapScheduled = FALSE, !.pendingRemoval = <<>>,
                                 !.connections = @ \ dead]
    BY DEF reap, reapPending, dead
  <2>3. QED
    BY <1>1, <2>1, <2>2 DEF ServerType
<1>9. server.connections = {k \in Conns : link[k].end["node"].life = "live"}
  BY <1>1 DEF ServerOk
<1>10. server'.connections = {k \in Conns : g[k].end["node"].life = "live"}
  <2>1. ASSUME NEW k \in Conns PROVE g[k].end["node"].life = "live" <=> k \in server.connections \ dead
    <3>1. CASE k \in dead
      BY <1>5, <3>1
    <3>2. CASE k \notin dead
      BY <1>5, <1>9, <3>2
    <3>3. QED
      BY <3>1, <3>2
  <2>2. QED
    BY <1>8, <1>9, <2>1
<1>11. \A k \in server'.connections : ~g[k].end["node"].failed
  <2>1. SUFFICES ASSUME NEW k \in server'.connections, g[k].end["node"].failed PROVE FALSE
    OBVIOUS
  <2>2. k \in Conns /\ k \in server.connections /\ k \notin dead
    BY <1>8, <1>10
  <2>3. link[k].end["node"].failed
    BY <1>5, <2>1, <2>2
  <2>4. QED
    BY <1>1, <2>2, <2>3 DEF ServerOk, dead
<1>12. ServerOk'
  BY <1>1, <1>2, <1>7, <1>8, <1>10, <1>11 DEF ServerOk
<1>13. QED
  BY <1>1, <1>7, <1>12 DEF Inv

-----------------------------------------------------------------------------
(* A connection on which nothing is due *)

LEMMA NothingJoined == Joined(<<>>, <<>>, <<>>) = <<>>
BY ConcatEmptySeq DEF Joined

\* Nothing is on its way between two ends that are up.
LEMMA Settled ==
    ASSUME Inv, NEW k \in Conns, ~Busy(k), NEW l, l = link[k], ~l.cut,
           \A i \in Sides : l.end[i].life = "live" /\ ~l.end[i].failed,
           NEW e \in Sides
    PROVE  /\ ~l.shut[e] /\ In(l, e) = <<>> /\ l.end[e].connectConfirmed /\ l.end[e].token /\ Way(l, e)
<1>1. LinkOk(k, l) /\ l \in LinkType /\ \A i \in Sides : AtRest(l, i)
  BY LinkIs
<1>2. ASSUME NEW i \in Sides
      PROVE  /\ l.end[i] \in EndType /\ EndOk(k, i, l.end[i]) /\ ~l.shut[i] /\ ~l.end[i].streamFailed /\ l.end[i].token
             /\ l.to[i] \in Wire /\ Way(l, i)
  <2>1. l.end[i] \in EndType /\ EndOk(k, i, l.end[i]) /\ SideOk(k, l, i) /\ l.to[i] \in Wire
    BY <1>1, Records
  <2>2. ~l.end[i].streamFailed /\ l.end[i].token
    BY <2>1 DEF EndOk, Stopped
  <2>3. ~l.shut[i]
    BY <2>1 DEF SideOk
  <2>4. Way(l, i)
    BY <2>1, <2>3 DEF SideOk, WayOk
  <2>5. QED
    BY <2>1, <2>2, <2>3, <2>4
<1>3. ASSUME NEW i \in Sides PROVE l.end[i].connectConfirmed
  <2>1. CASE i = "node"
    BY <1>2, <2>1 DEF EndOk, Reached
  <2>2. CASE i = "ctl"
    <3>1. ~Connecting(k)
      BY DEF Busy
    <3>2. QED
      BY <1>2, <2>2, <3>1 DEF Connecting, Watched, Live
  <2>3. QED
    BY <2>1, <2>2 DEF Sides
<1>4. ASSUME NEW i \in Sides PROVE l.to[i] = <<>>
  <2>1. ~EventDue(k, i)
    BY DEF Busy
  <2>2. ~Readable(k, i)
    BY <1>2, <1>3, <2>1 DEF EventDue, Watched, Live
  <2>3. QED
    BY <2>2 DEF Readable
<1>5. ASSUME NEW i \in Sides PROVE l.end[i].outbound = <<>> /\ l.end[i].fed = <<>>
  <2>1. ~EventDue(k, i)
    BY DEF Busy
  <2>2. ~(Writable(k, i) /\ l.end[i].outbound # <<>>)
    BY <1>2, <1>3, <2>1 DEF EventDue, Watched, Live
  <2>3. l.to[Peer(i)] = <<>> /\ Len(l.to[Peer(i)]) < SockCapacity
    <3>1. l.to[Peer(i)] = <<>> /\ Len(<<>>) = 0
      BY <1>4, Two
    <3>2. QED
      BY <3>1, ConnectionAssumption
  <2>4. l.end[i].outbound # <<>> => l.end[i].wantWrite
    BY <1>1, <1>2 DEF AtRest, Wanted
  <2>5. l.end[i].fed = <<>>
    BY <1>1, <1>2 DEF AtRest, Read
  <2>6. QED
    BY <2>2, <2>3, <2>4, <2>5 DEF Writable
<1>6. In(l, e) = <<>>
  <2>1. l.end[e].fed = <<>> /\ l.to[e] = <<>> /\ l.end[Peer(e)].outbound = <<>>
    BY <1>4, <1>5, Two
  <2>2. QED
    BY <2>1, NothingJoined DEF In
<1>7. QED
  BY <1>2, <1>3, <1>6

\* While the network answers in time nothing loses its lease.
LEMMA LeaseKept ==
    ASSUME Inv, NEW k \in Conns, NEW e \in Sides, NEW l, l = link[k], l.end[e].life = "live", l.end[e].timer,
           ~l.end[e].failed, expired(l, e), l.cut \/ ~Busy(k)
    PROVE  l.everCut
<1>1. LinkOk(k, l) /\ l \in LinkType /\ AtRest(l, e) /\ (l.cut => l.everCut)
  BY LinkIs DEF LinkOk
<1>2. SUFFICES ASSUME ~l.cut, ~Busy(k) PROVE FALSE
  BY <1>1
<1> DEFINE p == Peer(e)
           x == l.end[e]
           y == l.end[p]
<1>3. /\ p \in Sides /\ p # e /\ Peer(p) = e /\ (\A i \in Sides : i = e \/ i = p)
      /\ x \in EndType /\ y \in EndType /\ SideOk(k, l, e) /\ SideOk(k, l, p)
  BY <1>1, Two, Records
<1>4. x.ready /\ x.hs = "done" /\ x.connectConfirmed
  BY <1>1, Armed
<1>5. x.token /\ ~l.shut[e] /\ ~x.sawInbound
  BY <1>3 DEF SideOk, EndOk, Stopped, expired
<1>6. ~l.shut[p]
  <2>1. ~Readable(k, e)
    BY <1>2, <1>4, <1>5 DEF Busy, EventDue, Watched, Live
  <2>2. QED
    BY <1>2, <2>1 DEF Readable
<1>7. y.life = "live"
  <2>1. y.life # "gone"
    BY <1>3, <1>6 DEF SideOk
  <2>2. y.hs # "start"
    BY <1>3, <1>4 DEF SideOk, Turns, Used, Given
  <2>3. y.life # "none"
    BY <1>3, <2>2 DEF SideOk, EndOk, FreshEnd
  <2>4. QED
    BY <1>3, <2>1, <2>3 DEF EndType
<1>8. ~y.failed
  <2>1. CASE p = "ctl"
    BY <1>2, <1>7, <2>1 DEF Busy, Live
  <2>2. CASE p = "node"
    <3>1. ServerOk
      BY DEF Inv
    <3>2. k \in server.connections
      BY <1>7, <2>2, <3>1 DEF ServerOk
    <3>3. ~(server.reapTimer /\ k \in ToSet(server.pendingRemoval))
      BY <1>2 DEF Busy
    <3>4. QED
      BY <2>2, <3>1, <3>2, <3>3 DEF ServerOk
  <2>3. QED
    BY <1>3, <2>1, <2>2 DEF Sides
<1>9. \A i \in Sides : l.end[i].life = "live" /\ ~l.end[i].failed
  BY <1>3, <1>7, <1>8
<1>10. In(l, e) = <<>> /\ In(l, p) = <<>>
  <2> HIDE DEF p
  <2>1. QED
    BY <1>2, <1>3, <1>9, Settled
<1>11. In(l, e) # <<>> \/ Pinged(l, p)
  BY <1>3, <1>4, <1>5, <1>6, <1>8 DEF SideOk, Owed, Waits
<1>12. ~Pinged(l, p)
  BY <1>10 DEF Pinged
<1>13. QED
  BY <1>10, <1>11, <1>12

LEMMA TickStep ==
    ASSUME Inv, NEW k \in Conns, NEW e \in Sides, tick(k, e) PROVE Inv'
<1>1. PICK l : l = link[k]
  OBVIOUS
<1>2. PICK m : m = heartbeatTick(l, e)
  OBVIOUS
<1>3. /\ LinkOk(k, l) /\ AtRest(l, e) /\ l.end[e].life = "live" /\ l.end[e].timer
      /\ (sc.timely => l.cut \/ ~Busy(k))
  BY <1>1, LinkIs DEF tick, Live
<1>4. ~l.end[e].failed /\ expired(l, e) /\ sc.timely => l.everCut
  BY <1>1, <1>3, LeaseKept
<1>5. Turned(k, link[k], m, e)
  BY <1>1, <1>2, <1>3, <1>4, TickOk
<1>6. Become(k, m) /\ sc' = sc
  BY <1>1, <1>2 DEF tick
<1>7. QED
  BY <1>5, <1>6, TurnedStep

-----------------------------------------------------------------------------
(* Init, Next and the theorems *)

LEMMA FreshLinkOk ==
    ASSUME NEW k \in Conns, sc \in Scenarios
    PROVE  LinkOk(k, FreshLink) /\ \A e \in Sides : AtRest(FreshLink, e)
<1>1. PICK l : l = FreshLink
  OBVIOUS
<1>2. /\ l.end = [e \in Sides |-> FreshEnd] /\ l.to = [e \in Sides |-> <<>>] /\ l.shut = [e \in Sides |-> FALSE]
      /\ ~l.tcp /\ ~l.cut /\ ~l.everCut /\ ~l.reset /\ l \in LinkType
  <2>1. FreshEnd \in EndType /\ <<>> \in Wire
    BY FreshIs DEF Wire
  <2>2. QED
    BY <1>1, <2>1 DEF FreshLink, LinkType
<1>3. /\ FreshEnd \in EndType /\ FreshEnd.life = "none" /\ FreshEnd.connectConfirmed /\ ~FreshEnd.token
      /\ FreshEnd.hs = "start" /\ ~FreshEnd.established /\ ~FreshEnd.streamFailed /\ FreshEnd.outbound = <<>>
      /\ FreshEnd.fed = <<>> /\ ~FreshEnd.ready /\ ~FreshEnd.failed /\ FreshEnd.cause = "none" /\ ~FreshEnd.timer
      /\ FreshEnd.addressCursor = 0 /\ FreshEnd.sent = 0 /\ FreshEnd.got = <<>> /\ FreshEnd.silent = 0
      /\ ~FreshEnd.badSeen
  BY FreshIs DEF FreshEnd
<1>4. ASSUME NEW e \in Sides PROVE SideOk(k, l, e) /\ AtRest(l, e)
  <2>1. Peer(e) \in Sides /\ l.end[e] = FreshEnd /\ l.end[Peer(e)] = FreshEnd /\ l.to[e] = <<>> /\ ~l.shut[e] /\ ~l.shut[Peer(e)]
    BY <1>2, Two
  <2>2. In(l, e) = <<>>
    BY <1>3, <2>1, NothingJoined DEF In
  <2>3. EndOk(k, e, FreshEnd)
    <3>1. Len(sc.addrs[k]) \in Nat
      BY AddressesAre
    <3>2. Handshaken(FreshEnd) /\ Stopped(FreshEnd) /\ Admitted(k, e, FreshEnd) /\ Leased(FreshEnd)
      BY <1>3 DEF Handshaken, Stopped, Admitted, Leased
    <3>3. Reached(k, e, FreshEnd)
      BY <1>3, <3>1 DEF Reached
    <3>4. QED
      BY <3>2, <3>3 DEF EndOk
  <2>4. CauseOk(k, l, e)
    BY <1>3, <2>1 DEF CauseOk
  <2>5. Given(Peer(e), "start") = 0 /\ Used(e, "start") = 0
    BY DEF Given, Used
  <2>6. Way(l, e)
    <3>1. InOrder(<<>>, 0, 0, l.shut[Peer(e)])
      BY RunsEmpty DEF InOrder
    <3>2. Flown(<<>>, 0, FALSE, l.shut[Peer(e)])
      BY DEF Flown
    <3>3. Len(FreshEnd.got) = 0 /\ (FreshEnd.hs = "done") = FALSE /\ Given(Peer(e), FreshEnd.hs) - Used(e, FreshEnd.hs) = 0
      BY <1>3, <2>5
    <3>4. QED
      BY <1>3, <2>1, <2>2, <3>1, <3>2, <3>3 DEF Way
  <2>7. Turns(l, e)
    BY <1>3, <2>1, <2>5 DEF Turns
  <2>8. Fits(l, e)
    <3>1. Len(l.to[e]) = 0
      BY <2>1
    <3>2. QED
      BY <3>1, ConnectionAssumption DEF Fits
  <2>9. GotOk(l, e)
    BY <1>3, <2>1 DEF GotOk
  <2>10. Owed(l, e)
    BY <1>3, <2>1 DEF Owed, Waits
  <2>11. AtRest(l, e)
    BY <1>3, <2>1 DEF AtRest, Wanted, Read, Begun
  <2>12. QED
    BY <1>3, <2>1, <2>3, <2>4, <2>6, <2>7, <2>8, <2>9, <2>10, <2>11 DEF SideOk, WayOk
<1>5. QED
  BY <1>1, <1>2, <1>4 DEF LinkOk

LEMMA InitInv == Init => Inv
<1>1. SUFFICES ASSUME Init PROVE Inv
  OBVIOUS
<1>2. /\ sc \in Scenarios /\ link = [k \in Conns |-> FreshLink]
      /\ server = [connections |-> {}, pendingRemoval |-> <<>>, reapScheduled |-> FALSE,
                   reapTimer |-> FALSE, acceptedTotal |-> 0]
  BY <1>1 DEF Init, Conns
<1>3. \A k \in Conns : link[k] = FreshLink
  BY <1>2
<1>4. ASSUME NEW k \in Conns PROVE LinkOk(k, link[k]) /\ \A e \in Sides : AtRest(link[k], e)
  BY <1>2, <1>3, FreshLinkOk
<1>5. LinksOk
  <2>1. \A k \in Conns : link[k] \in LinkType
    BY <1>4 DEF LinkOk
  <2>2. link \in [Conns -> LinkType]
    BY <1>2, <1>3, <2>1
  <2>3. QED
    BY <1>4, <2>2 DEF LinksOk
<1>6. ServerOk
  <2>1. server \in ServerType
    BY <1>2 DEF ServerType
  <2>2. \A k \in Conns : link[k].end["node"].life # "live"
    BY <1>3 DEF FreshLink, FreshEnd, Sides
  <2>3. QED
    BY <1>2, <2>1, <2>2 DEF ServerOk
<1>7. QED
  BY <1>2, <1>5, <1>6 DEF Inv

LEMMA NextInv == Inv /\ [Next]_vars => Inv'
<1>1. SUFFICES ASSUME Inv, [Next]_vars PROVE Inv'
  OBVIOUS
<1>2. ASSUME NEW k \in Conns, connect(k) \/ onConnectEvent(k) \/ teardown(k) PROVE Inv'
  BY <1>1, <1>2, ConnectStep, ConnectEventStep, TeardownStep
<1>3. ASSUME NEW k \in Conns, partition(k) \/ heal(k) \/ peerResets(k) PROVE Inv'
  BY <1>1, <1>3, NetworkStep
<1>4. ASSUME NEW k \in Conns, NEW e \in Sides, onEvent(k, e) \/ tick(k, e) \/ sendData(k, e) \/ sendBad(k, e)
      PROVE  Inv'
  BY <1>1, <1>4, EventStep, TickStep, SendDataStep, SendBadStep
<1>5. CASE onAccept
  BY <1>1, <1>5, AcceptStep
<1>6. CASE reap
  BY <1>1, <1>6, ReapStep
<1>7. CASE UNCHANGED vars
  <2>1. sc' = sc /\ link' = link /\ server' = server /\ Conns' = Conns
    BY <1>7 DEF vars, Conns
  <2>2. PICK g : g = link
    OBVIOUS
  <2>3. LinksOk' /\ Conns' = Conns /\ ServerType' = ServerType
    <3>1. g \in [Conns -> LinkType] /\ \A k \in Conns : LinkOk(k, g[k]) /\ \A e \in Sides : AtRest(g[k], e)
      BY <1>1, <2>2 DEF Inv, LinksOk
    <3>2. QED
      BY <2>1, <2>2, <3>1, LinksBecome
  <2>4. QED
    BY <1>1, <2>1, <2>3 DEF Inv, ServerOk
<1>8. QED
  BY <1>1, <1>2, <1>3, <1>4, <1>5, <1>6, <1>7 DEF Next

LEMMA SpecInv == Spec => []Inv
<1>1. Init => Inv
  BY InitInv
<1>2. Inv /\ [Next]_vars => Inv'
  BY NextInv
<1>3. QED
  BY <1>1, <1>2, PTL DEF Spec

\* Whatever the reads, the buffers and the order of the handshake, each session
\* is handed a prefix of what its peer sent, and a node none of what an
\* unauthorized controller sends (TlsStream, authorize of native_transport.cpp).
THEOREM SessionsGetWhatWasSent == Spec => []OnlyAuthorizedInOrder
<1>1. Inv => OnlyAuthorizedInOrder
  <2>1. SUFFICES ASSUME Inv, NEW k \in Conns, NEW e \in Sides, NEW l, l = link[k], NEW g, g = l.end[e].got
                 PROVE  /\ g = [i \in 1 .. Len(g) |-> Data(i)] /\ Len(g) <= l.end[Peer(e)].sent
                        /\ e = "node" /\ sc.cred[k] \in {"revoked", "unlisted", "imposter"} => g = <<>>
    BY DEF OnlyAuthorizedInOrder
  <2>2. LinkOk(k, l)
    BY <2>1, LinkIs
  <2>3. /\ Peer(e) \in Sides /\ l.end[e] \in EndType /\ l.end[Peer(e)] \in EndType
        /\ SideOk(k, l, e) /\ SideOk(k, l, Peer(e))
    BY <2>2, Two, Records
  <2>4. g \in Wire /\ Len(g) \in Nat /\ DOMAIN g = 1 .. Len(g) /\ g = [i \in 1 .. Len(g) |-> g[i]]
    <3>1. g \in Wire
      BY <2>1, <2>3 DEF EndType
    <3>2. QED
      BY <3>1, LenProperties DEF Wire
  <2>5. Len(g) <= l.end[Peer(e)].sent /\ \A i \in 1 .. Len(g) : g[i] = Data(i)
    BY <2>1, <2>3 DEF SideOk, GotOk
  <2>6. g = [i \in 1 .. Len(g) |-> Data(i)]
    BY <2>4, <2>5
  <2>7. ASSUME e = "node", sc.cred[k] \in {"revoked", "unlisted", "imposter"} PROVE g = <<>>
    <3>1. CASE sc.cred[k] \in {"revoked", "unlisted"}
      <4>1. ~l.end[e].ready
        BY <2>3, <2>7, <3>1 DEF SideOk, EndOk, Admitted, Handshaken
      <4>2. QED
        BY <2>1, <2>3, <4>1 DEF SideOk, EndOk, Handshaken
    <3>2. CASE sc.cred[k] = "imposter"
      <4>1. Peer(e) = "ctl"
        BY <2>7 DEF Peer
      <4>2. l.end[Peer(e)].hs # "done"
        BY <2>3, <3>2, <4>1 DEF SideOk, EndOk, Admitted
      <4>3. l.end[Peer(e)].sent = 0
        BY <2>3, <4>2 DEF SideOk, EndOk, Handshaken, EndType
      <4>4. Len(g) = 0
        BY <2>4, <2>5, <4>3
      <4>5. QED
        BY <2>4, <4>4, EmptySeq DEF Wire
    <3>3. QED
      BY <2>7, <3>1, <3>2
  <2>8. QED
    BY <2>5, <2>6, <2>7
<1>2. QED
  BY <1>1, SpecInv, PTL

\* No live end has gone through more than maxMissed silent intervals, and no
\* connection fails without its reason: a lease only after that silence, and
\* never while the network answers in time (heartbeatTick, confirmConnect).
THEOREM LeasesAreExact == Spec => []LeaseExact
<1>1. Inv => LeaseExact
  <2>1. SUFFICES ASSUME Inv, NEW k \in Conns, NEW e \in Sides, NEW l, l = link[k]
                 PROVE  /\ l.end[e].ready /\ ~l.end[e].failed => l.end[e].silent <= maxMissed
                        /\ l.end[e].cause = "connect" => \A i \in DOMAIN sc.addrs[k] : sc.addrs[k][i] \in {"refused", "timeout"}
                        /\ l.end[e].cause = "lease" => l.end[e].silent > maxMissed /\ (sc.timely => l.everCut)
                        /\ l.end[e].cause = "unauthorized" => sc.cred[k] = "unlisted"
                        /\ l.end[e].cause = "handshake" => sc.cred[k] \in {"revoked", "imposter"}
    BY DEF LeaseExact, SilentPeerFenced, FailureJustified
  <2>2. LinkOk(k, l)
    BY <2>1, LinkIs
  <2>3. SideOk(k, l, e)
    BY <2>2 DEF LinkOk
  <2>4. l.end[e].ready /\ ~l.end[e].failed => l.end[e].silent <= maxMissed
    BY <2>3, ConnectionAssumption DEF SideOk, EndOk, Leased
  <2>5. QED
    BY <2>3, <2>4 DEF SideOk, CauseOk, Unreachable
<1>2. QED
  BY <1>1, SpecInv, PTL

\* Every failed connection that NodeServer still holds is queued, with the reap
\* timer armed, and what it holds is live (dropConnection, reapPending).
THEOREM FailedAreReaped == Spec => []FailedIsReaped
<1>1. Inv => FailedIsReaped
  <2>1. SUFFICES ASSUME Inv PROVE FailedIsReaped
    OBVIOUS
  <2>2. ServerOk
    BY <2>1 DEF Inv
  <2>3. QED
    BY <2>2 DEF ServerOk, FailedIsReaped
<1>2. QED
  BY <1>1, SpecInv, PTL

\* When nothing is due on a connection that is up, all that was sent has been
\* delivered (flushOutbound, updateInterest and onReadable of tls_stream.cpp).
THEOREM NothingIsStranded == Spec => []NothingStranded
<1>1. Inv => NothingStranded
  <2>1. SUFFICES ASSUME Inv, NEW k \in Conns, ~Busy(k), NEW l, l = link[k], ~l.cut,
                        \A e \in Sides : l.end[e].life = "live" /\ ~l.end[e].failed,
                        NEW e \in Sides
                 PROVE  Len(l.end[e].got) = l.end[Peer(e)].sent /\ l.end[e].ready
    BY DEF NothingStranded, Live
  <2>2. LinkOk(k, l) /\ \A i \in Sides : AtRest(l, i)
    BY <2>1, LinkIs
  <2>3. ASSUME NEW i \in Sides
        PROVE  /\ ~l.shut[i] /\ In(l, i) = <<>> /\ l.end[i].connectConfirmed /\ l.end[i].token /\ Way(l, i)
               /\ l.end[i] \in EndType /\ EndOk(k, i, l.end[i])
    BY <2>1, <2>2, Settled, Records
  <2>4. ASSUME NEW i \in Sides
        PROVE  /\ InOrder(<<>>, Len(l.end[i].got), l.end[Peer(i)].sent, FALSE)
               /\ Given(Peer(i), l.end[Peer(i)].hs) = Used(i, l.end[i].hs)
    <3>1. Peer(i) \in Sides /\ ~l.shut[Peer(i)] /\ (l.shut[Peer(i)] \in BOOLEAN)
      BY <2>2, <2>3, Two, Linked DEF LinkOk
    <3>2. InOrder(<<>>, Len(l.end[i].got), l.end[Peer(i)].sent, l.shut[Peer(i)])
          /\ Flown(<<>>, Given(Peer(i), l.end[Peer(i)].hs) - Used(i, l.end[i].hs), l.end[Peer(i)].hs = "done", l.shut[Peer(i)])
      BY <2>3 DEF Way
    <3>3. Given(Peer(i), l.end[Peer(i)].hs) - Used(i, l.end[i].hs) = 0
      <4>1. Given(Peer(i), l.end[Peer(i)].hs) - Used(i, l.end[i].hs) \in Nat
            /\ Given(Peer(i), l.end[Peer(i)].hs) - Used(i, l.end[i].hs) <= Len(<<>>)
        BY <3>1, <3>2 DEF Flown
      <4>2. QED
        BY <4>1
    <3>4. Given(Peer(i), l.end[Peer(i)].hs) \in Nat /\ Used(i, l.end[i].hs) \in Nat
      BY DEF Given, Used
    <3>5. Given(Peer(i), l.end[Peer(i)].hs) = Used(i, l.end[i].hs)
      BY <3>3, <3>4
    <3>6. l.shut[Peer(i)] = FALSE
      BY <3>1
    <3>7. InOrder(<<>>, Len(l.end[i].got), l.end[Peer(i)].sent, FALSE)
      BY <3>2, <3>6, Zenon
    <3>8. QED
      BY <3>5, <3>7
  <2>5. \A i \in Sides : l.end[i].hs = "done"
    <3>1. PICK c \in Sides, n \in Sides : c = "ctl" /\ n = "node" /\ Peer(c) = n /\ Peer(n) = c
      BY DEF Sides, Peer
    <3>2. l.end[c].hs \in {"start", "wait", "done"} /\ l.end[n].hs \in {"start", "wait", "done"}
      BY <2>3 DEF EndType
    <3>3. l.end[c].hs # "start"
      BY <2>2, <2>3, <3>1 DEF AtRest, Begun
    <3>4. Given(c, l.end[c].hs) = Used(n, l.end[n].hs) /\ Given(n, l.end[n].hs) = Used(c, l.end[c].hs)
      BY <2>4, <3>1
    <3>5. l.end[c].hs = "done" /\ l.end[n].hs = "done"
      BY <3>1, <3>2, <3>3, <3>4 DEF Given, Used
    <3>6. QED
      BY <3>1, <3>5 DEF Sides
  <2>6. l.end[e].ready
    BY <2>1, <2>3, <2>5 DEF EndOk, Handshaken
  <2>7. Len(l.end[e].got) = l.end[Peer(e)].sent
    <3>1. Len(l.end[e].got) \in Nat
      BY <2>3, LenProperties DEF EndType, Wire
    <3>2. PICK m \in Nat : Runs(<<>>, Len(l.end[e].got), m) /\ m = l.end[Peer(e)].sent
      BY <2>4 DEF InOrder
    <3>3. QED
      BY <3>1, <3>2, RunsEmpty
  <2>8. QED
    BY <2>6, <2>7
<1>2. QED
  BY <1>1, SpecInv, PTL
=============================================================================
