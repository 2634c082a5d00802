------------------------- MODULE DeviceRemapper_proofs -------------------------
(* What the remappers that append while they loop make of a scope, whatever    *)
(* its points, their number and their order: disk and network append one       *)
(* metric for each point, the filesystem balances the bytes of each device.    *)
EXTENDS FoldedRemapper_proofs

-------------------------------------------------------------------------------
(* Appending a few metrics                                                       *)

\* Add, metric by metric.
LEMMA AddFew ==
    ASSUME NEW s, NEW mu, NEW metrics, Len(metrics) \in Nat
    PROVE  /\ Len(metrics) = 0 => Add(s, mu, metrics) = s
           /\ Len(metrics) = 1 => Add(s, mu, metrics) = AfterOne(s, mu, metrics[1])
           /\ Len(metrics) = 2 =>
                Add(s, mu, metrics) = AfterOne(AfterOne(s, mu, metrics[1]), mu, metrics[2])
           /\ Len(metrics) = 3 =>
                Add(s, mu, metrics) =
                  AfterOne(AfterOne(AfterOne(s, mu, metrics[1]), mu, metrics[2]), mu, metrics[3])
<1>1. PICK after : /\ Add(s, mu, metrics) = after[Len(metrics)]
                   /\ after[0] = s
                   /\ \A n \in Nat : n < Len(metrics) =>
                        after[n + 1] = AfterOne(after[n], mu, metrics[n + 1])
  BY AddLoop
<1>2. Len(metrics) > 0 => after[1] = AfterOne(s, mu, metrics[1])
  <2>1. 0 < Len(metrics) => after[0 + 1] = AfterOne(after[0], mu, metrics[0 + 1])
    BY <1>1
  <2>2. QED
    BY <1>1, <2>1
<1>3. Len(metrics) > 1 => after[2] = AfterOne(after[1], mu, metrics[2])
  <2>1. 1 < Len(metrics) => after[1 + 1] = AfterOne(after[1], mu, metrics[1 + 1])
    BY <1>1
  <2>2. QED
    BY <2>1
<1>4. Len(metrics) > 2 => after[3] = AfterOne(after[2], mu, metrics[3])
  <2>1. 2 < Len(metrics) => after[2 + 1] = AfterOne(after[2], mu, metrics[2 + 1])
    BY <1>1
  <2>2. QED
    BY <2>1
<1>5. QED
  BY <1>1, <1>2, <1>3, <1>4

\* What a call has appended to what was there.
AfterEarlier(o) == SubSeq(o, Len(Earlier) + 1, Len(o))

LEMMA AfterEarlierAppend ==
    ASSUME NEW o, IsSeq(o), Len(Earlier) <= Len(o), NEW p
    PROVE  /\ IsSeq(Append(o, p)) /\ Len(Earlier) <= Len(Append(o, p))
           /\ IsSeq(AfterEarlier(o)) /\ AfterEarlier(Append(o, p)) = Append(AfterEarlier(o), p)
<1> DEFINE S == {o[i] : i \in DOMAIN o} \cup {p}
<1>1. o \in Seq(S) /\ Append(o, p) \in Seq(S)
  <2>1. \A A, B : A \subseteq B => Seq(A) \subseteq Seq(B)
    OBVIOUS
  <2>2. o \in Seq(S)
    BY <2>1 DEF IsSeq
  <2> HIDE DEF S
  <2>3. p \in S
    BY DEF S
  <2>4. QED
    BY <2>2, <2>3
<1>2. Len(Earlier) \in Nat /\ Len(o) \in Nat
  BY EarlierAssumption, IsSeqDomain DEF IsSeq
<1> HIDE DEF S
<1>3. Len(Append(o, p)) = Len(o) + 1
  BY <1>1
<1> DEFINE m == Len(Earlier)
           n == Len(o)
<1>4. SubSeq(o, m + 1, n) \in Seq(S)
  BY <1>1, <1>2
<1>5. SubSeq(Append(o, p), m + 1, n + 1) = Append(SubSeq(o, m + 1, n), p)
  <2>1. p \in S
    BY DEF S
  <2> HIDE DEF m, n
  <2>2. m \in Nat /\ n \in Nat /\ m <= n /\ n = Len(o)
    BY <1>2 DEF m, n
  <2>3. Len(SubSeq(Append(o, p), m + 1, n + 1)) = n + 1 - m
    BY <1>1, <1>3, <2>2
  <2>4. Len(Append(SubSeq(o, m + 1, n), p)) = n + 1 - m
    BY <1>1, <1>4, <2>1, <2>2
  <2>5. \A i \in 1..(n + 1 - m) :
          SubSeq(Append(o, p), m + 1, n + 1)[i] = Append(SubSeq(o, m + 1, n), p)[i]
    BY <1>1, <1>3, <1>4, <2>1, <2>2
  <2>6. /\ SubSeq(Append(o, p), m + 1, n + 1) \in Seq(S)
        /\ Append(SubSeq(o, m + 1, n), p) \in Seq(S)
    BY <1>1, <1>3, <1>4, <2>1, <2>2
  <2>7. \A a, b \in Seq(S) :
          Len(a) = Len(b) /\ (\A i \in 1..Len(a) : a[i] = b[i]) => a = b
    OBVIOUS
  <2>8. QED
    BY <2>3, <2>4, <2>5, <2>6, <2>7
<1>6. /\ AfterEarlier(o) = SubSeq(o, m + 1, n)
      /\ AfterEarlier(Append(o, p)) = SubSeq(Append(o, p), m + 1, n + 1)
  BY <1>3 DEF AfterEarlier
<1>7. IsSeq(Append(o, p)) /\ IsSeq(SubSeq(o, m + 1, n))
  BY <1>1, <1>4, SeqIsSeq
<1> HIDE DEF m, n
<1>8. Len(Earlier) <= Len(Append(o, p))
  BY <1>2, <1>3
<1>9. QED
  BY <1>5, <1>6, <1>7, <1>8

LEMMA AfterEarlierOne ==
    ASSUME NEW o, IsSeq(o), Len(Earlier) <= Len(o), NEW mu, NEW metric
    PROVE  /\ IsSeq(AfterOne(o, mu, metric)) /\ Len(Earlier) <= Len(AfterOne(o, mu, metric))
           /\ IsSeq(AfterEarlier(o))
           /\ AfterEarlier(AfterOne(o, mu, metric)) = AfterOne(AfterEarlier(o), mu, metric)
BY AfterEarlierAppend DEF AfterOne

\* Appending a few metrics to out appends them to what the call has appended.
LEMMA AfterEarlierAdd ==
    ASSUME NEW o, IsSeq(o), Len(Earlier) <= Len(o), NEW mu, NEW metrics, Len(metrics) \in 0..3
    PROVE  /\ IsSeq(Add(o, mu, metrics)) /\ Len(Earlier) <= Len(Add(o, mu, metrics))
           /\ AfterEarlier(Add(o, mu, metrics)) = Add(AfterEarlier(o), mu, metrics)
<1> DEFINE o1 == AfterOne(o, mu, metrics[1])
           o2 == AfterOne(o1, mu, metrics[2])
           o3 == AfterOne(o2, mu, metrics[3])
           f == AfterEarlier(o)
<1>1. /\ IsSeq(o1) /\ Len(Earlier) <= Len(o1) /\ AfterEarlier(o1) = AfterOne(f, mu, metrics[1])
  BY AfterEarlierOne
<1> HIDE DEF o1
<1>2. /\ IsSeq(o2) /\ Len(Earlier) <= Len(o2) /\ AfterEarlier(o2) = AfterOne(AfterEarlier(o1), mu, metrics[2])
  BY <1>1, AfterEarlierOne
<1> HIDE DEF o2
<1>3. /\ IsSeq(o3) /\ Len(Earlier) <= Len(o3) /\ AfterEarlier(o3) = AfterOne(AfterEarlier(o2), mu, metrics[3])
  BY <1>2, AfterEarlierOne
<1> HIDE DEF o3, f
<1>4. CASE Len(metrics) = 0
  BY <1>4, AddFew
<1>5. CASE Len(metrics) = 1
  BY <1>1, <1>5, AddFew DEF o1, f
<1>6. CASE Len(metrics) = 2
  BY <1>1, <1>2, <1>6, AddFew DEF o1, o2, f
<1>7. CASE Len(metrics) = 3
  BY <1>1, <1>2, <1>3, <1>7, AddFew DEF o1, o2, o3, f
<1>8. QED
  BY <1>4, <1>5, <1>6, <1>7

-------------------------------------------------------------------------------
(* Disk and network: one metric for each point                                   *)

PassesOn(base, dp) == IF base = "diskscraper" THEN DiskPassesOn(dp) ELSE NetworkPassesOn(dp)
MetricOf(base, dp) == IF base = "diskscraper" THEN DiskMetric(dp) ELSE NetworkMetric(dp)
AttrsOf(base, dp) == IF base = "diskscraper" THEN DiskAttrs(dp) ELSE NetworkAttrs(dp)

\* The points of s that become a metric, and how many there are up to one of them.
PassedIn(base, s) ==
  {i \in DOMAIN s :
     /\ IF base = "diskscraper" THEN DiskPassesOn(s[i]) /\ s[i].kind # "empty"
        ELSE NetworkPassesOn(s[i])
     /\ s[i].ts # 0}
Rank(base, s, i) == SumTo(i, [j \in DOMAIN s |-> 1], PassedIn(base, s))

\* p says what dp does.
Conveys(base, p, dp) ==
  LET label == IF base = "diskscraper" THEN "system.diskio.name" ELSE "system.network.name"
      Scale == IF dp.name \in {"system.disk.operation_time", "system.disk.io_time"} THEN 1000 ELSE 1
      Value == IF base = "diskscraper" THEN dp.value[1] ELSE IntValue(dp)
  IN  /\ p.ts = dp.ts
      /\ p.attrs[label] = dp.attrs["device"]
      /\ p.value[1] = Scale * Value

\* What f, the metrics appended so far, has to do with the points s read so far.
PassedKept(base, s, f) ==
  /\ Len(f) = Rank(base, s, Len(s))
  /\ \A i \in PassedIn(base, s) :
       Rank(base, s, i) \in 1..Len(f) /\ Conveys(base, f[Rank(base, s, i)], s[i])

\* The ranks of the points read stay as they are, and the next point has the next.
LEMMA RankAppend ==
    ASSUME NEW base, NEW s, IsSeq(s), NEW dp
    PROVE  LET t == Append(s, dp)
               passed == Len(s) + 1 \in PassedIn(base, t)
           IN  /\ \A i \in 1..Len(s) :
                    /\ i \in PassedIn(base, t) <=> i \in PassedIn(base, s)
                    /\ Rank(base, t, i) = Rank(base, s, i)
               /\ Rank(base, s, Len(s)) \in Int
               /\ Rank(base, t, Len(t)) = Rank(base, s, Len(s)) + IF passed THEN 1 ELSE 0
               /\ PassedIn(base, t) \subseteq 1..Len(s) + 1
<1> DEFINE t == Append(s, dp)
           n == Len(s)
           P == PassedIn(base, s)
           Q == PassedIn(base, t)
           ones == [j \in DOMAIN s |-> 1]
           ones1 == [j \in DOMAIN t |-> 1]
<1>1. /\ DOMAIN t = 1..n + 1 /\ DOMAIN s = 1..n /\ n \in Nat /\ Len(t) = n + 1
      /\ t[n + 1] = dp /\ \A i \in 1..n : t[i] = s[i]
  BY AppendPoints
<1> HIDE DEF t, n
<1>2. (\A i \in 1..n : i \in Q <=> i \in P) /\ Q \subseteq 1..n + 1
  BY <1>1 DEF PassedIn
<1>3. (\A i \in 1..n : ones[i] = 1 /\ ones1[i] = 1) /\ ones1[n + 1] = 1
  BY <1>1
<1> HIDE DEF P, Q, ones, ones1
<1>4. \A i \in 0..n : SumTo(i, ones1, Q) = SumTo(i, ones, P)
  <2>1. ASSUME NEW i \in 0..n PROVE SumTo(i, ones1, Q) = SumTo(i, ones, P)
    <3>1. i \in Nat /\ \A k \in 1..i : (k \in Q <=> k \in P) /\ (k \in Q => ones1[k] = ones[k])
      BY <1>1, <1>2, <1>3
    <3>2. QED
      BY <3>1, SumToAgree
  <2>2. QED
    BY <2>1
<1>5. SumTo(n + 1, ones1, Q) = SumTo(n, ones1, Q) + IF n + 1 \in Q THEN 1 ELSE 0
  <2>1. SumTo(n + 1, ones1, Q) = SumTo(n, ones1, Q) + Term(n + 1, ones1, Q)
    BY <1>1, SumToStep
  <2>2. Term(n + 1, ones1, Q) = IF n + 1 \in Q THEN 1 ELSE 0
    BY <1>3 DEF Term
  <2>3. QED
    BY <2>1, <2>2
<1>6. SumTo(n, ones, P) \in Int
  <2>1. \A k \in 1..n : k \in P => ones[k] \in Int
    BY <1>3
  <2>2. QED
    BY <1>1, <2>1, SumToType
<1>7. n \in 0..n /\ 1..n \subseteq 0..n
  BY <1>1
<1>8. /\ \A i : Rank(base, s, i) = SumTo(i, ones, P)
      /\ \A i : Rank(base, t, i) = SumTo(i, ones1, Q)
  BY DEF Rank, ones, ones1, P, Q
<1>9. /\ \A i \in 1..n : (i \in Q <=> i \in P) /\ Rank(base, t, i) = Rank(base, s, i)
      /\ Rank(base, s, n) \in Int
      /\ Rank(base, t, n + 1) = Rank(base, s, n) + IF n + 1 \in Q THEN 1 ELSE 0
      /\ Q \subseteq 1..n + 1
  BY <1>2, <1>4, <1>5, <1>6, <1>7, <1>8
<1>10. QED
  BY <1>1, <1>9 DEF t, n, P, Q

\* The metric a point becomes, if it becomes one, says what the point does.
LEMMA MetricConveys ==
    ASSUME NEW base \in {"diskscraper", "networkscraper"}, NEW dp, IsPoint(dp),
           PassesOn(base, dp), NEW before
    PROVE  Conveys(base, Appended(MetricOf(base, dp), ChainedMutator(before, AttrsOf(base, dp))), dp)
<1> DEFINE m == MetricOf(base, dp)
           p == Appended(m, ChainedMutator(before, AttrsOf(base, dp)))
<1>1. p.ts = dp.ts /\ p.value = m.value
  BY DEF Appended, MetricOf, DiskMetric, NetworkMetric, IntSum
<1>2. p.attrs = Put(OTelRemappedLabel, TRUE) ++ (before ++ AttrsOf(base, dp))
  BY DEF Appended, ChainedMutator
<1> HIDE DEF p
<1>3. dp.value[1] \in Int /\ IntValue(dp) \in Int
  BY NumberType DEF IsPoint
<1>4. CASE base = "diskscraper"
  <2>1. m.value[1] = dp.value[1] * Multiplier(dp.name)
    BY <1>4 DEF MetricOf, DiskMetric
  <2>2. m.value[1] =
          (IF dp.name \in {"system.disk.operation_time", "system.disk.io_time"} THEN 1000 ELSE 1)
            * dp.value[1]
    BY <1>3, <2>1 DEF Multiplier
  <2>3. p.attrs["system.diskio.name"] = dp.attrs["device"]
    BY <1>2, <1>4 DEF AttrsOf, DiskAttrs, Put, ++
  <2>4. QED
    BY <1>1, <1>4, <2>2, <2>3 DEF Conveys, p
<1>5. CASE base = "networkscraper"
  <2>1. m.value[1] = IntValue(dp)
    BY <1>5 DEF MetricOf, NetworkMetric, IntSum
  <2>2. dp.name \notin {"system.disk.operation_time", "system.disk.io_time"}
    BY <1>5 DEF PassesOn, NetworkPassesOn, NetworkNames, Put, ++
  <2>3. m.value[1] =
          (IF dp.name \in {"system.disk.operation_time", "system.disk.io_time"} THEN 1000 ELSE 1)
            * IntValue(dp)
    BY <1>3, <2>1, <2>2
  <2>4. p.attrs["system.network.name"] = dp.attrs["device"]
    BY <1>2, <1>5 DEF AttrsOf, NetworkAttrs, Put, ++
  <2>5. QED
    BY <1>1, <1>5, <2>3, <2>4 DEF Conveys, p
<1>6. QED
  BY <1>4, <1>5

HasName(base, dp) == PassesOn(base, dp) => MetricOf(base, dp).name # ""

LEMMA PassedStep ==
    ASSUME NEW base \in {"diskscraper", "networkscraper"},
           NEW s, IsSeq(s), NEW dp, IsPoint(dp), NEW f, IsSeq(f), PassedKept(base, s, f),
           HasName(base, dp), NEW before
    PROVE  PassedKept(base, Append(s, dp),
             IF PassesOn(base, dp)
             THEN AfterOne(f, ChainedMutator(before, AttrsOf(base, dp)), MetricOf(base, dp))
             ELSE f)
<1> DEFINE t == Append(s, dp)
           n == Len(s)
           m == MetricOf(base, dp)
           p == Appended(m, ChainedMutator(before, AttrsOf(base, dp)))
           passed == n + 1 \in PassedIn(base, t)
           g == IF PassesOn(base, dp)
                THEN AfterOne(f, ChainedMutator(before, AttrsOf(base, dp)), m) ELSE f
<1>1. /\ DOMAIN t = 1..n + 1 /\ DOMAIN s = 1..n /\ n \in Nat /\ Len(t) = n + 1
      /\ t[n + 1] = dp /\ \A i \in 1..n : t[i] = s[i]
  BY AppendPoints
<1>2. passed <=> /\ PassesOn(base, dp) /\ dp.ts # 0
                 /\ base = "diskscraper" => dp.kind # "empty"
  <2> HIDE DEF t, n
  <2>1. n \in Nat /\ DOMAIN t = 1..n + 1
    BY <1>1
  <2>2. n + 1 \in DOMAIN t
    BY <2>1
  <2>3. QED
    BY <1>1, <2>2 DEF PassedIn, PassesOn
<1>3. PassesOn(base, dp) => (Valid(m) <=> dp.ts # 0 /\ (base = "diskscraper" => dp.kind # "empty"))
  BY DEF HasName, Valid, MetricOf, DiskMetric, NetworkMetric, IntSum, IsPoint
<1>4. g = IF passed THEN Append(f, p) ELSE f
  BY <1>2, <1>3 DEF AfterOne
<1>5. /\ \A i \in 1..n : /\ i \in PassedIn(base, t) <=> i \in PassedIn(base, s)
                         /\ Rank(base, t, i) = Rank(base, s, i)
      /\ Rank(base, s, n) \in Int
      /\ Rank(base, t, n + 1) = Rank(base, s, n) + IF passed THEN 1 ELSE 0
      /\ PassedIn(base, t) \subseteq 1..n + 1
  BY <1>1, RankAppend
<1>6. passed => Conveys(base, p, dp)
  BY <1>2, MetricConveys
<1>7. /\ DOMAIN Append(f, p) = 1..Len(f) + 1 /\ Len(f) \in Nat
      /\ Append(f, p)[Len(f) + 1] = p /\ Len(Append(f, p)) = Len(f) + 1
      /\ \A i \in 1..Len(f) : Append(f, p)[i] = f[i]
  BY AppendPoints
<1>8. /\ Len(f) = Rank(base, s, n)
      /\ \A i \in PassedIn(base, s) :
           Rank(base, s, i) \in 1..Len(f) /\ Conveys(base, f[Rank(base, s, i)], s[i])
  BY DEF PassedKept
<1> HIDE DEF t, n, m, p, passed, g
<1>9. Len(g) = Rank(base, t, n + 1)
  <2>1. CASE passed
    <3>1. Len(g) = Len(f) + 1
      BY <1>4, <1>7, <2>1
    <3>2. Rank(base, t, n + 1) = Rank(base, s, n) + 1
      BY <1>5, <2>1
    <3>3. QED
      BY <1>8, <3>1, <3>2
  <2>2. CASE ~passed
    <3>1. g = f
      BY <1>4, <2>2
    <3>2. Rank(base, t, n + 1) = Rank(base, s, n) + 0
      BY <1>5, <2>2
    <3>3. QED
      BY <1>5, <1>8, <3>1, <3>2
  <2>3. QED
    BY <2>1, <2>2
<1>10. ASSUME NEW i \in PassedIn(base, t)
       PROVE  Rank(base, t, i) \in 1..Len(g) /\ Conveys(base, g[Rank(base, t, i)], t[i])
  <2>1. CASE i \in 1..n
    <3>1. /\ Rank(base, t, i) = Rank(base, s, i) /\ t[i] = s[i]
          /\ Rank(base, s, i) \in 1..Len(f) /\ Conveys(base, f[Rank(base, s, i)], s[i])
      BY <1>1, <1>5, <1>8, <2>1
    <3>2. g[Rank(base, s, i)] = f[Rank(base, s, i)] /\ Rank(base, s, i) \in 1..Len(g)
      <4> DEFINE r == Rank(base, s, i)
      <4>1. r \in 1..Len(f) /\ Len(f) \in Nat
        BY <1>7, <3>1
      <4> HIDE DEF r
      <4>2. r \in 1..Len(f) + 1
        BY <4>1
      <4>3. Append(f, p)[r] = f[r] /\ Len(Append(f, p)) = Len(f) + 1
        BY <1>7, <4>1
      <4>4. CASE passed
        BY <1>4, <4>2, <4>3, <4>4 DEF r
      <4>5. CASE ~passed
        BY <1>4, <4>1, <4>5 DEF r
      <4>6. QED
        BY <4>4, <4>5
    <3>3. QED
      BY <3>1, <3>2
  <2>2. CASE i = n + 1
    <3>1. passed
      BY <2>2 DEF passed
    <3>2. Rank(base, t, i) = Len(f) + 1
      BY <1>5, <1>8, <2>2, <3>1
    <3>3. g = Append(f, p) /\ Len(g) = Len(f) + 1 /\ g[Len(f) + 1] = p
      BY <1>4, <1>7, <3>1
    <3>4. Len(f) + 1 \in 1..Len(g)
      BY <1>7, <3>3
    <3>5. Conveys(base, g[Len(f) + 1], t[i])
      BY <1>1, <1>6, <2>2, <3>1, <3>3
    <3>6. QED
      BY <3>2, <3>4, <3>5
  <2>3. i \in 1..n + 1 /\ n \in Nat
    BY <1>1, <1>5
  <2>4. i \in 1..n \/ i = n + 1
    BY <2>3
  <2>5. QED
    BY <2>1, <2>2, <2>4
<1>11. QED
  BY <1>1, <1>9, <1>10 DEF PassedKept, t, g, m

-------------------------------------------------------------------------------
(* The steps of a call that passes points on                                     *)

Passers == {"diskscraper", "networkscraper"}
Passing == Handled(package, scope) /\ scope.base \in Passers

\* A turn of the loop.
Passes(dp) ==
  /\ seen' = Append(seen, dp)
  /\ out' = IF PassesOn(scope.base, dp)
            THEN Add(out, ChainedMutator(DatasetMutator, AttrsOf(scope.base, dp)),
                     <<MetricOf(scope.base, dp)>>)
            ELSE out

LEMMA PassSteps ==
    ASSUME TypeInv, Passing, [Next]_vars
    PROVE  /\ UNCHANGED <<package, scope>>
           /\ (\E dp \in Inputs[scope.base] : Passes(dp)) \/ UNCHANGED <<out, seen>>
<1> USE DEF call, locals
<1>1. scope.base \notin FoldScrapers /\ scope.base # "filesystemscraper"
  BY DEF Passing, Passers, FoldScrapers, Locals
<1>2. UNCHANGED <<package, scope>>
  BY DEF Next, vars, Ignore, Begin, ReadPoint, EndOfScope, ReadBack, AppendFolded, RangeDevices,
    AppendDevice, Return
<1>3. CASE Begin \/ EndOfScope \/ Return \/ RangeDevices \/ Ignore \/ UNCHANGED vars
  BY <1>2, <1>3 DEF Begin, EndOfScope, Return, RangeDevices, Ignore, vars
<1>4. CASE \E dp \in Inputs[scope.base] : ReadPoint(dp)
  <2>1. PICK dp \in Inputs[scope.base] : ReadPoint(dp)
    BY <1>4
  <2>2. ReadDisk(dp) \/ ReadNetwork(dp)
    BY <1>1, <2>1 DEF ReadPoint, Read, ReadFolded, Folding, ReadFilesystem, Filesystem
  <2>3. CASE ReadDisk(dp)
    <3>1. scope.base = "diskscraper"
      BY <2>3 DEF ReadDisk
    <3>2. Passes(dp)
      BY <2>1, <2>3, <3>1 DEF ReadPoint, ReadDisk, Passes, PassesOn, AttrsOf, MetricOf
    <3>3. QED
      BY <1>2, <3>2
  <2>4. CASE ReadNetwork(dp)
    <3>1. scope.base = "networkscraper" /\ scope.base # "diskscraper"
      BY <2>4 DEF ReadNetwork
    <3>2. Passes(dp)
      BY <2>1, <2>4, <3>1 DEF ReadPoint, ReadNetwork, Passes, PassesOn, AttrsOf, MetricOf
    <3>3. QED
      BY <1>2, <3>2
  <2>5. QED
    BY <2>2, <2>3, <2>4
<1>5. CASE ReadBack
  <2>1. LocalsType /\ OutType /\ fed \in 0..Len(out)
    BY DEF TypeInv, TypeOK
  <2>2. DOMAIN out = 1..Len(out) /\ Len(out) \in Nat
    BY <2>1, IsSeqDomain DEF OutType
  <2>3. Inert(scope.base, out[fed + 1]) /\ Read(out[fed + 1])
    BY <1>5, <2>1, <2>2 DEF ReadBack, OutType, AllInert
  <2>4. UNCHANGED <<out, locals>>
    BY <2>1, <2>3, ReadInert
  <2>5. QED
    BY <1>2, <1>5, <2>4 DEF ReadBack
<1>6. ~AppendFolded /\ ~\E key \in left : AppendDevice(key)
  BY <1>1 DEF AppendFolded, Folding, AppendDevice, Filesystem, TypeInv, InDevices
<1>7. QED
  BY <1>2, <1>3, <1>4, <1>5, <1>6 DEF Next

\* The inductive invariant: at every turn, and not only in the end, the metrics
\* appended convey the points read.
PassInv ==
  Passing => Len(Earlier) <= Len(out) /\ PassedKept(scope.base, seen, AfterEarlier(out))

LEMMA InitPassed == Init => PassInv
<1> SUFFICES ASSUME Init PROVE PassInv
  OBVIOUS
<1>1. out = Earlier /\ seen = <<>>
  BY DEF Init
<1>2. Len(Earlier) \in Nat /\ IsSeq(Earlier)
  BY EarlierAssumption, IsSeqDomain DEF IsSeq
<1>3. AfterEarlier(out) = <<>>
  BY <1>1, <1>2 DEF AfterEarlier, IsSeq
<1>4. Len(<<>>) = 0 /\ DOMAIN <<>> = {}
  OBVIOUS
<1>5. PassedIn(scope.base, <<>>) = {}
  BY <1>4 DEF PassedIn
<1>6. Rank(scope.base, <<>>, 0) = 0
  BY SumToStep DEF Rank
<1>7. PassedKept(scope.base, <<>>, <<>>)
  BY <1>4, <1>5, <1>6 DEF PassedKept
<1>8. QED
  BY <1>1, <1>2, <1>3, <1>7 DEF PassInv

LEMMA NextPassed == TypeInv /\ PassInv /\ [Next]_vars => PassInv'
<1> SUFFICES ASSUME TypeInv, PassInv, [Next]_vars, Passing'
             PROVE  PassInv'
  BY DEF PassInv
<1>1. UNCHANGED <<package, scope>>
  BY DEF Next, vars, call, Ignore, Begin, ReadPoint, EndOfScope, ReadBack, AppendFolded,
    RangeDevices, AppendDevice, Return
<1>2. Passing
  BY <1>1 DEF Passing, Handled, ValidScope
<1>3. Len(Earlier) <= Len(out) /\ PassedKept(scope.base, seen, AfterEarlier(out))
  BY <1>2 DEF PassInv
<1>4. CASE UNCHANGED <<out, seen>>
  BY <1>1, <1>3, <1>4 DEF PassInv
<1>5. ASSUME NEW dp \in Inputs[scope.base], Passes(dp)
      PROVE  PassInv'
  <2> DEFINE base == scope.base
             mu == ChainedMutator(DatasetMutator, AttrsOf(base, dp))
             m == MetricOf(base, dp)
             f == AfterEarlier(out)
  <2>1. IsSeq(out) /\ IsSeq(seen) /\ scope \in Scopes
    BY DEF TypeInv, OutType, TypeOK
  <2>2. IsPoint(dp) /\ base \in Passers
    BY <1>2, SeenPoints DEF Passing
  <2>3. HasName(base, dp)
    BY <2>1, <2>2, NamesAssumption DEF HasName, PassesOn, MetricOf, Passers
  <2>4. IsSeq(f)
    BY <1>3, <2>1, AfterEarlierAppend
  <2>5. PassedKept(base, Append(seen, dp), IF PassesOn(base, dp) THEN AfterOne(f, mu, m) ELSE f)
    BY <1>3, <2>1, <2>2, <2>3, <2>4, PassedStep DEF Passers
  <2> HIDE DEF base, mu, m, f
  <2>6. /\ Add(out, mu, <<m>>) = AfterOne(out, mu, m)
        /\ AfterEarlier(AfterOne(out, mu, m)) = AfterOne(f, mu, m)
        /\ Len(Earlier) <= Len(AfterOne(out, mu, m))
    <3>1. Len(<<m>>) = 1 /\ <<m>>[1] = m
      OBVIOUS
    <3>2. Add(out, mu, <<m>>) = AfterOne(out, mu, <<m>>[1])
      BY <3>1, AddFew
    <3>3. QED
      BY <1>3, <2>1, <3>1, <3>2, AfterEarlierOne DEF f
  <2>7. out' = IF PassesOn(base, dp) THEN AfterOne(out, mu, m) ELSE out
    BY <1>5, <2>6 DEF Passes, base, mu, m
  <2>8. /\ AfterEarlier(out') = IF PassesOn(base, dp) THEN AfterOne(f, mu, m) ELSE f
        /\ Len(Earlier) <= Len(out')
    BY <1>3, <2>6, <2>7 DEF f
  <2>9. seen' = Append(seen, dp) /\ scope' = scope
    BY <1>1, <1>5 DEF Passes
  <2>10. QED
    BY <2>5, <2>8, <2>9 DEF PassInv, base
<1>6. QED
  BY <1>2, <1>4, <1>5, PassSteps

\* Disk and network: however many points there are and in whatever order, and
\* also when the loop reads back what it appends, each point that has a device,
\* a value and a timestamp becomes one metric, in the order of the points, for
\* the same device, with the point's timestamp and its value.
THEOREM PointsConveyed == Spec => []EveryPointOnce
<1>1. PassInv => EveryPointOnce
  <2> SUFFICES ASSUME PassInv, NEW base \in Passers, Returned(base)
               PROVE  LET Place(i) == SumTo(i, [j \in DOMAIN seen |-> 1], Passed)
                          label == IF base = "diskscraper" THEN "system.diskio.name"
                                   ELSE "system.network.name"
                          Scale(dp) ==
                            IF dp.name \in {"system.disk.operation_time", "system.disk.io_time"}
                            THEN 1000 ELSE 1
                          Value(dp) == IF base = "diskscraper" THEN dp.value[1] ELSE IntValue(dp)
                      IN  /\ Len(Fresh) = Place(Len(seen))
                          /\ \A i \in Passed :
                               /\ Fresh[Place(i)].ts = seen[i].ts
                               /\ Fresh[Place(i)].attrs[label] = seen[i].attrs["device"]
                               /\ Fresh[Place(i)].value[1] = Scale(seen[i]) * Value(seen[i])
    BY DEF EveryPointOnce, Passers
  <2>1. scope.base = base /\ Passing
    BY DEF Returned, Passing
  <2>2. Passed = PassedIn(base, seen)
    BY <2>1 DEF Passed, PassedIn
  <2>3. \A i : SumTo(i, [j \in DOMAIN seen |-> 1], Passed) = Rank(base, seen, i)
    BY <2>2 DEF Rank
  <2>4. Fresh = AfterEarlier(out)
    BY DEF Fresh, AfterEarlier
  <2>5. /\ Len(Fresh) = Rank(base, seen, Len(seen))
        /\ \A i \in Passed : Conveys(base, Fresh[Rank(base, seen, i)], seen[i])
    BY <2>1, <2>2, <2>4 DEF PassInv, PassedKept
  <2>6. QED
    BY <2>3, <2>5 DEF Conveys
<1>2. TypeInv /\ PassInv /\ [Next]_vars => (TypeInv /\ PassInv)'
  BY NextType, NextPassed
<1>3. Init => TypeInv /\ PassInv
  BY InitType, InitPassed
<1>4. QED
  BY <1>1, <1>2, <1>3, PTL DEF Spec

-------------------------------------------------------------------------------
(* Filesystem: what has been appended for a device                               *)

DeviceAttrLabels ==
  {"system.filesystem.device_name", "system.filesystem.mount_point", "system.filesystem.type"}

IsKey(key) == key = [l \in DeviceKeyLabels |-> key[l]]

\* p has the name and is of the device.
Bears(p, name, key) ==
  p.name = name /\ \A l \in DeviceAttrLabels : p.attrs[l] = FilesystemAttrs(key)[l]

\* The points of f that do, and the sum of their values.
Bearing(f, name, key) == {i \in DOMAIN f : Bears(f[i], name, key)}
Weight(f, name, key) == SumTo(Len(f), [i \in DOMAIN f |-> f[i].value[1]], Bearing(f, name, key))

Weighable(f) == IsSeq(f) /\ \A i \in DOMAIN f : f[i].value[1] \in Int

LEMMA WeightAppend ==
    ASSUME NEW f, Weighable(f), NEW p, p.value[1] \in Int, NEW name, NEW key
    PROVE  /\ Weighable(Append(f, p))
           /\ Weight(f, name, key) \in Int
           /\ Weight(Append(f, p), name, key) =
                Weight(f, name, key) + IF Bears(p, name, key) THEN p.value[1] ELSE 0
           /\ Bearing(Append(f, p), name, key) =
                Bearing(f, name, key) \cup IF Bears(p, name, key) THEN {Len(f) + 1} ELSE {}
<1> DEFINE g == Append(f, p)
           n == Len(f)
           w == [i \in DOMAIN f |-> f[i].value[1]]
           w1 == [i \in DOMAIN g |-> g[i].value[1]]
           B == Bearing(f, name, key)
           B1 == Bearing(g, name, key)
<1>1. /\ DOMAIN g = 1..n + 1 /\ DOMAIN f = 1..n /\ n \in Nat /\ Len(g) = n + 1
      /\ g[n + 1] = p /\ \A i \in 1..n : g[i] = f[i]
  BY AppendPoints DEF Weighable
<1>2. IsSeq(g)
  BY AppendIsSeq DEF Weighable
<1> HIDE DEF g, n
<1>3. n + 1 \in 1..n + 1 /\ \A i \in 1..n + 1 : i \in 1..n \/ i = n + 1
  BY <1>1
<1>4. \A i \in 1..n : i \in 1..n + 1 /\ i # n + 1
  BY <1>1
<1>5. (\A i \in 1..n : w[i] = f[i].value[1] /\ w1[i] = w[i]) /\ w1[n + 1] = p.value[1]
  BY <1>1, <1>3, <1>4
<1>6. B1 = B \cup IF Bears(p, name, key) THEN {n + 1} ELSE {}
  BY <1>1, <1>3, <1>4 DEF Bearing
<1>7. (\A i \in 1..n : w[i] \in Int) /\ Weighable(g)
  BY <1>1, <1>2, <1>3, <1>5 DEF Weighable
<1>8. /\ \A i \in 1..n : i \in B1 <=> i \in B
      /\ n + 1 \in B1 <=> Bears(p, name, key)
  <2>1. n + 1 \notin B
    BY <1>1, <1>4 DEF Bearing
  <2>2. QED
    BY <1>4, <1>6, <2>1
<1> HIDE DEF w, w1, B, B1
<1>9. SumTo(n, w1, B1) = SumTo(n, w, B)
  BY <1>1, <1>5, <1>8, SumToAgree
<1>10. SumTo(n + 1, w1, B1) = SumTo(n, w1, B1) + Term(n + 1, w1, B1)
  BY <1>1, SumToStep
<1>11. Term(n + 1, w1, B1) = IF Bears(p, name, key) THEN p.value[1] ELSE 0
  BY <1>5, <1>8 DEF Term
<1>12. SumTo(n, w, B) \in Int
  BY <1>1, <1>7, SumToType
<1>13. Weight(f, name, key) = SumTo(n, w, B) /\ Weight(g, name, key) = SumTo(n + 1, w1, B1)
  BY <1>1 DEF Weight, w, w1, B, B1, n
<1>14. QED
  BY <1>6, <1>7, <1>9, <1>10, <1>11, <1>12, <1>13 DEF g, B, B1, n

LEMMA WeightType == ASSUME NEW f, Weighable(f), NEW name, NEW key PROVE Weight(f, name, key) \in Int
<1> DEFINE p == [value |-> <<0, 1>>]
<1>1. p.value[1] \in Int
  OBVIOUS
<1> HIDE DEF p
<1>2. QED
  BY <1>1, WeightAppend

\* Keys are told apart by the attributes made of them.
LEMMA KeysApart ==
    ASSUME NEW key, IsKey(key), NEW k, IsKey(k)
    PROVE  key = k <=> \A l \in DeviceAttrLabels : FilesystemAttrs(k)[l] = FilesystemAttrs(key)[l]
<1>1. ASSUME \A l \in DeviceAttrLabels : FilesystemAttrs(k)[l] = FilesystemAttrs(key)[l]
      PROVE  key = k
  <2>1. \A q : /\ FilesystemAttrs(q)["system.filesystem.device_name"] = q["device"]
               /\ FilesystemAttrs(q)["system.filesystem.mount_point"] = q["mountpoint"]
               /\ FilesystemAttrs(q)["system.filesystem.type"] = q["type"]
    BY DEF FilesystemAttrs
  <2>2. key["device"] = k["device"] /\ key["mountpoint"] = k["mountpoint"] /\ key["type"] = k["type"]
    BY <1>1, <2>1 DEF DeviceAttrLabels
  <2>3. \A l \in DeviceKeyLabels : key[l] = k[l]
    BY <2>2 DEF DeviceKeyLabels
  <2>4. QED
    BY <2>3 DEF IsKey
<1>2. QED
  BY <1>1

\* A metric is good for the filesystem: then it is appended if it has a timestamp.
FilesystemMetric(m, ts) == GoodMetric("filesystemscraper", m, ts)

\* g is f with a value appended for the device key under the name, if at all.
Weighs(g, f, at, name, key, v) ==
  /\ Weight(g, name, key) = Weight(f, name, key) + IF at THEN v ELSE 0
  /\ Weight(f, name, key) \in Int
  /\ ~at => Bearing(g, name, key) = Bearing(f, name, key)

LEMMA WeighOne ==
    ASSUME NEW f, Weighable(f), NEW ts, NEW m, FilesystemMetric(m, ts), NEW before,
           NEW k, IsKey(k)
    PROVE  LET g == AfterOne(f, ChainedMutator(before, FilesystemAttrs(k)), m)
           IN  /\ Weighable(g)
               /\ \A name, key : IsKey(key) =>
                    Weighs(g, f, ts # 0 /\ m.name = name /\ key = k, name, key, m.value[1])
<1> DEFINE mu == ChainedMutator(before, FilesystemAttrs(k))
           p == Appended(m, mu)
           g == AfterOne(f, mu, m)
<1>1. m.value[1] \in Int /\ (Valid(m) <=> ts # 0)
  BY DEF FilesystemMetric, GoodMetric, Valid
<1>2. p.name = m.name /\ p.value = m.value
  BY AppendedFields
<1>3. \A l \in DeviceAttrLabels : p.attrs[l] = FilesystemAttrs(k)[l]
  <2>1. DOMAIN FilesystemAttrs(k) = DeviceAttrLabels
    BY DEF FilesystemAttrs, DeviceAttrLabels
  <2>2. p.attrs = Put(OTelRemappedLabel, TRUE) ++ (before ++ FilesystemAttrs(k))
    BY DEF Appended, ChainedMutator
  <2> HIDE DEF p
  <2>3. QED
    BY <2>1, <2>2 DEF ++
<1>4. g = IF ts # 0 THEN Append(f, p) ELSE f
  BY <1>1 DEF AfterOne
<1> HIDE DEF mu, p, g
<1>5. \A name, key : IsKey(key) => (Bears(p, name, key) <=> m.name = name /\ key = k)
  BY <1>2, <1>3, KeysApart DEF Bears
<1>6. \A name, key :
        /\ Weighable(Append(f, p))
        /\ Weight(f, name, key) \in Int
        /\ Weight(Append(f, p), name, key) =
             Weight(f, name, key) + IF Bears(p, name, key) THEN m.value[1] ELSE 0
        /\ Bearing(Append(f, p), name, key) =
             Bearing(f, name, key) \cup IF Bears(p, name, key) THEN {Len(f) + 1} ELSE {}
  BY <1>1, <1>2, WeightAppend
<1>7. ASSUME NEW name, NEW key, IsKey(key)
      PROVE  Weighs(g, f, ts # 0 /\ m.name = name /\ key = k, name, key, m.value[1])
  <2>1. CASE ts = 0
    BY <1>4, <1>6, <2>1 DEF Weighs
  <2>2. CASE ts # 0
    <3>1. Bears(p, name, key) <=> (ts # 0 /\ m.name = name /\ key = k)
      BY <1>5, <1>7, <2>2
    <3>2. g = Append(f, p)
      BY <1>4, <2>2
    <3>3. /\ Weight(f, name, key) \in Int
          /\ Weight(g, name, key) =
               Weight(f, name, key) + IF Bears(p, name, key) THEN m.value[1] ELSE 0
          /\ ~Bears(p, name, key) => Bearing(g, name, key) = Bearing(f, name, key)
      BY <1>6, <3>2
    <3>4. QED
      BY <3>1, <3>3 DEF Weighs
  <2>3. QED
    BY <2>1, <2>2
<1>8. QED
  BY <1>4, <1>6, <1>7 DEF g, mu

\* One after the other, if at most one of the two is at the device and the name.
LEMMA WeighsTwice ==
    ASSUME NEW f, NEW g, NEW h, NEW name, NEW key, NEW v \in Int,
           NEW at1 \in BOOLEAN, Weighs(g, f, at1, name, key, v),
           NEW at2 \in BOOLEAN, Weighs(h, g, at2, name, key, v), ~(at1 /\ at2)
    PROVE  Weighs(h, f, at1 \/ at2, name, key, v)
<1>1. CASE at1
  BY <1>1 DEF Weighs
<1>2. CASE ~at1 /\ at2
  BY <1>2 DEF Weighs
<1>3. CASE ~at1 /\ ~at2
  BY <1>3 DEF Weighs
<1>4. QED
  BY <1>1, <1>2, <1>3

\* The names under which dp is appended at once.
Under(dp, name) == \E i \in DOMAIN PassedOn(dp) : PassedOn(dp)[i] = name

LEMMA WeighPoint ==
    ASSUME NEW f, Weighable(f), NEW dp, IsPoint(dp), NEW before, NEW k, IsKey(k)
    PROVE  LET g == Add(f, ChainedMutator(before, FilesystemAttrs(k)), PointMetrics(dp))
           IN  /\ Weighable(g) /\ Len(PointMetrics(dp)) \in 0..3
               /\ \A name, key : IsKey(key) =>
                    Weighs(g, f, dp.ts # 0 /\ Under(dp, name) /\ key = k, name, key, IntValue(dp))
<1> DEFINE mu == ChainedMutator(before, FilesystemAttrs(k))
           ms == PointMetrics(dp)
           names == PassedOn(dp)
           v == IntValue(dp)
           ts == dp.ts
           g == Add(f, mu, ms)
<1>1. v \in Int /\ ts \in Nat
  BY NumberType DEF IsPoint
<1>2. IsSeq(ms) /\ DOMAIN ms = DOMAIN names
  BY PointMetricsSeq DEF PointMetrics
<1>3. \A i \in DOMAIN ms : /\ FilesystemMetric(ms[i], ts)
                           /\ ms[i].name = names[i] /\ ms[i].value[1] = v
  BY PointMetricsType DEF FilesystemMetric, PointMetrics, IntSum
<1>4. \/ DOMAIN names = {}
      \/ DOMAIN names = {1}
      \/ DOMAIN names = {1, 2} /\ names[1] # names[2]
  <2>1. names \in {<<"system.filesystem.used.bytes">>,
                   <<"system.filesystem.free", "system.filesystem.available">>,
                   <<"system.filesystem.free_files">>, <<>>}
    BY DEF PassedOn
  <2>2. \A a, b : DOMAIN <<a>> = {1} /\ DOMAIN <<a, b>> = {1, 2} /\ DOMAIN <<>> = {}
    OBVIOUS
  <2>3. QED
    BY <2>1, <2>2
<1>5. DOMAIN ms = 1..Len(ms) /\ Len(ms) \in Nat
  BY <1>2, IsSeqDomain
<1>0. 1..0 = {} /\ 1..1 = {1} /\ 1..2 = {1, 2} /\ 0 \in Nat /\ 1 \in Nat /\ 2 \in Nat
  OBVIOUS
<1>6. \A name : Under(dp, name) <=> \E i \in DOMAIN names : names[i] = name
  BY DEF Under
<1> HIDE DEF mu, ms, names, v, ts, g
<1>7. CASE DOMAIN names = {}
  <2>1. Len(ms) = 0
    <3>1. 1..Len(ms) = 1..0
      BY <1>0, <1>2, <1>5, <1>7
    <3>2. QED
      BY <1>0, <1>5, <3>1, SameLength
  <2>2. g = f
    BY <2>1, AddFew DEF g
  <2>3. \A name : ~Under(dp, name)
    BY <1>6, <1>7
  <2>4. \A name, key : Weight(f, name, key) \in Int
    BY WeightType
  <2>5. \A name, key : Weighs(g, f, FALSE, name, key, v)
    BY <2>2, <2>4 DEF Weighs
  <2>6. ASSUME NEW name, NEW key, IsKey(key)
        PROVE  Weighs(g, f, ts # 0 /\ Under(dp, name) /\ key = k, name, key, v)
    <3>1. FALSE = (ts # 0 /\ Under(dp, name) /\ key = k)
      BY <2>3
    <3>2. QED
      BY <2>5, <3>1
  <2>7. Len(ms) \in 0..3
    BY <2>1
  <2>8. QED
    BY <2>2, <2>6, <2>7 DEF g, mu, ms, v, ts
<1>8. CASE DOMAIN names = {1}
  <2>1. Len(ms) = 1
    <3>1. 1..Len(ms) = 1..1
      BY <1>0, <1>2, <1>5, <1>8
    <3>2. QED
      BY <1>0, <1>5, <3>1, SameLength
  <2>2. g = AfterOne(f, mu, ms[1])
    BY <2>1, AddFew DEF g
  <2>3. FilesystemMetric(ms[1], ts) /\ ms[1].name = names[1] /\ ms[1].value[1] = v
    BY <1>2, <1>3, <1>8
  <2>4. /\ Weighable(g)
        /\ \A name, key : IsKey(key) =>
             Weighs(g, f, ts # 0 /\ ms[1].name = name /\ key = k, name, key, ms[1].value[1])
    BY <2>2, <2>3, WeighOne DEF mu
  <2>5. \A name : Under(dp, name) <=> ms[1].name = name
    BY <1>6, <1>8, <2>3
  <2>6. ASSUME NEW name, NEW key, IsKey(key)
        PROVE  Weighs(g, f, ts # 0 /\ Under(dp, name) /\ key = k, name, key, v)
    <3>1. Weighs(g, f, ts # 0 /\ ms[1].name = name /\ key = k, name, key, ms[1].value[1])
      BY <2>4, <2>6
    <3>2. (ts # 0 /\ ms[1].name = name /\ key = k) = (ts # 0 /\ Under(dp, name) /\ key = k)
      BY <2>5
    <3>3. QED
      BY <2>3, <3>1, <3>2
  <2>7. QED
    BY <2>1, <2>4, <2>6 DEF g, mu, ms, v, ts
<1>9. CASE DOMAIN names = {1, 2} /\ names[1] # names[2]
  <2> DEFINE g1 == AfterOne(f, mu, ms[1])
             g2 == AfterOne(g1, mu, ms[2])
  <2>1. Len(ms) = 2
    <3>1. 1..Len(ms) = 1..2
      BY <1>0, <1>2, <1>5, <1>9
    <3>2. QED
      BY <1>0, <1>5, <3>1, SameLength
  <2>2. g = g2
    BY <2>1, AddFew DEF g
  <2>3. /\ FilesystemMetric(ms[1], ts) /\ ms[1].name = names[1] /\ ms[1].value[1] = v
        /\ FilesystemMetric(ms[2], ts) /\ ms[2].name = names[2] /\ ms[2].value[1] = v
    BY <1>2, <1>3, <1>9
  <2>4. /\ Weighable(g1)
        /\ \A name, key : IsKey(key) =>
             Weighs(g1, f, ts # 0 /\ ms[1].name = name /\ key = k, name, key, ms[1].value[1])
    BY <2>3, WeighOne DEF mu
  <2> HIDE DEF g1
  <2>5. /\ Weighable(g2)
        /\ \A name, key : IsKey(key) =>
             Weighs(g2, g1, ts # 0 /\ ms[2].name = name /\ key = k, name, key, ms[2].value[1])
    BY <2>3, <2>4, WeighOne DEF mu
  <2> HIDE DEF g2
  <2>6. \A name : Under(dp, name) <=> ms[1].name = name \/ ms[2].name = name
    BY <1>6, <1>9, <2>3
  <2>7. ASSUME NEW name, NEW key, IsKey(key)
        PROVE  Weighs(g, f, ts # 0 /\ Under(dp, name) /\ key = k, name, key, v)
    <3> DEFINE at1 == ts # 0 /\ ms[1].name = name /\ key = k
               at2 == ts # 0 /\ ms[2].name = name /\ key = k
    <3>1. Weighs(g1, f, at1, name, key, v) /\ Weighs(g2, g1, at2, name, key, v)
      <4>1. Weighs(g1, f, at1, name, key, ms[1].value[1])
        BY <2>4, <2>7
      <4>2. Weighs(g2, g1, at2, name, key, ms[2].value[1])
        BY <2>5, <2>7
      <4>3. QED
        BY <2>3, <4>1, <4>2
    <3>2. ~(at1 /\ at2) /\ at1 \in BOOLEAN /\ at2 \in BOOLEAN
      BY <1>9, <2>3
    <3>3. (at1 \/ at2) = (ts # 0 /\ Under(dp, name) /\ key = k)
      BY <2>6
    <3> HIDE DEF at1, at2
    <3>4. Weighs(g2, f, at1 \/ at2, name, key, v)
      BY <1>1, <3>1, <3>2, WeighsTwice
    <3>5. QED
      BY <2>2, <3>3, <3>4
  <2>8. QED
    BY <2>1, <2>2, <2>5, <2>7 DEF g, mu, ms, v, ts
<1>10. QED
  BY <1>4, <1>7, <1>8, <1>9

-------------------------------------------------------------------------------
(* Filesystem: the bytes of a device balance at every turn                       *)

UsedBytes == "system.filesystem.used.bytes"
FreeBytes == "system.filesystem.free"
AvailableBytes == "system.filesystem.available"
TotalBytes == "system.filesystem.total"
UsedShare == "system.filesystem.used.pct"

UsageOf(ds, key) == IF key \in DOMAIN ds THEN ds[key] ELSE NoUsage

\* The points of s that were counted for a device, but had no timestamp.
Drops(dp, key) ==
  /\ Labelled(dp, FilesystemUsage, "state", {"used", "free"})
  /\ HasDeviceKey(dp) /\ DeviceKey(dp) = key /\ dp.ts = 0
DroppedSum(s, key) == SumTo(Len(s), Numbers(s), {i \in DOMAIN s : Drops(s[i], key)})

\* The bytes of a device, as measured, are those appended and those dropped.
Balance(s, f, d, key) ==
  /\ Weight(f, AvailableBytes, key) = Weight(f, FreeBytes, key)
  /\ d.totalUsage = Weight(f, UsedBytes, key) + Weight(f, FreeBytes, key) + DroppedSum(s, key)
  /\ d.usedBytes \in Nat /\ d.usedBytes <= d.totalUsage

IsUsage(d) == d \in [DOMAIN NoUsage -> Int]

LEMMA UsageAfter ==
    ASSUME NEW ds, NEW dp, NEW key
    PROVE  UsageOf(DeviceUsage(ds, dp), key) =
             IF key = DeviceKey(dp) THEN Measured(UsageOf(ds, key), dp) ELSE UsageOf(ds, key)
<1> DEFINE k == DeviceKey(dp)
           known == Known(ds, k)
<1>1. DOMAIN known = DOMAIN ds \cup {k}
      /\ \A q \in DOMAIN known : known[q] = IF q \in DOMAIN ds THEN ds[q] ELSE NoUsage
  BY DEF Known, Put, ++
<1> HIDE DEF known, k
<1>2. DeviceUsage(ds, dp) = [known EXCEPT ![k] = Measured(known[k], dp)]
  BY DEF DeviceUsage, known, k
<1>3. known = [q \in DOMAIN known |-> known[q]]
  BY DEF known, Known, ++
<1>4. /\ DOMAIN DeviceUsage(ds, dp) = DOMAIN known
      /\ DeviceUsage(ds, dp)[k] = Measured(known[k], dp)
      /\ \A q \in DOMAIN known : q # k => DeviceUsage(ds, dp)[q] = known[q]
  BY <1>1, <1>2
<1>5. QED
  BY <1>1, <1>4 DEF UsageOf, k

LEMMA DroppedAppend ==
    ASSUME NEW s, ArePoints(s), NEW dp, IsPoint(dp), NEW key
    PROVE  /\ DroppedSum(s, key) \in Int
           /\ DroppedSum(Append(s, dp), key) =
                DroppedSum(s, key) + IF Drops(dp, key) THEN IntValue(dp) ELSE 0
<1> DEFINE t == Append(s, dp)
           I == {i \in DOMAIN s : Drops(s[i], key)}
           J == {i \in DOMAIN t : Drops(t[i], key)}
<1>1. /\ DOMAIN t = 1..Len(s) + 1 /\ DOMAIN s = 1..Len(s) /\ Len(s) \in Nat
      /\ t[Len(s) + 1] = dp /\ \A i \in 1..Len(s) : t[i] = s[i]
  BY AppendPoints DEF ArePoints
<1> HIDE DEF t
<1>2. /\ \A i \in 1..Len(s) : i \in J <=> i \in I
      /\ Len(s) + 1 \in J <=> Drops(dp, key)
  BY <1>1
<1> HIDE DEF I, J
<1>3. /\ SumTo(Len(s), Numbers(s), I) \in Int
      /\ SumTo(Len(t), Numbers(t), J) =
           SumTo(Len(s), Numbers(s), I) + IF Len(s) + 1 \in J THEN Number(dp) ELSE 0
  BY <1>2, SumAppend DEF t
<1>4. DroppedSum(s, key) = SumTo(Len(s), Numbers(s), I)
  BY DEF DroppedSum, I
<1>5. DroppedSum(t, key) = SumTo(Len(t), Numbers(t), J)
  BY DEF DroppedSum, J
<1>6. Drops(dp, key) => Number(dp) = IntValue(dp)
  <2>1. FilesystemUsage \notin ReadAsDouble
    BY DEF FilesystemUsage, ReadAsDouble, ReadAsGauge, LoadSingle, PodSingle, NodeSingle, Put, ++
  <2>2. QED
    BY <2>1 DEF Drops, Labelled, Number
<1>7. QED
  BY <1>2, <1>3, <1>4, <1>5, <1>6 DEF t

\* A point that the remapper does not count is not one it has dropped.
LEMMA BalanceKept ==
    ASSUME NEW s, ArePoints(s), NEW dp, IsPoint(dp),
           ~(dp.name \in FilesystemMetrics /\ HasDeviceKey(dp)),
           NEW f, NEW d, NEW key, Balance(s, f, d, key)
    PROVE  Balance(Append(s, dp), f, d, key)
<1>1. ~Drops(dp, key)
  BY DEF Drops, Labelled, FilesystemMetrics
<1>2. DroppedSum(Append(s, dp), key) = DroppedSum(s, key) + 0 /\ DroppedSum(s, key) \in Int
  BY <1>1, DroppedAppend
<1>3. DroppedSum(Append(s, dp), key) = DroppedSum(s, key)
  BY <1>2
<1>4. QED
  BY <1>3 DEF Balance

\* What a point is appended under.
LEMMA UnderNames ==
    ASSUME NEW dp
    PROVE  /\ Under(dp, UsedBytes) <=> dp.name = FilesystemUsage /\ Str(dp, "state") = "used"
           /\ Under(dp, FreeBytes) <=> dp.name = FilesystemUsage /\ Str(dp, "state") = "free"
           /\ Under(dp, AvailableBytes) <=> dp.name = FilesystemUsage /\ Str(dp, "state") = "free"
           /\ ~Under(dp, TotalBytes) /\ ~Under(dp, UsedShare)
<1>1. \A a, b : DOMAIN <<a>> = {1} /\ DOMAIN <<a, b>> = {1, 2} /\ DOMAIN <<>> = {}
  OBVIOUS
<1> USE DEF UsedBytes, FreeBytes, AvailableBytes, TotalBytes, UsedShare
<1>2. CASE dp.name = FilesystemUsage /\ Str(dp, "state") = "used"
  <2>1. PassedOn(dp) = <<"system.filesystem.used.bytes">>
    BY <1>2 DEF PassedOn
  <2>2. QED
    BY <1>1, <1>2, <2>1 DEF Under
<1>3. CASE dp.name = FilesystemUsage /\ Str(dp, "state") = "free"
  <2>1. PassedOn(dp) = <<"system.filesystem.free", "system.filesystem.available">>
    BY <1>3 DEF PassedOn
  <2>2. QED
    BY <1>1, <1>3, <2>1 DEF Under
<1>4. CASE dp.name # FilesystemUsage /\ Str(dp, "state") = "free"
  <2>1. PassedOn(dp) = <<"system.filesystem.free_files">>
    BY <1>4 DEF PassedOn
  <2>2. QED
    BY <1>1, <1>4, <2>1 DEF Under
<1>5. CASE /\ ~(dp.name = FilesystemUsage /\ Str(dp, "state") = "used")
           /\ ~(dp.name = FilesystemUsage /\ Str(dp, "state") = "free")
           /\ ~(dp.name # FilesystemUsage /\ Str(dp, "state") = "free")
  <2>1. PassedOn(dp) = <<>>
    BY <1>5 DEF PassedOn
  <2>2. QED
    BY <1>1, <1>5, <2>1 DEF Under
<1>6. QED
  BY <1>2, <1>3, <1>4, <1>5

\* A point that is counted adds to what is appended, or, without a timestamp,
\* to what is dropped, what it adds to the device; others' bytes stay.
LEMMA BalanceStep ==
    ASSUME NEW s, ArePoints(s), NEW dp, IsPoint(dp), IntValue(dp) \in Nat, HasDeviceKey(dp),
           NEW f, NEW g, NEW d, IsUsage(d), NEW key, Balance(s, f, d, key),
           \A name : Weighs(g, f, dp.ts # 0 /\ Under(dp, name) /\ key = DeviceKey(dp),
                            name, key, IntValue(dp))
    PROVE  Balance(Append(s, dp), g, IF key = DeviceKey(dp) THEN Measured(d, dp) ELSE d, key)
<1> DEFINE v == IntValue(dp)
           d1 == IF key = DeviceKey(dp) THEN Measured(d, dp) ELSE d
           st == Str(dp, "state")
           bytes == dp.name = FilesystemUsage
           at == key = DeviceKey(dp)
           used == Weight(f, UsedBytes, key)
           free == Weight(f, FreeBytes, key)
           avail == Weight(f, AvailableBytes, key)
           drop == DroppedSum(s, key)
           used1 == Weight(g, UsedBytes, key)
           free1 == Weight(g, FreeBytes, key)
           avail1 == Weight(g, AvailableBytes, key)
           drop1 == DroppedSum(Append(s, dp), key)
<1>1. /\ used1 = used + IF dp.ts # 0 /\ bytes /\ st = "used" /\ at THEN v ELSE 0
      /\ free1 = free + IF dp.ts # 0 /\ bytes /\ st = "free" /\ at THEN v ELSE 0
      /\ avail1 = avail + IF dp.ts # 0 /\ bytes /\ st = "free" /\ at THEN v ELSE 0
      /\ used \in Int /\ free \in Int /\ avail \in Int
  <2>1. /\ Weighs(g, f, dp.ts # 0 /\ Under(dp, UsedBytes) /\ at, UsedBytes, key, v)
        /\ Weighs(g, f, dp.ts # 0 /\ Under(dp, FreeBytes) /\ at, FreeBytes, key, v)
        /\ Weighs(g, f, dp.ts # 0 /\ Under(dp, AvailableBytes) /\ at, AvailableBytes, key, v)
    OBVIOUS
  <2> HIDE DEF v, st, bytes, at
  <2>2. /\ Under(dp, UsedBytes) <=> bytes /\ st = "used"
        /\ Under(dp, FreeBytes) <=> bytes /\ st = "free"
        /\ Under(dp, AvailableBytes) <=> bytes /\ st = "free"
    BY UnderNames DEF bytes, st
  <2>3. QED
    BY <2>1, <2>2 DEF Weighs
<1>2. /\ drop1 = drop + IF bytes /\ st \in {"used", "free"} /\ at /\ dp.ts = 0 THEN v ELSE 0
      /\ drop \in Int
  <2>1. Drops(dp, key) <=> bytes /\ st \in {"used", "free"} /\ at /\ dp.ts = 0
    BY DEF Drops, Labelled, Str
  <2>2. QED
    BY <2>1, DroppedAppend
<1>3. d.totalUsage \in Int /\ d.usedBytes \in Int
  BY DEF IsUsage, NoUsage
<1>4. /\ d1.totalUsage = d.totalUsage + IF at /\ bytes /\ st \in {"used", "free"} THEN v ELSE 0
      /\ d1.usedBytes = d.usedBytes + IF at /\ bytes /\ st = "used" THEN v ELSE 0
  BY <1>3 DEF Measured
<1>5. /\ avail = free /\ d.totalUsage = used + free + drop
      /\ d.usedBytes \in Nat /\ d.usedBytes <= d.totalUsage
  BY DEF Balance
<1>6. v \in Nat
  OBVIOUS
<1> HIDE DEF v, d1, st, bytes, at, used, free, avail, drop, used1, free1, avail1, drop1
<1>7. /\ avail1 = free1 /\ d1.totalUsage = used1 + free1 + drop1
      /\ d1.usedBytes \in Nat /\ d1.usedBytes <= d1.totalUsage
  <2>1. CASE ~(at /\ bytes)
    BY <1>1, <1>2, <1>3, <1>4, <1>5, <1>6, <2>1
  <2>2. CASE at /\ bytes /\ st = "used"
    BY <1>1, <1>2, <1>3, <1>4, <1>5, <1>6, <2>2
  <2>3. CASE at /\ bytes /\ st = "free"
    BY <1>1, <1>2, <1>3, <1>4, <1>5, <1>6, <2>3
  <2>4. CASE at /\ bytes /\ st \notin {"used", "free"}
    BY <1>1, <1>2, <1>3, <1>4, <1>5, <1>6, <2>4
  <2>5. QED
    BY <2>1, <2>2, <2>3, <2>4
<1>8. QED
  BY <1>7 DEF Balance, d1, used1, free1, avail1, drop1

-------------------------------------------------------------------------------
(* Filesystem: the totals of a device                                            *)

\* One metric has the name and is of the device, and this is its value.
OnlyBearer(f, name, key, value) ==
  \E i \in DOMAIN f : Bearing(f, name, key) = {i} /\ f[i].value = value

LEMMA BearOne ==
    ASSUME NEW f, Weighable(f), NEW ts, ts # 0, NEW m, FilesystemMetric(m, ts), NEW before,
           NEW k, IsKey(k)
    PROVE  LET g == AfterOne(f, ChainedMutator(before, FilesystemAttrs(k)), m)
           IN  /\ Bearing(f, m.name, k) = {} => OnlyBearer(g, m.name, k, m.value)
               /\ \A name, value : name # m.name /\ OnlyBearer(f, name, k, value)
                    => OnlyBearer(g, name, k, value)
<1> DEFINE mu == ChainedMutator(before, FilesystemAttrs(k))
           p == Appended(m, mu)
           g == AfterOne(f, mu, m)
<1>1. m.value[1] \in Int /\ Valid(m)
  BY DEF FilesystemMetric, GoodMetric, Valid
<1>2. p.name = m.name /\ p.value = m.value
  BY AppendedFields
<1>3. \A l \in DeviceAttrLabels : p.attrs[l] = FilesystemAttrs(k)[l]
  <2>1. DOMAIN FilesystemAttrs(k) = DeviceAttrLabels
    BY DEF FilesystemAttrs, DeviceAttrLabels
  <2>2. p.attrs = Put(OTelRemappedLabel, TRUE) ++ (before ++ FilesystemAttrs(k))
    BY DEF Appended, ChainedMutator
  <2> HIDE DEF p
  <2>3. QED
    BY <2>1, <2>2 DEF ++
<1>4. g = Append(f, p)
  BY <1>1 DEF AfterOne
<1> HIDE DEF mu, p, g
<1>5. \A name : Bears(p, name, k) <=> m.name = name
  BY <1>2, <1>3 DEF Bears
<1>6. \A name : Bearing(g, name, k) =
                  Bearing(f, name, k) \cup IF Bears(p, name, k) THEN {Len(f) + 1} ELSE {}
  BY <1>1, <1>2, <1>4, WeightAppend
<1>7. /\ DOMAIN g = 1..Len(f) + 1 /\ DOMAIN f = 1..Len(f) /\ Len(f) \in Nat
      /\ g[Len(f) + 1] = p /\ \A i \in 1..Len(f) : g[i] = f[i]
  BY <1>4, AppendPoints DEF Weighable
<1>8. Len(f) + 1 \in DOMAIN g /\ DOMAIN f \subseteq DOMAIN g /\ \A i \in DOMAIN f : g[i] = f[i]
  BY <1>7
<1>9. ASSUME Bearing(f, m.name, k) = {}
      PROVE  OnlyBearer(g, m.name, k, m.value)
  <2>1. Bearing(g, m.name, k) = {Len(f) + 1}
    BY <1>5, <1>6, <1>9
  <2>2. QED
    BY <1>2, <1>7, <1>8, <2>1 DEF OnlyBearer
<1>10. ASSUME NEW name, NEW value, name # m.name, OnlyBearer(f, name, k, value)
       PROVE  OnlyBearer(g, name, k, value)
  <2>1. PICK i \in DOMAIN f : Bearing(f, name, k) = {i} /\ f[i].value = value
    BY <1>10 DEF OnlyBearer
  <2>2. Bearing(g, name, k) = {i}
    BY <1>5, <1>6, <1>10, <2>1
  <2>3. QED
    BY <1>8, <2>1, <2>2 DEF OnlyBearer
<1>11. QED
  BY <1>9, <1>10 DEF g, mu

ByteNames == {UsedBytes, FreeBytes, AvailableBytes}
TotalNames == {TotalBytes, UsedShare}

LEMMA NamesDiffer ==
  /\ TotalBytes # UsedShare
  /\ TotalBytes \notin ByteNames /\ UsedShare \notin ByteNames
  /\ "system.filesystem.files" \notin ByteNames \cup TotalNames
BY DEF ByteNames, TotalNames, UsedBytes, FreeBytes, AvailableBytes, TotalBytes, UsedShare

\* g weighs what f weighs, for each device.
SameBytes(g, f) ==
  \A name \in ByteNames : \A key : IsKey(key) => Weight(g, name, key) = Weight(f, name, key)

\* The totals of other devices, or of any if there is no timestamp, are the same.
SameTotals(g, f, k, ts) ==
  \A name \in TotalNames : \A key :
    IsKey(key) /\ (key # k \/ ts = 0) => Bearing(g, name, key) = Bearing(f, name, key)

\* A device's totals are there.
TotalsAre(f, key, d) ==
  /\ OnlyBearer(f, TotalBytes, key, <<d.totalUsage, 1>>)
  /\ OnlyBearer(f, UsedShare, key, <<d.usedBytes, d.totalUsage>>)
NoTotals(f, key) == Bearing(f, TotalBytes, key) = {} /\ Bearing(f, UsedShare, key) = {}

\* A metric with a name of its own weighs nothing.
LEMMA TotalsWeighNothing ==
    ASSUME NEW f, Weighable(f), NEW ts, NEW m, FilesystemMetric(m, ts), m.name \notin ByteNames,
           NEW before, NEW k, IsKey(k)
    PROVE  LET g == AfterOne(f, ChainedMutator(before, FilesystemAttrs(k)), m)
           IN  Weighable(g) /\ SameBytes(g, f) /\ SameTotals(g, f, k, ts)
               /\ \A name \in TotalNames :
                    name # m.name => Bearing(g, name, k) = Bearing(f, name, k)
<1> DEFINE g == AfterOne(f, ChainedMutator(before, FilesystemAttrs(k)), m)
<1>1. /\ Weighable(g)
      /\ \A name, key : IsKey(key) =>
           Weighs(g, f, ts # 0 /\ m.name = name /\ key = k, name, key, m.value[1])
  BY WeighOne
<1> HIDE DEF g
<1>2. ASSUME NEW name, NEW key, IsKey(key), ~(ts # 0 /\ m.name = name /\ key = k)
      PROVE  Weight(g, name, key) = Weight(f, name, key) /\ Bearing(g, name, key) = Bearing(f, name, key)
  <2>1. Weighs(g, f, ts # 0 /\ m.name = name /\ key = k, name, key, m.value[1])
    BY <1>1, <1>2
  <2>2. (ts # 0 /\ m.name = name /\ key = k) = FALSE
    BY <1>2
  <2>3. Weighs(g, f, FALSE, name, key, m.value[1])
    BY <2>1, <2>2
  <2>4. QED
    BY <2>3 DEF Weighs
<1>3. SameBytes(g, f)
  BY <1>2 DEF SameBytes
<1>4. SameTotals(g, f, k, ts)
  BY <1>2 DEF SameTotals
<1>5. \A name \in TotalNames : name # m.name => Bearing(g, name, k) = Bearing(f, name, k)
  BY <1>2
<1>6. QED
  BY <1>1, <1>3, <1>4, <1>5 DEF g

\* What DeviceTotals lists.
TotalOf(d, ts) == IntSum(TotalBytes, d.totalUsage, ts)
ShareOf(d, ts) == DoubleSum(UsedShare, <<d.usedBytes, d.totalUsage>>, ts)
FilesOf(d, ts) == IntSum("system.filesystem.files", d.totalInodeUsage, ts)

LEMMA TotalsListed ==
    ASSUME NEW d, NEW ts
    PROVE  LET ms == DeviceTotals(d, ts)
           IN  /\ d.totalUsage > 0 =>
                    /\ Len(ms) \in {2, 3} /\ ms[1] = TotalOf(d, ts) /\ ms[2] = ShareOf(d, ts)
                    /\ Len(ms) = 3 => ms[3] = FilesOf(d, ts)
               /\ ~(d.totalUsage > 0) => Len(ms) \in {0, 1} /\ (Len(ms) = 1 => ms[1] = FilesOf(d, ts))
<1> DEFINE ms == DeviceTotals(d, ts)
           bytes == IF d.totalUsage > 0 THEN <<TotalOf(d, ts), ShareOf(d, ts)>> ELSE <<>>
           inodes == IF d.totalInodeUsage > 0 THEN <<FilesOf(d, ts)>> ELSE <<>>
<1>1. ms = bytes \o inodes
  BY DEF DeviceTotals, TotalOf, ShareOf, FilesOf, TotalBytes, UsedShare
<1>2. \A a, b : IsSeq(<<a, b>>) /\ IsSeq(<<a>>) /\ IsSeq(<<>>)
  <2>1. \A a, b : <<a, b>> \in Seq({a, b}) /\ <<a>> \in Seq({a}) /\ <<>> \in Seq({})
    OBVIOUS
  <2>2. QED
    BY <2>1, SeqIsSeq
<1>3. \A a, b : /\ Len(<<a, b>>) = 2 /\ <<a, b>>[1] = a /\ <<a, b>>[2] = b
                /\ Len(<<a>>) = 1 /\ <<a>>[1] = a /\ Len(<<>>) = 0
  OBVIOUS
<1>4. IsSeq(bytes) /\ IsSeq(inodes)
  BY <1>2
<1>5. /\ d.totalUsage > 0 => Len(bytes) = 2 /\ bytes[1] = TotalOf(d, ts) /\ bytes[2] = ShareOf(d, ts)
      /\ ~(d.totalUsage > 0) => Len(bytes) = 0
      /\ Len(inodes) \in {0, 1} /\ (Len(inodes) = 1 => inodes[1] = FilesOf(d, ts))
  <2>1. d.totalUsage > 0 => bytes = <<TotalOf(d, ts), ShareOf(d, ts)>>
    OBVIOUS
  <2>2. ~(d.totalUsage > 0) => bytes = <<>>
    OBVIOUS
  <2>3. inodes = <<FilesOf(d, ts)>> \/ inodes = <<>>
    OBVIOUS
  <2> HIDE DEF bytes, inodes
  <2>4. d.totalUsage > 0 => Len(bytes) = 2 /\ bytes[1] = TotalOf(d, ts) /\ bytes[2] = ShareOf(d, ts)
    BY <1>3, <2>1
  <2>5. ~(d.totalUsage > 0) => Len(bytes) = 0
    BY <1>3, <2>2
  <2>6. Len(inodes) \in {0, 1} /\ (Len(inodes) = 1 => inodes[1] = FilesOf(d, ts))
    BY <1>3, <2>3
  <2>7. QED
    BY <2>4, <2>5, <2>6
<1> HIDE DEF ms, bytes, inodes
<1>6. Joined(ms, bytes, inodes)
  BY <1>1, <1>4, ConcatAt
<1>7. CASE d.totalUsage > 0
  <2>1. Len(ms) = 2 + Len(inodes)
    BY <1>5, <1>6, <1>7 DEF Joined
  <2>2. ms[1] = bytes[1] /\ ms[2] = bytes[2]
    <3>1. 1 \in 1..Len(bytes) /\ 2 \in 1..Len(bytes)
      BY <1>5, <1>7
    <3>2. QED
      BY <1>6, <3>1 DEF Joined
  <2>3. Len(inodes) = 1 => ms[3] = inodes[1]
    <3>1. Len(inodes) = 1 => 1 \in 1..Len(inodes) /\ Len(bytes) = 2
      BY <1>5, <1>7
    <3>2. 1 \in 1..Len(inodes) => ms[Len(bytes) + 1] = inodes[1]
      BY <1>6 DEF Joined
    <3>3. 2 + 1 = 3
      OBVIOUS
    <3>4. QED
      BY <3>1, <3>2, <3>3, Zenon
  <2>4. Len(inodes) \in {0, 1} /\ (Len(inodes) = 1 => inodes[1] = FilesOf(d, ts))
    BY <1>5
  <2>5. CASE Len(inodes) = 0
    <3>1. Len(ms) = 2
      BY <2>1, <2>5
    <3>2. QED
      BY <1>5, <1>7, <2>2, <3>1 DEF ms
  <2>6. CASE Len(inodes) = 1
    <3>1. Len(ms) = 3 /\ ms[3] = FilesOf(d, ts)
      BY <2>1, <2>3, <2>4, <2>6
    <3>2. QED
      BY <1>5, <1>7, <2>2, <3>1 DEF ms
  <2>7. QED
    BY <2>4, <2>5, <2>6
<1>8. CASE ~(d.totalUsage > 0)
  <2>1. Len(ms) = 0 + Len(inodes)
    BY <1>5, <1>6, <1>8 DEF Joined
  <2>2. Len(inodes) = 1 => ms[1] = inodes[1]
    <3>1. Len(inodes) = 1 => 1 \in 1..Len(inodes) /\ Len(bytes) + 1 = 1
      BY <1>5, <1>8
    <3>2. QED
      BY <1>6, <3>1 DEF Joined
  <2>3. QED
    BY <1>5, <1>8, <2>1, <2>2 DEF ms
<1>9. QED
  BY <1>7, <1>8

LEMMA TotalsStep ==
    ASSUME NEW f, Weighable(f), NEW d, IsUsage(d), NEW ts, NEW before, NEW k, IsKey(k),
           NoTotals(f, k)
    PROVE  LET h == Add(f, ChainedMutator(before, FilesystemAttrs(k)), DeviceTotals(d, ts))
           IN  /\ Weighable(h) /\ Len(DeviceTotals(d, ts)) \in 0..3
               /\ SameBytes(h, f) /\ SameTotals(h, f, k, ts)
               /\ IF d.totalUsage > 0 /\ ts # 0 THEN TotalsAre(h, k, d) ELSE NoTotals(h, k)
<1> DEFINE mu == ChainedMutator(before, FilesystemAttrs(k))
           ms == DeviceTotals(d, ts)
           total == TotalOf(d, ts)
           share == ShareOf(d, ts)
           files == FilesOf(d, ts)
           h == Add(f, mu, ms)
<1>1. /\ total.name = TotalBytes /\ total.value = <<d.totalUsage, 1>>
      /\ share.name = UsedShare /\ share.value = <<d.usedBytes, d.totalUsage>>
      /\ files.name = "system.filesystem.files"
  BY DEF TotalOf, ShareOf, FilesOf, IntSum, DoubleSum
<1>2. /\ FilesystemMetric(total, ts) /\ FilesystemMetric(share, ts) /\ FilesystemMetric(files, ts)
  <2>1. LookedAt("filesystemscraper") = {"system.filesystem.usage", "system.filesystem.inodes.usage"}
    BY DEF LookedAt, FoldScrapers, Locals, FilesystemMetrics, FilesystemUsage
  <2>2. d.totalUsage \in Int /\ d.usedBytes \in Int /\ d.totalInodeUsage \in Int
    BY DEF IsUsage, NoUsage
  <2>3. <<d.usedBytes, d.totalUsage>> \in Int \X Int
    BY <2>2
  <2>4. QED
    BY <2>1, <2>2, <2>3, LiteralMetrics
       DEF FilesystemMetric, TotalOf, ShareOf, FilesOf, TotalBytes, UsedShare
<1>3. /\ d.totalUsage > 0 =>
           /\ Len(ms) \in {2, 3} /\ ms[1] = total /\ ms[2] = share
           /\ Len(ms) = 3 => ms[3] = files
      /\ ~(d.totalUsage > 0) => Len(ms) \in {0, 1} /\ (Len(ms) = 1 => ms[1] = files)
  BY TotalsListed
<1> HIDE DEF mu, ms, total, share, files, h
<1>4. \A g : Weighable(g) =>
        LET g1 == AfterOne(g, mu, files)
        IN  /\ Weighable(g1) /\ SameBytes(g1, g) /\ SameTotals(g1, g, k, ts)
            /\ \A name \in TotalNames : Bearing(g1, name, k) = Bearing(g, name, k)
            /\ ts # 0 => \A name \in TotalNames : \A value :
                 OnlyBearer(g, name, k, value) => OnlyBearer(g1, name, k, value)
  <2> SUFFICES ASSUME NEW g, Weighable(g)
               PROVE  LET g1 == AfterOne(g, mu, files)
                      IN  /\ Weighable(g1) /\ SameBytes(g1, g) /\ SameTotals(g1, g, k, ts)
                          /\ \A name \in TotalNames : Bearing(g1, name, k) = Bearing(g, name, k)
                          /\ ts # 0 => \A name \in TotalNames : \A value :
                               OnlyBearer(g, name, k, value) => OnlyBearer(g1, name, k, value)
    OBVIOUS
  <2> DEFINE g1 == AfterOne(g, mu, files)
  <2>1. files.name \notin ByteNames /\ files.name \notin TotalNames
    BY <1>1, NamesDiffer
  <2>2. /\ Weighable(g1) /\ SameBytes(g1, g) /\ SameTotals(g1, g, k, ts)
        /\ \A name \in TotalNames : name # files.name => Bearing(g1, name, k) = Bearing(g, name, k)
    BY <1>2, <2>1, TotalsWeighNothing DEF mu
  <2>3. ts # 0 => \A name, value : name # files.name /\ OnlyBearer(g, name, k, value)
                                     => OnlyBearer(g1, name, k, value)
    BY <1>2, BearOne DEF mu
  <2> HIDE DEF g1
  <2>4. /\ \A name \in TotalNames : Bearing(g1, name, k) = Bearing(g, name, k)
        /\ ts # 0 => \A name \in TotalNames : \A value :
             OnlyBearer(g, name, k, value) => OnlyBearer(g1, name, k, value)
    BY <2>1, <2>2, <2>3
  <2>5. QED
    BY <2>2, <2>4 DEF g1
<1>5. CASE d.totalUsage > 0
  <2> DEFINE g1 == AfterOne(f, mu, total)
             g2 == AfterOne(g1, mu, share)
             g3 == AfterOne(g2, mu, files)
  <2>1. h = g2 \/ h = g3
    BY <1>3, <1>5, AddFew DEF h
  <2>2. /\ Weighable(g1) /\ SameBytes(g1, f) /\ SameTotals(g1, f, k, ts)
        /\ Bearing(g1, UsedShare, k) = Bearing(f, UsedShare, k)
    <3>1. total.name \notin ByteNames /\ UsedShare # total.name /\ UsedShare \in TotalNames
      BY <1>1, NamesDiffer DEF TotalNames
    <3>2. QED
      BY <1>2, <3>1, TotalsWeighNothing DEF mu
  <2>3. ts # 0 => OnlyBearer(g1, TotalBytes, k, <<d.totalUsage, 1>>)
    BY <1>1, <1>2, BearOne DEF mu, NoTotals
  <2> HIDE DEF g1
  <2>4. Weighable(g2) /\ SameBytes(g2, g1) /\ SameTotals(g2, g1, k, ts)
    <3>1. share.name \notin ByteNames
      BY <1>1, NamesDiffer
    <3>2. QED
      BY <1>2, <2>2, <3>1, TotalsWeighNothing DEF mu
  <2>5. ts # 0 => /\ OnlyBearer(g2, TotalBytes, k, <<d.totalUsage, 1>>)
                  /\ OnlyBearer(g2, UsedShare, k, <<d.usedBytes, d.totalUsage>>)
    <3>1. Bearing(g1, UsedShare, k) = {}
      BY <2>2 DEF NoTotals
    <3>2. TotalBytes # share.name /\ share.name = UsedShare
      BY <1>1, NamesDiffer
    <3>3. QED
      BY <1>1, <1>2, <2>2, <2>3, <3>1, <3>2, BearOne DEF mu
  <2> HIDE DEF g2
  <2>6. /\ Weighable(g3) /\ SameBytes(g3, g2) /\ SameTotals(g3, g2, k, ts)
        /\ ts # 0 => /\ OnlyBearer(g3, TotalBytes, k, <<d.totalUsage, 1>>)
                     /\ OnlyBearer(g3, UsedShare, k, <<d.usedBytes, d.totalUsage>>)
    BY <1>4, <2>4, <2>5 DEF TotalNames
  <2> HIDE DEF g3
  <2>7. /\ Weighable(h) /\ SameBytes(h, f) /\ SameTotals(h, f, k, ts)
        /\ ts # 0 => TotalsAre(h, k, d)
    BY <2>1, <2>2, <2>4, <2>5, <2>6 DEF SameBytes, SameTotals, TotalsAre
  <2>8. ts = 0 => NoTotals(h, k)
    BY <2>7 DEF SameTotals, NoTotals, TotalNames
  <2>9. Len(ms) \in 0..3
    BY <1>3, <1>5
  <2>10. QED
    BY <1>5, <2>7, <2>8, <2>9 DEF h, mu, ms
<1>6. CASE ~(d.totalUsage > 0)
  <2> DEFINE e == AfterOne(f, mu, files)
  <2>1. h = f \/ h = e
    BY <1>3, <1>6, AddFew DEF h
  <2>2. /\ Weighable(e) /\ SameBytes(e, f) /\ SameTotals(e, f, k, ts)
        /\ \A name \in TotalNames : Bearing(e, name, k) = Bearing(f, name, k)
    BY <1>4
  <2> HIDE DEF e
  <2>3. /\ Weighable(h) /\ SameBytes(h, f) /\ SameTotals(h, f, k, ts) /\ NoTotals(h, k)
    BY <2>1, <2>2 DEF SameBytes, SameTotals, NoTotals, TotalNames
  <2>4. Len(ms) \in 0..3
    BY <1>3, <1>6
  <2>5. QED
    BY <1>6, <2>3, <2>4 DEF h, mu, ms
<1>7. QED
  BY <1>5, <1>6

-------------------------------------------------------------------------------
(* Filesystem: the steps of a call                                               *)

OfFilesystem == Handled(package, scope) /\ Filesystem

\* A turn of the first loop, and one of the second.
Measures(dp) ==
  /\ pc = "loop" /\ seen' = Append(seen, dp) /\ ReadFilesystem(dp)
  /\ UNCHANGED <<pc, left>>
Totals(key) ==
  /\ pc = "devices" /\ left' = left \ {key}
  /\ out' = Add(out, ChainedMutator(DatasetMutator, FilesystemAttrs(key)),
                DeviceTotals(devices[key], timestamp))
  /\ UNCHANGED <<pc, seen, devices, timestamp>>

Ranges ==
  /\ pc = "tail" /\ pc' = "devices" /\ left' = DOMAIN devices
  /\ UNCHANGED <<out, seen, devices, timestamp>>
Ends ==
  /\ pc = "devices" /\ left = {} /\ pc' = "done"
  /\ UNCHANGED <<out, seen, devices, timestamp, left>>
Rests ==
  /\ pc' # pc => pc \notin {"devices", "done"} /\ pc' \notin {"devices", "done"}
  /\ UNCHANGED <<out, seen, devices, timestamp, left>>

LEMMA DeviceSteps ==
    ASSUME TypeInv, OfFilesystem, [Next]_vars
    PROVE  /\ UNCHANGED <<package, scope>>
           /\ \/ \E dp \in Inputs[scope.base] : Measures(dp)
              \/ \E key \in left : Totals(key)
              \/ Ranges \/ Ends \/ Rests
<1> USE DEF call, locals
<1>1. scope.base = "filesystemscraper" /\ scope.base \notin FoldScrapers
  BY DEF OfFilesystem, Filesystem, FoldScrapers, Locals
<1>2. UNCHANGED <<package, scope>>
  BY DEF Next, vars, Ignore, Begin, ReadPoint, EndOfScope, ReadBack, AppendFolded, RangeDevices,
    AppendDevice, Return
<1>3. CASE Begin \/ EndOfScope \/ UNCHANGED vars
  BY <1>2, <1>3 DEF Begin, EndOfScope, vars, Rests
<1>4. CASE \E dp \in Inputs[scope.base] : ReadPoint(dp)
  <2>1. PICK dp \in Inputs[scope.base] : ReadPoint(dp)
    BY <1>4
  <2>2. ReadFilesystem(dp)
    BY <1>1, <2>1 DEF ReadPoint, Read, ReadFolded, Folding, ReadDisk, ReadNetwork
  <2>3. Measures(dp)
    BY <2>1, <2>2 DEF ReadPoint, Measures
  <2>4. QED
    BY <1>2, <2>3
<1>5. CASE ReadBack
  <2>1. LocalsType /\ OutType /\ fed \in 0..Len(out)
    BY DEF TypeInv, TypeOK
  <2>2. DOMAIN out = 1..Len(out) /\ Len(out) \in Nat
    BY <2>1, IsSeqDomain DEF OutType
  <2>3. Inert(scope.base, out[fed + 1]) /\ Read(out[fed + 1])
    BY <1>5, <2>1, <2>2 DEF ReadBack, OutType, AllInert
  <2>4. UNCHANGED <<out, locals>>
    BY <2>1, <2>3, ReadInert
  <2>5. QED
    BY <1>2, <1>5, <2>4 DEF ReadBack, Rests
<1>6. CASE RangeDevices
  BY <1>2, <1>6 DEF RangeDevices, LoopEnded, Ranges
<1>7. CASE \E key \in left : AppendDevice(key)
  BY <1>2, <1>7 DEF AppendDevice, Totals
<1>8. CASE Return
  BY <1>1, <1>2, <1>8 DEF Return, Ends
<1>9. ~Ignore /\ ~AppendFolded
  BY <1>1 DEF Ignore, AppendFolded, Folding, OfFilesystem
<1>10. QED
  BY <1>2, <1>3, <1>4, <1>5, <1>6, <1>7, <1>8, <1>9 DEF Next

Keys == {DeviceKey(dp) : dp \in {q \in Inputs[scope.base] : HasDeviceKey(q)}}

LEMMA KeysAreKeys == \A key \in Keys : IsKey(key)
BY DEF Keys, DeviceKey, IsKey

\* The last loop has been at the device.
Visited(key) == pc \in {"devices", "done"} /\ key \notin left

Totalled(f, key, d, ts, visited) ==
  IF visited /\ d.totalUsage > 0 /\ ts # 0 THEN TotalsAre(f, key, d) ELSE NoTotals(f, key)

\* The inductive invariant: the bytes balance at every turn, and the devices
\* the last loop has visited, and no others, have their totals.
DeviceInv ==
  OfFilesystem =>
    /\ Len(Earlier) <= Len(out)
    /\ DOMAIN devices \subseteq Keys
    /\ pc = "done" => left = {}
    /\ \A key \in Keys :
         /\ Balance(seen, AfterEarlier(out), UsageOf(devices, key), key)
         /\ Totalled(AfterEarlier(out), key, UsageOf(devices, key), timestamp, Visited(key))

LEMMA InitDevices == Init => DeviceInv
<1> SUFFICES ASSUME Init PROVE DeviceInv
  OBVIOUS
<1>1. out = Earlier /\ seen = <<>> /\ devices = Empty /\ pc = "idle"
  BY DEF Init
<1>2. Len(Earlier) \in Nat /\ IsSeq(Earlier)
  BY EarlierAssumption, IsSeqDomain DEF IsSeq
<1>3. AfterEarlier(out) = <<>>
  BY <1>1, <1>2 DEF AfterEarlier, IsSeq
<1>4. Len(<<>>) = 0 /\ DOMAIN <<>> = {}
  OBVIOUS
<1>5. DOMAIN devices = {} /\ \A key : UsageOf(devices, key) = NoUsage
  BY <1>1 DEF UsageOf, Empty
<1>6. \A name, key : Bearing(<<>>, name, key) = {} /\ Weight(<<>>, name, key) = 0
  BY <1>4, SumToStep DEF Bearing, Weight
<1>7. \A key : DroppedSum(<<>>, key) = 0
  BY <1>4, SumToStep DEF DroppedSum
<1>8. \A key : Balance(<<>>, <<>>, NoUsage, key)
  BY <1>6, <1>7 DEF Balance, NoUsage
<1>9. \A key, ts : Totalled(<<>>, key, NoUsage, ts, FALSE)
  BY <1>6 DEF Totalled, NoTotals
<1>10. \A key : ~Visited(key)
  BY <1>1 DEF Visited
<1>11. \A key : Totalled(<<>>, key, NoUsage, timestamp, Visited(key))
  BY <1>6, <1>10 DEF Totalled, NoTotals
<1>12. QED
  BY <1>1, <1>2, <1>3, <1>5, <1>8, <1>11 DEF DeviceInv

\* What has been appended is of integers.
LEMMA FreshWeighable ==
    ASSUME OutType, Len(Earlier) <= Len(out)
    PROVE  Weighable(AfterEarlier(out))
<1>1. /\ IsSeq(out) /\ DOMAIN out = 1..Len(out) /\ Len(out) \in Nat
      /\ \A i \in DOMAIN out : IsPoint(out[i])
  BY IsSeqDomain DEF OutType, AllInert
<1>2. Len(Earlier) \in Nat
  BY EarlierAssumption, IsSeqDomain DEF IsSeq
<1> DEFINE m == Len(Earlier)
           n == Len(out)
           f == SubSeq(out, m + 1, n)
<1>3. out \in Seq({out[i] : i \in DOMAIN out})
  BY <1>1 DEF IsSeq
<1>4. m \in Nat /\ n \in Nat /\ m <= n /\ DOMAIN out = 1..n /\ n = Len(out)
  BY <1>1, <1>2
<1> HIDE DEF m, n
<1>5. DOMAIN f = 1..n - m /\ f \in Seq({out[i] : i \in DOMAIN out})
  BY <1>3, <1>4
<1>6. \A i \in 1..n - m : f[i] = out[m + i] /\ m + i \in DOMAIN out
  BY <1>3, <1>4
<1>7. IsSeq(f)
  BY <1>5, SeqIsSeq
<1>8. \A i \in DOMAIN f : f[i].value[1] \in Int
  BY <1>1, <1>5, <1>6 DEF IsPoint
<1>9. AfterEarlier(out) = f
  BY DEF AfterEarlier, f, m, n
<1> HIDE DEF f
<1>10. QED
  BY <1>7, <1>8, <1>9 DEF Weighable

\* A device keeps its balance as long as nothing is appended under its names.
LEMMA BalanceSame ==
    ASSUME NEW s, NEW f, NEW g, SameBytes(g, f), NEW d, NEW key, IsKey(key), Balance(s, f, d, key)
    PROVE  Balance(s, g, d, key)
<1>1. /\ Weight(g, UsedBytes, key) = Weight(f, UsedBytes, key)
      /\ Weight(g, FreeBytes, key) = Weight(f, FreeBytes, key)
      /\ Weight(g, AvailableBytes, key) = Weight(f, AvailableBytes, key)
  BY DEF SameBytes, ByteNames
<1>2. QED
  BY <1>1 DEF Balance

LEMMA UsageType ==
    ASSUME TypeInv, NEW key
    PROVE  IsUsage(UsageOf(devices, key))
<1>1. \A k \in DOMAIN devices : devices[k] \in [DOMAIN NoUsage -> Int]
  BY DEF TypeInv, LocalsType
<1>2. NoUsage \in [DOMAIN NoUsage -> Int]
  BY DEF NoUsage
<1>3. QED
  BY <1>1, <1>2 DEF IsUsage, UsageOf

\* The first loop.
LEMMA DevicesCount ==
    ASSUME TypeInv, OfFilesystem, DeviceInv, UNCHANGED <<package, scope>>,
           NEW dp \in Inputs[scope.base], Measures(dp)
    PROVE  DeviceInv'
<1> DEFINE f == AfterEarlier(out)
           k == DeviceKey(dp)
           v == IntValue(dp)
<1>1. /\ Len(Earlier) <= Len(out) /\ DOMAIN devices \subseteq Keys
      /\ \A key \in Keys : /\ Balance(seen, f, UsageOf(devices, key), key)
                           /\ Totalled(f, key, UsageOf(devices, key), timestamp, Visited(key))
  BY DEF DeviceInv
<1>2. IsPoint(dp) /\ ArePoints(seen) /\ v \in Nat
  <2>1. IsPoint(dp) /\ ArePoints(seen)
    BY SeenPoints
  <2>2. scope \in Scopes /\ scope.base = "filesystemscraper"
    BY DEF TypeInv, TypeOK, OfFilesystem, Filesystem
  <2>3. dp.value[1] \in Nat
    BY <2>2, InputsAssumption
  <2>4. v = dp.value[1] \/ v = 0
    BY DEF IntValue
  <2>5. QED
    BY <2>1, <2>3, <2>4
<1>3. /\ pc = "loop" /\ pc' = "loop" /\ seen' = Append(seen, dp) /\ UNCHANGED left
      /\ ReadFilesystem(dp)
  BY DEF Measures
<1>4. \A key : ~Visited(key) /\ ~Visited(key)'
  BY <1>3 DEF Visited
<1>5. \A key \in Keys : NoTotals(f, key)
  BY <1>1, <1>4 DEF Totalled
<1>6. IsSeq(out) /\ Weighable(f)
  BY <1>1, FreshWeighable DEF TypeInv, OutType
<1>7. Keys' = Keys
  BY DEF Keys
<1>8. CASE ~(dp.name \in FilesystemMetrics /\ HasDeviceKey(dp))
  <2>1. UNCHANGED <<devices, out>>
    BY <1>3, <1>8 DEF ReadFilesystem
  <2>2. \A key \in Keys : Balance(seen', f, UsageOf(devices, key), key)
    BY <1>1, <1>2, <1>3, <1>8, BalanceKept
  <2>3. AfterEarlier(out') = f
    BY <2>1
  <2> HIDE DEF f
  <2>4. \A key \in Keys : /\ Balance(seen', f, UsageOf(devices', key), key)
                          /\ Totalled(f, key, UsageOf(devices', key), timestamp', Visited(key)')
    BY <1>4, <1>5, <2>1, <2>2 DEF Totalled
  <2>5. QED
    BY <1>1, <1>3, <1>7, <2>1, <2>3, <2>4 DEF DeviceInv
<1>9. CASE dp.name \in FilesystemMetrics /\ HasDeviceKey(dp)
  <2> DEFINE ms == PointMetrics(dp)
             mu == ChainedMutator(DatasetMutator, FilesystemAttrs(k))
             g == Add(f, mu, ms)
  <2>1. devices' = DeviceUsage(devices, dp) /\ out' = Add(out, mu, ms)
    BY <1>3, <1>9 DEF ReadFilesystem
  <2>2. k \in Keys
    BY <1>9 DEF Keys
  <2>3. IsKey(k)
    BY <2>2, KeysAreKeys
  <2>4. /\ Len(ms) \in 0..3
        /\ \A name, key : IsKey(key) =>
             Weighs(g, f, dp.ts # 0 /\ Under(dp, name) /\ key = k, name, key, v)
    BY <1>2, <1>6, <2>3, WeighPoint
  <2>5. AfterEarlier(out') = g /\ Len(Earlier) <= Len(out')
    BY <1>1, <1>6, <2>1, <2>4, AfterEarlierAdd
  <2>6. DOMAIN devices' \subseteq Keys
    <3>1. \A key \in DOMAIN devices : devices[key] \in [DOMAIN NoUsage -> Int]
      BY DEF TypeInv, LocalsType
    <3>2. DOMAIN DeviceUsage(devices, dp) = DOMAIN devices \cup {k}
      BY <1>2, <3>1, DeviceUsageType
    <3>3. QED
      BY <1>1, <2>1, <2>2, <3>2
  <2> HIDE DEF f, g, k, v, mu, ms
  <2>7. ASSUME NEW key \in Keys
        PROVE  /\ Balance(seen', g, UsageOf(devices', key), key)
               /\ Totalled(g, key, UsageOf(devices', key), timestamp', Visited(key)')
    <3> DEFINE d == UsageOf(devices, key)
    <3>1. IsKey(key) /\ IsUsage(d) /\ Balance(seen, f, d, key)
      BY <1>1, KeysAreKeys, UsageType
    <3>2. UsageOf(devices', key) = IF key = DeviceKey(dp) THEN Measured(d, dp) ELSE d
      BY <2>1, UsageAfter
    <3>3. \A name : Weighs(g, f, dp.ts # 0 /\ Under(dp, name) /\ key = k, name, key, v)
      BY <2>4, <3>1
    <3> HIDE DEF d
    <3>4. Balance(Append(seen, dp), g, IF key = DeviceKey(dp) THEN Measured(d, dp) ELSE d, key)
      BY <1>2, <1>9, <3>1, <3>3, BalanceStep DEF k, v
    <3>5. \A name \in TotalNames : Bearing(g, name, key) = Bearing(f, name, key)
      <4>1. ASSUME NEW name \in TotalNames
            PROVE  Bearing(g, name, key) = Bearing(f, name, key)
        <5>1. Weighs(g, f, dp.ts # 0 /\ Under(dp, name) /\ key = k, name, key, v)
          BY <3>3
        <5>2. ~Under(dp, name)
          BY UnderNames DEF TotalNames
        <5>3. (dp.ts # 0 /\ Under(dp, name) /\ key = k) = FALSE
          BY <5>2
        <5>4. Weighs(g, f, FALSE, name, key, v)
          BY <5>1, <5>3
        <5>5. QED
          BY <5>4 DEF Weighs
      <4>2. QED
        BY <4>1
    <3>6. NoTotals(g, key)
      BY <1>5, <3>5 DEF NoTotals, TotalNames
    <3>7. Totalled(g, key, UsageOf(devices', key), timestamp', Visited(key)')
      BY <1>4, <3>6 DEF Totalled
    <3>8. QED
      BY <1>3, <3>2, <3>4, <3>7
  <2>8. QED
    BY <1>3, <1>7, <2>5, <2>6, <2>7 DEF DeviceInv
<1>10. QED
  BY <1>8, <1>9

\* The second loop.
LEMMA DevicesTotal ==
    ASSUME TypeInv, OfFilesystem, DeviceInv, UNCHANGED <<package, scope>>,
           NEW k \in left, Totals(k)
    PROVE  DeviceInv'
<1> DEFINE f == AfterEarlier(out)
           ms == DeviceTotals(devices[k], timestamp)
           mu == ChainedMutator(DatasetMutator, FilesystemAttrs(k))
           g == Add(f, mu, ms)
<1>1. /\ Len(Earlier) <= Len(out) /\ DOMAIN devices \subseteq Keys
      /\ \A key \in Keys : /\ Balance(seen, f, UsageOf(devices, key), key)
                           /\ Totalled(f, key, UsageOf(devices, key), timestamp, Visited(key))
  BY DEF DeviceInv
<1>2. /\ pc = "devices" /\ pc' = "devices" /\ left' = left \ {k} /\ out' = Add(out, mu, ms)
      /\ UNCHANGED <<seen, devices, timestamp>>
  BY DEF Totals
<1>3. IsSeq(out) /\ Weighable(f)
  BY <1>1, FreshWeighable DEF TypeInv, OutType
<1>4. k \in DOMAIN devices /\ k \in Keys /\ IsKey(k)
  BY <1>1, KeysAreKeys DEF TypeInv, TypeOK
<1>5. UsageOf(devices, k) = devices[k] /\ IsUsage(devices[k])
  BY <1>4, UsageType DEF UsageOf
<1>6. ~Visited(k) /\ Visited(k)' /\ \A key : key # k => (Visited(key)' <=> Visited(key))
  BY <1>2 DEF Visited
<1>7. NoTotals(f, k)
  BY <1>1, <1>4, <1>6 DEF Totalled
<1> DEFINE d == devices[k]
           ts == timestamp
<1>8. /\ Weighable(g) /\ Len(ms) \in 0..3
      /\ SameBytes(g, f) /\ SameTotals(g, f, k, ts)
      /\ IF d.totalUsage > 0 /\ ts # 0 THEN TotalsAre(g, k, d) ELSE NoTotals(g, k)
  BY <1>3, <1>4, <1>5, <1>7, TotalsStep
<1>9. AfterEarlier(out') = g /\ Len(Earlier) <= Len(out')
  BY <1>1, <1>2, <1>3, <1>8, AfterEarlierAdd
<1>10. Keys' = Keys
  BY DEF Keys
<1>11. DOMAIN f \subseteq DOMAIN g /\ \A i \in DOMAIN f : g[i] = f[i]
  <2>0. IsSeq(ms)
    BY DeviceTotalsSeq
  <2> HIDE DEF f, mu, ms
  <2>1. IsSeq(f) /\ Len(ms) \in Nat /\ DOMAIN ms = 1..Len(ms)
    BY <1>3, <2>0, IsSeqDomain DEF Weighable
  <2>2. Extends(g, f, AddedPoints(mu, ms))
    BY <2>1, AddExtends
  <2> HIDE DEF g
  <2>3. DOMAIN f = 1..Len(f) /\ DOMAIN g = 1..Len(g) /\ Len(f) \in Nat /\ Len(g) \in Nat
    BY <2>1, <2>2, IsSeqDomain DEF Extends
  <2>4. QED
    BY <2>2, <2>3 DEF Extends
<1> HIDE DEF f, g, mu, ms, d
<1>12. ASSUME NEW key \in Keys
       PROVE  /\ Balance(seen, g, UsageOf(devices, key), key)
              /\ Totalled(g, key, UsageOf(devices, key), ts, Visited(key)')
  <2>1. IsKey(key)
    BY KeysAreKeys
  <2>2. Balance(seen, g, UsageOf(devices, key), key)
    BY <1>1, <1>8, <2>1, BalanceSame
  <2>3. CASE key = k
    <3>1. Totalled(g, k, d, ts, TRUE)
      BY <1>8 DEF Totalled
    <3>2. QED
      BY <1>5, <1>6, <2>2, <2>3, <3>1 DEF d, Totalled
  <2>4. CASE key # k
    <3>1. \A name \in TotalNames : Bearing(g, name, key) = Bearing(f, name, key)
      BY <1>8, <2>1, <2>4 DEF SameTotals
    <3>2. NoTotals(f, key) => NoTotals(g, key)
      BY <3>1 DEF NoTotals, TotalNames
    <3>3. \A q : TotalsAre(f, key, q) => TotalsAre(g, key, q)
      <4>1. \A name \in TotalNames : \A value :
              OnlyBearer(f, name, key, value) => OnlyBearer(g, name, key, value)
        BY <1>11, <3>1 DEF OnlyBearer
      <4>2. QED
        BY <4>1 DEF TotalsAre, TotalNames
    <3>4. Totalled(f, key, UsageOf(devices, key), ts, Visited(key)')
      BY <1>1, <1>6, <2>4 DEF Totalled
    <3>5. QED
      BY <2>2, <3>2, <3>3, <3>4 DEF Totalled
  <2>5. QED
    BY <2>3, <2>4
<1>13. QED
  BY <1>1, <1>2, <1>9, <1>10, <1>12 DEF DeviceInv

LEMMA NextDevices == TypeInv /\ DeviceInv /\ [Next]_vars => DeviceInv'
<1> SUFFICES ASSUME TypeInv, DeviceInv, [Next]_vars, OfFilesystem'
             PROVE  DeviceInv'
  BY DEF DeviceInv
<1>1. UNCHANGED <<package, scope>>
  BY DEF Next, vars, call, Ignore, Begin, ReadPoint, EndOfScope, ReadBack, AppendFolded,
    RangeDevices, AppendDevice, Return
<1>2. OfFilesystem
  BY <1>1 DEF OfFilesystem, Handled, ValidScope, Filesystem
<1>3. /\ Len(Earlier) <= Len(out) /\ DOMAIN devices \subseteq Keys
      /\ pc = "done" => left = {}
      /\ \A key \in Keys :
           /\ Balance(seen, AfterEarlier(out), UsageOf(devices, key), key)
           /\ Totalled(AfterEarlier(out), key, UsageOf(devices, key), timestamp, Visited(key))
  BY <1>2 DEF DeviceInv
<1>4. Keys' = Keys
  BY <1>1 DEF Keys
<1>5. CASE Rests \/ Ends
  <2>1. UNCHANGED <<out, seen, devices, timestamp, left>> /\ (pc' = "done" => left = {})
    BY <1>3, <1>5 DEF Rests, Ends
  <2>2. \A key : Visited(key)' <=> Visited(key)
    BY <1>5 DEF Rests, Ends, Visited
  <2>3. \A key \in Keys :
          /\ Balance(seen, AfterEarlier(out), UsageOf(devices, key), key)
          /\ Totalled(AfterEarlier(out), key, UsageOf(devices, key), timestamp, Visited(key)')
    BY <1>3, <2>2 DEF Totalled
  <2>4. QED
    BY <1>3, <1>4, <2>1, <2>3 DEF DeviceInv
<1>6. CASE Ranges
  <2>1. /\ UNCHANGED <<out, seen, devices, timestamp>> /\ pc' = "devices"
        /\ pc = "tail" /\ left' = DOMAIN devices
    BY <1>6 DEF Ranges
  <2>2. ASSUME NEW key \in Keys
        PROVE  Totalled(AfterEarlier(out), key, UsageOf(devices, key), timestamp, Visited(key)')
    <3>1. ~Visited(key)
      BY <2>1 DEF Visited
    <3>2. NoTotals(AfterEarlier(out), key)
      BY <1>3, <3>1 DEF Totalled
    <3>3. Visited(key)' => UsageOf(devices, key) = NoUsage
      BY <2>1 DEF Visited, UsageOf
    <3>4. ~(NoUsage.totalUsage > 0)
      BY DEF NoUsage
    <3>5. ~(Visited(key)' /\ UsageOf(devices, key).totalUsage > 0)
      BY <3>3, <3>4
    <3>6. QED
      BY <3>2, <3>5 DEF Totalled
  <2>3. QED
    BY <1>3, <1>4, <2>1, <2>2 DEF DeviceInv
<1>7. QED
  BY <1>1, <1>2, <1>5, <1>6, DeviceSteps, DevicesCount, DevicesTotal

\* Filesystem: for any points in any order, of any devices, and however the last
\* loop ranges over the map, the total of each device is what was appended as
\* its used and free bytes and what was dropped for want of a timestamp; it is
\* appended once, with a share used between 0 and 1, unless nothing was measured
\* or the last point had no timestamp.
THEOREM DevicesAddUp == Spec => []FilesystemBalanced
<1>1. TypeInv /\ DeviceInv => FilesystemBalanced
  <2> SUFFICES ASSUME TypeInv, DeviceInv, Returned("filesystemscraper"),
                      NEW key \in {DeviceKey(seen[i]) : i \in {j \in DOMAIN seen : HasDeviceKey(seen[j])}}
               PROVE  LET Sum(name) == SumOfDevice(name, key)
                          bytes == Sum("system.filesystem.used.bytes")
                                     + Sum("system.filesystem.free") + Reported(Dropped(key))
                          totals == OfDevice("system.filesystem.total", key)
                          shares == OfDevice("system.filesystem.used.pct", key)
                      IN  /\ Sum("system.filesystem.available") = Sum("system.filesystem.free")
                          /\ IF bytes = 0 \/ timestamp = 0 THEN totals = {} /\ shares = {}
                             ELSE \E i, j \in DOMAIN Fresh :
                                    /\ totals = {i} /\ Fresh[i].value[1] = bytes
                                    /\ shares = {j} /\ Fresh[j].value[2] > 0
                                    /\ Fresh[j].value[1] \in 0..Fresh[j].value[2]
    BY DEF FilesystemBalanced
  <2> DEFINE d == UsageOf(devices, key)
             used == Weight(Fresh, UsedBytes, key)
             free == Weight(Fresh, FreeBytes, key)
             drop == DroppedSum(seen, key)
  <2>1. OfFilesystem /\ pc = "done" /\ Fresh = AfterEarlier(out)
    BY DEF Returned, OfFilesystem, Filesystem, Fresh, AfterEarlier
  <2>2. key \in Keys
    BY DEF TypeInv, TypeOK, Keys
  <2>3. Visited(key)
    BY <2>1 DEF DeviceInv, Visited
  <2>4. Balance(seen, Fresh, d, key) /\ Totalled(Fresh, key, d, timestamp, TRUE)
    BY <2>1, <2>2, <2>3 DEF DeviceInv, Totalled
  <2>5. DOMAIN FilesystemAttrs(key) = DeviceAttrLabels
    BY DEF FilesystemAttrs, DeviceAttrLabels
  <2>6. \A name : OfDevice(name, key) = Bearing(Fresh, name, key)
    BY <2>5 DEF OfDevice, Bearing, Bears
  <2>7. \A name : SumOfDevice(name, key) = Weight(Fresh, name, key)
    BY <2>6 DEF SumOfDevice, Weight
  <2>8. Reported(Dropped(key)) = drop
    <3>1. Dropped(key) = {i \in DOMAIN seen : Drops(seen[i], key)}
      BY DEF Dropped, Drops
    <3>2. QED
      BY <3>1 DEF Reported, DroppedSum
  <2>9. IsUsage(d) /\ d.totalUsage \in Int /\ d.usedBytes \in Nat /\ d.usedBytes <= d.totalUsage
    BY <2>4, UsageType DEF Balance, IsUsage, NoUsage
  <2>10. d.totalUsage = used + free + drop /\ Weight(Fresh, AvailableBytes, key) = free
    BY <2>4 DEF Balance
  <2> HIDE DEF d, used, free, drop
  <2>11. CASE d.totalUsage = 0 \/ timestamp = 0
    <3>1. NoTotals(Fresh, key)
      BY <2>4, <2>11 DEF Totalled
    <3>2. QED
      BY <2>6, <2>7, <2>8, <2>10, <2>11, <3>1
         DEF NoTotals, used, free, UsedBytes, FreeBytes, AvailableBytes, TotalBytes, UsedShare
  <2>12. CASE d.totalUsage # 0 /\ timestamp # 0
    <3>1. d.totalUsage > 0
      BY <2>9, <2>12
    <3>2. TotalsAre(Fresh, key, d)
      BY <2>4, <2>12, <3>1 DEF Totalled
    <3>3. PICK i \in DOMAIN Fresh : /\ Bearing(Fresh, TotalBytes, key) = {i}
                                    /\ Fresh[i].value = <<d.totalUsage, 1>>
      BY <3>2 DEF TotalsAre, OnlyBearer
    <3>4. PICK j \in DOMAIN Fresh : /\ Bearing(Fresh, UsedShare, key) = {j}
                                    /\ Fresh[j].value = <<d.usedBytes, d.totalUsage>>
      BY <3>2 DEF TotalsAre, OnlyBearer
    <3>5. /\ Fresh[i].value[1] = d.totalUsage /\ Fresh[j].value[2] > 0
          /\ Fresh[j].value[1] \in 0..Fresh[j].value[2]
      BY <2>9, <3>1, <3>3, <3>4
    <3>6. QED
      BY <2>6, <2>7, <2>8, <2>10, <2>12, <3>3, <3>4, <3>5
         DEF used, free, UsedBytes, FreeBytes, AvailableBytes, TotalBytes, UsedShare
  <2>13. QED
    BY <2>11, <2>12
<1>2. TypeInv /\ DeviceInv /\ [Next]_vars => (TypeInv /\ DeviceInv)'
  BY NextType, NextDevices
<1>3. Init => TypeInv /\ DeviceInv
  BY InitType, InitDevices
<1>4. QED
  BY <1>1, <1>2, <1>3, PTL DEF Spec
===============================================================================
