------------------------- MODULE FoldedRemapper_proofs -------------------------
(* What the remappers that fold a scope make of it, whatever its points, their *)
(* number and their order: the locals are the sums the property asks for, on   *)
(* every turn of the loop, and what is appended are those locals.              *)
EXTENDS ScopeRemapper_proofs

\* A call of a remapper that folds.
Folds == Handled(package, scope) /\ Folding

Own == ChainedMutator(DatasetMutator, OwnMutator(scope.base, resource, startTimestamp))
All == FoldedMetrics(scope.base, acc, timestamp, startTimestamp)

-------------------------------------------------------------------------------
(* The steps of a call that folds                                                *)

\* A turn of the loop.
Turn(dp) ==
  /\ pc = "loop" /\ pc' = "loop" /\ out' = out
  /\ seen' = Append(seen, dp)
  /\ acc' = Folded(acc, Effect(scope.base, dp))
  /\ timestamp' = IF Relevant(scope.base, dp) THEN Stamped(timestamp, dp.ts) ELSE timestamp
  /\ startTimestamp' = IF Relevant(scope.base, dp) THEN Stamped(startTimestamp, dp.start)
                       ELSE startTimestamp

\* The end of the call.
Appends ==
  /\ pc = "tail" /\ pc' = "done" /\ out' = Add(out, Own, All)
  /\ UNCHANGED <<seen, acc, timestamp, startTimestamp>>

Nothing ==
  /\ pc = "done" <=> pc' = "done"
  /\ UNCHANGED <<out, seen, acc, timestamp, startTimestamp>>

LEMMA FoldSteps ==
    ASSUME TypeInv, Folds, [Next]_vars
    PROVE  /\ UNCHANGED <<package, scope, resource, inPlace>>
           /\ (\E dp \in Inputs[scope.base] : Turn(dp)) \/ Appends \/ Nothing
<1> USE DEF call, locals
<1>1. scope.base \notin {"filesystemscraper", "diskscraper", "networkscraper"}
  BY DEF Folds, Folding, FoldScrapers, Locals
<1>2. UNCHANGED <<package, scope, resource, inPlace>>
  BY DEF Next, vars, Ignore, Begin, ReadPoint, EndOfScope, ReadBack, AppendFolded, RangeDevices,
    AppendDevice, Return
<1>3. ASSUME NEW dp, Read(dp) PROVE ReadFolded(dp)
  BY <1>1, <1>3 DEF Read, ReadFilesystem, Filesystem, ReadDisk, ReadNetwork
<1>4. CASE Begin \/ EndOfScope \/ UNCHANGED vars
  BY <1>4 DEF Begin, EndOfScope, vars, Nothing
<1>5. CASE \E dp \in Inputs[scope.base] : ReadPoint(dp)
  <2>1. PICK dp \in Inputs[scope.base] : ReadPoint(dp)
    BY <1>5
  <2>2. ReadFolded(dp)
    BY <1>3, <2>1 DEF ReadPoint
  <2>3. Turn(dp)
    BY <2>1, <2>2 DEF ReadPoint, ReadFolded, Turn
  <2>4. QED
    BY <1>2, <2>3
<1>6. CASE ReadBack
  <2>1. LocalsType /\ OutType /\ fed \in 0..Len(out)
    BY DEF TypeInv, TypeOK
  <2>2. DOMAIN out = 1..Len(out) /\ Len(out) \in Nat
    BY <2>1, IsSeqDomain DEF OutType
  <2>3. Inert(scope.base, out[fed + 1]) /\ Read(out[fed + 1])
    BY <1>6, <2>1, <2>2 DEF ReadBack, OutType, AllInert
  <2>4. UNCHANGED <<out, locals>>
    BY <2>1, <2>3, ReadInert
  <2>5. QED
    BY <1>2, <1>6, <2>4 DEF ReadBack, Nothing
<1>7. CASE AppendFolded
  BY <1>2, <1>7 DEF AppendFolded, LoopEnded, Appends, Own, All
<1>8. ~Ignore /\ ~RangeDevices /\ ~Return /\ ~\E key \in left : AppendDevice(key)
  BY <1>1 DEF Ignore, RangeDevices, Return, AppendDevice, Folds, Filesystem, TypeInv, InDevices
<1>9. QED
  BY <1>2, <1>4, <1>5, <1>6, <1>7, <1>8 DEF Next

-------------------------------------------------------------------------------
(* What is appended, and when                                                    *)

\* The values of a timestamp of the points a remapper looks at.
Stamps(base, s) == {s[i].ts : i \in {j \in DOMAIN s : Relevant(base, s[j])}} \ {0}
Starts(base, s) == {s[i].start : i \in {j \in DOMAIN s : Relevant(base, s[j])}} \ {0}

\* A timestamp local has one of them if there is any.
OneOf(stamp, S) == IF S = {} THEN stamp = 0 ELSE stamp \in S

AppendedAtEnd ==
  Folds => out = IF pc = "done" THEN Add(Earlier, Own, All) ELSE Earlier

StampsKept ==
  Folds => /\ OneOf(timestamp, Stamps(scope.base, seen))
           /\ OneOf(startTimestamp, Starts(scope.base, seen))

LEMMA StampedOneOf ==
    ASSUME NEW stamp, NEW S, 0 \notin S, OneOf(stamp, S), NEW t
    PROVE  OneOf(Stamped(stamp, t), S \cup ({t} \ {0}))
BY DEF OneOf, Stamped

\* The points of a scope that has been read further.
LEMMA AppendPoints ==
    ASSUME NEW s, IsSeq(s), NEW dp
    PROVE  /\ DOMAIN Append(s, dp) = 1..Len(s) + 1 /\ DOMAIN s = 1..Len(s) /\ Len(s) \in Nat
           /\ Append(s, dp)[Len(s) + 1] = dp /\ Len(Append(s, dp)) = Len(s) + 1
           /\ \A i \in 1..Len(s) : Append(s, dp)[i] = s[i]
BY AppendIsSeq, IsSeqDomain

LEMMA StampsAppend ==
    ASSUME NEW base, NEW s, IsSeq(s), NEW dp
    PROVE  /\ Relevant(base, dp) =>
                /\ Stamps(base, Append(s, dp)) = Stamps(base, s) \cup ({dp.ts} \ {0})
                /\ Starts(base, Append(s, dp)) = Starts(base, s) \cup ({dp.start} \ {0})
           /\ ~Relevant(base, dp) =>
                /\ Stamps(base, Append(s, dp)) = Stamps(base, s)
                /\ Starts(base, Append(s, dp)) = Starts(base, s)
<1> DEFINE t == Append(s, dp)
           n == Len(s)
<1>1. /\ DOMAIN t = 1..n + 1 /\ DOMAIN s = 1..n /\ n \in Nat
      /\ t[n + 1] = dp /\ \A i \in 1..n : t[i] = s[i]
  BY AppendPoints
<1> HIDE DEF t, n
<1>2. 1..n + 1 = (1..n) \cup {n + 1}
  BY <1>1
<1>3. {j \in DOMAIN t : Relevant(base, t[j])} =
        {j \in DOMAIN s : Relevant(base, s[j])} \cup {j \in {n + 1} : Relevant(base, dp)}
  BY <1>1, <1>2
<1>4. {t[i].ts : i \in {j \in DOMAIN t : Relevant(base, t[j])}} =
        {s[i].ts : i \in {j \in DOMAIN s : Relevant(base, s[j])}}
          \cup IF Relevant(base, dp) THEN {dp.ts} ELSE {}
  BY <1>1, <1>3
<1>5. {t[i].start : i \in {j \in DOMAIN t : Relevant(base, t[j])}} =
        {s[i].start : i \in {j \in DOMAIN s : Relevant(base, s[j])}}
          \cup IF Relevant(base, dp) THEN {dp.start} ELSE {}
  BY <1>1, <1>3
<1>6. QED
  BY <1>4, <1>5 DEF Stamps, Starts, t, n

LEMMA InitFolds == Init => AppendedAtEnd /\ StampsKept
BY DEF Init, AppendedAtEnd, StampsKept, OneOf, Stamps, Starts

LEMMA NextFolds ==
    TypeInv /\ AppendedAtEnd /\ StampsKept /\ [Next]_vars => (AppendedAtEnd /\ StampsKept)'
<1> SUFFICES ASSUME TypeInv, AppendedAtEnd, StampsKept, [Next]_vars, Folds'
             PROVE  (AppendedAtEnd /\ StampsKept)'
  BY DEF AppendedAtEnd, StampsKept
<1> USE DEF call
<1>1. UNCHANGED <<package, scope, resource, inPlace>>
  BY DEF Next, vars, Ignore, Begin, ReadPoint, EndOfScope, ReadBack, AppendFolded, RangeDevices,
    AppendDevice, Return
<1>2. Folds
  BY <1>1 DEF Folds, Handled, ValidScope, Folding
<1>3. (\E dp \in Inputs[scope.base] : Turn(dp)) \/ Appends \/ Nothing
  BY <1>2, FoldSteps
<1>4. CASE Nothing
  BY <1>1, <1>2, <1>4 DEF Nothing, AppendedAtEnd, StampsKept, Own, All, DatasetMutator, Stamps, Starts
<1>5. CASE Appends
  BY <1>1, <1>2, <1>5 DEF Appends, AppendedAtEnd, StampsKept, Own, All, DatasetMutator, Stamps, Starts
<1>6. ASSUME NEW dp \in Inputs[scope.base], Turn(dp)
      PROVE  (AppendedAtEnd /\ StampsKept)'
  <2>1. IsSeq(seen)
    BY DEF TypeInv
  <2>2. 0 \notin Stamps(scope.base, seen) /\ 0 \notin Starts(scope.base, seen)
    BY DEF Stamps, Starts
  <2>3. ASSUME Relevant(scope.base, dp) PROVE StampsKept'
    <3>1. /\ Stamps(scope.base, Append(seen, dp)) = Stamps(scope.base, seen) \cup ({dp.ts} \ {0})
          /\ Starts(scope.base, Append(seen, dp)) = Starts(scope.base, seen) \cup ({dp.start} \ {0})
      BY <2>1, <2>3, StampsAppend
    <3>2. /\ OneOf(timestamp', Stamps(scope.base, seen) \cup ({dp.ts} \ {0}))
          /\ OneOf(startTimestamp', Starts(scope.base, seen) \cup ({dp.start} \ {0}))
      BY <1>2, <1>6, <2>2, <2>3, StampedOneOf DEF Turn, StampsKept
    <3>3. QED
      BY <1>1, <1>6, <3>1, <3>2 DEF Turn, StampsKept
  <2>4. ASSUME ~Relevant(scope.base, dp) PROVE StampsKept'
    <3>1. /\ Stamps(scope.base, Append(seen, dp)) = Stamps(scope.base, seen)
          /\ Starts(scope.base, Append(seen, dp)) = Starts(scope.base, seen)
      BY <2>1, <2>4, StampsAppend
    <3>2. QED
      BY <1>1, <1>2, <1>6, <2>4, <3>1 DEF Turn, StampsKept
  <2>5. StampsKept'
    BY <2>3, <2>4
  <2>6. AppendedAtEnd'
    BY <1>2, <1>6 DEF Turn, AppendedAtEnd
  <2>7. QED
    BY <2>5, <2>6
<1>7. QED
  BY <1>3, <1>4, <1>5, <1>6

LEMMA FoldsAlways == Spec => [](TypeInv /\ AppendedAtEnd /\ StampsKept)
<1>1. Init => TypeInv /\ AppendedAtEnd /\ StampsKept
  BY InitType, InitFolds
<1>2. (TypeInv /\ AppendedAtEnd /\ StampsKept) /\ [Next]_vars
        => (TypeInv /\ AppendedAtEnd /\ StampsKept)'
  BY NextType, NextFolds
<1>3. QED
  BY <1>1, <1>2, PTL DEF Spec

\* The metrics a folding remapper is about to append.
LEMMA AllGood ==
    ASSUME TypeInv, Folds
    PROVE  /\ IsSeq(All) /\ DOMAIN All = 1..Len(All) /\ Len(All) \in Nat
           /\ \A i \in 1..Len(All) : GoodMetric(scope.base, All[i], timestamp)
<1>1. scope.base \in FoldScrapers
  BY DEF Folds, Folding
<1>2. IsSeq(All)
  BY <1>1, FoldedMetricsSeq DEF All
<1>3. DOMAIN acc = Locals[scope.base] /\ \A l \in DOMAIN acc : acc[l] \in Int
  BY DEF Folds, TypeInv, LocalsType
<1>4. timestamp \in Nat /\ startTimestamp \in Nat
  BY DEF TypeInv, LocalsType
<1>5. \A i \in DOMAIN All : GoodMetric(scope.base, All[i], timestamp)
  BY <1>1, <1>3, <1>4, FoldedMetricsType DEF All
<1>6. QED
  BY <1>2, <1>5, IsSeqDomain

\* Without a timestamp nothing is appended, with one everything is, in order.
LEMMA FreshFolded ==
    ASSUME TypeInv, AppendedAtEnd, Folds, pc = "done"
    PROVE  /\ timestamp = 0 => Fresh = <<>>
           /\ timestamp # 0 =>
                /\ DOMAIN Fresh = 1..Len(All) /\ Len(Fresh) = Len(All)
                /\ \A i \in 1..Len(All) : Fresh[i] = Appended(All[i], Own)
<1>1. /\ IsSeq(All) /\ Len(All) \in Nat
      /\ \A i \in 1..Len(All) : GoodMetric(scope.base, All[i], timestamp)
  BY AllGood
<1>2. IsSeq(Earlier) /\ Len(Earlier) \in Nat
  BY EarlierAssumption, IsSeqDomain DEF IsSeq
<1>3. out = Add(Earlier, Own, All)
  BY DEF AppendedAtEnd
<1> DEFINE n == Len(Earlier)
           m == Len(All)
<1>4. ASSUME timestamp = 0 PROVE Fresh = <<>>
  <2>1. \A i \in 1..Len(All) : ~Valid(All[i])
    BY <1>1, <1>4 DEF GoodMetric, Valid
  <2>2. out = Earlier
    BY <1>1, <1>3, <2>1, AddNone
  <2>3. QED
    BY <1>2, <2>2 DEF Fresh, IsSeq
<1>5. ASSUME timestamp # 0
      PROVE  /\ DOMAIN Fresh = 1..m /\ Len(Fresh) = m
             /\ \A i \in 1..m : Fresh[i] = Appended(All[i], Own)
  <2>1. \A i \in 1..m : Valid(All[i])
    BY <1>1, <1>5 DEF GoodMetric, Valid
  <2>2. /\ IsSeq(out) /\ Len(out) = n + m
        /\ \A i \in 1..m : out[n + i] = Appended(All[i], Own)
    BY <1>1, <1>2, <1>3, <2>1, AddAll
  <2> HIDE DEF n, m
  <2>3. Fresh = SubSeq(out, n + 1, n + m)
    BY <2>2 DEF Fresh, n
  <2>4. n \in Nat /\ m \in Nat
    BY <1>1, <1>2 DEF n, m
  <2>5. DOMAIN Fresh = 1..m /\ Len(Fresh) = m /\ \A i \in 1..m : Fresh[i] = out[n + i]
    <3>1. out \in Seq({out[i] : i \in DOMAIN out})
      BY <2>2 DEF IsSeq
    <3>2. QED
      BY <2>2, <2>3, <2>4, <3>1
  <2>6. QED
    BY <2>2, <2>5
<1>6. QED
  BY <1>4, <1>5

\* Whatever the points and their order, a remapper that folds appends either
\* all its metrics, with the timestamp of one of the points it looked at, or,
\* if none of those has one, nothing.
THEOREM AppendsAllOrNothing == Spec => []AllOrNothing
<1>1. TypeInv /\ AppendedAtEnd /\ StampsKept => AllOrNothing
  <2> SUFFICES ASSUME TypeInv, AppendedAtEnd, StampsKept, pc = "done", Folds
               PROVE  LET stamps == Stamps(scope.base, seen)
                      IN  IF stamps = {} THEN Fresh = <<>>
                          ELSE /\ Len(Fresh) = Len(All)
                               /\ \E t \in stamps : \A i \in DOMAIN Fresh : Fresh[i].ts = t
    BY DEF AllOrNothing, Folds, Stamps, All
  <2>1. OneOf(timestamp, Stamps(scope.base, seen)) /\ 0 \notin Stamps(scope.base, seen)
    BY DEF StampsKept, Stamps
  <2>2. \A i \in DOMAIN All : All[i].ts = timestamp
    BY AllGood DEF GoodMetric
  <2>3. timestamp # 0 => \A i \in DOMAIN Fresh : Fresh[i].ts = timestamp
    BY <2>2, AllGood, FreshFolded, AppendedFields
  <2>4. QED
    BY <2>1, <2>3, FreshFolded DEF OneOf
<1>2. QED
  BY <1>1, FoldsAlways, PTL

-------------------------------------------------------------------------------
(* The values appended under a name                                              *)

\* One metric alone has the name: what is appended under it is its value.
LEMMA EmittedOnce ==
    ASSUME TypeInv, AppendedAtEnd, Folds, pc = "done", timestamp # 0,
           NEW name, NEW k \in 1..Len(All), All[k].name = name,
           \A i \in 1..Len(All) : All[i].name = name => i = k
    PROVE  Emitted(name) = {All[k].value} /\ TheValue(name) = All[k].value
<1>1. /\ DOMAIN Fresh = 1..Len(All)
      /\ \A i \in 1..Len(All) : Fresh[i] = Appended(All[i], Own)
  BY FreshFolded
<1>2. \A i \in 1..Len(All) : Fresh[i].name = All[i].name /\ Fresh[i].value = All[i].value
  BY <1>1, AppendedFields
<1>3. Emitted(name) = {All[k].value}
  BY <1>1, <1>2 DEF Emitted
<1>4. QED
  BY <1>3 DEF TheValue

LEMMA EmittedNone ==
    ASSUME TypeInv, AppendedAtEnd, Folds, pc = "done", timestamp # 0,
           NEW name, \A i \in 1..Len(All) : All[i].name # name
    PROVE  Emitted(name) = {}
<1>1. /\ DOMAIN Fresh = 1..Len(All)
      /\ \A i \in 1..Len(All) : Fresh[i] = Appended(All[i], Own)
  BY FreshFolded
<1>2. \A i \in 1..Len(All) : Fresh[i].name = All[i].name
  BY <1>1, AppendedFields
<1>3. QED
  BY <1>1, <1>2 DEF Emitted

-------------------------------------------------------------------------------
(* Sums over the points read                                                     *)

\* The sum of what the points of s report that have one of the labels.
Of(s, metric, key, labels) ==
  SumTo(Len(s), Numbers(s), {i \in DOMAIN s : Labelled(s[i], metric, key, labels)})

Once(s, metric, key) ==
  \A i, j \in DOMAIN s :
    s[i].name = metric /\ s[j].name = metric /\ Str(s[i], key) = Str(s[j], key) => i = j

ArePoints(s) == IsSeq(s) /\ \A i \in DOMAIN s : IsPoint(s[i])

\* One more point contributes what it reports, to the sums it belongs to.
LEMMA SumAppend ==
    ASSUME NEW s, ArePoints(s), NEW dp, IsPoint(dp), NEW I, NEW J,
           \A i \in 1..Len(s) : i \in J <=> i \in I
    PROVE  LET t == Append(s, dp)
           IN  /\ SumTo(Len(s), Numbers(s), I) \in Int
               /\ SumTo(Len(t), Numbers(t), J) =
                    SumTo(Len(s), Numbers(s), I) + IF Len(s) + 1 \in J THEN Number(dp) ELSE 0
<1> DEFINE t == Append(s, dp)
           n == Len(s)
<1>1. /\ DOMAIN t = 1..n + 1 /\ DOMAIN s = 1..n /\ n \in Nat /\ Len(t) = n + 1
      /\ t[n + 1] = dp /\ \A i \in 1..n : t[i] = s[i]
  BY AppendPoints DEF ArePoints
<1> HIDE DEF t, n
<1>2. \A i \in 1..n : Numbers(s)[i] = Number(s[i]) /\ Numbers(s)[i] \in Int
  BY <1>1, NumberType DEF Numbers, ArePoints
<1>3. \A i \in 1..n : Numbers(t)[i] = Numbers(s)[i]
  BY <1>1, <1>2 DEF Numbers
<1>4. Numbers(t)[n + 1] = Number(dp)
  BY <1>1 DEF Numbers
<1>5. SumTo(n, Numbers(t), J) = SumTo(n, Numbers(s), I)
  BY <1>1, <1>3, SumToAgree DEF n
<1>6. SumTo(n + 1, Numbers(t), J) = SumTo(n, Numbers(t), J) + Term(n + 1, Numbers(t), J)
  BY <1>1, SumToStep
<1>7. SumTo(n, Numbers(s), I) \in Int
  BY <1>1, <1>2, SumToType
<1>8. QED
  BY <1>1, <1>4, <1>5, <1>6, <1>7 DEF Term, t, n

LEMMA OfAppend ==
    ASSUME NEW s, ArePoints(s), NEW dp, IsPoint(dp), NEW metric, NEW key, NEW labels
    PROVE  /\ Of(s, metric, key, labels) \in Int
           /\ Of(Append(s, dp), metric, key, labels) =
                Of(s, metric, key, labels)
                  + IF Labelled(dp, metric, key, labels) THEN Number(dp) ELSE 0
<1> DEFINE t == Append(s, dp)
           I == {i \in DOMAIN s : Labelled(s[i], metric, key, labels)}
           J == {i \in DOMAIN t : Labelled(t[i], metric, key, labels)}
<1>1. /\ DOMAIN t = 1..Len(s) + 1 /\ DOMAIN s = 1..Len(s) /\ Len(s) \in Nat
      /\ t[Len(s) + 1] = dp /\ \A i \in 1..Len(s) : t[i] = s[i]
  BY AppendPoints DEF ArePoints
<1> HIDE DEF t
<1>2. /\ \A i \in 1..Len(s) : i \in J <=> i \in I
      /\ Len(s) + 1 \in J <=> Labelled(dp, metric, key, labels)
  BY <1>1
<1> HIDE DEF I, J
<1>3. /\ SumTo(Len(s), Numbers(s), I) \in Int
      /\ SumTo(Len(t), Numbers(t), J) =
           SumTo(Len(s), Numbers(s), I) + IF Len(s) + 1 \in J THEN Number(dp) ELSE 0
  BY <1>2, SumAppend DEF t
<1>4. Of(s, metric, key, labels) = SumTo(Len(s), Numbers(s), I)
  BY DEF Of, I
<1>5. Of(t, metric, key, labels) = SumTo(Len(t), Numbers(t), J)
  BY DEF Of, J
<1>6. QED
  BY <1>2, <1>3, <1>4, <1>5 DEF t

\* Nothing has been reported before the first point.
LEMMA OfNone == \A metric, key, labels : Of(<<>>, metric, key, labels) = 0
BY SumToStep DEF Of

LEMMA OnceAppend ==
    ASSUME NEW s, IsSeq(s), NEW dp, NEW metric, NEW key, Once(Append(s, dp), metric, key)
    PROVE  /\ Once(s, metric, key)
           /\ \A label : Labelled(dp, metric, key, {label}) =>
                \A i \in DOMAIN s : ~Labelled(s[i], metric, key, {label})
<1> DEFINE t == Append(s, dp)
<1>1. /\ DOMAIN t = 1..Len(s) + 1 /\ DOMAIN s = 1..Len(s) /\ Len(s) \in Nat
      /\ t[Len(s) + 1] = dp /\ \A i \in 1..Len(s) : t[i] = s[i]
  BY AppendPoints
<1> HIDE DEF t
<1>2. Once(t, metric, key)
  BY DEF t
<1>3. Once(s, metric, key)
  BY <1>1, <1>2 DEF Once
<1>4. ASSUME NEW label, Labelled(dp, metric, key, {label}), NEW i \in DOMAIN s,
             Labelled(s[i], metric, key, {label})
      PROVE  FALSE
  <2>1. /\ dp.name = metric /\ Str(dp, key) = label
        /\ s[i].name = metric /\ Str(s[i], key) = label
    BY <1>4 DEF Labelled, Str
  <2>2. i \in DOMAIN t /\ Len(s) + 1 \in DOMAIN t /\ i # Len(s) + 1
    BY <1>1
  <2>3. QED
    BY <1>1, <1>2, <2>1, <2>2 DEF Once
<1>5. QED
  BY <1>3, <1>4

-------------------------------------------------------------------------------
(* Memory                                                                        *)

MemoryUsed == "system.memory.usage"
MemoryStates == {"cached", "free", "used", "buffered"}

\* The locals of the memory remapper after it has read s.
MemoryFolded(s, a) ==
  /\ a["total"] = Of(s, MemoryUsed, "state", MemoryStates)
  /\ Once(s, MemoryUsed, "state") => a["used.bytes"] + a["free"] = 0
  /\ (\A i \in DOMAIN s : ~Labelled(s[i], MemoryUsed, "state", {"free"})) =>
       a["used.bytes"] = 0 /\ a["free"] = 0

\* What one point does to the locals that make up the balance.
LEMMA MemoryEffect ==
    ASSUME NEW a, DOMAIN a = Locals["memoryscraper"], \A l \in DOMAIN a : a[l] \in Int,
           NEW dp, IsPoint(dp)
    PROVE  LET b == Folded(a, Effect("memoryscraper", dp))
               v == Number(dp)
           IN  /\ b["total"] = a["total"] +
                    IF Labelled(dp, MemoryUsed, "state", MemoryStates) THEN v ELSE 0
               /\ IF Labelled(dp, MemoryUsed, "state", {"free"})
                  THEN b["free"] = v /\ b["used.bytes"] = a["used.bytes"] - v
                  ELSE b["free"] = a["free"] /\ b["used.bytes"] = a["used.bytes"]
<1> DEFINE e == Effect("memoryscraper", dp)
           b == Folded(a, e)
           v == Number(dp)
           label == dp.attrs["state"]
           Val(l) == IF l \in DOMAIN e.put THEN e.put[l]
                     ELSE a[l] + (IF l \in DOMAIN e.add THEN e.add[l] ELSE 0)
<1>1. v \in Int
  BY NumberType
<1>2. /\ "total" \in DOMAIN a /\ "free" \in DOMAIN a /\ "used.bytes" \in DOMAIN a
      /\ a["total"] \in Int /\ a["free"] \in Int /\ a["used.bytes"] \in Int
  BY DEF Locals
<1>3. b["total"] = Val("total") /\ b["free"] = Val("free") /\ b["used.bytes"] = Val("used.bytes")
  BY <1>2 DEF Folded
<1>4. /\ Single["memoryscraper"] = Empty
      /\ DOMAIN Grouped["memoryscraper"] = {MemoryUsed, "system.memory.utilization"}
      /\ Grouped["memoryscraper"][MemoryUsed] = "state"
      /\ Grouped["memoryscraper"]["system.memory.utilization"] = "state"
      /\ DOMAIN Empty = {}
  BY DEF Single, Grouped, MemoryUsed, Put, ++, Empty
<1> HIDE DEF v, b, e
<1>5. CASE dp.name = MemoryUsed /\ "state" \in DOMAIN dp.attrs
  <2>1. e = MemoryUsage(label, v)
    BY <1>4, <1>5 DEF Effect, ByLabel, MemoryUsed, e, v
  <2>2. \A labels : Labelled(dp, MemoryUsed, "state", labels) <=> label \in labels
    BY <1>5 DEF Labelled
  <2>3. CASE label = "free"
    <3>1. e = [put |-> Put("free", v), add |-> Put("total", v) ++ Put("used.bytes", -v)]
      BY <2>1, <2>3 DEF MemoryUsage
    <3>2. b["total"] = a["total"] + v /\ b["free"] = v /\ b["used.bytes"] = a["used.bytes"] + (-v)
      BY <1>3, <3>1 DEF Put, ++
    <3>3. QED
      BY <1>1, <1>2, <2>2, <2>3, <3>2 DEF MemoryStates, b, e, v
  <2>4. CASE label # "free"
    <3>1. /\ b["total"] = a["total"] + IF label \in MemoryStates THEN v ELSE 0
          /\ b["free"] = a["free"] /\ b["used.bytes"] = a["used.bytes"]
      BY <1>1, <1>2, <1>3, <2>1, <2>4
      DEF MemoryUsage, MemoryStates, PutsAndAdds, Adds, NoEffect, Empty, Put
    <3>2. QED
      BY <2>2, <2>4, <3>1 DEF b, e, v
  <2>5. QED
    BY <2>3, <2>4
<1>6. CASE ~(dp.name = MemoryUsed /\ "state" \in DOMAIN dp.attrs)
  <2>1. \A labels : ~Labelled(dp, MemoryUsed, "state", labels)
    BY <1>6 DEF Labelled
  <2>2. e = NoEffect \/ e = MemoryUtilization(label, v)
    BY <1>4, <1>6 DEF Effect, ByLabel, MemoryUsed, e, v
  <2>3. b["total"] = a["total"] /\ b["free"] = a["free"] /\ b["used.bytes"] = a["used.bytes"]
    BY <1>2, <1>3, <2>2 DEF MemoryUtilization, Puts, Adds, NoEffect, Empty, Put
  <2>4. QED
    BY <1>2, <2>1, <2>3 DEF b, e, v
<1>7. QED
  BY <1>5, <1>6

LEMMA MemoryStep ==
    ASSUME NEW a, DOMAIN a = Locals["memoryscraper"], \A l \in DOMAIN a : a[l] \in Int,
           NEW s, ArePoints(s), NEW dp, IsPoint(dp), MemoryFolded(s, a)
    PROVE  MemoryFolded(Append(s, dp), Folded(a, Effect("memoryscraper", dp)))
<1> DEFINE b == Folded(a, Effect("memoryscraper", dp))
           v == Number(dp)
           t == Append(s, dp)
           IsFree == Labelled(dp, MemoryUsed, "state", {"free"})
<1>1. /\ b["total"] = a["total"] + IF Labelled(dp, MemoryUsed, "state", MemoryStates) THEN v ELSE 0
      /\ IF IsFree THEN b["free"] = v /\ b["used.bytes"] = a["used.bytes"] - v
         ELSE b["free"] = a["free"] /\ b["used.bytes"] = a["used.bytes"]
  BY MemoryEffect
<1>2. a["total"] \in Int /\ a["free"] \in Int /\ a["used.bytes"] \in Int /\ v \in Int
  BY NumberType DEF Locals
<1>3. /\ DOMAIN t = 1..Len(s) + 1 /\ DOMAIN s = 1..Len(s) /\ Len(s) \in Nat
      /\ t[Len(s) + 1] = dp /\ \A i \in 1..Len(s) : t[i] = s[i]
  BY AppendPoints DEF ArePoints
<1>4. Of(t, MemoryUsed, "state", MemoryStates) =
        Of(s, MemoryUsed, "state", MemoryStates)
          + IF Labelled(dp, MemoryUsed, "state", MemoryStates) THEN v ELSE 0
  BY OfAppend
<1>5. Once(t, MemoryUsed, "state") =>
        /\ Once(s, MemoryUsed, "state")
        /\ IsFree => \A i \in DOMAIN s : ~Labelled(s[i], MemoryUsed, "state", {"free"})
  BY OnceAppend DEF ArePoints
<1> HIDE DEF b, v, t, IsFree
<1>6. b["total"] = Of(t, MemoryUsed, "state", MemoryStates)
  BY <1>1, <1>4 DEF MemoryFolded
<1>7. Once(t, MemoryUsed, "state") => b["used.bytes"] + b["free"] = 0
  BY <1>1, <1>2, <1>5 DEF MemoryFolded
<1>8. ASSUME \A i \in DOMAIN t : ~Labelled(t[i], MemoryUsed, "state", {"free"})
      PROVE  b["used.bytes"] = 0 /\ b["free"] = 0
  <2>1. ~IsFree /\ \A i \in DOMAIN s : ~Labelled(s[i], MemoryUsed, "state", {"free"})
    <3>1. Len(s) + 1 \in DOMAIN t /\ \A i \in DOMAIN s : i \in DOMAIN t /\ t[i] = s[i]
      BY <1>3
    <3>2. QED
      BY <1>3, <1>8, <3>1 DEF IsFree
  <2>2. QED
    BY <1>1, <2>1 DEF MemoryFolded
<1>9. QED
  BY <1>6, <1>7, <1>8 DEF MemoryFolded, b, t

-------------------------------------------------------------------------------
(* Process                                                                       *)

CpuTime == "process.cpu.time"

\* The locals of the process remapper after it has read s.
ProcessFolded(s, a) ==
  /\ Once(s, CpuTime, "state") =>
       a["total"] = a["system"] + a["user"] + Of(s, CpuTime, "state", {"wait"})
  /\ \A state \in {"system", "user"} :
       (\A i \in DOMAIN s : ~Labelled(s[i], CpuTime, "state", {state})) => a[state] = 0

LEMMA ProcessEffect ==
    ASSUME NEW a, DOMAIN a = Locals["processscraper"], \A l \in DOMAIN a : a[l] \in Int,
           NEW dp, IsPoint(dp)
    PROVE  LET b == Folded(a, Effect("processscraper", dp))
               v == Number(dp)
           IN  /\ b["total"] = a["total"] +
                    IF Labelled(dp, CpuTime, "state", {"system", "user", "wait"}) THEN v ELSE 0
               /\ \A state \in {"system", "user"} :
                    b[state] = IF Labelled(dp, CpuTime, "state", {state}) THEN v ELSE a[state]
<1> DEFINE e == Effect("processscraper", dp)
           b == Folded(a, e)
           v == Number(dp)
           label == dp.attrs["state"]
           Val(l) == IF l \in DOMAIN e.put THEN e.put[l]
                     ELSE a[l] + (IF l \in DOMAIN e.add THEN e.add[l] ELSE 0)
<1>1. v \in Int
  BY NumberType
<1>2. /\ "total" \in DOMAIN a /\ "system" \in DOMAIN a /\ "user" \in DOMAIN a
      /\ a["total"] \in Int /\ a["system"] \in Int /\ a["user"] \in Int
  BY DEF Locals
<1>3. b["total"] = Val("total") /\ b["system"] = Val("system") /\ b["user"] = Val("user")
  BY <1>2 DEF Folded
<1>4. /\ DOMAIN Grouped["processscraper"] = {CpuTime, "process.disk.io", "process.disk.operations"}
      /\ Grouped["processscraper"][CpuTime] = "state"
      /\ CpuTime \notin DOMAIN Single["processscraper"]
  BY DEF Single, ProcessSingle, Grouped, CpuTime, Put, ++
<1>5. \A name \in DOMAIN Single["processscraper"] :
        Single["processscraper"][name] \notin {"total", "system", "user"}
  BY DEF Single, ProcessSingle, Put, ++
<1> HIDE DEF v, b, e
<1>6. CASE dp.name = CpuTime /\ "state" \in DOMAIN dp.attrs
  <2>1. e = ProcessCpuTime(label, v)
    BY <1>4, <1>6 DEF Effect, ByLabel, CpuTime, e, v
  <2>2. \A labels : Labelled(dp, CpuTime, "state", labels) <=> label \in labels
    BY <1>6 DEF Labelled
  <2>3. /\ b["total"] = a["total"] + IF label \in {"system", "user", "wait"} THEN v ELSE 0
        /\ b["system"] = IF label = "system" THEN v ELSE a["system"]
        /\ b["user"] = IF label = "user" THEN v ELSE a["user"]
    BY <1>1, <1>2, <1>3, <2>1 DEF ProcessCpuTime, PutsAndAdds, Adds, NoEffect, Empty, Put
  <2>4. QED
    BY <2>2, <2>3 DEF b, e, v
<1>7. CASE ~(dp.name = CpuTime /\ "state" \in DOMAIN dp.attrs)
  <2>1. \A labels : ~Labelled(dp, CpuTime, "state", labels)
    BY <1>7 DEF Labelled
  <2>2. \/ e = NoEffect
        \/ \E name \in DOMAIN Single["processscraper"] : e = Puts(Single["processscraper"][name], v)
        \/ \E direction : e = ProcessDisk(direction, "read_bytes", "write_bytes", v)
        \/ \E direction : e = ProcessDisk(direction, "read_ops", "write_ops", v)
    BY <1>4, <1>7 DEF Effect, ByLabel, CpuTime, e, v
  <2>3. \A l \in {"total", "system", "user"} : l \notin DOMAIN e.put /\ l \notin DOMAIN e.add
    <3>1. CASE e = NoEffect
      BY <3>1 DEF NoEffect, Empty
    <3>2. ASSUME NEW name \in DOMAIN Single["processscraper"],
                 e = Puts(Single["processscraper"][name], v)
          PROVE  \A l \in {"total", "system", "user"} : l \notin DOMAIN e.put /\ l \notin DOMAIN e.add
      BY <1>5, <3>2 DEF Puts, Put, Empty
    <3>3. ASSUME NEW direction, NEW read \in {"read_bytes", "read_ops"},
                 NEW write \in {"write_bytes", "write_ops"},
                 e = ProcessDisk(direction, read, write, v)
          PROVE  \A l \in {"total", "system", "user"} : l \notin DOMAIN e.put /\ l \notin DOMAIN e.add
      <4>1. e = NoEffect \/ e = Puts(read, v) \/ e = Puts(write, v)
        BY <3>3 DEF ProcessDisk
      <4>2. QED
        BY <4>1 DEF Puts, NoEffect, Empty, Put
    <3>4. QED
      BY <2>2, <3>1, <3>2, <3>3
  <2>4. b["total"] = a["total"] /\ b["system"] = a["system"] /\ b["user"] = a["user"]
    BY <1>2, <1>3, <2>3
  <2>5. QED
    BY <1>2, <2>1, <2>4 DEF b, e, v
<1>8. QED
  BY <1>6, <1>7

LEMMA ProcessStep ==
    ASSUME NEW a, DOMAIN a = Locals["processscraper"], \A l \in DOMAIN a : a[l] \in Int,
           NEW s, ArePoints(s), NEW dp, IsPoint(dp), ProcessFolded(s, a)
    PROVE  ProcessFolded(Append(s, dp), Folded(a, Effect("processscraper", dp)))
<1> DEFINE b == Folded(a, Effect("processscraper", dp))
           v == Number(dp)
           t == Append(s, dp)
           Is(labels) == Labelled(dp, CpuTime, "state", labels)
           NoneIn(r, label) == \A i \in DOMAIN r : ~Labelled(r[i], CpuTime, "state", {label})
           Wait(r) == Of(r, CpuTime, "state", {"wait"})
<1>1. /\ b["total"] = a["total"] + IF Is({"system", "user", "wait"}) THEN v ELSE 0
      /\ b["system"] = IF Is({"system"}) THEN v ELSE a["system"]
      /\ b["user"] = IF Is({"user"}) THEN v ELSE a["user"]
  BY ProcessEffect
<1>2. a["total"] \in Int /\ a["system"] \in Int /\ a["user"] \in Int /\ v \in Int
  BY NumberType DEF Locals
<1>3. /\ DOMAIN t = 1..Len(s) + 1 /\ DOMAIN s = 1..Len(s) /\ Len(s) \in Nat
      /\ t[Len(s) + 1] = dp /\ \A i \in 1..Len(s) : t[i] = s[i]
  BY AppendPoints DEF ArePoints
<1>4. Wait(s) \in Int /\ Wait(t) = Wait(s) + IF Is({"wait"}) THEN v ELSE 0
  BY OfAppend
<1>5. Once(t, CpuTime, "state") =>
        /\ Once(s, CpuTime, "state")
        /\ \A label : Is({label}) => NoneIn(s, label)
  BY OnceAppend DEF ArePoints
<1>6. /\ Is({"system", "user", "wait"}) <=> Is({"system"}) \/ Is({"user"}) \/ Is({"wait"})
      /\ ~(Is({"system"}) /\ Is({"user"})) /\ ~(Is({"system"}) /\ Is({"wait"}))
      /\ ~(Is({"user"}) /\ Is({"wait"}))
  BY DEF Labelled
<1>7. \A label : NoneIn(t, label) => NoneIn(s, label) /\ ~Is({label})
  <2>1. Len(s) + 1 \in DOMAIN t /\ \A i \in DOMAIN s : i \in DOMAIN t /\ t[i] = s[i]
    BY <1>3
  <2>2. QED
    BY <1>3, <2>1
<1> HIDE DEF b, v, t, Is, NoneIn, Wait
<1>8. /\ Once(s, CpuTime, "state") => a["total"] = a["system"] + a["user"] + Wait(s)
      /\ NoneIn(s, "system") => a["system"] = 0
      /\ NoneIn(s, "user") => a["user"] = 0
  BY DEF ProcessFolded, NoneIn, Wait
<1>9. Once(t, CpuTime, "state") => b["total"] = b["system"] + b["user"] + Wait(t)
  BY <1>1, <1>2, <1>4, <1>5, <1>6, <1>8
<1>10. /\ NoneIn(t, "system") => b["system"] = 0
       /\ NoneIn(t, "user") => b["user"] = 0
  BY <1>1, <1>7, <1>8
<1>11. QED
  BY <1>9, <1>10 DEF ProcessFolded, NoneIn, Wait, b, t

-------------------------------------------------------------------------------
(* Processes                                                                     *)

Count == "system.processes.count"

\* The points that count processes of a status with no part of its own.
Others(s) ==
  {i \in DOMAIN s : /\ s[i].name = Count /\ "status" \in DOMAIN s[i].attrs
                    /\ s[i].attrs["status"] \notin DOMAIN ProcessStatus}

Parts(a) == a["idle"] + a["sleeping"] + a["stopped"] + a["zombie"] + a["running"]

\* The locals of the processes remapper after it has read s.
ProcessesFolded(s, a) ==
  /\ Once(s, Count, "status") =>
       a["total"] = Parts(a) + SumTo(Len(s), Numbers(s), Others(s))
  /\ \A status \in DOMAIN ProcessStatus :
       (\A i \in DOMAIN s : ~Labelled(s[i], Count, "status", {status})) =>
         a[ProcessStatus[status]] = 0

LEMMA StatusParts ==
    /\ DOMAIN ProcessStatus = {"idle", "sleeping", "stopped", "zombies", "running"}
    /\ ProcessStatus["idle"] = "idle" /\ ProcessStatus["sleeping"] = "sleeping"
    /\ ProcessStatus["stopped"] = "stopped" /\ ProcessStatus["zombies"] = "zombie"
    /\ ProcessStatus["running"] = "running"
BY DEF ProcessStatus

LEMMA ProcessesEffect ==
    ASSUME NEW a, DOMAIN a = Locals["processesscraper"], \A l \in DOMAIN a : a[l] \in Int,
           NEW dp, IsPoint(dp)
    PROVE  LET b == Folded(a, Effect("processesscraper", dp))
               v == Number(dp)
               counts == dp.name = Count /\ "status" \in DOMAIN dp.attrs
           IN  /\ b["total"] = a["total"] + IF counts THEN v ELSE 0
               /\ \A status \in DOMAIN ProcessStatus :
                    b[ProcessStatus[status]] =
                      IF counts /\ dp.attrs["status"] = status THEN v
                      ELSE a[ProcessStatus[status]]
<1> DEFINE e == Effect("processesscraper", dp)
           b == Folded(a, e)
           v == Number(dp)
           label == dp.attrs["status"]
           counts == dp.name = Count /\ "status" \in DOMAIN dp.attrs
           Val(l) == IF l \in DOMAIN e.put THEN e.put[l]
                     ELSE a[l] + (IF l \in DOMAIN e.add THEN e.add[l] ELSE 0)
           Ls == {"idle", "sleeping", "stopped", "zombie", "running", "total"}
<1>1. v \in Int
  BY NumberType
<1>2. DOMAIN a = Ls /\ \A l \in Ls : a[l] \in Int
  BY DEF Locals, ProcessesParts
<1>3. \A l \in Ls : b[l] = Val(l)
  BY <1>2 DEF Folded
<1>4. /\ Single["processesscraper"] = Empty /\ DOMAIN Empty = {}
      /\ DOMAIN Grouped["processesscraper"] = {Count}
      /\ Grouped["processesscraper"][Count] = "status"
  BY DEF Single, Grouped, Count, Put, Empty
<1> HIDE DEF v, b, e, Ls
<1>5. CASE counts
  <2>1. e = ProcessesCount(label, v)
    BY <1>4, <1>5 DEF Effect, ByLabel, Count, e, v
  <2>2. b["total"] = a["total"] + v
    BY <1>1, <1>2, <1>3, <2>1, StatusParts DEF ProcessesCount, PutsAndAdds, Adds, Empty, Put, Ls
  <2>3. ASSUME NEW status \in DOMAIN ProcessStatus
        PROVE  b[ProcessStatus[status]] = IF label = status THEN v ELSE a[ProcessStatus[status]]
    <3>1. ProcessStatus[status] \in Ls /\ ProcessStatus[status] # "total"
      BY StatusParts DEF Ls
    <3>2. CASE label = status
      BY <1>3, <2>1, <3>1, <3>2 DEF ProcessesCount, PutsAndAdds, Put
    <3>3. CASE label \in DOMAIN ProcessStatus /\ label # status
      <4>1. ProcessStatus[label] # ProcessStatus[status]
        BY <3>3, StatusParts
      <4>2. b[ProcessStatus[status]] = a[ProcessStatus[status]] + 0
        BY <1>3, <2>1, <3>1, <3>3, <4>1 DEF ProcessesCount, PutsAndAdds, Put
      <4>3. QED
        BY <1>2, <3>1, <3>3, <4>2
    <3>4. CASE label \notin DOMAIN ProcessStatus
      <4>1. b[ProcessStatus[status]] = a[ProcessStatus[status]] + 0
        BY <1>3, <2>1, <3>1, <3>4 DEF ProcessesCount, Adds, Empty
      <4>2. QED
        BY <1>2, <3>1, <3>4, <4>1
    <3>5. QED
      BY <3>2, <3>3, <3>4
  <2>4. QED
    BY <1>5, <2>2, <2>3 DEF b, e, v
<1>6. CASE ~counts
  <2>1. e = NoEffect
    BY <1>4, <1>6 DEF Effect, e
  <2>2. \A l \in Ls : b[l] = a[l]
    BY <1>2, <1>3, <2>1 DEF NoEffect, Empty
  <2>3. "total" \in Ls /\ \A status \in DOMAIN ProcessStatus : ProcessStatus[status] \in Ls
    BY StatusParts DEF Ls
  <2>4. QED
    BY <1>2, <1>6, <2>2, <2>3 DEF b, e, v
<1>7. QED
  BY <1>5, <1>6

LEMMA ProcessesStep ==
    ASSUME NEW a, DOMAIN a = Locals["processesscraper"], \A l \in DOMAIN a : a[l] \in Int,
           NEW s, ArePoints(s), NEW dp, IsPoint(dp), ProcessesFolded(s, a)
    PROVE  ProcessesFolded(Append(s, dp), Folded(a, Effect("processesscraper", dp)))
<1> DEFINE b == Folded(a, Effect("processesscraper", dp))
           v == Number(dp)
           t == Append(s, dp)
           label == dp.attrs["status"]
           counts == dp.name = Count /\ "status" \in DOMAIN dp.attrs
           Is(status) == Labelled(dp, Count, "status", {status})
           NoneIn(r, status) == \A i \in DOMAIN r : ~Labelled(r[i], Count, "status", {status})
           Rest(r) == SumTo(Len(r), Numbers(r), Others(r))
<1>1. /\ b["total"] = a["total"] + IF counts THEN v ELSE 0
      /\ \A status \in DOMAIN ProcessStatus :
           b[ProcessStatus[status]] =
             IF counts /\ label = status THEN v ELSE a[ProcessStatus[status]]
  BY ProcessesEffect
<1>2. /\ v \in Int /\ a["total"] \in Int /\ a["idle"] \in Int /\ a["sleeping"] \in Int
      /\ a["stopped"] \in Int /\ a["zombie"] \in Int /\ a["running"] \in Int
  <2>1. {"total", "idle", "sleeping", "stopped", "zombie", "running"} \subseteq DOMAIN a
    BY DEF Locals, ProcessesParts
  <2>2. QED
    BY <2>1, NumberType
<1>3. /\ DOMAIN t = 1..Len(s) + 1 /\ DOMAIN s = 1..Len(s) /\ Len(s) \in Nat
      /\ t[Len(s) + 1] = dp /\ \A i \in 1..Len(s) : t[i] = s[i]
  BY AppendPoints DEF ArePoints
<1>4. /\ Rest(s) \in Int
      /\ Rest(t) = Rest(s) + IF counts /\ label \notin DOMAIN ProcessStatus THEN v ELSE 0
  <2>1. /\ \A i \in 1..Len(s) : i \in Others(t) <=> i \in Others(s)
        /\ Len(s) + 1 \in Others(t) <=> counts /\ label \notin DOMAIN ProcessStatus
    <3> HIDE DEF t
    <3>1. QED
      BY <1>3 DEF Others
  <2>2. QED
    BY <2>1, SumAppend
<1>5. Once(t, Count, "status") =>
        /\ Once(s, Count, "status")
        /\ \A status : Is(status) => NoneIn(s, status)
  BY OnceAppend DEF ArePoints
<1>6. \A status : Is(status) <=> counts /\ label = status
  BY DEF Labelled
<1>7. \A status : NoneIn(t, status) => NoneIn(s, status) /\ ~Is(status)
  <2> HIDE DEF t, Is
  <2>1. Len(s) + 1 \in DOMAIN t /\ \A i \in DOMAIN s : i \in DOMAIN t /\ t[i] = s[i]
    BY <1>3
  <2>2. QED
    BY <1>3, <2>1 DEF Is
<1> HIDE DEF b, v, t, label, counts, Is, NoneIn, Rest
<1>8. /\ Once(s, Count, "status") => a["total"] = Parts(a) + Rest(s)
      /\ \A status \in DOMAIN ProcessStatus : NoneIn(s, status) => a[ProcessStatus[status]] = 0
  BY DEF ProcessesFolded, NoneIn, Rest
<1>9. ASSUME Once(t, Count, "status") PROVE b["total"] = Parts(b) + Rest(t)
  <2>1. a["total"] = Parts(a) + Rest(s)
    BY <1>5, <1>8, <1>9
  <2>2. \A status \in DOMAIN ProcessStatus :
          counts /\ label = status => a[ProcessStatus[status]] = 0
    BY <1>5, <1>6, <1>8, <1>9
  <2>3. Parts(b) = Parts(a) + IF counts /\ label \in DOMAIN ProcessStatus THEN v ELSE 0
    <3> DEFINE Gains(status, part) ==
                 b[part] = a[part] + IF counts /\ label = status THEN v ELSE 0
    <3>1. /\ Gains("idle", "idle") /\ Gains("sleeping", "sleeping") /\ Gains("stopped", "stopped")
          /\ Gains("zombies", "zombie") /\ Gains("running", "running")
      <4>1. \A status \in DOMAIN ProcessStatus : a[ProcessStatus[status]] \in Int
        BY <1>2, StatusParts
      <4>2. \A status \in DOMAIN ProcessStatus : Gains(status, ProcessStatus[status])
        BY <1>1, <1>2, <2>2, <4>1
      <4> HIDE DEF Gains
      <4>3. QED
        BY <4>2, StatusParts
    <3>2. CASE counts /\ label \in DOMAIN ProcessStatus
      BY <1>2, <3>1, <3>2, StatusParts DEF Parts
    <3>3. CASE ~(counts /\ label \in DOMAIN ProcessStatus)
      BY <1>2, <3>1, <3>3, StatusParts DEF Parts
    <3>4. QED
      BY <3>2, <3>3
  <2>4. Parts(a) \in Int
    BY <1>2 DEF Parts
  <2>5. QED
    BY <1>1, <1>2, <1>4, <2>1, <2>3, <2>4
<1>10. \A status \in DOMAIN ProcessStatus : NoneIn(t, status) => b[ProcessStatus[status]] = 0
  BY <1>1, <1>6, <1>7, <1>8
<1>11. QED
  BY <1>9, <1>10 DEF ProcessesFolded, NoneIn, Rest, b, t

-------------------------------------------------------------------------------
(* Processor                                                                     *)

CpuShare == "system.cpu.utilization"
CpuCount == "system.cpu.logical.count"

\* The states whose share is part of a local.
StatesOf(part) ==
  CASE part = "total" -> DOMAIN CpuBusy
    [] part = "idle" -> {"idle"}
    [] OTHER -> {state \in DOMAIN CpuBusy : CpuBusy[state] = part}

\* The points that count the processors.
Counts(s) == {i \in DOMAIN s : s[i].name = CpuCount /\ s[i].first}
IsLast(i, I) == i \in I /\ \A j \in I : j <= i

BusyParts(a) ==
  a["system"] + a["user"] + a["steal"] + a["iowait"] + a["nice"] + a["irq"] + a["softirq"]

\* The locals of the processor's remapper after it has read s.
CpuFolded(s, a) ==
  /\ \A part \in CpuPart : a[part] = Of(s, CpuShare, "state", StatesOf(part))
  /\ a["total"] = BusyParts(a)
  /\ IF Counts(s) = {} THEN a["cores"] = 0
     ELSE \E i \in Counts(s) : IsLast(i, Counts(s)) /\ a["cores"] = IntValue(s[i])

LEMMA BusyStates ==
    /\ DOMAIN CpuBusy = {"system", "user", "steal", "wait", "nice", "interrupt", "softirq"}
    /\ CpuBusy["system"] = "system" /\ CpuBusy["user"] = "user" /\ CpuBusy["steal"] = "steal"
    /\ CpuBusy["wait"] = "iowait" /\ CpuBusy["nice"] = "nice"
    /\ CpuBusy["interrupt"] = "irq" /\ CpuBusy["softirq"] = "softirq"
BY DEF CpuBusy

\* The seven parts share the total out between them.
LEMMA BusyShares ==
    /\ StatesOf("total") = DOMAIN CpuBusy
    /\ StatesOf("system") = {"system"} /\ StatesOf("user") = {"user"}
    /\ StatesOf("steal") = {"steal"} /\ StatesOf("iowait") = {"wait"}
    /\ StatesOf("nice") = {"nice"} /\ StatesOf("irq") = {"interrupt"}
    /\ StatesOf("softirq") = {"softirq"}
BY BusyStates DEF StatesOf

LEMMA CpuEffect ==
    ASSUME NEW a, DOMAIN a = Locals["cpuscraper"], \A l \in DOMAIN a : a[l] \in Int,
           NEW dp, IsPoint(dp)
    PROVE  LET b == Folded(a, Effect("cpuscraper", dp))
           IN  /\ \A part \in CpuPart :
                    b[part] = a[part] +
                      IF Labelled(dp, CpuShare, "state", StatesOf(part)) THEN Number(dp) ELSE 0
               /\ b["cores"] = IF dp.name = CpuCount /\ dp.first THEN IntValue(dp) ELSE a["cores"]
<1> DEFINE e == Effect("cpuscraper", dp)
           b == Folded(a, e)
           v == Number(dp)
           label == dp.attrs["state"]
           Val(l) == IF l \in DOMAIN e.put THEN e.put[l]
                     ELSE a[l] + (IF l \in DOMAIN e.add THEN e.add[l] ELSE 0)
<1>1. v \in Int /\ dp.first \in BOOLEAN
  BY NumberType DEF IsPoint
<1>2. /\ \A part \in CpuPart : part \in DOMAIN a /\ a[part] \in Int /\ part # "cores"
      /\ "cores" \in DOMAIN a /\ a["cores"] \in Int
  <2>1. Locals["cpuscraper"] = {CpuParts[i] : i \in DOMAIN CpuParts} \cup {"cores"}
    BY DEF Locals
  <2>2. Locals["cpuscraper"] = CpuPart \cup {"cores"}
    BY <2>1, CpuPartsOrder
  <2>3. QED
    BY <2>2 DEF CpuPart
<1>3. (\A part \in CpuPart : b[part] = Val(part)) /\ b["cores"] = Val("cores")
  BY <1>2 DEF Folded
<1>4. /\ DOMAIN Single["cpuscraper"] = {CpuCount} /\ Single["cpuscraper"][CpuCount] = "cores"
      /\ DOMAIN Grouped["cpuscraper"] = {CpuShare} /\ Grouped["cpuscraper"][CpuShare] = "state"
      /\ CpuCount # CpuShare /\ CpuCount \notin ReadAsDouble
  BY DEF Single, CpuSingle, Grouped, CpuCount, CpuShare, Put, ++, ReadAsDouble, ReadAsGauge,
    LoadSingle, PodSingle, NodeSingle
<1> HIDE DEF v, b, e
<1>5. CASE dp.name = CpuCount /\ dp.first
  <2>1. e = Puts("cores", v) /\ v = IntValue(dp)
    BY <1>4, <1>5 DEF Effect, e, v, Number
  <2>2. \A labels : ~Labelled(dp, CpuShare, "state", labels)
    BY <1>4, <1>5 DEF Labelled
  <2>3. b["cores"] = IntValue(dp) /\ \A part \in CpuPart : b[part] = a[part] + 0
    BY <1>2, <1>3, <2>1 DEF Puts, Put, Empty
  <2>4. QED
    BY <1>5, <2>2, <2>3 DEF b, e
<1>6. CASE dp.name = CpuShare /\ "state" \in DOMAIN dp.attrs
  <2>1. e = CpuUtilization(label, v)
    BY <1>4, <1>6 DEF Effect, ByLabel, CpuShare, e, v
  <2>2. \A labels : Labelled(dp, CpuShare, "state", labels) <=> label \in labels
    BY <1>6 DEF Labelled
  <2>3. DOMAIN e.put = {}
    BY <2>1 DEF CpuUtilization, Adds, NoEffect, Empty
  <2>4. "cores" \notin DOMAIN e.add
    BY <2>1, BusyStates DEF CpuUtilization, Adds, NoEffect, Empty
  <2>5. ASSUME NEW part \in CpuPart
        PROVE  /\ part \in DOMAIN e.add <=> label \in StatesOf(part)
               /\ part \in DOMAIN e.add => e.add[part] = v
    <3>1. CASE label = "idle"
      BY <2>1, <3>1, BusyStates DEF CpuUtilization, Adds, StatesOf
    <3>2. CASE label \in DOMAIN CpuBusy
      BY <2>1, <3>2, BusyStates DEF CpuUtilization, Adds, StatesOf
    <3>3. CASE label # "idle" /\ label \notin DOMAIN CpuBusy
      BY <2>1, <3>3 DEF CpuUtilization, NoEffect, Empty, StatesOf
    <3>4. QED
      BY <3>1, <3>2, <3>3
  <2>6. \A part \in CpuPart : b[part] = a[part] + IF label \in StatesOf(part) THEN v ELSE 0
    BY <1>3, <2>3, <2>5
  <2>7. b["cores"] = a["cores"]
    BY <1>2, <1>3, <2>3, <2>4
  <2>8. QED
    BY <1>4, <1>6, <2>2, <2>6, <2>7 DEF b, e, v
<1>7. CASE ~(dp.name = CpuCount /\ dp.first) /\ ~(dp.name = CpuShare /\ "state" \in DOMAIN dp.attrs)
  <2>1. e = NoEffect
    BY <1>4, <1>7 DEF Effect, e
  <2>2. \A labels : ~Labelled(dp, CpuShare, "state", labels)
    BY <1>7 DEF Labelled
  <2>3. (\A part \in CpuPart : b[part] = a[part] + 0) /\ b["cores"] = a["cores"]
    BY <1>2, <1>3, <2>1 DEF NoEffect, Empty
  <2>4. QED
    BY <1>7, <2>2, <2>3 DEF b, e
<1>8. QED
  BY <1>5, <1>6, <1>7

LEMMA CpuStep ==
    ASSUME NEW a, DOMAIN a = Locals["cpuscraper"], \A l \in DOMAIN a : a[l] \in Int,
           NEW s, ArePoints(s), NEW dp, IsPoint(dp), CpuFolded(s, a)
    PROVE  CpuFolded(Append(s, dp), Folded(a, Effect("cpuscraper", dp)))
<1> DEFINE b == Folded(a, Effect("cpuscraper", dp))
           v == Number(dp)
           t == Append(s, dp)
           Gain(part) == IF Labelled(dp, CpuShare, "state", StatesOf(part)) THEN v ELSE 0
           new == dp.name = CpuCount /\ dp.first
<1>1. /\ \A part \in CpuPart : b[part] = a[part] + Gain(part)
      /\ b["cores"] = IF new THEN IntValue(dp) ELSE a["cores"]
  BY CpuEffect
<1>2. v \in Int /\ dp.first \in BOOLEAN
  BY NumberType DEF IsPoint
<1>3. /\ DOMAIN t = 1..Len(s) + 1 /\ DOMAIN s = 1..Len(s) /\ Len(s) \in Nat
      /\ t[Len(s) + 1] = dp /\ \A i \in 1..Len(s) : t[i] = s[i]
  BY AppendPoints DEF ArePoints
<1>4. \A part \in CpuPart :
        Of(t, CpuShare, "state", StatesOf(part)) = Of(s, CpuShare, "state", StatesOf(part)) + Gain(part)
  BY OfAppend
<1>5. \A part \in CpuPart : a[part] \in Int
  <2>1. \A part \in CpuPart : a[part] = Of(s, CpuShare, "state", StatesOf(part))
    BY DEF CpuFolded
  <2>2. QED
    BY <2>1, OfAppend
<1>6. Gain("total") = Gain("system") + Gain("user") + Gain("steal") + Gain("iowait")
                        + Gain("nice") + Gain("irq") + Gain("softirq")
  <2>1. CASE dp.name = CpuShare /\ "state" \in DOMAIN dp.attrs
    <3>1. \A labels : Labelled(dp, CpuShare, "state", labels) <=> dp.attrs["state"] \in labels
      BY <2>1 DEF Labelled
    <3> HIDE DEF v
    <3>2. QED
      BY <1>2, <3>1, BusyShares, BusyStates
  <2>2. CASE ~(dp.name = CpuShare /\ "state" \in DOMAIN dp.attrs)
    BY <2>2 DEF Labelled
  <2>3. QED
    BY <2>1, <2>2
<1>7. \A part \in CpuPart : Gain(part) \in Int
  BY <1>2
<1> HIDE DEF b, v, t, Gain
<1>8. \A part \in CpuPart : b[part] = Of(t, CpuShare, "state", StatesOf(part))
  BY <1>1, <1>4 DEF CpuFolded
<1>9. b["total"] = BusyParts(b)
  <2>1. a["total"] = BusyParts(a)
    BY DEF CpuFolded
  <2>2. /\ b["total"] = a["total"] + Gain("total") /\ b["system"] = a["system"] + Gain("system")
        /\ b["user"] = a["user"] + Gain("user") /\ b["steal"] = a["steal"] + Gain("steal")
        /\ b["iowait"] = a["iowait"] + Gain("iowait") /\ b["nice"] = a["nice"] + Gain("nice")
        /\ b["irq"] = a["irq"] + Gain("irq") /\ b["softirq"] = a["softirq"] + Gain("softirq")
    BY <1>1 DEF CpuPart
  <2>3. /\ a["system"] \in Int /\ a["user"] \in Int /\ a["steal"] \in Int /\ a["iowait"] \in Int
        /\ a["nice"] \in Int /\ a["irq"] \in Int /\ a["softirq"] \in Int
    BY <1>5 DEF CpuPart
  <2>4. /\ Gain("system") \in Int /\ Gain("user") \in Int /\ Gain("steal") \in Int
        /\ Gain("iowait") \in Int /\ Gain("nice") \in Int /\ Gain("irq") \in Int
        /\ Gain("softirq") \in Int
    BY <1>7 DEF CpuPart
  <2>5. QED
    BY <1>6, <2>1, <2>2, <2>3, <2>4 DEF BusyParts
<1>10. CASE new
  <2>1. Len(s) + 1 \in Counts(t) /\ IsLast(Len(s) + 1, Counts(t))
    BY <1>3, <1>10 DEF Counts, IsLast
  <2>2. QED
    BY <1>1, <1>3, <1>8, <1>9, <1>10, <2>1 DEF CpuFolded, b, t
<1>11. CASE ~new
  <2>1. Counts(t) = Counts(s)
    BY <1>3, <1>11 DEF Counts
  <2>2. \A i \in Counts(s) : t[i] = s[i]
    BY <1>3 DEF Counts
  <2>3. IF Counts(t) = {} THEN b["cores"] = 0
        ELSE \E i \in Counts(t) : IsLast(i, Counts(t)) /\ b["cores"] = IntValue(t[i])
    BY <1>1, <1>11, <2>1, <2>2 DEF CpuFolded
  <2>4. QED
    BY <1>8, <1>9, <2>3 DEF CpuFolded, b, t
<1>12. QED
  BY <1>10, <1>11

-------------------------------------------------------------------------------
(* The locals on every turn of the loop                                          *)

\* What the locals of a remapper are after it has read s.
SumsOf(base, s, a) ==
  /\ base = "cpuscraper" => CpuFolded(s, a)
  /\ base = "memoryscraper" => MemoryFolded(s, a)
  /\ base = "processscraper" => ProcessFolded(s, a)
  /\ base = "processesscraper" => ProcessesFolded(s, a)

SumsKept == Folds => SumsOf(scope.base, seen, acc)

LEMMA SumsAtFirst ==
    ASSUME NEW base \in FoldScrapers
    PROVE  SumsOf(base, <<>>, [l \in Locals[base] |-> 0])
<1> DEFINE a == [l \in Locals[base] |-> 0]
<1>1. ASSUME base = "cpuscraper" PROVE CpuFolded(<<>>, a)
  <2>1. Locals[base] = CpuPart \cup {"cores"}
    <3>1. Locals["cpuscraper"] = {CpuParts[i] : i \in DOMAIN CpuParts} \cup {"cores"}
      BY DEF Locals
    <3>2. QED
      BY <1>1, <3>1, CpuPartsOrder
  <2>2. \A part \in CpuPart \cup {"cores"} : a[part] = 0
    BY <2>1
  <2>3. Counts(<<>>) = {}
    BY DEF Counts
  <2> HIDE DEF a
  <2>4. BusyParts(a) = 0
    BY <2>2 DEF BusyParts, CpuPart
  <2>5. a["total"] = 0 /\ a["cores"] = 0
    BY <2>2 DEF CpuPart
  <2>6. QED
    BY <2>2, <2>3, <2>4, <2>5, OfNone DEF CpuFolded
<1>2. ASSUME base = "memoryscraper" PROVE MemoryFolded(<<>>, a)
  <2>1. a["total"] = 0 /\ a["free"] = 0 /\ a["used.bytes"] = 0
    BY <1>2 DEF Locals
  <2> HIDE DEF a
  <2>2. a["used.bytes"] + a["free"] = 0
    BY <2>1
  <2>3. QED
    BY <2>1, <2>2, OfNone DEF MemoryFolded
<1>3. ASSUME base = "processscraper" PROVE ProcessFolded(<<>>, a)
  <2>1. a["total"] = 0 /\ a["system"] = 0 /\ a["user"] = 0
    BY <1>3 DEF Locals
  <2> HIDE DEF a
  <2>2. QED
    BY <2>1, OfNone DEF ProcessFolded
<1>4. ASSUME base = "processesscraper" PROVE ProcessesFolded(<<>>, a)
  <2>1. /\ a["total"] = 0 /\ a["idle"] = 0 /\ a["sleeping"] = 0
        /\ a["stopped"] = 0 /\ a["zombie"] = 0 /\ a["running"] = 0
    BY <1>4 DEF Locals, ProcessesParts
  <2>2. SumTo(Len(<<>>), Numbers(<<>>), Others(<<>>)) = 0
    BY SumToStep
  <2> HIDE DEF a
  <2>3. Parts(a) = 0
    BY <2>1 DEF Parts
  <2>4. \A status \in DOMAIN ProcessStatus : a[ProcessStatus[status]] = 0
    BY <2>1, StatusParts
  <2>5. QED
    BY <2>1, <2>2, <2>3, <2>4 DEF ProcessesFolded
<1>5. QED
  BY <1>1, <1>2, <1>3, <1>4 DEF SumsOf

LEMMA SumsStep ==
    ASSUME NEW base, NEW a, DOMAIN a = Locals[base], \A l \in DOMAIN a : a[l] \in Int,
           NEW s, ArePoints(s), NEW dp, IsPoint(dp), SumsOf(base, s, a)
    PROVE  SumsOf(base, Append(s, dp), Folded(a, Effect(base, dp)))
BY CpuStep, MemoryStep, ProcessStep, ProcessesStep DEF SumsOf

\* What has been read are points, as the receivers report them.
LEMMA SeenPoints == TypeInv => ArePoints(seen) /\ \A dp \in Inputs[scope.base] : IsPoint(dp)
BY InputsAssumption DEF TypeInv, TypeOK, ArePoints

LEMMA InitSums == Init => SumsKept
BY SumsAtFirst DEF Init, SumsKept, Folds, Folding

LEMMA NextSums == TypeInv /\ SumsKept /\ [Next]_vars => SumsKept'
<1> SUFFICES ASSUME TypeInv, SumsKept, [Next]_vars, Folds'
             PROVE  SumsKept'
  BY DEF SumsKept
<1> USE DEF call
<1>1. UNCHANGED <<package, scope>>
  BY DEF Next, vars, Ignore, Begin, ReadPoint, EndOfScope, ReadBack, AppendFolded, RangeDevices,
    AppendDevice, Return
<1>2. Folds
  BY <1>1 DEF Folds, Handled, ValidScope, Folding
<1>3. (\E dp \in Inputs[scope.base] : Turn(dp)) \/ Appends \/ Nothing
  BY <1>2, FoldSteps
<1>4. CASE Appends \/ Nothing
  BY <1>1, <1>2, <1>4 DEF Appends, Nothing, SumsKept
<1>5. ASSUME NEW dp \in Inputs[scope.base], Turn(dp)
      PROVE  SumsKept'
  <2>1. ArePoints(seen) /\ IsPoint(dp)
    BY SeenPoints
  <2>2. DOMAIN acc = Locals[scope.base] /\ \A l \in DOMAIN acc : acc[l] \in Int
    BY <1>2 DEF Folds, TypeInv, LocalsType
  <2>3. SumsOf(scope.base, Append(seen, dp), Folded(acc, Effect(scope.base, dp)))
    BY <1>2, <2>1, <2>2, SumsStep DEF SumsKept
  <2>4. QED
    BY <1>1, <1>5, <2>3 DEF Turn, SumsKept
<1>6. QED
  BY <1>3, <1>4, <1>5

\* The inductive invariant of the calls that fold.
FoldInv == TypeInv /\ AppendedAtEnd /\ StampsKept /\ SumsKept

LEMMA FoldInvAlways == Spec => []FoldInv
<1>1. Init => FoldInv
  BY InitType, InitFolds, InitSums DEF FoldInv
<1>2. FoldInv /\ [Next]_vars => FoldInv'
  BY NextType, NextFolds, NextSums DEF FoldInv
<1>3. QED
  BY <1>1, <1>2, PTL DEF Spec

-------------------------------------------------------------------------------
(* What is appended are the locals                                               *)

LEMMA SameLength == ASSUME NEW n \in Nat, NEW m \in Nat, 1..n = 1..m PROVE n = m
<1>1. n > m => n \in 1..n /\ n \notin 1..m
  OBVIOUS
<1>2. m > n => m \in 1..m /\ m \notin 1..n
  OBVIOUS
<1>3. QED
  BY <1>1, <1>2

\* A call that has appended something has a timestamp.
LEMMA FreshTimed ==
    ASSUME FoldInv, NEW base \in FoldScrapers, Returned(base), Fresh # <<>>
    PROVE  /\ Folds /\ pc = "done" /\ timestamp # 0 /\ scope.base = base
           /\ DOMAIN acc = Locals[base] /\ \A l \in DOMAIN acc : acc[l] \in Int
           /\ timestamp \in Nat /\ startTimestamp \in Nat
<1>1. Folds /\ pc = "done" /\ scope.base = base
  BY DEF Returned, Folds, Folding
<1>2. timestamp # 0
  BY <1>1, FreshFolded DEF FoldInv
<1>3. QED
  BY <1>1, <1>2 DEF FoldInv, TypeInv, LocalsType, Folds

\* Memory: whatever the order of the points and the states that are missing,
\* used and free bytes make up the total, and so do those actually used and
\* free; the total is what was reported of the four disjoint states.
THEOREM MemoryAddsUp == Spec => []MemoryBalanced
<1>1. FoldInv => MemoryBalanced
  <2> SUFFICES ASSUME FoldInv, Returned("memoryscraper"), Fresh # <<>>,
                      OncePerLabel("system.memory.usage", "state")
               PROVE  /\ TheValue("system.memory.total")[1] =
                           ReportedAs("system.memory.usage", "state",
                                      {"cached", "free", "used", "buffered"})
                      /\ TheValue("system.memory.used.bytes")[1]
                           + TheValue("system.memory.free")[1]
                           = TheValue("system.memory.total")[1]
                      /\ TheValue("system.memory.actual.used.bytes")[1]
                           + TheValue("system.memory.actual.free")[1]
                           = TheValue("system.memory.total")[1]
    BY DEF MemoryBalanced
  <2>1. "memoryscraper" \in FoldScrapers
    BY DEF FoldScrapers, Locals
  <2>2. /\ Folds /\ pc = "done" /\ timestamp # 0 /\ scope.base = "memoryscraper"
        /\ DOMAIN acc = Locals["memoryscraper"] /\ \A l \in DOMAIN acc : acc[l] \in Int
    BY <2>1, FreshTimed
  <2>3. All = MemoryMetrics(acc, timestamp)
    BY <2>2 DEF All, FoldedMetrics
  <2>4. /\ DOMAIN All = 1..8
        /\ All[1].name = "system.memory.total" /\ All[2].name = "system.memory.free"
        /\ All[3].name = "system.memory.cached" /\ All[4].name = "system.memory.used.bytes"
        /\ All[5].name = "system.memory.actual.used.bytes"
        /\ All[6].name = "system.memory.actual.free"
        /\ All[7].name = "system.memory.used.pct"
        /\ All[8].name = "system.memory.actual.used.pct"
    BY <2>3 DEF MemoryMetrics, IntSum, DoubleGauge
  <2>5. /\ All[1].value[1] = acc["total"] /\ All[2].value[1] = acc["free"]
        /\ All[4].value[1] = acc["used.bytes"] + acc["total"]
        /\ All[5].value[1] = acc["actual.used.bytes"]
        /\ All[6].value[1] = acc["total"] - acc["actual.used.bytes"]
    BY <2>3 DEF MemoryMetrics, IntSum
  <2>6. Len(All) = 8
    BY <2>2, <2>4, AllGood, SameLength DEF FoldInv
  <2>7. /\ TheValue("system.memory.total") = All[1].value
        /\ TheValue("system.memory.free") = All[2].value
        /\ TheValue("system.memory.used.bytes") = All[4].value
        /\ TheValue("system.memory.actual.used.bytes") = All[5].value
        /\ TheValue("system.memory.actual.free") = All[6].value
    <3>1. \A i, k \in 1..8 : All[i].name = All[k].name => i = k
      BY <2>4
    <3>2. \A k \in 1..8 : TheValue(All[k].name) = All[k].value
      BY <2>2, <2>6, <3>1, EmittedOnce DEF FoldInv
    <3>3. QED
      BY <2>4, <3>2
  <2>8. /\ "total" \in DOMAIN acc /\ "free" \in DOMAIN acc /\ "used.bytes" \in DOMAIN acc
        /\ "actual.used.bytes" \in DOMAIN acc
    BY <2>2 DEF Locals
  <2>9. MemoryFolded(seen, acc)
    BY <2>2 DEF FoldInv, SumsKept, SumsOf
  <2>10. /\ acc["total"] = ReportedAs("system.memory.usage", "state",
                                     {"cached", "free", "used", "buffered"})
         /\ acc["used.bytes"] + acc["free"] = 0
    BY <2>9 DEF MemoryFolded, Of, Once, MemoryUsed, MemoryStates, ReportedAs, Reported, OncePerLabel
  <2>11. /\ acc["total"] \in Int /\ acc["free"] \in Int /\ acc["used.bytes"] \in Int
         /\ acc["actual.used.bytes"] \in Int
    BY <2>2, <2>8
  <2>12. \A total, free, used \in Int :
           /\ used + free = 0 => (used + total) + free = total
           /\ used + (total - used) = total
    OBVIOUS
  <2>13. /\ (acc["used.bytes"] + acc["total"]) + acc["free"] = acc["total"]
         /\ acc["actual.used.bytes"] + (acc["total"] - acc["actual.used.bytes"]) = acc["total"]
    BY <2>10, <2>11, <2>12
  <2>14. QED
    BY <2>5, <2>7, <2>10, <2>13
<1>2. QED
  BY <1>1, FoldInvAlways, PTL

\* The metrics of a process: no two have the same name.
AreProcess(M, a, ts, start) ==
  /\ DOMAIN M = 1..16
  /\ \A i, k \in 1..16 : M[i].name = M[k].name => i = k
  /\ M[9].name = "system.process.cpu.system.ticks"
  /\ M[10].name = "system.process.cpu.user.ticks"
  /\ M[11].name = "system.process.cpu.total.ticks"
  /\ M[16].name = "system.process.cpu.total.pct"
  /\ M[9].value[1] = 1000 * a["system"] /\ M[10].value[1] = 1000 * a["user"]
  /\ M[11].value[1] = 1000 * a["total"] /\ M[16].value[2] = ProcessRuntime(ts, start)

LEMMA ProcessNames ==
    ASSUME NEW a, NEW ts, NEW start
    PROVE  AreProcess(ProcessMetrics(a, ts, start), a, ts, start)
<1> DEFINE M == ProcessMetrics(a, ts, start)
<1>1. DOMAIN M = 1..16
  BY DEF ProcessMetrics
<1>2. /\ M[1].name = "process.cpu.start_time" /\ M[2].name = "system.process.num_threads"
      /\ M[3].name = "system.process.memory.rss.pct"
      /\ M[4].name = "system.process.memory.rss.bytes" /\ M[5].name = "system.process.memory.size"
      /\ M[6].name = "system.process.fd.open" /\ M[7].name = "process.memory.pct"
      /\ M[8].name = "system.process.cpu.total.value"
  BY DEF ProcessMetrics, IntSum, DoubleSum, DoubleGauge
<1>3. /\ M[9].name = "system.process.cpu.system.ticks"
      /\ M[10].name = "system.process.cpu.user.ticks"
      /\ M[11].name = "system.process.cpu.total.ticks"
      /\ M[12].name = "system.process.io.read_bytes" /\ M[13].name = "system.process.io.write_bytes"
      /\ M[14].name = "system.process.io.read_ops" /\ M[15].name = "system.process.io.write_ops"
      /\ M[16].name = "system.process.cpu.total.pct"
  BY DEF ProcessMetrics, IntSum, DoubleSum, DoubleGauge
<1>4. /\ M[9].value[1] = 1000 * a["system"] /\ M[10].value[1] = 1000 * a["user"]
      /\ M[11].value[1] = 1000 * a["total"] /\ M[16].value[2] = ProcessRuntime(ts, start)
  BY DEF ProcessMetrics, DoubleSum, DoubleGauge
<1> HIDE DEF M
<1>5. \A i, k \in 1..16 : M[i].name = M[k].name => i = k
  BY <1>2, <1>3
<1>6. AreProcess(M, a, ts, start)
  BY <1>1, <1>3, <1>4, <1>5 DEF AreProcess
<1>7. QED
  BY <1>6 DEF M

LEMMA ProcessAppended ==
    ASSUME FoldInv, Returned("processscraper"), Fresh # <<>>
    PROVE  /\ Folds /\ scope.base = "processscraper" /\ timestamp # 0
           /\ timestamp \in Nat /\ startTimestamp \in Nat
           /\ acc["total"] \in Int /\ acc["system"] \in Int /\ acc["user"] \in Int
           /\ TheValue("system.process.cpu.system.ticks")[1] = 1000 * acc["system"]
           /\ TheValue("system.process.cpu.user.ticks")[1] = 1000 * acc["user"]
           /\ TheValue("system.process.cpu.total.ticks")[1] = 1000 * acc["total"]
           /\ TheValue("system.process.cpu.total.pct")[2] = ProcessRuntime(timestamp, startTimestamp)
<1>1. "processscraper" \in FoldScrapers
  BY DEF FoldScrapers, Locals
<1>2. /\ Folds /\ pc = "done" /\ timestamp # 0 /\ scope.base = "processscraper"
      /\ DOMAIN acc = Locals["processscraper"] /\ \A l \in DOMAIN acc : acc[l] \in Int
      /\ timestamp \in Nat /\ startTimestamp \in Nat
  BY <1>1, FreshTimed
<1>3. AreProcess(All, acc, timestamp, startTimestamp)
  <2>1. All = ProcessMetrics(acc, timestamp, startTimestamp)
    BY <1>2 DEF All, FoldedMetrics
  <2>2. QED
    BY <2>1, ProcessNames
<1>4. Len(All) = 16
  <2>1. DOMAIN All = 1..Len(All) /\ Len(All) \in Nat
    BY <1>2, AllGood DEF FoldInv
  <2>2. QED
    BY <1>3, <2>1, SameLength DEF AreProcess
<1>5. \A k \in 1..16 : TheValue(All[k].name) = All[k].value
  <2>1. \A i, k \in 1..16 : All[i].name = All[k].name => i = k
    BY <1>3 DEF AreProcess
  <2>2. ASSUME NEW k \in 1..16 PROVE TheValue(All[k].name) = All[k].value
    <3>1. k \in 1..Len(All) /\ \A i \in 1..Len(All) : All[i].name = All[k].name => i = k
      BY <1>4, <2>1
    <3>2. QED
      BY <1>2, <3>1, EmittedOnce DEF FoldInv
  <2>3. QED
    BY <2>2
<1>6. /\ TheValue("system.process.cpu.system.ticks") = All[9].value
      /\ TheValue("system.process.cpu.user.ticks") = All[10].value
      /\ TheValue("system.process.cpu.total.ticks") = All[11].value
      /\ TheValue("system.process.cpu.total.pct") = All[16].value
  <2>1. /\ All[9].name = "system.process.cpu.system.ticks"
        /\ All[10].name = "system.process.cpu.user.ticks"
        /\ All[11].name = "system.process.cpu.total.ticks"
        /\ All[16].name = "system.process.cpu.total.pct"
    BY <1>3 DEF AreProcess
  <2>2. 9 \in 1..16 /\ 10 \in 1..16 /\ 11 \in 1..16 /\ 16 \in 1..16
    OBVIOUS
  <2>3. QED
    BY <1>5, <2>1, <2>2
<1>7. acc["total"] \in Int /\ acc["system"] \in Int /\ acc["user"] \in Int
  <2>1. "total" \in DOMAIN acc /\ "system" \in DOMAIN acc /\ "user" \in DOMAIN acc
    BY <1>2 DEF Locals
  <2>2. QED
    BY <1>2, <2>1
<1>8. TheValue("system.process.cpu.total.pct")[2] = ProcessRuntime(timestamp, startTimestamp)
  BY <1>3, <1>6, Zenon DEF AreProcess
<1>9. /\ TheValue("system.process.cpu.system.ticks")[1] = 1000 * acc["system"]
      /\ TheValue("system.process.cpu.user.ticks")[1] = 1000 * acc["user"]
      /\ TheValue("system.process.cpu.total.ticks")[1] = 1000 * acc["total"]
  BY <1>3, <1>6 DEF AreProcess
<1>10. QED
  BY <1>2, <1>7, <1>8, <1>9

LEMMA ProcessesAppended ==
    ASSUME FoldInv, Returned("processesscraper"), Fresh # <<>>
    PROVE  /\ Folds /\ scope.base = "processesscraper"
           /\ \A part \in {ProcessesParts[k] : k \in 1..6} :
                TheValue(ProcessesSummary[part])[1] = acc[part]
<1>1. "processesscraper" \in FoldScrapers
  BY DEF FoldScrapers, Locals
<1>2. /\ Folds /\ pc = "done" /\ timestamp # 0 /\ scope.base = "processesscraper"
  BY <1>1, FreshTimed
<1>3. All = ProcessesMetrics(acc, timestamp)
  BY <1>2 DEF All, FoldedMetrics
<1>4. DOMAIN ProcessesParts = 1..6
  BY DEF ProcessesParts
<1>5. DOMAIN All = 1..6 /\ \A k \in 1..6 :
        /\ All[k].name = ProcessesSummary[ProcessesParts[k]]
        /\ All[k].value[1] = acc[ProcessesParts[k]]
  BY <1>3, <1>4 DEF ProcessesMetrics, IntSum
<1>6. Len(All) = 6
  BY <1>2, <1>5, AllGood, SameLength DEF FoldInv
<1>7. \A i, k \in 1..6 : All[i].name = All[k].name => i = k
  <2>1. \A i, k \in 1..6 : ProcessesParts[i] = ProcessesParts[k] => i = k
    BY DEF ProcessesParts
  <2>2. \A i \in 1..6 :
          ProcessesParts[i] \in {"idle", "sleeping", "stopped", "zombie", "running", "total"}
    BY DEF ProcessesParts
  <2>3. ASSUME NEW i \in 1..6, NEW k \in 1..6, All[i].name = All[k].name PROVE i = k
    <3>1. ProcessesSummary[ProcessesParts[i]] = ProcessesSummary[ProcessesParts[k]]
      BY <1>5, <2>3
    <3>2. ProcessesParts[i] = ProcessesParts[k]
      BY <2>2, <3>1, ProcessesNames
    <3>3. QED
      BY <2>1, <3>2
  <2>4. QED
    BY <2>3
<1>8. \A k \in 1..6 : TheValue(All[k].name) = All[k].value
  BY <1>2, <1>6, <1>7, EmittedOnce DEF FoldInv
<1>9. QED
  BY <1>2, <1>5, <1>8

\* Processes and a process: the total appended is the sum of the parts appended
\* beside it and of what was reported under a label with no part of its own,
\* so that nothing is counted twice or lost, in whatever order it is read.
THEOREM TotalsAddUp == Spec => []TotalsCoverParts
<1>1. ASSUME FoldInv, Returned("processesscraper"), Fresh # <<>>,
             OncePerLabel("system.processes.count", "status")
      PROVE  TheValue(ProcessesSummary["total"])[1] =
               TheValue(ProcessesSummary["idle"])[1] + TheValue(ProcessesSummary["sleeping"])[1]
                 + TheValue(ProcessesSummary["stopped"])[1]
                 + TheValue(ProcessesSummary["zombie"])[1]
                 + TheValue(ProcessesSummary["running"])[1] + Reported(OtherStatus)
  <2>1. {ProcessesParts[k] : k \in 1..6} =
          {"idle", "sleeping", "stopped", "zombie", "running", "total"}
    BY DEF ProcessesParts
  <2>2. ProcessesFolded(seen, acc)
    BY <1>1, ProcessesAppended DEF FoldInv, SumsKept, SumsOf
  <2>3. acc["total"] = Parts(acc) + Reported(OtherStatus)
    BY <1>1, <2>2
    DEF ProcessesFolded, Once, OncePerLabel, Others, OtherStatus, Reported, Count
  <2>4. \A part \in {"idle", "sleeping", "stopped", "zombie", "running", "total"} :
          TheValue(ProcessesSummary[part])[1] = acc[part]
    BY <1>1, <2>1, ProcessesAppended
  <2>5. QED
    BY <2>3, <2>4 DEF Parts
<1>2. ASSUME FoldInv, Returned("processscraper"), Fresh # <<>>,
             OncePerLabel("process.cpu.time", "state")
      PROVE  TheValue("system.process.cpu.total.ticks")[1] =
               TheValue("system.process.cpu.system.ticks")[1]
                 + TheValue("system.process.cpu.user.ticks")[1]
                 + 1000 * ReportedAs("process.cpu.time", "state", {"wait"})
  <2>1. ProcessFolded(seen, acc)
    BY <1>2, ProcessAppended DEF FoldInv, SumsKept, SumsOf
  <2>2. acc["total"] =
          acc["system"] + acc["user"] + ReportedAs("process.cpu.time", "state", {"wait"})
    BY <1>2, <2>1 DEF ProcessFolded, Once, OncePerLabel, Of, ReportedAs, Reported, CpuTime
  <2>3. ReportedAs("process.cpu.time", "state", {"wait"}) \in Int
    <3>1. ArePoints(seen)
      BY <1>2, SeenPoints DEF FoldInv
    <3>2. SumTo(Len(seen), Numbers(seen), {i \in DOMAIN seen :
            Labelled(seen[i], "process.cpu.time", "state", {"wait"})}) \in Int
      <4>1. /\ Len(seen) \in Nat /\ DOMAIN seen = 1..Len(seen)
            /\ \A k \in 1..Len(seen) : Numbers(seen)[k] \in Int
        BY <3>1, IsSeqDomain, NumberType DEF ArePoints, Numbers
      <4>2. QED
        BY <4>1, SumToType
    <3>3. QED
      BY <3>2 DEF ReportedAs, Reported
  <2>4. \A n, x, y, z \in Int : n = x + y + z => 1000 * n = 1000 * x + 1000 * y + 1000 * z
    OBVIOUS
  <2>5. QED
    BY <1>2, <2>2, <2>3, <2>4, ProcessAppended
<1>3. FoldInv => TotalsCoverParts
  BY <1>1, <1>2 DEF TotalsCoverParts
<1>4. QED
  BY <1>3, FoldInvAlways, PTL

\* Process: if no point was taken before a start reported, the share of the
\* processor is not over a negative time, and if each was taken a millisecond or
\* more after every start, not over zero time either, though the two ends of the
\* run time may be of different points and are cut to milliseconds.
THEOREM RunsForward == Spec => []RuntimePositive
<1>1. FoldInv => RuntimePositive
  <2> DEFINE read == {i \in DOMAIN seen : Relevant("processscraper", seen[i])}
             starts == {seen[i].start : i \in read} \cup {0}
             TakenAfter(n) ==
               \A i \in read : \A t \in starts : seen[i].ts = 0 \/ seen[i].ts >= t + n
             runtime == TheValue("system.process.cpu.total.pct")[2]
  <2> SUFFICES ASSUME FoldInv, Returned("processscraper"), Fresh # <<>>
               PROVE  /\ TakenAfter(0) => runtime >= 0
                      /\ TakenAfter(Millisecond) => runtime > 0
    BY DEF RuntimePositive
  <2>1. /\ scope.base = "processscraper" /\ timestamp # 0
        /\ timestamp \in Nat /\ startTimestamp \in Nat
        /\ runtime = UnixMilli(timestamp) - UnixMilli(startTimestamp)
    BY ProcessAppended DEF ProcessRuntime
  <2>2. /\ OneOf(timestamp, Stamps("processscraper", seen))
        /\ OneOf(startTimestamp, Starts("processscraper", seen))
    BY <2>1, ProcessAppended DEF FoldInv, StampsKept
  <2>3. PICK i \in read : timestamp = seen[i].ts
    BY <2>1, <2>2 DEF OneOf, Stamps
  <2>4. startTimestamp \in starts
    BY <2>2 DEF OneOf, Starts
  <2> HIDE DEF runtime, read, starts
  <2>5. \A n : TakenAfter(n) => timestamp >= startTimestamp + n
    BY <2>1, <2>3, <2>4
  <2>6. UnixMilli(timestamp) \in Nat /\ UnixMilli(startTimestamp) \in Nat
    BY <2>1, UnixMilliOrder
  <2>7. TakenAfter(0) => UnixMilli(startTimestamp) <= UnixMilli(timestamp)
    <3>1. TakenAfter(0) => startTimestamp <= timestamp
      BY <2>1, <2>5
    <3>2. QED
      BY <2>1, <3>1, UnixMilliOrder
  <2>8. TakenAfter(Millisecond) => UnixMilli(startTimestamp) < UnixMilli(timestamp)
    <3>1. TakenAfter(Millisecond) => startTimestamp + Millisecond <= timestamp
      BY <2>1, <2>5, MillisecondAssumption
    <3>2. QED
      BY <2>1, <3>1, UnixMilliOrder
  <2>9. QED
    BY <2>1, <2>6, <2>7, <2>8
<1>2. QED
  BY <1>1, FoldInvAlways, PTL

\* The metrics of the processor: the parts, and if the cores are known their
\* number and the parts again, each over it.
AreCpu(M, a) ==
  /\ \A i \in 1..9 : M[i].name = CpuPct[CpuParts[i]] /\ M[i].value = <<a[CpuParts[i]], 1>>
  /\ IF a["cores"] = 0 THEN Len(M) = 9
     ELSE /\ Len(M) = 20
          /\ M[10].name = "system.cpu.cores" /\ M[11].name = "system.load.cores"
          /\ \A i \in 1..9 : /\ M[11 + i].name = CpuNorm[CpuParts[i]]
                             /\ M[11 + i].value = <<a[CpuParts[i]], a["cores"]>>

LEMMA CpuPlaces == ASSUME NEW a, NEW ts PROVE AreCpu(CpuMetrics(a, ts), a)
<1> DEFINE Pct(part) == DoubleGauge(CpuPct[part], <<a[part], 1>>, ts)
           Norm(part) == DoubleGauge(CpuNorm[part], <<a[part], a["cores"]>>, ts)
           pcts == [i \in DOMAIN CpuParts |-> Pct(CpuParts[i])]
           norms == [i \in DOMAIN CpuParts |-> Norm(CpuParts[i])]
           cores == <<IntSum("system.cpu.cores", a["cores"], ts),
                      IntSum("system.load.cores", a["cores"], ts)>>
           M == CpuMetrics(a, ts)
<1>1. DOMAIN CpuParts = 1..9
  BY DEF CpuParts
<1>2. /\ IsSeq(pcts) /\ Len(pcts) = 9 /\ IsSeq(norms) /\ Len(norms) = 9
      /\ IsSeq(cores) /\ Len(cores) = 2 /\ IsSeq(<<>>)
  <2>1. pcts = [i \in 1..9 |-> pcts[i]] /\ norms = [i \in 1..9 |-> norms[i]]
    BY <1>1
  <2>2. IsSeq(cores) /\ IsSeq(<<>>) /\ Len(cores) = 2
    <3>1. \A b, c : <<b, c>> \in Seq({b, c}) /\ <<>> \in Seq({}) /\ Len(<<b, c>>) = 2
      OBVIOUS
    <3>2. QED
      BY <3>1, SeqIsSeq
  <2> HIDE DEF pcts, norms, cores
  <2>3. IsSeq(pcts) /\ IsSeq(norms) /\ DOMAIN pcts = 1..9 /\ DOMAIN norms = 1..9
    BY <2>1, FunctionIsSeq
  <2>4. QED
    BY <2>2, <2>3, IsSeqDomain, SameLength
<1>3. \A i \in 1..9 :
        /\ pcts[i].name = CpuPct[CpuParts[i]] /\ pcts[i].value = <<a[CpuParts[i]], 1>>
        /\ norms[i].name = CpuNorm[CpuParts[i]] /\ norms[i].value = <<a[CpuParts[i]], a["cores"]>>
  BY <1>1 DEF DoubleGauge
<1>4. cores[1].name = "system.cpu.cores" /\ cores[2].name = "system.load.cores"
  BY DEF IntSum
<1>5. M = pcts \o IF a["cores"] = 0 THEN <<>> ELSE cores \o norms
  BY DEF CpuMetrics
<1> HIDE DEF pcts, norms, cores, M
<1>6. CASE a["cores"] = 0
  <2>1. M = pcts \o <<>> /\ Len(<<>>) = 0
    BY <1>5, <1>6
  <2>2. Len(M) = 9 /\ \A i \in 1..9 : M[i] = pcts[i]
    BY <1>2, <2>1, ConcatAt DEF Joined
  <2>3. QED
    BY <1>3, <1>6, <2>2 DEF AreCpu, M
<1>7. CASE a["cores"] # 0
  <2> DEFINE rest == cores \o norms
  <2>1. IsSeq(rest)
    BY <1>2, ConcatIsSeq
  <2>2. /\ Len(rest) = 11
        /\ \A i \in 1..2 : rest[i] = cores[i]
        /\ \A i \in 1..9 : rest[2 + i] = norms[i]
    <3>1. Joined(rest, cores, norms)
      BY <1>2, ConcatAt
    <3> HIDE DEF rest
    <3>2. QED
      BY <1>2, <3>1 DEF Joined
  <2>3. M = pcts \o rest
    BY <1>5, <1>7
  <2> HIDE DEF rest
  <2>4. /\ Len(M) = 20 /\ \A i \in 1..9 : M[i] = pcts[i]
        /\ \A i \in 1..11 : M[9 + i] = rest[i]
    <3>1. Joined(M, pcts, rest)
      BY <1>2, <2>1, <2>3, ConcatAt
    <3>2. QED
      BY <1>2, <2>2, <3>1 DEF Joined
  <2>5. M[10] = cores[1] /\ M[11] = cores[2]
    <3>1. M[9 + 1] = rest[1] /\ M[9 + 2] = rest[2]
      BY <2>4
    <3>2. QED
      BY <2>2, <3>1
  <2>6. \A i \in 1..9 : M[11 + i] = norms[i]
    <3>1. ASSUME NEW i \in 1..9 PROVE M[11 + i] = norms[i]
      <4>1. 2 + i \in 1..11 /\ 9 + (2 + i) = 11 + i
        OBVIOUS
      <4>2. M[9 + (2 + i)] = rest[2 + i] /\ rest[2 + i] = norms[i]
        BY <2>2, <2>4, <4>1
      <4>3. QED
        BY <4>1, <4>2
    <3>2. QED
      BY <3>1
  <2>7. QED
    BY <1>3, <1>4, <1>7, <2>4, <2>5, <2>6 DEF AreCpu, M
<1>8. QED
  BY <1>6, <1>7

\* What is appended under the names of a part.
LEMMA CpuAppended ==
    ASSUME FoldInv, Returned("cpuscraper"), Fresh # <<>>, NEW part \in CpuPart
    PROVE  /\ Emitted(CpuPct[part]) = {<<acc[part], 1>>}
           /\ Emitted(CpuNorm[part]) =
                IF acc["cores"] = 0 THEN {} ELSE {<<acc[part], acc["cores"]>>}
           /\ TheValue(CpuPct[part])[1] = acc[part]
<1>1. "cpuscraper" \in FoldScrapers
  BY DEF FoldScrapers, Locals
<1>2. Folds /\ pc = "done" /\ timestamp # 0 /\ scope.base = "cpuscraper"
  BY <1>1, FreshTimed
<1>3. AreCpu(All, acc)
  <2>1. All = CpuMetrics(acc, timestamp)
    BY <1>2 DEF All, FoldedMetrics
  <2>2. QED
    BY <2>1, CpuPlaces
<1>4. PICK n \in 1..9 : CpuParts[n] = part
  BY CpuPartsOrder
<1>5. \A i \in 1..9 : CpuParts[i] \in CpuPart /\ (CpuParts[i] = part => i = n)
  BY <1>4, CpuPartsOrder
<1>6. \A i \in 1..9 : All[i].name = CpuPct[CpuParts[i]] /\ (All[i].name = CpuPct[part] => i = n)
  <2>1. ASSUME NEW i \in 1..9
        PROVE  All[i].name = CpuPct[CpuParts[i]] /\ (All[i].name = CpuPct[part] => i = n)
    <3>1. All[i].name = CpuPct[CpuParts[i]]
      BY <1>3 DEF AreCpu
    <3>2. CpuPct[CpuParts[i]] = CpuPct[part] => CpuParts[i] = part
      BY <1>5, CpuNames
    <3>3. QED
      BY <1>5, <3>1, <3>2
  <2>2. QED
    BY <2>1
<1>7. \A i \in 1..9 : All[i].name # CpuNorm[part]
  <2>1. ASSUME NEW i \in 1..9 PROVE CpuPct[CpuParts[i]] # CpuNorm[part]
    BY <1>5, CpuNames
  <2>2. QED
    BY <1>6, <2>1
<1>8. CASE acc["cores"] = 0
  <2>1. Len(All) = 9
    BY <1>3, <1>8 DEF AreCpu
  <2>2. /\ Emitted(CpuPct[part]) = {All[n].value} /\ TheValue(CpuPct[part]) = All[n].value
    <3>1. n \in 1..Len(All) /\ All[n].name = CpuPct[part]
          /\ \A i \in 1..Len(All) : All[i].name = CpuPct[part] => i = n
      BY <1>4, <1>6, <2>1
    <3>2. QED
      BY <1>2, <3>1, EmittedOnce DEF FoldInv
  <2>3. Emitted(CpuNorm[part]) = {}
    <3>1. \A i \in 1..Len(All) : All[i].name # CpuNorm[part]
      BY <1>7, <2>1
    <3>2. QED
      BY <1>2, <3>1, EmittedNone DEF FoldInv
  <2>4. All[n].value = <<acc[part], 1>>
    BY <1>3, <1>4 DEF AreCpu
  <2>5. QED
    BY <1>8, <2>2, <2>3, <2>4
<1>9. CASE acc["cores"] # 0
  <2>1. /\ Len(All) = 20 /\ All[10].name = "system.cpu.cores" /\ All[11].name = "system.load.cores"
        /\ \A i \in 1..9 : All[11 + i].name = CpuNorm[CpuParts[i]]
    BY <1>3, <1>9 DEF AreCpu
  <2>2. ASSUME NEW i \in 1..20
        PROVE  (All[i].name = CpuPct[part] => i = n) /\ (All[i].name = CpuNorm[part] => i = 11 + n)
    <3>1. CASE i \in 1..9
      BY <1>6, <1>7, <3>1
    <3>2. CASE i \in {10, 11}
      <4>1. All[i].name \in {"system.cpu.cores", "system.load.cores"}
        BY <2>1, <3>2
      <4>2. QED
        BY <4>1, CpuNames
    <3>3. CASE i \in 12..20
      <4>1. i - 11 \in 1..9 /\ 11 + (i - 11) = i
        BY <3>3
      <4>2. All[i].name = CpuNorm[CpuParts[i - 11]] /\ CpuParts[i - 11] \in CpuPart
        BY <1>5, <2>1, <4>1
      <4>3. All[i].name # CpuPct[part]
        BY <4>2, CpuNames
      <4>4. All[i].name = CpuNorm[part] => i - 11 = n
        BY <1>5, <4>1, <4>2, CpuNames
      <4>5. QED
        BY <4>1, <4>3, <4>4
    <3>4. QED
      BY <3>1, <3>2, <3>3
  <2>3. Emitted(CpuPct[part]) = {All[n].value} /\ TheValue(CpuPct[part]) = All[n].value
    <3>1. n \in 1..Len(All) /\ All[n].name = CpuPct[part]
          /\ \A i \in 1..Len(All) : All[i].name = CpuPct[part] => i = n
      BY <1>4, <1>6, <2>1, <2>2
    <3>2. QED
      BY <1>2, <3>1, EmittedOnce DEF FoldInv
  <2>4. Emitted(CpuNorm[part]) = {All[11 + n].value}
    <3>1. All[11 + n].name = CpuNorm[part]
      BY <1>4, <2>1
    <3>2. 11 + n \in 1..Len(All) /\ \A i \in 1..Len(All) : All[i].name = CpuNorm[part] => i = 11 + n
      BY <2>1, <2>2
    <3>3. QED
      BY <1>2, <3>1, <3>2, EmittedOnce DEF FoldInv
  <2>5. All[n].value = <<acc[part], 1>> /\ All[11 + n].value = <<acc[part], acc["cores"]>>
    BY <1>3, <1>4, <1>9 DEF AreCpu
  <2>6. QED
    BY <1>9, <2>3, <2>4, <2>5
<1>10. QED
  BY <1>8, <1>9

\* The number of processors is the last one reported.
LEMMA CoresCounted == ASSUME IsSeq(seen), CpuFolded(seen, acc) PROVE acc["cores"] = Cores
<1>1. CoreCounts = Counts(seen)
  BY DEF CoreCounts, Counts, CpuCount
<1>2. DOMAIN seen = 1..Len(seen) /\ Len(seen) \in Nat
  BY IsSeqDomain
<1>3. CASE Counts(seen) = {}
  BY <1>1, <1>3 DEF CpuFolded, Cores
<1>4. CASE Counts(seen) # {}
  <2>1. PICK i \in Counts(seen) : IsLast(i, Counts(seen)) /\ acc["cores"] = IntValue(seen[i])
    BY <1>4 DEF CpuFolded
  <2>2. (CHOOSE k \in CoreCounts : \A j \in CoreCounts : j <= k) \in Counts(seen)
    BY <1>1, <2>1 DEF IsLast
  <2>3. IsLast(CHOOSE k \in CoreCounts : \A j \in CoreCounts : j <= k, Counts(seen))
    BY <1>1, <2>1 DEF IsLast
  <2>4. \A k : IsLast(k, Counts(seen)) => k = i
    <3>1. ASSUME NEW k, IsLast(k, Counts(seen)) PROVE k = i
      <4>1. k \in Counts(seen) /\ k <= i /\ i <= k
        BY <2>1, <3>1 DEF IsLast
      <4>2. QED
        BY <1>2, <4>1 DEF Counts
    <3>2. QED
      BY <3>1
  <2>5. QED
    BY <1>1, <1>4, <2>1, <2>3, <2>4 DEF Cores
<1>5. QED
  BY <1>3, <1>4

\* Processor: each part appended is what was reported of its states, the total
\* that of all states but idle and the sum of the other parts, and the parts
\* over the number of cores are there exactly when that is known, wherever in
\* the scope it is reported.
THEOREM CpuAddsUp == Spec => []CpuBalanced
<1>1. FoldInv => CpuBalanced
  <2> DEFINE Share(part) == TheValue(CpuPct[part])[1]
  <2> SUFFICES ASSUME FoldInv, Returned("cpuscraper"), Fresh # <<>>
               PROVE  /\ \A part \in {CpuParts[i] : i \in DOMAIN CpuParts} :
                           /\ Emitted(CpuPct[part]) = {<<CpuReported(part), 1>>}
                           /\ Emitted(CpuNorm[part]) =
                                IF Cores = 0 THEN {} ELSE {<<CpuReported(part), Cores>>}
                      /\ Share("total") = Share("system") + Share("user") + Share("steal")
                                            + Share("iowait") + Share("nice") + Share("irq")
                                            + Share("softirq")
    BY DEF CpuBalanced
  <2>1. "cpuscraper" \in FoldScrapers
    BY DEF FoldScrapers, Locals
  <2>2. CpuFolded(seen, acc)
    BY <2>1, FreshTimed DEF FoldInv, SumsKept, SumsOf
  <2>3. {CpuParts[i] : i \in DOMAIN CpuParts} = CpuPart
    BY CpuPartsOrder
  <2>4. acc["cores"] = Cores
    BY <2>2, CoresCounted DEF FoldInv, TypeInv
  <2>5. \A part \in CpuPart : acc[part] = CpuReported(part)
    BY <2>2 DEF CpuFolded, CpuReported, ReportedAs, Reported, Of, StatesOf, CpuShare
  <2>6. \A part \in CpuPart : Share(part) = acc[part]
    BY CpuAppended
  <2>7. Share("total") = Share("system") + Share("user") + Share("steal") + Share("iowait")
                           + Share("nice") + Share("irq") + Share("softirq")
    <3>1. acc["total"] = BusyParts(acc)
      BY <2>2 DEF CpuFolded
    <3> HIDE DEF Share
    <3>2. QED
      BY <2>6, <3>1 DEF BusyParts, CpuPart
  <2>8. QED
    BY <2>3, <2>4, <2>5, <2>7, CpuAppended
<1>2. QED
  BY <1>1, FoldInvAlways, PTL
===============================================================================
