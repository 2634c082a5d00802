-------------------------- MODULE RemappedMetric_proofs --------------------------
(* Sequences of points, and what Add makes of them whatever it is given.       *)
EXTENDS RemappedMetric, WellFoundedInduction, TLAPS

\* s is a sequence.
IsSeq(s) == s \in Seq({s[i] : i \in DOMAIN s})

\* What it is to be one: the domain of a sequence is that of its length.
LEMMA IsSeqDomain == ASSUME NEW s, IsSeq(s) PROVE Len(s) \in Nat /\ DOMAIN s = 1..Len(s)
BY DEF IsSeq

\* Induction over the natural numbers, for a set.
LEMMA NatSetInduction ==
    ASSUME NEW T, 0 \in T, \A n \in Nat : n \in T => n + 1 \in T
    PROVE  \A n \in Nat : n \in T
<1> DEFINE Less == {p \in Nat \X Nat : p[1] < p[2]}
           Missing == {n \in Nat : n \notin T}
<1>1. IsWellFoundedOn(OpToRel(<, Nat), Nat)
  BY NatLessThanWellFounded
<1>2. IsWellFoundedOn(Less, Nat)
  BY <1>1 DEF OpToRel
<1>3. SUFFICES ASSUME Missing # {} PROVE FALSE
  OBVIOUS
<1>4. \E x \in Missing : \A y \in Missing : <<y, x>> \notin Less
  <2> HIDE DEF Less
  <2>1. Missing \subseteq Nat
    OBVIOUS
  <2> HIDE DEF Missing
  <2>2. QED
    BY <1>2, <1>3, <2>1, WFMin
<1>5. PICK x \in Missing : \A y \in Missing : ~(y < x)
  BY <1>4
<1>6. x \in Nat /\ x \notin T /\ x # 0
  OBVIOUS
<1>7. x - 1 \in Nat /\ x - 1 < x /\ (x - 1) + 1 = x
  BY <1>6
<1>8. x - 1 \in T
  BY <1>5, <1>7
<1>9. QED
  BY <1>6, <1>7, <1>8

-------------------------------------------------------------------------------
(* Add                                                                           *)

\* A point keeps what the metric it is made of says.
LEMMA AppendedFields ==
    \A m, mutator :
      LET dp == Appended(m, mutator)
      IN  /\ dp.name = m.name /\ dp.type = m.type /\ dp.kind = m.kind
          /\ dp.value = m.value /\ dp.ts = m.ts
BY DEF Appended

\* The points Add makes of the valid metrics among those it is given.
AddedPoints(mutator, metrics) ==
  {Appended(metrics[i], mutator) : i \in {j \in DOMAIN metrics : Valid(metrics[j])}}

\* s keeps base as it is and has some of the points of P after it.
Extends(s, base, P) ==
  /\ IsSeq(s)
  /\ Len(base) <= Len(s)
  /\ \A i \in 1..Len(base) : s[i] = base[i]
  /\ \A i \in Len(base) + 1..Len(s) : s[i] \in P

\* A sequence extends itself, and goes on doing so when a point is appended.
LEMMA ExtendsItself == ASSUME NEW s, IsSeq(s), NEW P PROVE Extends(s, s, P)
<1>1. Len(s) \in Nat
  BY DEF IsSeq
<1>2. QED
  BY <1>1 DEF Extends

\* A sequence over any set is a sequence.
LEMMA SeqIsSeq == ASSUME NEW S, NEW t \in Seq(S) PROVE IsSeq(t)
<1> DEFINE R == {t[i] : i \in DOMAIN t}
<1>1. DOMAIN t = 1..Len(t) /\ Len(t) \in Nat /\ t = [i \in 1..Len(t) |-> t[i]]
  OBVIOUS
<1>2. \A i \in 1..Len(t) : t[i] \in R
  BY <1>1
<1>3. t \in [1..Len(t) -> R]
  <2> HIDE DEF R
  <2>1. QED
    BY <1>1, <1>2
<1>4. t \in Seq(R)
  <2> HIDE DEF R
  <2>1. QED
    BY <1>1, <1>3
<1>5. QED
  BY <1>4 DEF IsSeq

\* A sequence with a point appended is one, longer by that point.
LEMMA AppendIsSeq ==
    ASSUME NEW s, IsSeq(s), NEW m
    PROVE  /\ IsSeq(Append(s, m)) /\ Len(Append(s, m)) = Len(s) + 1
           /\ Append(s, m)[Len(s) + 1] = m
           /\ \A i \in 1..Len(s) : Append(s, m)[i] = s[i]
<1> DEFINE S == {s[i] : i \in DOMAIN s} \cup {m}
           t == Append(s, m)
<1>1. s \in Seq(S)
  <2>1. \A A, B : A \subseteq B => Seq(A) \subseteq Seq(B)
    OBVIOUS
  <2>2. QED
    BY <2>1 DEF IsSeq
<1>2. /\ t \in Seq(S) /\ Len(t) = Len(s) + 1 /\ Len(s) \in Nat
      /\ t[Len(s) + 1] = m /\ \A i \in 1..Len(s) : t[i] = s[i]
  BY <1>1
<1>3. IsSeq(t)
  <2> HIDE DEF t, S
  <2>1. QED
    BY <1>2, SeqIsSeq
<1>4. QED
  BY <1>2, <1>3

LEMMA ExtendsAppend ==
    ASSUME NEW s, NEW base, NEW P, NEW m \in P, IsSeq(base), Extends(s, base, P)
    PROVE  Extends(Append(s, m), base, P)
<1> DEFINE S == {s[i] : i \in DOMAIN s} \cup {m}
           t == Append(s, m)
<1>1. Len(base) \in Nat /\ s \in Seq(S)
  <2>1. \A A, B : A \subseteq B => Seq(A) \subseteq Seq(B)
    OBVIOUS
  <2>2. QED
    BY <2>1 DEF IsSeq, Extends
<1>2. /\ t \in Seq(S) /\ Len(t) = Len(s) + 1 /\ Len(s) \in Nat
      /\ DOMAIN t = 1..Len(t) /\ t[Len(t)] = m /\ \A i \in 1..Len(s) : t[i] = s[i]
  BY <1>1
<1>3. IsSeq(t)
  <2> HIDE DEF t, S
  <2>1. QED
    BY <1>2, SeqIsSeq
<1>4. QED
  BY <1>1, <1>2, <1>3 DEF Extends

\* What one metric does to the slice.
AfterOne(s, mutator, m) == IF Valid(m) THEN Append(s, Appended(m, mutator)) ELSE s

\* The loop of Add, turn by turn.
LEMMA AddLoop ==
    ASSUME NEW s, NEW mutator, NEW metrics, Len(metrics) \in Nat
    PROVE  \E after :
             /\ Add(s, mutator, metrics) = after[Len(metrics)]
             /\ after[0] = s
             /\ \A n \in Nat : n < Len(metrics) =>
                  after[n + 1] = AfterOne(after[n], mutator, metrics[n + 1])
<1> DEFINE Step(f, n) == IF n = 0 THEN s
                         ELSE IF Valid(metrics[n]) THEN Append(f[n - 1], Appended(metrics[n], mutator))
                         ELSE f[n - 1]
           Loop(f, k) == f = [n \in 0..k |-> Step(f, n)]
           T == {k \in Nat : \E f : Loop(f, k)}
<1>1. 0 \in T
  <2>1. Loop([n \in 0..0 |-> s], 0)
    OBVIOUS
  <2>2. QED
    BY <2>1
<1>2. ASSUME NEW k \in Nat, k \in T PROVE k + 1 \in T
  <2>1. PICK f : Loop(f, k)
    BY <1>2
  <2> DEFINE h == [n \in 0..k + 1 |-> IF n = k + 1 THEN Step(f, n) ELSE f[n]]
  <2>2. ASSUME NEW n \in 0..k + 1 PROVE h[n] = Step(h, n)
    <3>1. CASE n = k + 1
      <4>1. n # 0 /\ n - 1 = k /\ k \in 0..k + 1 /\ k # k + 1
        BY <3>1
      <4>2. h[n - 1] = f[n - 1]
        BY <4>1
      <4>3. QED
        BY <3>1, <4>1, <4>2
    <3>2. CASE n # k + 1
      <4>1. n \in 0..k /\ (n # 0 => n - 1 \in 0..k /\ n - 1 # k + 1 /\ n - 1 \in 0..k + 1)
        BY <3>2
      <4>2. h[n] = f[n] /\ (n # 0 => h[n - 1] = f[n - 1])
        BY <3>2, <4>1
      <4>3. f[n] = Step(f, n)
        BY <2>1, <4>1
      <4>4. QED
        BY <4>1, <4>2, <4>3
    <3>3. QED
      BY <3>1, <3>2
  <2>3. Loop(h, k + 1)
    <3>1. h = [n \in 0..k + 1 |-> h[n]]
      OBVIOUS
    <3> HIDE DEF h, Step
    <3>2. QED
      BY <2>2, <3>1
  <2>4. \E g : Loop(g, k + 1)
    <3> HIDE DEF h, Step
    <3>1. QED
      BY <2>3
  <2>5. QED
    BY <2>4
<1>3. \E f : Loop(f, Len(metrics))
  <2> HIDE DEF T
  <2>1. Len(metrics) \in T
    BY <1>1, <1>2, NatSetInduction
  <2> USE DEF T
  <2>2. QED
    BY <2>1
<1>4. PICK after : Loop(after, Len(metrics)) /\ Add(s, mutator, metrics) = after[Len(metrics)]
  BY <1>3 DEF Add
<1>5. after[0] = s
  BY <1>4
<1>6. ASSUME NEW n \in Nat, n < Len(metrics)
      PROVE  after[n + 1] = AfterOne(after[n], mutator, metrics[n + 1])
  <2>1. n + 1 \in 0..Len(metrics) /\ n + 1 # 0 /\ (n + 1) - 1 = n
    BY <1>6
  <2>2. after[n + 1] = Step(after, n + 1)
    BY <1>4, <2>1
  <2>3. QED
    BY <2>1, <2>2 DEF AfterOne
<1> HIDE DEF Loop
<1>7. QED
  BY <1>4, <1>5, <1>6

\* Add extends out with points it makes of valid metrics.
LEMMA AddExtends ==
    ASSUME NEW s, IsSeq(s), NEW mutator, NEW metrics, Len(metrics) \in Nat,
           DOMAIN metrics = 1..Len(metrics)
    PROVE  Extends(Add(s, mutator, metrics), s, AddedPoints(mutator, metrics))
<1> DEFINE P == AddedPoints(mutator, metrics)
<1>4. PICK after : /\ Add(s, mutator, metrics) = after[Len(metrics)]
                   /\ after[0] = s
                   /\ \A n \in Nat : n < Len(metrics) =>
                        after[n + 1] = AfterOne(after[n], mutator, metrics[n + 1])
  BY AddLoop
<1> DEFINE U == {n \in Nat : n <= Len(metrics) => Extends(after[n], s, P)}
<1>5. 0 \in U
  <2>1. after[0] = s
    BY <1>4
  <2>2. QED
    BY <2>1, ExtendsItself
<1>6. ASSUME NEW n \in Nat, n \in U PROVE n + 1 \in U
  <2>1. SUFFICES ASSUME n + 1 <= Len(metrics) PROVE Extends(after[n + 1], s, P)
    OBVIOUS
  <2>2. Extends(after[n], s, P)
    BY <1>6, <2>1
  <2>3. n < Len(metrics)
    BY <2>1
  <2>4. Valid(metrics[n + 1]) => Appended(metrics[n + 1], mutator) \in P
    BY <2>1 DEF AddedPoints
  <2>5. QED
    <3>1. after[n + 1] = AfterOne(after[n], mutator, metrics[n + 1])
      BY <1>4, <2>3
    <3>2. QED
      BY <2>2, <2>4, <3>1, ExtendsAppend DEF AfterOne
<1>7. Len(metrics) \in U
  <2> HIDE DEF U
  <2>1. QED
    BY <1>5, <1>6, NatSetInduction
<1>8. QED
  BY <1>4, <1>7

\* Nothing is added if no metric is valid.
LEMMA AddNone ==
    ASSUME NEW s, NEW mutator, NEW metrics, Len(metrics) \in Nat,
           \A i \in 1..Len(metrics) : ~Valid(metrics[i])
    PROVE  Add(s, mutator, metrics) = s
<1>1. PICK after : /\ Add(s, mutator, metrics) = after[Len(metrics)]
                   /\ after[0] = s
                   /\ \A n \in Nat : n < Len(metrics) =>
                        after[n + 1] = AfterOne(after[n], mutator, metrics[n + 1])
  BY AddLoop
<1> DEFINE U == {n \in Nat : n <= Len(metrics) => after[n] = s}
<1>2. 0 \in U
  BY <1>1
<1>3. ASSUME NEW n \in Nat, n \in U PROVE n + 1 \in U
  <2>1. SUFFICES ASSUME n + 1 <= Len(metrics) PROVE after[n + 1] = s
    OBVIOUS
  <2>2. n < Len(metrics) /\ n + 1 \in 1..Len(metrics)
    BY <2>1
  <2>3. after[n] = s /\ ~Valid(metrics[n + 1])
    BY <1>3, <2>2
  <2>4. after[n + 1] = AfterOne(after[n], mutator, metrics[n + 1])
    BY <1>1, <2>2
  <2>5. QED
    BY <2>3, <2>4 DEF AfterOne
<1>4. Len(metrics) \in U
  <2> HIDE DEF U
  <2>1. QED
    BY <1>2, <1>3, NatSetInduction
<1>5. QED
  BY <1>1, <1>4

\* Every metric becomes the point at its place if all of them are valid.
LEMMA AddAll ==
    ASSUME NEW s, IsSeq(s), NEW mutator, NEW metrics, Len(metrics) \in Nat,
           \A i \in 1..Len(metrics) : Valid(metrics[i])
    PROVE  LET new == Add(s, mutator, metrics)
           IN  /\ IsSeq(new) /\ Len(new) = Len(s) + Len(metrics)
               /\ \A i \in 1..Len(s) : new[i] = s[i]
               /\ \A i \in 1..Len(metrics) : new[Len(s) + i] = Appended(metrics[i], mutator)
<1>1. PICK after : /\ Add(s, mutator, metrics) = after[Len(metrics)]
                   /\ after[0] = s
                   /\ \A n \in Nat : n < Len(metrics) =>
                        after[n + 1] = AfterOne(after[n], mutator, metrics[n + 1])
  BY AddLoop
<1>0. Len(s) \in Nat
  BY IsSeqDomain
<1> DEFINE Fits(n) == /\ IsSeq(after[n]) /\ Len(after[n]) = Len(s) + n
                      /\ \A i \in 1..Len(s) : after[n][i] = s[i]
                      /\ \A i \in 1..n : after[n][Len(s) + i] = Appended(metrics[i], mutator)
           U == {n \in Nat : n <= Len(metrics) => Fits(n)}
<1>2. 0 \in U
  BY <1>0, <1>1
<1>3. ASSUME NEW n \in Nat, n \in U PROVE n + 1 \in U
  <2>1. SUFFICES ASSUME n + 1 <= Len(metrics) PROVE Fits(n + 1)
    OBVIOUS
  <2>2. n < Len(metrics) /\ n + 1 \in 1..Len(metrics) /\ n + 1 \in Nat
    BY <2>1
  <2>3. Fits(n)
    BY <1>3, <2>2
  <2> DEFINE m == Appended(metrics[n + 1], mutator)
             old == after[n]
             new == after[n + 1]
  <2>4. new = Append(old, m)
    BY <1>1, <2>2 DEF AfterOne
  <2>5. IsSeq(old) /\ Len(old) = Len(s) + n
    BY <2>3
  <2>6. \A i \in 1..Len(s) : old[i] = s[i]
    BY <2>3
  <2>7. \A i \in 1..n : old[Len(s) + i] = Appended(metrics[i], mutator)
    BY <2>3
  <2> HIDE DEF Fits, old, new, m, U
  <2>8. IsSeq(new) /\ Len(new) = Len(old) + 1 /\ new[Len(old) + 1] = m
        /\ \A i \in 1..Len(old) : new[i] = old[i]
    BY <2>4, <2>5, AppendIsSeq
  <2>9. Len(new) = Len(s) + (n + 1) /\ \A i \in 1..Len(s) : new[i] = s[i]
    BY <1>0, <2>5, <2>6, <2>8
  <2>10. \A i \in 1..n + 1 : new[Len(s) + i] = Appended(metrics[i], mutator)
    <3>1. ASSUME NEW i \in 1..n PROVE new[Len(s) + i] = Appended(metrics[i], mutator)
      <4>1. Len(s) + i \in 1..Len(old)
        BY <1>0, <2>5
      <4>2. QED
        BY <2>7, <2>8, <4>1
    <3>2. new[Len(s) + (n + 1)] = m
      <4>1. Len(s) + (n + 1) = Len(old) + 1
        BY <1>0, <2>5
      <4>2. QED
        BY <2>8, <4>1
    <3>3. \A i \in 1..n + 1 : i \in 1..n \/ i = n + 1
      OBVIOUS
    <3>4. QED
      BY <3>1, <3>2, <3>3 DEF m
  <2>11. QED
    BY <2>8, <2>9, <2>10 DEF Fits, new
<1>4. Len(metrics) \in U
  <2> HIDE DEF U
  <2>1. QED
    BY <1>2, <1>3, NatSetInduction
<1>5. QED
  BY <1>1, <1>4

\* Two sequences in a row are one.
LEMMA ConcatIsSeq == ASSUME NEW s, NEW t, IsSeq(s), IsSeq(t) PROVE IsSeq(s \o t)
<1> DEFINE S == {s[i] : i \in DOMAIN s} \cup {t[i] : i \in DOMAIN t}
<1>1. s \in Seq(S) /\ t \in Seq(S)
  <2>1. \A A, B : A \subseteq B => Seq(A) \subseteq Seq(B)
    OBVIOUS
  <2>2. QED
    BY <2>1 DEF IsSeq
<1>2. s \o t \in Seq(S)
  <2> HIDE DEF S
  <2>1. QED
    BY <1>1
<1>3. QED
  BY <1>2, SeqIsSeq

\* A function on 1..n is a sequence.
LEMMA FunctionIsSeq ==
    ASSUME NEW n \in Nat, NEW f, f = [i \in 1..n |-> f[i]]
    PROVE  IsSeq(f)
<1>1. f \in [1..n -> {f[i] : i \in 1..n}]
  OBVIOUS
<1>2. f \in Seq({f[i] : i \in 1..n})
  BY <1>1
<1>3. QED
  BY <1>2, SeqIsSeq

\* What lies in two sequences in a row lies in one of them.
LEMMA ConcatPoints ==
    ASSUME NEW s, NEW t, IsSeq(s), IsSeq(t), NEW i \in DOMAIN (s \o t)
    PROVE  (\E j \in DOMAIN s : (s \o t)[i] = s[j]) \/ (\E j \in DOMAIN t : (s \o t)[i] = t[j])
<1>1. Len(s) \in Nat /\ DOMAIN s = 1..Len(s) /\ Len(t) \in Nat /\ DOMAIN t = 1..Len(t)
  BY IsSeqDomain
<1> DEFINE S == {s[k] : k \in DOMAIN s} \cup {t[k] : k \in DOMAIN t}
<1>2. s \in Seq(S) /\ t \in Seq(S)
  <2>1. \A A, B : A \subseteq B => Seq(A) \subseteq Seq(B)
    OBVIOUS
  <2>2. QED
    BY <2>1 DEF IsSeq
<1> HIDE DEF S
<1>3. DOMAIN (s \o t) = 1..Len(s) + Len(t)
  BY <1>1, <1>2
<1>4. CASE i \in 1..Len(s)
  <2>1. (s \o t)[i] = s[i]
    BY <1>1, <1>2, <1>4
  <2>2. QED
    BY <1>1, <1>4, <2>1
<1>5. CASE i \notin 1..Len(s)
  <2>1. i - Len(s) \in 1..Len(t) /\ (s \o t)[i] = t[i - Len(s)]
    BY <1>1, <1>2, <1>3, <1>5
  <2>2. QED
    BY <1>1, <2>1
<1>6. QED
  BY <1>4, <1>5

\* Where the elements of a concatenation come from.
Joined(r, s, t) ==
  /\ Len(r) = Len(s) + Len(t)
  /\ \A i \in 1..Len(s) : r[i] = s[i]
  /\ \A i \in 1..Len(t) : r[Len(s) + i] = t[i]

LEMMA ConcatAt == ASSUME NEW s, NEW t, IsSeq(s), IsSeq(t) PROVE Joined(s \o t, s, t)
<1> DEFINE S == {s[k] : k \in DOMAIN s} \cup {t[k] : k \in DOMAIN t}
<1>1. s \in Seq(S) /\ t \in Seq(S)
  <2>1. \A A, B : A \subseteq B => Seq(A) \subseteq Seq(B)
    OBVIOUS
  <2>2. QED
    BY <2>1 DEF IsSeq
<1>2. Len(s) \in Nat /\ Len(t) \in Nat
  BY IsSeqDomain
<1> HIDE DEF S
<1>3. QED
  BY <1>1, <1>2 DEF Joined
==================================================================================
