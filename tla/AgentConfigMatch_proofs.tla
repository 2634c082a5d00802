----------------------- MODULE AgentConfigMatch_proofs -----------------------
(* The loop invariant of matchAgentConfig, and what follows from it for      *)
(* every slice of configurations and every query.                            *)
EXTENDS AgentConfigMatch, SequenceTheorems, TLAPS

\* Pointer p is nil if none of the first n elements passes test T, and is the
\* last one that does otherwise.
LastOf(T(_, _), p, n) ==
    \/ p = 0 /\ \A k \in 1..n : ~T(query, cfgs[k])
    \/ p \in 1..n /\ T(query, cfgs[p]) /\ \A k \in p + 1..n : ~T(query, cfgs[k])

NoExact(n) == \A k \in 1..n : ~Exact(query, cfgs[k])

\* The test that leads to the last branch of the loop.
OnlyDefault(q, c) == Default(q, c) /\ ~NameOnly(q, c) /\ ~EnvOnly(q, c)

\* What the pointers are after n elements without a break.
Scanned(n) ==
    /\ NoExact(n)
    /\ LastOf(NameOnly, nameConf, n)
    /\ LastOf(EnvOnly, envConf, n)
    /\ LastOf(OnlyDefault, defaultConf, n)

\* The loop was left by its break.
Broken ==
    /\ nameConf \in 1..Len(cfgs)
    /\ Exact(query, cfgs[nameConf])
    /\ NoExact(nameConf - 1)

\* The loop invariant, and what holds when the loop has been left.
LoopInv ==
    /\ pc = "loop" => Scanned(i - 1)
    /\ pc = "pick" => Broken \/ Scanned(Len(cfgs))

IInv == TypeOK /\ LoopInv /\ MostSpecificWins /\ TieBreak

-----------------------------------------------------------------------------
\* Initially nothing has been scanned.
LEMMA InitIInv == Init => IInv
<1> SUFFICES ASSUME Init PROVE IInv
  OBVIOUS
<1> USE DEF Init
<1>1. cfgs \in Seq(AgentConfigs)
  OBVIOUS
<1>2. zeroResult \in Result
  BY EmptyAssumption, EtagAssumption DEF zeroResult, Result
<1>3. TypeOK
  BY <1>1, <1>2, LenProperties DEF TypeOK
<1>4. LoopInv
  BY DEF LoopInv, Scanned, NoExact, LastOf
<1>5. MostSpecificWins /\ TieBreak
  BY DEF MostSpecificWins, TieBreak
<1>6. QED
  BY <1>3, <1>4, <1>5 DEF IInv

\* A configuration that is not an exact match passes at most one of the tests
\* of the next two branches.
LEMMA BranchesDisjoint ==
    ASSUME NEW q, NEW c, NameOnly(q, c), EnvOnly(q, c)
    PROVE  Exact(q, c)
BY DEF NameOnly, EnvOnly, Exact

\* Looking at one more element keeps the type of the state.
LEMMA AdvanceType ==
    ASSUME TypeOK, Visiting, Advance,
           {nameConf', envConf', defaultConf'} \subseteq 0..Len(cfgs)
    PROVE  TypeOK'
BY LenProperties DEF TypeOK, Visiting, Advance

\* Choosing a pointer answers a configuration of the most specific kind.
LEMMA PickCorrect ==
    ASSUME TypeOK, Broken \/ Scanned(Len(cfgs)), Pick
    PROVE  MostSpecificWins' /\ TieBreak'
<1> DEFINE n == Len(cfgs)
<1>0. n \in Nat /\ DOMAIN cfgs = 1..n /\ nameConf \in 0..n /\ envConf \in 0..n
      /\ defaultConf \in 0..n
  BY LenProperties DEF TypeOK
<1>1. /\ cfgs' = cfgs /\ query' = query
      /\ result' = IF Picked = 0 THEN zeroResult ELSE ResultOf(cfgs[Picked])
  BY DEF Pick
<1>2. ExactOnes' = ExactOnes /\ BestMatches' = BestMatches
  BY <1>1 DEF ExactOnes, NameOnes, EnvOnes, DefaultOnes, BestMatches, Exact, NameOnly, EnvOnly, Default
<1> DEFINE Chosen ==
        /\ BestMatches = {} => Picked = 0
        /\ BestMatches # {} => Picked \in BestMatches
        /\ ExactOnes # {} => \A k \in BestMatches : Picked <= k
        /\ ExactOnes = {} => \A k \in BestMatches : Picked >= k
<1>4. BestMatches \subseteq 1..n
  BY <1>0 DEF BestMatches, ExactOnes, NameOnes,
    EnvOnes, DefaultOnes
<1>5. ASSUME Broken PROVE Chosen
  <2>1. nameConf \in ExactOnes /\ Picked = nameConf /\ BestMatches = ExactOnes
    BY <1>0, <1>5 DEF Broken, ExactOnes, NameOnes, EnvOnes, DefaultOnes, Picked, BestMatches
  <2>2. ASSUME NEW k \in ExactOnes PROVE nameConf <= k
    BY <1>0, <1>5, <2>2 DEF Broken, NoExact, ExactOnes, NameOnes, EnvOnes, DefaultOnes
  <2>3. QED
    BY <1>4, <2>1, <2>2
<1>6. ASSUME Scanned(n) PROVE Chosen
  <2>1. ExactOnes = {}
    BY <1>0, <1>6 DEF Scanned, NoExact, ExactOnes, NameOnes, EnvOnes, DefaultOnes
  <2>2. CASE nameConf # 0
    <3>1. nameConf \in NameOnes /\ \A k \in NameOnes : nameConf >= k
      BY <1>0, <1>6, <2>2 DEF Scanned, LastOf, ExactOnes, NameOnes, EnvOnes, DefaultOnes
    <3>2. QED
      BY <1>4, <2>1, <2>2, <3>1 DEF Picked, BestMatches
  <2>3. CASE nameConf = 0
    <3>1. NameOnes = {}
      BY <1>0, <1>6, <2>3 DEF Scanned, LastOf, ExactOnes, NameOnes, EnvOnes, DefaultOnes
    <3>2. CASE envConf # 0
      <4>1. envConf \in EnvOnes /\ \A k \in EnvOnes : envConf >= k
        BY <1>0, <1>6, <3>2 DEF Scanned, LastOf, ExactOnes, NameOnes, EnvOnes, DefaultOnes
      <4>2. QED
        BY <1>4, <2>1, <2>3, <3>1, <3>2, <4>1 DEF Picked, BestMatches
    <3>3. CASE envConf = 0
      <4>1. EnvOnes = {}
        BY <1>0, <1>6, <3>3 DEF Scanned, LastOf, ExactOnes, NameOnes, EnvOnes, DefaultOnes
      <4>2. DefaultOnes = {k \in 1..n : OnlyDefault(query, cfgs[k])}
        BY <1>0, <3>1, <4>1 DEF ExactOnes, NameOnes, EnvOnes, DefaultOnes, OnlyDefault
      <4>3. BestMatches = DefaultOnes /\ Picked = defaultConf
        BY <2>1, <2>3, <3>1, <3>3, <4>1 DEF BestMatches, Picked
      <4>4. LastOf(OnlyDefault, defaultConf, n)
        BY <1>6 DEF Scanned
      <4>5. QED
        BY <1>0, <1>4, <2>1, <4>2, <4>3, <4>4 DEF LastOf
    <3>4. QED
      BY <3>2, <3>3
  <2>4. QED
    BY <2>2, <2>3
<1>7. Chosen
  BY <1>5, <1>6
<1>8. Picked # 0 => result' = ResultOf(cfgs[Picked])
  BY <1>1
<1>9. MostSpecificWins'
  <2>1. CASE BestMatches = {}
    BY <1>1, <1>2, <1>7, <2>1 DEF MostSpecificWins
  <2>2. CASE BestMatches # {}
    <3>1. Picked \in BestMatches /\ Picked # 0
      BY <1>0, <1>4, <1>7, <2>2
    <3>2. result' = ResultOf(cfgs'[Picked])
      BY <1>1, <1>8, <3>1 DEF ResultOf
    <3>3. QED
      BY <1>2, <2>2, <3>1, <3>2 DEF MostSpecificWins, ResultOf
  <2>3. QED
    BY <2>1, <2>2
<1>10. TieBreak'
  <2>1. SUFFICES ASSUME NEW k \in BestMatches,
                        \A j \in BestMatches : IF ExactOnes # {} THEN k <= j ELSE k >= j
                 PROVE  result' = ResultOf(cfgs[k])'
    BY <1>2 DEF TieBreak
  <2>2. Picked \in BestMatches /\ Picked \in 1..n /\ k \in 1..n
    BY <1>4, <1>7, <2>1
  <2>3. k = Picked
    BY <1>0, <1>7, <2>1, <2>2
  <2>4. QED
    BY <1>0, <1>1, <1>8, <2>2, <2>3 DEF ResultOf
<1>11. QED
  BY <1>9, <1>10

\* Every step keeps the loop invariant.
LEMMA NextIInv == IInv /\ [Next]_vars => IInv'
<1> SUFFICES ASSUME IInv, [Next]_vars PROVE IInv'
  OBVIOUS
<1>0. /\ TypeOK /\ LoopInv /\ Len(cfgs) \in Nat /\ DOMAIN cfgs = 1..Len(cfgs)
      /\ i \in 1..Len(cfgs) + 1
  BY LenProperties DEF IInv, TypeOK
<1>1. CASE ExactMatch
  <2> USE <1>1 DEF ExactMatch, Visiting
  <2>1. TypeOK'
    BY <1>0 DEF TypeOK
  <2>2. Broken'
    BY <1>0 DEF Broken, LoopInv, Scanned, NoExact, Exact
  <2>3. QED
    BY <2>1, <2>2 DEF IInv, LoopInv, MostSpecificWins, TieBreak
<1>2. ASSUME Visiting, Advance, ~Exact(query, cfgs[i]),
             {nameConf', envConf', defaultConf'} \subseteq 0..Len(cfgs),
             nameConf' = IF NameOnly(query, cfgs[i]) THEN i ELSE nameConf,
             envConf' = IF EnvOnly(query, cfgs[i]) THEN i ELSE envConf,
             defaultConf' = IF OnlyDefault(query, cfgs[i]) THEN i ELSE defaultConf
      PROVE  IInv'
  <2>1. TypeOK'
    BY <1>0, <1>2, AdvanceType
  <2>2. /\ cfgs' = cfgs /\ query' = query /\ i' = i + 1 /\ i' - 1 = i
        /\ pc = "loop" /\ pc' = "loop" /\ Scanned(i - 1) /\ i - 1 \in Nat /\ i \in Nat
    BY <1>0, <1>2 DEF Visiting, Advance, LoopInv
  <2>3. NoExact(i)
    BY <1>2, <2>2 DEF Scanned, NoExact
  <2>4. NoExact(i - 1)'
    BY <1>2, <2>2, <2>3 DEF NoExact, Exact
  <2>5. LastOf(NameOnly, nameConf, i - 1)'
    BY <1>2, <2>2 DEF Scanned, LastOf, NameOnly
  <2>6. LastOf(EnvOnly, envConf, i - 1)'
    BY <1>2, <2>2 DEF Scanned, LastOf, EnvOnly
  <2>7. LastOf(OnlyDefault, defaultConf, i - 1)'
    BY <1>2, <2>2 DEF Scanned, LastOf, OnlyDefault, Default, NameOnly, EnvOnly
  <2>8. QED
    BY <2>1, <2>2, <2>4, <2>5, <2>6, <2>7
      DEF IInv, LoopInv, Scanned, MostSpecificWins, TieBreak
<1>3. CASE NameMatch
  BY <1>0, <1>2, <1>3, BranchesDisjoint DEF NameMatch, Visiting, OnlyDefault, TypeOK
<1>4. CASE EnvMatch
  BY <1>0, <1>2, <1>4 DEF EnvMatch, Visiting, OnlyDefault, TypeOK
<1>5. CASE DefaultMatch
  BY <1>0, <1>2, <1>5 DEF DefaultMatch, Visiting, OnlyDefault, TypeOK
<1>6. CASE NoMatch
  BY <1>0, <1>2, <1>6 DEF NoMatch, Visiting, OnlyDefault, TypeOK
<1>7. CASE LoopEnd
  <2>1. TypeOK'
    BY <1>0, <1>7 DEF TypeOK, LoopEnd
  <2>2. Scanned(Len(cfgs))
    BY <1>0, <1>7 DEF LoopEnd, LoopInv
  <2>3. Scanned(Len(cfgs))'
    BY <1>7, <2>2
      DEF LoopEnd, Scanned, NoExact, LastOf, Exact, NameOnly, EnvOnly, OnlyDefault, Default
  <2>4. QED
    BY <1>7, <2>1, <2>3 DEF LoopEnd, IInv, LoopInv, MostSpecificWins, TieBreak
<1>8. CASE Pick
  <2>1. MostSpecificWins' /\ TieBreak'
    BY <1>0, <1>8, PickCorrect DEF Pick, LoopInv
  <2>2. Picked \in 0..Len(cfgs)
    BY <1>0 DEF TypeOK, Picked
  <2>3. Picked # 0 => ResultOf(cfgs[Picked]) \in Result
    BY <1>0, <2>2, ConfigsAssumption, ElementOfSeq DEF TypeOK, ResultOf, Result
  <2>4. result' \in Result
    BY <1>8, <2>3, EmptyAssumption, EtagAssumption DEF Pick, zeroResult, Result
  <2>5. TypeOK'
    BY <1>0, <1>8, <2>4 DEF Pick, TypeOK
  <2>6. QED
    BY <1>8, <2>1, <2>5 DEF Pick, IInv, LoopInv
<1>9. CASE UNCHANGED vars
  <2>1. TypeOK'
    BY <1>0, <1>9 DEF vars, TypeOK
  <2>2. LoopInv'
    BY <1>0, <1>9 DEF vars, LoopInv, Scanned, Broken, NoExact, LastOf, Exact, NameOnly,
      EnvOnly, OnlyDefault, Default
  <2>3. ExactOnes' = ExactOnes /\ BestMatches' = BestMatches
    BY <1>9 DEF vars, BestMatches, ExactOnes, NameOnes, EnvOnes, DefaultOnes,
      Exact, NameOnly, EnvOnly, Default
  <2>4. MostSpecificWins' /\ TieBreak'
    BY <1>9, <2>3 DEF vars, IInv, MostSpecificWins, TieBreak, ResultOf
  <2>5. QED
    BY <2>1, <2>2, <2>4 DEF IInv
<1>10. QED
  BY <1>1, <1>3, <1>4, <1>5, <1>6, <1>7, <1>8, <1>9 DEF Next

\* The loop invariant holds in every state of matchAgentConfig.
LEMMA InductiveInvariant == Spec => []IInv
BY InitIInv, NextIInv, PTL DEF Spec

\* The pointers of the loop stay inside the slice and the answer is a Source,
\* for every slice and every query.
THEOREM TypeCorrect == Spec => []TypeOK
<1>1. IInv => TypeOK
  BY DEF IInv
<1>2. QED
  BY <1>1, InductiveInvariant, PTL

\* For every slice and every query, the answer is a configuration of the most
\* specific kind of match the slice holds.
THEOREM MatchPrecedence == Spec => []MostSpecificWins
<1>1. IInv => MostSpecificWins
  BY DEF IInv
<1>2. QED
  BY <1>1, InductiveInvariant, PTL

\* For every slice and every query, ties go to the first exact match and to the
\* last match of any other kind.
THEOREM MatchTies == Spec => []TieBreak
<1>1. IInv => TieBreak
  BY DEF IInv
<1>2. QED
  BY <1>1, InductiveInvariant, PTL
=============================================================================
