------------------------- MODULE RetryBackoff_proofs -------------------------
(* What holds of the shared backoff for any number of concurrent requests    *)
(* and any settings.                                                         *)
EXTENDS RetryBackoff, WellFoundedInduction, TLAPS

\* Between the first interval and the maximum.
InRange(n) ==
    \/ n = Initial \/ n = Maximum
    \/ Initial < n /\ n < Maximum

\* Whatever a request has read, or is about to write, is in range too.
RangeInv ==
    /\ InRange(current)
    /\ \A r \in Requests :
        /\ pc[r] = "store" => InRange(reg[r])
        /\ pc[r] \in {"load", "store", "wait"} => wait[r] = Stop \/ InRange(wait[r])

IInv == TypeOK /\ RangeInv

\* The settings give two positive intervals.
LEMMA IntervalsPositive ==
    ASSUME retry \in Settings
    PROVE  Initial \in Nat \ {0} /\ Maximum \in Nat \ {0}
<1>1. retry.InitialInterval \in Int /\ retry.MaxInterval \in Int
  BY SettingsAssumption
<1>2. QED
  BY <1>1, LibAssumption DEF Initial, Maximum

\* An interval in range grows into one in range.
LEMMA IncrementInRange ==
    ASSUME retry \in Settings, NEW n \in Nat \ {0}, InRange(n)
    PROVE  Increment(n) \in Nat \ {0} /\ InRange(Increment(n))
<1>1. Initial \in Nat \ {0} /\ Maximum \in Nat \ {0}
  BY IntervalsPositive
<1>2. CASE 3 * n >= 2 * Maximum
  BY <1>1, <1>2 DEF Increment, InRange
<1>3. CASE ~(3 * n >= 2 * Maximum)
  <2>1. Increment(n) = (3 * n) \div 2
    BY <1>3 DEF Increment
  <2>2. (3 * n) \div 2 \in Nat /\ (3 * n) \div 2 >= n /\ (3 * n) \div 2 < Maximum
    BY <1>1, <1>3
  <2>3. n >= Initial
    BY <1>1, <1>3 DEF InRange
  <2>4. QED
    BY <1>1, <2>1, <2>2, <2>3 DEF InRange
<1>4. QED
  BY <1>2, <1>3

LEMMA InitIInv == Init => IInv
<1> SUFFICES ASSUME Init PROVE IInv
  OBVIOUS
<1>1. Initial \in Nat \ {0}
  BY IntervalsPositive DEF Init
<1>2. QED
  BY <1>1 DEF Init, IInv, TypeOK, RangeInv, InRange, RequestState

\* A step that keeps the settings and the range of what it writes keeps the
\* invariant.
LEMMA StepFrame ==
    ASSUME IInv, retry' = retry, TypeOK', InRange(current'),
           \A r \in Requests :
               /\ pc'[r] = "store" => InRange(reg'[r])
               /\ pc'[r] \in {"load", "store", "wait"} => wait'[r] = Stop \/ InRange(wait'[r])
    PROVE  IInv'
<1>1. Initial' = Initial /\ Maximum' = Maximum
  BY DEF Initial, Maximum
<1>2. QED
  BY <1>1 DEF IInv, RangeInv, InRange

\* One step of one request.
LEMMA RequestIInv ==
    ASSUME IInv, NEW r \in Requests,
           Succeed(r) \/ GiveUp(r) \/ Backoff(r) \/ Resend(r) \/ Abandon(r) \/ Again(r)
    PROVE  IInv'
<1> USE DEF Move, shared, local
<1>1. /\ TypeOK /\ RangeInv /\ retry' = retry
      /\ Initial \in Nat \ {0} /\ Maximum \in Nat \ {0}
  BY IntervalsPositive DEF IInv, TypeOK, Succeed, GiveUp, Backoff, Fail, Reset, NextBackOff,
    LoadInterval, StoreInterval, Resend, Abandon, Again
<1>2. CASE Succeed(r) \/ GiveUp(r)
  <2>1. TypeOK'
    BY <1>1, <1>2 DEF TypeOK, Succeed, GiveUp, RequestState
  <2>2. QED
    BY <1>1, <1>2, <2>1, StepFrame DEF TypeOK, RangeInv, Succeed, GiveUp
<1>3. CASE Fail(r)
  <2>1. TypeOK'
    BY <1>1, <1>3 DEF TypeOK, Fail, RequestState
  <2>2. QED
    BY <1>1, <1>3, <2>1, StepFrame DEF TypeOK, RangeInv, Fail
<1>4. CASE Reset(r)
  <2>1. TypeOK'
    BY <1>1, <1>4 DEF TypeOK, Reset, Disturb, RequestState
  <2>2. QED
    BY <1>1, <1>4, <2>1, StepFrame DEF TypeOK, RangeInv, Reset, InRange
<1>5. CASE NextBackOff(r)
  <2>1. TypeOK'
    BY <1>1, <1>5 DEF TypeOK, NextBackOff, RequestState
  <2>2. QED
    BY <1>1, <1>5, <2>1, StepFrame DEF TypeOK, RangeInv, NextBackOff
<1>6. CASE LoadInterval(r)
  <2>1. TypeOK'
    BY <1>1, <1>6 DEF TypeOK, LoadInterval, RequestState
  <2>2. QED
    BY <1>1, <1>6, <2>1, StepFrame DEF TypeOK, RangeInv, LoadInterval
<1>7. CASE StoreInterval(r)
  <2>1. reg[r] \in Nat \ {0} /\ InRange(reg[r])
    BY <1>1, <1>7 DEF TypeOK, RangeInv, StoreInterval, InRange
  <2>2. Increment(reg[r]) \in Nat \ {0} /\ InRange(Increment(reg[r]))
    BY <1>1, <2>1, IncrementInRange DEF TypeOK
  <2>3. TypeOK'
    BY <1>1, <1>7, <2>2 DEF TypeOK, StoreInterval, Disturb, RequestState
  <2>4. QED
    BY <1>1, <1>7, <2>2, <2>3, StepFrame DEF TypeOK, RangeInv, StoreInterval
<1>8. CASE Resend(r) \/ Abandon(r)
  <2>1. TypeOK'
    BY <1>1, <1>8 DEF TypeOK, Resend, Abandon, RequestState
  <2>2. QED
    BY <1>1, <1>8, <2>1, StepFrame DEF TypeOK, RangeInv, Resend, Abandon
<1>9. CASE Again(r)
  <2>1. TypeOK'
    BY <1>1, <1>9 DEF TypeOK, Again, RequestState
  <2>2. QED
    BY <1>1, <1>9, <2>1, StepFrame DEF TypeOK, RangeInv, Again
<1>10. QED
  BY <1>2, <1>3, <1>4, <1>5, <1>6, <1>7, <1>8, <1>9 DEF Backoff

LEMMA NextIInv == IInv /\ [Next]_vars => IInv'
<1> SUFFICES ASSUME IInv, [Next]_vars PROVE IInv'
  OBVIOUS
<1>1. CASE TimePasses \/ UNCHANGED vars
  <2>1. UNCHANGED <<retry, current, pc, attempts, wait, reg, disturbed>> /\ late' \in BOOLEAN
    BY <1>1 DEF TimePasses, local, vars, IInv, TypeOK
  <2>2. TypeOK'
    BY <2>1 DEF IInv, TypeOK
  <2>3. QED
    BY <2>1, <2>2, StepFrame DEF IInv, RangeInv
<1>2. QED
  BY <1>1, RequestIInv DEF Next

LEMMA InductiveInvariant == Spec => []IInv
BY InitIInv, NextIInv, PTL DEF Spec

\* Every variable keeps its type; in particular the shared interval never
\* becomes zero, whatever the settings leave out.
THEOREM TypeCorrect == Spec => []TypeOK
<1>1. IInv => TypeOK
  BY DEF IInv
<1>2. QED
  BY <1>1, InductiveInvariant, PTL

\* For any number of concurrent requests, a wait lies between the first interval
\* and the maximum, although requests lose and repeat each other's updates.
THEOREM WaitsBetween == Spec => []WaitsInRange
<1>1. IInv => WaitsInRange
  <2> SUFFICES ASSUME IInv, NEW r \in Requests, pc[r] = "wait", wait[r] # Stop
               PROVE  InRange(wait[r])
    BY DEF WaitsInRange, InRange
  <2> QED
    BY DEF IInv, RangeInv
<1>2. QED
  BY <1>1, InductiveInvariant, PTL

-----------------------------------------------------------------------------
(* The ladder of intervals                                                   *)

\* Induction over the natural numbers, for a set.
LEMMA NatSetInduction ==
    ASSUME NEW T, 0 \in T, \A n \in Nat : n \in T => n + 1 \in T
    PROVE  \A n \in Nat : n \in T
<1> DEFINE Less == {p \in Nat \X Nat : p[1] < p[2]}
           Missing == {n \in Nat : n \notin T}
<1>1. IsWellFoundedOn(OpToRel(<, Nat), Nat)
  BY NatLessThanWellFounded
<1>2. IsWellFoundedOn(Less, Nat)
  BY <1>1 DEF OpToRel
<1>3. SUFFICES ASSUME Missing # {} PROVE FALSE
  OBVIOUS
<1>4. \E x \in Missing : \A y \in Missing : <<y, x>> \notin Less
  <2> HIDE DEF Less
  <2>1. Missing \subseteq Nat
    OBVIOUS
  <2> HIDE DEF Missing
  <2>2. QED
    BY <1>2, <1>3, <2>1, WFMin
<1>5. PICK x \in Missing : \A y \in Missing : ~(y < x)
  BY <1>4
<1>6. x \in Nat /\ x \notin T /\ x # 0
  OBVIOUS
<1>7. x - 1 \in Nat /\ x - 1 < x /\ (x - 1) + 1 = x
  BY <1>6
<1>8. x - 1 \in T
  BY <1>5, <1>7
<1>9. QED
  BY <1>6, <1>7, <1>8

\* A ladder of any number of rungs exists.
LEMMA LadderExists ==
    \A k \in Nat : \E g : g = [n \in 1..k |-> IF n = 1 THEN Initial ELSE Increment(g[n - 1])]
<1> DEFINE Ladder(g, k) ==
             g = [n \in 1..k |-> IF n = 1 THEN Initial ELSE Increment(g[n - 1])]
           T == {k \in Nat : \E g : Ladder(g, k)}
<1>1. 0 \in T
  <2>1. Ladder([n \in 1..0 |-> Initial], 0)
    OBVIOUS
  <2>2. QED
    BY <2>1
<1>2. ASSUME NEW k \in Nat, k \in T PROVE k + 1 \in T
  <2>1. PICK g : Ladder(g, k)
    BY <1>2
  <2> DEFINE h == [n \in 1..k + 1 |->
                     IF n = k + 1 THEN IF n = 1 THEN Initial ELSE Increment(g[k]) ELSE g[n]]
  <2>2. ASSUME NEW n \in 1..k + 1
        PROVE  h[n] = IF n = 1 THEN Initial ELSE Increment(h[n - 1])
    <3>1. CASE n = k + 1
      BY <3>1
    <3>2. CASE n # k + 1
      <4>1. n \in 1..k /\ (n # 1 => n - 1 \in 1..k /\ n - 1 # k + 1 /\ n - 1 \in 1..k + 1)
        BY <3>2
      <4>2. h[n] = g[n] /\ (n # 1 => h[n - 1] = g[n - 1])
        BY <3>2, <4>1
      <4>3. g[n] = IF n = 1 THEN Initial ELSE Increment(g[n - 1])
        BY <2>1, <4>1
      <4>4. QED
        BY <4>1, <4>2, <4>3
    <3>3. QED
      BY <3>1, <3>2
  <2>3. h = [n \in 1..k + 1 |-> IF n = 1 THEN Initial ELSE Increment(h[n - 1])]
    <3>1. DOMAIN h = 1..k + 1 /\ h = [n \in 1..k + 1 |-> h[n]]
      OBVIOUS
    <3> HIDE DEF h
    <3>2. QED
      BY <2>2, <3>1
  <2>4. \E f : Ladder(f, k + 1)
    <3> HIDE DEF h
    <3>1. QED
      BY <2>3
  <2>5. QED
    BY <2>4
<1>3. \A k \in Nat : k \in T
  <2> HIDE DEF T
  <2>1. QED
    BY <1>1, <1>2, NatSetInduction
<1>4. QED
  BY <1>3

\* The rungs, one from the other.
LEMMA RungDef ==
    ASSUME retry \in Settings
    PROVE  /\ maxRetries \in Nat
           /\ maxRetries >= 1 => Rung[1] = Initial
           /\ \A n \in 1..maxRetries : n + 1 <= maxRetries => Rung[n + 1] = Increment(Rung[n])
<1>1. maxRetries \in Nat
  BY SettingsAssumption, DefaultAssumption DEF maxRetries
<1>2. \E g : g = [n \in 1..maxRetries |-> IF n = 1 THEN Initial ELSE Increment(g[n - 1])]
  BY <1>1, LadderExists
<1>3. Rung = [n \in 1..maxRetries |-> IF n = 1 THEN Initial ELSE Increment(Rung[n - 1])]
  BY <1>2 DEF Rung
<1>4. \A n \in 1..maxRetries : Rung[n] = IF n = 1 THEN Initial ELSE Increment(Rung[n - 1])
  BY <1>3
<1>5. ASSUME NEW n \in 1..maxRetries, n + 1 <= maxRetries
      PROVE  Rung[n + 1] = Increment(Rung[n])
  <2>1. n + 1 \in 1..maxRetries /\ n + 1 # 1 /\ (n + 1) - 1 = n
    BY <1>1, <1>5
  <2>2. QED
    BY <1>4, <2>1
<1>6. QED
  BY <1>1, <1>4, <1>5

\* The settings do not change, nor do the rungs.
LEMMA RungFrame ==
    ASSUME retry' = retry
    PROVE  maxRetries' = maxRetries /\ Initial' = Initial /\ Maximum' = Maximum /\ Rung' = Rung
<1>1. maxRetries' = maxRetries /\ Initial' = Initial /\ Maximum' = Maximum
  BY DEF maxRetries, Initial, Maximum
<1>2. Rung' = Rung
  BY <1>1 DEF Rung, Increment
<1>3. QED
  BY <1>1, <1>2

\* Where an undisturbed request stands on the ladder, and the shared interval
\* with it.
OnLadder(r) ==
    /\ pc[r] \in {"next", "load", "store"} => current = Rung[attempts[r]]
    /\ pc[r] = "store" => reg[r] = Rung[attempts[r]]
    /\ pc[r] \in {"load", "store", "wait"} => wait[r] = Stop \/ wait[r] = Rung[attempts[r]]
    /\ pc[r] \in {"wait", "send"} /\ attempts[r] # 0 => current = Increment(Rung[attempts[r]])

\* Attempts are counted up to the number of retries.
Counted(r) ==
    /\ attempts[r] <= maxRetries
    /\ pc[r] \in {"reset", "next", "load", "store", "wait"} => attempts[r] # 0
    /\ pc[r] = "reset" => attempts[r] = 1

LadderInv == \A r \in Requests : Counted(r) /\ (disturbed[r] \/ OnLadder(r))

LEMMA InitLadder == Init => LadderInv
<1>1. Init => maxRetries \in Nat
  BY RungDef DEF Init
<1>2. QED
  BY <1>1 DEF Init, LadderInv, Counted, OnLadder

\* A step that leaves a request and the shared interval alone, or disturbs the
\* request, keeps what is said of it.
LEMMA LadderFrame ==
    ASSUME LadderInv, retry' = retry, NEW q \in Requests,
           pc'[q] = pc[q], attempts'[q] = attempts[q], wait'[q] = wait[q], reg'[q] = reg[q],
           disturbed'[q] \/ (current' = current /\ disturbed'[q] = disturbed[q])
    PROVE  Counted(q)' /\ (disturbed'[q] \/ OnLadder(q)')
<1>1. /\ maxRetries' = maxRetries /\ Rung' = Rung
      /\ \A n : Increment(n)' = Increment(n)
  BY RungFrame DEF Increment
<1>2. Counted(q) /\ (disturbed[q] \/ OnLadder(q))
  BY DEF LadderInv
<1>3. Counted(q)'
  BY <1>1, <1>2 DEF Counted
<1>4. disturbed'[q] \/ OnLadder(q)'
  BY <1>1, <1>2 DEF OnLadder
<1>5. QED
  BY <1>3, <1>4

\* A step of one request leaves the others alone or disturbs them.
LEMMA OthersLadder ==
    ASSUME TypeOK, LadderInv, NEW r \in Requests, NEW q \in Requests, q # r,
           Succeed(r) \/ GiveUp(r) \/ Backoff(r) \/ Resend(r) \/ Abandon(r) \/ Again(r)
    PROVE  Counted(q)' /\ (disturbed'[q] \/ OnLadder(q)')
<1>1. /\ retry' = retry
      /\ pc'[q] = pc[q] /\ attempts'[q] = attempts[q] /\ wait'[q] = wait[q] /\ reg'[q] = reg[q]
  BY DEF TypeOK, Succeed, GiveUp, Backoff, Fail, Reset, NextBackOff, LoadInterval, StoreInterval,
    Resend, Abandon, Again, Move, shared, local
<1>2. disturbed'[q] \/ (current' = current /\ disturbed'[q] = disturbed[q])
  BY DEF TypeOK, Succeed, GiveUp, Backoff, Fail, Reset, NextBackOff, LoadInterval, StoreInterval,
    Resend, Abandon, Again, Disturb, shared, local
<1>3. QED
  BY <1>1, <1>2, LadderFrame

\* A step of the request itself.
LEMMA OwnLadder ==
    ASSUME TypeOK, LadderInv, NEW r \in Requests,
           Succeed(r) \/ GiveUp(r) \/ Backoff(r) \/ Resend(r) \/ Abandon(r) \/ Again(r)
    PROVE  Counted(r)' /\ (disturbed'[r] \/ OnLadder(r)')
<1> USE DEF Move, shared, local
<1>1. retry' = retry
  BY DEF Succeed, GiveUp, Backoff, Fail, Reset, NextBackOff, LoadInterval, StoreInterval, Resend,
    Abandon, Again
<1>2. /\ maxRetries' = maxRetries /\ Rung' = Rung
      /\ \A n : Increment(n)' = Increment(n)
  BY <1>1, RungFrame DEF Increment
<1>3. Counted(r) /\ (disturbed[r] \/ OnLadder(r)) /\ attempts[r] \in Nat /\ maxRetries \in Nat
  BY RungDef DEF LadderInv, TypeOK
<1>4. CASE Succeed(r) \/ GiveUp(r)
  <2>1. pc'[r] \in {"done", "failed"} /\ attempts' = attempts
    BY <1>4 DEF Succeed, GiveUp, TypeOK
  <2>2. QED
    BY <1>2, <1>3, <2>1 DEF Counted, OnLadder
<1>5. CASE Fail(r)
  <2>1. /\ pc'[r] = IF attempts[r] = 0 THEN "reset" ELSE "next"
        /\ pc[r] = "send" /\ attempts[r] < maxRetries /\ attempts'[r] = attempts[r] + 1
        /\ current' = current
        /\ attempts[r] # 0 => disturbed'[r] = disturbed[r]
    BY <1>5 DEF Fail, TypeOK
  <2>2. Counted(r)'
    BY <1>2, <1>3, <2>1 DEF Counted
  <2>3. CASE attempts[r] = 0
    BY <2>1, <2>2, <2>3 DEF OnLadder
  <2>4. CASE attempts[r] # 0
    <3>1. attempts[r] \in 1..maxRetries /\ attempts[r] + 1 <= maxRetries
      BY <1>3, <2>1, <2>4
    <3>2. Rung[attempts[r] + 1] = Increment(Rung[attempts[r]])
      BY <3>1, RungDef DEF TypeOK
    <3>3. disturbed[r] \/ current = Increment(Rung[attempts[r]])
      BY <1>3, <2>1, <2>4 DEF OnLadder
    <3>4. disturbed'[r] \/ OnLadder(r)'
      BY <1>2, <2>1, <2>4, <3>2, <3>3 DEF OnLadder
    <3>5. QED
      BY <2>2, <3>4
  <2>5. QED
    BY <2>3, <2>4
<1>6. CASE Reset(r)
  <2>1. /\ pc[r] = "reset" /\ pc'[r] = "next" /\ attempts' = attempts /\ current' = Initial
    BY <1>6 DEF Reset, TypeOK
  <2>2. attempts[r] = 1 /\ 1 <= maxRetries
    BY <1>3, <2>1 DEF Counted
  <2>3. Rung[1] = Initial
    BY <1>3, <2>2, RungDef DEF TypeOK
  <2>4. QED
    BY <1>2, <1>3, <2>1, <2>2, <2>3 DEF Counted, OnLadder
<1>7. CASE NextBackOff(r)
  <2>1. /\ pc[r] = "next" /\ pc'[r] = "load" /\ UNCHANGED <<current, attempts, disturbed>>
        /\ wait'[r] = IF late THEN Stop ELSE current
    BY <1>7 DEF NextBackOff, TypeOK
  <2>2. QED
    BY <1>2, <1>3, <2>1 DEF Counted, OnLadder
<1>8. CASE LoadInterval(r)
  <2>1. /\ pc[r] = "load" /\ pc'[r] = "store" /\ UNCHANGED <<current, attempts, wait, disturbed>>
        /\ reg'[r] = current
    BY <1>8 DEF LoadInterval, TypeOK
  <2>2. QED
    BY <1>2, <1>3, <2>1 DEF Counted, OnLadder
<1>9. CASE StoreInterval(r)
  <2>1. /\ pc[r] = "store" /\ pc'[r] = "wait" /\ UNCHANGED <<attempts, wait>>
        /\ current' = Increment(reg[r]) /\ disturbed'[r] = disturbed[r]
    BY <1>9 DEF StoreInterval, Disturb, TypeOK
  <2>2. QED
    BY <1>2, <1>3, <2>1 DEF Counted, OnLadder
<1>10. CASE Resend(r) \/ Abandon(r)
  <2>1. /\ pc[r] = "wait" /\ pc'[r] \in {"send", "failed"}
        /\ UNCHANGED <<current, attempts, disturbed>>
    BY <1>10 DEF Resend, Abandon, TypeOK
  <2>2. QED
    BY <1>2, <1>3, <2>1 DEF Counted, OnLadder
<1>11. CASE Again(r)
  <2>1. pc'[r] = "send" /\ attempts'[r] = 0
    BY <1>11 DEF Again, TypeOK
  <2>2. QED
    BY <1>2, <1>3, <2>1 DEF Counted, OnLadder
<1>12. QED
  BY <1>4, <1>5, <1>6, <1>7, <1>8, <1>9, <1>10, <1>11 DEF Backoff

LEMMA NextLadder == TypeOK /\ LadderInv /\ [Next]_vars => LadderInv'
<1> SUFFICES ASSUME TypeOK, LadderInv, [Next]_vars PROVE LadderInv'
  OBVIOUS
<1>1. CASE TimePasses \/ UNCHANGED vars
  <2>1. UNCHANGED <<retry, current, pc, attempts, wait, reg, disturbed>>
    BY <1>1 DEF TimePasses, local, vars
  <2>2. QED
    BY <2>1, LadderFrame DEF LadderInv
<1>2. CASE \E r \in Requests : Succeed(r) \/ GiveUp(r) \/ Backoff(r) \/ Resend(r) \/ Abandon(r)
                              \/ Again(r)
  BY <1>2, OthersLadder, OwnLadder DEF LadderInv
<1>3. QED
  BY <1>1, <1>2 DEF Next

\* For any number of requests and any settings, one whose series of failures no
\* other request has disturbed waits the first interval after its first failure
\* and then one rung of the ladder more each time.
THEOREM LadderClimbed == Spec => []BacksOffAlone
<1>1. LadderInv => BacksOffAlone
  BY DEF LadderInv, OnLadder, BacksOffAlone
<1>2. QED
  BY <1>1, TypeCorrect, InitLadder, NextLadder, PTL DEF Spec
=============================================================================
