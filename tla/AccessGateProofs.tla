--------------------------- MODULE AccessGateProofs ---------------------------
(***************************************************************************)
(* The access gate's promises, for any number of connections, any costs    *)
(* and any lane.                                                           *)
(***************************************************************************)
EXTENDS AccessGate, FiniteSetTheorems, TLAPS

\* The variables' types without the bounds that the other invariants give.
Shape ==
    /\ gas \in [Conns -> Int]
    /\ failures \in [Conns -> Nat]
    /\ apiKey \in [Conns -> BOOLEAN]
    /\ presented \in [Conns -> 0..MaxPresentations]
    /\ pc \in [Conns -> Steps]
    /\ cost \in [Conns -> Nat]
    /\ charged \in [Conns -> BOOLEAN]
    /\ stamp \in [Conns -> Nat]
    /\ permits \in Int /\ queue \in Seq(Conns) /\ waiting \in Int
    /\ tokens \in Int /\ refilled \in Nat /\ now \in 0..MaxTime
    /\ freeGas \in Nat /\ taken \in Int /\ recounted \in Nat

\* The clock is never behind a reading of it.
ClockAhead == refilled <= now /\ \A c \in Conns : stamp[c] <= now

\* The loop is left with the last failure it tolerates.
FailuresStop ==
    \A c \in Conns : /\ failures[c] <= MaxFailures
                     /\ pc[c] # "closed" => failures[c] < MaxFailures

\* A frame that was charged left the balance non-negative.
ChargedIsCovered == \A c \in Conns : charged[c] => gas[c] >= 0

\* Gas taken and gas left together never exceed what the bucket was given.
BucketBalance ==
    /\ -PerHour <= tokens /\ tokens <= PerHour
    /\ taken + tokens <= PerHour + Rate * (refilled + recounted)

-----------------------------------------------------------------------------
(* Arithmetic of the budget.                                               *)

\* The hourly budget is a positive number of gas.
LEMMA PerHourPositive == PerHour \in Nat /\ Rate \in Nat
BY GateAssumption, SMT DEF PerHour

\* Refilling for the sum of two times is refilling for each.
LEMMA RateSum ==
    ASSUME NEW a \in Int, NEW b \in Int
    PROVE  /\ Rate * (a + b) = Rate * a + Rate * b
           /\ Rate * a \in Int /\ a * Rate = Rate * a
           /\ a <= b => Rate * a <= Rate * b
BY GateAssumption, SMT

-----------------------------------------------------------------------------
(* The semaphore's queue.                                                  *)

\* Taking the i-th element out of a sequence: the later ones move up.
Without(s, i) == SubSeq(s, 1, i - 1) \o SubSeq(s, i + 1, Len(s))

LEMMA WithoutFacts ==
    ASSUME NEW S, NEW s \in Seq(S), NEW i \in DOMAIN s
    PROVE  /\ Without(s, i) \in Seq(S)
           /\ Len(Without(s, i)) = Len(s) - 1
           /\ \A j \in 1..(Len(s) - 1) :
                 Without(s, i)[j] = IF j < i THEN s[j] ELSE s[j + 1]
<1>1. i \in 1..Len(s) /\ Len(s) \in Nat
  OBVIOUS
<1>2. SubSeq(s, 1, i - 1) \in Seq(S) /\ Len(SubSeq(s, 1, i - 1)) = i - 1
  BY <1>1
<1>3. SubSeq(s, i + 1, Len(s)) \in Seq(S) /\ Len(SubSeq(s, i + 1, Len(s))) = Len(s) - i
  BY <1>1
<1>4. \A j \in 1..(i - 1) : SubSeq(s, 1, i - 1)[j] = s[j]
  BY <1>1
<1>5. \A j \in 1..(Len(s) - i) : SubSeq(s, i + 1, Len(s))[j] = s[j + i]
  BY <1>1, SMTT(60)
<1> DEFINE a == SubSeq(s, 1, i - 1)
           b == SubSeq(s, i + 1, Len(s))
<1> HIDE DEF a, b
<1>6. /\ a \in Seq(S) /\ b \in Seq(S) /\ Len(a) = i - 1 /\ Len(b) = Len(s) - i
      /\ Without(s, i) = a \o b
  BY <1>2, <1>3 DEF a, b, Without
<1>7. a \o b \in Seq(S) /\ Len(a \o b) = Len(a) + Len(b)
  BY <1>6, SMTT(60)
<1>8. \A j \in 1..Len(a) + Len(b) :
         (a \o b)[j] = IF j <= Len(a) THEN a[j] ELSE b[j - Len(a)]
  BY <1>6, SMTT(60)
<1>9. ASSUME NEW j \in 1..(Len(s) - 1)
      PROVE  (a \o b)[j] = IF j < i THEN s[j] ELSE s[j + 1]
  <2>1. CASE j < i
    BY <1>1, <1>4, <1>6, <1>8, <2>1, SMTT(60) DEF a
  <2>2. CASE ~(j < i)
    <3>1. j - (i - 1) \in 1..(Len(s) - i)
      BY <1>1, <2>2
    <3>2. (a \o b)[j] = b[j - (i - 1)]
      BY <1>1, <1>6, <1>8, <2>2, SMTT(60)
    <3>3. b[j - (i - 1)] = s[j - (i - 1) + i]
      BY <1>5, <3>1 DEF b
    <3>4. j - (i - 1) + i = j + 1
      BY <1>1
    <3> QED
      BY <2>2, <3>2, <3>3, <3>4
  <2> QED
    BY <2>1, <2>2, Zenon
<1>10. Len(a \o b) = Len(s) - 1
  BY <1>1, <1>6, <1>7
<1> QED
  BY ONLY <1>6, <1>7, <1>9, <1>10, ZenonT(60)

-----------------------------------------------------------------------------
(* Every step keeps the variables' shape.                                  *)

LEMMA ShapeStep ==
    ASSUME Shape, ClockAhead, [Next]_vars
    PROVE  Shape' /\ ClockAhead'
<1> USE DEF Shape, ClockAhead, Steps, Goto, Forget, connVars, laneVars, budgetVars,
        frameVars
<1>0. /\ Costs \subseteq Nat /\ EgressCosts \subseteq Nat /\ TopUps \subseteq Nat
      /\ PerHour \in Nat /\ Rate \in Nat /\ MaxTime \in Nat /\ MaxPresentations \in Nat
  BY GateAssumption, PerHourPositive
<1>1. CASE Tick
  BY <1>0, <1>1, SMTT(60) DEF Tick
<1>2. ASSUME NEW c \in Conns, PresentOk(c) \/ AcceptApiKey(c) \/ PresentFailed(c)
      PROVE  Shape' /\ ClockAhead'
  <2>1. CASE PresentOk(c)
    <3>1. gas' \in [Conns -> Int] /\ presented' \in [Conns -> 0..MaxPresentations]
      BY <1>0, <2>1, SMTT(60) DEF PresentOk
    <3> QED
      BY <2>1, <3>1, ZenonT(60) DEF PresentOk
  <2>2. CASE AcceptApiKey(c)
    BY <2>2, SMTT(60) DEF AcceptApiKey
  <2>3. CASE PresentFailed(c)
    <3>1. failures' \in [Conns -> Nat] /\ pc' \in [Conns -> Steps]
      BY <2>3 DEF PresentFailed
    <3> QED
      BY <2>3, <3>1, SMTT(60) DEF PresentFailed
  <2> QED
    BY <1>2, <2>1, <2>2, <2>3, Zenon
<1>3. ASSUME NEW c \in Conns, AdmitFree(c) \/ Disconnect(c)
      PROVE  Shape' /\ ClockAhead'
  BY <1>3, ZenonT(60) DEF AdmitFree, Disconnect
<1>4. ASSUME NEW c \in Conns, NEW g \in Costs, Charge(c, g)
      PROVE  Shape' /\ ClockAhead'
  BY <1>0, <1>4, SMTT(60) DEF Charge
<1>5. ASSUME NEW c \in Conns, NEW g \in Costs, EnterLane(c, g)
      PROVE  Shape' /\ ClockAhead'
  BY <1>0, <1>5, SMTT(60) DEF EnterLane
<1>6. ASSUME NEW c \in Conns, TryTake(c)
      PROVE  Shape' /\ ClockAhead'
  <2>1. Refill(stamp[c]) \in Int
    BY <1>0, SMTT(60) DEF Refill, Least, Greatest
  <2>2. Greatest(refilled - stamp[c], 0) \in Nat
    BY DEF Greatest
  <2> QED
    <3>1. /\ tokens' \in Int /\ taken' \in Int /\ pc' \in [Conns -> Steps]
          /\ cost' \in [Conns -> Nat]
      <4>1. CASE Refill(stamp[c]) >= cost[c]
        <5>1. /\ tokens' = Refill(stamp[c]) - cost[c] /\ taken' = taken + cost[c]
              /\ pc' = [pc EXCEPT ![c] = "join"] /\ cost' = cost
          BY <1>6, <4>1 DEF TryTake
        <5> QED
          BY <2>1, <5>1, SMTT(60)
      <4>2. CASE ~(Refill(stamp[c]) >= cost[c])
        <5>1. /\ tokens' = Refill(stamp[c]) /\ taken' = taken
              /\ pc' = [pc EXCEPT ![c] = "idle"] /\ cost' = [cost EXCEPT ![c] = 0]
          BY <1>6, <4>2, Zenon DEF TryTake
        <5> QED
          BY <2>1, <5>1
      <4> QED
        BY <4>1, <4>2, SMTT(60)
    <3>2. stamp' \in [Conns -> Nat] /\ \A d \in Conns : stamp'[d] <= now
      BY <1>6, SMTT(60) DEF TryTake
    <3>3. /\ refilled' \in Nat /\ refilled' <= now /\ recounted' \in Nat
          /\ UNCHANGED <<connVars, charged, laneVars, now, freeGas>>
      BY <1>6, <2>2, SMTT(60) DEF TryTake
    <3> QED
      BY <3>1, <3>2, <3>3, ZenonT(60)
<1>7. ASSUME NEW c \in Conns, JoinQueue(c)
      PROVE  Shape' /\ ClockAhead'
  <2>1. pc' \in [Conns -> Steps]
    BY <1>7 DEF JoinQueue
  <2> QED
    BY <1>7, <2>1, SMTT(60) DEF JoinQueue
<1>8. ASSUME NEW c \in Conns, Acquire(c)
      PROVE  Shape' /\ ClockAhead'
  <2>1. pc' \in [Conns -> Steps]
    BY <1>8, ZenonT(60) DEF Acquire
  <2>2. queue' \in Seq(Conns) /\ permits' \in Int
    <3>1. Append(queue, c) \in Seq(Conns)
      OBVIOUS
    <3>2. CASE permits > 0
      BY <1>8, <3>2 DEF Acquire
    <3>3. CASE ~(permits > 0)
      BY <1>8, <3>1, <3>3, Zenon DEF Acquire
    <3> QED
      BY <3>2, <3>3
  <2> QED
    BY <1>8, <2>1, <2>2, Zenon DEF Acquire
<1>9. ASSUME NEW c \in Conns, Timeout(c)
      PROVE  Shape' /\ ClockAhead'
  <2>1. pc' \in [Conns -> Steps]
    BY <1>9 DEF Timeout
  <2>2. queue' \in Seq(Conns)
    <3>1. \A i \in DOMAIN queue :
             SubSeq(queue, 1, i - 1) \o SubSeq(queue, i + 1, Len(queue)) \in Seq(Conns)
      BY WithoutFacts, Zenon DEF Without
    <3> QED
      BY <1>9, <3>1, Zenon DEF Timeout
  <2> QED
    BY <1>9, <2>1, <2>2, Zenon DEF Timeout
<1>10. ASSUME NEW c \in Conns, Refund(c)
       PROVE  Shape' /\ ClockAhead'
  <2>1. pc' \in [Conns -> Steps] /\ cost' \in [Conns -> Nat]
    BY <1>10, SMTT(60) DEF Refund
  <2>2. tokens' \in Int /\ taken' \in Int
    BY <1>0, <1>10, SMTT(60) DEF Refund, Least
  <2> QED
    BY <1>10, <2>1, <2>2, ZenonT(60) DEF Refund
<1>11. ASSUME NEW c \in Conns, Leave(c) \/ Admitted(c)
       PROVE  Shape' /\ ClockAhead'
  <2>1. CASE Leave(c)
    BY <2>1, SMTT(60) DEF Leave
  <2>2. CASE Admitted(c)
    <3>1. pc' \in [Conns -> Steps] /\ cost' \in [Conns -> Nat] /\ freeGas' \in Nat
      BY <2>2, SMTT(60) DEF Admitted
    <3> QED
      BY <2>2, <3>1, SMTT(60) DEF Admitted
  <2> QED
    BY <1>11, <2>1, <2>2, Zenon
<1>12. ASSUME NEW c \in Conns, NEW e \in EgressCosts, FinishServing(c, e)
       PROVE  Shape' /\ ClockAhead'
  BY <1>0, <1>12, SMTT(60) DEF FinishServing
<1>13. ASSUME NEW c \in Conns, NEW e \in EgressCosts, Spend(c, e)
       PROVE  Shape' /\ ClockAhead'
  <2>1. Greatest(Refill(now) - e, -PerHour) \in Int
    BY <1>0, SMTT(60) DEF Refill, Least, Greatest
  <2> QED
    BY <1>13, <2>1, SMTT(60) DEF Spend
<1>14. ASSUME NEW c \in Conns, Release(c)
       PROVE  Shape' /\ ClockAhead'
  <2>1. pc' \in [Conns -> Steps]
    BY <1>14, ZenonT(60) DEF Release
  <2>2. queue' \in Seq(Conns) /\ permits' \in Int
    <3>1. queue # <<>> => Tail(queue) \in Seq(Conns)
      OBVIOUS
    <3>2. CASE queue = <<>>
      BY <1>14, <3>2 DEF Release
    <3>3. CASE queue # <<>>
      BY <1>14, <3>1, <3>3, Zenon DEF Release
    <3> QED
      BY <3>2, <3>3
  <2> QED
    BY <1>14, <2>1, <2>2, ZenonT(60) DEF Release
<1>15. CASE UNCHANGED vars
  BY <1>15 DEF vars
<1> QED
  BY <1>1, <1>2, <1>3, <1>4, <1>5, <1>6, <1>7, <1>8, <1>9, <1>10, <1>11, <1>12,
     <1>13, <1>14, <1>15, ZenonT(60) DEF Next, Request, Serve, Decide

-----------------------------------------------------------------------------
(* The balance of a connection.                                            *)

\* Only a presentation, a charge and the egress of a charged frame touch a
\* balance, and the egress follows a charge that was covered.
LEMMA DeficitStep ==
    ASSUME Shape, ChargedIsCovered, DeficitBounded, [Next]_vars
    PROVE  ChargedIsCovered' /\ DeficitBounded'
<1> USE DEF Shape, ChargedIsCovered, DeficitBounded, connVars, frameVars
<1>0. Costs \subseteq Nat /\ EgressCosts \subseteq Nat /\ TopUps \subseteq Nat
  BY GateAssumption
<1>1. ASSUME NEW c \in Conns, PresentOk(c)
      PROVE  ChargedIsCovered' /\ DeficitBounded'
  <2>1. PICK g \in TopUps : gas' = [gas EXCEPT ![c] = @ + g]
    BY <1>1, Zenon DEF PresentOk
  <2>2. /\ \A d \in Conns : gas'[d] >= gas[d] /\ gas'[d] \in Int
        /\ charged' = charged
    BY <1>0, <1>1, <2>1, SMTT(60) DEF PresentOk
  <2>3. ASSUME NEW d \in Conns, gas'[d] < 0
        PROVE  \E e \in EgressCosts : gas'[d] >= -e
    <3>1. gas[d] \in Int /\ gas[d] < 0
      BY <2>2, <2>3, SMTT(60)
    <3>2. PICK e \in EgressCosts : gas[d] >= -e
      BY <3>1 DEF DeficitBounded
    <3>3. e \in Nat
      BY <1>0
    <3>4. gas'[d] >= -e
      BY <2>2, <3>1, <3>2, <3>3, SMTT(60)
    <3> QED
      BY <3>4
  <2> QED
    BY <2>2, <2>3, SMTT(60)
<1>2. ASSUME NEW c \in Conns, NEW g \in Costs, Charge(c, g)
      PROVE  ChargedIsCovered' /\ DeficitBounded'
  <2>1. gas'[c] >= 0 /\ \A d \in Conns \ {c} : gas'[d] = gas[d] /\ charged'[d] = charged[d]
    BY <1>0, <1>2 DEF Charge
  <2> QED
    BY <1>0, <1>2, <2>1, SMTT(60) DEF Charge
<1>3. ASSUME NEW c \in Conns, NEW e \in EgressCosts, FinishServing(c, e)
      PROVE  ChargedIsCovered' /\ DeficitBounded'
  <2>1. \A d \in Conns \ {c} : gas'[d] = gas[d] /\ charged'[d] = charged[d]
    BY <1>3 DEF FinishServing
  <2>2. charged'[c] = FALSE /\ (gas'[c] >= -e \/ gas'[c] = gas[c])
    BY <1>0, <1>3 DEF FinishServing
  <2> QED
    BY <2>1, <2>2, Zenon
<1>4. ASSUME UNCHANGED <<gas, charged>>
      PROVE  ChargedIsCovered' /\ DeficitBounded'
  BY <1>4, ZenonT(60)
<1>5. ASSUME NEW c \in Conns,
             \/ AcceptApiKey(c) \/ PresentFailed(c) \/ AdmitFree(c) \/ Disconnect(c)
             \/ \E g \in Costs : EnterLane(c, g)
             \/ TryTake(c) \/ JoinQueue(c) \/ Acquire(c) \/ Timeout(c) \/ Refund(c)
             \/ Leave(c) \/ Admitted(c) \/ Release(c)
             \/ \E e \in EgressCosts : Spend(c, e)
      PROVE  UNCHANGED <<gas, charged>>
  BY <1>5, SMTT(60)
     DEF AcceptApiKey, PresentFailed, AdmitFree, Disconnect, EnterLane, TryTake,
              JoinQueue, Acquire, Timeout, Refund, Leave, Admitted, Release, Spend
<1>6. CASE Tick
  BY <1>4, <1>6 DEF Tick
<1>7. CASE UNCHANGED vars
  BY <1>4, <1>7, SMTT(60) DEF vars
<1> QED
  BY <1>1, <1>2, <1>3, <1>4, <1>5, <1>6, <1>7, Zenon DEF Next, Request, Serve, Decide

-----------------------------------------------------------------------------
(* The hourly budget.                                                      *)

\* What a refill adds is what the refill time gains, counted again or not.
LEMMA RefillFacts ==
    ASSUME Shape, BucketBalance, NEW t \in Nat
    PROVE  /\ Refill(t) \in Int /\ tokens <= Refill(t) /\ Refill(t) <= PerHour
           /\ Greatest(refilled - t, 0) \in Nat
           /\ taken + Refill(t) <=
                 PerHour + Rate * (t + (recounted + Greatest(refilled - t, 0)))
<1> USE PerHourPositive DEF Shape, BucketBalance
<1> DEFINE d == Greatest(t - refilled, 0)
           r == Greatest(refilled - t, 0)
<1>1. d \in Nat /\ r \in Nat /\ t + (recounted + r) = (refilled + recounted) + d
  BY DEF Greatest
<1>2. Refill(t) = Least(tokens + d * Rate, PerHour)
  BY DEF Refill
<1> HIDE DEF d, r
<1>3. d * Rate = Rate * d /\ Rate * d \in Nat
  BY <1>1, SMT
<1>4. Rate * ((refilled + recounted) + d) = Rate * (refilled + recounted) + Rate * d
  BY <1>1, RateSum
<1>5. Rate * (refilled + recounted) \in Int
  BY RateSum
<1>6. Refill(t) \in Int /\ tokens <= Refill(t) /\ Refill(t) <= PerHour
  BY <1>2, <1>3 DEF Least
<1>7. Refill(t) <= tokens + Rate * d
  BY <1>2, <1>3 DEF Least
<1>8. taken + Refill(t) <= PerHour + Rate * ((refilled + recounted) + d)
  BY <1>3, <1>4, <1>5, <1>6, <1>7, SMTT(60)
<1> QED
  BY <1>1, <1>6, <1>8 DEF r

\* try_take, refund and spend keep the balance of the bucket; nothing else
\* touches it, and time only adds to the bound.
LEMMA BudgetStep ==
    ASSUME Shape, ClockAhead, BucketBalance, BudgetBound, Shape', ClockAhead', [Next]_vars
    PROVE  BucketBalance' /\ BudgetBound'
<1> USE PerHourPositive
<1>0. /\ PerHour \in Nat /\ tokens \in Int /\ taken \in Int /\ recounted \in Nat
      /\ refilled \in Nat /\ now \in Nat
  BY GateAssumption DEF Shape
<1>1. ASSUME NEW c \in Conns, TryTake(c)
      PROVE  BucketBalance' /\ BudgetBound'
  <2> DEFINE t == stamp[c]
             r == Greatest(refilled - t, 0)
  <2>1. t \in Nat /\ t <= now /\ cost[c] \in Nat
    BY SMTT(60) DEF Shape, ClockAhead
  <2>2. /\ refilled' = t /\ recounted' = recounted + r /\ now' = now
        /\ \/ /\ Refill(t) >= cost[c]
              /\ tokens' = Refill(t) - cost[c] /\ taken' = taken + cost[c]
           \/ tokens' = Refill(t) /\ taken' = taken
    BY <1>1 DEF TryTake
  <2>3. /\ Refill(t) \in Int /\ tokens <= Refill(t) /\ Refill(t) <= PerHour
        /\ r \in Nat
        /\ taken + Refill(t) <= PerHour + Rate * (t + (recounted + r))
    BY <2>1, RefillFacts
  <2> HIDE DEF t, r
  <2>4. /\ Rate * (t + (recounted + r)) \in Int /\ Rate * (now + (recounted + r)) \in Int
        /\ Rate * (t + (recounted + r)) <= Rate * (now + (recounted + r))
    BY <1>0, <2>1, <2>3, RateSum
  <2>5. Rate * (now + recounted) \in Int /\ Rate * (now + recounted) <= Rate * (now + (recounted + r))
    BY <1>0, <2>3, RateSum, SMTT(60)
  <2>6. BucketBalance'
    BY <1>0, <2>1, <2>2, <2>3, <2>4, SMTT(60) DEF BucketBalance, PerHour
  <2>7. BudgetBound'
    BY <1>0, <2>1, <2>2, <2>3, <2>4, <2>5, SMTT(60) DEF BudgetBound, PerHour
  <2> QED
    BY <2>6, <2>7, SMTT(60)
<1>2. ASSUME NEW c \in Conns, Refund(c)
      PROVE  BucketBalance' /\ BudgetBound'
  <2>1. /\ tokens' = Least(tokens + cost[c], PerHour) /\ taken' = taken - cost[c]
        /\ UNCHANGED <<refilled, recounted, now>> /\ cost[c] \in Nat
    BY <1>2 DEF Refund, Shape
  <2>2. tokens' >= tokens /\ tokens' <= tokens + cost[c] /\ tokens' <= PerHour
    BY <1>0, <2>1 DEF Least, BucketBalance
  <2>3. Rate * (refilled + recounted) \in Int /\ Rate * (now + recounted) \in Int
    BY <1>0, RateSum, SMTT(60)
  <2>4. tokens' \in Int
    BY DEF Shape
  <2>5. BucketBalance'
    BY <1>0, <2>1, <2>2, <2>3, <2>4, SMTT(60) DEF BucketBalance, PerHour
  <2>6. BudgetBound'
    BY <1>0, <2>1, <2>3, SMTT(60) DEF BudgetBound, PerHour
  <2> QED
    BY <2>5, <2>6
<1>3. ASSUME NEW c \in Conns, NEW e \in EgressCosts, Spend(c, e)
      PROVE  BucketBalance' /\ BudgetBound'
  <2>1. /\ tokens' = Greatest(Refill(now) - e, -PerHour) /\ refilled' = now
        /\ UNCHANGED <<taken, recounted, now>> /\ e \in Nat
    BY <1>3, GateAssumption, SMTT(60) DEF Spend
  <2>2. /\ Refill(now) \in Int /\ tokens <= Refill(now) /\ Refill(now) <= PerHour
        /\ taken + Refill(now) <=
              PerHour + Rate * (now + (recounted + Greatest(refilled - now, 0)))
    BY <1>0, RefillFacts
  <2>3. Greatest(refilled - now, 0) = 0
    BY <1>0, SMTT(60) DEF Greatest, ClockAhead
  <2>4. /\ taken + Refill(now) <= PerHour + Rate * (now + recounted)
        /\ Rate * (now + recounted) \in Int
    BY <1>0, <2>2, <2>3, RateSum, SMTT(60)
  <2>5. tokens' <= Refill(now) /\ -PerHour <= tokens' /\ tokens' \in Int
    BY <1>0, <2>1, <2>2, SMTT(60) DEF Greatest, BucketBalance
  <2> QED
    BY <1>0, <2>1, <2>2, <2>4, <2>5, SMTT(60)
       DEF BucketBalance, BudgetBound, PerHour
<1>4. CASE Tick
  <2>1. Rate * (now + recounted) <= Rate * ((now + 1) + recounted)
    BY <1>0, RateSum
  <2>2. Rate * (now + recounted) \in Int /\ Rate * ((now + 1) + recounted) \in Int
    BY <1>0, RateSum, SMTT(60)
  <2> QED
    BY <1>0, <1>4, <2>1, <2>2, SMTT(60)
       DEF Tick, budgetVars, BucketBalance, BudgetBound, PerHour
<1>5. ASSUME UNCHANGED <<budgetVars, now>>
      PROVE  BucketBalance' /\ BudgetBound'
  BY <1>5, ZenonT(60) DEF budgetVars, BucketBalance, BudgetBound, PerHour
<1>6. ASSUME NEW c \in Conns,
             \/ Request(c) \/ JoinQueue(c) \/ Acquire(c) \/ Timeout(c)
             \/ Leave(c) \/ Admitted(c) \/ Release(c)
             \/ \E e \in EgressCosts : FinishServing(c, e)
      PROVE  UNCHANGED <<budgetVars, now>>
  BY <1>6 DEF Request, PresentOk, AcceptApiKey, PresentFailed, AdmitFree, Charge,
              EnterLane, Disconnect, JoinQueue, Acquire, Timeout, Leave, Admitted,
              Release, FinishServing
<1>7. CASE UNCHANGED vars
  BY <1>5, <1>7, SMTT(60) DEF vars
<1> QED
  BY <1>1, <1>2, <1>3, <1>4, <1>5, <1>6, <1>7 DEF Next, Serve, Decide

-----------------------------------------------------------------------------
(* The lane: permits, queue and the count of frames inside enter_lane.     *)

LaneInv == permits \in Nat /\ PermitsConserved /\ QueueIsWaiters /\ WaitingCounts

\* One connection more, or one less, in a set of connections.
LEMMA CountFacts ==
    ASSUME NEW S \in SUBSET Conns, NEW c \in Conns
    PROVE  /\ IsFiniteSet(S) /\ Cardinality(S) \in Nat
           /\ c \notin S => Cardinality(S \cup {c}) = Cardinality(S) + 1
           /\ c \in S => /\ Cardinality(S \ {c}) = Cardinality(S) - 1
                        /\ Cardinality(S) > 0
<1>1. IsFiniteSet(S)
  BY FS_Subset, GateAssumption
<1>2. Cardinality(S) \in Nat
  BY <1>1, FS_CardinalityType
<1>3. c \in S => Cardinality(S) # 0
  BY <1>1, FS_EmptySet
<1>4. c \notin S => Cardinality(S \cup {c}) = Cardinality(S) + 1
  BY <1>1, FS_AddElement
<1>5. c \in S => Cardinality(S \ {c}) = Cardinality(S) - 1
  BY <1>1, FS_RemoveElement, SMTT(60)
<1> QED
  BY <1>1, <1>2, <1>3, <1>4, <1>5, SMTT(60)

\* A step that keeps the queue, the waiters, the holders and the frames inside.
LEMMA LaneFrame ==
    ASSUME LaneInv, UNCHANGED laneVars, Holders' = Holders, Inside' = Inside,
           \A c \in Conns : pc'[c] = "queued" <=> pc[c] = "queued"
    PROVE  LaneInv'
BY SMTT(60) DEF LaneInv, laneVars, PermitsConserved, QueueIsWaiters, WaitingCounts

\* A frame that moves between two places that hold the same lane resources.
LEMMA SameResources ==
    ASSUME Shape, NEW c \in Conns, NEW t \in Steps, Goto(c, t),
           pc[c] \in {"granted", "lane", "release"} <=> t \in {"granted", "lane", "release"},
           pc[c] \in {"acquire", "queued", "granted", "refund", "leave"}
              <=> t \in {"acquire", "queued", "granted", "refund", "leave"},
           pc[c] = "queued" <=> t = "queued"
    PROVE  /\ Holders' = Holders /\ Inside' = Inside
           /\ \A d \in Conns : pc'[d] = "queued" <=> pc[d] = "queued"
BY ZenonT(60) DEF Shape, Goto, Holders, Inside

\* fetch_add: one frame more inside.
LEMMA JoinQueueLane ==
    ASSUME Shape, LaneInv, NEW c \in Conns, JoinQueue(c)
    PROVE  LaneInv'
<1>1. /\ Inside' = Inside \cup {c} /\ c \notin Inside /\ Holders' = Holders
      /\ \A d \in Conns : pc'[d] = "queued" <=> pc[d] = "queued"
  BY ZenonT(60) DEF JoinQueue, Goto, Shape, Inside, Holders
<1>2. Cardinality(Inside') = Cardinality(Inside) + 1
  BY <1>1, CountFacts, SMTT(60) DEF Inside
<1> QED
  BY <1>1, <1>2
     DEF JoinQueue, LaneInv, PermitsConserved, QueueIsWaiters, WaitingCounts

\* The guard is dropped: one frame less inside.
LEMMA DropWaitingLane ==
    ASSUME Shape, LaneInv, NEW c \in Conns, Leave(c) \/ Admitted(c)
    PROVE  LaneInv'
<1>1. /\ Inside' = Inside \ {c} /\ c \in Inside /\ Holders' = Holders
      /\ \A d \in Conns : pc'[d] = "queued" <=> pc[d] = "queued"
  BY Zenon DEF Leave, Admitted, Goto, Shape, Inside, Holders
<1>2. Cardinality(Inside') = Cardinality(Inside) - 1
  BY <1>1, CountFacts, ZenonT(60) DEF Inside
<1>3. waiting' = waiting - 1 /\ UNCHANGED <<permits, queue>>
  BY DEF Leave, Admitted
<1> QED
  BY <1>1, <1>2, <1>3, SMTT(60)
     DEF LaneInv, PermitsConserved, QueueIsWaiters, WaitingCounts

\* A permit is taken, or the frame goes to the back of the queue.
LEMMA AcquireLane ==
    ASSUME Shape, LaneInv, NEW c \in Conns, Acquire(c)
    PROVE  LaneInv'
<1>1. CASE permits > 0
  <2>1. /\ Holders' = Holders \cup {c} /\ c \notin Holders /\ Inside' = Inside
        /\ permits' = permits - 1 /\ UNCHANGED <<queue, waiting>>
        /\ \A d \in Conns : pc'[d] = "queued" <=> pc[d] = "queued"
    BY <1>1, ZenonT(60) DEF Acquire, Goto, Shape, Inside, Holders
  <2>2. Cardinality(Holders') = Cardinality(Holders) + 1 /\ Cardinality(Holders) \in Nat
    BY <2>1, CountFacts, ZenonT(60) DEF Holders
  <2> QED
    BY <1>1, <2>1, <2>2, GateAssumption, SMTT(60)
       DEF LaneInv, PermitsConserved, QueueIsWaiters, WaitingCounts
<1>2. CASE ~(permits > 0)
  <2>1. /\ Holders' = Holders /\ Inside' = Inside /\ queue' = Append(queue, c)
        /\ UNCHANGED <<permits, waiting>> /\ pc[c] # "queued"
        /\ \A d \in Conns : pc'[d] = "queued" <=> d = c \/ pc[d] = "queued"
    BY <1>2, Zenon DEF Acquire, Goto, Shape, Inside, Holders
  <2>2. /\ DOMAIN queue' = 1..(Len(queue) + 1) /\ DOMAIN queue = 1..Len(queue)
        /\ \A i \in DOMAIN queue : queue'[i] = queue[i]
        /\ queue'[Len(queue) + 1] = c /\ Len(queue) \in Nat
    <3>1. queue \in Seq(Conns) /\ Len(queue) \in Nat /\ DOMAIN queue = 1..Len(queue)
      BY DEF Shape
    <3>2. /\ Append(queue, c) \in Seq(Conns) /\ Len(Append(queue, c)) = Len(queue) + 1
          /\ \A i \in 1..Len(queue) : Append(queue, c)[i] = queue[i]
          /\ Append(queue, c)[Len(queue) + 1] = c
      BY <3>1
    <3> QED
      BY <2>1, <3>1, <3>2
  <2>3. \A i \in DOMAIN queue : queue[i] # c
    BY <2>1 DEF LaneInv, QueueIsWaiters
  <2>4. \A d \in Conns : pc'[d] = "queued" <=> \E i \in DOMAIN queue' : queue'[i] = d
    <3> TAKE d \in Conns
    <3>1. (\E i \in DOMAIN queue' : queue'[i] = d)
             <=> d = c \/ \E i \in DOMAIN queue : queue[i] = d
      BY <2>2, SMTT(60)
    <3> QED
      BY <2>1, <3>1 DEF LaneInv, QueueIsWaiters
  <2>5. \A i, j \in DOMAIN queue' : queue'[i] = queue'[j] => i = j
    BY <2>2, <2>3, SMTT(60) DEF LaneInv, QueueIsWaiters
  <2>6. PermitsConserved'
    BY <1>2, <2>1, ZenonT(60) DEF LaneInv, PermitsConserved
  <2> QED
    BY <2>1, <2>4, <2>5, <2>6, Zenon DEF LaneInv, QueueIsWaiters, WaitingCounts
<1> QED
  BY <1>1, <1>2, ZenonT(60)

\* A frame whose wait is over leaves the queue; the order of the rest stays.
LEMMA TimeoutLane ==
    ASSUME Shape, LaneInv, NEW c \in Conns, Timeout(c)
    PROVE  LaneInv'
<1>1. /\ Holders' = Holders /\ Inside' = Inside /\ UNCHANGED <<permits, waiting>>
      /\ \A d \in Conns : pc'[d] = "queued" <=> d # c /\ pc[d] = "queued"
  BY Zenon DEF Timeout, Goto, Shape, Inside, Holders
<1>2. PICK i \in DOMAIN queue : queue[i] = c /\ queue' = Without(queue, i)
  BY Zenon DEF Timeout, Without
<1>3. queue \in Seq(Conns) /\ Len(queue) \in Nat /\ DOMAIN queue = 1..Len(queue)
  BY DEF Shape
<1>4. /\ DOMAIN queue' = 1..(Len(queue) - 1)
      /\ \A j \in 1..(Len(queue) - 1) :
            queue'[j] = IF j < i THEN queue[j] ELSE queue[j + 1]
  <2>1. /\ Without(queue, i) \in Seq(Conns) /\ Len(Without(queue, i)) = Len(queue) - 1
        /\ \A j \in 1..(Len(queue) - 1) :
              Without(queue, i)[j] = IF j < i THEN queue[j] ELSE queue[j + 1]
    BY <1>3, WithoutFacts, Zenon
  <2> QED
    BY <1>2, <2>1, SMTT(60)
<1>5. \A j, k \in DOMAIN queue : queue[j] = queue[k] => j = k
  BY SMTT(60) DEF LaneInv, QueueIsWaiters
<1>6. \A d \in Conns : (\E j \in DOMAIN queue' : queue'[j] = d)
                         <=> d # c /\ \E j \in DOMAIN queue : queue[j] = d
  <2> TAKE d \in Conns
  <2>1. ASSUME NEW j \in DOMAIN queue', queue'[j] = d
        PROVE  d # c /\ \E k \in DOMAIN queue : queue[k] = d
    <3>1. CASE j < i
      BY <1>2, <1>3, <1>4, <1>5, <2>1, <3>1, SMTT(60)
    <3>2. CASE ~(j < i)
      <4>1. j + 1 \in DOMAIN queue /\ j + 1 # i /\ queue[j + 1] = d
        BY <1>3, <1>4, <2>1, <3>2
      <4> QED
        BY <1>2, <1>5, <4>1, SMTT(60)
    <3> QED
      BY <3>1, <3>2, SMTT(60)
  <2>2. ASSUME NEW k \in DOMAIN queue, queue[k] = d, d # c
        PROVE  \E j \in DOMAIN queue' : queue'[j] = d
    <3>1. CASE k < i
      <4>1. k \in DOMAIN queue' /\ queue'[k] = d
        BY <1>3, <1>4, <2>2, <3>1, SMTT(60)
      <4> QED
        BY <4>1, SMTT(60)
    <3>2. CASE ~(k < i)
      <4>1. k - 1 \in DOMAIN queue' /\ ~(k - 1 < i) /\ (k - 1) + 1 = k
        BY <1>2, <1>3, <1>4, <2>2, <3>2, SMTT(60)
      <4>2. queue'[k - 1] = d
        BY <1>4, <2>2, <4>1, SMTT(60)
      <4> QED
        BY <4>1, <4>2, SMTT(60)
    <3> QED
      BY <3>1, <3>2
  <2> QED
    BY <2>1, <2>2, SMTT(60)
<1>7. \A j, k \in DOMAIN queue' : queue'[j] = queue'[k] => j = k
  BY <1>3, <1>4, <1>5, SMTT(60)
<1>8. PermitsConserved'
  <2>1. queue # <<>>
    BY <1>2
  <2> QED
    BY <1>1, <2>1 DEF LaneInv, PermitsConserved
<1> QED
  BY <1>1, <1>6, <1>7, <1>8, SMTT(60) DEF LaneInv, QueueIsWaiters, WaitingCounts

\* A dropped permit goes to the oldest waiter, or back when nobody waits.
LEMMA ReleaseLane ==
    ASSUME Shape, LaneInv, NEW c \in Conns, Release(c)
    PROVE  LaneInv'
<1>1. CASE queue = <<>>
  <2>1. /\ Holders' = Holders \ {c} /\ c \in Holders /\ Inside' = Inside
        /\ permits' = permits + 1 /\ UNCHANGED <<queue, waiting>>
        /\ \A d \in Conns : pc'[d] = "queued" <=> pc[d] = "queued"
    BY <1>1, ZenonT(60) DEF Release, Goto, Shape, Inside, Holders
  <2>2. Cardinality(Holders') = Cardinality(Holders) - 1 /\ Cardinality(Holders) \in Nat
    BY <2>1, CountFacts, ZenonT(60) DEF Holders
  <2> QED
    BY <1>1, <2>1, <2>2, GateAssumption, SMTT(60)
       DEF LaneInv, PermitsConserved, QueueIsWaiters, WaitingCounts
<1>2. CASE queue # <<>>
  <2>1. queue \in Seq(Conns) /\ Len(queue) \in Nat /\ DOMAIN queue = 1..Len(queue)
    BY DEF Shape
  <2>2. /\ Len(queue) > 0 /\ Head(queue) = queue[1] /\ Head(queue) \in Conns
        /\ Tail(queue) \in Seq(Conns) /\ Len(Tail(queue)) = Len(queue) - 1
        /\ \A i \in 1..(Len(queue) - 1) : Tail(queue)[i] = queue[i + 1]
    BY <1>2, <2>1
  <2>3. PICK h \in Conns : h = Head(queue)
    BY <2>2
  <2>4. pc[h] = "queued" /\ h # c
    BY <2>1, <2>2, <2>3 DEF LaneInv, QueueIsWaiters, Release
  <2>5. /\ queue' = Tail(queue) /\ UNCHANGED <<permits, waiting>>
        /\ pc' = [pc EXCEPT ![c] = "idle", ![h] = "granted"]
    BY <1>2, <2>3 DEF Release
  <2>6. /\ Holders' = (Holders \ {c}) \cup {h} /\ c \in Holders /\ h \notin Holders
        /\ Inside' = Inside
        /\ \A d \in Conns : pc'[d] = "queued" <=> d # h /\ pc[d] = "queued"
    BY <2>4, <2>5, ZenonT(60) DEF Release, Shape, Inside, Holders
  <2>7. Cardinality(Holders') = Cardinality(Holders)
    <3>1. Cardinality(Holders \ {c}) = Cardinality(Holders) - 1 /\ Cardinality(Holders) \in Nat
      BY <2>6, CountFacts DEF Holders
    <3>2. Holders \ {c} \in SUBSET Conns /\ h \notin Holders \ {c}
      BY <2>6 DEF Holders
    <3>3. Cardinality((Holders \ {c}) \cup {h}) = Cardinality(Holders \ {c}) + 1
      BY <3>2, CountFacts, SMTT(60)
    <3> QED
      BY <2>6, <3>1, <3>3
  <2>8. /\ DOMAIN queue' = 1..(Len(queue) - 1)
        /\ \A i \in 1..(Len(queue) - 1) : queue'[i] = queue[i + 1]
    BY <2>1, <2>2, <2>5, SMTT(60)
  <2>9. \A j, k \in DOMAIN queue : queue[j] = queue[k] => j = k
    BY SMTT(60) DEF LaneInv, QueueIsWaiters
  <2>10. \A d \in Conns : (\E j \in DOMAIN queue' : queue'[j] = d)
                            <=> d # h /\ \E j \in DOMAIN queue : queue[j] = d
    <3> TAKE d \in Conns
    <3>1. ASSUME NEW j \in DOMAIN queue', queue'[j] = d
          PROVE  d # h /\ \E k \in DOMAIN queue : queue[k] = d
      <4>1. j + 1 \in DOMAIN queue /\ j + 1 # 1 /\ queue[j + 1] = d
        BY <2>1, <2>8, <3>1, SMTT(60)
      <4>2. 1 \in DOMAIN queue /\ queue[1] = h
        BY <2>1, <2>2, <2>3, SMTT(60)
      <4> QED
        BY <2>9, <4>1, <4>2, SMTT(60)
    <3>2. ASSUME NEW k \in DOMAIN queue, queue[k] = d, d # h
          PROVE  \E j \in DOMAIN queue' : queue'[j] = d
      <4>1. k - 1 \in DOMAIN queue' /\ (k - 1) + 1 = k
        BY <2>1, <2>2, <2>3, <2>8, <3>2, SMTT(60)
      <4>2. queue'[k - 1] = d
        BY <2>8, <3>2, <4>1, SMTT(60)
      <4> QED
        BY <4>1, <4>2, SMTT(60)
    <3> QED
      BY <3>1, <3>2, SMTT(60)
  <2>11. \A j, k \in DOMAIN queue' : queue'[j] = queue'[k] => j = k
    BY <2>1, <2>8, <2>9, SMTT(60)
  <2>12. PermitsConserved'
    BY <1>2, <2>5, <2>7 DEF LaneInv, PermitsConserved
  <2> QED
    BY <2>5, <2>6, <2>10, <2>11, <2>12, Zenon
       DEF LaneInv, QueueIsWaiters, WaitingCounts
<1> QED
  BY <1>1, <1>2

\* Every step of every connection keeps the lane consistent.
LEMMA LaneStep ==
    ASSUME Shape, LaneInv, [Next]_vars
    PROVE  LaneInv'
<1>1. ASSUME UNCHANGED <<pc, laneVars>>
      PROVE  LaneInv'
  <2>1. Holders' = Holders /\ Inside' = Inside
    BY <1>1, ZenonT(60) DEF Holders, Inside
  <2> QED
    BY <1>1, <2>1, LaneFrame, SMTT(60)
<1>2. ASSUME NEW c \in Conns, NEW t \in {"idle", "serving", "enter", "closed"},
             pc[c] \in {"idle", "serving"}, Goto(c, t), UNCHANGED laneVars
      PROVE  LaneInv'
  BY <1>2, SameResources, LaneFrame, SMTT(60) DEF Steps
<1>3. ASSUME NEW c \in Conns, Request(c)
      PROVE  LaneInv'
  <2>1. CASE PresentOk(c) \/ AcceptApiKey(c)
    BY <1>1, <2>1, SMTT(60) DEF PresentOk, AcceptApiKey
  <2>2. CASE PresentFailed(c)
    BY <1>2, <2>2, SMTT(60) DEF PresentFailed
  <2>3. CASE AdmitFree(c) \/ Disconnect(c)
    BY <1>2, <2>3, ZenonT(60) DEF AdmitFree, Disconnect
  <2>4. ASSUME NEW g \in Costs, Charge(c, g) \/ EnterLane(c, g)
        PROVE  LaneInv'
    BY <1>2, <2>4, ZenonT(60) DEF Charge, EnterLane
  <2> QED
    BY <1>3, <2>1, <2>2, <2>3, <2>4, ZenonT(60) DEF Request
<1>4. ASSUME NEW c \in Conns, TryTake(c)
      PROVE  LaneInv'
  <2>1. \E t \in {"idle", "join"} : Goto(c, t)
    BY <1>4, ZenonT(60) DEF TryTake
  <2> QED
    BY <1>4, <2>1, SameResources, LaneFrame, ZenonT(60) DEF TryTake, Steps
<1>5. ASSUME NEW c \in Conns, Refund(c)
      PROVE  LaneInv'
  BY <1>5, SameResources, LaneFrame, SMTT(60) DEF Refund, Steps
<1>6. ASSUME NEW c \in Conns, NEW e \in EgressCosts, FinishServing(c, e)
      PROVE  LaneInv'
  BY <1>2, <1>6, ZenonT(60) DEF FinishServing
<1>7. ASSUME NEW c \in Conns, NEW e \in EgressCosts, Spend(c, e)
      PROVE  LaneInv'
  BY <1>7, SameResources, LaneFrame, SMTT(60) DEF Spend, Steps
<1>8. CASE Tick
  BY <1>1, <1>8, SMTT(60) DEF Tick
<1>9. CASE UNCHANGED vars
  BY <1>1, <1>9, SMTT(60) DEF vars
<1> QED
  BY <1>3, <1>4, <1>5, <1>6, <1>7, <1>8, <1>9, JoinQueueLane, AcquireLane, TimeoutLane,
     DropWaitingLane, ReleaseLane, ZenonT(60) DEF Next, Serve, Decide

-----------------------------------------------------------------------------
(* Rejected presentations.                                                 *)

\* A failure is counted only on an open connection, and the last one the
\* loop tolerates closes it.
LEMMA FailuresStep ==
    ASSUME Shape, LaneInv, FailuresStop, [Next]_vars
    PROVE  FailuresStop'
<1> USE DEF Shape, FailuresStop
<1>0. MaxFailures \in Nat \ {0}
  BY GateAssumption
<1>1. ASSUME NEW c \in Conns, PresentFailed(c)
      PROVE  FailuresStop'
  BY <1>0, <1>1 DEF PresentFailed, Goto
<1>2. ASSUME UNCHANGED failures, \A d \in Conns : pc[d] = "closed" => pc'[d] = "closed"
      PROVE  FailuresStop'
  BY <1>2, ZenonT(60)
<1>3. ASSUME NEW c \in Conns, NEW t \in Steps, pc[c] # "closed", Goto(c, t), UNCHANGED failures
      PROVE  FailuresStop'
  BY <1>2, <1>3, SMTT(60) DEF Goto
<1>4. ASSUME NEW c \in Conns, Request(c), ~PresentFailed(c)
      PROVE  FailuresStop'
  <2>1. CASE PresentOk(c) \/ AcceptApiKey(c)
    BY <1>2, <2>1, SMTT(60) DEF PresentOk, AcceptApiKey
  <2>2. CASE AdmitFree(c) \/ Disconnect(c)
    BY <1>3, <2>2, Zenon DEF AdmitFree, Disconnect, Steps, connVars
  <2>3. ASSUME NEW g \in Costs, Charge(c, g) \/ EnterLane(c, g)
        PROVE  FailuresStop'
    BY <1>3, <2>3, ZenonT(60) DEF Charge, EnterLane, Steps, connVars
  <2> QED
    BY <1>4, <2>1, <2>2, <2>3, ZenonT(60) DEF Request
<1>5. ASSUME NEW c \in Conns, Serve(c)
      PROVE  FailuresStop'
  <2>1. CASE TryTake(c) \/ JoinQueue(c) \/ Acquire(c)
    <3>1. pc[c] # "closed" /\ UNCHANGED failures /\ \E t \in Steps : Goto(c, t)
      BY <2>1, ZenonT(60) DEF TryTake, JoinQueue, Acquire, Steps, connVars
    <3> QED
      BY <1>3, <3>1, ZenonT(60)
  <2>2. CASE Timeout(c) \/ Refund(c) \/ Leave(c) \/ Admitted(c)
    BY <1>3, <2>2, ZenonT(60) DEF Timeout, Refund, Leave, Admitted, Steps, connVars
  <2>3. CASE Release(c)
    <3>1. CASE queue = <<>>
      BY <1>3, <2>3, <3>1, Zenon DEF Release, Steps, connVars
    <3>2. CASE queue # <<>>
      <4>1. Head(queue) = queue[1] /\ 1 \in DOMAIN queue /\ Head(queue) \in Conns
        BY <3>2
      <4>2. pc[Head(queue)] = "queued"
        BY <4>1 DEF LaneInv, QueueIsWaiters
      <4> QED
        BY <1>2, <2>3, <3>2, <4>1, <4>2, ZenonT(60) DEF Release, connVars
    <3> QED
      BY <3>1, <3>2, SMTT(60)
  <2>4. ASSUME NEW e \in EgressCosts, FinishServing(c, e) \/ Spend(c, e)
        PROVE  FailuresStop'
    BY <1>3, <2>4, Zenon DEF FinishServing, Spend, Steps, connVars
  <2> QED
    BY <1>5, <2>1, <2>2, <2>3, <2>4, Zenon DEF Serve, Decide
<1>6. CASE Tick
  BY <1>2, <1>6, ZenonT(60) DEF Tick, connVars
<1>7. CASE UNCHANGED vars
  BY <1>2, <1>7, ZenonT(60) DEF vars, connVars
<1> QED
  BY <1>1, <1>4, <1>5, <1>6, <1>7, Zenon DEF Next

-----------------------------------------------------------------------------
(* What the budget's gas was spent on.                                     *)

AccountInv == IsFiniteSet(UndecidedGas) /\ BudgetAccounted

\* A frame has as many units of gas as it costs.
LEMMA UnitsFacts ==
    ASSUME Shape, NEW c \in Conns
    PROVE  IsFiniteSet(GasUnits(c)) /\ Cardinality(GasUnits(c)) = cost[c]
<1>1. cost[c] \in Nat
  BY DEF Shape
<1>2. IsFiniteSet(1..cost[c]) /\ Cardinality(1..cost[c]) = cost[c]
  BY <1>1, FS_Interval, SMT
<1>3. IsFiniteSet({c}) /\ Cardinality({c}) = 1
  BY FS_Singleton, Zenon
<1>4. /\ IsFiniteSet({c} \X (1..cost[c]))
      /\ Cardinality({c} \X (1..cost[c])) = Cardinality({c}) * Cardinality(1..cost[c])
  BY <1>2, <1>3, FS_Product, Zenon
<1> QED
  BY <1>1, <1>2, <1>3, <1>4, SMT DEF GasUnits

\* The size of a set that another one is split off from.
LEMMA DisjointSizes ==
    ASSUME NEW A, NEW B, IsFiniteSet(A), IsFiniteSet(B), A \cap B = {}
    PROVE  /\ IsFiniteSet(A \cup B) /\ Cardinality(A) \in Nat
           /\ Cardinality(A \cup B) = Cardinality(A) + Cardinality(B)
<1>1. /\ IsFiniteSet(A \cup B)
      /\ Cardinality(A \cup B) = Cardinality(A) + Cardinality(B) - Cardinality(A \cap B)
  BY FS_Union, Zenon
<1>2. Cardinality(A \cap B) = 0 /\ Cardinality(A) \in Nat /\ Cardinality(B) \in Nat
  BY FS_EmptySet, FS_CardinalityType, Zenon
<1> QED
  BY <1>1, <1>2, SMT

\* A step that decides nothing and takes nothing keeps the account.
LEMMA AccountFrame ==
    ASSUME AccountInv, UNCHANGED <<taken, freeGas>>, Undecided' = Undecided,
           \A c \in Undecided : cost'[c] = cost[c]
    PROVE  AccountInv'
<1>1. \A c \in Undecided : GasUnits(c)' = GasUnits(c)
  BY Zenon DEF GasUnits
<1>2. UndecidedGas' = UndecidedGas
  BY <1>1, Zenon DEF UndecidedGas
<1> QED
  BY <1>2, Zenon DEF AccountInv, BudgetAccounted

\* The budget pays for a frame: its gas is undecided from now on.
LEMMA AccountAdds ==
    ASSUME Shape, AccountInv, NEW c \in Conns, c \notin Undecided,
           Undecided' = Undecided \cup {c}, UNCHANGED <<cost, freeGas>>,
           taken' = taken + cost[c]
    PROVE  AccountInv'
<1>1. UndecidedGas' = UndecidedGas \cup GasUnits(c)
  BY Zenon DEF UndecidedGas, GasUnits
<1>2. UndecidedGas \cap GasUnits(c) = {}
  BY SMT DEF UndecidedGas, GasUnits
<1>3. IsFiniteSet(GasUnits(c)) /\ Cardinality(GasUnits(c)) = cost[c]
  BY UnitsFacts
<1>4. /\ IsFiniteSet(UndecidedGas \cup GasUnits(c)) /\ Cardinality(UndecidedGas) \in Nat
      /\ Cardinality(UndecidedGas \cup GasUnits(c)) = Cardinality(UndecidedGas) + cost[c]
  BY <1>2, <1>3, DisjointSizes, Zenon DEF AccountInv
<1>5. taken = freeGas + Cardinality(UndecidedGas) /\ freeGas \in Nat /\ cost[c] \in Nat
  BY ZenonT(60) DEF AccountInv, BudgetAccounted, Shape
<1>6. taken' = freeGas' + Cardinality(UndecidedGas \cup GasUnits(c))
  BY <1>4, <1>5, SMT
<1> QED
  BY <1>1, <1>4, <1>6, Zenon DEF AccountInv, BudgetAccounted

\* A frame is decided: its gas goes back to the budget, or was free work.
LEMMA AccountRemoves ==
    ASSUME Shape, AccountInv, NEW c \in Conns, c \in Undecided,
           Undecided' = Undecided \ {c}, \A d \in Undecided' : cost'[d] = cost[d],
           \/ taken' = taken - cost[c] /\ freeGas' = freeGas
           \/ taken' = taken /\ freeGas' = freeGas + cost[c]
    PROVE  AccountInv'
<1>1. \A d \in Undecided' : GasUnits(d)' = GasUnits(d)
  BY Zenon DEF GasUnits
<1>2. UndecidedGas = UndecidedGas' \cup GasUnits(c)
  BY <1>1, Zenon DEF UndecidedGas
<1>3. UndecidedGas' \cap GasUnits(c) = {}
  <2>1. UndecidedGas' = UNION {GasUnits(d) : d \in Undecided \ {c}}
    BY <1>1, Zenon DEF UndecidedGas
  <2> QED
    BY <2>1, SMT DEF GasUnits
<1>4. IsFiniteSet(GasUnits(c)) /\ Cardinality(GasUnits(c)) = cost[c]
  BY UnitsFacts
<1>5. IsFiniteSet(UndecidedGas')
  BY <1>2, FS_Subset, Zenon DEF AccountInv
<1>6. /\ Cardinality(UndecidedGas') \in Nat
      /\ Cardinality(UndecidedGas) = Cardinality(UndecidedGas') + cost[c]
  BY <1>2, <1>3, <1>4, <1>5, DisjointSizes, Zenon
<1>7. taken = freeGas + Cardinality(UndecidedGas) /\ freeGas \in Nat /\ cost[c] \in Nat
  BY DEF AccountInv, BudgetAccounted, Shape
<1>8. taken' = freeGas' + Cardinality(UndecidedGas')
  BY <1>6, <1>7, SMT
<1> QED
  BY <1>5, <1>8, Zenon DEF AccountInv, BudgetAccounted

\* Where one connection goes decides what becomes of its gas.
LEMMA AccountGoto ==
    ASSUME Shape, NEW c \in Conns, NEW t \in Steps, Goto(c, t)
    PROVE  Undecided' = IF t \in {"join", "acquire", "queued", "granted", "refund"}
                          THEN Undecided \cup {c} ELSE Undecided \ {c}
BY ZenonT(60) DEF Shape, Goto, Undecided

\* Every step keeps the account.
LEMMA AccountStep ==
    ASSUME Shape, LaneInv, AccountInv, [Next]_vars
    PROVE  AccountInv'
<1>1. ASSUME UNCHANGED <<pc, cost, taken, freeGas>>
      PROVE  AccountInv'
  <2>1. Undecided' = Undecided
    BY <1>1 DEF Undecided
  <2> QED
    BY <1>1, <2>1, AccountFrame
<1>2. ASSUME NEW c \in Conns, NEW t \in Steps, Goto(c, t), UNCHANGED <<taken, freeGas>>,
             c \in Undecided <=> t \in {"join", "acquire", "queued", "granted", "refund"},
             \A d \in Undecided : cost'[d] = cost[d]
      PROVE  AccountInv'
  <2>1. Undecided' = Undecided
    BY <1>2, AccountGoto, SMTT(60)
  <2> QED
    BY <1>2, <2>1, AccountFrame, ZenonT(60)
<1>3. ASSUME NEW c \in Conns, Request(c)
      PROVE  AccountInv'
  <2>1. CASE PresentOk(c) \/ AcceptApiKey(c)
    BY <1>1, <2>1, ZenonT(60) DEF PresentOk, AcceptApiKey, frameVars, budgetVars
  <2>2. c \notin Undecided
    BY <1>3, <2>1 DEF Request, PresentOk, AcceptApiKey, PresentFailed, AdmitFree, Charge,
                      EnterLane, Disconnect, Undecided
  <2>3. CASE PresentFailed(c)
    BY <1>2, <2>2, <2>3, Zenon DEF PresentFailed, Steps, frameVars, budgetVars
  <2>4. CASE AdmitFree(c) \/ Disconnect(c) \/ \E g \in Costs : Charge(c, g)
    BY <1>2, <2>2, <2>4, Zenon
       DEF AdmitFree, Disconnect, Charge, Steps, frameVars, budgetVars
  <2>5. ASSUME NEW g \in Costs, EnterLane(c, g)
        PROVE  AccountInv'
    <3>1. \A d \in Undecided : cost'[d] = cost[d]
      BY <2>2, <2>5 DEF EnterLane, Shape, Undecided
    <3> QED
      BY <1>2, <2>2, <2>5, <3>1, Zenon DEF EnterLane, Steps, budgetVars
  <2> QED
    BY <1>3, <2>1, <2>3, <2>4, <2>5, Zenon DEF Request
<1>4. ASSUME NEW c \in Conns, TryTake(c)
      PROVE  AccountInv'
  <2>1. c \notin Undecided
    BY <1>4, ZenonT(60) DEF TryTake, Undecided
  <2>2. CASE Goto(c, "join") /\ taken' = taken + cost[c] /\ UNCHANGED cost
    <3>1. Undecided' = Undecided \cup {c}
      BY <2>2, AccountGoto, Zenon DEF Steps
    <3> QED
      BY <1>4, <2>1, <2>2, <3>1, AccountAdds DEF TryTake
  <2>3. CASE Goto(c, "idle") /\ Forget(c) /\ UNCHANGED taken
    <3>1. \A d \in Undecided : cost'[d] = cost[d]
      BY <2>1, <2>3 DEF Forget, Shape, Undecided
    <3> QED
      BY <1>2, <1>4, <2>1, <2>3, <3>1, Zenon DEF TryTake, Steps
  <2> QED
    BY <1>4, <2>2, <2>3, Zenon DEF TryTake
<1>5. ASSUME NEW c \in Conns, JoinQueue(c) \/ Acquire(c) \/ Timeout(c)
      PROVE  AccountInv'
  <2>1. c \in Undecided /\ UNCHANGED <<cost, taken, freeGas>>
    BY <1>5 DEF JoinQueue, Acquire, Timeout, Undecided, frameVars, budgetVars
  <2>2. \E t \in {"acquire", "queued", "granted", "refund"} : Goto(c, t)
    BY <1>5, Zenon DEF JoinQueue, Acquire, Timeout
  <2> QED
    BY <1>2, <2>1, <2>2, Zenon DEF Steps
<1>6. ASSUME NEW c \in Conns, Refund(c) \/ Admitted(c)
      PROVE  AccountInv'
  <2>1. c \in Undecided /\ Forget(c) /\ (Goto(c, "leave") \/ Goto(c, "lane"))
    BY <1>6 DEF Refund, Admitted, Undecided
  <2>2. Undecided' = Undecided \ {c}
    BY <2>1, AccountGoto, Zenon DEF Steps
  <2>3. \A d \in Undecided' : cost'[d] = cost[d]
    BY <2>1, <2>2 DEF Forget, Shape, Undecided
  <2>4. \/ taken' = taken - cost[c] /\ freeGas' = freeGas
        \/ taken' = taken /\ freeGas' = freeGas + cost[c]
    BY <1>6, Zenon DEF Refund, Admitted, budgetVars
  <2> QED
    BY <2>1, <2>2, <2>3, <2>4, AccountRemoves, ZenonT(60)
<1>7. ASSUME NEW c \in Conns, Release(c)
      PROVE  AccountInv'
  <2>1. c \notin Undecided /\ UNCHANGED <<cost, taken, freeGas>>
    BY <1>7 DEF Release, Undecided, frameVars, budgetVars
  <2>2. CASE queue = <<>>
    BY <1>2, <1>7, <2>1, <2>2, Zenon DEF Release, Steps
  <2>3. CASE queue # <<>>
    <3>1. Head(queue) = queue[1] /\ 1 \in DOMAIN queue /\ Head(queue) \in Conns
      BY <2>3 DEF Shape
    <3>2. pc[Head(queue)] = "queued"
      BY <3>1 DEF LaneInv, QueueIsWaiters
    <3>3. pc' = [pc EXCEPT ![c] = "idle", ![Head(queue)] = "granted"]
      BY <1>7, <2>3 DEF Release
    <3>4. Undecided' = Undecided
      BY <1>7, <3>1, <3>2, <3>3, ZenonT(60) DEF Release, Shape, Undecided
    <3> QED
      BY <2>1, <3>4, AccountFrame
  <2> QED
    BY <2>2, <2>3
<1>8. ASSUME NEW c \in Conns, NEW e \in EgressCosts,
             FinishServing(c, e) \/ Spend(c, e)
      PROVE  AccountInv'
  <2>1. c \notin Undecided /\ UNCHANGED <<cost, taken, freeGas>>
    BY <1>8 DEF FinishServing, Spend, Undecided, frameVars, budgetVars
  <2> QED
    BY <1>2, <1>8, <2>1, Zenon DEF FinishServing, Spend, Steps
<1>9. ASSUME NEW c \in Conns, Leave(c)
      PROVE  AccountInv'
  <2>1. c \notin Undecided /\ UNCHANGED <<cost, taken, freeGas>>
    BY <1>9 DEF Leave, Undecided, frameVars, budgetVars
  <2> QED
    BY <1>2, <1>9, <2>1, Zenon DEF Leave, Steps
<1>10. CASE Tick
  BY <1>1, <1>10 DEF Tick, frameVars, budgetVars
<1>11. CASE UNCHANGED vars
  BY <1>1, <1>11 DEF vars, frameVars, budgetVars
<1> QED
  BY <1>3, <1>4, <1>5, <1>6, <1>7, <1>8, <1>9, <1>10, <1>11, Zenon
     DEF Next, Serve, Decide

-----------------------------------------------------------------------------
(* The inductive invariant and what follows from it.                       *)

GateInv ==
    /\ Shape /\ ClockAhead /\ FailuresStop
    /\ ChargedIsCovered /\ DeficitBounded
    /\ BucketBalance /\ BudgetBound
    /\ LaneInv /\ AccountInv

\* A server that just started: nobody owes anything, the budget is full and
\* all permits are free.
LEMMA GateInit == Init => GateInv
<1> SUFFICES ASSUME Init PROVE GateInv
  BY SMTT(60)
<1> USE DEF Init
<1>0. PerHour \in Nat /\ Rate * 0 = 0 /\ MaxTime \in Nat /\ MaxPresentations \in Nat
      /\ Concurrency \in Nat /\ MaxFailures \in Nat \ {0}
  BY GateAssumption, PerHourPositive, SMTT(60)
<1>1. Shape
  BY <1>0, SMTT(60) DEF Shape, Steps
<1>2. ClockAhead /\ FailuresStop /\ ChargedIsCovered /\ DeficitBounded
  BY <1>0, SMTT(60) DEF ClockAhead, FailuresStop, ChargedIsCovered, DeficitBounded
<1>3. BucketBalance /\ BudgetBound
  BY <1>0, SMTT(60) DEF BucketBalance, BudgetBound
<1>4. Holders = {} /\ Inside = {}
  BY SMTT(60) DEF Holders, Inside
<1>5. PermitsConserved /\ WaitingCounts
  BY <1>0, <1>4, FS_EmptySet, SMTT(60) DEF PermitsConserved, WaitingCounts
<1>6. QueueIsWaiters
  BY DEF QueueIsWaiters
<1>7. AccountInv
  <2>1. UndecidedGas = {}
    BY SMT DEF UndecidedGas, Undecided
  <2> QED
    BY <2>1, FS_EmptySet, SMT DEF AccountInv, BudgetAccounted
<1> QED
  BY <1>0, <1>1, <1>2, <1>3, <1>5, <1>6, <1>7 DEF GateInv, LaneInv

\* The invariant holds of every state the gate reaches.
LEMMA GateInvariant == Spec => []GateInv
<1>1. GateInv /\ [Next]_vars => GateInv'
  <2> SUFFICES ASSUME GateInv, [Next]_vars PROVE GateInv'
    OBVIOUS
  <2>1. Shape' /\ ClockAhead'
    BY ShapeStep DEF GateInv
  <2>2. ChargedIsCovered' /\ DeficitBounded'
    BY DeficitStep DEF GateInv
  <2>3. BucketBalance' /\ BudgetBound'
    BY <2>1, BudgetStep DEF GateInv
  <2>4. LaneInv' /\ FailuresStop' /\ AccountInv'
    BY LaneStep, FailuresStep, AccountStep DEF GateInv
  <2> QED
    BY <2>1, <2>2, <2>3, <2>4, ZenonT(60) DEF GateInv
<1> QED
  BY GateInit, <1>1, PTL DEF Spec

\* A connection never owes more than the egress of one response, whatever it
\* presents, asks for and is served (GasBalanceV1).
THEOREM BalanceDeficit == Spec => []DeficitBounded
<1>1. GateInv => DeficitBounded
  BY DEF GateInv
<1> QED
  BY GateInvariant, <1>1, PTL

\* enter_lane neither loses nor duplicates a permit, hands one only to a frame
\* that still waits for it, and FreeLane.waiting counts the frames inside.
THEOREM LaneConsistent == Spec => [](PermitsConserved /\ QueueIsWaiters /\ WaitingCounts)
<1>1. GateInv => PermitsConserved /\ QueueIsWaiters /\ WaitingCounts
  BY DEF GateInv, LaneInv
<1> QED
  BY GateInvariant, <1>1, PTL

\* GasBudget admits one full budget plus the refill of the time passed, and
\* the refill that stale readings of the clock grant again.
THEOREM FreeWorkBounded == Spec => []BudgetBound
<1>1. GateInv => BudgetBound
  BY ZenonT(60) DEF GateInv
<1> QED
  BY GateInvariant, <1>1, PTL

\* Every variable keeps its type, the bounds of the counters included: no
\* counter wraps and no connection survives its last tolerated failure.
THEOREM GateTypes == Spec => []TypeOK
<1>1. GateInv => TypeOK
  <2> SUFFICES ASSUME GateInv PROVE TypeOK
    BY SMTT(60)
  <2> USE DEF GateInv, Shape
  <2>1. permits \in 0..Concurrency
    <3>1. Cardinality(Holders) \in Nat
      <4>1. IsFiniteSet(Holders)
        BY GateAssumption, FS_Subset, SMTT(60) DEF Holders
      <4> QED
        BY <4>1, FS_CardinalityType, SMTT(60)
    <3> QED
      BY <3>1, GateAssumption, SMTT(60) DEF LaneInv, PermitsConserved
  <2>2. waiting \in Nat
    <3>1. IsFiniteSet(Inside)
      BY GateAssumption, FS_Subset, SMTT(60) DEF Inside
    <3> QED
      BY <3>1, FS_CardinalityType, ZenonT(60) DEF LaneInv, WaitingCounts
  <2>3. tokens \in -PerHour..PerHour
    BY PerHourPositive, SMTT(60) DEF BucketBalance
  <2>4. failures \in [Conns -> 0..MaxFailures] /\ stamp \in [Conns -> 0..now]
    BY GateAssumption, SMTT(60) DEF FailuresStop, ClockAhead
  <2>5. refilled \in 0..now
    BY GateAssumption DEF ClockAhead
  <2> QED
    BY <2>1, <2>2, <2>3, <2>4, <2>5, SMTT(60) DEF TypeOK
<1> QED
  BY GateInvariant, <1>1, PTL

\* All that enter_lane promises about the lane's semaphore, its queue and its
\* count, for any number of connections, slots and queue places.
THEOREM LaneIsSafe == Spec => []LaneSafe
<1>1. TypeOK /\ PermitsConserved /\ QueueIsWaiters /\ WaitingCounts => LaneSafe
  BY Zenon DEF LaneSafe
<1> QED
  BY <1>1, GateTypes, LaneConsistent, PTL

\* The account of a free lane's budget: what try_take took is what was served
\* or is being decided, a refused frame having cost nothing, and it stays
\* within a full budget and the refill, for any prices, rates and connections.
THEOREM BudgetIsSafe == Spec => []BudgetSafe
<1>1. GateInv => BudgetSafe
  BY Zenon DEF GateInv, AccountInv, BudgetSafe
<1> QED
  BY GateInvariant, <1>1, PTL
=============================================================================
