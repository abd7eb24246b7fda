---------------------------- MODULE TaskSetsProofs ----------------------------
(***************************************************************************)
(* Theorems about TaskSets, for any number of tasks, any weights and any   *)
(* number of calls.                                                        *)
(***************************************************************************)
EXTENDS TaskSets, SumTheorems, SequenceTheorems, TLAPS

(***************************************************************************)
(* SmoothRoundRobinTaskSet                                                 *)
(***************************************************************************)

RoundRobinTask == [weight : Nat \ {0}, currentWeight : Int, effectiveWeight : Nat \ {0}]

EffectiveWeights == [i \in DOMAIN rrTasks |-> rrTasks[i].effectiveWeight]
CurrentWeights == [i \in DOMAIN rrTasks |-> rrTasks[i].currentWeight]

RoundRobinType ==
  /\ rrTasks \in Seq(RoundRobinTask)
  /\ base \in [DOMAIN rrTasks -> Int] /\ picks \in [DOMAIN rrTasks -> Nat]
  /\ \A i \in DOMAIN rrTasks : rrTasks[i].effectiveWeight = rrTasks[i].weight

\* The debts cancel out, none reaches the total weight, and each is the task's
\* share of the calls since the last AddTask less what it paid for its turns.
RoundRobinInv ==
  /\ RoundRobinType
  /\ SumFunction(CurrentWeights) = 0
  /\ \A i \in DOMAIN rrTasks : rrTasks[i].currentWeight > -TotalWeight
  /\ \A i \in DOMAIN rrTasks :
       rrTasks[i].currentWeight =
         base[i] + SumFunction(picks) * rrTasks[i].weight - picks[i] * TotalWeight

\* The domains are finite intervals and the sums over them integers.
LEMMA RoundRobinSums ==
  ASSUME RoundRobinType
  PROVE  /\ Len(rrTasks) \in Nat /\ DOMAIN rrTasks = 1..Len(rrTasks)
         /\ IsFiniteSet(DOMAIN rrTasks)
         /\ TotalWeight = SumFunctionOnSet(EffectiveWeights, DOMAIN rrTasks)
         /\ SumFunction(CurrentWeights) = SumFunctionOnSet(CurrentWeights, DOMAIN rrTasks)
         /\ SumFunction(picks) = SumFunctionOnSet(picks, DOMAIN rrTasks)
         /\ TotalWeight \in Nat /\ SumFunction(picks) \in Nat
         /\ SumFunction(CurrentWeights) \in Int
         /\ \A i \in DOMAIN rrTasks :
              /\ rrTasks[i] \in RoundRobinTask /\ picks[i] \in Nat /\ base[i] \in Int
              /\ EffectiveWeights[i] = rrTasks[i].weight
              /\ CurrentWeights[i] = rrTasks[i].currentWeight
              /\ rrTasks[i].weight \in Nat \ {0} /\ rrTasks[i].currentWeight \in Int
              /\ rrTasks[i].weight <= TotalWeight
<1>1. Len(rrTasks) \in Nat /\ DOMAIN rrTasks = 1..Len(rrTasks)
  BY DEF RoundRobinType
<1>2. IsFiniteSet(DOMAIN rrTasks)
  BY <1>1, FinitePositions
<1>3. \A i \in DOMAIN rrTasks :
         /\ rrTasks[i] \in RoundRobinTask /\ picks[i] \in Nat /\ base[i] \in Int
         /\ EffectiveWeights[i] = rrTasks[i].weight
         /\ CurrentWeights[i] = rrTasks[i].currentWeight
         /\ rrTasks[i].weight \in Nat \ {0} /\ rrTasks[i].currentWeight \in Int
  <2>. TAKE i \in DOMAIN rrTasks
  <2>1. rrTasks[i] \in RoundRobinTask /\ picks[i] \in Nat /\ base[i] \in Int
    BY DEF RoundRobinType
  <2>2. /\ EffectiveWeights[i] = rrTasks[i].weight
        /\ CurrentWeights[i] = rrTasks[i].currentWeight
    BY DEF RoundRobinType, EffectiveWeights, CurrentWeights
  <2>3. rrTasks[i].weight \in Nat \ {0} /\ rrTasks[i].currentWeight \in Int
    BY <2>1 DEF RoundRobinTask
  <2>. QED BY <2>1, <2>2, <2>3
<1>4. DOMAIN EffectiveWeights = DOMAIN rrTasks /\ DOMAIN CurrentWeights = DOMAIN rrTasks
      /\ DOMAIN picks = DOMAIN rrTasks
  BY DEF RoundRobinType, EffectiveWeights, CurrentWeights
<1>5. /\ TotalWeight = SumFunctionOnSet(EffectiveWeights, DOMAIN rrTasks)
      /\ SumFunction(CurrentWeights) = SumFunctionOnSet(CurrentWeights, DOMAIN rrTasks)
      /\ SumFunction(picks) = SumFunctionOnSet(picks, DOMAIN rrTasks)
  BY <1>4, Zenon DEF TotalWeight, SumFunction, EffectiveWeights
<1>6. /\ SumFunctionOnSet(EffectiveWeights, DOMAIN rrTasks) \in Nat
      /\ \A i \in DOMAIN rrTasks :
           EffectiveWeights[i] <= SumFunctionOnSet(EffectiveWeights, DOMAIN rrTasks)
  <2>1. \A i \in DOMAIN rrTasks : EffectiveWeights[i] \in Nat
    BY <1>3
  <2>. QED BY <1>2, <2>1, SumNat
<1>7. SumFunctionOnSet(picks, DOMAIN rrTasks) \in Nat
  BY <1>2, <1>3, SumNat
<1>8. SumFunctionOnSet(CurrentWeights, DOMAIN rrTasks) \in Int
  <2>1. \A i \in DOMAIN rrTasks : CurrentWeights[i] \in Int
    BY <1>3
  <2>. QED BY <1>2, <2>1, SumType
<1>9. \A i \in DOMAIN rrTasks : rrTasks[i].weight <= TotalWeight
  BY <1>3, <1>5, <1>6
<1>. QED BY <1>1, <1>2, <1>3, <1>5, <1>6, <1>7, <1>8, <1>9

\* AddTask appends a task without debt and starts to count anew.
LEMMA RoundRobinAdd ==
  ASSUME RoundRobinInv, NEW weight \in Nat, RoundRobinAddTask(weight)
  PROVE  RoundRobinInv'
<1>1. CASE weight <= 0
  <2>1. UNCHANGED <<rrTasks, base, picks>>
    BY <1>1 DEF RoundRobinAddTask, roundRobinVars
  <2>. QED BY <2>1 DEF RoundRobinInv, RoundRobinType, CurrentWeights, TotalWeight
<1>2. CASE weight > 0
  <2>. DEFINE n == Len(rrTasks)
              new == [weight |-> weight, currentWeight |-> 0, effectiveWeight |-> weight]
  <2>0. RoundRobinType
    BY DEF RoundRobinInv
  <2>1. /\ rrTasks' = Append(rrTasks, new)
        /\ base' = [i \in DOMAIN rrTasks' |-> rrTasks'[i].currentWeight]
        /\ picks' = [i \in DOMAIN rrTasks' |-> 0]
    BY <1>2 DEF RoundRobinAddTask
  <2>2. new \in RoundRobinTask /\ new.effectiveWeight = weight /\ new.weight = weight
        /\ new.currentWeight = 0
    BY <1>2 DEF RoundRobinTask
  <2>. HIDE DEF new
  <2>3. /\ n \in Nat /\ DOMAIN rrTasks = 1..n /\ DOMAIN rrTasks' = 1..(n + 1)
        /\ rrTasks' \in Seq(RoundRobinTask)
        /\ \A i \in 1..n : rrTasks'[i] = rrTasks[i]
        /\ rrTasks'[n + 1] = new
    BY <2>0, <2>1, <2>2 DEF RoundRobinType
  <2>4. \A i \in 1..(n + 1) : i \in 1..n \/ i = n + 1
    BY <2>3
  <2>5. \A i \in 1..(n + 1) : rrTasks'[i] \in RoundRobinTask /\ rrTasks'[i].currentWeight \in Int
    <3>1. \A i \in 1..(n + 1) : rrTasks'[i] \in RoundRobinTask
      BY <2>3
    <3>. QED BY <3>1 DEF RoundRobinTask
  <2>6. RoundRobinType'
    <3>1. base' \in [DOMAIN rrTasks' -> Int] /\ picks' \in [DOMAIN rrTasks' -> Nat]
      BY <2>1, <2>3, <2>5
    <3>2. \A i \in DOMAIN rrTasks' : rrTasks'[i].effectiveWeight = rrTasks'[i].weight
      BY <2>0, <2>2, <2>3, <2>4 DEF RoundRobinType
    <3>. QED BY <2>3, <3>1, <3>2 DEF RoundRobinType
  <2>7. TotalWeight' = TotalWeight + weight
    <3>1. /\ DOMAIN EffectiveWeights = 1..n /\ DOMAIN EffectiveWeights' = 1..(n + 1)
          /\ \A i \in 1..n : EffectiveWeights[i] \in Int /\ EffectiveWeights'[i] = EffectiveWeights[i]
          /\ EffectiveWeights'[n + 1] = weight
      <4>1. DOMAIN EffectiveWeights = 1..n /\ DOMAIN EffectiveWeights' = 1..(n + 1)
        BY <2>3 DEF EffectiveWeights
      <4>2. ASSUME NEW i \in 1..n
            PROVE  EffectiveWeights[i] \in Int /\ EffectiveWeights'[i] = EffectiveWeights[i]
        <5>1. EffectiveWeights[i] = rrTasks[i].weight /\ rrTasks[i].weight \in Nat
          BY <2>0, <2>3, RoundRobinSums
        <5>2. EffectiveWeights[i] = rrTasks[i].effectiveWeight
              /\ EffectiveWeights'[i] = rrTasks'[i].effectiveWeight
          BY <2>3, <2>4 DEF EffectiveWeights
        <5>. QED BY <2>3, <5>1, <5>2
      <4>3. EffectiveWeights'[n + 1] = weight
        BY <2>2, <2>3 DEF EffectiveWeights
      <4>. QED BY <4>1, <4>2, <4>3
    <3>2. SumFunctionOnSet(EffectiveWeights', 1..(n + 1)) = SumFunctionOnSet(EffectiveWeights, 1..n) + weight
      <4>1. EffectiveWeights'[n + 1] \in Int
        BY <3>1
      <4>. QED BY <2>3, <3>1, <4>1, SumExtend
    <3>3. SumFunction(EffectiveWeights') = SumFunctionOnSet(EffectiveWeights', 1..(n + 1))
          /\ SumFunction(EffectiveWeights) = SumFunctionOnSet(EffectiveWeights, 1..n)
      BY <3>1, Zenon DEF SumFunction
    <3>. QED BY <3>2, <3>3 DEF TotalWeight, EffectiveWeights
  <2>8. SumFunction(CurrentWeights)' = 0
    <3>1. /\ DOMAIN CurrentWeights = 1..n /\ DOMAIN CurrentWeights' = 1..(n + 1)
          /\ \A i \in 1..n : CurrentWeights[i] \in Int /\ CurrentWeights'[i] = CurrentWeights[i]
          /\ CurrentWeights'[n + 1] = 0
      <4>1. DOMAIN CurrentWeights = 1..n /\ DOMAIN CurrentWeights' = 1..(n + 1)
        BY <2>3 DEF CurrentWeights
      <4>2. ASSUME NEW i \in 1..n
            PROVE  CurrentWeights[i] \in Int /\ CurrentWeights'[i] = CurrentWeights[i]
        <5>1. CurrentWeights[i] = rrTasks[i].currentWeight /\ rrTasks[i].currentWeight \in Int
          BY <2>0, <2>3, RoundRobinSums
        <5>2. CurrentWeights'[i] = rrTasks'[i].currentWeight
          BY <2>3, <2>4 DEF CurrentWeights
        <5>. QED BY <2>3, <5>1, <5>2
      <4>3. CurrentWeights'[n + 1] = 0
        BY <2>2, <2>3 DEF CurrentWeights
      <4>. QED BY <4>1, <4>2, <4>3
    <3>2. SumFunctionOnSet(CurrentWeights', 1..(n + 1)) = SumFunctionOnSet(CurrentWeights, 1..n) + 0
      <4>1. CurrentWeights'[n + 1] \in Int
        BY <3>1
      <4>. QED BY <2>3, <3>1, <4>1, SumExtend
    <3>3. SumFunction(CurrentWeights') = SumFunctionOnSet(CurrentWeights', 1..(n + 1))
          /\ SumFunction(CurrentWeights) = SumFunctionOnSet(CurrentWeights, 1..n)
      BY <3>1, Zenon DEF SumFunction
    <3>. QED BY <3>2, <3>3 DEF RoundRobinInv
  <2>9. \A i \in DOMAIN rrTasks' : rrTasks'[i].currentWeight > -TotalWeight'
    <3>. TAKE i \in DOMAIN rrTasks'
    <3>1. TotalWeight \in Nat
      BY <2>0, RoundRobinSums
    <3>2. CASE i \in 1..n
      BY <2>3, <2>5, <2>7, <3>1, <3>2 DEF RoundRobinInv
    <3>3. CASE i = n + 1
      BY <1>2, <2>2, <2>3, <2>7, <3>1, <3>3
    <3>. QED BY <2>3, <2>4, <3>2, <3>3
  <2>10. \A i \in DOMAIN rrTasks' :
           rrTasks'[i].currentWeight =
             base'[i] + SumFunction(picks') * rrTasks'[i].weight - picks'[i] * TotalWeight'
    <3>1. SumFunction(picks') = 0
      <4>1. IsFiniteSet(DOMAIN picks') /\ \A i \in DOMAIN picks' : picks'[i] = 0
        BY <2>1, <2>3, FS_Interval
      <4>. QED BY <4>1, SumZero DEF SumFunction
    <3>2. TotalWeight' \in Int
      BY <2>0, <2>7, RoundRobinSums
    <3>3. ASSUME NEW i \in DOMAIN rrTasks'
          PROVE  /\ base'[i] = rrTasks'[i].currentWeight /\ picks'[i] = 0
                 /\ rrTasks'[i].weight \in Nat /\ rrTasks'[i].currentWeight \in Int
      BY <2>1, <2>3, <2>5 DEF RoundRobinTask
    <3>. QED BY <3>1, <3>2, <3>3
  <2>. QED BY <2>6, <2>8, <2>9, <2>10 DEF RoundRobinInv
<1>. QED BY <1>1, <1>2

\* A task whose effective weight is its weight earns that weight.
LEMMA AdvanceStep ==
  ASSUME NEW t \in RoundRobinTask, t.effectiveWeight = t.weight
  PROVE  /\ Advance(t) \in RoundRobinTask
         /\ Advance(t).weight = t.weight /\ Advance(t).effectiveWeight = t.weight
         /\ Advance(t).currentWeight = t.currentWeight + t.weight
<1>. DEFINE c == t.currentWeight + t.effectiveWeight
            u == [t EXCEPT !.currentWeight = c]
            e == t.effectiveWeight
<1>1. c \in Int /\ e \in Nat \ {0} /\ c = t.currentWeight + t.weight
  BY DEF RoundRobinTask
<1>2. ~(t.effectiveWeight < t.weight)
  BY DEF RoundRobinTask
<1>3. Advance(t) = [u EXCEPT !.effectiveWeight = IF t.effectiveWeight < t.weight THEN @ + 1 ELSE @]
  BY Zenon DEF Advance, Raised
<1>. HIDE DEF c, e
<1>4. /\ u \in RoundRobinTask /\ u.weight = t.weight /\ u.currentWeight = c
      /\ u.effectiveWeight = t.effectiveWeight
  BY <1>1 DEF RoundRobinTask
<1>. HIDE DEF u
<1>5. /\ Advance(t) \in RoundRobinTask /\ Advance(t).weight = u.weight
      /\ Advance(t).effectiveWeight = e /\ Advance(t).currentWeight = u.currentWeight
  <2>1. Advance(t) = [u EXCEPT !.effectiveWeight = e]
    BY <1>2, <1>3, <1>4 DEF e
  <2>2. /\ [u EXCEPT !.effectiveWeight = e] \in RoundRobinTask
        /\ [u EXCEPT !.effectiveWeight = e].weight = u.weight
        /\ [u EXCEPT !.effectiveWeight = e].effectiveWeight = e
        /\ [u EXCEPT !.effectiveWeight = e].currentWeight = u.currentWeight
    BY <1>1, <1>4 DEF RoundRobinTask
  <2>. QED BY <2>1, <2>2
<1>. QED BY <1>1, <1>4, <1>5 DEF e

\* What one call does to each task: it earns its weight, and the one that is
\* picked, which has the largest weight and so one above zero, pays the total.
LEMMA PickStep ==
  ASSUME RoundRobinType, NEW k \in DOMAIN rrTasks, Pick(k, TotalWeight)
  PROVE  /\ rrTasks' \in Seq(RoundRobinTask) /\ DOMAIN rrTasks' = DOMAIN rrTasks
         /\ picks' \in [DOMAIN rrTasks -> Nat]
         /\ picks'[k] = picks[k] + 1
         /\ \A i \in DOMAIN rrTasks :
              /\ rrTasks'[i].weight = rrTasks[i].weight
              /\ rrTasks'[i].effectiveWeight = rrTasks[i].weight
              /\ i # k => rrTasks'[i].currentWeight = rrTasks[i].currentWeight + rrTasks[i].weight
              /\ i # k => picks'[i] = picks[i]
         /\ rrTasks'[k].currentWeight =
              rrTasks[k].currentWeight + rrTasks[k].weight - TotalWeight
<1>. DEFINE n == Len(rrTasks)
<1>1. /\ n \in Nat /\ DOMAIN rrTasks = 1..n /\ TotalWeight \in Nat
      /\ \A i \in 1..n : rrTasks[i] \in RoundRobinTask /\ picks[i] \in Nat
  BY RoundRobinSums
<1>2. \A i \in 1..n : rrTasks[i].effectiveWeight = rrTasks[i].weight
  BY <1>1 DEF RoundRobinType
<1>3. rrTasks' = [i \in 1..n |->
                   IF i # k THEN Advance(rrTasks[i])
                   ELSE [Advance(rrTasks[i]) EXCEPT !.currentWeight = @ - TotalWeight]]
  BY <1>1 DEF Pick
<1>4. picks' = [picks EXCEPT ![k] = @ + 1] /\ picks \in [1..n -> Nat]
  BY <1>1 DEF Pick, RoundRobinType
<1>7. ASSUME NEW i \in 1..n
      PROVE  /\ rrTasks'[i] \in RoundRobinTask
             /\ rrTasks'[i].weight = rrTasks[i].weight
             /\ rrTasks'[i].effectiveWeight = rrTasks[i].weight
             /\ rrTasks'[i].currentWeight =
                  rrTasks[i].currentWeight + rrTasks[i].weight - (IF i = k THEN TotalWeight ELSE 0)
  <2>. DEFINE t == rrTasks[i]
              a == Advance(t)
  <2>1. t \in RoundRobinTask /\ t.effectiveWeight = t.weight
    BY <1>1, <1>2
  <2>2. /\ a \in RoundRobinTask
        /\ a.weight = t.weight /\ a.effectiveWeight = t.weight
        /\ a.currentWeight = t.currentWeight + t.weight
        /\ t.currentWeight \in Int /\ t.weight \in Nat \ {0}
    <3>. HIDE DEF t
    <3>. QED BY <2>1, AdvanceStep DEF RoundRobinTask
  <2>3. rrTasks'[i] = IF i # k THEN a ELSE [a EXCEPT !.currentWeight = @ - TotalWeight]
    BY <1>3
  <2>. HIDE DEF a, t
  <2>4. CASE i # k
    <3>1. rrTasks'[i] = a
      BY <2>3, <2>4
    <3>2. a.currentWeight = t.currentWeight + t.weight - 0
      BY <2>2
    <3>. QED BY <2>2, <2>4, <3>1, <3>2 DEF t
  <2>5. CASE i = k
    <3>. DEFINE c == a.currentWeight - TotalWeight
    <3>1. rrTasks'[i] = [a EXCEPT !.currentWeight = c]
      BY <2>3, <2>5
    <3>2. c \in Int
      BY <1>1, <2>2
    <3>3. c = t.currentWeight + t.weight - (IF i = k THEN TotalWeight ELSE 0)
      BY <1>1, <2>2, <2>5
    <3>. HIDE DEF c
    <3>4. /\ [a EXCEPT !.currentWeight = c] \in RoundRobinTask
          /\ [a EXCEPT !.currentWeight = c].weight = a.weight
          /\ [a EXCEPT !.currentWeight = c].effectiveWeight = a.effectiveWeight
          /\ [a EXCEPT !.currentWeight = c].currentWeight = c
      BY <2>2, <3>2 DEF RoundRobinTask
    <3>. QED BY <2>2, <3>1, <3>3, <3>4 DEF t
  <2>. QED BY <2>4, <2>5
<1>8. rrTasks' \in Seq(RoundRobinTask) /\ DOMAIN rrTasks' = 1..n
  <2>1. rrTasks' \in [1..n -> RoundRobinTask]
    BY <1>3, <1>7
  <2>. QED BY <1>1, <2>1, SeqDef
<1>9. /\ picks' \in [1..n -> Nat] /\ picks'[k] = picks[k] + 1
      /\ \A i \in 1..n : i # k => picks'[i] = picks[i]
  BY <1>1, <1>4
<1>10. \A i \in 1..n : i # k =>
         rrTasks'[i].currentWeight = rrTasks[i].currentWeight + rrTasks[i].weight
  <2>1. \A i \in 1..n : rrTasks[i].currentWeight \in Int /\ rrTasks[i].weight \in Nat
    BY <1>1, RoundRobinSums
  <2>. QED BY <1>7, <2>1
<1>. QED BY <1>1, <1>7, <1>8, <1>9, <1>10

\* The largest of numbers whose sum is above zero is above zero.
LEMMA LargestPositive ==
  ASSUME NEW f, NEW S, IsFiniteSet(S), \A i \in S : f[i] \in Int,
         SumFunctionOnSet(f, S) > 0, NEW k \in S, \A i \in S : f[i] <= f[k]
  PROVE  f[k] > 0
<1>. SUFFICES ASSUME f[k] <= 0 PROVE FALSE
  OBVIOUS
<1>. DEFINE zero == [i \in S |-> 0]
<1>1. \A i \in S : zero[i] = 0 /\ zero[i] \in Int /\ f[i] <= zero[i]
  OBVIOUS
<1>. HIDE DEF zero
<1>2. SumFunctionOnSet(zero, S) = 0
  BY <1>1, SumZero
<1>3. SumFunctionOnSet(f, S) <= SumFunctionOnSet(zero, S)
  BY <1>1, SumLeq
<1>4. SumFunctionOnSet(f, S) \in Int
  BY SumType
<1>. QED BY <1>2, <1>3, <1>4

\* One step of the share that a task has paid.
LEMMA ShareStep ==
  ASSUME NEW c \in Int, NEW b \in Int, NEW P \in Nat, NEW w \in Nat, NEW p \in Nat,
         NEW T \in Nat, c = b + P * w - p * T
  PROVE  /\ c + w = b + (P + 1) * w - p * T
         /\ c + w - T = b + (P + 1) * w - (p + 1) * T
<1>1. (P + 1) * w = P * w + w /\ (p + 1) * T = p * T + T
  OBVIOUS
<1>2. P * w \in Int /\ p * T \in Int
  OBVIOUS
<1>. QED BY <1>1, <1>2

\* A call of GetTask keeps the invariant.
LEMMA RoundRobinGet ==
  ASSUME RoundRobinInv, GetTask
  PROVE  RoundRobinInv'
<1>. DEFINE D == DOMAIN rrTasks
            raised == [i \in D |-> rrTasks[i].currentWeight + rrTasks[i].weight]
<1>0. RoundRobinType
  BY DEF RoundRobinInv
<1>1. PICK k \in D : Picked(k) /\ Pick(k, TotalWeight)
  BY DEF GetTask
<1>2. base' = base
  BY DEF GetTask
<1>3. /\ rrTasks' \in Seq(RoundRobinTask) /\ DOMAIN rrTasks' = D
      /\ picks' \in [D -> Nat]
      /\ picks'[k] = picks[k] + 1
      /\ \A i \in D :
           /\ rrTasks'[i].weight = rrTasks[i].weight
           /\ rrTasks'[i].effectiveWeight = rrTasks[i].weight
           /\ i # k => rrTasks'[i].currentWeight = rrTasks[i].currentWeight + rrTasks[i].weight
           /\ i # k => picks'[i] = picks[i]
      /\ rrTasks'[k].currentWeight =
           rrTasks[k].currentWeight + rrTasks[k].weight - TotalWeight
  BY <1>0, <1>1, PickStep
<1>4. /\ IsFiniteSet(D)
      /\ TotalWeight = SumFunctionOnSet(EffectiveWeights, D)
      /\ SumFunctionOnSet(CurrentWeights, D) = 0
      /\ SumFunction(picks) = SumFunctionOnSet(picks, D)
      /\ TotalWeight \in Nat /\ SumFunction(picks) \in Nat
      /\ \A i \in D :
           /\ picks[i] \in Nat /\ base[i] \in Int
           /\ EffectiveWeights[i] = rrTasks[i].weight
           /\ CurrentWeights[i] = rrTasks[i].currentWeight
           /\ rrTasks[i].weight \in Nat \ {0} /\ rrTasks[i].currentWeight \in Int
           /\ rrTasks[i].weight <= TotalWeight
  BY <1>0, RoundRobinSums DEF RoundRobinInv
<1>5. RoundRobinType'
  <2>1. base' \in [D -> Int]
    BY <1>2 DEF RoundRobinInv, RoundRobinType
  <2>. QED BY <1>3, <2>1 DEF RoundRobinType
<1>6. /\ TotalWeight' = SumFunctionOnSet(EffectiveWeights', D)
      /\ SumFunction(CurrentWeights') = SumFunctionOnSet(CurrentWeights', D)
      /\ SumFunction(picks') = SumFunctionOnSet(picks', D)
      /\ \A i \in D : /\ EffectiveWeights'[i] = rrTasks'[i].weight
                       /\ CurrentWeights'[i] = rrTasks'[i].currentWeight
                       /\ rrTasks'[i].currentWeight \in Int
  <2>1. DOMAIN EffectiveWeights' = D /\ DOMAIN CurrentWeights' = D /\ DOMAIN picks' = D
    BY <1>3 DEF EffectiveWeights, CurrentWeights
  <2>2. \A i \in D : /\ EffectiveWeights'[i] = rrTasks'[i].weight
                     /\ CurrentWeights'[i] = rrTasks'[i].currentWeight
    BY <1>3 DEF EffectiveWeights, CurrentWeights
  <2>3. /\ TotalWeight' = SumFunctionOnSet(EffectiveWeights', D)
        /\ SumFunction(CurrentWeights') = SumFunctionOnSet(CurrentWeights', D)
        /\ SumFunction(picks') = SumFunctionOnSet(picks', D)
    BY <2>1, Zenon DEF TotalWeight, SumFunction, EffectiveWeights
  <2>4. \A i \in D : rrTasks'[i].currentWeight \in Int
    <3>1. \A i \in D : rrTasks'[i] \in RoundRobinTask
      BY <1>3
    <3>. QED BY <3>1 DEF RoundRobinTask
  <2>. QED BY <2>2, <2>3, <2>4
<1>7. TotalWeight' = TotalWeight
  <2>1. \A i \in D : EffectiveWeights[i] \in Int /\ EffectiveWeights[i] = EffectiveWeights'[i]
    BY <1>3, <1>4, <1>6
  <2>. QED BY <1>4, <1>6, <2>1, SumSame
<1>8. /\ \A i \in D : raised[i] \in Int /\ raised[i] = CurrentWeights[i] + EffectiveWeights[i]
      /\ SumFunctionOnSet(raised, D) = TotalWeight
  <2>1. \A i \in D : /\ CurrentWeights[i] \in Int /\ EffectiveWeights[i] \in Int
                     /\ raised[i] = CurrentWeights[i] + EffectiveWeights[i]
                     /\ raised[i] \in Int
    BY <1>4
  <2>. HIDE DEF raised
  <2>2. SumFunctionOnSet(raised, D) =
          SumFunctionOnSet(CurrentWeights, D) + SumFunctionOnSet(EffectiveWeights, D)
    BY <1>4, <2>1, SumPlus
  <2>. QED BY <1>4, <2>1, <2>2
<1>9. SumFunction(CurrentWeights') = 0
  <2>1. \A i \in D : /\ raised[i] \in Int /\ CurrentWeights'[i] \in Int
                     /\ i # k => raised[i] = CurrentWeights'[i]
    BY <1>3, <1>4, <1>6, <1>8
  <2>2. CurrentWeights'[k] = raised[k] - TotalWeight /\ raised[k] \in Int
    BY <1>3, <1>4, <1>6
  <2>. HIDE DEF raised
  <2>3. SumFunctionOnSet(CurrentWeights', D) =
          SumFunctionOnSet(raised, D) - raised[k] + CurrentWeights'[k]
    BY <1>1, <1>4, <2>1, SumUpdate
  <2>. QED BY <1>4, <1>6, <1>8, <2>2, <2>3
<1>10. \A i \in D : rrTasks'[i].currentWeight > -TotalWeight
  <2>1. \A i \in D : rrTasks[i].currentWeight > -TotalWeight
    BY DEF RoundRobinInv
  <2>2. rrTasks[k].currentWeight + rrTasks[k].weight > 0
    <3>1. \A i \in D : raised[i] <= raised[k]
      BY <1>0, <1>1, <1>4 DEF Picked, Raised, RoundRobinType
    <3>2. SumFunctionOnSet(raised, D) > 0
      BY <1>1, <1>4, <1>8
    <3>. HIDE DEF raised
    <3>3. raised[k] > 0
      BY <1>1, <1>4, <1>8, <3>1, <3>2, LargestPositive
    <3>. QED BY <3>3 DEF raised
  <2>. TAKE i \in D
  <2>3. CASE i = k
    BY <1>3, <1>4, <2>2, <2>3
  <2>4. CASE i # k
    <3>1. rrTasks'[i].currentWeight = rrTasks[i].currentWeight + rrTasks[i].weight
      BY <1>3, <2>4
    <3>2. /\ rrTasks[i].currentWeight \in Int /\ rrTasks[i].weight \in Nat
          /\ TotalWeight \in Nat
      BY <1>4
    <3>. QED BY <2>1, <3>1, <3>2
  <2>. QED BY <2>3, <2>4
<1>11. SumFunction(picks') = SumFunction(picks) + 1
  <2>1. \A i \in D : /\ picks[i] \in Int /\ picks'[i] \in Int
                     /\ i # k => picks[i] = picks'[i]
    BY <1>3, <1>4
  <2>2. SumFunctionOnSet(picks', D) = SumFunctionOnSet(picks, D) - picks[k] + picks'[k]
    BY <1>1, <1>4, <2>1, SumUpdate
  <2>. QED BY <1>3, <1>4, <1>6, <2>1, <2>2
<1>12. \A i \in D : rrTasks'[i].currentWeight =
         base'[i] + SumFunction(picks') * rrTasks'[i].weight - picks'[i] * TotalWeight'
  <2>. TAKE i \in D
  <2>. DEFINE P == SumFunction(picks)
              T == TotalWeight
              c == rrTasks[i].currentWeight
              b == base[i]
              w == rrTasks[i].weight
              p == picks[i]
  <2>1. c = b + P * w - p * T
    BY DEF RoundRobinInv
  <2>2. c \in Int /\ b \in Int /\ P \in Nat /\ w \in Nat /\ p \in Nat /\ T \in Nat
    BY <1>4
  <2>. HIDE DEF P, T, c, b, w, p
  <2>3. c + w = b + (P + 1) * w - p * T /\ c + w - T = b + (P + 1) * w - (p + 1) * T
    BY <2>1, <2>2, ShareStep
  <2>4. /\ base'[i] = b /\ SumFunction(picks') = P + 1 /\ rrTasks'[i].weight = w
        /\ TotalWeight' = T
    BY <1>2, <1>3, <1>7, <1>11 DEF b, P, w, T
  <2>5. CASE i = k
    <3>1. rrTasks'[i].currentWeight = c + w - T /\ picks'[i] = p + 1
      BY <1>3, <2>5 DEF c, w, T, p
    <3>. QED BY <2>3, <2>4, <3>1
  <2>6. CASE i # k
    <3>1. rrTasks'[i].currentWeight = c + w /\ picks'[i] = p
      BY <1>3, <2>6 DEF c, w, p
    <3>. QED BY <2>3, <2>4, <3>1
  <2>. QED BY <2>5, <2>6
<1>. QED BY <1>3, <1>5, <1>7, <1>9, <1>10, <1>12 DEF RoundRobinInv

\* With one task, a call only counts.
LEMMA RoundRobinGetOnly ==
  ASSUME RoundRobinInv, GetOnlyTask
  PROVE  RoundRobinInv'
<1>0. RoundRobinType
  BY DEF RoundRobinInv
<1>1. /\ Len(rrTasks) = 1 /\ UNCHANGED <<rrTasks, base>>
      /\ picks' = [picks EXCEPT ![1] = @ + 1]
  BY DEF GetOnlyTask
<1>2. /\ DOMAIN rrTasks = 1..1 /\ 1 \in DOMAIN rrTasks
      /\ \A i \in DOMAIN rrTasks : i = 1
  BY <1>0, <1>1, RoundRobinSums
<1>3. /\ IsFiniteSet(DOMAIN rrTasks)
      /\ TotalWeight = SumFunctionOnSet(EffectiveWeights, DOMAIN rrTasks)
      /\ SumFunction(picks) = SumFunctionOnSet(picks, DOMAIN rrTasks)
      /\ TotalWeight \in Nat /\ SumFunction(picks) \in Nat
      /\ picks[1] \in Nat /\ base[1] \in Int
      /\ EffectiveWeights[1] = rrTasks[1].weight /\ rrTasks[1].weight \in Nat
      /\ rrTasks[1].currentWeight \in Int
  BY <1>0, <1>2, RoundRobinSums
<1>4. picks' \in [DOMAIN rrTasks -> Nat] /\ picks'[1] = picks[1] + 1
  BY <1>0, <1>1, <1>2, <1>3 DEF RoundRobinType
<1>5. RoundRobinType' /\ UNCHANGED <<TotalWeight, SumFunction(CurrentWeights)>>
  BY <1>0, <1>1, <1>4 DEF RoundRobinType, TotalWeight, CurrentWeights
<1>6. ASSUME NEW f, \A i \in DOMAIN rrTasks : f[i] \in Int
      PROVE  SumFunctionOnSet(f, DOMAIN rrTasks) = f[1]
  <2>1. SumFunctionOnSet(f, DOMAIN rrTasks) = f[1] + SumFunctionOnSet(f, DOMAIN rrTasks \ {1})
    BY <1>2, <1>3, <1>6, SumRemove
  <2>2. DOMAIN rrTasks \ {1} = {}
    BY <1>2
  <2>3. SumFunctionOnSet(f, DOMAIN rrTasks \ {1}) = 0
    BY <2>2, SumEmpty, Zenon
  <2>. QED BY <1>2, <1>6, <2>1, <2>3
<1>7. TotalWeight = rrTasks[1].weight
  <2>1. \A i \in DOMAIN rrTasks : EffectiveWeights[i] \in Int
    BY <1>2, <1>3
  <2>. QED BY <1>3, <1>6, <2>1
<1>8. SumFunction(picks) = picks[1] /\ SumFunction(picks') = picks'[1]
  <2>1. \A i \in DOMAIN rrTasks : picks[i] \in Int /\ picks'[i] \in Int
    BY <1>2, <1>3, <1>4
  <2>2. SumFunction(picks') = SumFunctionOnSet(picks', DOMAIN rrTasks)
    BY <1>4 DEF SumFunction
  <2>. QED BY <1>3, <1>6, <2>1, <2>2
<1>9. rrTasks[1].currentWeight =
        base[1] + SumFunction(picks) * rrTasks[1].weight - picks[1] * TotalWeight
  BY <1>2 DEF RoundRobinInv
<1>10. rrTasks[1].currentWeight =
         base[1] + SumFunction(picks') * rrTasks[1].weight - picks'[1] * TotalWeight
  <2>. DEFINE c == rrTasks[1].currentWeight
              b == base[1]
              w == rrTasks[1].weight
              p == picks[1]
              q == picks'[1]
  <2>1. c \in Int /\ b \in Int /\ w \in Nat /\ p \in Nat /\ q \in Nat /\ c = b + p * w - p * w
    BY <1>2, <1>3, <1>4, <1>7, <1>8, <1>9
  <2>. HIDE DEF c, b, w, p, q
  <2>2. c = b + q * w - q * w
    BY <2>1
  <2>. QED BY <1>7, <1>8, <2>2 DEF c, b, w, q
<1>. QED BY <1>1, <1>2, <1>5, <1>10 DEF RoundRobinInv

\* Both task sets of the empty list.
LEMMA RoundRobinInit == Init => RoundRobinInv
<1>. SUFFICES ASSUME Init PROVE RoundRobinInv
  OBVIOUS
<1>1. DOMAIN rrTasks = {} /\ RoundRobinType
  BY DEF Init, RoundRobinType
<1>2. SumFunction(CurrentWeights) = 0
  <2>1. DOMAIN CurrentWeights = {}
    BY <1>1 DEF CurrentWeights
  <2>. QED BY <2>1, SumEmpty, Zenon DEF SumFunction
<1>. QED BY <1>1, <1>2 DEF RoundRobinInv

\* Every step keeps it.
LEMMA RoundRobinStep == RoundRobinInv /\ [Next]_vars => RoundRobinInv'
<1>. SUFFICES ASSUME RoundRobinInv, [Next]_vars PROVE RoundRobinInv'
  OBVIOUS
<1>1. ASSUME NEW weight \in Weights, AddTask(weight) PROVE RoundRobinInv'
  <2>1. weight \in Nat /\ RoundRobinAddTask(weight)
    BY <1>1, TaskSetAssumption DEF AddTask
  <2>. QED BY <2>1, RoundRobinAdd
<1>2. CASE GetTask
  BY <1>2, RoundRobinGet
<1>3. CASE GetOnlyTask
  BY <1>3, RoundRobinGetOnly
<1>4. CASE UNCHANGED vars
  BY <1>4 DEF vars, roundRobinVars, RoundRobinInv, RoundRobinType, CurrentWeights, TotalWeight
<1>. QED BY <1>1, <1>2, <1>3, <1>4 DEF Next

\* Whatever the tasks, their weights and the calls of AddTask in between, no task
\* is ever as much as one turn ahead of its share.
THEOREM RoundRobinIsSmooth == Spec => []NeverAhead
<1>1. RoundRobinInv => NeverAhead
  BY DEF RoundRobinInv, NeverAhead
<1>. QED BY <1>1, RoundRobinInit, RoundRobinStep, PTL DEF Spec

\* A product with a positive number that is above its negation, or zero.
LEMMA PositiveProduct ==
  ASSUME NEW T \in Nat \ {0}, NEW a \in Int
  PROVE  /\ T * a > -T => a >= 0
         /\ a >= 0 => T * a >= 0
         /\ T * a = 0 => a = 0
<1>1. a <= -1 => T * a <= -T
  OBVIOUS
<1>2. a >= 1 => T * a >= T
  OBVIOUS
<1>3. T * a \in Int /\ (a = 0 => T * a = 0)
  OBVIOUS
<1>. QED BY <1>1, <1>2, <1>3

\* After any number of full cycles without debts at the start, each task was
\* returned exactly as often as its weight says.
EveryCycleIsFair ==
  (\A i \in DOMAIN base : base[i] = 0) =>
    \A n \in Nat : SumFunction(picks) = n * TotalWeight =>
      \A i \in DOMAIN rrTasks : picks[i] = n * rrTasks[i].weight

\* The debts are multiples of the total weight, so none is negative; as their
\* sum is zero, all are.
LEMMA CycleFromInv == RoundRobinInv => EveryCycleIsFair
<1>. SUFFICES ASSUME RoundRobinInv, \A i \in DOMAIN base : base[i] = 0,
                     NEW n \in Nat, SumFunction(picks) = n * TotalWeight,
                     NEW i \in DOMAIN rrTasks
              PROVE  picks[i] = n * rrTasks[i].weight
  BY DEF EveryCycleIsFair
<1>. DEFINE T == TotalWeight
            Ahead(j) == n * rrTasks[j].weight - picks[j]
<1>0. RoundRobinType
  BY DEF RoundRobinInv
<1>1. /\ T \in Nat \ {0} /\ IsFiniteSet(DOMAIN rrTasks)
      /\ SumFunctionOnSet(CurrentWeights, DOMAIN rrTasks) = 0
      /\ \A j \in DOMAIN rrTasks :
           /\ rrTasks[j].weight \in Nat /\ picks[j] \in Nat
           /\ rrTasks[j].currentWeight \in Int
           /\ CurrentWeights[j] = rrTasks[j].currentWeight
  <2>1. rrTasks[i].weight <= T /\ rrTasks[i].weight \in Nat \ {0} /\ T \in Nat
    BY <1>0, RoundRobinSums
  <2>2. T \in Nat \ {0}
    BY <2>1
  <2>. QED BY <1>0, <2>2, RoundRobinSums DEF RoundRobinInv
<1>2. ASSUME NEW j \in DOMAIN rrTasks
      PROVE  Ahead(j) \in Int /\ rrTasks[j].currentWeight = T * Ahead(j)
  <2>. DEFINE w == rrTasks[j].weight
              p == picks[j]
              c == rrTasks[j].currentWeight
              P == SumFunction(picks)
  <2>1. base[j] = 0
    BY <1>0 DEF RoundRobinType
  <2>2. c = base[j] + P * w - p * T
    BY DEF RoundRobinInv
  <2>3. w \in Nat /\ p \in Nat /\ c \in Int
    BY <1>1
  <2>4. P = n * T
    OBVIOUS
  <2>. HIDE DEF w, p, c, P, T
  <2>5. P * w = T * (n * w) /\ p * T = T * p /\ n * w \in Int
    BY <1>1, <2>3, <2>4
  <2>6. T * (n * w - p) = T * (n * w) - T * p /\ T * (n * w) \in Int /\ T * p \in Int
    BY <1>1, <2>3, <2>5
  <2>7. c = T * (n * w - p) /\ n * w - p \in Int
    BY <2>1, <2>2, <2>3, <2>5, <2>6
  <2>. QED BY <2>7 DEF w, p, c, T
<1>3. \A j \in DOMAIN rrTasks : CurrentWeights[j] \in Nat
  <2>. TAKE j \in DOMAIN rrTasks
  <2>1. rrTasks[j].currentWeight > -T
    BY DEF RoundRobinInv
  <2>2. rrTasks[j].currentWeight >= 0
    <3>. HIDE DEF T, Ahead
    <3>. QED BY <1>1, <1>2, <2>1, PositiveProduct
  <2>. QED BY <1>1, <2>2
<1>4. CurrentWeights[i] <= 0
  BY <1>1, <1>3, SumNat
<1>5. T * Ahead(i) = 0
  BY <1>1, <1>2, <1>3, <1>4
<1>6. Ahead(i) = 0
  <2>. HIDE DEF T, Ahead
  <2>. QED BY <1>1, <1>2, <1>5, PositiveProduct
<1>7. rrTasks[i].weight \in Nat /\ picks[i] \in Nat /\ n * rrTasks[i].weight \in Int
  BY <1>1
<1>. QED BY <1>6, <1>7

\* Every cycle of the round robin is fair, for any tasks and weights.
THEOREM RoundRobinIsFair == Spec => []CycleIsFair
<1>1. EveryCycleIsFair => CycleIsFair
  BY DEF EveryCycleIsFair, CycleIsFair
<1>. QED BY <1>1, RoundRobinInit, RoundRobinStep, CycleFromInv, PTL DEF Spec

(***************************************************************************)
(* runner.getTask                                                          *)
(***************************************************************************)

\* The running sums grow by the weight of each task, from zero to the total.
LEMMA RunningSums ==
  ASSUME tasks \in Seq(Nat)
  PROVE  /\ Len(tasks) \in Nat /\ DOMAIN tasks = 1..Len(tasks)
         /\ RunningSum(0) = 0 /\ RunningSum(Len(tasks)) = TotalTaskWeight
         /\ \A i \in 0..Len(tasks) : RunningSum(i) \in Nat
         /\ \A i \in 1..Len(tasks) :
              tasks[i] \in Nat /\ RunningSum(i) = RunningSum(i - 1) + tasks[i]
         /\ \A i, j \in 0..Len(tasks) : i <= j => RunningSum(i) <= RunningSum(j)
<1>. DEFINE n == Len(tasks)
            Sum(i) == SumFunctionOnSet(tasks, 1..i)
<1>1. n \in Nat /\ DOMAIN tasks = 1..n /\ \A i \in 1..n : tasks[i] \in Nat
  OBVIOUS
<1>. HIDE DEF n
<1>2. ASSUME NEW i \in 0..n
      PROVE  RunningSum(i) = Sum(i) /\ IsFiniteSet(1..i) /\ Sum(i) \in Nat
  <2>. DEFINE f == [j \in 1..i |-> tasks[j]]
  <2>1. IsFiniteSet(1..i)
    BY FS_Interval
  <2>2. \A j \in 1..i : tasks[j] \in Nat /\ f[j] = tasks[j]
    BY <1>1
  <2>3. RunningSum(i) = SumFunctionOnSet(f, 1..i)
    <3>1. DOMAIN f = 1..i
      OBVIOUS
    <3>. QED BY <3>1, Zenon DEF RunningSum, SumFunction
  <2>. HIDE DEF f
  <2>4. \A j \in 1..i : f[j] \in Int /\ f[j] = tasks[j]
    BY <2>2
  <2>5. SumFunctionOnSet(f, 1..i) = Sum(i)
    BY <2>1, <2>4, SumSame
  <2>6. Sum(i) \in Nat
    BY <2>1, <2>2, SumNat
  <2>. QED BY <2>1, <2>3, <2>5, <2>6
<1>3. RunningSum(0) = 0
  <2>1. 1..0 = {}
    OBVIOUS
  <2>2. Sum(0) = 0
    BY <2>1, SumEmpty, Zenon
  <2>. QED BY <1>1, <1>2, <2>2
<1>4. RunningSum(n) = TotalTaskWeight
  <2>1. TotalTaskWeight = Sum(n)
    BY <1>1, Zenon DEF TotalTaskWeight, SumFunction
  <2>. QED BY <1>1, <1>2, <2>1
<1>5. ASSUME NEW i \in 1..n PROVE RunningSum(i) = RunningSum(i - 1) + tasks[i]
  <2>. DEFINE m == i - 1
  <2>1. m \in Nat /\ i = m + 1 /\ m \in 0..n /\ i \in 0..n
    BY <1>1
  <2>. HIDE DEF m
  <2>2. \A j \in 1..(m + 1) : tasks[j] \in Int
    BY <1>1, <2>1
  <2>3. Sum(m + 1) = Sum(m) + tasks[m + 1]
    BY <2>1, <2>2, SumInterval
  <2>4. RunningSum(m + 1) = RunningSum(m) + tasks[m + 1]
    BY <1>2, <2>1, <2>3
  <2>. QED BY <2>1, <2>4 DEF m
<1>6. ASSUME NEW i \in 0..n, NEW j \in 0..n, i <= j
      PROVE  RunningSum(i) <= RunningSum(j)
  <2>1. 1..i \in SUBSET (1..j) /\ \A k \in 1..j : tasks[k] \in Nat
    BY <1>1, <1>6
  <2>2. Sum(i) <= Sum(j)
    BY <1>2, <2>1, SumSubset
  <2>. QED BY <1>2, <2>2
<1>7. \A i \in 0..n : RunningSum(i) \in Nat
  BY <1>2
<1>. QED BY <1>1, <1>3, <1>4, <1>5, <1>6, <1>7 DEF n

\* The scan returns task i exactly for the rolls between the sum before it and
\* the sum with it.
LEMMA ScanReturns ==
  ASSUME tasks \in Seq(Nat), Len(tasks) > 1, TotalTaskWeight > 0,
         NEW roll \in 0..(TotalTaskWeight - 1), NEW i \in DOMAIN tasks
  PROVE  RunnerGetTask(roll) = i <=> RunningSum(i - 1) <= roll /\ roll < RunningSum(i)
<1>. DEFINE n == Len(tasks)
            R(j) == RunningSum(j)
            First(j) == R(j) > roll /\ \A k \in 1..(j - 1) : R(k) <= roll
<1>1. /\ n \in Nat /\ DOMAIN tasks = 1..n /\ R(0) = 0 /\ R(n) = TotalTaskWeight
      /\ \A j \in 0..n : R(j) \in Nat
      /\ \A j, k \in 0..n : j <= k => R(j) <= R(k)
  BY RunningSums
<1>. HIDE DEF n, R
<1>2. n > 1 /\ R(n) > roll /\ roll \in Nat
  BY <1>1 DEF n
<1>3. \E j \in 1..n : First(j)
  <2>. DEFINE A == {j \in 1..n : R(j) > roll}
  <2>1. A \in SUBSET Nat /\ A # {}
    <3>1. A \in SUBSET Nat
      OBVIOUS
    <3>2. n \in 1..n /\ R(n) > roll
      BY <1>1, <1>2
    <3>3. n \in A
      BY <3>2
    <3>. QED BY <3>1, <3>3
  <2>2. PICK j \in A : \A k \in A : j <= k
    <3>. HIDE DEF A
    <3>. QED BY <2>1, NatMin
  <2>3. \A k \in 1..(j - 1) : k \in 1..n /\ ~(j <= k) /\ R(k) \in Nat
    BY <1>1, <2>2
  <2>4. \A k \in 1..(j - 1) : R(k) <= roll
    BY <1>2, <2>2, <2>3
  <2>. QED BY <2>2, <2>4
<1>4. \A j, k \in 1..n : First(j) /\ First(k) => j = k
  <2>. SUFFICES ASSUME NEW j \in 1..n, NEW k \in 1..n, First(j), First(k), j < k
                PROVE  FALSE
    BY <1>1
  <2>1. j \in 1..(k - 1) /\ R(j) \in Nat
    BY <1>1
  <2>. QED BY <1>2, <2>1
<1>5. First(i) <=> R(i - 1) <= roll /\ roll < R(i)
  <2>1. i \in 1..n /\ i - 1 \in 0..n /\ i \in 0..n /\ R(i) \in Nat /\ R(i - 1) \in Nat
    BY <1>1
  <2>2. ASSUME First(i) PROVE R(i - 1) <= roll
    <3>1. CASE i = 1
      <4>1. i - 1 = 0
        BY <3>1
      <4>. QED BY <1>1, <1>2, <4>1
    <3>2. CASE i # 1
      <4>1. i - 1 \in 1..(i - 1)
        BY <2>1, <3>2
      <4>. QED BY <2>2, <4>1
    <3>. QED BY <3>1, <3>2
  <2>3. ASSUME R(i - 1) <= roll, NEW k \in 1..(i - 1) PROVE R(k) <= roll
    <3>1. k \in 0..n /\ k <= i - 1
      BY <1>1, <2>1
    <3>2. R(k) <= R(i - 1) /\ R(k) \in Nat
      BY <1>1, <2>1, <3>1
    <3>. QED BY <1>2, <2>1, <2>3, <3>2
  <2>. QED BY <1>2, <2>1, <2>2, <2>3
<1>6. RunnerGetTask(roll) = CHOOSE j \in 1..n : First(j)
  <2>1. ~(Len(tasks) = 1) /\ ~(TotalTaskWeight <= 0)
    BY <1>1
  <2>. QED BY <1>1, <2>1 DEF RunnerGetTask, R
<1>7. RunnerGetTask(roll) \in 1..n /\ First(RunnerGetTask(roll))
  <2>. HIDE DEF First
  <2>. QED BY <1>3, <1>6
<1>8. RunnerGetTask(roll) = i <=> First(i)
  <2>. HIDE DEF First
  <2>. QED BY <1>1, <1>4, <1>7
<1>. QED BY <1>5, <1>8 DEF R

\* Every task is picked by as many rolls as its weight.
LEMMA ScanIsFair == tasks \in Seq(Nat) => RunnerIsFair
<1>. SUFFICES ASSUME tasks \in Seq(Nat), Len(tasks) > 1, NEW i \in DOMAIN tasks
              PROVE  Cardinality({roll \in Rolls : RunnerGetTask(roll) = i}) =
                       IF TotalTaskWeight <= 0 THEN 1 ELSE tasks[i]
  BY DEF RunnerIsFair
<1>. DEFINE n == Len(tasks)
            mine == {roll \in Rolls : RunnerGetTask(roll) = i}
            lo == RunningSum(i - 1)
            hi == RunningSum(i)
<1>1. /\ n \in Nat /\ DOMAIN tasks = 1..n /\ TotalTaskWeight \in Nat
      /\ tasks[i] \in Nat /\ hi = lo + tasks[i] /\ lo \in Nat /\ hi \in Nat
      /\ hi <= TotalTaskWeight
  <2>1. n \in Nat /\ DOMAIN tasks = 1..n
    BY RunningSums
  <2>2. i \in 1..n /\ i - 1 \in 0..n /\ i \in 0..n /\ n \in 0..n /\ i <= n
    BY <2>1
  <2>. QED BY <2>1, <2>2, RunningSums
<1>2. CASE TotalTaskWeight <= 0
  <2>1. mine = {i - 1}
    <3>1. Rolls = 0..(n - 1)
      BY <1>2 DEF Rolls
    <3>2. \A roll : RunnerGetTask(roll) = roll + 1
      BY <1>1, <1>2 DEF RunnerGetTask
    <3>. QED BY <1>1, <3>1, <3>2
  <2>. HIDE DEF mine
  <2>2. Cardinality(mine) = 1
    BY <2>1, FS_Singleton
  <2>. QED BY <1>2, <2>2 DEF mine
<1>3. CASE TotalTaskWeight > 0
  <2>1. Rolls = 0..(TotalTaskWeight - 1)
    <3>. DEFINE W == TotalTaskWeight
    <3>1. Rolls = 0..((IF W <= 0 THEN Len(tasks) ELSE W) - 1)
      BY DEF Rolls
    <3>2. W \in Nat /\ W > 0
      BY <1>1, <1>3
    <3>. HIDE DEF W
    <3>3. Rolls = 0..(W - 1)
      BY <3>1, <3>2
    <3>. QED BY <3>3 DEF W
  <2>. HIDE DEF lo, hi
  <2>2. \A roll \in Rolls : RunnerGetTask(roll) = i <=> lo <= roll /\ roll < hi
    <3>. SUFFICES ASSUME NEW roll \in Rolls
                  PROVE  RunnerGetTask(roll) = i <=> lo <= roll /\ roll < hi
      OBVIOUS
    <3>1. roll \in 0..(TotalTaskWeight - 1)
      BY <2>1
    <3>. QED BY <1>3, <3>1, ScanReturns DEF lo, hi
  <2>3. mine = lo..(hi - 1)
    BY <1>1, <2>1, <2>2
  <2>. HIDE DEF mine
  <2>4. Cardinality(lo..(hi - 1)) = IF lo > hi - 1 THEN 0 ELSE (hi - 1) - lo + 1
    <3>1. lo \in Int /\ hi - 1 \in Int
      BY <1>1
    <3>. QED BY <3>1, FS_Interval
  <2>5. Cardinality(mine) = tasks[i]
    <3>1. Cardinality(mine) = Cardinality(lo..(hi - 1))
      BY <2>3, Zenon
    <3>. QED BY <1>1, <2>4, <3>1
  <2>. QED BY <1>1, <1>3, <2>5 DEF mine
<1>. QED BY <1>1, <1>2, <1>3

\* setTasks keeps the weights of all tasks.
LEMMA TasksType == ASSUME tasks \in Seq(Nat), [Next]_vars PROVE tasks' \in Seq(Nat)
<1>1. ASSUME NEW weight \in Weights, AddTask(weight) PROVE tasks' \in Seq(Nat)
  <2>1. weight \in Nat /\ tasks' = Append(tasks, weight)
    BY <1>1, TaskSetAssumption DEF AddTask
  <2>. QED BY <2>1
<1>2. CASE GetTask \/ GetOnlyTask \/ UNCHANGED vars
  BY <1>2 DEF GetTask, GetOnlyTask, vars
<1>. QED BY <1>1, <1>2 DEF Next

\* For any tasks, the rolls of runner.getTask are divided by the weights.
THEOREM RunnerPicksFairly == Spec => []RunnerIsFair
<1>1. Init => tasks \in Seq(Nat)
  BY DEF Init
<1>2. tasks \in Seq(Nat) /\ [Next]_vars => (tasks \in Seq(Nat))'
  BY TasksType
<1>. QED BY <1>1, <1>2, ScanIsFair, PTL DEF Spec

-------------------------------------------------------------------------------
(* WeighingTaskSet: the binary search over the running sums.                   *)

\* One round of the loop, given what the next rounds return.
SearchRound(roll, it) ==
  [range \in (1..(Len(index) + 1)) \X (0..Len(index)) |->
        LET left == range[1]
            right == range[2]
            mid == (left + right) \div 2 IN
        IF left > right THEN None
        ELSE IF left = mid THEN (IF roll < index[mid] THEN added[mid] ELSE added[mid + 1])
        ELSE IF index[mid - 1] <= roll /\ roll < index[mid] THEN added[mid]
        ELSE IF roll < index[mid - 1] THEN it[<<left, mid - 1>>]
        ELSE it[<<mid + 1, right>>]]

\* What BinarySearch calls search.
Search(roll) == CHOOSE it : it = SearchRound(roll, it)

\* BinarySearch starts with the whole index.
LEMMA SearchStarts ==
  ASSUME NEW roll PROVE BinarySearch(roll) = Search(roll)[<<1, Len(index)>>]
BY Zenon DEF BinarySearch, Search, SearchRound

\* The round of one range.
LEMMA RoundOfRange ==
  ASSUME NEW roll, NEW it, NEW l \in 1..(Len(index) + 1), NEW r \in 0..Len(index)
  PROVE SearchRound(roll, it)[<<l, r>>] =
          LET mid == (l + r) \div 2 IN
          IF l > r THEN None
          ELSE IF l = mid THEN (IF roll < index[mid] THEN added[mid] ELSE added[mid + 1])
          ELSE IF index[mid - 1] <= roll /\ roll < index[mid] THEN added[mid]
          ELSE IF roll < index[mid - 1] THEN it[<<l, mid - 1>>]
          ELSE it[<<mid + 1, r>>]
BY DEF SearchRound

\* An empty range ends the search.
LEMMA RoundOfEmptyRange ==
  ASSUME NEW roll, NEW it, NEW l \in 1..(Len(index) + 1), NEW r \in 0..Len(index), l > r
  PROVE  SearchRound(roll, it)[<<l, r>>] = None
BY DEF SearchRound

\* The middle of a range lies in it.
LEMMA MiddleIsInside ==
  ASSUME NEW l \in Nat, NEW r \in Nat, l <= r
  PROVE  /\ (l + r) \div 2 \in Nat
         /\ l <= (l + r) \div 2 /\ (l + r) \div 2 <= r
         /\ l = (l + r) \div 2 => r = l \/ r = l + 1
OBVIOUS

\* A round only looks at narrower ranges.
LEMMA RoundLooksInside ==
  ASSUME NEW roll, NEW it1, NEW it2, NEW n \in Nat, n = Len(index),
         NEW l \in 1..(n + 1), NEW r \in 0..n,
         \A a \in 1..(n + 1), b \in 0..n :
           b - a < r - l => it1[<<a, b>>] = it2[<<a, b>>]
  PROVE  SearchRound(roll, it1)[<<l, r>>] = SearchRound(roll, it2)[<<l, r>>]
<1>. DEFINE mid == (l + r) \div 2
<1>0. l \in 1..(Len(index) + 1) /\ r \in 0..Len(index)
  OBVIOUS
<1>1. CASE l > r
  <2>1. SearchRound(roll, it1)[<<l, r>>] = None
    BY <1>0, <1>1, RoundOfEmptyRange, Zenon
  <2>2. SearchRound(roll, it2)[<<l, r>>] = None
    BY <1>0, <1>1, RoundOfEmptyRange, Zenon
  <2>. QED BY <2>1, <2>2
<1>2. CASE l <= r
  <2>1. mid \in Nat /\ l <= mid /\ mid <= r
    BY <1>2, MiddleIsInside
  <2>. HIDE DEF mid
  <2>2. /\ mid + 1 \in 1..(n + 1) /\ mid - 1 \in 0..n
        /\ (mid - 1) - l < r - l /\ r - (mid + 1) < r - l
    BY <2>1
  <2>3. it1[<<l, mid - 1>>] = it2[<<l, mid - 1>>] /\ it1[<<mid + 1, r>>] = it2[<<mid + 1, r>>]
    BY <2>2
  <2>. QED BY <2>3, RoundOfRange DEF mid
<1>. QED BY <1>1, <1>2

\* The recursion of the search is well founded: Search satisfies its equation.
LEMMA SearchExists ==
  ASSUME NEW roll, Len(index) \in Nat
  PROVE  Search(roll) = SearchRound(roll, Search(roll))
<1>. DEFINE n == Len(index)
            Solved(it, m) == \A l \in 1..(n + 1), r \in 0..n :
                               r - l < m => it[<<l, r>>] = SearchRound(roll, it)[<<l, r>>]
            G == {m \in Nat : \E it : Solved(it, m)}
<1>1. 0 \in G
  <2>. DEFINE it == [range \in (1..(n + 1)) \X (0..n) |-> None]
  <2>1. ASSUME NEW l \in 1..(n + 1), NEW r \in 0..n, r - l < 0
        PROVE  it[<<l, r>>] = SearchRound(roll, it)[<<l, r>>]
    <3>1. it[<<l, r>>] = None
      OBVIOUS
    <3>. HIDE DEF it
    <3>2. l > r
      BY <2>1
    <3>3. SearchRound(roll, it)[<<l, r>>] = None
      BY <3>2, RoundOfEmptyRange, Zenon
    <3>. QED BY <3>1, <3>3
  <2>. HIDE DEF it
  <2>2. Solved(it, 0)
    BY <2>1
  <2>. QED BY <2>2
<1>2. ASSUME NEW m \in G PROVE m + 1 \in G
  <2>1. PICK it : Solved(it, m)
    OBVIOUS
  <2>. DEFINE it2 == SearchRound(roll, it)
  <2>2. ASSUME NEW l \in 1..(n + 1), NEW r \in 0..n, r - l < m + 1
        PROVE  it2[<<l, r>>] = SearchRound(roll, it2)[<<l, r>>]
    <3>1. \A a \in 1..(n + 1), b \in 0..n : b - a < r - l => it[<<a, b>>] = it2[<<a, b>>]
      BY <2>1, <2>2
    <3>. QED BY <3>1, RoundLooksInside
  <2>. HIDE DEF it2
  <2>3. Solved(it2, m + 1) /\ m + 1 \in Nat
    BY <2>2
  <2>. QED BY <2>3
<1>3. n \in G
  <2>1. G \in SUBSET Nat
    OBVIOUS
  <2>. HIDE DEF G
  <2>. QED BY <1>1, <1>2, <2>1, NatSetInduction
<1>4. PICK it : Solved(it, n)
  BY <1>3
<1>. DEFINE it2 == SearchRound(roll, it)
<1>5. ASSUME NEW l \in 1..(n + 1), NEW r \in 0..n PROVE it[<<l, r>>] = it2[<<l, r>>]
  <2>1. r - l < n
    OBVIOUS
  <2>. QED BY <1>4, <2>1
<1>6. ASSUME NEW l \in 1..(n + 1), NEW r \in 0..n
      PROVE  it2[<<l, r>>] = SearchRound(roll, it2)[<<l, r>>]
  BY <1>5, RoundLooksInside
<1>7. it2 = SearchRound(roll, it2)
  <2>1. ASSUME NEW d \in (1..(n + 1)) \X (0..n) PROVE it2[d] = SearchRound(roll, it2)[d]
    <3>1. PICK l \in 1..(n + 1), r \in 0..n : d = <<l, r>>
      OBVIOUS
    <3>. QED BY <1>6, <3>1
  <2>2. \A f : /\ DOMAIN SearchRound(roll, f) = (1..(n + 1)) \X (0..n)
               /\ SearchRound(roll, f) = [d \in DOMAIN SearchRound(roll, f) |-> SearchRound(roll, f)[d]]
    BY DEF SearchRound
  <2>. QED BY <2>1, <2>2
<1>. QED BY <1>7, Zenon DEF Search

\* The rolls of the k-th task that was kept start here.
Before(k) == IF k = 1 THEN 0 ELSE index[k - 1]

\* What AddTask builds: the kept tasks in their order, each with the end of its
\* range of rolls, the ranges one after the other from 0 to offset.
WeighingInv ==
  /\ tasks \in Seq(Nat) /\ added \in Seq(Nat) /\ index \in Seq(Nat)
  /\ Len(added) = Len(index)
  /\ offset = IF Len(index) = 0 THEN 0 ELSE index[Len(index)]
  /\ \A k \in DOMAIN index : /\ added[k] \in DOMAIN tasks
                             /\ tasks[added[k]] > 0
                             /\ index[k] = Before(k) + tasks[added[k]]
  /\ \A j, k \in DOMAIN index : j < k => added[j] < added[k] /\ index[j] < index[k]
  /\ \A i \in DOMAIN tasks : tasks[i] > 0 => \E k \in DOMAIN index : added[k] = i

\* The facts about the ranges that the proofs use.
LEMMA WeighingFacts ==
  ASSUME WeighingInv
  PROVE  /\ Len(index) \in Nat /\ DOMAIN index = 1..Len(index) /\ DOMAIN added = 1..Len(index)
         /\ Len(tasks) \in Nat /\ DOMAIN tasks = 1..Len(tasks)
         /\ \A i \in 1..Len(tasks) : tasks[i] \in Nat
         /\ offset \in Nat
         /\ \A k \in 1..Len(index) :
              /\ index[k] \in Nat /\ added[k] \in Nat /\ Before(k) \in Nat
              /\ added[k] \in 1..Len(tasks) /\ index[k] <= offset
         /\ \A j, k \in 1..Len(index) :
              /\ j <= k => index[j] <= index[k]
              /\ added[j] = added[k] => j = k
<1>. DEFINE n == Len(index)
            t == Len(tasks)
<1>1. /\ tasks \in Seq(Nat) /\ added \in Seq(Nat) /\ index \in Seq(Nat)
      /\ Len(added) = n
      /\ offset = IF n = 0 THEN 0 ELSE index[n]
      /\ \A k \in DOMAIN index : added[k] \in DOMAIN tasks
      /\ \A j, k \in DOMAIN index : j < k => added[j] < added[k] /\ index[j] < index[k]
  BY DEF WeighingInv
<1>2. /\ n \in Nat /\ DOMAIN index = 1..n /\ DOMAIN added = 1..n
      /\ t \in Nat /\ DOMAIN tasks = 1..t
      /\ \A i \in 1..t : tasks[i] \in Nat
      /\ \A k \in 1..n : index[k] \in Nat /\ added[k] \in Nat
  <2>1. n \in Nat /\ DOMAIN index = 1..n /\ \A k \in 1..n : index[k] \in Nat
    BY <1>1
  <2>2. DOMAIN added = 1..n /\ \A k \in 1..n : added[k] \in Nat
    <3>. HIDE DEF n
    <3>. QED BY <1>1
  <2>3. t \in Nat /\ DOMAIN tasks = 1..t /\ \A i \in 1..t : tasks[i] \in Nat
    BY <1>1
  <2>. QED BY <2>1, <2>2, <2>3
<1>. HIDE DEF n, t
<1>3. \A k \in 1..n : added[k] \in 1..t
  BY <1>1, <1>2
<1>4. \A k \in 1..n : Before(k) \in Nat
  <2>. SUFFICES ASSUME NEW k \in 1..n PROVE Before(k) \in Nat
    OBVIOUS
  <2>1. k = 1 \/ k - 1 \in 1..n
    BY <1>2
  <2>. QED BY <1>2, <2>1 DEF Before
<1>5. \A j, k \in 1..n : j <= k => index[j] <= index[k]
  <2>. SUFFICES ASSUME NEW j \in 1..n, NEW k \in 1..n, j <= k PROVE index[j] <= index[k]
    OBVIOUS
  <2>1. CASE j = k
    BY <1>2, <2>1
  <2>2. CASE j < k
    <3>1. index[j] < index[k] /\ index[j] \in Nat /\ index[k] \in Nat
      BY <1>1, <1>2, <2>2
    <3>. QED BY <3>1
  <2>. QED BY <1>2, <2>1, <2>2
<1>6. \A j, k \in 1..n : added[j] = added[k] => j = k
  <2>. SUFFICES ASSUME NEW j \in 1..n, NEW k \in 1..n, added[j] = added[k], j # k
                PROVE  FALSE
    OBVIOUS
  <2>1. j < k \/ k < j
    BY <1>2
  <2>2. added[j] < added[k] \/ added[k] < added[j]
    BY <1>1, <1>2, <2>1
  <2>. QED BY <1>2, <2>2
<1>7. offset \in Nat
  <2>1. n = 0 \/ n \in 1..n
    BY <1>2
  <2>. QED BY <1>1, <1>2, <2>1
<1>8. \A k \in 1..n : index[k] <= offset
  <2>. SUFFICES ASSUME NEW k \in 1..n PROVE index[k] <= offset
    OBVIOUS
  <2>1. n # 0 /\ n \in 1..n /\ k <= n
    BY <1>2
  <2>. QED BY <1>1, <1>5, <2>1
<1>. QED BY <1>2, <1>3, <1>4, <1>5, <1>6, <1>7, <1>8 DEF n, t

\* Every range around the task whose range holds the roll leads to that task.
LEMMA SearchFinds ==
  ASSUME WeighingInv, NEW roll \in Nat, NEW k \in DOMAIN index,
         Before(k) <= roll, roll < index[k]
  PROVE  BinarySearch(roll) = added[k]
<1>. DEFINE n == Len(index)
            S(l, r) == Search(roll)[<<l, r>>]
            Found(m) == \A l \in 1..(n + 1), r \in 0..n :
                          l <= k /\ k <= r /\ r - l < m => S(l, r) = added[k]
            G == {m \in Nat : Found(m)}
<1>1. /\ n \in Nat /\ DOMAIN index = 1..n /\ k \in 1..n
      /\ \A j \in 1..n : index[j] \in Nat
      /\ \A j, h \in 1..n : j <= h => index[j] <= index[h]
  BY WeighingFacts
<1>2. 0 \in G
  BY <1>1
<1>3. ASSUME NEW m \in G PROVE m + 1 \in G
  <2>. SUFFICES ASSUME NEW l \in 1..(n + 1), NEW r \in 0..n, l <= k, k <= r, r - l < m + 1
                PROVE  S(l, r) = added[k]
    BY <1>3
  <2>. DEFINE mid == (l + r) \div 2
  <2>1. Search(roll) = SearchRound(roll, Search(roll))
    BY <1>1, SearchExists
  <2>2. l <= r /\ l \in Nat /\ r \in Nat /\ r <= n /\ l >= 1
    BY <1>1
  <2>3. S(l, r) = IF l > r THEN None
                  ELSE IF l = mid THEN (IF roll < index[mid] THEN added[mid] ELSE added[mid + 1])
                  ELSE IF index[mid - 1] <= roll /\ roll < index[mid] THEN added[mid]
                  ELSE IF roll < index[mid - 1] THEN S(l, mid - 1)
                  ELSE S(mid + 1, r)
    <3>1. S(l, r) = SearchRound(roll, Search(roll))[<<l, r>>]
      BY <2>1
    <3>. QED BY <3>1, RoundOfRange
  <2>4. /\ mid \in Nat /\ l <= mid /\ mid <= r
        /\ l = mid => r = l \/ r = l + 1
    BY <2>2, MiddleIsInside
  <2>. HIDE DEF mid, S
  <2>5. mid \in 1..n /\ index[mid] \in Nat
    BY <1>1, <2>2, <2>4
  <2>6. k # 1 => k - 1 \in 1..n /\ index[k - 1] \in Nat /\ index[k - 1] <= roll
    BY <1>1 DEF Before
  <2>7. roll < index[mid] => k <= mid
    <3>. SUFFICES ASSUME roll < index[mid], k > mid PROVE FALSE
      BY <1>1, <2>5
    <3>1. k - 1 \in 1..n /\ mid <= k - 1 /\ index[k - 1] <= roll /\ index[k - 1] \in Nat
      BY <1>1, <2>5, <2>6
    <3>2. index[mid] <= index[k - 1]
      BY <1>1, <2>5, <3>1
    <3>. QED BY <2>5, <3>1, <3>2
  <2>8. roll >= index[mid] => k > mid
    <3>. SUFFICES ASSUME roll >= index[mid], k <= mid PROVE FALSE
      BY <1>1, <2>5
    <3>1. index[k] <= index[mid] /\ index[k] \in Nat
      BY <1>1, <2>5
    <3>. QED BY <2>5, <3>1
  <2>9. CASE l = mid
    <3>1. k = mid \/ k = mid + 1
      BY <1>1, <2>4, <2>9
    <3>2. S(l, r) = IF roll < index[mid] THEN added[mid] ELSE added[mid + 1]
      BY <2>2, <2>3, <2>9
    <3>3. CASE roll < index[mid]
      BY <1>1, <2>5, <2>7, <3>1, <3>2, <3>3
    <3>4. CASE roll >= index[mid]
      <4>1. ~(roll < index[mid]) /\ k = mid + 1
        BY <2>5, <2>8, <3>1, <3>4
      <4>. QED BY <3>2, <4>1
    <3>. QED BY <2>5, <3>3, <3>4
  <2>10. CASE l # mid
    <3>1. /\ mid - 1 \in 1..n /\ index[mid - 1] \in Nat /\ mid - 1 \in 0..n
          /\ mid + 1 \in 1..(n + 1)
          /\ (mid - 1) - l < m /\ r - (mid + 1) < m
      BY <1>1, <2>2, <2>4, <2>5, <2>10
    <3>2. roll < index[mid - 1] => k <= mid - 1
      <4>. SUFFICES ASSUME roll < index[mid - 1], k > mid - 1 PROVE FALSE
        BY <1>1, <3>1
      <4>1. k # 1 /\ mid - 1 <= k - 1
        BY <1>1, <3>1
      <4>2. index[mid - 1] <= index[k - 1]
        BY <1>1, <2>6, <3>1, <4>1
      <4>. QED BY <2>6, <3>1, <4>1, <4>2
    <3>3. roll >= index[mid - 1] => k > mid - 1
      <4>. SUFFICES ASSUME roll >= index[mid - 1], k <= mid - 1 PROVE FALSE
        BY <1>1, <3>1
      <4>1. index[k] <= index[mid - 1] /\ index[k] \in Nat
        BY <1>1, <3>1
      <4>. QED BY <3>1, <4>1
    <3>4. CASE index[mid - 1] <= roll /\ roll < index[mid]
      <4>1. k = mid
        BY <1>1, <2>5, <2>7, <3>1, <3>3, <3>4
      <4>. QED BY <2>2, <2>3, <2>10, <3>4, <4>1
    <3>5. CASE roll < index[mid - 1]
      <4>1. S(l, r) = S(l, mid - 1)
        BY <2>2, <2>3, <2>10, <3>1, <3>5
      <4>2. S(l, mid - 1) = added[k]
        BY <3>1, <3>2, <3>5
      <4>. QED BY <4>1, <4>2
    <3>6. CASE roll >= index[mid - 1] /\ roll >= index[mid]
      <4>1. S(l, r) = S(mid + 1, r)
        BY <2>2, <2>3, <2>5, <2>10, <3>1, <3>6
      <4>2. mid + 1 <= k
        BY <1>1, <2>5, <2>8, <3>6
      <4>3. S(mid + 1, r) = added[k]
        BY <3>1, <4>2
      <4>. QED BY <4>1, <4>3
    <3>. QED BY <2>5, <3>1, <3>4, <3>5, <3>6
  <2>. QED BY <2>9, <2>10
<1>4. n \in G
  <2>1. G \in SUBSET Nat
    OBVIOUS
  <2>. HIDE DEF G
  <2>. QED BY <1>1, <1>2, <1>3, <2>1, NatSetInduction
<1>5. S(1, n) = added[k]
  <2>. HIDE DEF S
  <2>. QED BY <1>1, <1>4
<1>. QED BY <1>5, SearchStarts

\* Every roll lies in the range of a task.
LEMMA RollHasRange ==
  ASSUME WeighingInv, NEW roll \in 0..(offset - 1)
  PROVE  \E k \in DOMAIN index : Before(k) <= roll /\ roll < index[k]
<1>. DEFINE n == Len(index)
            A == {k \in 1..n : roll < index[k]}
<1>1. n \in Nat /\ DOMAIN index = 1..n /\ \A j \in 1..n : index[j] \in Nat
  BY WeighingFacts
<1>2. n # 0 /\ offset = index[n] /\ roll < index[n]
  <2>1. n = 0 => offset = 0
    BY DEF WeighingInv
  <2>2. n # 0
    BY <2>1
  <2>3. offset = index[n]
    BY <2>2 DEF WeighingInv
  <2>. QED BY <1>1, <2>2, <2>3
<1>3. A \in SUBSET Nat /\ A # {}
  BY <1>1, <1>2
<1>4. PICK k \in A : \A j \in A : k <= j
  <2>. HIDE DEF A
  <2>. QED BY <1>3, NatMin
<1>5. k \in 1..n /\ roll < index[k]
  BY <1>4
<1>6. Before(k) <= roll
  <2>1. CASE k = 1
    BY <2>1 DEF Before
  <2>2. CASE k # 1
    <3>1. k - 1 \in 1..n /\ ~(k <= k - 1)
      BY <1>1, <1>5, <2>2
    <3>2. k - 1 \notin A /\ index[k - 1] \in Nat
      BY <1>1, <1>4, <3>1
    <3>. QED BY <2>2, <3>1, <3>2 DEF Before
  <2>. QED BY <2>1, <2>2
<1>. QED BY <1>1, <1>5, <1>6

\* The rolls are divided among the tasks by their weights.
LEMMA SearchIsFair == WeighingInv => WeighingIsFair
<1>. SUFFICES ASSUME WeighingInv, NEW i \in DOMAIN tasks
              PROVE  Cardinality({roll \in 0..(offset - 1) : WeighingGetTask(roll) = i}) = tasks[i]
  BY DEF WeighingIsFair
<1>. DEFINE mine == {roll \in 0..(offset - 1) : WeighingGetTask(roll) = i}
            n == Len(index)
<1>1. /\ n \in Nat /\ DOMAIN index = 1..n /\ tasks[i] \in Nat
      /\ \A j \in 1..n : index[j] \in Nat /\ added[j] \in Nat /\ Before(j) \in Nat
  BY WeighingFacts
<1>2. offset \in Nat /\ \A k \in 1..n : index[k] <= offset
  BY WeighingFacts
<1>3. ASSUME NEW roll \in 0..(offset - 1)
      PROVE  \E k \in 1..n : Before(k) <= roll /\ roll < index[k] /\ WeighingGetTask(roll) = added[k]
  <2>1. PICK k \in 1..n : Before(k) <= roll /\ roll < index[k]
    BY <1>1, RollHasRange
  <2>2. roll \in Nat /\ ~(roll < 0) /\ ~(roll >= offset)
    BY <1>2
  <2>3. BinarySearch(roll) = added[k]
    BY <1>1, <2>1, <2>2, SearchFinds
  <2>. QED BY <2>1, <2>2, <2>3 DEF WeighingGetTask
<1>4. CASE tasks[i] = 0
  <2>1. mine = {}
    <3>. SUFFICES ASSUME NEW roll \in mine PROVE FALSE
      OBVIOUS
    <3>1. PICK k \in 1..n : WeighingGetTask(roll) = added[k]
      BY <1>3
    <3>2. added[k] = i /\ tasks[added[k]] > 0
      BY <1>1, <3>1 DEF WeighingInv
    <3>. QED BY <1>4, <3>2
  <2>. HIDE DEF mine
  <2>2. Cardinality(mine) = 0
    BY <2>1, FS_EmptySet
  <2>. QED BY <1>4, <2>2 DEF mine
<1>5. CASE tasks[i] # 0
  <2>1. PICK k \in 1..n : added[k] = i
    BY <1>1, <1>5 DEF WeighingInv
  <2>. DEFINE lo == Before(k)
              hi == index[k]
  <2>2. lo \in Nat /\ hi \in Nat /\ hi = lo + tasks[i] /\ hi <= offset
    BY <1>1, <1>2, <2>1 DEF WeighingInv
  <2>3. ASSUME NEW roll \in mine PROVE roll \in lo..(hi - 1)
    <3>1. PICK j \in 1..n : Before(j) <= roll /\ roll < index[j] /\ WeighingGetTask(roll) = added[j]
      BY <1>3
    <3>2. added[j] = added[k]
      BY <2>1, <3>1
    <3>3. j = k
      BY <3>2, WeighingFacts
    <3>. QED BY <1>1, <2>2, <3>1, <3>3
  <2>4. ASSUME NEW roll \in lo..(hi - 1) PROVE roll \in mine
    <3>1. roll \in 0..(offset - 1) /\ roll \in Nat /\ lo <= roll /\ roll < hi
      BY <1>2, <2>2
    <3>2. BinarySearch(roll) = i
      BY <1>1, <2>1, <3>1, SearchFinds
    <3>3. ~(roll < 0) /\ ~(roll >= offset)
      BY <1>2, <3>1
    <3>. QED BY <3>1, <3>2, <3>3 DEF WeighingGetTask
  <2>5. mine = lo..(hi - 1)
    <3>. HIDE DEF mine, lo, hi
    <3>. QED BY <2>3, <2>4
  <2>. HIDE DEF mine, lo, hi
  <2>6. Cardinality(lo..(hi - 1)) = IF lo > hi - 1 THEN 0 ELSE (hi - 1) - lo + 1
    <3>1. lo \in Int /\ hi - 1 \in Int
      BY <2>2
    <3>. QED BY <3>1, FS_Interval
  <2>7. Cardinality(mine) = Cardinality(lo..(hi - 1))
    BY <2>5, Zenon
  <2>8. Cardinality(mine) = tasks[i]
    BY <1>1, <2>2, <2>6, <2>7
  <2>. QED BY <2>8 DEF mine
<1>. QED BY <1>4, <1>5

\* AddTask of a task with weight extends the ranges by one.
LEMMA WeighingAdds ==
  ASSUME WeighingInv, NEW weight \in Nat,
         tasks' = Append(tasks, weight), WeighingAddTask(weight)
  PROVE  WeighingInv'
<1>. DEFINE n == Len(index)
            t == Len(tasks)
<1>1. /\ n \in Nat /\ DOMAIN index = 1..n /\ t \in Nat /\ DOMAIN tasks = 1..t
      /\ DOMAIN added = 1..n
      /\ \A j \in 1..n : index[j] \in Nat /\ added[j] \in 1..t /\ added[j] \in Nat
      /\ \A j \in 1..t : tasks[j] \in Nat
  BY WeighingFacts
<1>2. /\ tasks' \in Seq(Nat) /\ DOMAIN tasks' = 1..(t + 1) /\ tasks'[t + 1] = weight
      /\ \A j \in 1..t : tasks'[j] = tasks[j]
  BY <1>1 DEF WeighingInv
<1>3. CASE weight = 0
  <2>1. UNCHANGED <<added, index, offset>>
    BY <1>3 DEF WeighingAddTask, weighingVars
  <2>2. \A k \in 1..n : Before(k)' = Before(k)
    BY <2>1 DEF Before
  <2>3. \A k \in DOMAIN index' : /\ added'[k] \in DOMAIN tasks'
                                 /\ tasks'[added'[k]] > 0
                                 /\ index'[k] = Before(k)' + tasks'[added'[k]]
    BY <1>1, <1>2, <2>1, <2>2 DEF WeighingInv
  <2>4. \A i \in DOMAIN tasks' : tasks'[i] > 0 => \E k \in DOMAIN index' : added'[k] = i
    <3>. SUFFICES ASSUME NEW i \in DOMAIN tasks', tasks'[i] > 0
                  PROVE  \E k \in DOMAIN index' : added'[k] = i
      OBVIOUS
    <3>1. i \in 1..t /\ tasks[i] > 0
      BY <1>1, <1>2, <1>3
    <3>. QED BY <1>1, <2>1, <3>1 DEF WeighingInv
  <2>. QED BY <1>2, <2>1, <2>3, <2>4 DEF WeighingInv
<1>4. CASE weight > 0
  <2>1. /\ added' = Append(added, t + 1) /\ offset' = offset + weight
        /\ index' = Append(index, offset + weight)
    BY <1>4 DEF WeighingAddTask
  <2>2. offset \in Nat /\ offset = Before(n + 1)
    BY <1>1 DEF WeighingInv, Before
  <2>3. /\ added' \in Seq(Nat) /\ index' \in Seq(Nat)
        /\ Len(added') = n + 1 /\ Len(index') = n + 1
        /\ DOMAIN index' = 1..(n + 1)
        /\ added'[n + 1] = t + 1 /\ index'[n + 1] = offset + weight
        /\ \A j \in 1..n : added'[j] = added[j] /\ index'[j] = index[j]
    <3>. DEFINE a == t + 1
                o == offset + weight
    <3>1. /\ added \in Seq(Nat) /\ index \in Seq(Nat) /\ Len(added) = n /\ Len(index) = n
          /\ a \in Nat /\ o \in Nat
      <4>1. added \in Seq(Nat) /\ index \in Seq(Nat) /\ Len(added) = n /\ Len(index) = n
        BY DEF WeighingInv
      <4>2. a \in Nat /\ o \in Nat
        BY <1>1, <2>2
      <4>. QED BY <4>1, <4>2
    <3>2. added' = Append(added, a) /\ index' = Append(index, o)
      BY <2>1
    <3>. HIDE DEF n, t, a, o
    <3>3. /\ added' \in Seq(Nat) /\ Len(added') = n + 1 /\ added'[n + 1] = a
          /\ \A j \in 1..n : added'[j] = added[j]
      BY <3>1, <3>2
    <3>4. /\ index' \in Seq(Nat) /\ Len(index') = n + 1 /\ index'[n + 1] = o
          /\ DOMAIN index' = 1..(n + 1)
          /\ \A j \in 1..n : index'[j] = index[j]
      BY <3>1, <3>2
    <3>. QED BY <3>3, <3>4 DEF a, o
  <2>4. offset' = IF Len(index') = 0 THEN 0 ELSE index'[Len(index')]
    BY <1>1, <2>1, <2>3
  <2>5. \A k \in 1..(n + 1) : Before(k)' = Before(k)
    <3>. SUFFICES ASSUME NEW k \in 1..(n + 1) PROVE Before(k)' = Before(k)
      OBVIOUS
    <3>1. k = 1 \/ k - 1 \in 1..n
      BY <1>1
    <3>. QED BY <2>3, <3>1 DEF Before
  <2>6. \A k \in DOMAIN index' : /\ added'[k] \in DOMAIN tasks'
                                 /\ tasks'[added'[k]] > 0
                                 /\ index'[k] = Before(k)' + tasks'[added'[k]]
    <3>1. ASSUME NEW k \in 1..n
          PROVE  /\ added'[k] \in DOMAIN tasks'
                 /\ tasks'[added'[k]] > 0
                 /\ index'[k] = Before(k)' + tasks'[added'[k]]
      <4>1. tasks[added[k]] > 0 /\ index[k] = Before(k) + tasks[added[k]]
        BY <1>1 DEF WeighingInv
      <4>2. added[k] \in 1..t /\ k \in 1..(n + 1) /\ t \in Nat
        BY <1>1
      <4>3. Before(k)' = Before(k)
        BY <2>5, <4>2
      <4>4. added'[k] = added[k] /\ index'[k] = index[k] /\ tasks'[added[k]] = tasks[added[k]]
        BY <1>2, <2>3, <4>2
      <4>5. added[k] \in 1..(t + 1)
        BY <4>2
      <4>. QED BY <1>2, <4>1, <4>3, <4>4, <4>5
    <3>2. ASSUME NEW k \in 1..(n + 1), k = n + 1
          PROVE  /\ added'[k] \in DOMAIN tasks'
                 /\ tasks'[added'[k]] > 0
                 /\ index'[k] = Before(k)' + tasks'[added'[k]]
      <4>1. Before(k)' = offset
        BY <2>2, <2>5, <3>2
      <4>2. added'[k] = t + 1 /\ index'[k] = offset + weight
        BY <2>3, <3>2
      <4>. QED BY <1>1, <1>2, <1>4, <4>1, <4>2
    <3>3. \A k \in 1..(n + 1) : k \in 1..n \/ k = n + 1
      BY <1>1
    <3>. QED BY <2>3, <3>1, <3>2, <3>3
  <2>7. \A j \in 1..n : index[j] <= offset
    BY WeighingFacts
  <2>8. ASSUME NEW j \in 1..(n + 1), NEW k \in 1..(n + 1), j < k
        PROVE  added'[j] < added'[k] /\ index'[j] < index'[k]
    <3>1. j \in 1..n
      BY <1>1, <2>8
    <3>2. CASE k = n + 1
      <4>1. added[j] < t + 1 /\ index[j] < offset + weight
        BY <1>1, <1>4, <2>2, <2>7, <3>1
      <4>. QED BY <2>3, <3>1, <3>2, <4>1
    <3>3. CASE k # n + 1
      <4>1. k \in 1..n
        BY <1>1, <3>3
      <4>2. added[j] < added[k] /\ index[j] < index[k]
        BY <1>1, <2>8, <3>1, <4>1 DEF WeighingInv
      <4>. QED BY <2>3, <3>1, <4>1, <4>2
    <3>. QED BY <3>2, <3>3
  <2>9. \A i \in DOMAIN tasks' : tasks'[i] > 0 => \E k \in DOMAIN index' : added'[k] = i
    <3>. SUFFICES ASSUME NEW i \in 1..(t + 1), tasks'[i] > 0
                  PROVE  \E k \in 1..(n + 1) : added'[k] = i
      BY <1>2, <2>3
    <3>1. CASE i = t + 1
      BY <1>1, <2>3, <3>1
    <3>2. CASE i # t + 1
      <4>1. i \in 1..t /\ tasks[i] > 0
        BY <1>1, <1>2, <3>2
      <4>2. PICK k \in 1..n : added[k] = i
        BY <1>1, <4>1 DEF WeighingInv
      <4>. QED BY <1>1, <2>3, <4>2
    <3>. QED BY <3>1, <3>2
  <2>. HIDE DEF n, t
  <2>. QED BY <1>2, <2>3, <2>4, <2>6, <2>8, <2>9 DEF WeighingInv
<1>. QED BY <1>3, <1>4

\* For any tasks, the rolls of WeighingTaskSet.Run are divided by the weights.
THEOREM WeighingPicksFairly == Spec => []WeighingIsFair
<1>1. Init => WeighingInv
  BY DEF Init, WeighingInv
<1>2. WeighingInv /\ [Next]_vars => WeighingInv'
  <2>. SUFFICES ASSUME WeighingInv, [Next]_vars PROVE WeighingInv'
    OBVIOUS
  <2>1. ASSUME NEW weight \in Weights, AddTask(weight) PROVE WeighingInv'
    <3>1. weight \in Nat /\ tasks' = Append(tasks, weight) /\ WeighingAddTask(weight)
      BY <2>1, TaskSetAssumption DEF AddTask
    <3>. QED BY <3>1, WeighingAdds
  <2>2. CASE GetTask \/ GetOnlyTask \/ UNCHANGED vars
    <3>1. UNCHANGED <<tasks, added, index, offset>>
      BY <2>2 DEF GetTask, GetOnlyTask, vars, weighingVars
    <3>. QED BY <3>1 DEF WeighingInv, Before
  <2>. QED BY <2>1, <2>2 DEF Next
<1>. QED BY <1>1, <1>2, SearchIsFair, PTL DEF Spec
===============================================================================
