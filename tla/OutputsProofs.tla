---------------------------- MODULE OutputsProofs ----------------------------
(***************************************************************************)
(* What the outputs compute, for any reports: the summary is sorted and    *)
(* says of all reports what a report says of one, also in its percentiles; *)
(* outputs and files agree; the master gets the errors that were           *)
(* collected.                                                              *)
(***************************************************************************)
EXTENDS Outputs, SumTheorems

(***************************************************************************)
(* Loops                                                                   *)
(***************************************************************************)

\* The values of a loop after each of its n rounds.
Runs(f, T, base, body, n) ==
  /\ f \in [0..n -> T] /\ f[0] = base
  /\ \A i \in 1..n : f[i] = body[<<f[i - 1], i>>]

\* A loop of n rounds has a value after each of them.
LEMMA LoopExists ==
  ASSUME NEW T, NEW base \in T, NEW body \in [T \X Nat -> T], NEW n \in Nat
  PROVE  \E f : Runs(f, T, base, body, n)
<1>. DEFINE G == {m \in Nat : \E f : Runs(f, T, base, body, m)}
<1>1. 0 \in G
  <2>1. Runs([i \in 0..0 |-> base], T, base, body, 0)
    BY DEF Runs
  <2>. QED BY <2>1
<1>2. ASSUME NEW m \in Nat, m \in G PROVE m + 1 \in G
  <2>1. PICK f : Runs(f, T, base, body, m)
    BY <1>2
  <2>. DEFINE g == [i \in 0..(m + 1) |-> IF i <= m THEN f[i] ELSE body[<<f[m], m + 1>>]]
  <2>2. body[<<f[m], m + 1>>] \in T
    BY <2>1 DEF Runs
  <2>3. g \in [0..(m + 1) -> T] /\ g[0] = base
    BY <2>1, <2>2 DEF Runs
  <2>4. ASSUME NEW i \in 1..(m + 1) PROVE g[i] = body[<<g[i - 1], i>>]
    <3>1. i - 1 \in 0..m /\ g[i - 1] = f[i - 1]
      OBVIOUS
    <3>2. CASE i <= m
      <4>1. i \in 1..m /\ g[i] = f[i]
        BY <3>2
      <4>. QED BY <2>1, <3>1, <4>1 DEF Runs
    <3>3. CASE i = m + 1
      <4>1. i - 1 = m /\ g[i] = body[<<f[m], m + 1>>]
        BY <3>3
      <4>. HIDE DEF g
      <4>. QED BY <3>1, <3>3, <4>1
    <3>. QED BY <3>2, <3>3
  <2>5. Runs(g, T, base, body, m + 1)
    BY <2>3, <2>4 DEF Runs
  <2>. HIDE DEF g
  <2>. QED BY <2>5
<1>. HIDE DEF G
<1>3. n \in G
  BY <1>1, <1>2, NatSetInduction
<1>. QED BY <1>3 DEF G

(***************************************************************************)
(* sortOutput                                                              *)
(***************************************************************************)

\* The permutations of 1..len that leave the places after n alone.
Perms(len, n) ==
  {p \in [1..len -> 1..len] :
     /\ \A i, j \in 1..len : p[i] = p[j] => i = j
     /\ \A j \in 1..len : \E i \in 1..len : p[i] = j
     /\ \A i \in 1..len : i > n => p[i] = i}

\* t has the elements of s, in another order up to place n.
Permuted(t, s, n) ==
  /\ Len(t) = Len(s)
  /\ \E p \in Perms(Len(s), n) : \A i \in 1..Len(s) : t[i] = s[p[i]]

\* A sequence is a permutation of itself.
LEMMA PermutedSame ==
  ASSUME NEW R, NEW s \in Seq(R), NEW n \in Nat
  PROVE  Permuted(s, s, n)
<1>. DEFINE p == [i \in 1..Len(s) |-> i]
<1>1. p \in Perms(Len(s), n)
  BY DEF Perms
<1>. QED BY <1>1 DEF Permuted

\* A permutation of a permutation is one.
LEMMA PermutedTwice ==
  ASSUME NEW R, NEW s \in Seq(R), NEW t \in Seq(R), NEW u \in Seq(R), NEW n \in Nat, NEW m \in Nat,
         Permuted(t, s, n), Permuted(u, t, m), m <= n
  PROVE  Permuted(u, s, n)
<1>1. PICK p \in Perms(Len(s), n) : \A i \in 1..Len(s) : t[i] = s[p[i]]
  BY DEF Permuted
<1>2. PICK q \in Perms(Len(s), m) : \A i \in 1..Len(s) : u[i] = t[q[i]]
  BY DEF Permuted
<1>. DEFINE r == [i \in 1..Len(s) |-> p[q[i]]]
<1>3. r \in [1..Len(s) -> 1..Len(s)]
  BY DEF Perms
<1>4. \A i, j \in 1..Len(s) : r[i] = r[j] => i = j
  BY DEF Perms
<1>5. \A j \in 1..Len(s) : \E i \in 1..Len(s) : r[i] = j
  <2>. TAKE j \in 1..Len(s)
  <2>1. PICK k \in 1..Len(s) : p[k] = j
    BY DEF Perms
  <2>2. PICK i \in 1..Len(s) : q[i] = k
    BY DEF Perms
  <2>. QED BY <2>1, <2>2
<1>6. \A i \in 1..Len(s) : i > n => r[i] = i
  <2>. SUFFICES ASSUME NEW i \in 1..Len(s), i > n PROVE r[i] = i
    OBVIOUS
  <2>1. i > m
    OBVIOUS
  <2>2. q[i] = i
    BY <2>1 DEF Perms
  <2>3. p[i] = i
    BY DEF Perms
  <2>. QED BY <2>2, <2>3
<1>7. r \in Perms(Len(s), n)
  <2>. HIDE DEF r
  <2>. QED BY <1>3, <1>4, <1>5, <1>6 DEF Perms
<1>8. \A i \in 1..Len(s) : u[i] = s[r[i]]
  BY <1>1, <1>2 DEF Perms
<1>. HIDE DEF r
<1>. QED BY <1>7, <1>8 DEF Permuted

\* A sequence of elements that have names.
Named(R) == \A a \in R : a.name \in Int

\* One comparison of the inner loop: places j - 1 and j are put in order.
LEMMA ExchangeStep ==
  ASSUME NEW R, Named(R), NEW s \in Seq(R), NEW j \in 2..Len(s)
  PROVE  /\ Exchange(s, j) \in Seq(R)
         /\ Permuted(Exchange(s, j), s, j)
         /\ \A i \in 1..Len(s) : i \notin {j - 1, j} => Exchange(s, j)[i] = s[i]
         /\ Exchange(s, j)[j - 1].name <= Exchange(s, j)[j].name
         /\ s[j - 1].name <= Exchange(s, j)[j].name
<1>. DEFINE t == Exchange(s, j)
<1>0. /\ j \in 1..Len(s) /\ j - 1 \in 1..Len(s) /\ s[j] \in R /\ s[j - 1] \in R
      /\ s[j].name \in Int /\ s[j - 1].name \in Int
  BY DEF Named
<1>1. CASE s[j].name < s[j - 1].name
  <2>1. t = [s EXCEPT ![j] = s[j - 1], ![j - 1] = s[j]]
    BY <1>1 DEF Exchange
  <2>. HIDE DEF t
  <2>2. t \in Seq(R) /\ Len(t) = Len(s)
    BY <1>0, <2>1
  <2>3. /\ t[j] = s[j - 1] /\ t[j - 1] = s[j]
        /\ \A i \in 1..Len(s) : i \notin {j - 1, j} => t[i] = s[i]
    BY <1>0, <2>1
  <2>. DEFINE p == [i \in 1..Len(s) |-> IF i = j THEN j - 1 ELSE IF i = j - 1 THEN j ELSE i]
  <2>4. p \in Perms(Len(s), j)
    <3>1. p \in [1..Len(s) -> 1..Len(s)]
      BY <1>0
    <3>2. \A i, k \in 1..Len(s) : p[i] = p[k] => i = k
      OBVIOUS
    <3>3. \A k \in 1..Len(s) : p[p[k]] = k
      BY <1>0
    <3>4. \A i \in 1..Len(s) : i > j => p[i] = i
      OBVIOUS
    <3>. HIDE DEF p
    <3>. QED BY <3>1, <3>2, <3>3, <3>4 DEF Perms
  <2>5. \A i \in 1..Len(s) : t[i] = s[p[i]]
    BY <2>3
  <2>6. Permuted(t, s, j)
    <3>. HIDE DEF p
    <3>. QED BY <2>2, <2>4, <2>5 DEF Permuted
  <2>. QED BY <1>0, <1>1, <2>2, <2>3, <2>6 DEF t
<1>2. CASE ~(s[j].name < s[j - 1].name)
  <2>1. t = s
    BY <1>2 DEF Exchange
  <2>. HIDE DEF t
  <2>2. Permuted(t, s, j)
    BY <2>1, PermutedSame
  <2>. QED BY <1>0, <1>2, <2>1, <2>2 DEF t
<1>. QED BY <1>1, <1>2

\* The values of the inner loop.
Compares(after, R, s, n) ==
  /\ after \in [1..n -> Seq(R)]
  /\ \A j \in 1..n : after[j] = IF j = 1 THEN s ELSE Exchange(after[j - 1], j)

\* The loop of Bubble has a value after each comparison.
LEMMA BubbleLoop ==
  ASSUME NEW R, Named(R), NEW s \in Seq(R), NEW n \in 1..Len(s)
  PROVE  \E after : Compares(after, R, s, n) /\ Bubble(s, n) = after[n]
<1>. DEFINE T == {t \in Seq(R) : Len(t) = Len(s)}
            body == [x \in T \X Nat |->
                       IF x[2] + 1 \in 2..Len(s) THEN Exchange(x[1], x[2] + 1) ELSE x[1]]
            m == n - 1
<1>1. body \in [T \X Nat -> T]
  <2>. SUFFICES ASSUME NEW t \in T, NEW j \in 2..Len(s) PROVE Exchange(t, j) \in T
    OBVIOUS
  <2>1. Exchange(t, j) \in Seq(R) /\ Permuted(Exchange(t, j), t, j)
    BY ExchangeStep
  <2>. QED BY <2>1 DEF Permuted
<1>2. m \in Nat /\ s \in T
  OBVIOUS
<1>3. PICK f : Runs(f, T, s, body, m)
  <2>. HIDE DEF T, body, m
  <2>. QED BY <1>1, <1>2, LoopExists
<1>. DEFINE g == [j \in 1..n |-> f[j - 1]]
            Eq(h) == h = [j \in 1..n |-> IF j = 1 THEN s ELSE Exchange(h[j - 1], j)]
            after == CHOOSE h : Eq(h)
<1>4. ASSUME NEW j \in 1..n, j # 1 PROVE g[j] = Exchange(g[j - 1], j)
  <2>1. j - 1 \in 1..m /\ j - 2 \in 0..m /\ j - 1 \in 1..n /\ (j - 1) - 1 = j - 2
    BY <1>4
  <2>2. g[j] = f[j - 1] /\ g[j - 1] = f[j - 2]
    BY <2>1
  <2>3. f[j - 1] = body[<<f[j - 2], j - 1>>]
    BY <1>3, <2>1 DEF Runs
  <2>4. f[j - 2] \in T /\ (j - 1) + 1 = j /\ j \in 2..Len(s) /\ j - 1 \in Nat
    BY <1>3, <1>4, <2>1 DEF Runs
  <2>5. body[<<f[j - 2], j - 1>>] = Exchange(f[j - 2], j)
    <3>. HIDE DEF T
    <3>. QED BY <2>4
  <2>. QED BY <2>2, <2>3, <2>5
<1>5. g[1] = s /\ g \in [1..n -> Seq(R)]
  BY <1>3 DEF Runs
<1>6. Eq(g)
  BY <1>4, <1>5
<1>7. Eq(after)
  <2>. HIDE DEF Eq, g
  <2>. QED BY <1>6
<1>8. Bubble(s, n) = after[n]
  BY DEF Bubble
<1>. HIDE DEF after
<1>9. \A j \in 1..n : after[j] = IF j = 1 THEN s ELSE Exchange(after[j - 1], j)
  BY <1>7
<1>10. \A j \in 1..n : after[j] = g[j]
  <2>. DEFINE G == {k \in Nat : k + 1 \in 1..n => after[k + 1] = g[k + 1]}
  <2>. HIDE DEF g
  <2>1. 0 \in G
    BY <1>5, <1>9
  <2>2. ASSUME NEW k \in Nat, k \in G PROVE k + 1 \in G
    <3>. SUFFICES ASSUME (k + 1) + 1 \in 1..n PROVE after[(k + 1) + 1] = g[(k + 1) + 1]
      OBVIOUS
    <3>1. k + 1 \in 1..n /\ (k + 1) + 1 # 1 /\ ((k + 1) + 1) - 1 = k + 1
      OBVIOUS
    <3>2. after[k + 1] = g[k + 1]
      BY <2>2, <3>1
    <3>. QED BY <1>4, <1>9, <3>1, <3>2
  <2>3. Nat \subseteq G
    <3>. HIDE DEF G
    <3>. QED BY <2>1, <2>2, NatSetInduction
  <2>. SUFFICES ASSUME NEW j \in 1..n PROVE after[j] = g[j]
    OBVIOUS
  <2>4. j - 1 \in Nat /\ (j - 1) + 1 = j
    OBVIOUS
  <2>5. j - 1 \in G
    <3>. HIDE DEF G
    <3>. QED BY <2>3, <2>4
  <2>. QED BY <2>4, <2>5
<1>11. after \in [1..n -> Seq(R)]
  BY <1>5, <1>7, <1>10
<1>. QED BY <1>8, <1>9, <1>11 DEF Compares

\* The inner loop permutes the first n places and puts the largest name last.
LEMMA BubbleStep ==
  ASSUME NEW R, Named(R), NEW s \in Seq(R), NEW n \in 1..Len(s)
  PROVE  /\ Bubble(s, n) \in Seq(R)
         /\ Permuted(Bubble(s, n), s, n)
         /\ \A i \in 1..n : Bubble(s, n)[i].name <= Bubble(s, n)[n].name
<1>1. PICK after : Compares(after, R, s, n) /\ Bubble(s, n) = after[n]
  BY BubbleLoop
<1>. DEFINE Good(t, j) == /\ Permuted(t, s, n)
                          /\ \A i \in 1..j : t[i].name <= t[j].name
            G == {k \in Nat : k + 1 \in 1..n => Good(after[k + 1], k + 1)}
<1>2. 0 \in G
  <2>1. Permuted(s, s, n)
    BY PermutedSame
  <2>2. s[1].name \in Int
    BY DEF Named
  <2>3. after[1] = s
    BY <1>1 DEF Compares
  <2>. QED BY <2>1, <2>2, <2>3
<1>3. ASSUME NEW k \in Nat, k \in G PROVE k + 1 \in G
  <2>. DEFINE j == (k + 1) + 1
              t == after[k + 1]
              u == after[j]
  <2>. SUFFICES ASSUME j \in 1..n PROVE Good(u, j)
    OBVIOUS
  <2>1. k + 1 \in 1..n /\ j # 1 /\ j - 1 = k + 1
    OBVIOUS
  <2>2. Good(t, j - 1) /\ t \in Seq(R) /\ u \in Seq(R)
    BY <1>1, <1>3, <2>1 DEF Compares
  <2>3. u = Exchange(t, j)
    BY <1>1, <2>1 DEF Compares
  <2>. HIDE DEF t, u
  <2>4. Len(t) = Len(s) /\ j \in 2..Len(t)
    BY <2>1, <2>2 DEF Permuted
  <2>. HIDE DEF j
  <2>5. /\ Permuted(u, t, j)
        /\ \A i \in 1..Len(t) : i \notin {j - 1, j} => u[i] = t[i]
        /\ u[j - 1].name <= u[j].name
        /\ t[j - 1].name <= u[j].name
    BY <2>2, <2>3, <2>4, ExchangeStep
  <2>6. Permuted(u, s, n)
    <3>1. j \in Nat /\ n \in Nat /\ j <= n
      BY <2>4
    <3>. QED BY <2>2, <2>5, <3>1, PermutedTwice
  <2>7. ASSUME NEW i \in 1..j PROVE u[i].name <= u[j].name
    <3>0. i \in 1..Len(t) /\ j \in 1..Len(t) /\ j - 1 \in 1..Len(t) /\ Len(u) = Len(t)
      BY <2>4, <2>5 DEF Permuted
    <3>1. t[i].name \in Int /\ t[j - 1].name \in Int /\ u[j].name \in Int
      BY <2>2, <3>0 DEF Named
    <3>2. CASE i = j
      BY <3>1, <3>2
    <3>3. CASE i = j - 1
      BY <2>5, <3>3
    <3>4. CASE i \in 1..(j - 1) /\ i # j - 1
      <4>1. u[i] = t[i]
        BY <2>4, <2>5, <3>0, <3>4
      <4>2. t[i].name <= t[j - 1].name
        BY <2>2, <3>4
      <4>. QED BY <2>5, <3>1, <4>1, <4>2
    <3>. QED BY <2>4, <3>2, <3>3, <3>4
  <2>. QED BY <2>6, <2>7
<1>4. Nat \subseteq G
  <2>. HIDE DEF G
  <2>. QED BY <1>2, <1>3, NatSetInduction
<1>5. n - 1 \in Nat /\ (n - 1) + 1 = n
  OBVIOUS
<1>6. n - 1 \in G
  <2>. HIDE DEF G
  <2>. QED BY <1>4, <1>5
<1>7. Good(after[n], n)
  BY <1>5, <1>6
<1>. QED BY <1>1, <1>7 DEF Compares

\* The places from m + 1 on hold the largest names, in order.
SortedFrom(s, m) ==
  \A j, k \in 1..Len(s) : j < k /\ k > m => s[j].name <= s[k].name

\* One round of the outer loop.
LEMMA PassStep ==
  ASSUME NEW R, Named(R), NEW s \in Seq(R), NEW n \in 1..Len(s), SortedFrom(s, n)
  PROVE  SortedFrom(Bubble(s, n), n - 1)
<1>. DEFINE t == Bubble(s, n)
<1>1. /\ t \in Seq(R) /\ Permuted(t, s, n)
      /\ \A i \in 1..n : t[i].name <= t[n].name
  BY BubbleStep
<1>. HIDE DEF t
<1>2. PICK p \in Perms(Len(s), n) : \A i \in 1..Len(s) : t[i] = s[p[i]]
  BY <1>1 DEF Permuted
<1>3. Len(t) = Len(s)
  BY <1>1 DEF Permuted
<1>4. ASSUME NEW j \in 1..Len(s), NEW k \in 1..Len(s), j < k, k > n - 1
      PROVE  t[j].name <= t[k].name
  <2>1. CASE k = n
    BY <1>1, <1>4, <2>1
  <2>2. CASE k > n
    <3>1. t[k] = s[k]
      BY <1>2, <2>2 DEF Perms
    <3>2. p[j] \in 1..Len(s) /\ p[j] < k
      <4>1. p[j] \in 1..Len(s)
        BY DEF Perms
      <4>2. CASE j > n
        BY <1>4, <4>1, <4>2 DEF Perms
      <4>3. CASE j <= n
        <5>. SUFFICES ASSUME p[j] > n PROVE FALSE
          BY <2>2, <4>1
        <5>1. p[p[j]] = p[j]
          BY <4>1 DEF Perms
        <5>2. p[j] = j
          BY <4>1, <5>1 DEF Perms
        <5>. QED BY <4>3, <5>2
      <4>. QED BY <4>2, <4>3
    <3>3. s[p[j]].name <= s[k].name
      BY <2>2, <3>2 DEF SortedFrom
    <3>. QED BY <1>2, <3>1, <3>3
  <2>. QED BY <1>4, <2>1, <2>2
<1>. QED BY <1>3, <1>4 DEF SortedFrom, t

\* sortOutput returns the same rows with their names in order.
LEMMA SortOutputSorts ==
  ASSUME NEW R, Named(R), NEW s \in Seq(R)
  PROVE  /\ SortOutput(s) \in Seq(R)
         /\ Permuted(SortOutput(s), s, Len(s))
         /\ \A j, k \in 1..Len(s) : j < k => SortOutput(s)[j].name <= SortOutput(s)[k].name
<1>. DEFINE n == Len(s)
            T == {t \in Seq(R) : Len(t) = n}
            body == [x \in T \X Nat |->
                       IF x[2] \in 1..n THEN Bubble(x[1], n - x[2] + 1) ELSE x[1]]
            Eq(h) == h = [i \in 0..n |-> IF i = 0 THEN s ELSE Bubble(h[i - 1], n - i + 1)]
            pass == CHOOSE h : Eq(h)
<1>0. n \in Nat /\ s \in T
  OBVIOUS
<1>1. body \in [T \X Nat -> T]
  <2>. SUFFICES ASSUME NEW t \in T, NEW i \in 1..n PROVE Bubble(t, n - i + 1) \in T
    OBVIOUS
  <2>1. n - i + 1 \in 1..Len(t) /\ t \in Seq(R)
    OBVIOUS
  <2>2. Bubble(t, n - i + 1) \in Seq(R) /\ Permuted(Bubble(t, n - i + 1), t, n - i + 1)
    BY <2>1, BubbleStep
  <2>. QED BY <2>2 DEF Permuted
<1>2. PICK f : Runs(f, T, s, body, n)
  <2>. HIDE DEF T, body, n
  <2>. QED BY <1>0, <1>1, LoopExists
<1>3. Eq(f)
  <2>1. ASSUME NEW i \in 1..n PROVE f[i] = Bubble(f[i - 1], n - i + 1)
    <3>1. i - 1 \in 0..n /\ f[i - 1] \in T /\ i \in Nat
      BY <1>0, <1>2 DEF Runs
    <3>2. f[i] = body[<<f[i - 1], i>>]
      BY <1>2 DEF Runs
    <3>. HIDE DEF T
    <3>. QED BY <3>1, <3>2
  <2>2. f[0] = s /\ f = [i \in 0..n |-> f[i]]
    BY <1>2 DEF Runs
  <2>3. \A i \in 0..n : f[i] = IF i = 0 THEN s ELSE Bubble(f[i - 1], n - i + 1)
    BY <1>0, <2>1, <2>2
  <2>. HIDE DEF n
  <2>. QED BY <2>2, <2>3
<1>4. Eq(pass)
  <2>. HIDE DEF Eq
  <2>. QED BY <1>3
<1>5. SortOutput(s) = pass[n]
  BY DEF SortOutput
<1>. HIDE DEF pass
<1>6. pass[0] = s /\ \A i \in 1..n : pass[i] = Bubble(pass[i - 1], n - i + 1)
  BY <1>0, <1>4
<1>. DEFINE Good(t, i) == t \in Seq(R) /\ Permuted(t, s, n) /\ SortedFrom(t, n - i)
            G == {i \in Nat : i <= n => Good(pass[i], i)}
<1>7. 0 \in G
  <2>1. Permuted(s, s, n)
    BY <1>0, PermutedSame
  <2>2. SortedFrom(s, n - 0)
    BY DEF SortedFrom
  <2>. QED BY <1>6, <2>1, <2>2
<1>8. ASSUME NEW i \in Nat, i \in G PROVE i + 1 \in G
  <2>. DEFINE t == pass[i]
              m == n - i
  <2>. SUFFICES ASSUME i + 1 <= n PROVE Good(pass[i + 1], i + 1)
    OBVIOUS
  <2>1. Good(t, i)
    BY <1>8
  <2>2. i + 1 \in 1..n /\ (i + 1) - 1 = i /\ n - (i + 1) + 1 = m /\ n - (i + 1) = m - 1
    OBVIOUS
  <2>3. pass[i + 1] = Bubble(t, m)
    BY <1>6, <2>2
  <2>4. m \in 1..Len(t) /\ Len(t) = n
    BY <2>1 DEF Permuted
  <2>. HIDE DEF t, m
  <2>5. Bubble(t, m) \in Seq(R) /\ Permuted(Bubble(t, m), t, m)
    BY <2>1, <2>4, BubbleStep
  <2>6. SortedFrom(Bubble(t, m), m - 1)
    BY <2>1, <2>4, PassStep DEF m
  <2>7. Permuted(Bubble(t, m), s, n)
    <3>1. m \in Nat /\ m <= n
      BY <2>4
    <3>. HIDE DEF n
    <3>. QED BY <1>0, <2>1, <2>5, <3>1, PermutedTwice
  <2>. QED BY <2>2, <2>3, <2>5, <2>6, <2>7
<1>9. n \in G
  <2>. HIDE DEF G, n
  <2>. QED BY <1>0, <1>7, <1>8, NatSetInduction
<1>10. Good(pass[n], n)
  BY <1>0, <1>9
<1>11. \A j, k \in 1..n : j < k => pass[n][j].name <= pass[n][k].name
  <2>1. Len(pass[n]) = n /\ n - n = 0
    BY <1>10 DEF Permuted
  <2>. QED BY <1>10, <2>1 DEF SortedFrom
<1>. QED BY <1>5, <1>10, <1>11

(***************************************************************************)
(* Counts of response times                                                *)
(***************************************************************************)

\* The counts of an entry: for each response time, at least one request.
IsTimes(map) == IsCount(map) /\ DOMAIN map \subseteq Nat

\* On the keys in D, the counts are added up.
AddedOn(b, c, D) ==
  SumFunctionOnSet(b (+) c, DOMAIN (b (+) c) \cap D) =
    SumFunctionOnSet(b, DOMAIN b \cap D) + SumFunctionOnSet(c, DOMAIN c \cap D)

\* Two counts are added up on every part of their keys.
LEMMA PlusOn ==
  ASSUME NEW b, NEW c, IsCount(b), IsCount(c), NEW D
  PROVE  /\ IsCount(b (+) c) /\ DOMAIN (b (+) c) = DOMAIN b \cup DOMAIN c
         /\ AddedOn(b, c, D)
<1>. DEFINE h == b (+) c
            all == DOMAIN b \cup DOMAIN c
            U == all \cap D
            pad(m) == [x \in all |-> IF x \in DOMAIN m THEN m[x] ELSE 0]
<1>1. DOMAIN h = all /\ \A x \in all : h[x] = pad(b)[x] + pad(c)[x]
  BY DEF (+)
<1>2. IsFiniteSet(all) /\ IsFiniteSet(U)
  BY FS_Union, FS_Subset DEF IsCount
<1>3. h = [x \in all |-> h[x]]
  BY DEF (+)
<1>. HIDE DEF h
<1>4. h \in [all -> Nat \ {0}]
  <2>1. \A x \in DOMAIN b : b[x] \in Nat \ {0}
    BY DEF IsCount
  <2>2. \A x \in DOMAIN c : c[x] \in Nat \ {0}
    BY DEF IsCount
  <2>3. ASSUME NEW x \in all PROVE h[x] \in Nat \ {0}
    <3>1. h[x] = pad(b)[x] + pad(c)[x]
      BY <1>1
    <3>2. /\ pad(b)[x] = IF x \in DOMAIN b THEN b[x] ELSE 0
          /\ pad(c)[x] = IF x \in DOMAIN c THEN c[x] ELSE 0
      OBVIOUS
    <3>3. x \in DOMAIN b \/ x \in DOMAIN c
      OBVIOUS
    <3>. HIDE DEF pad, all
    <3>. QED BY <2>1, <2>2, <3>1, <3>2, <3>3
  <2>. HIDE DEF all
  <2>. QED BY <1>3, <2>3
<1>5. ASSUME NEW m, IsCount(m), DOMAIN m \subseteq all
      PROVE  SumFunctionOnSet(pad(m), U) = SumFunctionOnSet(m, DOMAIN m \cap D)
  <2>. DEFINE V == DOMAIN m \cap D
              g == pad(m)
  <2>1. V \in SUBSET U /\ IsFiniteSet(V) /\ IsFiniteSet(U)
    BY <1>2, <1>5, FS_Subset DEF IsCount
  <2>2. /\ \A x \in U : g[x] \in Int
        /\ \A x \in U \ V : g[x] = 0
        /\ \A x \in V : g[x] \in Int /\ g[x] = m[x]
    BY <1>5 DEF IsCount
  <2>. HIDE DEF V, U, g
  <2>3. SumFunctionOnSet(g, U) = SumFunctionOnSet(g, V)
    BY <2>1, <2>2, SumSupport
  <2>4. SumFunctionOnSet(g, V) = SumFunctionOnSet(m, V)
    BY <2>1, <2>2, SumSame
  <2>. QED BY <2>3, <2>4 DEF V, g
<1>6. SumFunctionOnSet(h, U) = SumFunctionOnSet(pad(b), U) + SumFunctionOnSet(pad(c), U)
  <2>. DEFINE pb == pad(b)
              pc == pad(c)
  <2>1. \A x \in U : pb[x] \in Int /\ pc[x] \in Int /\ h[x] = pb[x] + pc[x]
    BY <1>1 DEF IsCount
  <2>. HIDE DEF pb, pc, U
  <2>2. SumFunctionOnSet(h, U) = SumFunctionOnSet(pb, U) + SumFunctionOnSet(pc, U)
    BY <1>2, <2>1, SumPlus
  <2>. QED BY <2>2 DEF pb, pc
<1>7. /\ SumFunctionOnSet(pad(b), U) = SumFunctionOnSet(b, DOMAIN b \cap D)
      /\ SumFunctionOnSet(pad(c), U) = SumFunctionOnSet(c, DOMAIN c \cap D)
  <2>1. DOMAIN b \subseteq all /\ DOMAIN c \subseteq all
    OBVIOUS
  <2>. HIDE DEF all, U
  <2>. QED BY <1>5, <2>1
<1>8. IsCount(h)
  <2>. HIDE DEF all
  <2>. QED BY <1>1, <1>2, <1>4 DEF IsCount
<1>. HIDE DEF pad
<1>. QED BY <1>1, <1>6, <1>7, <1>8 DEF h, AddedOn

\* Added counts count the requests of both.
LEMMA TimesPlus ==
  ASSUME NEW b, NEW c, IsTimes(b), IsTimes(c)
  PROVE  /\ IsTimes(b (+) c)
         /\ SumFunction(b (+) c) = SumFunction(b) + SumFunction(c)
         /\ \A t \in Int : UpTo(b (+) c, t) = UpTo(b, t) + UpTo(c, t)
<1>. DEFINE h == b (+) c
<1>1. IsTimes(h) /\ DOMAIN h = DOMAIN b \cup DOMAIN c
  BY PlusOn DEF IsTimes
<1>2. SumFunction(h) = SumFunction(b) + SumFunction(c)
  <2>1. DOMAIN h \cap Nat = DOMAIN h /\ DOMAIN b \cap Nat = DOMAIN b /\ DOMAIN c \cap Nat = DOMAIN c
    BY <1>1 DEF IsTimes
  <2>2. SumFunctionOnSet(h, DOMAIN h \cap Nat) =
          SumFunctionOnSet(b, DOMAIN b \cap Nat) + SumFunctionOnSet(c, DOMAIN c \cap Nat)
    <3>1. AddedOn(b, c, Nat)
      BY PlusOn DEF IsTimes
    <3>. QED BY <3>1 DEF AddedOn
  <2>. HIDE DEF h
  <2>. QED BY <2>1, <2>2 DEF SumFunction
<1>3. ASSUME NEW t \in Int PROVE UpTo(h, t) = UpTo(b, t) + UpTo(c, t)
  <2>. DEFINE D == {u \in Nat : u <= t}
  <2>1. /\ DOMAIN h \cap D = {u \in DOMAIN h : u <= t}
        /\ DOMAIN b \cap D = {u \in DOMAIN b : u <= t}
        /\ DOMAIN c \cap D = {u \in DOMAIN c : u <= t}
    BY <1>1 DEF IsTimes
  <2>. HIDE DEF D
  <2>2. SumFunctionOnSet(h, DOMAIN h \cap D) =
          SumFunctionOnSet(b, DOMAIN b \cap D) + SumFunctionOnSet(c, DOMAIN c \cap D)
    <3>1. AddedOn(b, c, D)
      BY PlusOn DEF IsTimes
    <3>. QED BY <3>1 DEF AddedOn
  <2>. HIDE DEF h
  <2>. QED BY <2>1, <2>2 DEF UpTo
<1>. QED BY <1>1, <1>2, <1>3

\* A finite set of numbers has a bound.
LEMMA FiniteBound ==
  ASSUME NEW S, IsFiniteSet(S), S \subseteq Nat
  PROVE  \E n \in Nat : \A x \in S : x <= n
<1>. DEFINE Bound(T, n) == \A x \in T : x <= n
            G == {T \in SUBSET S : \E n \in Nat : Bound(T, n)}
<1>1. {} \in G
  OBVIOUS
<1>2. ASSUME NEW T \in SUBSET S, NEW x \in S \ T, T \in G PROVE T \cup {x} \in G
  <2>1. PICK n \in Nat : Bound(T, n)
    BY <1>2
  <2>2. Bound(T \cup {x}, n + x) /\ n + x \in Nat
    BY <2>1
  <2>. QED BY <2>2
<1>3. S \in G
  <2>. HIDE DEF G
  <2>. QED BY <1>1, <1>2, FiniteInduction
<1>. QED BY <1>3

\* UpTo is a natural number.
LEMMA UpToType ==
  ASSUME NEW m, IsTimes(m), NEW t \in Int
  PROVE  UpTo(m, t) \in Nat /\ SumFunction(m) \in Nat
<1>. DEFINE S == {u \in DOMAIN m : u <= t}
<1>1. IsFiniteSet(S) /\ IsFiniteSet(DOMAIN m) /\ \A x \in DOMAIN m : m[x] \in Nat
  BY FS_Subset DEF IsTimes, IsCount
<1>2. SumFunctionOnSet(m, S) \in Nat /\ SumFunctionOnSet(m, DOMAIN m) \in Nat
  <2>1. \A x \in S : m[x] \in Nat
    BY <1>1
  <2>. HIDE DEF S
  <2>. QED BY <1>1, <2>1, SumNat
<1>. QED BY <1>2 DEF UpTo, SumFunction

\* AtPosition finds the time at a position: at most pos requests were quicker, and
\* more than pos as quick.
LEMMA AtPositionCorrect ==
  ASSUME NEW m, IsTimes(m), NEW pos \in Nat, pos < SumFunction(m)
  PROVE  /\ AtPosition(pos, m) \in Nat
         /\ UpTo(m, AtPosition(pos, m) - 1) <= pos
         /\ UpTo(m, AtPosition(pos, m)) > pos
<1>. DEFINE B == {n \in Nat : pos < UpTo(m, n)}
            hit == {t \in DOMAIN m : pos < UpTo(m, t)}
<1>0. DOMAIN m \subseteq Nat /\ IsFiniteSet(DOMAIN m)
  BY DEF IsTimes, IsCount
<1>1. B # {}
  <2>1. PICK n \in Nat : \A x \in DOMAIN m : x <= n
    BY <1>0, FiniteBound
  <2>2. {u \in DOMAIN m : u <= n} = DOMAIN m
    BY <2>1
  <2>3. UpTo(m, n) = SumFunction(m)
    BY <2>2 DEF UpTo, SumFunction
  <2>. QED BY <2>3
<1>2. PICK n \in B : \A k \in B : n <= k
  <2>1. B \in SUBSET Nat
    OBVIOUS
  <2>. HIDE DEF B
  <2>. QED BY <1>1, <2>1, NatMin
<1>3. UpTo(m, n - 1) <= pos
  <2>1. UpTo(m, n - 1) \in Nat
    BY <1>2, UpToType
  <2>2. CASE n = 0
    <3>1. {u \in DOMAIN m : u <= n - 1} = {}
      BY <1>0, <2>2
    <3>2. UpTo(m, n - 1) = 0
      BY <3>1, SumEmpty DEF UpTo
    <3>. QED BY <3>2
  <2>3. CASE n # 0
    <3>1. n - 1 \in Nat /\ ~(n <= n - 1)
      BY <1>2, <2>3
    <3>. QED BY <1>2, <2>1, <3>1
  <2>. QED BY <2>2, <2>3
<1>4. n \in hit
  <2>. SUFFICES ASSUME n \notin DOMAIN m PROVE FALSE
    BY <1>2
  <2>1. {u \in DOMAIN m : u <= n - 1} = {u \in DOMAIN m : u <= n}
    BY <1>0, <1>2
  <2>2. UpTo(m, n - 1) = UpTo(m, n)
    BY <2>1 DEF UpTo
  <2>3. UpTo(m, n) \in Nat /\ n \in Nat
    BY <1>2, UpToType
  <2>. QED BY <1>2, <1>3, <2>2, <2>3
<1>5. \A t \in hit : t \in Nat /\ n <= t
  BY <1>0, <1>2
<1>6. Min(hit) = n
  <2>. HIDE DEF hit, B
  <2>1. n \in Nat
    BY <1>4, <1>5
  <2>2. \A x \in hit : (\A y \in hit : x <= y) => x = n
    BY <1>4, <1>5, <2>1
  <2>3. \A y \in hit : n <= y
    BY <1>5
  <2>. QED BY <1>4, <2>2, <2>3 DEF Min
<1>7. AtPosition(pos, m) = n
  BY <1>4, <1>6 DEF AtPosition
<1>. QED BY <1>2, <1>3, <1>7

(***************************************************************************)
(* What a row says of the entries it sums up                               *)
(***************************************************************************)

FiniteSubsets == {D \in SUBSET Nat : IsFiniteSet(D)}
Times == UNION {[D -> Nat \ {0}] : D \in FiniteSubsets}

\* The rows of the summary and of the current data.
Row == [name : Nat, method : STRING, requests : Nat \ {0}, failures : Nat, time : Nat,
        min : Nat, max : Nat, times : Times, secs : FiniteSubsets, failSecs : FiniteSubsets,
        median : Nat, percent : Nat, p95 : Nat, rps : Nat, failPerSec : Nat]

\* The set of the maps of response times.
LEMMA TimesAreCounts == \A m : m \in Times <=> IsTimes(m)
<1>1. ASSUME NEW m, m \in Times PROVE IsTimes(m)
  <2>1. PICK D \in FiniteSubsets : m \in [D -> Nat \ {0}]
    BY <1>1 DEF Times
  <2>2. DOMAIN m = D
    BY <2>1
  <2>. QED BY <2>1, <2>2 DEF IsTimes, IsCount, FiniteSubsets
<1>2. ASSUME NEW m, IsTimes(m) PROVE m \in Times
  <2>1. DOMAIN m \in FiniteSubsets /\ m \in [DOMAIN m -> Nat \ {0}]
    BY <1>2 DEF IsTimes, IsCount, FiniteSubsets
  <2>. QED BY <2>1 DEF Times
<1>. QED BY <1>1, <1>2

\* The positions that median and percentiles ask for are those of requests.
LEMMA Positions ==
  ASSUME NEW n \in Nat \ {0}, NEW p \in 0..100
  PROVE  /\ (n - 1) \div 2 \in Nat /\ (n - 1) \div 2 < n
         /\ ((n - 1) * p) \div 100 \in Nat /\ ((n - 1) * p) \div 100 < n
<1>. DEFINE m == n - 1
            q == m * p
<1>1. m \in Nat
  OBVIOUS
<1>2. q \in Nat /\ q <= m * 100
  BY <1>1
<1>3. m \div 2 \in Nat /\ m \div 2 <= m
  BY <1>1
<1>4. q \div 100 \in Nat /\ q \div 100 <= m
  <2>. HIDE DEF q
  <2>. QED BY <1>1, <1>2
<1>. QED BY <1>1, <1>3, <1>4

\* What is derived from consistent counts is well typed.
LEMMA DeriveType ==
  ASSUME NEW e, e.name \in Nat, e.method \in STRING, e.requests \in Nat \ {0},
         e.failures \in Nat, e.time \in Nat, e.min \in Nat, e.max \in Nat,
         IsTimes(e.times), SumFunction(e.times) = e.requests,
         e.secs \in FiniteSubsets, e.failSecs \in FiniteSubsets
  PROVE  Derive(e) \in Row
<1>1. Percent \in 0..100 /\ 95 \in 0..100
  BY ReportAssumption
<1>2. /\ GetMedianResponseTime(e.requests, e.times) \in Nat
      /\ GetPercentResponseTime(e.requests, e.times, Percent) \in Nat
      /\ GetPercentResponseTime(e.requests, e.times, 95) \in Nat
  <2>1. ASSUME NEW p \in 0..100 PROVE GetPercentResponseTime(e.requests, e.times, p) \in Nat
    BY Positions, AtPositionCorrect DEF GetPercentResponseTime
  <2>2. GetMedianResponseTime(e.requests, e.times) \in Nat
    BY <1>1, Positions, AtPositionCorrect DEF GetMedianResponseTime
  <2>. QED BY <1>1, <2>1, <2>2
<1>3. ASSUME NEW n \in Nat, NEW c \in Nat, c # 0 PROVE n \div c \in Nat
  BY <1>3
<1>4. /\ Cardinality(e.secs) \in Nat /\ Cardinality(e.failSecs) \in Nat
      /\ (Cardinality(e.failSecs) = 0 => e.failSecs = {})
  BY FS_CardinalityType, FS_EmptySet DEF FiniteSubsets
<1>5. GetCurrentRps(e.requests, e.secs) \in Nat
  <2>. DEFINE c == Cardinality(e.secs)
              count == IF c > 2 THEN c - 1 ELSE c
  <2>1. count \in Nat
    BY <1>4
  <2>. HIDE DEF count
  <2>2. (IF count = 0 THEN 0 ELSE e.requests \div count) \in Nat
    BY <1>3, <2>1
  <2>. QED BY <2>2 DEF GetCurrentRps, count
<1>6. GetCurrentFailPerSec(e.failures, e.failSecs) \in Nat
  BY <1>3, <1>4 DEF GetCurrentFailPerSec
<1>7. e.times \in Times
  BY TimesAreCounts
<1>. QED BY <1>2, <1>5, <1>6, <1>7 DEF Derive, Row

\* What a set of pairs <<report, entry>> adds up to.
RequestsOf(X) == SumFunction([x \in X |-> x[2].requests])
FailuresOf(X) == SumFunction([x \in X |-> x[2].failures])
TimeOf(X) == SumFunction([x \in X |-> x[2].time])
UpToOf(X, t) == SumFunction([x \in X |-> UpTo(x[2].times, t)])

IsPairs(X) == IsFiniteSet(X) /\ \A x \in X : IsEntry(x[2])

\* Row a says of the entries in X what each of them says of itself.
Summarizes(a, X) ==
  /\ \A x \in X : x[2].name = a.name
  /\ a.requests = RequestsOf(X) /\ a.failures = FailuresOf(X) /\ a.time = TimeOf(X)
  /\ (\E x \in X : a.min = x[2].min) /\ \A x \in X : a.min <= x[2].min
  /\ (\E x \in X : a.max = x[2].max) /\ \A x \in X : a.max >= x[2].max
  /\ a.secs = UNION {x[2].secs : x \in X}
  /\ \A t \in Int : UpTo(a.times, t) = UpToOf(X, t)
  /\ SumFunction(a.times) = a.requests
  /\ a.median = GetMedianResponseTime(a.requests, a.times)
  /\ a.percent = GetPercentResponseTime(a.requests, a.times, Percent)
  /\ a.p95 = GetPercentResponseTime(a.requests, a.times, 95)

\* The fields of an entry.
LEMMA EntryType ==
  ASSUME NEW e, IsEntry(e)
  PROVE  /\ e.name \in Nat /\ e.method \in STRING /\ e.requests \in Nat \ {0}
         /\ e.failures \in Nat /\ e.time \in Nat /\ e.min \in Nat /\ e.max \in Nat
         /\ IsTimes(e.times) /\ SumFunction(e.times) = e.requests
         /\ e.secs \in FiniteSubsets /\ e.failSecs \in FiniteSubsets
BY DEF IsEntry, IsTimes, FiniteSubsets

\* One pair more.
LEMMA OneMore ==
  ASSUME NEW X, IsPairs(X), NEW z, z \notin X, IsEntry(z[2])
  PROVE  /\ IsPairs(X \cup {z})
         /\ RequestsOf(X \cup {z}) = RequestsOf(X) + z[2].requests
         /\ FailuresOf(X \cup {z}) = FailuresOf(X) + z[2].failures
         /\ TimeOf(X \cup {z}) = TimeOf(X) + z[2].time
         /\ \A t \in Int : UpToOf(X \cup {z}, t) = UpToOf(X, t) + UpTo(z[2].times, t)
<1>. DEFINE Y == X \cup {z}
<1>1. IsFiniteSet(X) /\ IsFiniteSet(Y) /\ \A y \in Y : IsEntry(y[2])
  BY FS_AddElement DEF IsPairs
<1>2. \A y \in Y : y[2].requests \in Int /\ y[2].failures \in Int /\ y[2].time \in Int
  BY <1>1, EntryType
<1>3. \A y \in Y : \A t \in Int : UpTo(y[2].times, t) \in Int
  BY <1>1, EntryType, UpToType
<1>4. ASSUME NEW f, NEW g, DOMAIN f = X, DOMAIN g = Y, \A y \in Y : g[y] \in Int,
             \A y \in X : f[y] = g[y]
      PROVE  SumFunction(g) = SumFunction(f) + g[z]
  <2>1. IsFiniteSet(DOMAIN f) /\ z \notin DOMAIN f /\ DOMAIN g = DOMAIN f \cup {z} /\ g[z] \in Int
    BY <1>1, <1>4
  <2>2. \A y \in DOMAIN f : f[y] \in Int /\ g[y] = f[y]
    BY <1>4
  <2>. QED BY <2>1, <2>2, SumInsert
<1>5. RequestsOf(Y) = RequestsOf(X) + z[2].requests
  <2>. DEFINE g == [x \in Y |-> x[2].requests]
              f == [x \in X |-> x[2].requests]
  <2>1. DOMAIN f = X /\ DOMAIN g = Y /\ (\A y \in Y : g[y] \in Int) /\ \A y \in X : f[y] = g[y]
    BY <1>2
  <2>2. g[z] = z[2].requests
    OBVIOUS
  <2>. HIDE DEF f, g, Y
  <2>3. SumFunction(g) = SumFunction(f) + g[z]
    BY <1>4, <2>1
  <2>. QED BY <2>2, <2>3 DEF f, g, RequestsOf
<1>6. FailuresOf(Y) = FailuresOf(X) + z[2].failures
  <2>. DEFINE g == [x \in Y |-> x[2].failures]
              f == [x \in X |-> x[2].failures]
  <2>1. DOMAIN f = X /\ DOMAIN g = Y /\ (\A y \in Y : g[y] \in Int) /\ \A y \in X : f[y] = g[y]
    BY <1>2
  <2>2. g[z] = z[2].failures
    OBVIOUS
  <2>. HIDE DEF f, g, Y
  <2>3. SumFunction(g) = SumFunction(f) + g[z]
    BY <1>4, <2>1
  <2>. QED BY <2>2, <2>3 DEF f, g, FailuresOf
<1>7. TimeOf(Y) = TimeOf(X) + z[2].time
  <2>. DEFINE g == [x \in Y |-> x[2].time]
              f == [x \in X |-> x[2].time]
  <2>1. DOMAIN f = X /\ DOMAIN g = Y /\ (\A y \in Y : g[y] \in Int) /\ \A y \in X : f[y] = g[y]
    BY <1>2
  <2>2. g[z] = z[2].time
    OBVIOUS
  <2>. HIDE DEF f, g, Y
  <2>3. SumFunction(g) = SumFunction(f) + g[z]
    BY <1>4, <2>1
  <2>. QED BY <2>2, <2>3 DEF f, g, TimeOf
<1>8. ASSUME NEW t \in Int PROVE UpToOf(Y, t) = UpToOf(X, t) + UpTo(z[2].times, t)
  <2>. DEFINE g == [x \in Y |-> UpTo(x[2].times, t)]
              f == [x \in X |-> UpTo(x[2].times, t)]
  <2>1. DOMAIN f = X /\ DOMAIN g = Y /\ (\A y \in Y : g[y] \in Int) /\ \A y \in X : f[y] = g[y]
    BY <1>3
  <2>2. g[z] = UpTo(z[2].times, t)
    OBVIOUS
  <2>. HIDE DEF f, g, Y
  <2>3. SumFunction(g) = SumFunction(f) + g[z]
    BY <1>4, <2>1
  <2>. QED BY <2>2, <2>3 DEF f, g, UpToOf
<1>. QED BY <1>1, <1>5, <1>6, <1>7, <1>8 DEF IsPairs

\* No pair at all.
LEMMA NoPairs ==
  /\ IsPairs({}) /\ RequestsOf({}) = 0 /\ FailuresOf({}) = 0 /\ TimeOf({}) = 0
  /\ \A t \in Int : UpToOf({}, t) = 0
<1>1. ASSUME NEW f, DOMAIN f = {} PROVE SumFunction(f) = 0
  BY <1>1, SumEmpty DEF SumFunction
<1>2. IsPairs({})
  BY FS_EmptySet DEF IsPairs
<1>3. RequestsOf({}) = 0
  <2>. DEFINE f == [x \in {} |-> x[2].requests]
  <2>1. DOMAIN f = {}
    OBVIOUS
  <2>. HIDE DEF f
  <2>2. SumFunction(f) = 0
    BY <1>1, <2>1
  <2>. QED BY <2>2 DEF f, RequestsOf
<1>4. FailuresOf({}) = 0
  <2>. DEFINE f == [x \in {} |-> x[2].failures]
  <2>1. DOMAIN f = {}
    OBVIOUS
  <2>. HIDE DEF f
  <2>2. SumFunction(f) = 0
    BY <1>1, <2>1
  <2>. QED BY <2>2 DEF f, FailuresOf
<1>5. TimeOf({}) = 0
  <2>. DEFINE f == [x \in {} |-> x[2].time]
  <2>1. DOMAIN f = {}
    OBVIOUS
  <2>. HIDE DEF f
  <2>2. SumFunction(f) = 0
    BY <1>1, <2>1
  <2>. QED BY <2>2 DEF f, TimeOf
<1>6. ASSUME NEW t \in Int PROVE UpToOf({}, t) = 0
  <2>. DEFINE f == [x \in {} |-> UpTo(x[2].times, t)]
  <2>1. DOMAIN f = {}
    OBVIOUS
  <2>. HIDE DEF f
  <2>2. SumFunction(f) = 0
    BY <1>1, <2>1
  <2>. QED BY <2>2 DEF f, UpToOf
<1>. QED BY <1>2, <1>3, <1>4, <1>5, <1>6

\* An item of the current data sums up its own entry.
LEMMA DeriveSummarizes ==
  ASSUME NEW e, IsEntry(e), NEW z, z[2] = e
  PROVE  Derive(e) \in Row /\ Summarizes(Derive(e), {z})
<1>. DEFINE a == Derive(e)
<1>1. a \in Row
  BY EntryType, DeriveType
<1>2. {} \cup {z} = {z} /\ z \notin {} /\ IsEntry(z[2])
  OBVIOUS
<1>3. /\ RequestsOf({z}) = e.requests /\ FailuresOf({z}) = e.failures /\ TimeOf({z}) = e.time
      /\ \A t \in Int : UpToOf({z}, t) = UpTo(e.times, t)
  <2>. DEFINE Y == {} \cup {z}
  <2>1. /\ RequestsOf(Y) = RequestsOf({}) + e.requests
        /\ FailuresOf(Y) = FailuresOf({}) + e.failures
        /\ TimeOf(Y) = TimeOf({}) + e.time
        /\ \A t \in Int : UpToOf(Y, t) = UpToOf({}, t) + UpTo(e.times, t)
    BY <1>2, NoPairs, OneMore
  <2>4. Y = {z}
    BY <1>2
  <2>. HIDE DEF Y
  <2>2. e.requests \in Int /\ e.failures \in Int /\ e.time \in Int
    BY EntryType
  <2>3. \A t \in Int : UpTo(e.times, t) \in Int
    BY EntryType, UpToType
  <2>5. /\ RequestsOf({}) = 0 /\ FailuresOf({}) = 0 /\ TimeOf({}) = 0
        /\ \A t \in Int : UpToOf({}, t) = 0
    BY NoPairs
  <2>6. /\ RequestsOf(Y) = e.requests /\ FailuresOf(Y) = e.failures /\ TimeOf(Y) = e.time
        /\ \A t \in Int : UpToOf(Y, t) = UpTo(e.times, t)
    BY <2>1, <2>2, <2>3, <2>5
  <2>. QED BY <2>4, <2>6
<1>4. /\ a.name = e.name /\ a.requests = e.requests /\ a.failures = e.failures
      /\ a.time = e.time /\ a.min = e.min /\ a.max = e.max /\ a.secs = e.secs
      /\ a.times = e.times
      /\ a.median = GetMedianResponseTime(a.requests, a.times)
      /\ a.percent = GetPercentResponseTime(a.requests, a.times, Percent)
      /\ a.p95 = GetPercentResponseTime(a.requests, a.times, 95)
  BY DEF Derive
<1>5. /\ SumFunction(e.times) = e.requests /\ e.min \in Nat /\ e.max \in Nat
  BY EntryType
<1>. HIDE DEF a
<1>6. Summarizes(a, {z})
  BY <1>3, <1>4, <1>5 DEF Summarizes
<1>. QED BY <1>1, <1>6 DEF a

\* The smaller and the larger of two numbers.
LEMMA TwoNumbers ==
  ASSUME NEW m \in Nat, NEW n \in Nat
  PROVE  /\ Min({m, n}) = (IF m <= n THEN m ELSE n)
         /\ Max({m, n}) = (IF m >= n THEN m ELSE n)
<1>1. \E x \in {m, n} : \A y \in {m, n} : x <= y
  OBVIOUS
<1>2. \E x \in {m, n} : \A y \in {m, n} : x >= y
  OBVIOUS
<1>3. /\ Min({m, n}) \in {m, n} /\ \A y \in {m, n} : Min({m, n}) <= y
  BY <1>1 DEF Min
<1>4. /\ Max({m, n}) \in {m, n} /\ \A y \in {m, n} : Max({m, n}) >= y
  BY <1>2 DEF Max
<1>. QED BY <1>3, <1>4

\* A row to which an item of its name is added sums up one entry more.
LEMMA MergeSummarizes ==
  ASSUME NEW a \in Row, NEW X, IsPairs(X), Summarizes(a, X),
         NEW z, z \notin X, IsEntry(z[2]), z[2].name = a.name
  PROVE  /\ Merge(a, Derive(z[2])) \in Row
         /\ Summarizes(Merge(a, Derive(z[2])), X \cup {z})
<1>. DEFINE e == z[2]
            o == Derive(e)
            b == [a EXCEPT !.requests = @ + o.requests, !.failures = @ + o.failures,
                           !.time = @ + o.time, !.max = Max({@, o.max}), !.min = Min({@, o.min}),
                           !.times = @ (+) o.times,
                           !.secs = @ \cup o.secs, !.failSecs = @ \cup o.failSecs]
            c == Merge(a, o)
            Y == X \cup {z}
<1>1. c = Derive(b)
  BY DEF Merge
<1>2. /\ o.requests = e.requests /\ o.failures = e.failures /\ o.time = e.time
      /\ o.max = e.max /\ o.min = e.min /\ o.times = e.times /\ o.secs = e.secs
      /\ o.failSecs = e.failSecs
  BY DEF Derive
<1>. HIDE DEF o, c
<1>3. /\ b.name = a.name /\ b.method = a.method
      /\ b.requests = a.requests + e.requests
      /\ b.failures = a.failures + e.failures
      /\ b.time = a.time + e.time
      /\ b.max = Max({a.max, e.max}) /\ b.min = Min({a.min, e.min})
      /\ b.times = a.times (+) e.times
      /\ b.secs = a.secs \cup e.secs /\ b.failSecs = a.failSecs \cup e.failSecs
  <2>1. /\ b.name = a.name /\ b.method = a.method
        /\ b.requests = a.requests + o.requests
        /\ b.failures = a.failures + o.failures
        /\ b.time = a.time + o.time
        /\ b.max = Max({a.max, o.max}) /\ b.min = Min({a.min, o.min})
        /\ b.times = a.times (+) o.times
        /\ b.secs = a.secs \cup o.secs /\ b.failSecs = a.failSecs \cup o.failSecs
    BY DEF Row
  <2>. HIDE DEF b
  <2>. QED BY <1>2, <2>1
<1>. HIDE DEF b
<1>4. /\ e.requests \in Nat \ {0} /\ e.failures \in Nat /\ e.time \in Nat
      /\ e.min \in Nat /\ e.max \in Nat /\ IsTimes(e.times) /\ SumFunction(e.times) = e.requests
      /\ e.secs \in FiniteSubsets /\ e.failSecs \in FiniteSubsets
  BY EntryType
<1>5. /\ a.name \in Nat /\ a.method \in STRING /\ a.requests \in Nat \ {0} /\ a.failures \in Nat
      /\ a.time \in Nat /\ a.min \in Nat /\ a.max \in Nat /\ a.times \in Times
      /\ a.secs \in FiniteSubsets /\ a.failSecs \in FiniteSubsets
  BY DEF Row
<1>6. IsTimes(a.times) /\ SumFunction(a.times) = a.requests
  BY <1>5, TimesAreCounts DEF Summarizes
<1>. HIDE DEF e
<1>7. /\ IsTimes(b.times) /\ SumFunction(b.times) = b.requests
      /\ \A t \in Int : UpTo(b.times, t) = UpTo(a.times, t) + UpTo(e.times, t)
  BY <1>3, <1>4, <1>6, TimesPlus
<1>8. b.min = (IF a.min <= e.min THEN a.min ELSE e.min)
  BY <1>3, <1>4, <1>5, TwoNumbers
<1>9. b.max = (IF a.max >= e.max THEN a.max ELSE e.max)
  BY <1>3, <1>4, <1>5, TwoNumbers
<1>10. b.secs \in FiniteSubsets /\ b.failSecs \in FiniteSubsets
  <2>1. \A S, T \in FiniteSubsets : S \cup T \in FiniteSubsets
    BY FS_Union DEF FiniteSubsets
  <2>. QED BY <1>3, <1>4, <1>5, <2>1
<1>11. /\ b.name \in Nat /\ b.method \in STRING /\ b.requests \in Nat \ {0} /\ b.failures \in Nat
       /\ b.time \in Nat /\ b.min \in Nat /\ b.max \in Nat
  BY <1>3, <1>4, <1>5, <1>8, <1>9
<1>12. c \in Row
  BY <1>1, <1>7, <1>10, <1>11, DeriveType
<1>13. /\ RequestsOf(Y) = RequestsOf(X) + e.requests
       /\ FailuresOf(Y) = FailuresOf(X) + e.failures
       /\ TimeOf(Y) = TimeOf(X) + e.time
       /\ \A t \in Int : UpToOf(Y, t) = UpToOf(X, t) + UpTo(e.times, t)
  BY OneMore DEF e
<1>14. /\ c.name = b.name /\ c.requests = b.requests /\ c.failures = b.failures
       /\ c.time = b.time /\ c.min = b.min /\ c.max = b.max /\ c.secs = b.secs
       /\ c.times = b.times
       /\ c.median = GetMedianResponseTime(c.requests, c.times)
       /\ c.percent = GetPercentResponseTime(c.requests, c.times, Percent)
       /\ c.p95 = GetPercentResponseTime(c.requests, c.times, 95)
  BY <1>1 DEF Derive
<1>15. \A x \in Y : x[2].name = c.name
  BY <1>3, <1>14 DEF Summarizes, e
<1>16. c.requests = RequestsOf(Y) /\ c.failures = FailuresOf(Y) /\ c.time = TimeOf(Y)
  BY <1>3, <1>13, <1>14 DEF Summarizes
<1>17. (\E x \in Y : c.min = x[2].min) /\ \A x \in Y : c.min <= x[2].min
  <2>1. \A x \in Y : x[2].min \in Nat
    BY EntryType DEF IsPairs
  <2>2. z \in Y /\ z[2].min = e.min /\ \A x \in Y : x \in X \/ x = z
    BY DEF e
  <2>3. (\E x \in X : a.min = x[2].min) /\ \A x \in X : a.min <= x[2].min
    BY DEF Summarizes
  <2>4. c.min = a.min \/ c.min = e.min
    BY <1>8, <1>14
  <2>5. c.min <= a.min /\ c.min <= e.min /\ c.min \in Nat
    BY <1>4, <1>5, <1>8, <1>14
  <2>6. \E x \in Y : c.min = x[2].min
    BY <2>2, <2>3, <2>4
  <2>7. ASSUME NEW x \in Y PROVE c.min <= x[2].min
    <3>1. CASE x = z
      BY <2>2, <2>5, <3>1
    <3>2. CASE x \in X
      BY <1>5, <2>1, <2>3, <2>5, <3>2
    <3>. QED BY <2>2, <3>1, <3>2
  <2>. QED BY <2>6, <2>7
<1>18. (\E x \in Y : c.max = x[2].max) /\ \A x \in Y : c.max >= x[2].max
  <2>1. \A x \in Y : x[2].max \in Nat
    BY EntryType DEF IsPairs
  <2>2. z \in Y /\ z[2].max = e.max /\ \A x \in Y : x \in X \/ x = z
    BY DEF e
  <2>3. (\E x \in X : a.max = x[2].max) /\ \A x \in X : a.max >= x[2].max
    BY DEF Summarizes
  <2>4. c.max = a.max \/ c.max = e.max
    BY <1>9, <1>14
  <2>5. c.max >= a.max /\ c.max >= e.max /\ c.max \in Nat
    BY <1>4, <1>5, <1>9, <1>14
  <2>6. \E x \in Y : c.max = x[2].max
    BY <2>2, <2>3, <2>4
  <2>7. ASSUME NEW x \in Y PROVE c.max >= x[2].max
    <3>1. CASE x = z
      BY <2>2, <2>5, <3>1
    <3>2. CASE x \in X
      BY <1>5, <2>1, <2>3, <2>5, <3>2
    <3>. QED BY <2>2, <3>1, <3>2
  <2>. QED BY <2>6, <2>7
<1>19. c.secs = UNION {x[2].secs : x \in Y}
  <2>. DEFINE SX == UNION {x[2].secs : x \in X}
              SY == UNION {x[2].secs : x \in Y}
  <2>1. \A s : s \in SY <=> (\E x \in Y : s \in x[2].secs)
    OBVIOUS
  <2>2. \A s : s \in SX <=> (\E x \in X : s \in x[2].secs)
    OBVIOUS
  <2>3. \A s : (\E x \in Y : s \in x[2].secs) <=> (s \in e.secs \/ \E x \in X : s \in x[2].secs)
    BY DEF e
  <2>4. a.secs = SX
    BY Zenon DEF Summarizes
  <2>. HIDE DEF SX, SY, Y
  <2>5. SY = SX \cup e.secs
    BY <2>1, <2>2, <2>3
  <2>6. c.secs = SY
    BY <1>3, <1>14, <2>4, <2>5
  <2>. QED BY <2>6, Zenon DEF SY
<1>20. \A t \in Int : UpTo(c.times, t) = UpToOf(Y, t)
  <2>. SUFFICES ASSUME NEW t \in Int PROVE UpTo(c.times, t) = UpToOf(Y, t)
    OBVIOUS
  <2>1. UpTo(a.times, t) = UpToOf(X, t)
    BY DEF Summarizes
  <2>. HIDE DEF Y
  <2>. QED BY <1>7, <1>13, <1>14, <2>1
<1>21. SumFunction(c.times) = c.requests
  BY <1>7, <1>14
<1>. HIDE DEF Y
<1>22. Summarizes(c, Y)
  BY <1>14, <1>15, <1>16, <1>17, <1>18, <1>19, <1>20, <1>21 DEF Summarizes
<1>. QED BY <1>12, <1>22 DEF c, o, e, Y

(***************************************************************************)
(* The rows of the summary                                                 *)
(***************************************************************************)

\* The pairs of a name.
Of(X, name) == {x \in X : x[2].name = name}

\* The rows sum up the entries in X: one row for each name.
RowsFor(stats, X) ==
  /\ stats \in Seq(Row)
  /\ \A i, j \in DOMAIN stats : stats[i].name = stats[j].name => i = j
  /\ \A x \in X : \E i \in DOMAIN stats : stats[i].name = x[2].name
  /\ \A i \in DOMAIN stats : Of(X, stats[i].name) # {}
  /\ \A i \in DOMAIN stats : Summarizes(stats[i], Of(X, stats[i].name))
  /\ Requests(stats) = RequestsOf(X) /\ Failures(stats) = FailuresOf(X)

\* The counts of a row are numbers.
LEMMA RowCounts == \A a \in Row : a.requests \in Int /\ a.failures \in Int
BY DEF Row

\* A new name: its row is appended.
LEMMA NewRow ==
  ASSUME NEW X, IsPairs(X), NEW stats, RowsFor(stats, X), NEW z, z \notin X, IsEntry(z[2]),
         \A i \in DOMAIN stats : stats[i].name # z[2].name
  PROVE  RowsFor(Append(stats, Derive(z[2])), X \cup {z})
<1>. DEFINE o == Derive(z[2])
            t == Append(stats, o)
            n == Len(stats)
            Y == X \cup {z}
<1>1. stats \in Seq(Row) /\ n \in Nat /\ DOMAIN stats = 1..n
  BY DEF RowsFor
<1>2. o \in Row /\ Summarizes(o, {z})
  BY DeriveSummarizes
<1>3. o.name = z[2].name /\ o.requests = z[2].requests /\ o.failures = z[2].failures
  BY DEF Derive
<1>. HIDE DEF o
<1>4. /\ t \in Seq(Row) /\ Len(t) = n + 1 /\ DOMAIN t = 1..(n + 1) /\ t[n + 1] = o
      /\ \A i \in 1..n : t[i] = stats[i]
  BY <1>1, <1>2
<1>. HIDE DEF t, n
<1>5. \A i \in 1..(n + 1) : i \in 1..n \/ i = n + 1
  BY <1>1
<1>6. \A i, j \in DOMAIN t : t[i].name = t[j].name => i = j
  <2>1. \A i \in 1..n : t[i].name # o.name
    BY <1>1, <1>3, <1>4
  <2>2. \A i, j \in 1..n : t[i].name = t[j].name => i = j
    BY <1>1, <1>4 DEF RowsFor
  <2>. QED BY <1>4, <1>5, <2>1, <2>2
<1>7. \A x \in Y : \E i \in DOMAIN t : t[i].name = x[2].name
  <2>1. \A i \in 1..n : i \in DOMAIN t
    BY <1>1, <1>4
  <2>2. \A x \in X : \E i \in 1..n : stats[i].name = x[2].name
    BY <1>1 DEF RowsFor
  <2>3. n + 1 \in DOMAIN t
    BY <1>1, <1>4
  <2>. QED BY <1>3, <1>4, <2>1, <2>2, <2>3
<1>8. Of(Y, o.name) = {z}
  <2>1. \A x \in X : x[2].name # o.name
    BY <1>3 DEF RowsFor
  <2>. QED BY <1>3, <2>1 DEF Of
<1>9. \A i \in 1..n : Of(Y, t[i].name) = Of(X, stats[i].name)
  <2>. SUFFICES ASSUME NEW i \in 1..n PROVE Of(Y, t[i].name) = Of(X, stats[i].name)
    OBVIOUS
  <2>1. t[i] = stats[i] /\ stats[i].name # z[2].name
    BY <1>1, <1>4
  <2>. QED BY <2>1 DEF Of
<1>10. \A i \in DOMAIN t : Of(Y, t[i].name) # {} /\ Summarizes(t[i], Of(Y, t[i].name))
  <2>. SUFFICES ASSUME NEW i \in DOMAIN t
                PROVE  Of(Y, t[i].name) # {} /\ Summarizes(t[i], Of(Y, t[i].name))
    OBVIOUS
  <2>1. CASE i = n + 1
    BY <1>2, <1>4, <1>8, <2>1
  <2>2. CASE i \in 1..n
    <3>1. Of(X, stats[i].name) # {} /\ Summarizes(stats[i], Of(X, stats[i].name))
      BY <1>1, <2>2 DEF RowsFor
    <3>. QED BY <1>4, <1>9, <2>2, <3>1
  <2>. QED BY <1>4, <1>5, <2>1, <2>2
<1>11. \A i \in 1..(n + 1) : t[i] \in Row
  BY <1>4
<1>12. Requests(t) = RequestsOf(Y)
  <2>. DEFINE f == [i \in DOMAIN stats |-> stats[i].requests]
              g == [i \in DOMAIN t |-> t[i].requests]
  <2>1. /\ DOMAIN f = 1..n /\ DOMAIN g = 1..(n + 1) /\ g[n + 1] = o.requests /\ o.requests \in Int
        /\ \A i \in 1..n : f[i] \in Int /\ g[i] = f[i]
    <3>1. DOMAIN f = 1..n /\ DOMAIN g = 1..(n + 1) /\ o.requests \in Int
      BY <1>1, <1>2, <1>4, RowCounts
    <3>2. n + 1 \in DOMAIN t /\ \A i \in 1..n : i \in DOMAIN t /\ i \in DOMAIN stats
      BY <1>1, <1>4
    <3>3. \A i \in 1..n : stats[i].requests \in Int
      BY <1>1, RowCounts
    <3>. QED BY <1>4, <3>1, <3>2, <3>3
  <2>2. RequestsOf(Y) = RequestsOf(X) + z[2].requests /\ Requests(stats) = RequestsOf(X)
    BY OneMore DEF RowsFor
  <2>. HIDE DEF f, g, Y
  <2>3. SumFunctionOnSet(g, 1..(n + 1)) = SumFunctionOnSet(f, 1..n) + g[n + 1]
    BY <1>1, <2>1, SumExtend
  <2>4. SumFunction(g) = SumFunction(f) + o.requests
    BY <2>1, <2>3 DEF SumFunction
  <2>. QED BY <1>3, <2>2, <2>4 DEF f, g, Requests
<1>13. Failures(t) = FailuresOf(Y)
  <2>. DEFINE f == [i \in DOMAIN stats |-> stats[i].failures]
              g == [i \in DOMAIN t |-> t[i].failures]
  <2>1. /\ DOMAIN f = 1..n /\ DOMAIN g = 1..(n + 1) /\ g[n + 1] = o.failures /\ o.failures \in Int
        /\ \A i \in 1..n : f[i] \in Int /\ g[i] = f[i]
    <3>1. DOMAIN f = 1..n /\ DOMAIN g = 1..(n + 1) /\ o.failures \in Int
      BY <1>1, <1>2, <1>4, RowCounts
    <3>2. n + 1 \in DOMAIN t /\ \A i \in 1..n : i \in DOMAIN t /\ i \in DOMAIN stats
      BY <1>1, <1>4
    <3>3. \A i \in 1..n : stats[i].failures \in Int
      BY <1>1, RowCounts
    <3>. QED BY <1>4, <3>1, <3>2, <3>3
  <2>2. FailuresOf(Y) = FailuresOf(X) + z[2].failures /\ Failures(stats) = FailuresOf(X)
    BY OneMore DEF RowsFor
  <2>. HIDE DEF f, g, Y
  <2>3. SumFunctionOnSet(g, 1..(n + 1)) = SumFunctionOnSet(f, 1..n) + g[n + 1]
    BY <1>1, <2>1, SumExtend
  <2>4. SumFunction(g) = SumFunction(f) + o.failures
    BY <2>1, <2>3 DEF SumFunction
  <2>. QED BY <1>3, <2>2, <2>4 DEF f, g, Failures
<1>. HIDE DEF Y
<1>14. RowsFor(t, Y)
  BY <1>4, <1>6, <1>7, <1>10, <1>12, <1>13 DEF RowsFor
<1>. QED BY <1>14 DEF t, o, Y

\* A name that has a row: the item is added to it.
LEMMA OldRow ==
  ASSUME NEW X, IsPairs(X), NEW stats, RowsFor(stats, X), NEW z, z \notin X, IsEntry(z[2]),
         NEW k \in DOMAIN stats, stats[k].name = z[2].name
  PROVE  RowsFor([stats EXCEPT ![k] = Merge(@, Derive(z[2]))], X \cup {z})
<1>. DEFINE a == stats[k]
            c == Merge(a, Derive(z[2]))
            t == [stats EXCEPT ![k] = c]
            n == Len(stats)
            Y == X \cup {z}
            U == Of(X, a.name)
<1>1. stats \in Seq(Row) /\ n \in Nat /\ DOMAIN stats = 1..n /\ k \in 1..n /\ a \in Row
  BY DEF RowsFor
<1>2. IsPairs(U) /\ Summarizes(a, U) /\ z \notin U
  BY FS_Subset DEF RowsFor, IsPairs, Of
<1>3. c \in Row /\ Summarizes(c, U \cup {z})
  <2>. HIDE DEF a, U
  <2>. QED BY <1>1, <1>2, MergeSummarizes DEF a
<1>4. /\ c.name = a.name /\ c.requests = a.requests + z[2].requests
      /\ c.failures = a.failures + z[2].failures
  <2>1. c.name = a.name
    <3>1. z \in U \cup {z}
      OBVIOUS
    <3>. HIDE DEF c, U
    <3>. QED BY <1>3, <3>1 DEF Summarizes
  <2>2. /\ a.requests = RequestsOf(U) /\ a.failures = FailuresOf(U)
        /\ c.requests = RequestsOf(U \cup {z}) /\ c.failures = FailuresOf(U \cup {z})
    <3>. HIDE DEF c, U, a
    <3>. QED BY <1>2, <1>3, Zenon DEF Summarizes
  <2>3. /\ RequestsOf(U \cup {z}) = RequestsOf(U) + z[2].requests
        /\ FailuresOf(U \cup {z}) = FailuresOf(U) + z[2].failures
    <3>. HIDE DEF U
    <3>. QED BY <1>2, OneMore
  <2>. HIDE DEF c, U, a
  <2>. QED BY <2>1, <2>2, <2>3
<1>. HIDE DEF c
<1>5. /\ t \in Seq(Row) /\ Len(t) = n /\ DOMAIN t = 1..n /\ t[k] = c
      /\ \A i \in 1..n : i # k => t[i] = stats[i]
  BY <1>1, <1>3
<1>. HIDE DEF t, n
<1>6. \A i \in 1..n : t[i].name = stats[i].name
  BY <1>4, <1>5
<1>7. \A i, j \in DOMAIN t : t[i].name = t[j].name => i = j
  BY <1>1, <1>5, <1>6 DEF RowsFor
<1>8. \A x \in Y : \E i \in DOMAIN t : t[i].name = x[2].name
  <2>1. \A x \in X : \E i \in 1..n : stats[i].name = x[2].name
    BY <1>1 DEF RowsFor
  <2>. QED BY <1>1, <1>5, <1>6, <2>1
<1>9. ASSUME NEW i \in DOMAIN t
      PROVE  Of(Y, t[i].name) # {} /\ Summarizes(t[i], Of(Y, t[i].name))
  <2>1. CASE i = k
    <3>1. Of(Y, t[i].name) = U \cup {z}
      BY <1>4, <1>5, <2>1 DEF Of
    <3>. QED BY <1>3, <1>5, <2>1, <3>1
  <2>2. CASE i # k
    <3>1. t[i] = stats[i] /\ i \in DOMAIN stats
      BY <1>1, <1>5, <2>2
    <3>2. stats[i].name # z[2].name
      BY <2>2, <3>1 DEF RowsFor
    <3>3. Of(Y, t[i].name) = Of(X, stats[i].name)
      BY <3>1, <3>2 DEF Of
    <3>4. Of(X, stats[i].name) # {} /\ Summarizes(stats[i], Of(X, stats[i].name))
      BY <3>1 DEF RowsFor
    <3>. QED BY <3>1, <3>3, <3>4
  <2>. QED BY <2>1, <2>2
<1>10. /\ z[2].requests \in Int /\ z[2].failures \in Int
       /\ Requests(stats) = RequestsOf(X) /\ Failures(stats) = FailuresOf(X)
       /\ RequestsOf(Y) = RequestsOf(X) + z[2].requests
       /\ FailuresOf(Y) = FailuresOf(X) + z[2].failures
       /\ IsFiniteSet(1..n)
  <2>1. z[2].requests \in Int /\ z[2].failures \in Int
    BY EntryType
  <2>2. Requests(stats) = RequestsOf(X) /\ Failures(stats) = FailuresOf(X)
    BY DEF RowsFor
  <2>3. /\ RequestsOf(Y) = RequestsOf(X) + z[2].requests
        /\ FailuresOf(Y) = FailuresOf(X) + z[2].failures
    BY OneMore
  <2>. QED BY <1>1, <2>1, <2>2, <2>3, FinitePositions
<1>11. Requests(t) = RequestsOf(Y)
  <2>. DEFINE f == [i \in DOMAIN stats |-> stats[i].requests]
              g == [i \in DOMAIN t |-> t[i].requests]
  <2>1. /\ DOMAIN f = 1..n /\ DOMAIN g = 1..n /\ g[k] = f[k] + z[2].requests
        /\ \A i \in 1..n : f[i] \in Int /\ g[i] \in Int /\ (i # k => f[i] = g[i])
    <3>1. DOMAIN f = 1..n /\ DOMAIN g = 1..n
      BY <1>1, <1>5
    <3>2. \A i \in 1..n : f[i] = stats[i].requests /\ g[i] = t[i].requests
      BY <1>1, <1>5
    <3>3. \A i \in 1..n : stats[i].requests \in Int /\ t[i].requests \in Int
      BY <1>1, <1>5, RowCounts
    <3>. HIDE DEF f, g
    <3>. QED BY <1>1, <1>4, <1>5, <3>1, <3>2, <3>3
  <2>. HIDE DEF f, g, Y
  <2>2. SumFunctionOnSet(g, 1..n) = SumFunctionOnSet(f, 1..n) - f[k] + g[k]
    <3>. DEFINE D == 1..n
    <3>1. IsFiniteSet(D) /\ k \in D
      BY <1>1, <1>10
    <3>2. \A i \in D : f[i] \in Int /\ g[i] \in Int /\ (i # k => f[i] = g[i])
      BY <2>1
    <3>. HIDE DEF D
    <3>3. SumFunctionOnSet(g, D) = SumFunctionOnSet(f, D) - f[k] + g[k]
      BY <3>1, <3>2, SumUpdate
    <3>. QED BY <3>3 DEF D
  <2>3. SumFunctionOnSet(f, 1..n) \in Int
    BY <1>10, <2>1, SumType
  <2>4. SumFunction(g) = SumFunction(f) + z[2].requests
    BY <1>1, <1>10, <2>1, <2>2, <2>3 DEF SumFunction
  <2>. QED BY <1>10, <2>4 DEF f, g, Requests
<1>12. Failures(t) = FailuresOf(Y)
  <2>. DEFINE f == [i \in DOMAIN stats |-> stats[i].failures]
              g == [i \in DOMAIN t |-> t[i].failures]
  <2>1. /\ DOMAIN f = 1..n /\ DOMAIN g = 1..n /\ g[k] = f[k] + z[2].failures
        /\ \A i \in 1..n : f[i] \in Int /\ g[i] \in Int /\ (i # k => f[i] = g[i])
    <3>1. DOMAIN f = 1..n /\ DOMAIN g = 1..n
      BY <1>1, <1>5
    <3>2. \A i \in 1..n : f[i] = stats[i].failures /\ g[i] = t[i].failures
      BY <1>1, <1>5
    <3>3. \A i \in 1..n : stats[i].failures \in Int /\ t[i].failures \in Int
      BY <1>1, <1>5, RowCounts
    <3>. HIDE DEF f, g
    <3>. QED BY <1>1, <1>4, <1>5, <3>1, <3>2, <3>3
  <2>. HIDE DEF f, g, Y
  <2>2. SumFunctionOnSet(g, 1..n) = SumFunctionOnSet(f, 1..n) - f[k] + g[k]
    <3>. DEFINE D == 1..n
    <3>1. IsFiniteSet(D) /\ k \in D
      BY <1>1, <1>10
    <3>2. \A i \in D : f[i] \in Int /\ g[i] \in Int /\ (i # k => f[i] = g[i])
      BY <2>1
    <3>. HIDE DEF D
    <3>3. SumFunctionOnSet(g, D) = SumFunctionOnSet(f, D) - f[k] + g[k]
      BY <3>1, <3>2, SumUpdate
    <3>. QED BY <3>3 DEF D
  <2>3. SumFunctionOnSet(f, 1..n) \in Int
    BY <1>10, <2>1, SumType
  <2>4. SumFunction(g) = SumFunction(f) + z[2].failures
    BY <1>1, <1>10, <2>1, <2>2, <2>3 DEF SumFunction
  <2>. QED BY <1>10, <2>4 DEF f, g, Failures
<1>. HIDE DEF Y
<1>13. RowsFor(t, Y)
  BY <1>5, <1>7, <1>8, <1>9, <1>11, <1>12 DEF RowsFor
<1>. QED BY <1>13 DEF t, c, a, Y

\* The body of the loop of buildAllStats.
LEMMA AddRowAdds ==
  ASSUME NEW X, IsPairs(X), NEW stats, RowsFor(stats, X), NEW z, z \notin X, IsEntry(z[2])
  PROVE  RowsFor(AddRow(stats, Derive(z[2])), X \cup {z})
<1>. DEFINE o == Derive(z[2])
            hit == {i \in DOMAIN stats : stats[i].name = o.name}
<1>1. o.name = z[2].name /\ stats \in Seq(Row)
  BY DEF Derive, RowsFor
<1>2. CASE hit = {}
  <2>1. AddRow(stats, o) = Append(stats, o)
    BY <1>2 DEF AddRow
  <2>2. \A i \in DOMAIN stats : stats[i].name # z[2].name
    BY <1>1, <1>2
  <2>. QED BY <2>1, <2>2, NewRow
<1>3. CASE hit # {}
  <2>1. PICK k : k \in hit
    BY <1>3
  <2>2. hit = {k} /\ k \in Nat
    <3>1. \A i \in hit : i = k
      BY <2>1 DEF RowsFor
    <3>. QED BY <1>1, <2>1, <3>1
  <2>3. Min(hit) = k
    <3>. HIDE DEF hit
    <3>. QED BY <2>2 DEF Min
  <2>4. AddRow(stats, o) = [stats EXCEPT ![k] = Merge(@, o)]
    BY <1>3, <2>3 DEF AddRow
  <2>5. k \in DOMAIN stats /\ stats[k].name = z[2].name
    BY <1>1, <2>1
  <2>. HIDE DEF o
  <2>. QED BY <2>4, <2>5, OldRow DEF o
<1>. QED BY <1>2, <1>3

\* The values of the loop of buildAllStats.
Adds(after, stats, items) ==
  /\ after[0] = stats
  /\ \A i \in 1..Len(items) : after[i] = AddRow(after[i - 1], items[i])

\* The loop has a value after each item.
LEMMA AddRowsLoop ==
  ASSUME NEW stats, NEW items, Len(items) \in Nat
  PROVE  \E after : Adds(after, stats, items) /\ AddRows(stats, items) = after[Len(items)]
<1>. DEFINE n == Len(items)
            Eq(h, m) == h = [i \in 0..m |-> IF i = 0 THEN stats ELSE AddRow(h[i - 1], items[i])]
            G == {m \in Nat : \E h : Eq(h, m)}
            after == CHOOSE h : Eq(h, n)
<1>1. 0 \in G
  <2>1. Eq([i \in 0..0 |-> stats], 0)
    OBVIOUS
  <2>. HIDE DEF Eq
  <2>. QED BY <2>1
<1>2. ASSUME NEW m \in Nat, m \in G PROVE m + 1 \in G
  <2>1. PICK f : Eq(f, m)
    BY <1>2
  <2>. DEFINE g == [i \in 0..(m + 1) |-> IF i <= m THEN f[i] ELSE AddRow(f[m], items[m + 1])]
  <2>2. f[0] = stats /\ \A i \in 1..m : f[i] = AddRow(f[i - 1], items[i])
    BY <2>1
  <2>3. g[0] = stats
    BY <2>2
  <2>4. ASSUME NEW i \in 1..(m + 1) PROVE g[i] = AddRow(g[i - 1], items[i])
    <3>1. i - 1 \in 0..(m + 1) /\ i - 1 <= m /\ g[i - 1] = f[i - 1]
      OBVIOUS
    <3>2. CASE i <= m
      <4>1. i \in 1..m /\ g[i] = f[i]
        BY <3>2
      <4>. HIDE DEF g
      <4>. QED BY <2>2, <3>1, <4>1
    <3>3. CASE i = m + 1
      <4>1. i - 1 = m /\ g[i] = AddRow(f[m], items[m + 1])
        BY <3>3
      <4>. HIDE DEF g
      <4>. QED BY <3>1, <3>3, <4>1
    <3>. QED BY <3>2, <3>3
  <2>5. g = [i \in 0..(m + 1) |-> g[i]]
    OBVIOUS
  <2>. HIDE DEF g
  <2>6. Eq(g, m + 1)
    <3>1. \A i \in 0..(m + 1) : g[i] = IF i = 0 THEN stats ELSE AddRow(g[i - 1], items[i])
      BY <2>3, <2>4
    <3>. QED BY <2>5, <3>1
  <2>. HIDE DEF Eq
  <2>. QED BY <2>6
<1>3. n \in G
  <2>. HIDE DEF G
  <2>. QED BY <1>1, <1>2, NatSetInduction
<1>4. Eq(after, n)
  <2>1. \E h : Eq(h, n)
    BY <1>3
  <2>. HIDE DEF Eq
  <2>. QED BY <2>1
<1>5. AddRows(stats, items) = after[n]
  BY Zenon DEF AddRows
<1>. HIDE DEF after
<1>6. after[0] = stats /\ \A i \in 1..n : after[i] = AddRow(after[i - 1], items[i])
  BY <1>4
<1>. QED BY <1>5, <1>6 DEF Adds

\* The pairs of report n.
PairsOf(n, S) == {<<n, e>> : e \in S}

\* items shows the entries of S, ent[i] at place i.
Orders(ent, S, items) ==
  /\ items \in Seq(Row)
  /\ ent \in [1..Len(items) -> S]
  /\ \A i, j \in 1..Len(items) : ent[i] = ent[j] => i = j
  /\ \A e \in S : \E i \in 1..Len(items) : ent[i] = e
  /\ \A i \in 1..Len(items) : items[i] = Derive(ent[i])

\* The pairs of the first k items, and those before.
PairsTo(X, n, ent, k) == X \cup {<<n, ent[j]>> : j \in 1..k}

\* The rows after each round of the loop of buildAllStats: they sum up the entries so
\* far.
Rounds(after, X, n, ent, m) ==
  \A k \in 0..m : IsPairs(PairsTo(X, n, ent, k)) /\ RowsFor(after[k], PairsTo(X, n, ent, k))

\* Every round of the loop of buildAllStats adds one entry.
LEMMA AddRowsRounds ==
  ASSUME NEW X, IsPairs(X), NEW stats, RowsFor(stats, X), NEW n, NEW S,
         NEW items, NEW ent, Orders(ent, S, items),
         \A e \in S : IsEntry(e), \A e : <<n, e>> \notin X,
         NEW after, Adds(after, stats, items)
  PROVE  Rounds(after, X, n, ent, Len(items))
<1>. DEFINE m == Len(items)
<1>0. /\ m \in Nat /\ Len(items) = m /\ ent \in [1..m -> S]
      /\ \A i, j \in 1..m : ent[i] = ent[j] => i = j
      /\ \A i \in 1..m : items[i] = Derive(ent[i])
  BY DEF Orders
<1>. HIDE DEF m
<1>. DEFINE Z(k) == PairsTo(X, n, ent, k)
            Good(k) == IsPairs(Z(k)) /\ RowsFor(after[k], Z(k))
            G == {k \in Nat : k <= m => Good(k)}
<1>2. 0 \in G
  <2>1. Z(0) = X
    BY DEF PairsTo
  <2>2. after[0] = stats
    BY DEF Adds
  <2>. HIDE DEF Z
  <2>. QED BY <2>1, <2>2
<1>3. ASSUME NEW k \in Nat, k \in G PROVE k + 1 \in G
  <2>. SUFFICES ASSUME k + 1 <= m PROVE Good(k + 1)
    <3>. HIDE DEF Good
    <3>. QED OBVIOUS
  <2>. DEFINE z == <<n, ent[k + 1]>>
  <2>1. k + 1 \in 1..m /\ (k + 1) - 1 = k /\ k <= m /\ z[2] = ent[k + 1] /\ ent[k + 1] \in S
    BY <1>0
  <2>2. Z(k + 1) = Z(k) \cup {z}
    BY DEF PairsTo
  <2>3. z \notin Z(k) /\ IsEntry(z[2])
    <3>1. \A j \in 1..k : ent[j] # ent[k + 1]
      BY <1>0, <2>1
    <3>. QED BY <2>1, <3>1 DEF PairsTo
  <2>4. after[k + 1] = AddRow(after[k], Derive(z[2]))
    BY <1>0, <2>1 DEF Adds
  <2>5. Good(k)
    BY <1>3, <2>1
  <2>. HIDE DEF Z, z
  <2>6. RowsFor(AddRow(after[k], Derive(z[2])), Z(k) \cup {z}) /\ IsPairs(Z(k) \cup {z})
    BY <2>3, <2>5, AddRowAdds, OneMore
  <2>. QED BY <2>2, <2>4, <2>6
<1>4. Nat \subseteq G
  <2>. HIDE DEF G
  <2>. QED BY <1>2, <1>3, NatSetInduction
<1>5. \A k \in 0..m : Good(k)
  <2>. HIDE DEF Good
  <2>. QED BY <1>0, <1>4
<1>. QED BY <1>5 DEF Rounds, m

\* buildAllStats adds all entries of a report, in any order.
LEMMA AddRowsAdds ==
  ASSUME NEW X, IsPairs(X), NEW stats, RowsFor(stats, X), NEW n, NEW S,
         NEW items, NEW ent, Orders(ent, S, items),
         \A e \in S : IsEntry(e), \A e : <<n, e>> \notin X
  PROVE  RowsFor(AddRows(stats, items), X \cup PairsOf(n, S))
<1>. DEFINE m == Len(items)
<1>1. m \in Nat /\ ent \in [1..m -> S] /\ \A e \in S : \E i \in 1..m : ent[i] = e
  BY DEF Orders
<1>2. PICK after : Adds(after, stats, items) /\ AddRows(stats, items) = after[m]
  BY <1>1, AddRowsLoop
<1>3. Rounds(after, X, n, ent, m)
  BY <1>2, AddRowsRounds
<1>. HIDE DEF m
<1>4. PairsTo(X, n, ent, m) = X \cup PairsOf(n, S)
  BY <1>1 DEF PairsTo, PairsOf
<1>5. RowsFor(after[m], PairsTo(X, n, ent, m))
  <2>1. m \in 0..m
    BY <1>1
  <2>. QED BY <1>3, <2>1 DEF Rounds
<1>. QED BY <1>2, <1>4, <1>5

\* An item leaves the rows of other names as they are.
LEMMA AddRowKeeps ==
  ASSUME NEW X, NEW stats, RowsFor(stats, X), NEW o, NEW i \in DOMAIN stats,
         stats[i].name # o.name
  PROVE  i \in DOMAIN AddRow(stats, o) /\ AddRow(stats, o)[i] = stats[i]
<1>. DEFINE hit == {k \in DOMAIN stats : stats[k].name = o.name}
<1>1. stats \in Seq(Row) /\ DOMAIN stats = 1..Len(stats)
  BY DEF RowsFor
<1>2. CASE hit = {}
  <2>1. AddRow(stats, o) = Append(stats, o)
    BY <1>2 DEF AddRow
  <2>2. Append(stats, o)[i] = stats[i] /\ i \in DOMAIN Append(stats, o)
    BY <1>1
  <2>. QED BY <2>1, <2>2
<1>3. CASE hit # {}
  <2>1. PICK k : k \in hit
    BY <1>3
  <2>2. hit = {k} /\ k \in Nat
    <3>1. \A j \in hit : j = k
      BY <2>1 DEF RowsFor
    <3>. QED BY <1>1, <2>1, <3>1
  <2>3. Min(hit) = k
    <3>. HIDE DEF hit
    <3>. QED BY <2>2 DEF Min
  <2>4. AddRow(stats, o) = [stats EXCEPT ![k] = Merge(@, o)]
    BY <1>3, <2>3 DEF AddRow
  <2>5. k # i
    BY <2>1
  <2>. QED BY <2>4, <2>5
<1>. QED BY <1>2, <1>3

\* The name of item j has no row and occurs once.
OnceNew(stats, items, j) ==
  /\ \A i \in DOMAIN stats : stats[i].name # items[j].name
  /\ \A i \in 1..Len(items) : items[i].name = items[j].name => i = j

\* items shows the entries in S of report n, that the rows for X do not count.
Uncounted(X, stats, n, S, items, ent) ==
  /\ IsPairs(X) /\ RowsFor(stats, X) /\ Orders(ent, S, items)
  /\ (\A e \in S : IsEntry(e)) /\ \A e : <<n, e>> \notin X

\* A name that is new and occurs once has the item itself as its row.
LEMMA SingleRow ==
  ASSUME NEW X, NEW stats, NEW n, NEW S, NEW items, NEW ent,
         Uncounted(X, stats, n, S, items, ent),
         NEW j \in 1..Len(items), OnceNew(stats, items, j)
  PROVE  \E i \in DOMAIN AddRows(stats, items) : AddRows(stats, items)[i] = items[j]
<1>. DEFINE m == Len(items)
            o == items[j]
<1>1. m \in Nat /\ \A k \in 1..m : items[k] = Derive(ent[k])
  BY DEF Orders, Uncounted
<1>2. PICK after : Adds(after, stats, items) /\ AddRows(stats, items) = after[m]
  BY <1>1, AddRowsLoop
<1>3. Rounds(after, X, n, ent, m)
  BY <1>2, AddRowsRounds DEF Uncounted
<1>4. \A k \in 1..m : after[k] = AddRow(after[k - 1], items[k])
  BY <1>2 DEF Adds
<1>. HIDE DEF m, o
<1>5. ASSUME NEW x \in X PROVE x[2].name # o.name
  BY DEF Uncounted, RowsFor, OnceNew, o
<1>6. ASSUME NEW k \in 0..m, k < j, NEW i \in DOMAIN after[k] PROVE after[k][i].name # o.name
  <2>1. RowsFor(after[k], PairsTo(X, n, ent, k))
    BY <1>3 DEF Rounds
  <2>2. PICK x \in PairsTo(X, n, ent, k) : x[2].name = after[k][i].name
    BY <1>6, <2>1 DEF RowsFor, Of
  <2>3. CASE x \in X
    BY <1>5, <2>2, <2>3
  <2>4. CASE x \notin X
    <3>1. PICK q \in 1..k : x = <<n, ent[q]>>
      BY <2>4 DEF PairsTo
    <3>2. q \in 1..m /\ q # j /\ k \in Int
      BY <1>1, <1>6, <3>1 DEF m
    <3>3. items[q].name = ent[q].name
      <4>1. items[q] = Derive(ent[q])
        BY <1>1, <3>2
      <4>2. Derive(ent[q]).name = ent[q].name
        BY DEF Derive
      <4>. QED BY <4>1, <4>2
    <3>4. items[q].name # o.name
      BY <3>2 DEF OnceNew, o, m
    <3>. QED BY <2>2, <3>1, <3>3, <3>4
  <2>. QED BY <2>3, <2>4
<1>. DEFINE Good(k) == \E i \in DOMAIN after[k] : after[k][i] = o
            G == {k \in Nat : k \in j..m => Good(k)}
<1>7. Good(j)
  <2>1. j \in 1..m /\ j - 1 \in 0..m /\ j - 1 < j
    BY <1>1 DEF m
  <2>2. after[j] = AddRow(after[j - 1], o)
    BY <1>4, <2>1 DEF o
  <2>3. \A i \in DOMAIN after[j - 1] : after[j - 1][i].name # o.name
    BY <1>6, <2>1
  <2>4. after[j] = Append(after[j - 1], o)
    BY <2>2, <2>3 DEF AddRow
  <2>5. after[j - 1] \in Seq(Row)
    BY <1>3, <2>1 DEF Rounds, RowsFor
  <2>6. o \in Row
    BY <2>1 DEF o, m, Orders, Uncounted
  <2>7. DOMAIN after[j] = 1..(Len(after[j - 1]) + 1) /\ after[j][Len(after[j - 1]) + 1] = o
    BY <2>4, <2>5, <2>6
  <2>8. Len(after[j - 1]) + 1 \in DOMAIN after[j]
    BY <2>5, <2>7
  <2>. QED BY <2>7, <2>8
<1>8. 0 \in G
  <2>1. 0 \notin j..m
    BY <1>1 DEF m
  <2>. QED BY <2>1
<1>9. ASSUME NEW k \in Nat, k \in G PROVE k + 1 \in G
  <2>. SUFFICES ASSUME k + 1 \in j..m PROVE Good(k + 1)
    <3>. HIDE DEF Good
    <3>. QED OBVIOUS
  <2>1. CASE k + 1 = j
    BY <1>7, <2>1
  <2>2. CASE k + 1 # j
    <3>1. j \in Int /\ k \in j..m /\ k + 1 \in 1..m /\ (k + 1) - 1 = k /\ k \in 0..m
      BY <1>1, <2>2 DEF m
    <3>2. PICK i \in DOMAIN after[k] : after[k][i] = o
      BY <1>9, <3>1
    <3>3. after[k + 1] = AddRow(after[k], items[k + 1])
      BY <1>4, <3>1
    <3>4. items[k + 1].name # o.name
      BY <2>2, <3>1 DEF OnceNew, o, m
    <3>5. RowsFor(after[k], PairsTo(X, n, ent, k))
      BY <1>3, <3>1 DEF Rounds
    <3>6. i \in DOMAIN AddRow(after[k], items[k + 1]) /\ AddRow(after[k], items[k + 1])[i] = o
      BY <3>2, <3>4, <3>5, AddRowKeeps
    <3>. QED BY <3>3, <3>6
  <2>. QED BY <2>1, <2>2
<1>10. m \in G
  <2>. HIDE DEF G
  <2>. QED BY <1>1, <1>8, <1>9, NatSetInduction
<1>11. m \in j..m
  BY <1>1 DEF m
<1>12. Good(m)
  <2>. HIDE DEF Good
  <2>. QED BY <1>10, <1>11
<1>. QED BY <1>2, <1>12 DEF o

\* sortOutput of the rows: as before, and in order.
LEMMA SortKeepsRows ==
  ASSUME NEW X, NEW stats, RowsFor(stats, X)
  PROVE  /\ RowsFor(SortOutput(stats), X)
         /\ \A i, j \in DOMAIN SortOutput(stats) :
              i < j => SortOutput(stats)[i].name < SortOutput(stats)[j].name
<1>. DEFINE t == SortOutput(stats)
            n == Len(stats)
<1>1. stats \in Seq(Row) /\ n \in Nat /\ DOMAIN stats = 1..n
  BY DEF RowsFor
<1>2. Named(Row)
  BY DEF Named, Row
<1>3. /\ t \in Seq(Row) /\ Permuted(t, stats, n)
      /\ \A i, j \in 1..n : i < j => t[i].name <= t[j].name
  BY <1>1, <1>2, SortOutputSorts
<1>. HIDE DEF t, n
<1>4. Len(t) = n /\ DOMAIN t = 1..n
  BY <1>1, <1>3 DEF Permuted, n
<1>5. PICK p \in Perms(n, n) : \A i \in 1..n : t[i] = stats[p[i]]
  BY <1>3 DEF Permuted, n
<1>6. /\ \A i \in 1..n : p[i] \in 1..n
      /\ \A i, j \in 1..n : p[i] = p[j] => i = j
      /\ \A j \in 1..n : \E i \in 1..n : p[i] = j
  BY <1>5 DEF Perms
<1>7. \A i, j \in DOMAIN t : t[i].name = t[j].name => i = j
  <2>1. \A i, j \in 1..n : stats[i].name = stats[j].name => i = j
    BY <1>1 DEF RowsFor
  <2>2. ASSUME NEW i \in 1..n, NEW j \in 1..n, t[i].name = t[j].name PROVE i = j
    <3>1. t[i] = stats[p[i]] /\ t[j] = stats[p[j]] /\ p[i] \in 1..n /\ p[j] \in 1..n
      BY <1>5, <1>6
    <3>2. p[i] = p[j]
      BY <2>1, <2>2, <3>1
    <3>. QED BY <1>6, <3>2
  <2>. QED BY <1>4, <2>2
<1>8. \A x \in X : \E i \in DOMAIN t : t[i].name = x[2].name
  <2>. SUFFICES ASSUME NEW x \in X PROVE \E i \in DOMAIN t : t[i].name = x[2].name
    OBVIOUS
  <2>1. PICK j \in 1..n : stats[j].name = x[2].name
    BY <1>1 DEF RowsFor
  <2>2. PICK i \in 1..n : p[i] = j
    BY <1>6
  <2>. QED BY <1>4, <1>5, <2>1, <2>2
<1>9. ASSUME NEW i \in DOMAIN t
      PROVE  Of(X, t[i].name) # {} /\ Summarizes(t[i], Of(X, t[i].name))
  <2>1. p[i] \in DOMAIN stats /\ t[i] = stats[p[i]]
    BY <1>1, <1>4, <1>5, <1>6
  <2>. QED BY <2>1 DEF RowsFor
<1>10. ASSUME NEW f, NEW g, DOMAIN f = 1..n, DOMAIN g = 1..n,
              \A i \in 1..n : f[i] \in Int /\ g[i] = f[p[i]]
       PROVE  SumFunction(g) = SumFunction(f)
  <2>. DEFINE D == 1..n
  <2>1. D = {p[i] : i \in D} /\ IsFiniteSet(D) /\ \A i, j \in D : p[i] = p[j] => i = j
    <3>1. IsFiniteSet(D)
      BY <1>1, FinitePositions
    <3>2. /\ \A i \in D : p[i] \in D
          /\ \A i, j \in D : p[i] = p[j] => i = j
          /\ \A j \in D : \E i \in D : p[i] = j
      BY <1>6
    <3>. HIDE DEF D
    <3>. QED BY <3>1, <3>2
  <2>2. \A i \in D : g[i] \in Int /\ g[i] = f[p[i]]
    BY <1>6, <1>10
  <2>. HIDE DEF D
  <2>3. SumFunctionOnSet(g, D) = SumFunctionOnSet(f, D)
    BY <2>1, <2>2, SumReindex
  <2>. QED BY <1>10, <2>3 DEF SumFunction, D
<1>11. Requests(t) = Requests(stats)
  <2>. DEFINE f == [i \in DOMAIN stats |-> stats[i].requests]
              g == [i \in DOMAIN t |-> t[i].requests]
  <2>1. \A i \in 1..n : stats[i].requests \in Int
    BY <1>1, RowCounts
  <2>2. DOMAIN f = 1..n /\ DOMAIN g = 1..n /\ \A i \in 1..n : f[i] \in Int /\ g[i] = f[p[i]]
    BY <1>1, <1>4, <1>5, <1>6, <2>1
  <2>. HIDE DEF f, g
  <2>3. SumFunction(g) = SumFunction(f)
    BY <1>10, <2>2
  <2>. QED BY <2>3 DEF f, g, Requests
<1>12. Failures(t) = Failures(stats)
  <2>. DEFINE f == [i \in DOMAIN stats |-> stats[i].failures]
              g == [i \in DOMAIN t |-> t[i].failures]
  <2>1. \A i \in 1..n : stats[i].failures \in Int
    BY <1>1, RowCounts
  <2>2. DOMAIN f = 1..n /\ DOMAIN g = 1..n /\ \A i \in 1..n : f[i] \in Int /\ g[i] = f[p[i]]
    BY <1>1, <1>4, <1>5, <1>6, <2>1
  <2>. HIDE DEF f, g
  <2>3. SumFunction(g) = SumFunction(f)
    BY <1>10, <2>2
  <2>. QED BY <2>3 DEF f, g, Failures
<1>13. RowsFor(t, X)
  BY <1>3, <1>7, <1>8, <1>9, <1>11, <1>12 DEF RowsFor
<1>14. \A i, j \in DOMAIN t : i < j => t[i].name < t[j].name
  <2>1. \A i \in 1..n : t[i].name \in Int
    BY <1>2, <1>3, <1>4 DEF Named
  <2>. QED BY <1>3, <1>4, <1>7, <2>1
<1>. QED BY <1>13, <1>14 DEF t

\* sortOutput loses no row.
LEMMA SortHasRows ==
  ASSUME NEW X, NEW stats, RowsFor(stats, X), NEW i \in DOMAIN stats
  PROVE  \E k \in DOMAIN SortOutput(stats) : SortOutput(stats)[k] = stats[i]
<1>. DEFINE t == SortOutput(stats)
            n == Len(stats)
<1>1. stats \in Seq(Row) /\ n \in Nat /\ DOMAIN stats = 1..n
  BY DEF RowsFor
<1>2. t \in Seq(Row) /\ Permuted(t, stats, n)
  <2>1. Named(Row)
    BY DEF Named, Row
  <2>. QED BY <1>1, <2>1, SortOutputSorts
<1>. HIDE DEF t, n
<1>3. DOMAIN t = 1..n
  BY <1>1, <1>2 DEF Permuted, n
<1>4. PICK p \in Perms(n, n) : \A k \in 1..n : t[k] = stats[p[k]]
  BY <1>2 DEF Permuted, n
<1>5. PICK k \in 1..n : p[k] = i
  BY <1>1, <1>4 DEF Perms
<1>. QED BY <1>3, <1>4, <1>5 DEF t

(***************************************************************************)
(* The reports that the outputs get                                        *)
(***************************************************************************)

\* The reports handed over: those of Reports, with their seconds.
Handed(r, n) == [r EXCEPT !.stats = {At(n, e) : e \in @}]
HandedOver == {Handed(r, n) : r \in Reports, n \in Nat}

\* The image of a finite set is finite.
LEMMA FiniteImage ==
  ASSUME NEW f, NEW S, IsFiniteSet(S)
  PROVE  IsFiniteSet({f[x] : x \in S})
<1>. DEFINE g == [x \in S |-> f[x]]
            T == {f[x] : x \in S}
<1>1. g \in Surjection(S, T)
  BY DEF Surjection
<1>. HIDE DEF g, T
<1>2. IsFiniteSet(T)
  BY <1>1, FS_Surjection
<1>. QED BY <1>2 DEF T

\* At moves the seconds of an entry and nothing else.
LEMMA AtEntry ==
  ASSUME NEW e, IsEntry(e), NEW n \in Nat
  PROVE  /\ IsEntry(At(n, e))
         /\ At(n, e).name = e.name /\ At(n, e).method = e.method
         /\ At(n, e).requests = e.requests /\ At(n, e).failures = e.failures
<1>. DEFINE k == ReportInterval * n
            moved(S) == {k + s : s \in S}
            d == At(n, e)
<1>1. k \in Nat
  BY ReportAssumption
<1>. HIDE DEF k
<1>2. ASSUME NEW S, S \subseteq Nat, IsFiniteSet(S)
      PROVE  moved(S) \subseteq Nat /\ IsFiniteSet(moved(S))
  <2>. DEFINE f == [s \in S |-> k + s]
  <2>1. moved(S) = {f[s] : s \in S}
    OBVIOUS
  <2>. HIDE DEF f
  <2>2. IsFiniteSet({f[s] : s \in S})
    BY <1>2, FiniteImage
  <2>3. moved(S) \subseteq Nat
    BY <1>1, <1>2
  <2>. HIDE DEF moved
  <2>. QED BY <2>1, <2>2, <2>3
<1>3. /\ e \in [name : Nat, method : STRING, requests : Nat \ {0}, failures : Nat, time : Nat,
                min : Nat, max : Nat, times : {e.times}, secs : SUBSET Nat, failSecs : SUBSET Nat]
      /\ IsCount(e.times) /\ DOMAIN e.times \subseteq Nat /\ SumFunction(e.times) = e.requests
      /\ IsFiniteSet(e.secs) /\ IsFiniteSet(e.failSecs)
  BY DEF IsEntry
<1>4. d = [e EXCEPT !.secs = moved(e.secs), !.failSecs = moved(e.failSecs)]
  BY DEF At, k
<1>5. /\ moved(e.secs) \in SUBSET Nat /\ IsFiniteSet(moved(e.secs))
      /\ moved(e.failSecs) \in SUBSET Nat /\ IsFiniteSet(moved(e.failSecs))
  <2>1. e.secs \subseteq Nat /\ e.failSecs \subseteq Nat
    BY <1>3
  <2>. HIDE DEF moved
  <2>. QED BY <1>2, <1>3, <2>1
<1>. HIDE DEF d, moved
<1>6. /\ d \in [name : Nat, method : STRING, requests : Nat \ {0}, failures : Nat, time : Nat,
                min : Nat, max : Nat, times : {e.times}, secs : SUBSET Nat, failSecs : SUBSET Nat]
      /\ d.name = e.name /\ d.method = e.method /\ d.times = e.times
      /\ d.requests = e.requests /\ d.failures = e.failures
      /\ d.secs = moved(e.secs) /\ d.failSecs = moved(e.failSecs)
  BY <1>3, <1>4, <1>5
<1>7. IsEntry(d)
  BY <1>3, <1>5, <1>6 DEF IsEntry
<1>. QED BY <1>6, <1>7 DEF d

\* A report that is handed over is as consistent as the one that was collected.
LEMMA HandedIsReport ==
  ASSUME NEW r \in Reports, NEW n \in Nat
  PROVE  IsReport(Handed(r, n)) /\ Handed(r, n).errors = r.errors
<1>. DEFINE h == Handed(r, n)
            S == r.stats
            T == {At(n, e) : e \in S}
            p == [e \in S |-> At(n, e)]
<1>1. /\ r \in [stats : {r.stats}, total : [requests : Nat, failures : Nat], errors : {r.errors}]
      /\ IsFiniteSet(S) /\ IsCount(r.errors)
      /\ \A e \in S : IsEntry(e)
      /\ \A e, f \in S : e.name = f.name /\ e.method = f.method => e = f
      /\ r.total.requests = SumFunction([e \in S |-> e.requests])
      /\ r.total.failures = SumFunction([e \in S |-> e.failures])
      /\ r.total.failures = SumFunction(r.errors)
  BY ReportAssumption DEF IsReport
<1>2. /\ h \in [stats : {T}, total : [requests : Nat, failures : Nat], errors : {r.errors}]
      /\ h.stats = T /\ h.total = r.total /\ h.errors = r.errors
  BY <1>1 DEF Handed
<1>. HIDE DEF h
<1>3. ASSUME NEW e \in S
      PROVE  /\ IsEntry(At(n, e)) /\ At(n, e).name = e.name /\ At(n, e).method = e.method
             /\ At(n, e).requests = e.requests /\ At(n, e).failures = e.failures
             /\ At(n, e).requests \in Int /\ At(n, e).failures \in Int
  <2>1. /\ IsEntry(At(n, e)) /\ At(n, e).name = e.name /\ At(n, e).method = e.method
        /\ At(n, e).requests = e.requests /\ At(n, e).failures = e.failures
    BY <1>1, AtEntry
  <2>2. At(n, e).requests \in Int /\ At(n, e).failures \in Int
    BY <2>1, EntryType
  <2>. QED BY <2>1, <2>2
<1>4. T = {p[e] : e \in S} /\ \A e \in S : p[e] = At(n, e)
  OBVIOUS
<1>5. \A e, f \in S : p[e] = p[f] => e = f
  BY <1>1, <1>3, <1>4
<1>6. \A d \in T : \E e \in S : d = At(n, e)
  OBVIOUS
<1>. HIDE DEF S, T, p
<1>7. /\ \A d \in T : IsEntry(d)
      /\ \A d, f \in T : d.name = f.name /\ d.method = f.method => d = f
  BY <1>1, <1>3, <1>6
<1>8. ASSUME NEW f, NEW g, DOMAIN f = T, DOMAIN g = S, \A e \in S : g[e] \in Int /\ g[e] = f[p[e]]
      PROVE  SumFunction(g) = SumFunction(f)
  <2>1. IsFiniteSet(S)
    BY <1>1
  <2>2. SumFunctionOnSet(g, S) = SumFunctionOnSet(f, T)
    BY <1>4, <1>5, <1>8, <2>1, SumReindex
  <2>. QED BY <1>8, <2>2 DEF SumFunction
<1>9. IsFiniteSet(T)
  BY <1>1, <1>4, FiniteImage
<1>10. r.total.requests = SumFunction([d \in T |-> d.requests])
  <2>. DEFINE f == [d \in T |-> d.requests]
              g == [e \in S |-> e.requests]
  <2>1. \A e \in S : p[e] \in T
    BY <1>4
  <2>2. DOMAIN f = T /\ DOMAIN g = S /\ \A e \in S : g[e] \in Int /\ g[e] = f[p[e]]
    BY <1>3, <1>4, <2>1
  <2>3. r.total.requests = SumFunction(g)
    BY <1>1
  <2>. HIDE DEF f, g
  <2>4. SumFunction(g) = SumFunction(f)
    BY <1>8, <2>2
  <2>. QED BY <2>3, <2>4 DEF f
<1>11. r.total.failures = SumFunction([d \in T |-> d.failures])
  <2>. DEFINE f == [d \in T |-> d.failures]
              g == [e \in S |-> e.failures]
  <2>1. \A e \in S : p[e] \in T
    BY <1>4
  <2>2. DOMAIN f = T /\ DOMAIN g = S /\ \A e \in S : g[e] \in Int /\ g[e] = f[p[e]]
    BY <1>3, <1>4, <2>1
  <2>3. r.total.failures = SumFunction(g)
    BY <1>1
  <2>. HIDE DEF f, g
  <2>4. SumFunction(g) = SumFunction(f)
    BY <1>8, <2>2
  <2>. QED BY <2>3, <2>4 DEF f
<1>12. IsReport(h)
  BY <1>1, <1>2, <1>7, <1>9, <1>10, <1>11 DEF IsReport
<1>. QED BY <1>2, <1>12 DEF h

\* A report that was handed over is as good as one that was collected.
LEMMA HandedReports == \A h \in HandedOver : IsReport(h)
BY HandedIsReport DEF HandedOver

\* The types of the parts of a report.
LEMMA ReportType ==
  ASSUME NEW r, IsReport(r)
  PROVE  /\ r.total.requests \in Nat /\ r.total.failures \in Nat /\ IsCount(r.errors)
         /\ IsFiniteSet(r.stats) /\ \A e \in r.stats : IsEntry(e)
BY DEF IsReport

\* convertData shows every entry of a report once.
LEMMA ConvertOrders ==
  ASSUME NEW r, IsReport(r), NEW items \in ConvertData(r)
  PROVE  \E ent : Orders(ent, r.stats, items)
<1>. DEFINE S == r.stats
            m == Cardinality(S)
<1>1. IsFiniteSet(S) /\ m \in Nat /\ \A e \in S : IsEntry(e)
  BY FS_CardinalityType DEF IsReport
<1>2. PICK order \in SetToSeqs(S) : items = [i \in DOMAIN order |-> Derive(order[i])]
  BY DEF ConvertData
<1>. HIDE DEF S, m
<1>3. order \in [1..m -> S] /\ \A i, j \in 1..m : order[i] = order[j] => i = j
  BY <1>2 DEF SetToSeqs, m
<1>4. \A e \in S : \E i \in 1..m : order[i] = e
  <2>1. order \in Injection(1..m, S)
    BY <1>3 DEF Injection, IsInjective
  <2>2. Cardinality(1..m) = m
    BY <1>1, FS_Interval
  <2>3. order \in Surjection(1..m, S)
    BY <1>1, <2>1, <2>2, FS_Injection DEF m
  <2>. QED BY <2>3 DEF Surjection
<1>5. \A e \in S : Derive(e) \in Row
  BY <1>1, EntryType, DeriveType
<1>6. items = [i \in 1..m |-> Derive(order[i])] /\ \A i \in 1..m : Derive(order[i]) \in Row
  BY <1>2, <1>3, <1>5
<1>7. items \in Seq(Row) /\ Len(items) = m /\ \A i \in 1..m : items[i] = Derive(order[i])
  BY <1>1, <1>6
<1>8. Orders(order, S, items)
  BY <1>3, <1>4, <1>7 DEF Orders
<1>. QED BY <1>8 DEF S

\* sortOutput changes the order only, and the names are in order then.
LEMMA SortOrders ==
  ASSUME NEW S, NEW items, NEW ent, Orders(ent, S, items)
  PROVE  /\ \E other : Orders(other, S, SortOutput(items))
         /\ Len(SortOutput(items)) = Len(items)
<1>. DEFINE t == SortOutput(items)
            n == Len(items)
<1>1. items \in Seq(Row) /\ Named(Row) /\ n \in Nat
  BY DEF Orders, Named, Row
<1>2. t \in Seq(Row) /\ Permuted(t, items, n)
  BY <1>1, SortOutputSorts
<1>. HIDE DEF t, n
<1>3. Len(t) = n
  BY <1>2 DEF Permuted, n
<1>4. PICK p \in Perms(n, n) : \A i \in 1..n : t[i] = items[p[i]]
  BY <1>2 DEF Permuted, n
<1>5. /\ \A i \in 1..n : p[i] \in 1..n
      /\ \A i, j \in 1..n : p[i] = p[j] => i = j
      /\ \A j \in 1..n : \E i \in 1..n : p[i] = j
  BY <1>4 DEF Perms
<1>. DEFINE other == [i \in 1..n |-> ent[p[i]]]
<1>6. /\ ent \in [1..n -> S]
      /\ \A i, j \in 1..n : ent[i] = ent[j] => i = j
      /\ \A e \in S : \E i \in 1..n : ent[i] = e
      /\ \A i \in 1..n : items[i] = Derive(ent[i])
  BY DEF Orders, n
<1>7. other \in [1..n -> S] /\ \A i \in 1..n : other[i] = ent[p[i]]
  BY <1>5, <1>6
<1>. HIDE DEF other
<1>8. ASSUME NEW i \in 1..n, NEW j \in 1..n, other[i] = other[j] PROVE i = j
  <2>1. ent[p[i]] = ent[p[j]] /\ p[i] \in 1..n /\ p[j] \in 1..n
    BY <1>5, <1>7, <1>8
  <2>2. p[i] = p[j]
    BY <1>6, <2>1
  <2>. QED BY <1>5, <2>2
<1>9. ASSUME NEW e \in S PROVE \E i \in 1..n : other[i] = e
  <2>1. PICK j \in 1..n : ent[j] = e
    BY <1>6
  <2>2. PICK i \in 1..n : p[i] = j
    BY <1>5
  <2>. QED BY <1>7, <2>1, <2>2
<1>10. ASSUME NEW i \in 1..n PROVE t[i] = Derive(other[i])
  <2>1. p[i] \in 1..n /\ t[i] = items[p[i]]
    BY <1>4, <1>5
  <2>2. items[p[i]] = Derive(ent[p[i]])
    BY <1>6, <2>1
  <2>. QED BY <1>7, <2>1, <2>2
<1>11. Orders(other, S, t)
  BY <1>2, <1>3, <1>7, <1>8, <1>9, <1>10 DEF Orders
<1>. QED BY <1>3, <1>11 DEF t, n

\* The pairs <<i, e>> of the first n reports.
PairsUpTo(reps, n) ==
  {x \in (1..n) \X UNION {reps[i].stats : i \in 1..n} : x[2] \in reps[x[1]].stats}

\* The pairs of one report more are those of the report, and new.
LEMMA PairsGrow ==
  ASSUME NEW reps, NEW n \in Nat
  PROVE  /\ PairsUpTo(reps, 0) = {}
         /\ PairsUpTo(reps, n + 1) = PairsUpTo(reps, n) \cup PairsOf(n + 1, reps[n + 1].stats)
         /\ \A e : <<n + 1, e>> \notin PairsUpTo(reps, n)
<1>. DEFINE P(m) == PairsUpTo(reps, m)
<1>1. ASSUME NEW m \in Nat, NEW x
      PROVE  x \in P(m) <=> \E i \in 1..m : \E e \in reps[i].stats : x = <<i, e>>
  BY DEF PairsUpTo
<1>2. ASSUME NEW x PROVE x \in PairsOf(n + 1, reps[n + 1].stats) <=>
                           \E e \in reps[n + 1].stats : x = <<n + 1, e>>
  BY DEF PairsOf
<1>. HIDE DEF P
<1>3. P(n + 1) = P(n) \cup PairsOf(n + 1, reps[n + 1].stats)
  <2>1. \A i \in 1..(n + 1) : i \in 1..n \/ i = n + 1
    OBVIOUS
  <2>2. n + 1 \in 1..(n + 1) /\ \A i \in 1..n : i \in 1..(n + 1)
    OBVIOUS
  <2>3. ASSUME NEW x PROVE x \in P(n + 1) <=> x \in P(n) \cup PairsOf(n + 1, reps[n + 1].stats)
    <3>1. x \in P(n + 1) <=> \E i \in 1..(n + 1) : \E e \in reps[i].stats : x = <<i, e>>
      BY <1>1
    <3>2. x \in P(n) <=> \E i \in 1..n : \E e \in reps[i].stats : x = <<i, e>>
      BY <1>1
    <3>. QED BY <1>2, <2>1, <2>2, <3>1, <3>2
  <2>. QED BY <2>3
<1>4. \A e : <<n + 1, e>> \notin P(n)
  BY <1>1
<1>5. P(0) = {}
  BY <1>1
<1>. QED BY <1>3, <1>4, <1>5 DEF P

\* Only the first n reports matter.
LEMMA PairsSame ==
  ASSUME NEW r1, NEW r2, NEW n \in Nat, \A i \in 1..n : r1[i] = r2[i]
  PROVE  PairsUpTo(r1, n) = PairsUpTo(r2, n)
<1>1. {r1[i].stats : i \in 1..n} = {r2[i].stats : i \in 1..n}
  OBVIOUS
<1>. QED BY <1>1 DEF PairsUpTo

\* The entries of one more report.
LEMMA OneReportMore ==
  ASSUME NEW X, IsPairs(X), NEW r, IsReport(r), NEW n, \A e : <<n, e>> \notin X
  PROVE  /\ IsPairs(X \cup PairsOf(n, r.stats))
         /\ RequestsOf(X \cup PairsOf(n, r.stats)) = RequestsOf(X) + r.total.requests
         /\ FailuresOf(X \cup PairsOf(n, r.stats)) = FailuresOf(X) + r.total.failures
<1>. DEFINE S == r.stats
            Z == PairsOf(n, S)
            Y == X \cup Z
            p == [e \in S |-> <<n, e>>]
<1>1. IsFiniteSet(S) /\ \A e \in S : IsEntry(e)
  BY DEF IsReport
<1>2. Z = {p[e] : e \in S} /\ (\A e \in S : p[e][2] = e) /\ \A e, f \in S : p[e] = p[f] => e = f
  BY DEF PairsOf
<1>3. IsFiniteSet(Z)
  <2>. HIDE DEF Z, p, S
  <2>. QED BY <1>1, <1>2, FiniteImage
<1>4. X \cap Z = {}
  BY DEF PairsOf
<1>5. \A y \in Z : IsEntry(y[2])
  BY <1>1 DEF PairsOf
<1>6. IsFiniteSet(X) /\ IsFiniteSet(Y) /\ \A y \in Y : IsEntry(y[2])
  <2>. HIDE DEF Z
  <2>. QED BY <1>3, <1>5, FS_Union DEF IsPairs
<1>7. \A y \in Y : y[2].requests \in Int /\ y[2].failures \in Int
  BY <1>6, EntryType
<1>8. ASSUME NEW f, NEW g, NEW h, DOMAIN f = X, DOMAIN g = Y, DOMAIN h = S,
             \A y \in Y : g[y] \in Int, \A x \in X : f[x] = g[x],
             \A e \in S : h[e] = g[p[e]]
      PROVE  SumFunction(g) = SumFunction(f) + SumFunction(h)
  <2>1. SumFunctionOnSet(g, X \cup Z) = SumFunctionOnSet(g, X) + SumFunctionOnSet(g, Z)
    <3>. HIDE DEF Z
    <3>. QED BY <1>3, <1>4, <1>6, <1>8, SumUnion
  <2>2. SumFunctionOnSet(f, X) = SumFunctionOnSet(g, X)
    BY <1>6, <1>8, SumSame
  <2>3. \A e \in S : h[e] \in Int /\ h[e] = g[p[e]]
    <3>1. \A e \in S : p[e] \in Y
      BY <1>2
    <3>. HIDE DEF p, Y, S
    <3>. QED BY <1>8, <3>1
  <2>4. SumFunctionOnSet(h, S) = SumFunctionOnSet(g, Z)
    <3>. HIDE DEF Z, p, S
    <3>. QED BY <1>1, <1>2, <2>3, SumReindex
  <2>. QED BY <1>8, <2>1, <2>2, <2>4 DEF SumFunction
<1>9. r.total.requests = SumFunction([e \in S |-> e.requests]) /\ r.total.failures = SumFunction([e \in S |-> e.failures])
  BY DEF IsReport
<1>10. RequestsOf(Y) = RequestsOf(X) + r.total.requests
  <2>. DEFINE f == [x \in X |-> x[2].requests]
              g == [x \in Y |-> x[2].requests]
              h == [e \in S |-> e.requests]
  <2>1. \A e \in S : p[e] \in Y
    BY <1>2
  <2>2. /\ DOMAIN f = X /\ DOMAIN g = Y /\ DOMAIN h = S
        /\ (\A y \in Y : g[y] \in Int) /\ (\A x \in X : f[x] = g[x])
    BY <1>7
  <2>3. \A e \in S : h[e] = g[p[e]]
    <3>. HIDE DEF Y, p
    <3>. QED BY <1>2, <2>1
  <2>. HIDE DEF f, g, h, Y, S, p
  <2>4. SumFunction(g) = SumFunction(f) + SumFunction(h)
    BY <1>8, <2>2, <2>3
  <2>. QED BY <1>9, <2>4 DEF f, g, h, RequestsOf
<1>11. FailuresOf(Y) = FailuresOf(X) + r.total.failures
  <2>. DEFINE f == [x \in X |-> x[2].failures]
              g == [x \in Y |-> x[2].failures]
              h == [e \in S |-> e.failures]
  <2>1. \A e \in S : p[e] \in Y
    BY <1>2
  <2>2. /\ DOMAIN f = X /\ DOMAIN g = Y /\ DOMAIN h = S
        /\ (\A y \in Y : g[y] \in Int) /\ (\A x \in X : f[x] = g[x])
    BY <1>7
  <2>3. \A e \in S : h[e] = g[p[e]]
    <3>. HIDE DEF Y, p
    <3>. QED BY <1>2, <2>1
  <2>. HIDE DEF f, g, h, Y, S, p
  <2>4. SumFunction(g) = SumFunction(f) + SumFunction(h)
    BY <1>8, <2>2, <2>3
  <2>. QED BY <1>9, <2>4 DEF f, g, h, FailuresOf
<1>. QED BY <1>6, <1>10, <1>11 DEF IsPairs

(***************************************************************************)
(* The summary says of all reports what they say                           *)
(***************************************************************************)

\* The sequence of the reports, and when there is one to work on.
PhaseInv ==
  /\ reports \in Seq(HandedOver)
  /\ step \in {"build", "errors", "done"}
  /\ step # "done" => reports # << >>

\* The number of reports in the rows of the summary, and their entries.
NBuilt == IF step = "build" THEN Len(reports) - 1 ELSE Len(reports)
Counted == PairsUpTo(reports, NBuilt)

\* The totals of the first n reports.
TotalRequests(reps, n) == SumFunction([i \in 1..n |-> reps[i].total.requests])
TotalFailures(reps, n) == SumFunction([i \in 1..n |-> reps[i].total.failures])

\* The rows of the summary sum up the entries of the reports; both of its counts are
\* the number of requests in them, which is that of the totals of the reports.
SummaryInv ==
  /\ IsPairs(Counted) /\ RowsFor(summary.stats, Counted)
  /\ \A i, j \in DOMAIN summary.stats : i < j => summary.stats[i].name < summary.stats[j].name
  /\ summary.requests = RequestsOf(Counted) /\ summary.failures = FailuresOf(Counted)
  /\ summary.total.requests = RequestsOf(Counted) /\ summary.total.failures = FailuresOf(Counted)
  /\ RequestsOf(Counted) = TotalRequests(reports, NBuilt)
  /\ FailuresOf(Counted) = TotalFailures(reports, NBuilt)

\* There is a report to work on whenever an output is at work.
LEMMA PhaseHolds == Spec => []PhaseInv
<1>1. Init => PhaseInv
  BY DEF Init, PhaseInv
<1>2. PhaseInv /\ [Next]_vars => PhaseInv'
  <2>. SUFFICES ASSUME PhaseInv, [Next]_vars PROVE PhaseInv'
    OBVIOUS
  <2>1. CASE HandOver
    <3>1. PICK r \in Reports : reports' = Append(reports, Handed(r, Len(reports)))
      BY <2>1, Zenon DEF HandOver, Handed
    <3>2. Len(reports) \in Nat
      BY DEF PhaseInv
    <3>3. Handed(r, Len(reports)) \in HandedOver
      BY <3>2 DEF HandedOver
    <3>4. reports' \in Seq(HandedOver) /\ reports' # << >>
      BY <3>1, <3>3 DEF PhaseInv
    <3>. QED BY <2>1, <3>4 DEF HandOver, PhaseInv
  <2>2. CASE BuildAllStats
    BY <2>2 DEF BuildAllStats, PhaseInv
  <2>3. CASE Render \/ WriteFiles
    BY <2>3 DEF Render, WriteFiles, PhaseInv
  <2>4. CASE UNCHANGED <<reports, step>>
    BY <2>4 DEF PhaseInv
  <2>. QED BY <2>1, <2>2, <2>3, <2>4
        DEF Next, ConcurrentMapFault, PushGauges, MergeError, StartSerializing, Serialize,
            vars, outputVars, senderVars, fileVars
<1>. QED BY <1>1, <1>2, PTL DEF Spec

\* A total over one report more.
LEMMA TotalsGrow ==
  ASSUME NEW reps \in Seq(HandedOver), NEW n \in Nat, n + 1 <= Len(reps)
  PROVE  /\ TotalRequests(reps, 0) = 0 /\ TotalFailures(reps, 0) = 0
         /\ TotalRequests(reps, n + 1) = TotalRequests(reps, n) + reps[n + 1].total.requests
         /\ TotalFailures(reps, n + 1) = TotalFailures(reps, n) + reps[n + 1].total.failures
<1>1. \A i \in 1..(n + 1) : reps[i].total.requests \in Int /\ reps[i].total.failures \in Int
  <2>1. \A i \in 1..(n + 1) : reps[i] \in HandedOver
    OBVIOUS
  <2>2. \A h \in HandedOver : h.total.requests \in Int /\ h.total.failures \in Int
    BY HandedReports, ReportType
  <2>. QED BY <2>1, <2>2
<1>2. ASSUME NEW f, NEW g, DOMAIN f = 1..n, DOMAIN g = 1..(n + 1),
             \A i \in 1..n : f[i] \in Int /\ g[i] = f[i], g[n + 1] \in Int
      PROVE  SumFunction(g) = SumFunction(f) + g[n + 1]
  BY <1>2, SumExtend DEF SumFunction
<1>3. \A i \in 1..n : i \in 1..(n + 1)
  OBVIOUS
<1>4. n + 1 \in 1..(n + 1) /\ 1..0 = {}
  OBVIOUS
<1>5. TotalRequests(reps, n + 1) = TotalRequests(reps, n) + reps[n + 1].total.requests
  <2>. DEFINE f == [i \in 1..n |-> reps[i].total.requests]
              g == [i \in 1..(n + 1) |-> reps[i].total.requests]
  <2>1. /\ DOMAIN f = 1..n /\ DOMAIN g = 1..(n + 1) /\ g[n + 1] = reps[n + 1].total.requests
        /\ (\A i \in 1..n : f[i] \in Int /\ g[i] = f[i]) /\ g[n + 1] \in Int
    BY <1>1, <1>3, <1>4
  <2>. HIDE DEF f, g
  <2>2. SumFunction(g) = SumFunction(f) + g[n + 1]
    BY <1>2, <2>1
  <2>. QED BY <2>1, <2>2 DEF f, g, TotalRequests
<1>6. TotalFailures(reps, n + 1) = TotalFailures(reps, n) + reps[n + 1].total.failures
  <2>. DEFINE f == [i \in 1..n |-> reps[i].total.failures]
              g == [i \in 1..(n + 1) |-> reps[i].total.failures]
  <2>1. /\ DOMAIN f = 1..n /\ DOMAIN g = 1..(n + 1) /\ g[n + 1] = reps[n + 1].total.failures
        /\ (\A i \in 1..n : f[i] \in Int /\ g[i] = f[i]) /\ g[n + 1] \in Int
    BY <1>1, <1>3, <1>4
  <2>. HIDE DEF f, g
  <2>2. SumFunction(g) = SumFunction(f) + g[n + 1]
    BY <1>2, <2>1
  <2>. QED BY <2>1, <2>2 DEF f, g, TotalFailures
<1>7. TotalRequests(reps, 0) = 0 /\ TotalFailures(reps, 0) = 0
  <2>1. ASSUME NEW f, DOMAIN f = 1..0 PROVE SumFunction(f) = 0
    BY <1>4, <2>1, SumEmpty DEF SumFunction
  <2>. DEFINE f == [i \in 1..0 |-> reps[i].total.requests]
              g == [i \in 1..0 |-> reps[i].total.failures]
  <2>2. DOMAIN f = 1..0 /\ DOMAIN g = 1..0
    OBVIOUS
  <2>. HIDE DEF f, g
  <2>3. SumFunction(f) = 0 /\ SumFunction(g) = 0
    BY <2>1, <2>2
  <2>. QED BY <2>3 DEF f, g, TotalRequests, TotalFailures
<1>. QED BY <1>5, <1>6, <1>7

\* What is true of the counted entries stays so when nothing else is counted.
LEMMA SummarySame ==
  ASSUME PhaseInv, SummaryInv, UNCHANGED summary, NBuilt' = NBuilt,
         \A i \in 1..NBuilt : reports'[i] = reports[i]
  PROVE  SummaryInv'
<1>1. NBuilt \in Nat
  BY DEF PhaseInv, NBuilt
<1>2. Counted' = Counted
  <2>1. PairsUpTo(reports', NBuilt) = PairsUpTo(reports, NBuilt)
    BY <1>1, PairsSame
  <2>. QED BY <2>1 DEF Counted
<1>3. /\ TotalRequests(reports', NBuilt) = TotalRequests(reports, NBuilt)
      /\ TotalFailures(reports', NBuilt) = TotalFailures(reports, NBuilt)
  <2>1. [i \in 1..NBuilt |-> reports'[i].total.requests] =
          [i \in 1..NBuilt |-> reports[i].total.requests]
    OBVIOUS
  <2>2. [i \in 1..NBuilt |-> reports'[i].total.failures] =
          [i \in 1..NBuilt |-> reports[i].total.failures]
    OBVIOUS
  <2>. QED BY <2>1, <2>2, Zenon DEF TotalRequests, TotalFailures
<1>. HIDE DEF Counted, NBuilt
<1>. QED BY <1>2, <1>3 DEF SummaryInv

\* The items of buildAllStats: every entry of the report once.
LEMMA CurrentItems ==
  ASSUME NEW r, IsReport(r), NEW items \in ConvertData(r)
  PROVE  \E ent : Orders(ent, r.stats, SortOutput(items))
<1>1. PICK ent : Orders(ent, r.stats, items)
  BY ConvertOrders
<1>. QED BY <1>1, SortOrders

\* buildAllStats adds the entries of the report.
LEMMA BuildKeepsSummary ==
  ASSUME PhaseInv, SummaryInv, BuildAllStats
  PROVE  SummaryInv'
<1>. DEFINE n == Len(reports) - 1
            r == Last(reports)
            X == Counted
            Y == X \cup PairsOf(n + 1, r.stats)
<1>1. /\ n \in Nat /\ Len(reports) = n + 1 /\ r = reports[n + 1] /\ r \in HandedOver
      /\ NBuilt = n /\ NBuilt' = n + 1 /\ reports' = reports /\ reports \in Seq(HandedOver)
  BY DEF PhaseInv, BuildAllStats, NBuilt, Last
<1>2. IsReport(r)
  BY <1>1, HandedReports
<1>3. /\ X = PairsUpTo(reports, n) /\ Counted' = PairsUpTo(reports, n + 1)
  BY <1>1 DEF Counted
<1>4. PICK items \in ConvertData(r) :
        summary' = Totals(SortOutput(AddRows(summary.stats, SortOutput(items))), r.total)
  BY DEF BuildAllStats
<1>. DEFINE current == SortOutput(items)
            added == AddRows(summary.stats, current)
            stats == SortOutput(added)
<1>5. PICK ent : Orders(ent, r.stats, current)
  BY <1>2, CurrentItems
<1>. HIDE DEF n, r, X, current, added, stats
<1>6. Counted' = Y /\ \A e : <<n + 1, e>> \notin X
  BY <1>1, <1>3, PairsGrow
<1>7. IsPairs(X) /\ RowsFor(summary.stats, X)
  BY DEF SummaryInv, X
<1>8. RowsFor(added, Y)
  <2>1. \A e \in r.stats : IsEntry(e)
    BY <1>2, ReportType
  <2>. QED BY <1>5, <1>6, <1>7, <2>1, AddRowsAdds DEF added
<1>. HIDE DEF Y
<1>9. RowsFor(stats, Y) /\ \A i, j \in DOMAIN stats : i < j => stats[i].name < stats[j].name
  BY <1>8, SortKeepsRows DEF stats
<1>10. /\ summary'.stats = stats
       /\ summary'.requests = Requests(stats) /\ summary'.failures = Failures(stats)
       /\ summary'.total.requests = summary.total.requests + r.total.requests
       /\ summary'.total.failures = summary.total.failures + r.total.failures
  <2>1. summary' = Totals(stats, r.total)
    BY <1>4 DEF stats, added, current
  <2>. QED BY <2>1 DEF Totals
<1>11. /\ IsPairs(Y)
       /\ RequestsOf(Y) = RequestsOf(X) + r.total.requests
       /\ FailuresOf(Y) = FailuresOf(X) + r.total.failures
  BY <1>2, <1>6, <1>7, OneReportMore DEF Y
<1>12. /\ summary.total.requests = RequestsOf(X) /\ summary.total.failures = FailuresOf(X)
       /\ RequestsOf(X) = TotalRequests(reports, n) /\ FailuresOf(X) = TotalFailures(reports, n)
  BY <1>1 DEF SummaryInv, X
<1>13. /\ TotalRequests(reports, n + 1) = TotalRequests(reports, n) + r.total.requests
       /\ TotalFailures(reports, n + 1) = TotalFailures(reports, n) + r.total.failures
  <2>1. n + 1 <= Len(reports) /\ n \in Nat /\ reports \in Seq(HandedOver)
    BY <1>1
  <2>. QED BY <1>1, <2>1, TotalsGrow
<1>14. Requests(stats) = RequestsOf(Y) /\ Failures(stats) = FailuresOf(Y)
  BY <1>9 DEF RowsFor
<1>15. /\ Counted' = Y /\ NBuilt' = n + 1 /\ reports' = reports
  BY <1>1, <1>6
<1>. HIDE DEF Counted, NBuilt
<1>. QED BY <1>9, <1>10, <1>11, <1>12, <1>13, <1>14, <1>15 DEF SummaryInv

\* The invariant of the summary holds.
LEMMA SummaryHolds == Spec => []SummaryInv
<1>1. Init => SummaryInv
  <2>. SUFFICES ASSUME Init PROVE SummaryInv
    OBVIOUS
  <2>1. /\ reports = << >> /\ NBuilt = 0 /\ summary.stats = << >> /\ summary.requests = 0
        /\ summary.failures = 0 /\ summary.total.requests = 0 /\ summary.total.failures = 0
    BY DEF Init, NBuilt, NoSummary
  <2>2. Counted = {}
    BY <2>1, PairsGrow DEF Counted
  <2>3. IsPairs({}) /\ RequestsOf({}) = 0 /\ FailuresOf({}) = 0
    BY NoPairs
  <2>4. Requests(<< >>) = 0 /\ Failures(<< >>) = 0
    <3>. DEFINE s == << >>
                f == [i \in DOMAIN s |-> s[i].requests]
                g == [i \in DOMAIN s |-> s[i].failures]
    <3>1. DOMAIN f = {} /\ DOMAIN g = {}
      OBVIOUS
    <3>. HIDE DEF f, g
    <3>2. SumFunction(f) = 0 /\ SumFunction(g) = 0
      BY <3>1, SumEmpty DEF SumFunction
    <3>. QED BY <3>2 DEF f, g, Requests, Failures
  <2>5. RowsFor(<< >>, {})
    BY <2>3, <2>4 DEF RowsFor
  <2>6. TotalRequests(reports, 0) = 0 /\ TotalFailures(reports, 0) = 0
    <3>. DEFINE f == [i \in 1..0 |-> reports[i].total.requests]
                g == [i \in 1..0 |-> reports[i].total.failures]
    <3>1. DOMAIN f = {} /\ DOMAIN g = {}
      OBVIOUS
    <3>. HIDE DEF f, g
    <3>2. SumFunction(f) = 0 /\ SumFunction(g) = 0
      BY <3>1, SumEmpty DEF SumFunction
    <3>. QED BY <3>2 DEF f, g, TotalRequests, TotalFailures
  <2>. QED BY <2>1, <2>2, <2>3, <2>5, <2>6 DEF SummaryInv
<1>2. PhaseInv /\ SummaryInv /\ [Next]_vars => SummaryInv'
  <2>. SUFFICES ASSUME PhaseInv, SummaryInv, [Next]_vars PROVE SummaryInv'
    OBVIOUS
  <2>1. CASE HandOver
    <3>1. PICK r \in Reports : reports' = Append(reports, Handed(r, Len(reports)))
      BY <2>1, Zenon DEF HandOver, Handed
    <3>2. reports \in Seq(HandedOver)
      BY DEF PhaseInv
    <3>3. NBuilt = Len(reports) /\ NBuilt' = Len(reports)
      BY <2>1, <3>1, <3>2 DEF HandOver, NBuilt
    <3>4. \A i \in 1..NBuilt : reports'[i] = reports[i]
      BY <3>1, <3>2, <3>3
    <3>5. UNCHANGED summary
      BY <2>1 DEF HandOver
    <3>. QED BY <3>3, <3>4, <3>5, SummarySame
  <2>2. CASE BuildAllStats
    BY <2>2, BuildKeepsSummary
  <2>3. CASE UNCHANGED <<reports, summary>> /\ NBuilt' = NBuilt
    BY <2>3, SummarySame
  <2>4. CASE Render \/ WriteFiles
    BY <2>3, <2>4 DEF Render, WriteFiles, NBuilt
  <2>5. CASE UNCHANGED <<reports, summary, step>>
    BY <2>3, <2>5 DEF NBuilt
  <2>. QED BY <2>1, <2>2, <2>4, <2>5
        DEF Next, ConcurrentMapFault, PushGauges, MergeError, StartSerializing, Serialize,
            vars, outputVars, senderVars, fileVars
<1>. QED BY <1>1, <1>2, PhaseHolds, PTL DEF Spec

\* The two counts of the requests that the summary keeps, and those of the failures,
\* agree with each other and with the totals of the reports that were built in,
\* whatever the reports are: buildAllStats adds one of them up from the rows and the
\* other one from the totals.
THEOREM TotalsAlwaysAgree == Spec => []TotalsAgree
<1>1. SummaryInv => TotalsAgree
  BY DEF SummaryInv, TotalsAgree, Built, NBuilt, TotalRequests, TotalFailures
<1>. QED BY <1>1, SummaryHolds, PTL

\* The entries of a name are the counted pairs of that name.
LEMMA EntriesCounted == \A name : Entries(name) = Of(Counted, name)
BY DEF Entries, Of, Counted, PairsUpTo, Built, NBuilt

\* A row of the summary.
LEMMA SummaryRow ==
  ASSUME SummaryInv, NEW a \in ToSet(summary.stats)
  PROVE  a \in Row /\ Summarizes(a, Entries(a.name)) /\ Entries(a.name) # {}
<1>1. PICK i \in DOMAIN summary.stats : a = summary.stats[i]
  BY DEF ToSet
<1>2. RowsFor(summary.stats, Counted)
  BY DEF SummaryInv
<1>3. a \in Row /\ Summarizes(a, Of(Counted, a.name)) /\ Of(Counted, a.name) # {}
  <2>. DEFINE s == summary.stats
  <2>. HIDE DEF s
  <2>1. RowsFor(s, Counted) /\ i \in DOMAIN s /\ a = s[i]
    BY <1>1, <1>2 DEF s
  <2>2. s \in Seq(Row)
    BY <2>1 DEF RowsFor
  <2>. QED BY <2>1, <2>2 DEF RowsFor
<1>. QED BY <1>3, EntriesCounted

\* The position that a median or a percentile asks for, among all entries.
LEMMA PositionInEntries ==
  ASSUME NEW a \in Row, NEW name, Summarizes(a, Entries(name)), NEW pos \in Nat, pos < a.requests
  PROVE  IsAtPosition(AtPosition(pos, a.times), pos, name)
<1>. DEFINE v == AtPosition(pos, a.times)
<1>1. IsTimes(a.times) /\ SumFunction(a.times) = a.requests
  BY TimesAreCounts DEF Row, Summarizes
<1>2. v \in Nat /\ UpTo(a.times, v - 1) <= pos /\ UpTo(a.times, v) > pos
  BY <1>1, AtPositionCorrect
<1>3. \A t \in Int : UpTo(a.times, t) = UpToOf(Entries(name), t)
  BY DEF Summarizes
<1>. HIDE DEF v
<1>4. UpToOf(Entries(name), v - 1) <= pos /\ UpToOf(Entries(name), v) > pos
  BY <1>2, <1>3
<1>. QED BY <1>4 DEF v, UpToOf, IsAtPosition

\* The median and the percentiles in the summary are those of all the requests that
\* the reports counted, whatever the reports are and however often their counts were
\* merged: the walk over the sorted times always ends at the request that was asked
\* for, and never falls through to 0.
THEOREM PercentilesAlwaysCorrect == Spec => []PercentilesCorrect
<1>1. SummaryInv => PercentilesCorrect
  <2>. SUFFICES ASSUME SummaryInv, NEW a \in ToSet(summary.stats)
                PROVE  /\ IsAtPosition(a.median, (a.requests - 1) \div 2, a.name)
                       /\ IsAtPosition(a.percent, ((a.requests - 1) * Percent) \div 100, a.name)
                       /\ IsAtPosition(a.p95, ((a.requests - 1) * 95) \div 100, a.name)
    BY DEF PercentilesCorrect
  <2>1. a \in Row /\ Summarizes(a, Entries(a.name))
    BY SummaryRow
  <2>2. a.requests \in Nat \ {0}
    BY <2>1 DEF Row
  <2>3. Percent \in 0..100 /\ 95 \in 0..100
    BY ReportAssumption
  <2>4. /\ a.median = AtPosition((a.requests - 1) \div 2, a.times)
        /\ a.percent = AtPosition(((a.requests - 1) * Percent) \div 100, a.times)
        /\ a.p95 = AtPosition(((a.requests - 1) * 95) \div 100, a.times)
    BY <2>1 DEF Summarizes, GetMedianResponseTime, GetPercentResponseTime
  <2>5. IsAtPosition(a.median, (a.requests - 1) \div 2, a.name)
    <3>. DEFINE pos == (a.requests - 1) \div 2
    <3>1. pos \in Nat /\ pos < a.requests
      BY <2>2, <2>3, Positions
    <3>2. a.median = AtPosition(pos, a.times)
      BY <2>4
    <3>. HIDE DEF pos
    <3>3. IsAtPosition(a.median, pos, a.name)
      BY <2>1, <3>1, <3>2, PositionInEntries
    <3>. QED BY <3>3 DEF pos
  <2>6. IsAtPosition(a.percent, ((a.requests - 1) * Percent) \div 100, a.name)
    <3>. DEFINE pos == ((a.requests - 1) * Percent) \div 100
    <3>1. pos \in Nat /\ pos < a.requests
      BY <2>2, <2>3, Positions
    <3>2. a.percent = AtPosition(pos, a.times)
      BY <2>4
    <3>. HIDE DEF pos
    <3>3. IsAtPosition(a.percent, pos, a.name)
      BY <2>1, <3>1, <3>2, PositionInEntries
    <3>. QED BY <3>3 DEF pos
  <2>7. IsAtPosition(a.p95, ((a.requests - 1) * 95) \div 100, a.name)
    <3>. DEFINE pos == ((a.requests - 1) * 95) \div 100
    <3>1. pos \in Nat /\ pos < a.requests
      BY <2>2, <2>3, Positions
    <3>2. a.p95 = AtPosition(pos, a.times)
      BY <2>4
    <3>. HIDE DEF pos
    <3>3. IsAtPosition(a.p95, pos, a.name)
      BY <2>1, <3>1, <3>2, PositionInEntries
    <3>. QED BY <3>3 DEF pos
  <2>. QED BY <2>5, <2>6, <2>7
<1>. QED BY <1>1, SummaryHolds, PTL

\* The smallest and the largest of a set of numbers.
LEMMA MinMaxIs ==
  ASSUME NEW S, S \subseteq Nat, NEW m \in S
  PROVE  /\ (\A y \in S : m <= y) => Min(S) = m
         /\ (\A y \in S : m >= y) => Max(S) = m
<1>1. ASSUME \A y \in S : m <= y PROVE Min(S) = m
  <2>1. \A x \in S : (\A y \in S : x <= y) => x = m
    BY <1>1
  <2>. QED BY <1>1, <2>1 DEF Min
<1>2. ASSUME \A y \in S : m >= y PROVE Max(S) = m
  <2>1. \A x \in S : (\A y \in S : x >= y) => x = m
    BY <1>2
  <2>. QED BY <1>2, <2>1 DEF Max
<1>. QED BY <1>1, <1>2

\* The rows of the summary: what SummaryAccurate says of them.
RowsAccurate ==
  /\ \A i, j \in DOMAIN summary.stats : i < j => summary.stats[i].name < summary.stats[j].name
  /\ {a.name : a \in ToSet(summary.stats)} = Names
  /\ \A a \in ToSet(summary.stats) :
       LET all == Entries(a.name) IN
         /\ a.requests = SumFunction([x \in all |-> x[2].requests])
         /\ a.failures = SumFunction([x \in all |-> x[2].failures])
         /\ a.time = SumFunction([x \in all |-> x[2].time])
         /\ a.min = Min({x[2].min : x \in all}) /\ a.max = Max({x[2].max : x \in all})
         /\ a.secs = UNION {x[2].secs : x \in all}

\* The rows of the summary say what SummaryAccurate asks of them.
LEMMA RowsAreAccurate == SummaryInv => RowsAccurate
<1>. SUFFICES ASSUME SummaryInv PROVE RowsAccurate
  OBVIOUS
<1>1. \A i, j \in DOMAIN summary.stats : i < j => summary.stats[i].name < summary.stats[j].name
  BY DEF SummaryInv
<1>2. {a.name : a \in ToSet(summary.stats)} = Names
  <2>1. ASSUME NEW a \in ToSet(summary.stats) PROVE a.name \in Names
    <3>1. PICK x \in Entries(a.name) : TRUE
      BY SummaryRow
    <3>. QED BY <3>1 DEF Entries, Names
  <2>2. ASSUME NEW i \in Built, NEW e \in reports[i].stats
        PROVE  \E a \in ToSet(summary.stats) : a.name = e.name
    <3>. DEFINE x == <<i, e>>
    <3>1. x \in Counted /\ x[2] = e
      BY DEF Counted, PairsUpTo, Built, NBuilt
    <3>. HIDE DEF x
    <3>2. PICK j \in DOMAIN summary.stats : summary.stats[j].name = x[2].name
      BY <3>1 DEF SummaryInv, RowsFor
    <3>. QED BY <3>1, <3>2 DEF ToSet
  <2>3. ASSUME NEW name \in Names PROVE \E a \in ToSet(summary.stats) : a.name = name
    <3>1. PICK i \in Built : \E e \in reports[i].stats : name = e.name
      BY DEF Names
    <3>. QED BY <2>2, <3>1
  <2>. QED BY <2>1, <2>3
<1>3. ASSUME NEW a \in ToSet(summary.stats)
      PROVE  LET all == Entries(a.name) IN
               /\ a.requests = SumFunction([x \in all |-> x[2].requests])
               /\ a.failures = SumFunction([x \in all |-> x[2].failures])
               /\ a.time = SumFunction([x \in all |-> x[2].time])
               /\ a.min = Min({x[2].min : x \in all}) /\ a.max = Max({x[2].max : x \in all})
               /\ a.secs = UNION {x[2].secs : x \in all}
  <2>. DEFINE all == Entries(a.name)
              mins == {x[2].min : x \in all}
              maxs == {x[2].max : x \in all}
  <2>1. Summarizes(a, all)
    BY SummaryRow
  <2>2. \A x \in all : IsEntry(x[2])
    BY EntriesCounted DEF SummaryInv, IsPairs, Of
  <2>. HIDE DEF all
  <2>3. \A x \in all : x[2].min \in Nat /\ x[2].max \in Nat
    BY <2>2, EntryType
  <2>4. a.min = Min(mins)
    <3>1. mins \subseteq Nat
      BY <2>3
    <3>2. a.min \in mins /\ \A y \in mins : a.min <= y
      BY <2>1 DEF Summarizes
    <3>. HIDE DEF mins
    <3>. QED BY <3>1, <3>2, MinMaxIs
  <2>5. a.max = Max(maxs)
    <3>1. maxs \subseteq Nat
      BY <2>3
    <3>2. a.max \in maxs /\ \A y \in maxs : a.max >= y
      BY <2>1 DEF Summarizes
    <3>. HIDE DEF maxs
    <3>. QED BY <3>1, <3>2, MinMaxIs
  <2>6. /\ a.requests = SumFunction([x \in all |-> x[2].requests])
        /\ a.failures = SumFunction([x \in all |-> x[2].failures])
        /\ a.time = SumFunction([x \in all |-> x[2].time])
        /\ a.secs = UNION {x[2].secs : x \in all}
    BY <2>1, Zenon DEF Summarizes, RequestsOf, FailuresOf, TimeOf
  <2>. QED BY <2>4, <2>5, <2>6, Zenon DEF all
<1>. QED BY <1>1, <1>2, <1>3, Zenon DEF RowsAccurate

(***************************************************************************)
(* The errors: who owns which map, and what is in it                       *)
(***************************************************************************)

\* The maps of errors.
Key == UNION {DOMAIN r.errors : r \in Reports}
Maps == UNION {[D -> Nat] : D \in SUBSET Key}

\* How often report i names error k, and how often the first m reports do.
Occ(reps, i, k) == IF k \in DOMAIN reps[i].errors THEN reps[i].errors[k] ELSE 0
Errs(reps, m, k) == SumFunction([i \in 1..m |-> Occ(reps, i, k)])

\* The number of reports that are merged for error k.
NMerged(k) == IF step = "build" \/ k \in todo THEN Len(reports) - 1 ELSE Len(reports)

\* Of the first m reports, o is the first with error k.
FirstWith(reps, m, k, o) ==
  /\ o \in 1..m /\ k \in DOMAIN reps[o].errors
  /\ \A j \in 1..m : k \in DOMAIN reps[j].errors => o <= j

\* The summary holds the map of the first report with an error, and this map counts
\* all the reports that are merged; the maps of the others are as collected.
KeyInv(reps, es, own, m, k) ==
  /\ k \in DOMAIN own <=> \E i \in 1..m : k \in DOMAIN reps[i].errors
  /\ k \in DOMAIN own => FirstWith(reps, m, k, own[k])
  /\ \A i \in 1..Len(reps) : k \in DOMAIN reps[i].errors =>
       es[i][k] = IF k \in DOMAIN own /\ own[k] = i THEN Errs(reps, m, k) ELSE reps[i].errors[k]

ErrorTypeInv ==
  /\ errs \in Seq(Maps) /\ Len(errs) = Len(reports)
  /\ \A i \in 1..Len(reports) : DOMAIN errs[i] = DOMAIN reports[i].errors
  /\ step = "errors" => todo \subseteq DOMAIN reports[Len(reports)].errors
  /\ step # "errors" => todo = {}

ErrorInv == ErrorTypeInv /\ \A k : KeyInv(reports, errs, owner, NMerged(k), k)

\* Occurrences of an error are natural numbers.
LEMMA OccType ==
  ASSUME NEW reps \in Seq(HandedOver), NEW i \in 1..Len(reps), NEW k
  PROVE  Occ(reps, i, k) \in Nat /\ (Occ(reps, i, k) = 0 <=> k \notin DOMAIN reps[i].errors)
<1>1. reps[i] \in HandedOver
  OBVIOUS
<1>2. IsCount(reps[i].errors)
  BY <1>1, HandedReports, ReportType
<1>. QED BY <1>2 DEF Occ, IsCount

\* One report more is merged.
LEMMA ErrsGrow ==
  ASSUME NEW reps \in Seq(HandedOver), NEW m \in Nat, m + 1 <= Len(reps), NEW k
  PROVE  /\ Errs(reps, m + 1, k) = Errs(reps, m, k) + Occ(reps, m + 1, k)
         /\ Errs(reps, m, k) \in Nat
<1>. DEFINE f == [i \in 1..m |-> Occ(reps, i, k)]
            g == [i \in 1..(m + 1) |-> Occ(reps, i, k)]
<1>1. \A i \in 1..(m + 1) : Occ(reps, i, k) \in Nat
  BY OccType
<1>2. /\ DOMAIN f = 1..m /\ DOMAIN g = 1..(m + 1) /\ g[m + 1] = Occ(reps, m + 1, k)
      /\ g[m + 1] \in Int /\ \A i \in 1..m : f[i] \in Nat /\ f[i] \in Int /\ g[i] = f[i]
  BY <1>1
<1>. HIDE DEF f, g
<1>3. SumFunctionOnSet(g, 1..(m + 1)) = SumFunctionOnSet(f, 1..m) + g[m + 1]
  BY <1>2, SumExtend
<1>4. SumFunctionOnSet(f, 1..m) \in Nat
  BY <1>2, SumNat, FinitePositions
<1>. QED BY <1>2, <1>3, <1>4 DEF f, g, Errs, SumFunction

\* A sum of occurrences: every one counts, and reports without the error do not.
LEMMA ErrsBounds ==
  ASSUME NEW reps \in Seq(HandedOver), NEW m \in 0..Len(reps), NEW k
  PROVE  /\ Errs(reps, m, k) \in Nat
         /\ \A i \in 1..m : Occ(reps, i, k) <= Errs(reps, m, k)
         /\ \A l \in 0..m : Errs(reps, l, k) <= Errs(reps, m, k)
         /\ \A o \in 1..m : (\A j \in 1..m : j # o => k \notin DOMAIN reps[j].errors)
                              => Errs(reps, m, k) = Occ(reps, o, k)
         /\ (\A j \in 1..m : k \notin DOMAIN reps[j].errors) => Errs(reps, m, k) = 0
<1>. DEFINE f == [i \in 1..m |-> Occ(reps, i, k)]
            D == 1..m
<1>1. \A i \in D : Occ(reps, i, k) \in Nat /\ (k \notin DOMAIN reps[i].errors => Occ(reps, i, k) = 0)
  BY OccType
<1>2. DOMAIN f = D /\ \A i \in D : f[i] = Occ(reps, i, k) /\ f[i] \in Nat /\ f[i] \in Int
  BY <1>1
<1>3. IsFiniteSet(D)
  BY FinitePositions
<1>4. Errs(reps, m, k) = SumFunctionOnSet(f, D)
  BY <1>2 DEF Errs, SumFunction
<1>5. ASSUME NEW l \in 0..m PROVE Errs(reps, l, k) <= Errs(reps, m, k)
  <2>. DEFINE h == [i \in 1..l |-> Occ(reps, i, k)]
              L == 1..l
  <2>1. L \in SUBSET D /\ DOMAIN h = L /\ IsFiniteSet(L) /\ \A i \in L : h[i] \in Int /\ h[i] = f[i]
    BY <1>1, FinitePositions
  <2>. HIDE DEF f, h, L, D
  <2>2. SumFunctionOnSet(h, L) = SumFunctionOnSet(f, L)
    BY <2>1, SumSame
  <2>3. SumFunctionOnSet(f, L) <= SumFunctionOnSet(f, D)
    BY <1>2, <1>3, <2>1, SumSubset
  <2>4. Errs(reps, l, k) = SumFunctionOnSet(h, L)
    BY <2>1 DEF Errs, SumFunction, h, L
  <2>. QED BY <1>4, <2>2, <2>3, <2>4
<1>. HIDE DEF f
<1>6. /\ SumFunctionOnSet(f, D) \in Nat
      /\ \A i \in D : f[i] <= SumFunctionOnSet(f, D)
  <2>. HIDE DEF D
  <2>. QED BY <1>2, <1>3, SumNat
<1>7. ASSUME NEW o \in D, \A j \in D : j # o => k \notin DOMAIN reps[j].errors
      PROVE  Errs(reps, m, k) = Occ(reps, o, k)
  <2>1. \A i \in D \ {o} : f[i] = 0
    BY <1>1, <1>2, <1>7
  <2>. HIDE DEF D
  <2>2. SumFunctionOnSet(f, D) = SumFunctionOnSet(f, {o})
    BY <1>2, <1>3, <2>1, SumSupport
  <2>3. SumFunctionOnSet(f, {o}) = f[o]
    <3>. DEFINE E == {o} \ {o}
    <3>1. SumFunctionOnSet(f, {o}) = f[o] + SumFunctionOnSet(f, E)
      BY <1>2, FS_Singleton, SumRemove
    <3>2. E = {}
      OBVIOUS
    <3>. HIDE DEF E
    <3>3. SumFunctionOnSet(f, E) = 0
      BY <3>2, SumEmpty
    <3>. QED BY <1>2, <3>1, <3>3
  <2>. QED BY <1>2, <1>4, <2>2, <2>3
<1>8. ASSUME \A j \in D : k \notin DOMAIN reps[j].errors PROVE Errs(reps, m, k) = 0
  <2>1. \A i \in D : f[i] = 0
    BY <1>1, <1>2, <1>8
  <2>. HIDE DEF D
  <2>. QED BY <1>3, <1>4, <2>1, SumZero
<1>. QED BY <1>2, <1>4, <1>5, <1>6, <1>7, <1>8

\* Only the first m reports matter.
LEMMA ErrsSame ==
  ASSUME NEW r1, NEW r2, NEW m \in Nat, \A i \in 1..m : r1[i] = r2[i], NEW k
  PROVE  Errs(r1, m, k) = Errs(r2, m, k)
<1>1. [i \in 1..m |-> Occ(r1, i, k)] = [i \in 1..m |-> Occ(r2, i, k)]
  BY DEF Occ
<1>. QED BY <1>1, Zenon DEF Errs

\* A report handed over brings its own map.
LEMMA HandOverKeepsErrors ==
  ASSUME PhaseInv, ErrorInv, HandOver
  PROVE  ErrorInv'
<1>. DEFINE n == Len(reports)
<1>1. PICK r \in Reports : /\ reports' = Append(reports, Handed(r, n))
                           /\ errs' = Append(errs, r.errors)
  BY Zenon DEF HandOver, Handed
<1>2. reports \in Seq(HandedOver) /\ n \in Nat /\ Len(errs) = n /\ errs \in Seq(Maps)
  BY DEF PhaseInv, ErrorInv, ErrorTypeInv
<1>3. step = "done" /\ step' = "build" /\ todo = {} /\ todo' = {} /\ owner' = owner
  BY DEF HandOver, ErrorInv, ErrorTypeInv
<1>4. Handed(r, n).errors = r.errors /\ IsReport(Handed(r, n))
  BY <1>2, HandedIsReport
<1>5. r.errors \in Maps
  <2>1. IsCount(r.errors)
    BY <1>4, ReportType
  <2>2. DOMAIN r.errors \in SUBSET Key /\ r.errors \in [DOMAIN r.errors -> Nat]
    BY <2>1 DEF Key, IsCount
  <2>. QED BY <2>2 DEF Maps
<1>. HIDE DEF n
<1>6. /\ Len(reports') = n + 1 /\ reports'[n + 1] = Handed(r, n)
      /\ \A i \in 1..n : reports'[i] = reports[i]
  BY <1>1, <1>2 DEF n
<1>7. /\ errs' \in Seq(Maps) /\ Len(errs') = n + 1 /\ errs'[n + 1] = r.errors
      /\ \A i \in 1..n : errs'[i] = errs[i]
  BY <1>1, <1>2, <1>5
<1>8. \A i \in 1..(n + 1) : i \in 1..n \/ i = n + 1
  BY <1>2
<1>9. ErrorTypeInv'
  <2>1. \A i \in 1..n : DOMAIN errs[i] = DOMAIN reports[i].errors
    BY DEF ErrorInv, ErrorTypeInv, n
  <2>2. ASSUME NEW i \in 1..(n + 1) PROVE DOMAIN errs'[i] = DOMAIN reports'[i].errors
    BY <1>4, <1>6, <1>7, <1>8, <2>1
  <2>. QED BY <1>3, <1>6, <1>7, <2>2 DEF ErrorTypeInv
<1>10. ASSUME NEW k PROVE KeyInv(reports', errs', owner', NMerged(k)', k)
  <2>1. NMerged(k) = n /\ NMerged(k)' = n
    BY <1>2, <1>3, <1>6 DEF NMerged, n
  <2>2. KeyInv(reports, errs, owner, n, k)
    BY <2>1 DEF ErrorInv
  <2>3. Errs(reports', n, k) = Errs(reports, n, k)
    BY <1>2, <1>6, ErrsSame
  <2>4. k \in DOMAIN owner <=> \E i \in 1..n : k \in DOMAIN reports'[i].errors
    BY <1>6, <2>2 DEF KeyInv
  <2>5. k \in DOMAIN owner => FirstWith(reports', n, k, owner[k])
    BY <1>6, <2>2 DEF KeyInv, FirstWith
  <2>6. ASSUME NEW i \in 1..(n + 1), k \in DOMAIN reports'[i].errors
        PROVE  errs'[i][k] = IF k \in DOMAIN owner /\ owner[k] = i THEN Errs(reports', n, k)
                             ELSE reports'[i].errors[k]
    <3>1. CASE i \in 1..n
      <4>1. i \in 1..Len(reports) /\ reports'[i] = reports[i] /\ errs'[i] = errs[i]
        BY <1>6, <1>7, <3>1 DEF n
      <4>. QED BY <2>2, <2>3, <2>6, <4>1 DEF KeyInv
    <3>2. CASE i = n + 1
      <4>1. ~(k \in DOMAIN owner /\ owner[k] = i)
        BY <1>2, <2>2, <3>2 DEF KeyInv, FirstWith
      <4>2. errs'[i] = reports'[i].errors
        BY <1>4, <1>6, <1>7, <3>2
      <4>. QED BY <4>1, <4>2
    <3>. QED BY <1>8, <3>1, <3>2
  <2>7. Len(reports') = n + 1 /\ owner' = owner
    BY <1>3, <1>6
  <2>8. KeyInv(reports', errs', owner', n, k)
    BY <2>4, <2>5, <2>6, <2>7 DEF KeyInv
  <2>. QED BY <2>1, <2>8
<1>. QED BY <1>9, <1>10 DEF ErrorInv

\* buildAllStats starts on the errors: none of the report's own is merged yet.
LEMMA BuildKeepsErrors ==
  ASSUME PhaseInv, ErrorInv, BuildAllStats
  PROVE  ErrorInv'
<1>. DEFINE n == Len(reports) - 1
<1>1. /\ reports \in Seq(HandedOver) /\ n \in Nat /\ Len(reports) = n + 1
      /\ step = "build" /\ step' = "errors" /\ todo' = DOMAIN reports[n + 1].errors
      /\ reports' = reports /\ errs' = errs /\ owner' = owner
  BY DEF PhaseInv, BuildAllStats, Last
<1>2. ErrorTypeInv'
  BY <1>1 DEF ErrorInv, ErrorTypeInv
<1>3. ASSUME NEW k PROVE KeyInv(reports, errs, owner, NMerged(k)', k)
  <2>1. KeyInv(reports, errs, owner, n, k)
    BY <1>1 DEF ErrorInv, NMerged
  <2>2. CASE k \in todo'
    <3>1. NMerged(k)' = n
      BY <1>1, <2>2 DEF NMerged
    <3>. QED BY <2>1, <3>1
  <2>3. CASE k \notin todo'
    <3>1. NMerged(k)' = n + 1 /\ k \notin DOMAIN reports[n + 1].errors
      BY <1>1, <2>3 DEF NMerged
    <3>2. \A i \in 1..(n + 1) : i \in 1..n \/ i = n + 1
      <4>1. n \in Nat
        BY <1>1
      <4>. HIDE DEF n
      <4>. QED BY <4>1
    <3>3. \A i \in 1..n : i \in 1..(n + 1)
      BY <1>1
    <3>4. Errs(reports, n + 1, k) = Errs(reports, n, k)
      <4>1. n + 1 <= Len(reports) /\ Occ(reports, n + 1, k) = 0
        BY <1>1, <3>1 DEF Occ
      <4>2. /\ Errs(reports, n + 1, k) = Errs(reports, n, k) + Occ(reports, n + 1, k)
            /\ Errs(reports, n, k) \in Nat
        BY <1>1, <4>1, ErrsGrow
      <4>. QED BY <4>1, <4>2
    <3>5. k \in DOMAIN owner => FirstWith(reports, n + 1, k, owner[k])
      BY <2>1, <3>1, <3>2, <3>3 DEF KeyInv, FirstWith
    <3>6. k \in DOMAIN owner <=> \E i \in 1..(n + 1) : k \in DOMAIN reports[i].errors
      BY <2>1, <3>1, <3>2, <3>3 DEF KeyInv
    <3>7. KeyInv(reports, errs, owner, n + 1, k)
      BY <2>1, <3>4, <3>5, <3>6 DEF KeyInv
    <3>. QED BY <3>1, <3>7
  <2>. QED BY <2>2, <2>3
<1>4. ErrorInv' <=> ErrorTypeInv' /\ \A k : KeyInv(reports, errs, owner, NMerged(k)', k)
  BY <1>1 DEF ErrorInv
<1>. QED BY <1>2, <1>3, <1>4

\* One error is merged.
LEMMA MergeKeepsErrors ==
  ASSUME PhaseInv, ErrorInv, NEW e \in todo, MergeError(e)
  PROVE  ErrorInv'
<1>. DEFINE n == Len(reports) - 1
<1>1. /\ reports \in Seq(HandedOver) /\ n \in Nat /\ Len(reports) = n + 1
      /\ step = "errors" /\ step' = "errors" /\ todo' = todo \ {e} /\ reports' = reports
      /\ errs \in Seq(Maps) /\ Len(errs) = n + 1 /\ DOMAIN errs = 1..(n + 1)
      /\ e \in DOMAIN reports[n + 1].errors /\ n + 1 \in 1..(n + 1)
      /\ \A i \in 1..(n + 1) : DOMAIN errs[i] = DOMAIN reports[i].errors
      /\ todo \subseteq DOMAIN reports[n + 1].errors
  <2>1. PhaseInv /\ ErrorTypeInv
    BY DEF ErrorInv
  <2>2. step = "errors" /\ step' = "errors" /\ todo' = todo \ {e} /\ reports' = reports
    BY DEF MergeError
  <2>. QED BY <2>1, <2>2 DEF PhaseInv, ErrorTypeInv
<1>2. KeyInv(reports, errs, owner, n, e)
  BY <1>1 DEF ErrorInv, NMerged
<1>3. \A k : k # e => NMerged(k)' = NMerged(k) /\ KeyInv(reports, errs, owner, NMerged(k), k)
  BY <1>1 DEF ErrorInv, NMerged
<1>4. NMerged(e)' = n + 1
  BY <1>1 DEF NMerged
<1>5. \A i \in 1..(n + 1) : i \in 1..n \/ i = n + 1
  <2>1. n \in Nat
    BY <1>1
  <2>. HIDE DEF n
  <2>. QED BY <2>1
<1>6. \A i \in 1..n : i \in 1..(n + 1) /\ i # n + 1
  <2>1. n \in Nat
    BY <1>1
  <2>. HIDE DEF n
  <2>. QED BY <2>1
<1>7. /\ Errs(reports, n + 1, e) = Errs(reports, n, e) + Occ(reports, n + 1, e)
      /\ Errs(reports, n, e) \in Nat
  <2>1. n + 1 <= Len(reports)
    BY <1>1
  <2>. QED BY <1>1, <2>1, ErrsGrow
<1>8. Occ(reports, n + 1, e) = reports[n + 1].errors[e] /\ Occ(reports, n + 1, e) \in Nat
  <2>1. n + 1 \in 1..Len(reports)
    BY <1>1
  <2>. QED BY <1>1, <2>1, OccType DEF Occ
<1>. HIDE DEF n
<1>9. CASE e \in DOMAIN owner
  <2>. DEFINE o == owner[e]
              v == errs[o][e] + errs[n + 1][e]
  <2>1. errs' = [errs EXCEPT ![o][e] = v] /\ owner' = owner
    BY <1>1, <1>9 DEF MergeError
  <2>2. o \in 1..n /\ e \in DOMAIN reports[o].errors /\ o \in 1..(n + 1) /\ o # n + 1
    BY <1>2, <1>6, <1>9 DEF KeyInv, FirstWith
  <2>3. errs[o][e] = Errs(reports, n, e) /\ errs[n + 1][e] = reports[n + 1].errors[e]
    BY <1>1, <1>2, <1>9, <2>2 DEF KeyInv
  <2>4. v = Errs(reports, n + 1, e) /\ v \in Nat
    BY <1>7, <1>8, <2>3
  <2>. HIDE DEF v, o
  <2>5. errs[o] \in Maps /\ e \in DOMAIN errs[o]
    BY <1>1, <2>2
  <2>6. [errs[o] EXCEPT ![e] = v] \in Maps
    <3>1. PICK D \in SUBSET Key : errs[o] \in [D -> Nat]
      BY <2>5 DEF Maps
    <3>2. [errs[o] EXCEPT ![e] = v] \in [D -> Nat]
      BY <2>4, <3>1
    <3>. QED BY <3>2 DEF Maps
  <2>7. errs' = [errs EXCEPT ![o] = [errs[o] EXCEPT ![e] = v]]
    BY <2>1
  <2>. DEFINE w == [errs[o] EXCEPT ![e] = v]
  <2>8. w[e] = v /\ DOMAIN w = DOMAIN errs[o] /\ \A k \in DOMAIN errs[o] : k # e => w[k] = errs[o][k]
    BY <2>5
  <2>. HIDE DEF w
  <2>9. /\ errs' \in Seq(Maps) /\ Len(errs') = n + 1 /\ errs'[o] = w
        /\ \A i \in 1..(n + 1) : i # o => errs'[i] = errs[i]
    BY <1>1, <2>2, <2>6, <2>7 DEF w
  <2>10. ErrorTypeInv'
    <3>1. \A i \in 1..(n + 1) : DOMAIN errs'[i] = DOMAIN reports[i].errors
      BY <1>1, <2>8, <2>9
    <3>. QED BY <1>1, <2>9, <3>1 DEF ErrorTypeInv
  <2>11. ASSUME NEW k, k # e PROVE KeyInv(reports, errs', owner, NMerged(k), k)
    <3>1. \A i \in 1..(n + 1) : k \in DOMAIN reports[i].errors => errs'[i][k] = errs[i][k]
      BY <1>1, <2>8, <2>9, <2>11
    <3>2. KeyInv(reports, errs, owner, NMerged(k), k)
      BY <1>3, <2>11
    <3>. HIDE DEF NMerged
    <3>. QED BY <1>1, <3>1, <3>2 DEF KeyInv
  <2>12. KeyInv(reports, errs', owner, n + 1, e)
    <3>1. e \in DOMAIN owner <=> \E i \in 1..(n + 1) : e \in DOMAIN reports[i].errors
      BY <1>1, <1>9
    <3>2. FirstWith(reports, n + 1, e, owner[e])
      <4>1. FirstWith(reports, n, e, owner[e])
        BY <1>2, <1>9 DEF KeyInv
      <4>2. owner[e] <= n + 1
        BY <1>1, <2>2 DEF o
      <4>. QED BY <1>5, <1>6, <4>1, <4>2 DEF FirstWith
    <3>3. \A i \in 1..(n + 1) : i # o /\ e \in DOMAIN reports[i].errors =>
            errs'[i][e] = reports[i].errors[e]
      BY <1>1, <1>2, <2>9 DEF KeyInv, o
    <3>4. errs'[o][e] = Errs(reports, n + 1, e)
      BY <2>4, <2>8, <2>9
    <3>. QED BY <1>1, <1>9, <3>1, <3>2, <3>3, <3>4 DEF KeyInv, o
  <2>13. ASSUME NEW k PROVE KeyInv(reports', errs', owner', NMerged(k)', k)
    BY <1>1, <1>3, <1>4, <2>1, <2>11, <2>12
  <2>. QED BY <2>10, <2>13 DEF ErrorInv
<1>10. CASE e \notin DOMAIN owner
  <2>1. errs' = errs /\ owner' = Put(owner, e, n + 1)
    BY <1>1, <1>10 DEF MergeError
  <2>2. /\ DOMAIN owner' = DOMAIN owner \cup {e} /\ owner'[e] = n + 1
        /\ \A k \in DOMAIN owner : k # e => owner'[k] = owner[k]
    BY <2>1 DEF Put
  <2>3. ErrorTypeInv'
    BY <1>1, <2>1 DEF ErrorTypeInv
  <2>4. ASSUME NEW k, k # e PROVE KeyInv(reports, errs, owner', NMerged(k), k)
    <3>1. KeyInv(reports, errs, owner, NMerged(k), k)
      BY <1>3, <2>4
    <3>2. (k \in DOMAIN owner' <=> k \in DOMAIN owner) /\ (k \in DOMAIN owner => owner'[k] = owner[k])
      BY <2>2, <2>4
    <3>. HIDE DEF NMerged
    <3>. QED BY <3>1, <3>2 DEF KeyInv
  <2>5. KeyInv(reports, errs, owner', n + 1, e)
    <3>1. \A i \in 1..n : e \notin DOMAIN reports[i].errors
      BY <1>2, <1>10 DEF KeyInv
    <3>2. Errs(reports, n + 1, e) = reports[n + 1].errors[e]
      <4>1. n + 1 \in 0..Len(reports)
        BY <1>1
      <4>2. \A j \in 1..(n + 1) : j # n + 1 => e \notin DOMAIN reports[j].errors
        BY <1>5, <3>1
      <4>3. Errs(reports, n + 1, e) = Occ(reports, n + 1, e)
        BY <1>1, <4>1, <4>2, ErrsBounds
      <4>. QED BY <1>8, <4>3
    <3>3. errs[n + 1][e] = reports[n + 1].errors[e]
      BY <1>1, <1>2, <1>10 DEF KeyInv
    <3>4. FirstWith(reports, n + 1, e, n + 1)
      BY <1>1, <1>5, <3>1 DEF FirstWith
    <3>5. e \in DOMAIN owner' /\ owner'[e] = n + 1 /\ n + 1 \in 1..(n + 1)
      BY <1>1, <2>2
    <3>6. ASSUME NEW i \in 1..(n + 1), e \in DOMAIN reports[i].errors PROVE i = n + 1
      BY <1>5, <3>1, <3>6
    <3>. QED BY <1>1, <3>2, <3>3, <3>4, <3>5, <3>6 DEF KeyInv
  <2>6. ASSUME NEW k PROVE KeyInv(reports', errs', owner', NMerged(k)', k)
    BY <1>1, <1>3, <1>4, <2>1, <2>4, <2>5
  <2>. QED BY <2>3, <2>6 DEF ErrorInv
<1>. QED BY <1>9, <1>10

\* The invariant of the errors holds.
LEMMA ErrorsHold == Spec => []ErrorInv
<1>1. Init => ErrorInv
  <2>. SUFFICES ASSUME Init PROVE ErrorInv
    OBVIOUS
  <2>1. reports = << >> /\ errs = << >> /\ owner = << >> /\ step = "done" /\ todo = {}
    BY DEF Init
  <2>2. ErrorTypeInv
    BY <2>1 DEF ErrorTypeInv
  <2>3. ASSUME NEW k PROVE KeyInv(reports, errs, owner, NMerged(k), k)
    <3>1. NMerged(k) = 0 /\ DOMAIN owner = {} /\ Len(reports) = 0
      BY <2>1 DEF NMerged
    <3>. QED BY <3>1 DEF KeyInv
  <2>. QED BY <2>2, <2>3 DEF ErrorInv
<1>2. PhaseInv /\ ErrorInv /\ [Next]_vars => ErrorInv'
  <2>. SUFFICES ASSUME PhaseInv, ErrorInv, [Next]_vars PROVE ErrorInv'
    OBVIOUS
  <2>1. CASE HandOver
    BY <2>1, HandOverKeepsErrors
  <2>2. CASE BuildAllStats
    BY <2>2, BuildKeepsErrors
  <2>3. ASSUME NEW k \in todo, MergeError(k) PROVE ErrorInv'
    BY <2>3, MergeKeepsErrors
  <2>4. CASE Render \/ WriteFiles
    <3>1. /\ step = "errors" /\ step' = "done" /\ todo = {}
          /\ UNCHANGED <<reports, errs, owner, todo>>
      BY <2>4 DEF Render, WriteFiles
    <3>2. \A k : NMerged(k)' = NMerged(k)
      BY <3>1 DEF NMerged
    <3>3. ErrorTypeInv'
      BY <3>1 DEF ErrorInv, ErrorTypeInv
    <3>4. \A k : KeyInv(reports', errs', owner', NMerged(k)', k)
      BY <3>1, <3>2 DEF ErrorInv
    <3>. QED BY <3>3, <3>4 DEF ErrorInv
  <2>5. CASE UNCHANGED <<reports, errs, owner, todo, step>>
    <3>2. \A k : NMerged(k)' = NMerged(k)
      BY <2>5 DEF NMerged
    <3>3. ErrorTypeInv'
      BY <2>5 DEF ErrorInv, ErrorTypeInv
    <3>4. \A k : KeyInv(reports', errs', owner', NMerged(k)', k)
      BY <2>5, <3>2 DEF ErrorInv
    <3>. QED BY <3>3, <3>4 DEF ErrorInv
  <2>. QED BY <2>1, <2>2, <2>3, <2>4, <2>5
        DEF Next, ConcurrentMapFault, PushGauges, StartSerializing, Serialize,
            vars, outputVars, senderVars, fileVars
<1>. QED BY <1>1, <1>2, PhaseHolds, PTL DEF Spec

\* What the summary says of the errors.
LEMMA ErrorsAccurate ==
  ASSUME PhaseInv, ErrorInv, NEW k \in (UNION {DOMAIN reports[i].errors : i \in Built}) \ todo
  PROVE  errs[owner[k]][k] = SumFunction([i \in Merged(k) |-> Occurrences(i, k)])
<1>1. Built = 1..NMerged(k) /\ Merged(k) = 1..NMerged(k)
  <2>1. k \notin todo
    OBVIOUS
  <2>2. Built = 1..NMerged(k)
    BY <2>1 DEF Built, NMerged
  <2>3. Merged(k) = Built
    BY <2>1 DEF Merged
  <2>. QED BY <2>2, <2>3
<1>2. PICK i \in 1..NMerged(k) : k \in DOMAIN reports[i].errors
  BY <1>1
<1>3. KeyInv(reports, errs, owner, NMerged(k), k)
  BY DEF ErrorInv
<1>4. NMerged(k) <= Len(reports) /\ NMerged(k) \in Int /\ Len(reports) \in Nat
  BY DEF PhaseInv, NMerged
<1>. HIDE DEF NMerged
<1>5. k \in DOMAIN owner /\ FirstWith(reports, NMerged(k), k, owner[k])
  BY <1>2, <1>3 DEF KeyInv
<1>6. owner[k] \in 1..Len(reports) /\ k \in DOMAIN reports[owner[k]].errors
  BY <1>4, <1>5 DEF FirstWith
<1>7. errs[owner[k]][k] = Errs(reports, NMerged(k), k)
  BY <1>3, <1>5, <1>6 DEF KeyInv
<1>8. Errs(reports, NMerged(k), k) = SumFunction([j \in 1..NMerged(k) |-> Occurrences(j, k)])
  BY Zenon DEF Errs, Occ, Occurrences
<1>. QED BY <1>1, <1>7, <1>8

\* The summary has one row for each name, in order of the names, which says of all
\* the reports what an entry says of one, and its errors are those of all the
\* reports: for any reports, in any order in which convertData lists their entries.
\* Two methods of a name share a row, as in the code.
THEOREM SummaryAlwaysAccurate == Spec => []SummaryAccurate
<1>1. PhaseInv /\ SummaryInv /\ ErrorInv => SummaryAccurate
  <2>. SUFFICES ASSUME PhaseInv, SummaryInv, ErrorInv PROVE SummaryAccurate
    OBVIOUS
  <2>1. RowsAccurate
    BY RowsAreAccurate
  <2>2. \A k \in (UNION {DOMAIN reports[i].errors : i \in Built}) \ todo :
          errs[owner[k]][k] = SumFunction([i \in Merged(k) |-> Occurrences(i, k)])
    BY ErrorsAccurate
  <2>. QED BY <2>1, <2>2, Zenon DEF RowsAccurate, SummaryAccurate
<1>. QED BY <1>1, PhaseHolds, SummaryHolds, ErrorsHold, PTL

(***************************************************************************)
(* What the master gets                                                    *)
(***************************************************************************)

\* v is what the master got for error k of report i, when g reports were handed over.
SentIntact(reps, v, g, i, k) ==
  /\ v >= Occ(reps, i, k)
  /\ g = i \/ ~(\A j \in 1..(i - 1) : Occ(reps, j, k) = 0) => v = Occ(reps, i, k)
  /\ v <= Errs(reps, g, k)

SentInv ==
  /\ sent \in Seq([errors : Maps, given : Nat]) /\ Len(sent) <= Len(reports)
  /\ sending => Len(sent) < Len(reports)
  /\ \A i \in 1..Len(sent) : sent[i].given \in i..Len(reports)
  /\ \A i \in 1..Len(sent) : \A k \in DOMAIN sent[i].errors :
       SentIntact(reports, sent[i].errors[k], sent[i].given, i, k)

\* Reports that come later do not matter.
LEMMA SentIntactSame ==
  ASSUME NEW r1, NEW r2, NEW v, NEW i \in Nat \ {0}, NEW g \in Nat, i <= g,
         \A j \in 1..g : r1[j] = r2[j], NEW k, SentIntact(r1, v, g, i, k)
  PROVE  SentIntact(r2, v, g, i, k)
<1>1. \A j \in 1..g : Occ(r1, j, k) = Occ(r2, j, k)
  BY DEF Occ
<1>2. Errs(r1, g, k) = Errs(r2, g, k)
  BY ErrsSame
<1>3. i \in 1..g /\ \A j \in 1..(i - 1) : j \in 1..g
  OBVIOUS
<1>. QED BY <1>1, <1>2, <1>3 DEF SentIntact

\* What the sender reads.
LEMMA ReadIntact ==
  ASSUME PhaseInv, ErrorInv, NEW i \in 1..Len(reports), NEW k \in DOMAIN errs[i]
  PROVE  SentIntact(reports, errs[i][k], Len(reports), i, k)
<1>. DEFINE n == Len(reports)
            m == NMerged(k)
            v == errs[i][k]
<1>1. reports \in Seq(HandedOver) /\ n \in Nat /\ i \in 1..n
  BY DEF PhaseInv
<1>2. k \in DOMAIN reports[i].errors /\ KeyInv(reports, errs, owner, m, k)
  BY DEF ErrorInv, ErrorTypeInv
<1>3. m \in 0..n /\ m >= n - 1
  BY <1>1 DEF NMerged, PhaseInv
<1>4. v = IF k \in DOMAIN owner /\ owner[k] = i THEN Errs(reports, m, k) ELSE reports[i].errors[k]
  BY <1>1, <1>2 DEF KeyInv
<1>5. Occ(reports, i, k) = reports[i].errors[k] /\ Occ(reports, i, k) \in Nat
  BY <1>1, <1>2, OccType DEF Occ
<1>6. /\ Errs(reports, n, k) \in Nat /\ Occ(reports, i, k) <= Errs(reports, n, k)
      /\ Errs(reports, m, k) <= Errs(reports, n, k)
  <2>1. n \in 0..Len(reports)
    BY <1>1
  <2>. HIDE DEF m
  <2>. QED BY <1>1, <1>3, <2>1, ErrsBounds
<1>. HIDE DEF m, v, n
<1>7. CASE k \in DOMAIN owner /\ owner[k] = i
  <2>1. v = Errs(reports, m, k)
    BY <1>4, <1>7
  <2>2. FirstWith(reports, m, k, i)
    BY <1>2, <1>7 DEF KeyInv
  <2>3. i \in 1..m /\ m \in 0..Len(reports)
    BY <1>3, <2>2 DEF FirstWith, n
  <2>4. Occ(reports, i, k) <= v /\ v \in Nat
    BY <1>1, <2>1, <2>3, ErrsBounds
  <2>5. \A j \in 1..(i - 1) : Occ(reports, j, k) = 0
    <3>. SUFFICES ASSUME NEW j \in 1..(i - 1) PROVE Occ(reports, j, k) = 0
      OBVIOUS
    <3>1. j \in 1..m /\ ~(i <= j)
      BY <1>1, <1>3, <2>3
    <3>2. k \notin DOMAIN reports[j].errors
      BY <2>2, <3>1 DEF FirstWith
    <3>. QED BY <3>2 DEF Occ
  <2>6. ASSUME n = i PROVE v = Occ(reports, i, k)
    <3>1. ASSUME NEW j \in 1..m, j # i PROVE k \notin DOMAIN reports[j].errors
      <4>1. ~(i <= j)
        BY <1>1, <1>3, <2>6, <3>1
      <4>. QED BY <2>2, <4>1 DEF FirstWith
    <3>. QED BY <1>1, <2>1, <2>3, <3>1, ErrsBounds
  <2>7. v >= Occ(reports, i, k) /\ v <= Errs(reports, n, k)
    BY <1>5, <1>6, <2>1, <2>4
  <2>. QED BY <2>5, <2>6, <2>7 DEF SentIntact, n, v
<1>8. CASE ~(k \in DOMAIN owner /\ owner[k] = i)
  <2>1. v = Occ(reports, i, k)
    BY <1>4, <1>5, <1>8
  <2>. QED BY <1>5, <1>6, <2>1 DEF SentIntact, n, v
<1>. QED BY <1>7, <1>8

\* The invariant of what was sent holds.
LEMMA SentHolds == Spec => []SentInv
<1>1. Init => SentInv
  BY DEF Init, SentInv
<1>2. PhaseInv /\ ErrorInv /\ SentInv /\ [Next]_vars => SentInv'
  <2>. SUFFICES ASSUME PhaseInv, ErrorInv, SentInv, [Next]_vars PROVE SentInv'
    OBVIOUS
  <2>0. reports \in Seq(HandedOver) /\ Len(reports) \in Nat
    BY DEF PhaseInv
  <2>1. CASE HandOver
    <3>1. PICK r \in Reports : reports' = Append(reports, Handed(r, Len(reports)))
      BY <2>1, Zenon DEF HandOver, Handed
    <3>2. Len(reports') = Len(reports) + 1 /\ \A i \in 1..Len(reports) : reports[i] = reports'[i]
      BY <2>0, <3>1
    <3>3. UNCHANGED <<sent, sending>>
      BY <2>1 DEF HandOver, senderVars
    <3>4. ASSUME NEW i \in 1..Len(sent), NEW k \in DOMAIN sent[i].errors
          PROVE  SentIntact(reports', sent[i].errors[k], sent[i].given, i, k)
      <4>. DEFINE g == sent[i].given
                  v == sent[i].errors[k]
      <4>1. g \in Nat /\ i \in Nat \ {0} /\ i <= g /\ g <= Len(reports)
        BY <2>0 DEF SentInv
      <4>2. SentIntact(reports, v, g, i, k)
        BY DEF SentInv
      <4>. HIDE DEF g, v
      <4>3. \A j \in 1..g : reports[j] = reports'[j]
        BY <2>0, <3>2, <4>1
      <4>4. SentIntact(reports', v, g, i, k)
        BY <4>1, <4>2, <4>3, SentIntactSame
      <4>. QED BY <4>4 DEF g, v
    <3>5. \A i \in 1..Len(sent) : sent[i].given \in i..Len(reports')
      BY <2>0, <3>2 DEF SentInv
    <3>6. Len(sent) \in Nat /\ Len(sent) <= Len(reports') /\ (sending => Len(sent) < Len(reports'))
      BY <2>0, <3>2 DEF SentInv
    <3>. QED BY <3>3, <3>4, <3>5, <3>6 DEF SentInv
  <2>2. CASE Serialize
    <3>. DEFINE i == Len(sent) + 1
                s == [errors |-> errs[i], given |-> Len(reports)]
    <3>1. sent' = Append(sent, s) /\ sending' = FALSE /\ reports' = reports /\ sending
      BY <2>2 DEF Serialize
    <3>2. /\ sent \in Seq([errors : Maps, given : Nat]) /\ Len(sent) \in Nat
          /\ i \in 1..Len(reports) /\ i <= Len(reports)
      BY <2>0, <3>1 DEF SentInv
    <3>3. s \in [errors : Maps, given : Nat]
      BY <2>0, <3>2 DEF ErrorInv, ErrorTypeInv
    <3>4. s.errors = errs[i] /\ s.given = Len(reports)
      OBVIOUS
    <3>5. \A k \in DOMAIN s.errors : SentIntact(reports, s.errors[k], s.given, i, k)
      <4>1. ASSUME NEW k \in DOMAIN errs[i]
            PROVE  SentIntact(reports, errs[i][k], Len(reports), i, k)
        <5>. HIDE DEF i
        <5>. QED BY <3>2, ReadIntact
      <4>. HIDE DEF s, i
      <4>. QED BY <3>4, <4>1
    <3>. HIDE DEF s
    <3>6. /\ sent' \in Seq([errors : Maps, given : Nat]) /\ Len(sent') = i /\ sent'[i] = s
          /\ \A j \in 1..Len(sent) : sent'[j] = sent[j]
      BY <3>1, <3>2, <3>3
    <3>7. \A j \in 1..i : j \in 1..Len(sent) \/ j = i
      BY <3>2
    <3>. HIDE DEF i
    <3>8. ASSUME NEW j \in 1..i
          PROVE  /\ sent'[j].given \in j..Len(reports)
                 /\ \A k \in DOMAIN sent'[j].errors :
                      SentIntact(reports, sent'[j].errors[k], sent'[j].given, j, k)
      <4>1. CASE j = i
        BY <2>0, <3>2, <3>4, <3>5, <3>6, <4>1
      <4>2. CASE j \in 1..Len(sent)
        BY <3>6, <4>2 DEF SentInv
      <4>. QED BY <3>7, <4>1, <4>2
    <3>9. Len(sent') <= Len(reports)
      BY <3>2, <3>6
    <3>. QED BY <3>1, <3>6, <3>8, <3>9 DEF SentInv
  <2>3. CASE StartSerializing
    BY <2>3 DEF StartSerializing, SentInv
  <2>4. CASE UNCHANGED <<reports, sent, sending>>
    BY <2>4 DEF SentInv
  <2>. QED BY <2>1, <2>2, <2>3, <2>4
        DEF Next, BuildAllStats, ConcurrentMapFault, Render, WriteFiles, PushGauges, MergeError,
            vars, outputVars, senderVars, fileVars
<1>. QED BY <1>1, <1>2, PhaseHolds, ErrorsHold, PTL DEF Spec

\* The errors of a report reach the master as they were collected, unless the sender
\* is late and the report was the first with that error; and even then no more than
\* the errors of the reports handed over by then.  This is for any reports, whatever
\* the speed of the sender, although the summary writes into the maps it sends.
THEOREM ErrorsAlwaysSentIntact == Spec => []ErrorsSentIntact
<1>1. SentInv => ErrorsSentIntact
  <2>. SUFFICES ASSUME SentInv, NEW i \in DOMAIN sent, NEW k \in DOMAIN sent[i].errors
       PROVE LET first == \A j \in 1..(i - 1) : Occurrences(j, k) = 0 IN
               /\ sent[i].errors[k] >= Occurrences(i, k)
               /\ sent[i].given = i \/ ~first => sent[i].errors[k] = Occurrences(i, k)
               /\ sent[i].errors[k] <= SumFunction([j \in 1..sent[i].given |-> Occurrences(j, k)])
    BY Zenon DEF ErrorsSentIntact
  <2>1. i \in 1..Len(sent)
    BY DEF SentInv
  <2>2. SentIntact(reports, sent[i].errors[k], sent[i].given, i, k)
    BY <2>1 DEF SentInv
  <2>. QED BY <2>2, Zenon DEF SentIntact, Occ, Occurrences, Errs
<1>. QED BY <1>1, SentHolds, PTL

(***************************************************************************)
(* The rows, the gauges and the files agree                                *)
(***************************************************************************)

\* The entry of a name that occurs once.
Alone(S, name) == \A e, f \in S : e.name = name /\ f.name = name => e = f

\* No name of the first n reports has two methods in one of them.
AllAlone(reps, n) ==
  \A i \in 1..n : \A e \in reps[i].stats : Alone(reps[i].stats, e.name)

\* rs shows the entries of S: a row for each of them, and for a name that occurs once
\* what the entry says.
Shows(ent, S, rs) ==
  /\ DOMAIN rs = DOMAIN ent /\ \A j \in DOMAIN rs : rs[j] \in Row
  /\ \E m \in Nat : ent \in [1..m -> S]
  /\ \A i, j \in DOMAIN ent : ent[i] = ent[j] => i = j
  /\ \A e \in S : \E i \in DOMAIN ent : ent[i] = e
  /\ \A j \in DOMAIN ent : Alone(S, ent[j].name) => rs[j] = Derive(ent[j])

\* Of a set with at most one element, two are the same.
LEMMA NotShared ==
  ASSUME NEW i, IsFiniteSet(reports[i].stats), NEW name, ~Shared(i, name)
  PROVE  Alone(reports[i].stats, name)
<1>. DEFINE S == reports[i].stats
            T == {e \in S : e.name = name}
<1>1. IsFiniteSet(T) /\ Cardinality(T) \in Nat /\ ~(Cardinality(T) > 1)
  BY FS_Subset, FS_CardinalityType DEF Shared
<1>2. ASSUME NEW e \in T, NEW f \in T, e # f PROVE FALSE
  <2>1. IsFiniteSet({e}) /\ Cardinality({e}) = 1
    BY FS_Singleton
  <2>2. Cardinality({e} \cup {f}) = 2
    <3>1. Cardinality({e} \cup {f}) =
            IF f \in {e} THEN Cardinality({e}) ELSE Cardinality({e}) + 1
      BY <2>1, FS_AddElement
    <3>. QED BY <1>2, <2>1, <3>1
  <2>3. {e} \cup {f} \in SUBSET T
    OBVIOUS
  <2>. HIDE DEF T
  <2>4. Cardinality({e} \cup {f}) <= Cardinality(T)
    BY <1>1, <2>3, FS_Subset
  <2>. QED BY <1>1, <2>2, <2>4
<1>. QED BY <1>2 DEF Alone

\* What buildAllStats shows.
LEMMA ShownShows ==
  ASSUME NEW X, IsPairs(X), RowsFor(summary.stats, X), NEW n, NEW S,
         NEW current, NEW ent, Orders(ent, S, current),
         \A e \in S : IsEntry(e), \A e : <<n, e>> \notin X,
         NEW stats, stats = SortOutput(AddRows(summary.stats, current))
  PROVE  Shows(ent, S, Shown(current, stats))
<1>. DEFINE m == Len(current)
            added == AddRows(summary.stats, current)
            Y == X \cup PairsOf(n, S)
            rs == Shown(current, stats)
<1>1. /\ m \in Nat /\ DOMAIN current = 1..m /\ ent \in [1..m -> S] /\ DOMAIN ent = 1..m
      /\ \A i \in 1..m : current[i] \in Row
      /\ \A i, j \in 1..m : ent[i] = ent[j] => i = j
      /\ \A e \in S : \E i \in 1..m : ent[i] = e
      /\ \A i \in 1..m : current[i] = Derive(ent[i])
  BY DEF Orders
<1>2. RowsFor(added, Y)
  BY AddRowsAdds
<1>. HIDE DEF m, added, Y
<1>3. RowsFor(stats, Y) /\ stats \in Seq(Row)
  <2>1. RowsFor(SortOutput(added), Y) /\ stats = SortOutput(added)
    BY <1>2, SortKeepsRows DEF added
  <2>. QED BY <2>1 DEF RowsFor
<1>4. \A e : Derive(e).name = e.name
  BY DEF Derive
<1>5. ASSUME NEW j \in 1..m
      PROVE  \E a \in ToSet(stats) : a.name = current[j].name
  <2>1. <<n, ent[j]>> \in Y
    BY <1>1 DEF Y, PairsOf
  <2>2. PICK i \in DOMAIN stats : stats[i].name = ent[j].name
    BY <1>3, <2>1 DEF RowsFor
  <2>3. current[j].name = ent[j].name
    BY <1>1, <1>4
  <2>. QED BY <2>2, <2>3 DEF ToSet
<1>6. \A a \in ToSet(stats) : a \in Row
  BY <1>3 DEF ToSet
<1>. DEFINE row(j) == CHOOSE a \in ToSet(stats) : a.name = current[j].name
<1>7. ASSUME NEW j \in 1..m PROVE row(j) \in ToSet(stats) /\ row(j).name = current[j].name
  BY <1>5
<1>8. ASSUME NEW j \in 1..m
      PROVE  rs[j] = current[j]
             \/ /\ rs[j] = row(j)
                /\ \A a \in ToSet(summary.stats) : a.name # current[j].name
  BY <1>1 DEF Shown
<1>9. DOMAIN rs = 1..m
  BY <1>1 DEF Shown
<1>. HIDE DEF rs, row
<1>10. ASSUME NEW j \in 1..m, Alone(S, ent[j].name) PROVE rs[j] = current[j]
  <2>. SUFFICES ASSUME rs[j] = row(j), \A a \in ToSet(summary.stats) : a.name # current[j].name
                PROVE  row(j) = current[j]
    BY <1>8
  <2>1. \A i \in DOMAIN summary.stats : summary.stats[i].name # current[j].name
    BY DEF ToSet
  <2>2. ASSUME NEW i \in 1..m, current[i].name = current[j].name PROVE i = j
    <3>1. ent[i].name = ent[j].name /\ ent[i] \in S /\ ent[j] \in S
      BY <1>1, <1>4, <2>2
    <3>2. ent[i] = ent[j]
      BY <1>10, <3>1 DEF Alone
    <3>. QED BY <1>1, <3>2
  <2>3. PICK i \in DOMAIN added : added[i] = current[j]
    <3>1. OnceNew(summary.stats, current, j) /\ j \in 1..Len(current)
      BY <2>1, <2>2 DEF OnceNew, m
    <3>. Uncounted(X, summary.stats, n, S, current, ent)
      BY DEF Uncounted
    <3>2. \E i \in DOMAIN AddRows(summary.stats, current) :
            AddRows(summary.stats, current)[i] = current[j]
      BY <3>1, SingleRow
    <3>. QED BY <3>2 DEF added
  <2>4. \E k \in DOMAIN stats : stats[k] = added[i]
    BY <1>2, <2>3, SortHasRows DEF added
  <2>5. current[j] \in ToSet(stats)
    BY <2>3, <2>4 DEF ToSet
  <2>6. \A a, b \in ToSet(stats) : a.name = b.name => a = b
    BY <1>3 DEF RowsFor, ToSet
  <2>. QED BY <1>7, <2>5, <2>6
<1>11. ASSUME NEW j \in 1..m PROVE rs[j] \in Row
  BY <1>1, <1>6, <1>7, <1>8
<1>12. \A j \in 1..m : Alone(S, ent[j].name) => rs[j] = Derive(ent[j])
  BY <1>1, <1>10
<1>. QED BY <1>1, <1>9, <1>11, <1>12 DEF Shows, rs

\* The rows of a report without two methods of a name have its total.
LEMMA RowsTotal ==
  ASSUME NEW r, IsReport(r), NEW ent, NEW rs, Shows(ent, r.stats, rs),
         \A e \in r.stats : Alone(r.stats, e.name)
  PROVE  Requests(rs) = r.total.requests
<1>. DEFINE S == r.stats
            f == [e \in S |-> e.requests]
            g == [j \in DOMAIN rs |-> rs[j].requests]
<1>1. PICK m \in Nat : ent \in [1..m -> S]
  BY DEF Shows
<1>2. /\ DOMAIN ent = 1..m /\ DOMAIN rs = 1..m
      /\ \A i, j \in 1..m : ent[i] = ent[j] => i = j
      /\ \A e \in S : \E i \in 1..m : ent[i] = e
      /\ \A j \in 1..m : rs[j] = Derive(ent[j]) /\ ent[j] \in S
  BY <1>1 DEF Shows
<1>3. IsFiniteSet(1..m) /\ S = {ent[j] : j \in 1..m}
  BY <1>2, FinitePositions
<1>4. \A e : Derive(e).requests = e.requests
  BY DEF Derive
<1>5. \A e \in S : e.requests \in Int
  BY EntryType DEF IsReport
<1>6. \A j \in 1..m : g[j] \in Int /\ g[j] = f[ent[j]]
  BY <1>2, <1>4, <1>5
<1>7. DOMAIN g = 1..m /\ DOMAIN f = S
  BY <1>2
<1>8. r.total.requests = SumFunction(f)
  BY DEF IsReport
<1>. HIDE DEF f, g, S
<1>9. SumFunctionOnSet(g, 1..m) = SumFunctionOnSet(f, S)
  <2>. DEFINE D == 1..m
  <2>1. IsFiniteSet(D) /\ S = {ent[j] : j \in D} /\ \A i, j \in D : ent[i] = ent[j] => i = j
    BY <1>2, <1>3
  <2>2. \A j \in D : g[j] \in Int /\ g[j] = f[ent[j]]
    BY <1>6
  <2>. HIDE DEF D
  <2>3. SumFunctionOnSet(g, D) = SumFunctionOnSet(f, S)
    BY <2>1, <2>2, SumReindex
  <2>. QED BY <2>3 DEF D
<1>10. SumFunction(g) = SumFunction(f)
  BY <1>7, <1>9 DEF SumFunction
<1>. QED BY <1>8, <1>10 DEF Requests, g

\* The counts of the rows that are shown can be added up.
LEMMA ShownCount ==
  ASSUME NEW S, NEW ent, NEW rs, Shows(ent, S, rs)
  PROVE  Requests(rs) \in Int
<1>. DEFINE g == [j \in DOMAIN rs |-> rs[j].requests]
<1>1. PICK m \in Nat : DOMAIN rs = 1..m
  BY DEF Shows
<1>2. IsFiniteSet(1..m) /\ DOMAIN g = 1..m /\ \A j \in 1..m : g[j] \in Int
  BY <1>1, FinitePositions, RowCounts DEF Shows
<1>. HIDE DEF g
<1>3. SumFunctionOnSet(g, 1..m) \in Int
  BY <1>2, SumType
<1>. QED BY <1>2, <1>3 DEF Requests, SumFunction, g

\* The rows show the report that was built in last.
ShownInv ==
  step # "build" /\ reports # << >> => \E ent : Shows(ent, Last(reports).stats, rows)

\* The gauges of a report that has been pushed.
GaugeInv ==
  ~pushing /\ reports # << >> =>
    \A e \in Last(reports).stats : gauges[Labels(e)] = Derive(e)

\* The reports that the summarising output is done with.
NDone == IF step = "done" THEN Len(reports) ELSE Len(reports) - 1

\* At most one line for each report; if there is one for every report, they have the
\* total of the reports.
FileInv ==
  /\ lines \in Seq(Int) /\ Len(lines) <= NDone
  /\ kind \in {"console", "json"} /\ (kind = "console" => lines = << >>)
  /\ Len(lines) = NDone /\ AllAlone(reports, NDone) =>
       SumFunction(lines) = TotalRequests(reports, NDone)
  /\ kind = "json" /\ step = "done" /\ reports # << >> /\ ~ended =>
       totalFile = <<summary.requests>>

\* buildAllStats shows the report.
LEMMA BuildShows ==
  ASSUME PhaseInv, SummaryInv, BuildAllStats
  PROVE  ShownInv'
<1>. DEFINE n == Len(reports) - 1
            r == Last(reports)
            X == Counted
<1>1. /\ n \in Nat /\ Len(reports) = n + 1 /\ r = reports[n + 1] /\ r \in HandedOver
      /\ NBuilt = n /\ reports' = reports /\ reports \in Seq(HandedOver)
  BY DEF PhaseInv, BuildAllStats, NBuilt, Last
<1>2. IsReport(r)
  BY <1>1, HandedReports
<1>3. X = PairsUpTo(reports, n)
  BY <1>1 DEF Counted
<1>4. PICK items \in ConvertData(r) :
        rows' = Shown(SortOutput(items),
                      SortOutput(AddRows(summary.stats, SortOutput(items))))
  BY DEF BuildAllStats
<1>. DEFINE current == SortOutput(items)
            stats == SortOutput(AddRows(summary.stats, current))
<1>5. PICK ent : Orders(ent, r.stats, current)
  BY <1>2, CurrentItems
<1>6. rows' = Shown(current, stats) /\ stats = SortOutput(AddRows(summary.stats, current))
  BY <1>4
<1>. HIDE DEF n, r, X, current, stats
<1>7. \A e : <<n + 1, e>> \notin X
  BY <1>1, <1>3, PairsGrow
<1>8. IsPairs(X) /\ RowsFor(summary.stats, X)
  BY DEF SummaryInv, X
<1>9. \A e \in r.stats : IsEntry(e)
  BY <1>2, ReportType
<1>10. Shows(ent, r.stats, Shown(current, stats))
  BY <1>5, <1>6, <1>7, <1>8, <1>9, ShownShows
<1>. QED BY <1>1, <1>6, <1>10 DEF ShownInv, r

\* The Prometheus output pushes the report: the labels of its entries differ.
LEMMA PushSetsGauges ==
  ASSUME PhaseInv, PushGauges
  PROVE  GaugeInv'
<1>. SUFFICES ASSUME reports # << >>, NEW e \in Last(reports).stats
              PROVE  gauges'[Labels(e)] = Derive(e)
  BY DEF GaugeInv, PushGauges
<1>. DEFINE r == Last(reports)
<1>1. r \in HandedOver /\ IsReport(r)
  BY HandedReports DEF PhaseInv, Last
<1>2. PICK items \in ConvertData(r) :
        gauges' = [x \in DOMAIN gauges \cup {Labels(o) : o \in ToSet(items)} |->
                     IF \E o \in ToSet(items) : Labels(o) = x
                     THEN CHOOSE o \in ToSet(items) : Labels(o) = x
                     ELSE gauges[x]]
  BY DEF PushGauges
<1>3. PICK ent : Orders(ent, r.stats, items)
  BY <1>1, <1>2, ConvertOrders
<1>. HIDE DEF r
<1>4. Derive(e) \in ToSet(items)
  <2>1. PICK i \in 1..Len(items) : ent[i] = e
    BY <1>3 DEF Orders, r
  <2>2. items[i] = Derive(e) /\ i \in DOMAIN items
    BY <1>3, <2>1 DEF Orders
  <2>. QED BY <2>2 DEF ToSet
<1>5. \A f : Labels(Derive(f)) = Labels(f)
  BY DEF Derive, Labels
<1>6. ASSUME NEW o \in ToSet(items), Labels(o) = Labels(e) PROVE o = Derive(e)
  <2>1. PICK i \in 1..Len(items) : o = items[i]
    BY <1>3 DEF Orders, ToSet
  <2>2. o = Derive(ent[i]) /\ ent[i] \in r.stats
    BY <1>3, <2>1 DEF Orders
  <2>3. Labels(ent[i]) = Labels(e)
    BY <1>5, <1>6, <2>2
  <2>4. ent[i].name = e.name /\ ent[i].method = e.method
    BY <2>3 DEF Labels
  <2>5. ent[i] = e
    BY <1>1, <2>2, <2>4 DEF IsReport, r
  <2>. QED BY <2>2, <2>5
<1>. DEFINE x == Labels(e)
<1>7. Labels(Derive(e)) = x
  BY <1>5
<1>. HIDE DEF x
<1>8. x \in {Labels(o) : o \in ToSet(items)} /\ \E o \in ToSet(items) : Labels(o) = x
  BY <1>4, <1>7
<1>9. gauges'[x] = CHOOSE o \in ToSet(items) : Labels(o) = x
  BY <1>2, <1>8
<1>10. (CHOOSE o \in ToSet(items) : Labels(o) = x) = Derive(e)
  BY <1>6, <1>8 DEF x
<1>. QED BY <1>9, <1>10 DEF x

\* The first reports are as before.
LEMMA TotalSame ==
  ASSUME NEW r1, NEW r2, NEW n \in Nat, \A i \in 1..n : r1[i] = r2[i]
  PROVE  /\ TotalRequests(r1, n) = TotalRequests(r2, n)
         /\ AllAlone(r1, n) <=> AllAlone(r2, n)
<1>1. [i \in 1..n |-> r1[i].total.requests] = [i \in 1..n |-> r2[i].total.requests]
  OBVIOUS
<1>. QED BY <1>1 DEF TotalRequests, AllAlone

\* One more line.
LEMMA LineAdds ==
  ASSUME NEW s \in Seq(Int), NEW v \in Int
  PROVE  SumFunction(Append(s, v)) = SumFunction(s) + v
<1>. DEFINE t == Append(s, v)
            n == Len(s)
<1>1. /\ n \in Nat /\ DOMAIN s = 1..n /\ DOMAIN t = 1..(n + 1) /\ t[n + 1] = v
      /\ \A i \in 1..n : s[i] \in Int /\ t[i] = s[i]
  OBVIOUS
<1>. HIDE DEF t, n
<1>2. SumFunctionOnSet(t, 1..(n + 1)) = SumFunctionOnSet(s, 1..n) + t[n + 1]
  BY <1>1, SumExtend
<1>. QED BY <1>1, <1>2 DEF SumFunction, t

\* JsonFileOutput writes the line of the report and the file of the summary.
LEMMA WriteKeepsFiles ==
  ASSUME PhaseInv, ShownInv, FileInv, WriteFiles
  PROVE  FileInv'
<1>. DEFINE n == NDone
            r == Last(reports)
<1>1. /\ n \in Nat /\ Len(reports) = n + 1 /\ r = reports[n + 1] /\ r \in HandedOver
      /\ NDone' = n + 1 /\ reports' = reports /\ reports \in Seq(HandedOver)
  BY DEF PhaseInv, WriteFiles, NDone, Last
<1>2. IsReport(r)
  BY <1>1, HandedReports
<1>3. PICK ent : Shows(ent, r.stats, rows)
  BY <1>1 DEF ShownInv, WriteFiles
<1>. DEFINE v == Requests(rows)
<1>4. v \in Int
  BY <1>3, ShownCount
<1>5. /\ lines \in Seq(Int) /\ Len(lines) <= n
      /\ Len(lines) = n /\ AllAlone(reports, n) => SumFunction(lines) = TotalRequests(reports, n)
  BY DEF FileInv
<1>6. kind = "json" /\ UNCHANGED <<kind, summary>> /\ step' = "done"
  BY DEF WriteFiles
<1>7. ~ended' => totalFile' = <<summary.requests>>
  BY DEF WriteFiles, WriteTotal
<1>8. AllAlone(reports, n + 1) => AllAlone(reports, n) /\ v = r.total.requests
  <2>. SUFFICES ASSUME AllAlone(reports, n + 1)
                PROVE  AllAlone(reports, n) /\ v = r.total.requests
    OBVIOUS
  <2>1. n + 1 \in 1..(n + 1) /\ \A i \in 1..n : i \in 1..(n + 1)
    BY <1>1
  <2>. HIDE DEF n, r
  <2>2. \A e \in r.stats : Alone(r.stats, e.name)
    BY <1>1, <2>1 DEF AllAlone
  <2>3. AllAlone(reports, n)
    BY <2>1 DEF AllAlone
  <2>4. v = r.total.requests
    BY <1>2, <1>3, <2>2, RowsTotal
  <2>. QED BY <2>3, <2>4
<1>9. TotalRequests(reports, n + 1) = TotalRequests(reports, n) + r.total.requests
  <2>. HIDE DEF n, r
  <2>1. n + 1 <= Len(reports)
    BY <1>1
  <2>. QED BY <1>1, <2>1, TotalsGrow
<1>10. lines' = Append(lines, v) \/ lines' = lines
  BY DEF WriteFiles, AppendLine
<1>11. SumFunction(Append(lines, v)) = SumFunction(lines) + v
  BY <1>4, <1>5, LineAdds
<1>. HIDE DEF n, r, v, NDone
<1>12. /\ lines' \in Seq(Int) /\ Len(lines') <= n + 1
       /\ Len(lines') = n + 1 => lines' = Append(lines, v) /\ Len(lines) = n
  <2>1. Append(lines, v) \in Seq(Int) /\ Len(Append(lines, v)) = Len(lines) + 1 /\ Len(lines) \in Nat
    BY <1>4, <1>5
  <2>2. CASE lines' = lines
    BY <1>1, <1>5, <2>1, <2>2
  <2>3. CASE lines' = Append(lines, v)
    BY <1>1, <1>5, <2>1, <2>3
  <2>. QED BY <1>10, <2>2, <2>3
<1>13. Len(lines') = n + 1 /\ AllAlone(reports, n + 1) =>
         SumFunction(lines') = TotalRequests(reports, n + 1)
  BY <1>5, <1>8, <1>9, <1>11, <1>12
<1>. QED BY <1>1, <1>6, <1>7, <1>12, <1>13 DEF FileInv

\* The files, if the output does not get to the end of a report.
LEMMA FilesSame ==
  ASSUME FileInv, NDone \in Nat, NDone' = NDone, UNCHANGED <<kind, lines>>,
         \A i \in 1..NDone : reports'[i] = reports[i],
         step' # "done" \/ UNCHANGED <<step, reports, ended, totalFile, summary>>
                        \/ ended'
  PROVE  FileInv'
<1>1. /\ TotalRequests(reports', NDone) = TotalRequests(reports, NDone)
      /\ AllAlone(reports', NDone) <=> AllAlone(reports, NDone)
  BY TotalSame
<1>. HIDE DEF NDone
<1>. QED BY <1>1 DEF FileInv

\* The invariants of the rows, the gauges and the files hold.
LEMMA OutputsHold == Spec => [](ShownInv /\ GaugeInv /\ FileInv)
<1>. DEFINE Inv == ShownInv /\ GaugeInv /\ FileInv
<1>1. Init => Inv
  <2>. SUFFICES ASSUME Init PROVE Inv
    OBVIOUS
  <2>1. reports = << >> /\ lines = << >> /\ NDone = 0 /\ kind \in {"console", "json"}
    BY DEF Init, NDone
  <2>2. SumFunction(<< >>) = 0
    <3>1. DOMAIN << >> = {}
      OBVIOUS
    <3>. QED BY <3>1, SumEmpty DEF SumFunction
  <2>3. TotalRequests(reports, 0) = 0
    <3>. DEFINE f == [i \in 1..0 |-> reports[i].total.requests]
    <3>1. DOMAIN f = {}
      OBVIOUS
    <3>. HIDE DEF f
    <3>2. SumFunction(f) = 0
      BY <3>1, SumEmpty DEF SumFunction
    <3>. QED BY <3>2 DEF f, TotalRequests
  <2>4. FileInv
    BY <2>1, <2>2, <2>3 DEF FileInv
  <2>. QED BY <2>1, <2>4 DEF ShownInv, GaugeInv
<1>2. PhaseInv /\ SummaryInv /\ Inv /\ [Next]_vars => Inv'
  <2>. SUFFICES ASSUME PhaseInv, SummaryInv, ShownInv, GaugeInv, FileInv, [Next]_vars
                PROVE  ShownInv' /\ GaugeInv' /\ FileInv'
    OBVIOUS
  <2>0. reports \in Seq(HandedOver) /\ NDone \in Nat
    BY DEF PhaseInv, NDone
  <2>1. CASE HandOver
    <3>1. PICK r \in Reports : reports' = Append(reports, Handed(r, Len(reports)))
      BY <2>1, Zenon DEF HandOver, Handed
    <3>2. NDone = Len(reports) /\ NDone' = Len(reports)
      BY <2>0, <2>1, <3>1 DEF HandOver, NDone
    <3>3. \A i \in 1..NDone : reports'[i] = reports[i]
      BY <2>0, <3>1, <3>2
    <3>4. FileInv'
      BY <2>0, <2>1, <3>2, <3>3, FilesSame DEF HandOver, fileVars
    <3>. QED BY <2>1, <3>4 DEF HandOver, ShownInv, GaugeInv
  <2>2. CASE BuildAllStats
    <3>1. NDone' = NDone /\ UNCHANGED <<reports, kind, lines, pushing, gauges>> /\ step' # "done"
      BY <2>2 DEF BuildAllStats, NDone, fileVars
    <3>2. ShownInv'
      BY <2>2, BuildShows
    <3>3. FileInv'
      BY <2>0, <3>1, FilesSame
    <3>. QED BY <3>1, <3>2, <3>3 DEF GaugeInv
  <2>3. CASE Render
    <3>1. /\ NDone' = NDone + 1 /\ UNCHANGED <<reports, kind, lines, pushing, gauges, rows>>
          /\ kind = "console" /\ step = "errors"
      BY <2>0, <2>3 DEF Render, NDone, fileVars
    <3>2. FileInv'
      <4>1. lines = << >> /\ Len(lines) = 0
        BY <3>1 DEF FileInv
      <4>. HIDE DEF NDone
      <4>. QED BY <2>0, <3>1, <4>1 DEF FileInv
    <3>. QED BY <3>1, <3>2 DEF GaugeInv, ShownInv
  <2>4. CASE WriteFiles
    <3>1. FileInv'
      BY <2>4, WriteKeepsFiles
    <3>. QED BY <2>4, <3>1 DEF WriteFiles, ShownInv, GaugeInv
  <2>5. CASE PushGauges
    <3>1. GaugeInv'
      BY <2>5, PushSetsGauges
    <3>2. UNCHANGED <<reports, kind, lines, step, rows, ended, totalFile, summary>> /\ NDone' = NDone
      BY <2>5 DEF PushGauges, outputVars, fileVars, NDone
    <3>3. FileInv'
      BY <2>0, <3>2, FilesSame
    <3>. QED BY <3>1, <3>2, <3>3 DEF ShownInv
  <2>6. CASE /\ UNCHANGED <<reports, kind, lines, step, rows, totalFile, summary, pushing, gauges>>
             /\ UNCHANGED ended \/ ended'
    <3>1. NDone' = NDone
      BY <2>6 DEF NDone
    <3>2. FileInv'
      BY <2>0, <2>6, <3>1, FilesSame
    <3>. QED BY <2>6, <3>2 DEF ShownInv, GaugeInv
  <2>7. CASE ConcurrentMapFault
    BY <2>6, <2>7 DEF ConcurrentMapFault, outputVars
  <2>8. CASE \E k \in todo : MergeError(k)
    BY <2>6, <2>8 DEF MergeError, fileVars
  <2>9. CASE StartSerializing \/ Serialize
    BY <2>6, <2>9 DEF StartSerializing, Serialize, outputVars, fileVars
  <2>10. CASE UNCHANGED vars
    BY <2>6, <2>10 DEF vars, outputVars, fileVars
  <2>. QED BY <2>1, <2>2, <2>3, <2>4, <2>5, <2>7, <2>8, <2>9, <2>10 DEF Next
<1>. QED BY <1>1, <1>2, PhaseHolds, SummaryHolds, PTL DEF Spec

\* When all outputs are done with a report, the gauges have the data of its entries,
\* whatever the order in which convertData lists them; the rows show the same data for
\* every name that occurs once in it; and the lines of the real time file add up to
\* the total file, as long as none failed to be written and no name had two methods
\* in one report.
THEOREM OutputsAlwaysAgree == Spec => []OutputsAgree
<1>1. PhaseInv /\ SummaryInv /\ ShownInv /\ GaugeInv /\ FileInv => OutputsAgree
  <2>. SUFFICES ASSUME PhaseInv, SummaryInv, ShownInv, GaugeInv, FileInv,
                       step = "done", ~pushing, reports # << >>, ~ended
                PROVE  /\ \A e \in Last(reports).stats :
                            /\ gauges[Labels(e)].requests = e.requests
                            /\ ~Shared(Len(reports), e.name) => gauges[Labels(e)] \in ToSet(rows)
                       /\ /\ Len(lines) = Len(reports)
                          /\ \A i \in DOMAIN reports : \A e \in reports[i].stats : ~Shared(i, e.name)
                          => totalFile = <<SumFunction(lines)>>
    BY DEF OutputsAgree
  <2>. DEFINE n == Len(reports)
  <2>1. /\ n \in Nat \ {0} /\ Last(reports) = reports[n] /\ DOMAIN reports = 1..n
        /\ NDone = n /\ NBuilt = n
    BY DEF PhaseInv, NDone, NBuilt, Last
  <2>2. \A i \in 1..n : IsReport(reports[i]) /\ IsFiniteSet(reports[i].stats)
    BY HandedReports DEF PhaseInv, IsReport
  <2>3. ASSUME NEW e \in Last(reports).stats
        PROVE  /\ gauges[Labels(e)].requests = e.requests
               /\ ~Shared(n, e.name) => gauges[Labels(e)] \in ToSet(rows)
    <3>1. gauges[Labels(e)] = Derive(e)
      BY DEF GaugeInv
    <3>2. Derive(e).requests = e.requests
      BY DEF Derive
    <3>3. ASSUME ~Shared(n, e.name) PROVE Derive(e) \in ToSet(rows)
      <4>1. n \in 1..n
        BY <2>1
      <4>. HIDE DEF n
      <4>2. Alone(Last(reports).stats, e.name)
        BY <2>1, <2>2, <3>3, <4>1, NotShared
      <4>3. PICK ent : Shows(ent, Last(reports).stats, rows)
        BY DEF ShownInv
      <4>4. PICK j \in DOMAIN ent : ent[j] = e
        BY <4>3 DEF Shows
      <4>5. rows[j] = Derive(e) /\ j \in DOMAIN rows
        BY <4>2, <4>3, <4>4 DEF Shows
      <4>. QED BY <4>5 DEF ToSet
    <3>. QED BY <3>1, <3>2, <3>3
  <2>4. ASSUME Len(lines) = n,
               \A i \in DOMAIN reports : \A e \in reports[i].stats : ~Shared(i, e.name)
        PROVE  totalFile = <<SumFunction(lines)>>
    <3>. HIDE DEF n
    <3>1. AllAlone(reports, n)
      BY <2>1, <2>2, <2>4, NotShared DEF AllAlone
    <3>2. SumFunction(lines) = TotalRequests(reports, n)
      BY <2>1, <2>4, <3>1 DEF FileInv
    <3>3. summary.requests = TotalRequests(reports, n)
      BY <2>1 DEF SummaryInv
    <3>4. kind = "json"
      <4>1. lines # << >>
        BY <2>1, <2>4
      <4>. QED BY <4>1 DEF FileInv
    <3>5. totalFile = <<summary.requests>>
      BY <3>4 DEF FileInv
    <3>. QED BY <3>2, <3>3, <3>5
  <2>. HIDE DEF n
  <2>5. /\ Len(lines) = n
        /\ \A i \in DOMAIN reports : \A e \in reports[i].stats : ~Shared(i, e.name)
        => totalFile = <<SumFunction(lines)>>
    BY <2>4
  <2>. QED BY <2>3, <2>5 DEF n
<1>. QED BY <1>1, PhaseHolds, SummaryHolds, OutputsHold, PTL
=============================================================================
