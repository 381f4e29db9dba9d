------------------------- MODULE ResponseWriteProofs -------------------------
(* Theorems about ResponseWrite, for every number of responses, parts and  *)
(* iovecs, whatever the socket takes of each write.                        *)
EXTENDS ResponseWrite, SequenceTheorems, WellFoundedInduction, TLAPS

\* Faults are variants beside the code; these are the code's.
USE DEF StartsWatch, Room, Passed, TotalAfter, Cut, Ending

-----------------------------------------------------------------------------
(* Sums and recursion                                                      *)

\* A set of numbers has a least element.
LEMMA LeastNumber ==
    ASSUME NEW S \in SUBSET Nat, S # {}
    PROVE  \E x \in S : \A y \in S : x <= y
<1>1. \E x \in S : \A y \in S : ~(<<y, x>> \in OpToRel(<, Nat))
  BY NatLessThanWellFounded, WFMin
<1>2. PICK x \in S : \A y \in S : ~(<<y, x>> \in OpToRel(<, Nat))
  BY <1>1
<1>3. ASSUME NEW y \in S PROVE x <= y
  <2>1. ~(<<y, x>> \in OpToRel(<, Nat))
    BY <1>2
  <2>2. ~(y < x)
    BY <2>1 DEF OpToRel
  <2> QED BY <2>2
<1> QED BY <1>2, <1>3

\* A set of numbers up to n has a largest element.
LEMMA Largest ==
    ASSUME NEW n \in Nat, NEW S \in SUBSET (0..n), S # {}
    PROVE  Max(S) \in S /\ \A y \in S : y <= Max(S)
<1> DEFINE T == {n - x : x \in S}
<1>1. T \in SUBSET Nat /\ T # {}
  <2>1. ASSUME NEW x \in S PROVE n - x \in Nat
    OBVIOUS
  <2>2. PICK x \in S : TRUE
    OBVIOUS
  <2>3. n - x \in T
    OBVIOUS
  <2> QED BY <2>1, <2>3
<1>2. PICK t \in T : \A u \in T : t <= u
  <2> HIDE DEF T
  <2> QED BY <1>1, LeastNumber
<1>3. PICK x \in S : t = n - x
  BY <1>2
<1>4. \A y \in S : x >= y
  BY <1>2, <1>3
<1>5. Max(S) \in S /\ \A y \in S : Max(S) >= y
  BY <1>4 DEF Max
<1> QED BY <1>5

\* What is defined step by step exists.
LEMMA Recursion ==
    ASSUME NEW V, NEW a \in V, NEW n \in Nat, NEW g \in [1..n -> [V -> V]]
    PROVE  \E f \in [0..n -> V] : f[0] = a /\ \A i \in 1..n : f[i] = g[i][f[i - 1]]
<1> DEFINE Ok(m) == \E f \in [0..m -> V] : f[0] = a /\ \A i \in 1..m : f[i] = g[i][f[i - 1]]
<1> DEFINE S == {m \in 0..n : ~Ok(m)}
<1>1. Ok(0)
  <2> DEFINE f == [i \in 0..0 |-> a]
  <2>1. f \in [0..0 -> V] /\ f[0] = a /\ \A i \in 1..0 : f[i] = g[i][f[i - 1]]
    OBVIOUS
  <2> QED BY <2>1
<1>2. ASSUME NEW m \in 1..n, Ok(m - 1) PROVE Ok(m)
  <2>1. PICK f \in [0..(m - 1) -> V] : f[0] = a /\ \A i \in 1..(m - 1) : f[i] = g[i][f[i - 1]]
    BY <1>2
  <2> DEFINE h == [i \in 0..m |-> IF i = m THEN g[m][f[m - 1]] ELSE f[i]]
  <2>2. g[m][f[m - 1]] \in V
    <3>1. m - 1 \in 0..(m - 1) /\ m \in 1..n
      OBVIOUS
    <3>2. f[m - 1] \in V /\ g[m] \in [V -> V]
      BY <3>1
    <3> QED BY <3>2
  <2>3. \A i \in 0..m : i # m => i \in 0..(m - 1) /\ f[i] \in V
    OBVIOUS
  <2>4. h \in [0..m -> V]
    BY <2>2, <2>3
  <2>5. h[m] = g[m][f[m - 1]] /\ \A i \in 0..(m - 1) : h[i] = f[i]
    OBVIOUS
  <2> HIDE DEF h
  <2>6. h[0] = a
    BY <2>1, <2>5
  <2>7. ASSUME NEW i \in 1..m PROVE h[i] = g[i][h[i - 1]]
    <3>1. i - 1 \in 0..(m - 1)
      OBVIOUS
    <3>2. h[i - 1] = f[i - 1]
      BY <2>5, <3>1
    <3>3. CASE i = m
      BY <2>5, <3>2, <3>3
    <3>4. CASE i # m
      <4>1. i \in 1..(m - 1) /\ i \in 0..(m - 1)
        BY <3>4
      <4>2. h[i] = f[i] /\ f[i] = g[i][f[i - 1]]
        BY <2>1, <2>5, <4>1
      <4> QED BY <3>2, <4>2
    <3> QED BY <3>3, <3>4
  <2> QED BY <2>4, <2>6, <2>7
<1> HIDE DEF Ok
<1>3. S = {}
  <2> SUFFICES ASSUME S # {} PROVE FALSE
    OBVIOUS
  <2>1. S \in SUBSET Nat
    OBVIOUS
  <2>2. PICK m \in S : \A x \in S : m <= x
    <3> HIDE DEF S
    <3> QED BY <2>1, LeastNumber
  <2>3. m # 0 /\ m \in 0..n /\ ~Ok(m)
    BY <1>1, <2>2
  <2>4. m \in 1..n /\ m - 1 \in 0..n /\ ~(m <= m - 1)
    BY <2>3
  <2>5. Ok(m - 1)
    BY <2>2, <2>4
  <2> QED BY <1>2, <2>3, <2>4, <2>5
<1>4. n \in 0..n
  OBVIOUS
<1>5. Ok(n)
  BY <1>3, <1>4
<1> QED BY <1>5 DEF Ok

\* Two sequences of numbers that grow alike differ by what they begin with.
LEMMA GrowAlike ==
    ASSUME NEW n \in Nat, NEW f \in [0..n -> Int], NEW g \in [0..n -> Int], NEW d \in Int,
           f[0] = g[0] + d, \A i \in 1..n : f[i] - f[i - 1] = g[i] - g[i - 1]
    PROVE  \A i \in 0..n : f[i] = g[i] + d
<1> SUFFICES ASSUME NEW j \in 0..n, f[j] # g[j] + d PROVE FALSE
  OBVIOUS
<1> DEFINE S == {i \in 0..n : f[i] # g[i] + d}
<1>1. S \in SUBSET Nat /\ S # {}
  <2>1. j \in S
    OBVIOUS
  <2>2. 0..n \subseteq Nat
    OBVIOUS
  <2> QED BY <2>1, <2>2
<1>2. PICK k \in S : \A i \in S : k <= i
  <2> HIDE DEF S
  <2> QED BY <1>1, LeastNumber
<1>3. k \in 1..n /\ k - 1 \in 0..n /\ k \in 0..n /\ ~(k <= k - 1)
  BY <1>2
<1>4. f[k - 1] = g[k - 1] + d
  BY <1>2, <1>3
<1>5. f[k] - f[k - 1] = g[k] - g[k - 1] /\ f[k] # g[k] + d
  BY <1>2, <1>3
<1>6. f[k] \in Int /\ g[k] \in Int /\ f[k - 1] \in Int /\ g[k - 1] \in Int
  BY <1>3
<1> DEFINE a == f[k]
<1> DEFINE b == f[k - 1]
<1> DEFINE c == g[k]
<1> DEFINE e == g[k - 1]
<1>7. a \in Int /\ b \in Int /\ c \in Int /\ e \in Int /\ a # c + d /\ b = e + d /\ a - b = c - e
  BY <1>4, <1>5, <1>6
<1> HIDE DEF a, b, c, e
<1> QED BY <1>7

\* What a sum is: step by step, and the same however far the sequence goes on.
LEMMA SumIsSome ==
    ASSUME NEW s, NEW n \in Nat, \A i \in 1..n : s[i] \in Nat
    PROVE  \E f \in [0..n -> Nat] :
              /\ f[0] = 0 /\ SumTo(s, n) = f[n]
              /\ \A i \in 1..n : f[i] = f[i - 1] + s[i]
<1> DEFINE Def(f) == f = [i \in 0..n |-> IF i = 0 THEN 0 ELSE f[i - 1] + s[i]]
<1> DEFINE g == [i \in 1..n |-> [v \in Nat |-> v + s[i]]]
<1>1. g \in [1..n -> [Nat -> Nat]]
  OBVIOUS
<1>2. \E f \in [0..n -> Nat] : f[0] = 0 /\ \A i \in 1..n : f[i] = g[i][f[i - 1]]
  <2> DEFINE V == Nat
  <2>1. 0 \in V /\ g \in [1..n -> [V -> V]]
    BY <1>1
  <2> HIDE DEF g, V
  <2>2. \E f \in [0..n -> V] : f[0] = 0 /\ \A i \in 1..n : f[i] = g[i][f[i - 1]]
    BY <2>1, Recursion
  <2> QED BY <2>2 DEF V
<1>3. PICK f \in [0..n -> Nat] : f[0] = 0 /\ \A i \in 1..n : f[i] = g[i][f[i - 1]]
  BY <1>2
<1>4. \A i \in 1..n : f[i] = f[i - 1] + s[i]
  <2>1. ASSUME NEW i \in 1..n PROVE f[i] = f[i - 1] + s[i]
    <3>1. f[i - 1] \in Nat
      OBVIOUS
    <3>2. g[i][f[i - 1]] = f[i - 1] + s[i]
      BY <3>1
    <3> QED BY <1>3, <3>2
  <2> QED BY <2>1
<1>5. Def(f)
  <2>1. ASSUME NEW i \in 0..n PROVE f[i] = IF i = 0 THEN 0 ELSE f[i - 1] + s[i]
    BY <1>3, <1>4
  <2> QED BY <2>1
<1> DEFINE sum == CHOOSE h : Def(h)
<1>6. Def(sum)
  BY <1>5
<1>7. SumTo(s, n) = sum[n]
  BY DEF SumTo
<1> HIDE DEF sum
<1>8. /\ DOMAIN sum = 0..n /\ sum[0] = 0
      /\ \A i \in 1..n : sum[i] = sum[i - 1] + s[i]
  BY <1>6
<1>9. ASSUME NEW k \in 0..n, sum[k] # f[k] PROVE FALSE
  <2> DEFINE S == {i \in 0..n : sum[i] # f[i]}
  <2>1. S \in SUBSET Nat /\ S # {}
    <3>1. k \in S
      BY <1>9
    <3>2. 0..n \subseteq Nat
      OBVIOUS
    <3> QED BY <3>1, <3>2
  <2>2. PICK j \in S : \A i \in S : j <= i
    <3> HIDE DEF S
    <3> QED BY <2>1, LeastNumber
  <2>3. j \in 1..n /\ j - 1 \in 0..n /\ ~(j <= j - 1) /\ sum[j] # f[j]
    BY <1>3, <1>8, <2>2
  <2>4. sum[j - 1] = f[j - 1]
    BY <2>2, <2>3
  <2> QED BY <1>4, <1>8, <2>3, <2>4
<1>10. n \in 0..n
  OBVIOUS
<1>11. SumTo(s, n) = f[n]
  BY <1>7, <1>9, <1>10
<1> QED BY <1>3, <1>4, <1>11

\* A sum is a number and grows by one number after the other.
LEMMA Sums ==
    ASSUME NEW s, NEW n \in Nat, \A i \in 1..n : s[i] \in Nat
    PROVE  /\ SumTo(s, 0) = 0
           /\ \A i \in 0..n : SumTo(s, i) \in Nat
           /\ \A i \in 1..n : SumTo(s, i) = SumTo(s, i - 1) + s[i]
<1>1. ASSUME NEW i \in 0..n PROVE i \in Nat /\ \A j \in 1..i : j \in 1..n /\ s[j] \in Nat
  OBVIOUS
<1>2. ASSUME NEW i \in 0..n
      PROVE  \E f \in [0..i -> Nat] :
                /\ f[0] = 0 /\ SumTo(s, i) = f[i]
                /\ \A j \in 1..i : f[j] = f[j - 1] + s[j]
  BY <1>1, SumIsSome
<1>3. ASSUME NEW i \in 0..n PROVE SumTo(s, i) \in Nat
  <2>1. i \in 0..i
    OBVIOUS
  <2>2. PICK f \in [0..i -> Nat] : SumTo(s, i) = f[i]
    BY <1>2
  <2> QED BY <2>1, <2>2
<1>4. SumTo(s, 0) = 0
  <2>1. 0 \in 0..n
    OBVIOUS
  <2> QED BY <1>2, <2>1
<1>5. ASSUME NEW i \in 1..n PROVE SumTo(s, i) = SumTo(s, i - 1) + s[i]
  <2>1. i \in 0..n /\ i - 1 \in 0..n /\ i - 1 \in Nat /\ i \in 1..i
    OBVIOUS
  <2>2. PICK f \in [0..i -> Nat] :
            /\ f[0] = 0 /\ SumTo(s, i) = f[i]
            /\ \A j \in 1..i : f[j] = f[j - 1] + s[j]
    BY <1>2, <2>1
  <2> DEFINE m == i - 1
  <2>3. m \in Nat /\ m \in 0..n
    BY <2>1
  <2> HIDE DEF m
  <2>4. PICK g \in [0..m -> Nat] :
            /\ g[0] = 0 /\ SumTo(s, m) = g[m]
            /\ \A j \in 1..m : g[j] = g[j - 1] + s[j]
    BY <1>2, <2>3
  <2> DEFINE h == [j \in 0..m |-> f[j]]
  <2>5. /\ \A j \in 0..m : j \in 0..i /\ f[j] \in Nat
        /\ \A j \in 1..m : j \in 1..i /\ j \in 0..m /\ j - 1 \in 0..m /\ s[j] \in Nat
        /\ 0 \in 0..m /\ m \in 0..m
    BY <1>1, <2>1 DEF m
  <2>6. h \in [0..m -> Int] /\ \A j \in 0..m : h[j] = f[j]
    BY <2>5
  <2> HIDE DEF h
  <2>7. g \in [0..m -> Int] /\ h[0] = g[0] + 0 /\ 0 \in Int
    BY <2>2, <2>4, <2>5, <2>6
  <2>8. ASSUME NEW j \in 1..m PROVE h[j] - h[j - 1] = g[j] - g[j - 1]
    <3>1. h[j] = f[j] /\ h[j - 1] = f[j - 1] /\ f[j - 1] \in Nat /\ g[j - 1] \in Nat /\ s[j] \in Nat
      BY <2>5, <2>6
    <3>2. f[j] = f[j - 1] + s[j] /\ g[j] = g[j - 1] + s[j]
      BY <2>2, <2>4, <2>5
    <3> QED BY <3>1, <3>2
  <2>9. \A j \in 0..m : h[j] = g[j] + 0
    BY <2>3, <2>6, <2>7, <2>8, GrowAlike
  <2>10. f[m] = g[m]
    BY <2>4, <2>5, <2>6, <2>9
  <2>11. f[i] = f[m] + s[i]
    BY <2>1, <2>2 DEF m
  <2> QED BY <2>2, <2>4, <2>10, <2>11 DEF m
<1> QED BY <1>3, <1>4, <1>5

\* Numbers that are the same from b on have the same sums from there.
LEMMA SumsAlike ==
    ASSUME NEW s, NEW t, NEW b \in Nat, NEW n \in Nat,
           \A i \in 1..(b + n) : s[i] \in Nat, \A i \in 1..n : t[i] \in Nat /\ t[i] = s[b + i]
    PROVE  \A i \in 0..n : SumTo(s, b + i) = SumTo(t, i) + SumTo(s, b)
<1> DEFINE f == [i \in 0..n |-> SumTo(s, b + i)]
<1> DEFINE g == [i \in 0..n |-> SumTo(t, i)]
<1> DEFINE d == SumTo(s, b)
<1>1. /\ SumTo(s, 0) = 0
      /\ \A i \in 0..(b + n) : SumTo(s, i) \in Nat
      /\ \A i \in 1..(b + n) : SumTo(s, i) = SumTo(s, i - 1) + s[i]
  <2>1. b + n \in Nat
    OBVIOUS
  <2> QED BY <2>1, Sums
<1>2. /\ SumTo(t, 0) = 0
      /\ \A i \in 0..n : SumTo(t, i) \in Nat
      /\ \A i \in 1..n : SumTo(t, i) = SumTo(t, i - 1) + t[i]
  BY Sums
<1>3. /\ \A i \in 0..n : b + i \in 0..(b + n)
      /\ \A i \in 1..n : b + i \in 1..(b + n) /\ i - 1 \in 0..n /\ i \in 0..n /\ b + (i - 1) = (b + i) - 1
      /\ b \in 0..(b + n) /\ 0 \in 0..n /\ b + 0 = b
  OBVIOUS
<1>4. f \in [0..n -> Int] /\ \A i \in 0..n : f[i] = SumTo(s, b + i)
  BY <1>1, <1>3
<1>5. g \in [0..n -> Int] /\ \A i \in 0..n : g[i] = SumTo(t, i)
  BY <1>2
<1>6. d \in Int /\ d \in Nat
  BY <1>1, <1>3
<1>7. f[0] = g[0] + d
  BY <1>2, <1>3, <1>6
<1> HIDE DEF f, g
<1>8. ASSUME NEW i \in 1..n PROVE f[i] - f[i - 1] = g[i] - g[i - 1]
  <2>1. f[i] = SumTo(s, b + i) /\ f[i - 1] = SumTo(s, (b + i) - 1)
    BY <1>3, <1>4
  <2>2. SumTo(s, b + i) = SumTo(s, (b + i) - 1) + s[b + i]
    BY <1>1, <1>3
  <2>3. g[i] = SumTo(t, i) /\ g[i - 1] = SumTo(t, i - 1) /\ SumTo(t, i) = SumTo(t, i - 1) + t[i]
    BY <1>2, <1>3, <1>5
  <2>4. f[i] = f[i - 1] + s[b + i] /\ g[i] = g[i - 1] + s[b + i] /\ s[b + i] \in Int
    BY <1>3, <2>1, <2>2, <2>3
  <2>5. f[i] \in Int /\ g[i] \in Int /\ f[i - 1] \in Int /\ g[i - 1] \in Int
    BY <1>3, <1>4, <1>5
  <2> HIDE DEF d
  <2> QED BY <2>4, <2>5
<1> HIDE DEF d
<1>9. \A i \in 0..n : f[i] = g[i] + d
  BY <1>4, <1>5, <1>6, <1>7, <1>8, GrowAlike
<1> QED BY <1>4, <1>5, <1>9 DEF d

\* Sums grow.
LEMMA SumsGrow ==
    ASSUME NEW s, NEW n \in Nat, \A i \in 1..n : s[i] \in Nat
    PROVE  \A i, j \in 0..n : i <= j => SumTo(s, i) <= SumTo(s, j)
<1> SUFFICES ASSUME NEW a \in 0..n, NEW c \in 0..n, a <= c, ~(SumTo(s, a) <= SumTo(s, c))
             PROVE  FALSE
  OBVIOUS
<1>1. /\ \A i \in 0..n : SumTo(s, i) \in Nat
      /\ \A i \in 1..n : SumTo(s, i) = SumTo(s, i - 1) + s[i]
  BY Sums
<1> DEFINE S == {k \in 0..n : a <= k /\ ~(SumTo(s, a) <= SumTo(s, k))}
<1>2. PICK k \in S : \A i \in S : k <= i
  <2>1. c \in S
    OBVIOUS
  <2>2. S \in SUBSET Nat
    OBVIOUS
  <2> HIDE DEF S
  <2> QED BY <2>1, <2>2, LeastNumber
<1>3. k # a
  <2> SUFFICES ASSUME k = a PROVE FALSE
    OBVIOUS
  <2>1. SumTo(s, a) \in Nat /\ ~(SumTo(s, a) <= SumTo(s, a))
    BY <1>1, <1>2
  <2> QED BY <2>1
<1>4. k \in 1..n /\ k - 1 \in 0..n /\ a <= k - 1 /\ ~(k <= k - 1) /\ k \in 0..n
  BY <1>2, <1>3
<1>5. SumTo(s, a) <= SumTo(s, k - 1)
  BY <1>2, <1>4
<1>6. /\ SumTo(s, k) = SumTo(s, k - 1) + s[k] /\ s[k] \in Nat /\ SumTo(s, k - 1) \in Nat
      /\ SumTo(s, a) \in Nat /\ ~(SumTo(s, a) <= SumTo(s, k))
  BY <1>1, <1>2, <1>4
<1> QED BY <1>5, <1>6

\* One number that is less makes the sums over it less.
LEMMA SumsCut ==
    ASSUME NEW s, NEW t, NEW n \in Nat, NEW p \in 1..n, NEW d \in Nat,
           \A i \in 1..n : s[i] \in Nat /\ t[i] \in Nat, s[p] = t[p] + d,
           \A i \in 1..n : i # p => t[i] = s[i]
    PROVE  /\ \A i \in 0..n : i < p => SumTo(t, i) = SumTo(s, i)
           /\ \A i \in 0..n : i >= p => SumTo(s, i) = SumTo(t, i) + d
<1>1. ASSUME NEW i \in 0..n, i < p PROVE SumTo(t, i) = SumTo(s, i)
  <2> DEFINE b == 0
  <2>1. b \in Nat /\ i \in Nat /\ i \in 0..i /\ b + i = i
    OBVIOUS
  <2> HIDE DEF b
  <2>2. /\ \A j \in 1..(b + i) : s[j] \in Nat
        /\ \A j \in 1..i : t[j] \in Nat /\ t[j] = s[b + j]
    <3>1. \A j \in 1..i : j \in 1..n /\ j # p
      BY <1>1
    <3>2. \A j \in 1..i : b + j = j
      BY DEF b
    <3> QED BY <2>1, <3>1, <3>2
  <2>3. SumTo(s, b + i) = SumTo(t, i) + SumTo(s, b)
    <3>1. \A j \in 0..i : SumTo(s, b + j) = SumTo(t, j) + SumTo(s, b)
      BY <2>1, <2>2, SumsAlike
    <3> QED BY <2>1, <3>1
  <2>4. SumTo(s, b) = 0
    BY Sums DEF b
  <2>5. SumTo(t, i) \in Nat
    BY Sums
  <2> QED BY <2>1, <2>3, <2>4, <2>5
<1>2. /\ \A i \in 0..n : SumTo(s, i) \in Nat
      /\ \A i \in 1..n : SumTo(s, i) = SumTo(s, i - 1) + s[i]
  BY Sums
<1>3. /\ \A i \in 0..n : SumTo(t, i) \in Nat
      /\ \A i \in 1..n : SumTo(t, i) = SumTo(t, i - 1) + t[i]
  BY Sums
<1>4. SumTo(s, p) = SumTo(t, p) + d
  <2>1. p - 1 \in 0..n /\ p - 1 < p
    OBVIOUS
  <2>2. SumTo(t, p - 1) = SumTo(s, p - 1)
    BY <1>1, <2>1
  <2>3. SumTo(s, p) = SumTo(s, p - 1) + s[p] /\ SumTo(t, p) = SumTo(t, p - 1) + t[p]
    BY <1>2, <1>3
  <2>4. SumTo(t, p - 1) \in Nat /\ t[p] \in Nat /\ s[p] \in Nat
    BY <1>3, <2>1
  <2> QED BY <2>2, <2>3, <2>4
<1>5. ASSUME NEW c \in 0..n, c >= p, SumTo(s, c) # SumTo(t, c) + d PROVE FALSE
  <2> DEFINE S == {i \in 0..n : i >= p /\ SumTo(s, i) # SumTo(t, i) + d}
  <2>1. PICK k \in S : \A i \in S : k <= i
    <3>1. c \in S
      BY <1>5
    <3>2. S \in SUBSET Nat
      OBVIOUS
    <3> HIDE DEF S
    <3> QED BY <3>1, <3>2, LeastNumber
  <2>2. k # p
    BY <1>4, <2>1
  <2>3. k \in 1..n /\ k - 1 \in 0..n /\ k - 1 >= p /\ ~(k <= k - 1) /\ k \in 0..n
    BY <2>1, <2>2
  <2>4. SumTo(s, k - 1) = SumTo(t, k - 1) + d
    BY <2>1, <2>3
  <2>5. SumTo(s, k) = SumTo(s, k - 1) + s[k] /\ SumTo(t, k) = SumTo(t, k - 1) + t[k]
    BY <1>2, <1>3, <2>3
  <2>6. SumTo(t, k - 1) \in Nat /\ t[k] \in Nat /\ t[k] = s[k]
    BY <1>3, <2>2, <2>3
  <2>7. SumTo(s, k) # SumTo(t, k) + d
    BY <2>1
  <2> QED BY <2>4, <2>5, <2>6, <2>7
<1> QED BY <1>1, <1>5

\* Numbers that are the same after q add the same to the sums.
LEMMA SumsTail ==
    ASSUME NEW s, NEW t, NEW n \in Nat, NEW q \in 0..n,
           \A i \in 1..n : s[i] \in Nat /\ t[i] \in Nat,
           \A i \in 1..n : i > q => t[i] = s[i]
    PROVE  \A i \in q..n : SumTo(s, i) - SumTo(s, q) = SumTo(t, i) - SumTo(t, q)
<1> DEFINE m == n - q
<1> DEFINE u == [i \in 1..m |-> s[q + i]]
<1>1. m \in Nat /\ q + m = n /\ q \in Nat
  OBVIOUS
<1>2. \A i \in 1..m : q + i \in 1..n /\ q + i > q
  OBVIOUS
<1>3. \A i \in 1..m : u[i] = s[q + i] /\ u[i] = t[q + i] /\ u[i] \in Nat
  BY <1>2
<1>4. \A i \in q..n : i - q \in 0..m /\ q + (i - q) = i
  OBVIOUS
<1>5. /\ \A i \in 0..n : SumTo(s, i) \in Nat
      /\ \A i \in 0..n : SumTo(t, i) \in Nat
  <2>1. \A i \in 0..n : SumTo(s, i) \in Nat
    BY Sums
  <2>2. \A i \in 0..n : SumTo(t, i) \in Nat
    BY Sums
  <2> QED BY <2>1, <2>2
<1> HIDE DEF m, u
<1>6. \A i \in 1..(q + m) : s[i] \in Nat /\ t[i] \in Nat
  BY <1>1
<1>7. \A i \in 0..m : SumTo(s, q + i) = SumTo(u, i) + SumTo(s, q)
  BY ZenonT(60), <1>1, <1>3, <1>6, SumsAlike
<1>8. \A i \in 0..m : SumTo(t, q + i) = SumTo(u, i) + SumTo(t, q)
  BY ZenonT(60), <1>1, <1>3, <1>6, SumsAlike
<1>9. \A i \in 0..m : SumTo(u, i) \in Nat
  BY <1>1, <1>3, Sums
<1>10. ASSUME NEW i \in q..n PROVE SumTo(s, i) - SumTo(s, q) = SumTo(t, i) - SumTo(t, q)
  <2> DEFINE j == i - q
  <2>1. j \in 0..m /\ q + j = i
    BY <1>4
  <2> HIDE DEF j
  <2>2. SumTo(s, i) = SumTo(u, j) + SumTo(s, q) /\ SumTo(t, i) = SumTo(u, j) + SumTo(t, q)
    BY <1>7, <1>8, <2>1
  <2>3. SumTo(s, q) \in Nat /\ SumTo(t, q) \in Nat /\ SumTo(u, j) \in Nat
    BY <1>5, <1>9, <2>1
  <2> QED BY <2>2, <2>3
<1> QED BY <1>10

\* Where a byte of what is left, l from p + 1 on, belongs among the parts pt.
LEMMA Position ==
    ASSUME NEW l, NEW pt, NEW n \in Nat, NEW p \in 0..(n - 1),
           \A k \in 1..n : l[k] \in Nat /\ pt[k] \in Nat /\ l[k] <= pt[k],
           \A k \in 1..n : k > p + 1 => l[k] = pt[k],
           NEW k \in (p + 1)..n, NEW y \in 1..l[k]
    PROVE  /\ SumTo(pt, k - 1) < SumTo(pt, n) - SumTo(l, n) + SumTo(l, k - 1) + y
           /\ SumTo(pt, n) - SumTo(l, n) + SumTo(l, k - 1) + y <= SumTo(pt, k - 1) + pt[k]
<1> DEFINE q == p + 1
<1>1. q \in 0..n /\ q \in q..n /\ n \in q..n /\ k \in 1..n /\ k - 1 \in 0..n
  OBVIOUS
<1>2. \A i \in q..n : SumTo(l, i) - SumTo(l, q) = SumTo(pt, i) - SumTo(pt, q)
  <2>1. \A i \in 1..n : i > q => pt[i] = l[i]
    OBVIOUS
  <2>2. \A i \in 1..n : l[i] \in Nat /\ pt[i] \in Nat
    OBVIOUS
  <2> HIDE DEF q
  <2> QED BY <1>1, <2>1, <2>2, SumsTail
<1>3. /\ \A i \in 0..n : SumTo(l, i) \in Nat
      /\ \A i \in 1..n : SumTo(l, i) = SumTo(l, i - 1) + l[i]
  BY Sums
<1>4. /\ \A i \in 0..n : SumTo(pt, i) \in Nat
      /\ \A i \in 1..n : SumTo(pt, i) = SumTo(pt, i - 1) + pt[i]
  BY Sums
<1> DEFINE a == SumTo(l, n)
<1> DEFINE b == SumTo(pt, n)
<1> DEFINE c == SumTo(l, q)
<1> DEFINE d == SumTo(pt, q)
<1>5. a \in Nat /\ b \in Nat /\ c \in Nat /\ d \in Nat /\ a - c = b - d
  BY <1>1, <1>2, <1>3, <1>4
<1> DEFINE e == SumTo(l, k - 1)
<1> DEFINE f == SumTo(pt, k - 1)
<1> DEFINE g == l[k]
<1> DEFINE h == pt[k]
<1>6. e \in Nat /\ f \in Nat /\ g \in Nat /\ h \in Nat /\ g <= h /\ y \in 1..g
  BY <1>1, <1>3, <1>4
<1>7. CASE k = q
  <2>1. c = e + g /\ d = f + h
    <3>1. q \in 1..n
      OBVIOUS
    <3>2. SumTo(l, q) = SumTo(l, q - 1) + l[q] /\ SumTo(pt, q) = SumTo(pt, q - 1) + pt[q]
      BY <1>3, <1>4, <3>1
    <3> QED BY <1>7, <3>2
  <2> HIDE DEF a, b, c, d, e, f, g, h
  <2>2. f < b - a + e + y /\ b - a + e + y <= f + h
    BY <1>5, <1>6, <2>1
  <2> QED BY <2>2 DEF a, b, e, f, h
<1>8. CASE k # q
  <2>1. k - 1 \in q..n
    BY <1>8
  <2>2. e - c = f - d
    BY <1>2, <2>1
  <2>3. g = h
    BY <1>1, <1>8
  <2> HIDE DEF a, b, c, d, e, f, g, h
  <2>4. f < b - a + e + y /\ b - a + e + y <= f + h
    BY <1>5, <1>6, <2>2, <2>3
  <2> QED BY <2>4 DEF a, b, e, f, h
<1> QED BY <1>7, <1>8

-----------------------------------------------------------------------------
(* Sequences one after the other                                           *)

\* The first i of the sequences ss, with lengths t, are laid out in q.
LaidOut(q, ss, t, i) ==
    /\ Len(q) = SumTo(t, i)
    /\ \A x \in 1..Len(q) : \E j \in 1..i : \E y \in 1..t[j] :
        x = SumTo(t, j - 1) + y /\ q[x] = ss[j][y]

\* One more sequence is laid out at the end.
LEMMA OneMore ==
    ASSUME NEW V, NEW ss \in Seq(Seq(V)), NEW t, \A j \in 1..Len(ss) : t[j] = Len(ss[j]),
           NEW i \in 1..Len(ss), NEW q \in Seq(V), LaidOut(q, ss, t, i - 1)
    PROVE  q \o ss[i] \in Seq(V) /\ LaidOut(q \o ss[i], ss, t, i)
<1>1. Len(ss) \in Nat /\ DOMAIN ss = 1..Len(ss) /\ \A j \in 1..Len(ss) : ss[j] \in Seq(V)
  BY LenProperties, ElementOfSeq
<1>2. \A j \in 1..Len(ss) : t[j] \in Nat
  BY <1>1, LenProperties
<1>3. /\ \A j \in 0..Len(ss) : SumTo(t, j) \in Nat
      /\ SumTo(t, i) = SumTo(t, i - 1) + t[i]
  BY <1>1, <1>2, Sums
<1> DEFINE r == ss[i]
<1> DEFINE p == q \o r
<1>4. r \in Seq(V) /\ Len(r) = t[i] /\ Len(q) = SumTo(t, i - 1) /\ Len(q) \in Nat /\ Len(r) \in Nat
  BY <1>1, LenProperties DEF LaidOut
<1>5. p \in Seq(V) /\ Len(p) = Len(q) + Len(r)
  <2> HIDE DEF r
  <2> QED BY <1>4, ConcatProperties
<1>6. /\ \A x \in 1..Len(q) : p[x] = q[x]
      /\ \A x \in (Len(q) + 1)..(Len(q) + Len(r)) : p[x] = r[x - Len(q)]
  <2>1. \A x \in 1..(Len(q) + Len(r)) : p[x] = IF x <= Len(q) THEN q[x] ELSE r[x - Len(q)]
    <3> HIDE DEF r
    <3> QED BY SMTT(60), <1>4, ConcatProperties
  <2>2. /\ \A x \in 1..Len(q) : x \in 1..(Len(q) + Len(r)) /\ x <= Len(q)
        /\ \A x \in (Len(q) + 1)..(Len(q) + Len(r)) :
             x \in 1..(Len(q) + Len(r)) /\ ~(x <= Len(q))
    <3> HIDE DEF r
    <3> QED BY <1>4
  <2> HIDE DEF p, r
  <2> QED BY <2>1, <2>2
<1> HIDE DEF p
<1>7. Len(p) = SumTo(t, i)
  BY <1>3, <1>4, <1>5
<1>8. ASSUME NEW x \in 1..Len(p)
      PROVE  \E j \in 1..i : \E y \in 1..t[j] : x = SumTo(t, j - 1) + y /\ p[x] = ss[j][y]
  <2>1. CASE x <= Len(q)
    <3>1. x \in 1..Len(q)
      BY <1>4, <2>1
    <3>2. PICK j \in 1..(i - 1) : \E y \in 1..t[j] : x = SumTo(t, j - 1) + y /\ q[x] = ss[j][y]
      BY <3>1 DEF LaidOut
    <3>3. j \in 1..i
      BY <1>1
    <3> QED BY <1>6, <3>1, <3>2, <3>3
  <2>2. CASE ~(x <= Len(q))
    <3> DEFINE y == x - Len(q)
    <3>1. y \in 1..t[i] /\ x \in (Len(q) + 1)..(Len(q) + Len(r)) /\ x = SumTo(t, i - 1) + y
      BY <1>4, <1>5, <2>2
    <3>2. p[x] = ss[i][y]
      BY <1>6, <3>1
    <3>3. i \in 1..i
      BY <1>1
    <3> HIDE DEF y
    <3> QED BY <3>1, <3>2, <3>3
  <2> QED BY <2>1, <2>2
<1>9. LaidOut(p, ss, t, i)
  BY <1>7, <1>8 DEF LaidOut
<1> QED BY <1>5, <1>9 DEF p

\* Joined one after the other.
Chain(f, n, ss) == f[0] = <<>> /\ \A i \in 1..n : f[i] = f[i - 1] \o ss[i]

\* What is joined step by step exists.
LEMMA ConcatSteps ==
    ASSUME NEW V, NEW n \in Nat, NEW ss, \A j \in 1..n : ss[j] \in Seq(V)
    PROVE  \E f \in [0..n -> Seq(V)] : Chain(f, n, ss)
<1> DEFINE W == Seq(V)
<1> DEFINE g == [i \in 1..n |-> [v \in W |-> v \o ss[i]]]
<1> DEFINE e == <<>>
<1>1. g \in [1..n -> [W -> W]]
  <2>1. \A i \in 1..n, v \in W : v \o ss[i] \in W
    BY ConcatProperties
  <2> QED BY <2>1
<1>2. e \in W
  BY EmptySeq
<1>3. \E f \in [0..n -> W] : f[0] = e /\ \A i \in 1..n : f[i] = g[i][f[i - 1]]
  <2> HIDE DEF g, W, e
  <2> QED BY <1>1, <1>2, Recursion
<1>4. PICK f \in [0..n -> W] : f[0] = e /\ \A i \in 1..n : f[i] = g[i][f[i - 1]]
  BY <1>3
<1>5. ASSUME NEW i \in 1..n PROVE f[i] = f[i - 1] \o ss[i]
  <2>1. f[i - 1] \in W
    OBVIOUS
  <2>2. \A v \in W : g[i][v] = v \o ss[i]
    OBVIOUS
  <2> HIDE DEF g, W
  <2> QED BY <1>4, <2>1, <2>2
<1> QED BY <1>4, <1>5 DEF Chain

\* FlattenSeq lays out all of them.
LEMMA Flattened ==
    ASSUME NEW V, NEW ss \in Seq(Seq(V)), NEW t, \A j \in 1..Len(ss) : t[j] = Len(ss[j])
    PROVE  FlattenSeq(ss) \in Seq(V) /\ LaidOut(FlattenSeq(ss), ss, t, Len(ss))
<1> DEFINE N == Len(ss)
<1> DEFINE W == Seq(V)
<1>1. N \in Nat /\ DOMAIN ss = 1..N /\ \A j \in 1..N : ss[j] \in W
  BY LenProperties, ElementOfSeq
<1>2. \A j \in 1..N : t[j] \in Nat
  BY <1>1, LenProperties
<1>3. SumTo(t, 0) = 0
  <2> HIDE DEF N
  <2> QED BY <1>1, <1>2, Sums
<1>4. CASE N = 0
  <2>1. ss = <<>> /\ FlattenSeq(ss) = ss
    BY <1>4, EmptySeq DEF FlattenSeq
  <2>2. Len(<<>>) = 0
    OBVIOUS
  <2>3. <<>> \in Seq(V)
    BY EmptySeq
  <2>4. LaidOut(<<>>, ss, t, 0)
    BY <1>3, <2>2 DEF LaidOut
  <2> QED BY <1>4, <2>1, <2>3, <2>4
<1>5. CASE N # 0
  <2> DEFINE Def(f) == f = [i \in 1..N |-> IF i = 1 THEN ss[i] ELSE f[i - 1] \o ss[i]]
  <2>5. PICK f \in [0..N -> W] : Chain(f, N, ss)
    <3>1. N \in Nat /\ \A j \in 1..N : ss[j] \in Seq(V)
      BY <1>1
    <3> HIDE DEF N
    <3> QED BY <3>1, ConcatSteps
  <2>6. ASSUME NEW i \in 1..N PROVE f[i] = f[i - 1] \o ss[i] /\ f[i] \in W /\ f[i - 1] \in W
    <3>1. i \in 0..N /\ i - 1 \in 0..N
      BY <1>1
    <3>2. f[i - 1] \in W /\ f[i] \in W
      BY <3>1
    <3> HIDE DEF W, N
    <3> QED BY <2>5, <3>2 DEF Chain
  <2> DEFINE h == [i \in 1..N |-> f[i]]
  <2>7. Def(h)
    <3>1. \A i \in 1..N : i # 1 => i - 1 \in 1..N
      BY <1>1
    <3>2. ASSUME NEW i \in 1..N PROVE h[i] = IF i = 1 THEN ss[i] ELSE h[i - 1] \o ss[i]
      <4>1. CASE i = 1
        <5>1. i - 1 = 0 /\ f[0] = <<>>
          BY <2>5, <4>1 DEF Chain
        <5>2. h[i] = <<>> \o ss[i] /\ ss[i] \in W
          BY <1>1, <2>6, <5>1
        <5> QED BY <4>1, <5>2, ConcatEmptySeq
      <4>2. CASE i # 1
        BY <2>6, <3>1, <4>2
      <4> QED BY <4>1, <4>2
    <3>3. h = [i \in 1..N |-> h[i]]
      OBVIOUS
    <3> HIDE DEF h
    <3> QED BY <3>2, <3>3
  <2> DEFINE flatten == CHOOSE k : Def(k)
  <2>8. Def(flatten)
    <3> HIDE DEF h
    <3> QED BY <2>7
  <2>9. FlattenSeq(ss) = flatten[N]
    BY <1>5 DEF FlattenSeq
  <2> HIDE DEF flatten, h
  <2>10. /\ flatten[1] = ss[1]
         /\ \A i \in 1..N : i # 1 => flatten[i] = flatten[i - 1] \o ss[i]
    <3>1. \A i \in 1..N : flatten[i] = IF i = 1 THEN ss[i] ELSE flatten[i - 1] \o ss[i]
      BY <2>8
    <3>2. 1 \in 1..N
      BY <1>1, <1>5
    <3> QED BY <3>1, <3>2
  <2> DEFINE Ok(i) == flatten[i] \in Seq(V) /\ LaidOut(flatten[i], ss, t, i)
  <2>11. Ok(1)
    <3>1. 1 \in 1..N
      BY <1>1, <1>5
    <3>2. <<>> \in Seq(V) /\ LaidOut(<<>>, ss, t, 1 - 1)
      <4>1. Len(<<>>) = 0 /\ <<>> \in Seq(V)
        BY EmptySeq
      <4> QED BY <1>3, <4>1 DEF LaidOut
    <3>3. <<>> \o ss[1] \in Seq(V) /\ LaidOut(<<>> \o ss[1], ss, t, 1)
      BY <3>1, <3>2, OneMore
    <3>4. <<>> \o ss[1] = ss[1]
      BY <1>1, <3>1, ConcatEmptySeq
    <3> QED BY <2>10, <3>3, <3>4
  <2>12. ASSUME NEW i \in 1..N, i # 1, Ok(i - 1) PROVE Ok(i)
    <3> DEFINE q == flatten[i - 1]
    <3>1. q \in Seq(V) /\ LaidOut(q, ss, t, i - 1)
      BY <2>12
    <3> HIDE DEF q
    <3>2. q \o ss[i] \in Seq(V) /\ LaidOut(q \o ss[i], ss, t, i)
      BY <3>1, OneMore
    <3>3. flatten[i] = q \o ss[i]
      BY <2>10, <2>12 DEF q
    <3> QED BY <3>2, <3>3
  <2> HIDE DEF Ok
  <2>13. ASSUME NEW j \in 1..N, ~Ok(j) PROVE FALSE
    <3> DEFINE S == {i \in 1..N : ~Ok(i)}
    <3>1. PICK k \in S : \A i \in S : k <= i
      <4>1. j \in S
        BY <2>13
      <4>2. S \in SUBSET Nat
        BY <1>1
      <4> HIDE DEF S
      <4> QED BY <4>1, <4>2, LeastNumber
    <3>2. k \in 1..N /\ k # 1 /\ ~Ok(k)
      BY <2>11, <3>1
    <3>3. k - 1 \in 1..N /\ ~(k <= k - 1)
      BY <1>1, <3>2
    <3>4. Ok(k - 1)
      BY <3>1, <3>3
    <3> QED BY <2>12, <3>2, <3>4
  <2>14. Ok(N)
    <3>1. N \in 1..N
      BY <1>1, <1>5
    <3> QED BY <2>13, <3>1
  <2> QED BY <2>9, <2>14 DEF Ok
<1> QED BY <1>4, <1>5

-----------------------------------------------------------------------------
(* The inductive invariant                                                 *)

Byte == [r : Rids, k : Nat, at : Nat]
Sizes == [q \in Rids |-> Size(q)]

\* Types: more than TypeOK says of the sequences.
Types ==
    /\ made \in 0..MaxResponses /\ front \in 0..made
    /\ ready \subseteq 1..made /\ closing \subseteq ready
    /\ watch \in BOOLEAN /\ open \in BOOLEAN
    /\ writing \in {"no", "write", "user"}
    /\ parts \in [Rids -> Seq(Nat \ {0})]
    /\ iov \in [Rids -> Seq([base : Nat, len : Nat \ {0}])]
    /\ processed \in [Rids -> Nat] /\ total \in [Rids -> Nat]
    /\ wire \in Seq(Byte)

\* A response has an iovec for each part, none longer than its part.
Fitting(r) ==
    /\ Len(iov[r]) = Len(parts[r]) /\ processed[r] <= Len(iov[r])
    /\ \A k \in 1..Len(iov[r]) :
        iov[r][k].len <= parts[r][k] /\ iov[r][k].base <= parts[r][k]
    /\ r \in ready => parts[r] \in Shapes
    /\ r \notin ready => parts[r] = <<>> /\ processed[r] = 0 /\ total[r] = 0

\* What is left of a response in _out: _total_size bytes, of which only the
\* first part may have been cut.
Remaining(r) ==
    /\ processed[r] < Len(iov[r])
    /\ total[r] = SumTo(Lengths(r), Len(iov[r])) - SumTo(Lengths(r), processed[r])
    /\ \A k \in 1..Len(iov[r]) : k > processed[r] + 1 => iov[r][k].len = parts[r][k]

\* A response behind the front is untouched.
Untouched(r) == processed[r] = 0 /\ iov[r][1].len = parts[r][1]

\* What the front of the queue has on the wire.
Sent ==
    Len(wire) = SumTo(Sizes, front)
                + (IF FrontReady THEN Size(front + 1) - total[front + 1] ELSE 0)

\* The inductive invariant.
WInv ==
    /\ Types /\ 1..front \subseteq ready
    /\ \A r \in Rids : Fitting(r)
    /\ writing # "no" => open
    /\ open => CloseHonoured
    /\ open => \A r \in ready : r > front => Remaining(r)
    /\ open => \A r \in ready : r > front + 1 => Untouched(r)
    /\ open => Sent
    /\ Places /\ Armed

-----------------------------------------------------------------------------
(* What is left of a response                                              *)

\* The parts and the iovecs of a response.
LEMMA Iovecs ==
    ASSUME Types, NEW r \in Rids, Fitting(r)
    PROVE  /\ Len(iov[r]) \in Nat /\ Len(parts[r]) = Len(iov[r])
           /\ processed[r] \in 0..Len(iov[r]) /\ total[r] \in Nat
           /\ DOMAIN iov[r] = 1..Len(iov[r]) /\ DOMAIN parts[r] = 1..Len(iov[r])
           /\ \A k \in 1..Len(iov[r]) :
                /\ iov[r][k] \in [base : Nat, len : Nat \ {0}]
                /\ Lengths(r)[k] = iov[r][k].len
                /\ Lengths(r)[k] \in Nat /\ Lengths(r)[k] # 0
                /\ parts[r][k] \in Nat /\ parts[r][k] # 0 /\ Lengths(r)[k] <= parts[r][k]
<1>1. /\ iov[r] \in Seq([base : Nat, len : Nat \ {0}]) /\ parts[r] \in Seq(Nat \ {0})
      /\ processed[r] \in Nat /\ total[r] \in Nat
  BY DEF Types
<1>2. Len(iov[r]) \in Nat /\ DOMAIN iov[r] = 1..Len(iov[r])
  BY <1>1, LenProperties
<1>3. DOMAIN parts[r] = 1..Len(parts[r]) /\ Len(parts[r]) = Len(iov[r])
  BY <1>1, LenProperties DEF Fitting
<1>4. \A k \in 1..Len(iov[r]) : iov[r][k] \in [base : Nat, len : Nat \ {0}]
  BY <1>1, ElementOfSeq
<1>5. \A k \in 1..Len(iov[r]) : parts[r][k] \in Nat \ {0}
  BY <1>1, <1>3, ElementOfSeq
<1>6. \A k \in 1..Len(iov[r]) : Lengths(r)[k] = iov[r][k].len
  BY <1>2 DEF Lengths
<1>7. \A k \in 1..Len(iov[r]) : iov[r][k].len \in Nat \ {0}
  BY <1>4
<1>8. /\ processed[r] <= Len(iov[r])
      /\ \A k \in 1..Len(iov[r]) : iov[r][k].len <= parts[r][k]
  BY DEF Fitting
<1>9. processed[r] \in 0..Len(iov[r])
  BY <1>1, <1>2, <1>8
<1>10. ASSUME NEW k \in 1..Len(iov[r])
       PROVE  /\ Lengths(r)[k] \in Nat /\ Lengths(r)[k] # 0 /\ Lengths(r)[k] <= parts[r][k]
              /\ parts[r][k] \in Nat /\ parts[r][k] # 0
  BY <1>5, <1>6, <1>7, <1>8
<1> QED BY <1>1, <1>2, <1>3, <1>4, <1>6, <1>9, <1>10

\* The sums of the parts and of the iovecs of a response.
LEMMA IovecSums ==
    ASSUME Types, NEW r \in Rids, Fitting(r)
    PROVE  /\ \A i \in 0..Len(iov[r]) : SumTo(Lengths(r), i) \in Nat
           /\ \A i \in 0..Len(iov[r]) : SumTo(parts[r], i) \in Nat
           /\ \A i \in 1..Len(iov[r]) :
                SumTo(Lengths(r), i) = SumTo(Lengths(r), i - 1) + Lengths(r)[i]
           /\ \A i, j \in 0..Len(iov[r]) :
                i <= j => SumTo(Lengths(r), i) <= SumTo(Lengths(r), j)
           /\ Size(r) = SumTo(parts[r], Len(iov[r])) /\ Size(r) \in Nat
<1> DEFINE n == Len(iov[r])
<1> DEFINE l == Lengths(r)
<1> DEFINE pt == parts[r]
<1>1. /\ n \in Nat /\ Len(pt) = n
      /\ \A k \in 1..n : l[k] \in Nat
      /\ \A k \in 1..n : pt[k] \in Nat
  <2> HIDE DEF l
  <2>1. n \in Nat /\ Len(pt) = n
    BY Iovecs
  <2>2. \A k \in 1..n : l[k] \in Nat /\ pt[k] \in Nat
    BY Iovecs DEF l
  <2> QED BY <2>1, <2>2
<1> HIDE DEF n, l, pt
<1>2. \A i \in 0..n : SumTo(l, i) \in Nat
  BY <1>1, Sums
<1>3. \A i \in 1..n : SumTo(l, i) = SumTo(l, i - 1) + l[i]
  BY <1>1, Sums
<1>4. \A i \in 0..n : SumTo(pt, i) \in Nat
  BY <1>1, Sums
<1>5. \A i, j \in 0..n : i <= j => SumTo(l, i) <= SumTo(l, j)
  BY <1>1, SumsGrow
<1>6. Size(r) = SumTo(pt, n) /\ n \in 0..n
  BY <1>1 DEF Size, pt
<1>7. Size(r) \in Nat
  BY <1>4, <1>6
<1> QED BY <1>2, <1>3, <1>4, <1>5, <1>6, <1>7 DEF n, l, pt

\* Byte b stands in its part of response r when it is the i-th byte of r.
InPart(b, r, i) ==
    /\ b.r = r /\ b.k \in 1..Len(parts[r])
    /\ SumTo(parts[r], b.k - 1) < i /\ i <= SumTo(parts[r], b.k - 1) + parts[r][b.k]

\* The bytes of an iovec.
LEMMA OneIovec ==
    ASSUME Types, NEW r \in Rids, Fitting(r), NEW k \in 1..Len(iov[r])
    PROVE  /\ BytesOf(r, k) \in Seq(Byte) /\ Len(BytesOf(r, k)) = Lengths(r)[k]
           /\ \A y \in 1..Lengths(r)[k] : BytesOf(r, k)[y].r = r /\ BytesOf(r, k)[y].k = k
<1> DEFINE v == iov[r][k]
<1>1. v.len \in Nat /\ v.base \in Nat /\ v.len = Lengths(r)[k]
  BY Iovecs
<1>2. k \in Nat
  BY Iovecs
<1>3. BytesOf(r, k) = [i \in 1..v.len |-> [r |-> r, k |-> k, at |-> v.base + i - 1]]
  BY DEF BytesOf
<1> HIDE DEF v
<1>4. \A i \in 1..v.len : v.base + i - 1 \in Nat
  BY <1>1
<1>5. \A i \in 1..v.len : [r |-> r, k |-> k, at |-> v.base + i - 1] \in Byte
  BY <1>2, <1>4 DEF Byte
<1>6. BytesOf(r, k) \in Seq(Byte)
  BY SMTT(60), <1>1, <1>3, <1>5, IsASeq
<1>7. DOMAIN BytesOf(r, k) = 1..v.len
  BY <1>3
<1>8. Len(BytesOf(r, k)) = v.len
  BY <1>1, <1>6, <1>7, LenProperties
<1>9. \A y \in 1..v.len : BytesOf(r, k)[y].r = r /\ BytesOf(r, k)[y].k = k
  BY <1>3
<1> QED BY <1>1, <1>6, <1>8, <1>9

\* The bytes that are left of a response in the queue: as many as _total_size
\* says, the last ones of the response.
LEMMA WhatIsLeft ==
    ASSUME Types, NEW r \in Rids, Fitting(r), Remaining(r)
    PROVE  /\ BytesLeft(r) \in Seq(Byte) /\ Len(BytesLeft(r)) = total[r]
           /\ total[r] \in Nat /\ total[r] # 0 /\ total[r] <= Size(r)
           /\ \A x \in 1..total[r] : InPart(BytesLeft(r)[x], r, Size(r) - total[r] + x)
<1> DEFINE n == Len(iov[r])
<1> DEFINE p == processed[r]
<1> DEFINE l == Lengths(r)
<1> DEFINE pt == parts[r]
<1> DEFINE m == Left(r)
<1> DEFINE ss == [j \in 1..m |-> BytesOf(r, p + j)]
<1> DEFINE t == [j \in 1..m |-> l[p + j]]
<1>1. n \in Nat /\ Len(pt) = n /\ p \in 0..n /\ total[r] \in Nat
  BY Iovecs
<1>2. m = n - p
  BY DEF Left
<1>3. p < n
  BY DEF Remaining
<1>4. m \in Nat /\ m # 0 /\ p + m = n /\ p \in 0..(n - 1) /\ p \in Nat
  <2> HIDE DEF m, n, p
  <2> QED BY <1>1, <1>2, <1>3
<1>5. \A k \in 1..n : l[k] \in Nat /\ l[k] # 0 /\ pt[k] \in Nat /\ pt[k] # 0 /\ l[k] <= pt[k]
  <2> HIDE DEF l
  <2> QED BY Iovecs DEF l
<1>6. /\ \A i \in 0..n : SumTo(l, i) \in Nat
      /\ \A i \in 0..n : SumTo(pt, i) \in Nat
      /\ \A i \in 1..n : SumTo(l, i) = SumTo(l, i - 1) + l[i]
      /\ \A i, j \in 0..n : i <= j => SumTo(l, i) <= SumTo(l, j)
      /\ Size(r) = SumTo(pt, n) /\ Size(r) \in Nat
  <2> HIDE DEF l
  <2> QED BY IovecSums DEF l
<1>7. total[r] = SumTo(l, n) - SumTo(l, p)
  BY DEF Remaining
<1>8. \A k \in 1..n : k > p + 1 => l[k] = pt[k]
  <2>1. \A k \in 1..n : l[k] = iov[r][k].len
    <3> HIDE DEF l
    <3> QED BY Iovecs DEF l
  <2> HIDE DEF l
  <2> QED BY <2>1 DEF Remaining
<1>9. ASSUME NEW k \in 1..n
      PROVE  /\ BytesOf(r, k) \in Seq(Byte) /\ Len(BytesOf(r, k)) = l[k]
             /\ \A y \in 1..l[k] : BytesOf(r, k)[y].r = r /\ BytesOf(r, k)[y].k = k
  <2> HIDE DEF l
  <2> QED BY OneIovec DEF l
<1>10. BytesLeft(r) = FlattenSeq(ss)
  BY DEF BytesLeft
<1> HIDE DEF n, p, l, pt, m
<1>11. \A j \in 1..m : p + j \in 1..n /\ p + j >= p + 1 /\ p + (j - 1) = (p + j) - 1
                        /\ j - 1 \in 0..m /\ p + j \in (p + 1)..n
  BY <1>1, <1>4
<1>12. \A j \in 1..m : ss[j] = BytesOf(r, p + j) /\ t[j] = l[p + j]
  OBVIOUS
<1>13. ss \in Seq(Seq(Byte)) /\ Len(ss) = m
  <2>1. \A j \in 1..m : BytesOf(r, p + j) \in Seq(Byte)
    BY <1>9, <1>11
  <2>2. ss \in Seq(Seq(Byte))
    BY <1>4, <2>1, IsASeq
  <2>3. DOMAIN ss = 1..m
    OBVIOUS
  <2> HIDE DEF ss
  <2> QED BY <1>4, <2>2, <2>3, LenProperties
<1> HIDE DEF ss, t
<1>14. \A j \in 1..m : t[j] = Len(ss[j]) /\ t[j] \in Nat
  BY <1>5, <1>9, <1>11, <1>12
<1>15. FlattenSeq(ss) \in Seq(Byte) /\ LaidOut(FlattenSeq(ss), ss, t, m)
  BY <1>13, <1>14, Flattened
<1>16. \A i \in 0..m : SumTo(l, p + i) = SumTo(t, i) + SumTo(l, p)
  <2>1. \A i \in 1..(p + m) : l[i] \in Nat
    BY <1>4, <1>5
  <2>2. \A i \in 1..m : t[i] \in Nat /\ t[i] = l[p + i]
    BY <1>12, <1>14
  <2> QED BY <1>4, <2>1, <2>2, SumsAlike
<1>17. \A i \in 0..m : SumTo(t, i) \in Nat
  BY <1>4, <1>14, Sums
<1>18. m \in 0..m /\ n \in 0..n /\ p + 1 \in 1..n /\ p + 1 \in 0..n /\ (p + 1) - 1 = p
  BY <1>1, <1>4
<1>19. SumTo(t, m) = total[r]
  <2>1. SumTo(l, n) = SumTo(t, m) + SumTo(l, p)
    BY <1>4, <1>16, <1>18
  <2>2. SumTo(l, p) \in Nat /\ SumTo(t, m) \in Nat
    BY <1>1, <1>6, <1>17, <1>18
  <2> QED BY <1>7, <2>1, <2>2
<1>20. Len(BytesLeft(r)) = total[r] /\ BytesLeft(r) \in Seq(Byte)
  BY <1>10, <1>15, <1>19 DEF LaidOut
<1>21. total[r] # 0
  <2>1. /\ SumTo(l, p + 1) = SumTo(l, p) + l[p + 1] /\ SumTo(l, p + 1) <= SumTo(l, n)
        /\ l[p + 1] \in Nat /\ l[p + 1] # 0
        /\ SumTo(l, p) \in Nat /\ SumTo(l, n) \in Nat /\ SumTo(l, p + 1) \in Nat
    <3>1. p + 1 <= n
      BY <1>18, <1>1
    <3>2. SumTo(l, p + 1) <= SumTo(l, n)
      BY <1>6, <1>18, <3>1
    <3>3. SumTo(l, p + 1) = SumTo(l, (p + 1) - 1) + l[p + 1]
      BY <1>6, <1>18
    <3> QED BY <1>1, <1>5, <1>6, <1>18, <3>2, <3>3
  <2> QED BY <1>7, <2>1
<1>22. total[r] <= Size(r)
  <2>1. 1 \in 1..n /\ p + 1 \in (p + 1)..n /\ 1 \in 1..l[p + 1] /\ (p + 1) \in 1..n
    BY <1>1, <1>5, <1>18
  <2>2. SumTo(pt, (p + 1) - 1) < SumTo(pt, n) - SumTo(l, n) + SumTo(l, (p + 1) - 1) + 1
    <3> DEFINE k == p + 1
    <3>1. k \in (p + 1)..n /\ 1 \in 1..l[k]
      BY <2>1
    <3> HIDE DEF k
    <3>2. SumTo(pt, k - 1) < SumTo(pt, n) - SumTo(l, n) + SumTo(l, k - 1) + 1
      BY <1>1, <1>4, <1>5, <1>8, <3>1, Position
    <3> QED BY <3>2 DEF k
  <2>3. /\ SumTo(pt, p) \in Nat /\ SumTo(pt, n) \in Nat /\ SumTo(l, n) \in Nat
        /\ SumTo(l, p) \in Nat
    BY <1>1, <1>6, <1>18
  <2>4. SumTo(pt, p) < SumTo(pt, n) - SumTo(l, n) + SumTo(l, p) + 1
    BY <1>18, <2>2
  <2> QED BY <1>6, <1>7, <2>3, <2>4
<1>23. ASSUME NEW x \in 1..total[r]
       PROVE  InPart(BytesLeft(r)[x], r, Size(r) - total[r] + x)
  <2> DEFINE q == FlattenSeq(ss)
  <2>1. PICK j \in 1..m : \E y \in 1..t[j] : x = SumTo(t, j - 1) + y /\ q[x] = ss[j][y]
    <3>1. x \in 1..Len(q)
      BY <1>10, <1>20
    <3> QED BY <1>15, <3>1 DEF LaidOut
  <2>2. PICK y \in 1..t[j] : x = SumTo(t, j - 1) + y /\ q[x] = ss[j][y]
    BY <2>1
  <2> DEFINE k == p + j
  <2> DEFINE b == BytesLeft(r)[x]
  <2>3. k \in 1..n /\ k \in (p + 1)..n /\ p + (j - 1) = k - 1 /\ j - 1 \in 0..m
    BY <1>11
  <2>4. ss[j] = BytesOf(r, k) /\ t[j] = l[k]
    BY <1>12
  <2>5. SumTo(l, k - 1) = SumTo(t, j - 1) + SumTo(l, p)
    BY <1>16, <2>3
  <2>6. b = BytesOf(r, k)[y] /\ y \in 1..l[k]
    BY <1>10, <2>2, <2>4
  <2> HIDE DEF k, b, q
  <2>7. b.r = r /\ b.k = k
    BY <1>9, <2>3, <2>6
  <2>8. /\ SumTo(pt, k - 1) < SumTo(pt, n) - SumTo(l, n) + SumTo(l, k - 1) + y
        /\ SumTo(pt, n) - SumTo(l, n) + SumTo(l, k - 1) + y <= SumTo(pt, k - 1) + pt[k]
    <3>1. SumTo(pt, k - 1) < SumTo(pt, n) - SumTo(l, n) + SumTo(l, k - 1) + y
      BY <1>1, <1>4, <1>5, <1>8, <2>3, <2>6, Position
    <3>2. SumTo(pt, n) - SumTo(l, n) + SumTo(l, k - 1) + y <= SumTo(pt, k - 1) + pt[k]
      BY <1>1, <1>4, <1>5, <1>8, <2>3, <2>6, Position
    <3> QED BY <3>1, <3>2
  <2>9. Size(r) - total[r] + x = SumTo(pt, n) - SumTo(l, n) + SumTo(l, k - 1) + y
    <3>1. /\ SumTo(pt, n) \in Nat /\ SumTo(l, n) \in Nat /\ SumTo(l, p) \in Nat
          /\ SumTo(t, j - 1) \in Nat /\ y \in Nat
      BY <1>1, <1>6, <1>14, <1>17, <1>18, <2>3
    <3>2. Size(r) = SumTo(pt, n) /\ x = SumTo(t, j - 1) + y
      BY <1>6, <2>2
    <3> QED BY <1>7, <2>5, <3>1, <3>2
  <2>10. InPart(b, r, Size(r) - total[r] + x)
    BY <1>1, <2>3, <2>7, <2>8, <2>9 DEF InPart, pt
  <2> QED BY <2>10 DEF b
<1> QED BY <1>1, <1>20, <1>21, <1>22, <1>23

-----------------------------------------------------------------------------
(* What a round of cb_writev_int gathers                                   *)

\* The sizes of the answers and what is left of them are numbers, and so are
\* their sums.
LEMMA Totals ==
    ASSUME Types, \A r \in Rids : Fitting(r)
    PROVE  /\ MaxResponses \in Nat /\ Rids = 1..MaxResponses
           /\ \A q \in Rids : Sizes[q] = Size(q) /\ Size(q) \in Nat /\ total[q] \in Nat
           /\ SumTo(Sizes, 0) = 0
           /\ \A i \in 0..MaxResponses : SumTo(Sizes, i) \in Nat
           /\ \A i \in 1..MaxResponses : SumTo(Sizes, i) = SumTo(Sizes, i - 1) + Size(i)
<1>1. MaxResponses \in Nat /\ Rids = 1..MaxResponses
  BY WriteConfig DEF Rids
<1>2. ASSUME NEW q \in Rids PROVE Sizes[q] = Size(q) /\ Size(q) \in Nat /\ total[q] \in Nat
  <2>1. Fitting(q)
    OBVIOUS
  <2>2. Size(q) \in Nat
    BY <2>1, IovecSums
  <2>3. total[q] \in Nat
    BY DEF Types
  <2> QED BY <2>2, <2>3 DEF Sizes
<1>3. \A i \in 1..MaxResponses : Sizes[i] \in Nat
  BY <1>1, <1>2
<1>4. /\ SumTo(Sizes, 0) = 0
      /\ \A i \in 0..MaxResponses : SumTo(Sizes, i) \in Nat
      /\ \A i \in 1..MaxResponses : SumTo(Sizes, i) = SumTo(Sizes, i - 1) + Sizes[i]
  BY <1>1, <1>3, Sums
<1>5. \A i \in 1..MaxResponses : SumTo(Sizes, i) = SumTo(Sizes, i - 1) + Size(i)
  BY <1>1, <1>2, <1>4
<1> QED BY <1>1, <1>2, <1>4, <1>5

\* As many responses are gathered as fit, at least a front that fits.
LEMMA WhatFits ==
    ASSUME Types, \A r \in Rids : Fitting(r),
           \A r \in ready : r > front => Remaining(r)
    PROVE  /\ Gathered \in 0..(made - front) /\ Fits(Gathered)
           /\ FrontReady /\ Left(front + 1) <= MaxIov => Gathered # 0
<1> DEFINE n == made - front
<1> DEFINE S == {m \in 0..n : Fits(m)}
<1>1. n \in Nat /\ front \in Nat /\ made \in 0..MaxResponses /\ MaxResponses \in Nat
      /\ MaxIov \in Nat /\ ready \subseteq Rids
  BY WriteConfig DEF Types, Rids
<1>2. Fits(0)
  <2> DEFINE s == [i \in 1..0 |-> Left(front + i)]
  <2>1. SumTo(s, 0) = 0
    BY Sums
  <2>2. SumTo(s, 0) <= Room
    BY <1>1, <2>1
  <2> QED BY <2>2 DEF Fits
<1>3. S \in SUBSET (0..n) /\ S # {}
  <2>1. 0 \in S
    BY <1>1, <1>2
  <2> QED BY <2>1
<1>4. Gathered = Max(S)
  BY DEF Gathered
<1>5. Gathered \in S /\ \A m \in S : m <= Gathered
  <2> HIDE DEF S
  <2> QED BY <1>1, <1>3, <1>4, Largest
<1>6. ASSUME FrontReady, Left(front + 1) <= MaxIov PROVE Gathered # 0
  <2> DEFINE s == [i \in 1..1 |-> Left(front + i)]
  <2> DEFINE f == front + 1
  <2>1. f \in ready /\ f \in Rids /\ front < made /\ f > front
    BY <1>1, <1>6 DEF FrontReady
  <2>2. Fitting(f) /\ Remaining(f)
    BY <2>1
  <2>3. Left(f) \in Nat /\ Left(f) > 0
    <3>1. Len(iov[f]) \in Nat /\ processed[f] \in 0..Len(iov[f])
      <4> HIDE DEF f
      <4> QED BY <2>1, <2>2, Iovecs
    <3>2. processed[f] < Len(iov[f])
      BY <2>2 DEF Remaining
    <3> QED BY <3>1, <3>2 DEF Left
  <2>4. s[1] = Left(f) /\ \A i \in 1..1 : i = 1
    OBVIOUS
  <2> HIDE DEF s, f
  <2>5. SumTo(s, 0) = 0 /\ SumTo(s, 1) = SumTo(s, 1 - 1) + s[1]
    <3> DEFINE o == 1
    <3>1. o \in Nat /\ o \in 1..o /\ \A i \in 1..o : s[i] \in Nat
      BY <2>3, <2>4
    <3> HIDE DEF o
    <3>2. SumTo(s, o) = SumTo(s, o - 1) + s[o]
      BY <3>1, Sums
    <3>3. SumTo(s, 0) = 0
      BY <3>1, Sums
    <3> QED BY <3>2, <3>3 DEF o
  <2>6. SumTo(s, 1) = Left(f)
    BY <2>3, <2>4, <2>5
  <2>7. Fits(1)
    <3>1. SumTo(s, 1) <= Room
      BY <1>6, <2>6 DEF f
    <3>2. \A i \in 1..1 : front + i \in ready /\ Left(front + i) > 0
      BY <2>1, <2>3 DEF f
    <3> QED BY <3>1, <3>2 DEF Fits, s
  <2>8. 1 \in S
    BY <1>1, <2>1, <2>7
  <2> HIDE DEF S
  <2>9. 1 <= Gathered
    BY <1>5, <2>8
  <2> QED BY <2>9
<1> QED BY <1>5, <1>6

\* All of an untouched response is left.
LEMMA AllIsLeft ==
    ASSUME Types, NEW r \in Rids, Fitting(r), Remaining(r), Untouched(r)
    PROVE  total[r] = Size(r)
<1> DEFINE n == Len(iov[r])
<1> DEFINE l == Lengths(r)
<1> DEFINE pt == parts[r]
<1> DEFINE p == processed[r]
<1>1. n \in Nat /\ Len(pt) = n /\ p = 0 /\ p < n
  BY Iovecs DEF Remaining, Untouched
<1>2. \A k \in 1..n : l[k] \in Nat /\ pt[k] \in Nat /\ l[k] = iov[r][k].len
  <2> HIDE DEF l
  <2> QED BY Iovecs DEF l
<1>3. \A k \in 1..n : k > p + 1 => l[k] = pt[k]
  <2> HIDE DEF l
  <2> QED BY <1>2 DEF Remaining
<1>4. l[1] = pt[1]
  <2>1. 1 \in 1..n
    BY <1>1
  <2>2. l[1] = iov[r][1].len
    BY <1>2, <2>1
  <2> QED BY <2>2 DEF Untouched
<1>5. total[r] = SumTo(l, n) - SumTo(l, p)
  BY DEF Remaining
<1>6. Size(r) = SumTo(pt, n)
  BY <1>1 DEF Size
<1> HIDE DEF n, l, pt, p
<1>7. p \in 0..n /\ n \in p..n
  BY <1>1
<1>8. \A k \in 1..n : k > p => pt[k] = l[k]
  BY <1>1, <1>3, <1>4
<1>9. \A i \in p..n : SumTo(l, i) - SumTo(l, p) = SumTo(pt, i) - SumTo(pt, p)
  <2>1. n \in Nat /\ \A i \in 1..n : l[i] \in Nat /\ pt[i] \in Nat
    BY <1>1, <1>2
  <2>2. p \in 0..n
    BY <1>7
  <2> QED BY <1>8, <2>1, <2>2, SumsTail
<1>10. SumTo(pt, 0) = 0 /\ \A i \in 0..n : SumTo(pt, i) \in Nat
  <2>1. SumTo(pt, 0) = 0
    BY <1>1, <1>2, Sums
  <2>2. \A i \in 0..n : SumTo(pt, i) \in Nat
    BY <1>1, <1>2, Sums
  <2> QED BY <2>1, <2>2
<1>11. SumTo(l, n) - SumTo(l, p) = SumTo(pt, n) - SumTo(pt, p) /\ SumTo(pt, n) \in Nat
  BY <1>7, <1>9, <1>10
<1> QED BY <1>1, <1>5, <1>6, <1>10, <1>11

\* What is left of the first d responses in the queue.
Gone(d) == SumTo(total, front + d) - SumTo(total, front)

\* With the first i responses of the queue the wire is as long as all the
\* answers up to them.
LEMMA Queue ==
    ASSUME Types, \A r \in Rids : Fitting(r),
           \A r \in ready : r > front => Remaining(r),
           \A r \in ready : r > front + 1 => Untouched(r), Sent,
           NEW m \in Nat, m # 0, front + m <= made, \A i \in 1..m : front + i \in ready
    PROVE  /\ Gone(0) = 0
           /\ \A i \in 0..m : Gone(i) \in Nat
           /\ \A i \in 1..m : Gone(i) = Gone(i - 1) + total[front + i]
           /\ \A i \in 1..m : SumTo(Sizes, front + i) = Len(wire) + Gone(i)
<1> DEFINE n == front + m
<1> DEFINE q == front + 1
<1>1. /\ front \in Nat /\ made \in 0..MaxResponses /\ ready \subseteq Rids
      /\ MaxResponses \in Nat /\ Rids = 1..MaxResponses
  BY WriteConfig DEF Types, Rids
<1>2. /\ n \in Nat /\ q \in 0..n /\ q \in 1..n /\ 1 \in 1..m /\ front \in 0..n
      /\ n <= MaxResponses /\ q - 1 = front /\ front < made /\ q > front /\ q \in q..n
      /\ \A i \in 1..n : i \in Rids
      /\ \A i \in 0..n : i \in 0..MaxResponses
      /\ \A i \in 0..m : front + i \in 0..n
      /\ \A i \in 1..m : front + i \in 1..n /\ front + (i - 1) = (front + i) - 1
                         /\ front + i \in q..n /\ i - 1 \in 0..m
      /\ \A i \in 1..n : i > q => i - front \in 1..m /\ front + (i - front) = i
      /\ front + 0 = front /\ 0 \in 0..m
  BY <1>1
<1>3. /\ \A i \in Rids : Sizes[i] = Size(i) /\ Size(i) \in Nat /\ total[i] \in Nat
      /\ \A i \in 0..MaxResponses : SumTo(Sizes, i) \in Nat
      /\ \A i \in 1..MaxResponses : SumTo(Sizes, i) = SumTo(Sizes, i - 1) + Size(i)
  BY Totals
<1>4. q \in ready /\ FrontReady
  BY <1>2 DEF FrontReady
<1>5. Len(wire) = SumTo(Sizes, front) + (Size(q) - total[q])
  BY <1>4 DEF Sent
<1>6. ASSUME NEW i \in 1..n, i > q PROVE total[i] = Sizes[i]
  <2>1. i \in ready /\ i > front + 1 /\ i > front /\ i \in Rids
    <3>1. i - front \in 1..m /\ front + (i - front) = i
      BY <1>2, <1>6
    <3>2. i \in ready
      BY <3>1
    <3> QED BY <1>1, <1>2, <1>6, <3>2
  <2>2. Fitting(i) /\ Remaining(i) /\ Untouched(i)
    BY <2>1
  <2>3. total[i] = Size(i)
    BY <2>1, <2>2, AllIsLeft
  <2> QED BY <1>3, <2>1, <2>3
<1> HIDE DEF n, q
<1>7. /\ \A i \in 1..n : Sizes[i] \in Nat /\ total[i] \in Nat
      /\ \A i \in 1..n : i > q => total[i] = Sizes[i]
  BY <1>2, <1>3, <1>6
<1>8. \A i \in q..n : SumTo(Sizes, i) - SumTo(Sizes, q) = SumTo(total, i) - SumTo(total, q)
  BY SMTT(60), <1>2, <1>7, SumsTail
<1>9. \A i \in 0..n : SumTo(total, i) \in Nat
  BY <1>2, <1>7, Sums
<1>10. \A i \in 1..n : SumTo(total, i) = SumTo(total, i - 1) + total[i]
  BY <1>2, <1>7, Sums
<1>11. \A i, j \in 0..n : i <= j => SumTo(total, i) <= SumTo(total, j)
  BY <1>2, <1>7, SumsGrow
<1>12. ASSUME NEW i \in 0..m PROVE Gone(i) \in Nat
  <2>1. SumTo(total, front + i) \in Nat /\ SumTo(total, front) \in Nat /\ front <= front + i
    BY <1>1, <1>2, <1>9
  <2>2. SumTo(total, front) <= SumTo(total, front + i)
    BY <1>2, <1>11, <2>1
  <2> QED BY <2>1, <2>2 DEF Gone
<1>13. Gone(0) = 0
  <2>1. SumTo(total, front) \in Nat
    BY <1>2, <1>9
  <2> QED BY <1>2, <2>1 DEF Gone
<1>14. ASSUME NEW i \in 1..m PROVE Gone(i) = Gone(i - 1) + total[front + i]
  <2>1. SumTo(total, front + i) = SumTo(total, front + (i - 1)) + total[front + i]
    BY <1>2, <1>10
  <2>2. /\ SumTo(total, front) \in Nat /\ SumTo(total, front + (i - 1)) \in Nat
        /\ total[front + i] \in Nat
    BY <1>2, <1>7, <1>9
  <2> QED BY <2>1, <2>2 DEF Gone
<1>15. ASSUME NEW i \in 1..m PROVE SumTo(Sizes, front + i) = Len(wire) + Gone(i)
  <2>1. SumTo(Sizes, front + i) - SumTo(Sizes, q) = SumTo(total, front + i) - SumTo(total, q)
    BY <1>2, <1>8
  <2>2. SumTo(total, q) = SumTo(total, front) + total[q] /\ total[q] \in Nat
    BY <1>2, <1>7, <1>10
  <2>3. SumTo(Sizes, q) = SumTo(Sizes, front) + Size(q) /\ Size(q) \in Nat
    BY <1>2, <1>3
  <2>4. SumTo(total, front) \in Nat /\ SumTo(total, front + i) \in Nat /\ SumTo(total, q) \in Nat
    BY <1>2, <1>9
  <2>5. SumTo(Sizes, front) \in Nat /\ SumTo(Sizes, front + i) \in Nat /\ SumTo(Sizes, q) \in Nat
    <3>1. front \in 0..MaxResponses /\ front + i \in 0..MaxResponses /\ q \in 0..MaxResponses
      BY <1>2
    <3> QED BY <1>3, <3>1
  <2> DEFINE a == SumTo(total, front)
  <2> DEFINE b == SumTo(total, front + i)
  <2> DEFINE c == SumTo(total, q)
  <2> DEFINE d == SumTo(Sizes, front)
  <2> DEFINE e == SumTo(Sizes, front + i)
  <2> DEFINE f == SumTo(Sizes, q)
  <2> DEFINE u == total[q]
  <2> DEFINE v == Size(q)
  <2> DEFINE w == Len(wire)
  <2>6. w = d + (v - u) /\ e - f = b - c /\ c = a + u /\ f = d + v
    BY <1>5, <2>1, <2>2, <2>3
  <2>7. /\ a \in Nat /\ b \in Nat /\ c \in Nat /\ d \in Nat /\ e \in Nat /\ f \in Nat
        /\ u \in Nat /\ v \in Nat
    BY <2>2, <2>3, <2>4, <2>5
  <2>8. Gone(i) = b - a
    BY DEF Gone
  <2> HIDE DEF a, b, c, d, e, f, u, v, w
  <2>9. e = w + (b - a)
    BY <2>6, <2>7
  <2> QED BY <2>8, <2>9 DEF e, w
<1> QED BY <1>12, <1>13, <1>14, <1>15

\* Byte b stands where a byte of its part belongs when it is the i-th on the wire.
OnWire(b, i) ==
    /\ 1..b.r \subseteq ready
    /\ Before(b.r, b.k) < i /\ i <= Before(b.r, b.k) + parts[b.r][b.k]

\* A byte of a response stands where it belongs, after the answers before it.
LEMMA AfterOthers ==
    ASSUME Types, \A q \in Rids : Fitting(q), NEW r \in Rids, 1..r \subseteq ready,
           NEW b \in Byte, NEW i \in Int, InPart(b, r, i)
    PROVE  OnWire(b, SumTo(Sizes, r - 1) + i)
<1>1. Fitting(r) /\ r - 1 \in 0..MaxResponses
  BY Totals
<1>2. b.r = r /\ b.k \in 1..Len(iov[r]) /\ b.k - 1 \in 0..Len(iov[r])
  BY <1>1, Iovecs DEF InPart
<1> DEFINE s == SumTo(Sizes, r - 1)
<1> DEFINE c == SumTo(parts[r], b.k - 1)
<1> DEFINE d == parts[r][b.k]
<1>3. c \in Nat
  BY <1>1, <1>2, IovecSums
<1>4. d \in Nat
  BY <1>1, <1>2, Iovecs
<1>5. s \in Nat
  BY <1>1, Totals
<1>6. c < i /\ i <= c + d
  BY DEF InPart
<1>7. Before(b.r, b.k) = s + c /\ parts[b.r][b.k] = d
  BY <1>2 DEF Before, Sizes
<1> HIDE DEF s, c, d
<1>8. s + c < s + i /\ s + i <= s + c + d
  BY <1>3, <1>4, <1>5, <1>6
<1> QED BY <1>2, <1>7, <1>8 DEF OnWire, s

\* What is gathered is what is left of the first responses in the queue, and
\* each byte of it belongs where it comes on the wire.
LEMMA WhatIsGathered ==
    ASSUME Types, \A r \in Rids : Fitting(r), 1..front \subseteq ready,
           \A r \in ready : r > front => Remaining(r),
           \A r \in ready : r > front + 1 => Untouched(r), Sent, Gathered # 0
    PROVE  /\ Data \in Seq(Byte) /\ Len(Data) = Gone(Gathered)
           /\ \A x \in 1..Len(Data) : OnWire(Data[x], Len(wire) + x)
<1> DEFINE m == Gathered
<1> DEFINE ss == [i \in 1..m |-> BytesLeft(front + i)]
<1> DEFINE t == [i \in 1..m |-> total[front + i]]
<1>1. m \in 0..(made - front) /\ Fits(m) /\ m # 0
  BY WhatFits
<1>2. Data = FlattenSeq(ss)
  BY DEF Data
<1> HIDE DEF m
<1>3. /\ front \in Nat /\ made \in 0..MaxResponses /\ ready \subseteq Rids
      /\ MaxResponses \in Nat /\ Rids = 1..MaxResponses /\ wire \in Seq(Byte)
  BY WriteConfig DEF Types, Rids
<1>4. \A i \in 1..m : front + i \in ready
  BY <1>1 DEF Fits
<1>5. /\ m \in Nat /\ front + m <= made
      /\ \A i \in 1..m : /\ front + i \in Rids /\ front + i > front /\ i - 1 \in 0..m /\ i \in 0..m
                         /\ (front + i) - 1 \in 0..MaxResponses /\ front + i \in 1..MaxResponses
  BY <1>1, <1>3
<1>6. /\ \A i \in 0..m : Gone(i) \in Nat
      /\ \A i \in 1..m : Gone(i) = Gone(i - 1) + total[front + i]
      /\ \A i \in 1..m : SumTo(Sizes, front + i) = Len(wire) + Gone(i)
  <2>1. \A i \in 0..m : Gone(i) \in Nat
    BY <1>1, <1>4, <1>5, Queue
  <2>2. \A i \in 1..m : Gone(i) = Gone(i - 1) + total[front + i]
    BY <1>1, <1>4, <1>5, Queue
  <2>3. \A i \in 1..m : SumTo(Sizes, front + i) = Len(wire) + Gone(i)
    BY <1>1, <1>4, <1>5, Queue
  <2> QED BY <2>1, <2>2, <2>3
<1>7. ASSUME NEW i \in 1..m
      PROVE  /\ BytesLeft(front + i) \in Seq(Byte) /\ Len(BytesLeft(front + i)) = total[front + i]
             /\ total[front + i] \in Nat /\ total[front + i] <= Size(front + i)
             /\ \A x \in 1..total[front + i] :
                  InPart(BytesLeft(front + i)[x], front + i,
                         Size(front + i) - total[front + i] + x)
  <2> DEFINE r == front + i
  <2>1. r \in Rids /\ Fitting(r) /\ Remaining(r)
    BY <1>4, <1>5
  <2> HIDE DEF r
  <2>2. BytesLeft(r) \in Seq(Byte) /\ Len(BytesLeft(r)) = total[r]
    BY <2>1, WhatIsLeft
  <2>3. total[r] \in Nat /\ total[r] <= Size(r)
    BY <2>1, WhatIsLeft
  <2>4. \A x \in 1..total[r] : InPart(BytesLeft(r)[x], r, Size(r) - total[r] + x)
    BY <2>1, WhatIsLeft
  <2> QED BY <2>2, <2>3, <2>4 DEF r
<1>8. \A i \in 1..m : ss[i] = BytesLeft(front + i) /\ t[i] = total[front + i]
  OBVIOUS
<1>9. ss \in Seq(Seq(Byte)) /\ Len(ss) = m
  <2>1. \A i \in 1..m : BytesLeft(front + i) \in Seq(Byte)
    BY <1>7
  <2>2. ss \in Seq(Seq(Byte))
    BY <1>5, <2>1, IsASeq
  <2>3. DOMAIN ss = 1..m
    OBVIOUS
  <2> HIDE DEF ss
  <2> QED BY <1>5, <2>2, <2>3, LenProperties
<1> HIDE DEF ss, t
<1>10. \A i \in 1..m : t[i] = Len(ss[i]) /\ t[i] \in Nat
  BY <1>7, <1>8
<1>11. FlattenSeq(ss) \in Seq(Byte) /\ LaidOut(FlattenSeq(ss), ss, t, m)
  BY <1>9, <1>10, Flattened
<1>12. ASSUME NEW i \in 0..m PROVE SumTo(t, i) = Gone(i)
  <2>1. \A j \in 1..(front + m) : total[j] \in Nat
    <3>1. \A j \in 1..(front + m) : j \in Rids
      BY <1>3, <1>5
    <3>2. \A j \in Rids : total[j] \in Nat
      BY Totals
    <3> QED BY <3>1, <3>2
  <2>2. \A j \in 1..m : t[j] \in Nat /\ t[j] = total[front + j]
    BY <1>8, <1>10
  <2>3. \A j \in 0..m : SumTo(total, front + j) = SumTo(t, j) + SumTo(total, front)
    BY ZenonT(60), <1>3, <1>5, <2>1, <2>2, SumsAlike
  <2>4. \A j \in 0..m : SumTo(t, j) \in Nat
    BY <1>5, <1>10, Sums
  <2>5. SumTo(total, front) \in Nat
    <3>1. front \in 0..(front + m) /\ front + m \in Nat
      BY <1>3, <1>5
    <3>2. \A j \in 0..(front + m) : SumTo(total, j) \in Nat
      BY <2>1, <3>1, Sums
    <3> QED BY <3>1, <3>2
  <2>6. SumTo(total, front + i) = SumTo(t, i) + SumTo(total, front) /\ SumTo(t, i) \in Nat
    BY <2>3, <2>4
  <2> QED BY <2>5, <2>6 DEF Gone
<1>13. Len(Data) = Gone(m) /\ Data \in Seq(Byte)
  <2>1. m \in 0..m
    BY <1>5
  <2> QED BY <1>2, <1>11, <1>12, <2>1 DEF LaidOut
<1>14. ASSUME NEW x \in 1..Len(Data) PROVE OnWire(Data[x], Len(wire) + x)
  <2> DEFINE q == FlattenSeq(ss)
  <2>1. PICK i \in 1..m : \E y \in 1..t[i] : x = SumTo(t, i - 1) + y /\ q[x] = ss[i][y]
    <3>1. x \in 1..Len(q)
      BY <1>2
    <3> QED BY <1>11, <3>1 DEF LaidOut
  <2>2. PICK y \in 1..t[i] : x = SumTo(t, i - 1) + y /\ q[x] = ss[i][y]
    BY <2>1
  <2> DEFINE r == front + i
  <2> DEFINE b == Data[x]
  <2> DEFINE z == Size(r) - total[r] + y
  <2>3. t[i] = total[r] /\ b = BytesLeft(r)[y] /\ y \in 1..total[r]
    BY <1>2, <1>8, <2>2
  <2>4. InPart(b, r, z)
    BY <1>7, <2>3
  <2>5. b \in Byte
    BY <1>13, ElementOfSeq
  <2>6. r \in Rids /\ r \in 1..MaxResponses /\ 1..r \subseteq ready
    <3>1. \A j \in 1..r : j \in 1..front \/ (j - front \in 1..m /\ front + (j - front) = j)
      BY <1>3, <1>5
    <3>2. \A j \in 1..r : j \in ready
      BY <1>4, <3>1
    <3> QED BY <1>5, <3>2
  <2>7. Len(wire) \in Nat /\ total[r] \in Nat /\ Size(r) \in Nat /\ y \in Nat /\ Gone(i - 1) \in Nat
    <3>1. Len(wire) \in Nat
      BY <1>3, LenProperties
    <3>2. Size(r) \in Nat /\ total[r] \in Nat
      BY <2>6, Totals
    <3>3. i - 1 \in 0..m
      BY <1>5
    <3>4. Gone(i - 1) \in Nat
      BY <1>6, <3>3
    <3> QED BY <2>3, <3>1, <3>2, <3>4
  <2>8. x = Gone(i - 1) + y
    BY <1>5, <1>12, <2>2
  <2>9. SumTo(Sizes, r) = SumTo(Sizes, r - 1) + Size(r) /\ SumTo(Sizes, r - 1) \in Nat
    <3>1. r - 1 \in 0..MaxResponses /\ r \in 1..MaxResponses
      BY <1>5
    <3> HIDE DEF r
    <3> QED BY <3>1, Totals
  <2>10. SumTo(Sizes, r) = Len(wire) + Gone(i) /\ Gone(i) = Gone(i - 1) + total[r]
    BY <1>6
  <2>11. OnWire(b, SumTo(Sizes, r - 1) + z)
    <3>1. z \in Int
      BY <2>7
    <3> HIDE DEF r, b, z
    <3> QED BY <2>4, <2>5, <2>6, <3>1, AfterOthers
  <2> HIDE DEF r
  <2>12. SumTo(Sizes, r - 1) + z = Len(wire) + x
    <3> DEFINE a == SumTo(Sizes, r)
    <3> DEFINE c == SumTo(Sizes, r - 1)
    <3> DEFINE d == Size(r)
    <3> DEFINE e == total[r]
    <3> DEFINE g == Gone(i - 1)
    <3> DEFINE h == Gone(i)
    <3> DEFINE w == Len(wire)
    <3>1. a = c + d /\ a = w + h /\ h = g + e /\ x = g + y /\ z = d - e + y
      BY <2>8, <2>9, <2>10
    <3>2. c \in Nat /\ d \in Nat /\ e \in Nat /\ g \in Nat /\ w \in Nat /\ y \in Nat
      BY <2>7, <2>9
    <3> HIDE DEF a, c, d, e, g, h, w, z
    <3>3. c + z = w + x
      BY <3>1, <3>2
    <3> QED BY <3>3 DEF c, w
  <2> HIDE DEF z
  <2> QED BY <2>11, <2>12
<1> QED BY <1>13, <1>14 DEF m

-----------------------------------------------------------------------------
(* process_iov                                                             *)

\* A response with j more iovecs written, and cut bytes of the next.
Advanced(r, j, cut) ==
    /\ Len(iov'[r]) = Len(iov[r])
    /\ \A k \in 1..Len(iov[r]) : k # processed[r] + j + 1 => iov'[r][k] = iov[r][k]
    /\ iov'[r][processed[r] + j + 1].base = iov[r][processed[r] + j + 1].base
    /\ iov'[r][processed[r] + j + 1].len = iov[r][processed[r] + j + 1].len - cut
    /\ processed'[r] = processed[r] + j

\* process_iov of some but not all bytes of a response stops in one of its
\* iovecs, of which something is left.
LEMMA Process ==
    ASSUME Types, NEW r \in Rids, Fitting(r), Remaining(r),
           NEW size \in Nat, size # 0, size < total[r], ProcessIov(r, size)
    PROVE  /\ processed' \in [Rids -> Nat] /\ total' \in [Rids -> Nat]
           /\ iov' \in [Rids -> Seq([base : Nat, len : Nat \ {0}])]
           /\ \A q \in Rids : q # r => /\ processed'[q] = processed[q]
                                       /\ total'[q] = total[q] /\ iov'[q] = iov[q]
           /\ total'[r] = total[r] - size
           /\ \E j, cut \in Nat :
                /\ processed[r] + j + 1 \in 1..Len(iov[r])
                /\ cut < Lengths(r)[processed[r] + j + 1]
                /\ size = SumTo(Lengths(r), processed[r] + j) - SumTo(Lengths(r), processed[r]) + cut
                /\ Advanced(r, j, cut)
<1> DEFINE n == Len(iov[r])
<1> DEFINE p == processed[r]
<1> DEFINE l == Lengths(r)
<1> DEFINE bytes(j) == SumTo(l, p + j) - SumTo(l, p)
<1> DEFINE S == {i \in 0..Left(r) : bytes(i) <= size}
<1> DEFINE j == Max(S)
<1> DEFINE whole == bytes(j)
<1> DEFINE cut == size - whole
<1> DEFINE e == p + j + 1
<1>1. /\ processed' = [processed EXCEPT ![r] = p + j]
      /\ total' = [total EXCEPT ![r] = total[r] - whole - cut]
      /\ iov' = IF cut = 0 THEN iov
                ELSE [iov EXCEPT ![r][e] = [iov[r][e] EXCEPT !.len = iov[r][e].len - cut]]
  BY DEF ProcessIov
<1>2. /\ n \in Nat /\ p \in 0..n /\ p \in Nat /\ p < n /\ DOMAIN iov[r] = 1..n
      /\ total[r] \in Nat /\ total[r] = SumTo(l, n) - SumTo(l, p)
      /\ iov[r] \in Seq([base : Nat, len : Nat \ {0}])
      /\ \A k \in 1..n : /\ iov[r][k] \in [base : Nat, len : Nat \ {0}]
                         /\ l[k] = iov[r][k].len /\ l[k] \in Nat
  <2> HIDE DEF l
  <2>1. /\ n \in Nat /\ p \in 0..n /\ DOMAIN iov[r] = 1..n /\ total[r] \in Nat
        /\ \A k \in 1..n : /\ iov[r][k] \in [base : Nat, len : Nat \ {0}]
                           /\ l[k] = iov[r][k].len /\ l[k] \in Nat
    BY Iovecs DEF l
  <2>2. p < n /\ total[r] = SumTo(l, n) - SumTo(l, p)
    BY DEF Remaining, l
  <2>3. iov[r] \in Seq([base : Nat, len : Nat \ {0}])
    BY DEF Types
  <2> HIDE DEF n, p
  <2>4. p \in Nat
    BY <2>1
  <2> QED BY <2>1, <2>2, <2>3, <2>4
<1>3. /\ \A i \in 0..n : SumTo(l, i) \in Nat
      /\ \A i \in 1..n : SumTo(l, i) = SumTo(l, i - 1) + l[i]
  <2> HIDE DEF l
  <2> QED BY IovecSums DEF l
<1>4. Left(r) = n - p /\ Left(r) \in Nat
  <2>1. Left(r) = n - p
    BY DEF Left
  <2> HIDE DEF n, p
  <2> QED BY <1>2, <2>1
<1> HIDE DEF n, p, l
<1>5. \A i \in 0..Left(r) : p + i \in 0..n
  BY <1>2, <1>4
<1>6. j \in S /\ \A i \in S : i <= j
  <2>1. bytes(0) = 0
    <3>1. SumTo(l, p) \in Nat /\ p + 0 = p
      BY <1>2, <1>3
    <3> QED BY <3>1
  <2>2. 0 \in S
    BY <1>4, <2>1
  <2>3. S \in SUBSET (0..Left(r)) /\ S # {}
    BY <2>2
  <2> HIDE DEF S
  <2> QED BY <1>4, <2>3, Largest
<1> HIDE DEF j
<1>7. j \in 0..Left(r) /\ whole <= size /\ whole \in Int
  <2>1. SumTo(l, p + j) \in Nat /\ SumTo(l, p) \in Nat
    BY <1>2, <1>3, <1>5, <1>6
  <2> QED BY <1>6, <2>1
<1>8. j # Left(r)
  <2> SUFFICES ASSUME j = Left(r) PROVE FALSE
    OBVIOUS
  <2>1. p + j = n
    BY <1>2, <1>4
  <2>2. whole = total[r]
    BY <1>2, <2>1
  <2> HIDE DEF whole
  <2> QED BY <1>2, <1>7, <2>2
<1>9. /\ j + 1 \in 0..Left(r) /\ e \in 1..n /\ p + j \in 0..n /\ p + (j + 1) = e /\ e - 1 = p + j
      /\ j \in Nat /\ ~(j + 1 <= j)
  BY <1>2, <1>4, <1>5, <1>7, <1>8
<1>10. SumTo(l, e) - SumTo(l, p) > size
  <2>1. ~(bytes(j + 1) <= size)
    BY <1>6, <1>9
  <2>2. SumTo(l, e) \in Nat /\ SumTo(l, p) \in Nat
    BY <1>2, <1>3, <1>9
  <2> QED BY <1>9, <2>1, <2>2
<1>11. cut \in Nat /\ cut < l[e] /\ size = SumTo(l, p + j) - SumTo(l, p) + cut /\ l[e] \in Nat
  <2> DEFINE a == SumTo(l, p)
  <2> DEFINE b == SumTo(l, p + j)
  <2> DEFINE c == SumTo(l, e)
  <2> DEFINE d == l[e]
  <2>1. a \in Nat /\ b \in Nat /\ c \in Nat /\ d \in Nat
    BY SMTT(60), <1>2, <1>3, <1>9
  <2>2. c = b + d
    BY <1>3, <1>9
  <2>3. whole = b - a /\ cut = size - whole /\ c - a > size
    BY <1>10
  <2> HIDE DEF a, b, c, d, whole, cut
  <2>4. cut \in Nat /\ cut < d /\ size = b - a + cut
    BY <1>7, <2>1, <2>2, <2>3
  <2> QED BY <2>1, <2>4 DEF a, b, d
<1>12. total[r] - whole - cut = total[r] - size
  BY <1>2, <1>7
<1> HIDE DEF whole, cut, S
<1>13. iov \in [Rids -> Seq([base : Nat, len : Nat \ {0}])]
       /\ processed \in [Rids -> Nat] /\ total \in [Rids -> Nat]
  BY DEF Types
<1>14. /\ processed' \in [Rids -> Nat] /\ processed'[r] = p + j
       /\ \A q \in Rids : q # r => processed'[q] = processed[q]
  BY <1>1, <1>2, <1>9, <1>13
<1>15. /\ total' \in [Rids -> Nat] /\ total'[r] = total[r] - size
       /\ \A q \in Rids : q # r => total'[q] = total[q]
  <2>1. total[r] - size \in Nat
    BY <1>2
  <2> QED BY <1>1, <1>12, <1>13, <2>1
<1> DEFINE v == [iov[r][e] EXCEPT !.len = iov[r][e].len - cut]
<1>16. v \in [base : Nat, len : Nat \ {0}] /\ v.base = iov[r][e].base /\ v.len = iov[r][e].len - cut
  <2>1. iov[r][e] \in [base : Nat, len : Nat \ {0}] /\ l[e] = iov[r][e].len
    BY <1>2, <1>9
  <2>2. iov[r][e].len - cut \in Nat \ {0}
    BY <1>11, <2>1
  <2> QED BY <2>1, <2>2
<1> HIDE DEF v
<1>17. /\ iov'[r] \in Seq([base : Nat, len : Nat \ {0}]) /\ Len(iov'[r]) = n
       /\ \A k \in 1..n : k # e => iov'[r][k] = iov[r][k]
       /\ iov'[r][e].base = iov[r][e].base /\ iov'[r][e].len = iov[r][e].len - cut
       /\ \A q \in Rids : q # r => iov'[q] = iov[q]
       /\ DOMAIN iov' = Rids
  <2>1. CASE cut = 0
    <3>1. iov' = iov /\ iov[r][e].len \in Nat
      BY <1>1, <1>2, <1>9, <2>1
    <3>2. Len(iov[r]) = n
      BY DEF n
    <3> QED BY <1>2, <1>13, <2>1, <3>1, <3>2
  <2>2. CASE cut # 0
    <3>1. iov' = [iov EXCEPT ![r] = [iov[r] EXCEPT ![e] = v]]
      BY <1>1, <2>2 DEF v
    <3>2. [iov[r] EXCEPT ![e] = v] \in Seq([base : Nat, len : Nat \ {0}])
          /\ Len([iov[r] EXCEPT ![e] = v]) = n
      <4> DEFINE V == [base : Nat, len : Nat \ {0}]
      <4>1. iov[r] \in Seq(V) /\ v \in V /\ e \in 1..Len(iov[r]) /\ Len(iov[r]) = n
        BY <1>2, <1>9, <1>16 DEF n
      <4> HIDE DEF V
      <4> QED BY <4>1, ExceptSeq DEF V
    <3>3. iov'[r] = [iov[r] EXCEPT ![e] = v] /\ DOMAIN iov' = Rids
          /\ \A q \in Rids : q # r => iov'[q] = iov[q]
      BY <1>13, <3>1
    <3>4. iov'[r][e] = v /\ \A k \in 1..n : k # e => iov'[r][k] = iov[r][k]
      BY <1>2, <1>9, <3>3
    <3> QED BY <1>16, <3>2, <3>3, <3>4
  <2> QED BY <2>1, <2>2
<1>18. iov' \in [Rids -> Seq([base : Nat, len : Nat \ {0}])]
  <2>1. ASSUME NEW q \in Rids PROVE iov'[q] \in Seq([base : Nat, len : Nat \ {0}])
    BY <1>13, <1>17
  <2>2. iov' = [q \in Rids |-> iov'[q]]
    <3>1. CASE cut = 0
      BY <1>1, <1>13, <3>1
    <3>2. CASE cut # 0
      BY <1>1, <1>13, <3>2
    <3> QED BY <3>1, <3>2
  <2> QED BY <2>1, <2>2
<1>19. Advanced(r, j, cut)
  BY <1>14, <1>17 DEF Advanced, n, p
<1>20. \E i, c \in Nat :
                /\ processed[r] + i + 1 \in 1..Len(iov[r])
                /\ c < Lengths(r)[processed[r] + i + 1]
                /\ size = SumTo(Lengths(r), processed[r] + i) - SumTo(Lengths(r), processed[r]) + c
                /\ Advanced(r, i, c)
  <2>1. /\ processed[r] + j + 1 \in 1..Len(iov[r])
        /\ cut < Lengths(r)[processed[r] + j + 1]
        /\ size = SumTo(Lengths(r), processed[r] + j) - SumTo(Lengths(r), processed[r]) + cut
    BY <1>9, <1>11 DEF n, p, l
  <2> QED BY <1>9, <1>11, <1>19, <2>1
<1> QED BY <1>14, <1>15, <1>17, <1>18, <1>20

\* process_iov leaves the response with _total_size right.
LEMMA ProcessKeeps ==
    ASSUME Types, NEW r \in Rids, Fitting(r), Remaining(r), r \in ready,
           parts' = parts, ready' = ready,
           NEW size \in Nat, size # 0, size < total[r], ProcessIov(r, size)
    PROVE  Fitting(r)' /\ Remaining(r)'
<1> DEFINE n == Len(iov[r])
<1> DEFINE p == processed[r]
<1> DEFINE l == Lengths(r)
<1> DEFINE u == Lengths(r)'
<1>1. PICK j \in Nat : \E c \in Nat :
        /\ processed[r] + j + 1 \in 1..Len(iov[r])
        /\ c < Lengths(r)[processed[r] + j + 1]
        /\ size = SumTo(Lengths(r), processed[r] + j) - SumTo(Lengths(r), processed[r]) + c
        /\ Advanced(r, j, c)
  BY Process
<1>2. PICK cut \in Nat :
        /\ processed[r] + j + 1 \in 1..Len(iov[r])
        /\ cut < Lengths(r)[processed[r] + j + 1]
        /\ size = SumTo(Lengths(r), processed[r] + j) - SumTo(Lengths(r), processed[r]) + cut
        /\ Advanced(r, j, cut)
  BY <1>1
<1> DEFINE e == p + j + 1
<1>3. /\ n \in Nat /\ p \in 0..n /\ Len(parts[r]) = n
      /\ \A k \in 1..n : /\ l[k] = iov[r][k].len /\ l[k] \in Nat
                         /\ l[k] <= parts[r][k] /\ parts[r][k] \in Nat
  <2> HIDE DEF l
  <2> QED BY Iovecs DEF l
<1>4. /\ e \in 1..n /\ cut < l[e] /\ size = SumTo(l, p + j) - SumTo(l, p) + cut
      /\ Len(iov'[r]) = n /\ processed'[r] = p + j
      /\ \A k \in 1..n : k # e => iov'[r][k] = iov[r][k]
      /\ iov'[r][e].base = iov[r][e].base /\ iov'[r][e].len = iov[r][e].len - cut
  BY <1>2 DEF Advanced
<1>5. iov'[r] \in Seq([base : Nat, len : Nat \ {0}])
  <2>1. iov' \in [Rids -> Seq([base : Nat, len : Nat \ {0}])]
    BY Process
  <2> QED BY <2>1
<1>6. DOMAIN iov'[r] = 1..n
  BY <1>4, <1>5, LenProperties
<1>7. \A k \in 1..n : u[k] = iov'[r][k].len
  BY <1>6 DEF Lengths
<1>8. total'[r] = total[r] - size
  BY Process
<1>9. total[r] = SumTo(l, n) - SumTo(l, p) /\ \A k \in 1..n : k > p + 1 => iov[r][k].len = parts[r][k]
  BY DEF Remaining
<1>10. /\ \A k \in 1..n : iov[r][k].base <= parts[r][k]
       /\ parts[r] \in Shapes
  BY DEF Fitting
<1>11. /\ \A i \in 0..n : SumTo(l, i) \in Nat
  <2> HIDE DEF l
  <2> QED BY IovecSums DEF l
<1>12. total' \in [Rids -> Nat]
  BY Process
<1> HIDE DEF n, p, l, u
<1>13. e \in Nat /\ p \in Nat /\ p + j \in 0..n /\ p + j < e /\ n \in 0..n /\ n >= e /\ e = p + j + 1
       /\ p + j < n /\ p + 1 <= e
  BY <1>3, <1>4
<1> HIDE DEF e
<1>14. \A k \in 1..n : k # e => u[k] = l[k]
  BY <1>3, <1>4, <1>7
<1>15. l[e] = u[e] + cut /\ u[e] \in Nat
  <2>1. l[e] \in Nat /\ u[e] = l[e] - cut
    BY <1>3, <1>4, <1>7
  <2> QED BY <1>4, <2>1
<1>16. \A k \in 1..n : u[k] \in Nat
  BY <1>3, <1>14, <1>15
<1>17. SumTo(u, p + j) = SumTo(l, p + j) /\ SumTo(l, n) = SumTo(u, n) + cut
  <2>1. \A k \in 1..n : l[k] \in Nat /\ u[k] \in Nat
    BY <1>3, <1>16
  <2>2. n \in Nat /\ e \in 1..n /\ l[e] = u[e] + cut
    BY <1>3, <1>4, <1>15
  <2>3. \A i \in 0..n : i < e => SumTo(u, i) = SumTo(l, i)
    BY SMTT(60), <1>14, <2>1, <2>2, SumsCut
  <2>4. \A i \in 0..n : i >= e => SumTo(l, i) = SumTo(u, i) + cut
    BY <1>14, <2>1, <2>2, SumsCut
  <2> QED BY <1>13, <2>3, <2>4
<1>18. total'[r] = SumTo(u, n) - SumTo(u, p + j)
  <2> DEFINE a == SumTo(l, n)
  <2> DEFINE b == SumTo(l, p)
  <2> DEFINE c == SumTo(l, p + j)
  <2> DEFINE d == SumTo(u, n)
  <2> DEFINE f == SumTo(u, p + j)
  <2>1. a \in Nat /\ b \in Nat /\ c \in Nat
    BY <1>3, <1>11, <1>13
  <2>2. d \in Nat
    <3>1. \A i \in 0..n : SumTo(u, i) \in Nat
      BY <1>3, <1>16, Sums
    <3> QED BY <1>13, <3>1
  <2>3. f = c /\ a = d + cut /\ size = c - b + cut /\ total[r] = a - b /\ total'[r] = total[r] - size
    BY <1>4, <1>8, <1>9, <1>17
  <2> HIDE DEF a, b, c, d, f
  <2>4. total'[r] = d - f
    BY <2>1, <2>2, <2>3
  <2> QED BY <2>4 DEF d, f
<1>19. \A k \in 1..n : k > p + j + 1 => iov'[r][k].len = parts[r][k]
  <2>1. \A k \in 1..n : k > p + j + 1 => k # e /\ k > p + 1
    BY <1>3, <1>13
  <2> QED BY <1>4, <1>9, <2>1
<1>20. Remaining(r)'
  <2>1. Len(iov'[r]) = n /\ processed'[r] = p + j
    BY <1>4
  <2>2. total'[r] = SumTo(Lengths(r)', n) - SumTo(Lengths(r)', p + j)
    BY <1>18 DEF u
  <2>3. Remaining(r)' = (/\ processed'[r] < Len(iov'[r])
                         /\ total'[r] = SumTo(Lengths(r)', Len(iov'[r])) - SumTo(Lengths(r)', processed'[r])
                         /\ \A k \in 1..Len(iov'[r]) :
                              k > processed'[r] + 1 => iov'[r][k].len = parts'[r][k])
    BY DEF Remaining, SumTo
  <2> QED BY <1>13, <1>19, <2>1, <2>2, <2>3
<1>21. \A k \in 1..n : iov'[r][k].len <= parts[r][k] /\ iov'[r][k].base <= parts[r][k]
  <2>1. ASSUME NEW k \in 1..n PROVE iov'[r][k].len <= parts[r][k] /\ iov'[r][k].base <= parts[r][k]
    <3>1. CASE k = e
      <4>1. u[e] <= l[e] /\ iov'[r][e].len = u[e] /\ l[e] <= parts[r][e]
        BY <1>3, <1>4, <1>7, <1>15
      <4>2. iov'[r][e].len <= parts[r][e]
        BY <1>3, <1>4, <1>15, <4>1
      <4> QED BY <1>4, <1>10, <3>1, <4>2
    <3>2. CASE k # e
      BY <1>3, <1>4, <1>10, <3>2
    <3> QED BY <3>1, <3>2
  <2> QED BY <2>1
<1>22. Fitting(r)'
  <2>1. p + j <= n /\ Len(iov'[r]) = n /\ processed'[r] = p + j
    BY <1>4, <1>13, <1>3
  <2> QED BY <1>3, <1>10, <1>21, <2>1 DEF Fitting
<1> QED BY <1>20, <1>22

-----------------------------------------------------------------------------
(* What a step keeps                                                       *)

\* Places and Sent as functions of the state.
SizesOf(pt) == [q \in Rids |-> SumTo(pt[q], Len(pt[q]))]
Standing(pt, rd, b, i) ==
    /\ 1..b.r \subseteq rd
    /\ SumTo(SizesOf(pt), b.r - 1) + SumTo(pt[b.r], b.k - 1) < i
    /\ i <= SumTo(SizesOf(pt), b.r - 1) + SumTo(pt[b.r], b.k - 1) + pt[b.r][b.k]
SentLen(pt, rd, tt, f, m) ==
    SumTo(SizesOf(pt), f)
    + (IF f < m /\ f + 1 \in rd THEN SumTo(pt[f + 1], Len(pt[f + 1])) - tt[f + 1] ELSE 0)

\* Places and Sent of this state and of the next one.
LEMMA Unfold ==
    /\ Places <=> \A i \in DOMAIN wire : Standing(parts, ready, wire[i], i)
    /\ Places' <=> \A i \in DOMAIN wire' : Standing(parts', ready', wire'[i], i)
    /\ Sent <=> Len(wire) = SentLen(parts, ready, total, front, made)
    /\ Sent' <=> Len(wire') = SentLen(parts', ready', total', front', made')
    /\ \A b, i : OnWire(b, i) <=> Standing(parts, ready, b, i)
    /\ Sizes = SizesOf(parts)
    /\ \A r : Size(r) = SumTo(parts[r], Len(parts[r]))
<1>1. Places <=> \A i \in DOMAIN wire : Standing(parts, ready, wire[i], i)
  BY DEF Places, Standing, Before, Size, SizesOf
<1>2. Places' <=> \A i \in DOMAIN wire' : Standing(parts', ready', wire'[i], i)
  BY DEF Places, Standing, Before, Size, SizesOf, SumTo
<1>3. Sent <=> Len(wire) = SentLen(parts, ready, total, front, made)
  BY DEF Sent, SentLen, Sizes, SizesOf, Size, FrontReady
<1>4. Sent' <=> Len(wire') = SentLen(parts', ready', total', front', made')
  BY DEF Sent, SentLen, Sizes, SizesOf, Size, FrontReady, SumTo
<1>5. \A b, i : OnWire(b, i) <=> Standing(parts, ready, b, i)
  BY DEF OnWire, Standing, Before, Size, SizesOf
<1>6. Sizes = SizesOf(parts)
  BY DEF Sizes, SizesOf, Size
<1>7. \A r : Size(r) = SumTo(parts[r], Len(parts[r]))
  BY DEF Size
<1> QED BY <1>1, <1>2, <1>3, <1>4, <1>5, <1>6, <1>7

\* A response that a step does not touch stays as it was.
LEMMA Untouching ==
    ASSUME NEW r, parts'[r] = parts[r], iov'[r] = iov[r],
           processed'[r] = processed[r], total'[r] = total[r], (r \in ready') = (r \in ready)
    PROVE  /\ Fitting(r) => Fitting(r)'
           /\ Remaining(r) => Remaining(r)'
           /\ Untouched(r) => Untouched(r)'
<1>1. Fitting(r) => Fitting(r)'
  BY DEF Fitting
<1>2. Remaining(r) => Remaining(r)'
  BY SMTT(60) DEF Remaining, Lengths, SumTo
<1>3. Untouched(r) => Untouched(r)'
  BY DEF Untouched
<1> QED BY <1>1, <1>2, <1>3

\* Nothing gathered is no data.
LEMMA NoData ==
    ASSUME Gathered = 0
    PROVE  Len(Data) = 0
<1> DEFINE ss == [i \in 1..0 |-> BytesLeft(front + i)]
<1>1. Data = FlattenSeq(ss)
  BY DEF Data
<1>2. ss = <<>>
  OBVIOUS
<1>3. FlattenSeq(ss) = ss
  <2>1. Len(ss) = 0
    BY <1>2
  <2> QED BY <2>1 DEF FlattenSeq
<1> QED BY <1>1, <1>2, <1>3

\* What writev takes comes to stand on the wire where it belongs.
LEMMA Written ==
    ASSUME WInv, open, parts' = parts, ready' = ready,
           NEW n \in 1..Len(Data), wire' = wire \o SubSeq(Data, 1, n)
    PROVE  /\ Gathered # 0 /\ wire' \in Seq(Byte) /\ Len(wire') = Len(wire) + n
           /\ Len(Data) = Gone(Gathered) /\ Places'
<1>1. /\ Types /\ 1..front \subseteq ready /\ \A r \in Rids : Fitting(r)
      /\ \A r \in ready : r > front => Remaining(r)
      /\ \A r \in ready : r > front + 1 => Untouched(r)
      /\ Sent /\ Places
  BY DEF WInv
<1>2. Gathered # 0
  <2> SUFFICES ASSUME Gathered = 0 PROVE FALSE
    OBVIOUS
  <2>1. Len(Data) = 0
    BY NoData
  <2> QED BY <2>1
<1>3. /\ Data \in Seq(Byte) /\ Len(Data) = Gone(Gathered)
      /\ \A x \in 1..Len(Data) : OnWire(Data[x], Len(wire) + x)
  <2>1. Data \in Seq(Byte) /\ Len(Data) = Gone(Gathered)
    BY <1>1, <1>2, WhatIsGathered
  <2>2. \A x \in 1..Len(Data) : OnWire(Data[x], Len(wire) + x)
    BY <1>1, <1>2, WhatIsGathered
  <2> QED BY <2>1, <2>2
<1> DEFINE d == Data
<1> DEFINE c == SubSeq(d, 1, n)
<1>4. wire \in Seq(Byte) /\ Len(wire) \in Nat /\ DOMAIN wire = 1..Len(wire)
  <2>1. wire \in Seq(Byte)
    BY <1>1 DEF Types
  <2> QED BY <2>1, LenProperties
<1>5. wire' = wire \o c /\ d \in Seq(Byte) /\ n \in 1..Len(d) /\ Len(d) \in Nat
  BY <1>3, LenProperties
<1>6. \A x \in 1..Len(d) : Standing(parts, ready, d[x], Len(wire) + x)
  BY <1>3, Unfold
<1> HIDE DEF d
<1>7. c \in Seq(Byte) /\ Len(c) = n /\ \A x \in 1..n : c[x] = d[x]
  <2>1. \A i \in 1..n : d[i] \in Byte
    <3>1. \A i \in 1..n : i \in 1..Len(d)
      BY <1>5
    <3> QED BY <1>5, <3>1, ElementOfSeq
  <2>2. 1 \in Int /\ n \in Int /\ 1 <= n
    BY <1>5
  <2>3. c \in Seq(Byte)
    BY <2>1, <2>2, SubSeqProperties
  <2>4. Len(c) = IF 1 <= n THEN n - 1 + 1 ELSE 0
    BY <2>1, <2>2, SubSeqProperties
  <2>5. \A i \in 1..(n - 1 + 1) : c[i] = d[1 + i - 1]
    BY <2>1, <2>2, SubSeqProperties
  <2>6. n - 1 + 1 = n /\ \A i \in 1..n : 1 + i - 1 = i /\ i \in 1..(n - 1 + 1)
    BY <2>2
  <2>7. ASSUME NEW x \in 1..n PROVE c[x] = d[x]
    BY <2>5, <2>6
  <2> HIDE DEF c
  <2> QED BY <2>2, <2>3, <2>4, <2>6, <2>7
<1> HIDE DEF c
<1> DEFINE w == wire'
<1>8. w \in Seq(Byte) /\ Len(w) = Len(wire) + n
  BY <1>4, <1>5, <1>7, ConcatProperties
<1>9. \A x \in 1..(Len(wire) + Len(c)) : w[x] = IF x <= Len(wire) THEN wire[x] ELSE c[x - Len(wire)]
  BY <1>4, <1>5, <1>7, ConcatProperties
<1>10. DOMAIN w = 1..(Len(wire) + n)
  BY <1>8, LenProperties
<1>11. \A x \in DOMAIN wire : Standing(parts, ready, wire[x], x)
  BY <1>1, Unfold
<1>12. ASSUME NEW x \in DOMAIN w PROVE Standing(parts, ready, w[x], x)
  <2>1. CASE x <= Len(wire)
    <3>1. x \in DOMAIN wire /\ w[x] = wire[x]
      BY <1>4, <1>7, <1>9, <1>10, <2>1
    <3> QED BY <1>11, <3>1
  <2>2. CASE ~(x <= Len(wire))
    <3> DEFINE y == x - Len(wire)
    <3>1. y \in 1..n /\ y \in 1..Len(d) /\ Len(wire) + y = x /\ x \in 1..(Len(wire) + Len(c))
      BY <1>4, <1>5, <1>7, <1>10, <2>2
    <3>2. w[x] = c[y]
      BY <1>9, <2>2, <3>1
    <3> HIDE DEF y
    <3>3. w[x] = d[y]
      BY <1>7, <3>1, <3>2
    <3>4. Standing(parts, ready, d[y], Len(wire) + y)
      BY <1>6, <3>1
    <3> QED BY <3>1, <3>3, <3>4
  <2> QED BY <2>1, <2>2
<1>13. Places'
  BY <1>12, Unfold
<1> QED BY <1>2, <1>3, <1>8, <1>13

\* The least of a set of numbers is one of them.
LEMMA Least ==
    ASSUME NEW S \in SUBSET Nat, S # {}
    PROVE  Min(S) \in S
<1>1. \E x \in S : \A y \in S : x <= y
  BY LeastNumber
<1> QED BY <1>1 DEF Min

\* A closed connection promises only what it has sent.
LEMMA Closing ==
    ASSUME WInv, Places', parts' = parts, iov' = iov, processed' = processed,
           total' = total, ready' = ready, closing' = closing, made' = made, Shut,
           front' \in 0..made, 1..front' \subseteq ready, wire' \in Seq(Byte)
    PROVE  WInv'
<1>1. Types'
  BY DEF WInv, Types, Shut
<1>2. ASSUME NEW r \in Rids PROVE Fitting(r)'
  <2>1. Fitting(r)
    BY DEF WInv
  <2> QED BY <2>1, Untouching
<1>3. Armed'
  BY DEF Armed, Shut
<1> QED BY <1>1, <1>2, <1>3 DEF WInv, Shut

\* What writev takes ends some of the responses that were gathered and part
\* of the next one.
LEMMA Complete ==
    ASSUME WInv, open, Gathered # 0, Len(Data) = Gone(Gathered), NEW n \in 1..Len(Data)
    PROVE  LET done == Max({d \in 0..Gathered : Gone(d) <= n}) IN
           /\ done \in 0..Gathered /\ Gone(done) <= n
           /\ n - Gone(done) \in Nat
           /\ n - Gone(done) # 0 =>
                done # Gathered /\ n - Gone(done) < total[front + done + 1]
<1> DEFINE m == Gathered
<1> DEFINE S == {d \in 0..m : Gone(d) <= n}
<1> DEFINE done == Max(S)
<1>1. /\ Types /\ \A r \in Rids : Fitting(r)
      /\ \A r \in ready : r > front => Remaining(r)
      /\ \A r \in ready : r > front + 1 => Untouched(r)
      /\ Sent
  BY DEF WInv
<1>2. m \in 0..(made - front) /\ Fits(m) /\ m # 0
  BY <1>1, WhatFits
<1>3. front \in Nat /\ made \in Nat /\ Len(Data) = Gone(m)
  BY <1>1 DEF Types, Rids
<1> HIDE DEF m
<1>4. m \in Nat /\ front + m <= made /\ \A i \in 1..m : front + i \in ready
  <2>1. \A i \in 1..m : front + i \in ready
    BY <1>2 DEF Fits
  <2>2. m \in 0..(made - front)
    BY <1>2
  <2> QED BY <1>3, <2>1, <2>2
<1>5. Gone(0) = 0
  BY <1>1, <1>2, <1>4, Queue
<1>6. \A i \in 0..m : Gone(i) \in Nat
  BY <1>1, <1>2, <1>4, Queue
<1>7. \A i \in 1..m : Gone(i) = Gone(i - 1) + total[front + i]
  BY <1>1, <1>2, <1>4, Queue
<1>8. done \in S /\ \A d \in S : d <= done
  <2>1. 0 \in S
    BY <1>4, <1>5
  <2>2. S \in SUBSET (0..m) /\ S # {}
    BY <2>1
  <2> HIDE DEF S
  <2> QED BY <1>4, <2>2, Largest
<1> HIDE DEF done
<1>9. done \in 0..m /\ Gone(done) <= n /\ Gone(done) \in Nat /\ n \in Nat
  BY <1>6, <1>8
<1>10. n - Gone(done) \in Nat
  BY <1>9
<1>11. ASSUME n - Gone(done) # 0 PROVE done # m /\ n - Gone(done) < total[front + done + 1]
  <2>1. done # m
    <3> SUFFICES ASSUME done = m PROVE FALSE
      OBVIOUS
    <3>1. n <= Gone(m) /\ Gone(m) <= n /\ Gone(m) \in Nat
      BY <1>3, <1>9
    <3> QED BY <1>9, <1>11, <3>1
  <2> DEFINE e == done + 1
  <2>2. e \in 1..m /\ e \in 0..m /\ e - 1 = done /\ ~(e <= done) /\ front + e = front + done + 1
    BY <1>3, <1>4, <1>9, <2>1
  <2>3. ~(Gone(e) <= n)
    BY <1>8, <2>2
  <2>4. Gone(e) = Gone(done) + total[front + e] /\ Gone(e) \in Nat
    BY <1>6, <1>7, <2>2
  <2>5. total[front + e] \in Nat
    <3>1. front + e \in ready
      BY <1>4, <2>2
    <3>2. ready \subseteq Rids
      BY <1>1, WriteConfig DEF Types, Rids
    <3> QED BY <1>1, <3>1, <3>2 DEF Types
  <2>6. n - Gone(done) < total[front + e]
    BY <1>9, <2>3, <2>4, <2>5
  <2> QED BY <2>1, <2>2, <2>6
<1> QED BY <1>9, <1>10, <1>11 DEF done, m

\* writev takes n bytes: done responses, and size bytes of the next one.
WriteTakes(n, done, size) ==
    /\ done = Max({d \in 0..Gathered : Gone(d) <= n}) /\ size = n - Gone(done)
    /\ wire' = wire \o SubSeq(Data, 1, n) /\ front' = front + done
    /\ UNCHANGED <<open, watch, writing, made, ready, closing, parts>>
    /\ {d \in 1..done : front + d \in closing} = {}
    /\ IF size > 0 THEN ProcessIov(front + done + 1, size)
       ELSE UNCHANGED <<processed, total, iov>>

\* After a write that does not end the connection the queue goes on with what
\* is left.
LEMMA GoesOn ==
    ASSUME WInv, open, writing # "no", NEW n \in 1..Len(Data), NEW done, NEW size,
           WriteTakes(n, done, size)
    PROVE  WInv'
<1> DEFINE m == Gathered
<1>r. PICK r : r = front + done + 1
  OBVIOUS
<1>1. /\ Types /\ 1..front \subseteq ready /\ \A q \in Rids : Fitting(q)
      /\ \A q \in ready : q > front => Remaining(q)
      /\ \A q \in ready : q > front + 1 => Untouched(q)
      /\ Sent /\ CloseHonoured
  BY DEF WInv
<1>0. /\ parts' = parts /\ ready' = ready /\ made' = made /\ closing' = closing
      /\ open' = open /\ watch' = watch /\ writing' = writing /\ front' = front + done
      /\ wire' = wire \o SubSeq(Data, 1, n) /\ size = n - Gone(done)
  BY DEF WriteTakes
<1>2. /\ m # 0 /\ wire' \in Seq(Byte) /\ Len(wire') = Len(wire) + n /\ Len(Data) = Gone(m)
      /\ Places'
  <2>1. m # 0 /\ Places'
    BY <1>0, Written
  <2>2. wire' \in Seq(Byte)
    BY <1>0, Written
  <2>3. Len(wire') = Len(wire) + n
    BY <1>0, Written
  <2>4. Len(Data) = Gone(m)
    BY <1>0, Written
  <2> QED BY <2>1, <2>2, <2>3, <2>4
<1>3. m \in 0..(made - front) /\ Fits(m)
  BY <1>1, WhatFits
<1>4. /\ done \in 0..m /\ Gone(done) <= n /\ size \in Nat
      /\ size # 0 => done # m /\ size < total[r]
  <2>1. done \in 0..Gathered /\ Gone(done) <= n
    BY <1>2, Complete DEF WriteTakes
  <2>2. n - Gone(done) \in Nat
    BY <1>2, Complete DEF WriteTakes
  <2>3. n - Gone(done) # 0 => done # Gathered /\ n - Gone(done) < total[front + done + 1]
    BY <1>2, Complete DEF WriteTakes
  <2>4. done = Max({d \in 0..Gathered : Gone(d) <= n}) /\ size = n - Gone(done)
    BY DEF WriteTakes
  <2> QED BY <1>r, <2>1, <2>2, <2>3, <2>4
<1> HIDE DEF m
<1>5. \A i \in 1..m : front + i \in ready
  BY <1>3 DEF Fits
<1>6. /\ front \in Nat /\ made \in 0..MaxResponses /\ ready \subseteq Rids /\ front <= made
      /\ MaxResponses \in Nat /\ Rids = 1..MaxResponses /\ ready \subseteq 1..made
  BY <1>1, WriteConfig DEF Types, Rids
<1>7. /\ m \in Nat /\ front + m <= made /\ done \in Nat /\ done <= m /\ n \in Nat /\ n # 0
      /\ front + done \in 0..made /\ front + done \in 0..MaxResponses
  BY <1>2, <1>3, <1>4, <1>6
<1>8. /\ Gone(0) = 0
      /\ \A i \in 0..m : Gone(i) \in Nat
      /\ \A i \in 1..m : Gone(i) = Gone(i - 1) + total[front + i]
      /\ \A i \in 1..m : SumTo(Sizes, front + i) = Len(wire) + Gone(i)
  <2>1. Gone(0) = 0
    BY <1>1, <1>2, <1>5, <1>7, Queue
  <2>2. \A i \in 0..m : Gone(i) \in Nat
    BY <1>1, <1>2, <1>5, <1>7, Queue
  <2>3. \A i \in 1..m : Gone(i) = Gone(i - 1) + total[front + i]
    BY <1>1, <1>2, <1>5, <1>7, Queue
  <2>4. \A i \in 1..m : SumTo(Sizes, front + i) = Len(wire) + Gone(i)
    BY <1>1, <1>2, <1>5, <1>7, Queue
  <2> QED BY <2>1, <2>2, <2>3, <2>4
<1>9. size # 0 =>
        /\ done + 1 \in 1..m /\ front + (done + 1) = r /\ (done + 1) - 1 = done
        /\ r \in ready /\ r \in Rids /\ r > front /\ Fitting(r) /\ Remaining(r)
        /\ ProcessIov(r, size) /\ size < total[r] /\ front + done < made
  <2> SUFFICES ASSUME size # 0
               PROVE  /\ done + 1 \in 1..m /\ front + (done + 1) = r /\ (done + 1) - 1 = done
                      /\ r \in ready /\ r \in Rids /\ r > front /\ Fitting(r) /\ Remaining(r)
                      /\ ProcessIov(r, size) /\ size < total[r] /\ front + done < made
    OBVIOUS
  <2>1. /\ done + 1 \in 1..m /\ front + (done + 1) = r /\ (done + 1) - 1 = done /\ r > front
        /\ front + done < made /\ size > 0
    BY <1>r, <1>4, <1>6, <1>7
  <2>2. r \in ready
    BY <1>5, <2>1
  <2>3. r \in Rids /\ Fitting(r) /\ Remaining(r)
    BY <1>1, <1>6, <2>1, <2>2
  <2>4. ProcessIov(r, size)
    BY <1>r, <2>1 DEF WriteTakes
  <2> QED BY <1>4, <2>1, <2>2, <2>3, <2>4
<1>10. size = 0 => UNCHANGED <<processed, total, iov>>
  BY DEF WriteTakes
<1>11. /\ processed' \in [Rids -> Nat] /\ total' \in [Rids -> Nat]
       /\ iov' \in [Rids -> Seq([base : Nat, len : Nat \ {0}])]
       /\ \A q \in Rids : (size = 0 \/ q # r) =>
            processed'[q] = processed[q] /\ total'[q] = total[q] /\ iov'[q] = iov[q]
  <2>1. CASE size = 0
    BY <1>1, <1>10, <2>1 DEF Types
  <2>2. CASE size # 0
    <3>1. /\ processed' \in [Rids -> Nat] /\ total' \in [Rids -> Nat]
          /\ iov' \in [Rids -> Seq([base : Nat, len : Nat \ {0}])]
      BY <1>1, <1>4, <1>9, <2>2, Process
    <3>2. \A q \in Rids : q # r => /\ processed'[q] = processed[q]
                                   /\ total'[q] = total[q] /\ iov'[q] = iov[q]
      BY <1>1, <1>4, <1>9, <2>2, Process
    <3> QED BY <2>2, <3>1, <3>2
  <2> QED BY <2>1, <2>2
<1>12. ASSUME NEW q \in Rids, size = 0 \/ q # r
       PROVE  /\ Fitting(q)'
              /\ Remaining(q) => Remaining(q)'
              /\ Untouched(q) => Untouched(q)'
  <2>1. /\ parts'[q] = parts[q] /\ iov'[q] = iov[q] /\ (q \in ready') = (q \in ready)
        /\ processed'[q] = processed[q] /\ total'[q] = total[q]
    BY <1>0, <1>11, <1>12
  <2>2. Fitting(q)
    BY <1>1
  <2> QED BY <2>1, <2>2, Untouching
<1>13. size # 0 => Fitting(r)' /\ Remaining(r)' /\ total'[r] = total[r] - size
  <2> SUFFICES ASSUME size # 0 PROVE Fitting(r)' /\ Remaining(r)' /\ total'[r] = total[r] - size
    OBVIOUS
  <2>1. /\ r \in Rids /\ Fitting(r) /\ Remaining(r) /\ r \in ready
        /\ ProcessIov(r, size) /\ size < total[r]
    BY <1>9
  <2>2. parts' = parts /\ ready' = ready /\ Types /\ size \in Nat
    BY <1>0, <1>1, <1>4
  <2>3. Fitting(r)' /\ Remaining(r)'
    BY <2>1, <2>2, ProcessKeeps
  <2>4. total'[r] = total[r] - size
    BY <1>1, <1>4, <1>9, Process
  <2> QED BY <2>3, <2>4
<1>14. Types'
  BY <1>0, <1>1, <1>2, <1>7, <1>11 DEF Types
<1>15. (1..front \subseteq ready)'
  <2>1. ASSUME NEW i \in 1..(front + done) PROVE i \in ready
    <3>1. i \in 1..front \/ (i - front \in 1..m /\ front + (i - front) = i)
      BY <1>6, <1>7
    <3> QED BY <1>1, <1>5, <3>1
  <2> QED BY <1>0, <2>1
<1>16. CloseHonoured'
  <2>1. ASSUME NEW i \in 1..(front + done), i \in closing PROVE FALSE
    <3>1. i \in 1..front \/ (i - front \in 1..done /\ front + (i - front) = i)
      BY <1>6, <1>7
    <3> QED BY <1>1, <2>1, <3>1 DEF CloseHonoured, WriteTakes
  <2> QED BY <1>0, <2>1 DEF CloseHonoured
<1>17. ASSUME NEW q \in Rids PROVE Fitting(q)'
  BY <1>12, <1>13
<1>18. ASSUME NEW q \in ready, q > front + done
       PROVE  Remaining(q)' /\ (q > front + done + 1 => Untouched(q)')
  <2>1. q \in Rids /\ Remaining(q) /\ (q > front + done + 1 => q # r /\ Untouched(q))
    BY <1>r, <1>1, <1>6, <1>7, <1>18
  <2> QED BY <1>12, <1>13, <2>1
<1>19. Sent'
  <2> DEFINE f == front + done
  <2> DEFINE w == Len(wire)
  <2> DEFINE g == Gone(done)
  <2>1. /\ f \in 0..made /\ done \in 0..m /\ f + 1 = r /\ g \in Nat /\ size = n - g /\ n \in Nat
    BY <1>r, <1>0, <1>4, <1>6, <1>7, <1>8
  <2>2. w \in Nat
    BY <1>1, LenProperties DEF Types
  <2>3. SentLen(parts', ready', total', front', made')
        = SumTo(Sizes, f) + (IF f < made /\ r \in ready THEN Size(r) - total'[r] ELSE 0)
    BY <1>0, <2>1, Unfold DEF SentLen
  <2>4. CASE size = 0
    <3>1. done # 0 /\ done \in 1..m
      BY <1>7, <1>8, <2>1, <2>4
    <3>2. SumTo(Sizes, f) = w + g
      BY <1>8, <3>1
    <3>3. ASSUME r \in ready PROVE Size(r) - total'[r] = 0
      <4>1. r > front /\ r > front + 1 /\ r \in Rids
        BY <1>6, <2>1, <3>1, <3>3
      <4>2. Fitting(r) /\ Remaining(r) /\ Untouched(r)
        BY <1>1, <3>3, <4>1
      <4>3. total[r] = Size(r)
        BY <1>1, <4>1, <4>2, AllIsLeft
      <4>4. total'[r] = total[r] /\ total[r] \in Nat
        BY <1>1, <1>11, <2>4, <4>1 DEF Types
      <4> QED BY <4>3, <4>4
    <3>4. SentLen(parts', ready', total', front', made') = w + g
      <4>1. (IF f < made /\ r \in ready THEN Size(r) - total'[r] ELSE 0) = 0
        BY <3>3
      <4> HIDE DEF w, g, f
      <4> QED BY <2>1, <2>2, <2>3, <3>2, <4>1
    <3>5. g = n
      BY <2>1, <2>4
    <3> QED BY <1>2, <3>4, <3>5, Unfold
  <2>5. CASE size # 0
    <3>1. r \in ready /\ f < made /\ r \in Rids /\ done + 1 \in 1..m
      BY <1>9, <2>5
    <3>2. SumTo(Sizes, r) = w + Gone(done + 1) /\ Gone(done + 1) = g + total[r]
      <4>1. front + (done + 1) = r /\ (done + 1) - 1 = done
        BY <1>9, <2>5
      <4> QED BY <1>8, <3>1, <4>1
    <3>3. SumTo(Sizes, r) = SumTo(Sizes, f) + Size(r) /\ SumTo(Sizes, f) \in Nat
      <4>1. r \in 1..MaxResponses /\ r - 1 = f /\ f \in 0..MaxResponses
        BY <1>6, <1>7, <2>1, <3>1
      <4>2. \A i \in 1..MaxResponses : SumTo(Sizes, i) = SumTo(Sizes, i - 1) + Size(i)
        BY <1>1, Totals
      <4>3. \A i \in 0..MaxResponses : SumTo(Sizes, i) \in Nat
        BY <1>1, Totals
      <4> HIDE DEF f
      <4> QED BY <4>1, <4>2, <4>3
    <3>4. Size(r) \in Nat /\ total[r] \in Nat
      BY <1>1, <3>1, Totals
    <3>5. total'[r] = total[r] - size
      BY <1>13, <2>5
    <3>6. SentLen(parts', ready', total', front', made') = SumTo(Sizes, f) + (Size(r) - total'[r])
      BY <2>3, <3>1
    <3> DEFINE a == SumTo(Sizes, r)
    <3> DEFINE b == SumTo(Sizes, f)
    <3> DEFINE c == Size(r)
    <3> DEFINE e == total[r]
    <3>7. a = w + (g + e) /\ a = b + c
      BY <3>2, <3>3
    <3>8. b \in Nat /\ c \in Nat /\ e \in Nat
      BY <3>3, <3>4
    <3>9. SentLen(parts', ready', total', front', made') = b + (c - (e - size))
      BY <3>5, <3>6
    <3> HIDE DEF a, b, c, e, w, g, f
    <3>10. b + (c - (e - size)) = w + n
      BY <1>4, <2>1, <2>2, <3>7, <3>8
    <3> QED BY <1>2, <3>9, <3>10, Unfold DEF w
  <2> QED BY <2>4, <2>5
<1>20. Armed'
  BY <1>0 DEF Armed
<1>21. /\ \A q \in Rids : Fitting(q)'
       /\ \A q \in ready' : q > front' => Remaining(q)'
       /\ \A q \in ready' : q > front' + 1 => Untouched(q)'
       /\ writing' # "no" => open'
  <2>1. \A q \in ready' : q > front' => Remaining(q)'
    BY <1>0, <1>18
  <2>2. \A q \in ready' : q > front' + 1 => Untouched(q)'
    <3>1. ASSUME NEW q \in ready, q > front + done + 1 PROVE Untouched(q)'
      <4>1. q > front + done
        BY <1>1, <1>6, <1>7, <3>1
      <4> QED BY <1>18, <3>1, <4>1
    <3> QED BY <1>0, <3>1
  <2> QED BY <1>0, <1>17, <2>1, <2>2
<1> QED BY <1>2, <1>14, <1>15, <1>16, <1>19, <1>20, <1>21 DEF WInv

-----------------------------------------------------------------------------
(* The steps                                                               *)

\* The same numbers have the same sums.
LEMMA SumsSame ==
    ASSUME NEW s, NEW t, NEW n \in Nat, \A i \in 1..n : s[i] \in Nat,
           \A i \in 1..n : t[i] = s[i]
    PROVE  SumTo(s, n) = SumTo(t, n)
<1> DEFINE z == 0
<1>1. z \in 0..n /\ n \in z..n /\ z = 0
  OBVIOUS
<1>2. \A i \in 1..n : s[i] \in Nat /\ t[i] \in Nat
  OBVIOUS
<1>3. \A i \in 1..n : i > z => t[i] = s[i]
  OBVIOUS
<1> HIDE DEF z
<1>4. \A i \in z..n : SumTo(s, i) - SumTo(s, z) = SumTo(t, i) - SumTo(t, z)
  BY <1>1, <1>2, <1>3, SumsTail
<1>5. SumTo(s, 0) = 0 /\ SumTo(s, n) \in Nat
  <2>1. SumTo(s, 0) = 0 /\ \A i \in 0..n : SumTo(s, i) \in Nat
    BY <1>2, Sums
  <2>2. n \in 0..n
    OBVIOUS
  <2> QED BY <2>1, <2>2
<1>6. SumTo(t, 0) = 0 /\ SumTo(t, n) \in Nat
  <2>1. SumTo(t, 0) = 0 /\ \A i \in 0..n : SumTo(t, i) \in Nat
    BY <1>2, Sums
  <2>2. n \in 0..n
    OBVIOUS
  <2> QED BY <2>1, <2>2
<1> QED BY <1>1, <1>4, <1>5, <1>6

\* What one more answer keeps of the place of a byte.
LEMMA StandingKept ==
    ASSUME NEW p, NEW q, NEW rd, NEW r, r \notin rd, NEW b \in Byte, NEW i,
           \A j \in Rids : SizesOf(p)[j] \in Nat,
           \A j \in Rids : j # r => q[j] = p[j], Standing(p, rd, b, i)
    PROVE  Standing(q, rd \cup {r}, b, i)
<1>1. b.r \in Rids /\ b.r \in 1..b.r /\ MaxResponses \in Nat /\ Rids = 1..MaxResponses
  BY WriteConfig DEF Byte, Rids
<1>2. 1..b.r \subseteq rd
  BY DEF Standing
<1> DEFINE n == b.r - 1
<1> DEFINE s == SizesOf(p)
<1> DEFINE t == SizesOf(q)
<1>3. n \in Nat /\ \A j \in 1..n : j \in Rids /\ j \in 1..b.r
  BY <1>1
<1>4. \A j \in 1..n : t[j] = s[j]
  <2>1. \A j \in 1..n : j \in Rids /\ j # r
    BY <1>2, <1>3
  <2>2. \A j \in 1..n : q[j] = p[j]
    BY <2>1
  <2> QED BY <2>1, <2>2 DEF SizesOf
<1>5. \A j \in 1..n : s[j] \in Nat
  BY <1>3
<1>6. q[b.r] = p[b.r]
  BY <1>1, <1>2
<1> HIDE DEF n, s, t
<1>7. SumTo(s, n) = SumTo(t, n)
  BY <1>3, <1>4, <1>5, SumsSame
<1>8. 1..b.r \subseteq rd \cup {r}
  BY <1>2
<1> QED BY <1>6, <1>7, <1>8 DEF Standing, n, s, t

\* A response that becomes ready is whole in the queue.
LEMMA SendKeeps ==
    ASSUME WInv, NEW r \in Rids, NEW s \in Shapes, NEW keep \in BOOLEAN, Send(r, s, keep)
    PROVE  WInv'
<1>1. /\ Types /\ 1..front \subseteq ready /\ \A q \in Rids : Fitting(q)
      /\ \A q \in ready : q > front => Remaining(q)
      /\ \A q \in ready : q > front + 1 => Untouched(q)
      /\ Sent /\ CloseHonoured /\ Places /\ Armed
      /\ open /\ writing = "no" /\ r <= made
      /\ watch' = (watch \/ r = front + 1)
      /\ made' = made /\ front' = front /\ writing' = writing /\ open' = open /\ wire' = wire
  BY DEF WInv, Send
<1>2. /\ front \in Nat /\ made \in 0..MaxResponses /\ ready \subseteq Rids /\ front <= made
      /\ MaxResponses \in Nat /\ Rids = 1..MaxResponses /\ ready \subseteq 1..made
      /\ closing \subseteq ready
  BY SMTT(60), <1>1, WriteConfig DEF Types, Rids
<1>3. CASE r \in ready
  <2>1. UNCHANGED respVars
    BY <1>3 DEF Send, SetReady
  <2>2. /\ ready' = ready /\ closing' = closing /\ parts' = parts /\ iov' = iov
        /\ processed' = processed /\ total' = total
    BY <2>1 DEF respVars
  <2>3. Types'
    BY <1>1, <2>2 DEF Types
  <2>4. \A q \in Rids : Fitting(q)'
    BY <1>1, <2>2, Untouching
  <2>5. \A q \in ready' : q > front' => Remaining(q)'
    BY <1>1, <2>2, Untouching
  <2>6. \A q \in ready' : q > front' + 1 => Untouched(q)'
    BY <1>1, <2>2, Untouching
  <2>7. Sent' /\ Places'
    BY <1>1, <2>2, Unfold
  <2>8. Armed'
    BY <1>1, <2>2 DEF Armed, FrontReady, Left
  <2>9. CloseHonoured' /\ (1..front \subseteq ready)' /\ (writing' # "no" => open')
    BY <1>1, <2>2 DEF CloseHonoured
  <2> QED BY <2>3, <2>4, <2>5, <2>6, <2>7, <2>8, <2>9 DEF WInv
<1>4. CASE r \notin ready
  <2>1. /\ ready' = ready \cup {r} /\ processed' = processed
        /\ closing' = IF keep THEN closing ELSE closing \cup {r}
        /\ parts' = [parts EXCEPT ![r] = s]
        /\ iov' = [iov EXCEPT ![r] = [k \in DOMAIN s |-> [base |-> 0, len |-> s[k]]]]
        /\ total' = [total EXCEPT ![r] = SumTo(s, Len(s))]
    BY <1>4 DEF Send, SetReady
  <2> DEFINE n == Len(s)
  <2> DEFINE v == [k \in DOMAIN s |-> [base |-> 0, len |-> s[k]]]
  <2>2. /\ s \in Seq(Nat \ {0}) /\ n \in Nat /\ n # 0 /\ DOMAIN s = 1..n
        /\ \A k \in 1..n : s[k] \in Nat \ {0}
    <3>1. s \in Seq(Nat \ {0}) /\ s # <<>>
      BY WriteConfig
    <3>2. n \in Nat /\ DOMAIN s = 1..n /\ \A k \in 1..n : s[k] \in Nat \ {0}
      BY <3>1, LenProperties, ElementOfSeq
    <3>3. n # 0
      BY <3>1, EmptySeq
    <3> QED BY <3>1, <3>2, <3>3
  <2> HIDE DEF n
  <2>3. /\ v \in Seq([base : Nat, len : Nat \ {0}]) /\ Len(v) = n /\ DOMAIN v = 1..n
        /\ \A k \in 1..n : v[k].base = 0 /\ v[k].len = s[k]
    <3>1. \A k \in 1..n : [base |-> 0, len |-> s[k]] \in [base : Nat, len : Nat \ {0}]
      BY <2>2
    <3>2. v = [k \in 1..n |-> [base |-> 0, len |-> s[k]]]
      BY <2>2
    <3>3. v \in Seq([base : Nat, len : Nat \ {0}])
      BY <2>2, <3>1, <3>2, IsASeq
    <3>4. DOMAIN v = 1..n /\ \A k \in 1..n : v[k].base = 0 /\ v[k].len = s[k]
      BY <3>2
    <3> HIDE DEF v
    <3> QED BY <2>2, <3>3, <3>4, LenProperties
  <2> HIDE DEF v
  <2>4. SumTo(s, 0) = 0 /\ SumTo(s, n) \in Nat
    <3>1. SumTo(s, 0) = 0 /\ \A i \in 0..n : SumTo(s, i) \in Nat
      BY <2>2, Sums
    <3>2. n \in 0..n
      BY <2>2
    <3> QED BY <3>1, <3>2
  <2>5. /\ parts \in [Rids -> Seq(Nat \ {0})] /\ processed \in [Rids -> Nat]
        /\ iov \in [Rids -> Seq([base : Nat, len : Nat \ {0}])] /\ total \in [Rids -> Nat]
    BY <1>1 DEF Types
  <2>6. /\ parts'[r] = s /\ iov'[r] = v /\ total'[r] = SumTo(s, n)
        /\ \A q \in Rids : q # r => parts'[q] = parts[q] /\ iov'[q] = iov[q] /\ total'[q] = total[q]
    BY <2>1, <2>5 DEF n, v
  <2>7. /\ parts' \in [Rids -> Seq(Nat \ {0})] /\ total' \in [Rids -> Nat]
        /\ iov' \in [Rids -> Seq([base : Nat, len : Nat \ {0}])]
    BY <2>1, <2>2, <2>3, <2>4, <2>5 DEF n, v
  <2>8. processed[r] = 0 /\ \A q \in Rids : processed'[q] = processed[q]
    BY <1>1, <1>4, <2>1 DEF Fitting
  <2>9. Types'
    <3>1. ready' \subseteq 1..made /\ closing' \subseteq ready'
      BY <1>1, <1>2, <2>1
    <3>2. watch' \in BOOLEAN
      BY <1>1 DEF Types
    <3> QED BY <1>1, <2>1, <2>5, <2>7, <3>1, <3>2 DEF Types
  <2>10. Fitting(r)'
    <3>1. /\ Len(v) = Len(s) /\ 0 <= n
          /\ \A k \in 1..n : v[k].len <= s[k] /\ v[k].base <= s[k]
      BY <2>2, <2>3 DEF n
    <3> QED BY <2>1, <2>3, <2>6, <2>8, <3>1 DEF Fitting
  <2>11. Remaining(r)' /\ Untouched(r)'
    <3> DEFINE u == Lengths(r)'
    <3>1. u = s
      <4>1. u = [k \in 1..n |-> s[k]]
        BY <2>3, <2>6 DEF Lengths
      <4> QED BY <2>2, <4>1
    <3>2. /\ processed'[r] < Len(iov'[r])
          /\ total'[r] = SumTo(Lengths(r)', Len(iov'[r])) - SumTo(Lengths(r)', processed'[r])
          /\ \A k \in 1..Len(iov'[r]) : k > processed'[r] + 1 => iov'[r][k].len = parts'[r][k]
      <4>1. processed'[r] = 0 /\ Len(iov'[r]) = n /\ total'[r] = SumTo(s, n)
        BY <2>3, <2>6, <2>8
      <4>2. SumTo(s, n) = SumTo(s, n) - SumTo(s, 0)
        BY <2>4
      <4> QED BY <2>2, <2>3, <2>6, <3>1, <4>1, <4>2
    <3>3. Remaining(r)'
      BY <3>2 DEF Remaining, SumTo
    <3>4. Untouched(r)'
      BY <2>2, <2>3, <2>6, <2>8 DEF Untouched
    <3> QED BY <3>3, <3>4
  <2>12. ASSUME NEW q \in Rids, q # r
         PROVE  /\ Fitting(q)'
                /\ Remaining(q) => Remaining(q)'
                /\ Untouched(q) => Untouched(q)'
    <3>1. (q \in ready') = (q \in ready)
      BY <2>1, <2>12
    <3> QED BY <1>1, <2>6, <2>8, <2>12, <3>1, Untouching
  <2>13. \A q \in Rids : Fitting(q)'
    BY <2>10, <2>12
  <2>14. \A q \in ready' : q > front' => Remaining(q)'
    BY <1>1, <1>2, <2>1, <2>11, <2>12
  <2>15. \A q \in ready' : q > front' + 1 => Untouched(q)'
    BY <1>1, <1>2, <2>1, <2>11, <2>12
  <2>16. (1..front \subseteq ready)' /\ CloseHonoured'
    BY <1>1, <1>4, <2>1 DEF CloseHonoured
  <2>17. \A j \in Rids : SizesOf(parts)[j] \in Nat
    BY <1>1, Totals, Unfold
  <2>18. Places'
    <3>1. ASSUME NEW i \in DOMAIN wire PROVE Standing(parts', ready \cup {r}, wire[i], i)
      <4>1. wire[i] \in Byte
        <5>1. wire \in Seq(Byte)
          BY <1>1 DEF Types
        <5>2. i \in 1..Len(wire)
          BY <5>1, LenProperties
        <5> QED BY <5>1, <5>2, ElementOfSeq
      <4>2. Standing(parts, ready, wire[i], i)
        BY <1>1, Unfold
      <4>3. \A j \in Rids : j # r => parts'[j] = parts[j]
        BY <2>6
      <4> DEFINE pp == parts'
      <4> HIDE DEF pp
      <4>4. Standing(pp, ready \cup {r}, wire[i], i)
        BY <1>4, <2>17, <4>1, <4>2, <4>3, StandingKept DEF pp
      <4> QED BY <4>4 DEF pp
    <3> QED BY <1>1, <2>1, <3>1, Unfold
  <2>19. Sent'
    <3> DEFINE p == SizesOf(parts)
    <3> DEFINE q == SizesOf(parts')
    <3>1. \A j \in 1..front : j \in Rids /\ j # r /\ p[j] \in Nat /\ q[j] = p[j]
      <4>1. \A j \in 1..front : j \in Rids /\ j # r
        BY <1>1, <1>2, <1>4
      <4>2. \A j \in 1..front : p[j] \in Nat
        BY <2>17, <4>1
      <4>3. \A j \in 1..front : q[j] = p[j]
        BY <2>6, <4>1 DEF SizesOf
      <4> QED BY <4>1, <4>2, <4>3
    <3> HIDE DEF p, q
    <3>2. SumTo(p, front) = SumTo(q, front)
      BY <1>2, <3>1, SumsSame
    <3> DEFINE a == SumTo(p, front)
    <3>3. a \in Nat
      <4>1. \A j \in 0..front : SumTo(p, j) \in Nat
        BY <1>2, <3>1, Sums
      <4>2. front \in 0..front
        BY <1>2
      <4> QED BY <4>1, <4>2
    <3> HIDE DEF a
    <3>4. SentLen(parts, ready, total, front, made)
          = a + (IF front < made /\ front + 1 \in ready
                 THEN SumTo(parts[front + 1], Len(parts[front + 1])) - total[front + 1] ELSE 0)
      BY DEF SentLen, p, a
    <3>5. SentLen(parts', ready', total', front', made')
          = a + (IF front < made /\ front + 1 \in ready'
                 THEN SumTo(parts'[front + 1], Len(parts'[front + 1])) - total'[front + 1] ELSE 0)
      BY <1>1, <3>2 DEF SentLen, q, a
    <3>6. CASE r = front + 1
      <4>1. front + 1 \notin ready
        BY <1>4, <3>6
      <4>2. SumTo(parts'[front + 1], Len(parts'[front + 1])) - total'[front + 1] = 0
        BY <2>4, <2>6, <3>6 DEF n
      <4> QED BY <1>1, <3>4, <3>5, <4>1, <4>2, Unfold
    <3>7. CASE r # front + 1
      <4>1. (front + 1 \in ready') = (front + 1 \in ready)
        BY <2>1, <3>7
      <4>2. CASE front + 1 \in ready
        <5>1. parts'[front + 1] = parts[front + 1] /\ total'[front + 1] = total[front + 1]
          BY <1>2, <2>6, <3>7, <4>2
        <5> QED BY <1>1, <3>4, <3>5, <4>1, <5>1, Unfold
      <4>3. CASE front + 1 \notin ready
        BY <1>1, <3>4, <3>5, <4>1, <4>3, Unfold
      <4> QED BY <4>2, <4>3
    <3> QED BY <3>6, <3>7
  <2>20. Armed'
    <3>1. CASE r = front + 1
      BY <1>1, <3>1 DEF Armed
    <3>2. CASE r # front + 1
      <4>1. FrontReady' => FrontReady /\ Left(front + 1)' = Left(front + 1)
        <5> SUFFICES ASSUME FrontReady' PROVE FrontReady /\ Left(front + 1)' = Left(front + 1)
          OBVIOUS
        <5>1. front < made /\ front + 1 \in ready
          BY <1>1, <2>1, <3>2 DEF FrontReady
        <5>2. iov'[front + 1] = iov[front + 1] /\ processed'[front + 1] = processed[front + 1]
          BY <1>2, <2>6, <2>8, <3>2, <5>1
        <5> QED BY <1>1, <5>1, <5>2 DEF FrontReady, Left
      <4> QED BY <1>1, <4>1 DEF Armed
    <3> QED BY <3>1, <3>2
  <2> QED BY <1>1, <2>9, <2>13, <2>14, <2>15, <2>16, <2>18, <2>19, <2>20 DEF WInv
<1> QED BY <1>3, <1>4

\* Write keeps the invariant.
LEMMA WriteKeeps ==
    ASSUME WInv, Write
    PROVE  WInv'
<1>1. /\ writing # "no" /\ open /\ Types /\ 1..front \subseteq ready /\ \A q \in Rids : Fitting(q)
      /\ \A q \in ready : q > front => Remaining(q)
      /\ UNCHANGED <<made, ready, closing, parts>>
  BY DEF WInv, Write
<1>2. PICK n \in 1..Len(Data) :
        LET done == Max({d \in 0..Gathered : Gone(d) <= n})
            size == n - Gone(done)
            last == Ending(done)
        IN  /\ wire' = wire \o SubSeq(Data, 1, n)
            /\ IF last # {}
               THEN /\ Shut
                    /\ front' = front + Min(last)
                    /\ UNCHANGED <<processed, total, iov>>
               ELSE /\ front' = front + done
                    /\ IF size > 0 THEN ProcessIov(front + done + 1, size)
                       ELSE UNCHANGED <<processed, total, iov>>
                    /\ UNCHANGED <<open, watch, writing>>
  BY DEF Write, Gone
<1> DEFINE done == Max({d \in 0..Gathered : Gone(d) <= n})
<1> DEFINE size == n - Gone(done)
<1> DEFINE last == {d \in 1..done : front + d \in closing}
<1>3. /\ wire' = wire \o SubSeq(Data, 1, n)
      /\ last # {} => Shut /\ front' = front + Min(last) /\ UNCHANGED <<processed, total, iov>>
      /\ last = {} => /\ front' = front + done
                      /\ IF size > 0 THEN ProcessIov(front + done + 1, size)
                         ELSE UNCHANGED <<processed, total, iov>>
                      /\ UNCHANGED <<open, watch, writing>>
  BY <1>2
<1>4. CASE last = {}
  <2>1. WriteTakes(n, done, size)
    BY <1>1, <1>3, <1>4 DEF WriteTakes
  <2> HIDE DEF done, size
  <2> QED BY <1>1, <2>1, GoesOn
<1>5. CASE last # {}
  <2>1. parts' = parts /\ ready' = ready /\ made' = made /\ closing' = closing
    BY <1>1
  <2>2. wire' \in Seq(Byte) /\ Places' /\ Gathered # 0 /\ Len(Data) = Gone(Gathered)
    <3>1. wire' \in Seq(Byte)
      BY <1>1, <1>3, <2>1, Written
    <3>2. Places' /\ Gathered # 0
      BY <1>1, <1>3, <2>1, Written
    <3>3. Len(Data) = Gone(Gathered)
      BY <1>1, <1>3, <2>1, Written
    <3> QED BY <3>1, <3>2, <3>3
  <2>3. done \in 0..Gathered
    <3> HIDE DEF size, last
    <3> QED BY <1>1, <2>2, Complete
  <2>4. Gathered \in 0..(made - front) /\ Fits(Gathered)
    BY <1>1, WhatFits
  <2>5. Shut /\ front' = front + Min(last) /\ processed' = processed /\ total' = total /\ iov' = iov
    BY <1>3, <1>5
  <2> HIDE DEF done, size
  <2>6. front \in Nat /\ made \in Nat
    BY <1>1, WriteConfig DEF Types
  <2>7. Min(last) \in 1..done
    <3>1. last \in SUBSET Nat
      BY <2>3
    <3>2. last \subseteq 1..done
      OBVIOUS
    <3> HIDE DEF last
    <3>3. Min(last) \in last
      BY <1>5, <3>1, Least
    <3> QED BY <3>2, <3>3
  <2> DEFINE e == Min(last)
  <2> HIDE DEF e, last
  <2> DEFINE m == Gathered
  <2>8. \A i \in 1..m : front + i \in ready
    BY <2>4 DEF Fits
  <2>9. m \in 0..(made - front) /\ done \in 0..m /\ e \in 1..done /\ front' = front + e
    BY <2>3, <2>4, <2>5, <2>7 DEF e
  <2> HIDE DEF m
  <2>10. front' \in 0..made
    BY <2>6, <2>9
  <2>11. 1..front' \subseteq ready
    <3>1. ASSUME NEW i \in 1..(front + e) PROVE i \in ready
      <4>1. i \in 1..front \/ (i - front \in 1..m /\ front + (i - front) = i)
        BY <2>6, <2>9
      <4> QED BY <1>1, <2>8, <4>1
    <3> QED BY <2>9, <3>1
  <2> QED BY <2>1, <2>2, <2>5, <2>10, <2>11, Closing
<1> QED BY <1>4, <1>5

\* Steps that neither answer nor write change none of the responses.
LEMMA OthersKeep ==
    ASSUME WInv, UNCHANGED <<respVars, front, wire>>,
           made' \in made..MaxResponses, watch' \in BOOLEAN, open' \in BOOLEAN, open' => open,
           writing' \in {"no", "write", "user"}, writing' # "no" => open', Armed'
    PROVE  WInv'
<1>1. /\ Types /\ 1..front \subseteq ready /\ \A q \in Rids : Fitting(q)
      /\ open => \A q \in ready : q > front => Remaining(q)
      /\ open => \A q \in ready : q > front + 1 => Untouched(q)
      /\ open => Sent /\ CloseHonoured
      /\ Places
  BY DEF WInv
<1>2. /\ ready' = ready /\ closing' = closing /\ parts' = parts /\ iov' = iov
      /\ processed' = processed /\ total' = total /\ front' = front /\ wire' = wire
  BY DEF respVars
<1>3. /\ front \in Nat /\ made \in 0..MaxResponses /\ MaxResponses \in Nat /\ ready \subseteq 1..made
      /\ front \in 0..made
  BY <1>1, WriteConfig DEF Types
<1>4. Types'
  <2>1. made' \in 0..MaxResponses /\ front \in 0..made' /\ ready \subseteq 1..made'
    BY <1>3
  <2> QED BY <1>1, <1>2, <2>1 DEF Types
<1>5. \A q \in Rids : Fitting(q)'
  BY <1>1, <1>2, Untouching
<1>6. open' => \A q \in ready' : q > front' => Remaining(q)'
  BY <1>1, <1>2, Untouching
<1>7. open' => \A q \in ready' : q > front' + 1 => Untouched(q)'
  BY <1>1, <1>2, Untouching
<1>8. Places'
  BY <1>1, <1>2, Unfold
<1>9. open' => Sent'
  <2>1. (front < made' /\ front + 1 \in ready) = (front < made /\ front + 1 \in ready)
    BY <1>3
  <2>2. SentLen(parts', ready', total', front', made') = SentLen(parts, ready, total, front, made)
    BY <1>2, <2>1 DEF SentLen
  <2> QED BY <1>1, <1>2, <2>2, Unfold
<1>10. open' => CloseHonoured'
  BY <1>1, <1>2 DEF CloseHonoured
<1>11. (1..front \subseteq ready)'
  BY <1>1, <1>2
<1> QED BY <1>4, <1>5, <1>6, <1>7, <1>8, <1>9, <1>10, <1>11 DEF WInv

\* The initial state.
LEMMA InitKeeps == Init => WInv
<1> SUFFICES ASSUME Init PROVE WInv
  OBVIOUS
<1>1. /\ made = 0 /\ front = 0 /\ ready = {} /\ closing = {}
      /\ parts = [r \in Rids |-> <<>>] /\ iov = [r \in Rids |-> <<>>]
      /\ processed = [r \in Rids |-> 0] /\ total = [r \in Rids |-> 0]
      /\ watch = FALSE /\ writing = "no" /\ open = TRUE /\ wire = <<>>
  BY DEF Init
<1>2. /\ \A V : <<>> \in Seq(V)
      /\ Len(<<>>) = 0 /\ DOMAIN <<>> = {}
  BY EmptySeq
<1>3. Types
  <2>1. parts \in [Rids -> Seq(Nat \ {0})] /\ iov \in [Rids -> Seq([base : Nat, len : Nat \ {0}])]
        /\ wire \in Seq(Byte)
    BY <1>1, <1>2
  <2>2. processed \in [Rids -> Nat] /\ total \in [Rids -> Nat]
    BY <1>1
  <2>3. made \in 0..MaxResponses /\ front \in 0..made
    BY <1>1, WriteConfig
  <2> QED BY <1>1, <2>1, <2>2, <2>3 DEF Types
<1>4. ASSUME NEW r \in Rids PROVE Fitting(r)
  <2>1. parts[r] = <<>> /\ iov[r] = <<>> /\ processed[r] = 0 /\ total[r] = 0 /\ r \notin ready
    BY <1>1
  <2> QED BY <1>2, <2>1 DEF Fitting
<1>5. Places
  BY <1>1, <1>2 DEF Places
<1>6. Sent
  <2>1. SumTo(Sizes, 0) = 0
    <3> DEFINE s == Sizes
    <3> DEFINE z == 0
    <3>1. z \in Nat /\ \A i \in 1..z : s[i] \in Nat
      OBVIOUS
    <3> HIDE DEF s, z
    <3>2. SumTo(s, 0) = 0
      BY <3>1, Sums
    <3> QED BY <3>2 DEF s
  <2>2. ~FrontReady
    BY <1>1 DEF FrontReady
  <2> QED BY <1>1, <1>2, <2>1, <2>2 DEF Sent
<1>7. Armed /\ CloseHonoured /\ 1..front \subseteq ready
  BY <1>1 DEF Armed, CloseHonoured, FrontReady
<1> QED BY <1>1, <1>3, <1>4, <1>5, <1>6, <1>7 DEF WInv

\* keep_alive of a response that was not popped may change.
LEMMA ChangeKeeps == ASSUME WInv, NEW r \in Rids, SetKeepAlive(r) PROVE WInv'
<1>1. /\ r \in ready /\ r > front /\ front \in Nat /\ Types
      /\ closing' \in {closing \ {r}, closing \cup {r}}
      /\ made' = made /\ front' = front /\ ready' = ready /\ parts' = parts /\ iov' = iov
      /\ processed' = processed /\ total' = total /\ watch' = watch
      /\ writing' = writing /\ open' = open /\ wire' = wire
  BY DEF SetKeepAlive, WInv, Types
<1>2. Types'
  BY <1>1 DEF Types
<1>3. \A q \in Rids : Fitting(q)'
  BY <1>1, Untouching DEF WInv
<1>4. open' => /\ \A q \in ready' : q > front' => Remaining(q)'
               /\ \A q \in ready' : q > front' + 1 => Untouched(q)'
  <2>1. ready \subseteq Rids
    BY <1>1, WriteConfig DEF Types, Rids
  <2> QED BY <1>1, <2>1, Untouching DEF WInv
<1>5. (open' => Sent') /\ Places'
  BY <1>1, Unfold DEF WInv
<1>6. Armed'
  BY <1>1 DEF WInv, Armed, FrontReady, Left
<1>7. open' => CloseHonoured'
  <2>1. r \notin 1..front
    BY <1>1
  <2> QED BY <1>1, <2>1 DEF WInv, CloseHonoured
<1>8. (1..front \subseteq ready)' /\ (writing' # "no" => open')
  BY <1>1 DEF WInv
<1> QED BY <1>2, <1>3, <1>4, <1>5, <1>6, <1>7, <1>8 DEF WInv

\* Every step keeps the invariant.
LEMMA NextKeeps == WInv /\ [Next]_vars => WInv'
<1> SUFFICES ASSUME WInv, [Next]_vars PROVE WInv'
  OBVIOUS
<1>1. /\ Types /\ (writing # "no" => open) /\ Armed
      /\ made \in Nat /\ MaxResponses \in Nat /\ made \in 0..MaxResponses /\ ready \subseteq 1..made
      /\ watch \in BOOLEAN /\ open \in BOOLEAN /\ writing \in {"no", "write", "user"}
      /\ made \in made..MaxResponses
  <2>1. Types /\ (writing # "no" => open) /\ Armed
    BY DEF WInv
  <2>2. MaxResponses \in Nat /\ made \in 0..MaxResponses /\ ready \subseteq 1..made
        /\ watch \in BOOLEAN /\ open \in BOOLEAN /\ writing \in {"no", "write", "user"}
    BY <2>1, WriteConfig DEF Types
  <2> QED BY <2>1, <2>2
<1>2. CASE Request
  <2>1. /\ made' = made + 1 /\ made < MaxResponses
        /\ UNCHANGED <<front, respVars, watch, writing, open, wire>>
    BY <1>2 DEF Request
  <2>2. FrontReady' => FrontReady
    <3>1. front + 1 \in ready => front < made
      BY <1>1, WriteConfig DEF Types
    <3> QED BY <2>1, <3>1 DEF FrontReady, respVars
  <2>3. Armed'
    BY <1>1, <2>1, <2>2 DEF Armed, respVars, Left
  <2>4. made' \in made..MaxResponses
    BY <1>1, <2>1
  <2> QED BY <1>1, <2>1, <2>3, <2>4, OthersKeep
<1>3. CASE Sends
  <2>1. PICK r \in Rids, s \in Shapes, keep \in BOOLEAN : Send(r, s, keep)
    BY <1>3 DEF Sends
  <2> QED BY <2>1, SendKeeps
<1>4. CASE CloseElsewhere
  <2>1. Shut /\ UNCHANGED <<made, front, respVars, wire>>
    BY <1>4 DEF CloseElsewhere
  <2>2. Armed' /\ watch' \in BOOLEAN /\ open' = FALSE /\ writing' = "no"
    BY <2>1 DEF Shut, Armed
  <2> QED BY <1>1, <2>1, <2>2, OthersKeep
<1>5. CASE Callbacks
  <2>1. /\ writing' \in {"write", "user"} /\ open /\ UNCHANGED <<made, front, respVars, watch, open, wire>>
    BY <1>5 DEF Callbacks, CbWrite, CbUser
  <2>2. Armed'
    BY <2>1 DEF Armed
  <2> QED BY <1>1, <2>1, <2>2, OthersKeep
<1>6. CASE Stop
  <2>1. /\ writing # "no" /\ Gathered = 0 /\ writing' = "no"
        /\ watch' = (writing = "user" /\ FrontReady)
        /\ UNCHANGED <<made, front, respVars, open, wire>>
    BY <1>6 DEF Stop
  <2>2. open /\ \A r \in Rids : Fitting(r)
    BY <1>1, <2>1 DEF WInv
  <2>3. \A r \in ready : r > front => Remaining(r)
    BY <2>2 DEF WInv
  <2>4. ~(FrontReady /\ Left(front + 1) <= MaxIov)
    BY <1>1, <2>1, <2>2, <2>3, WhatFits
  <2>5. Armed'
    BY <2>1, <2>4 DEF Armed, respVars, FrontReady, Left
  <2>6. watch' \in BOOLEAN
    BY <2>1
  <2> QED BY <1>1, <2>1, <2>5, <2>6, OthersKeep
<1>7. CASE Again
  <2>1. /\ writing' = "no" /\ watch' = TRUE /\ UNCHANGED <<made, front, respVars, open, wire>>
    BY <1>7 DEF Again
  <2>2. Armed'
    BY <2>1 DEF Armed
  <2> QED BY <1>1, <2>1, <2>2, OthersKeep
<1>8. CASE Error
  <2>1. Shut /\ UNCHANGED <<made, front, respVars, wire>>
    BY <1>8 DEF Error
  <2>2. Armed' /\ watch' \in BOOLEAN /\ open' = FALSE /\ writing' = "no"
    BY <2>1 DEF Shut, Armed
  <2> QED BY <1>1, <2>1, <2>2, OthersKeep
<1>9. CASE Write
  BY <1>9, WriteKeeps
<1>10. CASE UNCHANGED vars
  <2>1. UNCHANGED <<made, front, respVars, watch, writing, open, wire>>
    BY <1>10 DEF vars
  <2>2. Armed'
    BY <1>1, <2>1 DEF Armed, FrontReady, Left, respVars
  <2> QED BY <1>1, <2>1, <2>2, OthersKeep
<1>11. CASE Changes
  <2>1. PICK r \in Rids : SetKeepAlive(r)
    BY <1>11 DEF Changes
  <2> QED BY <2>1, ChangeKeeps
<1> QED BY <1>2, <1>3, <1>4, <1>5, <1>6, <1>7, <1>8, <1>9, <1>10, <1>11 DEF Next, Round

-----------------------------------------------------------------------------
(* Theorems                                                                *)

\* The answers of a connection and what is left of them: the inductive
\* invariant of add_iov, process_iov and the loop around writev.
THEOREM WriteCorrect == Spec => []WInv
<1>1. Init => WInv
  BY InitKeeps
<1>2. WInv /\ [Next]_vars => WInv'
  BY NextKeeps
<1> QED BY <1>1, <1>2, PTL DEF Spec

\* _total_size is what is left of a response, a response leaves _out when all
\* of it is on the wire, and each byte on the wire stands where a byte of its
\* part belongs, whatever writev takes of the array of iovecs.
THEOREM AnswersAccounted == Spec => []Accounted
<1>1. WInv => Accounted
  <2> SUFFICES ASSUME WInv PROVE Accounted
    OBVIOUS
  <2>1. /\ Types /\ \A r \in Rids : Fitting(r)
        /\ open => \A r \in ready : r > front => Remaining(r)
        /\ open => Sent
        /\ Places
    BY DEF WInv
  <2>2. ASSUME NEW r \in Rids
        PROVE  /\ parts[r] \in Shapes \cup {<<>>}
               /\ DOMAIN iov[r] = DOMAIN parts[r]
               /\ \A k \in DOMAIN iov[r] :
                    iov[r][k].len \in 1..parts[r][k] /\ iov[r][k].base \in 0..parts[r][k]
               /\ processed[r] \in 0..Len(iov[r]) /\ total[r] \in Nat
    <3>1. Fitting(r)
      BY <2>1
    <3>2. parts[r] \in Shapes \cup {<<>>}
      BY <3>1 DEF Fitting
    <3>3. /\ DOMAIN iov[r] = DOMAIN parts[r] /\ DOMAIN iov[r] = 1..Len(iov[r])
          /\ processed[r] \in 0..Len(iov[r]) /\ total[r] \in Nat
      BY <2>1, <3>1, Iovecs
    <3>4. ASSUME NEW k \in 1..Len(iov[r])
          PROVE  iov[r][k].len \in 1..parts[r][k] /\ iov[r][k].base \in 0..parts[r][k]
      <4>1. iov[r][k] \in [base : Nat, len : Nat \ {0}] /\ parts[r][k] \in Nat
        BY <2>1, <3>1, Iovecs
      <4>2. iov[r][k].len <= parts[r][k] /\ iov[r][k].base <= parts[r][k]
        BY <3>1 DEF Fitting
      <4> QED BY <4>1, <4>2
    <3> QED BY <3>2, <3>3, <3>4
  <2>3. TypeOK
    BY <2>1, <2>2 DEF TypeOK, Types
  <2>4. ASSUME open
        PROVE  /\ \A r \in ready : r > front =>
                    total[r] = SumTo(Lengths(r), Len(iov[r])) - SumTo(Lengths(r), processed[r])
               /\ Len(wire) = SumTo([q \in Rids |-> Size(q)], front)
                       + (IF FrontReady THEN Size(front + 1) - total[front + 1] ELSE 0)
    BY <2>1, <2>4 DEF Remaining, Sent, Sizes
  <2> QED BY <2>1, <2>3, <2>4 DEF Accounted
<1> QED BY <1>1, WriteCorrect, PTL

\* A connection on which a response without keep_alive has been completed is
\* closed, however many responses one writev completed.
THEOREM CloseHonouredHolds == Spec => []CloseHonoured
<1>1. WInv => CloseHonoured
  BY DEF WInv, CloseHonoured
<1> QED BY <1>1, WriteCorrect, PTL

\* A ready front that fits in the array of iovecs is being written or waits
\* for the socket with _w_write active: no answer is forgotten.
THEOREM WriteArmed == Spec => []Armed
<1>1. WInv => Armed
  BY DEF WInv
<1> QED BY <1>1, WriteCorrect, PTL

=============================================================================
