-------------------------- MODULE RequestBufferProofs --------------------------
(* Theorems about Text and RequestBuffer: the heads of messages, for every *)
(* text, and the buffer of a connection, for every size of buffers and     *)
(* requests.                                                               *)
EXTENDS RequestBuffer, Text, SequenceTheorems, WellFoundedInduction, TLAPS

-----------------------------------------------------------------------------
(* Numbers and sequences                                                   *)

\* A set of numbers has a least element.
LEMMA LeastNumber ==
    ASSUME NEW S \in SUBSET Nat, S # {}
    PROVE  \E x \in S : \A y \in S : x <= y
<1>1. \E x \in S : \A y \in S : ~(<<y, x>> \in OpToRel(<, Nat))
  BY NatLessThanWellFounded, WFMin
<1>2. PICK x \in S : \A y \in S : ~(<<y, x>> \in OpToRel(<, Nat))
  BY <1>1
<1>3. ASSUME NEW y \in S PROVE x <= y
  <2>1. ~(<<y, x>> \in OpToRel(<, Nat))
    BY <1>2
  <2>2. ~(y < x)
    BY <2>1 DEF OpToRel
  <2> QED BY <2>2
<1> QED BY <1>2, <1>3

\* Induction up to n, over a set of numbers.
LEMMA UpTo ==
    ASSUME NEW n \in Nat, NEW S, 0 \in S, \A i \in 1..n : i - 1 \in S => i \in S
    PROVE  \A i \in 0..n : i \in S
<1> SUFFICES ASSUME NEW j \in 0..n, j \notin S PROVE FALSE
  OBVIOUS
<1> DEFINE T == {i \in 0..n : i \notin S}
<1>1. T \in SUBSET Nat /\ T # {}
  OBVIOUS
<1>2. PICK k \in T : \A i \in T : k <= i
  <2> HIDE DEF T
  <2> QED BY <1>1, LeastNumber
<1>3. k \in 1..n /\ k \notin S /\ k - 1 \in 0..n /\ ~(k <= k - 1)
  BY <1>2
<1>4. k - 1 \in S
  BY <1>2, <1>3
<1> QED BY <1>3, <1>4

\* What is defined step by step exists.
LEMMA Recursion ==
    ASSUME NEW V, NEW a \in V, NEW n \in Nat, NEW g \in [1..n -> [V -> V]]
    PROVE  \E f \in [0..n -> V] : f[0] = a /\ \A i \in 1..n : f[i] = g[i][f[i - 1]]
<1> DEFINE Ok(m) == \E f \in [0..m -> V] : f[0] = a /\ \A i \in 1..m : f[i] = g[i][f[i - 1]]
           S == {m \in 0..n : Ok(m)}
<1>1. Ok(0)
  <2> DEFINE f == [i \in 0..0 |-> a]
  <2>1. f \in [0..0 -> V] /\ f[0] = a /\ \A i \in 1..0 : f[i] = g[i][f[i - 1]]
    OBVIOUS
  <2> QED BY <2>1
<1>2. ASSUME NEW m \in 1..n, Ok(m - 1) PROVE Ok(m)
  <2>1. PICK f \in [0..(m - 1) -> V] : f[0] = a /\ \A i \in 1..(m - 1) : f[i] = g[i][f[i - 1]]
    BY <1>2
  <2> DEFINE h == [i \in 0..m |-> IF i = m THEN g[m][f[m - 1]] ELSE f[i]]
  <2>2. g[m][f[m - 1]] \in V
    <3>1. m - 1 \in 0..(m - 1) /\ m \in 1..n
      OBVIOUS
    <3>2. f[m - 1] \in V /\ g[m] \in [V -> V]
      BY <3>1
    <3> QED BY <3>2
  <2>3. \A i \in 0..m : i # m => i \in 0..(m - 1) /\ f[i] \in V
    OBVIOUS
  <2>4. h \in [0..m -> V]
    BY <2>2, <2>3
  <2>5. h[m] = g[m][f[m - 1]] /\ \A i \in 0..(m - 1) : h[i] = f[i]
    OBVIOUS
  <2> HIDE DEF h
  <2>6. h[0] = a
    BY <2>1, <2>5
  <2>7. ASSUME NEW i \in 1..m PROVE h[i] = g[i][h[i - 1]]
    <3>1. i - 1 \in 0..(m - 1)
      OBVIOUS
    <3>2. h[i - 1] = f[i - 1]
      BY <2>5, <3>1
    <3>3. CASE i = m
      BY <2>5, <3>2, <3>3
    <3>4. CASE i # m
      <4>1. i \in 1..(m - 1) /\ i \in 0..(m - 1)
        BY <3>4
      <4>2. h[i] = f[i] /\ f[i] = g[i][f[i - 1]]
        BY <2>1, <2>5, <4>1
      <4> QED BY <3>2, <4>2
    <3> QED BY <3>3, <3>4
  <2> QED BY <2>4, <2>6, <2>7
<1> HIDE DEF Ok
<1>3. 0 \in S /\ \A m \in 1..n : m - 1 \in S => m \in S
  BY <1>1, <1>2
<1>4. \A m \in 0..n : m \in S
  <2> HIDE DEF S
  <2> QED BY <1>3, UpTo
<1>5. Ok(n)
  BY <1>4
<1> QED BY <1>5 DEF Ok

\* The elements of a part of a sequence.
LEMMA PartIs ==
    ASSUME NEW A, NEW s \in Seq(A), NEW a \in Nat \ {0}, NEW b \in Nat, b <= Len(s), a <= b + 1
    PROVE  /\ SubSeq(s, a, b) \in Seq(A) /\ Len(SubSeq(s, a, b)) = b - a + 1
           /\ \A i \in 1..(b - a + 1) : SubSeq(s, a, b)[i] = s[a + i - 1]
<1>1. \A i \in a..b : s[i] \in A
  OBVIOUS
<1>2. a \in Int /\ b \in Int
  OBVIOUS
<1>3. /\ SubSeq(s, a, b) \in Seq(A) /\ Len(SubSeq(s, a, b)) = IF a <= b THEN b - a + 1 ELSE 0
      /\ \A i \in 1..(b - a + 1) : SubSeq(s, a, b)[i] = s[a + i - 1]
  BY ONLY <1>1, <1>2, SubSeqProperties
<1> QED BY <1>3

\* Sequences with the same elements are equal.
LEMMA SameSeq ==
    ASSUME NEW A, NEW s \in Seq(A), NEW t \in Seq(A), Len(s) = Len(t),
           \A i \in 1..Len(s) : s[i] = t[i]
    PROVE  s = t
BY SeqEqual

\* s, and whatever arrives after it.
Extends(A, s, t) ==
    /\ s \in Seq(A) /\ t \in Seq(A) /\ Len(s) <= Len(t)
    /\ \A i \in 1..Len(s) : t[i] = s[i]

\* A part of what is there stays what it is.
LEMMA PartStays ==
    ASSUME NEW A, NEW s, NEW t, Extends(A, s, t), NEW a \in Nat \ {0}, NEW b \in Nat, b <= Len(s)
    PROVE  SubSeq(t, a, b) = SubSeq(s, a, b)
<1>1. s \in Seq(A) /\ t \in Seq(A) /\ b <= Len(t) /\ Len(s) \in Nat /\ Len(t) \in Nat
  BY DEF Extends
<1>2. CASE a <= b + 1
  <2>1. /\ SubSeq(s, a, b) \in Seq(A) /\ Len(SubSeq(s, a, b)) = b - a + 1
        /\ \A i \in 1..(b - a + 1) : SubSeq(s, a, b)[i] = s[a + i - 1]
    BY <1>1, <1>2, PartIs
  <2>2. /\ SubSeq(t, a, b) \in Seq(A) /\ Len(SubSeq(t, a, b)) = b - a + 1
        /\ \A i \in 1..(b - a + 1) : SubSeq(t, a, b)[i] = t[a + i - 1]
    BY <1>1, <1>2, PartIs
  <2>3. \A i \in 1..(b - a + 1) : t[a + i - 1] = s[a + i - 1]
    BY <1>1 DEF Extends
  <2> QED BY <2>1, <2>2, <2>3, SameSeq
<1>3. CASE a > b + 1
  <2>1. a \in Int /\ b \in Int /\ b < a
    BY <1>3
  <2> QED BY <2>1, SubSeqEmpty
<1> QED BY <1>2, <1>3

-----------------------------------------------------------------------------
(* Searching                                                               *)

LEMMA LeastIs ==
    ASSUME NEW S \in SUBSET Nat, S # {}
    PROVE  Min(S) \in S /\ \A x \in S : Min(S) <= x
BY LeastNumber DEF Min

\* What a search that begins at p tells.
Found(s, p, e) ==
    /\ e \in Nat \ {0} /\ e <= Len(s) + 1
    /\ p <= Len(s) + 1 => e >= p
    /\ p > Len(s) => e = Len(s) + 1

LEMMA FirstInIs ==
    ASSUME NEW A, NEW s \in Seq(A), NEW p \in Nat \ {0}, NEW C
    PROVE  /\ Found(s, p, FirstIn(s, p, C))
           /\ FirstIn(s, p, C) <= Len(s) => s[FirstIn(s, p, C)] \in C
           /\ \A i \in p..Len(s) : i < FirstIn(s, p, C) => s[i] \notin C
<1> DEFINE I == {i \in p..Len(s) : s[i] \in C}
<1>1. FirstIn(s, p, C) = IF (IF I # {} THEN Min(I) ELSE 0) = 0 THEN Len(s) + 1
                         ELSE IF I # {} THEN Min(I) ELSE 0
  BY DEF FirstIn, SelectInSubSeq
<1>2. I \subseteq Nat /\ Len(s) \in Nat
  OBVIOUS
<1>3. I # {} => Min(I) \in I /\ \A x \in I : Min(I) <= x
  <2> HIDE DEF I
  <2> QED BY <1>2, LeastIs
<1> DEFINE m == Min(I)
           e == FirstIn(s, p, C)
<1>4. CASE I = {}
  <2>1. e = Len(s) + 1 /\ \A i \in p..Len(s) : s[i] \notin C
    BY <1>1, <1>4
  <2> HIDE DEF I, e
  <2> QED BY <1>2, <2>1 DEF Found, e
<1>5. CASE I # {}
  <2>1. m \in p..Len(s) /\ s[m] \in C /\ \A i \in p..Len(s) : s[i] \in C => m <= i
    BY <1>3, <1>5
  <2>2. m # 0 /\ m \in Nat
    BY <2>1
  <2> HIDE DEF m
  <2>3. e = m
    BY <1>1, <1>5, <2>2 DEF m
  <2> HIDE DEF I, e
  <2> QED BY <1>2, <2>1, <2>2, <2>3 DEF Found, e
<1> QED BY <1>4, <1>5

LEMMA FirstOutsideIs ==
    ASSUME NEW A, NEW s \in Seq(A), NEW p \in Nat \ {0}, NEW C
    PROVE  /\ Found(s, p, FirstOutside(s, p, C))
           /\ FirstOutside(s, p, C) <= Len(s) => s[FirstOutside(s, p, C)] \notin C
           /\ \A i \in p..Len(s) : i < FirstOutside(s, p, C) => s[i] \in C
<1> DEFINE I == {i \in p..Len(s) : s[i] \notin C}
<1>1. FirstOutside(s, p, C) = IF (IF I # {} THEN Min(I) ELSE 0) = 0 THEN Len(s) + 1
                              ELSE IF I # {} THEN Min(I) ELSE 0
  BY DEF FirstOutside, SelectInSubSeq
<1>2. I \subseteq Nat /\ Len(s) \in Nat
  OBVIOUS
<1>3. I # {} => Min(I) \in I /\ \A x \in I : Min(I) <= x
  <2> HIDE DEF I
  <2> QED BY <1>2, LeastIs
<1> DEFINE m == Min(I)
           e == FirstOutside(s, p, C)
<1>4. CASE I = {}
  <2>1. e = Len(s) + 1 /\ \A i \in p..Len(s) : s[i] \in C
    BY <1>1, <1>4
  <2> HIDE DEF I, e
  <2> QED BY <1>2, <2>1 DEF Found, e
<1>5. CASE I # {}
  <2>1. m \in p..Len(s) /\ s[m] \notin C /\ \A i \in p..Len(s) : s[i] \notin C => m <= i
    BY <1>3, <1>5
  <2>2. m # 0 /\ m \in Nat
    BY <2>1
  <2> HIDE DEF m
  <2>3. e = m
    BY <1>1, <1>5, <2>2 DEF m
  <2> HIDE DEF I, e
  <2> QED BY <1>2, <2>1, <2>2, <2>3 DEF Found, e
<1> QED BY <1>4, <1>5

\* What was found is found again.
LEMMA FirstInStays ==
    ASSUME NEW A, NEW s, NEW t, Extends(A, s, t), NEW p \in Nat \ {0}, NEW C,
           FirstIn(s, p, C) <= Len(s)
    PROVE  FirstIn(t, p, C) = FirstIn(s, p, C)
<1> DEFINE e == FirstIn(s, p, C)
           f == FirstIn(t, p, C)
<1>1. /\ s \in Seq(A) /\ t \in Seq(A) /\ Len(s) \in Nat /\ Len(t) \in Nat /\ Len(s) <= Len(t)
      /\ \A i \in 1..Len(s) : t[i] = s[i]
  BY DEF Extends
<1>2. Found(s, p, e) /\ s[e] \in C /\ \A i \in p..Len(s) : i < e => s[i] \notin C
  BY <1>1, FirstInIs
<1>3. /\ Found(t, p, f) /\ (f <= Len(t) => t[f] \in C)
      /\ \A i \in p..Len(t) : i < f => t[i] \notin C
  BY <1>1, FirstInIs
<1> HIDE DEF e, f
<1>4. e \in 1..Len(s) /\ e >= p /\ t[e] = s[e] /\ e \in p..Len(t)
  BY <1>1, <1>2 DEF Found, e
<1>5. f <= e
  BY <1>2, <1>3, <1>4 DEF Found
<1>6. f \in p..Len(s) /\ t[f] = s[f] /\ f <= Len(t)
  BY <1>1, <1>3, <1>4, <1>5 DEF Found
<1> QED BY <1>2, <1>3, <1>4, <1>5, <1>6 DEF Found, e, f

LEMMA FirstOutsideStays ==
    ASSUME NEW A, NEW s, NEW t, Extends(A, s, t), NEW p \in Nat \ {0}, NEW C,
           FirstOutside(s, p, C) <= Len(s)
    PROVE  FirstOutside(t, p, C) = FirstOutside(s, p, C)
<1> DEFINE e == FirstOutside(s, p, C)
           f == FirstOutside(t, p, C)
<1>1. /\ s \in Seq(A) /\ t \in Seq(A) /\ Len(s) \in Nat /\ Len(t) \in Nat /\ Len(s) <= Len(t)
      /\ \A i \in 1..Len(s) : t[i] = s[i]
  BY DEF Extends
<1>2. Found(s, p, e) /\ s[e] \notin C /\ \A i \in p..Len(s) : i < e => s[i] \in C
  BY <1>1, FirstOutsideIs
<1>3. /\ Found(t, p, f) /\ (f <= Len(t) => t[f] \notin C)
      /\ \A i \in p..Len(t) : i < f => t[i] \in C
  BY <1>1, FirstOutsideIs
<1> HIDE DEF e, f
<1>4. e \in 1..Len(s) /\ e >= p /\ t[e] = s[e] /\ e \in p..Len(t)
  BY <1>1, <1>2 DEF Found, e
<1>5. f <= e
  BY <1>2, <1>3, <1>4 DEF Found
<1>6. f \in p..Len(s) /\ t[f] = s[f] /\ f <= Len(t)
  BY <1>1, <1>3, <1>4, <1>5 DEF Found
<1> QED BY <1>2, <1>3, <1>4, <1>5, <1>6 DEF Found, e, f

-----------------------------------------------------------------------------
(* Lengths                                                                 *)

LEMMA WidthIs == ASSUME NEW c PROVE Width(c) \in Nat /\ Width(c) >= 1
<1>1. CASE c \in DOMAIN Widths
  BY <1>1 DEF Width, Widths, Versions
<1>2. CASE c \notin DOMAIN Widths
  BY <1>2 DEF Width
<1> QED BY <1>1, <1>2

\* The length in bytes of what begins a text.
Summed(s, f) ==
    /\ f \in [0..Len(s) -> Nat] /\ f[0] = 0
    /\ \A i \in 1..Len(s) : f[i] = f[i - 1] + Width(s[i])

LEMMA BytesSummed ==
    ASSUME NEW A, NEW s \in Seq(A)
    PROVE  \E f : Summed(s, f) /\ Bytes(s) = f[Len(s)]
<1> DEFINE n == Len(s)
           W == Nat
           e == 0
           g == [i \in 1..n |-> [v \in W |-> v + Width(s[i])]]
           Def(h) == h = [i \in 0..n |-> IF i = 0 THEN 0 ELSE h[i - 1] + Width(s[i])]
           b == CHOOSE h : Def(h)
<1>1. n \in Nat
  OBVIOUS
<1>2. e \in W /\ g \in [1..n -> [W -> W]]
  BY <1>1, WidthIs
<1>3. PICK f \in [0..n -> W] : f[0] = e /\ \A i \in 1..n : f[i] = g[i][f[i - 1]]
  <2> HIDE DEF g, W, e, n
  <2>2. \E f \in [0..n -> W] : f[0] = e /\ \A i \in 1..n : f[i] = g[i][f[i - 1]]
    BY <1>1, <1>2, Recursion
  <2> QED BY <2>2
<1>4. \A i \in 1..n : i - 1 \in 0..n /\ i \in 0..n /\ i # 0
  BY <1>1
<1>5. \A i \in 0..n : f[i] \in W
  BY <1>3
<1>6. \A i \in 1..n : f[i] = f[i - 1] + Width(s[i])
  BY <1>3, <1>4, <1>5
<1>7. Def(f)
  <2>1. \A i \in 0..n : f[i] = IF i = 0 THEN 0 ELSE f[i - 1] + Width(s[i])
    <3>1. \A i \in 0..n : i = 0 \/ i \in 1..n
      BY <1>1
    <3> HIDE DEF n
    <3> QED BY <1>3, <1>4, <1>6, <3>1
  <2>2. f = [i \in 0..n |-> f[i]]
    BY <1>3
  <2> QED BY <2>1, <2>2
<1>8. Def(b)
  <2> HIDE DEF Def
  <2> QED BY <1>7
<1>9. Bytes(s) = b[n]
  BY DEF Bytes
<1> HIDE DEF b
<1>10. \A i \in 0..n : b[i] = IF i = 0 THEN 0 ELSE b[i - 1] + Width(s[i])
  BY <1>8
<1> DEFINE S == {i \in 0..n : b[i] \in Nat}
<1>11. 0 \in S
  BY <1>1, <1>10
<1>12. ASSUME NEW i \in 1..n, i - 1 \in S PROVE i \in S
  <2>1. b[i] = b[i - 1] + Width(s[i]) /\ i \in 0..n
    BY <1>4, <1>10
  <2> QED BY <1>12, <2>1, WidthIs
<1>13. \A i \in 0..n : i \in S
  <2> HIDE DEF S, n
  <2> QED BY <1>1, <1>11, <1>12, UpTo
<1>14. b \in [0..n -> Nat]
  <2>1. \A i \in 0..n : b[i] \in Nat
    BY <1>13
  <2>2. b = [i \in 0..n |-> b[i]]
    <3>1. b = [i \in 0..n |-> IF i = 0 THEN 0 ELSE b[i - 1] + Width(s[i])]
      BY <1>8
    <3> QED BY <3>1
  <2> HIDE DEF n
  <2> QED BY <2>1, <2>2
<1>15. Summed(s, b)
  <2>1. b[0] = 0 /\ \A i \in 1..n : b[i] = b[i - 1] + Width(s[i])
    BY <1>1, <1>4, <1>10
  <2> QED BY <1>14, <2>1 DEF Summed
<1> QED BY <1>9, <1>15

\* More characters have more bytes.
LEMMA SummedGrows ==
    ASSUME NEW A, NEW s \in Seq(A), NEW f, Summed(s, f), NEW i \in 0..Len(s), NEW j \in i..Len(s)
    PROVE  f[i] <= f[j]
<1> DEFINE n == Len(s) - i
           S == {k \in 0..n : f[i] <= f[i + k]}
<1>1. n \in Nat /\ i \in Nat /\ Len(s) \in Nat
  OBVIOUS
<1>2. f \in [0..Len(s) -> Nat] /\ \A k \in 1..Len(s) : f[k] = f[k - 1] + Width(s[k])
  BY DEF Summed
<1>3. 0 \in S
  BY <1>1, <1>2
<1>4. ASSUME NEW k \in 1..n, k - 1 \in S PROVE k \in S
  <2>1. /\ i + k \in 1..Len(s) /\ i + (k - 1) = (i + k) - 1
        /\ i + (k - 1) \in 0..Len(s) /\ i + k \in 0..Len(s) /\ k \in 0..n
    BY <1>1
  <2>2. f[i + k] = f[i + (k - 1)] + Width(s[i + k])
    BY <1>2, <2>1
  <2>3. f[i] \in Nat /\ f[i + (k - 1)] \in Nat /\ f[i] <= f[i + (k - 1)]
    BY <1>2, <1>4, <2>1
  <2>4. Width(s[i + k]) \in Nat
    BY WidthIs
  <2> QED BY <2>1, <2>2, <2>3, <2>4
<1>5. \A k \in 0..n : k \in S
  <2> HIDE DEF S, n
  <2> QED BY <1>1, <1>3, <1>4, UpTo
<1>6. j - i \in 0..n /\ i + (j - i) = j
  BY <1>1
<1>7. j - i \in S
  BY <1>5, <1>6
<1> QED BY <1>6, <1>7

\* A text that is a part of another one is not longer.
LEMMA BytesOfPart ==
    ASSUME NEW A, NEW s \in Seq(A), NEW t \in Seq(A), NEW k \in Nat, Len(s) + k <= Len(t),
           \A i \in 1..Len(s) : s[i] = t[i + k]
    PROVE  Bytes(s) \in Nat /\ Bytes(t) \in Nat /\ Bytes(s) <= Bytes(t)
<1>1. PICK f : Summed(s, f) /\ Bytes(s) = f[Len(s)]
  BY BytesSummed
<1>2. PICK g : Summed(t, g) /\ Bytes(t) = g[Len(t)]
  BY BytesSummed
<1> DEFINE n == Len(s)
           S == {i \in 0..n : f[i] <= g[i + k]}
<1>3. n \in Nat /\ Len(t) \in Nat /\ n + k <= Len(t)
  OBVIOUS
<1>4. /\ f \in [0..n -> Nat] /\ f[0] = 0 /\ \A i \in 1..n : f[i] = f[i - 1] + Width(s[i])
      /\ g \in [0..Len(t) -> Nat] /\ \A i \in 1..Len(t) : g[i] = g[i - 1] + Width(t[i])
  BY <1>1, <1>2 DEF Summed
<1>5. 0 \in S
  BY <1>3, <1>4
<1>6. ASSUME NEW i \in 1..n, i - 1 \in S PROVE i \in S
  <2>1. /\ i + k \in 1..Len(t) /\ (i - 1) + k = (i + k) - 1 /\ (i - 1) + k \in 0..Len(t)
        /\ i - 1 \in 0..n /\ i \in 0..n /\ i + k \in 0..Len(t)
    BY <1>3
  <2>2. f[i] = f[i - 1] + Width(s[i]) /\ g[i + k] = g[(i - 1) + k] + Width(t[i + k])
    BY <1>4, <2>1
  <2>3. s[i] = t[i + k]
    BY <2>1
  <2>4. f[i - 1] \in Nat /\ g[(i - 1) + k] \in Nat /\ f[i - 1] <= g[(i - 1) + k]
    BY <1>4, <1>6, <2>1
  <2>5. Width(t[i + k]) \in Nat
    BY WidthIs
  <2> QED BY <2>1, <2>2, <2>3, <2>4, <2>5
<1>7. \A i \in 0..n : i \in S
  <2> HIDE DEF S, n
  <2> QED BY <1>3, <1>5, <1>6, UpTo
<1>8. f[n] <= g[n + k]
  <2>1. n \in S
    BY <1>3, <1>7
  <2> QED BY <2>1
<1>9. g[n + k] <= g[Len(t)]
  <2>1. n + k \in 0..Len(t) /\ Len(t) \in (n + k)..Len(t)
    BY <1>3
  <2> QED BY <1>2, <2>1, SummedGrows
<1>10. f[n] \in Nat /\ g[n + k] \in Nat /\ g[Len(t)] \in Nat
  <2>1. n \in 0..n /\ n + k \in 0..Len(t) /\ Len(t) \in 0..Len(t)
    BY <1>3
  <2> HIDE DEF n
  <2> QED BY <1>4, <2>1
<1> QED BY <1>1, <1>2, <1>8, <1>9, <1>10

LEMMA BytesIs ==
    ASSUME NEW A, NEW s \in Seq(A)
    PROVE  Bytes(s) \in Nat /\ (s # <<>> => Bytes(s) >= 1) /\ (Len(s) = 0 => Bytes(s) = 0)
<1>1. PICK f : Summed(s, f) /\ Bytes(s) = f[Len(s)]
  BY BytesSummed
<1>2. /\ f \in [0..Len(s) -> Nat] /\ f[0] = 0 /\ Len(s) \in Nat
      /\ \A i \in 1..Len(s) : f[i] = f[i - 1] + Width(s[i])
  BY <1>1 DEF Summed
<1>3. s # <<>> => Len(s) \in 1..Len(s) /\ Len(s) - 1 \in 0..Len(s)
  OBVIOUS
<1>4. Bytes(s) \in Nat
  BY <1>1, <1>2
<1>5. s # <<>> => Bytes(s) >= 1
  <2> SUFFICES ASSUME s # <<>> PROVE Bytes(s) >= 1
    OBVIOUS
  <2>1. f[Len(s)] = f[Len(s) - 1] + Width(s[Len(s)]) /\ f[Len(s) - 1] \in Nat
    BY <1>2, <1>3
  <2>2. Width(s[Len(s)]) \in Nat /\ Width(s[Len(s)]) >= 1
    BY WidthIs
  <2> QED BY <1>1, <2>1, <2>2
<1> QED BY <1>1, <1>2, <1>4, <1>5

\* What follows a position has fewer bytes than what follows an earlier one.
LEMMA BytesBehind ==
    ASSUME NEW A, NEW s \in Seq(A), NEW p \in 1..(Len(s) + 1), NEW e \in p..(Len(s) + 1)
    PROVE  /\ Bytes(From(s, e)) \in Nat /\ Bytes(From(s, p)) \in Nat
           /\ Bytes(From(s, e)) <= Bytes(From(s, p))
<1> DEFINE n == Len(s)
           a == From(s, e)
           b == From(s, p)
           k == e - p
<1>1. n \in Nat /\ n <= Len(s) /\ e \in Nat \ {0} /\ p \in Nat \ {0} /\ e <= n + 1 /\ p <= n + 1 /\ k \in Nat
  OBVIOUS
<1>2. a = SubSeq(s, e, n) /\ b = SubSeq(s, p, n)
  BY DEF From
<1>3. a \in Seq(A) /\ Len(a) = n - e + 1 /\ \A i \in 1..(n - e + 1) : a[i] = s[e + i - 1]
  <2> HIDE DEF n, a
  <2> QED BY <1>1, <1>2, PartIs
<1>4. b \in Seq(A) /\ Len(b) = n - p + 1 /\ \A i \in 1..(n - p + 1) : b[i] = s[p + i - 1]
  <2> HIDE DEF n, b
  <2> QED BY <1>1, <1>2, PartIs
<1> HIDE DEF a, b
<1>5. Len(a) + k <= Len(b)
  BY <1>1, <1>3, <1>4
<1>6. ASSUME NEW i \in 1..Len(a) PROVE a[i] = b[i + k]
  <2>1. i \in 1..(n - e + 1) /\ i + k \in 1..(n - p + 1) /\ p + (i + k) - 1 = e + i - 1
    BY <1>1, <1>3
  <2> QED BY <1>3, <1>4, <2>1
<1> HIDE DEF k
<1>7. Bytes(a) \in Nat /\ Bytes(b) \in Nat /\ Bytes(a) <= Bytes(b)
  BY ONLY <1>1, <1>3, <1>4, <1>5, <1>6, BytesOfPart
<1> QED BY <1>7 DEF a, b

\* What arrives later only adds bytes.
LEMMA BytesGrow ==
    ASSUME NEW A, NEW s, NEW t, Extends(A, s, t), NEW p \in 1..(Len(s) + 1)
    PROVE  /\ Bytes(From(s, p)) \in Nat /\ Bytes(From(t, p)) \in Nat
           /\ Bytes(From(s, p)) <= Bytes(From(t, p))
           /\ Bytes(s) \in Nat /\ Bytes(t) \in Nat /\ Bytes(s) <= Bytes(t)
<1> DEFINE n == Len(s)
           m == Len(t)
           a == From(s, p)
           b == From(t, p)
           k == 0
<1>1. /\ s \in Seq(A) /\ t \in Seq(A) /\ n \in Nat /\ m \in Nat /\ n <= m /\ k \in Nat
      /\ p \in Nat \ {0} /\ p <= n + 1 /\ p <= m + 1 /\ n <= Len(s) /\ m <= Len(t)
  BY DEF Extends
<1>2. a = SubSeq(s, p, n) /\ b = SubSeq(t, p, m)
  BY DEF From
<1>3. a \in Seq(A) /\ Len(a) = n - p + 1 /\ \A i \in 1..(n - p + 1) : a[i] = s[p + i - 1]
  <2> HIDE DEF n, a
  <2> QED BY <1>1, <1>2, PartIs
<1>4. b \in Seq(A) /\ Len(b) = m - p + 1 /\ \A i \in 1..(m - p + 1) : b[i] = t[p + i - 1]
  <2> HIDE DEF m, b
  <2> QED BY <1>1, <1>2, PartIs
<1> HIDE DEF a, b
<1>5. Len(a) + k <= Len(b) /\ Len(s) + k <= Len(t)
  BY <1>1, <1>3, <1>4
<1>6. \A i \in 1..n : t[i] = s[i]
  BY DEF Extends
<1>7. ASSUME NEW i \in 1..Len(a) PROVE a[i] = b[i + k]
  <2>1. i \in 1..(n - p + 1) /\ i + k = i /\ i \in 1..(m - p + 1) /\ p + i - 1 \in 1..n
    BY <1>1, <1>3
  <2>2. a[i] = s[p + i - 1] /\ b[i] = t[p + i - 1] /\ t[p + i - 1] = s[p + i - 1]
    BY <1>3, <1>4, <1>6, <2>1
  <2> QED BY <2>1, <2>2
<1>8. \A i \in 1..Len(s) : s[i] = t[i + k]
  BY <1>6
<1> HIDE DEF k
<1>9. Bytes(a) \in Nat /\ Bytes(b) \in Nat /\ Bytes(a) <= Bytes(b)
  BY ONLY <1>1, <1>3, <1>4, <1>5, <1>7, BytesOfPart
<1>10. Bytes(s) \in Nat /\ Bytes(t) \in Nat /\ Bytes(s) <= Bytes(t)
  BY ONLY <1>1, <1>5, <1>8, BytesOfPart
<1> QED BY <1>9, <1>10 DEF a, b

-----------------------------------------------------------------------------
(* Lines                                                                   *)

LEMMA Characters ==
    /\ CR # LF /\ CR \in Controls /\ LF \in Controls /\ Controls \subseteq NotInNames
    /\ Blanks \subseteq NotInNames /\ " " \in Blanks /\ Controls \cap Blanks = {}
    /\ Controls \cap Versions = {} /\ Controls \cap Digits = {}
    /\ ":" \notin Controls /\ ":" \notin Blanks /\ CR \notin Blanks /\ LF \notin Blanks
    /\ CR \notin Versions /\ LF \notin Versions
BY DEF CR, LF, Controls, NotInNames, Blanks, Versions, Digits, DigitChars, ToSet

\* What parsing returns.
Results(A) == [ret : Int, lines : Seq(Seq(A) \X Seq(A)), version : A \cup {NoVersion}]

\* A line ends at e, and it is empty.
EmptyAt(s, e) ==
    /\ s[e] = LF
    /\ e > 1 => s[e - 1] = LF \/ (s[e - 1] = CR /\ (e = 2 \/ s[e - 2] = LF))

\* One line and no more is between p and q, and it is not empty.
OneLine(s, p, q) ==
    /\ p < q /\ q - 1 <= Len(s) /\ s[q - 1] = LF
    /\ \A d \in p..(q - 1) : ~EmptyAt(s, d)

\* No line ends from p on.
Unended(s, p) == \A d \in p..Len(s) : s[d] # LF

LEMMA EndLineIs ==
    ASSUME NEW A, NEW s \in Seq(A), NEW e \in Nat \ {0}
    PROVE  /\ \/ EndLine(s, e) = Incomplete /\ (e > Len(s) \/ (e = Len(s) /\ s[e] = CR))
              \/ EndLine(s, e) = Bad
              \/ EndLine(s, e) = e + 1 /\ e <= Len(s) /\ s[e] = LF
              \/ EndLine(s, e) = e + 2 /\ e + 1 <= Len(s) /\ s[e] = CR /\ s[e + 1] = LF
           /\ EndLine(s, e) \in Int
<1>1. Len(s) \in Nat
  OBVIOUS
<1>2. CASE e > Len(s)
  BY <1>1, <1>2 DEF EndLine, Incomplete
<1>3. CASE e <= Len(s) /\ s[e] = LF
  BY <1>1, <1>3 DEF EndLine
<1>4. CASE e <= Len(s) /\ s[e] # LF /\ s[e] # CR
  BY <1>1, <1>4 DEF EndLine, Bad
<1>5. CASE e <= Len(s) /\ s[e] = CR
  <2> e <= Len(s) /\ ~(e > Len(s)) /\ s[e] # LF /\ s[e] = CR
    <3>1. CR # LF
      BY Characters
    <3> QED BY <1>1, <1>5, <3>1
  <2>1. CASE e = Len(s)
    BY <2>1 DEF EndLine, Incomplete
  <2>2. CASE e # Len(s) /\ s[e + 1] = LF
    <3>1. e + 1 <= Len(s)
      BY <1>1, <2>2
    <3> QED BY <2>2, <3>1 DEF EndLine
  <2>3. CASE e # Len(s) /\ s[e + 1] # LF
    BY <2>3 DEF EndLine, Bad
  <2> QED BY <2>1, <2>2, <2>3
<1> QED BY <1>1, <1>2, <1>3, <1>4, <1>5

LEMMA EndLineStays ==
    ASSUME NEW A, NEW s, NEW t, Extends(A, s, t), NEW e \in Nat \ {0}, EndLine(s, e) # Incomplete
    PROVE  EndLine(t, e) = EndLine(s, e)
<1>1. /\ Len(s) \in Nat /\ Len(t) \in Nat /\ Len(s) <= Len(t)
      /\ \A i \in 1..Len(s) : t[i] = s[i]
  BY DEF Extends
<1>2. e <= Len(s)
  BY <1>1 DEF EndLine
<1>3. t[e] = s[e] /\ e <= Len(t)
  BY <1>1, <1>2
<1>4. CASE s[e] = LF \/ s[e] # CR
  <2>1. ~(e > Len(s)) /\ ~(e > Len(t))
    BY <1>1, <1>2
  <2>2. CASE s[e] = LF
    BY <1>3, <2>1, <2>2 DEF EndLine
  <2>3. CASE s[e] # LF /\ s[e] # CR
    BY <1>3, <2>1, <2>3 DEF EndLine
  <2> QED BY <1>4, <2>2, <2>3
<1>5. CASE s[e] # LF /\ s[e] = CR
  <2>1. e # Len(s)
    BY <1>1, <1>2, <1>5 DEF EndLine
  <2>2. e + 1 \in 1..Len(s) /\ e # Len(t)
    BY <1>1, <1>2, <2>1
  <2>3. t[e + 1] = s[e + 1]
    BY <1>1, <2>2
  <2> QED BY <1>1, <1>2, <1>3, <1>5, <2>1, <2>2, <2>3 DEF EndLine
<1> QED BY <1>4, <1>5

\* A line with something in it.
LEMMA LineIsOne ==
    ASSUME NEW A, NEW s \in Seq(A), NEW p \in Nat \ {0}, NEW e \in Nat, p < e, e <= Len(s) + 1,
           \A d \in p..(e - 1) : s[d] # CR /\ s[d] # LF,
           EndLine(s, e) # Incomplete, EndLine(s, e) # Bad
    PROVE  OneLine(s, p, EndLine(s, e)) /\ EndLine(s, e) \in (p + 1)..(Len(s) + 1)
<1> DEFINE q == EndLine(s, e)
<1>1. /\ \/ q = e + 1 /\ e <= Len(s) /\ s[e] = LF
         \/ q = e + 2 /\ e + 1 <= Len(s) /\ s[e] = CR /\ s[e + 1] = LF
      /\ e \in Nat \ {0} /\ Len(s) \in Nat
  BY EndLineIs
<1> HIDE DEF q
<1>2. p < q /\ q - 1 <= Len(s) /\ s[q - 1] = LF /\ q \in (p + 1)..(Len(s) + 1)
  BY <1>1
<1>3. ASSUME NEW d \in p..(q - 1) PROVE ~EmptyAt(s, d)
  <2>1. CASE d < e
    <3>1. s[d] # LF
      BY <1>1, <2>1
    <3> QED BY <3>1 DEF EmptyAt
  <2>2. CASE d = e /\ s[e] = CR
    BY <2>2, Characters DEF EmptyAt
  <2>3. CASE d = e /\ s[e] # CR
    <3>1. d > 1 /\ d - 1 \in p..(e - 1)
      BY <2>3
    <3>2. s[d - 1] # LF /\ s[d - 1] # CR
      BY <3>1
    <3> QED BY <3>1, <3>2 DEF EmptyAt
  <2>4. CASE d > e
    <3>1. d = e + 1 /\ s[e] = CR /\ d # 2 /\ d > 1 /\ d - 1 = e /\ d - 2 = e - 1
      BY <1>1, <2>4
    <3>2. e - 1 \in p..(e - 1)
      BY <1>1
    <3>3. s[d - 1] # LF /\ s[d - 2] # LF
      BY <3>1, <3>2, Characters
    <3> QED BY <3>1, <3>3 DEF EmptyAt
  <2>5. d < e \/ d = e \/ d > e
    OBVIOUS
  <2> QED BY <2>1, <2>2, <2>3, <2>4, <2>5
<1>4. OneLine(s, p, q)
  BY <1>2, <1>3 DEF OneLine
<1> QED BY <1>2, <1>4 DEF q

\* A line whose end is missing.
LEMMA LineUnended ==
    ASSUME NEW A, NEW s \in Seq(A), NEW p \in Nat \ {0}, NEW e \in Nat \ {0},
           \A d \in p..(e - 1) : d <= Len(s) => s[d] # LF,
           EndLine(s, e) = Incomplete
    PROVE  Unended(s, p)
<1>1. e > Len(s) \/ (e = Len(s) /\ s[e] = CR)
  BY EndLineIs DEF Incomplete, Bad
<1>2. ASSUME NEW d \in p..Len(s) PROVE s[d] # LF
  <2>1. CASE d < e
    <3>1. d \in p..(e - 1) /\ d <= Len(s)
      BY <2>1
    <3> QED BY <3>1
  <2>2. CASE d >= e
    <3>1. d = e /\ s[e] = CR
      BY <1>1, <2>2
    <3> QED BY <3>1, Characters
  <2> QED BY <2>1, <2>2
<1> QED BY <1>2 DEF Unended

-----------------------------------------------------------------------------
(* Lines of headers                                                        *)

LEMMA FailureIs ==
    ASSUME NEW A, NEW ret \in Int
    PROVE  /\ Failure(ret) \in Results(A) /\ Failure(ret).ret = ret
           /\ Failure(ret).lines = <<>> /\ Failure(ret).version = NoVersion
<1>1. <<>> \in Seq(Seq(A) \X Seq(A))
  OBVIOUS
<1> QED BY <1>1 DEF Failure, Results

LEMMA ReverseIs ==
    ASSUME NEW A, NEW v \in Seq(A)
    PROVE  /\ Reverse(v) \in Seq(A) /\ Len(Reverse(v)) = Len(v)
           /\ \A i \in 1..Len(v) : Reverse(v)[i] = v[(Len(v) - i) + 1]
<1> DEFINE n == Len(v)
           r == [i \in 1..n |-> v[(n - i) + 1]]
<1>1. Reverse(v) = r /\ n \in Nat
  BY DEF Reverse
<1>2. \A i \in 1..n : (n - i) + 1 \in 1..n
  BY <1>1
<1>3. \A i \in 1..n : r[i] = v[(n - i) + 1] /\ r[i] \in A
  BY <1>2
<1>4. r \in Seq(A) /\ Len(r) = n
  <2>1. r \in [1..n -> A]
    BY <1>3
  <2> QED BY <1>1, <2>1
<1> HIDE DEF r
<1> QED BY <1>1, <1>3, <1>4

\* What is left of a value without the blanks behind it.
LEMMA WithoutBlanksIs ==
    ASSUME NEW A, NEW v \in Seq(A)
    PROVE  /\ WithoutBlanks(v) \in Seq(A) /\ ToSet(WithoutBlanks(v)) \subseteq ToSet(v)
           /\ WithoutBlanks(v) # <<>> => Last(WithoutBlanks(v)) \notin Blanks
<1> DEFINE n == Len(v)
           r == Reverse(v)
           p == FirstOutside(r, 1, Blanks)
           u == From(r, p)
           w == Reverse(u)
           m == n - p + 1
<1>1. r \in Seq(A) /\ Len(r) = n /\ n \in Nat /\ \A i \in 1..n : r[i] = v[(n - i) + 1]
  BY ReverseIs
<1> HIDE DEF r
<1>2. p \in 1..(n + 1) /\ (p <= n => r[p] \notin Blanks)
  <2>1. Found(r, 1, p) /\ (p <= Len(r) => r[p] \notin Blanks)
    BY <1>1, FirstOutsideIs
  <2> HIDE DEF p
  <2> QED BY <1>1, <2>1 DEF Found
<1> HIDE DEF p
<1>3. u \in Seq(A) /\ Len(u) = m /\ \A i \in 1..m : u[i] = r[p + i - 1]
  <2>1. p \in Nat \ {0} /\ n \in Nat /\ n <= Len(r) /\ p <= n + 1 /\ u = SubSeq(r, p, n)
    BY <1>1, <1>2 DEF From
  <2> HIDE DEF u, n
  <2> QED BY <1>1, <2>1, PartIs
<1>4. m \in Nat
  BY <1>2
<1> HIDE DEF u
<1>5. w \in Seq(A) /\ Len(w) = m /\ \A i \in 1..m : w[i] = u[(m - i) + 1]
  <2> HIDE DEF m
  <2> QED BY <1>3, ReverseIs
<1> HIDE DEF w
<1>6. ASSUME NEW i \in 1..m PROVE w[i] = v[i] /\ i \in 1..n
  <2>1. /\ (m - i) + 1 \in 1..m /\ p + ((m - i) + 1) - 1 = (n - i) + 1 /\ (n - i) + 1 \in 1..n
        /\ (n - ((n - i) + 1)) + 1 = i /\ i \in 1..n
    BY <1>2
  <2>2. w[i] = u[(m - i) + 1] /\ u[(m - i) + 1] = r[(n - i) + 1] /\ r[(n - i) + 1] = v[i]
    <3>1. u[(m - i) + 1] = r[p + ((m - i) + 1) - 1]
      BY <1>3, <2>1
    <3>2. r[(n - i) + 1] = v[(n - ((n - i) + 1)) + 1]
      BY <1>1, <2>1
    <3> QED BY <1>5, <2>1, <3>1, <3>2
  <2> QED BY <2>1, <2>2
<1>7. ToSet(w) \subseteq ToSet(v)
  <2> SUFFICES ASSUME NEW i \in DOMAIN w PROVE w[i] \in ToSet(v)
    BY DEF ToSet
  <2>1. i \in 1..m
    BY <1>5
  <2>2. w[i] = v[i] /\ i \in DOMAIN v
    BY <1>6, <2>1
  <2> QED BY <2>2 DEF ToSet
<1>8. w # <<>> => Last(w) \notin Blanks
  <2> SUFFICES ASSUME w # <<>> PROVE Last(w) \notin Blanks
    OBVIOUS
  <2>1. m >= 1
    <3> HIDE DEF m
    <3> QED BY <1>4, <1>5
  <2>2. m \in 1..m /\ (m - m) + 1 = 1 /\ 1 \in 1..m /\ p + 1 - 1 = p /\ p <= n
    BY <1>2, <2>1
  <2>3. Last(w) = w[m]
    BY <1>5 DEF Last
  <2>4. w[m] = u[1] /\ u[1] = r[p]
    <3>1. w[m] = u[(m - m) + 1]
      BY <1>5, <2>2
    <3>2. u[1] = r[p + 1 - 1]
      BY <1>3, <2>2
    <3> QED BY <2>2, <3>1, <3>2
  <2> QED BY <1>2, <2>2, <2>3, <2>4
<1> QED BY <1>5, <1>7, <1>8 DEF WithoutBlanks, w, u, p, r, n

\* The names and values of headers.
Lines(A) == Seq(Seq(A) \X Seq(A))

LEMMA WithLines ==
    ASSUME NEW A, NEW r, r \in Results(A), NEW h, h \in Lines(A)
    PROVE  /\ [r EXCEPT !.lines = h] \in Results(A) /\ [r EXCEPT !.lines = h].ret = r.ret
           /\ [r EXCEPT !.lines = h].lines = h /\ [r EXCEPT !.lines = h].version = r.version
BY DEF Results, Lines

\* A header that was read: neither its name nor its value have what ends them.
Clean(l) ==
    /\ ToSet(l[1]) \cap NotInNames = {} /\ ToSet(l[2]) \cap Controls = {}
    /\ l[2] # <<>> => Last(l[2]) \notin Blanks

\* What reading one header from p on yields.
OneHeader(A, s, p, r) ==
    /\ r \in Results(A)
    /\ r.ret = Incomplete => Unended(s, p)
    /\ r.ret \notin {Incomplete, Bad} =>
        /\ OneLine(s, p, r.ret) /\ r.ret \in (p + 1)..(Len(s) + 1)
        /\ \E l \in Seq(A) \X Seq(A) : r.lines = <<l>> /\ Clean(l)

LEMMA TokenIs ==
    ASSUME NEW A, NEW s \in Seq(A), NEW v \in 1..Len(s)
    PROVE  /\ TokenToEol(s, v) \in v..(Len(s) + 1)
           /\ \A d \in v..(TokenToEol(s, v) - 1) : s[d] \notin Controls /\ s[d] # CR /\ s[d] # LF
<1> DEFINE e == FirstIn(s, v, Controls)
<1>1. Found(s, v, e) /\ \A d \in v..Len(s) : d < e => s[d] \notin Controls
  BY FirstInIs
<1>2. TokenToEol(s, v) = e /\ v \in Nat /\ Len(s) \in Nat
  BY DEF TokenToEol
<1> HIDE DEF e
<1>3. e \in v..(Len(s) + 1)
  BY <1>1, <1>2 DEF Found
<1>4. ASSUME NEW d \in v..(e - 1) PROVE s[d] \notin Controls
  <2>1. d \in v..Len(s) /\ d < e
    BY <1>2, <1>3
  <2> QED BY <1>1, <2>1
<1>5. ASSUME NEW c, c \notin Controls PROVE c # CR /\ c # LF
  BY <1>5 DEF Controls
<1> QED BY <1>2, <1>3, <1>4, <1>5

\* The value of a line without its blanks.
LEMMA ValueIs ==
    ASSUME NEW A, NEW s \in Seq(A), NEW v \in 1..Len(s), NEW e \in v..(Len(s) + 1),
           \A d \in v..(e - 1) : s[d] \notin Controls
    PROVE  LET x == WithoutBlanks(SubSeq(s, v, e - 1))
           IN  x \in Seq(A) /\ ToSet(x) \cap Controls = {} /\ (x # <<>> => Last(x) \notin Blanks)
<1> DEFINE b == e - 1
           u == SubSeq(s, v, b)
<1>1. v \in Nat \ {0} /\ b \in Nat /\ b <= Len(s) /\ v <= b + 1
  OBVIOUS
<1>2. u \in Seq(A) /\ Len(u) = b - v + 1 /\ \A i \in 1..(b - v + 1) : u[i] = s[v + i - 1]
  <2> HIDE DEF b
  <2> QED BY <1>1, PartIs
<1> HIDE DEF u
<1>3. ToSet(u) \cap Controls = {}
  <2> SUFFICES ASSUME NEW i \in DOMAIN u PROVE u[i] \notin Controls
    BY DEF ToSet
  <2>1. i \in 1..(b - v + 1) /\ v + i - 1 \in v..b
    BY <1>1, <1>2
  <2> QED BY <1>2, <2>1
<1>4. /\ WithoutBlanks(u) \in Seq(A) /\ ToSet(WithoutBlanks(u)) \subseteq ToSet(u)
      /\ WithoutBlanks(u) # <<>> => Last(WithoutBlanks(u)) \notin Blanks
  BY <1>2, WithoutBlanksIs
<1> QED BY <1>3, <1>4 DEF u

LEMMA ValueLineIs ==
    ASSUME NEW A, NEW s \in Seq(A), NEW name \in Seq(A), NEW v \in 1..Len(s), NEW p \in 1..v,
           ToSet(name) \cap NotInNames = {},
           s[p] # CR /\ s[p] # LF, \A d \in p..(v - 1) : s[d] # CR /\ s[d] # LF
    PROVE  /\ OneHeader(A, s, p, ValueLine(s, name, v))
           /\ ValueLine(s, name, v).ret \notin {Incomplete, Bad} => ValueLine(s, name, v).lines[1][1] = name
<1> DEFINE e == TokenToEol(s, v)
           next == EndLine(s, e)
           x == WithoutBlanks(SubSeq(s, v, e - 1))
           l == <<name, x>>
           h == <<l>>
           r == ValueLine(s, name, v)
<1>1. /\ e \in v..(Len(s) + 1) /\ e \in Nat \ {0} /\ Len(s) \in Nat
      /\ \A d \in v..(e - 1) : s[d] \notin Controls /\ s[d] # CR /\ s[d] # LF
  BY TokenIs
<1>2. x \in Seq(A) /\ ToSet(x) \cap Controls = {} /\ (x # <<>> => Last(x) \notin Blanks)
  <2> HIDE DEF e
  <2> QED BY <1>1, ValueIs
<1>3. r = IF next < 0 THEN Failure(next) ELSE [Failure(next) EXCEPT !.lines = h]
  BY DEF ValueLine
<1>4. \A d \in p..(e - 1) : s[d] # CR /\ s[d] # LF
  <2> SUFFICES ASSUME NEW d \in p..(e - 1) PROVE s[d] # CR /\ s[d] # LF
    OBVIOUS
  <2>1. d \in p..(v - 1) \/ d \in v..(e - 1)
    BY <1>1
  <2> QED BY <1>1, <2>1
<1> HIDE DEF e, x
<1>5. next \in Int /\ (next \in {Incomplete, Bad} \/ next \in Nat)
  <2>1. /\ next = Incomplete \/ next = Bad \/ next = e + 1 \/ next = e + 2
        /\ next \in Int
    BY <1>1, EndLineIs
  <2> HIDE DEF next
  <2> QED BY <1>1, <2>1
<1>6. Failure(next) \in Results(A) /\ Failure(next).ret = next
  BY <1>5, FailureIs
<1>7. l \in Seq(A) \X Seq(A) /\ l[1] = name /\ l[2] = x
  BY <1>2
<1>8. Clean(l)
  BY <1>2, <1>7 DEF Clean
<1> HIDE DEF l
<1>9. h \in Seq(Seq(A) \X Seq(A)) /\ h[1] = l
  BY <1>7
<1>10. Incomplete < 0 /\ Bad < 0
  BY DEF Incomplete, Bad
<1>11. CASE next \in {Incomplete, Bad}
  <2>1. r = Failure(next) /\ r.ret = next /\ r \in Results(A)
    BY <1>3, <1>6, <1>10, <1>11
  <2>2. next = Incomplete => Unended(s, p)
    BY <1>1, <1>4, LineUnended
  <2> QED BY <1>11, <2>1, <2>2 DEF OneHeader
<1>12. CASE next \in Nat /\ next \notin {Incomplete, Bad}
  <2> HIDE DEF next, h
  <2>1. r = [Failure(next) EXCEPT !.lines = h]
    BY <1>3, <1>12
  <2>2. r \in Results(A) /\ r.ret = next /\ r.lines = h
    <3> DEFINE w == Failure(next)
    <3>1. w \in Results(A) /\ w.ret = next /\ r = [w EXCEPT !.lines = h]
      BY <1>6, <2>1
    <3> HIDE DEF w, r
    <3>2. h \in Lines(A)
      BY <1>9 DEF Lines
    <3>3. [w EXCEPT !.lines = h] \in Results(A) /\ [w EXCEPT !.lines = h].ret = w.ret /\ [w EXCEPT !.lines = h].lines = h
      BY ONLY <3>1, <3>2, WithLines
    <3> QED BY <3>1, <3>3
  <2> HIDE DEF r
  <2>3. p < e
    <3>1. CASE e = p
      <4>1. next = Bad
        BY <1>1, <3>1 DEF next, EndLine
      <4> QED BY <1>12, <4>1
    <3> QED BY <1>1, <3>1
  <2>4. OneLine(s, p, next) /\ next \in (p + 1)..(Len(s) + 1)
    <3>1. p \in Nat \ {0} /\ e \in Nat /\ e <= Len(s) + 1
      BY <1>1
    <3>2. EndLine(s, e) # Incomplete /\ EndLine(s, e) # Bad
      BY <1>12 DEF next
    <3> QED BY <1>4, <2>3, <3>1, <3>2, LineIsOne DEF next
  <2>5. \E m \in Seq(A) \X Seq(A) : r.lines = <<m>> /\ Clean(m)
    BY <1>7, <1>8, <2>2 DEF h
  <2>6. r.ret # Incomplete
    BY <1>12, <2>2
  <2>7. OneHeader(A, s, p, r)
    BY <2>2, <2>4, <2>5, <2>6 DEF OneHeader
  <2>8. r.lines[1][1] = name
    BY <1>7, <1>9, <2>2
  <2> QED BY <2>7, <2>8 DEF r
<1> QED BY <1>5, <1>11, <1>12

LEMMA ValueLineStays ==
    ASSUME NEW A, NEW s, NEW t, Extends(A, s, t), NEW name, NEW v \in Nat \ {0},
           ValueLine(s, name, v).ret # Incomplete
    PROVE  ValueLine(t, name, v) = ValueLine(s, name, v)
<1> DEFINE e == TokenToEol(s, v)
<1>1. s \in Seq(A) /\ Len(s) \in Nat
  BY DEF Extends
<1>2. e = FirstIn(s, v, Controls)
  BY DEF TokenToEol
<1>3. e \in Nat \ {0}
  BY <1>1, <1>2, FirstInIs DEF Found
<1>4. EndLine(s, e) # Incomplete
  <2> SUFFICES ASSUME EndLine(s, e) = Incomplete PROVE FALSE
    OBVIOUS
  <2>1. ValueLine(s, name, v) = Failure(Incomplete)
    BY DEF ValueLine, Incomplete
  <2> QED BY <2>1 DEF Failure
<1>5. e <= Len(s)
  BY <1>1, <1>3, <1>4 DEF EndLine
<1>6. TokenToEol(t, v) = e
  <2>1. FirstIn(s, v, Controls) <= Len(s)
    BY <1>2, <1>5
  <2>2. FirstIn(t, v, Controls) = FirstIn(s, v, Controls)
    BY <2>1, FirstInStays
  <2> QED BY <1>2, <2>2 DEF TokenToEol
<1>7. EndLine(t, e) = EndLine(s, e)
  BY <1>3, <1>4, EndLineStays
<1>8. SubSeq(t, v, e - 1) = SubSeq(s, v, e - 1)
  <2>1. e - 1 \in Nat /\ e - 1 <= Len(s)
    BY <1>1, <1>3, <1>5
  <2> QED BY <2>1, PartStays
<1> HIDE DEF e
<1> QED BY <1>6, <1>7, <1>8 DEF ValueLine, e

LEMMA HeaderLineIs ==
    ASSUME NEW A, NEW s \in Seq(A), NEW p \in 1..Len(s), NEW n \in Nat, s[p] \notin {CR, LF}
    PROVE  /\ OneHeader(A, s, p, HeaderLine(s, p, n))
           /\ HeaderLine(s, p, n).ret \notin {Incomplete, Bad} =>
                (HeaderLine(s, p, n).lines[1][1] = <<>> => n > 0)
<1> DEFINE colon == FirstIn(s, p, NotInNames)
           value == FirstOutside(s, colon + 1, Blanks)
           r == HeaderLine(s, p, n)
<1>1. /\ colon \in p..(Len(s) + 1) /\ colon \in Nat \ {0} /\ Len(s) \in Nat /\ p \in Nat \ {0}
      /\ \A d \in p..Len(s) : d < colon => s[d] \notin NotInNames
  <2>1. Found(s, p, colon) /\ \A d \in p..Len(s) : d < colon => s[d] \notin NotInNames
    BY FirstInIs
  <2> HIDE DEF colon
  <2> QED BY <2>1 DEF Found
<1>2. r = IF Folded(s, p, n) THEN ValueLine(s, <<>>, p)
          ELSE IF colon > Len(s) THEN Failure(Incomplete)
          ELSE IF s[colon] # ":" \/ colon = p THEN Failure(Bad)
          ELSE IF value > Len(s) THEN Failure(Incomplete)
          ELSE ValueLine(s, SubSeq(s, p, colon - 1), value)
  BY DEF HeaderLine
<1>3. \A ret \in {Incomplete, Bad} : Failure(ret) \in Results(A) /\ Failure(ret).ret = ret
  <2>1. Incomplete \in Int /\ Bad \in Int
    BY DEF Incomplete, Bad
  <2> QED BY <2>1, FailureIs
<1>4. \A c : c \notin NotInNames => c # CR /\ c # LF
  BY Characters
<1>5. \A c \in Blanks : c # CR /\ c # LF
  BY Characters
<1>6. CR # LF /\ Incomplete # Bad
  <2>1. CR # LF
    BY Characters
  <2> QED BY <2>1 DEF Incomplete, Bad
<1>7. CASE Folded(s, p, n)
  <2>1. r = ValueLine(s, <<>>, p) /\ n > 0
    BY <1>2, <1>7 DEF Folded
  <2> DEFINE name == <<>>
  <2>2. name \in Seq(A) /\ ToSet(name) \cap NotInNames = {}
    BY DEF ToSet
  <2>3. p \in 1..p /\ \A d \in p..(p - 1) : s[d] # CR /\ s[d] # LF
    OBVIOUS
  <2>4. r = ValueLine(s, name, p)
    BY <2>1
  <2> HIDE DEF name, r
  <2>5. OneHeader(A, s, p, ValueLine(s, name, p))
    BY <2>2, <2>3, ValueLineIs
  <2> QED BY <2>1, <2>4, <2>5 DEF r
<1>8. CASE ~Folded(s, p, n) /\ colon > Len(s)
  <2>1. r = Failure(Incomplete)
    BY <1>2, <1>8
  <2>2. Unended(s, p)
    <3> HIDE DEF colon
    <3>1. \A d \in p..Len(s) : d < colon
      BY <1>1, <1>8
    <3>2. \A d \in p..Len(s) : s[d] \notin NotInNames
      BY <1>1, <3>1
    <3> QED BY <1>4, <3>2 DEF Unended
  <2> HIDE DEF r, colon
  <2>3. r \in Results(A) /\ r.ret = Incomplete
    BY <1>3, <2>1
  <2> QED BY <2>2, <2>3 DEF OneHeader, r
<1>9. CASE ~Folded(s, p, n) /\ colon <= Len(s) /\ (s[colon] # ":" \/ colon = p)
  <2>1. r = Failure(Bad)
    <3> HIDE DEF colon
    <3>1. ~(colon > Len(s))
      BY <1>1, <1>9
    <3> QED BY <1>2, <1>9, <3>1
  <2> HIDE DEF r
  <2>2. r \in Results(A) /\ r.ret = Bad
    BY <1>3, <2>1
  <2> QED BY <1>6, <2>2 DEF OneHeader, r
<1>10. CASE ~Folded(s, p, n) /\ colon <= Len(s) /\ s[colon] = ":" /\ colon # p
  <2> DEFINE b == colon - 1
             name == SubSeq(s, p, b)
             c == colon + 1
  <2>1. r = IF value > Len(s) THEN Failure(Incomplete) ELSE ValueLine(s, name, value)
    <3> HIDE DEF colon, value
    <3>1. ~(colon > Len(s))
      BY <1>1, <1>10
    <3> QED BY <1>2, <1>10, <3>1
  <2>2. /\ value \in c..(Len(s) + 1) /\ c \in Nat \ {0}
        /\ \A d \in c..Len(s) : d < value => s[d] \in Blanks
    <3> HIDE DEF colon
    <3>0. value = FirstOutside(s, c, Blanks)
      OBVIOUS
    <3>1. c \in Nat \ {0} /\ c <= Len(s) + 1
      BY <1>1, <1>10
    <3> HIDE DEF c, value
    <3>2. Found(s, c, value) /\ \A d \in c..Len(s) : d < value => s[d] \in Blanks
      BY <3>0, <3>1, FirstOutsideIs
    <3> QED BY <3>1, <3>2 DEF Found
  <2> HIDE DEF colon, value
  <2>3. s[colon] # CR /\ s[colon] # LF
    <3>1. ":" # CR /\ ":" # LF
      BY DEF CR, LF
    <3> QED BY <1>10, <3>1
  <2>4. \A d \in p..Len(s) : d < value => s[d] # CR /\ s[d] # LF
    <3> SUFFICES ASSUME NEW d \in p..Len(s), d < value PROVE s[d] # CR /\ s[d] # LF
      OBVIOUS
    <3>1. d < colon \/ d = colon \/ d \in c..Len(s)
      BY <1>1
    <3> HIDE DEF c
    <3> QED BY <1>1, <1>4, <1>5, <2>2, <2>3, <3>1
  <2>5. CASE value > Len(s)
    <3>1. r = Failure(Incomplete)
      BY <2>1, <2>5
    <3>2. Unended(s, p)
      <4>1. \A d \in p..Len(s) : d < value
        BY <1>1, <2>2, <2>5
      <4> QED BY <2>4, <4>1 DEF Unended
    <3> HIDE DEF r
    <3>3. r \in Results(A) /\ r.ret = Incomplete
      BY <1>3, <3>1
    <3> QED BY <3>2, <3>3 DEF OneHeader, r
  <2>6. CASE value <= Len(s)
    <3>1. r = ValueLine(s, name, value)
      <4>1. ~(value > Len(s))
        BY <1>1, <2>2, <2>6
      <4> QED BY <2>1, <4>1
    <3>2. /\ p \in Nat \ {0} /\ b \in Nat /\ b <= Len(s) /\ p <= b + 1 /\ b - p + 1 >= 1
      BY <1>1, <1>10
    <3>3. name \in Seq(A) /\ Len(name) = b - p + 1 /\ \A i \in 1..(b - p + 1) : name[i] = s[p + i - 1]
      <4> HIDE DEF b
      <4> QED BY <3>2, PartIs
    <3> HIDE DEF name
    <3>4. ToSet(name) \cap NotInNames = {}
      <4> SUFFICES ASSUME NEW i \in DOMAIN name PROVE name[i] \notin NotInNames
        BY DEF ToSet
      <4>1. i \in 1..(b - p + 1) /\ p + i - 1 \in p..Len(s) /\ p + i - 1 < colon
        BY <1>1, <3>2, <3>3
      <4> QED BY <1>1, <3>3, <4>1
    <3>5. name # <<>>
      BY <3>2, <3>3
    <3>6. value \in 1..Len(s) /\ p \in 1..value
      BY <1>1, <2>2, <2>6
    <3>7. /\ s[p] # CR /\ s[p] # LF
          /\ \A d \in p..(value - 1) : s[d] # CR /\ s[d] # LF
      <4>1. \A d \in p..(value - 1) : d \in p..Len(s) /\ d < value
        BY <1>1, <2>6, <3>6
      <4> QED BY <2>4, <4>1
    <3>8. /\ OneHeader(A, s, p, ValueLine(s, name, value))
          /\ ValueLine(s, name, value).ret \notin {Incomplete, Bad} =>
                ValueLine(s, name, value).lines[1][1] = name
      BY ONLY <3>3, <3>4, <3>6, <3>7, s \in Seq(A), ValueLineIs
    <3> QED BY <3>1, <3>5, <3>8
  <2> QED BY <1>1, <2>2, <2>5, <2>6
<1>11. colon > Len(s) \/ colon <= Len(s)
  <2> HIDE DEF colon
  <2> QED BY <1>1
<1> HIDE DEF r, colon, value
<1> QED BY <1>7, <1>8, <1>9, <1>10, <1>11 DEF r

LEMMA HeaderLineStays ==
    ASSUME NEW A, NEW s, NEW t, Extends(A, s, t), NEW p \in 1..Len(s), NEW n \in Nat,
           HeaderLine(s, p, n).ret # Incomplete
    PROVE  HeaderLine(t, p, n) = HeaderLine(s, p, n)
<1> DEFINE colon == FirstIn(s, p, NotInNames)
           c == colon + 1
           value == FirstOutside(s, c, Blanks)
           other == FirstIn(t, p, NotInNames)
<1>1. /\ s \in Seq(A) /\ t \in Seq(A) /\ Len(s) \in Nat /\ Len(t) \in Nat /\ Len(s) <= Len(t)
      /\ \A i \in 1..Len(s) : t[i] = s[i]
  BY DEF Extends
<1>2. p \in Nat \ {0} /\ t[p] = s[p]
  BY <1>1
<1>3. Failure(Incomplete).ret = Incomplete
  BY DEF Failure
<1>4. CASE Folded(s, p, n)
  <2>1. Folded(t, p, n)
    BY <1>2, <1>4 DEF Folded
  <2>2. HeaderLine(s, p, n) = ValueLine(s, <<>>, p) /\ HeaderLine(t, p, n) = ValueLine(t, <<>>, p)
    BY <1>4, <2>1 DEF HeaderLine
  <2> DEFINE name == <<>>
  <2>3. HeaderLine(s, p, n) = ValueLine(s, name, p) /\ HeaderLine(t, p, n) = ValueLine(t, name, p)
    BY <2>2
  <2> HIDE DEF name
  <2> QED BY <1>2, <2>3, ValueLineStays
<1>5. CASE ~Folded(s, p, n)
  <2>1. ~Folded(t, p, n)
    BY <1>2, <1>5 DEF Folded
  <2>2. HeaderLine(s, p, n) =
            IF colon > Len(s) THEN Failure(Incomplete)
            ELSE IF s[colon] # ":" \/ colon = p THEN Failure(Bad)
            ELSE IF value > Len(s) THEN Failure(Incomplete)
            ELSE ValueLine(s, SubSeq(s, p, colon - 1), value)
    BY <1>5 DEF HeaderLine
  <2>3. HeaderLine(t, p, n) =
            IF other > Len(t) THEN Failure(Incomplete)
            ELSE IF t[other] # ":" \/ other = p THEN Failure(Bad)
            ELSE IF FirstOutside(t, other + 1, Blanks) > Len(t) THEN Failure(Incomplete)
            ELSE ValueLine(t, SubSeq(t, p, other - 1), FirstOutside(t, other + 1, Blanks))
    BY <2>1 DEF HeaderLine
  <2>4. colon \in Nat \ {0}
    BY <1>1, <1>2, FirstInIs DEF Found
  <2>5. colon <= Len(s)
    <3> HIDE DEF colon, value
    <3> QED BY <1>1, <1>3, <2>2, <2>4
  <2>6. other = colon
    BY <1>2, <2>5, FirstInStays
  <2> HIDE DEF other, colon, value
  <2>7. t[colon] = s[colon] /\ ~(colon > Len(s)) /\ ~(colon > Len(t)) /\ c \in Nat \ {0}
    BY <1>1, <2>4, <2>5
  <2>8. CASE s[colon] # ":" \/ colon = p
    BY <2>2, <2>3, <2>6, <2>7, <2>8
  <2>9. CASE ~(s[colon] # ":" \/ colon = p)
    <3>1. value \in Nat \ {0}
      <4> HIDE DEF c
      <4> QED BY <1>1, <2>7, FirstOutsideIs DEF Found, value
    <3>2. value <= Len(s)
      BY <1>1, <1>3, <2>2, <2>7, <2>9, <3>1
    <3>3. FirstOutside(t, c, Blanks) = value
      <4> HIDE DEF c
      <4> QED BY <2>7, <3>2, FirstOutsideStays DEF value
    <3>4. ~(value > Len(s)) /\ ~(value > Len(t))
      BY <1>1, <3>1, <3>2
    <3>5. SubSeq(t, p, colon - 1) = SubSeq(s, p, colon - 1)
      <4>1. colon - 1 \in Nat /\ colon - 1 <= Len(s)
        BY <1>1, <2>4, <2>5
      <4> DEFINE b == colon - 1
      <4>2. b \in Nat /\ b <= Len(s)
        BY <4>1
      <4> HIDE DEF b
      <4>3. SubSeq(t, p, b) = SubSeq(s, p, b)
        BY <1>2, <4>2, PartStays
      <4> QED BY <4>3 DEF b
    <3> DEFINE name == SubSeq(s, p, colon - 1)
    <3>6. HeaderLine(s, p, n) = ValueLine(s, name, value)
      BY <2>2, <2>7, <2>9, <3>4
    <3>7. HeaderLine(t, p, n) = ValueLine(t, name, value)
      BY <2>3, <2>6, <2>7, <2>9, <3>3, <3>4, <3>5
    <3> HIDE DEF name
    <3> QED BY <3>1, <3>6, <3>7, ValueLineStays
  <2> QED BY <2>8, <2>9
<1> QED BY <1>4, <1>5

-----------------------------------------------------------------------------
(* Headers                                                                 *)

\* The header at p, with n more to come, and what parse says of the rest.
Headed(s, p, n, w) ==
    IF p > Len(s) THEN Failure(Incomplete)
    ELSE IF s[p] \in {CR, LF} THEN Failure(EndLine(s, p))
    ELSE IF n = 0 THEN Failure(Bad)
    ELSE LET line == HeaderLine(s, p, MaxHeaders - n)
             rest == w[line.ret]
         IN  IF line.ret < 0 THEN line ELSE [rest EXCEPT !.lines = line.lines \o @]

\* w has what parse_headers returns from each position.
Parsing(A, s, from, w) == w \in [from..(Len(s) + 1) -> Results(A)]

LEMMA HeadedType ==
    ASSUME NEW A, NEW s \in Seq(A), NEW from \in 1..(Len(s) + 1), NEW n \in 0..MaxHeaders,
           NEW w, Parsing(A, s, from, w), NEW p \in from..(Len(s) + 1)
    PROVE  Headed(s, p, n, w) \in Results(A)
<1> USE HeaderLimit
<1>1. Incomplete \in Int /\ Bad \in Int
  BY DEF Incomplete, Bad
<1>2. CASE p > Len(s)
  BY <1>1, <1>2, FailureIs DEF Headed
<1>3. p <= Len(s) => p \in 1..Len(s) /\ p \in Nat \ {0}
  OBVIOUS
<1>4. CASE p <= Len(s) /\ s[p] \in {CR, LF}
  <2>1. Headed(s, p, n, w) = Failure(EndLine(s, p))
    BY <1>3, <1>4 DEF Headed
  <2>2. EndLine(s, p) \in Int
    BY <1>3, <1>4, EndLineIs
  <2> QED BY <2>1, <2>2, FailureIs
<1>5. CASE p <= Len(s) /\ s[p] \notin {CR, LF} /\ n = 0
  BY <1>1, <1>3, <1>5, FailureIs DEF Headed
<1>6. CASE p <= Len(s) /\ s[p] \notin {CR, LF} /\ n # 0
  <2> DEFINE k == MaxHeaders - n
             line == HeaderLine(s, p, k)
             rest == w[line.ret]
             h == line.lines \o rest.lines
  <2>1. Headed(s, p, n, w) = IF line.ret < 0 THEN line ELSE [rest EXCEPT !.lines = h]
    BY <1>3, <1>6 DEF Headed
  <2>2. OneHeader(A, s, p, line)
    <3>1. k \in Nat /\ p \in 1..Len(s)
      BY <1>3, <1>6
    <3> HIDE DEF k
    <3> QED BY <1>6, <3>1, HeaderLineIs
  <2> HIDE DEF line
  <2>3. line \in Results(A) /\ (line.ret \notin {Incomplete, Bad} => line.ret \in (p + 1)..(Len(s) + 1))
    BY <2>2 DEF OneHeader
  <2>4. CASE line.ret < 0
    BY <2>1, <2>3, <2>4
  <2>5. CASE ~(line.ret < 0)
    <3>1. line.ret \in from..(Len(s) + 1)
      BY <2>3, <2>5 DEF Incomplete, Bad
    <3>2. rest \in Results(A)
      BY <3>1 DEF Parsing
    <3> HIDE DEF rest
    <3>3. line.lines \in Seq(Seq(A) \X Seq(A)) /\ rest.lines \in Seq(Seq(A) \X Seq(A))
      BY <2>3, <3>2 DEF Results
    <3>4. h \in Seq(Seq(A) \X Seq(A))
      BY <3>3, ConcatProperties
    <3> HIDE DEF h
    <3>5. [rest EXCEPT !.lines = h] \in Results(A)
      <4>1. h \in Lines(A)
        BY <3>4 DEF Lines
      <4> QED BY ONLY <3>2, <4>1, WithLines
    <3> QED BY <2>1, <2>5, <3>5
  <2> QED BY <2>4, <2>5
<1> QED BY <1>2, <1>4, <1>5, <1>6

\* What is behind a position that is not used does not matter.
LEMMA HeadedLast ==
    ASSUME NEW s, NEW p, NEW v, NEW w
    PROVE  Headed(s, p, 0, v) = Headed(s, p, 0, w)
BY DEF Headed

\* f has what parse_headers returns, for each number of headers to come.
ParsedBy(A, s, from, f) ==
    /\ ParseHeaders(s, from) = f[MaxHeaders][from]
    /\ \A n \in 0..MaxHeaders : Parsing(A, s, from, f[n])
    /\ \A n \in 0..MaxHeaders, p \in from..(Len(s) + 1) :
        f[n][p] = Headed(s, p, n, f[n - 1])

LEMMA HeadersParsed ==
    ASSUME NEW A, NEW s, s \in Seq(A), NEW from, from \in 1..(Len(s) + 1)
    PROVE  \E f : ParsedBy(A, s, from, f)
<1> USE HeaderLimit
<1> DEFINE D == from..(Len(s) + 1)
           W == [D -> Results(A)]
           zero == 0
           bad == [p \in D |-> Failure(Bad)]
           first == [p \in D |-> Headed(s, p, zero, bad)]
           N == MaxHeaders
           g == [n \in 1..N |-> [w \in W |-> [p \in D |-> Headed(s, p, n, w)]]]
<1>1. \A n \in 0..N, w \in W, p \in D : Headed(s, p, n, w) \in Results(A)
  <2> SUFFICES ASSUME NEW n \in 0..N, NEW w \in W, NEW p \in D PROVE Headed(s, p, n, w) \in Results(A)
    OBVIOUS
  <2>1. Parsing(A, s, from, w)
    BY DEF Parsing
  <2> QED BY <2>1, HeadedType
<1>2. bad \in W
  <2>1. Bad \in Int
    BY DEF Bad
  <2>2. Failure(Bad) \in Results(A)
    BY <2>1, FailureIs
  <2> HIDE DEF D
  <2> QED BY <2>2
<1>3. first \in W
  <2>1. zero \in 0..N
    OBVIOUS
  <2> HIDE DEF D, zero, bad, W
  <2>2. \A p \in D : Headed(s, p, zero, bad) \in Results(A)
    BY <1>1, <1>2, <2>1
  <2> QED BY <2>2 DEF W
<1>4. g \in [1..N -> [W -> W]]
  <2>1. \A n \in 1..N : n \in 0..N
    OBVIOUS
  <2> HIDE DEF D, N
  <2>2. \A n \in 1..N, w \in W : [p \in D |-> Headed(s, p, n, w)] \in W
    BY <1>1, <2>1
  <2> HIDE DEF W
  <2> QED BY <2>2
<1>5. PICK e \in [0..N -> W] : e[0] = first /\ \A n \in 1..N : e[n] = g[n][e[n - 1]]
  <2>1. N \in Nat
    OBVIOUS
  <2> HIDE DEF g, W, first, N
  <2>2. \E f \in [0..N -> W] : f[0] = first /\ \A i \in 1..N : f[i] = g[i][f[i - 1]]
    <3>1. first \in W /\ g \in [1..N -> [W -> W]]
      BY <1>3, <1>4
    <3> QED BY ONLY <2>1, <3>1, Recursion
  <2> QED BY <2>2
<1> DEFINE Def(h) == h = [n \in 0..N |-> [p \in D |-> Headed(s, p, n, h[n - 1])]]
           f == CHOOSE h : Def(h)
<1>6. ASSUME NEW n \in 0..N PROVE e[n] = [p \in D |-> Headed(s, p, n, e[n - 1])]
  <2>1. CASE n = 0
    <3>1. e[n] = [p \in D |-> Headed(s, p, zero, bad)]
      BY <1>5, <2>1
    <3>2. \A p \in D : Headed(s, p, zero, bad) = Headed(s, p, n, e[n - 1])
      BY <2>1, HeadedLast
    <3> HIDE DEF D, zero, bad
    <3> QED BY <3>1, <3>2
  <2>2. CASE n # 0
    <3>1. n \in 1..N /\ n - 1 \in 0..N
      BY <2>2
    <3>2. e[n - 1] \in W /\ e[n] = g[n][e[n - 1]]
      BY <1>5, <3>1
    <3> HIDE DEF W, D, N
    <3> QED BY <3>1, <3>2
  <2> QED BY <2>1, <2>2
<1>7. Def(e)
  <2>1. e = [n \in 0..N |-> e[n]]
    BY <1>5
  <2> HIDE DEF D, N
  <2> QED BY <1>6, <2>1
<1>8. Def(f)
  <2> HIDE DEF Def
  <2> QED BY <1>7
<1>9. ParseHeaders(s, from) = f[N][from]
  BY DEF ParseHeaders, Headed
<1> HIDE DEF f
<1>10. \A n \in 0..N : f[n] = [p \in D |-> Headed(s, p, n, f[n - 1])]
  <2> HIDE DEF D, N
  <2> QED BY <1>8
<1>11. \A n \in 0..N, p \in D : f[n][p] = Headed(s, p, n, f[n - 1])
  <2> HIDE DEF D, N
  <2> QED BY <1>10
<1> DEFINE S == {n \in 0..N : f[n] \in W}
<1>12. ASSUME NEW n \in 0..N, NEW w \in W, \A p \in D : Headed(s, p, n, f[n - 1]) = Headed(s, p, n, w)
       PROVE  f[n] \in W
  <2>1. \A p \in D : Headed(s, p, n, f[n - 1]) \in Results(A)
    <3> HIDE DEF D, N, W
    <3> QED BY <1>1, <1>12
  <2> HIDE DEF D, N
  <2> QED BY <1>10, <2>1
<1>13. 0 \in S
  <2>1. \A p \in D : Headed(s, p, zero, f[zero - 1]) = Headed(s, p, zero, bad)
    BY HeadedLast
  <2>2. zero \in 0..N
    OBVIOUS
  <2> HIDE DEF D, N, W, bad
  <2>3. f[zero] \in W
    <3> HIDE DEF zero
    <3> QED BY <1>2, <1>12, <2>1, <2>2
  <2> QED BY <2>2, <2>3
<1>14. ASSUME NEW n \in 1..N, n - 1 \in S PROVE n \in S
  <2>1. n \in 0..N /\ f[n - 1] \in W
    BY <1>14
  <2> HIDE DEF D, N, W
  <2> QED BY <1>12, <2>1
<1>15. \A n \in 0..N : n \in S
  <2>1. N \in Nat
    OBVIOUS
  <2> HIDE DEF S, N
  <2> QED BY <1>13, <1>14, <2>1, UpTo
<1>16. \A n \in 0..N : Parsing(A, s, from, f[n])
  BY <1>15 DEF Parsing
<1>17. ParsedBy(A, s, from, f)
  BY <1>9, <1>11, <1>16 DEF ParsedBy
<1> QED BY <1>17

\* Where what is read from p on ends: with the first empty line, and when it
\* does not end yet there is none but for the last 9 bytes.
Ended(s, p, ret) ==
    /\ ret = Incomplete => \A d \in p..Len(s) : EmptyAt(s, d) => Bytes(From(s, d)) < 9
    /\ ret \notin {Incomplete, Bad} =>
        /\ ret \in (p + 1)..(Len(s) + 1) /\ EmptyAt(s, ret - 1)
        /\ \A d \in p..(ret - 2) : ~EmptyAt(s, d)

LEMMA EndedNot ==
    ASSUME NEW s, NEW p
    PROVE  Ended(s, p, Bad) /\ (Unended(s, p) => Ended(s, p, Incomplete))
<1>1. Bad # Incomplete
  BY DEF Bad, Incomplete
<1>2. Ended(s, p, Bad)
  BY <1>1 DEF Ended
<1>3. ASSUME Unended(s, p) PROVE Ended(s, p, Incomplete)
  <2>1. \A d \in p..Len(s) : ~EmptyAt(s, d)
    BY <1>3 DEF Unended, EmptyAt
  <2> QED BY <2>1 DEF Ended
<1> QED BY <1>2, <1>3

\* A line in front changes nothing.
LEMMA EndedOn ==
    ASSUME NEW A, NEW s \in Seq(A), NEW p \in Nat \ {0}, NEW q \in (p + 1)..(Len(s) + 1),
           NEW ret, OneLine(s, p, q), Ended(s, q, ret)
    PROVE  Ended(s, p, ret)
<1>1. Len(s) \in Nat /\ \A d \in p..(q - 1) : ~EmptyAt(s, d)
  BY DEF OneLine
<1>2. ASSUME ret = Incomplete, NEW d \in p..Len(s), EmptyAt(s, d) PROVE Bytes(From(s, d)) < 9
  <2>1. \A c \in q..Len(s) : EmptyAt(s, c) => Bytes(From(s, c)) < 9
    BY <1>2 DEF Ended
  <2>2. d \in q..Len(s)
    BY <1>1, <1>2
  <2> QED BY <1>2, <2>1, <2>2
<1>3. ASSUME ret \notin {Incomplete, Bad}
      PROVE  /\ ret \in (p + 1)..(Len(s) + 1) /\ EmptyAt(s, ret - 1)
             /\ \A d \in p..(ret - 2) : ~EmptyAt(s, d)
  <2>1. /\ ret \in (q + 1)..(Len(s) + 1) /\ EmptyAt(s, ret - 1)
        /\ \A d \in q..(ret - 2) : ~EmptyAt(s, d)
    BY <1>3 DEF Ended
  <2>2. ret \in (p + 1)..(Len(s) + 1)
    BY <2>1
  <2>3. ASSUME NEW d \in p..(ret - 2) PROVE ~EmptyAt(s, d)
    <3>1. d \in p..(q - 1) \/ d \in q..(ret - 2)
      BY <2>1
    <3> QED BY <1>1, <2>1, <3>1
  <2> QED BY <2>1, <2>2, <2>3
<1> QED BY <1>2, <1>3 DEF Ended

LEMMA EmptyLineIs ==
    ASSUME NEW A, NEW s \in Seq(A), NEW p \in 2..Len(s), s[p - 1] = LF, s[p] \in {CR, LF}
    PROVE  Ended(s, p, EndLine(s, p))
<1> DEFINE q == EndLine(s, p)
<1>1. CR # LF
  BY Characters
<1>2. p \in Nat \ {0} /\ Len(s) \in Nat /\ p - 1 \in Nat /\ p <= Len(s) /\ p > 1
  OBVIOUS
<1>3. /\ \/ q = Incomplete /\ (p > Len(s) \/ (p = Len(s) /\ s[p] = CR))
         \/ q = Bad
         \/ q = p + 1 /\ p <= Len(s) /\ s[p] = LF
         \/ q = p + 2 /\ p + 1 <= Len(s) /\ s[p] = CR /\ s[p + 1] = LF
      /\ q \in Int
  BY <1>2, EndLineIs
<1> HIDE DEF q
<1>4. CASE q = Incomplete /\ p = Len(s) /\ s[p] = CR
  <2>1. \A d \in p..Len(s) : s[d] # LF
    BY <1>1, <1>4
  <2>2. Unended(s, p)
    BY <2>1 DEF Unended
  <2>3. Ended(s, p, Incomplete)
    BY <2>2, EndedNot
  <2> QED BY <1>4, <2>3 DEF q
<1>5. CASE q = Bad
  <2>1. Ended(s, p, Bad)
    BY EndedNot
  <2> QED BY <1>5, <2>1 DEF q
<1>6. CASE q = p + 1 /\ s[p] = LF
  <2>1. EmptyAt(s, p) /\ p = q - 1 /\ q \in (p + 1)..(Len(s) + 1) /\ p..(q - 2) = {}
    BY <1>2, <1>6 DEF EmptyAt
  <2>2. q # Incomplete
    BY <1>2, <1>6 DEF Incomplete
  <2>3. Ended(s, p, q)
    BY <2>1, <2>2 DEF Ended
  <2> QED BY <2>3 DEF q
<1>7. CASE q = p + 2 /\ p + 1 <= Len(s) /\ s[p] = CR /\ s[p + 1] = LF
  <2> DEFINE e == p + 1
  <2>1. e \in Nat /\ e > 1 /\ e - 1 = p /\ e - 2 = p - 1 /\ e = q - 1 /\ q \in (p + 1)..(Len(s) + 1)
        /\ \A d \in p..(q - 2) : d = p
    BY <1>2, <1>7
  <2>2. s[e] = LF /\ s[p] = CR
    BY <1>7
  <2> HIDE DEF e
  <2>3. EmptyAt(s, e)
    BY <2>1, <2>2 DEF EmptyAt
  <2>4. ~EmptyAt(s, p)
    BY <1>1, <2>2 DEF EmptyAt
  <2>5. q # Incomplete
    BY <1>2, <1>7 DEF Incomplete
  <2>6. Ended(s, p, q)
    BY <2>1, <2>3, <2>4, <2>5 DEF Ended
  <2> QED BY <2>6 DEF q
<1> QED BY <1>2, <1>3, <1>4, <1>5, <1>6, <1>7

\* Headers in front of which MaxHeaders - n others are.
Cleaned(lines, n) ==
    \A i \in 1..Len(lines) : Clean(lines[i]) /\ (lines[i][1] = <<>> => i > 1 \/ n < MaxHeaders)

LEMMA CleanedNone == ASSUME NEW n PROVE Cleaned(<<>>, n)
BY DEF Cleaned

LEMMA CleanedOne ==
    ASSUME NEW A, NEW lines \in Seq(Seq(A) \X Seq(A)), NEW l \in Seq(A) \X Seq(A), NEW n \in 0..MaxHeaders,
           Cleaned(lines, n - 1), Clean(l), l[1] = <<>> => MaxHeaders - n > 0
    PROVE  <<l>> \o lines \in Seq(Seq(A) \X Seq(A)) /\ Cleaned(<<l>> \o lines, n)
<1> USE HeaderLimit
<1> DEFINE B == Seq(A) \X Seq(A)
           one == <<l>>
           all == one \o lines
<1>1. one \in Seq(B) /\ Len(one) = 1 /\ one[1] = l
  OBVIOUS
<1> HIDE DEF B, one
<1>2. lines \in Seq(B) /\ Len(lines) \in Nat
  BY DEF B
<1>3. /\ all \in Seq(B) /\ Len(all) = Len(one) + Len(lines)
      /\ \A i \in 1..(Len(one) + Len(lines)) :
            all[i] = IF i <= Len(one) THEN one[i] ELSE lines[i - Len(one)]
  BY <1>1, <1>2, ConcatProperties
<1>4. Len(all) = 1 + Len(lines) /\ \A i \in 1..Len(all) : all[i] = IF i <= 1 THEN one[i] ELSE lines[i - 1]
  BY <1>1, <1>3
<1> HIDE DEF all
<1>5. ASSUME NEW i \in 1..Len(all) PROVE Clean(all[i]) /\ (all[i][1] = <<>> => i > 1 \/ n < MaxHeaders)
  <2>1. CASE i = 1
    <3>1. all[i] = l
      BY <1>1, <1>4, <2>1
    <3>2. MaxHeaders - n > 0 => n < MaxHeaders
      OBVIOUS
    <3> QED BY <3>1, <3>2
  <2>2. CASE i # 1
    <3>1. i > 1 /\ i - 1 \in 1..Len(lines) /\ all[i] = lines[i - 1]
      BY <1>2, <1>4, <2>2
    <3>2. Clean(lines[i - 1])
      BY <3>1 DEF Cleaned
    <3> QED BY <3>1, <3>2
  <2> QED BY <2>1, <2>2
<1>6. Cleaned(all, n)
  BY <1>5 DEF Cleaned
<1> QED BY <1>3, <1>6 DEF B, all, one

\* What reading headers from p on yields, with n more to come.
HeadRead(s, p, n, r) ==
    Ended(s, p, r.ret) /\ (r.ret \notin {Incomplete, Bad} => Cleaned(r.lines, n))

\* A header, or the end of the headers, in front of headers that are as they
\* should be.
LEMMA HeadedIs ==
    ASSUME NEW A, NEW s \in Seq(A), NEW from \in 2..(Len(s) + 1), NEW n \in 0..MaxHeaders,
           NEW w, Parsing(A, s, from, w), NEW p \in from..(Len(s) + 1), s[p - 1] = LF,
           n > 0 => \A q \in from..(Len(s) + 1) : s[q - 1] = LF => HeadRead(s, q, n - 1, w[q])
    PROVE  HeadRead(s, p, n, Headed(s, p, n, w))
<1> USE HeaderLimit
<1> DEFINE r == Headed(s, p, n, w)
<1>1. Incomplete \in Int /\ Bad \in Int
  BY DEF Incomplete, Bad
<1>2. /\ p <= Len(s) => p \in 1..Len(s) /\ p \in Nat \ {0} /\ p \in 2..Len(s)
      /\ p \in Nat \ {0} /\ Len(s) \in Nat /\ from \in 1..(Len(s) + 1)
  OBVIOUS
<1>3. ASSUME NEW ret \in Int, r = Failure(ret), Ended(s, p, ret) PROVE HeadRead(s, p, n, r)
  <2>1. Failure(ret).ret = ret /\ Failure(ret).lines = <<>>
    BY FailureIs
  <2> HIDE DEF r
  <2> QED BY <1>3, <2>1, CleanedNone DEF HeadRead
<1>4. CASE p > Len(s)
  <2>1. r = Failure(Incomplete)
    BY <1>4 DEF Headed
  <2>2. Unended(s, p)
    BY <1>2, <1>4 DEF Unended
  <2>3. Ended(s, p, Incomplete)
    BY <2>2, EndedNot
  <2>4. HeadRead(s, p, n, r)
    <3> HIDE DEF r
    <3> QED BY <1>1, <1>3, <2>1, <2>3
  <2> QED BY <2>4
<1>5. CASE p <= Len(s) /\ s[p] \in {CR, LF}
  <2> DEFINE q == EndLine(s, p)
  <2>1. r = Failure(q)
    BY <1>2, <1>5 DEF Headed
  <2>2. q \in Int
    BY <1>2, EndLineIs
  <2>3. Ended(s, p, q)
    BY <1>2, <1>5, EmptyLineIs
  <2>4. HeadRead(s, p, n, r)
    <3> HIDE DEF r, q
    <3> QED BY <1>3, <2>1, <2>2, <2>3
  <2> QED BY <2>4
<1>6. CASE p <= Len(s) /\ s[p] \notin {CR, LF} /\ n = 0
  <2>1. r = Failure(Bad)
    BY <1>2, <1>6 DEF Headed
  <2>2. Ended(s, p, Bad)
    BY EndedNot
  <2>3. HeadRead(s, p, n, r)
    <3> HIDE DEF r
    <3> QED BY <1>1, <1>3, <2>1, <2>2
  <2> QED BY <2>3
<1>7. CASE p <= Len(s) /\ s[p] \notin {CR, LF} /\ n # 0
  <2> DEFINE k == MaxHeaders - n
             line == HeaderLine(s, p, k)
             q == line.ret
             rest == w[q]
             h == line.lines \o rest.lines
             m == n - 1
  <2>1. r = IF q < 0 THEN line ELSE [rest EXCEPT !.lines = h]
    BY <1>2, <1>7 DEF Headed
  <2>2. k \in Nat /\ k = MaxHeaders - n
    OBVIOUS
  <2>3. /\ OneHeader(A, s, p, line)
        /\ q \notin {Incomplete, Bad} => (line.lines[1][1] = <<>> => k > 0)
    <3> HIDE DEF k
    <3> QED BY <1>2, <1>7, <2>2, HeaderLineIs
  <2> HIDE DEF line, r
  <2>4. /\ line \in Results(A)
        /\ q = Incomplete => Unended(s, p)
        /\ q \notin {Incomplete, Bad} =>
            /\ OneLine(s, p, q) /\ q \in (p + 1)..(Len(s) + 1)
            /\ \E l \in Seq(A) \X Seq(A) : line.lines = <<l>> /\ Clean(l)
    BY <2>3 DEF OneHeader
  <2>5. q \in Int
    BY <2>4 DEF Results
  <2> HIDE DEF q
  <2>6. CASE q \in {Incomplete, Bad}
    <3>1. q < 0
      BY <2>6 DEF Incomplete, Bad
    <3>2. r = line
      BY <2>1, <3>1
    <3>3. Ended(s, p, q)
      BY <2>4, <2>6, EndedNot
    <3>4. Ended(s, p, line.ret) /\ line.ret \in {Incomplete, Bad}
      BY <2>6, <3>3 DEF q
    <3>5. HeadRead(s, p, n, r)
      BY <3>2, <3>4 DEF HeadRead
    <3> QED BY <3>5 DEF r
  <2>7. CASE q \notin {Incomplete, Bad}
    <3>1. q \in (p + 1)..(Len(s) + 1) /\ OneLine(s, p, q) /\ s[q - 1] = LF
      BY <2>4, <2>7 DEF OneLine
    <3>2. q \in from..(Len(s) + 1) /\ ~(q < 0)
      BY <1>2, <3>1
    <3>3. rest \in Results(A)
      BY <3>2 DEF Parsing
    <3>4. HeadRead(s, q, m, rest)
      BY <1>7, <3>1, <3>2
    <3> HIDE DEF rest, m
    <3>5. PICK l \in Seq(A) \X Seq(A) : line.lines = <<l>> /\ Clean(l)
      BY <2>4, <2>7
    <3>6. rest.lines \in Seq(Seq(A) \X Seq(A))
      BY <3>3 DEF Results
    <3> DEFINE lines == rest.lines
    <3> HIDE DEF lines
    <3>7. l[1] = <<>> => MaxHeaders - n > 0
      BY <2>2, <2>3, <2>7, <3>5
    <3>8. /\ <<l>> \o lines \in Seq(Seq(A) \X Seq(A))
          /\ rest.ret \notin {Incomplete, Bad} => Cleaned(<<l>> \o lines, n)
      <4>1. lines \in Seq(Seq(A) \X Seq(A))
        BY <3>6 DEF lines
      <4>2. ASSUME rest.ret \notin {Incomplete, Bad}
            PROVE  Cleaned(<<l>> \o lines, n)
        <5>1. Cleaned(lines, n - 1)
          BY <3>4, <4>2 DEF HeadRead, lines, m
        <5> QED BY <3>5, <3>7, <4>1, <5>1, CleanedOne
      <4>3. <<l>> \in Seq(Seq(A) \X Seq(A))
        OBVIOUS
      <4>4. <<l>> \o lines \in Seq(Seq(A) \X Seq(A))
        BY <4>1, <4>3, ConcatProperties
      <4> QED BY <4>2, <4>4
    <3>9. h = <<l>> \o lines
      BY <3>5 DEF lines
    <3> HIDE DEF h
    <3>10. [rest EXCEPT !.lines = h].ret = rest.ret /\ [rest EXCEPT !.lines = h].lines = h
      <4>1. h \in Lines(A)
        BY <3>8, <3>9 DEF Lines
      <4> QED BY ONLY <3>3, <4>1, WithLines
    <3>11. Ended(s, p, rest.ret)
      <4>1. Ended(s, q, rest.ret)
        BY <3>4 DEF HeadRead
      <4> QED BY <1>2, <3>1, <4>1, EndedOn
    <3>12. r = [rest EXCEPT !.lines = h]
      BY <2>1, <3>2
    <3>13. HeadRead(s, p, n, r)
      BY <3>8, <3>9, <3>10, <3>11, <3>12 DEF HeadRead
    <3> QED BY <3>13 DEF r
  <2> QED BY <2>6, <2>7
<1> QED BY <1>2, <1>4, <1>5, <1>6, <1>7

\* parse_headers from the beginning of a line.
LEMMA HeadersAre ==
    ASSUME NEW A, NEW s \in Seq(A), NEW from, from \in 2..(Len(s) + 1), s[from - 1] = LF
    PROVE  /\ ParseHeaders(s, from) \in Results(A) /\ HeadRead(s, from, MaxHeaders, ParseHeaders(s, from))
<1> USE HeaderLimit
<1> DEFINE N == MaxHeaders
           D == from..(Len(s) + 1)
<1>1. from \in 1..(Len(s) + 1) /\ Len(s) \in Nat /\ N \in Nat /\ N \in 0..N /\ from \in D
  OBVIOUS
<1> DEFINE Known(f) ==
            /\ ParseHeaders(s, from) = f[N][from]
            /\ \A n \in 0..N : Parsing(A, s, from, f[n])
            /\ \A n \in 0..N, p \in D : f[n][p] = Headed(s, p, n, f[n - 1])
<1>2. PICK f : Known(f)
  <2>1. s \in Seq(A)
    OBVIOUS
  <2>2. PICK f : ParsedBy(A, s, from, f)
    BY ONLY <1>1, <2>1, HeadersParsed
  <2>3. Known(f)
    BY <2>2 DEF ParsedBy
  <2> QED BY <2>3
<1> DEFINE Fine(n) == \A q \in D : s[q - 1] = LF => HeadRead(s, q, n, f[n][q])
           S == {n \in 0..N : Fine(n)}
<1>3. ASSUME NEW n \in 0..N, NEW w, Parsing(A, s, from, w), n > 0 => w = f[n - 1] /\ n - 1 \in S,
             \A p \in D : f[n][p] = Headed(s, p, n, w)
      PROVE  n \in S
  <2>1. ASSUME NEW q \in D, s[q - 1] = LF
        PROVE  HeadRead(s, q, n, f[n][q])
    <3>1. n > 0 => \A c \in from..(Len(s) + 1) : s[c - 1] = LF => HeadRead(s, c, n - 1, w[c])
      BY <1>3
    <3>2. HeadRead(s, q, n, Headed(s, q, n, w))
      BY <1>3, <2>1, <3>1, HeadedIs
    <3> QED BY <1>3, <3>2
  <2> QED BY <2>1
<1>4. 0 \in S
  <2> DEFINE z == 0
             w == f[z]
  <2>1. z \in 0..N /\ ~(z > 0)
    OBVIOUS
  <2>2. Parsing(A, s, from, w)
    BY <1>2, <2>1
  <2>3. \A p \in D : f[z][p] = Headed(s, p, z, w)
    BY <1>2, HeadedLast
  <2> HIDE DEF z, w, S, D
  <2> HIDE DEF N
  <2>4. z \in S
    BY <1>3, <2>1, <2>2, <2>3
  <2> QED BY <2>4 DEF z
<1>5. ASSUME NEW n \in 1..N, n - 1 \in S PROVE n \in S
  <2>1. n \in 0..N /\ n - 1 \in 0..N
    OBVIOUS
  <2> DEFINE w == f[n - 1]
  <2>2. Parsing(A, s, from, w) /\ \A p \in D : f[n][p] = Headed(s, p, n, w)
    BY <1>2, <2>1
  <2> HIDE DEF S, D, N
  <2> QED BY <1>3, <1>5, <2>1, <2>2
<1>6. \A n \in 0..N : n \in S
  <2> HIDE DEF S, N
  <2> QED BY <1>1, <1>4, <1>5, UpTo
<1>7. Fine(N)
  BY <1>1, <1>6
<1>8. HeadRead(s, from, N, f[N][from])
  BY <1>1, <1>7
<1>9. f[N][from] \in Results(A)
  BY <1>1, <1>2 DEF Parsing
<1> QED BY <1>2, <1>8, <1>9

\* What was read stays when more arrives, if what is behind it stays.
LEMMA HeadedStays ==
    ASSUME NEW A, NEW s, NEW t, Extends(A, s, t), NEW from \in 1..(Len(s) + 1), NEW n \in 0..MaxHeaders,
           NEW w, NEW v, NEW p \in from..(Len(s) + 1),
           n > 0 => \A q \in from..(Len(s) + 1) : w[q].ret # Incomplete => v[q] = w[q],
           Parsing(A, s, from, w), Headed(s, p, n, w).ret # Incomplete
    PROVE  Headed(t, p, n, v) = Headed(s, p, n, w)
<1> USE HeaderLimit
<1>1. /\ s \in Seq(A) /\ t \in Seq(A) /\ Len(s) \in Nat /\ Len(t) \in Nat /\ Len(s) <= Len(t)
      /\ \A i \in 1..Len(s) : t[i] = s[i]
  BY DEF Extends
<1>2. p <= Len(s)
  <2>1. ASSUME p > Len(s) PROVE FALSE
    <3>1. Headed(s, p, n, w) = Failure(Incomplete)
      BY <2>1 DEF Headed
    <3> QED BY <3>1 DEF Failure
  <2> QED BY <1>1, <2>1
<1>3. ~(p > Len(s)) /\ ~(p > Len(t)) /\ p \in 1..Len(s) /\ p \in Nat \ {0} /\ t[p] = s[p]
  BY <1>1, <1>2
<1>4. CASE s[p] \in {CR, LF}
  <2>1. Headed(s, p, n, w) = Failure(EndLine(s, p)) /\ Headed(t, p, n, v) = Failure(EndLine(t, p))
    BY <1>3, <1>4 DEF Headed
  <2>2. EndLine(s, p) # Incomplete
    BY <2>1 DEF Failure
  <2>3. EndLine(t, p) = EndLine(s, p)
    BY <1>3, <2>2, EndLineStays
  <2> QED BY <2>1, <2>3
<1>5. CASE ~(s[p] \in {CR, LF}) /\ n = 0
  BY <1>3, <1>5 DEF Headed
<1>6. CASE ~(s[p] \in {CR, LF}) /\ ~(n = 0)
  <2> DEFINE k == MaxHeaders - n
             line == HeaderLine(s, p, k)
             line2 == HeaderLine(t, p, k)
             q == line.ret
             rest == w[q]
             h == line.lines \o rest.lines
             all == [rest EXCEPT !.lines = h]
  <2>1. Headed(s, p, n, w) = IF q < 0 THEN line ELSE all
    BY <1>3, <1>6 DEF Headed
  <2>2. Headed(t, p, n, v) = IF line2.ret < 0 THEN line2
                             ELSE [v[line2.ret] EXCEPT !.lines = line2.lines \o v[line2.ret].lines]
    BY <1>3, <1>6 DEF Headed
  <2>3. k \in Nat
    OBVIOUS
  <2>4. OneHeader(A, s, p, line)
    <3> HIDE DEF k
    <3> QED BY <1>1, <1>3, <1>6, <2>3, HeaderLineIs
  <2>5. q # Incomplete => line2 = line
    <3> HIDE DEF k
    <3> QED BY <1>3, <2>3, HeaderLineStays
  <2> HIDE DEF line, line2
  <2>6. /\ line \in Results(A)
        /\ q \notin {Incomplete, Bad} => q \in (p + 1)..(Len(s) + 1)
    BY <2>4 DEF OneHeader
  <2>7. q # Incomplete
    <3>1. ASSUME q = Incomplete PROVE FALSE
      <4>1. q < 0
        BY <3>1 DEF Incomplete
      <4>2. Headed(s, p, n, w) = line
        BY <2>1, <4>1
      <4> QED BY <3>1, <4>2
    <3> QED BY <3>1
  <2>8. line2 = line
    BY <2>5, <2>7
  <2>9. CASE q < 0
    BY <2>1, <2>2, <2>8, <2>9
  <2>10. CASE ~(q < 0)
    <3>1. q \in from..(Len(s) + 1)
      BY <2>6, <2>10 DEF Incomplete, Bad
    <3>2. Headed(s, p, n, w) = all
      BY <2>1, <2>10
    <3>3. rest \in Results(A)
      BY <3>1 DEF Parsing
    <3>4. line.lines \in Seq(Seq(A) \X Seq(A)) /\ rest.lines \in Seq(Seq(A) \X Seq(A))
      BY <2>6, <3>3 DEF Results
    <3>5. h \in Seq(Seq(A) \X Seq(A))
      BY <3>4, ConcatProperties
    <3>6. all.ret = rest.ret
      <4> HIDE DEF h, rest
      <4>1. h \in Lines(A)
        BY <3>5 DEF Lines
      <4> QED BY ONLY <3>3, <4>1, WithLines
    <3>7. rest.ret # Incomplete
      BY <3>2, <3>6
    <3>8. v[q] = rest
      BY <1>1, <1>3, <1>6, <3>1, <3>7
    <3>9. Headed(t, p, n, v) = [v[q] EXCEPT !.lines = line.lines \o v[q].lines]
      BY <2>2, <2>8, <2>10
    <3> QED BY <3>2, <3>8, <3>9
  <2> QED BY <2>9, <2>10
<1> QED BY <1>4, <1>5, <1>6

LEMMA HeadersStay ==
    ASSUME NEW A, NEW s, NEW t, Extends(A, s, t), NEW from, from \in 1..(Len(s) + 1),
           ParseHeaders(s, from).ret # Incomplete
    PROVE  ParseHeaders(t, from) = ParseHeaders(s, from)
<1> USE HeaderLimit
<1> DEFINE N == MaxHeaders
           D == from..(Len(s) + 1)
<1>1. /\ s \in Seq(A) /\ t \in Seq(A) /\ Len(s) \in Nat /\ Len(t) \in Nat /\ Len(s) <= Len(t)
      /\ N \in Nat /\ N \in 0..N /\ from \in D
  BY DEF Extends
<1>2. from \in 1..(Len(t) + 1) /\ \A p \in D : p \in from..(Len(t) + 1)
  BY <1>1
<1>3. PICK f :
            /\ ParseHeaders(s, from) = f[N][from]
            /\ \A n \in 0..N : Parsing(A, s, from, f[n])
            /\ \A n \in 0..N, p \in D : f[n][p] = Headed(s, p, n, f[n - 1])
  <2>1. s \in Seq(A) /\ from \in 1..(Len(s) + 1)
    BY <1>1
  <2>2. PICK f : ParsedBy(A, s, from, f)
    BY ONLY <2>1, HeadersParsed
  <2> QED BY <2>2 DEF ParsedBy
<1>4. PICK g :
            /\ ParseHeaders(t, from) = g[N][from]
            /\ \A n \in 0..N, p \in from..(Len(t) + 1) : g[n][p] = Headed(t, p, n, g[n - 1])
  <2>1. t \in Seq(A) /\ from \in 1..(Len(t) + 1)
    BY <1>1, <1>2
  <2>2. PICK g : ParsedBy(A, t, from, g)
    BY ONLY <2>1, HeadersParsed
  <2> QED BY <2>2 DEF ParsedBy
<1> DEFINE Stays(n) == \A q \in D : f[n][q].ret # Incomplete => g[n][q] = f[n][q]
           S == {n \in 0..N : Stays(n)}
<1>5. ASSUME NEW n \in 0..N, NEW w, NEW v, Parsing(A, s, from, w),
             n > 0 => \A q \in D : w[q].ret # Incomplete => v[q] = w[q],
             \A p \in D : f[n][p] = Headed(s, p, n, w) /\ g[n][p] = Headed(t, p, n, v)
      PROVE  n \in S
  <2>1. ASSUME NEW q \in D, f[n][q].ret # Incomplete
        PROVE  g[n][q] = f[n][q]
    <3>1. Headed(s, q, n, w).ret # Incomplete
      BY <1>5, <2>1
    <3>2. Headed(t, q, n, v) = Headed(s, q, n, w)
      BY <1>5, <3>1, HeadedStays
    <3> QED BY <1>5, <3>2
  <2> QED BY <2>1
<1>6. 0 \in S
  <2> DEFINE z == 0
             w == f[z]
             v == g[z]
  <2>1. z \in 0..N /\ ~(z > 0)
    OBVIOUS
  <2>2. Parsing(A, s, from, w)
    BY <1>3, <2>1
  <2>3. \A p \in D : f[z][p] = Headed(s, p, z, w) /\ g[z][p] = Headed(t, p, z, v)
    BY <1>2, <1>3, <1>4, HeadedLast
  <2> HIDE DEF z, w, v, S, D
  <2> HIDE DEF N
  <2>4. z \in S
    BY <1>5, <2>1, <2>2, <2>3
  <2> QED BY <2>4 DEF z
<1>7. ASSUME NEW n \in 1..N, n - 1 \in S PROVE n \in S
  <2>1. n \in 0..N /\ n - 1 \in 0..N
    OBVIOUS
  <2> DEFINE w == f[n - 1]
             v == g[n - 1]
  <2>2. Parsing(A, s, from, w)
    BY <1>3, <2>1
  <2>3. \A q \in D : w[q].ret # Incomplete => v[q] = w[q]
    BY <1>7
  <2>4. \A p \in D : f[n][p] = Headed(s, p, n, w) /\ g[n][p] = Headed(t, p, n, v)
    BY <1>2, <1>3, <1>4, <2>1
  <2> HIDE DEF S, D, N, w, v
  <2> QED BY <1>5, <2>1, <2>2, <2>3, <2>4
<1>8. \A n \in 0..N : n \in S
  <2> HIDE DEF S, N
  <2> QED BY <1>1, <1>6, <1>7, UpTo
<1>9. f[N][from].ret # Incomplete => g[N][from] = f[N][from]
  BY <1>1, <1>8
<1> QED BY <1>3, <1>4, <1>9

-----------------------------------------------------------------------------
(* First lines                                                             *)

LEMMA WithVersion ==
    ASSUME NEW A, NEW r \in Results(A), NEW v \in A
    PROVE  /\ [r EXCEPT !.version = v] \in Results(A) /\ [r EXCEPT !.version = v].ret = r.ret
           /\ [r EXCEPT !.version = v].lines = r.lines
BY DEF Results

\* A first line that has begun, and the headers behind it.
LEMMA BehindLineIs ==
    ASSUME NEW A, NEW s \in Seq(A), NEW start \in Nat \ {0}, NEW end \in Nat, start < end,
           end <= Len(s) + 1, \A d \in start..(end - 1) : s[d] # CR /\ s[d] # LF, NEW v \in A
    PROVE  /\ Headers(s, v, EndLine(s, end)) \in Results(A)
           /\ HeadRead(s, start, MaxHeaders, Headers(s, v, EndLine(s, end)))
<1> DEFINE q == EndLine(s, end)
           r == Headers(s, v, q)
           n == MaxHeaders
<1>1. end \in Nat \ {0} /\ Len(s) \in Nat
  OBVIOUS
<1>2. q \in Int
  BY <1>1, EndLineIs
<1>3. q = Incomplete => Unended(s, start)
  <2>1. \A d \in start..(end - 1) : d <= Len(s) => s[d] # LF
    OBVIOUS
  <2> QED BY <1>1, <2>1, LineUnended
<1>4. q # Incomplete /\ q # Bad => OneLine(s, start, q) /\ q \in (start + 1)..(Len(s) + 1)
  BY LineIsOne
<1> HIDE DEF q
<1>5. CASE q \in {Incomplete, Bad}
  <2>1. q < 0
    BY <1>5 DEF Incomplete, Bad
  <2>2. r = Failure(q)
    BY <2>1 DEF Headers
  <2>3. Failure(q) \in Results(A) /\ Failure(q).ret = q
    BY <1>2, FailureIs
  <2>4. Ended(s, start, q)
    BY <1>3, <1>5, EndedNot
  <2> HIDE DEF r
  <2>5. r \in Results(A) /\ HeadRead(s, start, n, r)
    BY <1>5, <2>2, <2>3, <2>4 DEF HeadRead
  <2> QED BY <2>5 DEF r, q
<1>6. CASE q \notin {Incomplete, Bad}
  <2> DEFINE h == ParseHeaders(s, q)
  <2>1. OneLine(s, start, q) /\ q \in (start + 1)..(Len(s) + 1)
    BY <1>4, <1>6
  <2>2. s[q - 1] = LF /\ q \in 2..(Len(s) + 1) /\ ~(q < 0)
    BY <2>1 DEF OneLine
  <2>3. h \in Results(A) /\ HeadRead(s, q, n, h)
    BY <2>2, HeadersAre
  <2>4. r = [h EXCEPT !.version = v]
    BY <2>2 DEF Headers
  <2> HIDE DEF h, r
  <2>5. r \in Results(A) /\ r.ret = h.ret /\ r.lines = h.lines
    BY <2>3, <2>4, WithVersion
  <2>6. Ended(s, q, h.ret)
    BY <2>3 DEF HeadRead
  <2> DEFINE ret == h.ret
  <2> HIDE DEF ret
  <2>7. Ended(s, start, ret)
    <3>1. Ended(s, q, ret)
      BY <2>6 DEF ret
    <3> QED BY <2>1, <3>1, EndedOn
  <2>8. HeadRead(s, start, n, r)
    BY <2>3, <2>5, <2>7 DEF HeadRead, ret
  <2> QED BY <2>5, <2>8 DEF r, q
<1> QED BY <1>5, <1>6

LEMMA BehindLineStays ==
    ASSUME NEW A, NEW s, NEW t, Extends(A, s, t), NEW end, end \in Nat \ {0}, NEW v, v \in A,
           Headers(s, v, EndLine(s, end)).ret # Incomplete
    PROVE  Headers(t, v, EndLine(t, end)) = Headers(s, v, EndLine(s, end))
<1> DEFINE q == EndLine(s, end)
<1>1. s \in Seq(A) /\ Len(s) \in Nat
  BY DEF Extends
<1>2. /\ \/ q = Incomplete \/ q = Bad
         \/ q = end + 1 /\ end <= Len(s) /\ s[end] = LF
         \/ q = end + 2 /\ end + 1 <= Len(s) /\ s[end] = CR /\ s[end + 1] = LF
      /\ q \in Int
  BY <1>1, EndLineIs
<1>3. q # Incomplete
  <2> SUFFICES ASSUME q = Incomplete PROVE FALSE
    OBVIOUS
  <2>1. Headers(s, v, q) = Failure(Incomplete)
    BY DEF Headers, Incomplete
  <2> QED BY <2>1 DEF Failure
<1>4. EndLine(t, end) = q
  BY <1>3, EndLineStays
<1> HIDE DEF q
<1>5. CASE q < 0
  <2>1. Headers(t, v, q) = Headers(s, v, q)
    BY <1>5 DEF Headers
  <2> QED BY <1>4, <2>1 DEF q
<1>6. CASE ~(q < 0)
  <2> DEFINE h == ParseHeaders(s, q)
             k == ParseHeaders(t, q)
  <2>1. q \in 2..(Len(s) + 1) /\ s[q - 1] = LF
    <3>1. CASE q = end + 1 /\ end <= Len(s) /\ s[end] = LF
      BY <1>1, <3>1
    <3>2. CASE q = end + 2 /\ end + 1 <= Len(s) /\ s[end] = CR /\ s[end + 1] = LF
      BY <1>1, <3>2
    <3>3. q # Bad
      BY <1>6 DEF Bad
    <3> QED BY <1>2, <1>3, <3>1, <3>2, <3>3
  <2>2. h \in Results(A)
    BY <1>1, <2>1, HeadersAre
  <2>3. Headers(s, v, q) = [h EXCEPT !.version = v] /\ Headers(t, v, q) = [k EXCEPT !.version = v]
    BY <1>6 DEF Headers
  <2>4. q \in 1..(Len(s) + 1)
    BY <1>1, <2>1
  <2>5. h.ret # Incomplete => k = h
    BY <2>4, HeadersStay
  <2> HIDE DEF h, k
  <2>6. [h EXCEPT !.version = v].ret = h.ret
    BY <2>2, WithVersion
  <2>7. Headers(s, v, q).ret # Incomplete
    BY DEF q
  <2>8. k = h
    BY <2>3, <2>5, <2>6, <2>7
  <2> QED BY <1>4, <2>3, <2>8 DEF q
<1> QED BY <1>2, <1>5, <1>6

\* A token: where it ends, and what it has not.
LEMMA AdvanceTokenIs ==
    ASSUME NEW A, NEW s \in Seq(A), NEW p \in Nat \ {0}, p <= Len(s) + 1
    PROVE  \/ AdvanceToken(s, p) = Incomplete /\ \A d \in p..Len(s) : s[d] # CR /\ s[d] # LF
           \/ AdvanceToken(s, p) = Bad
           \/ /\ AdvanceToken(s, p) \in p..Len(s) /\ s[AdvanceToken(s, p)] = " "
              /\ \A d \in p..(AdvanceToken(s, p) - 1) : s[d] # CR /\ s[d] # LF
<1> DEFINE C == Controls \cup Blanks
           space == " "
           e == FirstIn(s, p, C)
<1>1. CR \in C /\ LF \in C
  BY DEF Controls
<1>2. /\ Found(s, p, e) /\ (e <= Len(s) => s[e] \in C)
      /\ \A i \in p..Len(s) : i < e => s[i] \notin C
  BY FirstInIs
<1>3. AdvanceToken(s, p) = IF e > Len(s) THEN Incomplete ELSE IF s[e] = space THEN e ELSE Bad
  BY DEF AdvanceToken
<1> HIDE DEF e, C, space
<1>4. Len(s) \in Nat /\ e \in Nat \ {0} /\ e <= Len(s) + 1 /\ e >= p
  BY <1>2 DEF Found
<1>5. CASE e > Len(s)
  <2>1. \A d \in p..Len(s) : s[d] # CR /\ s[d] # LF
    BY <1>1, <1>2, <1>4, <1>5
  <2> QED BY <1>3, <1>5, <2>1
<1>6. CASE ~(e > Len(s)) /\ s[e] = space
  <2>1. AdvanceToken(s, p) = e
    BY <1>3, <1>6
  <2>2. e \in p..Len(s) /\ s[e] = space
    BY <1>4, <1>6
  <2>3. ASSUME NEW d \in p..(e - 1) PROVE s[d] # CR /\ s[d] # LF
    <3>1. d \in p..Len(s) /\ d < e
      BY <1>4, <2>2
    <3>2. s[d] \notin C
      BY <1>2, <3>1
    <3> QED BY <1>1, <3>2
  <2> QED BY <2>1, <2>2, <2>3 DEF space
<1>7. CASE ~(e > Len(s)) /\ ~(s[e] = space)
  BY <1>3, <1>7
<1> QED BY <1>5, <1>6, <1>7

LEMMA AdvanceTokenStays ==
    ASSUME NEW A, NEW s, NEW t, Extends(A, s, t), NEW p \in Nat \ {0}, AdvanceToken(s, p) # Incomplete
    PROVE  AdvanceToken(t, p) = AdvanceToken(s, p)
<1> DEFINE C == Controls \cup Blanks
           space == " "
           e == FirstIn(s, p, C)
           f == FirstIn(t, p, C)
<1>1. /\ s \in Seq(A) /\ t \in Seq(A) /\ Len(s) \in Nat /\ Len(t) \in Nat /\ Len(s) <= Len(t)
      /\ \A i \in 1..Len(s) : t[i] = s[i]
  BY DEF Extends
<1>2. AdvanceToken(s, p) = IF e > Len(s) THEN Incomplete ELSE IF s[e] = space THEN e ELSE Bad
  BY DEF AdvanceToken
<1>3. AdvanceToken(t, p) = IF f > Len(t) THEN Incomplete ELSE IF t[f] = space THEN f ELSE Bad
  BY DEF AdvanceToken
<1>4. Found(s, p, e)
  BY <1>1, FirstInIs
<1>5. ~(e > Len(s))
  BY <1>2
<1>6. e \in Nat \ {0}
  BY <1>4 DEF Found
<1>7. e <= Len(s) => f = e
  BY FirstInStays
<1> HIDE DEF e, f, C, space
<1>8. e <= Len(s) /\ e \in 1..Len(s) /\ ~(e > Len(t))
  BY <1>1, <1>5, <1>6
<1>9. f = e /\ t[e] = s[e]
  BY <1>1, <1>7, <1>8
<1> QED BY <1>2, <1>3, <1>5, <1>8, <1>9

\* There is no room for a version behind the end.
LEMMA BytesAtEnd ==
    ASSUME NEW A, NEW s \in Seq(A)
    PROVE  Bytes(From(s, Len(s) + 1)) = 0
<1> DEFINE n == Len(s)
           a == n + 1
           u == From(s, a)
<1>1. n \in Nat /\ a \in Nat \ {0} /\ a <= n + 1 /\ n <= Len(s) /\ n - a + 1 = 0
  OBVIOUS
<1>2. u = SubSeq(s, a, n)
  BY DEF From
<1> HIDE DEF n, a, u
<1>3. u \in Seq(A) /\ Len(u) = n - a + 1
  BY <1>1, <1>2, PartIs
<1>4. Bytes(u) = 0
  BY <1>1, <1>3, BytesIs
<1> QED BY <1>4 DEF u, a, n

LEMMA VersionIs ==
    ASSUME NEW A, NEW s \in Seq(A), NEW p \in 1..(Len(s) + 1)
    PROVE  \/ Version(s, p) = Incomplete /\ Bytes(From(s, p)) < 9
           \/ Version(s, p) = Bad
           \/ Version(s, p) = p + 1 /\ p <= Len(s) /\ s[p] # CR /\ s[p] # LF
<1>1. Version(s, p) = IF Bytes(From(s, p)) < 9 THEN Incomplete ELSE IF s[p] \in Versions THEN p + 1 ELSE Bad
  BY DEF Version
<1>2. CR \notin Versions /\ LF \notin Versions
  BY Characters
<1>3. CASE Bytes(From(s, p)) < 9
  BY <1>1, <1>3
<1>4. CASE ~(Bytes(From(s, p)) < 9)
  <2>1. ASSUME p > Len(s) PROVE FALSE
    <3>1. p = Len(s) + 1
      BY <2>1
    <3>2. Bytes(From(s, p)) = 0
      BY <3>1, BytesAtEnd
    <3> QED BY <1>4, <3>2
  <2>2. p <= Len(s)
    BY <2>1
  <2> QED BY <1>1, <1>2, <1>4, <2>2
<1> QED BY <1>3, <1>4

LEMMA VersionStays ==
    ASSUME NEW A, NEW s, NEW t, Extends(A, s, t), NEW p \in 1..(Len(s) + 1), Version(s, p) # Incomplete
    PROVE  Version(t, p) = Version(s, p)
<1>1. /\ s \in Seq(A) /\ t \in Seq(A) /\ Len(s) \in Nat /\ Len(t) \in Nat /\ Len(s) <= Len(t)
      /\ \A i \in 1..Len(s) : t[i] = s[i]
  BY DEF Extends
<1> DEFINE a == Bytes(From(s, p))
           b == Bytes(From(t, p))
<1>2. a \in Nat /\ b \in Nat /\ a <= b
  BY BytesGrow
<1>3. /\ Version(s, p) = IF a < 9 THEN Incomplete ELSE IF s[p] \in Versions THEN p + 1 ELSE Bad
      /\ Version(t, p) = IF b < 9 THEN Incomplete ELSE IF t[p] \in Versions THEN p + 1 ELSE Bad
  BY DEF Version
<1>4. p > Len(s) => a = 0
  <2>1. p > Len(s) => p = Len(s) + 1
    OBVIOUS
  <2>2. Bytes(From(s, Len(s) + 1)) = 0
    BY <1>1, BytesAtEnd
  <2> QED BY <2>1, <2>2
<1> HIDE DEF a, b
<1>5. ~(a < 9) /\ ~(b < 9)
  BY <1>2, <1>3
<1>6. t[p] = s[p]
  BY <1>1, <1>4, <1>5
<1> QED BY <1>3, <1>5, <1>6

\* What a message that begins at start yields.
Message(A, s, start, r) ==
    /\ r \in Results(A) /\ HeadRead(s, start, MaxHeaders, r)
    /\ r.ret \notin {Incomplete, Bad} => start <= Len(s) /\ s[start] # CR /\ s[start] # LF

LEMMA MessageNot ==
    ASSUME NEW A, NEW s \in Seq(A), NEW start \in Nat \ {0}
    PROVE  /\ Message(A, s, start, Failure(Bad))
           /\ Ended(s, start, Incomplete) => Message(A, s, start, Failure(Incomplete))
<1>1. Bad \in Int /\ Incomplete \in Int
  BY DEF Bad, Incomplete
<1>2. ASSUME NEW ret \in Int, ret \in {Incomplete, Bad}, Ended(s, start, ret)
      PROVE  Message(A, s, start, Failure(ret))
  <2>1. Failure(ret) \in Results(A) /\ Failure(ret).ret = ret
    BY FailureIs
  <2> DEFINE r == Failure(ret)
  <2> HIDE DEF r
  <2>2. HeadRead(s, start, MaxHeaders, r)
    BY <1>2, <2>1 DEF HeadRead, r
  <2>3. Message(A, s, start, r)
    BY <1>2, <2>1, <2>2 DEF Message, r
  <2> QED BY <2>3 DEF r
<1>3. Ended(s, start, Bad)
  BY EndedNot
<1> QED BY <1>1, <1>2, <1>3

\* A message whose version may be at p.
LEMMA AfterVersionIs ==
    ASSUME NEW A, NEW s \in Seq(A), NEW start \in Nat \ {0}, NEW p \in Nat, start < p, p <= Len(s) + 1,
           \A d \in start..(p - 1) : s[d] # CR /\ s[d] # LF
    PROVE  Message(A, s, start, AfterVersion(s, p, Version(s, p)))
<1> DEFINE v == Version(s, p)
           r == AfterVersion(s, p, v)
<1>1. p \in 1..(Len(s) + 1) /\ Len(s) \in Nat
  OBVIOUS
<1>2. \/ v = Incomplete /\ Bytes(From(s, p)) < 9
      \/ v = Bad
      \/ v = p + 1 /\ p <= Len(s) /\ s[p] # CR /\ s[p] # LF
  BY <1>1, VersionIs
<1> HIDE DEF v
<1>3. CASE v = Incomplete /\ Bytes(From(s, p)) < 9
  <2>1. r = Failure(Incomplete)
    BY <1>3 DEF AfterVersion, Incomplete
  <2>2. ASSUME NEW d \in start..Len(s), EmptyAt(s, d) PROVE Bytes(From(s, d)) < 9
    <3>1. s[d] = LF
      BY <2>2 DEF EmptyAt
    <3>2. d \in p..(Len(s) + 1)
      BY <1>1, <3>1
    <3>3. /\ Bytes(From(s, d)) \in Nat /\ Bytes(From(s, p)) \in Nat
          /\ Bytes(From(s, d)) <= Bytes(From(s, p))
      BY <1>1, <3>2, BytesBehind
    <3> QED BY <1>3, <3>3
  <2>3. Ended(s, start, Incomplete)
    BY <2>2 DEF Ended
  <2> HIDE DEF r
  <2>4. Message(A, s, start, r)
    BY <2>1, <2>3, MessageNot
  <2> QED BY <2>4 DEF r, v
<1>4. CASE v = Bad
  <2>1. r = Failure(Bad)
    BY <1>4 DEF AfterVersion, Bad
  <2>2. Message(A, s, start, r)
    BY <2>1, MessageNot
  <2> QED BY <2>2 DEF r, v
<1>5. CASE v = p + 1 /\ p <= Len(s) /\ s[p] # CR /\ s[p] # LF
  <2> DEFINE c == s[p]
             end == p + 1
  <2>1. c \in A /\ ~(v < 0) /\ v = end
    BY <1>1, <1>5
  <2>2. r = Headers(s, c, EndLine(s, end))
    BY <2>1 DEF AfterVersion
  <2>3. end \in Nat /\ start < end /\ end <= Len(s) + 1
    BY <1>1, <1>5
  <2>4. ASSUME NEW d \in start..(end - 1) PROVE s[d] # CR /\ s[d] # LF
    <3>1. d \in start..(p - 1) \/ d = p
      OBVIOUS
    <3> QED BY <1>5, <3>1
  <2> HIDE DEF r, c, end
  <2>5. r \in Results(A) /\ HeadRead(s, start, MaxHeaders, r)
    BY <2>1, <2>2, <2>3, <2>4, BehindLineIs
  <2>6. start <= Len(s) /\ s[start] # CR /\ s[start] # LF
    BY <1>1, <1>5
  <2>7. Message(A, s, start, r)
    BY <2>5, <2>6 DEF Message
  <2> QED BY <2>7 DEF r, v
<1> QED BY <1>2, <1>3, <1>4, <1>5

LEMMA AfterVersionStays ==
    ASSUME NEW A, NEW s, NEW t, Extends(A, s, t), NEW p \in 1..(Len(s) + 1),
           AfterVersion(s, p, Version(s, p)).ret # Incomplete
    PROVE  AfterVersion(t, p, Version(t, p)) = AfterVersion(s, p, Version(s, p))
<1> DEFINE v == Version(s, p)
<1>1. /\ s \in Seq(A) /\ t \in Seq(A) /\ Len(s) \in Nat /\ Len(t) \in Nat /\ Len(s) <= Len(t)
      /\ \A i \in 1..Len(s) : t[i] = s[i]
  BY DEF Extends
<1>2. \/ v = Incomplete
      \/ v = Bad
      \/ v = p + 1 /\ p <= Len(s)
  BY <1>1, VersionIs
<1>3. v # Incomplete => Version(t, p) = v
  BY VersionStays
<1> HIDE DEF v
<1>4. ASSUME v = Incomplete PROVE FALSE
  <2>1. AfterVersion(s, p, v) = Failure(Incomplete)
    BY <1>4 DEF AfterVersion, Incomplete
  <2> QED BY <2>1 DEF Failure, v
<1>5. Version(t, p) = v
  BY <1>3, <1>4
<1>6. CASE v = Bad
  <2>1. v < 0
    BY <1>6 DEF Bad
  <2>2. AfterVersion(t, p, v) = AfterVersion(s, p, v)
    BY <2>1 DEF AfterVersion
  <2> QED BY <1>5, <2>2 DEF v
<1>7. CASE v = p + 1 /\ p <= Len(s)
  <2> DEFINE c == s[p]
  <2>1. c \in A /\ ~(v < 0) /\ t[p] = c /\ v \in Nat \ {0}
    BY <1>1, <1>7
  <2>2. /\ AfterVersion(s, p, v) = Headers(s, c, EndLine(s, v))
        /\ AfterVersion(t, p, v) = Headers(t, c, EndLine(t, v))
    BY <2>1 DEF AfterVersion
  <2> HIDE DEF c
  <2>3. Headers(s, c, EndLine(s, v)).ret # Incomplete
    BY <2>2 DEF v
  <2>4. Headers(t, c, EndLine(t, v)) = Headers(s, c, EndLine(s, v))
    BY <2>1, <2>3, BehindLineStays
  <2> QED BY <1>5, <2>2, <2>4 DEF v
<1> QED BY <1>2, <1>4, <1>6, <1>7

\* A request whose path may be behind space.
LEMMA AfterPathIs ==
    ASSUME NEW A, NEW s \in Seq(A), NEW start \in Nat \ {0}, NEW space \in start..Len(s),
           \A d \in start..space : s[d] # CR /\ s[d] # LF
    PROVE  Message(A, s, start, AfterPath(s, start, space, AdvanceToken(s, space + 1)))
<1> DEFINE q == space + 1
           end == AdvanceToken(s, q)
           r == AfterPath(s, start, space, end)
           blank == " "
<1>1. q \in Nat \ {0} /\ q <= Len(s) + 1 /\ Len(s) \in Nat /\ space = q - 1
  OBVIOUS
<1>2. CR # blank /\ LF # blank
  BY Characters DEF CR, LF
<1> HIDE DEF q, blank
<1>3. \/ end = Incomplete /\ \A d \in q..Len(s) : s[d] # CR /\ s[d] # LF
      \/ end = Bad
      \/ end \in q..Len(s) /\ s[end] = blank /\ \A d \in q..(end - 1) : s[d] # CR /\ s[d] # LF
  BY <1>1, AdvanceTokenIs DEF blank
<1> HIDE DEF end
<1>4. CASE end = Incomplete /\ \A d \in q..Len(s) : s[d] # CR /\ s[d] # LF
  <2>1. r = Failure(Incomplete)
    BY <1>4 DEF AfterPath, Incomplete
  <2>2. ASSUME NEW d \in start..Len(s) PROVE s[d] # LF
    <3>1. d \in start..space \/ d \in q..Len(s)
      BY <1>1
    <3> QED BY <1>4, <3>1
  <2>3. Ended(s, start, Incomplete)
    <3>1. Unended(s, start)
      BY <2>2 DEF Unended
    <3> QED BY <3>1, EndedNot
  <2> HIDE DEF r
  <2>4. Message(A, s, start, r)
    BY <2>1, <2>3, MessageNot
  <2> QED BY <2>4 DEF r, end, q
<1>5. CASE end = Bad
  <2>1. r = Failure(Bad)
    BY <1>5 DEF AfterPath, Bad
  <2>2. Message(A, s, start, r)
    BY <2>1, MessageNot
  <2> QED BY <2>2 DEF r, end, q
<1>6. CASE end \in q..Len(s) /\ s[end] = blank /\ \A d \in q..(end - 1) : s[d] # CR /\ s[d] # LF
  <2> DEFINE p == end + 1
  <2>1. end \in Nat /\ p \in Nat /\ start < p /\ p <= Len(s) + 1 /\ ~(end < 0)
    BY <1>1, <1>6
  <2>2. ASSUME NEW d \in start..(p - 1) PROVE s[d] # CR /\ s[d] # LF
    <3>1. d \in start..space \/ d \in q..(end - 1) \/ d = end
      BY <1>1, <2>1
    <3>2. CASE d \in start..space
      BY <3>2
    <3>3. CASE d \in q..(end - 1)
      BY <1>6, <3>3
    <3>4. CASE d = end
      BY <1>2, <1>6, <3>4
    <3> QED BY <3>1, <3>2, <3>3, <3>4
  <2>3. Message(A, s, start, AfterVersion(s, p, Version(s, p)))
    <3> HIDE DEF p
    <3> QED BY <2>1, <2>2, AfterVersionIs
  <2>4. Message(A, s, start, Failure(Bad))
    BY MessageNot
  <2>5. r = Failure(Bad) \/ r = AfterVersion(s, p, Version(s, p))
    <3>1. CASE space = start \/ end = space + 1
      BY <2>1, <3>1 DEF AfterPath
    <3>2. CASE ~(space = start \/ end = space + 1)
      BY <2>1, <3>2 DEF AfterPath
    <3> QED BY <3>1, <3>2
  <2>6. Message(A, s, start, r)
    BY <2>3, <2>4, <2>5
  <2> QED BY <2>6 DEF r, end, q
<1> QED BY <1>3, <1>4, <1>5, <1>6

LEMMA AfterPathStays ==
    ASSUME NEW A, NEW s, NEW t, Extends(A, s, t), NEW start, NEW space \in 1..Len(s),
           AfterPath(s, start, space, AdvanceToken(s, space + 1)).ret # Incomplete
    PROVE  AfterPath(t, start, space, AdvanceToken(t, space + 1))
            = AfterPath(s, start, space, AdvanceToken(s, space + 1))
<1> DEFINE q == space + 1
           end == AdvanceToken(s, q)
<1>1. s \in Seq(A) /\ Len(s) \in Nat
  BY DEF Extends
<1>2. q \in Nat \ {0} /\ q <= Len(s) + 1
  BY <1>1
<1> HIDE DEF q
<1>3. end = Incomplete \/ end = Bad \/ end \in q..Len(s)
  BY <1>1, <1>2, AdvanceTokenIs
<1>4. end # Incomplete => AdvanceToken(t, q) = end
  BY <1>2, AdvanceTokenStays
<1> HIDE DEF end
<1>5. ASSUME end = Incomplete PROVE FALSE
  <2>1. AfterPath(s, start, space, end) = Failure(Incomplete)
    BY <1>5 DEF AfterPath, Incomplete
  <2> QED BY <2>1 DEF Failure, end, q
<1>6. AdvanceToken(t, q) = end
  BY <1>4, <1>5
<1>7. AfterPath(t, start, space, end) = AfterPath(s, start, space, end)
  <2>1. CASE end < 0
    BY <2>1 DEF AfterPath
  <2>2. CASE ~(end < 0) /\ (space = start \/ end = space + 1)
    BY <2>2 DEF AfterPath
  <2>3. CASE ~(end < 0) /\ ~(space = start \/ end = space + 1)
    <3> DEFINE p == end + 1
    <3>1. end \in q..Len(s)
      BY <1>3, <2>3 DEF Incomplete, Bad
    <3>2. p \in 1..(Len(s) + 1)
      BY <1>1, <1>2, <3>1
    <3>3. /\ AfterPath(s, start, space, end) = AfterVersion(s, p, Version(s, p))
          /\ AfterPath(t, start, space, end) = AfterVersion(t, p, Version(t, p))
      BY <2>3 DEF AfterPath
    <3> HIDE DEF p
    <3>4. AfterVersion(s, p, Version(s, p)).ret # Incomplete
      BY <3>3 DEF end, q
    <3> QED BY <3>2, <3>3, <3>4, AfterVersionStays
  <2> QED BY <2>1, <2>2, <2>3
<1> QED BY <1>6, <1>7 DEF end, q

LEMMA FromMethodIs ==
    ASSUME NEW A, NEW s \in Seq(A), NEW start \in Nat \ {0}, start <= Len(s) + 1
    PROVE  Message(A, s, start, FromMethod(s, start))
<1> DEFINE space == AdvanceToken(s, start)
           r == FromMethod(s, start)
           blank == " "
<1>1. Len(s) \in Nat /\ ~(start < 0)
  OBVIOUS
<1>2. CR # blank /\ LF # blank
  BY DEF CR, LF
<1> HIDE DEF blank
<1>3. \/ space = Incomplete /\ \A d \in start..Len(s) : s[d] # CR /\ s[d] # LF
      \/ space = Bad
      \/ space \in start..Len(s) /\ s[space] = blank /\ \A d \in start..(space - 1) : s[d] # CR /\ s[d] # LF
  BY <1>1, AdvanceTokenIs DEF blank
<1>4. r = AfterMethod(s, start, space)
  BY <1>1 DEF FromMethod
<1> HIDE DEF space, r
<1>5. CASE space = Incomplete /\ \A d \in start..Len(s) : s[d] # CR /\ s[d] # LF
  <2>1. r = Failure(Incomplete)
    BY <1>4, <1>5 DEF AfterMethod, Incomplete
  <2>2. Unended(s, start)
    BY <1>5 DEF Unended
  <2>3. Ended(s, start, Incomplete)
    BY <2>2, EndedNot
  <2>4. Message(A, s, start, r)
    BY <2>1, <2>3, MessageNot
  <2> QED BY <2>4 DEF r
<1>6. CASE space = Bad
  <2>1. r = Failure(Bad)
    BY <1>4, <1>6 DEF AfterMethod, Bad
  <2>2. Message(A, s, start, r)
    BY <2>1, MessageNot
  <2> QED BY <2>2 DEF r
<1>7. CASE space \in start..Len(s) /\ s[space] = blank /\ \A d \in start..(space - 1) : s[d] # CR /\ s[d] # LF
  <2>1. ASSUME NEW d \in start..space PROVE s[d] # CR /\ s[d] # LF
    <3>1. d \in start..(space - 1) \/ d = space
      BY <1>7
    <3> QED BY <1>2, <1>7, <3>1
  <2>2. Message(A, s, start, AfterPath(s, start, space, AdvanceToken(s, space + 1)))
    BY <1>7, <2>1, AfterPathIs
  <2>3. ~(space < 0)
    BY <1>7
  <2>4. r = AfterPath(s, start, space, AdvanceToken(s, space + 1))
    BY <1>4, <2>3 DEF AfterMethod
  <2> QED BY <2>2, <2>4 DEF r
<1> QED BY <1>3, <1>5, <1>6, <1>7

LEMMA FromMethodStays ==
    ASSUME NEW A, NEW s, NEW t, Extends(A, s, t), NEW start \in 1..(Len(s) + 1),
           FromMethod(s, start).ret # Incomplete
    PROVE  FromMethod(t, start) = FromMethod(s, start)
<1> DEFINE space == AdvanceToken(s, start)
<1>1. s \in Seq(A) /\ Len(s) \in Nat
  BY DEF Extends
<1>2. start \in Nat \ {0} /\ start <= Len(s) + 1 /\ ~(start < 0)
  BY <1>1
<1>3. space = Incomplete \/ space = Bad \/ space \in start..Len(s)
  BY <1>1, <1>2, AdvanceTokenIs
<1>4. space # Incomplete => AdvanceToken(t, start) = space
  BY <1>2, AdvanceTokenStays
<1>5. /\ FromMethod(s, start) = AfterMethod(s, start, space)
      /\ FromMethod(t, start) = AfterMethod(t, start, AdvanceToken(t, start))
  BY <1>2 DEF FromMethod
<1> HIDE DEF space
<1>6. ASSUME space = Incomplete PROVE FALSE
  <2>1. AfterMethod(s, start, space) = Failure(Incomplete)
    BY <1>6 DEF AfterMethod, Incomplete
  <2> QED BY <1>5, <2>1 DEF Failure
<1>7. AdvanceToken(t, start) = space
  BY <1>4, <1>6
<1>8. CASE space < 0
  BY <1>5, <1>7, <1>8 DEF AfterMethod
<1>9. CASE ~(space < 0)
  <2>1. space \in 1..Len(s)
    BY <1>1, <1>3, <1>9 DEF Incomplete, Bad
  <2>2. /\ AfterMethod(s, start, space) = AfterPath(s, start, space, AdvanceToken(s, space + 1))
        /\ AfterMethod(t, start, space) = AfterPath(t, start, space, AdvanceToken(t, space + 1))
    BY <1>9 DEF AfterMethod
  <2>3. AfterPath(s, start, space, AdvanceToken(s, space + 1)).ret # Incomplete
    BY <1>5, <2>2
  <2>4. AfterPath(t, start, space, AdvanceToken(t, space + 1))
            = AfterPath(s, start, space, AdvanceToken(s, space + 1))
    BY <2>1, <2>3, AfterPathStays
  <2> QED BY <1>5, <1>7, <2>2, <2>4
<1> QED BY <1>8, <1>9

\* Only line ends are in front of a message.
Begins(A, s, r) ==
    \E start \in 1..(Len(s) + 1) :
        Message(A, s, start, r) /\ \A d \in 1..(start - 1) : s[d] \in {CR, LF}

LEMMA RequestIs ==
    ASSUME NEW A, NEW s \in Seq(A), s # <<>>
    PROVE  Begins(A, s, PhrParseRequest(s))
<1> DEFINE one == 1
           q == EndLine(s, one)
           r == PhrParseRequest(s)
<1>1. one \in Nat \ {0} /\ one \in 1..Len(s) /\ Len(s) \in Nat /\ one \in 1..(Len(s) + 1)
      /\ one <= Len(s) + 1 /\ 1..(one - 1) = {} /\ one = 1
  OBVIOUS
<1>2. r = FromMethod(s, IF s[1] \in {CR, LF} THEN q ELSE one)
  BY DEF PhrParseRequest
<1> HIDE DEF one
<1>3. ASSUME Message(A, s, one, r) PROVE Begins(A, s, r)
  <2> HIDE DEF r
  <2> QED BY <1>1, <1>3 DEF Begins
<1>4. CASE s[1] \notin {CR, LF}
  <2>1. r = FromMethod(s, one)
    BY <1>2, <1>4
  <2>2. Message(A, s, one, FromMethod(s, one))
    BY <1>1, FromMethodIs
  <2>3. Begins(A, s, r)
    <3> HIDE DEF r
    <3> QED BY <1>3, <2>1, <2>2
  <2> QED BY <2>3
<1>5. CASE s[1] \in {CR, LF}
  <2>1. /\ \/ q = Incomplete /\ (one > Len(s) \/ (one = Len(s) /\ s[one] = CR))
           \/ q = Bad
           \/ q = one + 1 /\ one <= Len(s) /\ s[one] = LF
           \/ q = one + 2 /\ one + 1 <= Len(s) /\ s[one] = CR /\ s[one + 1] = LF
        /\ q \in Int
    BY <1>1, EndLineIs
  <2>2. r = FromMethod(s, q)
    BY <1>2, <1>5
  <2> HIDE DEF q, r
  <2>3. CASE q = Incomplete
    <3>1. r = Failure(Incomplete)
      BY <2>2, <2>3 DEF FromMethod, Incomplete
    <3>2. CR # LF
      BY Characters
    <3>3. \A d \in one..Len(s) : s[d] # LF
      <4>1. q # Bad /\ q # one + 1 /\ q # one + 2
        BY <1>1, <2>3 DEF Incomplete, Bad
      <4>2. one = Len(s) /\ s[one] = CR
        <5>1. ~(one > Len(s))
          BY <1>1
        <5> QED BY ONLY <2>1, <4>1, <5>1
      <4>3. \A d \in one..Len(s) : d = one
        BY ONLY <4>2, <1>1
      <4> QED BY ONLY <3>2, <4>2, <4>3
    <3>4. Ended(s, one, Incomplete)
      <4>1. Unended(s, one)
        BY <3>3 DEF Unended
      <4> QED BY <4>1, EndedNot
    <3>5. Message(A, s, one, r)
      BY <1>1, <3>1, <3>4, MessageNot
    <3> QED BY <1>3, <3>5 DEF r
  <2>4. CASE q = Bad
    <3>1. r = Failure(Bad)
      BY <2>2, <2>4 DEF FromMethod, Bad
    <3>2. Message(A, s, one, r)
      BY <1>1, <3>1, MessageNot
    <3> QED BY <1>3, <3>2 DEF r
  <2>5. CASE q \in 1..(Len(s) + 1) /\ \A d \in 1..(q - 1) : s[d] \in {CR, LF}
    <3>1. q \in Nat \ {0} /\ q <= Len(s) + 1
      BY <1>1, <2>5
    <3>2. Message(A, s, q, FromMethod(s, q))
      BY <3>1, FromMethodIs
    <3>3. Begins(A, s, r)
      BY <2>2, <2>5, <3>2 DEF Begins
    <3> QED BY <3>3 DEF r
  <2>6. CASE q = one + 1 /\ one <= Len(s) /\ s[one] = LF
    <3>1. q \in 1..(Len(s) + 1) /\ \A d \in 1..(q - 1) : d = one
      BY <1>1, <2>6
    <3> QED BY <2>5, <2>6, <3>1
  <2>7. CASE q = one + 2 /\ one + 1 <= Len(s) /\ s[one] = CR /\ s[one + 1] = LF
    <3>1. q \in 1..(Len(s) + 1) /\ \A d \in 1..(q - 1) : d = one \/ d = one + 1
      BY <1>1, <2>7
    <3> QED BY <2>5, <2>7, <3>1
  <2> QED BY <2>1, <2>3, <2>4, <2>6, <2>7
<1> QED BY <1>4, <1>5

LEMMA RequestStays ==
    ASSUME NEW A, NEW s, NEW t, Extends(A, s, t), s # <<>>, PhrParseRequest(s).ret # Incomplete
    PROVE  PhrParseRequest(t) = PhrParseRequest(s)
<1> DEFINE one == 1
           q == EndLine(s, one)
<1>1. /\ s \in Seq(A) /\ Len(s) \in Nat /\ one \in Nat \ {0} /\ one \in 1..(Len(s) + 1)
      /\ t[1] = s[1] /\ one = 1 /\ Len(s) # 0
  BY DEF Extends
<1>2. /\ PhrParseRequest(s) = FromMethod(s, IF s[1] \in {CR, LF} THEN q ELSE one)
      /\ PhrParseRequest(t) = FromMethod(t, IF t[1] \in {CR, LF} THEN EndLine(t, one) ELSE one)
  BY DEF PhrParseRequest
<1> HIDE DEF one
<1>3. CASE ~(s[1] \in {CR, LF})
  <2>1. PhrParseRequest(s) = FromMethod(s, one) /\ PhrParseRequest(t) = FromMethod(t, one)
    BY <1>1, <1>2, <1>3
  <2> QED BY <1>1, <2>1, FromMethodStays
<1>4. CASE s[1] \in {CR, LF}
  <2>1. PhrParseRequest(s) = FromMethod(s, q) /\ PhrParseRequest(t) = FromMethod(t, EndLine(t, one))
    BY <1>1, <1>2, <1>4
  <2>2. /\ \/ q = Incomplete \/ q = Bad
           \/ q = one + 1 /\ one <= Len(s)
           \/ q = one + 2 /\ one + 1 <= Len(s)
        /\ q \in Int
    BY <1>1, EndLineIs
  <2>3. q # Incomplete => EndLine(t, one) = q
    BY <1>1, EndLineStays
  <2> HIDE DEF q
  <2>4. ASSUME q = Incomplete PROVE FALSE
    <3>1. FromMethod(s, q) = Failure(Incomplete)
      BY <2>4 DEF FromMethod, Incomplete
    <3> QED BY <2>1, <3>1 DEF Failure
  <2>5. PhrParseRequest(t) = FromMethod(t, q)
    BY <2>1, <2>3, <2>4
  <2>6. CASE q < 0
    BY <2>1, <2>5, <2>6 DEF FromMethod
  <2>7. CASE ~(q < 0)
    <3>1. q \in 1..(Len(s) + 1)
      BY <1>1, <2>2, <2>4, <2>7 DEF Bad
    <3> QED BY <2>1, <2>5, <3>1, FromMethodStays
  <2> QED BY <2>2, <2>6, <2>7
<1> QED BY <1>3, <1>4

\* A version is 8 bytes, a digit is one.
LEMMA WidthsAre ==
    /\ \A c \in Versions : Width(c) = 8
    /\ \A c \in Digits : Width(c) = 1
<1>1. ASSUME NEW c \in Versions PROVE Width(c) = 8
  <2>1. c = "HTTP/1.0" \/ c = "HTTP/1.1"
    BY DEF Versions
  <2> QED BY <2>1 DEF Width, Widths, Versions
<1>2. Digits = {"0", "1", "2", "3", "4", "5", "6", "7", "8", "9"}
  BY DEF Digits, ToSet, DigitChars
<1>3. ASSUME NEW c \in Digits PROVE Width(c) = 1
  <2>1. c \notin {"HTTP/1.0", "HTTP/1.1", "con", "tent-length", "nection", "keep-alive", "close"}
    BY <1>2
  <2> QED BY <2>1 DEF Width, Widths
<1> QED BY <1>1, <1>3

\* The bytes of a character and of what follows it.
LEMMA BytesNext ==
    ASSUME NEW A, NEW s \in Seq(A), NEW p \in 1..Len(s)
    PROVE  Bytes(From(s, p)) = Width(s[p]) + Bytes(From(s, p + 1))
<1> DEFINE n == Len(s)
           q == p + 1
           a == From(s, p)
           b == From(s, q)
           m == n - p
           w == Width(s[p])
<1>1. /\ n \in Nat /\ n <= Len(s) /\ p \in Nat \ {0} /\ q \in Nat \ {0} /\ p <= n + 1 /\ q <= n + 1
      /\ m \in Nat /\ n - p + 1 = m + 1 /\ n - q + 1 = m
  OBVIOUS
<1>2. a = SubSeq(s, p, n) /\ b = SubSeq(s, q, n)
  BY DEF From
<1>3. a \in Seq(A) /\ Len(a) = n - p + 1 /\ \A i \in 1..(n - p + 1) : a[i] = s[p + i - 1]
  <2> HIDE DEF n, a
  <2> QED BY <1>1, <1>2, PartIs
<1>4. b \in Seq(A) /\ Len(b) = n - q + 1 /\ \A i \in 1..(n - q + 1) : b[i] = s[q + i - 1]
  <2> HIDE DEF n, b, q
  <2> QED BY <1>1, <1>2, PartIs
<1> HIDE DEF a, b
<1>5. Len(a) = m + 1 /\ Len(b) = m
  BY <1>1, <1>3, <1>4
<1>6. PICK f : Summed(a, f) /\ Bytes(a) = f[Len(a)]
  BY <1>3, BytesSummed
<1>7. PICK g : Summed(b, g) /\ Bytes(b) = g[Len(b)]
  BY <1>4, BytesSummed
<1>8. /\ f \in [0..(m + 1) -> Nat] /\ f[0] = 0 /\ \A i \in 1..(m + 1) : f[i] = f[i - 1] + Width(a[i])
      /\ g \in [0..m -> Nat] /\ g[0] = 0 /\ \A i \in 1..m : g[i] = g[i - 1] + Width(b[i])
  BY <1>5, <1>6, <1>7 DEF Summed
<1>9. w \in Nat
  BY WidthIs
<1>10. a[1] = s[p] /\ \A i \in 1..m : a[i + 1] = b[i]
  <2>1. 1 \in 1..(n - p + 1) /\ p + 1 - 1 = p
    BY <1>1
  <2>2. ASSUME NEW i \in 1..m PROVE a[i + 1] = b[i]
    <3>1. i + 1 \in 1..(n - p + 1) /\ i \in 1..(n - q + 1) /\ p + (i + 1) - 1 = q + i - 1
      BY <1>1
    <3> QED BY <1>3, <1>4, <3>1
  <2> QED BY <1>3, <2>1, <2>2
<1> DEFINE S == {i \in 0..m : f[i + 1] = w + g[i]}
<1>11. 0 \in S
  <2>1. 1 \in 1..(m + 1) /\ 0 + 1 = 1 /\ 1 - 1 = 0 /\ 0 \in 0..m
    BY <1>1
  <2>2. f[1] = f[0] + w
    BY <1>8, <1>10, <2>1
  <2> HIDE DEF w, m
  <2> QED BY <1>8, <1>9, <2>1, <2>2
<1>12. ASSUME NEW i \in 1..m, i - 1 \in S PROVE i \in S
  <2>1. i + 1 \in 1..(m + 1) /\ (i + 1) - 1 = i /\ i - 1 \in 0..m /\ (i - 1) + 1 = i /\ i \in 0..m
    BY <1>1
  <2>2. f[i + 1] = f[i] + Width(a[i + 1]) /\ g[i] = g[i - 1] + Width(b[i])
    BY <1>8, <2>1
  <2>3. a[i + 1] = b[i] /\ f[i] = w + g[i - 1] /\ g[i - 1] \in Nat
    BY <1>8, <1>10, <1>12, <2>1
  <2>4. Width(b[i]) \in Nat
    BY WidthIs
  <2> HIDE DEF w, m
  <2>5. f[i + 1] = w + g[i]
    BY <1>9, <2>2, <2>3, <2>4
  <2> QED BY <2>1, <2>5
<1>13. \A i \in 0..m : i \in S
  <2> HIDE DEF S, m
  <2> QED BY <1>1, <1>11, <1>12, UpTo
<1>14. f[m + 1] = w + g[m]
  BY <1>1, <1>13
<1>15. Bytes(a) = w + Bytes(b)
  BY <1>5, <1>6, <1>7, <1>14
<1> QED BY <1>15 DEF a, b, w, q

\* There is a character behind a version that is not waited for.
LEMMA RoomBehindVersion ==
    ASSUME NEW A, NEW s \in Seq(A), NEW p \in 1..Len(s), s[p] \in Versions, ~(Bytes(From(s, p)) < 9)
    PROVE  p + 1 <= Len(s)
<1> SUFFICES ASSUME p = Len(s) PROVE FALSE
  OBVIOUS
<1>1. Bytes(From(s, p)) = Width(s[p]) + Bytes(From(s, p + 1))
  BY BytesNext
<1>2. Bytes(From(s, p + 1)) = 0
  BY BytesAtEnd
<1>3. Width(s[p]) = 8
  BY WidthsAre
<1> QED BY <1>1, <1>2, <1>3

LEMMA FewCharacters ==
    ASSUME NEW n \in Nat, NEW i \in Int, 2 <= n, i > n, i <= 5
    PROVE  n = 2 \/ n = 3 \/ n = 4
OBVIOUS

\* What is not a status code is seen not to be one.
LEMMA RoomForDigits ==
    ASSUME NEW A, NEW s \in Seq(A), 2 <= Len(s), ~(Bytes(From(s, 3)) < 4),
           NEW i \in 3..5, i > Len(s)
    PROVE  \E j \in 3..5 : j <= Len(s) /\ s[j] \notin Digits
<1> SUFFICES ASSUME \A j \in 3..5 : j <= Len(s) => s[j] \in Digits PROVE FALSE
  OBVIOUS
<1> DEFINE n == Len(s)
<1>1. n = 2 \/ n = 3 \/ n = 4
  <2>1. n \in Nat /\ 2 <= n /\ i > n /\ i <= 5
    OBVIOUS
  <2> HIDE DEF n
  <2> QED BY <2>1, FewCharacters
<1>2. Bytes(From(s, n + 1)) = 0
  BY BytesAtEnd
<1>3. ASSUME NEW j \in 3..5, j <= n PROVE Bytes(From(s, j)) = 1 + Bytes(From(s, j + 1))
  <2>1. j \in 1..Len(s)
    BY <1>3
  <2>2. Bytes(From(s, j)) = Width(s[j]) + Bytes(From(s, j + 1))
    BY <2>1, BytesNext
  <2>3. s[j] \in Digits
    BY <1>3
  <2>4. Width(s[j]) = 1
    BY <2>3, WidthsAre
  <2> QED BY <2>2, <2>4
<1>4. CASE n = 2
  <2>1. Bytes(From(s, 3)) = 0
    BY <1>2, <1>4
  <2> QED BY <2>1
<1>5. CASE n = 3
  <2>1. Bytes(From(s, 4)) = 0
    BY <1>2, <1>5
  <2>2. Bytes(From(s, 3)) = 1 + Bytes(From(s, 3 + 1))
    BY <1>3, <1>5
  <2> QED BY <2>1, <2>2
<1>6. CASE n = 4
  <2>1. Bytes(From(s, 5)) = 0
    BY <1>2, <1>6
  <2>2. Bytes(From(s, 3)) = 1 + Bytes(From(s, 3 + 1))
    BY <1>3, <1>6
  <2>3. Bytes(From(s, 4)) = 1 + Bytes(From(s, 4 + 1))
    BY <1>3, <1>6
  <2> QED BY <2>1, <2>2, <2>3
<1> QED BY <1>1, <1>4, <1>5, <1>6

\* The message of a status line whose code has been read.
LEMMA AfterStatusIs ==
    ASSUME NEW A, NEW s \in Seq(A), 5 <= Len(s), \A d \in 1..5 : s[d] # CR /\ s[d] # LF
    PROVE  Message(A, s, 1, AfterStatus(s, TokenToEol(s, 6), EndLine(s, TokenToEol(s, 6))))
<1> DEFINE one == 1
           six == 6
           msg == TokenToEol(s, six)
           end == EndLine(s, msg)
           v == s[1]
           r == AfterStatus(s, msg, end)
           C == Controls
<1>1. one \in Nat \ {0} /\ six \in Nat \ {0} /\ Len(s) \in Nat /\ six <= Len(s) + 1 /\ one = 1 /\ six = 6
  OBVIOUS
<1>2. v \in A
  OBVIOUS
<1>3. CR \in C /\ LF \in C
  BY DEF Controls
<1> HIDE DEF C, one, six, v
<1>4. /\ Found(s, six, msg) /\ (msg <= Len(s) => s[msg] \in C)
      /\ \A i \in six..Len(s) : i < msg => s[i] \notin C
  BY <1>1, FirstInIs DEF TokenToEol, C
<1> HIDE DEF msg
<1>5. msg \in Nat /\ msg <= Len(s) + 1 /\ msg >= 6 /\ one < msg
  BY <1>1, <1>4 DEF Found
<1>6. ASSUME NEW d \in one..(msg - 1) PROVE s[d] # CR /\ s[d] # LF
  <2>1. d \in 1..5 \/ (d \in six..Len(s) /\ d < msg)
    BY <1>1, <1>5
  <2> QED BY <1>3, <1>4, <2>1
<1>7. Headers(s, v, end) \in Results(A) /\ HeadRead(s, one, MaxHeaders, Headers(s, v, end))
  BY <1>1, <1>2, <1>5, <1>6, BehindLineIs
<1>8. end = Incomplete => Ended(s, one, Incomplete)
  <2> SUFFICES ASSUME end = Incomplete PROVE Ended(s, one, Incomplete)
    OBVIOUS
  <2>1. \A d \in one..(msg - 1) : d <= Len(s) => s[d] # LF
    BY <1>6
  <2>2. msg \in Nat \ {0}
    BY <1>5
  <2>3. Unended(s, one)
    BY <1>1, <2>1, <2>2, LineUnended
  <2> QED BY <2>3, EndedNot
<1>9. end \in Int /\ (end < 0 => end \in {Incomplete, Bad})
  <2>1. msg \in Nat \ {0}
    BY <1>5
  <2>2. /\ \/ end = Incomplete
           \/ end = Bad
           \/ end = msg + 1
           \/ end = msg + 2
        /\ end \in Int
    BY <2>1, EndLineIs
  <2> HIDE DEF end
  <2> QED BY <1>5, <2>2
<1> HIDE DEF end
<1>10. CASE end < 0
  <2>1. r = Failure(end)
    BY <1>10 DEF AfterStatus
  <2>2. Message(A, s, one, r)
    BY <1>1, <1>8, <1>9, <1>10, <2>1, MessageNot
  <2> QED BY <2>2 DEF r, end, msg, one, six
<1>11. CASE ~(end < 0) /\ (msg > 6 /\ s[6] # " ")
  <2>1. r = Failure(Bad)
    BY <1>11 DEF AfterStatus
  <2>2. Message(A, s, one, r)
    BY <1>1, <2>1, MessageNot
  <2> QED BY <2>2 DEF r, end, msg, one, six
<1>12. CASE ~(end < 0) /\ ~(msg > 6 /\ s[6] # " ")
  <2>1. r = Headers(s, v, end)
    BY <1>12 DEF AfterStatus, v
  <2>2. one <= Len(s) /\ s[one] # CR /\ s[one] # LF
    BY <1>1
  <2> HIDE DEF r
  <2>3. Message(A, s, one, r)
    BY <1>7, <2>1, <2>2 DEF Message
  <2> QED BY <2>3 DEF r, end, msg, one, six
<1> QED BY <1>10, <1>11, <1>12

LEMMA AfterStatusStays ==
    ASSUME NEW A, NEW s, NEW t, Extends(A, s, t), 5 <= Len(s),
           AfterStatus(s, TokenToEol(s, 6), EndLine(s, TokenToEol(s, 6))).ret # Incomplete
    PROVE  AfterStatus(t, TokenToEol(t, 6), EndLine(t, TokenToEol(t, 6)))
            = AfterStatus(s, TokenToEol(s, 6), EndLine(s, TokenToEol(s, 6)))
<1> DEFINE six == 6
           msg == TokenToEol(s, six)
           other == TokenToEol(t, six)
           end == EndLine(s, msg)
           v == s[1]
           C == Controls
           blank == " "
<1>1. /\ s \in Seq(A) /\ t \in Seq(A) /\ Len(s) \in Nat /\ Len(t) \in Nat /\ Len(s) <= Len(t)
      /\ \A i \in 1..Len(s) : t[i] = s[i]
  BY DEF Extends
<1>2. six \in Nat \ {0} /\ six <= Len(s) + 1 /\ v \in A /\ t[1] = v /\ six = 6
  BY <1>1
<1> HIDE DEF C, six, v
<1>3. Found(s, six, msg)
  BY <1>1, <1>2, FirstInIs DEF TokenToEol, C
<1>4. msg <= Len(s) => other = msg
  BY <1>2, FirstInStays DEF TokenToEol, C
<1> HIDE DEF msg, other
<1>5. msg \in Nat \ {0} /\ msg <= Len(s) + 1 /\ msg >= 6
  BY <1>1, <1>2, <1>3 DEF Found
<1>6. /\ \/ end = Incomplete \/ end = Bad
         \/ end = msg + 1 /\ msg <= Len(s)
         \/ end = msg + 2 /\ msg + 1 <= Len(s)
      /\ msg > Len(s) => end = Incomplete
  BY <1>1, <1>5, EndLineIs DEF EndLine
<1>7. end # Incomplete => EndLine(t, msg) = end
  BY <1>5, EndLineStays
<1>8. Headers(s, v, end).ret # Incomplete => Headers(t, v, EndLine(t, msg)) = Headers(s, v, end)
  BY <1>2, <1>5, BehindLineStays
<1> HIDE DEF end, blank
<1>9. end # Incomplete
  <2> SUFFICES ASSUME end = Incomplete PROVE FALSE
    OBVIOUS
  <2>1. AfterStatus(s, msg, end) = Failure(Incomplete)
    <3>1. end < 0
      BY DEF Incomplete
    <3> QED BY <3>1 DEF AfterStatus
  <2> QED BY <2>1 DEF Failure, end, msg, six
<1>10. msg <= Len(s) /\ other = msg /\ EndLine(t, msg) = end
  BY <1>1, <1>4, <1>5, <1>6, <1>7, <1>9
<1>11. msg > 6 => t[6] = s[6]
  BY <1>1, <1>5, <1>10
<1>12. AfterStatus(t, msg, end) = AfterStatus(s, msg, end)
  <2>1. CASE end < 0
    BY <2>1 DEF AfterStatus
  <2>2. CASE ~(end < 0) /\ msg > 6 /\ s[6] # blank
    <3>1. t[6] # blank
      BY <1>11, <2>2
    <3> QED BY <2>2, <3>1 DEF AfterStatus, blank
  <2>3. CASE ~(end < 0) /\ ~(msg > 6 /\ s[6] # blank)
    <3>1. ~(msg > 6 /\ t[6] # blank)
      BY <1>11, <2>3
    <3>2. AfterStatus(s, msg, end) = Headers(s, v, end)
      BY <2>3 DEF AfterStatus, blank, v
    <3>3. AfterStatus(t, msg, end) = Headers(t, v, end)
      BY <1>2, <2>3, <3>1 DEF AfterStatus, blank
    <3>4. Headers(s, v, end).ret # Incomplete
      BY <3>2 DEF end, msg, six
    <3> QED BY <1>8, <1>10, <3>2, <3>3, <3>4
  <2> QED BY <2>1, <2>2, <2>3
<1> QED BY <1>10, <1>12 DEF end, msg, other, six

LEMMA ResponseIs ==
    ASSUME NEW A, NEW s \in Seq(A), s # <<>>
    PROVE  Begins(A, s, PhrParseResponse(s))
<1> DEFINE one == 1
           three == 3
           blank == " "
           v == Version(s, one)
           msg == TokenToEol(s, 6)
           after == AfterStatus(s, msg, EndLine(s, msg))
           short == Bytes(From(s, three)) < 4
           code == \A i \in 3..5 : i <= Len(s) /\ s[i] \in Digits
           r == PhrParseResponse(s)
<1>1. one \in Nat \ {0} /\ one \in 1..Len(s) /\ Len(s) \in Nat /\ one \in 1..(Len(s) + 1) /\ 1..(one - 1) = {} /\ one = 1
  OBVIOUS
<1>2. r = IF v < 0 THEN Failure(v)
          ELSE IF s[2] # blank THEN Failure(Bad)
          ELSE IF short THEN Failure(Incomplete)
          ELSE IF ~code THEN Failure(Bad) ELSE after
  BY DEF PhrParseResponse
<1>3. ASSUME Message(A, s, one, r) PROVE Begins(A, s, r)
  <2> HIDE DEF r
  <2> QED BY <1>1, <1>3 DEF Begins
<1>4. CR # blank /\ LF # blank
  BY DEF CR, LF
<1> HIDE DEF one, r, blank, code, after
<1>5. \/ v = Incomplete /\ Bytes(From(s, one)) < 9
      \/ v = Bad
      \/ v = one + 1 /\ one <= Len(s) /\ s[one] # CR /\ s[one] # LF
  BY <1>1, VersionIs
<1>6. v = one + 1 => s[one] \in Versions /\ ~(Bytes(From(s, one)) < 9)
  BY <1>1 DEF Version, Incomplete, Bad
<1> HIDE DEF v
<1>7. CASE v = Incomplete /\ Bytes(From(s, one)) < 9
  <2>1. v < 0
    BY <1>7 DEF Incomplete
  <2>2. r = Failure(Incomplete)
    BY <1>2, <1>7, <2>1
  <2>3. ASSUME NEW d \in one..Len(s), EmptyAt(s, d) PROVE Bytes(From(s, d)) < 9
    <3>1. d \in one..(Len(s) + 1)
      BY <1>1
    <3>2. /\ Bytes(From(s, d)) \in Nat /\ Bytes(From(s, one)) \in Nat
          /\ Bytes(From(s, d)) <= Bytes(From(s, one))
      BY <1>1, <3>1, BytesBehind
    <3> QED BY <1>7, <3>2
  <2>4. Ended(s, one, Incomplete)
    BY <2>3 DEF Ended
  <2>5. Message(A, s, one, r)
    BY <1>1, <2>2, <2>4, MessageNot
  <2> QED BY <1>3, <2>5 DEF r
<1>8. CASE v = Bad
  <2>1. v < 0
    BY <1>8 DEF Bad
  <2>2. r = Failure(Bad)
    BY <1>2, <1>8, <2>1
  <2>3. Message(A, s, one, r)
    BY <1>1, <2>2, MessageNot
  <2> QED BY <1>3, <2>3 DEF r
<1>9. CASE v = one + 1 /\ one <= Len(s) /\ s[one] # CR /\ s[one] # LF
  <2>1. one + 1 <= Len(s)
    BY <1>1, <1>6, <1>9, RoomBehindVersion
  <2>2. ~(v < 0) /\ 2 <= Len(s)
    BY <1>1, <1>9, <2>1
  <2>3. CASE s[2] # blank
    <3>1. r = Failure(Bad)
      BY <1>2, <2>2, <2>3
    <3>2. Message(A, s, one, r)
      BY <1>1, <3>1, MessageNot
    <3> QED BY <1>3, <3>2 DEF r
  <2>4. CASE ~(s[2] # blank) /\ short
    <3>1. r = Failure(Incomplete)
      BY <1>2, <2>2, <2>4
    <3>2. ASSUME NEW d \in one..Len(s), EmptyAt(s, d) PROVE Bytes(From(s, d)) < 9
      <4>1. s[d] = LF
        BY <3>2 DEF EmptyAt
      <4>2. d # 1 /\ d # 2
        BY <1>1, <1>4, <1>9, <2>4, <4>1
      <4>3. three \in 1..(Len(s) + 1) /\ d \in three..(Len(s) + 1)
        BY <1>1, <2>2, <4>2
      <4> HIDE DEF three
      <4>4. /\ Bytes(From(s, d)) \in Nat /\ Bytes(From(s, three)) \in Nat
            /\ Bytes(From(s, d)) <= Bytes(From(s, three))
        BY <4>3, BytesBehind
      <4>5. Bytes(From(s, three)) < 4
        BY <2>4
      <4> QED BY <4>4, <4>5
    <3>3. Ended(s, one, Incomplete)
      BY <3>2 DEF Ended
    <3>4. Message(A, s, one, r)
      BY <1>1, <3>1, <3>3, MessageNot
    <3> QED BY <1>3, <3>4 DEF r
  <2>5. CASE ~(s[2] # blank) /\ ~short /\ ~code
    <3>1. r = Failure(Bad)
      BY <1>2, <2>2, <2>5
    <3>2. Message(A, s, one, r)
      BY <1>1, <3>1, MessageNot
    <3> QED BY <1>3, <3>2 DEF r
  <2>6. CASE ~(s[2] # blank) /\ ~short /\ code
    <3>1. r = after
      BY <1>2, <2>2, <2>6
    <3>2. \A i \in 3..5 : i <= Len(s) /\ s[i] \in Digits
      BY <2>6 DEF code
    <3>3. 5 <= Len(s)
      BY <3>2
    <3>4. CR \notin Digits /\ LF \notin Digits
      <4>1. Controls \cap Digits = {} /\ CR \in Controls /\ LF \in Controls
        BY Characters
      <4> QED BY <4>1
    <3>5. ASSUME NEW d \in 1..5 PROVE s[d] # CR /\ s[d] # LF
      <4>1. d = 1 \/ d = 2 \/ d \in 3..5
        OBVIOUS
      <4>2. CASE d = 1
        BY <1>1, <1>9, <4>2
      <4>3. CASE d = 2
        BY <1>4, <2>6, <4>3
      <4>4. CASE d \in 3..5
        BY <3>2, <3>4, <4>4
      <4> QED BY <4>1, <4>2, <4>3, <4>4
    <3>6. Message(A, s, 1, AfterStatus(s, TokenToEol(s, 6), EndLine(s, TokenToEol(s, 6))))
      BY <3>3, <3>5, AfterStatusIs
    <3>7. Message(A, s, one, r)
      BY <1>1, <3>1, <3>6 DEF after
    <3> QED BY <1>3, <3>7 DEF r
  <2> QED BY <2>3, <2>4, <2>5, <2>6
<1> QED BY <1>5, <1>7, <1>8, <1>9

LEMMA ResponseStays ==
    ASSUME NEW A, NEW s, NEW t, Extends(A, s, t), s # <<>>, PhrParseResponse(s).ret # Incomplete
    PROVE  PhrParseResponse(t) = PhrParseResponse(s)
<1> DEFINE one == 1
           three == 3
           blank == " "
           v == Version(s, one)
           msg(x) == TokenToEol(x, 6)
           after(x) == AfterStatus(x, msg(x), EndLine(x, msg(x)))
           short(x) == Bytes(From(x, three)) < 4
           code(x) == \A i \in 3..5 : i <= Len(x) /\ x[i] \in Digits
           r == PhrParseResponse(s)
<1>1. /\ s \in Seq(A) /\ t \in Seq(A) /\ Len(s) \in Nat /\ Len(t) \in Nat /\ Len(s) <= Len(t)
      /\ \A i \in 1..Len(s) : t[i] = s[i]
      /\ one \in 1..Len(s) /\ one \in 1..(Len(s) + 1) /\ one = 1
  BY DEF Extends
<1>2. r = IF v < 0 THEN Failure(v)
          ELSE IF s[2] # blank THEN Failure(Bad)
          ELSE IF short(s) THEN Failure(Incomplete)
          ELSE IF ~code(s) THEN Failure(Bad) ELSE after(s)
  BY DEF PhrParseResponse
<1>3. PhrParseResponse(t) = IF Version(t, one) < 0 THEN Failure(Version(t, one))
          ELSE IF t[2] # blank THEN Failure(Bad)
          ELSE IF short(t) THEN Failure(Incomplete)
          ELSE IF ~code(t) THEN Failure(Bad) ELSE after(t)
  BY DEF PhrParseResponse
<1> HIDE DEF one, r, blank, code, after
<1>4. v = Incomplete \/ v = Bad \/ v = one + 1
  BY <1>1, VersionIs
<1>5. v = one + 1 => s[one] \in Versions /\ ~(Bytes(From(s, one)) < 9)
  BY <1>1 DEF Version, Incomplete, Bad
<1>6. v # Incomplete => Version(t, one) = v
  BY <1>1, VersionStays
<1> HIDE DEF v
<1>7. v # Incomplete
  <2> SUFFICES ASSUME v = Incomplete PROVE FALSE
    OBVIOUS
  <2>1. v < 0
    BY DEF Incomplete
  <2>2. r = Failure(Incomplete)
    BY <1>2, <2>1
  <2> QED BY <2>2 DEF Failure, r
<1>8. Version(t, one) = v
  BY <1>6, <1>7
<1>9. CASE v = Bad
  <2>1. v < 0
    BY <1>9 DEF Bad
  <2> QED BY <1>2, <1>3, <1>8, <2>1 DEF r
<1>10. CASE v = one + 1
  <2>1. one + 1 <= Len(s)
    BY <1>1, <1>5, <1>10, RoomBehindVersion
  <2>2. ~(v < 0) /\ 2 <= Len(s) /\ t[2] = s[2]
    BY <1>1, <1>10, <2>1
  <2>3. CASE s[2] # blank
    <3>1. t[2] # blank
      BY <2>2, <2>3
    <3> QED BY <1>2, <1>3, <1>8, <2>2, <2>3, <3>1 DEF r
  <2>4. CASE ~(s[2] # blank) /\ short(s)
    <3>1. r = Failure(Incomplete)
      BY <1>2, <2>2, <2>4
    <3> QED BY <3>1 DEF Failure, r
  <2>5. CASE ~(s[2] # blank) /\ ~short(s)
    <3>1. ~(t[2] # blank)
      BY <2>2, <2>5
    <3>2. three \in 1..(Len(s) + 1)
      BY <1>1, <2>2
    <3> HIDE DEF three
    <3>3. /\ Bytes(From(s, three)) \in Nat /\ Bytes(From(t, three)) \in Nat
          /\ Bytes(From(s, three)) <= Bytes(From(t, three))
      BY <3>2, BytesGrow
    <3>4. ~(Bytes(From(s, three)) < 4)
      BY <2>5
    <3>5. ~short(t)
      BY <3>3, <3>4
    <3>6. ~(Bytes(From(s, 3)) < 4)
      BY <3>4 DEF three
    <3> HIDE DEF short
    <3>7. CASE ~code(s)
      <4>1. PICK i \in 3..5 : ~(i <= Len(s) /\ s[i] \in Digits)
        BY <3>7 DEF code
      <4>2. \E j \in 3..5 : j <= Len(s) /\ s[j] \notin Digits
        <5>1. CASE i <= Len(s)
          BY <4>1, <5>1
        <5>2. CASE ~(i <= Len(s))
          <6>1. i > Len(s)
            BY <1>1, <5>2
          <6> QED BY <1>1, <2>2, <3>6, <6>1, RoomForDigits
        <5> QED BY <5>1, <5>2
      <4>3. PICK j \in 3..5 : j <= Len(s) /\ s[j] \notin Digits
        BY <4>2
      <4>4. t[j] = s[j]
        <5>1. j \in 1..Len(s)
          BY <1>1, <4>3
        <5> QED BY <1>1, <5>1
      <4>5. ~code(t)
        BY <4>3, <4>4 DEF code
      <4>6. r = Failure(Bad)
        BY <1>2, <2>2, <2>5, <3>7
      <4>7. PhrParseResponse(t) = Failure(Bad)
        BY <1>3, <1>8, <2>2, <3>1, <3>5, <4>5
      <4> QED BY <4>6, <4>7 DEF r
    <3>8. CASE code(s)
      <4>1. \A i \in 3..5 : i <= Len(s) /\ s[i] \in Digits
        BY <3>8 DEF code
      <4>2. 5 <= Len(s)
        BY <4>1
      <4>3. ASSUME NEW i \in 3..5 PROVE i <= Len(t) /\ t[i] \in Digits
        <5>1. i \in 1..Len(s) /\ i <= Len(t) /\ s[i] \in Digits
          BY <1>1, <4>1, <4>2
        <5>2. t[i] = s[i]
          BY <1>1, <5>1
        <5> QED BY <5>1, <5>2
      <4>4. code(t)
        BY <4>3 DEF code
      <4>5. r = after(s)
        BY <1>2, <2>2, <2>5, <3>8
      <4>6. PhrParseResponse(t) = after(t)
        BY <1>3, <1>8, <2>2, <3>1, <3>5, <4>4
      <4>7. after(s).ret # Incomplete
        BY <4>5 DEF r
      <4>8. after(t) = after(s)
        <5>1. AfterStatus(s, TokenToEol(s, 6), EndLine(s, TokenToEol(s, 6))).ret # Incomplete
          BY <4>7 DEF after
        <5>2. AfterStatus(t, TokenToEol(t, 6), EndLine(t, TokenToEol(t, 6)))
                = AfterStatus(s, TokenToEol(s, 6), EndLine(s, TokenToEol(s, 6)))
          BY <4>2, <5>1, AfterStatusStays
        <5> QED BY <5>2 DEF after
      <4> QED BY <4>5, <4>6, <4>8 DEF r
    <3> QED BY <3>7, <3>8
  <2> QED BY <2>3, <2>4, <2>5
<1> QED BY <1>4, <1>7, <1>9, <1>10

-----------------------------------------------------------------------------
(* Outcomes                                                                *)

\* What a message yields that may have line ends in front.
LEMMA BeginsIs ==
    ASSUME NEW A, NEW s \in Seq(A), NEW r, Begins(A, s, r)
    PROVE  /\ r \in Results(A) /\ r.ret \in Int /\ Incomplete \in Int /\ Bad \in Int /\ Incomplete # Bad
           /\ Incomplete < 0 /\ Bad < 0
           /\ r.ret \in {Incomplete, Bad} \/ r.ret \in 2..(Len(s) + 1)
<1>1. PICK start \in 1..(Len(s) + 1) : Message(A, s, start, r)
  BY DEF Begins
<1>2. r \in Results(A) /\ Ended(s, start, r.ret)
  BY <1>1 DEF Message, HeadRead
<1>3. r.ret \in Int
  BY <1>2 DEF Results
<1>4. r.ret \notin {Incomplete, Bad} => r.ret \in (start + 1)..(Len(s) + 1)
  BY <1>2 DEF Ended
<1>5. Incomplete \in Int /\ Bad \in Int /\ Incomplete # Bad /\ Incomplete < 0 /\ Bad < 0
  BY DEF Incomplete, Bad
<1>6. \A ret \in (start + 1)..(Len(s) + 1) : ret \in 2..(Len(s) + 1)
  OBVIOUS
<1> QED BY <1>2, <1>3, <1>4, <1>5, <1>6

LEMMA OutcomeIs ==
    ASSUME NEW A, NEW s \in Seq(A), s # <<>>, NEW r, Begins(A, s, r), NEW length, NEW keepAlive,
           NEW h, h = Outcome(s, r, length, keepAlive)
    PROVE  \/ h = [status |-> "Err"] /\ Bytes(s) >= 5 /\ r.ret # Incomplete
           \/ h = [status |-> "Partial"] /\ (Bytes(s) < 5 \/ r.ret = Incomplete)
           \/ /\ h = [status |-> "Complete", size |-> HeadSize(s, r.ret), length |-> length,
                      keepAlive |-> keepAlive, headers |-> r.lines]
              /\ r.ret \in 2..(Len(s) + 1) /\ length # {} /\ Bytes(s) >= 5
<1>1. /\ r.ret \in Int /\ Incomplete \in Int /\ Bad \in Int /\ Incomplete # Bad
      /\ Incomplete < 0 /\ Bad < 0
      /\ r.ret \in {Incomplete, Bad} \/ r.ret \in 2..(Len(s) + 1)
  BY BeginsIs
<1>2. Bytes(s) \in Nat
  BY BytesIs
<1> DEFINE err == Bytes(s) >= 5 /\ (r.ret = Bad \/ (r.ret > 0 /\ length = {}))
           part == Bytes(s) < 5 \/ r.ret = Incomplete
<1>3. h = IF s = <<>> \/ err THEN [status |-> "Err"]
          ELSE IF part THEN [status |-> "Partial"]
          ELSE [status |-> "Complete", size |-> HeadSize(s, r.ret), length |-> length,
                keepAlive |-> keepAlive, headers |-> r.lines]
  BY DEF Outcome
<1>4. err => Bytes(s) >= 5 /\ r.ret # Incomplete
  <2> DEFINE b == Bytes(s)
             x == r.ret
  <2>1. x = Bad \/ x > 0 => x # Incomplete
    BY <1>1
  <2> QED BY <2>1
<1>5. ~err /\ ~part => r.ret \in 2..(Len(s) + 1) /\ length # {} /\ Bytes(s) >= 5
  <2> SUFFICES ASSUME ~err, ~part PROVE r.ret \in 2..(Len(s) + 1) /\ length # {} /\ Bytes(s) >= 5
    OBVIOUS
  <2>1. Bytes(s) >= 5 /\ r.ret # Incomplete
    BY <1>2
  <2>2. r.ret # Bad
    BY <2>1
  <2>3. r.ret \in 2..(Len(s) + 1)
    BY <1>1, <2>1, <2>2
  <2>4. r.ret > 0
    BY <2>3
  <2> QED BY <2>1, <2>3, <2>4
<1> HIDE DEF err, part
<1>6. CASE err
  BY <1>3, <1>4, <1>6
<1>7. CASE ~err /\ part
  BY <1>3, <1>7 DEF part
<1>8. CASE ~err /\ ~part
  BY <1>3, <1>5, <1>8
<1> QED BY <1>6, <1>7, <1>8

\* Empty lines of a message are behind its begin.
LEMMA EmptyLinesAre ==
    ASSUME NEW A, NEW s \in Seq(A), NEW start \in 1..(Len(s) + 1), \A d \in 1..(start - 1) : s[d] \in {CR, LF}
    PROVE  /\ \A e \in EmptyLines(s) : e \in start..Len(s) /\ EmptyAt(s, e)
           /\ \A e \in (start + 1)..Len(s) :
                EmptyAt(s, e) /\ s[start] # CR /\ s[start] # LF => e \in EmptyLines(s)
<1>1. ASSUME NEW e \in EmptyLines(s) PROVE e \in start..Len(s) /\ EmptyAt(s, e)
  <2>1. /\ e \in 1..Len(s) /\ s[e] = LF
        /\ e > 1 => s[e - 1] = LF \/ (s[e - 1] = CR /\ (e = 2 \/ s[e - 2] = LF))
        /\ \E p \in 1..(e - 1) : s[p] \notin {CR, LF}
    BY DEF EmptyLines, LineEnds
  <2>2. PICK p \in 1..(e - 1) : s[p] \notin {CR, LF}
    BY <2>1
  <2>3. ~(p \in 1..(start - 1))
    BY <2>2
  <2>4. e \in start..Len(s)
    BY <2>1, <2>3
  <2>5. EmptyAt(s, e)
    BY <2>1 DEF EmptyAt
  <2> QED BY <2>4, <2>5
<1>2. ASSUME NEW e \in (start + 1)..Len(s), EmptyAt(s, e), s[start] # CR, s[start] # LF
      PROVE  e \in EmptyLines(s)
  <2>1. e \in 1..Len(s) /\ start \in 1..(e - 1) /\ s[start] \notin {CR, LF} /\ e \in DOMAIN s
    BY <1>2
  <2>2. /\ s[e] = LF
        /\ e > 1 => s[e - 1] = LF \/ (s[e - 1] = CR /\ (e = 2 \/ s[e - 2] = LF))
    BY <1>2 DEF EmptyAt
  <2>3. \E p \in 1..(e - 1) : s[p] \notin {CR, LF}
    BY <2>1
  <2>4. e \in LineEnds(s)
    BY <2>1, <2>2 DEF LineEnds
  <2> QED BY <2>2, <2>3, <2>4 DEF EmptyLines
<1> QED BY <1>1, <1>2

\* Where a head ends.
EndsWell(s, h) ==
    /\ h.status = "Complete" =>
        \E e \in EmptyLines(s) :
            h.size = Bytes(SubSeq(s, 1, e)) /\ \A d \in EmptyLines(s) : d >= e
    /\ h.status = "Partial" => \A e \in EmptyLines(s) : Bytes(From(s, e)) < 9

LEMMA OutcomeEnds ==
    ASSUME NEW A, NEW s \in Seq(A), s # <<>>, NEW r, Begins(A, s, r), NEW length, NEW keepAlive,
           NEW h, h = Outcome(s, r, length, keepAlive)
    PROVE  EndsWell(s, h)
<1>1. \/ h = [status |-> "Err"] /\ Bytes(s) >= 5 /\ r.ret # Incomplete
      \/ h = [status |-> "Partial"] /\ (Bytes(s) < 5 \/ r.ret = Incomplete)
      \/ /\ h = [status |-> "Complete", size |-> HeadSize(s, r.ret), length |-> length,
                 keepAlive |-> keepAlive, headers |-> r.lines]
         /\ r.ret \in 2..(Len(s) + 1) /\ length # {} /\ Bytes(s) >= 5
  BY OutcomeIs
<1>2. /\ r.ret \in Int /\ Incomplete \in Int /\ Bad \in Int /\ Incomplete < 0 /\ Bad < 0
  BY BeginsIs
<1>3. PICK start \in 1..(Len(s) + 1) :
        Message(A, s, start, r) /\ \A d \in 1..(start - 1) : s[d] \in {CR, LF}
  BY DEF Begins
<1>4. /\ Ended(s, start, r.ret)
      /\ r.ret \notin {Incomplete, Bad} => start <= Len(s) /\ s[start] # CR /\ s[start] # LF
  BY <1>3 DEF Message, HeadRead
<1>5. /\ \A e \in EmptyLines(s) : e \in start..Len(s) /\ EmptyAt(s, e)
      /\ \A e \in (start + 1)..Len(s) :
            EmptyAt(s, e) /\ s[start] # CR /\ s[start] # LF => e \in EmptyLines(s)
  BY <1>3, EmptyLinesAre
<1>6. CASE h = [status |-> "Err"] /\ Bytes(s) >= 5 /\ r.ret # Incomplete
  BY <1>6 DEF EndsWell
<1>7. CASE h = [status |-> "Partial"] /\ (Bytes(s) < 5 \/ r.ret = Incomplete)
  <2>1. ASSUME NEW e \in EmptyLines(s) PROVE Bytes(From(s, e)) < 9
    <3>1. e \in start..Len(s) /\ EmptyAt(s, e) /\ e \in 1..(Len(s) + 1)
      BY <1>5
    <3>2. CASE r.ret = Incomplete
      BY <1>4, <3>1, <3>2 DEF Ended
    <3>3. CASE Bytes(s) < 5
      <4> DEFINE n == Len(s)
                 k == e - 1
                 a == From(s, e)
      <4>1. n \in Nat /\ e \in Nat \ {0} /\ e <= n + 1 /\ n <= Len(s) /\ k \in Nat
        BY <3>1
      <4>2. a = SubSeq(s, e, n)
        BY DEF From
      <4> HIDE DEF a
      <4>3. a \in Seq(A) /\ Len(a) = n - e + 1 /\ \A i \in 1..(n - e + 1) : a[i] = s[e + i - 1]
        <5> HIDE DEF n
        <5> QED BY <4>1, <4>2, PartIs
      <4>4. Len(a) + k <= Len(s)
        BY <4>1, <4>3
      <4>5. \A i \in 1..Len(a) : e + i - 1 = i + k
        BY <4>1, <4>3
      <4>6. \A i \in 1..Len(a) : a[i] = s[i + k]
        BY <4>3, <4>5
      <4> HIDE DEF k
      <4>7. Bytes(a) \in Nat /\ Bytes(s) \in Nat /\ Bytes(a) <= Bytes(s)
        BY <4>1, <4>3, <4>4, <4>6, BytesOfPart
      <4>8. Bytes(a) < 9
        BY <3>3, <4>7
      <4> QED BY <4>8 DEF a
    <3> QED BY <1>7, <3>2, <3>3
  <2> QED BY <1>7, <2>1 DEF EndsWell
<1>8. CASE /\ h = [status |-> "Complete", size |-> HeadSize(s, r.ret), length |-> length,
                   keepAlive |-> keepAlive, headers |-> r.lines]
           /\ r.ret \in 2..(Len(s) + 1)
  <2> DEFINE e == r.ret - 1
             x == r.ret
  <2>1. r.ret \notin {Incomplete, Bad}
    BY <1>2, <1>8
  <2>2. /\ x \in (start + 1)..(Len(s) + 1) /\ EmptyAt(s, e)
        /\ \A d \in start..(x - 2) : ~EmptyAt(s, d)
    BY <1>4, <2>1 DEF Ended
  <2>3. start <= Len(s) /\ s[start] # CR /\ s[start] # LF
    BY <1>4, <2>1
  <2>4. h.status = "Complete" /\ h.size = Bytes(SubSeq(s, 1, e))
    BY <1>8 DEF HeadSize
  <2>5. e \in start..Len(s) /\ e # start
    <3>1. s[e] = LF
      BY <2>2 DEF EmptyAt
    <3>2. e # start
      BY <2>3, <3>1
    <3> HIDE DEF x
    <3>3. e = x - 1
      BY DEF x
    <3> QED BY <2>2, <3>2, <3>3
  <2>6. e \in (start + 1)..Len(s)
    BY <2>5
  <2>7. e \in EmptyLines(s)
    BY <1>5, <2>2, <2>3, <2>6
  <2>8. ASSUME NEW d \in EmptyLines(s) PROVE d >= e
    <3>1. d \in start..Len(s) /\ EmptyAt(s, d)
      BY <1>5
    <3>2. ~(d \in start..(x - 2))
      BY <2>2, <3>1
    <3>3. x \in Int /\ e = x - 1 /\ d \in Int /\ d >= start
      BY <2>2, <3>1
    <3> HIDE DEF x, e
    <3> QED BY <3>2, <3>3
  <2> HIDE DEF e, x
  <2>9. h.status # "Partial"
    BY <2>4
  <2> QED BY <2>4, <2>7, <2>8, <2>9 DEF EndsWell
<1> QED BY <1>1, <1>6, <1>7, <1>8

\* A head that t begins with is settled: r was parsed of s, q of t.
Settled(A, s, t, r, q, length, keepAlive) ==
    /\ Extends(A, s, t) /\ s # <<>> /\ Begins(A, s, r)
    /\ r.ret # Incomplete => q = r
    /\ Outcome(s, r, length, keepAlive).status # "Partial"

\* What was decided stays.
LEMMA OutcomeStays ==
    ASSUME NEW A, NEW s, NEW t, NEW r, NEW q, NEW length, NEW keepAlive,
           Settled(A, s, t, r, q, length, keepAlive)
    PROVE  q = r /\ Outcome(t, r, length, keepAlive) = Outcome(s, r, length, keepAlive)
<1> USE DEF Settled
<1>1. s \in Seq(A) /\ t \in Seq(A) /\ Len(s) \in Nat /\ Len(t) \in Nat /\ Len(s) <= Len(t)
  BY DEF Extends
<1>2. t # <<>>
  BY <1>1
<1>3. Bytes(s) \in Nat /\ Bytes(t) \in Nat /\ Bytes(s) <= Bytes(t)
  <2> DEFINE one == 1
  <2>1. one \in 1..(Len(s) + 1)
    BY <1>1
  <2> HIDE DEF one
  <2> QED BY <2>1, BytesGrow
<1>4. /\ r.ret \in Int /\ Incomplete \in Int /\ Bad \in Int /\ Incomplete # Bad
      /\ Incomplete < 0 /\ Bad < 0
      /\ r.ret \in {Incomplete, Bad} \/ r.ret \in 2..(Len(s) + 1)
  BY <1>1, BeginsIs
<1> DEFINE h == Outcome(s, r, length, keepAlive)
<1>5. h.status # "Partial"
  OBVIOUS
<1>6. \/ h = [status |-> "Err"] /\ Bytes(s) >= 5 /\ r.ret # Incomplete
      \/ h = [status |-> "Partial"] /\ (Bytes(s) < 5 \/ r.ret = Incomplete)
      \/ /\ h = [status |-> "Complete", size |-> HeadSize(s, r.ret), length |-> length,
                 keepAlive |-> keepAlive, headers |-> r.lines]
         /\ r.ret \in 2..(Len(s) + 1) /\ length # {} /\ Bytes(s) >= 5
  <2> HIDE DEF h
  <2>1. h = Outcome(s, r, length, keepAlive)
    BY DEF h
  <2> QED BY <1>1, <2>1, OutcomeIs
<1> HIDE DEF h
<1>7. Bytes(s) >= 5 /\ r.ret # Incomplete
  <2>1. h # [status |-> "Partial"]
    BY <1>5
  <2>2. r.ret \in 2..(Len(s) + 1) => r.ret # Incomplete
    BY <1>4
  <2> QED BY <1>6, <2>1, <2>2
<1>8. Bytes(t) >= 5 /\ ~(Bytes(t) < 5) /\ ~(Bytes(s) < 5)
  BY <1>3, <1>7
<1> DEFINE err == r.ret = Bad \/ (r.ret > 0 /\ length = {})
           whole(x) == [status |-> "Complete", size |-> HeadSize(x, r.ret), length |-> length,
                        keepAlive |-> keepAlive, headers |-> r.lines]
<1>9. /\ h = IF err THEN [status |-> "Err"] ELSE whole(s)
      /\ Outcome(t, r, length, keepAlive) = IF err THEN [status |-> "Err"] ELSE whole(t)
  <2> HIDE DEF whole
  <2> QED BY <1>2, <1>7, <1>8 DEF h, Outcome, whole
<1>10. CASE err
  <2> HIDE DEF err, whole
  <2> QED BY <1>7, <1>9, <1>10 DEF h
<1>11. CASE ~err
  <2>1. r.ret \in 2..(Len(s) + 1)
    BY <1>4, <1>7, <1>11
  <2> DEFINE one == 1
             e == r.ret - 1
  <2>2. one \in Nat \ {0} /\ e \in Nat /\ e <= Len(s)
    BY <1>1, <2>1
  <2> HIDE DEF one, e
  <2>3. SubSeq(t, one, e) = SubSeq(s, one, e)
    BY <2>2, PartStays
  <2>4. HeadSize(t, r.ret) = HeadSize(s, r.ret)
    BY <2>3 DEF HeadSize, one, e
  <2>5. whole(t) = whole(s)
    BY <2>4
  <2> HIDE DEF err, whole
  <2> QED BY <1>7, <1>9, <1>11, <2>5 DEF h
<1> QED BY <1>10, <1>11

-----------------------------------------------------------------------------
(* Numbers in headers                                                      *)

LEMMA DigitIs == ASSUME NEW c PROVE DigitOf(c) \in Int
<1> DEFINE I == {i \in 1..Len(DigitChars) : DigitChars[i] = c}
           m == Min(I)
           x == IF I # {} THEN m ELSE 0
<1>1. DigitOf(c) = x - 1
  BY DEF DigitOf, SelectInSeq
<1>2. I \subseteq Nat
  OBVIOUS
<1>3. I # {} => m \in I
  <2> HIDE DEF I
  <2> QED BY <1>2, LeastIs
<1> HIDE DEF I, m
<1>4. x \in Int
  <2>1. CASE I # {}
    <3>1. m \in Nat
      BY <1>2, <1>3, <2>1
    <3> QED BY <2>1, <3>1
  <2>2. CASE I = {}
    BY <2>2
  <2> QED BY <2>1, <2>2
<1> HIDE DEF x
<1> QED BY <1>1, <1>4

LEMMA WrapIs == ASSUME NEW x \in Int PROVE Wrap(x) \in Int
<1> USE IntegerLimits
<1> DEFINE m == 2 * (Int64Max + 1)
           y == x + Int64Max + 1
           z == y % m
<1>1. m \in Nat /\ m > 0 /\ y \in Int
  OBVIOUS
<1> HIDE DEF m, y
<1>2. z \in Int
  BY <1>1
<1> HIDE DEF z
<1>3. z - (Int64Max + 1) \in Int
  BY <1>2
<1> QED BY <1>3 DEF Wrap, z, y, m

\* The digits of s from position from on, added up to each of the next k.
AddedUp(s, from, k, f) ==
    /\ f \in [0..k -> Int] /\ f[0] = 0
    /\ \A j \in 1..k : f[j] = Wrap(10 * f[j - 1] + DigitOf(s[j + (from - 1)]))

LEMMA AccumulatedSteps ==
    ASSUME NEW A, NEW s, s \in Seq(A), s # <<>>
    PROVE  \E f : /\ AddedUp(s, DigitsFrom(s), Len(s) - (DigitsFrom(s) - 1), f)
                 /\ Accumulated(s) = f[FirstOutside(s, DigitsFrom(s), Digits) - 1 - (DigitsFrom(s) - 1)]
<1> DEFINE from == DigitsFrom(s)
           b == from - 1
           n == Len(s)
           k == n - b
           D == b..n
           W == Int
           zero == 0
           step(i, v) == Wrap(10 * v + DigitOf(s[i]))
           g == [j \in 1..k |-> [v \in W |-> step(j + b, v)]]
           Def(h) == h = [i \in D |-> IF i < from THEN 0 ELSE step(i, h[i - 1])]
           x == CHOOSE h : Def(h)
           e == FirstOutside(s, from, Digits)
<1>1. n \in Nat /\ n >= 1 /\ from \in {1, 2} /\ from \in Nat \ {0} /\ from <= n + 1
  BY DEF DigitsFrom
<1> HIDE DEF from
<1>2. k \in Nat /\ b \in Nat /\ from = b + 1 /\ zero \in W /\ zero = 0
  BY <1>1
<1>3. \A i, v : v \in W => step(i, v) \in W
  <2> SUFFICES ASSUME NEW i, NEW v \in W PROVE step(i, v) \in W
    OBVIOUS
  <2> DEFINE y == 10 * v + DigitOf(s[i])
  <2>1. DigitOf(s[i]) \in Int
    BY DigitIs
  <2>2. y \in Int
    BY <2>1
  <2> HIDE DEF y
  <2>3. Wrap(y) \in Int
    BY <2>2, WrapIs
  <2> QED BY <2>3 DEF y
<1> HIDE DEF step
<1>4. g \in [1..k -> [W -> W]]
  <2> HIDE DEF W, k
  <2> QED BY <1>3
<1>5. PICK f \in [0..k -> W] : f[0] = zero /\ \A j \in 1..k : f[j] = g[j][f[j - 1]]
  <2> HIDE DEF g, W, k, zero
  <2>1. \E f \in [0..k -> W] : f[0] = zero /\ \A j \in 1..k : f[j] = g[j][f[j - 1]]
    <3>1. zero \in W /\ k \in Nat /\ g \in [1..k -> [W -> W]]
      BY <1>2, <1>4
    <3> QED BY ONLY <3>1, Recursion
  <2> QED BY <2>1
<1>6. \A j \in 1..k : j - 1 \in 0..k /\ f[j - 1] \in W /\ f[j] = step(j + b, f[j - 1])
  <2> SUFFICES ASSUME NEW j \in 1..k PROVE j - 1 \in 0..k /\ f[j - 1] \in W /\ f[j] = step(j + b, f[j - 1])
    OBVIOUS
  <2>1. j - 1 \in 0..k
    BY <1>2
  <2> HIDE DEF W, k
  <2>2. f[j - 1] \in W /\ f[j] = g[j][f[j - 1]]
    BY <1>5, <2>1
  <2> QED BY <2>1, <2>2
<1> DEFINE a == [i \in D |-> f[i - b]]
<1>7. Def(a)
  <2>1. ASSUME NEW i \in D PROVE a[i] = IF i < from THEN 0 ELSE step(i, a[i - 1])
    <3>1. a[i] = f[i - b]
      OBVIOUS
    <3>2. CASE i < from
      <4>1. i - b = 0
        BY <1>1, <1>2, <3>2
      <4> QED BY <1>2, <1>5, <3>1, <3>2, <4>1
    <3>3. CASE ~(i < from)
      <4>1. i - b \in 1..k /\ i - 1 \in D /\ (i - 1) - b = (i - b) - 1 /\ (i - b) + b = i
        BY <1>1, <1>2, <3>3
      <4>2. a[i - 1] = f[(i - b) - 1]
        BY <4>1
      <4> HIDE DEF a, k, D
      <4>3. f[i - b] = step((i - b) + b, f[(i - b) - 1])
        BY <1>6, <4>1
      <4> QED BY <3>1, <3>3, <4>1, <4>2, <4>3
    <3> QED BY <3>2, <3>3
  <2>2. a = [i \in D |-> a[i]]
    OBVIOUS
  <2> HIDE DEF a, D
  <2> QED BY <2>1, <2>2
<1>8. Def(x)
  <2> HIDE DEF Def
  <2> QED BY <1>7
<1>9. Accumulated(s) = x[e - 1]
  BY DEF Accumulated, step, from
<1> HIDE DEF x
<1>10. \A i \in D : x[i] = IF i < from THEN 0 ELSE step(i, x[i - 1])
  <2> HIDE DEF D
  <2> QED BY <1>8
<1> DEFINE S == {j \in 0..k : x[j + b] \in W}
<1>11. 0 \in S
  <2>1. 0 + b \in D /\ 0 + b < from /\ 0 \in 0..k
    BY <1>1, <1>2
  <2>2. x[0 + b] = 0
    BY <1>10, <2>1
  <2> QED BY <2>1, <2>2
<1>12. ASSUME NEW j \in 1..k, j - 1 \in S PROVE j \in S
  <2>1. j + b \in D /\ ~(j + b < from) /\ (j + b) - 1 = (j - 1) + b /\ j \in 0..k
    BY <1>1, <1>2
  <2>2. x[j + b] = step(j + b, x[(j - 1) + b])
    BY <1>10, <2>1
  <2>3. x[(j - 1) + b] \in W
    BY <1>12
  <2> HIDE DEF W, k, D
  <2>4. x[j + b] \in W
    BY <1>3, <2>2, <2>3
  <2> QED BY <2>1, <2>4
<1>13. \A j \in 0..k : j \in S
  <2> HIDE DEF S, k
  <2> QED BY <1>2, <1>11, <1>12, UpTo
<1>14. Found(s, from, e)
  BY <1>1, FirstOutsideIs
<1> HIDE DEF e
<1>15. (e - 1) - b \in 0..k /\ ((e - 1) - b) + b = e - 1
  BY <1>1, <1>2, <1>14 DEF Found
<1> DEFINE h == [j \in 0..k |-> x[j + b]]
<1>16. h \in [0..k -> W] /\ h[0] = 0
  <2>1. \A j \in 0..k : h[j] \in W
    BY <1>13
  <2>2. 0 + b \in D /\ 0 + b < from /\ 0 \in 0..k
    BY <1>1, <1>2
  <2>3. x[0 + b] = 0
    BY <1>10, <2>2
  <2> HIDE DEF W, k, b
  <2> QED BY <2>1, <2>2, <2>3
<1>17. ASSUME NEW j \in 1..k PROVE h[j] = step(j + b, h[j - 1])
  <2>1. j + b \in D /\ ~(j + b < from) /\ (j + b) - 1 = (j - 1) + b /\ j \in 0..k /\ j - 1 \in 0..k
    BY <1>1, <1>2
  <2>2. x[j + b] = step(j + b, x[(j - 1) + b])
    BY <1>10, <2>1
  <2> HIDE DEF k, D
  <2> QED BY <2>1, <2>2
<1>18. Accumulated(s) = h[e - 1 - b]
  BY <1>9, <1>15
<1> HIDE DEF h
<1>19. AddedUp(s, from, k, h)
  BY <1>16, <1>17 DEF AddedUp, step
<1> QED BY <1>18, <1>19 DEF e, from

LEMMA AccumulatedIs ==
    ASSUME NEW A, NEW s, s \in Seq(A), s # <<>>
    PROVE  Accumulated(s) \in Int
<1> DEFINE from == DigitsFrom(s)
           k == Len(s) - (from - 1)
           e == FirstOutside(s, from, Digits)
<1>1. PICK f : AddedUp(s, from, k, f) /\ Accumulated(s) = f[e - 1 - (from - 1)]
  BY AccumulatedSteps
<1>2. Len(s) \in Nat /\ Len(s) >= 1 /\ from \in {1, 2} /\ from \in Nat \ {0}
  BY DEF DigitsFrom
<1> HIDE DEF from
<1>3. Found(s, from, e)
  BY <1>2, FirstOutsideIs
<1> HIDE DEF e
<1>4. e - 1 - (from - 1) \in 0..k
  BY <1>2, <1>3 DEF Found
<1> HIDE DEF k
<1> QED BY <1>1, <1>4 DEF AddedUp

\* A number that is read is one, and an integer.
LEMMA NumberIs ==
    ASSUME NEW A, NEW v \in Seq(A)
    PROVE  FastAtoi64(v) = {} \/ \E n \in Int : FastAtoi64(v) = {n}
<1>1. CASE NotANumber(v) \/ TooLong(v)
  BY <1>1 DEF FastAtoi64
<1>2. CASE ~(NotANumber(v) \/ TooLong(v))
  <2>1. FastAtoi64(v) = {Signed(v)}
    BY <1>2 DEF FastAtoi64
  <2>2. v # <<>>
    BY <1>2 DEF NotANumber
  <2>3. Accumulated(v) \in Int
    BY <2>2, AccumulatedIs
  <2> DEFINE a == Accumulated(v)
  <2> HIDE DEF a
  <2>4. -a \in Int /\ a \in Int
    BY <2>3 DEF a
  <2>5. Signed(v) = a \/ Signed(v) = -a
    BY DEF Signed, a
  <2>6. Signed(v) \in Int
    BY <2>4, <2>5
  <2> QED BY <2>1, <2>6
<1> QED BY <1>1, <1>2

\* The first of several headers has the lowest place.
FirstPlace(at) == CHOOSE i \in at : \A j \in at : i <= j

LEMMA LengthIs ==
    ASSUME NEW A, NEW lines, lines \in Lines(A), NEW at, at \subseteq DOMAIN lines
    PROVE  /\ LengthOf(lines, at) = IF at = {} THEN {0} ELSE FastAtoi64(lines[FirstPlace(at)][2])
           /\ LengthOf(lines, at) = {} \/ \E n \in Int : LengthOf(lines, at) = {n}
<1>1. CASE at = {}
  <2>1. LengthOf(lines, at) = {0}
    BY <1>1 DEF LengthOf
  <2> QED BY <1>1, <2>1
<1>2. CASE at # {}
  <2> DEFINE p == FirstPlace(at)
             v == lines[p][2]
  <2>1. at \subseteq Nat /\ \A i \in at : i \in 1..Len(lines) /\ i # 0
    BY DEF Lines
  <2>2. Min(at) \in at
    BY <1>2, <2>1, LeastIs
  <2>3. Min(at) = p
    BY DEF Min, FirstPlace
  <2>4. p \in at /\ p # 0
    BY <2>1, <2>2, <2>3
  <2>5. FirstOf(at) = p
    BY <1>2, <2>3 DEF FirstOf
  <2> HIDE DEF p
  <2>6. lines[p] \in Seq(A) \X Seq(A)
    BY <2>1, <2>4 DEF Lines
  <2>7. v \in Seq(A)
    BY <2>6
  <2> HIDE DEF v
  <2>8. ValueOf(lines, at) = {v}
    BY <2>4, <2>5 DEF ValueOf, v
  <2>9. UNION {FastAtoi64(w) : w \in {v}} = FastAtoi64(v)
    OBVIOUS
  <2>10. LengthOf(lines, at) = FastAtoi64(v)
    BY <1>2, <2>8, <2>9 DEF LengthOf
  <2>11. FastAtoi64(v) = {} \/ \E n \in Int : FastAtoi64(v) = {n}
    BY <2>7, NumberIs
  <2> QED BY <1>2, <2>10, <2>11 DEF v, p
<1> QED BY <1>1, <1>2

-----------------------------------------------------------------------------
(* Heads                                                                   *)

\* The headers a head of that kind takes for its content-length.
LengthAt(k, lines) ==
    IF k = "response" THEN Equal(lines, ContentLength) ELSE Like(lines, ContentLength)

KeepAliveOf(k, r) == IF k = "response" THEN ResponseKeepAlive(r) ELSE RequestKeepAlive(r)
ParsedAs(k, s) == IF k = "response" THEN PhrParseResponse(s) ELSE PhrParseRequest(s)
HeadKinds == {"request", "headers", "repeated", "connection", "response"}

\* A head is the outcome of what was parsed.
LEMMA HeadIs ==
    ASSUME NEW k \in HeadKinds, NEW s
    PROVE  HeadOf(k, s) = Outcome(s, ParsedAs(k, s), LengthOf(ParsedAs(k, s).lines, LengthAt(k, ParsedAs(k, s).lines)),
                                  KeepAliveOf(k, ParsedAs(k, s)))
<1>1. CASE k = "response"
  <2>1. HeadOf(k, s) = ResponseHead(s)
    BY <1>1 DEF HeadOf
  <2>2. /\ ParsedAs(k, s) = PhrParseResponse(s)
        /\ \A lines : LengthAt(k, lines) = Equal(lines, ContentLength)
        /\ \A r : KeepAliveOf(k, r) = ResponseKeepAlive(r)
    BY <1>1 DEF ParsedAs, LengthAt, KeepAliveOf
  <2> QED BY <2>1, <2>2 DEF ResponseHead, ResponseOutcome
<1>2. CASE k # "response"
  <2>1. k \in {"request", "headers", "repeated", "connection"}
    BY <1>2 DEF HeadKinds
  <2>2. HeadOf(k, s) = RequestHead(s)
    BY <2>1 DEF HeadOf
  <2>3. /\ ParsedAs(k, s) = PhrParseRequest(s)
        /\ \A lines : LengthAt(k, lines) = Like(lines, ContentLength)
        /\ \A r : KeepAliveOf(k, r) = RequestKeepAlive(r)
    BY <1>2 DEF ParsedAs, LengthAt, KeepAliveOf
  <2> QED BY <2>2, <2>3 DEF RequestHead, RequestOutcome
<1> QED BY <1>1, <1>2

LEMMA ParsedIs ==
    ASSUME NEW A, NEW s \in Seq(A), s # <<>>, NEW k
    PROVE  Begins(A, s, ParsedAs(k, s))
BY RequestIs, ResponseIs DEF ParsedAs

LEMMA ParsedStays ==
    ASSUME NEW A, NEW s, NEW t, Extends(A, s, t), s # <<>>, NEW k, ParsedAs(k, s).ret # Incomplete
    PROVE  ParsedAs(k, t) = ParsedAs(k, s)
BY RequestStays, ResponseStays DEF ParsedAs

\* The empty text is no head.
LEMMA NoHead ==
    ASSUME NEW k \in HeadKinds
    PROVE  HeadOf(k, <<>>) = [status |-> "Err"]
<1> DEFINE none == <<>>
           r == ParsedAs(k, none)
           length == LengthOf(r.lines, LengthAt(k, r.lines))
           keepAlive == KeepAliveOf(k, r)
<1>1. HeadOf(k, none) = Outcome(none, r, length, keepAlive)
  BY HeadIs
<1> HIDE DEF r, length, keepAlive
<1>2. Outcome(none, r, length, keepAlive) = [status |-> "Err"]
  BY DEF Outcome
<1> QED BY <1>1, <1>2

\* What parse said of a head, other than Partial, it says of every text that
\* begins with it, however much more of the connection has been read: of
\* Request::parse_head and Response::parse.
THEOREM DecidedStays ==
    ASSUME NEW A, NEW s, NEW t, Extends(A, s, t), s # <<>>, NEW k \in HeadKinds,
           HeadOf(k, s).status # "Partial"
    PROVE  HeadOf(k, t) = HeadOf(k, s)
<1> DEFINE r == ParsedAs(k, s)
           q == ParsedAs(k, t)
           length(p) == LengthOf(p.lines, LengthAt(k, p.lines))
           keepAlive(p) == KeepAliveOf(k, p)
           l == length(r)
           a == keepAlive(r)
<1>1. HeadOf(k, s) = Outcome(s, r, l, a) /\ HeadOf(k, t) = Outcome(t, q, length(q), keepAlive(q))
  BY HeadIs
<1>2. s \in Seq(A)
  BY DEF Extends
<1>3. Begins(A, s, r)
  BY <1>2, ParsedIs
<1>4. r.ret # Incomplete => q = r
  BY ParsedStays
<1>5. q = r => length(q) = l /\ keepAlive(q) = a
  OBVIOUS
<1> HIDE DEF r, q, l, a, length, keepAlive
<1>6. Outcome(s, r, l, a).status # "Partial"
  BY <1>1
<1>7. q = r /\ Outcome(t, r, l, a) = Outcome(s, r, l, a)
  <2>1. Settled(A, s, t, r, q, l, a)
    BY <1>3, <1>4, <1>6 DEF Settled
  <2> QED BY ONLY <2>1, OutcomeStays
<1> QED BY <1>1, <1>5, <1>7

LEMMA HeadEndsWell ==
    ASSUME NEW A, NEW s \in Seq(A), NEW k \in HeadKinds
    PROVE  EndsWell(s, HeadOf(k, s))
<1>1. CASE s = <<>>
  <2>1. HeadOf(k, s) = [status |-> "Err"]
    BY <1>1, NoHead
  <2> QED BY <2>1 DEF EndsWell
<1>2. CASE s # <<>>
  <2> DEFINE r == ParsedAs(k, s)
             l == LengthOf(r.lines, LengthAt(k, r.lines))
             a == KeepAliveOf(k, r)
             h == HeadOf(k, s)
  <2>1. h = Outcome(s, r, l, a)
    BY HeadIs
  <2>2. Begins(A, s, r)
    BY <1>2, ParsedIs
  <2> HIDE DEF r, l, a, h
  <2>3. EndsWell(s, h)
    BY <1>2, <2>1, <2>2, OutcomeEnds
  <2> QED BY <2>3 DEF h
<1> QED BY <1>1, <1>2

\* What a complete head consists of.
LEMMA CompleteHead ==
    ASSUME NEW A, NEW s \in Seq(A), NEW k \in HeadKinds, NEW h, h = HeadOf(k, s), h.status = "Complete"
    PROVE  /\ s # <<>> /\ h.headers \in Lines(A) /\ Cleaned(h.headers, MaxHeaders)
           /\ h.length = LengthOf(h.headers, LengthAt(k, h.headers)) /\ h.length # {}
           /\ h.size \in Nat
<1>1. s # <<>>
  <2>1. ASSUME s = <<>> PROVE FALSE
    <3>1. h = [status |-> "Err"]
      BY <2>1, NoHead
    <3> QED BY <3>1
  <2> QED BY <2>1
<1> DEFINE r == ParsedAs(k, s)
           l == LengthOf(r.lines, LengthAt(k, r.lines))
           a == KeepAliveOf(k, r)
<1>2. h = Outcome(s, r, l, a)
  BY HeadIs
<1>3. Begins(A, s, r)
  BY <1>1, ParsedIs
<1>4. l = LengthOf(r.lines, LengthAt(k, r.lines))
  OBVIOUS
<1> HIDE DEF r, l, a
<1>5. \/ h = [status |-> "Err"] /\ Bytes(s) >= 5 /\ r.ret # Incomplete
      \/ h = [status |-> "Partial"] /\ (Bytes(s) < 5 \/ r.ret = Incomplete)
      \/ /\ h = [status |-> "Complete", size |-> HeadSize(s, r.ret), length |-> l,
                 keepAlive |-> a, headers |-> r.lines]
         /\ r.ret \in 2..(Len(s) + 1) /\ l # {} /\ Bytes(s) >= 5
  BY <1>1, <1>2, <1>3, OutcomeIs
<1>6. /\ h = [status |-> "Complete", size |-> HeadSize(s, r.ret), length |-> l,
              keepAlive |-> a, headers |-> r.lines]
      /\ r.ret \in 2..(Len(s) + 1) /\ l # {}
  <2>1. h # [status |-> "Err"]
    OBVIOUS
  <2>2. h # [status |-> "Partial"]
    OBVIOUS
  <2> QED BY <1>5, <2>1, <2>2
<1>7. h.size = HeadSize(s, r.ret) /\ h.length = l /\ h.headers = r.lines
  BY <1>6
<1>8. r \in Results(A) /\ Incomplete < 0 /\ Bad < 0 /\ Incomplete \in Int /\ Bad \in Int
  BY <1>3, BeginsIs
<1>9. r.lines \in Lines(A)
  BY <1>8 DEF Results, Lines
<1>10. Cleaned(r.lines, MaxHeaders)
  <2>1. PICK start \in 1..(Len(s) + 1) : Message(A, s, start, r)
    BY <1>3 DEF Begins
  <2>2. r.ret \notin {Incomplete, Bad}
    BY <1>6, <1>8
  <2> QED BY <2>1, <2>2 DEF Message, HeadRead
<1>11. HeadSize(s, r.ret) \in Nat
  <2> DEFINE one == 1
             e == r.ret - 1
             u == SubSeq(s, one, e)
  <2>1. one \in Nat \ {0} /\ e \in Nat /\ e <= Len(s) /\ one <= e + 1
    BY <1>6
  <2> HIDE DEF one, e
  <2>2. u \in Seq(A)
    BY <2>1, PartIs
  <2> HIDE DEF u
  <2>3. Bytes(u) \in Nat
    BY <2>2, BytesIs
  <2> QED BY <2>3 DEF HeadSize, u, one, e
<1> QED BY <1>1, <1>4, <1>6, <1>7, <1>9, <1>10, <1>11

-----------------------------------------------------------------------------
(* Numbers                                                                 *)

LEMMA DigitRange == ASSUME NEW c \in Digits PROVE DigitOf(c) \in 0..9
<1> DEFINE I == {i \in 1..Len(DigitChars) : DigitChars[i] = c}
           m == Min(I)
<1>1. Len(DigitChars) = 10
  BY DEF DigitChars
<1>2. I \subseteq 1..10 /\ I \subseteq Nat
  BY <1>1
<1>3. I # {}
  BY DEF Digits, ToSet, DigitChars
<1>4. DigitOf(c) = (IF I # {} THEN m ELSE 0) - 1
  BY DEF DigitOf, SelectInSeq
<1> HIDE DEF I
<1>5. m \in I
  BY <1>2, <1>3, LeastIs
<1> HIDE DEF m
<1>6. m \in 1..10 /\ DigitOf(c) = m - 1
  BY <1>2, <1>3, <1>4, <1>5
<1> QED BY <1>6

\* Numbers in the range of int64_t stay what they are.
LEMMA WrapSmall == ASSUME NEW x \in 0..Int64Max PROVE Wrap(x) = x
<1> USE IntegerLimits
<1> DEFINE h == Int64Max + 1
           m == 2 * h
           y == x + h
<1>1. m \in Nat /\ m > 0 /\ y \in 0..(m - 1) /\ h \in Nat
  OBVIOUS
<1>2. Wrap(x) = (y % m) - h
  BY DEF Wrap
<1>3. y - h = x
  OBVIOUS
<1> HIDE DEF m, y, h
<1>4. y % m = y
  BY <1>1
<1> QED BY <1>2, <1>3, <1>4

\* One digit more.
LEMMA NextDigit ==
    ASSUME NEW v \in Nat, NEW u \in Nat, NEW c \in 0..9
    PROVE  10 * v + c \in Nat /\ 10 * u \in Nat /\ (v < u => 10 * v + c < 10 * u)
OBVIOUS

\* The digits of s added up to each of them, without a limit.
Counted(s, g) ==
    /\ g \in [0..Len(s) -> Nat] /\ g[0] = 0
    /\ \A j \in 1..Len(s) : g[j] = 10 * g[j - 1] + DigitOf(s[j])

LEMMA DecimalSteps ==
    ASSUME NEW A, NEW s, s \in Seq(A), ToSet(s) \subseteq Digits
    PROVE  \E g : Counted(s, g) /\ Decimal(s) = g[Len(s)]
<1> DEFINE n == Len(s)
           W == Nat
           zero == 0
           digit(i) == DigitOf(s[i])
           g == [i \in 1..n |-> [v \in W |-> 10 * v + digit(i)]]
           Def(h) == h = [i \in 0..n |-> IF i = 0 THEN 0 ELSE 10 * h[i - 1] + digit(i)]
           b == CHOOSE h : Def(h)
<1>1. n \in Nat
  OBVIOUS
<1>2. \A i \in 1..n : digit(i) \in 0..9
  <2> SUFFICES ASSUME NEW i \in 1..n PROVE digit(i) \in 0..9
    OBVIOUS
  <2>1. s[i] \in Digits
    BY DEF ToSet
  <2> QED BY <2>1, DigitRange
<1> HIDE DEF digit
<1>3. zero \in W /\ g \in [1..n -> [W -> W]]
  BY <1>2
<1>4. PICK f \in [0..n -> W] : f[0] = zero /\ \A i \in 1..n : f[i] = g[i][f[i - 1]]
  <2> HIDE DEF g, W, zero, n
  <2>1. \E f \in [0..n -> W] : f[0] = zero /\ \A i \in 1..n : f[i] = g[i][f[i - 1]]
    BY ONLY <1>1, <1>3, Recursion
  <2> QED BY <2>1
<1>5. \A i \in 1..n : i - 1 \in 0..n /\ i \in 0..n /\ i # 0
  BY <1>1
<1>6. \A i \in 0..n : f[i] \in W
  BY <1>4
<1>7. \A i \in 1..n : f[i] = 10 * f[i - 1] + digit(i)
  BY <1>4, <1>5, <1>6
<1>8. Def(f)
  <2>1. \A i \in 0..n : f[i] = IF i = 0 THEN 0 ELSE 10 * f[i - 1] + digit(i)
    <3>1. \A i \in 0..n : i = 0 \/ i \in 1..n
      BY <1>1
    <3> HIDE DEF n
    <3> QED BY <1>4, <1>5, <1>7, <3>1
  <2>2. f = [i \in 0..n |-> f[i]]
    BY <1>4
  <2> HIDE DEF n
  <2> QED BY <2>1, <2>2
<1>9. Def(b)
  <2> HIDE DEF Def
  <2> QED BY <1>8
<1>10. Decimal(s) = b[n]
  BY DEF Decimal, digit
<1> HIDE DEF b
<1>11. b = [i \in 0..n |-> IF i = 0 THEN 0 ELSE 10 * b[i - 1] + digit(i)]
  BY <1>9
<1>12. \A i \in 0..n : b[i] = IF i = 0 THEN 0 ELSE 10 * b[i - 1] + digit(i)
  <2> HIDE DEF n
  <2> QED BY <1>11
<1> DEFINE S == {i \in 0..n : b[i] \in Nat}
<1>13. 0 \in S
  BY <1>1, <1>12
<1>14. ASSUME NEW i \in 1..n, i - 1 \in S PROVE i \in S
  <2>1. b[i] = 10 * b[i - 1] + digit(i) /\ i \in 0..n
    BY <1>5, <1>12
  <2>2. b[i - 1] \in Nat /\ digit(i) \in 0..9
    BY <1>2, <1>14
  <2>3. 10 * b[i - 1] + digit(i) \in Nat
    BY ONLY <2>2, NextDigit
  <2> QED BY <2>1, <2>3
<1>15. \A i \in 0..n : i \in S
  <2> HIDE DEF S, n
  <2> QED BY <1>1, <1>13, <1>14, UpTo
<1>16. b \in [0..n -> Nat]
  <2>1. \A i \in 0..n : b[i] \in Nat
    BY <1>15
  <2>2. b = [i \in 0..n |-> b[i]]
    BY <1>11
  <2> HIDE DEF n
  <2> QED BY <2>1, <2>2
<1>17. b[0] = 0 /\ \A i \in 1..n : b[i] = 10 * b[i - 1] + digit(i)
  BY <1>1, <1>5, <1>12
<1> QED BY <1>10, <1>16, <1>17 DEF Counted, digit

\* Every number of n digits is below the n-th power of ten.
LEMMA CountedBelow ==
    ASSUME NEW s, Len(s) \in Nat, NEW g, Counted(s, g), ToSet(s) \subseteq Digits, Len(s) <= Digits64
    PROVE  g[Len(s)] <= Int64Max
<1> USE IntegerLimits
<1> DEFINE n == Len(s)
           P(i) == 10 ^ i
           S == {i \in 0..n : P(i) \in Nat /\ g[i] < P(i)}
<1>1. P(0) = 1 /\ \A i \in 0..Digits64 : P(i) \in Nat /\ P(i + 1) = 10 * P(i)
  BY PowersOfTen
<1>2. P(Digits64) - 1 <= Int64Max /\ Digits64 \in Nat /\ Int64Max \in Nat
  OBVIOUS
<1> HIDE DEF P
<1>3. /\ \A i \in 0..n : g[i] \in Nat
      /\ g[0] = 0 /\ \A i \in 1..n : g[i] = 10 * g[i - 1] + DigitOf(s[i])
  BY DEF Counted
<1>4. 0 \in S
  BY <1>1, <1>3
<1>5. ASSUME NEW i \in 1..n, i - 1 \in S PROVE i \in S
  <2>1. s[i] \in Digits
    BY DEF ToSet
  <2>2. DigitOf(s[i]) \in 0..9
    BY <2>1, DigitRange
  <2>3. i - 1 \in 0..Digits64 /\ (i - 1) + 1 = i /\ i \in 0..n /\ i - 1 \in 0..n
    OBVIOUS
  <2>4. P(i) = 10 * P(i - 1) /\ P(i - 1) \in Nat /\ g[i - 1] < P(i - 1) /\ g[i - 1] \in Nat
    BY <1>1, <1>3, <1>5, <2>3
  <2>5. g[i] = 10 * g[i - 1] + DigitOf(s[i])
    BY <1>3
  <2>6. /\ 10 * g[i - 1] + DigitOf(s[i]) \in Nat /\ 10 * P(i - 1) \in Nat
        /\ 10 * g[i - 1] + DigitOf(s[i]) < 10 * P(i - 1)
    BY ONLY <2>2, <2>4, NextDigit
  <2>7. g[i] < P(i) /\ P(i) \in Nat
    BY ONLY <2>4, <2>5, <2>6
  <2> QED BY <2>3, <2>7
<1>6. \A i \in 0..n : i \in S
  <2>1. n \in Nat
    OBVIOUS
  <2> HIDE DEF S, n
  <2> QED BY <2>1, <1>4, <1>5, UpTo
<1>7. n \in 0..n /\ g[n] < P(n) /\ P(n) \in Nat /\ g[n] \in Nat
  BY <1>3, <1>6
<1> DEFINE T == {j \in 0..Digits64 : j >= n => P(n) <= P(j)}
<1>8. 0 \in T
  BY <1>1
<1>9. ASSUME NEW j \in 1..Digits64, j - 1 \in T PROVE j \in T
  <2>1. j - 1 \in 0..Digits64 /\ (j - 1) + 1 = j /\ j \in 0..Digits64
    BY <1>2
  <2>2. P(j) = 10 * P(j - 1) /\ P(j - 1) \in Nat /\ P(j) \in Nat
    BY <1>1, <2>1
  <2>3. j - 1 >= n => P(n) <= P(j - 1)
    BY <1>9
  <2>4. j >= n => j = n \/ j - 1 >= n
    OBVIOUS
  <2>5. j >= n => P(n) <= P(j)
    BY <1>7, <2>2, <2>3, <2>4
  <2> QED BY <2>1, <2>5
<1>10. \A j \in 0..Digits64 : j \in T
  <2> HIDE DEF T
  <2> QED BY <1>2, <1>8, <1>9, UpTo
<1>11. P(n) <= P(Digits64) /\ P(Digits64) \in Nat
  BY <1>1, <1>2, <1>10
<1> HIDE DEF n
<1>12. g[n] <= Int64Max
  BY <1>2, <1>7, <1>11
<1> QED BY <1>12 DEF n

\* The digits behind the sign, put into 64 bits: what they are, if it fits.
LEMMA Exact ==
    ASSUME NEW A, NEW s, s \in Seq(A), s # <<>>, NEW digits,
           digits = IF Negative(s) THEN Tail(s) ELSE s, ToSet(digits) \subseteq Digits
    PROVE  /\ digits \in Seq(A) /\ Len(s) = Len(digits) + (DigitsFrom(s) - 1)
           /\ Decimal(digits) \in Nat
           /\ Len(digits) <= Digits64 => Decimal(digits) <= Int64Max
           /\ Decimal(digits) <= Int64Max => Accumulated(s) = Decimal(digits)
<1> USE IntegerLimits
<1> DEFINE from == DigitsFrom(s)
           b == from - 1
           k == Len(s) - b
           n == Len(digits)
           e == FirstOutside(s, from, Digits)
<1>1. /\ digits \in Seq(A) /\ n \in Nat /\ Len(s) \in Nat /\ Len(s) = n + b /\ b \in Nat
      /\ from \in Nat \ {0} /\ k = n /\ \A i \in 1..n : digits[i] = s[i + b]
  <2>1. CASE Negative(s)
    BY <2>1 DEF DigitsFrom
  <2>2. CASE ~Negative(s)
    BY <2>2 DEF DigitsFrom
  <2> QED BY <2>1, <2>2
<1>2. PICK g : Counted(digits, g) /\ Decimal(digits) = g[n]
  BY <1>1, DecimalSteps
<1>3. PICK f : AddedUp(s, from, k, f) /\ Accumulated(s) = f[e - 1 - b]
  BY AccumulatedSteps
<1> HIDE DEF from, b, k
<1>4. e = Len(s) + 1
  <2>1. ASSUME e <= Len(s) PROVE FALSE
    <3>1. s[e] \notin Digits /\ e \in from..(Len(s) + 1) /\ e \in Nat
      BY <1>1, <2>1, FirstOutsideIs DEF Found
    <3>2. e - b \in 1..n /\ (e - b) + b = e
      BY <1>1, <2>1, <3>1 DEF b
    <3>3. digits[e - b] = s[e]
      BY <1>1, <3>2
    <3>4. digits[e - b] \in Digits
      BY <1>1, <3>2 DEF ToSet
    <3> QED BY <3>1, <3>3, <3>4
  <2>2. Found(s, from, e)
    BY <1>1, FirstOutsideIs
  <2> QED BY <1>1, <2>1, <2>2 DEF Found
<1> HIDE DEF e
<1>5. e - 1 - b = n
  BY <1>1, <1>4
<1>6. /\ g \in [0..n -> Nat] /\ g[0] = 0 /\ \A j \in 1..n : g[j] = 10 * g[j - 1] + DigitOf(digits[j])
  BY <1>2 DEF Counted
<1>7. f[0] = 0 /\ \A j \in 1..n : f[j] = Wrap(10 * f[j - 1] + DigitOf(s[j + b]))
  BY <1>1, <1>3 DEF AddedUp, b
<1>8. \A j \in 1..n : DigitOf(digits[j]) \in 0..9
  <2> SUFFICES ASSUME NEW j \in 1..n PROVE DigitOf(digits[j]) \in 0..9
    OBVIOUS
  <2>1. j \in DOMAIN digits
    BY <1>1
  <2>2. digits[j] \in ToSet(digits)
    BY <2>1 DEF ToSet
  <2> QED BY <2>2, DigitRange
<1>9. g[n] \in Nat
  <2>1. n \in 0..n
    BY <1>1
  <2> HIDE DEF n
  <2> QED BY <1>6, <2>1
<1>10. n <= Digits64 => g[n] <= Int64Max
  BY <1>1, <1>2, CountedBelow
<1>11. ASSUME g[n] <= Int64Max PROVE f[n] = g[n]
  <2> HIDE DEF n
  <2> DEFINE T == {i \in 0..n : g[n - i] <= g[n]}
             S == {i \in 0..n : f[i] = g[i]}
  <2>1. 0 \in T
    BY <1>1, <1>9
  <2>2. ASSUME NEW i \in 1..n, i - 1 \in T PROVE i \in T
    <3> DEFINE p == n - (i - 1)
               q == n - i
               c == DigitOf(digits[p])
    <3>1. p \in 1..n /\ p - 1 = q /\ q \in 0..n /\ i \in 0..n
      BY <1>1
    <3>2. g[p] <= g[n]
      BY <2>2
    <3> HIDE DEF p
    <3>3. g[p] = 10 * g[q] + c
      BY <1>6, <3>1
    <3>4. c \in 0..9 /\ g[q] \in Nat
      BY <1>6, <1>8, <3>1
    <3> HIDE DEF q, c
    <3>5. g[q] <= g[n]
      BY <1>9, <3>2, <3>3, <3>4
    <3> QED BY <3>1, <3>5 DEF q
  <2>3. \A i \in 0..n : i \in T
    <3> HIDE DEF T
    <3> QED BY <1>1, <2>1, <2>2, UpTo
  <2>4. \A i \in 0..n : g[i] <= Int64Max /\ g[i] \in Nat
    <3> SUFFICES ASSUME NEW i \in 0..n PROVE g[i] <= Int64Max /\ g[i] \in Nat
      OBVIOUS
    <3>1. n - i \in 0..n /\ n - (n - i) = i
      BY <1>1
    <3>2. g[i] <= g[n] /\ g[i] \in Nat
      BY <1>6, <2>3, <3>1
    <3> QED BY <1>9, <1>11, <3>2
  <2>5. 0 \in S
    BY <1>1, <1>6, <1>7
  <2>6. ASSUME NEW i \in 1..n, i - 1 \in S PROVE i \in S
    <3>1. i \in 0..n /\ i - 1 \in 0..n
      BY <1>1
    <3>2. g[i] = 10 * g[i - 1] + DigitOf(digits[i]) /\ digits[i] = s[i + b]
      BY <1>1, <1>6
    <3>3. f[i] = Wrap(10 * f[i - 1] + DigitOf(s[i + b]))
      BY <1>7
    <3>4. f[i - 1] = g[i - 1]
      BY <2>6
    <3>5. f[i] = Wrap(g[i])
      BY <3>2, <3>3, <3>4
    <3>6. g[i] \in 0..Int64Max
      BY <2>4, <3>1
    <3>7. Wrap(g[i]) = g[i]
      BY <3>6, WrapSmall
    <3> QED BY <3>1, <3>5, <3>7
  <2>7. \A i \in 0..n : i \in S
    <3> HIDE DEF S
    <3> QED BY <1>1, <2>5, <2>6, UpTo
  <2>8. n \in 0..n
    BY <1>1
  <2> QED BY <2>7, <2>8
<1>12. Decimal(digits) <= Int64Max => Accumulated(s) = Decimal(digits)
  BY <1>2, <1>3, <1>5, <1>11
<1>13. Len(s) = n + (DigitsFrom(s) - 1)
  BY <1>1 DEF b, from
<1> QED BY <1>1, <1>2, <1>9, <1>10, <1>12, <1>13

LEMMA NumbersExactNow ==
    ASSUME NEW A, text \in Seq(A)
    PROVE  NumbersExact
<1> USE IntegerLimits
<1> DEFINE digits == IF Negative(text) THEN Tail(text) ELSE text
           n == IF Negative(text) THEN -Decimal(digits) ELSE Decimal(digits)
           d == Decimal(digits)
           a == Accumulated(text)
<1> SUFFICES ASSUME text # <<>>, ToSet(digits) \subseteq Digits
             PROVE  /\ FastAtoi64(text) \subseteq {n}
                    /\ Len(digits) <= Digits64 => FastAtoi64(text) = {n}
                    /\ Len(digits) > Digits64 => FastAtoi64(text) = {}
                    /\ d <= Int64Max => FastAtoi32(text) = IF d <= Int32Max THEN {n} ELSE {}
  BY DEF NumbersExact
<1>1. digits = IF Negative(text) THEN Tail(text) ELSE text
  OBVIOUS
<1> HIDE DEF digits
<1>2. /\ digits \in Seq(A) /\ Len(text) = Len(digits) + (DigitsFrom(text) - 1)
      /\ d \in Nat
      /\ Len(digits) <= Digits64 => d <= Int64Max
      /\ d <= Int64Max => a = d
  BY <1>1, Exact
<1>3. n = IF Negative(text) THEN -d ELSE d
  OBVIOUS
<1>4. Signed(text) = IF Negative(text) THEN -a ELSE a
  BY DEF Signed
<1>5. ~NotANumber(text)
  <2>1. CASE Negative(text)
    BY <2>1 DEF NotANumber, Negative
  <2>2. CASE ~Negative(text)
    <3>1. text[1] \in ToSet(text)
      BY DEF ToSet
    <3> QED BY <1>1, <2>2, <3>1 DEF NotANumber
  <2> QED BY <2>1, <2>2
<1>6. TooLong(text) <=> ~(Len(digits) <= Digits64)
  <2>1. Len(digits) \in Nat /\ DigitsFrom(text) \in {1, 2}
    BY <1>2 DEF DigitsFrom
  <2> QED BY <1>2, <2>1 DEF TooLong
<1> HIDE DEF n, d, a
<1>7. /\ FastAtoi64(text) \subseteq {n}
      /\ Len(digits) <= Digits64 => FastAtoi64(text) = {n}
      /\ Len(digits) > Digits64 => FastAtoi64(text) = {}
  <2>1. FastAtoi64(text) = IF Len(digits) <= Digits64 THEN {Signed(text)} ELSE {}
    BY <1>5, <1>6 DEF FastAtoi64
  <2>2. Len(digits) <= Digits64 => Signed(text) = n
    BY <1>2, <1>3, <1>4
  <2>3. Len(digits) > Digits64 <=> ~(Len(digits) <= Digits64)
    BY <1>2, IntegerLimits
  <2> QED BY <2>1, <2>2, <2>3
<1>8. ASSUME d <= Int64Max PROVE FastAtoi32(text) = IF d <= Int32Max THEN {n} ELSE {}
  <2>1. a = d /\ Signed(text) = n
    BY <1>2, <1>3, <1>4, <1>8
  <2>2. a \notin (-Int32Max - 1)..Int32Max <=> ~(d <= Int32Max)
    BY <1>2, <2>1
  <2>3. FastAtoi32(text) = IF a \notin (-Int32Max - 1)..Int32Max THEN {} ELSE {Signed(text)}
    BY <1>5 DEF FastAtoi32, a
  <2> QED BY <2>1, <2>2, <2>3
<1> QED BY <1>7, <1>8 DEF d

-----------------------------------------------------------------------------
(* Targets                                                                 *)

\* r is s with t behind it.
Behind(A, s, t, r) ==
    /\ r \in Seq(A) /\ Len(r) = Len(s) + Len(t)
    /\ \A i \in 1..(Len(s) + Len(t)) : r[i] = IF i <= Len(s) THEN s[i] ELSE t[i - Len(s)]

LEMMA ConcatIs ==
    ASSUME NEW A, NEW s, s \in Seq(A), NEW t, t \in Seq(A)
    PROVE  Behind(A, s, t, s \o t)
BY ConcatProperties DEF Behind

\* A text is what is in front of a mark, the mark, and what is behind it.
LEMMA CutIs ==
    ASSUME NEW A, NEW t, t \in Seq(A), NEW c, c \in A
    PROVE  /\ Cut(t, c).before \in Seq(A) /\ Cut(t, c).behind \in Seq(A)
           /\ c \notin ToSet(Cut(t, c).before)
           /\ \E m \in {<<>>, <<c>>} :
                /\ (Cut(t, c).before \o m) \o Cut(t, c).behind = t
                /\ m = <<>> => Cut(t, c).behind = <<>>
<1> DEFINE p == FirstIn(t, 1, {c})
           n == Len(t)
           x == SubSeq(t, 1, p - 1)
           y == SubSeq(t, p + 1, n)
           m == IF p <= n THEN <<c>> ELSE <<>>
<1>1. Cut(t, c).before = x /\ Cut(t, c).behind = y
  BY DEF Cut, From
<1>2. n \in Nat
  OBVIOUS
<1>3. /\ Found(t, 1, p) /\ (p <= n => t[p] \in {c})
      /\ \A i \in 1..n : i < p => t[i] \notin {c}
  BY FirstInIs
<1> HIDE DEF p
<1>4. p \in 1..(n + 1) /\ p - 1 \in 0..n
  BY <1>2, <1>3 DEF Found
<1>5. x \in Seq(A) /\ Len(x) = p - 1 /\ \A i \in 1..(p - 1) : x[i] = t[i]
  BY <1>4
<1>6. y \in Seq(A) /\ Len(y) = (IF p <= n THEN n - p ELSE 0) /\ \A i \in 1..(n - p) : y[i] = t[i + p]
  BY <1>4
<1>7. m \in Seq(A) /\ Len(m) = (IF p <= n THEN 1 ELSE 0) /\ (p <= n => m[1] = t[p])
  BY <1>3
<1> HIDE DEF x, y, m
<1>8. c \notin ToSet(x)
  <2>1. ASSUME NEW i \in DOMAIN x PROVE x[i] # c
    <3>1. i \in 1..(p - 1) /\ i \in 1..n /\ i < p
      BY <1>2, <1>4, <1>5
    <3> QED BY <1>3, <1>5, <3>1
  <2> QED BY <2>1 DEF ToSet
<1>9. (x \o m) \o y = t
  <2> DEFINE w == x \o m
             z == w \o y
             l == Len(w)
  <2>1. w \in Seq(A) /\ l = Len(x) + Len(m)
        /\ \A i \in 1..(Len(x) + Len(m)) : w[i] = IF i <= Len(x) THEN x[i] ELSE m[i - Len(x)]
    <3>1. x \in Seq(A) /\ m \in Seq(A)
      BY <1>5, <1>7
    <3>2. Behind(A, x, m, w)
      BY ONLY <3>1, ConcatIs
    <3> HIDE DEF w
    <3> QED BY <3>2 DEF Behind
  <2> HIDE DEF w
  <2>2. z \in Seq(A) /\ Len(z) = l + Len(y)
        /\ \A i \in 1..(l + Len(y)) : z[i] = IF i <= l THEN w[i] ELSE y[i - l]
    <3>1. w \in Seq(A) /\ y \in Seq(A)
      BY <1>6, <2>1
    <3>2. Behind(A, w, y, z)
      BY ONLY <3>1, ConcatIs
    <3> HIDE DEF z
    <3> QED BY <3>2 DEF Behind
  <2> HIDE DEF z
  <2>3. l = (IF p <= n THEN p ELSE n) /\ l \in 0..n /\ l + Len(y) = n
    BY <1>2, <1>4, <1>5, <1>6, <1>7, <2>1
  <2> HIDE DEF l
  <2>4. ASSUME NEW i \in 1..l PROVE w[i] = t[i]
    <3>1. i \in 1..(Len(x) + Len(m))
      BY <2>1
    <3>2. CASE i < p
      <4>1. i <= Len(x) /\ i \in 1..(p - 1)
        BY <1>4, <1>5, <3>2
      <4> QED BY <1>5, <2>1, <3>1, <4>1
    <3>3. CASE ~(i < p)
      <4>1. i = p /\ p <= n /\ ~(i <= Len(x)) /\ i - Len(x) = 1
        BY <1>2, <1>4, <1>5, <2>3, <3>3
      <4> QED BY <1>7, <2>1, <3>1, <4>1
    <3> QED BY <3>2, <3>3
  <2>5. ASSUME NEW i \in 1..n PROVE z[i] = t[i]
    <3>1. i \in 1..(l + Len(y))
      BY <2>3
    <3>2. CASE i <= l
      <4>1. i \in 1..l
        BY <2>3, <3>2
      <4> QED BY <2>2, <2>4, <3>1, <3>2, <4>1
    <3>3. CASE ~(i <= l)
      <4>1. l = p /\ i - l \in 1..(n - p) /\ (i - l) + p = i
        BY <1>2, <1>4, <2>3, <3>3
      <4>2. y[i - l] = t[(i - l) + p]
        BY <1>6, <4>1
      <4> QED BY <2>2, <3>1, <3>3, <4>1, <4>2
    <3> QED BY <3>2, <3>3
  <2>6. z = t
    BY <2>2, <2>3, <2>5, SeqEqual
  <2> QED BY <2>6 DEF z, w
<1>10. m \in {<<>>, <<c>>} /\ (m = <<>> => y = <<>>)
  <2>1. CASE p <= n
    BY <1>7, <2>1 DEF m
  <2>2. CASE ~(p <= n)
    BY <1>6, <2>2 DEF m
  <2> QED BY <2>1, <2>2
<1> QED BY <1>1, <1>5, <1>6, <1>8, <1>9, <1>10

LEMMA ConcatSet ==
    ASSUME NEW A, NEW s \in Seq(A), NEW t \in Seq(A)
    PROVE  ToSet(s) \subseteq ToSet(s \o t) /\ ToSet(t) \subseteq ToSet(s \o t)
           /\ ToSet(s \o t) \subseteq ToSet(s) \cup ToSet(t)
<1>1. \A i \in DOMAIN s : i \in DOMAIN (s \o t) /\ (s \o t)[i] = s[i]
  OBVIOUS
<1>2. \A i \in DOMAIN t : i + Len(s) \in DOMAIN (s \o t) /\ (s \o t)[i + Len(s)] = t[i]
  OBVIOUS
<1>3. ASSUME NEW i \in DOMAIN (s \o t) PROVE (s \o t)[i] \in ToSet(s) \cup ToSet(t)
  <2>1. CASE i <= Len(s)
    <3>1. i \in DOMAIN s /\ (s \o t)[i] = s[i]
      BY <2>1
    <3> QED BY <3>1 DEF ToSet
  <2>2. CASE ~(i <= Len(s))
    <3>1. i - Len(s) \in DOMAIN t /\ (s \o t)[i] = t[i - Len(s)]
      BY <2>2
    <3> QED BY <3>1 DEF ToSet
  <2> QED BY <2>1, <2>2
<1> QED BY <1>1, <1>2, <1>3 DEF ToSet

LEMMA TargetExactNow ==
    ASSUME NEW B, text \in Seq(B)
    PROVE  TargetExact
<1> DEFINE hash == "#"
           mark == "?"
           A == B \cup {hash, mark}
           t == SplitPath(text)
           f == Cut(text, hash)
           g == f.before
           q == Cut(g, mark)
<1>1. t.path = q.before /\ t.qs = q.behind /\ t.fragment = f.behind
  BY DEF SplitPath
<1>2. text \in Seq(A) /\ hash \in A /\ mark \in A
  OBVIOUS
<1> HIDE DEF hash, mark, A
<1>3. g \in Seq(A) /\ f.behind \in Seq(A) /\ hash \notin ToSet(g)
  BY <1>2, CutIs
<1>4. PICK m \in {<<>>, <<hash>>} : (g \o m) \o f.behind = text /\ (m = <<>> => f.behind = <<>>)
  BY <1>2, CutIs
<1> HIDE DEF f, g
<1>5. q.before \in Seq(A) /\ q.behind \in Seq(A) /\ mark \notin ToSet(q.before)
  BY <1>2, <1>3, CutIs
<1>6. PICK k \in {<<>>, <<mark>>} : (q.before \o k) \o q.behind = g /\ (k = <<>> => q.behind = <<>>)
  BY <1>2, <1>3, CutIs
<1> HIDE DEF t, q
<1>7. hash \notin ToSet(t.path \o t.qs)
  <2> DEFINE b == q.before
             e == q.behind
  <2>5. k \in Seq(A)
    <3>1. <<mark>> \in Seq(A) /\ <<>> \in Seq(A)
      BY <1>2
    <3> QED BY <3>1
  <2>1. b \in Seq(A) /\ e \in Seq(A)
    BY <1>5
  <2> HIDE DEF b, e
  <2>4. b \o k \in Seq(A)
    BY <2>5, <2>1, ConcatIs DEF Behind
  <2>2. /\ ToSet(b) \subseteq ToSet(b \o k) /\ ToSet(b \o k) \subseteq ToSet((b \o k) \o e)
        /\ ToSet(e) \subseteq ToSet((b \o k) \o e) /\ ToSet(b \o e) \subseteq ToSet(b) \cup ToSet(e)
    BY <2>5, <2>1, <2>4, ConcatSet
  <2>3. (b \o k) \o e = g /\ t.path = b /\ t.qs = e
    BY <1>1, <1>6 DEF b, e
  <2> QED BY <1>3, <2>2, <2>3
<1>8. (((t.path \o k) \o t.qs) \o m) \o t.fragment = text
  BY <1>1, <1>4, <1>6
<1>9. (k = <<>> => t.qs = <<>>) /\ (m = <<>> => t.fragment = <<>>) /\ mark \notin ToSet(t.path)
  BY <1>1, <1>4, <1>5, <1>6
<1> QED
  <2> SUFFICES \E x \in {<<>>, <<mark>>}, y \in {<<>>, <<hash>>} :
                    /\ (((t.path \o x) \o t.qs) \o y) \o t.fragment = text
                    /\ (x = <<>> => t.qs = <<>>) /\ (y = <<>> => t.fragment = <<>>)
    BY <1>7, <1>9 DEF TargetExact, t, mark, hash
  <2> WITNESS k \in {<<>>, <<mark>>}, m \in {<<>>, <<hash>>}
  <2> QED BY <1>8, <1>9

\* The headers of a complete head h.
LinesRead(k, h) ==
    LET lines == h.headers
        lengths == {i \in DOMAIN lines : lines[i][1] = ContentLength}
    IN  /\ \A i \in DOMAIN lines :
            /\ ToSet(lines[i][1]) \cap NotInNames = {}
            /\ ToSet(lines[i][2]) \cap Controls = {}
            /\ lines[i][2] # <<>> => Last(lines[i][2]) \notin Blanks
            /\ lines[i][1] = <<>> => i > 1
        /\ k = "response" \/ Distinct(lines) =>
            h.length = IF lengths = {} THEN {0} ELSE FastAtoi64(lines[FirstPlace(lengths)][2])

LEMMA HeadersAreRead ==
    ASSUME NEW A, NEW s \in Seq(A), NEW k \in HeadKinds, NEW h, h = HeadOf(k, s), h.status = "Complete"
    PROVE  LinesRead(k, h)
<1> USE HeaderLimit
<1> DEFINE lines == h.headers
           lengths == {i \in DOMAIN lines : lines[i][1] = ContentLength}
           at == LengthAt(k, lines)
<1>1. /\ lines \in Lines(A) /\ Cleaned(lines, MaxHeaders)
      /\ h.length = LengthOf(lines, LengthAt(k, lines)) /\ h.length # {}
  BY CompleteHead
<1> HIDE DEF lines
<1>2. ASSUME NEW i \in DOMAIN lines
      PROVE  /\ ToSet(lines[i][1]) \cap NotInNames = {}
             /\ ToSet(lines[i][2]) \cap Controls = {}
             /\ lines[i][2] # <<>> => Last(lines[i][2]) \notin Blanks
             /\ lines[i][1] = <<>> => i > 1
  <2>1. i \in 1..Len(lines)
    BY <1>1 DEF Lines
  <2>2. Clean(lines[i]) /\ (lines[i][1] = <<>> => i > 1 \/ MaxHeaders < MaxHeaders)
    BY <1>1, <2>1 DEF Cleaned
  <2>3. ~(MaxHeaders < MaxHeaders)
    OBVIOUS
  <2> QED BY <2>2, <2>3 DEF Clean
<1>3. ASSUME k = "response" \/ Distinct(lines) PROVE at = lengths
  <2>1. CASE k = "response"
    BY <2>1 DEF LengthAt, Equal
  <2>2. CASE k # "response"
    <3>1. at = Like(lines, ContentLength) /\ Distinct(lines)
      BY <1>3, <2>2 DEF LengthAt
    <3>2. ASSUME NEW i \in DOMAIN lines PROVE IEquals(lines[i][1], ContentLength) <=> lines[i][1] = ContentLength
      <4>1. IEquals(lines[i][1], ContentLength) => lines[i][1] = ContentLength
        BY <3>1 DEF Distinct
      <4>2. IEquals(ContentLength, ContentLength)
        <5>1. Len(ContentLength) <= Len(ContentLength)
          BY DEF ContentLength
        <5> QED BY <5>1 DEF IEquals, IsPrefix
      <4> QED BY <4>1, <4>2
    <3> QED BY <3>1, <3>2 DEF Like
  <2> QED BY <2>1, <2>2
<1>4. at \subseteq DOMAIN lines
  BY DEF LengthAt, Equal, Like
<1>5. LengthOf(lines, at) = IF at = {} THEN {0} ELSE FastAtoi64(lines[FirstPlace(at)][2])
  <2> HIDE DEF at
  <2> QED BY ONLY <1>1, <1>4, LengthIs
<1> HIDE DEF at, lengths
<1>6. ASSUME k = "response" \/ Distinct(lines)
      PROVE  h.length = IF lengths = {} THEN {0} ELSE FastAtoi64(lines[FirstPlace(lengths)][2])
  <2>1. at = lengths
    BY <1>3, <1>6
  <2>2. h.length = LengthOf(lines, at)
    BY <1>1 DEF at
  <2> QED BY <1>5, <2>1, <2>2
<1> QED BY <1>2, <1>6 DEF lines, lengths, LinesRead

\* A request with a limit on its size, of which total bytes are in the buffer.
LEMMA RequestIsBounded ==
    ASSUME NEW A, NEW s \in Seq(A), s # <<>>, NEW k \in HeadKinds, NEW h, h = HeadOf(k, s),
           NEW total \in Nat, NEW maxSize \in Nat \ {0}
    PROVE  /\ total >= maxSize => ParseRequest(h, total, maxSize) # "Partial"
           /\ ParseRequest(h, total, maxSize) = "Complete" =>
                \A n \in h.length : n >= 0 => h.size + n <= total /\ h.size + n <= maxSize
<1> DEFINE c == CHOOSE n \in h.length : TRUE
           whole == h.size + c
           status == ParseRequest(h, total, maxSize)
<1>1. status = IF h.status # "Complete"
               THEN IF FullBuffer(total, maxSize) THEN "Err" ELSE h.status
               ELSE IF maxSize > 0 /\ whole > maxSize THEN "Err"
               ELSE IF total >= whole THEN "Complete" ELSE "Partial"
  BY DEF ParseRequest, Parse
<1>2. FullBuffer(total, maxSize) <=> total >= maxSize
  BY DEF FullBuffer
<1>3. CASE h.status # "Complete"
  <2> DEFINE x == h.status
  <2>1. status = IF FullBuffer(total, maxSize) THEN "Err" ELSE x
    BY <1>1, <1>3
  <2>2. x # "Complete"
    BY <1>3
  <2> HIDE DEF x, status
  <2>3. total >= maxSize => status = "Err"
    BY <1>2, <2>1
  <2>4. status # "Complete"
    BY <2>1, <2>2
  <2> QED BY <2>3, <2>4 DEF status
<1>4. CASE h.status = "Complete"
  <2>1. /\ h.size \in Nat /\ h.headers \in Lines(A) /\ h.length # {}
        /\ h.length = LengthOf(h.headers, LengthAt(k, h.headers))
    BY <1>4, CompleteHead
  <2> DEFINE lines == h.headers
             at == LengthAt(k, lines)
  <2>2. at \subseteq DOMAIN lines
    BY DEF LengthAt, Equal, Like
  <2>3. LengthOf(lines, at) = {} \/ \E n \in Int : LengthOf(lines, at) = {n}
    <3>1. lines \in Lines(A)
      BY <2>1
    <3> HIDE DEF at, lines
    <3> QED BY ONLY <2>2, <3>1, LengthIs
  <2>4. PICK n \in Int : h.length = {n}
    BY <2>1, <2>3
  <2>5. c = n
    BY <2>4
  <2> HIDE DEF c
  <2>6. whole \in Int /\ whole = h.size + n
    BY <2>1, <2>5
  <2>7. status = IF whole > maxSize THEN "Err" ELSE IF total >= whole THEN "Complete" ELSE "Partial"
    BY <1>1, <1>4
  <2> HIDE DEF whole, status
  <2>8. total >= maxSize => status # "Partial"
    <3>1. total >= maxSize /\ ~(whole > maxSize) => total >= whole
      BY <2>6
    <3> QED BY <2>7, <3>1
  <2>9. status = "Complete" => whole <= total /\ whole <= maxSize
    <3>1. /\ ~(whole > maxSize) => whole <= maxSize
          /\ total >= whole => whole <= total
      BY <2>6
    <3> QED BY <2>7, <3>1
  <2>10. status = "Complete" => \A m \in h.length : m >= 0 => h.size + m <= total /\ h.size + m <= maxSize
    BY <2>4, <2>6, <2>9
  <2> QED BY <2>8, <2>10 DEF status
<1> QED BY <1>3, <1>4

-----------------------------------------------------------------------------
(* Texts                                                                   *)

\* Every text is a sequence and the head is what parse says of it.
Reading == text \in Seq(ToSet(text)) /\ head = HeadOf(kind, text)

LEMMA ReadingInit == TextInit => Reading
<1> SUFFICES ASSUME TextInit PROVE Reading
  OBVIOUS
<1>1. PICK k \in DOMAIN Inputs : kind = k /\ text \in Inputs[k].start
  BY DEF TextInit
<1>2. text \in Seq(ToSet(text))
  BY <1>1, StartTexts
<1> QED BY <1>2 DEF TextInit, Reading

LEMMA GrowExtends ==
    ASSUME Reading, Grow
    PROVE  Reading' /\ Extends(ToSet(text'), text, text') /\ kind' = kind /\ Decided \in BOOLEAN
<1>1. PICK c \in Inputs[kind].chars : text' = Append(text, c)
  BY DEF Grow
<1>2. kind' = kind /\ head' = HeadOf(kind, text')
  BY DEF Grow
<1> DEFINE s == text
           t == Append(s, c)
           B == ToSet(t)
<1>3. s \in Seq(ToSet(s))
  BY DEF Reading
<1>4. Len(s) \in Nat /\ DOMAIN s = 1..Len(s)
  BY <1>3
<1> DEFINE D == ToSet(s) \cup {c}
<1>5. t \in Seq(D) /\ Len(t) = Len(s) + 1 /\ t[Len(s) + 1] = c /\ \A i \in 1..Len(s) : t[i] = s[i]
  <2>1. s \in Seq(D)
    <3>1. \A i \in 1..Len(s) : s[i] \in D
      BY <1>4 DEF ToSet
    <3> HIDE DEF D
    <3> QED BY <1>3, <3>1
  <2>2. c \in D
    OBVIOUS
  <2> HIDE DEF D
  <2> QED BY <2>1, <2>2, AppendProperties
<1> HIDE DEF t
<1>6. DOMAIN t = 1..Len(t) /\ Len(t) \in Nat
  BY <1>5
<1>7. \A i \in 1..Len(t) : t[i] \in B
  BY <1>6 DEF ToSet
<1>8. t \in Seq(B)
  <2> HIDE DEF B, D
  <2> QED BY <1>5, <1>7
<1>9. \A i \in 1..Len(s) : s[i] \in B
  BY <1>4, <1>5, <1>7
<1>10. s \in Seq(B)
  <2> HIDE DEF B
  <2> QED BY <1>3, <1>9
<1>11. Extends(B, s, t)
  BY <1>4, <1>5, <1>8, <1>10 DEF Extends
<1>12. text' = t
  BY <1>1 DEF t
<1>13. Reading'
  BY <1>2, <1>8, <1>12 DEF Reading
<1>14. Decided \in BOOLEAN
  BY DEF Decided, Heads
<1> QED BY <1>2, <1>11, <1>12, <1>13, <1>14

LEMMA ReadingStep == Reading /\ [Grow]_textVars => Reading'
<1> SUFFICES ASSUME Reading, [Grow]_textVars PROVE Reading'
  OBVIOUS
<1>1. CASE Grow
  BY <1>1, GrowExtends
<1>2. CASE UNCHANGED textVars
  BY <1>2 DEF Reading, textVars
<1> QED BY <1>1, <1>2

\* Heads are the texts of the kinds that HeadKinds names.
LEMMA KindIs == Heads => kind \in HeadKinds
BY DEF Heads, HeadKinds

LEMMA DecidedStep ==
    ASSUME Reading, [Grow]_textVars, Decided
    PROVE  head' = head
<1>1. CASE Grow
  <2>1. Reading' /\ Extends(ToSet(text'), text, text') /\ kind' = kind
    BY <1>1, GrowExtends
  <2>2. kind \in HeadKinds /\ text # <<>> /\ HeadOf(kind, text).status # "Partial"
    BY KindIs DEF Decided, Reading
  <2> DEFINE B == ToSet(text')
             t == text'
             k == kind
  <2> HIDE DEF B, t, k
  <2>3. Extends(B, text, t) /\ k \in HeadKinds /\ HeadOf(k, text).status # "Partial"
    BY <2>1, <2>2 DEF B, t, k
  <2>4. HeadOf(k, t) = HeadOf(k, text)
    BY <2>2, <2>3, DecidedStays
  <2>5. head' = HeadOf(k, t) /\ head = HeadOf(k, text)
    BY <2>1 DEF Reading, t, k
  <2> QED BY <2>4, <2>5
<1>2. CASE UNCHANGED textVars
  BY <1>2 DEF textVars
<1> QED BY <1>1, <1>2

\* What parse says of a head, other than Partial, is not changed by the next
\* character, in every reachable state: Request::parse and Response::parse
\* read the head again with every read of the connection.
THEOREM HeadsStable == TextSpec => HeadStable
<1>1. TextInit => Reading
  BY ReadingInit
<1>2. Reading /\ [Grow]_textVars => Reading'
  BY ReadingStep
<1>3. Reading /\ [Grow]_textVars => (Decided => head' = head)
  BY DecidedStep
<1> QED BY <1>1, <1>2, <1>3, PTL DEF TextSpec, HeadStable

LEMMA HeadEndsNow ==
    ASSUME Reading
    PROVE  HeadEnds
<1> SUFFICES ASSUME Heads
             PROVE  LET blank == EmptyLines(text)
                    IN  /\ head.status = "Complete" =>
                            \E e \in blank : head.size = Bytes(SubSeq(text, 1, e)) /\ \A d \in blank : d >= e
                        /\ head.status = "Partial" =>
                            \A e \in blank : Bytes(From(text, e)) < 9
  BY DEF HeadEnds
<1>1. kind \in HeadKinds /\ text \in Seq(ToSet(text)) /\ head = HeadOf(kind, text)
  BY KindIs DEF Reading
<1>2. EndsWell(text, HeadOf(kind, text))
  BY <1>1, HeadEndsWell
<1> QED BY <1>1, <1>2 DEF EndsWell

LEMMA HeadersReadNow ==
    ASSUME Reading
    PROVE  HeadersRead
<1> SUFFICES ASSUME Heads, head.status = "Complete"
             PROVE  LET h == head.headers
                        lengths == {i \in DOMAIN h : h[i][1] = ContentLength}
                    IN  /\ \A i \in DOMAIN h :
                            /\ ToSet(h[i][1]) \cap NotInNames = {}
                            /\ ToSet(h[i][2]) \cap Controls = {}
                            /\ h[i][2] # <<>> => Last(h[i][2]) \notin Blanks
                            /\ h[i][1] = <<>> => i > 1
                        /\ kind = "response" \/ Distinct(h) =>
                            head.length = IF lengths = {} THEN {0}
                                          ELSE FastAtoi64(h[CHOOSE i \in lengths : \A j \in lengths : i <= j][2])
  BY DEF HeadersRead
<1> DEFINE B == ToSet(text)
<1>1. text \in Seq(B) /\ head = HeadOf(kind, text) /\ kind \in HeadKinds
  BY KindIs DEF Reading
<1> HIDE DEF B
<1>2. LinesRead(kind, head)
  BY <1>1, HeadersAreRead
<1> QED BY <1>2 DEF LinesRead, FirstPlace

LEMMA BoundedNow ==
    ASSUME Reading
    PROVE  Bounded
<1> SUFFICES ASSUME Heads, kind # "response", text # <<>>
             PROVE  LET total == Bytes(text)
                    IN  \A maxSize \in (IF total = 1 THEN 1 ELSE total - 1)..(total + 1) :
                        LET status == ParseRequest(head, total, maxSize)
                        IN  /\ total >= maxSize => status # "Partial"
                            /\ status = "Complete" =>
                                \A n \in head.length : n >= 0 => head.size + n <= total /\ head.size + n <= maxSize
  BY DEF Bounded
<1> DEFINE total == Bytes(text)
<1>1. kind \in HeadKinds /\ text \in Seq(ToSet(text)) /\ head = HeadOf(kind, text)
  BY KindIs DEF Reading
<1>2. total \in Nat /\ total >= 1
  BY <1>1, BytesIs
<1> HIDE DEF total
<1>3. ASSUME NEW maxSize \in (IF total = 1 THEN 1 ELSE total - 1)..(total + 1)
      PROVE  /\ total >= maxSize => ParseRequest(head, total, maxSize) # "Partial"
             /\ ParseRequest(head, total, maxSize) = "Complete" =>
                    \A n \in head.length : n >= 0 => head.size + n <= total /\ head.size + n <= maxSize
  <2>1. maxSize \in Nat \ {0}
    BY <1>2
  <2> QED BY <1>1, <1>2, <2>1, RequestIsBounded
<1> QED BY <1>3 DEF total

\* A complete head ends with its first empty line, a head that goes on has none
\* but for the 9 bytes parse_http_version waits for: how far the parser has
\* read and where the head of the message ends are the same place.
THEOREM HeadsEnd == TextSpec => []HeadEnds
<1>1. TextInit => Reading
  BY ReadingInit
<1>2. Reading /\ [Grow]_textVars => Reading'
  BY ReadingStep
<1>3. Reading => HeadEnds
  BY HeadEndsNow
<1> QED BY <1>1, <1>2, <1>3, PTL DEF TextSpec

\* Names and values have no line ends and no blanks behind them, the first
\* header has a name, and the content-length is that of the first header with
\* this name, as parse_headers and Request::parse_head find it.
THEOREM HeadersAreAsSent == TextSpec => []HeadersRead
<1>1. TextInit => Reading
  BY ReadingInit
<1>2. Reading /\ [Grow]_textVars => Reading'
  BY ReadingStep
<1>3. Reading => HeadersRead
  BY HeadersReadNow
<1> QED BY <1>1, <1>2, <1>3, PTL DEF TextSpec

\* A request that reaches the limit on its size is decided, and one that is
\* complete is within the limit and the buffer, as Request::parse says.
THEOREM RequestsBounded == TextSpec => []Bounded
<1>1. TextInit => Reading
  BY ReadingInit
<1>2. Reading /\ [Grow]_textVars => Reading'
  BY ReadingStep
<1>3. Reading => Bounded
  BY BoundedNow
<1> QED BY <1>1, <1>2, <1>3, PTL DEF TextSpec


\* What fast_atoi64 and fast_atoi32 make of a number is its value, whatever the
\* widths of the integers are: no digit is lost and none overflows unnoticed;
\* and no number up to the maximum atoi.h:26 names is refused for its size.
THEOREM NumbersAreExact == TextSpec => []NumbersExact
<1>1. TextInit => Reading
  BY ReadingInit
<1>2. Reading /\ [Grow]_textVars => Reading'
  BY ReadingStep
<1>3. Reading => NumbersExact
  BY NumbersExactNow DEF Reading
<1> QED BY <1>1, <1>2, <1>3, PTL DEF TextSpec

\* Path, query string and fragment, as Request::parse_head cuts them, are the
\* whole target.
THEOREM TargetsAreCut == TextSpec => []TargetExact
<1>1. TextInit => Reading
  BY ReadingInit
<1>2. Reading /\ [Grow]_textVars => Reading'
  BY ReadingStep
<1>3. Reading => TargetExact
  BY TargetExactNow DEF Reading
<1> QED BY <1>1, <1>2, <1>3, PTL DEF TextSpec

-----------------------------------------------------------------------------
(* The buffer                                                              *)

USE BufferConfig
USE DEF peerVars, bufVars, picoVars, reqVars, Got, TailLen, AfterRequest, LoopOn, Reset

-----------------------------------------------------------------------------
(* Lemmas about the operators                                              *)

\* The end of a request is a position, and does not change when more come.
LEMMA EndFacts ==
    ASSUME TypeOK
    PROVE  /\ \A n \in 0..Len(wire) : EndOf(n) \in Nat
           /\ Start \in Nat /\ EndOf(Len(wire)) \in Nat
           /\ Len(wire) \in Nat /\ DOMAIN wire = 1..Len(wire)
           /\ Len(reqs) \in Nat /\ DOMAIN reqs = 1..Len(reqs)
           /\ Len(reqs) <= Len(wire) /\ Len(reqs) \in 0..Len(wire)
           /\ kept \subseteq 1..Len(reqs)
           /\ \A n \in 1..Len(wire) : wire[n].h \in Nat \ {0} /\ wire[n].b \in Nat
           /\ \A s \in Shapes, m \in Nat :
                /\ Append(wire, s) \in Seq(Shapes) /\ Append(ends, m) \in Seq(Nat)
                /\ Len(Append(wire, s)) = Len(wire) + 1
                /\ Len(Append(ends, m)) = Len(wire) + 1
                /\ Append(wire, s)[Len(wire) + 1] = s
                /\ Append(ends, m)[Len(wire) + 1] = m
                /\ \A n \in 1..Len(wire) : /\ Append(wire, s)[n] = wire[n]
                                           /\ Append(ends, m)[n] = ends[n]
<1>1. wire \in Seq(Shapes) /\ ends \in Seq(Nat) /\ Len(ends) = Len(wire) /\ Len(wire) \in Nat
  BY DEF TypeOK
<1>2. \A n \in 0..Len(wire) : EndOf(n) \in Nat
  BY <1>1 DEF EndOf
<1>3. /\ Len(reqs) \in 0..Len(wire) /\ Len(reqs) \in Nat
      /\ DOMAIN reqs = 1..Len(reqs) /\ kept \subseteq 1..Len(reqs)
  <2>1. /\ reqs \in Seq([buf : Nat, head : Nat]) /\ Len(reqs) <= Len(wire)
        /\ kept \subseteq DOMAIN reqs
    BY DEF TypeOK
  <2>2. Len(reqs) \in Nat /\ DOMAIN reqs = 1..Len(reqs)
    BY <2>1, LenProperties
  <2> QED BY <1>1, <2>1, <2>2
<1>4. \A n \in 1..Len(wire) : wire[n] \in Shapes
  BY <1>1
<1>5. \A n \in 1..Len(wire) : wire[n].h \in Nat \ {0} /\ wire[n].b \in Nat
  BY <1>4
<1>6. EndOf(Len(wire)) \in Nat /\ Start \in Nat
  BY <1>1, <1>2, <1>3 DEF Start
<1> QED BY <1>1, <1>2, <1>3, <1>5, <1>6

\* What BeginRequest adds.
LEMMA BeginFacts ==
    ASSUME TypeOK, NEW s \in Shapes, BeginRequest(s)
    PROVE  /\ wire' \in Seq(Shapes) /\ ends' \in Seq(Nat)
           /\ Len(wire') = Len(wire) + 1 /\ Len(ends') = Len(wire) + 1
           /\ wire'[Len(wire) + 1] = s
           /\ ends'[Len(wire) + 1] = EndOf(Len(wire)) + s.h + s.b
           /\ \A n \in 1..Len(wire) : wire'[n] = wire[n] /\ ends'[n] = ends[n]
           /\ \A n \in 0..Len(wire) : EndOf(n)' = EndOf(n)
           /\ EndOf(Len(wire))' = EndOf(Len(wire)) + s.h + s.b
           /\ Start' = Start /\ Len(reqs)' = Len(reqs)
           /\ Len(wire) \in Nat /\ EndOf(Len(wire)) \in Nat
           /\ s.h \in Nat \ {0} /\ s.b \in Nat
<1> DEFINE m == EndOf(Len(wire)) + s.h + s.b
<1>1. s.h \in Nat \ {0} /\ s.b \in Nat /\ Len(wire) \in Nat /\ EndOf(Len(wire)) \in Nat
  BY EndFacts DEF TypeOK
<1>2. wire' = Append(wire, s) /\ ends' = Append(ends, m) /\ UNCHANGED reqs
  BY DEF BeginRequest
<1>3. m \in Nat
  BY <1>1
<1> HIDE DEF m
<1>4. /\ wire' \in Seq(Shapes) /\ ends' \in Seq(Nat)
      /\ Len(wire') = Len(wire) + 1 /\ Len(ends') = Len(wire) + 1
      /\ wire'[Len(wire) + 1] = s /\ ends'[Len(wire) + 1] = m
      /\ \A n \in 1..Len(wire) : wire'[n] = wire[n] /\ ends'[n] = ends[n]
  BY <1>2, <1>3, EndFacts
<1>5. \A n \in 0..Len(wire) : EndOf(n)' = EndOf(n)
  BY <1>1, <1>4 DEF EndOf
<1>6. EndOf(Len(wire))' = m
  BY <1>1, <1>4 DEF EndOf
<1>7. Len(reqs) \in 0..Len(wire)
  BY <1>1 DEF TypeOK
<1>8. Start' = Start
  BY <1>2, <1>5, <1>7 DEF Start
<1> QED BY <1>1, <1>2, <1>4, <1>5, <1>6, <1>8 DEF m

\* The request that is parsed next.
LEMMA NextRequest ==
    ASSUME TypeOK, Positions, Framing, open, TailLen > 0
    PROVE  /\ Len(reqs) + 1 \in 1..Len(wire)
           /\ Shape.h \in Nat \ {0} /\ Shape.b \in Nat
           /\ ends[Len(reqs) + 1] = Start + Shape.h + Shape.b
           /\ EndOf(Len(reqs) + 1) = Start + Shape.h + Shape.b
<1>1. Start < arrived
  BY EndFacts DEF TypeOK, Framing
<1>2. Len(reqs) \in Nat /\ Len(wire) \in Nat /\ Len(reqs) <= Len(wire)
  BY DEF TypeOK
<1>3. Len(reqs) # Len(wire)
  BY <1>1, EndFacts DEF Positions, Start, TypeOK
<1>4. Len(reqs) + 1 \in 1..Len(wire) /\ Len(reqs) + 1 # 0 /\ (Len(reqs) + 1) - 1 = Len(reqs)
  BY <1>2, <1>3
<1>5. Shape.h \in Nat \ {0} /\ Shape.b \in Nat
  BY <1>4, EndFacts DEF Shape
<1>6. \A n \in 1..Len(wire) : ends[n] = EndOf(n - 1) + wire[n].h + wire[n].b
  BY EndFacts DEF Positions
<1>7. ends[Len(reqs) + 1] = EndOf(Len(reqs)) + Shape.h + Shape.b
  BY <1>4, <1>6 DEF Shape
<1>8. EndOf(Len(reqs) + 1) = ends[Len(reqs) + 1]
  BY <1>4 DEF EndOf
<1> QED BY <1>4, <1>5, <1>7, <1>8 DEF Start

\* One more request is made from the buffer in use.
LEMMA CompleteFacts ==
    ASSUME TypeOK, Positions, Framing, ParseComplete
    PROVE  /\ open /\ Len(reqs) + 1 \in 1..Len(wire)
           /\ reqs' \in Seq([buf : Nat, head : Nat]) /\ Len(reqs') = Len(reqs) + 1
           /\ reqs'[Len(reqs) + 1] = [buf |-> gen, head |-> HeadView]
           /\ \A k \in 1..Len(reqs) : reqs'[k] = reqs[k]
           /\ Start' = Start + Shape.h + Shape.b
           /\ processed' = processed + Shape.h + Shape.b
           /\ TailLen >= Shape.h + Shape.b /\ TailLen > 0
           /\ Shape.h \in Nat \ {0} /\ Shape.b \in Nat
           /\ Len(reqs) \in Nat /\ HeadView \in Nat
<1>1. open /\ TailLen > 0 /\ TailLen >= Shape.h + Shape.b
  BY DEF ParseComplete, Positions, HeadComplete
<1>2. Len(reqs) \in Nat /\ HeadView \in Nat
  BY DEF TypeOK, HeadView
<1>3. reqs' = Append(reqs, [buf |-> gen, head |-> HeadView]) /\ UNCHANGED ends
  BY DEF ParseComplete
<1>4. [buf |-> gen, head |-> HeadView] \in [buf : Nat, head : Nat]
  BY <1>2 DEF TypeOK
<1>5. /\ reqs' \in Seq([buf : Nat, head : Nat]) /\ Len(reqs') = Len(reqs) + 1
      /\ reqs'[Len(reqs) + 1] = [buf |-> gen, head |-> HeadView]
      /\ \A k \in 1..Len(reqs) : reqs'[k] = reqs[k]
  <2>1. reqs \in Seq([buf : Nat, head : Nat])
    BY DEF TypeOK
  <2> HIDE DEF HeadView
  <2> QED BY <1>3, <1>4, <2>1
<1>6. Start' = EndOf(Len(reqs) + 1)
  BY <1>3, <1>5 DEF Start, EndOf
<1>7. processed' = processed + Shape.h + Shape.b
  BY DEF ParseComplete
<1> QED BY <1>1, <1>2, <1>5, <1>6, <1>7, NextRequest

\* close() keeps the types, and closes.
LEMMA ShutFacts ==
    ASSUME TypeOK, Shut
    PROVE  open' = FALSE /\ pc' = "idle" /\ kept' \subseteq kept /\ UNCHANGED <<reqs, handed>>
  BY DEF Shut

-----------------------------------------------------------------------------
(* The inductive invariant, conjunct by conjunct                           *)

\* The quotient of a capacity and a threshold is a natural number.
LEMMA DivNat ==
    ASSUME NEW c \in Nat, NEW t \in Nat \ {0}
    PROVE  c \div t \in Nat
  OBVIOUS

\* Every variable keeps its type.
LEMMA TypeOKStep ==
    ASSUME TypeOK, Positions, Framing, [Next]_vars
    PROVE  TypeOK'
<1>1. CASE UNCHANGED vars
  BY <1>1 DEF vars, TypeOK, Positions, Framing, Start, EndOf, Shape
<1>2. ASSUME NEW s \in Shapes, BeginRequest(s) PROVE TypeOK'
  <2>1. /\ wire' \in Seq(Shapes) /\ ends' \in Seq(Nat) /\ Len(ends') = Len(wire')
       /\ Len(reqs') <= Len(wire')
    BY <1>2, BeginFacts DEF TypeOK, BeginRequest
  <2> QED BY <1>2, <2>1 DEF TypeOK, BeginRequest
<1>3. CASE SendBytes
  <2>1. EndOf(Len(wire)) \in Nat
    BY EndFacts DEF TypeOK
  <2> QED BY <1>3, <2>1 DEF TypeOK, SendBytes
<1>4. CASE EndStream
  BY <1>4 DEF TypeOK, Positions, Framing, EndStream
<1>5. CASE Read
  <2>1. size' \in Nat /\ state' \in {"Full", "Again"}
    BY <1>5 DEF TypeOK, Framing, Positions, Read
  <2> QED BY <1>5, <2>1 DEF TypeOK, Read
<1>6. CASE ReadError
  BY <1>6, ShutFacts DEF TypeOK, Positions, Framing, ReadError
<1>7. CASE ParseError
  BY <1>7, ShutFacts DEF TypeOK, Positions, Framing, ParseError
<1>8. CASE ParseComplete
  <2>1. processed' \in Nat /\ headGen' \in Nat
    <3>1. processed \in Nat /\ headGen' = HeadView
      BY <1>8 DEF TypeOK, ParseComplete
    <3> QED BY <1>8, <3>1, CompleteFacts
  <2>2. /\ reqs' \in Seq([buf : Nat, head : Nat]) /\ Len(reqs') <= Len(wire)
       /\ handed \in 0..Len(reqs') /\ kept' \subseteq DOMAIN reqs'
    <3>1. Len(reqs) \in Nat /\ kept \subseteq 1..Len(reqs) /\ handed \in 0..Len(reqs)
      BY EndFacts DEF TypeOK
    <3>2. kept' = kept \cup {Len(reqs) + 1}
      BY <1>8 DEF ParseComplete
    <3>3. DOMAIN reqs' = 1..(Len(reqs) + 1)
      BY <1>8, CompleteFacts
    <3>4. /\ reqs' \in Seq([buf : Nat, head : Nat]) /\ Len(reqs') = Len(reqs) + 1
         /\ Len(reqs) + 1 <= Len(wire)
      BY <1>8, EndFacts, CompleteFacts
    <3>5. handed \in 0..Len(reqs')
      BY <3>1, <3>4
    <3>6. 1..Len(reqs) \subseteq 1..(Len(reqs) + 1) /\ Len(reqs) + 1 \in 1..(Len(reqs) + 1)
      BY <3>1
    <3>7. kept' \subseteq DOMAIN reqs'
      BY <3>1, <3>2, <3>3, <3>6
    <3>8. Len(reqs') <= Len(wire)
      BY <3>4
    <3> QED BY <3>4, <3>5, <3>7, <3>8
  <2> QED BY <1>8, <2>1, <2>2 DEF TypeOK, ParseComplete
<1>9. CASE ParsePartial
  <2>1. headGen' \in Nat /\ parsed' \in BOOLEAN
    BY <1>9 DEF TypeOK, ParsePartial, HeadView, HeadComplete
  <2> QED BY <1>9, <2>1 DEF TypeOK, ParsePartial
<1>10. CASE KeepBuffer
  BY <1>10 DEF TypeOK, Positions, Framing, KeepBuffer
<1>11. CASE NewBuffer
  <2>1. open
    BY <1>11 DEF NewBuffer, Positions
  <2> QED BY <1>11, <2>1 DEF TypeOK, Framing, NewBuffer
<1>12. CASE NoBuffer
  BY <1>12, ShutFacts DEF TypeOK, Positions, Framing, NoBuffer
<1>13. CASE CbUser
  BY <1>13 DEF TypeOK, Positions, Framing, CbUser
<1>14. ASSUME NEW k \in kept, Release(k) PROVE TypeOK'
  BY <1>14 DEF TypeOK, Positions, Framing, Release
<1> QED BY <1>1, <1>2, <1>3, <1>4, <1>5, <1>6, <1>7, <1>8, <1>9, <1>10, <1>11, <1>12, <1>13, <1>14
         DEF Next, Peer, CbRead, User

\* Requests lie one behind the other in the stream.
LEMMA PositionsStep ==
    ASSUME TypeOK, Positions, [Next]_vars
    PROVE  Positions'
<1>1. CASE UNCHANGED vars
  BY <1>1 DEF vars, TypeOK, Positions, Start, EndOf, Shape
<1>2. ASSUME NEW s \in Shapes, BeginRequest(s) PROVE Positions'
  <2>1. ASSUME NEW n \in DOMAIN wire'
       PROVE  ends'[n] = EndOf(n - 1)' + wire'[n].h + wire'[n].b
    <3>1. n \in 1..(Len(wire) + 1) /\ DOMAIN wire = 1..Len(wire) /\ Len(wire) \in Nat
      BY SMTT(60), <1>2, <2>1, BeginFacts, EndFacts
    <3>0. n - 1 \in 0..Len(wire) /\ EndOf(n - 1)' = EndOf(n - 1)
      BY SMTT(60), <1>2, <3>1, BeginFacts
    <3>2. CASE n = Len(wire) + 1
      <4>1. n - 1 = Len(wire) /\ wire'[n] = s /\ ends'[n] = EndOf(Len(wire)) + s.h + s.b
        BY <1>2, <3>1, <3>2, BeginFacts
      <4> QED BY <3>0, <4>1
    <3>3. CASE n \in 1..Len(wire)
      <4>1. ends[n] = EndOf(n - 1) + wire[n].h + wire[n].b
        BY <3>1, <3>3 DEF Positions
      <4>2. wire'[n] = wire[n] /\ ends'[n] = ends[n]
        BY <1>2, <3>3, BeginFacts
      <4> QED BY <3>0, <4>1, <4>2
    <3> QED BY <3>1, <3>2, <3>3
  <2>2. arrived' <= EndOf(Len(wire))'
    <3>1. arrived' = EndOf(Len(wire))
      BY <1>2 DEF BeginRequest
    <3>2. /\ EndOf(Len(wire))' = EndOf(Len(wire)) + s.h + s.b
         /\ EndOf(Len(wire)) \in Nat /\ s.h \in Nat /\ s.b \in Nat
      BY <1>2, BeginFacts
    <3> QED BY <3>1, <3>2
  <2>3. (pc # "idle" => open)'
    BY <1>2 DEF BeginRequest, Positions
  <2> QED BY <2>1, <2>2, <2>3 DEF Positions
<1>3. CASE SendBytes
  <2>1. UNCHANGED <<wire, ends, pc, open>> /\ arrived' <= EndOf(Len(wire))
    BY <1>3, EndFacts DEF SendBytes, TypeOK
  <2> QED BY <2>1 DEF Positions, EndOf
<1>4. CASE EndStream
  <2>1. /\ UNCHANGED <<wire, ends, arrived, pc, open>>
    BY <1>4 DEF EndStream
  <2> QED BY <2>1 DEF Positions, EndOf
<1>5. CASE Read
  <2>1. /\ UNCHANGED <<wire, ends, arrived>> /\ (pc' # "idle" => open')
    BY <1>5 DEF Positions, Shut, Read
  <2> QED BY <2>1 DEF Positions, EndOf
<1>6. CASE ReadError
  <2>1. /\ UNCHANGED <<wire, ends, arrived>> /\ (pc' # "idle" => open')
    BY <1>6 DEF Positions, Shut, ReadError
  <2> QED BY <2>1 DEF Positions, EndOf
<1>7. CASE ParseError
  <2>1. /\ UNCHANGED <<wire, ends, arrived>> /\ (pc' # "idle" => open')
    BY <1>7 DEF Positions, Shut, ParseError
  <2> QED BY <2>1 DEF Positions, EndOf
<1>8. CASE ParseComplete
  <2>1. /\ UNCHANGED <<wire, ends, arrived>> /\ (pc' # "idle" => open')
    BY <1>8 DEF Positions, Shut, ParseComplete
  <2> QED BY <2>1 DEF Positions, EndOf
<1>9. CASE ParsePartial
  <2>1. /\ UNCHANGED <<wire, ends, arrived>> /\ (pc' # "idle" => open')
    BY <1>9 DEF Positions, Shut, ParsePartial
  <2> QED BY <2>1 DEF Positions, EndOf
<1>10. CASE KeepBuffer
  <2>1. /\ UNCHANGED <<wire, ends, arrived>> /\ (pc' # "idle" => open')
    BY <1>10 DEF Positions, Shut, KeepBuffer
  <2> QED BY <2>1 DEF Positions, EndOf
<1>11. CASE NewBuffer
  <2>1. /\ UNCHANGED <<wire, ends, arrived>> /\ (pc' # "idle" => open')
    BY <1>11 DEF Positions, Shut, NewBuffer
  <2> QED BY <2>1 DEF Positions, EndOf
<1>12. CASE NoBuffer
  <2>1. /\ UNCHANGED <<wire, ends, arrived>> /\ (pc' # "idle" => open')
    BY <1>12 DEF Positions, Shut, NoBuffer
  <2> QED BY <2>1 DEF Positions, EndOf
<1>13. CASE CbUser
  <2>1. /\ UNCHANGED <<wire, ends, arrived, pc, open>>
    BY <1>13 DEF CbUser
  <2> QED BY <2>1 DEF Positions, EndOf
<1>14. ASSUME NEW k \in kept, Release(k) PROVE Positions'
  <2>1. /\ UNCHANGED <<wire, ends, arrived, pc, open>>
    BY <1>14 DEF Release
  <2> QED BY <2>1 DEF Positions, EndOf
<1> QED BY <1>1, <1>2, <1>3, <1>4, <1>5, <1>6, <1>7, <1>8, <1>9, <1>10, <1>11, <1>12, <1>13, <1>14
         DEF Next, Peer, CbRead, User

\* Parsing goes on where the last request ended, and no byte is lost.
LEMMA FramingStep ==
    ASSUME TypeOK, Positions, Framing, [Next]_vars
    PROVE  Framing'
<1>1. CASE UNCHANGED vars
  BY <1>1 DEF vars, TypeOK, Positions, Framing, Start, EndOf, Shape
<1>2. ASSUME NEW s \in Shapes, BeginRequest(s) PROVE Framing'
  BY <1>2, BeginFacts DEF Framing, BeginRequest
<1>3. CASE SendBytes
  <2>1. Start' = Start /\ arrived' > arrived
    BY <1>3, EndFacts DEF Start, EndOf, SendBytes, TypeOK
  <2> QED BY <1>3, <2>1 DEF TypeOK, Framing, SendBytes
<1>4. CASE EndStream
  <2>1. Start' = Start
    BY <1>4 DEF Start, EndOf, EndStream
  <2> QED BY <1>4, <2>1 DEF TypeOK, Positions, Framing, EndStream
<1>5. CASE Read
  <2>1. Start' = Start
    BY <1>5 DEF Start, EndOf, Read
  <2> QED BY <1>5, <2>1 DEF TypeOK, Framing, Read
<1>6. CASE ReadError
  BY <1>6, ShutFacts DEF TypeOK, Positions, Framing, ReadError
<1>7. CASE ParseError
  BY <1>7, ShutFacts DEF TypeOK, Positions, Framing, ParseError
<1>8. CASE ParseComplete
  <2>1. UNCHANGED <<base, size, cap, arrived>>
    BY <1>8 DEF ParseComplete
  <2>2. Start \in Nat /\ processed \in Nat /\ size \in Nat /\ base \in Nat
    BY EndFacts DEF TypeOK
  <2>3. /\ open /\ Start' = Start + Shape.h + Shape.b
       /\ processed' = processed + Shape.h + Shape.b
       /\ size - processed >= Shape.h + Shape.b
       /\ Shape.h \in Nat /\ Shape.b \in Nat
    BY <1>8, CompleteFacts
  <2> QED BY <2>1, <2>2, <2>3 DEF Framing
<1>9. CASE ParsePartial
  <2>1. Start' = Start
    BY <1>9 DEF Start, EndOf, ParsePartial
  <2> QED BY <1>9, <2>1 DEF TypeOK, Positions, Framing, ParsePartial
<1>10. CASE KeepBuffer
  <2>1. Start' = Start
    BY <1>10 DEF Start, EndOf, KeepBuffer
  <2> QED BY <1>10, <2>1 DEF TypeOK, Positions, Framing, KeepBuffer
<1>11. CASE NewBuffer
  <2>1. Start' = Start
    BY <1>11 DEF Start, EndOf, NewBuffer
  <2> QED BY <1>11, <2>1 DEF TypeOK, Positions, Framing, NewBuffer
<1>12. CASE NoBuffer
  BY <1>12, ShutFacts DEF TypeOK, Positions, Framing, NoBuffer
<1>13. CASE CbUser
  <2>1. Start' = Start
    BY <1>13 DEF Start, EndOf, CbUser
  <2> QED BY <1>13, <2>1 DEF TypeOK, Positions, Framing, CbUser
<1>14. ASSUME NEW k \in kept, Release(k) PROVE Framing'
  <2>1. Start' = Start
    BY <1>14 DEF Start, EndOf, Release
  <2> QED BY <1>14, <2>1 DEF TypeOK, Positions, Framing, Release
<1> QED BY <1>1, <1>2, <1>3, <1>4, <1>5, <1>6, <1>7, <1>8, <1>9, <1>10, <1>11, <1>12, <1>13, <1>14
         DEF Next, Peer, CbRead, User

\* No complete request stays behind in the buffer.
LEMMA NoneLeftStep ==
    ASSUME TypeOK, Positions, Framing, NoneLeft, [Next]_vars
    PROVE  NoneLeft'
<1>1. CASE UNCHANGED vars
  BY <1>1 DEF vars, TypeOK, Positions, Framing, NoneLeft, Start, EndOf, Shape
<1>2. ASSUME NEW s \in Shapes, BeginRequest(s) PROVE NoneLeft'
  <2>1. UNCHANGED <<open, pc, base, size, reqs>> /\ arrived = EndOf(Len(wire))
    BY <1>2 DEF BeginRequest
  <2>2. ASSUME open, pc # "parse", Len(reqs) < Len(wire) + 1
       PROVE  ends'[Len(reqs) + 1] > Got
    <3>1. Len(reqs) \in Nat /\ Len(wire) \in Nat /\ Len(reqs) <= Len(wire)
      BY DEF TypeOK
    <3>2. CASE Len(reqs) = Len(wire)
      <4>1. Got <= EndOf(Len(wire)) /\ Got \in Nat
        BY <2>1, <2>2 DEF Framing, TypeOK
      <4>2. /\ ends'[Len(wire) + 1] = EndOf(Len(wire)) + s.h + s.b
           /\ EndOf(Len(wire)) \in Nat /\ s.h \in Nat \ {0} /\ s.b \in Nat
        BY <1>2, BeginFacts
      <4> QED BY <3>2, <4>1, <4>2
    <3>3. CASE Len(reqs) < Len(wire)
      <4>1. Len(reqs) + 1 \in 1..Len(wire) /\ ends[Len(reqs) + 1] > Got
        BY <2>2, <3>1, <3>3 DEF NoneLeft
      <4> QED BY <1>2, <4>1, BeginFacts
    <3> QED BY <3>1, <3>2, <3>3
  <2> QED BY <1>2, <2>1, <2>2, BeginFacts DEF NoneLeft
<1>3. CASE SendBytes
  <2>1. UNCHANGED <<ends, reqs, wire>> /\ Got' = Got
    BY <1>3 DEF SendBytes, TypeOK, Framing, Positions
  <2> QED BY <1>3, <2>1 DEF NoneLeft, SendBytes
<1>4. CASE EndStream
  <2>1. UNCHANGED <<ends, reqs, wire>> /\ Got' = Got
    BY <1>4 DEF EndStream, TypeOK, Framing, Positions
  <2> QED BY <1>4, <2>1 DEF NoneLeft, EndStream
<1>5. CASE Read
  BY <1>5 DEF Read, NoneLeft
<1>6. CASE ReadError
  BY <1>6, ShutFacts DEF NoneLeft, ReadError
<1>7. CASE ParseError
  BY <1>7, ShutFacts DEF NoneLeft, ParseError
<1>8. CASE ParseComplete
  BY <1>8 DEF ParseComplete, NoneLeft
<1>9. CASE ParsePartial
  <2>1. open /\ UNCHANGED <<ends, reqs, wire, base, size>>
    BY <1>9 DEF ParsePartial, Positions
  <2>2. ASSUME Len(reqs) < Len(wire)
       PROVE  ends[Len(reqs) + 1] > Got
    <3>1. Len(reqs) + 1 \in 1..Len(wire) /\ (Len(reqs) + 1) - 1 = Len(reqs)
      BY <2>2, EndFacts
    <3>2. \A n \in 1..Len(wire) : ends[n] = EndOf(n - 1) + wire[n].h + wire[n].b
      BY EndFacts DEF Positions
    <3>3. /\ ends[Len(reqs) + 1] = Start + Shape.h + Shape.b
         /\ Shape.h \in Nat \ {0} /\ Shape.b \in Nat
      BY <3>1, <3>2, EndFacts DEF Start, Shape
    <3>4. TailLen < Shape.h + Shape.b
      <4>1. ~(TailLen > 0 /\ (parsed \/ TailLen >= Shape.h) /\ TailLen >= Shape.h + Shape.b)
        BY <1>9 DEF ParsePartial, HeadComplete
      <4>2. TailLen \in Nat
        BY <2>1 DEF TypeOK, Framing
      <4> HIDE DEF TailLen
      <4> QED BY <3>3, <4>1, <4>2
    <3>5. base + processed = Start /\ base \in Nat /\ processed \in Nat /\ size \in Nat
      BY <2>1 DEF Framing, TypeOK
    <3> QED BY SMTT(60), <3>3, <3>4, <3>5, EndFacts
  <2> QED BY <2>1, <2>2 DEF NoneLeft
<1>10. CASE KeepBuffer
  <2>1. UNCHANGED <<ends, reqs, wire>> /\ Got' = Got
    BY <1>10 DEF KeepBuffer, TypeOK, Framing, Positions
  <2> QED BY <1>10, <2>1 DEF NoneLeft, KeepBuffer
<1>11. CASE NewBuffer
  <2>1. UNCHANGED <<ends, reqs, wire>> /\ Got' = Got
    BY <1>11 DEF NewBuffer, TypeOK, Framing, Positions
  <2> QED BY <1>11, <2>1 DEF NoneLeft, NewBuffer
<1>12. CASE NoBuffer
  BY <1>12, ShutFacts DEF NoneLeft, NoBuffer
<1>13. CASE CbUser
  <2>1. UNCHANGED <<ends, reqs, wire>> /\ Got' = Got
    BY <1>13 DEF CbUser, TypeOK, Framing, Positions
  <2> QED BY <1>13, <2>1 DEF NoneLeft, CbUser
<1>14. ASSUME NEW k \in kept, Release(k) PROVE NoneLeft'
  <2>1. UNCHANGED <<ends, reqs, wire>> /\ Got' = Got
    BY <1>14 DEF Release, TypeOK, Framing, Positions
  <2> QED BY <1>14, <2>1 DEF NoneLeft, Release
<1> QED BY <1>1, <1>2, <1>3, <1>4, <1>5, <1>6, <1>7, <1>8, <1>9, <1>10, <1>11, <1>12, <1>13, <1>14
         DEF Next, Peer, CbRead, User

\* Every read finds room.
LEMMA HasRoomStep ==
    ASSUME TypeOK, Positions, Framing, HasRoom, [Next]_vars
    PROVE  HasRoom'
<1>1. CASE UNCHANGED vars
  BY <1>1 DEF vars, TypeOK, Positions, Framing, HasRoom, Start, EndOf, Shape
<1>2. ASSUME NEW s \in Shapes, BeginRequest(s) PROVE HasRoom'
  BY <1>2 DEF TypeOK, Positions, Framing, HasRoom, BeginRequest
<1>3. CASE SendBytes
  BY <1>3 DEF TypeOK, Positions, Framing, HasRoom, SendBytes
<1>4. CASE EndStream
  BY <1>4 DEF TypeOK, Positions, Framing, HasRoom, EndStream
<1>5. CASE Read
  BY <1>5 DEF TypeOK, Positions, Framing, HasRoom, Read
<1>6. CASE ReadError
  BY <1>6, ShutFacts DEF HasRoom, ReadError
<1>7. CASE ParseError
  BY <1>7, ShutFacts DEF HasRoom, ParseError
<1>8. CASE ParseComplete
  BY <1>8 DEF TypeOK, Positions, Framing, HasRoom, ParseComplete
<1>9. CASE ParsePartial
  BY <1>9 DEF TypeOK, Positions, Framing, HasRoom, ParsePartial
<1>10. CASE KeepBuffer
  <2>1. cap \div Threshold \in Nat
    BY DivNat DEF TypeOK
  <2>2. size < cap - cap \div Threshold
    BY <1>10, <2>1 DEF KeepBuffer, RenewDue, TypeOK
  <2> QED BY <1>10, <2>1, <2>2 DEF TypeOK, HasRoom, KeepBuffer
<1>11. CASE NewBuffer
  BY <1>11 DEF TypeOK, Positions, Framing, HasRoom, NewBuffer
<1>12. CASE NoBuffer
  BY <1>12, ShutFacts DEF HasRoom, NoBuffer
<1>13. CASE CbUser
  BY <1>13 DEF TypeOK, Positions, Framing, HasRoom, CbUser
<1>14. ASSUME NEW k \in kept, Release(k) PROVE HasRoom'
  BY <1>14 DEF TypeOK, Positions, Framing, HasRoom, Release
<1> QED BY <1>1, <1>2, <1>3, <1>4, <1>5, <1>6, <1>7, <1>8, <1>9, <1>10, <1>11, <1>12, <1>13, <1>14
         DEF Next, Peer, CbRead, User

\* A parsed head belongs to the next request, whose body is missing.
LEMMA HeadPendingStep ==
    ASSUME TypeOK, Positions, Framing, HeadPending, [Next]_vars
    PROVE  HeadPending'
<1>1. CASE UNCHANGED vars
  BY <1>1 DEF vars, TypeOK, Positions, Framing, HeadPending, Start, EndOf, Shape
<1>2. ASSUME NEW s \in Shapes, BeginRequest(s) PROVE HeadPending'
  <2>1. UNCHANGED <<open, parsed, reqs, size, processed>>
    BY <1>2 DEF BeginRequest
  <2>2. open /\ parsed => Len(reqs) + 1 \in 1..Len(wire)
    BY EndFacts DEF HeadPending
  <2>3. open /\ parsed => Shape' = Shape
    BY <1>2, <2>1, <2>2, BeginFacts DEF Shape
  <2>4. open /\ parsed => Len(reqs') < Len(wire')
    BY <1>2, <2>1, <2>2, BeginFacts, EndFacts
  <2> QED BY <2>1, <2>3, <2>4 DEF HeadPending
<1>3. CASE SendBytes
  <2>1. UNCHANGED <<open, parsed, wire, reqs>> /\ (open => TailLen' >= TailLen)
    BY <1>3 DEF SendBytes, TypeOK, Framing, Positions
  <2>2. open /\ parsed => Shape.h \in Nat
    <3>1. open /\ parsed => Len(reqs) + 1 \in 1..Len(wire)
      BY EndFacts DEF HeadPending
    <3> QED BY <3>1, EndFacts DEF Shape
  <2>3. Shape' = Shape /\ TailLen \in Int /\ (open => TailLen' \in Int)
    BY <1>3, <2>1 DEF Shape, TypeOK, Framing, Positions, SendBytes
  <2> QED BY <2>1, <2>2, <2>3 DEF HeadPending
<1>4. CASE EndStream
  <2>1. UNCHANGED <<open, parsed, wire, reqs>> /\ (open => TailLen' >= TailLen)
    BY <1>4 DEF EndStream, TypeOK, Framing, Positions
  <2>2. open /\ parsed => Shape.h \in Nat
    <3>1. open /\ parsed => Len(reqs) + 1 \in 1..Len(wire)
      BY EndFacts DEF HeadPending
    <3> QED BY <3>1, EndFacts DEF Shape
  <2>3. Shape' = Shape /\ TailLen \in Int /\ (open => TailLen' \in Int)
    BY <1>4, <2>1 DEF Shape, TypeOK, Framing, Positions, EndStream
  <2> QED BY <2>1, <2>2, <2>3 DEF HeadPending
<1>5. CASE Read
  <2>1. UNCHANGED <<open, parsed, wire, reqs>> /\ (open => TailLen' >= TailLen)
    BY <1>5 DEF Read, TypeOK, Framing, Positions
  <2>2. open /\ parsed => Shape.h \in Nat
    <3>1. open /\ parsed => Len(reqs) + 1 \in 1..Len(wire)
      BY EndFacts DEF HeadPending
    <3> QED BY <3>1, EndFacts DEF Shape
  <2>3. Shape' = Shape /\ TailLen \in Int /\ (open => TailLen' \in Int)
    BY <1>5, <2>1 DEF Shape, TypeOK, Framing, Positions, Read
  <2> QED BY <2>1, <2>2, <2>3 DEF HeadPending
<1>6. CASE ReadError
  BY <1>6, ShutFacts DEF HeadPending, ReadError
<1>7. CASE ParseError
  BY <1>7, ShutFacts DEF HeadPending, ParseError
<1>8. CASE ParseComplete
  BY <1>8 DEF ParseComplete, HeadPending
<1>9. CASE ParsePartial
  <2>1. open /\ UNCHANGED <<open, wire, reqs, size, processed>> /\ parsed' = HeadComplete
    BY <1>9 DEF ParsePartial, Positions
  <2>2. HeadComplete => TailLen > 0 /\ TailLen >= Shape.h
    BY <2>1 DEF HeadComplete, HeadPending
  <2>3. HeadComplete => Len(reqs) < Len(wire) /\ Shape.b > 0
    <3>1. ASSUME HeadComplete
         PROVE  Len(reqs) < Len(wire) /\ Shape.b > 0
      <4>1. /\ Len(reqs) + 1 \in 1..Len(wire) /\ Shape.h \in Nat /\ Shape.b \in Nat
        BY <2>1, <2>2, <3>1, NextRequest
      <4>2. ~(TailLen >= Shape.h + Shape.b) /\ TailLen \in Int
        BY <1>9, <3>1 DEF ParsePartial, TypeOK
      <4> QED BY <2>2, <3>1, <4>1, <4>2, EndFacts
    <3> QED BY <3>1
  <2> QED BY <2>1, <2>2, <2>3 DEF HeadPending, Shape
<1>10. CASE KeepBuffer
  <2>1. UNCHANGED <<open, parsed, wire, reqs>> /\ (open => TailLen' >= TailLen)
    BY <1>10 DEF KeepBuffer, TypeOK, Framing, Positions
  <2>2. open /\ parsed => Shape.h \in Nat
    <3>1. open /\ parsed => Len(reqs) + 1 \in 1..Len(wire)
      BY EndFacts DEF HeadPending
    <3> QED BY <3>1, EndFacts DEF Shape
  <2>3. Shape' = Shape /\ TailLen \in Int /\ (open => TailLen' \in Int)
    BY <1>10, <2>1 DEF Shape, TypeOK, Framing, Positions, KeepBuffer
  <2> QED BY <2>1, <2>2, <2>3 DEF HeadPending
<1>11. CASE NewBuffer
  <2>1. open /\ UNCHANGED <<open, parsed, wire, reqs>> /\ TailLen' = TailLen
    BY <1>11 DEF NewBuffer, TypeOK, Framing, Positions
  <2> QED BY <1>11, <2>1 DEF HeadPending, Shape
<1>12. CASE NoBuffer
  BY <1>12, ShutFacts DEF HeadPending, NoBuffer
<1>13. CASE CbUser
  <2>1. UNCHANGED <<open, parsed, wire, reqs>> /\ (open => TailLen' >= TailLen)
    BY <1>13 DEF CbUser, TypeOK, Framing, Positions
  <2>2. open /\ parsed => Shape.h \in Nat
    <3>1. open /\ parsed => Len(reqs) + 1 \in 1..Len(wire)
      BY EndFacts DEF HeadPending
    <3> QED BY <3>1, EndFacts DEF Shape
  <2>3. Shape' = Shape /\ TailLen \in Int /\ (open => TailLen' \in Int)
    BY <1>13, <2>1 DEF Shape, TypeOK, Framing, Positions, CbUser
  <2> QED BY <2>1, <2>2, <2>3 DEF HeadPending
<1>14. ASSUME NEW k \in kept, Release(k) PROVE HeadPending'
  <2>1. UNCHANGED <<open, parsed, wire, reqs>> /\ (open => TailLen' >= TailLen)
    BY <1>14 DEF Release, TypeOK, Framing, Positions
  <2>2. open /\ parsed => Shape.h \in Nat
    <3>1. open /\ parsed => Len(reqs) + 1 \in 1..Len(wire)
      BY EndFacts DEF HeadPending
    <3> QED BY <3>1, EndFacts DEF Shape
  <2>3. Shape' = Shape /\ TailLen \in Int /\ (open => TailLen' \in Int)
    BY <1>14, <2>1 DEF Shape, TypeOK, Framing, Positions, Release
  <2> QED BY <2>1, <2>2, <2>3 DEF HeadPending
<1> QED BY <1>1, <1>2, <1>3, <1>4, <1>5, <1>6, <1>7, <1>8, <1>9, <1>10, <1>11, <1>12, <1>13, <1>14
         DEF Next, Peer, CbRead, User

\* A request without a body points into its own buffer.
LEMMA OwnHeadStep ==
    ASSUME TypeOK, Positions, Framing, HeadPending, OwnHead, [Next]_vars
    PROVE  OwnHead'
<1>1. CASE UNCHANGED vars
  BY <1>1 DEF vars, TypeOK, Positions, Framing, HeadPending, OwnHead, Start, EndOf, Shape
<1>2. ASSUME NEW s \in Shapes, BeginRequest(s) PROVE OwnHead'
  <2>1. UNCHANGED <<reqs, kept>> /\ \A k \in kept : k \in 1..Len(wire)
    BY <1>2, EndFacts DEF BeginRequest
  <2>2. \A k \in kept : wire'[k] = wire[k]
    BY <1>2, <2>1, BeginFacts
  <2> QED BY <2>1, <2>2 DEF OwnHead
<1>3. CASE SendBytes
  <2>1. UNCHANGED <<wire, reqs>> /\ kept' \subseteq kept
    BY <1>3 DEF Shut, SendBytes
  <2> QED BY <2>1 DEF OwnHead
<1>4. CASE EndStream
  <2>1. UNCHANGED <<wire, reqs>> /\ kept' \subseteq kept
    BY <1>4 DEF Shut, EndStream
  <2> QED BY <2>1 DEF OwnHead
<1>5. CASE Read
  <2>1. UNCHANGED <<wire, reqs>> /\ kept' \subseteq kept
    BY <1>5 DEF Shut, Read
  <2> QED BY <2>1 DEF OwnHead
<1>6. CASE ReadError
  <2>1. UNCHANGED <<wire, reqs>> /\ kept' \subseteq kept
    BY <1>6 DEF Shut, ReadError
  <2> QED BY <2>1 DEF OwnHead
<1>7. CASE ParseError
  <2>1. UNCHANGED <<wire, reqs>> /\ kept' \subseteq kept
    BY <1>7 DEF Shut, ParseError
  <2> QED BY <2>1 DEF OwnHead
<1>8. CASE ParseComplete
  <2>1. UNCHANGED wire /\ kept' = kept \cup {Len(reqs) + 1} /\ kept \subseteq 1..Len(reqs)
    BY <1>8, EndFacts DEF ParseComplete
  <2>2. ASSUME wire[Len(reqs) + 1].b = 0
       PROVE  reqs'[Len(reqs) + 1].head = reqs'[Len(reqs) + 1].buf
    <3>1. open /\ ~parsed
      BY <1>8, <2>2, CompleteFacts DEF HeadPending, Shape
    <3> QED BY <1>8, <3>1, CompleteFacts DEF HeadView
  <2>3. \A k \in kept : reqs'[k] = reqs[k]
    BY <1>8, <2>1, CompleteFacts
  <2> QED BY <2>1, <2>2, <2>3 DEF OwnHead
<1>9. CASE ParsePartial
  <2>1. UNCHANGED <<wire, reqs>> /\ kept' \subseteq kept
    BY <1>9 DEF Shut, ParsePartial
  <2> QED BY <2>1 DEF OwnHead
<1>10. CASE KeepBuffer
  <2>1. UNCHANGED <<wire, reqs>> /\ kept' \subseteq kept
    BY <1>10 DEF Shut, KeepBuffer
  <2> QED BY <2>1 DEF OwnHead
<1>11. CASE NewBuffer
  <2>1. UNCHANGED <<wire, reqs>> /\ kept' \subseteq kept
    BY <1>11 DEF Shut, NewBuffer
  <2> QED BY <2>1 DEF OwnHead
<1>12. CASE NoBuffer
  <2>1. UNCHANGED <<wire, reqs>> /\ kept' \subseteq kept
    BY <1>12 DEF Shut, NoBuffer
  <2> QED BY <2>1 DEF OwnHead
<1>13. CASE CbUser
  <2>1. UNCHANGED <<wire, reqs>> /\ kept' \subseteq kept
    BY <1>13 DEF Shut, CbUser
  <2> QED BY <2>1 DEF OwnHead
<1>14. ASSUME NEW k \in kept, Release(k) PROVE OwnHead'
  <2>1. UNCHANGED <<wire, reqs>> /\ kept' \subseteq kept
    BY <1>14 DEF Shut, Release
  <2> QED BY <2>1 DEF OwnHead
<1> QED BY <1>1, <1>2, <1>3, <1>4, <1>5, <1>6, <1>7, <1>8, <1>9, <1>10, <1>11, <1>12, <1>13, <1>14
         DEF Next, Peer, CbRead, User

-----------------------------------------------------------------------------
(* Capacities                                                              *)

\* What doubles from one grows, and faster than its index.
LEMMA Doubling ==
    ASSUME NEW p \in [0..(MaxSize + 1) -> Int],
           p[0] = 1, \A i \in 0..MaxSize : p[i + 1] = 2 * p[i]
    PROVE  /\ \A i \in 0..(MaxSize + 1) : p[i] >= i + 1
           /\ \A i, j \in 0..(MaxSize + 1) : i <= j => p[i] <= p[j]
<1>1. ASSUME NEW i \in 0..(MaxSize + 1), ~(p[i] >= i + 1) PROVE FALSE
  <2> DEFINE S == {k \in 0..(MaxSize + 1) : ~(p[k] >= k + 1)}
  <2>1. S \in SUBSET Nat /\ S # {}
    <3>1. i \in S
      BY <1>1
    <3>2. 0..(MaxSize + 1) \subseteq Nat
      OBVIOUS
    <3> QED BY <3>1, <3>2
  <2>2. PICK k \in S : \A n \in S : k <= n
    <3> HIDE DEF S
    <3> QED BY <2>1, LeastNumber
  <2>3. k # 0 /\ k \in 0..(MaxSize + 1)
    BY <2>2
  <2>4. k - 1 \in 0..MaxSize /\ k - 1 \in 0..(MaxSize + 1) /\ (k - 1) + 1 = k
    BY <2>3
  <2>5. ~(k <= k - 1)
    BY <2>3
  <2>6. p[k - 1] >= k
    BY <2>2, <2>4, <2>5
  <2>7. p[k] = 2 * p[k - 1] /\ p[k] \in Int /\ p[k - 1] \in Int
    BY <2>3, <2>4
  <2>8. p[k] >= k + 1
    BY <2>3, <2>6, <2>7
  <2> QED BY <2>2, <2>8
<1>2. ASSUME NEW i \in 0..(MaxSize + 1), NEW j \in 0..(MaxSize + 1), i <= j, ~(p[i] <= p[j])
      PROVE  FALSE
  <2> DEFINE S == {k \in 0..(MaxSize + 1) : i <= k /\ ~(p[i] <= p[k])}
  <2>1. S \in SUBSET Nat /\ S # {}
    <3>1. j \in S
      BY <1>2
    <3>2. 0..(MaxSize + 1) \subseteq Nat
      OBVIOUS
    <3> QED BY <3>1, <3>2
  <2>2. PICK k \in S : \A n \in S : k <= n
    <3> HIDE DEF S
    <3> QED BY <2>1, LeastNumber
  <2>3. k # i /\ k \in 0..(MaxSize + 1) /\ i <= k
    BY <2>2
  <2>4. k - 1 \in 0..MaxSize /\ k - 1 \in 0..(MaxSize + 1) /\ (k - 1) + 1 = k /\ i <= k - 1
    BY <2>3
  <2>5. ~(k <= k - 1)
    BY <2>3
  <2>6. p[i] <= p[k - 1] /\ p[k - 1] >= (k - 1) + 1
    BY <1>1, <2>2, <2>4, <2>5
  <2>7. p[k] = 2 * p[k - 1] /\ p[k] \in Int /\ p[k - 1] \in Int /\ p[i] \in Int
    BY <2>3, <2>4
  <2>8. p[i] <= p[k]
    BY <2>3, <2>6, <2>7
  <2> QED BY <2>2, <2>8
<1> QED BY <1>1, <1>2

\* The powers of two up to the limit.
LEMMA Powers ==
    /\ \A i \in 0..(MaxSize + 1) : 2 ^ i \in Nat /\ 2 ^ i >= i + 1
    /\ \A i, j \in 0..(MaxSize + 1) : i <= j => 2 ^ i <= 2 ^ j
    /\ 2 ^ 0 = 1
<1> DEFINE p == [i \in 0..(MaxSize + 1) |-> 2 ^ i]
<1>1. p \in [0..(MaxSize + 1) -> Int]
  <2>1. ASSUME NEW i \in 0..(MaxSize + 1) PROVE 2 ^ i \in Int
    OBVIOUS
  <2> QED BY <2>1
<1>2. /\ 0 \in 0..(MaxSize + 1)
      /\ \A i \in 0..MaxSize : i \in 0..(MaxSize + 1) /\ i + 1 \in 0..(MaxSize + 1)
  OBVIOUS
<1>3. p[0] = 1
  BY <1>2
<1>4. \A i \in 0..MaxSize : p[i + 1] = 2 * p[i]
  BY <1>2, PowersOfTwo
<1>5. \A i \in 0..(MaxSize + 1) : p[i] = 2 ^ i
  OBVIOUS
<1> HIDE DEF p
<1>6. /\ \A i \in 0..(MaxSize + 1) : p[i] >= i + 1
      /\ \A i, j \in 0..(MaxSize + 1) : i <= j => p[i] <= p[j]
  BY <1>1, <1>3, <1>4, Doubling
<1>7. 2 ^ 0 = 1
  OBVIOUS
<1>8. \A i \in 0..(MaxSize + 1) : 2 ^ i \in Nat /\ 2 ^ i >= i + 1
  BY <1>1, <1>5, <1>6
<1>9. \A i, j \in 0..(MaxSize + 1) : i <= j => 2 ^ i <= 2 ^ j
  BY <1>5, <1>6
<1> QED BY <1>7, <1>8, <1>9

\* The larger a buffer, the larger the part of it that is full when it is
\* renewed.
LEMMA RenewGrows ==
    ASSUME NEW c \in Nat, NEW d \in Nat, NEW t \in Nat \ {0}, c <= d
    PROVE  c - c \div t <= d - d \div t
<1> DEFINE q == c \div t
           r == d \div t
<1>1. q \in Nat /\ r \in Nat /\ c < t * (q + 1) /\ t * r <= d
  OBVIOUS
<1> HIDE DEF q, r
<1> SUFFICES ASSUME r > q + (d - c) PROVE FALSE
  BY <1>1 DEF q, r
<1>2. PICK e \in Nat : d = c + e
  <2>1. d - c \in Nat /\ d = c + (d - c)
    OBVIOUS
  <2> QED BY <2>1
<1>3. PICK f \in Nat : r = q + e + 1 + f
  <2>1. r - (q + e + 1) \in Nat /\ r = q + e + 1 + (r - (q + e + 1))
    BY <1>1, <1>2
  <2> QED BY <2>1
<1>4. t * r = t * (q + 1) + t * e + t * f
  BY <1>1, <1>3
<1>5. t * e >= e /\ t * f >= 0
  OBVIOUS
<1>6. t * (q + 1) \in Nat /\ t * e \in Nat /\ t * f \in Nat /\ t * r \in Nat
  BY <1>1
<1> QED BY <1>1, <1>2, <1>4, <1>5, <1>6

\* A renewal doubles the capacity, within the limit.
LEMMA DoubledStep ==
    ASSUME TypeOK, Doubled, [Next]_vars
    PROVE  Doubled'
<1>1. CASE NewBuffer
  <2>1. cap' = 2 * cap /\ 2 * cap <= MaxSize
    BY <1>1 DEF NewBuffer, GivesUp, TypeOK
  <2>2. PICK k \in 0..MaxSize : cap = BufferSize * 2 ^ k
    BY DEF Doubled
  <2> DEFINE x == 2 ^ k
             y == 2 ^ (k + 1)
  <2>3. x \in Nat /\ y = 2 * x
    <3>1. k \in 0..(MaxSize + 1)
      OBVIOUS
    <3> QED BY <3>1, Powers, PowersOfTwo
  <2>4. y >= (k + 1) + 1
    <3>1. k + 1 \in 0..(MaxSize + 1)
      OBVIOUS
    <3> QED BY <3>1, Powers
  <2>5. cap = BufferSize * x
    BY <2>2
  <2> HIDE DEF x, y
  <2>6. cap' = BufferSize * y
    BY <2>1, <2>3, <2>5
  <2>8. k + 1 \in 0..MaxSize
    <3>1. y \in Nat /\ y <= BufferSize * y
      BY <2>3
    <3>2. BufferSize * y <= MaxSize
      BY <2>1, <2>6
    <3>3. BufferSize * y \in Nat
      BY <3>1
    <3> QED BY <2>4, <3>1, <3>2, <3>3
  <2> QED BY <2>6, <2>8 DEF Doubled, y
<1>2. CASE UNCHANGED cap
  BY <1>2 DEF Doubled
<1>3. cap' = cap \/ NewBuffer
  BY DEF Next, Peer, CbRead, User, vars, BeginRequest, SendBytes, EndStream, Read, ReadError,
         ParseError, ParseComplete, ParsePartial, KeepBuffer, NoBuffer, CbUser, Release
<1> QED BY <1>1, <1>2, <1>3

\* When no larger buffer is allowed, every capacity allowed is one that was in
\* use.
LEMMA LargestInUse ==
    ASSUME TypeOK, Doubled, GivesUp, NEW c \in Capacities, Allowed(c)
    PROVE  c \in Nat /\ c <= cap
<1>1. PICK k \in 0..MaxSize : cap = BufferSize * 2 ^ k
  BY DEF Doubled
<1>2. PICK i \in 0..MaxSize : c = BufferSize * 2 ^ i
  BY DEF Capacities
<1>3. /\ k \in 0..(MaxSize + 1) /\ i \in 0..(MaxSize + 1)
      /\ k + 1 \in 0..(MaxSize + 1) /\ k \in Nat /\ i \in Nat
  OBVIOUS
<1> DEFINE x == 2 ^ k
           y == 2 ^ i
           z == 2 ^ (k + 1)
<1>4. x \in Nat /\ y \in Nat /\ z = 2 * x
  BY <1>3, Powers, PowersOfTwo
<1>5. x >= 1
  BY <1>3, Powers
<1>6. i <= k => y <= x
  BY <1>3, Powers
<1>7. i > k => z <= y
  BY <1>3, Powers
<1>8. cap = BufferSize * x /\ c = BufferSize * y
  BY <1>1, <1>2
<1> HIDE DEF x, y, z
<1>9. c \in Nat /\ cap \in Nat /\ BufferSize <= cap
  BY <1>4, <1>5, <1>8
<1>10. CASE i <= k
  BY <1>4, <1>6, <1>8, <1>10
<1>11. CASE i > k
  <2>1. 2 * cap <= c
    BY <1>4, <1>7, <1>8, <1>11
  <2>2. 2 * cap > MaxSize
    BY DEF GivesUp
  <2> QED BY <1>9, <2>1, <2>2 DEF Allowed
<1> QED BY <1>3, <1>9, <1>10, <1>11

\* Requests within the limit are never refused by parse_head.
LEMMA WithinLimit ==
    ASSUME TypeOK, Positions, Framing, ParseError,
           \A i \in DOMAIN wire : wire[i].h + wire[i].b <= MaxSize
    PROVE  FALSE
<1>1. open /\ TailLen > 0 /\ ~parsed
  BY DEF ParseError, TooLarge, Positions
<1>2. Len(reqs) + 1 \in 1..Len(wire) /\ Shape.h \in Nat \ {0} /\ Shape.b \in Nat
  BY <1>1, NextRequest
<1>3. Len(reqs) + 1 \in DOMAIN wire
  BY <1>2 DEF TypeOK
<1>4. Shape.h + Shape.b <= MaxSize
  BY <1>3 DEF Shape
<1>5. TailLen \in Int
  BY DEF TypeOK
<1> HIDE DEF TailLen
<1> QED BY <1>1, <1>2, <1>4, <1>5 DEF ParseError, TooLarge, HeadComplete

\* The connection is closed by renew_buffer only, with its largest buffer
\* nearly full.
LEMMA ServedUpToStep ==
    ASSUME Inductive, ServedUpTo, [Next]_vars
    PROVE  ServedUpTo'
<1> USE DEF Inductive
<1> DEFINE Fits == \A i \in DOMAIN wire : wire[i].h + wire[i].b <= MaxSize
           Full(n) == \A c \in Capacities : Allowed(c) => n >= c - c \div Threshold
<1>1. CASE NoBuffer
  <2>1. RenewDue /\ GivesUp /\ Got' = base + size
    BY <1>1 DEF NoBuffer
  <2>2. ASSUME NEW c \in Capacities, Allowed(c) PROVE base + size >= c - c \div Threshold
    <3>1. c \in Nat /\ c <= cap
      BY <2>1, <2>2, LargestInUse
    <3>2. cap \in Nat /\ base \in Nat /\ size \in Nat
      BY DEF TypeOK
    <3>3. c - c \div Threshold <= cap - cap \div Threshold
      BY <3>1, <3>2, RenewGrows
    <3>4. size >= cap - cap \div Threshold
      BY <2>1 DEF RenewDue
    <3>5. c \div Threshold \in Nat /\ cap \div Threshold \in Nat
      BY <3>1, <3>2, DivNat
    <3> QED BY <3>1, <3>2, <3>3, <3>4, <3>5
  <2> QED BY <2>1, <2>2 DEF ServedUpTo
<1>2. CASE ParseError
  <2>1. ~Fits /\ wire' = wire
    BY <1>2, WithinLimit DEF ParseError
  <2> QED BY <2>1 DEF ServedUpTo
<1>3. CASE ReadError
  BY <1>3 DEF ReadError, ServedUpTo
<1>4. CASE open' /\ open
  BY <1>4 DEF ServedUpTo
<1>5. ASSUME NEW s \in Shapes, BeginRequest(s) PROVE ServedUpTo'
  <2>1. Got' = Got /\ open' = open /\ eof' = eof
    BY <1>5 DEF BeginRequest
  <2>2. ASSUME Fits' PROVE Fits
    <3>1. ASSUME NEW i \in DOMAIN wire PROVE wire[i].h + wire[i].b <= MaxSize
      <4>1. i \in 1..Len(wire) /\ Len(wire) \in Nat /\ i \in DOMAIN wire'
        BY <1>5, BeginFacts, EndFacts
      <4>2. wire'[i] = wire[i]
        BY <1>5, <4>1, BeginFacts
      <4> QED BY <2>2, <4>1, <4>2
    <3> QED BY <3>1
  <2> QED BY <2>1, <2>2 DEF ServedUpTo
<1>6. CASE ~open /\ UNCHANGED <<wire, open, base, size>> /\ (eof => eof')
  BY <1>6 DEF ServedUpTo
<1>7. open => open' \/ NoBuffer \/ ParseError \/ ReadError
  BY DEF Next, Peer, CbRead, User, vars, BeginRequest, SendBytes, EndStream, Read,
         ParseComplete, ParsePartial, KeepBuffer, NewBuffer, CbUser, Release, Positions
<1>8. ~open => \/ UNCHANGED <<wire, open, base, size>> /\ (eof => eof')
               \/ \E s \in Shapes : BeginRequest(s)
  BY DEF Next, Peer, CbRead, User, vars, SendBytes, EndStream, Read, ReadError, ParseError,
         ParseComplete, ParsePartial, KeepBuffer, NewBuffer, NoBuffer, CbUser, Release, Positions
<1> QED BY <1>1, <1>2, <1>3, <1>4, <1>5, <1>6, <1>7, <1>8 DEF TypeOK

-----------------------------------------------------------------------------
(* Theorems                                                                *)

\* The inductive invariant holds in every reachable state.
THEOREM BufferCorrect == Spec => []Inductive
<1>1. Init => Inductive
  <2> SUFFICES ASSUME Init PROVE Inductive
    OBVIOUS
  <2>1. TypeOK
    <3>1. wire \in Seq(Shapes) /\ ends \in Seq(Nat) /\ reqs \in Seq([buf : Nat, head : Nat])
      BY EmptySeq DEF Init
    <3>2. Len(ends) = Len(wire) /\ Len(reqs) <= Len(wire) /\ handed \in 0..Len(reqs)
      BY DEF Init
    <3> QED BY <3>1, <3>2 DEF Init, TypeOK
  <2>2. Doubled
    <3>1. cap = BufferSize * 1 /\ 0 \in 0..MaxSize
      BY DEF Init
    <3> QED BY <3>1, Powers DEF Doubled
  <2> QED BY <2>1, <2>2 DEF Init, Inductive, Positions, Framing, NoneLeft, HasRoom,
                            HeadPending, OwnHead, Start, EndOf
<1>2. Inductive /\ [Next]_vars => Inductive'
  BY TypeOKStep, PositionsStep, FramingStep, NoneLeftStep, HasRoomStep,
     HeadPendingStep, OwnHeadStep, DoubledStep DEF Inductive
<1> QED BY <1>1, <1>2, PTL DEF Spec

\* However the stream is cut into reads and however often the buffer is
\* renewed, requests are cut where they end and no byte is lost.
THEOREM FramingHolds == Spec => []Framing
  BY BufferCorrect, PTL DEF Inductive

\* cb_read never returns with a complete request unparsed.
THEOREM NoneLeftHolds == Spec => []NoneLeft
  BY BufferCorrect, PTL DEF Inductive

\* Buffer::read is never called with a full buffer.
THEOREM HasRoomHolds == Spec => []HasRoom
  BY BufferCorrect, PTL DEF Inductive

\* The head of a request without a body lies in the buffer it holds.
THEOREM OwnHeadHolds == Spec => []OwnHead
  BY BufferCorrect, PTL DEF Inductive

\* A peer whose requests stay within the limit is disconnected by the server
\* only when it has sent about as much as the largest buffer allowed holds.
THEOREM ServedUpToHolds == Spec => []ServedUpTo
<1>1. Init => ServedUpTo
  BY DEF Init, ServedUpTo
<1>2. Inductive /\ ServedUpTo /\ [Next]_vars => ServedUpTo'
  BY ServedUpToStep
<1> QED BY <1>1, <1>2, BufferCorrect, PTL DEF Spec

=============================================================================
