--------------------------- MODULE SyncClientProofs ---------------------------
(* Theorems about SyncClient, for any texts, hosts, number of pools and of *)
(* requests.                                                               *)
EXTENDS SyncClient, FiniteSetTheorems, SequenceTheorems, WellFoundedInduction, TLAPS

-----------------------------------------------------------------------------
(* Numbers                                                                 *)

\* A set of numbers has a least element.
LEMMA LeastNumber ==
    ASSUME NEW S \in SUBSET Nat, S # {}
    PROVE  \E x \in S : \A y \in S : x <= y
<1>1. \E x \in S : \A y \in S : ~(<<y, x>> \in OpToRel(<, Nat))
  BY NatLessThanWellFounded, WFMin
<1>2. PICK x \in S : \A y \in S : ~(<<y, x>> \in OpToRel(<, Nat))
  BY <1>1
<1>3. ASSUME NEW y \in S PROVE x <= y
  <2>1. ~(<<y, x>> \in OpToRel(<, Nat))
    BY <1>2
  <2>2. ~(y < x)
    BY <2>1 DEF OpToRel
  <2> QED BY <2>2
<1> QED BY <1>2, <1>3

\* Induction up to n, over a set of numbers.
LEMMA UpTo ==
    ASSUME NEW n \in Nat, NEW S, 0 \in S, \A i \in 1..n : i - 1 \in S => i \in S
    PROVE  \A i \in 0..n : i \in S
<1> SUFFICES ASSUME NEW j \in 0..n, j \notin S PROVE FALSE
  OBVIOUS
<1> DEFINE T == {i \in 0..n : i \notin S}
<1>1. T \in SUBSET Nat /\ T # {}
  OBVIOUS
<1>2. PICK k \in T : \A i \in T : k <= i
  <2> HIDE DEF T
  <2> QED BY <1>1, LeastNumber
<1>3. k \in 1..n /\ k \notin S /\ k - 1 \in 0..n /\ ~(k <= k - 1)
  BY <1>2
<1>4. k - 1 \in S
  BY <1>2, <1>3
<1> QED BY <1>3, <1>4

\* What is defined step by step exists.
LEMMA Recursion ==
    ASSUME NEW V, NEW a \in V, NEW n \in Nat, NEW g \in [1..n -> [V -> V]]
    PROVE  \E f \in [0..n -> V] : f[0] = a /\ \A i \in 1..n : f[i] = g[i][f[i - 1]]
<1> DEFINE Ok(m) == \E f \in [0..m -> V] : f[0] = a /\ \A i \in 1..m : f[i] = g[i][f[i - 1]]
           S == {m \in 0..n : Ok(m)}
<1>1. Ok(0)
  <2> DEFINE f == [i \in 0..0 |-> a]
  <2>1. f \in [0..0 -> V] /\ f[0] = a /\ \A i \in 1..0 : f[i] = g[i][f[i - 1]]
    OBVIOUS
  <2> QED BY <2>1
<1>2. ASSUME NEW m \in 1..n, Ok(m - 1) PROVE Ok(m)
  <2>1. PICK f \in [0..(m - 1) -> V] : f[0] = a /\ \A i \in 1..(m - 1) : f[i] = g[i][f[i - 1]]
    BY <1>2
  <2> DEFINE h == [i \in 0..m |-> IF i = m THEN g[m][f[m - 1]] ELSE f[i]]
  <2>2. g[m][f[m - 1]] \in V
    <3>1. m - 1 \in 0..(m - 1) /\ m \in 1..n
      OBVIOUS
    <3>2. f[m - 1] \in V /\ g[m] \in [V -> V]
      BY <3>1
    <3> QED BY <3>2
  <2>3. \A i \in 0..m : i # m => i \in 0..(m - 1) /\ f[i] \in V
    OBVIOUS
  <2>4. h \in [0..m -> V]
    BY <2>2, <2>3
  <2>5. h[m] = g[m][f[m - 1]] /\ \A i \in 0..(m - 1) : h[i] = f[i]
    OBVIOUS
  <2> HIDE DEF h
  <2>6. h[0] = a
    BY <2>1, <2>5
  <2>7. ASSUME NEW i \in 1..m PROVE h[i] = g[i][h[i - 1]]
    <3>1. i - 1 \in 0..(m - 1)
      OBVIOUS
    <3>2. h[i - 1] = f[i - 1]
      BY <2>5, <3>1
    <3>3. CASE i = m
      BY <2>5, <3>2, <3>3
    <3>4. CASE i # m
      <4>1. i \in 1..(m - 1) /\ i \in 0..(m - 1)
        BY <3>4
      <4>2. h[i] = f[i] /\ f[i] = g[i][f[i - 1]]
        BY <2>1, <2>5, <4>1
      <4> QED BY <3>2, <4>2
    <3> QED BY <3>3, <3>4
  <2> QED BY <2>4, <2>6, <2>7
<1> HIDE DEF Ok
<1>3. 0 \in S /\ \A m \in 1..n : m - 1 \in S => m \in S
  BY <1>1, <1>2
<1>4. \A m \in 0..n : m \in S
  <2> HIDE DEF S
  <2> QED BY <1>3, UpTo
<1>5. Ok(n)
  BY <1>4
<1> QED BY <1>5 DEF Ok

-----------------------------------------------------------------------------
(* Sequences of requests                                                   *)

\* No element is twice in a sequence.
Distinct(s) == \A i, j \in 1..Len(s) : s[i] = s[j] => i = j

\* The elements of a sequence.
LEMMA Elements ==
    ASSUME NEW V, NEW s \in Seq(V)
    PROVE  /\ Len(s) \in Nat /\ DOMAIN s = 1..Len(s)
           /\ \A x : x \in ToSet(s) <=> \E i \in 1..Len(s) : s[i] = x
           /\ \A i \in 1..Len(s) : s[i] \in ToSet(s) /\ s[i] \in V
           /\ ToSet(s) \subseteq V
<1>1. Len(s) \in Nat /\ DOMAIN s = 1..Len(s) /\ \A i \in 1..Len(s) : s[i] \in V
  BY LenProperties, ElementOfSeq
<1> QED BY <1>1 DEF ToSet

\* An empty one has none.
LEMMA NoElements == <<>> \in Seq(Nat) /\ ToSet(<<>>) = {} /\ Distinct(<<>>) /\ Len(<<>>) = 0
BY EmptySeq DEF ToSet, Distinct

\* One more element.
LEMMA OneMore ==
    ASSUME NEW V, NEW s \in Seq(V), NEW x \in V
    PROVE  /\ Append(s, x) \in Seq(V) /\ Len(Append(s, x)) = Len(s) + 1
           /\ ToSet(Append(s, x)) = ToSet(s) \cup {x}
           /\ Distinct(s) /\ x \notin ToSet(s) => Distinct(Append(s, x))
<1> DEFINE t == Append(s, x)
           n == Len(s)
<1>1. /\ n \in Nat /\ t \in Seq(V) /\ Len(t) = n + 1
      /\ \A i \in 1..n : t[i] = s[i]
      /\ t[n + 1] = x
  BY AppendProperties, LenProperties
<1>2. \A y : y \in ToSet(s) <=> \E i \in 1..n : s[i] = y
  BY Elements
<1> HIDE DEF t
<1>3. \A y : y \in ToSet(t) <=> \E i \in 1..(n + 1) : t[i] = y
  BY <1>1, Elements
<1>4. \A i \in 1..(n + 1) : i \in 1..n \/ i = n + 1
  BY <1>1
<1>5. \A i \in 1..n : i \in 1..(n + 1)
  BY <1>1
<1>6. n + 1 \in 1..(n + 1)
  BY <1>1
<1> HIDE DEF n
<1>7. ASSUME NEW y PROVE y \in ToSet(t) <=> y \in ToSet(s) \cup {x}
  <2>1. ASSUME y \in ToSet(t) PROVE y \in ToSet(s) \cup {x}
    BY <1>1, <1>2, <1>3, <1>4, <2>1
  <2>2. ASSUME y \in ToSet(s) PROVE y \in ToSet(t)
    BY <1>1, <1>2, <1>3, <1>5, <2>2
  <2>3. x \in ToSet(t)
    BY <1>1, <1>3, <1>6
  <2> QED BY <2>1, <2>2, <2>3
<1>8. ToSet(t) = ToSet(s) \cup {x}
  BY <1>7
<1>9. ASSUME Distinct(s), x \notin ToSet(s) PROVE Distinct(t)
  <2> SUFFICES ASSUME NEW i \in 1..(n + 1), NEW j \in 1..(n + 1), t[i] = t[j] PROVE i = j
    BY <1>1 DEF Distinct
  <2>1. \A k \in 1..n : t[k] # x
    BY <1>1, <1>2, <1>9
  <2>2. CASE i \in 1..n /\ j \in 1..n
    BY <1>1, <1>9, <2>2 DEF Distinct, n
  <2>3. CASE i = n + 1 \/ j = n + 1
    BY <1>1, <1>4, <2>1, <2>3
  <2> QED BY <1>4, <2>2, <2>3
<1> QED BY <1>1, <1>8, <1>9 DEF t, n

\* One more element, of any set.
LEMMA AppendAny ==
    ASSUME NEW R, NEW s \in Seq(R), NEW x
    PROVE  /\ \E S : Append(s, x) \in Seq(S)
           /\ Len(s) \in Nat /\ Len(Append(s, x)) = Len(s) + 1
           /\ Append(s, x)[Len(s) + 1] = x
           /\ \A i \in 1..Len(s) : Append(s, x)[i] = s[i]
<1> DEFINE S == R \cup {x}
<1>1. Len(s) \in Nat /\ s \in [1..Len(s) -> R]
  BY LenProperties
<1>2. s \in [1..Len(s) -> S]
  BY <1>1
<1>3. s \in Seq(S) /\ x \in S
  BY <1>1, <1>2, SeqDef
<1> HIDE DEF S
<1>4. /\ Append(s, x) \in Seq(S) /\ Len(Append(s, x)) = Len(s) + 1
      /\ Append(s, x)[Len(s) + 1] = x
      /\ \A i \in 1..Len(s) : Append(s, x)[i] = s[i]
  BY <1>3, AppendProperties
<1> QED BY <1>1, <1>4

\* One sequence behind another.
LEMMA Both ==
    ASSUME NEW V, NEW s \in Seq(V), NEW t \in Seq(V)
    PROVE  /\ s \o t \in Seq(V) /\ Len(s \o t) = Len(s) + Len(t)
           /\ ToSet(s \o t) = ToSet(s) \cup ToSet(t)
           /\ Distinct(s) /\ Distinct(t) /\ ToSet(s) \cap ToSet(t) = {} => Distinct(s \o t)
<1> DEFINE u == s \o t
           n == Len(s)
           m == Len(t)
<1>1. /\ n \in Nat /\ m \in Nat /\ u \in Seq(V) /\ Len(u) = n + m
      /\ \A i \in 1..(n + m) : u[i] = IF i <= n THEN s[i] ELSE t[i - n]
  BY ConcatProperties, LenProperties
<1>2. \A y : y \in ToSet(s) <=> \E i \in 1..n : s[i] = y
  BY Elements
<1>3. \A y : y \in ToSet(t) <=> \E i \in 1..m : t[i] = y
  BY Elements
<1> HIDE DEF u
<1>4. \A y : y \in ToSet(u) <=> \E i \in 1..(n + m) : u[i] = y
  BY <1>1, Elements
<1>5. \A i \in 1..n : i \in 1..(n + m) /\ i <= n
  BY <1>1
<1>6. \A i \in 1..m : n + i \in 1..(n + m) /\ ~(n + i <= n) /\ (n + i) - n = i
  BY <1>1
<1>7. \A i \in 1..(n + m) : (i \in 1..n /\ i <= n) \/ (i - n \in 1..m /\ ~(i <= n))
  BY <1>1
<1>8. \A i, j \in 1..(n + m) : i - n = j - n => i = j
  BY <1>1
<1> HIDE DEF n, m
<1>9. ToSet(u) \subseteq ToSet(s) \cup ToSet(t)
  BY <1>1, <1>2, <1>3, <1>4, <1>7
<1>10. ToSet(s) \subseteq ToSet(u)
  BY <1>1, <1>2, <1>4, <1>5
<1>11. ToSet(t) \subseteq ToSet(u)
  <2> SUFFICES ASSUME NEW y, y \in ToSet(t) PROVE y \in ToSet(u)
    OBVIOUS
  <2>1. PICK i \in 1..m : t[i] = y
    BY <1>3
  <2>2. u[n + i] = y
    BY <1>1, <1>6, <2>1
  <2> QED BY <1>4, <1>6, <2>2
<1>12. ASSUME Distinct(s), Distinct(t), ToSet(s) \cap ToSet(t) = {} PROVE Distinct(u)
  <2> SUFFICES ASSUME NEW i \in 1..(n + m), NEW j \in 1..(n + m), u[i] = u[j] PROVE i = j
    BY <1>1 DEF Distinct
  <2>1. \A k \in 1..n, l \in 1..m : s[k] # t[l]
    BY <1>2, <1>3, <1>12
  <2>2. CASE i <= n /\ j <= n
    <3>1. i \in 1..n /\ j \in 1..n /\ s[i] = s[j]
      BY <1>1, <1>7, <2>2
    <3> QED BY <1>12, <3>1 DEF Distinct, n
  <2>3. CASE ~(i <= n) /\ ~(j <= n)
    <3>1. i - n \in 1..m /\ j - n \in 1..m /\ t[i - n] = t[j - n]
      BY <1>1, <1>7, <2>3
    <3>2. i - n = j - n
      BY <1>12, <3>1 DEF Distinct, m
    <3> QED BY <1>8, <3>2
  <2>4. CASE (i <= n /\ ~(j <= n)) \/ (~(i <= n) /\ j <= n)
    BY <1>1, <1>7, <2>1, <2>4
  <2> QED BY <2>2, <2>3, <2>4
<1> QED BY <1>1, <1>9, <1>10, <1>11, <1>12 DEF u, n, m

\* As many elements as positions.
LEMMA Counts ==
    ASSUME NEW V, NEW s \in Seq(V), Distinct(s)
    PROVE  IsFiniteSet(ToSet(s)) /\ Cardinality(ToSet(s)) = Len(s)
<1> DEFINE n == Len(s)
           T == ToSet(s)
<1>1. /\ n \in Nat /\ DOMAIN s = 1..n
      /\ \A x : x \in T <=> \E i \in 1..n : s[i] = x
      /\ \A i \in 1..n : s[i] \in T
  BY Elements
<1>2. s \in [1..n -> V]
  BY LenProperties
<1>3. s = [i \in 1..n |-> s[i]]
  BY <1>2
<1>4. \A i, j \in 1..n : s[i] = s[j] => i = j
  BY DEF Distinct
<1> HIDE DEF n, T
<1>5. s \in [1..n -> T]
  BY <1>1, <1>3
<1>6. s \in Bijection(1..n, T)
  BY <1>1, <1>4, <1>5 DEF Bijection, Injection, Surjection, IsInjective
<1>7. ExistsBijection(1..n, T)
  BY <1>6 DEF ExistsBijection
<1>8. IsFiniteSet(T) /\ Cardinality(T) = n
  BY <1>1, <1>7, FS_NatBijection, FS_CountingElements
<1> QED BY <1>8 DEF n, T

-----------------------------------------------------------------------------
(* What cb_prepare refuses                                                 *)

\* The refused of a queue, each once, in its order.
LEMMA OnlySome ==
    ASSUME NEW V, NEW q \in Seq(V), NEW ids
    PROVE  /\ Only(q, ids) \in Seq(V)
           /\ ToSet(Only(q, ids)) = ToSet(q) \cap ids
           /\ Distinct(q) => Distinct(Only(q, ids))
<1> DEFINE n == Len(q)
           W == Seq(V)
           e == <<>>
           g == [i \in 1..n |-> [v \in W |-> IF q[i] \in ids THEN Append(v, q[i]) ELSE v]]
           Def(h) == h = [i \in 0..n |-> IF i = 0 THEN <<>>
                                         ELSE IF q[i] \in ids THEN Append(h[i - 1], q[i]) ELSE h[i - 1]]
           only == CHOOSE h : Def(h)
<1>1. n \in Nat /\ \A i \in 1..n : q[i] \in V
  BY Elements
<1>2. e \in W /\ g \in [1..n -> [W -> W]]
  BY <1>1, EmptySeq, AppendProperties
<1>3. PICK f \in [0..n -> W] : f[0] = e /\ \A i \in 1..n : f[i] = g[i][f[i - 1]]
  <2>1. n \in Nat
    BY <1>1
  <2> HIDE DEF g, W, e, n
  <2>2. \E f \in [0..n -> W] : f[0] = e /\ \A i \in 1..n : f[i] = g[i][f[i - 1]]
    BY <1>2, <2>1, Recursion
  <2> QED BY <2>2
<1>4. \A i \in 1..n : i - 1 \in 0..n /\ i \in 0..n /\ i # 0
  BY <1>1
<1>5. \A i \in 0..n : f[i] \in W
  BY <1>3
<1>6. \A i \in 1..n : f[i] = IF q[i] \in ids THEN Append(f[i - 1], q[i]) ELSE f[i - 1]
  BY <1>3, <1>4, <1>5
<1>7. Def(f)
  <2>1. \A i \in 0..n : f[i] = IF i = 0 THEN <<>>
                               ELSE IF q[i] \in ids THEN Append(f[i - 1], q[i]) ELSE f[i - 1]
    <3>1. \A i \in 0..n : i = 0 \/ i \in 1..n
      BY <1>1
    <3> HIDE DEF n
    <3> QED BY <1>3, <1>4, <1>6, <3>1
  <2>2. f = [i \in 0..n |-> f[i]]
    BY <1>3
  <2> QED BY <2>1, <2>2
<1>8. Def(only)
  <2> HIDE DEF Def
  <2> QED BY <1>7
<1>9. Only(q, ids) = only[n]
  BY DEF Only
<1> HIDE DEF only
<1>10. /\ only[0] = <<>>
       /\ \A i \in 1..n : only[i] = IF q[i] \in ids THEN Append(only[i - 1], q[i]) ELSE only[i - 1]
  <2>1. \A i \in 0..n : only[i] = IF i = 0 THEN <<>>
                                  ELSE IF q[i] \in ids THEN Append(only[i - 1], q[i]) ELSE only[i - 1]
    BY <1>8
  <2>2. 0 \in 0..n
    BY <1>1
  <2> QED BY <1>4, <2>1, <2>2
<1> HIDE DEF g, Def
<1> DEFINE Good(i) == /\ only[i] \in W
                      /\ \A x : x \in ToSet(only[i]) <=> x \in ids /\ \E k \in 1..i : q[k] = x
                      /\ Distinct(q) => Distinct(only[i])
           S == {i \in 0..n : Good(i)}
<1>11. 0 \in S
  <2>1. Good(0)
    BY <1>2, <1>10, NoElements
  <2> QED BY <1>1, <2>1
<1>12. ASSUME NEW i \in 1..n, i - 1 \in S PROVE i \in S
  <2> DEFINE o == only[i - 1]
             x == q[i]
             j == i - 1
  <2>1. o \in W /\ x \in V /\ i \in Nat /\ i >= 1
    BY <1>1, <1>12
  <2>2. \A y : y \in ToSet(o) <=> y \in ids /\ \E k \in 1..j : q[k] = y
    BY <1>12
  <2>3. Distinct(q) => Distinct(o)
    BY <1>12
  <2>4. (\A k \in 1..i : k \in 1..j \/ k = i) /\ (\A k \in 1..j : k \in 1..i /\ k # i /\ k \in 1..n) /\ i \in 1..i
    BY <1>1, <2>1
  <2> HIDE DEF o, j
  <2>5. \A y : (\E k \in 1..i : q[k] = y) <=> y = x \/ \E k \in 1..j : q[k] = y
    BY <2>4
  <2>6. CASE x \in ids
    <3>1. only[i] = Append(o, x)
      BY <1>10, <2>6 DEF o
    <3> HIDE DEF x
    <3>2. /\ Append(o, x) \in W /\ ToSet(Append(o, x)) = ToSet(o) \cup {x}
          /\ Distinct(o) /\ x \notin ToSet(o) => Distinct(Append(o, x))
      BY <2>1, OneMore
    <3>3. Distinct(q) => x \notin ToSet(o)
      <4> SUFFICES ASSUME Distinct(q), NEW k \in 1..j, q[k] = x PROVE FALSE
        BY <2>2
      <4>1. k \in 1..n /\ i \in 1..n /\ k # i /\ q[k] = q[i]
        BY <2>4 DEF x
      <4> QED BY <4>1 DEF Distinct
    <3>4. Distinct(q) => Distinct(only[i])
      BY <2>3, <3>1, <3>2, <3>3
    <3>5. \A y : y \in ToSet(only[i]) <=> y \in ids /\ \E k \in 1..i : q[k] = y
      BY <2>2, <2>5, <2>6, <3>1, <3>2
    <3>6. Good(i)
      BY <3>1, <3>2, <3>4, <3>5
    <3> QED BY <1>4, <3>6
  <2>7. CASE x \notin ids
    <3>1. only[i] = o
      BY <1>10, <2>7 DEF o
    <3>2. \A y : y \in ToSet(only[i]) <=> y \in ids /\ \E k \in 1..i : q[k] = y
      BY <2>2, <2>5, <2>7, <3>1
    <3>3. Good(i)
      BY <2>1, <2>3, <3>1, <3>2
    <3> QED BY <1>4, <3>3
  <2> QED BY <2>6, <2>7
<1>13. \A i \in 0..n : i \in S
  <2>1. n \in Nat
    BY <1>1
  <2>2. \A i \in 1..n : i - 1 \in S => i \in S
    BY <1>12
  <2> HIDE DEF S, n
  <2> QED BY <2>1, <2>2, <1>11, UpTo
<1>14. Good(n)
  <2>1. n \in 0..n
    BY <1>1
  <2> HIDE DEF Good, n
  <2> QED BY <1>13, <2>1
<1>15. ToSet(only[n]) = ToSet(q) \cap ids
  <2>1. \A x : x \in ToSet(q) <=> \E k \in 1..n : q[k] = x
    BY Elements
  <2> QED BY <1>14, <2>1
<1> QED BY <1>9, <1>14, <1>15

-----------------------------------------------------------------------------
(* The queues of the pools                                                 *)

Queued(ps) == UNION {ToSet(ps[p].out) : p \in 1..Len(ps)}

\* No request is twice in a queue or in two queues.
Apart(ps) ==
    /\ \A p \in 1..Len(ps) : Distinct(ps[p].out)
    /\ \A p, o \in 1..Len(ps) : \A id \in ToSet(ps[p].out) : id \in ToSet(ps[o].out) => p = o

\* From ps to qs only the queue of p differs.
OnlyAt(ps, qs, p) ==
    /\ p \in 1..Len(ps) /\ Len(qs) = Len(ps)
    /\ \A o \in 1..Len(ps) : o # p => qs[o].out = ps[o].out

\* What is in some queue.
LEMMA InQueue ==
    ASSUME NEW ps
    PROVE  \A id : id \in Queued(ps) <=> \E p \in 1..Len(ps) : id \in ToSet(ps[p].out)
BY DEF Queued

\* A request that is in no queue joins one.
LEMMA Joined ==
    ASSUME NEW ps, NEW qs, NEW p, NEW id, OnlyAt(ps, qs, p), Apart(ps),
           id \notin Queued(ps), Distinct(qs[p].out), ToSet(qs[p].out) = ToSet(ps[p].out) \cup {id}
    PROVE  Apart(qs) /\ Queued(qs) = Queued(ps) \cup {id}
<1>1. \A o \in 1..Len(ps) : id \notin ToSet(ps[o].out)
  BY InQueue
<1>2. \A o \in 1..Len(qs) : Distinct(qs[o].out)
  BY DEF OnlyAt, Apart
<1>3. ASSUME NEW o \in 1..Len(qs), NEW n \in 1..Len(qs), NEW x \in ToSet(qs[o].out), x \in ToSet(qs[n].out)
      PROVE  o = n
  <2>1. o \in 1..Len(ps) /\ n \in 1..Len(ps)
    BY DEF OnlyAt
  <2>2. CASE x = id
    BY <1>1, <1>3, <2>1, <2>2 DEF OnlyAt
  <2>3. CASE x # id
    <3>1. x \in ToSet(ps[o].out) /\ x \in ToSet(ps[n].out)
      BY <1>3, <2>1, <2>3 DEF OnlyAt
    <3> QED BY <2>1, <3>1 DEF Apart
  <2> QED BY <2>2, <2>3
<1>4. \A x : x \in Queued(qs) <=> x \in Queued(ps) \cup {id}
  <2>1. \A x : x \in Queued(qs) <=> \E o \in 1..Len(ps) : x \in ToSet(qs[o].out)
    BY InQueue DEF OnlyAt
  <2>2. \A x : x \in Queued(ps) <=> \E o \in 1..Len(ps) : x \in ToSet(ps[o].out)
    BY InQueue
  <2> QED BY <2>1, <2>2 DEF OnlyAt
<1> QED BY <1>2, <1>3, <1>4 DEF Apart

\* A queue is taken.
LEMMA Taken ==
    ASSUME NEW ps, NEW qs, NEW p, OnlyAt(ps, qs, p), Apart(ps),
           Distinct(qs[p].out), ToSet(qs[p].out) = {}
    PROVE  Apart(qs) /\ Queued(qs) = Queued(ps) \ ToSet(ps[p].out)
<1>1. \A o \in 1..Len(qs) : Distinct(qs[o].out)
  BY DEF OnlyAt, Apart
<1>2. ASSUME NEW o \in 1..Len(qs), NEW n \in 1..Len(qs), NEW x \in ToSet(qs[o].out), x \in ToSet(qs[n].out)
      PROVE  o = n
  <2>1. o \in 1..Len(ps) /\ n \in 1..Len(ps)
    BY DEF OnlyAt
  <2>2. x \in ToSet(ps[o].out) /\ x \in ToSet(ps[n].out)
    BY <1>2, <2>1 DEF OnlyAt
  <2> QED BY <2>1, <2>2 DEF Apart
<1>3. \A x : x \in Queued(qs) <=> x \in Queued(ps) \ ToSet(ps[p].out)
  <2>1. \A x : x \in Queued(qs) <=> \E o \in 1..Len(ps) : x \in ToSet(qs[o].out)
    BY InQueue DEF OnlyAt
  <2>2. \A x : x \in Queued(ps) <=> \E o \in 1..Len(ps) : x \in ToSet(ps[o].out)
    BY InQueue
  <2>3. \A x : x \in Queued(qs) => x \in Queued(ps) \ ToSet(ps[p].out)
    BY <2>1, <2>2 DEF OnlyAt, Apart
  <2>4. \A x : x \in Queued(ps) \ ToSet(ps[p].out) => x \in Queued(qs)
    BY <2>1, <2>2 DEF OnlyAt
  <2> QED BY <2>3, <2>4
<1> QED BY <1>1, <1>2, <1>3 DEF Apart

\* A pool is added, with an empty queue.
LEMMA Added ==
    ASSUME NEW V, NEW ps \in Seq(V), NEW pool \in V, pool.out = <<>>, Apart(ps)
    PROVE  Apart(Append(ps, pool)) /\ Queued(Append(ps, pool)) = Queued(ps)
<1> DEFINE qs == Append(ps, pool)
           n == Len(ps)
<1>1. /\ n \in Nat /\ Len(qs) = n + 1
      /\ \A o \in 1..n : qs[o] = ps[o]
      /\ qs[n + 1] = pool
  BY AppendProperties, LenProperties
<1>2. \A o \in 1..(n + 1) : o \in 1..n \/ o = n + 1
  BY <1>1
<1>3. \A o \in 1..n : o \in 1..(n + 1)
  BY <1>1
<1>4. ToSet(pool.out) = {} /\ Distinct(pool.out)
  BY NoElements
<1> HIDE DEF qs
<1>5. \A o \in 1..(n + 1) : Distinct(qs[o].out)
  BY <1>1, <1>2, <1>4 DEF Apart
<1>6. \A o \in 1..(n + 1) : \A x \in ToSet(qs[o].out) : o \in 1..n /\ x \in ToSet(ps[o].out)
  BY <1>1, <1>2, <1>4
<1>7. Apart(qs)
  BY <1>1, <1>5, <1>6 DEF Apart
<1>8. \A x : x \in Queued(qs) <=> x \in Queued(ps)
  <2>1. \A x : x \in Queued(qs) <=> \E o \in 1..(n + 1) : x \in ToSet(qs[o].out)
    BY <1>1, InQueue
  <2>2. \A x : x \in Queued(ps) <=> \E o \in 1..n : x \in ToSet(ps[o].out)
    BY InQueue
  <2> HIDE DEF n
  <2> QED BY <1>1, <1>3, <1>6, <2>1, <2>2
<1> QED BY <1>7, <1>8 DEF qs

-----------------------------------------------------------------------------
(* The invariant of a run                                                  *)

PoolOf(D, C) == [domain : D, conns : C, proxy : BOOLEAN, out : Seq(Nat)]

Pools(ps) == \E D, C : ps \in Seq(PoolOf(D, C))

Listed == (\E R : reqs \in Seq(R)) /\ Pools(pools) /\ resp \in Seq(Nat)

\* The count is that of the batch, the requests since the last run.
Counting ==
    /\ running \in BOOLEAN /\ broken \in BOOLEAN
    /\ batch \subseteq 1..Len(reqs)
    /\ IsFiniteSet(batch) /\ count = Cardinality(batch)
    /\ ToSet(resp) \subseteq 1..Len(reqs)

\* In a run each request of the batch is in one queue, with a connection or
\* answered; between two runs all are in queues.
Placed ==
    /\ Apart(pools) /\ flying \cap Queued(pools) = {}
    /\ running => /\ Distinct(resp) /\ ToSet(resp) \cap (flying \cup Queued(pools)) = {}
                  /\ ToSet(resp) \cup flying \cup Queued(pools) = batch
                  /\ broken => Len(resp) >= count
    /\ ~running => flying = {} /\ Queued(pools) = batch

Returned == ToSet(last.got) = last.asked /\ Len(last.got) = Cardinality(last.asked)

RunInv == Listed /\ Counting /\ Placed /\ Returned

-----------------------------------------------------------------------------
(* A request joins a queue                                                 *)

WithQueue(ps, p, q) == [ps EXCEPT ![p].out = q]

\* A pool with another queue.
LEMMA QueueOf ==
    ASSUME NEW D, NEW C, NEW ps \in Seq(PoolOf(D, C)), NEW p \in 1..Len(ps), NEW q \in Seq(Nat)
    PROVE  /\ WithQueue(ps, p, q) \in Seq(PoolOf(D, C))
           /\ Len(WithQueue(ps, p, q)) = Len(ps)
           /\ OnlyAt(ps, WithQueue(ps, p, q), p)
           /\ WithQueue(ps, p, q)[p].out = q
           /\ \A o \in 1..Len(ps) : /\ WithQueue(ps, p, q)[o].domain = ps[o].domain
                                   /\ WithQueue(ps, p, q)[o].conns = ps[o].conns
                                   /\ WithQueue(ps, p, q)[o].proxy = ps[o].proxy
<1> DEFINE V == PoolOf(D, C)
           n == Len(ps)
           x == [ps[p] EXCEPT !.out = q]
           qs == [ps EXCEPT ![p] = x]
<1>1. n \in Nat /\ ps \in [1..n -> V] /\ DOMAIN ps = 1..n /\ \A o \in 1..n : ps[o] \in V
  BY LenProperties, ElementOfSeq
<1>2. ps[p] \in V
  BY <1>1
<1>3. x \in V /\ x.out = q /\ x.domain = ps[p].domain /\ x.conns = ps[p].conns /\ x.proxy = ps[p].proxy
  <2> HIDE DEF qs
  <2> QED BY <1>2 DEF PoolOf
<1> HIDE DEF V, x
<1>4. qs \in Seq(V) /\ Len(qs) = n /\ qs[p] = x /\ \A o \in 1..n : o # p => qs[o] = ps[o]
  BY <1>1, <1>3, ExceptSeq
<1>5. WithQueue(ps, p, q) = qs
  BY DEF WithQueue, x
<1> HIDE DEF qs
<1>6. OnlyAt(ps, qs, p)
  BY <1>4 DEF OnlyAt
<1>7. \A o \in 1..n : qs[o].domain = ps[o].domain /\ qs[o].conns = ps[o].conns /\ qs[o].proxy = ps[o].proxy
  BY <1>3, <1>4
<1> QED BY <1>3, <1>4, <1>5, <1>6, <1>7 DEF V

\* The pools Client::send has when the request joins: those that were there,
\* or these and a new one behind them.
LEMMA PoolsFor ==
    ASSUME NEW d, NEW D, NEW C, pools \in Seq(PoolOf(D, C)), Apart(pools)
    PROVE  \E E, F : /\ PoolsWith(d) \in Seq(PoolOf(E, F))
                     /\ Apart(PoolsWith(d)) /\ Queued(PoolsWith(d)) = Queued(pools)
<1> DEFINE E == D \cup {d}
           F == C \cup {ConnsTo(Resolved(d))}
           V == PoolOf(E, F)
           pool == NewPool(d)
<1>1. PoolOf(D, C) \subseteq V
  BY DEF PoolOf
<1>2. pools \in Seq(V)
  <2>1. /\ Len(pools) \in Nat
        /\ pools \in [1..Len(pools) -> PoolOf(D, C)]
    BY LenProperties
  <2>2. pools = [i \in 1..Len(pools) |-> pools[i]] /\ \A i \in 1..Len(pools) : pools[i] \in V
    <3> HIDE DEF V
    <3> QED BY <1>1, <2>1
  <2>3. pools \in [1..Len(pools) -> V]
    <3> HIDE DEF V
    <3> QED BY <2>2
  <2> HIDE DEF V
  <2> QED BY <2>1, <2>3, SeqDef
<1>3. pool \in V /\ pool.out = <<>>
  <2>1. <<>> \in Seq(Nat)
    BY EmptySeq
  <2>2. SameDomain(d, proxy) \in BOOLEAN
    BY DEF SameDomain
  <2> HIDE DEF E, F
  <2>3. d \in E /\ ConnsTo(Resolved(d)) \in F
    BY DEF E, F
  <2> QED BY <2>1, <2>2, <2>3 DEF NewPool, PoolOf
<1> HIDE DEF V, pool
<1>4. CASE PoolsOf(d) # {}
  <2>1. PoolsWith(d) = pools
    BY <1>4 DEF PoolsWith
  <2> QED BY <1>2, <2>1 DEF V
<1>5. CASE PoolsOf(d) = {}
  <2>1. PoolsWith(d) = Append(pools, pool)
    BY <1>5 DEF PoolsWith, pool
  <2>2. Append(pools, pool) \in Seq(V)
    BY <1>2, <1>3, AppendProperties
  <2>3. Apart(Append(pools, pool)) /\ Queued(Append(pools, pool)) = Queued(pools)
    BY <1>2, <1>3, Added
  <2> QED BY <2>1, <2>2, <2>3 DEF V
<1> QED BY <1>4, <1>5

\* The pool of the request.
PoolFor(d) == IF PoolsOf(d) # {} THEN CHOOSE i \in PoolsOf(d) : TRUE ELSE Len(PoolsWith(d))

\* It is one of them, the last when it is new.
LEMMA PoolIsThere ==
    ASSUME NEW d, Pools(pools)
    PROVE  /\ PoolFor(d) \in 1..Len(PoolsWith(d))
           /\ PoolsOf(d) # {} => PoolFor(d) \in PoolsOf(d) /\ PoolsWith(d) = pools
           /\ PoolsOf(d) = {} => PoolFor(d) = Len(pools) + 1 /\ PoolsWith(d) = Append(pools, NewPool(d))
<1> PICK D, C : pools \in Seq(PoolOf(D, C))
  BY DEF Pools
<1>1. Len(pools) \in Nat /\ DOMAIN pools = 1..Len(pools)
  BY LenProperties
<1>2. CASE PoolsOf(d) # {}
  <2>1. PoolFor(d) \in PoolsOf(d) /\ PoolsWith(d) = pools
    BY <1>2 DEF PoolFor, PoolsWith
  <2> QED BY <1>1, <1>2, <2>1 DEF PoolsOf
<1>3. CASE PoolsOf(d) = {}
  <2>1. PoolsWith(d) = Append(pools, NewPool(d)) /\ PoolFor(d) = Len(PoolsWith(d))
    BY <1>3 DEF PoolFor, PoolsWith
  <2> DEFINE pool == NewPool(d)
  <2> HIDE DEF pool
  <2>2. Len(Append(pools, pool)) = Len(pools) + 1
    BY AppendAny
  <2> QED BY <1>1, <1>3, <2>1, <2>2 DEF pool
<1> QED BY <1>2, <1>3

\* The request that is accepted next.
NewId == Len(reqs) + 1

\* Accept in these terms.
LEMMA AcceptShape ==
    ASSUME NEW r, Accept(r)
    PROVE  LET d == TargetOf(r) p == PoolFor(d) IN
           /\ pools' = WithQueue(PoolsWith(d), p, Append(PoolsWith(d)[p].out, Len(reqs) + 1))
           /\ reqs' = Append(reqs, [url |-> r.url, want |-> r.want, pool |-> p])
           /\ batch' = batch \cup {Len(reqs) + 1}
BY DEF Accept, PoolFor, WithQueue

\* A request that is accepted is in one queue more than before: its own.
LEMMA AcceptAdds ==
    ASSUME Listed, Apart(pools), NewId \notin Queued(pools), NEW r, Accept(r)
    PROVE  /\ \E R : reqs' \in Seq(R)
           /\ Len(reqs) \in Nat /\ Len(reqs') = Len(reqs) + 1
           /\ Pools(pools') /\ Apart(pools') /\ Queued(pools') = Queued(pools) \cup {NewId}
           /\ batch' = batch \cup {NewId}
<1> DEFINE d == TargetOf(r)
           p == PoolFor(d)
           ps == PoolsWith(d)
           q == Append(ps[p].out, NewId)
           qs == WithQueue(ps, p, q)
           x == [url |-> r.url, want |-> r.want, pool |-> p]
<1>1. pools' = qs /\ reqs' = Append(reqs, x) /\ batch' = batch \cup {NewId}
  BY AcceptShape DEF NewId
<1> HIDE DEF x, qs
<1>2. (\E R : reqs' \in Seq(R)) /\ Len(reqs) \in Nat /\ Len(reqs') = Len(reqs) + 1
  BY <1>1, AppendAny DEF Listed
<1>3. NewId \in Nat
  BY <1>2 DEF NewId
<1> HIDE DEF d
<1>4. p \in 1..Len(ps)
  BY PoolIsThere DEF Listed
<1>5. PICK D, C : pools \in Seq(PoolOf(D, C))
  BY DEF Listed, Pools
<1>6. PICK E, F : ps \in Seq(PoolOf(E, F)) /\ Apart(ps) /\ Queued(ps) = Queued(pools)
  BY <1>5, PoolsFor
<1> HIDE DEF ps, p
<1>7. ps[p].out \in Seq(Nat) /\ Distinct(ps[p].out) /\ ToSet(ps[p].out) \subseteq Queued(ps)
  <2>1. ps[p] \in PoolOf(E, F)
    BY <1>4, <1>6, ElementOfSeq
  <2>2. ToSet(ps[p].out) \subseteq Queued(ps)
    BY <1>4, InQueue
  <2> QED BY <1>4, <1>6, <2>1, <2>2 DEF PoolOf, Apart
<1>8. q \in Seq(Nat) /\ ToSet(q) = ToSet(ps[p].out) \cup {NewId} /\ Distinct(q)
  <2>1. NewId \notin ToSet(ps[p].out)
    BY <1>6, <1>7
  <2> DEFINE o == ps[p].out
  <2>2. o \in Seq(Nat) /\ Distinct(o) /\ NewId \notin ToSet(o)
    BY <1>7, <2>1
  <2> HIDE DEF o
  <2>3. Append(o, NewId) \in Seq(Nat) /\ ToSet(Append(o, NewId)) = ToSet(o) \cup {NewId} /\ Distinct(Append(o, NewId))
    BY <1>3, <2>2, OneMore
  <2> QED BY <2>3 DEF o
<1> HIDE DEF q
<1>9. qs \in Seq(PoolOf(E, F)) /\ OnlyAt(ps, qs, p) /\ qs[p].out = q
  BY <1>4, <1>6, <1>8, QueueOf DEF qs
<1>10. Apart(qs) /\ Queued(qs) = Queued(ps) \cup {NewId}
  BY <1>6, <1>8, <1>9, Joined
<1>11. Pools(qs)
  BY <1>9 DEF Pools
<1> QED BY <1>1, <1>2, <1>6, <1>10, <1>11

\* The invariant between two runs, in terms of the queues.
LEMMA Waiting ==
    ASSUME RunInv, ~running
    PROVE  /\ flying = {} /\ Queued(pools) = batch /\ NewId \notin batch
           /\ Len(reqs) \in Nat /\ IsFiniteSet(batch) /\ count = Cardinality(batch)
<1>1. PICK R : reqs \in Seq(R)
  BY DEF RunInv, Listed
<1>2. Len(reqs) \in Nat
  BY <1>1, LenProperties
<1>3. NewId \notin 1..Len(reqs)
  BY <1>2 DEF NewId
<1> QED BY <1>2, <1>3 DEF RunInv, Counting, Placed

-----------------------------------------------------------------------------
(* The steps                                                               *)

\* The caller builds, or nothing happens.
LEMMA RunSame ==
    ASSUME RunInv, UNCHANGED <<reqs, pools, flying, count, runVars, batch>>
    PROVE  RunInv'
BY DEF RunInv, Listed, Counting, Placed, Returned, runVars

\* batch_add
AddOne(r) ==
    /\ ~running
    /\ IF Accepts(r) THEN Accept(r) ELSE Refuse
    /\ count' = Counted(r)
    /\ UNCHANGED <<flying, runVars>>

\* A request joins the batch, or is refused.
LEMMA RunAdd ==
    ASSUME RunInv, NEW r, AddOne(r)
    PROVE  RunInv'
<1>1. /\ flying = {} /\ Queued(pools) = batch /\ NewId \notin batch
      /\ Len(reqs) \in Nat /\ IsFiniteSet(batch) /\ count = Cardinality(batch)
  BY Waiting DEF AddOne
<1>2. CASE ~Accepts(r)
  <2>1. UNCHANGED <<reqs, pools, flying, count, runVars, batch>>
    BY <1>2 DEF AddOne, Refuse, Counted
  <2> QED BY <2>1, RunSame
<1>3. CASE Accepts(r)
  <2>1. Accept(r) /\ count' = count + 1 /\ UNCHANGED <<flying, resp, running, broken, last>> /\ ~running
    BY <1>3 DEF AddOne, Counted, runVars
  <2>2. /\ \E R : reqs' \in Seq(R)
        /\ Len(reqs') = Len(reqs) + 1
        /\ Pools(pools') /\ Apart(pools') /\ Queued(pools') = Queued(pools) \cup {NewId}
        /\ batch' = batch \cup {NewId}
    BY <1>1, <2>1, AcceptAdds DEF RunInv, Placed
  <2>3. Listed'
    BY <2>1, <2>2 DEF RunInv, Listed
  <2>4. IsFiniteSet(batch') /\ Cardinality(batch') = Cardinality(batch) + 1
    BY <1>1, <2>2, FS_AddElement
  <2>5. 1..Len(reqs) \subseteq 1..Len(reqs') /\ NewId \in 1..Len(reqs')
    BY <1>1, <2>2 DEF NewId
  <2>6. Counting'
    BY <1>1, <2>1, <2>2, <2>4, <2>5 DEF RunInv, Counting
  <2>7. Placed'
    BY <1>1, <2>1, <2>2 DEF RunInv, Placed
  <2>8. Returned'
    BY <2>1 DEF RunInv, Returned
  <2> QED BY <2>3, <2>6, <2>7, <2>8 DEF RunInv
<1> QED BY <1>2, <1>3

\* A batch of none is empty.
LEMMA NoneCollected ==
    ASSUME RunInv, ~running, count = 0
    PROVE  batch = {}
BY Waiting, FS_EmptySet

\* A request alone.
LEMMA RunSend ==
    ASSUME RunInv, SendOne
    PROVE  RunInv'
<1>1. ~running /\ count = 0 /\ resp' = <<>> /\ broken' = FALSE /\ flying' = flying
  BY DEF SendOne, Call, Enter
<1>2. /\ flying = {} /\ Queued(pools) = {} /\ batch = {} /\ NewId \notin batch /\ Len(reqs) \in Nat
  BY <1>1, Waiting, NoneCollected
<1>3. CASE ~Accepts(req)
  <2>1. UNCHANGED <<reqs, pools, flying, count, running, batch>> /\ last' = [asked |-> {}, got |-> <<>>]
    BY <1>1, <1>3 DEF SendOne, Refuse
  <2>2. Listed'
    BY <1>1, <2>1, NoElements DEF RunInv, Listed
  <2>3. Counting'
    BY <1>1, <2>1, NoElements DEF RunInv, Counting
  <2>4. Placed'
    BY <1>1, <1>2, <2>1, NoElements DEF RunInv, Placed
  <2>5. Returned'
    <3>1. last'.got = <<>> /\ last'.asked = {}
      BY <2>1
    <3> QED BY <3>1, NoElements, FS_EmptySet DEF Returned
  <2> QED BY <2>2, <2>3, <2>4, <2>5 DEF RunInv
<1>4. CASE Accepts(req)
  <2>1. Accept(req) /\ count' = 1 /\ running' = TRUE /\ last' = last
    BY <1>4 DEF SendOne
  <2>2. /\ \E R : reqs' \in Seq(R)
        /\ Len(reqs') = Len(reqs) + 1
        /\ Pools(pools') /\ Apart(pools') /\ Queued(pools') = {NewId}
        /\ batch' = {NewId}
    BY <1>2, <2>1, AcceptAdds DEF RunInv, Placed
  <2>3. Listed'
    BY <1>1, <2>2, NoElements DEF Listed
  <2>4. IsFiniteSet(batch') /\ Cardinality(batch') = 1
    BY <2>2, FS_Singleton
  <2>5. NewId \in 1..Len(reqs')
    BY <1>2, <2>2 DEF NewId
  <2>6. Counting'
    BY <1>1, <2>1, <2>2, <2>4, <2>5, NoElements DEF Counting
  <2>7. Placed'
    BY <1>1, <1>2, <2>1, <2>2, NoElements DEF Placed
  <2>8. Returned'
    BY <2>1 DEF RunInv, Returned
  <2> QED BY <2>3, <2>6, <2>7, <2>8 DEF RunInv
<1> QED BY <1>3, <1>4

\* The loop of a batch starts, or there is nothing to wait for.
LEMMA RunStarts ==
    ASSUME RunInv, BatchRun
    PROVE  RunInv'
<1>1. /\ ~running /\ resp' = <<>> /\ broken' = FALSE
      /\ UNCHANGED <<reqs, pools, flying, count, batch>>
      /\ \/ running' = TRUE /\ last' = last
         \/ running' = running /\ last' = [asked |-> batch, got |-> <<>>] /\ ~(count > 0)
  BY DEF BatchRun, Call, Enter, clientVars
<1>2. /\ flying = {} /\ Queued(pools) = batch /\ IsFiniteSet(batch) /\ count = Cardinality(batch)
  BY <1>1, Waiting
<1>3. Listed'
  BY <1>1, NoElements DEF RunInv, Listed
<1>4. Counting'
  BY <1>1, NoElements DEF RunInv, Counting
<1>5. Placed'
  BY <1>1, <1>2, NoElements DEF RunInv, Placed
<1>6. Returned'
  <2>1. CASE last' = last
    BY <2>1 DEF RunInv, Returned
  <2>2. CASE last' = [asked |-> batch, got |-> <<>>] /\ ~(count > 0)
    <3>1. count = 0
      BY <1>2, <2>2, FS_CardinalityType
    <3>2. last'.got = <<>> /\ last'.asked = {} /\ Cardinality({}) = 0
      BY <1>1, <2>2, <3>1, NoneCollected, FS_EmptySet
    <3> QED BY <3>2, NoElements DEF Returned
  <2> QED BY <1>1, <2>1, <2>2
<1> QED BY <1>3, <1>4, <1>5, <1>6 DEF RunInv

\* The answers to some requests that had none, in a run.
Answers(ids) ==
    /\ running /\ UNCHANGED <<reqs, count, running, batch, last>>
    /\ CallBack(ids)

\* The answers go from queues and connections to the list.
LEMMA RunAnswers ==
    ASSUME RunInv, NEW ids \in Seq(Nat), Answers(ids), Distinct(ids),
           ToSet(ids) \subseteq flying \cup Queued(pools),
           Pools(pools'), Apart(pools'), flying' \cap Queued(pools') = {},
           flying' \cup Queued(pools') = (flying \cup Queued(pools)) \ ToSet(ids)
    PROVE  RunInv'
<1>1. /\ running = TRUE /\ UNCHANGED <<reqs, count, running, batch, last>>
      /\ resp' = resp \o ids /\ broken' = (broken \/ (ids # <<>> /\ Enough(resp')))
  BY DEF Answers, CallBack, RunInv, Counting
<1>2. /\ resp \in Seq(Nat) /\ Distinct(resp) /\ ToSet(resp) \cap (flying \cup Queued(pools)) = {}
      /\ ToSet(resp) \cup flying \cup Queued(pools) = batch
      /\ broken => Len(resp) >= count
  BY <1>1 DEF RunInv, Listed, Placed
<1>3. /\ resp' \in Seq(Nat) /\ Len(resp') = Len(resp) + Len(ids)
      /\ ToSet(resp') = ToSet(resp) \cup ToSet(ids)
  BY <1>1, <1>2, Both
<1>4. Distinct(resp')
  <2>1. ToSet(resp) \cap ToSet(ids) = {}
    BY <1>2
  <2> QED BY <1>1, <1>2, <2>1, Both
<1>5. Listed'
  BY <1>1, <1>3 DEF RunInv, Listed
<1>6. Counting'
  <2>1. ToSet(resp') \subseteq batch
    BY <1>2, <1>3
  <2> QED BY <1>1, <2>1 DEF RunInv, Counting
<1>7. broken' => Len(resp') >= count'
  <2>1. Len(resp) \in Nat /\ Len(ids) \in Nat /\ count \in Nat
    BY <1>2, LenProperties, FS_CardinalityType DEF RunInv, Counting
  <2>2. CASE broken
    BY <1>1, <1>2, <1>3, <2>1, <2>2
  <2>3. CASE ~broken
    BY <1>1, <2>3 DEF Enough
  <2> QED BY <2>2, <2>3
<1>8. ToSet(resp') \cap (flying' \cup Queued(pools')) = {}
  BY <1>2, <1>3
<1>9. ToSet(resp') \cup flying' \cup Queued(pools') = batch'
  BY <1>1, <1>2, <1>3
<1>10. Placed'
  BY <1>1, <1>4, <1>7, <1>8, <1>9 DEF Placed
<1>11. Returned'
  BY <1>1 DEF RunInv, Returned
<1> QED BY <1>5, <1>6, <1>10, <1>11 DEF RunInv

\* A pool takes its queue: some to its connections, the others are refused.
LEMMA RunPrepare ==
    ASSUME RunInv, NEW p \in DOMAIN pools, NEW refused, Prepare(p, refused)
    PROVE  RunInv'
<1> DEFINE q == pools[p].out
           ids == Only(q, refused)
           none == <<>>
<1>1. /\ running /\ refused \subseteq ToSet(q)
      /\ pools' = WithQueue(pools, p, none)
      /\ flying' = flying \cup (ToSet(q) \ refused)
      /\ UNCHANGED <<reqs, count, running, batch, last>> /\ CallBack(ids)
  BY DEF Prepare, WithQueue
<1>2. PICK D, C : pools \in Seq(PoolOf(D, C))
  BY DEF RunInv, Listed, Pools
<1>3. p \in 1..Len(pools)
  BY <1>2, LenProperties
<1>4. Apart(pools) /\ flying \cap Queued(pools) = {}
  BY DEF RunInv, Placed
<1>5. q \in Seq(Nat) /\ Distinct(q) /\ ToSet(q) \subseteq Queued(pools)
  <2>1. pools[p] \in PoolOf(D, C)
    BY <1>2, <1>3, ElementOfSeq
  <2>2. ToSet(q) \subseteq Queued(pools)
    BY <1>3, InQueue
  <2> QED BY <1>3, <1>4, <2>1, <2>2 DEF PoolOf, Apart
<1> HIDE DEF q
<1>6. ids \in Seq(Nat) /\ ToSet(ids) = refused /\ Distinct(ids)
  <2> DEFINE N == Nat
  <2>1. q \in Seq(N)
    BY <1>5
  <2> HIDE DEF N
  <2>2. Only(q, refused) \in Seq(N) /\ ToSet(Only(q, refused)) = ToSet(q) \cap refused
        /\ (Distinct(q) => Distinct(Only(q, refused)))
    BY <2>1, OnlySome
  <2> QED BY <1>1, <1>5, <2>2 DEF N
<1> HIDE DEF ids
<1>7. none \in Seq(Nat) /\ ToSet(none) = {} /\ Distinct(none)
  BY NoElements
<1> HIDE DEF none
<1>8. /\ pools' \in Seq(PoolOf(D, C)) /\ OnlyAt(pools, pools', p) /\ pools'[p].out = none
  BY <1>1, <1>2, <1>3, <1>7, QueueOf
<1>9. Apart(pools') /\ Queued(pools') = Queued(pools) \ ToSet(q)
  BY <1>4, <1>7, <1>8, Taken DEF q
<1>10. Pools(pools')
  BY <1>8 DEF Pools
<1>11. flying' \cap Queued(pools') = {}
  BY <1>1, <1>4, <1>9
<1>12. flying' \cup Queued(pools') = (flying \cup Queued(pools)) \ ToSet(ids)
  BY <1>1, <1>4, <1>5, <1>6, <1>9
<1>13. Answers(ids) /\ ToSet(ids) \subseteq flying \cup Queued(pools)
  BY <1>1, <1>5, <1>6 DEF Answers
<1> QED BY <1>6, <1>9, <1>10, <1>11, <1>12, <1>13, RunAnswers

\* A connection calls back.
LEMMA RunAnswer ==
    ASSUME RunInv, NEW id \in flying, Answer(id)
    PROVE  RunInv'
<1> DEFINE ids == <<id>>
           none == <<>>
<1>1. /\ running = TRUE /\ flying' = flying \ {id} /\ CallBack(ids)
      /\ UNCHANGED <<reqs, pools, count, running, batch, last>>
  BY DEF Answer, RunInv, Counting
<1>2. id \in Nat
  <2>1. id \in batch
    BY <1>1 DEF RunInv, Placed
  <2> QED BY <2>1 DEF RunInv, Counting
<1>3. none \in Seq(Nat) /\ ToSet(none) = {} /\ Distinct(none)
  BY NoElements
<1>4. ids = Append(none, id)
  BY <1>2
<1> HIDE DEF none, ids
<1>5. ids \in Seq(Nat) /\ ToSet(ids) = {id} /\ Distinct(ids)
  BY <1>2, <1>3, <1>4, OneMore
<1>6. Pools(pools) /\ Apart(pools) /\ flying \cap Queued(pools) = {}
  BY DEF RunInv, Listed, Placed
<1>7. Pools(pools') /\ Apart(pools') /\ flying' \cap Queued(pools') = {}
  BY <1>1, <1>6
<1>8. flying' \cup Queued(pools') = (flying \cup Queued(pools)) \ ToSet(ids)
  BY <1>1, <1>5, <1>6
<1>9. Answers(ids) /\ ToSet(ids) \subseteq flying \cup Queued(pools)
  BY <1>1, <1>5 DEF Answers
<1> QED BY <1>5, <1>7, <1>8, <1>9, RunAnswers

\* A loop that was broken has an answer for each request of the batch.
LEMMA AllAnswered ==
    ASSUME RunInv, running, broken
    PROVE  /\ ToSet(resp) = batch /\ Len(resp) = Cardinality(batch)
           /\ flying = {} /\ Queued(pools) = {}
<1>1. /\ resp \in Seq(Nat) /\ Distinct(resp) /\ ToSet(resp) \cap (flying \cup Queued(pools)) = {}
      /\ ToSet(resp) \cup flying \cup Queued(pools) = batch
      /\ Len(resp) >= Cardinality(batch) /\ IsFiniteSet(batch)
      /\ flying \cap Queued(pools) = {}
  BY DEF RunInv, Listed, Counting, Placed
<1>2. IsFiniteSet(ToSet(resp)) /\ Cardinality(ToSet(resp)) = Len(resp)
  BY <1>1, Counts
<1>3. ToSet(resp) \in SUBSET batch
  BY <1>1
<1>4. /\ Cardinality(ToSet(resp)) <= Cardinality(batch)
      /\ Cardinality(ToSet(resp)) = Cardinality(batch) => ToSet(resp) = batch
  BY <1>1, <1>3, FS_Subset
<1>5. Cardinality(ToSet(resp)) \in Nat /\ Cardinality(batch) \in Nat
  BY <1>1, <1>2, FS_CardinalityType
<1>6. Cardinality(ToSet(resp)) = Cardinality(batch)
  BY <1>1, <1>2, <1>4, <1>5
<1>7. ToSet(resp) = batch
  BY <1>4, <1>6
<1> QED BY <1>1, <1>2, <1>6, <1>7

\* The run returns them.
LEMMA RunEnds ==
    ASSUME RunInv, RunReturns
    PROVE  RunInv'
<1>1. /\ running /\ broken /\ running' = FALSE /\ count' = 0 /\ batch' = {}
      /\ last' = [asked |-> batch, got |-> resp]
      /\ UNCHANGED <<reqs, pools, flying, resp, broken>>
  BY DEF RunReturns, clientVars
<1>2. /\ ToSet(resp) = batch /\ Len(resp) = Cardinality(batch)
      /\ flying = {} /\ Queued(pools) = {}
  BY <1>1, AllAnswered
<1>3. Listed'
  BY <1>1 DEF RunInv, Listed
<1>4. Counting'
  BY <1>1, FS_EmptySet DEF RunInv, Counting
<1>5. Placed'
  BY <1>1, <1>2 DEF RunInv, Placed
<1>6. Returned'
  BY <1>1, <1>2 DEF Returned
<1> QED BY <1>3, <1>4, <1>5, <1>6 DEF RunInv

\* The invariant holds initially.
LEMMA RunInit == Init => RunInv
<1> SUFFICES ASSUME Init PROVE RunInv
  OBVIOUS
<1>1. /\ reqs = <<>> /\ pools = <<>> /\ flying = {} /\ count = 0 /\ resp = <<>>
      /\ running = FALSE /\ broken = FALSE /\ batch = {} /\ last = [asked |-> {}, got |-> <<>>]
  BY DEF Init
<1>2. Listed
  <2>1. \A S : <<>> \in Seq(S)
    BY EmptySeq
  <2> QED BY <1>1, <2>1 DEF Listed, Pools
<1>3. Counting
  BY <1>1, FS_EmptySet, NoElements DEF Counting
<1>4. Placed
  BY <1>1, NoElements DEF Placed, Apart, Queued
<1>5. Returned
  <2>1. last.got = <<>> /\ last.asked = {}
    BY <1>1
  <2> QED BY <2>1, NoElements, FS_EmptySet DEF Returned
<1> QED BY <1>2, <1>3, <1>4, <1>5 DEF RunInv

\* Every step keeps it.
LEMMA RunNext == RunInv /\ [Next]_vars => RunInv'
<1> SUFFICES ASSUME RunInv, [Next]_vars PROVE RunInv'
  OBVIOUS
<1>1. CASE Building
  <2>1. UNCHANGED <<clientVars, count, runVars, batch>>
    BY <1>1 DEF Building, Make, Parse, CallSetHost, CallSetDomain, CallSetPath
  <2> QED BY <2>1, RunSame DEF clientVars
<1>2. CASE BatchAddSend
  <2>1. AddOne(req)
    BY <1>2 DEF BatchAddSend, AddOne, Call
  <2> QED BY <2>1, RunAdd
<1>3. ASSUME NEW t \in Texts, BatchAdd(t) PROVE RunInv'
  <2>1. AddOne(Parsed(Fresh(NewUrl), t))
    BY <1>3 DEF BatchAdd, AddOne, Call
  <2> QED BY <2>1, RunAdd
<1>4. CASE SendOne
  BY <1>4, RunSend
<1>5. CASE BatchRun
  BY <1>5, RunStarts
<1>6. CASE Pooling
  BY <1>6, RunPrepare DEF Pooling
<1>7. CASE Answering
  BY <1>7, RunAnswer DEF Answering
<1>8. CASE RunReturns
  BY <1>8, RunEnds
<1>9. CASE UNCHANGED vars
  <2>1. UNCHANGED <<reqs, pools, flying, count, runVars, batch>>
    BY <1>9 DEF vars, clientVars
  <2> QED BY <2>1, RunSame
<1> QED BY <1>1, <1>2, <1>3, <1>4, <1>5, <1>6, <1>7, <1>8, <1>9 DEF Next

\* A run returns exactly one answer for each request of its batch, for any
\* number of requests, pools and connections.
THEOREM RunsComplete == Spec => []RunComplete
<1>1. RunInv => RunComplete
  BY DEF RunInv, Counting, Placed, Returned, RunComplete
<1> QED BY RunInit, RunNext, <1>1, PTL DEF Spec

-----------------------------------------------------------------------------
(* The request a caller builds                                             *)

\* A record with the fields of an URL, and what was meant.
UrlShape(u) == \E P, V, O, D : u \in [parts : P, view : [Fields -> V], own : [Fields -> O], domain : D]
WantShape(w) == \E N, T, Q : w \in [name : N, port : T, path : Q, mixed : BOOLEAN]
Shaped(r) == UrlShape(r.url) /\ WantShape(r.want)

\* Its domain, when it has one, and its path are those that were given last.
Aimed(r) ==
    IsDomain(r.url.domain) =>
        /\ r.url.domain.name = r.want.name /\ r.url.domain.port = r.want.port
        /\ r.want.name \in Names
        /\ ~r.want.mixed => r.url.domain.nodes = NodesOf(r.want.name, r.want.port)

ReqOk(r) == Shaped(r) /\ Aimed(r) /\ Shown(r.url, "path") = r.want.path

\* Any sets of values do.
LEMMA ShapeIs ==
    /\ \A u, P, V, O, D : u \in [parts : P, view : [Fields -> V], own : [Fields -> O], domain : D] => UrlShape(u)
    /\ \A w, N, T, Q : w \in [name : N, port : T, path : Q, mixed : BOOLEAN] => WantShape(w)
BY Zenon DEF UrlShape, WantShape

\* Nothing before the nodes of a name.
LEMMA NoNodes == \A name, port : <<>> \o NodesOf(name, port) = NodesOf(name, port)
<1> SUFFICES ASSUME NEW name, NEW port PROVE <<>> \o NodesOf(name, port) = NodesOf(name, port)
  OBVIOUS
<1> DEFINE x == [ip |-> name, port |-> port]
           S == {x}
           s == NodesOf(name, port)
<1>1. s = <<x>> \/ s = <<>>
  BY DEF NodesOf
<1>2. s \in Seq(S)
  <2>1. x \in S /\ <<>> \in Seq(S)
    BY EmptySeq
  <2> HIDE DEF S, x, s
  <2>2. <<x>> \in Seq(S)
    BY <2>1
  <2> QED BY <1>1, <2>1, <2>2
<1> HIDE DEF x, s
<1> HIDE DEF S
<1>3. <<>> \o s = s
  BY <1>2, ConcatEmptySeq
<1> QED BY <1>3 DEF s

\* A request that nothing was done to.
LEMMA FreshOk ==
    ASSUME NEW u
    PROVE  ReqOk(Fresh(u))
<1> DEFINE r == Fresh(u)
<1>1. r.url = NewUrl /\ r.want = [name |-> NoText, port |-> 80, path |-> "/", mixed |-> FALSE]
  BY DEF Fresh, ClearUrl, Meant
<1> HIDE DEF r
<1>2. Shaped(r)
  <2> DEFINE N == {NoText}
             T == {80}
             Q == {"/"}
             P == {<<>>}
             V == {"default"}
             D == {EmptyDomain}
  <2>1. NewUrl \in [parts : P, view : [Fields -> V], own : [Fields -> N], domain : D]
    BY DEF NewUrl
  <2>2. r.want \in [name : N, port : T, path : Q, mixed : BOOLEAN]
    BY <1>1
  <2> HIDE DEF N, T, Q, P, V, D
  <2>3. UrlShape(NewUrl) /\ WantShape(r.want)
    BY <2>1, <2>2, ShapeIs
  <2> QED BY <1>1, <2>3 DEF Shaped
<1>3. Aimed(r)
  BY <1>1 DEF Aimed, IsDomain, NewUrl, EmptyDomain
<1>4. Shown(NewUrl, "path") = "/"
  BY DEF Shown, NewUrl, Default, Fields
<1>5. r.want.path = "/"
  BY <1>1
<1> QED BY <1>1, <1>2, <1>3, <1>4, <1>5 DEF ReqOk, r

\* A domain that was empty, with a name and a port.
LEMMA DomainGiven ==
    ASSUME NEW d, d.nodes = <<>>, NEW name, NEW port, NEW text, name # NoText, port # 0
    PROVE  LET e == DomainSet(d, name, port, text) IN
           e.name = name /\ e.port = port /\ e.nodes = NodesOf(name, port)
BY NoNodes DEF DomainSet

\* A request of a text.
LEMMA ParsedOk ==
    ASSUME NEW r, NEW t \in Texts
    PROVE  ReqOk(Parsed(r, t))
<1> DEFINE c == [ClearUrl(r.url) EXCEPT !.parts = t]
           found(fields) == [f \in Fields |-> IF f \in fields \cap DOMAIN t THEN "parts" ELSE "default"]
           u == ParseUrl(r.url, t)
           w == MeantBy(t)
           d == HostOf(EmptyDomain, t)
           own == [f \in Fields |-> NoText]
           view == [f \in Fields |-> "default"]
<1>1. Parsed(r, t).url = u /\ Parsed(r, t).want = w
  BY DEF Parsed
<1>2. c = [parts |-> t, view |-> view, own |-> own, domain |-> EmptyDomain]
  BY DEF ClearUrl, NewUrl
<1>3. found(Fields) \in [Fields -> {"parts", "default"}] /\ found({"schema"}) \in [Fields -> {"parts", "default"}]
      /\ view \in [Fields -> {"parts", "default"}] /\ own \in [Fields -> {NoText}]
  OBVIOUS
<1>4. /\ view["path"] = "default"
      /\ found({"schema"})["path"] = "default"
      /\ found(Fields)["path"] = IF "path" \in DOMAIN t THEN "parts" ELSE "default"
  BY DEF Fields
<1>5. CASE "host" \notin DOMAIN t
  <2>1. \E v \in {view, found({"schema"})} : u = [parts |-> t, view |-> v, own |-> own, domain |-> EmptyDomain]
    <3>1. CASE t = <<>>
      <4>1. u = c
        BY <3>1 DEF ParseUrl
      <4> QED BY <1>2, <4>1
    <3>2. CASE t # <<>>
      <4>1. u = [c EXCEPT !.view = found({"schema"})]
        BY <1>5, <3>2 DEF ParseUrl
      <4>2. u = [parts |-> t, view |-> found({"schema"}), own |-> own, domain |-> EmptyDomain]
        BY <1>2, <4>1
      <4> QED BY <4>2
    <3> QED BY <3>1, <3>2
  <2>2. w = [name |-> NoText, port |-> 80, path |-> "/", mixed |-> FALSE]
    BY <1>5 DEF MeantBy, Meant
  <2> HIDE DEF u, w, own
  <2>3. PICK v \in {view, found({"schema"})} : u = [parts |-> t, view |-> v, own |-> own, domain |-> EmptyDomain]
    BY <2>1
  <2>4. v["path"] = "default" /\ v \in [Fields -> {"parts", "default"}] /\ own \in [Fields -> {NoText}]
    BY <1>3, <1>4
  <2> HIDE DEF view, found
  <2>5. /\ u \in [parts : {t}, view : [Fields -> {"parts", "default"}],
                  own : [Fields -> {NoText}], domain : {EmptyDomain}]
        /\ u.domain = EmptyDomain /\ u.view["path"] = "default"
    BY <2>3, <2>4
  <2>6. w \in [name : {NoText}, port : {80}, path : {"/"}, mixed : BOOLEAN] /\ w.path = "/"
    BY <2>2
  <2>7. Shaped(Parsed(r, t))
    <3> DEFINE N == {NoText}
               T == {80}
               Q == {"/"}
               P == {t}
               V == {"parts", "default"}
               D == {EmptyDomain}
    <3>1. u \in [parts : P, view : [Fields -> V], own : [Fields -> N], domain : D]
      BY <2>5
    <3>2. w \in [name : N, port : T, path : Q, mixed : BOOLEAN]
      BY <2>6
    <3> HIDE DEF N, T, Q, P, V, D
    <3>3. UrlShape(u) /\ WantShape(w)
      BY <3>1, <3>2, ShapeIs
    <3> QED BY <1>1, <3>3 DEF Shaped
  <2>8. Aimed(Parsed(r, t))
    BY <1>1, <2>5 DEF Aimed, IsDomain, EmptyDomain
  <2>9. Shown(u, "path") = "/"
    BY <2>5 DEF Shown, Default
  <2> QED BY <1>1, <2>6, <2>7, <2>8, <2>9 DEF ReqOk
<1>6. CASE "host" \in DOMAIN t
  <2>1. u = [parts |-> t, view |-> found(Fields), own |-> own, domain |-> d]
    <3>1. t # <<>>
      BY <1>6
    <3>2. u = [c EXCEPT !.view = found(Fields), !.domain = HostOf(@, t)]
      BY <1>6, <3>1 DEF ParseUrl
    <3> QED BY <1>2, <3>2
  <2> DEFINE port == IF "port" \in DOMAIN t THEN t.port ELSE 80
             text == IF "port" \in DOMAIN t THEN t.number ELSE "80"
             path == PathIn(t)
             name == t.host
  <2>2. d = DomainSet(EmptyDomain, name, port, text)
    BY DEF HostOf
  <2>3. w = [name |-> name, port |-> port, path |-> path, mixed |-> FALSE]
    BY <1>6 DEF MeantBy, Meant
  <2>4. name \in Names
    BY <1>6, NamesKnown
  <2>5. IsDomain(d) => d.name = name /\ d.port = port /\ d.nodes = NodesOf(name, port)
    <3> HIDE DEF d, name, port, text
    <3>1. CASE name = NoText \/ port = 0
      BY <2>2, <3>1 DEF DomainSet, IsDomain, EmptyDomain
    <3>2. CASE name # NoText /\ port # 0
      <4>1. EmptyDomain.nodes = <<>>
        BY DEF EmptyDomain
      <4> QED BY <2>2, <3>2, <4>1, DomainGiven
    <3> QED BY <3>1, <3>2
  <2> HIDE DEF u, w, own, port, name, d
  <2>6. Shown(u, "path") = path
    <3>1. u.parts = t /\ u.view = found(Fields)
      BY <2>1
    <3> HIDE DEF found
    <3>2. CASE "path" \in DOMAIN t
      <4>1. u.view["path"] = "parts" /\ path = t["path"]
        BY <1>4, <3>1, <3>2 DEF PathIn
      <4> QED BY <3>1, <4>1 DEF Shown
    <3>3. CASE "path" \notin DOMAIN t
      <4>1. u.view["path"] = "default" /\ path = "/"
        BY <1>4, <3>1, <3>3 DEF PathIn
      <4> QED BY <4>1 DEF Shown, Default
    <3> QED BY <3>2, <3>3
  <2> HIDE DEF path, found, view
  <2>7. u \in [parts : {t}, view : [Fields -> {"parts", "default"}], own : [Fields -> {NoText}], domain : {d}]
    BY <1>3, <2>1 DEF own
  <2>8. w \in [name : {name}, port : {port}, path : {path}, mixed : BOOLEAN]
    BY <2>3
  <2>9. Shaped(Parsed(r, t))
    <3> DEFINE N == {name}
               T == {port}
               Q == {path}
               P == {t}
               V == {"parts", "default"}
               O == {NoText}
               D == {d}
    <3>1. u \in [parts : P, view : [Fields -> V], own : [Fields -> O], domain : D]
      BY <2>7
    <3>2. w \in [name : N, port : T, path : Q, mixed : BOOLEAN]
      BY <2>8
    <3> HIDE DEF N, T, Q, P, V, O, D
    <3>3. UrlShape(u) /\ WantShape(w)
      BY <3>1, <3>2, ShapeIs
    <3> QED BY <1>1, <3>3 DEF Shaped
  <2>10. u.domain = d /\ w.name = name /\ w.port = port /\ w.path = path
    BY <2>1, <2>3
  <2>11. Aimed(Parsed(r, t))
    BY <1>1, <2>4, <2>5, <2>10 DEF Aimed
  <2> QED BY <1>1, <2>6, <2>9, <2>10, <2>11 DEF ReqOk
<1> QED BY <1>5, <1>6

\* set_path and set_domain change one field of the URL.
LEMMA FieldSet ==
    ASSUME NEW u, UrlShape(u), NEW value
    PROVE  LET v == SetField(u, "path", value) IN
           UrlShape(v) /\ v.domain = u.domain /\ Shown(v, "path") = value
<1> DEFINE v == SetField(u, "path", value)
<1>1. PICK P, V, O, D : u \in [parts : P, view : [Fields -> V], own : [Fields -> O], domain : D]
  BY DEF UrlShape
<1> DEFINE S == V \cup {"own"}
           T == O \cup {value}
<1>2. v = [u EXCEPT !.own["path"] = value, !.view["path"] = "own"]
  BY DEF SetField
<1>3. "path" \in Fields
  BY DEF Fields
<1>4. /\ v \in [parts : P, view : [Fields -> S], own : [Fields -> T], domain : D]
      /\ v.domain = u.domain /\ v.view["path"] = "own" /\ v.own["path"] = value
  <2> DEFINE own == [u.own EXCEPT !["path"] = value]
             view == [u.view EXCEPT !["path"] = "own"]
  <2>1. u.own \in [Fields -> O] /\ u.view \in [Fields -> V] /\ u.parts \in P /\ u.domain \in D
    BY <1>1
  <2>2. own \in [Fields -> T] /\ own["path"] = value
    BY <1>3, <2>1
  <2>3. view \in [Fields -> S] /\ view["path"] = "own"
    BY <1>3, <2>1
  <2>4. v = [parts |-> u.parts, view |-> view, own |-> own, domain |-> u.domain]
    BY <1>1, <1>2
  <2> HIDE DEF own, view, v, S, T
  <2> QED BY <2>1, <2>2, <2>3, <2>4
<1> HIDE DEF v, S, T
<1>5. UrlShape(v)
  BY <1>4, ShapeIs
<1>6. Shown(v, "path") = value
  BY <1>4 DEF Shown
<1> QED BY <1>4, <1>5, <1>6 DEF v

\* set_domain.
LEMMA DomainPut ==
    ASSUME NEW u, UrlShape(u), NEW d
    PROVE  LET v == SetDomain(u, d) IN
           UrlShape(v) /\ v.domain = d /\ Shown(v, "path") = Shown(u, "path")
<1> DEFINE v == SetDomain(u, d)
<1>1. PICK P, V, O, D : u \in [parts : P, view : [Fields -> V], own : [Fields -> O], domain : D]
  BY DEF UrlShape
<1> DEFINE E == D \cup {d}
<1>2. /\ v \in [parts : P, view : [Fields -> V], own : [Fields -> O], domain : E]
      /\ v.domain = d /\ v.view = u.view /\ v.own = u.own /\ v.parts = u.parts
  BY <1>1 DEF SetDomain
<1> HIDE DEF v, E
<1>3. UrlShape(v)
  BY <1>2, ShapeIs
<1>4. Shown(v, "path") = Shown(u, "path")
  BY <1>2 DEF Shown
<1> QED BY <1>2, <1>3, <1>4 DEF v

\* The URL u and the meaning w of a request.
LEMMA ReqIs ==
    ASSUME NEW r, NEW u, NEW w, r = [url |-> u, want |-> w], UrlShape(u), WantShape(w),
           Shown(u, "path") = w.path,
           IsDomain(u.domain) => /\ u.domain.name = w.name /\ u.domain.port = w.port /\ w.name \in Names
                                 /\ ~w.mixed => u.domain.nodes = NodesOf(w.name, w.port)
    PROVE  ReqOk(r)
<1>1. r.url = u /\ r.want = w
  OBVIOUS
<1> QED BY <1>1 DEF ReqOk, Shaped, Aimed

\* CallSetPath keeps to what was meant.
LEMMA PathOk ==
    ASSUME ReqOk(req), NEW path, CallSetPath(path)
    PROVE  ReqOk(req')
<1> DEFINE u == SetField(req.url, "path", path)
           w == [req.want EXCEPT !.path = path]
<1>1. req' = [url |-> u, want |-> w]
  BY DEF CallSetPath
<1>2. UrlShape(u) /\ u.domain = req.url.domain /\ Shown(u, "path") = path
  BY FieldSet DEF ReqOk, Shaped
<1>3. PICK N, T, Q : req.want \in [name : N, port : T, path : Q, mixed : BOOLEAN]
  BY DEF ReqOk, Shaped, WantShape
<1> DEFINE R == Q \cup {path}
<1>4. /\ w \in [name : N, port : T, path : R, mixed : BOOLEAN]
      /\ w.name = req.want.name /\ w.port = req.want.port /\ w.mixed = req.want.mixed /\ w.path = path
  BY <1>3
<1> HIDE DEF u, w, R
<1>5. WantShape(w)
  BY <1>4, ShapeIs
<1>6. IsDomain(u.domain) => /\ u.domain.name = w.name /\ u.domain.port = w.port /\ w.name \in Names
                            /\ ~w.mixed => u.domain.nodes = NodesOf(w.name, w.port)
  BY <1>2, <1>4 DEF ReqOk, Aimed
<1>7. Shown(u, "path") = w.path
  BY <1>2, <1>4
<1> QED BY <1>1, <1>2, <1>5, <1>6, <1>7, ReqIs

\* So does CallSetHost,
LEMMA HostOk ==
    ASSUME ReqOk(req), NEW h \in Hosts, CallSetHost(h)
    PROVE  ReqOk(req')
<1> DEFINE d == DomainSet(req.url.domain, h.name, h.port, NoText)
           u == SetHost(req.url, h.name, h.port)
           mixed == req.want.mixed \/ req.url.domain.nodes # <<>>
           w == [Meant(h.name, h.port, req.want.path) EXCEPT !.mixed = mixed]
<1>1. req' = [url |-> u, want |-> w]
  BY DEF CallSetHost
<1>2. UrlShape(req.url) /\ Shown(req.url, "path") = req.want.path
  BY DEF ReqOk, Shaped
<1>3. u = SetDomain(req.url, d)
  BY DEF SetHost, SetDomain
<1>4. UrlShape(u) /\ u.domain = d /\ Shown(u, "path") = req.want.path
  <2> HIDE DEF d, u
  <2> QED BY <1>2, <1>3, DomainPut
<1>5. PICK N, T, Q : req.want \in [name : N, port : T, path : Q, mixed : BOOLEAN]
  BY DEF ReqOk, Shaped, WantShape
<1> DEFINE M == N \cup {h.name}
           U == T \cup {h.port}
<1>6. w = [name |-> h.name, port |-> h.port, path |-> req.want.path, mixed |-> mixed]
  <2> HIDE DEF mixed
  <2> QED BY DEF Meant
<1>7. /\ w \in [name : M, port : U, path : Q, mixed : BOOLEAN]
      /\ w.name = h.name /\ w.port = h.port /\ w.mixed = mixed /\ w.path = req.want.path
  <2>1. mixed \in BOOLEAN /\ req.want.path \in Q
    BY <1>5
  <2> HIDE DEF mixed, w
  <2> QED BY <1>6, <2>1
<1>8. h.name \in Names /\ h.name # NoText /\ h.port # 0
  BY NamesKnown
<1>9. d.name = h.name /\ d.port = h.port /\ d.nodes = req.url.domain.nodes \o NodesOf(h.name, h.port)
  BY <1>8 DEF DomainSet
<1>10. ~mixed => d.nodes = NodesOf(h.name, h.port)
  <2>1. ~mixed => req.url.domain.nodes = <<>>
    OBVIOUS
  <2> HIDE DEF d, mixed
  <2> QED BY <1>9, <2>1, NoNodes
<1> HIDE DEF u, w, d, M, U, mixed
<1>11. WantShape(w)
  BY <1>7, ShapeIs
<1>12. IsDomain(u.domain) => /\ u.domain.name = w.name /\ u.domain.port = w.port /\ w.name \in Names
                             /\ ~w.mixed => u.domain.nodes = NodesOf(w.name, w.port)
  BY <1>4, <1>7, <1>8, <1>9, <1>10
<1>13. Shown(u, "path") = w.path
  BY <1>4, <1>7
<1> QED BY <1>1, <1>4, <1>11, <1>12, <1>13, ReqIs

\* and CallSetDomain.
LEMMA DomainOk ==
    ASSUME ReqOk(req), NEW h \in Hosts, CallSetDomain(h)
    PROVE  ReqOk(req')
<1> DEFINE d == DomainSet(EmptyDomain, h.name, h.port, NoText)
           u == SetDomain(req.url, d)
           w == Meant(h.name, h.port, req.want.path)
<1>1. req' = [url |-> u, want |-> w]
  BY DEF CallSetDomain
<1>2. UrlShape(req.url) /\ Shown(req.url, "path") = req.want.path
  BY DEF ReqOk, Shaped
<1>3. h.name \in Names /\ h.name # NoText /\ h.port # 0
  BY NamesKnown
<1>4. d.name = h.name /\ d.port = h.port /\ d.nodes = NodesOf(h.name, h.port)
  <2>1. EmptyDomain.nodes = <<>>
    BY DEF EmptyDomain
  <2> QED BY <1>3, <2>1, DomainGiven
<1> HIDE DEF d
<1>5. UrlShape(u) /\ u.domain = d /\ Shown(u, "path") = req.want.path
  BY <1>2, DomainPut
<1> DEFINE N == {h.name}
           T == {h.port}
           Q == {req.want.path}
<1>6. /\ w \in [name : N, port : T, path : Q, mixed : BOOLEAN]
      /\ w.name = h.name /\ w.port = h.port /\ w.path = req.want.path
  BY DEF Meant
<1> HIDE DEF N, T, Q, w
<1>7. WantShape(w)
  BY <1>6, ShapeIs
<1> HIDE DEF u
<1> QED BY <1>1, <1>3, <1>4, <1>5, <1>6, <1>7, ReqIs

\* What the caller does to the request it builds.
LEMMA BuiltOk ==
    ASSUME ReqOk(req), Building \/ BatchAddSend \/ SendOne \/ UNCHANGED req
    PROVE  ReqOk(req')
<1>1. CASE Make
  BY <1>1, FreshOk DEF Make
<1>2. ASSUME NEW t \in Texts, Parse(t) PROVE ReqOk(req')
  <2>1. req' = Parsed(req, t)
    BY <1>2 DEF Parse
  <2> QED BY <2>1, ParsedOk
<1>3. CASE BatchAddSend \/ SendOne
  BY <1>3, FreshOk DEF BatchAddSend, SendOne
<1> QED BY <1>1, <1>2, <1>3, HostOk, DomainOk, PathOk DEF Building

-----------------------------------------------------------------------------
(* Where the connections of a pool go                                      *)

\* A position in a list of c for each of l.
LEMMA Division ==
    ASSUME NEW c \in Nat \ {0}, NEW l \in Nat, NEW x \in Nat, x < l * c
    PROVE  x \div c \in Nat /\ x \div c < l
<1> DEFINE k == x \div c
<1>1. k \in Nat /\ c * k <= x
  OBVIOUS
<1>2. c * k < c * l
  BY <1>1
<1> HIDE DEF k
<1>3. ASSUME k >= l PROVE FALSE
  <2>1. PICK e \in Nat : k = l + e
    BY <1>1, <1>3
  <2>2. c * k = c * l + c * e
    BY <2>1
  <2>3. c * e \in Nat /\ c * l \in Nat
    BY <2>1
  <2> QED BY <1>2, <2>2, <2>3
<1> QED BY <1>1, <1>3 DEF k

\* They go to nodes of the domain.
LEMMA ConnsGo ==
    ASSUME NEW V, NEW nodes \in Seq(V)
    PROVE  ToSet(ConnsTo(nodes)) \subseteq ToSet(nodes)
<1> DEFINE l == Len(nodes)
           c == ConnsPerIp
           m == IF l * c < MaxConns THEN l * c ELSE MaxConns
           s == [i \in 1..m |-> nodes[((i - 1) \div c) + 1]]
<1>1. l \in Nat /\ c \in Nat /\ MaxConns \in Nat /\ m \in Nat /\ m <= l * c
  <2>1. l \in Nat /\ c \in Nat /\ MaxConns \in Nat
    BY LenProperties, SyncConfig
  <2>2. l * c \in Nat
    BY <2>1
  <2> HIDE DEF l
  <2> QED BY <2>1, <2>2
<1>2. ConnsTo(nodes) = s
  BY DEF ConnsTo
<1>3. \A i \in 1..l : nodes[i] \in ToSet(nodes)
  BY Elements
<1>4. \A x : x \in ToSet(s) => \E i \in 1..m : x = s[i]
  BY DEF ToSet
<1>5. ASSUME NEW i \in 1..m PROVE s[i] \in ToSet(nodes)
  <2> DEFINE x == i - 1
             k == x \div c
  <2>1. i \in Nat /\ i <= m /\ x \in Nat /\ x < m
    BY <1>1
  <2> HIDE DEF l, m, x
  <2>2. c # 0
    BY <1>1, <2>1
  <2>3. l * c \in Nat /\ x < l * c
    BY <1>1, <2>1
  <2>4. k \in Nat /\ k < l
    BY <1>1, <2>1, <2>2, <2>3, Division
  <2>5. s[i] = nodes[k + 1]
    BY DEF x
  <2> HIDE DEF k, s
  <2>6. k + 1 \in 1..l
    BY <1>1, <2>4
  <2> QED BY <1>3, <2>5, <2>6
<1> HIDE DEF s, m
<1> QED BY <1>2, <1>4, <1>5

\* The addresses of a domain that was set once are those of its name.
LEMMA Resolving ==
    ASSUME NEW d, d.name \in Names, d.nodes = NodesOf(d.name, d.port)
    PROVE  ToSet(ConnsTo(Resolved(d))) \subseteq NodesFor(d.name, d.port)
<1> DEFINE name == d.name
           port == d.port
<1>1. CASE name \in Ips
  <2> DEFINE x == [ip |-> name, port |-> port]
             S == {x}
             s == <<x>>
  <2>1. d.nodes = s /\ s # <<>>
    BY <1>1 DEF NodesOf
  <2>2. Resolved(d) = s
    BY <2>1 DEF Resolved
  <2>3. NodesFor(name, port) = S
    BY <1>1 DEF NodesFor
  <2>4. s \in Seq(S) /\ ToSet(s) \subseteq S
    <3>1. x \in S
      OBVIOUS
    <3> HIDE DEF x, S
    <3>2. s \in Seq(S)
      BY <3>1
    <3> HIDE DEF s
    <3> QED BY <3>2, Elements
  <2> HIDE DEF s, S
  <2>5. ToSet(ConnsTo(s)) \subseteq ToSet(s)
    BY <2>4, ConnsGo
  <2> QED BY <2>2, <2>3, <2>4, <2>5
<1>2. CASE name \notin Ips
  <2> DEFINE a == Dns[name]
             x(i) == [ip |-> a[i], port |-> port]
             s == [i \in DOMAIN a |-> x(i)]
             S == NodesFor(name, port)
  <2>1. name \in DOMAIN Dns /\ d.nodes = <<>>
    BY <1>2 DEF Names, NodesOf
  <2>2. Resolved(d) = s
    BY <2>1 DEF Resolved
  <2>3. a \in Seq(Ips)
    BY <2>1, SyncConfig
  <2> HIDE DEF a
  <2>4. Len(a) \in Nat /\ DOMAIN a = 1..Len(a) /\ \A i \in 1..Len(a) : a[i] \in ToSet(a)
    BY <2>3, Elements
  <2>5. S = {[ip |-> y, port |-> port] : y \in ToSet(a)}
    BY <1>2 DEF NodesFor, a
  <2>6. \A i \in 1..Len(a) : x(i) \in S
    BY <2>4, <2>5
  <2> HIDE DEF x, S
  <2>7. s \in [1..Len(a) -> S]
    BY <2>4, <2>6
  <2>8. s \in Seq(S)
    BY <2>4, <2>7, SeqDef
  <2> HIDE DEF s
  <2>9. ToSet(s) \subseteq S
    BY <2>8, Elements
  <2>10. ToSet(ConnsTo(s)) \subseteq ToSet(s)
    BY <2>8, ConnsGo
  <2> QED BY <2>2, <2>9, <2>10 DEF S
<1> QED BY <1>1, <1>2

-----------------------------------------------------------------------------
(* The ways of the requests                                                *)

Dest(w) == IF IsDomain(proxy) THEN proxy ELSE w

\* A request that was accepted, in a pool for where it goes.
Sent(r) ==
    /\ r.pool \in 1..Len(pools)
    /\ pools[r.pool].domain.name = Dest(r.want).name
    /\ pools[r.pool].domain.port = Dest(r.want).port
    /\ Shown(r.url, "path") = r.want.path

\* A request of p had an address of another host in its domain.
MixedIn(p) == \E i \in 1..Len(reqs) : reqs[i].pool = p /\ reqs[i].want.mixed

\* A pool has connections to its host alone, unless a request mixed them.
Straight(p) ==
    /\ pools[p].proxy = IsDomain(proxy)
    /\ \/ MixedIn(p)
       \/ ToSet(pools[p].conns) \subseteq NodesFor(pools[p].domain.name, pools[p].domain.port)

Ways ==
    /\ proxy \in Proxies
    /\ \A i \in 1..Len(reqs) : Sent(reqs[i])
    /\ \A p \in 1..Len(pools) : Straight(p)
    /\ \A p, o \in 1..Len(pools) : p # o => ~SameDomain(pools[p].domain, pools[o].domain)
    /\ MaxPools > 0 => Len(pools) <= MaxPools

\* What a step leaves of the pool p when only its queue changes.
SamePool(p) ==
    /\ pools'[p].domain = pools[p].domain
    /\ pools'[p].conns = pools[p].conns
    /\ pools'[p].proxy = pools[p].proxy

\* The pools keep their domains and connections, and no request is accepted.
LEMMA WaysKept ==
    ASSUME Ways, UNCHANGED <<proxy, reqs>>, Len(pools') = Len(pools),
           \A p \in 1..Len(pools) : SamePool(p)
    PROVE  Ways'
<1>1. ASSUME NEW i \in 1..Len(reqs) PROVE Sent(reqs[i])'
  <2>1. Sent(reqs[i])
    BY DEF Ways
  <2>2. SamePool(reqs[i].pool)
    BY <2>1 DEF Sent
  <2> QED BY <2>1, <2>2 DEF Sent, Dest, SamePool
<1>2. ASSUME NEW p \in 1..Len(pools) PROVE Straight(p)'
  <2>1. Straight(p) /\ SamePool(p)
    BY DEF Ways
  <2>2. MixedIn(p)' = MixedIn(p)
    BY DEF MixedIn
  <2> QED BY <2>1, <2>2 DEF Straight, SamePool
<1>3. \A p \in 1..Len(pools) : pools'[p].domain = pools[p].domain
  BY DEF SamePool
<1> QED BY <1>1, <1>2, <1>3 DEF Ways

\* A pool takes its queue.
LEMMA WaysPrepare ==
    ASSUME RunInv, Ways, NEW p \in DOMAIN pools, NEW refused, Prepare(p, refused)
    PROVE  Ways'
<1> DEFINE none == <<>>
<1>1. pools' = WithQueue(pools, p, none) /\ UNCHANGED <<proxy, reqs>>
  BY DEF Prepare, WithQueue
<1>2. PICK D, C : pools \in Seq(PoolOf(D, C))
  BY DEF RunInv, Listed, Pools
<1>3. p \in 1..Len(pools)
  BY <1>2, LenProperties
<1>4. none \in Seq(Nat)
  BY NoElements
<1> HIDE DEF none
<1>5. /\ Len(pools') = Len(pools)
      /\ \A o \in 1..Len(pools) : SamePool(o)
  BY <1>1, <1>2, <1>3, <1>4, QueueOf DEF SamePool
<1> QED BY <1>1, <1>5, WaysKept

\* A request is accepted: it joins a pool of its domain, or one that is new.
OldPool(d, p) == p \in 1..Len(pools) /\ Len(pools') = Len(pools)
NewOne(d, p) ==
    /\ PoolsOf(d) = {} /\ p = Len(pools) + 1 /\ Len(pools') = Len(pools) + 1
    /\ pools'[p].domain = d /\ pools'[p].conns = ConnsTo(Resolved(d))
    /\ pools'[p].proxy = SameDomain(d, proxy)

\* The pool of a request that is accepted.
LEMMA AcceptWay ==
    ASSUME RunInv, NEW r, Accept(r), NEW d, d = TargetOf(r), NEW p, p = PoolFor(d)
    PROVE  /\ Len(pools) \in Nat /\ p \in 1..Len(pools')
           /\ \A o \in 1..Len(pools) : o \in 1..Len(pools') /\ SamePool(o)
           /\ SameDomain(pools'[p].domain, d)
           /\ OldPool(d, p) \/ NewOne(d, p)
           /\ Len(reqs) \in Nat /\ Len(reqs') = Len(reqs) + 1
           /\ \A i \in 1..Len(reqs) : reqs'[i] = reqs[i]
           /\ reqs'[Len(reqs) + 1] = [url |-> r.url, want |-> r.want, pool |-> p]
<1> DEFINE ps == PoolsWith(d)
           q == Append(ps[p].out, Len(reqs) + 1)
           x == [url |-> r.url, want |-> r.want, pool |-> p]
<1>1. pools' = WithQueue(ps, p, q) /\ reqs' = Append(reqs, x)
  BY AcceptShape
<1>2. PICK R : reqs \in Seq(R)
  BY DEF RunInv, Listed
<1>3. /\ Len(reqs) \in Nat /\ Len(reqs') = Len(reqs) + 1
      /\ \A i \in 1..Len(reqs) : reqs'[i] = reqs[i]
      /\ reqs'[Len(reqs) + 1] = x
  <2> HIDE DEF x
  <2> QED BY <1>1, <1>2, AppendAny
<1>4. PICK D, C : pools \in Seq(PoolOf(D, C))
  BY DEF RunInv, Listed, Pools
<1>5. Pools(pools) /\ Apart(pools)
  BY DEF RunInv, Listed, Placed
<1>6. PICK E, F : ps \in Seq(PoolOf(E, F))
  BY <1>4, <1>5, PoolsFor
<1>7. /\ p \in 1..Len(ps)
      /\ PoolsOf(d) # {} => p \in PoolsOf(d) /\ ps = pools
      /\ PoolsOf(d) = {} => p = Len(pools) + 1 /\ ps = Append(pools, NewPool(d))
  BY <1>5, PoolIsThere
<1>8. Len(pools) \in Nat /\ DOMAIN pools = 1..Len(pools)
  BY <1>4, LenProperties
<1> HIDE DEF ps
<1>9. q \in Seq(Nat)
  <2>1. ps[p] \in PoolOf(E, F)
    BY <1>6, <1>7, ElementOfSeq
  <2>2. ps[p].out \in Seq(Nat) /\ Len(reqs) + 1 \in Nat
    BY <1>3, <2>1 DEF PoolOf
  <2> QED BY <2>2, AppendProperties
<1> HIDE DEF q
<1>10. /\ Len(pools') = Len(ps)
       /\ \A o \in 1..Len(ps) : /\ pools'[o].domain = ps[o].domain
                                /\ pools'[o].conns = ps[o].conns
                                /\ pools'[o].proxy = ps[o].proxy
  <2>1. p \in 1..Len(ps)
    BY <1>7
  <2>2. /\ Len(WithQueue(ps, p, q)) = Len(ps)
        /\ \A o \in 1..Len(ps) : /\ WithQueue(ps, p, q)[o].domain = ps[o].domain
                                 /\ WithQueue(ps, p, q)[o].conns = ps[o].conns
                                 /\ WithQueue(ps, p, q)[o].proxy = ps[o].proxy
    BY ONLY <1>6, <1>9, <2>1, QueueOf
  <2> QED BY <1>1, <2>2
<1>11. CASE PoolsOf(d) # {}
  <2>1. p \in PoolsOf(d) /\ ps = pools
    BY <1>7, <1>11
  <2>2. SameDomain(pools[p].domain, d) /\ p \in 1..Len(pools)
    BY <1>8, <2>1 DEF PoolsOf
  <2>3. SameDomain(pools'[p].domain, d)
    BY <1>10, <2>1, <2>2
  <2> QED BY <1>3, <1>8, <1>10, <2>1, <2>2, <2>3 DEF SamePool, OldPool
<1>12. CASE PoolsOf(d) = {}
  <2> DEFINE pool == NewPool(d)
  <2>1. p = Len(pools) + 1 /\ ps = Append(pools, pool)
    BY <1>7, <1>12
  <2>2. pool.domain = d /\ pool.conns = ConnsTo(Resolved(d)) /\ pool.proxy = SameDomain(d, proxy)
    BY DEF NewPool
  <2> HIDE DEF pool
  <2>3. /\ Len(ps) = Len(pools) + 1 /\ ps[Len(pools) + 1] = pool
        /\ \A o \in 1..Len(pools) : ps[o] = pools[o]
    BY <1>4, <2>1, AppendAny
  <2>4. \A o \in 1..Len(pools) : o \in 1..Len(ps)
    BY <1>8, <2>3
  <2>5. NewOne(d, p)
    BY <1>7, <1>10, <1>12, <2>1, <2>2, <2>3 DEF NewOne
  <2>6. SameDomain(pools'[p].domain, d)
    BY <2>5 DEF NewOne, SameDomain
  <2>7. \A o \in 1..Len(pools) : o \in 1..Len(pools') /\ SamePool(o)
    BY <1>10, <2>3, <2>4 DEF SamePool
  <2> QED BY <1>3, <1>7, <1>8, <1>10, <2>5, <2>6, <2>7
<1> QED BY <1>11, <1>12

\* Whom the request goes to, as Accepts found it.
LEMMA TargetIs ==
    ASSUME NEW r, ReqOk(r), Accepts(r), proxy \in Proxies
    PROVE  LET d == TargetOf(r) IN
           /\ d.name = Dest(r.want).name /\ d.port = Dest(r.want).port
           /\ SameDomain(d, proxy) <=> IsDomain(proxy)
           /\ d.name \in Names
           /\ ~r.want.mixed => d.nodes = NodesOf(d.name, d.port)
           /\ PoolsOf(d) = {} => MayMake(d)
<1> DEFINE d == TargetOf(r)
<1>1. IsDomain(r.url.domain) /\ (PoolsOf(d) = {} => MayMake(d))
  BY DEF Accepts
<1>2. /\ r.url.domain.name = r.want.name /\ r.url.domain.port = r.want.port
      /\ r.want.name \in Names
      /\ ~r.want.mixed => r.url.domain.nodes = NodesOf(r.want.name, r.want.port)
  BY <1>1 DEF ReqOk, Aimed
<1>3. CASE IsDomain(proxy)
  <2>1. d = proxy /\ Dest(r.want) = proxy
    BY <1>3 DEF TargetOf, Dest
  <2>2. proxy # EmptyDomain
    BY <1>3 DEF IsDomain, EmptyDomain
  <2>3. proxy.name \in Names /\ proxy.nodes = NodesOf(proxy.name, proxy.port)
    BY <2>2, NamesKnown
  <2>4. SameDomain(proxy, proxy)
    BY DEF SameDomain
  <2> QED BY <1>1, <1>3, <2>1, <2>3, <2>4
<1>4. CASE ~IsDomain(proxy)
  <2>1. d = r.url.domain /\ Dest(r.want) = r.want
    BY <1>4 DEF TargetOf, Dest
  <2>2. proxy = EmptyDomain
    BY <1>4, NamesKnown
  <2>3. ~SameDomain(r.url.domain, proxy)
    BY <1>1, <2>2 DEF SameDomain, IsDomain, EmptyDomain
  <2> QED BY <1>1, <1>2, <1>4, <2>1, <2>3
<1> QED BY <1>3, <1>4

\* A request that is accepted has its way, and the others keep theirs.
LEMMA WaysAccept ==
    ASSUME RunInv, Ways, NEW r, ReqOk(r), Accepts(r), Accept(r), proxy' = proxy
    PROVE  Ways'
<1> DEFINE d == TargetOf(r)
           p == PoolFor(d)
           x == [url |-> r.url, want |-> r.want, pool |-> p]
           k == Len(reqs) + 1
           n == Len(pools)
<1>1. /\ proxy \in Proxies
      /\ \A i \in 1..Len(reqs) : Sent(reqs[i])
      /\ \A o \in 1..n : Straight(o)
      /\ \A i, j \in 1..n : i # j => ~SameDomain(pools[i].domain, pools[j].domain)
      /\ MaxPools > 0 => n <= MaxPools
  BY DEF Ways
<1>2. /\ d.name = Dest(r.want).name /\ d.port = Dest(r.want).port
      /\ SameDomain(d, proxy) <=> IsDomain(proxy)
      /\ d.name \in Names
      /\ ~r.want.mixed => d.nodes = NodesOf(d.name, d.port)
      /\ PoolsOf(d) = {} => MayMake(d)
  BY <1>1, TargetIs
<1>3. /\ n \in Nat /\ p \in 1..Len(pools')
      /\ \A o \in 1..n : o \in 1..Len(pools') /\ SamePool(o)
      /\ SameDomain(pools'[p].domain, d)
      /\ OldPool(d, p) \/ NewOne(d, p)
      /\ Len(reqs) \in Nat /\ Len(reqs') = k
      /\ \A i \in 1..Len(reqs) : reqs'[i] = reqs[i]
      /\ reqs'[k] = x
  BY AcceptWay
<1>4. x.url = r.url /\ x.want = r.want /\ x.pool = p
  OBVIOUS
<1> HIDE DEF d, p, x
<1>5. (\A i \in 1..k : i \in 1..Len(reqs) \/ i = k) /\ k \in 1..k /\ \A i \in 1..Len(reqs) : i \in 1..k
  BY <1>3
<1>6. \A o \in 1..Len(pools') : o \in 1..n \/ (o = n + 1 /\ p = n + 1 /\ NewOne(d, p))
  BY <1>3 DEF OldPool, NewOne
<1> HIDE DEF k, n
<1>7. ASSUME NEW i \in 1..k PROVE Sent(reqs[i])'
  <2>1. CASE i \in 1..Len(reqs)
    <3>1. Sent(reqs[i]) /\ reqs'[i] = reqs[i]
      BY <1>1, <1>3, <2>1
    <3>2. reqs[i].pool \in 1..n
      BY <3>1 DEF Sent, n
    <3>3. SamePool(reqs[i].pool) /\ reqs[i].pool \in 1..Len(pools')
      BY <1>3, <3>2
    <3> QED BY <3>1, <3>3 DEF Sent, Dest, SamePool
  <2>2. CASE i = k
    <3>1. reqs'[i].pool = p /\ reqs'[i].want = r.want /\ reqs'[i].url = r.url
      BY <1>3, <1>4, <2>2
    <3>2. pools'[p].domain.name = d.name /\ pools'[p].domain.port = d.port
      BY <1>3 DEF SameDomain
    <3>3. Shown(r.url, "path") = r.want.path
      BY DEF ReqOk
    <3> QED BY <1>2, <1>3, <3>1, <3>2, <3>3 DEF Sent, Dest
  <2> QED BY <1>5, <2>1, <2>2
<1>8. ASSUME NEW o \in 1..Len(pools') PROVE Straight(o)'
  <2>1. CASE o \in 1..n
    <3>1. Straight(o) /\ SamePool(o)
      BY <1>1, <1>3, <2>1
    <3>2. MixedIn(o) => MixedIn(o)'
      BY <1>3, <1>5 DEF MixedIn
    <3> QED BY <3>1, <3>2 DEF Straight, SamePool
  <2>2. CASE o = p /\ NewOne(d, p)
    <3>1. /\ pools'[o].domain = d /\ pools'[o].conns = ConnsTo(Resolved(d))
          /\ pools'[o].proxy = SameDomain(d, proxy)
      BY <2>2 DEF NewOne
    <3>2. pools'[o].proxy = IsDomain(proxy)
      BY <1>2, <3>1 DEF SameDomain, IsDomain
    <3>3. CASE r.want.mixed
      <4>1. reqs'[k].pool = o /\ reqs'[k].want.mixed
        BY <1>3, <1>4, <2>2, <3>3
      <4>2. MixedIn(o)'
        BY <1>3, <1>5, <4>1 DEF MixedIn
      <4> QED BY <3>2, <4>2 DEF Straight
    <3>4. CASE ~r.want.mixed
      <4>1. ToSet(ConnsTo(Resolved(d))) \subseteq NodesFor(d.name, d.port)
        BY <1>2, <3>4, Resolving
      <4> QED BY <3>1, <3>2, <4>1 DEF Straight
    <3> QED BY <3>3, <3>4
  <2> QED BY <1>6, <2>1, <2>2
<1>9. ASSUME NEW i \in 1..Len(pools'), NEW j \in 1..Len(pools'), i # j
      PROVE  ~SameDomain(pools'[i].domain, pools'[j].domain)
  <2>1. CASE i \in 1..n /\ j \in 1..n
    <3>1. pools'[i].domain = pools[i].domain /\ pools'[j].domain = pools[j].domain
      BY <1>3, <2>1 DEF SamePool
    <3> QED BY <1>1, <1>9, <2>1, <3>1
  <2>2. CASE NewOne(d, p)
    <3>1. \A o \in 1..n : ~SameDomain(pools[o].domain, d)
      <4>1. DOMAIN pools = 1..n
        <5>1. PICK D, C : pools \in Seq(PoolOf(D, C))
          BY DEF RunInv, Listed, Pools
        <5> QED BY <5>1, LenProperties DEF n
      <4> QED BY <2>2, <4>1 DEF NewOne, PoolsOf
    <3>2. pools'[p].domain = d /\ \A o \in 1..n : pools'[o].domain = pools[o].domain
      BY <1>3, <2>2 DEF NewOne, SamePool
    <3>3. (i = p /\ j \in 1..n) \/ (j = p /\ i \in 1..n) \/ (i \in 1..n /\ j \in 1..n)
      BY <1>6, <1>9
    <3> QED BY <2>1, <3>1, <3>2, <3>3 DEF SameDomain
  <2> QED BY <1>6, <2>1, <2>2
<1>10. MaxPools > 0 => Len(pools') <= MaxPools
  <2>1. CASE OldPool(d, p)
    BY <1>1, <2>1 DEF OldPool, n
  <2>2. CASE NewOne(d, p)
    <3>1. MaxPools = 0 \/ n < MaxPools
      BY <1>2, <2>2 DEF NewOne, MayMake, n
    <3>2. Len(pools') = n + 1
      BY <2>2 DEF NewOne, n
    <3> QED BY <1>3, <3>1, <3>2, SyncConfig
  <2> QED BY <1>3, <2>1, <2>2
<1>11. Len(reqs') = k
  BY <1>3
<1> QED BY <1>1, <1>7, <1>8, <1>9, <1>10, <1>11 DEF Ways

-----------------------------------------------------------------------------
(* Every step keeps the ways                                               *)

RouteInv == ReqOk(req) /\ Ways

\* It holds initially.
LEMMA RouteInit == Init => RouteInv
<1> SUFFICES ASSUME Init PROVE RouteInv
  OBVIOUS
<1>1. proxy \in Proxies /\ req = Fresh(NewUrl) /\ reqs = <<>> /\ pools = <<>>
  BY DEF Init
<1>2. ReqOk(req)
  BY <1>1, FreshOk
<1>3. Len(<<>>) = 0
  BY NoElements
<1>4. MaxPools > 0 => 0 <= MaxPools
  BY SyncConfig
<1>5. Ways
  BY <1>1, <1>3, <1>4 DEF Ways
<1> QED BY <1>2, <1>5 DEF RouteInv

\* A request is accepted or refused.
LEMMA WaysAdd ==
    ASSUME RunInv, Ways, NEW r, ReqOk(r), IF Accepts(r) THEN Accept(r) ELSE Refuse, proxy' = proxy
    PROVE  Ways'
<1>1. CASE Accepts(r)
  BY <1>1, WaysAccept
<1>2. CASE ~Accepts(r)
  <2>1. UNCHANGED <<proxy, reqs, pools>>
    BY <1>2 DEF Refuse
  <2> QED BY <2>1, WaysKept DEF SamePool
<1> QED BY <1>1, <1>2

\* Each action.
LEMMA RouteNext == RunInv /\ RouteInv /\ [Next]_vars => RouteInv'
<1> SUFFICES ASSUME RunInv, RouteInv, [Next]_vars PROVE RouteInv'
  OBVIOUS
<1>1. ReqOk(req) /\ Ways
  BY DEF RouteInv
<1>2. ASSUME UNCHANGED <<proxy, reqs, pools>> PROVE Ways'
  BY <1>1, <1>2, WaysKept DEF SamePool
<1>3. CASE Building
  <2>1. UNCHANGED <<proxy, reqs, pools>>
    BY <1>3 DEF Building, Make, Parse, CallSetHost, CallSetDomain, CallSetPath, clientVars
  <2> QED BY <1>1, <1>2, <1>3, <2>1, BuiltOk DEF RouteInv
<1>4. CASE BatchAddSend \/ SendOne
  <2>1. (IF Accepts(req) THEN Accept(req) ELSE Refuse) /\ proxy' = proxy
    BY <1>4 DEF BatchAddSend, SendOne
  <2>2. Ways'
    BY <1>1, <2>1, WaysAdd
  <2>3. ReqOk(req')
    BY <1>1, <1>4, BuiltOk
  <2> QED BY <2>2, <2>3 DEF RouteInv
<1>5. ASSUME NEW t \in Texts, BatchAdd(t) PROVE RouteInv'
  <2> DEFINE r == Parsed(Fresh(NewUrl), t)
  <2>1. (IF Accepts(r) THEN Accept(r) ELSE Refuse) /\ proxy' = proxy /\ req' = req
    BY <1>5 DEF BatchAdd
  <2>2. ReqOk(r)
    BY ParsedOk
  <2> HIDE DEF r
  <2>3. Ways'
    BY <1>1, <2>1, <2>2, WaysAdd
  <2> QED BY <1>1, <2>1, <2>3 DEF RouteInv
<1>6. CASE BatchRun \/ Answering \/ RunReturns \/ UNCHANGED vars
  <2>1. UNCHANGED <<req, proxy, reqs, pools>>
    BY <1>6 DEF BatchRun, Answering, Answer, RunReturns, vars, clientVars
  <2> QED BY <1>1, <1>2, <2>1 DEF RouteInv
<1>7. CASE Pooling
  <2>1. PICK p \in DOMAIN pools : \E refused \in SUBSET ToSet(pools[p].out) : Prepare(p, refused)
    BY <1>7 DEF Pooling
  <2>2. Ways'
    BY <1>1, <2>1, WaysPrepare
  <2>3. req' = req
    BY <2>1 DEF Prepare
  <2> QED BY <1>1, <2>2, <2>3 DEF RouteInv
<1> QED BY <1>3, <1>4, <1>5, <1>6, <1>7 DEF Next

\* The ways are what Routed says.
LEMMA RouteShown == RunInv /\ RouteInv => Routed
<1> SUFFICES ASSUME RunInv, RouteInv PROVE Routed
  OBVIOUS
<1>1. PICK R : reqs \in Seq(R)
  BY DEF RunInv, Listed
<1>2. PICK D, C : pools \in Seq(PoolOf(D, C))
  BY DEF RunInv, Listed, Pools
<1>3. DOMAIN reqs = 1..Len(reqs) /\ DOMAIN pools = 1..Len(pools)
  BY <1>1, <1>2, LenProperties
<1>4. Ways
  BY DEF RouteInv
<1>5. ASSUME NEW i \in DOMAIN reqs
      PROVE  LET r == reqs[i] p == pools[r.pool] dest == IF IsDomain(proxy) THEN proxy ELSE r.want IN
             /\ p.domain.name = dest.name /\ p.domain.port = dest.port
             /\ p.proxy = IsDomain(proxy)
             /\ Shown(r.url, "path") = r.want.path
             /\ ~(\E j \in DOMAIN reqs : reqs[j].pool = r.pool /\ reqs[j].want.mixed) =>
                    ToSet(p.conns) \subseteq NodesFor(p.domain.name, p.domain.port)
  <2>1. Sent(reqs[i])
    BY <1>3, <1>4 DEF Ways
  <2>2. Straight(reqs[i].pool)
    BY <1>4, <2>1 DEF Ways, Sent
  <2> QED BY <1>3, <2>1, <2>2 DEF Sent, Straight, MixedIn, Dest
<1> QED BY <1>3, <1>4, <1>5 DEF Routed, Ways

\* Every request goes to the host and the path it was last given, or through
\* the proxy, for any hosts, texts and number of pools.
THEOREM RoutedHolds == Spec => []Routed
<1>1. RunInv /\ RouteInv /\ [Next]_vars => RunInv' /\ RouteInv'
  BY RunNext, RouteNext
<1> QED BY RunInit, RouteInit, <1>1, RouteShown, PTL DEF Spec
=============================================================================
