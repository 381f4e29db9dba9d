--------------------------- MODULE HttpClientProofs ---------------------------
(* Theorems about HttpClient, for every number of connections and requests *)
(* and with or without a response timeout.                                 *)
EXTENDS HttpClient, SequenceTheorems, WellFoundedInduction, TLAPS

USE ClientConfig

\* Faults are variants beside the code; these are the code's.
USE DEF StartsPool, WatchersOfSend, Rest, LeftIn, LeftOut, Failed

-----------------------------------------------------------------------------
(* Sequences                                                               *)

\* A set of numbers has a least element.
LEMMA LeastOf ==
    ASSUME NEW S \in SUBSET Nat, S # {}
    PROVE  \E x \in S : \A y \in S : x <= y
<1>1. \E x \in S : \A y \in S : ~(<<y, x>> \in OpToRel(<, Nat))
  BY NatLessThanWellFounded, WFMin
<1>2. PICK x \in S : \A y \in S : ~(<<y, x>> \in OpToRel(<, Nat))
  BY <1>1
<1>3. ASSUME NEW y \in S PROVE x <= y
  <2>1. ~(<<y, x>> \in OpToRel(<, Nat))
    BY <1>2
  <2>2. ~(y < x)
    BY <2>1 DEF OpToRel
  <2> QED BY <2>2
<1> QED BY <1>2, <1>3

\* What the first connection of a status is.
LEMMA FirstIs ==
    ASSUME NEW list \in Seq(Conns), NEW st \in [Conns -> Status], NEW s
    PROVE  /\ First(list, st, s) \in 0..Len(list)
           /\ First(list, st, s) > 0 => st[list[First(list, st, s)]] = s
           /\ First(list, st, s) = 0 => \A i \in 1..Len(list) : st[list[i]] # s
<1> DEFINE I == {i \in 1..Len(list) : st[list[i]] = s}
<1>1. First(list, st, s) = IF I # {} THEN Min(I) ELSE 0
  BY DEF First, SelectInSeq
<1>2. Len(list) \in Nat
  BY LenProperties
<1>3. CASE I = {}
  BY <1>1, <1>2, <1>3
<1>4. CASE I # {}
  <2>1. I \in SUBSET Nat
    BY <1>2
  <2>2. \E x \in I : \A y \in I : x <= y
    <3> HIDE DEF I
    <3> QED BY <1>4, <2>1, LeastOf
  <2>3. Min(I) \in I
    <3> HIDE DEF I
    <3> QED BY <2>2 DEF Min
  <2> QED BY <1>1, <1>2, <1>4, <2>3
<1> QED BY <1>3, <1>4

\* A list of connections after its first n-1, and around its n-th.
LEMMA Parted ==
    ASSUME NEW list \in Seq(Conns), NEW n \in 1..Len(list)
    PROVE  /\ SubSeq(list, 1, n - 1) \in Seq(Conns)
           /\ SubSeq(list, n + 1, Len(list)) \in Seq(Conns)
           /\ list[n] \in Conns
           /\ Len(SubSeq(list, 1, n - 1)) + Len(SubSeq(list, n + 1, Len(list))) + 1
                = Len(list)
           /\ ToSet(SubSeq(list, 1, n - 1)) \cup {list[n]}
                \cup ToSet(SubSeq(list, n + 1, Len(list))) = ToSet(list)
<1> DEFINE a == SubSeq(list, 1, n - 1)  b == SubSeq(list, n + 1, Len(list))
<1>1. /\ Len(list) \in Nat /\ n \in Nat /\ n <= Len(list) /\ n >= 1
      /\ \A i \in 1..Len(list) : list[i] \in Conns
      /\ DOMAIN list = 1..Len(list)
  BY LenProperties, ElementOfSeq
<1>2. /\ a \in Seq(Conns)
      /\ Len(a) = IF 1 <= n - 1 THEN n - 1 - 1 + 1 ELSE 0
      /\ \A i \in 1..(n - 1 - 1 + 1) : a[i] = list[1 + i - 1]
  <2>1. n - 1 \in Int /\ \A i \in 1..(n - 1) : list[i] \in Conns
    BY <1>1
  <2> QED BY <2>1, SubSeqProperties
<1>3. /\ b \in Seq(Conns)
      /\ Len(b) = IF n + 1 <= Len(list) THEN Len(list) - (n + 1) + 1 ELSE 0
      /\ \A i \in 1..(Len(list) - (n + 1) + 1) : b[i] = list[n + 1 + i - 1]
  <2>1. n + 1 \in Int /\ Len(list) \in Int /\ \A i \in (n + 1)..Len(list) : list[i] \in Conns
    BY <1>1
  <2> QED BY <2>1, SubSeqProperties
<1> HIDE DEF a, b
<1>4. /\ Len(a) = n - 1 /\ Len(b) = Len(list) - n
      /\ DOMAIN a = 1..(n - 1) /\ DOMAIN b = 1..(Len(list) - n)
      /\ \A i \in 1..(n - 1) : a[i] = list[i]
      /\ \A i \in 1..(Len(list) - n) : b[i] = list[n + i]
  <2>5. Len(a) = IF 1 <= n - 1 THEN n - 1 - 1 + 1 ELSE 0
    BY <1>2
  <2>6. Len(b) = IF n + 1 <= Len(list) THEN Len(list) - (n + 1) + 1 ELSE 0
    BY <1>3
  <2>7. n \in Nat /\ n >= 1 /\ n <= Len(list) /\ Len(list) \in Nat
    BY <1>1
  <2>1. Len(a) = n - 1 /\ Len(b) = Len(list) - n
    BY <2>5, <2>6, <2>7
  <2>2. DOMAIN a = 1..Len(a) /\ DOMAIN b = 1..Len(b)
    BY <1>2, <1>3, LenProperties
  <2>3. \A i \in 1..(n - 1) : i \in 1..(n - 1 - 1 + 1) /\ 1 + i - 1 = i
    BY <1>1
  <2>4. \A i \in 1..(Len(list) - n) :
          i \in 1..(Len(list) - (n + 1) + 1) /\ n + 1 + i - 1 = n + i
    BY <1>1
  <2> QED BY <1>2, <1>3, <2>1, <2>2, <2>3, <2>4
<1>5. ToSet(a) \cup {list[n]} \cup ToSet(b) = ToSet(list)
  <2>1. ToSet(a) \cup {list[n]} \cup ToSet(b) \subseteq ToSet(list)
    <3>1. \A i \in 1..(Len(list) - n) : n + i \in 1..Len(list)
      BY <1>1
    <3>2. \A i \in 1..(n - 1) : i \in 1..Len(list)
      BY <1>1
    <3> QED BY <1>1, <1>4, <3>1, <3>2 DEF ToSet
  <2>2. ASSUME NEW i \in 1..Len(list)
        PROVE  list[i] \in ToSet(a) \cup {list[n]} \cup ToSet(b)
    <3>1. CASE i < n
      <4>1. i \in 1..(n - 1)
        BY <1>1, <3>1
      <4> QED BY <1>4, <4>1 DEF ToSet
    <3>2. CASE i > n
      <4>1. i - n \in 1..(Len(list) - n) /\ n + (i - n) = i
        BY <1>1, <3>2
      <4> QED BY <1>4, <4>1 DEF ToSet
    <3> QED BY <1>1, <3>1, <3>2
  <2> QED BY <1>1, <2>1, <2>2 DEF ToSet
<1>6. Len(a) + Len(b) + 1 = Len(list)
  BY <1>1, <1>4
<1>7. a \in Seq(Conns) /\ b \in Seq(Conns) /\ list[n] \in Conns
  BY <1>1, <1>2, <1>3
<1> QED BY <1>5, <1>6, <1>7 DEF a, b

\* The elements of two lists together.
LEMMA Joined ==
    ASSUME NEW S, NEW s \in Seq(S), NEW t \in Seq(S)
    PROVE  /\ s \o t \in Seq(S) /\ Len(s \o t) = Len(s) + Len(t)
           /\ DOMAIN (s \o t) = 1..(Len(s) + Len(t))
           /\ \A i \in 1..Len(s) : i \in DOMAIN (s \o t) /\ (s \o t)[i] = s[i]
           /\ \A i \in 1..Len(t) : i + Len(s) \in DOMAIN (s \o t)
                                   /\ (s \o t)[i + Len(s)] = t[i]
           /\ \A i \in DOMAIN (s \o t) :
                \/ i \in 1..Len(s)
                \/ i - Len(s) \in 1..Len(t) /\ (s \o t)[i] = t[i - Len(s)]
           /\ ToSet(s \o t) = ToSet(s) \cup ToSet(t)
<1> DEFINE st == s \o t
<1>1. /\ DOMAIN s = 1..Len(s) /\ DOMAIN t = 1..Len(t)
      /\ Len(s) \in Nat /\ Len(t) \in Nat
  BY LenProperties
<1>2. /\ st \in Seq(S) /\ Len(st) = Len(s) + Len(t)
      /\ \A i \in 1..(Len(s) + Len(t)) :
           st[i] = IF i <= Len(s) THEN s[i] ELSE t[i - Len(s)]
  BY ConcatProperties
<1>3. DOMAIN st = 1..(Len(s) + Len(t))
  BY <1>2, LenProperties
<1> HIDE DEF st
<1>4. \A i \in 1..Len(s) : i \in DOMAIN st /\ st[i] = s[i]
  BY <1>1, <1>2, <1>3
<1>5. ASSUME NEW i \in 1..Len(t)
      PROVE  i + Len(s) \in DOMAIN st /\ st[i + Len(s)] = t[i]
  <2>1. i + Len(s) \in 1..(Len(s) + Len(t)) /\ ~(i + Len(s) <= Len(s))
        /\ i + Len(s) - Len(s) = i
    BY <1>1
  <2> QED BY <1>2, <1>3, <2>1
<1>6. \A i \in DOMAIN st :
        \/ i \in 1..Len(s)
        \/ i - Len(s) \in 1..Len(t) /\ st[i] = t[i - Len(s)]
  BY <1>1, <1>2, <1>3
<1>7. ToSet(st) = ToSet(s) \cup ToSet(t)
  <2>1. ToSet(s) \cup ToSet(t) \subseteq ToSet(st)
    BY <1>1, <1>4, <1>5 DEF ToSet
  <2>2. ToSet(st) \subseteq ToSet(s) \cup ToSet(t)
    BY <1>1, <1>4, <1>6 DEF ToSet
  <2> QED BY <2>1, <2>2
<1> QED BY <1>2, <1>3, <1>4, <1>5, <1>6, <1>7 DEF st

\* What the lemma above says of types, lengths and elements.
LEMMA JoinedSet ==
    ASSUME NEW S, NEW s \in Seq(S), NEW t \in Seq(S)
    PROVE  /\ s \o t \in Seq(S) /\ Len(s \o t) = Len(s) + Len(t)
           /\ ToSet(s \o t) = ToSet(s) \cup ToSet(t)
<1>1. s \o t \in Seq(S) /\ Len(s \o t) = Len(s) + Len(t)
  BY ConcatProperties
<1>2. ToSet(s \o t) = ToSet(s) \cup ToSet(t)
  BY Joined, SMTT(60)
<1> QED BY <1>1, <1>2

\* An element more.
LEMMA Appended ==
    ASSUME NEW S, NEW s \in Seq(S), NEW x \in S
    PROVE  /\ Append(s, x) \in Seq(S) /\ Len(Append(s, x)) = Len(s) + 1
           /\ DOMAIN Append(s, x) = 1..(Len(s) + 1)
           /\ \A i \in 1..Len(s) : i \in DOMAIN Append(s, x) /\ Append(s, x)[i] = s[i]
           /\ Append(s, x)[Len(s) + 1] = x
<1>1. /\ Append(s, x) \in Seq(S) /\ Len(Append(s, x)) = Len(s) + 1
      /\ \A i \in 1..Len(s) : Append(s, x)[i] = s[i]
      /\ Append(s, x)[Len(s) + 1] = x
  BY AppendProperties
<1>2. /\ DOMAIN Append(s, x) = 1..(Len(s) + 1) /\ DOMAIN s = 1..Len(s)
      /\ Len(s) \in Nat
  BY <1>1, LenProperties
<1>3. \A i \in 1..Len(s) : i \in 1..(Len(s) + 1)
  BY <1>2
<1> QED BY <1>1, <1>2, <1>3

\* The elements of a list with one more.
LEMMA AppendedSet ==
    ASSUME NEW S, NEW s \in Seq(S), NEW x \in S
    PROVE  /\ Append(s, x) \in Seq(S) /\ Len(Append(s, x)) = Len(s) + 1
           /\ ToSet(Append(s, x)) = ToSet(s) \cup {x}
<1>1. /\ Append(s, x) \in Seq(S) /\ Len(Append(s, x)) = Len(s) + 1
      /\ \A i \in 1..Len(s) : Append(s, x)[i] = s[i]
      /\ Append(s, x)[Len(s) + 1] = x
  BY AppendProperties
<1>2. /\ DOMAIN Append(s, x) = 1..(Len(s) + 1) /\ DOMAIN s = 1..Len(s)
      /\ Len(s) \in Nat
  BY <1>1, LenProperties
<1>3. \A i \in 1..Len(s) : i \in 1..(Len(s) + 1)
  BY <1>2
<1>4. ToSet(Append(s, x)) = ToSet(s) \cup {x}
  <2> DEFINE sx == Append(s, x)
  <2>1. /\ DOMAIN sx = 1..(Len(s) + 1)
        /\ \A i \in 1..Len(s) : sx[i] = s[i] /\ sx[Len(s) + 1] = x
        /\ \A i \in DOMAIN sx : i \in 1..Len(s) \/ i = Len(s) + 1
        /\ Len(s) + 1 \in DOMAIN sx
    BY <1>1, <1>2
  <2> HIDE DEF sx
  <2>2. ToSet(sx) = ToSet(s) \cup {x}
    BY <1>1, <1>2, <1>3, <2>1 DEF ToSet, sx
  <2> QED BY <2>2 DEF sx
<1> QED BY <1>1, <1>4

\* A queue without its front.
LEMMA Popped ==
    ASSUME NEW S, NEW s \in Seq(S), s # <<>>
    PROVE  /\ Head(s) = s[1] /\ Head(s) \in S /\ Tail(s) \in Seq(S)
           /\ Len(s) >= 1 /\ Len(Tail(s)) = Len(s) - 1
           /\ DOMAIN Tail(s) = 1..(Len(s) - 1)
           /\ \A i \in 1..(Len(s) - 1) : i + 1 \in DOMAIN s /\ Tail(s)[i] = s[i + 1]
           /\ ToSet(s) = {Head(s)} \cup ToSet(Tail(s))
<1>1. /\ Head(s) \in S /\ Tail(s) \in Seq(S) /\ Len(Tail(s)) = Len(s) - 1
      /\ \A i \in 1..Len(Tail(s)) : Tail(s)[i] = s[i + 1]
      /\ Head(s) = s[1]
  BY HeadTailProperties
<1>2. /\ Len(s) \in Nat \ {0} /\ DOMAIN s = 1..Len(s)
      /\ DOMAIN Tail(s) = 1..Len(Tail(s))
  BY <1>1, EmptySeq, LenProperties
<1>3. \A i \in 1..(Len(s) - 1) : i + 1 \in DOMAIN s /\ Tail(s)[i] = s[i + 1]
  BY <1>1, <1>2
<1>4. ToSet(s) = {Head(s)} \cup ToSet(Tail(s))
  <2> DEFINE t == Tail(s)
  <2>1. /\ DOMAIN t = 1..(Len(s) - 1)
        /\ \A i \in 1..(Len(s) - 1) : i + 1 \in DOMAIN s /\ t[i] = s[i + 1]
    BY <1>1, <1>2, <1>3
  <2> HIDE DEF t
  <2>2. ASSUME NEW i \in DOMAIN s PROVE i = 1 \/ (i - 1 \in DOMAIN t /\ t[i - 1] = s[i])
    <3>1. i # 1 => i - 1 \in 1..(Len(s) - 1) /\ (i - 1) + 1 = i
      BY <1>2
    <3> QED BY <2>1, <3>1
  <2>3. 1 \in DOMAIN s
    BY <1>2
  <2>4. ToSet(s) = {s[1]} \cup ToSet(t)
    BY <2>1, <2>2, <2>3 DEF ToSet
  <2> QED BY <1>1, <2>4 DEF t
<1> QED BY <1>1, <1>2, <1>3, <1>4

-----------------------------------------------------------------------------
(* Types                                                                   *)

Calls == [r : Rids, a : Rids \cup {0}]

\* The types of what TypeOK leaves out.
Typed ==
    /\ TypeOK
    /\ userCb \in [Conns -> Seq(Calls)] /\ batch \in Seq(Calls)
    /\ log \in Seq([r : Rids, a : Rids \cup {0}, c : Holders])
    /\ begun \in [Conns -> BOOLEAN] /\ srv \in [Conns -> Seq(Rids)]
    /\ resp \in [Conns -> Seq([r : Rids, keep : BOOLEAN])]

Watchers == {"write", "response", "connect", "prepare"}

\* The requests of a list of calls or of answers.
LEMMA RidsOfAny ==
    ASSUME NEW K, \A x \in K : x.r \in Rids, NEW s \in Seq(K)
    PROVE  /\ RidsOf(s) \in Seq(Rids) /\ Len(RidsOf(s)) = Len(s)
           /\ \A i \in 1..Len(s) : RidsOf(s)[i] = s[i].r
<1>1. /\ Len(s) \in Nat /\ DOMAIN s = 1..Len(s)
      /\ \A i \in 1..Len(s) : s[i] \in K
  BY LenProperties, ElementOfSeq
<1> QED BY <1>1 DEF RidsOf

\* The calls a closing connection owes.
LEMMA FailedType ==
    ASSUME NEW inC \in Seq(Rids)
    PROVE  /\ [i \in DOMAIN inC |-> [r |-> inC[i], a |-> 0]] \in Seq(Calls)
           /\ Len([i \in DOMAIN inC |-> [r |-> inC[i], a |-> 0]]) = Len(inC)
<1>1. /\ Len(inC) \in Nat /\ DOMAIN inC = 1..Len(inC)
      /\ \A i \in 1..Len(inC) : inC[i] \in Rids
  BY LenProperties, ElementOfSeq
<1> QED BY <1>1 DEF Calls

\* Connection::send keeps the types.
LEMMA GiveType ==
    ASSUME Typed, Sending, NEW c \in Conns, NEW st2 \in [Conns -> Status],
           Give(c, st2)
    PROVE  /\ poolOut' \in Seq(Rids) /\ status' \in [Conns -> Status]
           /\ out' \in [Conns -> Seq(Rids)] /\ in' \in [Conns -> Seq(Rids)]
           /\ w' \in [Conns -> SUBSET Watchers] /\ err' = err
<1>1. Head(poolOut) \in Rids /\ Tail(poolOut) \in Seq(Rids)
  BY Popped DEF Sending, Typed, TypeOK
<1>2. /\ Append(out[c], Head(poolOut)) \in Seq(Rids)
      /\ Append(in[c], Head(poolOut)) \in Seq(Rids)
  BY <1>1, AppendProperties DEF Typed, TypeOK
<1>3. \A s : Started(s) \subseteq Watchers /\ {"write"} \cup OfTimeout("response") \subseteq Watchers
  BY DEF Started, OfTimeout, Watchers
<1>4. w \in [Conns -> SUBSET Watchers]
  BY DEF Typed, TypeOK, Watchers
<1>5. w' \in [Conns -> SUBSET Watchers]
  BY <1>3, <1>4 DEF Give
<1> QED BY <1>1, <1>2, <1>5 DEF Give, Typed, TypeOK

\* So does a refusal.
LEMMA RefuseType ==
    ASSUME Typed, Sending, NEW st2 \in [Conns -> Status], Refuse(st2)
    PROVE  /\ poolOut' \in Seq(Rids) /\ status' \in [Conns -> Status]
           /\ err' \in Seq(Rids) /\ w' \in [Conns -> SUBSET Watchers]
           /\ out' = out /\ in' = in
<1>1. Head(poolOut) \in Rids /\ Tail(poolOut) \in Seq(Rids)
  BY Popped DEF Sending, Typed, TypeOK
<1>2. Append(err, Head(poolOut)) \in Seq(Rids)
  BY <1>1, AppendProperties DEF Typed, TypeOK
<1>3. \A s : Started(s) \subseteq Watchers
  BY DEF Started, OfTimeout, Watchers
<1>4. w \in [Conns -> SUBSET Watchers]
  BY DEF Typed, TypeOK, Watchers
<1>5. w' \in [Conns -> SUBSET Watchers]
  BY <1>3, <1>4 DEF Refuse
<1> QED BY <1>1, <1>2, <1>5 DEF Refuse

\* So does close().
LEMMA CloseType ==
    ASSUME Typed, NEW c \in Conns, NEW inC \in Seq(Rids), NEW done \in Seq(Calls),
           CloseWith(c, inC, done)
    PROVE  /\ status' \in [Conns -> Status] /\ w' \in [Conns -> SUBSET Watchers]
           /\ out' \in [Conns -> Seq(Rids)] /\ in' \in [Conns -> Seq(Rids)]
           /\ userCb' \in [Conns -> Seq(Calls)] /\ begun' \in [Conns -> BOOLEAN]
           /\ srv' \in [Conns -> Seq(Rids)]
           /\ resp' \in [Conns -> Seq([r : Rids, keep : BOOLEAN])]
<1> DEFINE lost == [i \in DOMAIN inC |-> [r |-> inC[i], a |-> 0]]
<1>1. done \o lost \in Seq(Calls)
  <2>1. lost \in Seq(Calls)
    BY FailedType
  <2> HIDE DEF lost
  <2> QED BY <2>1, ConcatProperties
<1>2. userCb' = [userCb EXCEPT ![c] = done \o lost]
  BY DEF CloseWith
<1> HIDE DEF lost
<1>3. userCb' \in [Conns -> Seq(Calls)]
  BY <1>1, <1>2 DEF Typed
<1>4. /\ <<>> \in Seq(Rids) /\ <<>> \in Seq([r : Rids, keep : BOOLEAN])
      /\ {"prepare"} \subseteq Watchers
  BY EmptySeq DEF Watchers
<1>5. /\ status' \in [Conns -> Status] /\ w' \in [Conns -> SUBSET Watchers]
  BY <1>4 DEF CloseWith, Typed, TypeOK, Watchers, Status
<1>6. /\ out' \in [Conns -> Seq(Rids)] /\ in' \in [Conns -> Seq(Rids)]
      /\ begun' \in [Conns -> BOOLEAN] /\ srv' \in [Conns -> Seq(Rids)]
      /\ resp' \in [Conns -> Seq([r : Rids, keep : BOOLEAN])]
  BY <1>4 DEF CloseWith, Typed, TypeOK
<1> QED BY <1>3, <1>5, <1>6

\* The lists of the pool hold every connection.
Listed(a, b) ==
    /\ a \in Seq(Conns) /\ b \in Seq(Conns)
    /\ Len(a \o b) = NumConns /\ ToSet(a \o b) = Conns

\* It is enough to count and to collect.
LEMMA ListedIs ==
    ASSUME NEW a \in Seq(Conns), NEW b \in Seq(Conns)
    PROVE  Listed(a, b) <=> Len(a) + Len(b) = NumConns /\ ToSet(a) \cup ToSet(b) = Conns
  BY ZenonT(60), JoinedSet DEF Listed

\* The choices of _send keep every connection in one of the lists.
LEMMA PickFrontLists ==
    ASSUME Listed(active, connecting), connecting # <<>>
    PROVE  Listed(Append(active, Head(connecting)), Tail(connecting))
<1>1. /\ Len(active) + Len(connecting) = NumConns
      /\ ToSet(active) \cup ToSet(connecting) = Conns
      /\ Len(active) \in Nat /\ Len(connecting) \in Nat
      /\ active \in Seq(Conns) /\ connecting \in Seq(Conns)
  BY ListedIs, LenProperties DEF Listed
<1>2. /\ Head(connecting) \in Conns /\ Tail(connecting) \in Seq(Conns)
      /\ Len(Tail(connecting)) = Len(connecting) - 1
      /\ ToSet(connecting) = {Head(connecting)} \cup ToSet(Tail(connecting))
  BY <1>1, Popped
<1>3. /\ Append(active, Head(connecting)) \in Seq(Conns)
      /\ Len(Append(active, Head(connecting))) = Len(active) + 1
      /\ ToSet(Append(active, Head(connecting))) = ToSet(active) \cup {Head(connecting)}
  BY <1>1, <1>2, AppendedSet
<1>4. /\ Len(Append(active, Head(connecting))) + Len(Tail(connecting)) = NumConns
      /\ ToSet(Append(active, Head(connecting))) \cup ToSet(Tail(connecting)) = Conns
  BY <1>1, <1>2, <1>3
<1> QED BY <1>2, <1>3, <1>4, ListedIs

\* The ready one goes to the end of _active, those before it to _connecting.
LEMMA PickActiveLists ==
    ASSUME Listed(active, connecting), NEW n \in 1..Len(active)
    PROVE  /\ Listed(Append(SubSeq(active, n + 1, Len(active)), active[n]),
                     connecting \o Before(active, n))
           /\ active[n] \in Conns /\ Before(active, n) \in Seq(Conns)
<1> DEFINE before == SubSeq(active, 1, n - 1)
           after == SubSeq(active, n + 1, Len(active))
<1>1. /\ Len(active) + Len(connecting) = NumConns
      /\ ToSet(active) \cup ToSet(connecting) = Conns
      /\ Len(active) \in Nat /\ Len(connecting) \in Nat
      /\ active \in Seq(Conns) /\ connecting \in Seq(Conns)
  BY ListedIs, LenProperties DEF Listed
<1>2. /\ before \in Seq(Conns) /\ after \in Seq(Conns) /\ active[n] \in Conns
      /\ Len(before) + Len(after) + 1 = Len(active)
      /\ ToSet(before) \cup {active[n]} \cup ToSet(after) = ToSet(active)
      /\ Len(before) \in Nat /\ Len(after) \in Nat
  BY <1>1, Parted, LenProperties
<1>3. Before(active, n) = before
  BY <1>1 DEF Before
<1> HIDE DEF before, after
<1>4. /\ Append(after, active[n]) \in Seq(Conns)
      /\ Len(Append(after, active[n])) = Len(after) + 1
      /\ ToSet(Append(after, active[n])) = ToSet(after) \cup {active[n]}
  BY <1>2, AppendedSet
<1>5. /\ connecting \o before \in Seq(Conns)
      /\ Len(connecting \o before) = Len(connecting) + Len(before)
      /\ ToSet(connecting \o before) = ToSet(connecting) \cup ToSet(before)
  BY <1>1, <1>2, JoinedSet
<1>6. Listed(Append(after, active[n]), connecting \o before)
  <2>1. Len(Append(after, active[n])) + Len(connecting \o before) = NumConns
    <3>1. /\ Len(Append(after, active[n])) = Len(after) + 1
          /\ Len(connecting \o before) = Len(connecting) + Len(before)
          /\ Len(before) + Len(after) + 1 = Len(active)
          /\ Len(active) + Len(connecting) = NumConns
          /\ Len(connecting) \in Nat /\ Len(before) \in Nat /\ Len(after) \in Nat
      BY <1>1, <1>2, <1>4, <1>5
    <3> QED BY <3>1
  <2>2. ToSet(Append(after, active[n])) \cup ToSet(connecting \o before) = Conns
    BY <1>1, <1>2, <1>4, <1>5
  <2> QED BY <1>4, <1>5, <2>1, <2>2, ListedIs
<1> QED BY <1>2, <1>3, <1>6 DEF after

\* One connection of both lists is chosen, the others are in _connecting.
LEMMA PickConnectingLists ==
    ASSUME Listed(active, connecting), NEW n \in 1..Len(connecting \o active)
    PROVE  LET list == connecting \o active
           IN  /\ Listed(<<list[n]>>, Others(list, n))
               /\ Listed(<<>>, Append(Others(list, n), list[n]))
               /\ list[n] \in Conns
<1> DEFINE list == connecting \o active
           before == SubSeq(list, 1, n - 1)
           after == SubSeq(list, n + 1, Len(list))
<1>1. /\ Len(active) + Len(connecting) = NumConns
      /\ ToSet(active) \cup ToSet(connecting) = Conns
      /\ Len(active) \in Nat /\ Len(connecting) \in Nat
      /\ active \in Seq(Conns) /\ connecting \in Seq(Conns)
  BY ListedIs, LenProperties DEF Listed
<1>2. list \in Seq(Conns) /\ Len(list) = NumConns /\ ToSet(list) = Conns
  <2>1. /\ list \in Seq(Conns) /\ Len(list) = Len(connecting) + Len(active)
        /\ ToSet(list) = ToSet(connecting) \cup ToSet(active)
    BY <1>1, JoinedSet
  <2> HIDE DEF list
  <2> QED BY <1>1, <2>1
<1> HIDE DEF list
<1>3. /\ before \in Seq(Conns) /\ after \in Seq(Conns) /\ list[n] \in Conns
      /\ Len(before) + Len(after) + 1 = Len(list)
      /\ ToSet(before) \cup {list[n]} \cup ToSet(after) = ToSet(list)
      /\ Len(before) \in Nat /\ Len(after) \in Nat
  BY <1>2, Parted, LenProperties DEF list
<1> HIDE DEF before, after
<1>4. /\ before \o after \in Seq(Conns)
      /\ Len(before \o after) = Len(before) + Len(after)
      /\ ToSet(before \o after) = ToSet(before) \cup ToSet(after)
  BY <1>3, JoinedSet
<1>5. /\ <<list[n]>> \in Seq(Conns) /\ Len(<<list[n]>>) = 1
      /\ ToSet(<<list[n]>>) = {list[n]}
      /\ <<>> \in Seq(Conns) /\ Len(<<>>) = 0 /\ ToSet(<<>>) = {}
  BY <1>3 DEF ToSet
<1>6. /\ Append(before \o after, list[n]) \in Seq(Conns)
      /\ Len(Append(before \o after, list[n])) = Len(before \o after) + 1
      /\ ToSet(Append(before \o after, list[n])) = ToSet(before \o after) \cup {list[n]}
  <2>1. before \o after \in Seq(Conns) /\ list[n] \in Conns
    BY <1>3, <1>4
  <2> DEFINE both == before \o after
  <2> HIDE DEF both
  <2>2. /\ Append(both, list[n]) \in Seq(Conns)
        /\ Len(Append(both, list[n])) = Len(both) + 1
        /\ ToSet(Append(both, list[n])) = ToSet(both) \cup {list[n]}
    BY <2>1, AppendedSet DEF both
  <2> QED BY <2>2 DEF both
<1>7. Listed(<<list[n]>>, before \o after)
  <2>1. Len(<<list[n]>>) + Len(before \o after) = NumConns
    BY <1>2, <1>3, <1>4, <1>5
  <2>2. ToSet(<<list[n]>>) \cup ToSet(before \o after) = Conns
    BY <1>2, <1>3, <1>4, <1>5
  <2> QED BY <1>4, <1>5, <2>1, <2>2, ListedIs
<1>8. Listed(<<>>, Append(before \o after, list[n]))
  <2>1. Len(<<>>) + Len(Append(before \o after, list[n])) = NumConns
    BY <1>2, <1>3, <1>4, <1>5, <1>6
  <2>2. ToSet(<<>>) \cup ToSet(Append(before \o after, list[n])) = Conns
    BY <1>2, <1>3, <1>4, <1>5, <1>6
  <2> QED BY <1>5, <1>6, <2>1, <2>2, ListedIs
<1> QED BY <1>3, <1>7, <1>8 DEF Others, list, before, after

\* What a step of cb_prepare of the pool chooses: a connection that is ready or
\* being established gets the request, or none is and it is refused.
Chosen ==
    /\ Sending /\ Listed(active', connecting')
    /\ \E st2 \in [Conns -> Status] :
         /\ \A c \in Conns : st2[c] # status[c] => status[c] = "Closed"
         /\ \/ Refuse(st2)
            \/ \E c \in Conns : st2[c] # "Closed" /\ Give(c, st2)
    /\ UNCHANGED <<nreq, poolWatch, userCb, callVars, netVars>>

\* The front of _connecting.
LEMMA ChoosesFront ==
    ASSUME Typed, PickFront
    PROVE  Chosen
<1>0. /\ Listed(active, connecting) /\ status \in [Conns -> Status]
      /\ active \in Seq(Conns) /\ connecting \in Seq(Conns)
  BY DEF Typed, TypeOK, Listed
<1>1. connecting # <<>> /\ status[Head(connecting)] = "Ready"
  BY DEF PickFront, FrontReady
<1>2. Head(connecting) \in Conns
  BY <1>0, <1>1, Popped
<1> QED BY <1>0, <1>1, <1>2, PickFrontLists DEF PickFront, Chosen

\* The first ready one of _active.
LEMMA ChoosesActive ==
    ASSUME Typed, PickActive
    PROVE  Chosen
<1>0. /\ Listed(active, connecting) /\ status \in [Conns -> Status]
      /\ active \in Seq(Conns) /\ connecting \in Seq(Conns)
  BY DEF Typed, TypeOK, Listed
<1> DEFINE n == First(active, status, "Ready")
<1>1. /\ n > 0 /\ Sending
      /\ active' = Append(SubSeq(active, n + 1, Len(active)), active[n])
      /\ connecting' = connecting \o Before(active, n)
      /\ \E st2 \in Connect(status, Before(active, n)) : Give(active[n], st2)
      /\ UNCHANGED <<nreq, poolWatch, userCb, callVars, netVars>>
  BY DEF PickActive
<1>2. n \in 0..Len(active) /\ status[active[n]] = "Ready"
  BY <1>0, <1>1, FirstIs
<1>3. n \in 1..Len(active)
  BY <1>1, <1>2
<1> HIDE DEF n
<1>4. PICK st2 \in Connect(status, Before(active, n)) : Give(active[n], st2)
  BY <1>1
<1>5. /\ st2 \in [Conns -> Status]
      /\ \A c \in Conns : st2[c] # status[c] => status[c] = "Closed"
  BY DEF Connect
<1>6. active[n] \in Conns /\ Listed(active', connecting')
  BY <1>0, <1>1, <1>3, PickActiveLists
<1>7. st2[active[n]] # "Closed"
  BY <1>2, <1>5, <1>6
<1> QED BY <1>1, <1>4, <1>5, <1>6, <1>7 DEF Chosen

\* A ready one of both lists, one that is being established, or none.
LEMMA ChoosesConnecting ==
    ASSUME Typed, PickConnecting
    PROVE  Chosen
<1>0. /\ Listed(active, connecting) /\ status \in [Conns -> Status]
      /\ active \in Seq(Conns) /\ connecting \in Seq(Conns)
  BY DEF Typed, TypeOK, Listed
<1> DEFINE list == connecting \o active
<1>1. list \in Seq(Conns)
  BY <1>0, JoinedSet
<1>2. PICK st1 \in Connect(status, active) :
      LET n == First(list, st1, "Ready")
      IN  \E st2 \in Connect(st1, Before(list, n)) :
          LET k == Waiting(list, st2)
          IN  IF n > 0
              THEN /\ active' = <<list[n]>> /\ connecting' = Others(list, n)
                   /\ Give(list[n], st2)
              ELSE /\ active' = <<>>
                   /\ IF k > 0
                      THEN /\ connecting' = Append(Others(list, k), list[k])
                           /\ Give(list[k], st2)
                      ELSE connecting' = list /\ Refuse(st2)
  BY DEF PickConnecting
<1> DEFINE n == First(list, st1, "Ready")
<1>3. PICK st2 \in Connect(st1, Before(list, n)) :
          IF n > 0
          THEN /\ active' = <<list[n]>> /\ connecting' = Others(list, n)
               /\ Give(list[n], st2)
          ELSE /\ active' = <<>>
               /\ IF First(list, st2, "Connecting") > 0
                  THEN /\ connecting' = Append(Others(list, First(list, st2, "Connecting")),
                                               list[First(list, st2, "Connecting")])
                       /\ Give(list[First(list, st2, "Connecting")], st2)
                  ELSE connecting' = list /\ Refuse(st2)
  BY <1>2 DEF Waiting
<1> DEFINE k == First(list, st2, "Connecting")
<1>4. /\ st1 \in [Conns -> Status] /\ st2 \in [Conns -> Status]
      /\ \A c \in Conns : st1[c] # status[c] => status[c] = "Closed"
      /\ \A c \in Conns : st2[c] # st1[c] => st1[c] = "Closed"
  BY DEF Connect
<1>5. \A c \in Conns : st2[c] # status[c] => status[c] = "Closed"
  BY <1>4
<1>6. /\ n \in 0..Len(list) /\ (n > 0 => st1[list[n]] = "Ready")
      /\ k \in 0..Len(list) /\ (k > 0 => st2[list[k]] = "Connecting")
  BY <1>1, <1>4, FirstIs
<1>7. /\ \A i \in 1..Len(list) : /\ Listed(<<list[i]>>, Others(list, i))
                                 /\ Listed(<<>>, Append(Others(list, i), list[i]))
                                 /\ list[i] \in Conns
  BY <1>0, PickConnectingLists
<1>8. Listed(<<>>, list)
  <2>1. /\ Len(active) + Len(connecting) = NumConns
        /\ ToSet(active) \cup ToSet(connecting) = Conns
        /\ Len(active) \in Nat /\ Len(connecting) \in Nat
    BY <1>0, ListedIs, LenProperties
  <2>2. Len(list) = Len(connecting) + Len(active) /\ ToSet(list) = ToSet(connecting) \cup ToSet(active)
    BY <1>0, JoinedSet
  <2>3. <<>> \in Seq(Conns) /\ Len(<<>>) = 0 /\ ToSet(<<>>) = {}
    BY DEF ToSet
  <2> HIDE DEF list
  <2>4. Len(<<>>) + Len(list) = NumConns /\ ToSet(<<>>) \cup ToSet(list) = Conns
    BY <2>1, <2>2, <2>3
  <2> QED BY <1>1, <2>3, <2>4, ListedIs
<1>9. Sending /\ UNCHANGED <<nreq, poolWatch, userCb, callVars, netVars>>
  BY DEF PickConnecting
<1> HIDE DEF list, n, k
<1>10. CASE n > 0
  <2>1. n \in 1..Len(list)
    BY <1>6, <1>10
  <2>2. st2[list[n]] # "Closed"
    BY <1>4, <1>6, <1>7, <1>10, <2>1
  <2> QED BY <1>3, <1>5, <1>4, <1>7, <1>9, <1>10, <2>1, <2>2 DEF Chosen
<1>11. CASE ~(n > 0) /\ k > 0
  <2>1. k \in 1..Len(list)
    BY <1>6, <1>11
  <2>2. /\ active' = <<>> /\ connecting' = Append(Others(list, k), list[k])
        /\ Give(list[k], st2)
    BY <1>3, <1>11 DEF k
  <2> QED BY <1>4, <1>5, <1>6, <1>7, <1>9, <1>11, <2>1, <2>2 DEF Chosen
<1>12. CASE ~(n > 0) /\ ~(k > 0)
  <2>1. active' = <<>> /\ connecting' = list /\ Refuse(st2)
    BY <1>3, <1>12 DEF k
  <2> QED BY <1>4, <1>5, <1>8, <1>9, <2>1 DEF Chosen
<1> QED BY <1>10, <1>11, <1>12

\* All the steps of cb_prepare that send.
LEMMA PickChooses ==
    ASSUME Typed, PickFront \/ PickActive \/ PickConnecting
    PROVE  Chosen
<1>1. ASSUME PickFront PROVE Chosen
  BY <1>1, ChoosesFront
<1>2. ASSUME PickActive PROVE Chosen
  BY <1>2, ChoosesActive
<1>3. ASSUME PickConnecting PROVE Chosen
  BY <1>3, ChoosesConnecting
<1> QED BY <1>1, <1>2, <1>3

\* The types hold initially.
LEMMA TypedInit == Init => Typed
<1> SUFFICES ASSUME Init PROVE Typed
  OBVIOUS
<1>1. /\ connecting \in Seq(Conns) /\ Len(connecting) = NumConns
      /\ DOMAIN connecting = Conns /\ \A i \in Conns : connecting[i] = i
  <2>1. connecting = [i \in 1..NumConns |-> i] /\ NumConns \in Nat
    BY DEF Init, Conns
  <2>2. [i \in 1..NumConns |-> i] \in Seq(Conns)
    BY <2>1 DEF Conns
  <2>3. Len([i \in 1..NumConns |-> i]) = NumConns
    BY <2>1
  <2> QED BY <2>1, <2>2, <2>3 DEF Conns
<1>2. active = <<>> /\ <<>> \in Seq(Conns) /\ Len(<<>>) = 0 /\ ToSet(<<>>) = {}
  BY DEF Init, ToSet
<1>3. Listed(active, connecting)
  <2>1. ToSet(connecting) = Conns
    <3>1. ToSet(connecting) = {connecting[i] : i \in Conns}
      BY <1>1, Zenon DEF ToSet
    <3> QED BY <1>1, <3>1
  <2>2. Len(active) + Len(connecting) = NumConns
    BY <1>1, <1>2
  <2>3. ToSet(active) \cup ToSet(connecting) = Conns
    BY <1>2, <2>1
  <2> QED BY <1>1, <1>2, <2>2, <2>3, ListedIs
<1>4. w \in [Conns -> SUBSET {"write", "response", "connect", "prepare"}]
  BY DEF Init, Started, OfTimeout, Status
<1>5. /\ nreq \in 0..MaxReq /\ poolOut \in Seq(Rids) /\ err \in Seq(Rids)
      /\ poolWatch \in BOOLEAN /\ status \in [Conns -> Status]
      /\ out \in [Conns -> Seq(Rids)] /\ in \in [Conns -> Seq(Rids)]
      /\ running \in {"no", "send", "call"} /\ caller \in 0..NumConns
  <2>1. 0 \in 0..MaxReq /\ 0 \in 0..NumConns /\ <<>> \in Seq(Rids)
    BY EmptySeq
  <2> QED BY <2>1 DEF Init
<1>6. /\ userCb \in [Conns -> Seq(Calls)] /\ batch \in Seq(Calls)
      /\ log \in Seq([r : Rids, a : Rids \cup {0}, c : Holders])
      /\ begun \in [Conns -> BOOLEAN] /\ srv \in [Conns -> Seq(Rids)]
      /\ resp \in [Conns -> Seq([r : Rids, keep : BOOLEAN])]
  BY EmptySeq DEF Init
<1> QED BY <1>3, <1>4, <1>5, <1>6 DEF Typed, TypeOK, Listed

\* The lists as one conjunct of the types.
LEMMA TypedIs ==
    Typed <=>
        /\ nreq \in 0..MaxReq /\ poolOut \in Seq(Rids) /\ err \in Seq(Rids)
        /\ poolWatch \in BOOLEAN /\ Listed(active, connecting)
        /\ status \in [Conns -> Status] /\ w \in [Conns -> SUBSET Watchers]
        /\ out \in [Conns -> Seq(Rids)] /\ in \in [Conns -> Seq(Rids)]
        /\ running \in {"no", "send", "call"} /\ caller \in 0..NumConns
        /\ userCb \in [Conns -> Seq(Calls)] /\ batch \in Seq(Calls)
        /\ log \in Seq([r : Rids, a : Rids \cup {0}, c : Holders])
        /\ begun \in [Conns -> BOOLEAN] /\ srv \in [Conns -> Seq(Rids)]
        /\ resp \in [Conns -> Seq([r : Rids, keep : BOOLEAN])]
  BY DEF Typed, TypeOK, Listed, Watchers

\* What write_int sends is a part of _out, and what it leaves is the rest.
LEMMA WriteType ==
    ASSUME Typed, NEW c \in Conns, NEW m \in 0..Len(out[c]), NEW part \in BOOLEAN,
           part => SubSeq(out[c], m + 1, Len(out[c])) # <<>>
    PROVE  /\ part => m + 1 <= Len(out[c])
           /\ SubSeq(out[c], m + 1, Len(out[c])) \in Seq(Rids)
           /\ SubSeq(out[c], IF begun[c] THEN 2 ELSE 1, IF part THEN m + 1 ELSE m)
                \in Seq(Rids)
<1> DEFINE q == out[c]  from == IF begun[c] THEN 2 ELSE 1
           to == IF part THEN m + 1 ELSE m
<1>1. q \in Seq(Rids)
  BY DEF Typed, TypeOK
<1> HIDE DEF q
<1>2. /\ Len(q) \in Nat /\ m \in 0..Len(q) /\ from \in Int /\ to \in Int /\ from >= 1
      /\ \A i \in 1..Len(q) : q[i] \in Rids
  BY <1>1, LenProperties, ElementOfSeq DEF q
<1>3. part => m + 1 <= Len(q)
  <2>1. Len(SubSeq(q, m + 1, Len(q))) = IF m + 1 <= Len(q) THEN Len(q) - (m + 1) + 1 ELSE 0
    BY <1>1, <1>2, SubSeqProperties
  <2>2. ~(m + 1 <= Len(q)) => SubSeq(q, m + 1, Len(q)) = <<>>
    BY <1>1, <1>2, <2>1, SubSeqProperties, EmptySeq
  <2> QED BY <2>2 DEF q
<1>4. SubSeq(q, m + 1, Len(q)) \in Seq(Rids)
  <2>1. \A i \in (m + 1)..Len(q) : q[i] \in Rids
    BY <1>2
  <2> QED BY <1>2, <2>1, SubSeqProperties
<1>5. SubSeq(q, from, to) \in Seq(Rids)
  <2>1. \A i \in from..to : q[i] \in Rids
    BY <1>2, <1>3
  <2> HIDE DEF from, to
  <2> QED BY <1>2, <2>1, SubSeqProperties
<1> QED BY <1>3, <1>4, <1>5 DEF q

\* Every step keeps the types, and every connection in one of the lists.
LEMMA TypedStep ==
    ASSUME Typed, [Next]_vars
    PROVE  Typed'
<1>0. /\ nreq \in 0..MaxReq /\ poolOut \in Seq(Rids) /\ err \in Seq(Rids)
      /\ poolWatch \in BOOLEAN /\ Listed(active, connecting)
      /\ status \in [Conns -> Status] /\ w \in [Conns -> SUBSET Watchers]
      /\ out \in [Conns -> Seq(Rids)] /\ in \in [Conns -> Seq(Rids)]
      /\ running \in {"no", "send", "call"} /\ caller \in 0..NumConns
      /\ userCb \in [Conns -> Seq(Calls)] /\ batch \in Seq(Calls)
      /\ log \in Seq([r : Rids, a : Rids \cup {0}, c : Holders])
      /\ begun \in [Conns -> BOOLEAN] /\ srv \in [Conns -> Seq(Rids)]
      /\ resp \in [Conns -> Seq([r : Rids, keep : BOOLEAN])]
  BY TypedIs
<1>a. Typed' <=>
        /\ nreq' \in 0..MaxReq /\ poolOut' \in Seq(Rids) /\ err' \in Seq(Rids)
        /\ poolWatch' \in BOOLEAN /\ Listed(active', connecting')
        /\ status' \in [Conns -> Status] /\ w' \in [Conns -> SUBSET Watchers]
        /\ out' \in [Conns -> Seq(Rids)] /\ in' \in [Conns -> Seq(Rids)]
        /\ running' \in {"no", "send", "call"} /\ caller' \in 0..NumConns
        /\ userCb' \in [Conns -> Seq(Calls)] /\ batch' \in Seq(Calls)
        /\ log' \in Seq([r : Rids, a : Rids \cup {0}, c : Holders])
        /\ begun' \in [Conns -> BOOLEAN] /\ srv' \in [Conns -> Seq(Rids)]
        /\ resp' \in [Conns -> Seq([r : Rids, keep : BOOLEAN])]
  BY DEF Typed, TypeOK, Listed, Watchers
<1> USE DEF poolVars, connVars, callVars, netVars
<1>1. CASE Send
  <2>1. nreq + 1 \in Rids /\ nreq' \in 0..MaxReq
    BY <1>0, <1>1 DEF Send, Rids
  <2>2. Append(poolOut, nreq + 1) \in Seq(Rids)
    BY <1>0, <2>1, AppendProperties
  <2> QED BY <1>0, <1>a, <1>1, <2>1, <2>2 DEF Send
<1>2. CASE PoolBegin
  BY <1>0, <1>a, <1>2 DEF PoolBegin
<1>3. ASSUME PickFront \/ PickActive \/ PickConnecting PROVE Typed'
  <2>1. Chosen
    BY <1>3, PickChooses
  <2>2. PICK st2 \in [Conns -> Status] :
            Refuse(st2) \/ \E c \in Conns : st2[c] # "Closed" /\ Give(c, st2)
    BY <2>1 DEF Chosen
  <2>3. /\ poolOut' \in Seq(Rids) /\ status' \in [Conns -> Status]
        /\ err' \in Seq(Rids) /\ w' \in [Conns -> SUBSET Watchers]
        /\ out' \in [Conns -> Seq(Rids)] /\ in' \in [Conns -> Seq(Rids)]
    <3>1. Sending
      BY <2>1 DEF Chosen
    <3>2. CASE Refuse(st2)
      BY <1>0, <3>1, <3>2, RefuseType
    <3>3. ASSUME NEW c \in Conns, Give(c, st2)
          PROVE  /\ poolOut' \in Seq(Rids) /\ status' \in [Conns -> Status]
                 /\ err' \in Seq(Rids) /\ w' \in [Conns -> SUBSET Watchers]
                 /\ out' \in [Conns -> Seq(Rids)] /\ in' \in [Conns -> Seq(Rids)]
      BY <1>0, <3>1, <3>3, GiveType
    <3> QED BY <2>2, <3>2, <3>3
  <2> QED BY <1>0, <1>a, <2>1, <2>3 DEF Chosen
<1>4. CASE PoolCall
  <2>1. [i \in DOMAIN err |-> [r |-> err[i], a |-> 0]] \in Seq(Calls)
    BY <1>0, FailedType
  <2>2. <<>> \in Seq(Rids) /\ 0 \in 0..NumConns
    BY EmptySeq
  <2> QED BY <1>0, <1>a, <1>4, <2>1, <2>2 DEF PoolCall
<1>5. CASE Call
  <2>1. batch # <<>>
    BY <1>5 DEF Call
  <2>2. Head(batch) \in Calls /\ Tail(batch) \in Seq(Calls)
    BY <1>0, <2>1, Popped
  <2>3. [r |-> Head(batch).r, a |-> Head(batch).a, c |-> caller]
          \in [r : Rids, a : Rids \cup {0}, c : Holders]
    BY <1>0, <2>2 DEF Calls, Holders
  <2>4. log' \in Seq([r : Rids, a : Rids \cup {0}, c : Holders]) /\ batch' \in Seq(Calls)
    BY <1>0, <1>5, <2>2, <2>3, AppendProperties DEF Call
  <2> QED BY <1>0, <1>a, <1>5, <2>4 DEF Call
<1>6. CASE CallEnd
  <2>1. 0 \in 0..NumConns
    OBVIOUS
  <2> QED BY <1>0, <1>a, <1>6, <2>1 DEF CallEnd
<1>7. ASSUME NEW c \in Conns, NotConnected(c) \/ NetworkError(c) \/ Timeout(c)
      PROVE  Typed'
  <2>1. CloseWith(c, in[c], userCb[c]) /\ UNCHANGED <<nreq, poolVars, callVars>>
    BY <1>7 DEF NotConnected, NetworkError, Timeout, Close
  <2>2. in[c] \in Seq(Rids) /\ userCb[c] \in Seq(Calls)
    BY <1>0
  <2> QED BY <1>0, <1>a, <2>1, <2>2, CloseType
<1>8. ASSUME NEW c \in Conns, CbWrite(c) PROVE Typed'
  <2>1. PICK m \in 0..Len(out[c]), part \in BOOLEAN :
          LET left == SubSeq(out[c], m + 1, Len(out[c]))
              from == IF begun[c] THEN 2 ELSE 1
              to   == IF part THEN m + 1 ELSE m
          IN  /\ part => left # <<>>
              /\ begun[c] /\ m = 0 => part
              /\ out' = [out EXCEPT ![c] = left]
              /\ begun' = [begun EXCEPT ![c] = part]
              /\ srv' = [srv EXCEPT ![c] = @ \o SubSeq(out[c], from, to)]
              /\ w' = [w EXCEPT ![c] = WatchersOfWrite(c, left)]
    BY <1>8 DEF CbWrite
  <2> DEFINE left == SubSeq(out[c], m + 1, Len(out[c]))
             sent == SubSeq(out[c], IF begun[c] THEN 2 ELSE 1, IF part THEN m + 1 ELSE m)
  <2>2. left \in Seq(Rids) /\ sent \in Seq(Rids)
    BY <2>1, WriteType
  <2>3. /\ out' = [out EXCEPT ![c] = left] /\ begun' = [begun EXCEPT ![c] = part]
        /\ srv' = [srv EXCEPT ![c] = srv[c] \o sent]
        /\ w' = [w EXCEPT ![c] = WatchersOfWrite(c, left)]
    BY <2>1
  <2> HIDE DEF left, sent
  <2>4. srv[c] \o sent \in Seq(Rids)
    BY <1>0, <2>2, ConcatProperties
  <2>5. WatchersOfWrite(c, left) \in SUBSET Watchers
    BY <1>0 DEF WatchersOfWrite
  <2>6. status' = [status EXCEPT ![c] = "Ready"] /\ "Ready" \in Status
        /\ UNCHANGED <<nreq, poolVars, in, userCb, callVars, resp>>
    BY <1>8 DEF CbWrite, Status
  <2> QED BY <1>0, <1>a, <2>2, <2>3, <2>4, <2>5, <2>6
<1>9. ASSUME NEW c \in Conns, CbRead(c) PROVE Typed'
  <2> DEFINE a == Head(resp[c])
             done == Append(userCb[c], [r |-> Head(in[c]), a |-> a.r])
  <2>1. /\ IF a.keep
           THEN /\ in' = [in EXCEPT ![c] = Tail(@)]
                /\ userCb' = [userCb EXCEPT ![c] = done]
                /\ w' = [w EXCEPT ![c] = TimerAfter(c, Tail(in[c])) \cup {"prepare"}]
                /\ resp' = [resp EXCEPT ![c] = Tail(@)]
                /\ UNCHANGED <<status, out, begun, srv>>
           ELSE CloseWith(c, Tail(in[c]), done)
        /\ UNCHANGED <<nreq, poolVars, callVars>>
        /\ resp[c] # <<>> /\ in[c] # <<>>
    BY <1>9 DEF CbRead
  <2>2. /\ a \in [r : Rids, keep : BOOLEAN]
        /\ Tail(resp[c]) \in Seq([r : Rids, keep : BOOLEAN])
    BY <1>0, <2>1, Popped
  <2>3. Head(in[c]) \in Rids /\ Tail(in[c]) \in Seq(Rids)
    BY <1>0, <2>1, Popped
  <2>4. done \in Seq(Calls)
    <3>1. [r |-> Head(in[c]), a |-> a.r] \in Calls
      BY <2>2, <2>3 DEF Calls
    <3> QED BY <1>0, <3>1, AppendProperties
  <2> HIDE DEF done
  <2>5. CASE a.keep
    <3>1. TimerAfter(c, Tail(in[c])) \cup {"prepare"} \in SUBSET Watchers
      BY <1>0 DEF TimerAfter, Watchers
    <3>2. /\ in' \in [Conns -> Seq(Rids)] /\ userCb' \in [Conns -> Seq(Calls)]
      BY <1>0, <2>1, <2>3, <2>4, <2>5
    <3>4. resp' \in [Conns -> Seq([r : Rids, keep : BOOLEAN])]
      BY <1>0, <2>1, <2>2, <2>5
    <3>3. w' \in [Conns -> SUBSET Watchers]
      BY <1>0, <2>1, <2>5, <3>1
    <3> QED BY <1>0, <1>a, <2>1, <2>5, <3>2, <3>3, <3>4
  <2>6. CASE ~a.keep
    <3>1. CloseWith(c, Tail(in[c]), done)
      BY <2>1, <2>6
    <3> QED BY <1>0, <1>a, <2>1, <2>3, <2>4, <3>1, CloseType
  <2> QED BY <2>5, <2>6
<1>10. ASSUME NEW c \in Conns, CbPrepare(c) PROVE Typed'
  <2>1. /\ w' = [w EXCEPT ![c] = @ \ {"prepare"}]
        /\ running' = "call" /\ caller' = c
        /\ batch' = userCb[c] /\ userCb' = [userCb EXCEPT ![c] = <<>>]
        /\ UNCHANGED <<nreq, poolVars, status, out, in, log, netVars>>
    BY <1>10 DEF CbPrepare
  <2>2. <<>> \in Seq(Calls) /\ c \in 0..NumConns
    BY EmptySeq DEF Conns
  <2>3. /\ batch' \in Seq(Calls) /\ userCb' \in [Conns -> Seq(Calls)]
        /\ w' \in [Conns -> SUBSET Watchers]
    BY <1>0, <2>1, <2>2
  <2> QED BY <1>0, <1>a, <2>1, <2>2, <2>3
<1>11. ASSUME NEW c \in Conns, Answer(c) PROVE Typed'
  <2>1. PICK keep \in BOOLEAN :
          resp' = [resp EXCEPT ![c] = Append(@, [r |-> Head(srv[c]), keep |-> keep])]
    BY <1>11 DEF Answer
  <2>2. /\ srv' = [srv EXCEPT ![c] = Tail(@)] /\ srv[c] # <<>>
        /\ UNCHANGED <<nreq, poolVars, connVars, callVars, begun>>
    BY <1>11 DEF Answer
  <2>3. Head(srv[c]) \in Rids /\ Tail(srv[c]) \in Seq(Rids)
    BY <1>0, <2>2, Popped
  <2>4. Append(resp[c], [r |-> Head(srv[c]), keep |-> keep])
          \in Seq([r : Rids, keep : BOOLEAN])
    <3>1. [r |-> Head(srv[c]), keep |-> keep] \in [r : Rids, keep : BOOLEAN]
      BY <2>3
    <3> QED BY <1>0, <3>1, AppendProperties
  <2>5. /\ srv' \in [Conns -> Seq(Rids)]
        /\ resp' \in [Conns -> Seq([r : Rids, keep : BOOLEAN])]
    BY <1>0, <2>1, <2>2, <2>3, <2>4
  <2> QED BY <1>0, <1>a, <2>2, <2>5
<1>12. CASE UNCHANGED vars
  BY <1>0, <1>a, <1>12 DEF vars
<1> QED
  BY <1>1, <1>2, <1>3, <1>4, <1>5, <1>6, <1>7, <1>8, <1>9, <1>10, <1>11, <1>12
  DEF Next, PoolStep, CallStep, ConnStep

-----------------------------------------------------------------------------
(* Every request in one place                                              *)

\* What a holder has still to call back.
LEMMA UncalledType ==
    ASSUME Typed, NEW h \in Holders
    PROVE  /\ Uncalled(h) \in Seq(Rids) /\ Len(Uncalled(h)) \in Nat
           /\ DOMAIN Uncalled(h) = 1..Len(Uncalled(h))
           /\ \A i \in 1..Len(Uncalled(h)) : Uncalled(h)[i] \in Rids
<1>1. \A calls \in Seq(Calls) : RidsOf(calls) \in Seq(Rids)
  <2>1. \A x \in Calls : x.r \in Rids
    BY DEF Calls
  <2> QED BY <2>1, RidsOfAny
<1>2. (IF caller = h THEN RidsOf(batch) ELSE <<>>) \in Seq(Rids)
  BY <1>1, EmptySeq DEF Typed
<1>3. (IF h = 0 THEN err \o poolOut ELSE RidsOf(userCb[h]) \o in[h]) \in Seq(Rids)
  <2>1. CASE h = 0
    BY <2>1, ConcatProperties DEF Typed, TypeOK
  <2>2. CASE h # 0
    <3>1. h \in Conns
      BY <2>2 DEF Holders, Conns
    <3>2. RidsOf(userCb[h]) \in Seq(Rids) /\ in[h] \in Seq(Rids)
      BY <1>1, <3>1 DEF Typed, TypeOK
    <3> QED BY <2>2, <3>2, ConcatProperties
  <2> QED BY <2>1, <2>2
<1>4. Uncalled(h) \in Seq(Rids)
  BY <1>2, <1>3, ConcatProperties DEF Uncalled
<1> QED BY <1>4, LenProperties, ElementOfSeq

\* A request is held when it was called back or will be.
LEMMA HoldsIs ==
    ASSUME Typed, OnceEach, NEW h \in Holders
    PROVE  /\ \A i \in 1..Len(Uncalled(h)) :
                Holds(h, Uncalled(h)[i]) /\ Uncalled(h)[i] <= nreq
           /\ \A i \in DOMAIN log :
                log[i].c = h => Holds(h, log[i].r) /\ log[i].r <= nreq
<1>0. Len(Uncalled(h)) \in Nat /\ \A i \in 1..Len(Uncalled(h)) : Uncalled(h)[i] \in Rids
  BY UncalledType
<1>1. \A r \in Rids : Holds(h, r) => r <= nreq
  BY DEF OnceEach
<1>2. \A i \in DOMAIN log : log[i].r \in Rids
  <2>1. /\ DOMAIN log = 1..Len(log)
        /\ \A i \in 1..Len(log) : log[i] \in [r : Rids, a : Rids \cup {0}, c : Holders]
    BY LenProperties, ElementOfSeq DEF Typed
  <2> QED BY <2>1
<1>3. \A i \in 1..Len(Uncalled(h)) : Holds(h, Uncalled(h)[i])
  BY DEF Holds, Contains
<1>4. \A i \in DOMAIN log : log[i].c = h => Holds(h, log[i].r)
  BY DEF Holds, Called
<1> QED BY <1>0, <1>1, <1>2, <1>3, <1>4

\* Most steps move nothing.
LEMMA NothingMoves ==
    ASSUME OnceEach, log' = log, nreq' = nreq,
           \A h \in Holders : Uncalled(h)' = Uncalled(h)
    PROVE  OnceEach'
<1>1. InOrder'
  BY DEF OnceEach, InOrder
<1>2. \A h \in Holders : \A r \in Rids : Holds(h, r)' <=> Holds(h, r)
  BY DEF Holds, Called, Contains
<1> QED BY <1>1, <1>2 DEF OnceEach

\* A new request is the last of the pool's.
LEMMA SentMoves ==
    ASSUME Typed, OnceEach, log' = log, nreq' = nreq + 1, nreq + 1 \in Rids,
           Uncalled(0)' = Append(Uncalled(0), nreq + 1),
           \A h \in Conns : Uncalled(h)' = Uncalled(h)
    PROVE  OnceEach'
<1> DEFINE u == Uncalled(0)  r0 == nreq + 1
<1>0. /\ 0 \in Holders /\ nreq \in Nat
      /\ \A h \in Holders : h = 0 \/ h \in Conns
  BY DEF Holders, Conns, Typed, TypeOK
<1>1. /\ u \in Seq(Rids) /\ Len(u) \in Nat /\ DOMAIN u = 1..Len(u)
      /\ \A i \in 1..Len(u) : u[i] \in Rids
  BY <1>0, UncalledType
<1>2. \A i \in 1..Len(u) : u[i] < r0
  <2>1. \A i \in 1..Len(u) : u[i] <= nreq
    BY <1>0, HoldsIs
  <2> HIDE DEF u
  <2> QED BY <1>0, <1>1, <2>1 DEF Rids
<1>3. \A i \in DOMAIN log : log[i].c = 0 => log[i].r < r0
  <2>1. \A i \in DOMAIN log : log[i].c = 0 => log[i].r <= nreq /\ log[i].r \in Int
    <3>1. /\ DOMAIN log = 1..Len(log)
          /\ \A i \in 1..Len(log) : log[i] \in [r : Rids, a : Rids \cup {0}, c : Holders]
      BY LenProperties, ElementOfSeq DEF Typed
    <3>2. \A i \in DOMAIN log : log[i].r \in Int
      BY <3>1 DEF Rids
    <3> QED BY <1>0, <3>2, HoldsIs
  <2> QED BY <1>0, <2>1
<1> DEFINE v == Append(u, r0)
<1>4. /\ DOMAIN v = 1..(Len(u) + 1) /\ Len(v) = Len(u) + 1
      /\ \A i \in 1..Len(u) : v[i] = u[i]
      /\ v[Len(u) + 1] = r0
  <2> HIDE DEF u
  <2> QED BY <1>1, Appended
<1>5. Uncalled(0)' = v
  OBVIOUS
<1> HIDE DEF u, v
<1>6. InOrder'
  <2>1. /\ \A i, j \in DOMAIN u : i < j => u[i] < u[j]
        /\ \A i \in DOMAIN log : log[i].c = 0 =>
             /\ \A j \in DOMAIN log : i < j /\ log[j].c = 0 => log[i].r < log[j].r
             /\ \A j \in DOMAIN u : log[i].r < u[j]
    BY <1>0 DEF OnceEach, InOrder, u
  <2>2. \A i \in DOMAIN v : i \in 1..Len(u) \/ i = Len(u) + 1
    BY <1>1, <1>4
  <2>3. ASSUME NEW i \in DOMAIN v, NEW j \in DOMAIN v, i < j PROVE v[i] < v[j]
    <3>1. i \in 1..Len(u)
      BY <1>1, <1>4, <2>3
    <3>2. CASE j \in 1..Len(u)
      BY <1>1, <1>4, <2>1, <2>3, <3>1, <3>2
    <3>3. CASE j = Len(u) + 1
      BY <1>2, <1>4, <3>1, <3>3
    <3> QED BY <2>2, <3>2, <3>3
  <2>4. \A i \in DOMAIN log : log[i].c = 0 => \A j \in DOMAIN v : log[i].r < v[j]
    BY <1>1, <1>3, <1>4, <2>1, <2>2
  <2>5. ASSUME NEW h \in Holders
        PROVE  /\ \A i, j \in DOMAIN Uncalled(h)' :
                    i < j => Uncalled(h)'[i] < Uncalled(h)'[j]
               /\ \A i \in DOMAIN log : log[i].c = h =>
                    /\ \A j \in DOMAIN log : i < j /\ log[j].c = h => log[i].r < log[j].r
                    /\ \A j \in DOMAIN Uncalled(h)' : log[i].r < Uncalled(h)'[j]
    <3>1. CASE h = 0
      BY <1>5, <2>1, <2>3, <2>4, <3>1
    <3>2. CASE h \in Conns
      BY <3>2 DEF OnceEach, InOrder
    <3> QED BY <1>0, <3>1, <3>2
  <2> QED BY <2>5 DEF InOrder
<1>7. \A h \in Holders : \A r \in Rids : Holds(h, r)' <=> Holds(h, r) \/ (h = 0 /\ r = r0)
  <2>1. ASSUME NEW r \in Rids PROVE Contains(v, r) <=> Contains(u, r) \/ r = r0
    <3>1. \A i \in 1..Len(v) : i \in 1..Len(u) \/ i = Len(u) + 1
      BY <1>1, <1>4
    <3>2. \A i \in 1..Len(u) : i \in 1..Len(v)
      BY <1>1, <1>4
    <3>3. Len(u) + 1 \in 1..Len(v)
      BY <1>1, <1>4
    <3> QED BY <1>4, <3>1, <3>2, <3>3 DEF Contains
  <2>2. ASSUME NEW h \in Holders, NEW r \in Rids
        PROVE  Holds(h, r)' <=> Holds(h, r) \/ (h = 0 /\ r = r0)
    <3>1. Called(h, r)' <=> Called(h, r)
      BY DEF Called
    <3>2. CASE h = 0
      <4>1. Holds(h, r)' <=> Called(h, r) \/ Contains(v, r)
        BY <1>5, <3>1, <3>2 DEF Holds
      <4>2. Holds(h, r) <=> Called(h, r) \/ Contains(u, r)
        BY <3>2 DEF Holds, u
      <4> QED BY <2>1, <3>2, <4>1, <4>2
    <3>3. CASE h \in Conns
      <4>1. h # 0
        BY <3>3 DEF Conns
      <4> QED BY <3>1, <3>3, <4>1 DEF Holds
    <3> QED BY <1>0, <3>2, <3>3
  <2> QED BY <2>2
<1>8. ASSUME NEW r \in Rids
      PROVE  IF r <= nreq' THEN \E h \in Holders : \A g \in Holders : Holds(g, r)' <=> g = h
                           ELSE \A h \in Holders : ~Holds(h, r)'
  <2>0. IF r <= nreq THEN \E h \in Holders : \A g \in Holders : Holds(g, r) <=> g = h
                     ELSE \A h \in Holders : ~Holds(h, r)
    BY DEF OnceEach
  <2>1. CASE r <= nreq
    BY <1>0, <1>7, <2>0, <2>1 DEF Rids
  <2>2. CASE r = r0
    <3>1. \A h \in Holders : ~Holds(h, r)
      BY <1>0, <2>0, <2>2
    <3>2. \A g \in Holders : Holds(g, r)' <=> g = 0
      BY <1>7, <2>2, <3>1
    <3> QED BY <1>0, <2>2, <3>2
  <2>3. CASE ~(r <= nreq) /\ r # r0
    BY <1>0, <1>7, <2>0, <2>3 DEF Rids
  <2> QED BY <2>1, <2>2, <2>3
<1> QED BY <1>6, <1>8 DEF OnceEach

\* A request that the pool gives to a connection is the last of that one's: of
\* all that were sent only those after it are still the pool's.
LEMMA GivenMoves ==
    ASSUME Typed, OnceEach, log' = log, nreq' = nreq,
           NEW c \in Conns, NEW n \in 1..Len(Uncalled(0)), NEW v \in Seq(Rids),
           \A r \in Uncalled(0)[n]..nreq : Contains(Uncalled(0), r),
           Uncalled(0)' = v, Len(v) = Len(Uncalled(0)) - 1,
           \A i \in 1..Len(v) :
              v[i] = IF i < n THEN Uncalled(0)[i] ELSE Uncalled(0)[i + 1],
           Uncalled(c)' = Append(Uncalled(c), Uncalled(0)[n]),
           \A h \in Conns \ {c} : Uncalled(h)' = Uncalled(h)
    PROVE  OnceEach'
<1> DEFINE u == Uncalled(0)  p == Uncalled(c)  r0 == u[n]  q == Append(p, r0)
<1>0. /\ 0 \in Holders /\ c \in Holders /\ c # 0 /\ nreq \in Nat
      /\ \A h \in Holders : h = 0 \/ h = c \/ h \in Conns \ {c}
  <2>1. /\ 0 \in Holders /\ c \in Holders /\ c # 0
        /\ \A h \in Holders : h = 0 \/ h \in Conns
    BY DEF Holders, Conns
  <2>2. nreq \in Nat
    BY DEF Typed, TypeOK
  <2> QED BY <2>1, <2>2
<1>1. /\ u \in Seq(Rids) /\ Len(u) \in Nat /\ DOMAIN u = 1..Len(u)
      /\ \A i \in 1..Len(u) : u[i] \in Rids
      /\ p \in Seq(Rids) /\ Len(p) \in Nat /\ DOMAIN p = 1..Len(p)
      /\ \A i \in 1..Len(p) : p[i] \in Rids
  BY <1>0, UncalledType
<1>2. /\ DOMAIN v = 1..(Len(u) - 1) /\ Len(v) = Len(u) - 1 /\ n \in 1..Len(u)
      /\ \A i \in 1..(Len(u) - 1) : v[i] = IF i < n THEN u[i] ELSE u[i + 1]
      /\ \A r \in r0..nreq : Contains(u, r)
  BY LenProperties
<1>3. \A h \in Holders : \A i, j \in DOMAIN Uncalled(h) : i < j => Uncalled(h)[i] < Uncalled(h)[j]
  BY DEF OnceEach, InOrder
<1>4. \A h \in Holders : \A i \in DOMAIN log : log[i].c = h =>
        /\ \A j \in DOMAIN log : i < j /\ log[j].c = h => log[i].r < log[j].r
        /\ \A j \in DOMAIN Uncalled(h) : log[i].r < Uncalled(h)[j]
  BY DEF OnceEach, InOrder
<1>5. /\ Holds(0, r0) /\ r0 <= nreq
      /\ \A i \in 1..Len(p) : Holds(c, p[i]) /\ p[i] <= nreq
      /\ \A i \in DOMAIN log : log[i].c = c => Holds(c, log[i].r) /\ log[i].r <= nreq
  BY <1>0, HoldsIs
<1>6. \A i \in DOMAIN log : log[i].r \in Rids
  <2>1. /\ DOMAIN log = 1..Len(log)
        /\ \A i \in 1..Len(log) : log[i] \in [r : Rids, a : Rids \cup {0}, c : Holders]
    BY LenProperties, ElementOfSeq DEF Typed
  <2> QED BY <2>1
<1>7. r0 \in Rids
  BY <1>1, <1>2
<1>8. /\ DOMAIN q = 1..(Len(p) + 1) /\ Len(q) = Len(p) + 1
      /\ \A i \in 1..Len(p) : q[i] = p[i]
      /\ q[Len(p) + 1] = r0
  <2> HIDE DEF p, r0
  <2> QED BY <1>1, <1>7, Appended
<1>9. Uncalled(c)' = q /\ Uncalled(0)' = v
  OBVIOUS
<1>10. \A r \in Rids : r <= nreq =>
          \E h \in Holders : \A g \in Holders : Holds(g, r) <=> g = h
  BY DEF OnceEach
<1>11. \A r \in Rids : Contains(u, r) => Holds(0, r)
  BY DEF Holds
<1> HIDE DEF u, p, q, r0
\* c holds only older ones.
<1>12. ASSUME NEW r \in Rids, Holds(c, r), r <= nreq PROVE r < r0
  <2>1. ~Holds(0, r)
    BY <1>0, <1>10, <1>12
  <2>2. ~(r \in r0..nreq)
    BY <1>2, <1>11, <2>1
  <2> QED BY <1>0, <1>7, <1>12, <2>2 DEF Rids
<1>13. InOrder'
  <2>1. \A i, j \in DOMAIN v : i < j => v[i] < v[j]
    <3>1. \A i, j \in DOMAIN u : i < j => u[i] < u[j]
      BY <1>0, <1>3 DEF u
    <3>2. ASSUME NEW i \in DOMAIN v, NEW j \in DOMAIN v, i < j PROVE v[i] < v[j]
      <4>1. /\ i \in DOMAIN u /\ j \in DOMAIN u /\ i + 1 \in DOMAIN u /\ j + 1 \in DOMAIN u
            /\ i \in 1..(Len(u) - 1) /\ j \in 1..(Len(u) - 1)
            /\ i < j + 1 /\ i + 1 < j + 1 /\ i \in Int /\ j \in Int /\ n \in Int
        BY <1>1, <1>2, <3>2
      <4>2. u[i] < u[j] /\ u[i] < u[j + 1] /\ u[i + 1] < u[j + 1]
        BY <3>1, <3>2, <4>1
      <4>3. j < n => i < n
        BY <3>2, <4>1
      <4> QED BY <1>2, <4>1, <4>2, <4>3
    <3> QED BY <3>2
  <2>2. \A i \in DOMAIN log : log[i].c = 0 => \A j \in DOMAIN v : log[i].r < v[j]
    <3>1. \A i \in DOMAIN log : log[i].c = 0 => \A j \in DOMAIN u : log[i].r < u[j]
      BY <1>0, <1>4 DEF u
    <3>2. \A j \in DOMAIN v : j \in DOMAIN u /\ j + 1 \in DOMAIN u
      BY <1>1, <1>2
    <3> QED BY <1>2, <3>1, <3>2
  <2>3. \A i \in DOMAIN q : i \in 1..Len(p) \/ i = Len(p) + 1
    BY <1>1, <1>8
  <2>4. ASSUME NEW i \in DOMAIN q, NEW j \in DOMAIN q, i < j PROVE q[i] < q[j]
    <3>1. i \in 1..Len(p)
      BY <1>1, <1>8, <2>4
    <3>2. CASE j \in 1..Len(p)
      <4>1. \A k, l \in DOMAIN p : k < l => p[k] < p[l]
        BY <1>0, <1>3 DEF p
      <4> QED BY <1>1, <1>8, <2>4, <3>1, <3>2, <4>1
    <3>3. CASE j = Len(p) + 1
      <4>1. p[i] \in Rids /\ Holds(c, p[i]) /\ p[i] <= nreq
        BY <1>1, <1>5, <3>1
      <4>2. p[i] < r0
        BY <1>12, <4>1
      <4> QED BY <1>8, <3>1, <3>3, <4>2
    <3> QED BY <2>3, <3>2, <3>3
  <2>5. ASSUME NEW i \in DOMAIN log, log[i].c = c, NEW j \in DOMAIN q PROVE log[i].r < q[j]
    <3>1. CASE j \in 1..Len(p)
      <4>1. log[i].r < p[j]
        BY <1>0, <1>1, <1>4, <2>5, <3>1 DEF p
      <4> QED BY <1>8, <3>1, <4>1
    <3>2. CASE j = Len(p) + 1
      <4>1. log[i].r \in Rids /\ Holds(c, log[i].r) /\ log[i].r <= nreq
        BY <1>5, <1>6, <2>5
      <4>2. log[i].r < r0
        BY <1>12, <4>1
      <4> QED BY <1>8, <3>2, <4>2
    <3> QED BY <2>3, <3>1, <3>2
  <2>6. ASSUME NEW h \in Holders
        PROVE  /\ \A i, j \in DOMAIN Uncalled(h)' :
                    i < j => Uncalled(h)'[i] < Uncalled(h)'[j]
               /\ \A i \in DOMAIN log : log[i].c = h =>
                    /\ \A j \in DOMAIN log : i < j /\ log[j].c = h => log[i].r < log[j].r
                    /\ \A j \in DOMAIN Uncalled(h)' : log[i].r < Uncalled(h)'[j]
    <3>0. \A i \in DOMAIN log : log[i].c = h =>
             \A j \in DOMAIN log : i < j /\ log[j].c = h => log[i].r < log[j].r
      BY <1>4
    <3>1. CASE h = 0
      BY <1>9, <2>1, <2>2, <3>0, <3>1
    <3>2. CASE h = c
      BY <1>9, <2>4, <2>5, <3>0, <3>2
    <3>3. CASE h \in Conns \ {c}
      BY <1>3, <1>4, <3>0, <3>3
    <3> QED BY <1>0, <3>1, <3>2, <3>3
  <2> QED BY <2>6 DEF InOrder
<1>14. ASSUME NEW r \in Rids, r # r0 PROVE Contains(v, r) <=> Contains(u, r)
  <2>1. Contains(v, r) => Contains(u, r)
    <3>1. \A i \in 1..Len(v) : i \in 1..Len(u) /\ i + 1 \in 1..Len(u) /\ i \in 1..(Len(u) - 1)
      BY <1>1, <1>2
    <3> QED BY <1>2, <3>1 DEF Contains
  <2>2. ASSUME NEW i \in 1..Len(u), u[i] = r PROVE Contains(v, r)
    <3>1. i # n
      BY <1>14, <2>2 DEF r0
    <3>2. CASE i < n
      <4>1. i \in 1..(Len(u) - 1) /\ i \in 1..Len(v)
        BY <1>1, <1>2, <3>2
      <4> QED BY <1>2, <2>2, <3>2, <4>1 DEF Contains
    <3>3. CASE i > n
      <4>1. /\ i - 1 \in 1..(Len(u) - 1) /\ i - 1 \in 1..Len(v) /\ ~(i - 1 < n)
            /\ (i - 1) + 1 = i
        BY <1>1, <1>2, <3>3
      <4>2. v[i - 1] = u[i]
        BY <1>2, <4>1
      <4> QED BY <2>2, <4>1, <4>2 DEF Contains
    <3> QED BY <1>2, <3>1, <3>2, <3>3
  <2> QED BY <2>1, <2>2 DEF Contains
<1>15. ~Contains(v, r0)
  <2>1. \A i, j \in DOMAIN u : i < j => u[i] < u[j]
    BY <1>0, <1>3 DEF u
  <2>2. ASSUME NEW i \in 1..Len(v) PROVE v[i] # r0
    <3>1. /\ i \in DOMAIN u /\ i + 1 \in DOMAIN u /\ n \in DOMAIN u /\ i \in 1..(Len(u) - 1)
          /\ i < n \/ n < i + 1
      BY <1>1, <1>2
    <3>2. u[i] \in Int /\ u[i + 1] \in Int /\ r0 \in Int
      BY <1>1, <1>7, <3>1 DEF Rids
    <3>3. CASE i < n
      BY <1>2, <2>1, <3>1, <3>2, <3>3 DEF r0
    <3>4. CASE ~(i < n)
      BY <1>2, <2>1, <3>1, <3>2, <3>4 DEF r0
    <3> QED BY <3>3, <3>4
  <2> QED BY <2>2 DEF Contains
<1>16. ~Called(0, r0)
  <2>1. \A i \in DOMAIN log : log[i].c = 0 => log[i].r < r0
    BY <1>0, <1>1, <1>2, <1>4 DEF u, r0
  <2>2. \A i \in DOMAIN log : log[i].c = 0 => log[i].r # r0
    BY <1>6, <1>7, <2>1 DEF Rids
  <2> QED BY <2>2 DEF Called
<1>17. ASSUME NEW r \in Rids PROVE Contains(q, r) <=> Contains(p, r) \/ r = r0
  <2>1. \A i \in 1..Len(q) : i \in 1..Len(p) \/ i = Len(p) + 1
    BY <1>1, <1>8
  <2>2. \A i \in 1..Len(p) : i \in 1..Len(q)
    BY <1>1, <1>8
  <2>3. Len(p) + 1 \in 1..Len(q)
    BY <1>1, <1>8
  <2> QED BY <1>8, <2>1, <2>2, <2>3 DEF Contains
<1>18. ASSUME NEW h \in Holders, NEW r \in Rids
       PROVE  Holds(h, r)' <=> IF r = r0 THEN h = c ELSE Holds(h, r)
  <2>1. Called(h, r)' <=> Called(h, r)
    BY DEF Called
  <2>2. CASE h = 0
    <3>1. Holds(h, r)' <=> Called(0, r) \/ Contains(v, r)
      BY <1>9, <2>1, <2>2 DEF Holds
    <3>2. Holds(0, r) <=> Called(0, r) \/ Contains(u, r)
      BY DEF Holds, u
    <3> QED BY <1>0, <1>14, <1>15, <1>16, <2>2, <3>1, <3>2
  <2>3. CASE h = c
    <3>1. Holds(h, r)' <=> Called(c, r) \/ Contains(q, r)
      BY <1>9, <2>1, <2>3 DEF Holds
    <3>2. Holds(c, r) <=> Called(c, r) \/ Contains(p, r)
      BY DEF Holds, p
    <3> QED BY <1>17, <2>3, <3>1, <3>2
  <2>4. CASE h \in Conns \ {c}
    <3>1. Holds(h, r)' <=> Holds(h, r)
      BY <2>1, <2>4 DEF Holds
    <3>2. h # 0 /\ h # c
      BY <2>4 DEF Conns
    <3>3. ~Holds(h, r0)
      BY <1>0, <1>5, <1>7, <1>10, <3>2
    <3> QED BY <3>1, <3>2, <3>3
  <2> QED BY <1>0, <2>2, <2>3, <2>4
<1>19. ASSUME NEW r \in Rids
       PROVE  IF r <= nreq' THEN \E h \in Holders : \A g \in Holders : Holds(g, r)' <=> g = h
                            ELSE \A h \in Holders : ~Holds(h, r)'
  <2>0. IF r <= nreq THEN \E h \in Holders : \A g \in Holders : Holds(g, r) <=> g = h
                     ELSE \A h \in Holders : ~Holds(h, r)
    BY DEF OnceEach
  <2>1. CASE r = r0
    BY <1>0, <1>5, <1>18, <2>1
  <2>2. CASE r # r0
    BY <1>18, <2>0, <2>2
  <2> QED BY <2>1, <2>2
<1> QED BY <1>13, <1>19 DEF OnceEach

\* A call moves the front of what its holder has to call back to the log.
LEMMA CallMoves ==
    ASSUME Typed, OnceEach, nreq' = nreq, NEW k \in Holders, NEW a \in Rids \cup {0},
           Uncalled(k) # <<>>, Uncalled(k)' = Tail(Uncalled(k)),
           log' = Append(log, [r |-> Uncalled(k)[1], a |-> a, c |-> k]),
           \A h \in Holders \ {k} : Uncalled(h)' = Uncalled(h)
    PROVE  OnceEach'
<1> DEFINE u == Uncalled(k)  v == Tail(u)  L == Len(log) + 1
           call == [r |-> u[1], a |-> a, c |-> k]
           K == [r : Rids, a : Rids \cup {0}, c : Holders]
<1>1. /\ u \in Seq(Rids) /\ Len(u) \in Nat /\ DOMAIN u = 1..Len(u)
      /\ \A i \in 1..Len(u) : u[i] \in Rids
  BY UncalledType
<1>2. /\ Len(u) >= 1 /\ v \in Seq(Rids) /\ Len(v) = Len(u) - 1
      /\ DOMAIN v = 1..(Len(u) - 1)
      /\ \A i \in 1..(Len(u) - 1) : i + 1 \in DOMAIN u /\ v[i] = u[i + 1]
  <2>1. u # <<>>
    OBVIOUS
  <2> HIDE DEF u
  <2> QED BY <1>1, <2>1, Popped
<1>3. 1 \in DOMAIN u /\ u[1] \in Rids
  BY <1>1, <1>2
<1>4. call \in K
  BY <1>3
<1>5. /\ log \in Seq(K) /\ Len(log) \in Nat /\ DOMAIN log = 1..Len(log)
      /\ log' = Append(log, call)
  BY LenProperties DEF Typed
<1>6. /\ DOMAIN log' = 1..L /\ \A i \in 1..Len(log) : log'[i] = log[i]
      /\ log'[L] = call
  <2> HIDE DEF call, K
  <2> QED BY <1>4, <1>5, Appended
<1>7. /\ log'[L].c = k /\ log'[L].r = u[1]
      /\ \A i \in DOMAIN log' : i \in DOMAIN log \/ i = L
      /\ \A i \in DOMAIN log : i \in DOMAIN log' /\ log'[i] = log[i] /\ i < L
      /\ L \in DOMAIN log'
  BY <1>5, <1>6
<1>8. Uncalled(k)' = v
  OBVIOUS
<1>9. \A i, j \in DOMAIN u : i < j => u[i] < u[j]
  BY DEF OnceEach, InOrder
<1>10. \A i \in DOMAIN log : log[i].c = k => \A j \in DOMAIN u : log[i].r < u[j]
  BY DEF OnceEach, InOrder
<1>11. \A h \in Holders : \A i, j \in DOMAIN log :
          log[i].c = h /\ log[j].c = h /\ i < j => log[i].r < log[j].r
  BY DEF OnceEach, InOrder
<1>12. \A h \in Holders : \A i \in DOMAIN log : log[i].c = h =>
          \A j \in DOMAIN Uncalled(h) : log[i].r < Uncalled(h)[j]
  BY DEF OnceEach, InOrder
<1>13. \A h \in Holders : \A i, j \in DOMAIN Uncalled(h) :
          i < j => Uncalled(h)[i] < Uncalled(h)[j]
  BY DEF OnceEach, InOrder
<1> HIDE DEF u, v, call, K, L
<1>14. \A i, j \in DOMAIN v : i < j => v[i] < v[j]
  <2>1. ASSUME NEW i \in DOMAIN v, NEW j \in DOMAIN v, i < j PROVE v[i] < v[j]
    <3>1. /\ i \in 1..(Len(u) - 1) /\ j \in 1..(Len(u) - 1)
          /\ i + 1 \in DOMAIN u /\ j + 1 \in DOMAIN u /\ i + 1 < j + 1
      BY <1>1, <1>2, <2>1
    <3>2. v[i] = u[i + 1] /\ v[j] = u[j + 1]
      BY <1>2, <3>1
    <3> QED BY <1>9, <3>1, <3>2
  <2> QED BY <2>1
<1>15. ASSUME NEW h \in Holders, NEW i \in DOMAIN log', NEW j \in DOMAIN log',
              log'[i].c = h, log'[j].c = h, i < j
       PROVE  log'[i].r < log'[j].r
  <2>1. i \in DOMAIN log
    BY <1>5, <1>6, <1>7, <1>15
  <2>2. CASE j \in DOMAIN log
    BY <1>7, <1>11, <1>15, <2>1, <2>2
  <2>3. CASE j = L
    BY <1>3, <1>7, <1>10, <1>15, <2>1, <2>3
  <2> QED BY <1>7, <2>2, <2>3
<1>16. ASSUME NEW i \in DOMAIN log', log'[i].c = k, NEW j \in DOMAIN v
       PROVE  log'[i].r < v[j]
  <2>1. j \in 1..(Len(u) - 1) /\ j + 1 \in DOMAIN u /\ v[j] = u[j + 1] /\ 1 < j + 1
    BY <1>1, <1>2
  <2>2. CASE i \in DOMAIN log
    BY <1>7, <1>10, <1>16, <2>1, <2>2
  <2>3. CASE i = L
    BY <1>3, <1>7, <1>9, <2>1, <2>3
  <2> QED BY <1>7, <2>2, <2>3
<1>17. ASSUME NEW h \in Holders \ {k}, NEW i \in DOMAIN log', log'[i].c = h,
              NEW j \in DOMAIN Uncalled(h)
       PROVE  log'[i].r < Uncalled(h)[j]
  <2>1. i \in DOMAIN log /\ log'[i] = log[i]
    BY <1>7, <1>17
  <2> QED BY <1>12, <1>17, <2>1
<1>18. InOrder'
  <2>1. ASSUME NEW h \in Holders
        PROVE  /\ \A i, j \in DOMAIN Uncalled(h)' :
                    i < j => Uncalled(h)'[i] < Uncalled(h)'[j]
               /\ \A i \in DOMAIN log' : log'[i].c = h =>
                    /\ \A j \in DOMAIN log' : i < j /\ log'[j].c = h => log'[i].r < log'[j].r
                    /\ \A j \in DOMAIN Uncalled(h)' : log'[i].r < Uncalled(h)'[j]
    <3>1. CASE h = k
      BY <1>8, <1>14, <1>15, <1>16, <3>1
    <3>2. CASE h # k
      BY <1>13, <1>15, <1>17, <3>2
    <3> QED BY <3>1, <3>2
  <2> QED BY <2>1 DEF InOrder
<1>19. ASSUME NEW h \in Holders, NEW r \in Rids
       PROVE  Holds(h, r)' <=> Holds(h, r)
  <2>1. Called(h, r)' <=> Called(h, r) \/ (h = k /\ r = u[1])
    BY <1>7 DEF Called
  <2>2. CASE h = k
    <3>1. Contains(u, r) <=> r = u[1] \/ Contains(v, r)
      <4>1. \A i \in 1..Len(v) : i + 1 \in 1..Len(u) /\ v[i] = u[i + 1]
        BY <1>1, <1>2
      <4>2. \A i \in 1..Len(u) : i = 1 \/ (i - 1 \in 1..Len(v) /\ v[i - 1] = u[i])
        <5>1. \A i \in 1..Len(u) : i # 1 => i - 1 \in 1..(Len(u) - 1) /\ (i - 1) + 1 = i
          BY <1>1, <1>2
        <5> QED BY <1>2, <5>1
      <4>3. 1 \in 1..Len(u)
        BY <1>1, <1>3
      <4> QED BY <4>1, <4>2, <4>3 DEF Contains
    <3>2. Holds(h, r)' <=> Called(h, r)' \/ Contains(v, r)
      BY <1>8, <2>2 DEF Holds
    <3>3. Holds(h, r) <=> Called(h, r) \/ Contains(u, r)
      BY <2>2 DEF Holds, u
    <3> QED BY <2>1, <2>2, <3>1, <3>2, <3>3
  <2>3. CASE h # k
    <3>1. Uncalled(h)' = Uncalled(h)
      BY <2>3
    <3> QED BY <2>1, <2>3, <3>1 DEF Holds
  <2> QED BY <2>2, <2>3
<1> QED BY <1>18, <1>19 DEF OnceEach

\* Equations of queues: an element that goes from the front of one queue to the
\* end of the queue before it, one added to the last, one taken off the first.
LEMMA PassedOn ==
    ASSUME NEW S, NEW s \in Seq(S), NEW t \in Seq(S), t # <<>>
    PROVE  Append(s, Head(t)) \o Tail(t) = s \o t
<1> DEFINE x == Head(t)  y == Tail(t)  sx == Append(s, x)
<1>1. /\ x = t[1] /\ x \in S /\ y \in Seq(S) /\ Len(t) >= 1 /\ Len(y) = Len(t) - 1
      /\ \A i \in 1..(Len(t) - 1) : y[i] = t[i + 1]
      /\ Len(s) \in Nat /\ Len(t) \in Nat
  BY Popped, LenProperties
<1> HIDE DEF x, y
<1>2. /\ sx \in Seq(S) /\ Len(sx) = Len(s) + 1
      /\ \A i \in 1..Len(s) : sx[i] = s[i] /\ sx[Len(s) + 1] = x
  BY <1>1, AppendProperties
<1>a. \A i \in 1..Len(s) : sx[i] = s[i]
  BY <1>2
<1>b. sx[Len(s) + 1] = x
  BY <1>1, AppendProperties
<1> HIDE DEF sx
<1>3. /\ sx \o y \in Seq(S) /\ Len(sx \o y) = Len(s) + Len(t)
      /\ \A i \in 1..(Len(s) + Len(t)) :
           (sx \o y)[i] = IF i <= Len(s) + 1 THEN sx[i] ELSE y[i - (Len(s) + 1)]
  <2>1. /\ sx \o y \in Seq(S) /\ Len(sx \o y) = Len(sx) + Len(y)
        /\ \A i \in 1..(Len(sx) + Len(y)) :
             (sx \o y)[i] = IF i <= Len(sx) THEN sx[i] ELSE y[i - Len(sx)]
    BY <1>1, <1>2, ConcatProperties
  <2>2. Len(sx) + Len(y) = Len(s) + Len(t)
    BY <1>1, <1>2
  <2> QED BY <1>2, <2>1, <2>2
<1>4. /\ s \o t \in Seq(S) /\ Len(s \o t) = Len(s) + Len(t)
      /\ \A i \in 1..(Len(s) + Len(t)) :
           (s \o t)[i] = IF i <= Len(s) THEN s[i] ELSE t[i - Len(s)]
  BY ConcatProperties
<1>5. ASSUME NEW i \in 1..(Len(s) + Len(t)) PROVE (sx \o y)[i] = (s \o t)[i]
  <2>1. CASE i <= Len(s)
    BY <1>1, <1>3, <1>4, <1>a, <2>1
  <2>2. CASE i = Len(s) + 1
    <3>1. i - Len(s) = 1 /\ ~(i <= Len(s))
      BY <1>1, <2>2
    <3> QED BY <1>1, <1>3, <1>4, <1>b, <2>2, <3>1
  <2>3. CASE i > Len(s) + 1
    <3>1. /\ i - (Len(s) + 1) \in 1..(Len(t) - 1) /\ ~(i <= Len(s)) /\ ~(i <= Len(s) + 1)
          /\ (i - (Len(s) + 1)) + 1 = i - Len(s)
      BY <1>1, <2>3
    <3>2. (sx \o y)[i] = y[i - (Len(s) + 1)]
      BY <1>3, <3>1
    <3>3. y[i - (Len(s) + 1)] = t[(i - (Len(s) + 1)) + 1]
      BY <1>1, <3>1
    <3>4. (s \o t)[i] = t[i - Len(s)]
      BY <1>4, <3>1
    <3> QED BY <3>1, <3>2, <3>3, <3>4
  <2>4. i <= Len(s) \/ i = Len(s) + 1 \/ i > Len(s) + 1
    <3>1. Len(s) \in Nat /\ Len(t) \in Nat
      BY <1>1
    <3> QED BY <3>1
  <2> QED BY <2>1, <2>2, <2>3, <2>4
<1>6. sx \o y = s \o t
  BY <1>3, <1>4, <1>5, SeqEqual
<1> QED BY <1>6 DEF sx, x, y

\* An element added to the last of two queues.
LEMMA AddedLast ==
    ASSUME NEW S, NEW s \in Seq(S), NEW t \in Seq(S), NEW x \in S
    PROVE  s \o Append(t, x) = Append(s \o t, x)
<1>1. Append(t, x) = t \o <<x>>
  BY AppendIsConcat
<1>2. s \o t \in Seq(S) /\ <<x>> \in Seq(S)
  BY ConcatProperties
<1>3. Append(s \o t, x) = (s \o t) \o <<x>>
  BY <1>2, AppendIsConcat
<1> QED BY <1>1, <1>2, <1>3, ConcatAssociative

\* The front taken from the first of two queues.
LEMMA TakenFirst ==
    ASSUME NEW S, NEW s \in Seq(S), NEW t \in Seq(S), s # <<>>
    PROVE  /\ Tail(s \o t) = Tail(s) \o t /\ (s \o t)[1] = s[1] /\ s \o t # <<>>
<1> DEFINE st == s \o t
<1>1. /\ Len(s) \in Nat /\ Len(s) >= 1 /\ Len(t) \in Nat /\ Tail(s) \in Seq(S)
      /\ Len(Tail(s)) = Len(s) - 1
      /\ \A i \in 1..(Len(s) - 1) : Tail(s)[i] = s[i + 1]
  BY Popped, LenProperties
<1>2. /\ st \in Seq(S) /\ Len(st) = Len(s) + Len(t)
      /\ \A i \in 1..(Len(s) + Len(t)) : st[i] = IF i <= Len(s) THEN s[i] ELSE t[i - Len(s)]
  BY ConcatProperties
<1> HIDE DEF st
<1>3. st[1] = s[1] /\ st # <<>>
  <2>1. 1 \in 1..(Len(s) + Len(t)) /\ 1 <= Len(s)
    BY <1>1
  <2>2. Len(st) # 0
    BY <1>1, <1>2
  <2> QED BY <1>2, <2>1, <2>2, EmptySeq
<1>4. /\ Tail(st) \in Seq(S) /\ Len(Tail(st)) = Len(s) + Len(t) - 1
      /\ \A i \in 1..(Len(s) + Len(t) - 1) : Tail(st)[i] = st[i + 1]
  BY <1>1, <1>2, <1>3, Popped
<1>5. /\ Tail(s) \o t \in Seq(S) /\ Len(Tail(s) \o t) = Len(s) - 1 + Len(t)
      /\ \A i \in 1..(Len(s) - 1 + Len(t)) :
           (Tail(s) \o t)[i] = IF i <= Len(s) - 1 THEN Tail(s)[i] ELSE t[i - (Len(s) - 1)]
  <2> DEFINE y == Tail(s)
  <2>1. y \in Seq(S) /\ Len(y) = Len(s) - 1
    BY <1>1
  <2> HIDE DEF y
  <2>2. /\ y \o t \in Seq(S) /\ Len(y \o t) = Len(y) + Len(t)
        /\ \A i \in 1..(Len(y) + Len(t)) :
             (y \o t)[i] = IF i <= Len(y) THEN y[i] ELSE t[i - Len(y)]
    BY <2>1, ConcatProperties
  <2>3. /\ y \o t \in Seq(S) /\ Len(y \o t) = Len(s) - 1 + Len(t)
        /\ \A i \in 1..(Len(s) - 1 + Len(t)) :
             (y \o t)[i] = IF i <= Len(s) - 1 THEN y[i] ELSE t[i - (Len(s) - 1)]
    BY <2>1, <2>2
  <2> QED BY <2>3 DEF y
<1>6. ASSUME NEW i \in 1..(Len(s) + Len(t) - 1) PROVE Tail(st)[i] = (Tail(s) \o t)[i]
  <2>1. /\ i + 1 \in 1..(Len(s) + Len(t)) /\ i \in 1..(Len(s) - 1 + Len(t))
        /\ (i + 1) - Len(s) = i - (Len(s) - 1)
        /\ i + 1 <= Len(s) <=> i <= Len(s) - 1
        /\ i <= Len(s) - 1 => i \in 1..(Len(s) - 1)
    BY <1>1
  <2>2. Tail(st)[i] = IF i + 1 <= Len(s) THEN s[i + 1] ELSE t[(i + 1) - Len(s)]
    BY <1>2, <1>4, <2>1
  <2> QED BY <1>1, <1>5, <2>1, <2>2
<1>7. Tail(st) = Tail(s) \o t
  <2>1. Len(s) + Len(t) - 1 = Len(s) - 1 + Len(t)
    BY <1>1
  <2> DEFINE a == Tail(st)  b == Tail(s) \o t
  <2>2. /\ a \in Seq(S) /\ b \in Seq(S) /\ Len(a) = Len(b)
        /\ \A i \in 1..Len(a) : a[i] = b[i]
    BY <1>4, <1>5, <1>6, <2>1
  <2> HIDE DEF a, b
  <2>3. a = b
    BY <2>2, SeqEqual
  <2> QED BY <2>3 DEF a, b
<1> QED BY <1>3, <1>7 DEF st

\* The requests of calls or answers that are joined, added, taken off or lost.
LEMMA RidsOfJoined ==
    ASSUME NEW K, \A x \in K : x.r \in Rids, NEW s \in Seq(K), NEW t \in Seq(K)
    PROVE  RidsOf(s \o t) = RidsOf(s) \o RidsOf(t)
<1> DEFINE st == s \o t  u == RidsOf(s)  v == RidsOf(t)
<1>1. /\ Len(s) \in Nat /\ Len(t) \in Nat
      /\ u \in Seq(Rids) /\ Len(u) = Len(s) /\ \A i \in 1..Len(s) : u[i] = s[i].r
      /\ v \in Seq(Rids) /\ Len(v) = Len(t) /\ \A i \in 1..Len(t) : v[i] = t[i].r
  BY RidsOfAny, LenProperties
<1>2. /\ st \in Seq(K) /\ Len(st) = Len(s) + Len(t)
      /\ \A i \in 1..(Len(s) + Len(t)) : st[i] = IF i <= Len(s) THEN s[i] ELSE t[i - Len(s)]
  BY ConcatProperties
<1> HIDE DEF st, u, v
<1>3. /\ RidsOf(st) \in Seq(Rids) /\ Len(RidsOf(st)) = Len(s) + Len(t)
      /\ \A i \in 1..(Len(s) + Len(t)) : RidsOf(st)[i] = st[i].r
  BY <1>2, RidsOfAny
<1>4. /\ u \o v \in Seq(Rids) /\ Len(u \o v) = Len(s) + Len(t)
      /\ \A i \in 1..(Len(s) + Len(t)) :
           (u \o v)[i] = IF i <= Len(s) THEN u[i] ELSE v[i - Len(s)]
  <2>1. /\ u \o v \in Seq(Rids) /\ Len(u \o v) = Len(u) + Len(v)
        /\ \A i \in 1..(Len(u) + Len(v)) :
             (u \o v)[i] = IF i <= Len(u) THEN u[i] ELSE v[i - Len(u)]
    BY ZenonT(60), <1>1, ConcatProperties
  <2>2. Len(u) = Len(s) /\ Len(v) = Len(t)
    BY <1>1
  <2> QED BY <2>1, <2>2
<1>5. ASSUME NEW i \in 1..(Len(s) + Len(t)) PROVE RidsOf(st)[i] = (u \o v)[i]
  <2>1. CASE i <= Len(s)
    <3>1. i \in 1..Len(s)
      BY <1>1, <2>1
    <3> QED BY <1>1, <1>2, <1>3, <1>4, <2>1, <3>1
  <2>2. CASE ~(i <= Len(s))
    <3>1. i - Len(s) \in 1..Len(t)
      BY <1>1, <2>2
    <3> QED BY <1>1, <1>2, <1>3, <1>4, <2>2, <3>1
  <2> QED BY <2>1, <2>2
<1>6. RidsOf(st) = u \o v
  BY <1>3, <1>4, <1>5, SeqEqual
<1> QED BY <1>6 DEF st, u, v

\* One more.
LEMMA RidsOfAdded ==
    ASSUME NEW K, \A x \in K : x.r \in Rids, NEW s \in Seq(K), NEW y \in K
    PROVE  RidsOf(Append(s, y)) = Append(RidsOf(s), y.r)
<1>1. Append(s, y) = s \o <<y>> /\ <<y>> \in Seq(K) /\ y.r \in Rids
  BY AppendIsConcat
<1>2. RidsOf(<<y>>) = <<y.r>>
  BY DEF RidsOf
<1>3. Append(RidsOf(s), y.r) = RidsOf(s) \o <<y.r>>
  BY <1>1, RidsOfAny, AppendIsConcat
<1>4. RidsOf(s \o <<y>>) = RidsOf(s) \o RidsOf(<<y>>)
  BY <1>1, RidsOfJoined
<1> QED BY <1>1, <1>2, <1>3, <1>4

\* One taken off the front.
LEMMA RidsOfTaken ==
    ASSUME NEW K, \A x \in K : x.r \in Rids, NEW s \in Seq(K), s # <<>>
    PROVE  /\ RidsOf(Tail(s)) = Tail(RidsOf(s)) /\ RidsOf(s)[1] = Head(s).r
           /\ RidsOf(s) # <<>>
<1> DEFINE t == Tail(s)  u == RidsOf(s)
<1>1. /\ Head(s) = s[1] /\ t \in Seq(K) /\ Len(s) \in Nat /\ Len(s) >= 1
      /\ Len(t) = Len(s) - 1 /\ \A i \in 1..(Len(s) - 1) : t[i] = s[i + 1]
  BY Popped, LenProperties
<1>2. u \in Seq(Rids) /\ Len(u) = Len(s) /\ \A i \in 1..Len(s) : u[i] = s[i].r
  BY RidsOfAny
<1> HIDE DEF t, u
<1>3. u # <<>>
  BY <1>1, <1>2, EmptySeq
<1>4. /\ Tail(u) \in Seq(Rids) /\ Len(Tail(u)) = Len(s) - 1
      /\ \A i \in 1..(Len(s) - 1) : Tail(u)[i] = u[i + 1]
  BY <1>2, <1>3, Popped
<1>5. /\ RidsOf(t) \in Seq(Rids) /\ Len(RidsOf(t)) = Len(s) - 1
      /\ \A i \in 1..(Len(s) - 1) : RidsOf(t)[i] = t[i].r
  BY <1>1, RidsOfAny
<1>6. \A i \in 1..(Len(s) - 1) : i + 1 \in 1..Len(s)
  BY <1>1
<1>7. \A i \in 1..(Len(s) - 1) : RidsOf(t)[i] = Tail(u)[i]
  BY <1>1, <1>2, <1>4, <1>5, <1>6
<1>8. RidsOf(t) = Tail(u)
  BY <1>4, <1>5, <1>7, SeqEqual
<1>9. u[1] = s[1].r
  BY <1>1, <1>2
<1> QED BY <1>1, <1>3, <1>8, <1>9 DEF t, u

\* Of lists of calls.
LEMMA RidsOfCalls ==
    /\ RidsOf(<<>>) = <<>>
    /\ \A x \in Calls : x.r \in Rids
    /\ \A s \in Seq(Calls) : RidsOf(s) \in Seq(Rids) /\ Len(RidsOf(s)) = Len(s)
<1>1. RidsOf(<<>>) = <<>>
  BY DEF RidsOf
<1>2. \A x \in Calls : x.r \in Rids
  BY DEF Calls
<1>3. ASSUME NEW s \in Seq(Calls) PROVE RidsOf(s) \in Seq(Rids) /\ Len(RidsOf(s)) = Len(s)
  BY <1>2, RidsOfAny
<1> QED BY <1>1, <1>2, <1>3

\* Of the calls that close() adds for the requests of _in.
LEMMA RidsOfLost ==
    ASSUME NEW q \in Seq(Rids)
    PROVE  RidsOf([i \in DOMAIN q |-> [r |-> q[i], a |-> 0]]) = q
<1>1. q \in [1..Len(q) -> Rids] /\ DOMAIN q = 1..Len(q)
  BY LenProperties
<1>2. RidsOf([i \in DOMAIN q |-> [r |-> q[i], a |-> 0]]) = [i \in DOMAIN q |-> q[i]]
  BY DEF RidsOf
<1> QED BY <1>1, <1>2

\* Between calls nothing is to be made, and the pool holds the newest requests.
PoolRun ==
    /\ running # "call" => batch = <<>> /\ caller = 0
    /\ \A i \in 1..Len(poolOut) : poolOut[i] = nreq - Len(poolOut) + i

\* What is to be called back while no call runs.
LEMMA QuietUncalled ==
    Typed /\ batch = <<>> =>
        \A h \in Holders :
            Uncalled(h) = IF h = 0 THEN err \o poolOut ELSE RidsOf(userCb[h]) \o in[h]
<1> SUFFICES ASSUME Typed, batch = <<>>, NEW h \in Holders
             PROVE  Uncalled(h) = IF h = 0 THEN err \o poolOut ELSE RidsOf(userCb[h]) \o in[h]
  OBVIOUS
<1> DEFINE rest == IF h = 0 THEN err \o poolOut ELSE RidsOf(userCb[h]) \o in[h]
<1>1. rest \in Seq(Rids)
  <2>1. CASE h = 0
    BY <2>1, ConcatProperties DEF Typed, TypeOK
  <2>2. CASE h # 0
    <3>1. h \in Conns
      BY <2>2 DEF Holders, Conns
    <3>2. RidsOf(userCb[h]) \in Seq(Rids) /\ in[h] \in Seq(Rids)
      BY <3>1, RidsOfCalls DEF Typed, TypeOK
    <3> QED BY <2>2, <3>2, ConcatProperties
  <2> QED BY <2>1, <2>2
<1>2. Uncalled(h) = <<>> \o rest
  BY RidsOfCalls DEF Uncalled
<1> HIDE DEF rest
<1>3. <<>> \o rest = rest
  BY <1>1, ConcatEmptySeq
<1> QED BY <1>2, <1>3 DEF rest

\* A step that gives the next request to a connection or refuses it.
LEMMA SendingOnce ==
    ASSUME Typed, Typed', PoolRun, OnceEach, Chosen
    PROVE  OnceEach'
<1>1. /\ running = "send" /\ poolOut # <<>> /\ batch = <<>> /\ batch' = <<>>
      /\ nreq' = nreq /\ log' = log /\ userCb' = userCb
  BY DEF Chosen, Sending, PoolRun, callVars
<1>2. \A h \in Holders :
        Uncalled(h) = IF h = 0 THEN err \o poolOut ELSE RidsOf(userCb[h]) \o in[h]
  BY <1>1, QuietUncalled
<1>3. \A h \in Holders :
        Uncalled(h)' = IF h = 0 THEN err' \o poolOut' ELSE RidsOf(userCb[h]) \o in'[h]
  <2>1. (Typed /\ batch = <<>> =>
          \A h \in Holders :
            Uncalled(h) = IF h = 0 THEN err \o poolOut ELSE RidsOf(userCb[h]) \o in[h])'
    BY QuietUncalled, PTL
  <2> QED BY <1>1, <2>1
<1>4. /\ 0 \in Holders /\ \A h \in Conns : h \in Holders /\ h # 0
      /\ \A h \in Holders : h # 0 => h \in Conns
  BY DEF Holders, Conns
<1>5. /\ err \in Seq(Rids) /\ poolOut \in Seq(Rids) /\ nreq \in Nat
      /\ Head(poolOut) = poolOut[1] /\ Head(poolOut) \in Rids /\ Tail(poolOut) \in Seq(Rids)
      /\ Len(poolOut) >= 1 /\ Len(Tail(poolOut)) = Len(poolOut) - 1
      /\ \A i \in 1..(Len(poolOut) - 1) : Tail(poolOut)[i] = poolOut[i + 1]
      /\ Len(poolOut) \in Nat /\ Len(err) \in Nat
  BY <1>1, Popped, LenProperties DEF Typed, TypeOK
<1>6. PICK st2 \in [Conns -> Status] :
          Refuse(st2) \/ \E c \in Conns : st2[c] # "Closed" /\ Give(c, st2)
  BY DEF Chosen
<1>7. CASE Refuse(st2)
  <2>1. err' = Append(err, Head(poolOut)) /\ poolOut' = Tail(poolOut) /\ in' = in
    BY <1>7 DEF Refuse
  <2>2. err' \o poolOut' = err \o poolOut
    BY <1>1, <1>5, <2>1, PassedOn
  <2>3. \A h \in Holders : Uncalled(h)' = Uncalled(h)
    BY <1>2, <1>3, <2>1, <2>2
  <2> QED BY <1>1, <2>3, NothingMoves
<1>8. ASSUME NEW c \in Conns, Give(c, st2) PROVE OnceEach'
  <2> DEFINE u == err \o poolOut  v == err \o Tail(poolOut)  n == Len(err) + 1
  <2>1. /\ poolOut' = Tail(poolOut) /\ err' = err
        /\ in' = [in EXCEPT ![c] = Append(in[c], Head(poolOut))]
    BY <1>8 DEF Give
  <2>2. /\ u \in Seq(Rids) /\ Len(u) = Len(err) + Len(poolOut)
        /\ \A i \in 1..(Len(err) + Len(poolOut)) :
             u[i] = IF i <= Len(err) THEN err[i] ELSE poolOut[i - Len(err)]
    BY <1>5, ConcatProperties
  <2>3. /\ v \in Seq(Rids) /\ Len(v) = Len(err) + Len(poolOut) - 1
        /\ \A i \in 1..(Len(err) + Len(poolOut) - 1) :
             v[i] = IF i <= Len(err) THEN err[i] ELSE Tail(poolOut)[i - Len(err)]
    <3> DEFINE t == Tail(poolOut)
    <3>1. t \in Seq(Rids) /\ Len(t) = Len(poolOut) - 1
      BY <1>5
    <3> HIDE DEF t
    <3>2. /\ err \o t \in Seq(Rids) /\ Len(err \o t) = Len(err) + Len(t)
          /\ \A i \in 1..(Len(err) + Len(t)) :
               (err \o t)[i] = IF i <= Len(err) THEN err[i] ELSE t[i - Len(err)]
      BY ZenonT(60), <1>5, <3>1, ConcatProperties
    <3>3. Len(err) + Len(t) = Len(err) + Len(poolOut) - 1
      BY <1>5, <3>1
    <3> QED BY <3>2, <3>3 DEF t
  <2>4. Uncalled(0) = u /\ Uncalled(0)' = v
    BY <1>2, <1>3, <1>4, <2>1
  <2> HIDE DEF u, v
  <2>5. n \in 1..Len(u) /\ u[n] = Head(poolOut)
    <3>1. n \in 1..(Len(err) + Len(poolOut)) /\ ~(n <= Len(err)) /\ n - Len(err) = 1
      BY <1>5
    <3> QED BY <1>5, <2>2, <3>1
  <2>6. ASSUME NEW r \in u[n]..nreq PROVE Contains(u, r)
    <3> DEFINE i == r - nreq + Len(poolOut)
    <3>1. \A j \in 1..Len(poolOut) : poolOut[j] = nreq - Len(poolOut) + j
      BY DEF PoolRun
    <3>2. u[n] = nreq - Len(poolOut) + 1
      BY <1>5, <2>5, <3>1
    <3>3. i \in 1..Len(poolOut) /\ nreq - Len(poolOut) + i = r
      BY <1>5, <3>2
    <3>4. poolOut[i] = r
      BY <3>1, <3>3
    <3> HIDE DEF i
    <3>5. /\ i + Len(err) \in 1..(Len(err) + Len(poolOut)) /\ ~(i + Len(err) <= Len(err))
          /\ (i + Len(err)) - Len(err) = i
      BY <1>5, <3>3
    <3>6. u[i + Len(err)] = r /\ i + Len(err) \in 1..Len(u)
      BY <2>2, <3>4, <3>5
    <3> QED BY <3>6 DEF Contains
  <2>7. Len(v) = Len(u) - 1
    BY <1>5, <2>2, <2>3
  <2>8. ASSUME NEW i \in 1..Len(v) PROVE v[i] = IF i < n THEN u[i] ELSE u[i + 1]
    <3>1. i \in 1..(Len(err) + Len(poolOut) - 1)
      BY <2>3
    <3>2. CASE i < n
      <4>1. i <= Len(err) /\ i \in 1..(Len(err) + Len(poolOut))
        BY <1>5, <3>1, <3>2
      <4> QED BY <2>2, <2>3, <3>1, <3>2, <4>1
    <3>3. CASE ~(i < n)
      <4>1. /\ ~(i <= Len(err)) /\ i - Len(err) \in 1..(Len(poolOut) - 1)
            /\ i + 1 \in 1..(Len(err) + Len(poolOut)) /\ ~(i + 1 <= Len(err))
            /\ (i + 1) - Len(err) = (i - Len(err)) + 1
        BY <1>5, <3>1, <3>3
      <4>2. v[i] = Tail(poolOut)[i - Len(err)]
        BY <2>3, <3>1, <4>1
      <4>3. Tail(poolOut)[i - Len(err)] = poolOut[(i - Len(err)) + 1]
        BY <1>5, <4>1
      <4>4. u[i + 1] = poolOut[(i + 1) - Len(err)]
        BY <2>2, <4>1
      <4> QED BY <3>3, <4>1, <4>2, <4>3, <4>4
    <3> QED BY <3>2, <3>3
  <2>9. Uncalled(c)' = Append(Uncalled(c), u[n])
    <3>1. RidsOf(userCb[c]) \in Seq(Rids) /\ in[c] \in Seq(Rids)
      BY RidsOfCalls DEF Typed, TypeOK
    <3>2. in'[c] = Append(in[c], Head(poolOut))
      BY <2>1 DEF Typed, TypeOK
    <3>3. RidsOf(userCb[c]) \o Append(in[c], Head(poolOut))
            = Append(RidsOf(userCb[c]) \o in[c], Head(poolOut))
      <4> DEFINE a == RidsOf(userCb[c])  b == in[c]  r == Head(poolOut)
      <4>1. a \in Seq(Rids) /\ b \in Seq(Rids) /\ r \in Rids
        BY <1>5, <3>1
      <4> HIDE DEF a, b, r
      <4>2. a \o Append(b, r) = Append(a \o b, r)
        BY <4>1, AddedLast
      <4> QED BY <4>2 DEF a, b, r
    <3> QED BY <1>2, <1>3, <1>4, <2>5, <3>2, <3>3
  <2>10. \A h \in Conns \ {c} : Uncalled(h)' = Uncalled(h)
    <3>1. \A h \in Conns \ {c} : in'[h] = in[h]
      BY <2>1 DEF Typed, TypeOK
    <3> QED BY <1>2, <1>3, <1>4, <3>1
  <2>11. v \in Seq(Rids) /\ n \in 1..Len(Uncalled(0)) /\ Uncalled(0) = u /\ Uncalled(0)' = v
    BY <2>3, <2>4, <2>5
  <2>12. /\ \A r \in Uncalled(0)[n]..nreq : Contains(Uncalled(0), r)
         /\ Len(v) = Len(Uncalled(0)) - 1
         /\ \A i \in 1..Len(v) : v[i] = IF i < n THEN Uncalled(0)[i] ELSE Uncalled(0)[i + 1]
         /\ Uncalled(c)' = Append(Uncalled(c), Uncalled(0)[n])
    BY <2>6, <2>7, <2>8, <2>9, <2>11
  <2> HIDE DEF n
  <2> QED BY <1>1, <2>10, <2>11, <2>12, GivenMoves
<1> QED BY <1>6, <1>7, <1>8

\* Any step keeps every request in one place.
LEMMA OnceStep ==
    ASSUME Typed, Typed', PoolRun, PoolRun', OnceEach, [Next]_vars
    PROVE  OnceEach'
<1>0. /\ userCb \in [Conns -> Seq(Calls)] /\ batch \in Seq(Calls) /\ err \in Seq(Rids)
      /\ in \in [Conns -> Seq(Rids)] /\ poolOut \in Seq(Rids) /\ caller \in Holders
      /\ log \in Seq([r : Rids, a : Rids \cup {0}, c : Holders])
  BY DEF Typed, TypeOK, Holders
<1>a. /\ 0 \in Holders /\ \A h \in Conns : h \in Holders /\ h # 0
      /\ \A h \in Holders : h # 0 => h \in Conns
  BY DEF Holders, Conns
<1>b. batch = <<>> => \A h \in Holders :
        Uncalled(h) = IF h = 0 THEN err \o poolOut ELSE RidsOf(userCb[h]) \o in[h]
  BY QuietUncalled
<1>c. batch' = <<>> => \A h \in Holders :
        Uncalled(h)' = IF h = 0 THEN err' \o poolOut' ELSE RidsOf(userCb'[h]) \o in'[h]
  <2>1. (Typed /\ batch = <<>> =>
          \A h \in Holders :
            Uncalled(h) = IF h = 0 THEN err \o poolOut ELSE RidsOf(userCb[h]) \o in[h])'
    BY QuietUncalled, PTL
  <2> QED BY <2>1
<1>d. ASSUME UNCHANGED <<caller, batch, err, poolOut>>,
             \A h \in Conns : RidsOf(userCb'[h]) \o in'[h] = RidsOf(userCb[h]) \o in[h]
      PROVE  \A h \in Holders : Uncalled(h)' = Uncalled(h)
  <2>1. ASSUME NEW h \in Holders PROVE Uncalled(h)' = Uncalled(h)
    <3>1. CASE h = 0
      BY <1>d, <3>1 DEF Uncalled
    <3>2. CASE h # 0
      BY <1>a, <1>d, <3>2 DEF Uncalled
    <3> QED BY <3>1, <3>2
  <2> QED BY <2>1
<1> USE DEF poolVars, connVars, callVars, netVars
<1>1. CASE Send
  <2>1. nreq + 1 \in Rids /\ nreq' = nreq + 1 /\ log' = log /\ poolOut' = Append(poolOut, nreq + 1)
        /\ UNCHANGED <<caller, batch, err, userCb, in>>
    BY <1>1 DEF Send, Rids, Typed, TypeOK
  <2> DEFINE b == IF caller = 0 THEN RidsOf(batch) ELSE <<>>
  <2>2. b \in Seq(Rids)
    BY <1>0, RidsOfCalls, EmptySeq
  <2>3. Uncalled(0) = b \o (err \o poolOut) /\ Uncalled(0)' = b \o (err \o poolOut')
    BY <2>1 DEF Uncalled
  <2> HIDE DEF b
  <2>4. err \o Append(poolOut, nreq + 1) = Append(err \o poolOut, nreq + 1)
    BY <1>0, <2>1, AddedLast
  <2>5. b \o Append(err \o poolOut, nreq + 1) = Append(b \o (err \o poolOut), nreq + 1)
    <3> DEFINE ep == err \o poolOut  r == nreq + 1
    <3>1. ep \in Seq(Rids) /\ r \in Rids
      BY <1>0, <2>1, ConcatProperties
    <3> HIDE DEF ep, r
    <3>2. b \o Append(ep, r) = Append(b \o ep, r)
      BY <2>2, <3>1, AddedLast
    <3> QED BY <3>2 DEF ep, r
  <2>6. Uncalled(0)' = Append(Uncalled(0), nreq + 1)
    BY <2>1, <2>3, <2>4, <2>5
  <2>7. \A h \in Conns : Uncalled(h)' = Uncalled(h)
    BY <1>a, <2>1 DEF Uncalled
  <2> QED BY <2>1, <2>6, <2>7, SentMoves
<1>2. CASE PoolBegin
  <2>1. UNCHANGED <<caller, batch, err, poolOut, userCb, in, log, nreq>>
    BY <1>2 DEF PoolBegin
  <2> QED BY <1>d, <2>1, NothingMoves
<1>3. CASE PickFront \/ PickActive \/ PickConnecting
  BY <1>3, PickChooses, SendingOnce
<1>4. CASE PoolCall
  <2>1. /\ running = "send" /\ poolOut = <<>> /\ caller' = 0
        /\ batch' = [i \in DOMAIN err |-> [r |-> err[i], a |-> 0]]
        /\ err' = <<>> /\ UNCHANGED <<nreq, poolOut, userCb, in, log>>
    BY <1>4 DEF PoolCall
  <2>2. batch = <<>> /\ caller = 0
    BY <2>1 DEF PoolRun
  <2>3. RidsOf(batch') = err
    BY <1>0, <2>1, RidsOfLost
  <2>4. err \o <<>> = err /\ <<>> \o <<>> = <<>>
    BY <1>0, ConcatEmptySeq
  <2>5. Uncalled(0)' = Uncalled(0)
    <3>1. Uncalled(0) = err \o <<>>
      BY <1>a, <1>b, <2>1, <2>2
    <3>2. Uncalled(0)' = RidsOf(batch') \o (<<>> \o <<>>)
      BY <2>1 DEF Uncalled
    <3> QED BY <2>3, <2>4, <3>1, <3>2
  <2>6. \A h \in Conns : Uncalled(h)' = Uncalled(h)
    BY <1>a, <2>1, <2>2 DEF Uncalled
  <2> QED BY <1>a, <2>1, <2>5, <2>6, NothingMoves
<1>5. CASE Call
  <2>1. /\ batch # <<>> /\ batch' = Tail(batch)
        /\ log' = Append(log, [r |-> Head(batch).r, a |-> Head(batch).a, c |-> caller])
        /\ UNCHANGED <<nreq, caller, err, poolOut, userCb, in>>
    BY <1>5 DEF Call
  <2>k. PICK k \in Holders : k = caller
    BY <1>0
  <2> DEFINE b == RidsOf(batch)  a == Head(batch).a
             rest == IF k = 0 THEN err \o poolOut ELSE RidsOf(userCb[k]) \o in[k]
  <2>2. /\ b \in Seq(Rids) /\ b # <<>> /\ RidsOf(batch') = Tail(b) /\ b[1] = Head(batch).r
    BY <1>0, <2>1, RidsOfCalls, RidsOfTaken
  <2>3. rest \in Seq(Rids)
    <3>1. k = 0 => rest \in Seq(Rids)
      BY <1>0, ConcatProperties
    <3>2. ASSUME k # 0 PROVE rest \in Seq(Rids)
      <4>1. RidsOf(userCb[k]) \in Seq(Rids) /\ in[k] \in Seq(Rids)
        BY <1>0, <1>a, <3>2, RidsOfCalls
      <4> QED BY <3>2, <4>1, ConcatProperties
    <3> QED BY <3>1, <3>2
  <2>4. Uncalled(k) = b \o rest
    BY <2>k DEF Uncalled
  <2>5. Uncalled(k)' = Tail(b) \o rest
    <3>1. Uncalled(k)' = RidsOf(batch') \o rest
      BY <2>1, <2>k DEF Uncalled
    <3> QED BY <2>2, <3>1
  <2> HIDE DEF b, rest
  <2>6. /\ Tail(b \o rest) = Tail(b) \o rest /\ (b \o rest)[1] = b[1] /\ b \o rest # <<>>
    BY <2>2, <2>3, TakenFirst
  <2>7. /\ Uncalled(k) # <<>> /\ Uncalled(k)' = Tail(Uncalled(k))
        /\ log' = Append(log, [r |-> Uncalled(k)[1], a |-> a, c |-> k])
    BY <2>1, <2>2, <2>4, <2>5, <2>6, <2>k
  <2>8. a \in Rids \cup {0}
    <3>1. Head(batch) \in Calls
      BY <1>0, <2>1, Popped
    <3> QED BY <3>1 DEF Calls
  <2>9. \A h \in Holders \ {k} : Uncalled(h)' = Uncalled(h)
    BY <2>1, <2>k DEF Uncalled
  <2>10. nreq' = nreq
    BY <2>1
  <2> HIDE DEF a
  <2> QED BY <2>7, <2>8, <2>9, <2>10, CallMoves
<1>6. CASE CallEnd
  <2>1. /\ batch = <<>> /\ batch' = <<>> /\ UNCHANGED <<nreq, log, err, poolOut, userCb, in>>
    BY <1>6 DEF CallEnd
  <2>2. \A h \in Holders : Uncalled(h)' = Uncalled(h)
    BY <1>b, <1>c, <2>1
  <2> QED BY <2>1, <2>2, NothingMoves
<1>7. ASSUME NEW c \in Conns, NEW inC \in Seq(Rids), NEW done \in Seq(Calls),
             CloseWith(c, inC, done), UNCHANGED <<nreq, poolVars, callVars>>,
             RidsOf(done) \o inC = RidsOf(userCb[c]) \o in[c]
      PROVE  OnceEach'
  <2> DEFINE lost == [i \in DOMAIN inC |-> [r |-> inC[i], a |-> 0]]
  <2>1. userCb' = [userCb EXCEPT ![c] = done \o lost] /\ in' = [in EXCEPT ![c] = <<>>]
    BY <1>7 DEF CloseWith
  <2>2. lost \in Seq(Calls) /\ RidsOf(lost) = inC
    BY FailedType, RidsOfLost
  <2> HIDE DEF lost
  <2>3. RidsOf(done \o lost) = RidsOf(done) \o inC
    BY <2>2, RidsOfCalls, RidsOfJoined
  <2>4. (RidsOf(done) \o inC) \o <<>> = RidsOf(done) \o inC
    <3>1. RidsOf(done) \o inC \in Seq(Rids)
      BY RidsOfCalls, ConcatProperties
    <3> QED BY <3>1, ConcatEmptySeq
  <2>5. \A h \in Conns : RidsOf(userCb'[h]) \o in'[h] = RidsOf(userCb[h]) \o in[h]
    BY <1>0, <1>7, <2>1, <2>3, <2>4
  <2> QED BY <1>7, <1>d, <2>5, NothingMoves
<1>8. ASSUME NEW c \in Conns, NotConnected(c) \/ NetworkError(c) \/ Timeout(c)
      PROVE  OnceEach'
  <2>1. CloseWith(c, in[c], userCb[c]) /\ UNCHANGED <<nreq, poolVars, callVars>>
    BY <1>8 DEF NotConnected, NetworkError, Timeout, Close
  <2>2. in[c] \in Seq(Rids) /\ userCb[c] \in Seq(Calls)
    BY <1>0
  <2> QED BY <1>7, <2>1, <2>2
<1>9. ASSUME NEW c \in Conns, CbWrite(c) \/ Answer(c) PROVE OnceEach'
  <2>1. UNCHANGED <<caller, batch, err, poolOut, userCb, in, log, nreq>>
    BY <1>9 DEF CbWrite, Answer
  <2> QED BY <1>d, <2>1, NothingMoves
<1>10. ASSUME NEW c \in Conns, CbRead(c) PROVE OnceEach'
  <2> DEFINE a == Head(resp[c])  call == [r |-> Head(in[c]), a |-> a.r]
             done == Append(userCb[c], call)
  <2>1. /\ IF a.keep
           THEN /\ in' = [in EXCEPT ![c] = Tail(@)]
                /\ userCb' = [userCb EXCEPT ![c] = done]
           ELSE CloseWith(c, Tail(in[c]), done)
        /\ UNCHANGED <<nreq, poolVars, callVars>>
        /\ resp[c] # <<>> /\ in[c] # <<>>
    BY <1>10 DEF CbRead
  <2>2. a \in [r : Rids, keep : BOOLEAN]
    <3>1. resp[c] \in Seq([r : Rids, keep : BOOLEAN])
      BY DEF Typed
    <3> QED BY <2>1, <3>1, Popped
  <2>3. Head(in[c]) \in Rids /\ Tail(in[c]) \in Seq(Rids)
    BY <1>0, <2>1, Popped
  <2>4. call \in Calls /\ call.r = Head(in[c])
    BY <2>2, <2>3 DEF Calls
  <2> HIDE DEF call
  <2>5. done \in Seq(Calls) /\ RidsOf(done) = Append(RidsOf(userCb[c]), Head(in[c]))
    <3>1. userCb[c] \in Seq(Calls)
      BY <1>0
    <3> QED BY <2>4, <3>1, RidsOfCalls, RidsOfAdded, AppendProperties
  <2> HIDE DEF done
  <2>6. RidsOf(done) \o Tail(in[c]) = RidsOf(userCb[c]) \o in[c]
    <3> DEFINE u == RidsOf(userCb[c])  q == in[c]
    <3>1. u \in Seq(Rids) /\ q \in Seq(Rids) /\ q # <<>>
      BY <1>0, <2>1, RidsOfCalls
    <3> HIDE DEF u, q
    <3>2. Append(u, Head(q)) \o Tail(q) = u \o q
      BY <3>1, PassedOn
    <3> QED BY <2>5, <3>2 DEF u, q
  <2>7. CASE a.keep
    <3>1. in' = [in EXCEPT ![c] = Tail(in[c])] /\ userCb' = [userCb EXCEPT ![c] = done]
      BY <2>1, <2>7
    <3>2. \A h \in Conns : RidsOf(userCb'[h]) \o in'[h] = RidsOf(userCb[h]) \o in[h]
      BY <1>0, <2>6, <3>1
    <3> QED BY <1>d, <2>1, <3>2, NothingMoves
  <2>8. CASE ~a.keep
    <3>1. CloseWith(c, Tail(in[c]), done)
      BY <2>1, <2>8
    <3> QED BY <1>7, <2>1, <2>3, <2>5, <2>6, <3>1
  <2> QED BY <2>7, <2>8
<1>11. ASSUME NEW c \in Conns, CbPrepare(c) PROVE OnceEach'
  <2>1. /\ running = "no" /\ caller' = c /\ batch' = userCb[c]
        /\ userCb' = [userCb EXCEPT ![c] = <<>>]
        /\ UNCHANGED <<nreq, err, poolOut, in, log>>
    BY <1>11 DEF CbPrepare
  <2>2. batch = <<>> /\ caller = 0
    BY <2>1 DEF PoolRun
  <2>3. RidsOf(userCb'[c]) = <<>> /\ \A h \in Conns \ {c} : userCb'[h] = userCb[h]
    BY <1>0, <2>1, RidsOfCalls
  <2>4. in[c] \in Seq(Rids) /\ RidsOf(userCb[c]) \in Seq(Rids)
    BY <1>0, RidsOfCalls
  <2>5. Uncalled(c)' = Uncalled(c)
    <3>1. Uncalled(c)' = RidsOf(userCb[c]) \o (<<>> \o in[c])
      BY <1>a, <2>1, <2>3 DEF Uncalled
    <3>2. <<>> \o in[c] = in[c]
      BY <2>4, ConcatEmptySeq
    <3> QED BY <1>a, <1>b, <2>2, <3>1, <3>2
  <2>6. ASSUME NEW h \in Holders, h # c PROVE Uncalled(h)' = Uncalled(h)
    <3> DEFINE rest == IF h = 0 THEN err \o poolOut ELSE RidsOf(userCb[h]) \o in[h]
    <3>1. Uncalled(h)' = <<>> \o rest
      <4>1. h # 0 => userCb'[h] = userCb[h]
        BY <1>a, <2>3, <2>6
      <4>2. Uncalled(h)' = <<>> \o (IF h = 0 THEN err \o poolOut ELSE RidsOf(userCb'[h]) \o in[h])
        <5>1. err' = err /\ poolOut' = poolOut /\ in' = in /\ caller' # h
          BY <2>1, <2>6
        <5> QED BY <5>1 DEF Uncalled
      <4>3. CASE h = 0
        BY <4>2, <4>3
      <4>4. CASE h # 0
        BY <4>1, <4>2, <4>4
      <4> QED BY <4>3, <4>4
    <3>2. Uncalled(h) = rest
      BY <1>b, <2>2
    <3>3. rest \in Seq(Rids)
      BY <3>2, UncalledType
    <3> HIDE DEF rest
    <3> QED BY <3>1, <3>2, <3>3, ConcatEmptySeq
  <2> QED BY <2>1, <2>5, <2>6, NothingMoves
<1>12. CASE UNCHANGED vars
  <2>1. UNCHANGED <<caller, batch, err, poolOut, userCb, in, log, nreq>>
    BY <1>12 DEF vars
  <2> QED BY <1>d, <2>1, NothingMoves
<1> QED
  BY <1>1, <1>2, <1>3, <1>4, <1>5, <1>6, <1>8, <1>9, <1>10, <1>11, <1>12
  DEF Next, PoolStep, CallStep, ConnStep

\* Every step keeps the newest requests in the pool.
LEMMA PoolRunStep ==
    ASSUME Typed, PoolRun, [Next]_vars
    PROVE  PoolRun'
<1> USE DEF poolVars, connVars, callVars, netVars
<1>0. /\ poolOut \in Seq(Rids) /\ Len(poolOut) \in Nat /\ nreq \in Nat
      /\ \A i \in 1..Len(poolOut) : poolOut[i] = nreq - Len(poolOut) + i
      /\ running # "call" => batch = <<>> /\ caller = 0
  BY LenProperties DEF Typed, TypeOK, PoolRun
<1>1. CASE Send
  <2>1. /\ nreq' = nreq + 1 /\ poolOut' = Append(poolOut, nreq + 1)
        /\ UNCHANGED <<running, batch, caller>> /\ nreq + 1 \in Rids
    BY <1>0, <1>1 DEF Send, Rids
  <2>2. /\ Len(poolOut') = Len(poolOut) + 1
        /\ \A i \in 1..Len(poolOut) : poolOut'[i] = poolOut[i]
        /\ poolOut'[Len(poolOut) + 1] = nreq + 1
    BY <1>0, <2>1, AppendProperties
  <2>3. ASSUME NEW i \in 1..Len(poolOut') PROVE poolOut'[i] = nreq' - Len(poolOut') + i
    <3>1. CASE i \in 1..Len(poolOut)
      BY <1>0, <2>1, <2>2, <3>1
    <3>2. CASE i = Len(poolOut) + 1
      BY <1>0, <2>1, <2>2, <3>2
    <3> QED BY <1>0, <2>2, <3>1, <3>2
  <2> QED BY <1>0, <2>1, <2>3 DEF PoolRun
<1>2. CASE PoolBegin
  BY <1>0, <1>2 DEF PoolBegin, PoolRun
<1>3. CASE PickFront \/ PickActive \/ PickConnecting
  <2>1. Chosen
    BY <1>3, PickChooses
  <2>2. poolOut # <<>> /\ UNCHANGED <<nreq, running, batch, caller>>
    BY <2>1 DEF Chosen, Sending
  <2>3. poolOut' = Tail(poolOut)
    BY <2>1 DEF Chosen, Give, Refuse
  <2>4. /\ Len(poolOut') = Len(poolOut) - 1 /\ Len(poolOut) >= 1
        /\ \A i \in 1..(Len(poolOut) - 1) : poolOut'[i] = poolOut[i + 1]
    BY <1>0, <2>2, <2>3, Popped
  <2>5. ASSUME NEW i \in 1..Len(poolOut') PROVE poolOut'[i] = nreq' - Len(poolOut') + i
    <3>1. i \in 1..(Len(poolOut) - 1) /\ i + 1 \in 1..Len(poolOut)
      BY <1>0, <2>4
    <3>2. poolOut'[i] = nreq - Len(poolOut) + (i + 1)
      BY <1>0, <2>4, <3>1
    <3> QED BY <1>0, <2>2, <2>4, <3>2
  <2> QED BY <1>0, <2>2, <2>5 DEF PoolRun
<1>4. CASE PoolCall
  BY <1>0, <1>4 DEF PoolCall, PoolRun
<1>5. CASE Call
  BY <1>0, <1>5 DEF Call, PoolRun
<1>6. CASE CallEnd
  BY <1>0, <1>6 DEF CallEnd, PoolRun
<1>7. ASSUME NEW c \in Conns, ConnStep(c) \/ Answer(c) PROVE PoolRun'
  <2>1. CASE CbPrepare(c)
    BY <1>0, <2>1 DEF CbPrepare, PoolRun
  <2>2. CASE ~CbPrepare(c)
    <3>1. UNCHANGED <<nreq, poolOut, running, batch, caller>>
      BY <1>7, <2>2
      DEF ConnStep, NotConnected, CbWrite, NetworkError, CbRead, Timeout, Answer
    <3> QED BY <1>0, <3>1 DEF PoolRun
  <2> QED BY <2>1, <2>2
<1>8. CASE UNCHANGED vars
  BY <1>0, <1>8 DEF vars, PoolRun
<1> QED
  BY <1>1, <1>2, <1>3, <1>4, <1>5, <1>6, <1>7, <1>8
  DEF Next, PoolStep, CallStep

-----------------------------------------------------------------------------
(* Watchers                                                                *)

\* Armed of one connection.
ArmedAt(c) ==
    /\ userCb[c] # <<>> => "prepare" \in w[c]
    /\ out[c] # <<>> \/ status[c] = "Connecting" => "write" \in w[c]
    /\ "response" \in w[c] <=> HasTimeout /\ in[c] # <<>>
    /\ HasTimeout /\ status[c] = "Connecting" => "connect" \in w[c]
    /\ status[c] = "Closed" => w[c] \subseteq {"prepare"} /\ in[c] = <<>> /\ out[c] = <<>>

\* Armed, connection by connection.
LEMMA ArmedIs ==
    Armed <=> /\ TypeOK
              /\ poolOut # <<>> => poolWatch \/ running = "send"
              /\ \A c \in Conns : ArmedAt(c)
  BY DEF Armed, ArmedAt

\* A connection that a step leaves alone stays armed.
LEMMA ArmedKept ==
    ASSUME NEW d \in Conns, ArmedAt(d), userCb'[d] = userCb[d], w'[d] = w[d],
           out'[d] = out[d], in'[d] = in[d], status'[d] = status[d]
    PROVE  ArmedAt(d)'
  BY DEF ArmedAt

\* So does one that connect() is called for.
LEMMA ArmedConnecting ==
    ASSUME NEW d \in Conns, ArmedAt(d), userCb'[d] = userCb[d], out'[d] = out[d],
           in'[d] = in[d], status'[d] \in Status,
           status'[d] # status[d] => status[d] = "Closed",
           w'[d] = w[d] \cup (IF status'[d] # status[d] THEN Started(status'[d]) ELSE {})
    PROVE  ArmedAt(d)'
<1>1. CASE status'[d] = status[d]
  <2>1. w'[d] = w[d]
    BY <1>1
  <2> QED BY <1>1, <2>1, ArmedKept
<1>2. CASE status'[d] # status[d]
  <2>1. status[d] = "Closed" /\ w'[d] = w[d] \cup Started(status'[d])
    BY <1>2
  <2>2. w[d] \subseteq {"prepare"} /\ in[d] = <<>> /\ out[d] = <<>>
    BY <2>1 DEF ArmedAt
  <2>3. CASE status'[d] = "Connecting"
    <3>1. w'[d] = w[d] \cup {"write"} \cup OfTimeout("connect")
      BY <2>1, <2>3 DEF Started
    <3>2. /\ "write" \in w'[d] /\ "response" \notin w'[d]
          /\ HasTimeout => "connect" \in w'[d]
      BY <2>2, <3>1 DEF OfTimeout
    <3> QED BY <2>2, <2>3, <3>1, <3>2 DEF ArmedAt
  <2>4. CASE status'[d] = "Ready"
    <3>1. w'[d] = w[d]
      BY <2>1, <2>4 DEF Started
    <3> QED BY <2>2, <2>4, <3>1 DEF ArmedAt
  <2> QED BY <1>2, <2>1, <2>3, <2>4 DEF Status
<1> QED BY <1>1, <1>2

\* So does one that close() closes; the others are left alone.
LEMMA ArmedClosed ==
    ASSUME Typed, NEW c \in Conns, NEW inC, NEW done, CloseWith(c, inC, done)
    PROVE  /\ ArmedAt(c)'
           /\ \A d \in Conns \ {c} :
                /\ userCb'[d] = userCb[d] /\ w'[d] = w[d] /\ out'[d] = out[d]
                /\ in'[d] = in[d] /\ status'[d] = status[d]
<1>0. /\ status \in [Conns -> Status] /\ out \in [Conns -> Seq(Rids)]
      /\ in \in [Conns -> Seq(Rids)] /\ userCb \in [Conns -> Seq(Calls)]
      /\ w \in [Conns -> SUBSET Watchers]
  BY TypedIs
<1>1. status'[c] = "Closed" /\ w'[c] = {"prepare"} /\ in'[c] = <<>> /\ out'[c] = <<>>
  BY <1>0 DEF CloseWith
<1>2. ArmedAt(c)'
  BY <1>1 DEF ArmedAt
<1>3. ASSUME NEW d \in Conns \ {c}
      PROVE  /\ userCb'[d] = userCb[d] /\ w'[d] = w[d] /\ out'[d] = out[d]
             /\ in'[d] = in[d] /\ status'[d] = status[d]
  BY <1>0 DEF CloseWith
<1> QED BY <1>2, <1>3

\* Any step keeps everything armed.
LEMMA ArmedStep ==
    ASSUME Typed, Typed', PoolRun, Armed, [Next]_vars
    PROVE  Armed'
<1> USE DEF poolVars, connVars, callVars, netVars
<1>0. /\ status \in [Conns -> Status] /\ out \in [Conns -> Seq(Rids)]
      /\ in \in [Conns -> Seq(Rids)] /\ userCb \in [Conns -> Seq(Calls)]
      /\ w \in [Conns -> SUBSET Watchers] /\ poolOut \in Seq(Rids)
  BY TypedIs
<1>a. /\ poolOut # <<>> => poolWatch \/ running = "send"
      /\ \A c \in Conns : ArmedAt(c)
  BY ArmedIs
<1>b. ASSUME poolOut' # <<>> => poolWatch' \/ running' = "send", \A c \in Conns : ArmedAt(c)'
      PROVE  Armed'
  BY <1>b DEF Typed, Armed, ArmedAt
<1>c. ASSUME UNCHANGED connVars PROVE \A c \in Conns : ArmedAt(c)'
  BY <1>a, <1>c, ArmedKept
<1>1. CASE Send \/ PoolBegin
  <2>1. UNCHANGED connVars /\ (poolOut' # <<>> => poolWatch' \/ running' = "send")
    BY <1>1 DEF Send, PoolBegin
  <2> QED BY <1>b, <1>c, <2>1
<1>2. CASE PickFront \/ PickActive \/ PickConnecting
  <2>1. Chosen
    BY <1>2, PickChooses
  <2>2. running' = "send" /\ userCb' = userCb
    BY <2>1 DEF Chosen, Sending
  <2>3. PICK st2 \in [Conns -> Status] :
          /\ \A c \in Conns : st2[c] # status[c] => status[c] = "Closed"
          /\ Refuse(st2) \/ \E c \in Conns : st2[c] # "Closed" /\ Give(c, st2)
    BY <2>1 DEF Chosen
  <2>4. CASE Refuse(st2)
    <3>1. /\ status' = st2 /\ out' = out /\ in' = in
          /\ w' = [d \in Conns |->
                      w[d] \cup (IF st2[d] # status[d] THEN Started(st2[d]) ELSE {})]
      BY <2>4 DEF Refuse
    <3>2. ASSUME NEW d \in Conns PROVE ArmedAt(d)'
      <4>1. /\ ArmedAt(d) /\ userCb'[d] = userCb[d] /\ out'[d] = out[d] /\ in'[d] = in[d]
            /\ status'[d] \in Status
            /\ (status'[d] # status[d] => status[d] = "Closed")
            /\ w'[d] = w[d] \cup (IF status'[d] # status[d] THEN Started(status'[d]) ELSE {})
        BY <1>a, <2>2, <2>3, <3>1
      <4> QED BY <4>1, ArmedConnecting
    <3> QED BY <1>b, <2>2, <3>2
  <2>5. ASSUME NEW c \in Conns, st2[c] # "Closed", Give(c, st2) PROVE Armed'
    <3>1. /\ status' = st2 /\ out' = [out EXCEPT ![c] = Append(@, Head(poolOut))]
          /\ in' = [in EXCEPT ![c] = Append(@, Head(poolOut))]
          /\ w' = [d \in Conns |->
                      w[d] \cup (IF st2[d] # status[d] THEN Started(st2[d]) ELSE {})
                           \cup (IF d = c THEN {"write"} \cup OfTimeout("response") ELSE {})]
      BY <2>5 DEF Give
    <3>2. ASSUME NEW d \in Conns \ {c} PROVE ArmedAt(d)'
      <4>1. /\ ArmedAt(d) /\ userCb'[d] = userCb[d] /\ out'[d] = out[d] /\ in'[d] = in[d]
            /\ status'[d] \in Status
            /\ (status'[d] # status[d] => status[d] = "Closed")
            /\ w'[d] = w[d] \cup (IF status'[d] # status[d] THEN Started(status'[d]) ELSE {})
        BY <1>0, <1>a, <2>2, <2>3, <3>1
      <4> QED BY <4>1, ArmedConnecting
    <3>3. ArmedAt(c)'
      <4>1. /\ w'[c] = (w[c] \cup (IF st2[c] # status[c] THEN Started(st2[c]) ELSE {}))
                         \cup ({"write"} \cup OfTimeout("response"))
            /\ status'[c] = st2[c] /\ st2[c] \in Status
        BY <3>1
      <4>2. in'[c] # <<>>
        <5>1. Head(poolOut) \in Rids
          BY <1>0, <2>1, Popped DEF Chosen, Sending
        <5> QED BY SMTT(60), <1>0, <3>1, <5>1, AppendProperties
      <4>3. "response" \in w'[c] <=> HasTimeout
        <5>1. "response" \notin Started(st2[c])
          BY DEF Started, OfTimeout
        <5>2. "response" \in w[c] => HasTimeout
          BY <1>a DEF ArmedAt
        <5>3. "response" \in OfTimeout("response") <=> HasTimeout
          BY DEF OfTimeout
        <5> QED BY <4>1, <5>1, <5>2, <5>3
      <4>4. HasTimeout /\ st2[c] = "Connecting" => "connect" \in w'[c]
        <5>1. HasTimeout /\ st2[c] = "Connecting" => "connect" \in Started(st2[c])
          BY DEF Started, OfTimeout
        <5>2. HasTimeout /\ status[c] = "Connecting" => "connect" \in w[c]
          BY <1>a DEF ArmedAt
        <5> QED BY <4>1, <5>1, <5>2
      <4>5. userCb'[c] # <<>> => "prepare" \in w'[c]
        BY <1>a, <2>2, <4>1 DEF ArmedAt
      <4>6. "write" \in w'[c]
        BY <4>1
      <4> QED BY <2>5, <4>1, <4>2, <4>3, <4>4, <4>5, <4>6 DEF ArmedAt
    <3> QED BY <1>b, <2>2, <3>2, <3>3
  <2> QED BY <2>3, <2>4, <2>5
<1>3. CASE PoolCall
  <2>1. UNCHANGED connVars /\ poolOut' = <<>>
    BY <1>3 DEF PoolCall
  <2> QED BY <1>b, <1>c, <2>1
<1>4. CASE Call \/ CallEnd
  <2>1. UNCHANGED connVars /\ UNCHANGED <<poolOut, poolWatch>> /\ running # "send"
    BY <1>4 DEF Call, CallEnd
  <2> QED BY <1>a, <1>b, <1>c, <2>1
<1>5. ASSUME NEW c \in Conns, NEW inC, NEW done, CloseWith(c, inC, done),
             UNCHANGED <<poolVars, callVars>>
      PROVE  Armed'
  <2>1. \A d \in Conns \ {c} : ArmedAt(d)'
    BY <1>a, <1>5, ArmedClosed, ArmedKept
  <2>2. ArmedAt(c)'
    BY <1>5, ArmedClosed
  <2> QED BY <1>a, <1>b, <1>5, <2>1, <2>2
<1>6. ASSUME NEW c \in Conns, NotConnected(c) \/ NetworkError(c) \/ Timeout(c)
      PROVE  Armed'
  <2>1. CloseWith(c, in[c], userCb[c]) /\ UNCHANGED <<nreq, poolVars, callVars>>
    BY <1>6 DEF NotConnected, NetworkError, Timeout, Close
  <2> QED BY <1>5, <2>1
<1>7. ASSUME NEW c \in Conns, CbWrite(c) PROVE Armed'
  <2>1. PICK left : /\ out' = [out EXCEPT ![c] = left]
                    /\ w' = [w EXCEPT ![c] = WatchersOfWrite(c, left)]
    BY <1>7 DEF CbWrite
  <2>2. /\ status' = [status EXCEPT ![c] = "Ready"] /\ status[c] # "Closed"
        /\ "write" \in w[c] /\ UNCHANGED <<nreq, poolVars, in, userCb, callVars, resp>>
    BY <1>7 DEF CbWrite, Open
  <2>3. \A d \in Conns \ {c} : ArmedAt(d)'
    <3>1. \A d \in Conns \ {c} :
            /\ userCb'[d] = userCb[d] /\ w'[d] = w[d] /\ out'[d] = out[d]
            /\ in'[d] = in[d] /\ status'[d] = status[d]
      BY <1>0, <2>1, <2>2
    <3> QED BY <1>a, <3>1, ArmedKept
  <2>4. ArmedAt(c)'
    <3>1. /\ status'[c] = "Ready" /\ out'[c] = left /\ in'[c] = in[c]
          /\ userCb'[c] = userCb[c]
          /\ w'[c] = w[c] \ (IF left = <<>> THEN {"write", "connect"} ELSE {"connect"})
      BY <1>0, <2>1, <2>2 DEF WatchersOfWrite
    <3>2. /\ "prepare" \in w[c] => "prepare" \in w'[c]
          /\ "response" \in w'[c] <=> "response" \in w[c]
          /\ left # <<>> => "write" \in w'[c]
      BY <2>2, <3>1
    <3>3. ArmedAt(c)
      BY <1>a
    <3> QED BY <3>1, <3>2, <3>3 DEF ArmedAt
  <2> QED BY <1>a, <1>b, <2>2, <2>3, <2>4
<1>8. ASSUME NEW c \in Conns, CbRead(c) PROVE Armed'
  <2> DEFINE a == Head(resp[c])
             done == Append(userCb[c], [r |-> Head(in[c]), a |-> a.r])
  <2>1. /\ IF a.keep
           THEN /\ in' = [in EXCEPT ![c] = Tail(@)]
                /\ userCb' = [userCb EXCEPT ![c] = done]
                /\ w' = [w EXCEPT ![c] = TimerAfter(c, Tail(in[c])) \cup {"prepare"}]
                /\ UNCHANGED <<status, out>>
           ELSE CloseWith(c, Tail(in[c]), done)
        /\ UNCHANGED <<nreq, poolVars, callVars>>
        /\ in[c] # <<>> /\ status[c] = "Ready"
    BY <1>8 DEF CbRead
  <2> HIDE DEF a, done
  <2>2. CASE a.keep
    <3>1. \A d \in Conns \ {c} : ArmedAt(d)'
      <4>1. \A d \in Conns \ {c} :
              /\ userCb'[d] = userCb[d] /\ w'[d] = w[d] /\ out'[d] = out[d]
              /\ in'[d] = in[d] /\ status'[d] = status[d]
        BY <1>0, <2>1, <2>2
      <4> QED BY <1>a, <4>1, ArmedKept
    <3>2. /\ in'[c] = Tail(in[c]) /\ status'[c] = "Ready" /\ out'[c] = out[c]
          /\ w'[c] = (IF Tail(in[c]) = <<>> THEN w[c] \ {"response"} ELSE w[c])
                       \cup {"prepare"}
      BY <1>0, <2>1, <2>2 DEF TimerAfter
    <3>3. /\ out[c] # <<>> => "write" \in w[c]
          /\ "response" \in w[c] <=> HasTimeout
      BY <1>a, <2>1 DEF ArmedAt
    <3>4. /\ out[c] # <<>> => "write" \in w'[c]
          /\ "response" \in w'[c] <=> HasTimeout /\ Tail(in[c]) # <<>>
          /\ "prepare" \in w'[c]
      BY <3>2, <3>3
    <3>5. ArmedAt(c)'
      BY <3>2, <3>4 DEF ArmedAt
    <3> QED BY <1>a, <1>b, <2>1, <3>1, <3>5
  <2>3. CASE ~a.keep
    BY <1>5, <2>1, <2>3
  <2> QED BY <2>2, <2>3
<1>9. ASSUME NEW c \in Conns, CbPrepare(c) PROVE Armed'
  <2>1. /\ w' = [w EXCEPT ![c] = @ \ {"prepare"}] /\ userCb' = [userCb EXCEPT ![c] = <<>>]
        /\ running = "no" /\ UNCHANGED <<nreq, poolVars, status, out, in, log, netVars>>
    BY <1>9 DEF CbPrepare
  <2>2. \A d \in Conns \ {c} : ArmedAt(d)'
    <3>1. \A d \in Conns \ {c} :
            /\ userCb'[d] = userCb[d] /\ w'[d] = w[d] /\ out'[d] = out[d]
            /\ in'[d] = in[d] /\ status'[d] = status[d]
      BY <1>0, <2>1
    <3> QED BY <1>a, <3>1, ArmedKept
  <2>3. /\ w'[c] = w[c] \ {"prepare"} /\ userCb'[c] = <<>> /\ out'[c] = out[c]
        /\ in'[c] = in[c] /\ status'[c] = status[c]
    BY <1>0, <2>1
  <2>4. ArmedAt(c)'
    <3>1. ArmedAt(c)
      BY <1>a
    <3> QED BY <2>3, <3>1 DEF ArmedAt
  <2>5. poolOut' # <<>> => poolWatch'
    BY <1>a, <2>1
  <2> QED BY <1>b, <2>2, <2>4, <2>5
<1>10. ASSUME NEW c \in Conns, Answer(c) PROVE Armed'
  <2>1. UNCHANGED <<poolVars, connVars, callVars>>
    BY <1>10 DEF Answer
  <2> QED BY <1>a, <1>b, <1>c, <2>1
<1>11. CASE UNCHANGED vars
  BY <1>a, <1>b, <1>c, <1>11 DEF vars
<1> QED
  BY <1>1, <1>2, <1>3, <1>4, <1>6, <1>7, <1>8, <1>9, <1>10, <1>11
  DEF Next, PoolStep, CallStep, ConnStep

-----------------------------------------------------------------------------
(* Requests between _in and _out                                           *)

\* _in is what the server was asked and has not been answered to the end, then
\* what is not written yet; the front of _out that is written in part belongs to
\* the first of them, and is the last the server was asked, if it still owes it.
FlowOf(inQ, asked, outQ, part) ==
    /\ inQ = asked \o (IF part THEN Tail(outQ) ELSE outQ)
    /\ part => outQ # <<>> /\ (asked # <<>> => asked[Len(asked)] = outQ[1])

\* A request that is sent to the connection.
LEMMA FlowSent ==
    ASSUME NEW i \in Seq(Rids), NEW a \in Seq(Rids), NEW o \in Seq(Rids),
           NEW b \in BOOLEAN, NEW r \in Rids, FlowOf(i, a, o, b)
    PROVE  FlowOf(Append(i, r), a, Append(o, r), b)
<1> DEFINE u == IF b THEN Tail(o) ELSE o
           i2 == Append(i, r)  o2 == Append(o, r)
           u2 == IF b THEN Tail(o2) ELSE o2
<1>1. /\ i = a \o u /\ (b => o # <<>>) /\ u \in Seq(Rids)
      /\ b /\ a # <<>> => a[Len(a)] = o[1]
  BY HeadTailProperties DEF FlowOf
<1>2. u2 = Append(u, r)
  BY <1>1, HeadTailAppend
<1>3. o2 # <<>> /\ (o # <<>> => o2[1] = o[1])
  <2>1. o # <<>> => 1 \in 1..Len(o)
    BY EmptySeq
  <2> QED BY <2>1, AppendProperties
<1> HIDE DEF u, u2, o2
<1>4. Append(a \o u, r) = a \o Append(u, r)
  <2>1. u \in Seq(Rids)
    BY <1>1
  <2>2. \A p, q \in Seq(Rids) : \A x \in Rids : p \o Append(q, x) = Append(p \o q, x)
    BY AddedLast
  <2> QED BY <2>1, <2>2, Zenon
<1>5. i2 = a \o u2
  BY <1>1, <1>2, <1>4
<1>6. FlowOf(i2, a, o2, b)
  BY <1>1, <1>3, <1>5 DEF FlowOf, u2
<1> QED BY <1>6 DEF o2

\* An answer that is taken: it is the answer to the front of _in.
LEMMA FlowTaken ==
    ASSUME NEW i \in Seq(Rids), NEW a \in Seq(Rids), NEW o \in Seq(Rids),
           NEW b \in BOOLEAN, FlowOf(i, a, o, b), a # <<>>
    PROVE  FlowOf(Tail(i), Tail(a), o, b) /\ Head(i) = a[1]
<1> DEFINE u == IF b THEN Tail(o) ELSE o
           t == Tail(a)
<1>1. /\ i = a \o u /\ (b => o # <<>>) /\ u \in Seq(Rids)
      /\ b => a[Len(a)] = o[1]
  BY HeadTailProperties DEF FlowOf
<1>2. /\ t \in Seq(Rids) /\ Len(a) \in Nat /\ Len(a) >= 1 /\ Len(t) = Len(a) - 1
      /\ \A k \in 1..(Len(a) - 1) : t[k] = a[k + 1]
  BY Popped, LenProperties
<1>3. t # <<>> => t[Len(t)] = a[Len(a)]
  <2>1. t # <<>> => Len(t) >= 1
    BY <1>2, EmptySeq
  <2>2. Len(t) >= 1 => Len(a) - 1 \in 1..(Len(a) - 1) /\ (Len(a) - 1) + 1 = Len(a)
    <3>1. Len(a) \in Nat /\ Len(t) = Len(a) - 1
      BY <1>2
    <3> QED BY <3>1
  <2> QED BY <1>2, <2>1, <2>2
<1> HIDE DEF u
<1>4. Tail(a \o u) = Tail(a) \o u /\ (a \o u)[1] = a[1] /\ a \o u # <<>>
  BY <1>1, TakenFirst
<1>5. Head(i) = i[1]
  BY <1>1, <1>4, Popped
<1>6. Tail(i) = t \o u /\ Head(i) = a[1]
  BY <1>1, <1>4, <1>5
<1> HIDE DEF t
<1>7. FlowOf(Tail(i), t, o, b)
  BY <1>1, <1>3, <1>6 DEF FlowOf, u
<1> QED BY <1>6, <1>7 DEF t

\* What write_int sends reaches the server, what it does not send stays in _out.
LEMMA FlowWritten ==
    ASSUME NEW i \in Seq(Rids), NEW a \in Seq(Rids), NEW o \in Seq(Rids),
           NEW b \in BOOLEAN, NEW m \in 0..Len(o), NEW part \in BOOLEAN,
           NEW left, NEW from, NEW to, NEW s
    PROVE  /\ FlowOf(i, a, o, b)
           /\ left = SubSeq(o, m + 1, Len(o)) /\ (part => left # <<>>)
           /\ (b /\ m = 0 => part)
           /\ from = (IF b THEN 2 ELSE 1) /\ to = (IF part THEN m + 1 ELSE m)
           /\ s = SubSeq(o, from, to)
           => FlowOf(i, a \o s, left, part)
<1> DEFINE n == Len(o)
           u == IF b THEN Tail(o) ELSE o
           v == IF part THEN Tail(left) ELSE left
<1>a. SUFFICES ASSUME /\ FlowOf(i, a, o, b)
                      /\ left = SubSeq(o, m + 1, Len(o)) /\ (part => left # <<>>)
                      /\ (b /\ m = 0 => part)
                      /\ from = (IF b THEN 2 ELSE 1) /\ to = (IF part THEN m + 1 ELSE m)
                      /\ s = SubSeq(o, from, to)
               PROVE  FlowOf(i, a \o s, left, part)
  OBVIOUS
<1>1. /\ n \in Nat /\ m \in Nat /\ m <= n /\ \A k \in 1..n : o[k] \in Rids
      /\ b => n >= 1
  <2>1. b => o # <<>>
    BY <1>a DEF FlowOf
  <2> QED BY <2>1, LenProperties, ElementOfSeq, EmptySeq
<1>2. part => m + 1 <= n
  <2>1. m + 1 \in Int /\ n \in Int /\ (~(m + 1 <= n) => n < m + 1)
    BY <1>1
  <2> QED BY <1>a, <2>1, SubSeqEmpty
<1>3. /\ from \in 1..(n + 1) /\ to \in (from - 1)..n /\ n \in to..n
      /\ from \in Nat /\ to \in Nat
  BY <1>1, <1>2, <1>a
<1>4. u = SubSeq(o, from, n) /\ i = a \o u
  <2>1. i = a \o u /\ (b => o # <<>>)
    BY <1>a DEF FlowOf
  <2> QED BY <1>a, <2>1, TailIsSubSeq, SubSeqFull
<1>5. v = SubSeq(o, to + 1, n)
  <2>1. CASE part
    <3>1. m + 1 \in 1..n /\ n \in (m + 1)..n
      BY <1>1, <1>2, <2>1
    <3>2. Tail(SubSeq(o, m + 1, n)) = SubSeq(o, (m + 1) + 1, n)
      BY <3>1, HeadTailOfSubSeq
    <3> QED BY <1>a, <2>1, <3>2
  <2>2. CASE ~part
    BY <1>a, <2>2
  <2> QED BY <2>1, <2>2
<1>6. /\ s \in Seq(Rids) /\ Len(s) = IF from <= to THEN to - from + 1 ELSE 0
      /\ \A k \in 1..(to - from + 1) : s[k] = o[from + k - 1]
      /\ v \in Seq(Rids)
  <2>1. \A k \in from..to : o[k] \in Rids
    BY <1>1, <1>3
  <2>2. \A k \in (to + 1)..n : o[k] \in Rids
    BY <1>1, <1>3
  <2>3. from \in Int /\ to \in Int /\ to + 1 \in Int /\ n \in Int
    BY <1>1, <1>3
  <2>4. v \in Seq(Rids)
    BY <1>5, <2>2, <2>3, SubSeqProperties
  <2>5. /\ s \in Seq(Rids) /\ Len(s) = IF from <= to THEN to - from + 1 ELSE 0
        /\ \A k \in 1..(to - from + 1) : s[k] = o[from + k - 1]
    BY <1>a, <2>1, <2>3, SubSeqProperties
  <2> QED BY <2>4, <2>5
<1>7. SubSeq(o, from, to) \o SubSeq(o, to + 1, n) = SubSeq(o, from, n)
  BY <1>3, ConcatAdjacentSubSeq
<1>8. u = s \o v
  BY <1>a, <1>4, <1>5, <1>7
<1> HIDE DEF u, v
<1>9. i = (a \o s) \o v
  <2>1. s \in Seq(Rids) /\ v \in Seq(Rids)
    BY <1>6
  <2>2. (a \o s) \o v = a \o (s \o v)
    BY SMTT(60), <2>1, ConcatAssociative
  <2> QED BY <1>4, <1>8, <2>2
<1>10. ASSUME part, a \o s # <<>> PROVE (a \o s)[Len(a \o s)] = left[1]
  <2> DEFINE asked == a \o s
  <2>1. left[1] = o[m + 1]
    <3>1. m + 1 \in 1..n /\ n \in (m + 1)..n
      BY <1>1, <1>2, <1>10
    <3>2. \A k \in (m + 1)..n : o[k] \in Rids
      BY <1>1, <3>1
    <3>3. left \in Seq(Rids)
      BY <1>1, <1>a, <3>1, <3>2, SubSeqProperties
    <3> QED BY <1>a, <3>1, <3>3, <1>10, HeadTailOfSubSeq, Popped
  <2>2. /\ Len(asked) = Len(a) + Len(s) /\ Len(a) \in Nat /\ Len(s) \in Nat
        /\ \A k \in 1..(Len(a) + Len(s)) :
             asked[k] = IF k <= Len(a) THEN a[k] ELSE s[k - Len(a)]
    BY <1>6, ConcatProperties, LenProperties
  <2> HIDE DEF asked
  <2>3. CASE from <= to
    <3>1. /\ Len(s) = to - from + 1 /\ Len(s) >= 1 /\ Len(s) \in 1..(to - from + 1)
          /\ from + Len(s) - 1 = to /\ to = m + 1
      BY <1>a, <1>3, <1>6, <1>10, <2>3
    <3>2. s[Len(s)] = o[m + 1]
      BY <1>6, <3>1
    <3>3. /\ Len(a) + Len(s) \in 1..(Len(a) + Len(s)) /\ ~(Len(a) + Len(s) <= Len(a))
          /\ Len(a) + Len(s) - Len(a) = Len(s)
      BY <2>2, <3>1
    <3>5. PICK k \in 1..(Len(a) + Len(s)) : k = Len(a) + Len(s)
      BY <3>3
    <3>6. asked[k] = s[k - Len(a)]
      BY <2>2, <3>3, <3>5
    <3>4. asked[Len(asked)] = s[Len(s)]
      BY <2>2, <3>3, <3>5, <3>6
    <3> QED BY <2>1, <3>2, <3>4 DEF asked
  <2>4. CASE ~(from <= to)
    <3>1. b /\ m = 0
      BY <1>1, <1>a, <1>10, <2>4
    <3>2. s = <<>>
      BY <1>a, <1>3, <2>4, SubSeqEmpty
    <3>3. asked = a
      BY <3>2, ConcatEmptySeq DEF asked
    <3>4. a # <<>> /\ a[Len(a)] = o[1]
      BY <1>a, <1>10, <3>1, <3>3 DEF FlowOf, asked
    <3> QED BY <2>1, <3>1, <3>3, <3>4 DEF asked
  <2> QED BY <2>3, <2>4
<1> QED BY <1>a, <1>9, <1>10 DEF FlowOf, v

\* What the server was asked by c and c has no answer to yet.
Asked(c) == RidsOf(resp[c]) \o srv[c]

Flow(c) == FlowOf(in[c], Asked(c), out[c], begun[c])

Answers == [r : Rids, keep : BOOLEAN]

\* Types of the queues of a connection.
LEMMA AskedType ==
    Typed => \A c \in Conns :
        /\ in[c] \in Seq(Rids) /\ out[c] \in Seq(Rids) /\ srv[c] \in Seq(Rids)
        /\ resp[c] \in Seq(Answers) /\ begun[c] \in BOOLEAN
        /\ RidsOf(resp[c]) \in Seq(Rids) /\ Asked(c) \in Seq(Rids)
<1> SUFFICES ASSUME Typed, NEW c \in Conns
             PROVE  /\ in[c] \in Seq(Rids) /\ out[c] \in Seq(Rids) /\ srv[c] \in Seq(Rids)
                    /\ resp[c] \in Seq(Answers) /\ begun[c] \in BOOLEAN
                    /\ RidsOf(resp[c]) \in Seq(Rids) /\ Asked(c) \in Seq(Rids)
  OBVIOUS
<1>1. /\ in[c] \in Seq(Rids) /\ out[c] \in Seq(Rids) /\ srv[c] \in Seq(Rids)
      /\ resp[c] \in Seq(Answers) /\ begun[c] \in BOOLEAN
  BY DEF Typed, TypeOK, Answers
<1>2. RidsOf(resp[c]) \in Seq(Rids)
  <2>1. \A x \in Answers : x.r \in Rids
    BY DEF Answers
  <2> QED BY <1>1, <2>1, RidsOfAny
<1>3. Asked(c) \in Seq(Rids)
  BY <1>1, <1>2, ConcatProperties DEF Asked
<1> QED BY <1>1, <1>2, <1>3

\* A connection whose queues a step leaves alone.
LEMMA FlowKept ==
    ASSUME NEW c \in Conns, Flow(c), in'[c] = in[c], out'[c] = out[c],
           begun'[c] = begun[c], srv'[c] = srv[c], resp'[c] = resp[c]
    PROVE  Flow(c)'
  BY DEF Flow, Asked

\* close() leaves nothing.
LEMMA FlowClosed ==
    ASSUME Typed, NEW c \in Conns, NEW inC, NEW done, CloseWith(c, inC, done),
           \A d \in Conns : Flow(d)
    PROVE  \A d \in Conns : Flow(d)'
<1>0. /\ in \in [Conns -> Seq(Rids)] /\ out \in [Conns -> Seq(Rids)]
      /\ begun \in [Conns -> BOOLEAN] /\ srv \in [Conns -> Seq(Rids)]
      /\ resp \in [Conns -> Seq(Answers)]
  BY DEF Typed, TypeOK, Answers
<1>1. ASSUME NEW d \in Conns \ {c} PROVE Flow(d)'
  <2>1. /\ in'[d] = in[d] /\ out'[d] = out[d] /\ begun'[d] = begun[d]
        /\ srv'[d] = srv[d] /\ resp'[d] = resp[d]
    BY <1>0 DEF CloseWith
  <2> QED BY <2>1, FlowKept
<1>2. Flow(c)'
  <2>1. /\ in'[c] = <<>> /\ out'[c] = <<>> /\ begun'[c] = FALSE
        /\ srv'[c] = <<>> /\ resp'[c] = <<>>
    BY <1>0 DEF CloseWith
  <2>2. RidsOf(<<>>) = <<>> /\ <<>> \o <<>> = <<>>
    BY RidsOfCalls, EmptySeq, ConcatEmptySeq
  <2>3. Asked(c)' = <<>>
    BY <2>1, <2>2 DEF Asked
  <2> QED BY <2>1, <2>2, <2>3 DEF Flow, FlowOf
<1> QED BY <1>1, <1>2

\* A connection that cb_prepare of the pool gives the next request to.
LEMMA FlowGiven ==
    ASSUME Typed, Chosen, \A d \in Conns : Flow(d)
    PROVE  \A d \in Conns : Flow(d)'
<1>0. /\ in \in [Conns -> Seq(Rids)] /\ out \in [Conns -> Seq(Rids)]
      /\ begun' = begun /\ srv' = srv /\ resp' = resp /\ Head(poolOut) \in Rids
  BY Popped DEF Typed, TypeOK, Chosen, Sending, netVars
<1>1. CASE in' = in /\ out' = out
  BY <1>0, <1>1, FlowKept
<1>2. ASSUME NEW c \in Conns, NEW st2, Give(c, st2) PROVE \A d \in Conns : Flow(d)'
  <2>1. ASSUME NEW d \in Conns \ {c} PROVE Flow(d)'
    <3>1. in'[d] = in[d] /\ out'[d] = out[d]
      BY <1>0, <1>2 DEF Give
    <3> QED BY <1>0, <3>1, FlowKept
  <2>2. Flow(c)'
    <3>1. in'[c] = Append(in[c], Head(poolOut)) /\ out'[c] = Append(out[c], Head(poolOut))
      BY <1>0, <1>2 DEF Give
    <3>2. Asked(c)' = Asked(c)
      BY <1>0 DEF Asked
    <3>3. FlowOf(Append(in[c], Head(poolOut)), Asked(c), Append(out[c], Head(poolOut)),
                 begun[c])
      BY <1>0, AskedType, FlowSent DEF Flow
    <3> QED BY <1>0, <3>1, <3>2, <3>3 DEF Flow
  <2> QED BY <2>1, <2>2
<1> QED BY <1>1, <1>2 DEF Chosen, Refuse

\* write_int.
LEMMA FlowOfWrite ==
    ASSUME Typed, NEW c \in Conns, CbWrite(c), \A d \in Conns : Flow(d)
    PROVE  \A d \in Conns : Flow(d)'
<1>0. /\ in \in [Conns -> Seq(Rids)] /\ out \in [Conns -> Seq(Rids)]
      /\ begun \in [Conns -> BOOLEAN] /\ srv \in [Conns -> Seq(Rids)]
      /\ in' = in /\ resp' = resp
  BY DEF Typed, TypeOK, CbWrite
<1>1. PICK m \in 0..Len(out[c]), part \in BOOLEAN :
        /\ part => SubSeq(out[c], m + 1, Len(out[c])) # <<>>
        /\ (begun[c] /\ m = 0 => part)
        /\ out' = [out EXCEPT ![c] = SubSeq(out[c], m + 1, Len(out[c]))]
        /\ begun' = [begun EXCEPT ![c] = part]
        /\ srv' = [srv EXCEPT ![c] = @ \o SubSeq(out[c], IF begun[c] THEN 2 ELSE 1,
                                                 IF part THEN m + 1 ELSE m)]
  BY DEF CbWrite
<1> DEFINE from == IF begun[c] THEN 2 ELSE 1
           to == IF part THEN m + 1 ELSE m
           s == SubSeq(out[c], from, to)
           left == SubSeq(out[c], m + 1, Len(out[c]))
<1>2. ASSUME NEW d \in Conns \ {c} PROVE Flow(d)'
  <2>1. out'[d] = out[d] /\ begun'[d] = begun[d] /\ srv'[d] = srv[d]
    BY <1>0, <1>1
  <2> QED BY <1>0, <2>1, FlowKept
<1>3. Flow(c)'
  <2>1. /\ out'[c] = left /\ begun'[c] = part /\ srv'[c] = srv[c] \o s
    BY <1>0, <1>1
  <2>2. s \in Seq(Rids)
    BY <1>1, WriteType
  <2>3. FlowOf(in[c], Asked(c) \o s, left, part)
    <3>1. /\ FlowOf(in[c], Asked(c), out[c], begun[c]) /\ (part => left # <<>>)
          /\ (begun[c] /\ m = 0 => part)
      BY <1>1 DEF Flow
    <3>2. /\ left = SubSeq(out[c], m + 1, Len(out[c])) /\ s = SubSeq(out[c], from, to)
          /\ from = (IF begun[c] THEN 2 ELSE 1) /\ to = (IF part THEN m + 1 ELSE m)
      OBVIOUS
    <3> DEFINE i == in[c]  a == Asked(c)  o == out[c]  b == begun[c]
    <3>3. /\ i \in Seq(Rids) /\ a \in Seq(Rids) /\ o \in Seq(Rids) /\ b \in BOOLEAN
          /\ m \in 0..Len(o) /\ part \in BOOLEAN
      BY AskedType
    <3> HIDE DEF from, to, s, left, i, a, o, b
    <3>4. FlowOf(i, a \o s, left, part)
      BY ZenonT(60), <3>1, <3>2, <3>3, FlowWritten DEF i, a, o, b
    <3> QED BY <3>4 DEF i, a
  <2> HIDE DEF s, left, from, to
  <2>4. Asked(c)' = Asked(c) \o s
    <3>1. RidsOf(resp[c]) \in Seq(Rids) /\ srv[c] \in Seq(Rids)
      BY AskedType
    <3> DEFINE p == RidsOf(resp[c])  q == srv[c]
    <3> HIDE DEF p, q
    <3>2. p \in Seq(Rids) /\ q \in Seq(Rids)
      BY <3>1 DEF p, q
    <3>3. (p \o q) \o s = p \o (q \o s)
      BY <2>2, <3>2, ConcatAssociative
    <3> QED BY <1>0, <2>1, <3>3 DEF Asked, p, q
  <2> QED BY <1>0, <2>1, <2>3, <2>4 DEF Flow
<1> QED BY <1>2, <1>3

\* The answer that is read next is the answer to the front of _in.
LEMMA AnswersFront ==
    ASSUME Typed, NEW c \in Conns, Flow(c), resp[c] # <<>>
    PROVE  /\ Head(in[c]) = Head(resp[c]).r
           /\ FlowOf(Tail(in[c]), RidsOf(Tail(resp[c])) \o srv[c], out[c], begun[c])
<1>1. /\ in[c] \in Seq(Rids) /\ out[c] \in Seq(Rids) /\ srv[c] \in Seq(Rids)
      /\ resp[c] \in Seq(Answers) /\ begun[c] \in BOOLEAN
      /\ RidsOf(resp[c]) \in Seq(Rids) /\ Asked(c) \in Seq(Rids)
  BY AskedType
<1>2. /\ RidsOf(Tail(resp[c])) = Tail(RidsOf(resp[c]))
      /\ RidsOf(resp[c])[1] = Head(resp[c]).r /\ RidsOf(resp[c]) # <<>>
  <2>1. \A x \in Answers : x.r \in Rids
    BY DEF Answers
  <2> QED BY <1>1, <2>1, RidsOfTaken
<1>3. /\ Tail(Asked(c)) = Tail(RidsOf(resp[c])) \o srv[c] /\ Asked(c) # <<>>
      /\ Asked(c)[1] = RidsOf(resp[c])[1]
  BY ZenonT(60), <1>1, <1>2, TakenFirst DEF Asked
<1>4. FlowOf(Tail(in[c]), Tail(Asked(c)), out[c], begun[c]) /\ Head(in[c]) = Asked(c)[1]
  BY <1>1, <1>3, FlowTaken DEF Flow
<1> QED BY <1>2, <1>3, <1>4

\* Any step keeps the queues of every connection so.
LEMMA FlowStep ==
    ASSUME Typed, \A d \in Conns : Flow(d), [Next]_vars
    PROVE  \A d \in Conns : Flow(d)'
<1> USE DEF poolVars, connVars, callVars, netVars
<1>1. ASSUME UNCHANGED <<in, out, begun, srv, resp>> PROVE \A d \in Conns : Flow(d)'
  BY <1>1, FlowKept
<1>2. CASE Send \/ PoolBegin \/ PoolCall \/ Call \/ CallEnd \/ UNCHANGED vars
  <2>1. UNCHANGED <<in, out, begun, srv, resp>>
    BY <1>2 DEF Send, PoolBegin, PoolCall, Call, CallEnd, vars
  <2> QED BY <1>1, <2>1
<1>3. CASE PickFront \/ PickActive \/ PickConnecting
  BY <1>3, PickChooses, FlowGiven
<1>4. ASSUME NEW c \in Conns, NotConnected(c) \/ NetworkError(c) \/ Timeout(c)
      PROVE  \A d \in Conns : Flow(d)'
  <2>1. CloseWith(c, in[c], userCb[c])
    BY <1>4 DEF NotConnected, NetworkError, Timeout, Close
  <2> QED BY <2>1, FlowClosed
<1>5. ASSUME NEW c \in Conns, CbWrite(c) PROVE \A d \in Conns : Flow(d)'
  BY <1>5, FlowOfWrite
<1>6. ASSUME NEW c \in Conns, CbRead(c) PROVE \A d \in Conns : Flow(d)'
  <2> DEFINE a == Head(resp[c])
             done == Append(userCb[c], [r |-> Head(in[c]), a |-> a.r])
  <2>1. /\ resp[c] # <<>>
        /\ IF a.keep
           THEN /\ in' = [in EXCEPT ![c] = Tail(@)] /\ resp' = [resp EXCEPT ![c] = Tail(@)]
                /\ UNCHANGED <<out, begun, srv>>
           ELSE CloseWith(c, Tail(in[c]), done)
    BY <1>6 DEF CbRead
  <2>2. CASE ~a.keep
    <3> HIDE DEF a, done
    <3> QED BY <2>1, <2>2, FlowClosed
  <2>3. CASE a.keep
    <3> HIDE DEF a, done
    <3>1. in \in [Conns -> Seq(Rids)] /\ resp \in [Conns -> Seq(Answers)]
      BY DEF Typed, TypeOK, Answers
    <3>2. ASSUME NEW d \in Conns \ {c} PROVE Flow(d)'
      <4>1. in'[d] = in[d] /\ resp'[d] = resp[d] /\ UNCHANGED <<out, begun, srv>>
        BY <2>1, <2>3, <3>1
      <4> QED BY <4>1, FlowKept
    <3>3. in'[c] = Tail(in[c]) /\ resp'[c] = Tail(resp[c]) /\ UNCHANGED <<out, begun, srv>>
      BY <2>1, <2>3, <3>1
    <3>4. FlowOf(Tail(in[c]), RidsOf(Tail(resp[c])) \o srv[c], out[c], begun[c])
      BY <2>1, AnswersFront
    <3>5. Flow(c)'
      BY <3>3, <3>4 DEF Flow, Asked
    <3> QED BY <3>2, <3>5
  <2> QED BY <2>2, <2>3
<1>7. ASSUME NEW c \in Conns, CbPrepare(c) PROVE \A d \in Conns : Flow(d)'
  <2>1. UNCHANGED <<in, out, begun, srv, resp>>
    BY <1>7 DEF CbPrepare
  <2> QED BY <1>1, <2>1
<1>8. ASSUME NEW c \in Conns, Answer(c) PROVE \A d \in Conns : Flow(d)'
  <2>1. PICK keep \in BOOLEAN :
          resp' = [resp EXCEPT ![c] = Append(@, [r |-> Head(srv[c]), keep |-> keep])]
    BY <1>8 DEF Answer
  <2> DEFINE x == [r |-> Head(srv[c]), keep |-> keep]
  <2>2. /\ srv[c] # <<>> /\ srv' = [srv EXCEPT ![c] = Tail(@)]
        /\ UNCHANGED <<in, out, begun>>
    BY <1>8 DEF Answer
  <2>3. resp \in [Conns -> Seq(Answers)] /\ srv \in [Conns -> Seq(Rids)]
    BY DEF Typed, TypeOK, Answers
  <2>4. x \in Answers /\ x.r = Head(srv[c])
    <3>1. Head(srv[c]) \in Rids
      BY <2>2, <2>3, Popped
    <3> QED BY <3>1 DEF Answers
  <2>5. ASSUME NEW d \in Conns \ {c} PROVE Flow(d)'
    <3>1. srv'[d] = srv[d] /\ resp'[d] = resp[d]
      BY <2>1, <2>2, <2>3
    <3> QED BY <2>2, <3>1, FlowKept
  <2>6. srv'[c] = Tail(srv[c]) /\ resp'[c] = Append(resp[c], x)
    BY <2>1, <2>2, <2>3
  <2> HIDE DEF x
  <2>7. RidsOf(Append(resp[c], x)) = Append(RidsOf(resp[c]), Head(srv[c]))
    <3>1. (\A y \in Answers : y.r \in Rids) /\ resp[c] \in Seq(Answers)
      BY <2>3 DEF Answers
    <3>2. RidsOf(Append(resp[c], x)) = Append(RidsOf(resp[c]), x.r)
      BY <2>4, <3>1, RidsOfAdded
    <3> QED BY <2>4, <3>2
  <2>8. Asked(c)' = Asked(c)
    <3> DEFINE p == RidsOf(resp[c])  q == srv[c]
    <3>1. p \in Seq(Rids) /\ q \in Seq(Rids) /\ q # <<>>
      BY <2>2, AskedType
    <3> HIDE DEF p, q
    <3>2. Append(p, Head(q)) \o Tail(q) = p \o q
      BY <3>1, PassedOn
    <3> QED BY <2>6, <2>7, <3>2 DEF Asked, p, q
  <2>9. Flow(c)'
    BY <2>2, <2>8 DEF Flow
  <2> QED BY <2>5, <2>9
<1> QED
  BY <1>2, <1>3, <1>4, <1>5, <1>6, <1>7, <1>8
  DEF Next, PoolStep, CallStep, ConnStep

-----------------------------------------------------------------------------
(* Whose answer a call brings                                              *)

\* No call brings the answer to another request.
Own(calls) == \A i \in DOMAIN calls : calls[i].a \in {0, calls[i].r}
Owns == Own(log) /\ Own(batch) /\ \A c \in Conns : Own(userCb[c])

\* A list of calls without its first, with one more, and with those of close().
LEMMA OwnTaken ==
    ASSUME NEW K, NEW s \in Seq(K), s # <<>>, Own(s)
    PROVE  Own(Tail(s)) /\ Head(s).a \in {0, Head(s).r}
<1> DEFINE t == Tail(s)
<1>1. /\ Head(s) = s[1] /\ Len(s) \in Nat /\ Len(s) >= 1 /\ DOMAIN s = 1..Len(s)
      /\ DOMAIN t = 1..(Len(s) - 1)
      /\ \A i \in 1..(Len(s) - 1) : i + 1 \in DOMAIN s /\ t[i] = s[i + 1]
  BY Popped, LenProperties
<1> HIDE DEF t
<1>2. Own(t)
  BY <1>1 DEF Own
<1>3. 1 \in DOMAIN s
  BY <1>1
<1> QED BY <1>1, <1>2, <1>3 DEF Own, t

\* One more.
LEMMA OwnAdded ==
    ASSUME NEW K, NEW s \in Seq(K), NEW x \in K, Own(s), x.a \in {0, x.r}
    PROVE  Own(Append(s, x))
<1> DEFINE t == Append(s, x)
<1>1. /\ DOMAIN t = 1..(Len(s) + 1) /\ Len(s) \in Nat /\ DOMAIN s = 1..Len(s)
      /\ \A i \in 1..Len(s) : t[i] = s[i]
  BY Appended, LenProperties
<1>2. t[Len(s) + 1] = x
  BY Appended
<1> HIDE DEF t
<1>3. ASSUME NEW i \in DOMAIN t PROVE t[i].a \in {0, t[i].r}
  <2>1. i \in 1..Len(s) \/ i = Len(s) + 1
    BY <1>1
  <2> QED BY <1>1, <1>2, <2>1 DEF Own
<1> QED BY <1>3 DEF Own, t

\* The calls that close() adds bring no answer.
LEMMA OwnFailed ==
    ASSUME NEW s \in Seq(Calls), NEW q \in Seq(Rids), Own(s)
    PROVE  Own(s \o [i \in DOMAIN q |-> [r |-> q[i], a |-> 0]])
<1> DEFINE lost == [i \in DOMAIN q |-> [r |-> q[i], a |-> 0]]
           st == s \o lost
<1>1. lost \in Seq(Calls) /\ Len(lost) = Len(q) /\ DOMAIN lost = DOMAIN q
  BY FailedType
<1>2. \A i \in DOMAIN lost : lost[i].a = 0
  OBVIOUS
<1>3. DOMAIN lost = 1..Len(lost) /\ DOMAIN s = 1..Len(s)
  BY <1>1, LenProperties
<1> HIDE DEF lost
<1>4. \A i \in DOMAIN st :
        \/ i \in 1..Len(s)
        \/ i - Len(s) \in 1..Len(lost) /\ st[i] = lost[i - Len(s)]
  BY <1>1, Joined
<1>5. \A i \in 1..Len(s) : st[i] = s[i]
  BY <1>1, Joined
<1> HIDE DEF st
<1>6. ASSUME NEW i \in DOMAIN st PROVE st[i].a \in {0, st[i].r}
  <2>1. CASE i \in 1..Len(s)
    BY <1>3, <1>5, <2>1 DEF Own
  <2>2. CASE i - Len(s) \in 1..Len(lost) /\ st[i] = lost[i - Len(s)]
    BY <1>2, <1>3, <2>2
  <2> QED BY <1>4, <2>1, <2>2
<1> QED BY <1>6 DEF Own, st, lost

\* Any step keeps the answers with their requests.
LEMMA OwnStep ==
    ASSUME Typed, \A c \in Conns : Flow(c), Owns, [Next]_vars
    PROVE  Owns'
<1> USE DEF poolVars, connVars, callVars, netVars
<1>0. /\ userCb \in [Conns -> Seq(Calls)] /\ batch \in Seq(Calls)
      /\ log \in Seq([r : Rids, a : Rids \cup {0}, c : Holders])
      /\ Own(log) /\ Own(batch) /\ \A c \in Conns : Own(userCb[c])
  BY DEF Typed, Owns
<1>1. ASSUME UNCHANGED <<log, batch, userCb>> PROVE Owns'
  BY <1>1 DEF Owns, Own
<1>2. CASE Send \/ PoolBegin \/ CallEnd \/ UNCHANGED vars
  <2>1. UNCHANGED <<log, batch, userCb>>
    BY <1>2 DEF Send, PoolBegin, CallEnd, vars
  <2> QED BY <1>1, <2>1
<1>3. CASE PickFront \/ PickActive \/ PickConnecting
  <2>1. UNCHANGED <<log, batch, userCb>>
    BY <1>3, PickChooses DEF Chosen
  <2> QED BY <1>1, <2>1
<1>4. CASE PoolCall
  <2>1. /\ batch' = [i \in DOMAIN err |-> [r |-> err[i], a |-> 0]]
        /\ UNCHANGED <<log, userCb>>
    BY <1>4 DEF PoolCall
  <2>2. Own(batch')
    BY <2>1 DEF Own
  <2> QED BY <1>0, <2>1, <2>2 DEF Owns, Own
<1>5. CASE Call
  <2> DEFINE x == [r |-> Head(batch).r, a |-> Head(batch).a, c |-> caller]
  <2>1. /\ log' = Append(log, x) /\ batch' = Tail(batch) /\ batch # <<>>
        /\ UNCHANGED userCb
    BY <1>5 DEF Call
  <2>2. Own(Tail(batch)) /\ Head(batch).a \in {0, Head(batch).r} /\ Head(batch) \in Calls
    BY <1>0, <2>1, OwnTaken, Popped
  <2>3. x \in [r : Rids, a : Rids \cup {0}, c : Holders] /\ x.a \in {0, x.r}
    BY <2>2 DEF Typed, TypeOK, Calls, Holders
  <2> HIDE DEF x
  <2>4. Own(Append(log, x))
    BY <1>0, <2>3, OwnAdded
  <2> QED BY <1>0, <2>1, <2>2, <2>4 DEF Owns, Own
<1>6. ASSUME NEW c \in Conns, NEW inC \in Seq(Rids), NEW done \in Seq(Calls), Own(done),
             CloseWith(c, inC, done), UNCHANGED <<log, batch>>
      PROVE  Owns'
  <2> DEFINE all == done \o [i \in DOMAIN inC |-> [r |-> inC[i], a |-> 0]]
  <2>1. Own(all)
    BY <1>6, OwnFailed
  <2>2. userCb' = [userCb EXCEPT ![c] = all]
    BY <1>6 DEF CloseWith
  <2> HIDE DEF all
  <2>3. \A d \in Conns : userCb'[d] = IF d = c THEN all ELSE userCb[d]
    BY <1>0, <2>2
  <2>4. \A d \in Conns : Own(userCb'[d])
    BY <1>0, <2>1, <2>3
  <2> QED BY <1>0, <1>6, <2>4 DEF Owns, Own
<1>7. ASSUME NEW c \in Conns, NotConnected(c) \/ NetworkError(c) \/ Timeout(c)
      PROVE  Owns'
  <2>1. CloseWith(c, in[c], userCb[c]) /\ UNCHANGED <<log, batch>>
    BY <1>7 DEF NotConnected, NetworkError, Timeout, Close
  <2>2. in[c] \in Seq(Rids)
    BY AskedType
  <2> QED BY <1>0, <1>6, <2>1, <2>2
<1>8. ASSUME NEW c \in Conns, CbWrite(c) \/ Answer(c) PROVE Owns'
  <2>1. UNCHANGED <<log, batch, userCb>>
    BY <1>8 DEF CbWrite, Answer
  <2> QED BY <1>1, <2>1
<1>9. ASSUME NEW c \in Conns, CbRead(c) PROVE Owns'
  <2> DEFINE a == Head(resp[c])
             x == [r |-> Head(in[c]), a |-> a.r]
             done == Append(userCb[c], x)
  <2>1. /\ resp[c] # <<>> /\ in[c] # <<>> /\ UNCHANGED <<log, batch>>
        /\ IF a.keep THEN userCb' = [userCb EXCEPT ![c] = done]
                     ELSE CloseWith(c, Tail(in[c]), done)
    BY <1>9 DEF CbRead
  <2>2. Head(in[c]) = Head(resp[c]).r /\ Head(in[c]) \in Rids /\ Tail(in[c]) \in Seq(Rids)
    <3>1. in[c] \in Seq(Rids)
      BY AskedType
    <3> QED BY <2>1, <3>1, AnswersFront, Popped
  <2>3. x \in Calls /\ x.a \in {0, x.r}
    BY <2>2 DEF Calls
  <2> HIDE DEF x, a
  <2>4. Own(done) /\ done \in Seq(Calls)
    BY <1>0, <2>3, OwnAdded, AppendProperties
  <2> HIDE DEF done
  <2>5. CASE a.keep
    <3>1. userCb' = [userCb EXCEPT ![c] = done]
      BY <2>1, <2>5
    <3>2. \A d \in Conns : userCb'[d] = IF d = c THEN done ELSE userCb[d]
      BY <1>0, <3>1
    <3>3. \A d \in Conns : Own(userCb'[d])
      BY <1>0, <2>4, <3>2
    <3> QED BY <1>0, <2>1, <3>3 DEF Owns, Own
  <2>6. CASE ~a.keep
    BY <1>6, <2>1, <2>2, <2>4, <2>6
  <2> QED BY <2>5, <2>6
<1>10. ASSUME NEW c \in Conns, CbPrepare(c) PROVE Owns'
  <2>1. /\ batch' = userCb[c] /\ userCb' = [userCb EXCEPT ![c] = <<>>] /\ UNCHANGED log
    BY <1>10 DEF CbPrepare
  <2>2. \A d \in Conns : userCb'[d] = IF d = c THEN <<>> ELSE userCb[d]
    BY <1>0, <2>1
  <2>3. Own(<<>>)
    BY DEF Own
  <2>4. \A d \in Conns : Own(userCb'[d])
    BY <1>0, <2>2, <2>3
  <2> QED BY <1>0, <2>1, <2>4 DEF Owns, Own
<1> QED
  BY <1>2, <1>3, <1>4, <1>5, <1>7, <1>8, <1>9, <1>10
  DEF Next, PoolStep, CallStep, ConnStep

-----------------------------------------------------------------------------
(* What is not written is owed                                             *)

\* The last elements of a queue.
LEMMA LastIs ==
    ASSUME NEW q \in Seq(Rids), NEW o \in Seq(Rids), Len(o) <= Len(q),
           NEW k \in Nat, k = Len(q) - Len(o),
           \A j \in 1..Len(o) : q[k + j] = o[j]
    PROVE  o = LastOf(q, Len(o))
<1> DEFINE n == Len(o)  l == SubSeq(q, Len(q) - n + 1, Len(q))
<1>1. n \in Nat /\ Len(q) \in Nat /\ n <= Len(q) /\ \A i \in 1..Len(q) : q[i] \in Rids
  BY LenProperties, ElementOfSeq
<1>2. /\ l \in Seq(Rids)
      /\ Len(l) = IF Len(q) - n + 1 <= Len(q) THEN Len(q) - (Len(q) - n + 1) + 1 ELSE 0
      /\ \A i \in 1..(Len(q) - (Len(q) - n + 1) + 1) : l[i] = q[Len(q) - n + 1 + i - 1]
  <2>1. \A i \in (Len(q) - n + 1)..Len(q) : q[i] \in Rids
    BY <1>1
  <2>2. Len(q) - n + 1 \in Int /\ Len(q) \in Int
    BY <1>1
  <2> QED BY <2>1, <2>2, SubSeqProperties
<1> HIDE DEF l
<1>3. /\ Len(l) = n
      /\ \A i \in 1..n : /\ i \in 1..(Len(q) - (Len(q) - n + 1) + 1)
                         /\ Len(q) - n + 1 + i - 1 = k + i
  BY <1>1, <1>2
<1>4. \A i \in 1..n : l[i] = o[i]
  BY <1>2, <1>3
<1>5. o = l
  BY <1>2, <1>3, <1>4, SeqEqual
<1> QED BY <1>5 DEF LastOf, l

\* The queues of a connection say that what it did not write is owed.
LEMMA FlowOwes ==
    ASSUME NEW i \in Seq(Rids), NEW a \in Seq(Rids), NEW o \in Seq(Rids),
           NEW b \in BOOLEAN, FlowOf(i, a, o, b)
    PROVE  \/ Len(o) <= Len(i) /\ o = LastOf(i, Len(o))
           \/ o # <<>> /\ b /\ i = Tail(o)
<1>1. Len(a) \in Nat /\ Len(o) \in Nat
  BY LenProperties
<1>2. CASE ~b
  <2>1. i = a \o o
    BY <1>2 DEF FlowOf
  <2>2. /\ Len(i) = Len(a) + Len(o)
        /\ \A j \in 1..(Len(a) + Len(o)) :
             i[j] = IF j <= Len(a) THEN a[j] ELSE o[j - Len(a)]
    BY <2>1, ConcatProperties
  <2>3. ASSUME NEW j \in 1..Len(o) PROVE i[Len(a) + j] = o[j]
    <3>1. /\ Len(a) + j \in 1..(Len(a) + Len(o)) /\ ~(Len(a) + j <= Len(a))
          /\ (Len(a) + j) - Len(a) = j
      BY <1>1
    <3> QED BY <2>2, <3>1
  <2>4. Len(o) <= Len(i) /\ Len(a) = Len(i) - Len(o)
    BY <1>1, <2>2
  <2> QED BY <1>1, <2>3, <2>4, LastIs
<1>3. CASE b /\ a = <<>>
  <2>1. o # <<>> /\ i = <<>> \o Tail(o) /\ Tail(o) \in Seq(Rids)
    BY <1>3, HeadTailProperties DEF FlowOf
  <2> QED BY <1>3, <2>1, ConcatEmptySeq
<1>4. CASE b /\ a # <<>>
  <2> DEFINE t == Tail(o)
  <2>1. i = a \o t /\ o # <<>> /\ a[Len(a)] = o[1]
    BY <1>4 DEF FlowOf
  <2>2. /\ t \in Seq(Rids) /\ Len(t) = Len(o) - 1 /\ Len(o) >= 1 /\ Len(a) >= 1
        /\ \A j \in 1..(Len(o) - 1) : t[j] = o[j + 1]
    BY <1>4, <2>1, Popped
  <2> HIDE DEF t
  <2>3. /\ Len(i) = Len(a) + Len(t)
        /\ \A j \in 1..(Len(a) + Len(t)) :
             i[j] = IF j <= Len(a) THEN a[j] ELSE t[j - Len(a)]
    BY <2>1, <2>2, ConcatProperties
  <2>4. ASSUME NEW j \in 1..Len(o) PROVE i[(Len(a) - 1) + j] = o[j]
    <3>1. CASE j = 1
      <4>1. (Len(a) - 1) + j = Len(a) /\ Len(a) \in 1..(Len(a) + Len(t))
        BY <1>1, <2>2, <3>1
      <4> QED BY <2>1, <2>3, <3>1, <4>1
    <3>2. CASE j # 1
      <4>1. /\ (Len(a) - 1) + j \in 1..(Len(a) + Len(t)) /\ ~((Len(a) - 1) + j <= Len(a))
            /\ ((Len(a) - 1) + j) - Len(a) = j - 1 /\ j - 1 \in 1..(Len(o) - 1)
            /\ (j - 1) + 1 = j
        BY <1>1, <2>2, <3>2
      <4>2. i[(Len(a) - 1) + j] = t[j - 1]
        BY <2>3, <4>1
      <4> QED BY <2>2, <4>1, <4>2
    <3> QED BY <3>1, <3>2
  <2>5. Len(o) <= Len(i) /\ Len(a) - 1 = Len(i) - Len(o) /\ Len(a) - 1 \in Nat
    BY <1>1, <2>2, <2>3
  <2> QED BY <2>4, <2>5, LastIs
<1> QED BY <1>2, <1>3, <1>4

-----------------------------------------------------------------------------
(* The inductive invariant and the theorems                                *)

IInv ==
    /\ Typed /\ PoolRun /\ (\A c \in Conns : Flow(c))
    /\ OnceEach /\ Owns /\ Armed

\* It holds initially: nothing was sent, every connection is closed, connecting
\* with its watchers, or ready with none.
LEMMA InitInv == Init => IInv
<1> SUFFICES ASSUME Init PROVE IInv
  OBVIOUS
<1>1. Typed
  BY TypedInit
<1>2. PoolRun
  BY <1>1 DEF Init, PoolRun
<1>3. RidsOf(<<>>) = <<>> /\ <<>> \o <<>> = <<>>
  BY RidsOfCalls, EmptySeq, ConcatEmptySeq
<1>4. ASSUME NEW c \in Conns PROVE Flow(c)
  BY <1>3 DEF Init, Flow, FlowOf, Asked
<1>5. OnceEach
  <2>1. ASSUME NEW h \in Holders PROVE Uncalled(h) = <<>>
    <3>1. h = 0 \/ h \in Conns
      BY DEF Holders, Conns
    <3> QED BY <1>3, <3>1 DEF Init, Uncalled
  <2>2. log = <<>> /\ nreq = 0
    BY DEF Init
  <2>3. DOMAIN log = {} /\ \A h \in Holders : DOMAIN Uncalled(h) = {}
    BY <2>1, <2>2
  <2>4. \A h \in Holders, r \in Rids : ~Holds(h, r)
    BY <2>3 DEF Holds, Called, Contains
  <2>5. InOrder
    BY <2>3 DEF InOrder
  <2> QED BY <2>2, <2>4, <2>5 DEF OnceEach, Rids
<1>6. Owns
  BY DEF Init, Owns, Own
<1>7. Armed
  <2>1. ASSUME NEW c \in Conns PROVE ArmedAt(c)
    <3>1. /\ userCb[c] = <<>> /\ out[c] = <<>> /\ in[c] = <<>> /\ w[c] = Started(status[c])
      BY DEF Init
    <3> QED BY <3>1 DEF ArmedAt, Started, OfTimeout
  <2>2. TypeOK /\ poolOut = <<>>
    BY <1>1 DEF Typed, Init
  <2> QED BY <2>1, <2>2, ArmedIs
<1> QED BY <1>1, <1>2, <1>4, <1>5, <1>6, <1>7 DEF IInv

\* Every step keeps it.
LEMMA StepInv == IInv /\ [Next]_vars => IInv'
<1> SUFFICES ASSUME IInv, [Next]_vars PROVE IInv'
  OBVIOUS
<1>1. Typed'
  BY TypedStep DEF IInv
<1>2. PoolRun'
  BY PoolRunStep DEF IInv
<1>3. (\A c \in Conns : Flow(c))'
  BY FlowStep DEF IInv
<1>4. OnceEach'
  BY <1>1, <1>2, OnceStep DEF IInv
<1>5. Owns'
  BY OwnStep DEF IInv
<1>6. Armed'
  BY <1>1, ArmedStep DEF IInv
<1> QED BY <1>1, <1>2, <1>3, <1>4, <1>5, <1>6 DEF IInv

\* Every reachable state of the client satisfies it.
THEOREM Invariant == Spec => []IInv
BY InitInv, StepInv, PTL DEF Spec

\* Every request the application sent is in one place, the pool, a connection,
\* the calls to be made or those made, and each connection calls back in the
\* order of sending: for every number of connections, whatever is closed, timed
\* out, refused and sent again from a callback.
THEOREM RequestsOnce == Spec => []OnceEach
<1>1. IInv => OnceEach
  BY DEF IInv
<1> QED BY <1>1, Invariant, PTL

\* A callback brings the server's answer to its own request or none, and what
\* a connection has not written it still owes.
THEOREM AnswersOwn == Spec => []OwnAnswer
<1>1. IInv => OwnAnswer
  <2> SUFFICES ASSUME IInv PROVE OwnAnswer
    OBVIOUS
  <2>1. ASSUME NEW c \in Conns
        PROVE  \/ Len(out[c]) <= Len(in[c]) /\ out[c] = LastOf(in[c], Len(out[c]))
               \/ out[c] # <<>> /\ begun[c] /\ in[c] = Tail(out[c])
    <3>1. FlowOf(in[c], Asked(c), out[c], begun[c])
      BY DEF IInv, Flow
    <3> DEFINE i == in[c]  a == Asked(c)  o == out[c]  b == begun[c]
    <3>2. /\ i \in Seq(Rids) /\ a \in Seq(Rids) /\ o \in Seq(Rids) /\ b \in BOOLEAN
          /\ FlowOf(i, a, o, b)
      BY <3>1, AskedType DEF IInv
    <3> HIDE DEF i, a, o, b
    <3>3. \/ Len(o) <= Len(i) /\ o = LastOf(i, Len(o))
          \/ o # <<>> /\ b /\ i = Tail(o)
      BY <3>2, FlowOwes
    <3> QED BY <3>3 DEF i, o, b
  <2>2. \A i \in DOMAIN log : log[i].a \in {0, log[i].r}
    BY DEF IInv, Owns, Own
  <2> QED BY <2>1, <2>2 DEF OwnAnswer, OutIsOwed
<1> QED BY <1>1, Invariant, PTL

\* Whatever waits in the client has a watcher that goes on with it, and the
\* response timer runs exactly while an answer is owed.
THEOREM WaitersArmed == Spec => []Armed
<1>1. IInv => Armed
  BY DEF IInv
<1> QED BY <1>1, Invariant, PTL

-----------------------------------------------------------------------------
(* When a request is refused                                               *)

\* PickConnecting refuses when no connection of its lists, which hold all, is
\* ready or being established after connect().
LEMMA RefusesClosed ==
    ASSUME Typed, PickConnecting, err' # err
    PROVE  \A c \in Conns : status[c] = "Closed" /\ status'[c] # "Connecting"
<1> DEFINE list == connecting \o active
<1>1. list \in Seq(Conns) /\ ToSet(list) = Conns /\ status \in [Conns -> Status]
  <2>1. /\ active \in Seq(Conns) /\ connecting \in Seq(Conns)
        /\ ToSet(active \o connecting) = Conns /\ status \in [Conns -> Status]
    BY DEF Typed, TypeOK
  <2>2. list \in Seq(Conns) /\ ToSet(list) = ToSet(connecting) \cup ToSet(active)
    BY <2>1, JoinedSet
  <2>3. ToSet(active \o connecting) = ToSet(active) \cup ToSet(connecting)
    BY <2>1, JoinedSet
  <2> HIDE DEF list
  <2> QED BY <2>1, <2>2, <2>3
<1>2. PICK st1 \in Connect(status, active) :
      LET n == First(list, st1, "Ready")
      IN  \E st2 \in Connect(st1, Before(list, n)) :
          LET k == Waiting(list, st2)
          IN  IF n > 0
              THEN Give(list[n], st2)
              ELSE IF k > 0 THEN Give(list[k], st2) ELSE Refuse(st2)
  BY DEF PickConnecting
<1> DEFINE n == First(list, st1, "Ready")
<1>3. PICK st2 \in Connect(st1, Before(list, n)) :
          IF n > 0
          THEN Give(list[n], st2)
          ELSE IF First(list, st2, "Connecting") > 0
               THEN Give(list[First(list, st2, "Connecting")], st2)
               ELSE Refuse(st2)
  BY <1>2 DEF Waiting
<1> DEFINE k == First(list, st2, "Connecting")
<1>4. /\ st1 \in [Conns -> Status] /\ st2 \in [Conns -> Status]
      /\ \A c \in Conns : st1[c] # status[c] => status[c] = "Closed"
      /\ \A c \in Conns : st2[c] # st1[c] => st1[c] = "Closed"
  BY DEF Connect
<1>5. /\ n \in 0..Len(list) /\ (n = 0 => \A i \in 1..Len(list) : st1[list[i]] # "Ready")
      /\ k \in 0..Len(list) /\ (k = 0 => \A i \in 1..Len(list) : st2[list[i]] # "Connecting")
  <2>1. /\ n \in 0..Len(list)
        /\ n = 0 => \A i \in 1..Len(list) : st1[list[i]] # "Ready"
    <3> HIDE DEF list
    <3> QED BY <1>1, <1>4, FirstIs
  <2>2. /\ k \in 0..Len(list)
        /\ k = 0 => \A i \in 1..Len(list) : st2[list[i]] # "Connecting"
    <3> HIDE DEF list
    <3> QED BY <1>1, <1>4, FirstIs
  <2> QED BY <2>1, <2>2
<1>6. \A c \in Conns : \E i \in 1..Len(list) : list[i] = c
  <2>1. DOMAIN list = 1..Len(list)
    BY <1>1, LenProperties
  <2> HIDE DEF list
  <2> QED BY <1>1, <2>1 DEF ToSet
<1>7. ~(n > 0) /\ ~(k > 0) /\ status' = st2
  <2> HIDE DEF list, n
  <2> QED BY <1>3 DEF Give, Refuse, k
<1> HIDE DEF list, n, k
<1>8. n = 0 /\ k = 0
  <2>1. Len(list) \in Nat
    BY <1>1, LenProperties
  <2> QED BY <1>5, <1>7, <2>1
<1>9. ASSUME NEW c \in Conns PROVE status[c] = "Closed" /\ status'[c] # "Connecting"
  <2>1. st1[c] # "Ready" /\ st2[c] # "Connecting"
    BY <1>5, <1>6, <1>8
  <2>2. status[c] # "Ready" /\ status[c] # "Connecting" /\ status[c] \in Status
    BY <1>1, <1>4, <2>1
  <2> QED BY <1>7, <2>1, <2>2 DEF Status
<1> QED BY <1>9

\* The pool refuses a request only when all its connections were closed and none
\* is being established: for every number of connections, whatever is in its lists.
THEOREM RefusesOnlyClosed == Spec => RefusedWhenClosed
<1> USE DEF poolVars, connVars, callVars, netVars
<1>1. ASSUME Typed, [Next]_vars, Len(err') > Len(err)
      PROVE  \A c \in Conns : status[c] = "Closed" /\ status'[c] # "Connecting"
  <2>1. Len(err) \in Nat
    BY <1>1, LenProperties DEF Typed, TypeOK
  <2>2. err' # err
    BY <1>1, <2>1
  <2>3. CASE PickConnecting
    BY <1>1, <2>2, <2>3, RefusesClosed
  <2>4. CASE PoolCall
    <3>1. Len(err') = 0
      BY <2>4 DEF PoolCall
    <3> QED BY <1>1, <2>1, <3>1
  <2>5. CASE Send \/ PoolBegin \/ PickFront \/ PickActive \/ Call \/ CallEnd \/ UNCHANGED vars
    BY <2>2, <2>5 DEF Send, PoolBegin, PickFront, PickActive, Give, Call, CallEnd, vars
  <2>6. ASSUME NEW c \in Conns, ConnStep(c) \/ Answer(c) PROVE FALSE
    BY <2>2, <2>6
    DEF ConnStep, NotConnected, CbWrite, NetworkError, CbRead, Timeout, CbPrepare, Answer
  <2> QED
    BY <1>1, <2>3, <2>4, <2>5, <2>6 DEF Next, PoolStep, CallStep
<1>2. IInv => Typed
  BY DEF IInv
<1>3. Typed /\ [Next]_vars =>
        [Len(err') > Len(err) =>
            \A c \in Conns : status[c] = "Closed" /\ status'[c] # "Connecting"]_vars
  BY <1>1
<1> QED BY <1>2, <1>3, Invariant, PTL DEF Spec, RefusedWhenClosed

=============================================================================
