---------------------------- MODULE WaitGroupProofs ----------------------------
(* Theorems about WaitGroup, for every set of groups and every bound.      *)
EXTENDS WaitGroup, SequenceTheorems, FiniteSetTheorems, FunctionTheorems, TLAPS

USE WaitBounds
USE DEF groupVars, queueVars, cbVars, history, Kinds, Zero, Without, MakeWith,
        ClearFields, StartTimer, Accepts, Counts, StopTimer, Queue, Take,
        CloseStops, Detached, Again, StillAgain

-----------------------------------------------------------------------------
(* Lemmas about the operators                                              *)

\* The members of a queue.
LEMMA ListedFacts ==
    ASSUME NEW s \in Seq(Groups)
    PROVE  /\ Listed(s) \subseteq Groups
           /\ <<>> \in Seq(Groups) /\ Listed(<<>>) = {}
           /\ \A g \in Groups : /\ Append(s, g) \in Seq(Groups)
                                /\ Listed(Append(s, g)) = Listed(s) \cup {g}
           /\ s # <<>> => /\ Tail(s) \in Seq(Groups) /\ Head(s) \in Groups
                          /\ Listed(s) = Listed(Tail(s)) \cup {Head(s)}
<1>1. ASSUME NEW g \in Groups PROVE Listed(Append(s, g)) = Listed(s) \cup {g}
  <2>1. Len(Append(s, g)) = Len(s) + 1 /\ DOMAIN Append(s, g) = 1..(Len(s) + 1)
    OBVIOUS
  <2>2. Append(s, g)[Len(s) + 1] = g /\ \A i \in 1..Len(s) : Append(s, g)[i] = s[i]
    OBVIOUS
  <2> QED BY <2>1, <2>2 DEF Listed
<1>2. ASSUME s # <<>> PROVE Listed(s) = Listed(Tail(s)) \cup {Head(s)}
  <2>1. Len(s) \in Nat \ {0} /\ Head(s) = s[1] /\ DOMAIN s = 1..Len(s)
    BY <1>2
  <2>2. DOMAIN Tail(s) = 1..(Len(s) - 1)
    BY <1>2
  <2>3. \A i \in 1..(Len(s) - 1) : Tail(s)[i] = s[i + 1]
    BY <1>2
  <2>4. ASSUME NEW i \in 1..Len(s)
        PROVE  s[i] \in Listed(Tail(s)) \cup {Head(s)}
    <3>1. CASE i = 1
      BY <2>1, <3>1
    <3>2. CASE i # 1
      <4>1. i - 1 \in 1..(Len(s) - 1) /\ Tail(s)[i - 1] = s[i]
        BY <2>1, <2>3, <3>2
      <4> QED BY <2>2, <4>1 DEF Listed
    <3> QED BY <3>1, <3>2
  <2>5. ASSUME NEW i \in 1..(Len(s) - 1) PROVE Tail(s)[i] \in Listed(s)
    BY <2>1, <2>3 DEF Listed
  <2>6. Listed(Tail(s)) \subseteq Listed(s)
    BY <2>2, <2>5 DEF Listed
  <2>7. Listed(s) \subseteq Listed(Tail(s)) \cup {Head(s)}
    BY <2>1, <2>4 DEF Listed
  <2>8. Head(s) \in Listed(s)
    BY <2>1 DEF Listed
  <2> QED BY <2>6, <2>7, <2>8
<1>3. s # <<>> => Tail(s) \in Seq(Groups) /\ Head(s) \in Groups
  OBVIOUS
<1>4. Listed(s) \subseteq Groups /\ <<>> \in Seq(Groups) /\ Listed(<<>>) = {}
  BY EmptySeq DEF Listed
<1> QED BY <1>1, <1>2, <1>3, <1>4

\* Entries of a queue are counted by a natural number.
LEMMA EntriesType ==
    ASSUME NEW s \in Seq(Groups), NEW g
    PROVE  /\ IsFiniteSet({i \in DOMAIN s : s[i] = g})
           /\ Entries(g, s) \in Nat
<1>1. IsFiniteSet(1..Len(s)) /\ DOMAIN s = 1..Len(s)
  BY FS_Interval
<1>2. {i \in DOMAIN s : s[i] = g} \in SUBSET (1..Len(s))
  BY <1>1
<1> QED BY <1>1, <1>2, FS_Subset, FS_CardinalityType DEF Entries

\* How the entries of a queue change when one is added or the first leaves.
LEMMA EntriesFacts ==
    ASSUME NEW s \in Seq(Groups), NEW g \in Groups
    PROVE  /\ Entries(g, <<>>) = 0
           /\ \A h \in Groups :
                Entries(g, Append(s, h)) = Entries(g, s) + (IF h = g THEN 1 ELSE 0)
           /\ s # <<>> =>
                Entries(g, s) = Entries(g, Tail(s)) + (IF Head(s) = g THEN 1 ELSE 0)
<1> DEFINE At(t) == {i \in DOMAIN t : t[i] = g}
<1>1. Entries(g, <<>>) = 0
  BY FS_EmptySet DEF Entries
<1>2. ASSUME NEW h \in Groups
      PROVE  Entries(g, Append(s, h)) = Entries(g, s) + (IF h = g THEN 1 ELSE 0)
  <2>1. /\ DOMAIN s = 1..Len(s) /\ DOMAIN Append(s, h) = 1..(Len(s) + 1)
        /\ Append(s, h)[Len(s) + 1] = h /\ Len(s) + 1 \notin DOMAIN s
        /\ \A i \in 1..Len(s) : Append(s, h)[i] = s[i]
    OBVIOUS
  <2>2. At(Append(s, h)) = IF h = g THEN At(s) \cup {Len(s) + 1} ELSE At(s)
    BY <2>1
  <2>3. IsFiniteSet(At(s)) /\ Cardinality(At(s)) \in Nat
    BY EntriesType DEF Entries
  <2>4. Len(s) + 1 \notin At(s)
    BY <2>1
  <2> HIDE DEF At
  <2>5. Cardinality(At(Append(s, h))) = Cardinality(At(s)) + (IF h = g THEN 1 ELSE 0)
    <3>1. Cardinality(At(s) \cup {Len(s) + 1}) = Cardinality(At(s)) + 1
      BY <2>3, <2>4, FS_AddElement
    <3> QED BY <2>2, <2>3, <3>1
  <2> QED BY <2>5 DEF Entries, At
<1>3. ASSUME s # <<>>
      PROVE  Entries(g, s) = Entries(g, Tail(s)) + (IF Head(s) = g THEN 1 ELSE 0)
  <2> DEFINE Rest == {i \in 2..Len(s) : s[i] = g}
             f == [i \in At(Tail(s)) |-> i + 1]
  <2>1. /\ Len(s) \in Nat /\ Len(s) > 0 /\ DOMAIN s = 1..Len(s) /\ Head(s) = s[1]
        /\ Tail(s) \in Seq(Groups) /\ DOMAIN Tail(s) = 1..(Len(s) - 1)
        /\ \A i \in 1..(Len(s) - 1) : Tail(s)[i] = s[i + 1]
    BY <1>3
  <2>2. IsFiniteSet(At(Tail(s))) /\ Cardinality(At(Tail(s))) \in Nat
    BY <2>1, EntriesType DEF Entries
  <2>3. f \in Bijection(At(Tail(s)), Rest)
    <3>1. \A i \in At(Tail(s)) : i \in Nat /\ f[i] = i + 1 /\ i + 1 \in Rest
      BY <2>1
    <3>2. \A j \in Rest : j - 1 \in At(Tail(s)) /\ f[j - 1] = j
      BY <2>1
    <3>3. f \in [At(Tail(s)) -> Rest]
      BY <3>1
    <3>4. \A a, b \in At(Tail(s)) : f[a] = f[b] => a = b
      BY <3>1
    <3>5. \A j \in Rest : \E i \in At(Tail(s)) : f[i] = j
      BY <3>2
    <3> HIDE DEF f, At, Rest
    <3> QED BY <3>3, <3>4, <3>5, Fun_IsBij
  <2>4. IsFiniteSet(Rest) /\ Cardinality(Rest) = Cardinality(At(Tail(s)))
    BY ZenonT(60), <2>2, <2>3, FS_Bijection DEF ExistsBijection
  <2>5. At(s) = IF Head(s) = g THEN Rest \cup {1} ELSE Rest
    BY <2>1
  <2>6. 1 \notin Rest
    OBVIOUS
  <2> HIDE DEF At, Rest
  <2>7. Cardinality(At(s)) = Cardinality(At(Tail(s))) + (IF Head(s) = g THEN 1 ELSE 0)
    <3>1. Cardinality(Rest \cup {1}) = Cardinality(Rest) + 1
      BY <2>4, <2>6, FS_AddElement
    <3> QED BY <2>2, <2>4, <2>5, <3>1
  <2> QED BY <2>7 DEF Entries, At
<1> QED BY <1>1, <1>2, <1>3

\* The types of what LetGo assigns, and what becomes of the freed groups.
LEMMA LetGoFacts ==
    ASSUME TypeOK, NEW h, NEW gs, NEW d, NEW t, NEW D, LetGo(h, gs, d, t, D)
    PROVE  /\ count' \in [Groups -> Nat] /\ timeout' \in [Groups -> Kinds]
           /\ pending' \in [Groups -> Nat]
           /\ timedOut' \subseteq Groups /\ attached' \subseteq Groups
           /\ attached' = attached \ (D \cup Freed(h, gs, d, t))
           /\ timedOut' = timedOut \ Freed(h, gs, d, t)
           /\ \A g \in Groups :
                /\ count'[g] = IF g \in Freed(h, gs, d, t) THEN 0 ELSE count[g]
                /\ pending'[g] = IF g \in Freed(h, gs, d, t) THEN 0 ELSE pending[g]
                /\ timeout'[g] = IF g \in Freed(h, gs, d, t) THEN "zero" ELSE timeout[g]
  BY DEF TypeOK, LetGo

\* A group fresh from make_group: what was not set is what clear() left.
LEMMA MakeFacts ==
    ASSUME TypeOK, CleanFree, NEW g \in Groups, Make(g)
    PROVE  \E n \in Nat, k \in Nat, t \in Kinds :
            /\ count' = [count EXCEPT ![g] = n]
            /\ pending' = [pending EXCEPT ![g] = k]
            /\ timeout' = [timeout EXCEPT ![g] = t]
            /\ n = k
<1>1. PICK n \in 1..MaxCount, t \in Kinds :
        MakeWith(g, n, n, t) \/ MakeWith(g, n, n, timeout[g]) \/ MakeWith(g, count[g], 0, t)
  BY DEF Make
<1>2. n \in Nat /\ timeout[g] \in Kinds /\ count[g] = 0
  BY DEF TypeOK, CleanFree, Make
<1> QED BY <1>1, <1>2

\* Group::done either only counts down or ends the wait.
LEMMA DoneFacts ==
    ASSUME TypeOK, NEW g \in Groups, Done(g)
    PROVE  /\ pending' = [pending EXCEPT ![g] = pending[g] - 1]
           /\ pending' \in [Groups -> Nat] /\ count' \in [Groups -> Nat]
           /\ \A h \in Groups \ {g} : count'[h] = count[h] /\ pending'[h] = pending[h]
           /\ Counts(g) => count'[g] = count[g] - 1
           /\ ~Counts(g) => UNCHANGED count
           /\ \/ ~(Counts(g) /\ count[g] = 1) /\ UNCHANGED <<timer, queueVars>>
              \/ /\ Counts(g) /\ count[g] = 1
                 /\ timer' = timer \ {g} /\ Queue(g)
<1>1. count[g] \in Nat /\ pending[g] \in Nat /\ pending[g] > 0
  BY DEF TypeOK, Done
<1>2. pending' = [pending EXCEPT ![g] = pending[g] - 1]
  BY DEF Done
<1>3. count' = IF Counts(g) THEN [count EXCEPT ![g] = count[g] - 1] ELSE count
  BY DEF Done
<1>4. Counts(g) => count[g] > 0
  OBVIOUS
<1>5. \/ ~(Counts(g) /\ count[g] = 1) /\ UNCHANGED <<timer, queueVars>>
      \/ Counts(g) /\ count[g] = 1 /\ timer' = timer \ {g} /\ Queue(g)
  BY DEF Done
<1> HIDE DEF Counts, Queue
<1> QED BY SMTT(60), <1>1, <1>2, <1>3, <1>4, <1>5 DEF TypeOK

\* A group that leaves the pool joins the queue.
LEMMA QueueFacts ==
    ASSUME TypeOK, NEW g \in Groups, Queue(g)
    PROVE  /\ groups' = groups \ {g} /\ groups' \subseteq Groups
           /\ doneQ' \in Seq(Groups) /\ wDone' \in BOOLEAN
           /\ Listed(doneQ') = Listed(doneQ) \cup (groups \cap {g})
           /\ g \notin groups => doneQ' = doneQ /\ wDone' = wDone
           /\ g \in groups => doneQ' # <<>> /\ wDone'
<1>1. doneQ' = IF g \in groups THEN Append(doneQ, g) ELSE doneQ
  OBVIOUS
<1>2. Append(doneQ, g) \in Seq(Groups) /\ Append(doneQ, g) # <<>>
  <2>1. doneQ \in Seq(Groups) /\ Len(Append(doneQ, g)) = Len(doneQ) + 1
    BY DEF TypeOK
  <2> QED BY <2>1
<1>3. Listed(doneQ') = Listed(doneQ) \cup (groups \cap {g})
  BY <1>1, ListedFacts DEF TypeOK
<1> QED BY <1>1, <1>2, <1>3 DEF TypeOK

-----------------------------------------------------------------------------
(* The inductive invariant, conjunct by conjunct                           *)

\* Every variable keeps its type.
LEMMA TypeOKStep ==
    ASSUME TypeOK, CleanFree, [Next]_vars
    PROVE  TypeOK'
<1>1. CASE UNCHANGED vars
  BY <1>1 DEF vars, TypeOK, CleanFree
<1>2. ASSUME NEW g \in Groups, User(g) \/ CbTimeout(g) PROVE TypeOK'
  <2>1. CASE Make(g)
    <3>1. /\ count' \in [Groups -> Nat] /\ pending' \in [Groups -> Nat]
         /\ timeout' \in [Groups -> Kinds]
      BY <2>1, MakeFacts DEF TypeOK
    <3> QED BY <2>1, <3>1 DEF TypeOK, Make
  <2>2. CASE Inc(g)
    BY <2>2 DEF TypeOK, CleanFree, Inc
  <2>3. CASE Drop(g)
    BY <2>3, LetGoFacts DEF TypeOK, Drop
  <2>4. CASE AddRefused(g)
    BY <2>4 DEF TypeOK, CleanFree, AddRefused
  <2>5. CASE Add(g)
    BY <2>5 DEF TypeOK, CleanFree, Add
  <2>6. CASE Done(g)
    BY ZenonT(60), <2>6, DoneFacts, QueueFacts DEF TypeOK, Done
  <2>7. CASE CbTimeout(g)
    BY <2>7, QueueFacts DEF TypeOK, CbTimeout
  <2> QED BY <1>2, <2>1, <2>2, <2>3, <2>4, <2>5, <2>6, <2>7 DEF User
<1>3. CASE CbDoneNoCallback
  <2>1. lost' \in [Groups -> Nat]
    <3>1. \A g \in Groups : Entries(g, doneQ) \in Nat
      BY EntriesType DEF TypeOK
    <3> QED BY <1>3, <3>1 DEF TypeOK, CbDoneNoCallback
  <2>2. doneQ' \in Seq(Groups) /\ wDone' \in BOOLEAN
    BY <1>3, EmptySeq DEF CbDoneNoCallback
  <2> QED BY <1>3, <2>1, <2>2, LetGoFacts DEF TypeOK, CbDoneNoCallback
<1>4. CASE CbDoneBegin
  <2>1. tmp' \in Seq(Groups) /\ doneQ' \in Seq(Groups) /\ wDone' \in BOOLEAN /\ inCb' \in BOOLEAN
    BY <1>4, EmptySeq DEF TypeOK, CbDoneBegin
  <2> QED BY <1>4, <2>1 DEF TypeOK, CbDoneBegin
<1>5. CASE CbDoneCall
  <2>1. tmp' \in Seq(Groups) /\ Head(tmp) \in Groups
    BY <1>5, ListedFacts DEF TypeOK, CbDoneCall
  <2>2. calls' \in [Groups -> Nat] /\ held' \subseteq Groups
    BY <1>5, <2>1 DEF TypeOK, CbDoneCall
  <2> QED BY <1>5, <2>1, <2>2 DEF TypeOK, CbDoneCall
<1>6. CASE CbDoneEnd
  BY <1>6 DEF TypeOK, CleanFree, CbDoneEnd
<1>7. CASE SetCb
  BY <1>7 DEF TypeOK, CleanFree, SetCb
<1>8. CASE Close
  <2>1. lost' \in [Groups -> Nat]
    <3>1. \A g \in Groups : Entries(g, doneQ) \in Nat /\ Entry(g, groups) \in Nat
      BY EntriesType DEF TypeOK, Entry
    <3> QED BY <1>8, <3>1 DEF TypeOK, Close
  <2>2. doneQ' \in Seq(Groups) /\ groups' \subseteq Groups
    BY <1>8, EmptySeq DEF Close
  <2> QED BY <1>8, <2>1, <2>2, LetGoFacts DEF TypeOK, Close
<1> QED BY <1>1, <1>2, <1>3, <1>4, <1>5, <1>6, <1>7, <1>8 DEF Next, CbDone

\* The prepare watcher is active exactly when _done is not empty.
LEMMA WakeUpStep ==
    ASSUME TypeOK, WakeUp, [Next]_vars
    PROVE  WakeUp'
<1>1. CASE UNCHANGED vars
  BY <1>1 DEF vars, TypeOK, WakeUp
<1>2. ASSUME NEW g \in Groups, User(g) \/ CbTimeout(g) PROVE WakeUp'
  <2>1. CASE Make(g)
    BY <2>1 DEF TypeOK, WakeUp, Make
  <2>2. CASE Inc(g)
    BY <2>2 DEF TypeOK, WakeUp, Inc
  <2>3. CASE Drop(g)
    BY <2>3 DEF TypeOK, WakeUp, Drop
  <2>4. CASE AddRefused(g)
    BY <2>4 DEF TypeOK, WakeUp, AddRefused
  <2>5. CASE Add(g)
    BY <2>5 DEF TypeOK, WakeUp, Add
  <2>6. CASE Done(g)
    BY <2>6, DoneFacts, QueueFacts DEF WakeUp
  <2>7. CASE CbTimeout(g)
    BY <2>7, QueueFacts DEF WakeUp, CbTimeout
  <2> QED BY <1>2, <2>1, <2>2, <2>3, <2>4, <2>5, <2>6, <2>7 DEF User
<1>3. CASE CbDoneNoCallback
  BY <1>3 DEF TypeOK, WakeUp, CbDoneNoCallback
<1>4. CASE CbDoneBegin
  BY <1>4 DEF TypeOK, WakeUp, CbDoneBegin
<1>5. CASE CbDoneCall
  BY <1>5 DEF TypeOK, WakeUp, CbDoneCall
<1>6. CASE CbDoneEnd
  BY <1>6 DEF TypeOK, WakeUp, CbDoneEnd
<1>7. CASE SetCb
  BY <1>7 DEF TypeOK, WakeUp, SetCb
<1>8. CASE Close
  BY <1>8 DEF TypeOK, WakeUp, Close
<1> QED BY <1>1, <1>2, <1>3, <1>4, <1>5, <1>6, <1>7, <1>8 DEF Next, CbDone

\* Timers run exactly for the groups that wait with a positive timeout.
LEMMA TimerArmedStep ==
    ASSUME TypeOK, CleanFree, Outstanding, TimerArmed, [Next]_vars
    PROVE  TimerArmed'
<1>1. CASE UNCHANGED vars
  BY <1>1 DEF vars, TypeOK, CleanFree, Outstanding, TimerArmed
<1>2. ASSUME NEW g \in Groups, User(g) \/ CbTimeout(g) PROVE TimerArmed'
  <2>1. CASE Make(g)
    <3>1. g \notin groups
      BY <2>1 DEF Make, InUse, Alive
    <3> QED BY <2>1, <3>1, MakeFacts DEF TypeOK, TimerArmed, Make
  <2>2. CASE Inc(g)
    BY <2>2 DEF TypeOK, CleanFree, Outstanding, TimerArmed, Inc
  <2>3. CASE Drop(g)
    <3> DEFINE S == Freed(held', groups, doneQ, tmp)
    <3>1. S \cap groups = {}
      BY DEF Freed, Alive
    <3>2. \A h \in Groups \ S : timeout'[h] = timeout[h]
      BY <2>3, LetGoFacts DEF Drop
    <3> QED BY <2>3, <3>1, <3>2 DEF TypeOK, TimerArmed, Drop
  <2>4. CASE AddRefused(g)
    BY <2>4 DEF TypeOK, CleanFree, Outstanding, TimerArmed, AddRefused
  <2>5. CASE Add(g)
    BY <2>5 DEF TypeOK, CleanFree, Outstanding, TimerArmed, Add
  <2>6. CASE Done(g)
    <3>1. UNCHANGED timeout
      BY <2>6 DEF Done
    <3> QED BY <2>6, <3>1, DoneFacts, QueueFacts DEF TypeOK, TimerArmed
  <2>7. CASE CbTimeout(g)
    BY <2>7, QueueFacts DEF TypeOK, TimerArmed, CbTimeout
  <2> QED BY <1>2, <2>1, <2>2, <2>3, <2>4, <2>5, <2>6, <2>7 DEF User
<1>3. CASE CbDoneNoCallback
  <2> DEFINE S == Freed(held, groups, doneQ', tmp)
  <2>1. S \cap groups = {}
    BY DEF Freed, Alive
  <2>2. \A h \in Groups \ S : timeout'[h] = timeout[h]
    BY <1>3, LetGoFacts DEF CbDoneNoCallback
  <2> QED BY <1>3, <2>1, <2>2 DEF TypeOK, TimerArmed, CbDoneNoCallback
<1>4. CASE CbDoneBegin
  BY <1>4 DEF TypeOK, CleanFree, Outstanding, TimerArmed, CbDoneBegin
<1>5. CASE CbDoneCall
  BY <1>5 DEF TypeOK, CleanFree, Outstanding, TimerArmed, CbDoneCall
<1>6. CASE CbDoneEnd
  BY <1>6 DEF TypeOK, CleanFree, Outstanding, TimerArmed, CbDoneEnd
<1>7. CASE SetCb
  BY <1>7 DEF TypeOK, CleanFree, Outstanding, TimerArmed, SetCb
<1>8. CASE Close
  BY <1>8 DEF TypeOK, CleanFree, Outstanding, TimerArmed, Close
<1> QED BY <1>1, <1>2, <1>3, <1>4, <1>5, <1>6, <1>7, <1>8 DEF Next, CbDone

\* An object without references is clean.
LEMMA CleanFreeStep ==
    ASSUME TypeOK, TimerArmed, CleanFree, Staged, [Next]_vars
    PROVE  CleanFree'
<1>1. CASE UNCHANGED vars
  BY <1>1 DEF vars, TypeOK, TimerArmed, CleanFree, InUse
<1>2. ASSUME NEW g \in Groups, User(g) \/ CbTimeout(g) PROVE CleanFree'
  <2>1. CASE Make(g)
    <3>1. InUse' = InUse \cup {g}
      BY <2>1 DEF InUse, Alive, Make
    <3>2. PICK n \in Nat, k \in Nat, t \in Kinds :
            /\ count' = [count EXCEPT ![g] = n]
            /\ timeout' = [timeout EXCEPT ![g] = t]
      BY <2>1, MakeFacts
    <3> QED BY <2>1, <3>1, <3>2 DEF TypeOK, CleanFree, Make
  <2>2. CASE Inc(g)
    <3>1. g \in InUse /\ InUse' = InUse
      BY <2>2 DEF InUse, Alive, Inc
    <3> QED BY <2>2, <3>1 DEF TypeOK, CleanFree, Inc
  <2>3. CASE Drop(g)
    <3> DEFINE S == Freed(held', groups, doneQ, tmp)
    <3>3. LetGo(held', groups, doneQ, tmp, {})
      BY <2>3 DEF Drop
    <3>4. /\ attached' = attached \ S /\ timedOut' = timedOut \ S
          /\ \A h \in Groups :
                /\ count'[h] = IF h \in S THEN 0 ELSE count[h]
                /\ timeout'[h] = IF h \in S THEN "zero" ELSE timeout[h]
      BY <3>3, LetGoFacts
    <3>1. InUse' = InUse \ S
      BY <2>3 DEF InUse, Alive, Freed, Drop
    <3>2. timer \cap S = {}
      BY DEF Freed, Alive, TimerArmed
    <3> HIDE DEF S
    <3> QED BY <2>3, <3>1, <3>2, <3>4 DEF CleanFree, Drop
  <2>4. CASE AddRefused(g)
    <3>1. g \in InUse /\ InUse' = InUse
      BY <2>4 DEF InUse, Alive, AddRefused
    <3> QED BY <2>4, <3>1 DEF TypeOK, CleanFree, AddRefused
  <2>5. CASE Add(g)
    <3>1. g \in InUse /\ InUse' = InUse
      BY <2>5 DEF InUse, Alive, Add
    <3> QED BY <2>5, <3>1 DEF TypeOK, CleanFree, Add
  <2>6. CASE Done(g)
    <3>1. g \in InUse /\ InUse' = InUse
      BY <2>6, DoneFacts, QueueFacts DEF InUse, Alive, Done
    <3>2. UNCHANGED <<timeout, timedOut, attached>> /\ timer' \subseteq timer
      BY <2>6 DEF Done
    <3>3. \A h \in Groups \ {g} : count'[h] = count[h]
      BY <2>6, DoneFacts
    <3> QED BY <3>1, <3>2, <3>3 DEF CleanFree
  <2>7. CASE CbTimeout(g)
    <3>1. g \in InUse /\ InUse' = InUse
      BY <2>7, QueueFacts DEF InUse, Alive, CbTimeout, TimerArmed
    <3> QED BY <2>7, <3>1 DEF TypeOK, CleanFree, CbTimeout
  <2> QED BY <1>2, <2>1, <2>2, <2>3, <2>4, <2>5, <2>6, <2>7 DEF User
<1>3. CASE CbDoneNoCallback
  <2> DEFINE S == Freed(held, groups, doneQ', tmp)
  <2>1. InUse' = InUse \ S
    BY <1>3, ListedFacts DEF InUse, Alive, Freed, CbDoneNoCallback, TypeOK
  <2>2. timer \cap S = {}
    BY DEF Freed, Alive, TimerArmed
  <2> QED BY <1>3, <2>1, <2>2, LetGoFacts DEF CleanFree, CbDoneNoCallback
<1>4. CASE CbDoneBegin
  <2>1. InUse' = InUse
    BY <1>4, ListedFacts DEF InUse, Alive, CbDoneBegin, TypeOK, Staged
  <2> QED BY <1>4, <2>1 DEF CleanFree, CbDoneBegin
<1>5. CASE CbDoneCall
  <2>1. InUse' = InUse
    BY <1>5, ListedFacts DEF InUse, Alive, CbDoneCall, TypeOK
  <2> QED BY <1>5, <2>1 DEF CleanFree, CbDoneCall
<1>6. CASE CbDoneEnd
  <2>1. InUse' = InUse
    BY <1>6 DEF InUse, Alive, CbDoneEnd
  <2> QED BY <1>6, <2>1 DEF CleanFree, CbDoneEnd
<1>7. CASE SetCb
  <2>1. InUse' = InUse
    BY <1>7 DEF InUse, Alive, SetCb
  <2> QED BY <1>7, <2>1 DEF CleanFree, SetCb
<1>8. CASE Close
  <2> DEFINE S == Freed(held, {}, <<>>, tmp)
  <2>1. InUse' = InUse \ S
    BY <1>8, ListedFacts DEF InUse, Alive, Freed, Close, TypeOK
  <2>2. timer' = {}
    BY <1>8 DEF Close, TimerArmed
  <2> QED BY <1>8, <2>1, <2>2, LetGoFacts DEF CleanFree, Close
<1> QED BY <1>1, <1>2, <1>3, <1>4, <1>5, <1>6, <1>7, <1>8 DEF Next, CbDone

\* Waiting groups are attached and have tasks.
LEMMA OutstandingStep ==
    ASSUME TypeOK, CleanFree, TimerArmed, Outstanding, [Next]_vars
    PROVE  Outstanding'
<1>1. CASE UNCHANGED vars
  BY <1>1 DEF vars, TypeOK, CleanFree, TimerArmed, Outstanding
<1>2. ASSUME NEW g \in Groups, User(g) \/ CbTimeout(g) PROVE Outstanding'
  <2>1. CASE Make(g)
    <3>1. g \notin groups
      BY <2>1 DEF Make, InUse, Alive
    <3> QED BY <2>1, <3>1, MakeFacts DEF TypeOK, Outstanding, Make
  <2>2. CASE Inc(g)
    BY <2>2 DEF TypeOK, CleanFree, TimerArmed, Outstanding, Inc
  <2>3. CASE Drop(g)
    <3> DEFINE S == Freed(held', groups, doneQ, tmp)
    <3>3. LetGo(held', groups, doneQ, tmp, {})
      BY <2>3 DEF Drop
    <3>4. /\ attached' = attached \ S /\ timedOut' = timedOut \ S
          /\ \A h \in Groups :
                /\ count'[h] = IF h \in S THEN 0 ELSE count[h]
                /\ timeout'[h] = IF h \in S THEN "zero" ELSE timeout[h]
      BY <3>3, LetGoFacts
    <3>1. S \cap groups = {}
      BY DEF Freed, Alive
    <3> HIDE DEF S
    <3> QED BY <2>3, <3>1, <3>4 DEF TypeOK, Outstanding, Drop
  <2>4. CASE AddRefused(g)
    BY <2>4 DEF TypeOK, CleanFree, TimerArmed, Outstanding, AddRefused
  <2>5. CASE Add(g)
    BY <2>5 DEF TypeOK, CleanFree, TimerArmed, Outstanding, Add
  <2>6. CASE Done(g)
    <3>1. UNCHANGED <<timeout, attached>>
      BY <2>6 DEF Done
    <3>2. \A h \in Groups \ {g} : count'[h] = count[h]
      BY <2>6, DoneFacts
    <3>3. CASE Counts(g) /\ count[g] = 1
      BY <2>6, <3>1, <3>2, <3>3, DoneFacts DEF TypeOK, Outstanding
    <3>4. CASE ~(Counts(g) /\ count[g] = 1)
      <4>1. UNCHANGED groups /\ count'[g] = IF Counts(g) THEN count[g] - 1 ELSE count[g]
        BY <2>6, <3>4, DoneFacts
      <4>2. g \in groups => count'[g] > 0
        BY <4>1, <3>4 DEF TypeOK, Outstanding
      <4> QED BY <3>1, <3>2, <4>1, <4>2 DEF TypeOK, Outstanding
    <3> QED BY <3>3, <3>4
  <2>7. CASE CbTimeout(g)
    BY <2>7 DEF TypeOK, CleanFree, TimerArmed, Outstanding, CbTimeout
  <2> QED BY <1>2, <2>1, <2>2, <2>3, <2>4, <2>5, <2>6, <2>7 DEF User
<1>3. CASE CbDoneNoCallback
  <2> DEFINE S == Freed(held, groups, doneQ', tmp)
  <2>1. S \cap groups = {}
    BY DEF Freed, Alive
  <2> QED BY SMTT(60), <1>3, <2>1, LetGoFacts DEF TypeOK, Outstanding, CbDoneNoCallback
<1>4. CASE CbDoneBegin
  BY <1>4 DEF TypeOK, CleanFree, TimerArmed, Outstanding, CbDoneBegin
<1>5. CASE CbDoneCall
  BY <1>5 DEF TypeOK, CleanFree, TimerArmed, Outstanding, CbDoneCall
<1>6. CASE CbDoneEnd
  BY <1>6 DEF TypeOK, CleanFree, TimerArmed, Outstanding, CbDoneEnd
<1>7. CASE SetCb
  BY <1>7 DEF TypeOK, CleanFree, TimerArmed, Outstanding, SetCb
<1>8. CASE Close
  BY <1>8 DEF TypeOK, CleanFree, TimerArmed, Outstanding, Close
<1> QED BY <1>1, <1>2, <1>3, <1>4, <1>5, <1>6, <1>7, <1>8 DEF Next, CbDone

\* The count is the number of tasks outstanding.
LEMMA CountsTasksStep ==
    ASSUME TypeOK, CleanFree, CountsTasks, [Next]_vars
    PROVE  CountsTasks'
<1>1. CASE UNCHANGED vars
  BY <1>1 DEF vars, TypeOK, CleanFree, CountsTasks
<1>2. ASSUME NEW g \in Groups, User(g) \/ CbTimeout(g) PROVE CountsTasks'
  <2>1. CASE Make(g)
    <3>1. PICK n \in Nat, t \in Kinds :
            /\ count' = [count EXCEPT ![g] = n]
            /\ pending' = [pending EXCEPT ![g] = n]
            /\ timeout' = [timeout EXCEPT ![g] = t]
      BY <2>1, MakeFacts
    <3>2. UNCHANGED timedOut
      BY <2>1 DEF Make
    <3> QED BY <3>1, <3>2 DEF TypeOK, CountsTasks
  <2>2. CASE Inc(g)
    BY <2>2 DEF TypeOK, CleanFree, CountsTasks, Inc
  <2>3. CASE Drop(g)
    BY <2>3, LetGoFacts DEF TypeOK, CountsTasks, Drop
  <2>4. CASE AddRefused(g)
    BY <2>4 DEF TypeOK, CleanFree, CountsTasks, AddRefused
  <2>5. CASE Add(g)
    BY <2>5 DEF TypeOK, CleanFree, CountsTasks, Add
  <2>6. CASE Done(g)
    <3>1. UNCHANGED <<timeout, timedOut>> /\ (EarlyDone \/ g \in attached)
      BY <2>6 DEF Done
    <3>2. CASE EarlyDone
      BY <3>2 DEF CountsTasks
    <3>3. ASSUME ~EarlyDone, timeout[g] # "zero", g \notin timedOut
         PROVE  count'[g] = pending'[g]
      <4>1. g \in attached /\ count[g] = pending[g] /\ pending[g] > 0 /\ pending[g] \in Nat
        BY <2>6, <3>1, <3>3 DEF TypeOK, CountsTasks, Done
      <4>2. Counts(g)
        BY <4>1, <3>3
      <4> QED BY <2>6, <4>1, <4>2, DoneFacts DEF TypeOK
    <3>4. \A h \in Groups \ {g} : count'[h] = count[h] /\ pending'[h] = pending[h]
      BY <2>6, DoneFacts
    <3> QED BY <3>1, <3>2, <3>3, <3>4 DEF CountsTasks
  <2>7. CASE CbTimeout(g)
    BY <2>7 DEF TypeOK, CleanFree, CountsTasks, CbTimeout
  <2> QED BY <1>2, <2>1, <2>2, <2>3, <2>4, <2>5, <2>6, <2>7 DEF User
<1>3. CASE CbDoneNoCallback
  BY <1>3, LetGoFacts DEF TypeOK, CountsTasks, CbDoneNoCallback
<1>4. CASE CbDoneBegin
  BY <1>4 DEF TypeOK, CleanFree, CountsTasks, CbDoneBegin
<1>5. CASE CbDoneCall
  BY <1>5 DEF TypeOK, CleanFree, CountsTasks, CbDoneCall
<1>6. CASE CbDoneEnd
  BY <1>6 DEF TypeOK, CleanFree, CountsTasks, CbDoneEnd
<1>7. CASE SetCb
  BY <1>7 DEF TypeOK, CleanFree, CountsTasks, SetCb
<1>8. CASE Close
  BY <1>8, LetGoFacts DEF TypeOK, CountsTasks, Close
<1> QED BY <1>1, <1>2, <1>3, <1>4, <1>5, <1>6, <1>7, <1>8 DEF Next, CbDone

\* A timer fires only before the count reaches zero.
LEMMA VerdictStep ==
    ASSUME TypeOK, CleanFree, TimerArmed, Outstanding, Verdict, [Next]_vars
    PROVE  Verdict'
<1>1. CASE UNCHANGED vars
  BY <1>1 DEF vars, TypeOK, CleanFree, TimerArmed, Outstanding, Verdict
<1>2. ASSUME NEW g \in Groups, User(g) \/ CbTimeout(g) PROVE Verdict'
  <2>1. CASE Make(g)
    <3>1. g \notin timedOut
      BY <2>1 DEF Make, CleanFree
    <3> QED BY <2>1, <3>1, MakeFacts DEF TypeOK, Verdict, Make
  <2>2. CASE Inc(g)
    BY <2>2 DEF TypeOK, CleanFree, TimerArmed, Outstanding, Verdict, Inc
  <2>3. CASE Drop(g)
    BY <2>3, LetGoFacts DEF TypeOK, Verdict, Drop
  <2>4. CASE AddRefused(g)
    BY <2>4 DEF TypeOK, CleanFree, TimerArmed, Outstanding, Verdict, AddRefused
  <2>5. CASE Add(g)
    BY <2>5 DEF TypeOK, CleanFree, TimerArmed, Outstanding, Verdict, Add
  <2>6. CASE Done(g)
    <3>1. UNCHANGED timedOut
      BY <2>6 DEF Done
    <3>2. g \in timedOut => UNCHANGED count
      BY <2>6, DoneFacts
    <3>3. \A h \in Groups \ {g} : count'[h] = count[h]
      BY <2>6, DoneFacts
    <3> QED BY <3>1, <3>2, <3>3 DEF TypeOK, Verdict
  <2>7. CASE CbTimeout(g)
    <3>1. count[g] > 0 /\ UNCHANGED count /\ timedOut' = timedOut \cup {g}
      BY <2>7 DEF CbTimeout, TimerArmed, Outstanding
    <3> QED BY <3>1 DEF Verdict
  <2> QED BY <1>2, <2>1, <2>2, <2>3, <2>4, <2>5, <2>6, <2>7 DEF User
<1>3. CASE CbDoneNoCallback
  BY <1>3, LetGoFacts DEF TypeOK, Verdict, CbDoneNoCallback
<1>4. CASE CbDoneBegin
  BY <1>4 DEF TypeOK, CleanFree, TimerArmed, Outstanding, Verdict, CbDoneBegin
<1>5. CASE CbDoneCall
  BY <1>5 DEF TypeOK, CleanFree, TimerArmed, Outstanding, Verdict, CbDoneCall
<1>6. CASE CbDoneEnd
  BY <1>6 DEF TypeOK, CleanFree, TimerArmed, Outstanding, Verdict, CbDoneEnd
<1>7. CASE SetCb
  BY <1>7 DEF TypeOK, CleanFree, TimerArmed, Outstanding, Verdict, SetCb
<1>8. CASE Close
  BY <1>8, LetGoFacts DEF TypeOK, Verdict, Close
<1> QED BY <1>1, <1>2, <1>3, <1>4, <1>5, <1>6, <1>7, <1>8 DEF Next, CbDone

\* cb_done leaves nothing behind; a closed pool is empty; what is queued keeps
\* the pool unless it was added again.
LEMMA StagedStep ==
    ASSUME TypeOK, WakeUp, TimerArmed, Outstanding, Staged, [Next]_vars
    PROVE  Staged'
<1>0. /\ ~inCb => tmp = <<>>
      /\ ~up => groups = {} /\ doneQ = <<>>
      /\ \A g \in Queued : g \notin again => g \in attached /\ g \notin groups
  BY DEF Staged
<1>1. CASE UNCHANGED vars
  BY <1>1 DEF vars, groupVars, queueVars, cbVars, history, Staged, Queued
<1>2. ASSUME NEW g \in Groups, User(g) \/ CbTimeout(g) PROVE Staged'
  <2>1. CASE Make(g)
    BY <2>1 DEF Staged, Make, Queued
  <2>2. CASE Inc(g)
    BY <2>2 DEF Staged, Inc, Queued
  <2>3. CASE Drop(g)
    <3>1. Freed(held', groups, doneQ, tmp) \cap Queued = {}
      BY DEF Freed, Alive, Queued
    <3>2. LetGo(held', groups, doneQ, tmp, {})
      BY <2>3 DEF Drop
    <3>3. attached' = attached \ ({} \cup Freed(held', groups, doneQ, tmp))
      BY <3>2, LetGoFacts
    <3>4. attached \cap Queued \subseteq attached'
      BY <3>1, <3>3
    <3>5. UNCHANGED <<inCb, tmp, up, groups, doneQ, again, Queued>>
      BY <2>3 DEF Drop, Queued
    <3> QED BY <1>0, <3>4, <3>5 DEF Staged
  <2>4. CASE AddRefused(g)
    <3>1. UNCHANGED <<inCb, tmp, up, groups, doneQ, Queued>>
      BY <2>4 DEF AddRefused, Queued
    <3>2. attached' = attached \ {g} /\ again' = again \cup ({g} \cap Queued)
      BY <2>4 DEF AddRefused
    <3> QED BY <1>0, <3>1, <3>2 DEF Staged
  <2>5. CASE Add(g)
    <3>1. UNCHANGED <<inCb, tmp, up, doneQ, Queued>> /\ up
      BY <2>5 DEF Add, Queued
    <3>2. /\ attached' = attached \cup {g} /\ groups' = groups \cup {g}
          /\ again' = again \cup ({g} \cap Queued)
      BY <2>5 DEF Add
    <3> QED BY <1>0, <3>1, <3>2 DEF Staged
  <2>6. CASE Done(g) \/ CbTimeout(g)
    <3>1. UNCHANGED <<inCb, tmp, up, again, attached>>
      BY <2>6 DEF Done, CbTimeout
    <3>2. CASE UNCHANGED queueVars
      BY <1>0, <3>1, <3>2 DEF Staged, Queued
    <3>3. CASE Queue(g)
      <4>1. groups' = groups \ {g} /\ Listed(doneQ') = Listed(doneQ) \cup (groups \cap {g})
        BY <3>3, QueueFacts
      <4>2. ~up => groups' = {} /\ doneQ' = <<>>
        BY <1>0, <3>3, QueueFacts
      <4>3. Queued' = Queued \cup (groups \cap {g})
        BY <3>1, <4>1 DEF Queued
      <4>4. groups \subseteq attached
        BY DEF Outstanding
      <4> QED BY <1>0, <3>1, <4>1, <4>2, <4>3, <4>4 DEF Staged
    <3> QED BY <2>6, <3>2, <3>3, DoneFacts DEF CbTimeout
  <2> QED BY <1>2, <2>1, <2>2, <2>3, <2>4, <2>5, <2>6 DEF User
<1>3. CASE CbDoneNoCallback
  <2>1. tmp = <<>> /\ doneQ' = <<>> /\ UNCHANGED <<inCb, tmp, up, groups>>
    BY <1>0, <1>3 DEF CbDoneNoCallback
  <2>2. Queued' = {}
    BY <2>1, EmptySeq DEF Queued, Listed
  <2> QED BY <1>0, <2>1, <2>2 DEF Staged
<1>4. CASE CbDoneBegin
  <2>1. /\ tmp = <<>> /\ inCb' /\ tmp' = doneQ /\ doneQ' = <<>>
        /\ UNCHANGED <<up, groups, attached, again>>
    BY <1>0, <1>4 DEF CbDoneBegin
  <2>2. Queued' = Queued
    BY <2>1, EmptySeq DEF Queued, Listed
  <2> QED BY <1>0, <2>1, <2>2 DEF Staged
<1>5. CASE CbDoneCall
  <2>1. Listed(tmp) = Listed(tmp') \cup {Head(tmp)}
    BY <1>5, ListedFacts DEF TypeOK, CbDoneCall
  <2>2. UNCHANGED <<inCb, up, groups, doneQ, attached>> /\ again' = again \cap Queued' /\ inCb
    BY <1>5 DEF CbDoneCall
  <2>3. Queued' \subseteq Queued
    BY <2>1, <2>2 DEF Queued
  <2> QED BY <1>0, <2>2, <2>3 DEF Staged
<1>6. CASE CbDoneEnd
  BY <1>6 DEF Staged, CbDoneEnd, Queued
<1>7. CASE SetCb
  BY <1>7 DEF Staged, SetCb, Queued
<1>8. CASE Close
  <2>1. Freed(held, {}, <<>>, tmp) \cap Listed(tmp) = {}
    BY DEF Freed, Alive
  <2>2. /\ groups' = {} /\ doneQ' = <<>> /\ UNCHANGED <<inCb, tmp>>
        /\ again' = again \cap Queued'
    BY <1>8 DEF Close
  <2>3. Queued' = Listed(tmp)
    BY <2>2, EmptySeq DEF Queued, Listed
  <2>4. attached' = attached \ (groups \cup Freed(held, {}, <<>>, tmp))
    BY <1>8, LetGoFacts DEF Close
  <2>5. Listed(tmp) \subseteq Queued
    BY DEF Queued
  <2> QED BY <1>0, <2>1, <2>2, <2>3, <2>4, <2>5 DEF Staged
<1> QED BY <1>1, <1>2, <1>3, <1>4, <1>5, <1>6, <1>7, <1>8 DEF Next, CbDone

\* A group leaves the waiting groups exactly when it enters the queue.
LEMMA QueueKeepsEntries ==
    ASSUME TypeOK, NEW g \in Groups, Queue(g), NEW h \in Groups
    PROVE  Entry(h, groups') + Entries(h, doneQ') = Entry(h, groups) + Entries(h, doneQ)
<1>1. Entries(h, doneQ) \in Nat
  BY EntriesType DEF TypeOK
<1>2. CASE g \in groups
  <2>1. Entries(h, Append(doneQ, g)) = Entries(h, doneQ) + (IF g = h THEN 1 ELSE 0)
    BY EntriesFacts DEF TypeOK
  <2> QED BY <1>1, <1>2, <2>1 DEF Entry
<1>3. CASE g \notin groups
  BY <1>1, <1>3 DEF Entry
<1> QED BY <1>2, <1>3

\* Every accepted add is accounted for once.
LEMMA ConservedStep ==
    ASSUME TypeOK, Staged, Conserved, [Next]_vars
    PROVE  Conserved'
<1> SUFFICES ASSUME NEW h \in Groups
             PROVE  adds'[h] = calls'[h] + lost'[h] + Entry(h, groups')
                               + Entries(h, doneQ') + Entries(h, tmp')
  BY DEF Conserved
<1>1. /\ adds[h] = calls[h] + lost[h] + Entry(h, groups)
                   + Entries(h, doneQ) + Entries(h, tmp)
      /\ adds[h] \in Nat /\ calls[h] \in Nat /\ lost[h] \in Nat
      /\ Entry(h, groups) \in Nat /\ Entries(h, doneQ) \in Nat /\ Entries(h, tmp) \in Nat
  BY EntriesType DEF Conserved, TypeOK, Entry
<1>2. Entries(h, <<>>) = 0 /\ Entry(h, {}) = 0
  BY EntriesFacts, EmptySeq DEF Entry
<1>3. CASE UNCHANGED <<queueVars, tmp, history>>
  BY <1>1, <1>3
<1>4. ASSUME NEW g \in Groups, Add(g)
      PROVE  adds'[h] = calls'[h] + lost'[h] + Entry(h, groups')
                        + Entries(h, doneQ') + Entries(h, tmp')
  <2>1. adds'[h] + Entry(h, groups) = adds[h] + Entry(h, groups')
    BY SMTT(60), <1>1, <1>4 DEF Add, Entry, TypeOK
  <2>2. Entry(h, groups') \in Nat
    BY DEF Entry
  <2>3. adds'[h] \in Nat
    BY <1>1, <1>4 DEF Add, TypeOK
  <2>4. UNCHANGED <<calls, lost, doneQ, tmp>>
    BY <1>4 DEF Add
  <2> QED BY <1>1, <2>1, <2>2, <2>3, <2>4
<1>5. ASSUME NEW g \in Groups, Done(g) \/ CbTimeout(g)
      PROVE  adds'[h] = calls'[h] + lost'[h] + Entry(h, groups')
                        + Entries(h, doneQ') + Entries(h, tmp')
  <2>1. UNCHANGED <<tmp, history>> /\ (UNCHANGED queueVars \/ Queue(g))
    BY <1>5 DEF Done, CbTimeout
  <2>2. Entry(h, groups') + Entries(h, doneQ') = Entry(h, groups) + Entries(h, doneQ)
    BY <2>1, QueueKeepsEntries
  <2>3. Entry(h, groups') \in Nat /\ Entries(h, doneQ') \in Nat
    BY <1>1, <2>1, QueueFacts, EntriesType DEF Entry
  <2> HIDE DEF Queue
  <2> QED BY <1>1, <2>1, <2>2, <2>3
<1>6. CASE CbDoneNoCallback
  BY <1>1, <1>2, <1>6 DEF CbDoneNoCallback
<1>7. CASE CbDoneBegin
  <2>1. tmp = <<>> /\ tmp' = doneQ /\ doneQ' = <<>> /\ UNCHANGED <<groups, history>>
    BY <1>7 DEF CbDoneBegin, Staged
  <2> QED BY <1>1, <1>2, <2>1
<1>8. CASE CbDoneCall
  <2>1. Entries(h, tmp) = Entries(h, Tail(tmp)) + (IF Head(tmp) = h THEN 1 ELSE 0)
    BY <1>8, EntriesFacts DEF CbDoneCall, TypeOK
  <2>2. calls'[h] = calls[h] + (IF Head(tmp) = h THEN 1 ELSE 0)
    <3>1. Head(tmp) \in Groups /\ calls' = [calls EXCEPT ![Head(tmp)] = calls[Head(tmp)] + 1]
      BY <1>8, ListedFacts DEF CbDoneCall, TypeOK
    <3>2. calls \in [Groups -> Nat]
      BY DEF TypeOK
    <3>3. CASE Head(tmp) = h
      BY <3>1, <3>2, <3>3
    <3>4. CASE Head(tmp) # h
      BY <3>1, <3>2, <3>4
    <3> QED BY <3>3, <3>4
  <2>3. Entries(h, tmp') = Entries(h, Tail(tmp)) /\ Entries(h, tmp') \in Nat
    BY <1>8, ListedFacts, EntriesType DEF CbDoneCall, TypeOK
  <2>4. UNCHANGED <<adds, lost, groups, doneQ>>
    BY <1>8 DEF CbDoneCall
  <2> QED BY <1>1, <2>1, <2>2, <2>3, <2>4
<1>9. CASE Close
  BY <1>1, <1>2, <1>9 DEF Close
<1>10. \/ UNCHANGED <<queueVars, tmp, history>>
       \/ \E g \in Groups : Add(g) \/ Done(g) \/ CbTimeout(g)
       \/ CbDoneNoCallback \/ CbDoneBegin \/ CbDoneCall \/ Close
  BY DEF Next, User, CbDone, vars, Make, Inc, Drop, AddRefused, CbDoneEnd, SetCb
<1> QED BY <1>3, <1>4, <1>5, <1>6, <1>7, <1>8, <1>9, <1>10

-----------------------------------------------------------------------------
(* Theorems                                                                *)

\* The inductive invariant holds in every reachable state: wake-ups, timers,
\* counts and recycled objects of the wait pool are right.
THEOREM WaitCorrect == Spec => []Inductive
<1>1. Init => Inductive
  <2> SUFFICES ASSUME Init PROVE Inductive
    OBVIOUS
  <2>1. TypeOK
    BY EmptySeq DEF Init, TypeOK
  <2>2. Queued = {}
    BY DEF Init, Queued, Listed
  <2> QED BY <2>1, <2>2 DEF Init, Inductive, WakeUp, TimerArmed, CleanFree, Outstanding,
                           CountsTasks, Verdict, Staged
<1>2. Inductive /\ [Next]_vars => Inductive'
  BY TypeOKStep, WakeUpStep, TimerArmedStep, CleanFreeStep, OutstandingStep,
     CountsTasksStep, VerdictStep, StagedStep DEF Inductive
<1> QED BY <1>1, <1>2, PTL DEF Spec

\* No finished group waits in _done with the prepare watcher stopped.
THEOREM WakeUpHolds == Spec => []WakeUp
  BY WaitCorrect, PTL DEF Inductive

\* No timer fires for a finished, closed or recycled group.
THEOREM TimerArmedHolds == Spec => []TimerArmed
  BY WaitCorrect, PTL DEF Inductive

\* make_group returns objects without a trace of their earlier use.
THEOREM CleanFreeHolds == Spec => []CleanFree
  BY WaitCorrect, PTL DEF Inductive

\* A group that is waited for is attached to the pool and has tasks left.
THEOREM OutstandingHolds == Spec => []Outstanding
  BY WaitCorrect, PTL DEF Inductive

\* The count of a group is the number of its tasks outstanding.
THEOREM CountsTasksHolds == Spec => []CountsTasks
  BY WaitCorrect, PTL DEF Inductive

\* is_timeout() never comes with a count of zero.
THEOREM VerdictHolds == Spec => []Verdict
  BY WaitCorrect, PTL DEF Inductive

\* Every accepted group is called back at most once and never disappears.
THEOREM ConservedHolds == Spec => []Conserved
<1>1. Init => Conserved
  <2> SUFFICES ASSUME Init, NEW g \in Groups
               PROVE  adds[g] = calls[g] + lost[g] + Entry(g, groups)
                                + Entries(g, doneQ) + Entries(g, tmp)
    BY DEF Conserved
  <2>1. Entries(g, <<>>) = 0
    BY EntriesFacts, EmptySeq
  <2> QED BY <2>1 DEF Init, Entry
<1>2. TypeOK /\ Staged /\ Conserved /\ [Next]_vars => Conserved'
  BY ConservedStep
<1>3. Inductive => TypeOK /\ Staged
  BY DEF Inductive
<1> QED BY <1>1, <1>2, <1>3, WaitCorrect, PTL DEF Spec

\* cb_done goes on in a pool nobody holds only with groups that were added again
\* while they were queued, whatever the callback does with the others, and when
\* it destroys the Wait.
THEOREM PoolAliveHolds == Spec => []PoolAlive
<1>1. Inductive => PoolAlive
  <2> SUFFICES ASSUME Inductive, attached = {}, NEW g \in Listed(tmp)
               PROVE  g \in again
    BY DEF PoolAlive, PoolGone
  <2>1. g \in Queued
    BY DEF Queued
  <2> QED BY <2>1 DEF Inductive, Staged
<1> QED BY <1>1, WaitCorrect, PTL

=============================================================================
