------------------------------- MODULE Caches --------------------------------
(***************************************************************************)
(* cache::FreeList, cache::STDCache and cache::ArrayCache of one thread.   *)
(* Objects have a capacity; the sized lists hold them by powers of two.    *)
(***************************************************************************)
EXTENDS Integers, Sequences, FiniteSets

CONSTANTS
    Top,        \* highest size class, 31 in the code
    Limit,      \* MaxSize of a FreeList
    NumObjects, \* bound: objects
    MaxOps      \* bound: calls of the user

ASSUME CacheBounds == {Top, Limit, NumObjects, MaxOps} \subseteq Nat

\* The law of exponents for the classes, which the provers do not know.
ASSUME PowersOfTwo == \A i \in 0..Top : 2 ^ (i + 1) = 2 * 2 ^ i

Objects == 1..NumObjects

\* The lists: the plain cache, empty_free_list, sized_free_list, big_free_list.
Plain == -2
Empty == -1
Sized == 0..Top
Big == Top + 1
Lists == {Plain, Empty, Big} \cup Sized

VARIABLES
    ops,        \* calls so far
    doubles,    \* the objects are strings, which at least double when they grow
    limit,      \* capacity of the lists: 0 when reserve had no memory
    classes,    \* FreeListVector has its lists: not when resize had no memory
    born,       \* objects that exist
    cap,        \* capacity of each
    most,       \* the largest size anybody wanted of each
    dirty,      \* objects with contents
    held,       \* objects the user has
    lists       \* objects in each list

cacheVars == <<ops, doubles, limit, classes, born, cap, most, dirty, held, lists>>

CachesInit ==
    /\ ops = 0 /\ doubles \in BOOLEAN /\ limit \in {0, Limit} /\ classes \in BOOLEAN
    /\ born = {} /\ dirty = {} /\ held = {}
    /\ cap = [o \in Objects |-> 0] /\ most = [o \in Objects |-> 0]
    /\ lists = [l \in Lists |-> <<>>]

Op == ops < MaxOps /\ ops' = ops + 1 /\ UNCHANGED <<doubles, limit, classes>>

-----------------------------------------------------------------------------
(* Capacities                                                              *)

\* Faulty variant: rounded down.
IndexOf_Floor(n) == CHOOSE i \in 0..(Top + 1) : 2 ^ i <= n /\ n < 2 ^ (i + 1)

\* get_index: the class whose size is not below n.
IndexOf(n) == CHOOSE i \in 0..(Top + 1) : n <= 2 ^ i /\ (i > 0 => 2 ^ (i - 1) < n)

\* get_upper_bound
UpperBound(n) == IF n < 2 THEN n ELSE 2 ^ IndexOf(n)

\* A new string has 2^k - 1 bytes of its own, a new vector none.
InitialCap == IF doubles THEN 3 ELSE 0

\* reserve(n) of an object of capacity c.
Reserved(c, n) ==
    IF n <= c THEN c ELSE IF doubles /\ n < 2 * c THEN 2 * c ELSE n

\* Capacities in which c may end when n bytes are filled in: a vector takes them
\* at once or one by one, doubling.
Grown(c, n) ==
    IF n <= c THEN {c}
    ELSE IF doubles THEN {Reserved(c, n)}
    ELSE LET one == IF c = 0 THEN 1 ELSE c
         IN  {n} \cup {m \in n..(2 * n - 1) : \E k \in 0..(Top + 1) : m = one * 2 ^ k}

-----------------------------------------------------------------------------
(* FreeList                                                                *)

Without(l) == [lists EXCEPT ![l] = SubSeq(@, 1, Len(@) - 1)]

\* pop: the last object of a list, or a new one.
Popped(l, o) ==
    IF lists[l] # <<>>
    THEN /\ o = lists[l][Len(lists[l])] /\ lists' = Without(l) /\ UNCHANGED born
    ELSE /\ o \in Objects \ born /\ \A p \in Objects \ born : o <= p
         /\ born' = born \cup {o} /\ UNCHANGED lists

CapOf(o) == IF o \in born THEN cap[o] ELSE InitialCap

\* push at the limit deletes the object.
Pushed(l, o) ==
    IF Len(lists[l]) >= limit
    THEN born' = born \ {o} /\ UNCHANGED lists
    ELSE UNCHANGED born /\ lists' = [lists EXCEPT ![l] = Append(@, o)]

-----------------------------------------------------------------------------
(* get and release                                                         *)

\* FreeListVector::pop: the first list from the class upwards that has one.
ListFor(i) ==
    LET full == {j \in Sized : j >= i /\ lists[j] # <<>>}
    IN  IF full = {} THEN i ELSE CHOOSE j \in full : \A k \in full : j <= k

Source(n) == IF n = 0 THEN Empty ELSE IF n > 2 ^ Top THEN Big ELSE ListFor(IndexOf(n))

Wanted(n) == IF n > 2 ^ Top THEN n ELSE UpperBound(n)

\* free_list_v[index]: there must be lists.
Indexed(l) == l \in Sized => classes

\* ArrayCache::get_raw
GetRaw(n) ==
    /\ Op /\ Indexed(Source(n))
    /\ \E o \in Objects :
        /\ Popped(Source(n), o)
        /\ held' = held \cup {o}
        /\ cap' = [cap EXCEPT ![o] = Reserved(CapOf(o), Wanted(n))]
        /\ most' = [most EXCEPT ![o] = IF o \in born /\ @ > n THEN @ ELSE n]
    /\ UNCHANGED dirty

\* reserve has no memory: the object is deleted, the user gets none.
GetFails(n) ==
    /\ Op /\ Indexed(Source(n)) /\ lists[Source(n)] # <<>>
    /\ LET l == Source(n) o == lists[l][Len(lists[l])] IN
        /\ cap[o] < Wanted(n) /\ lists' = Without(l) /\ born' = born \ {o}
    /\ UNCHANGED <<cap, most, dirty, held>>

\* BaseCache::get_raw
GetPlain ==
    /\ Op
    /\ \E o \in Objects :
        /\ Popped(Plain, o) /\ held' = held \cup {o}
        /\ cap' = [cap EXCEPT ![o] = CapOf(o)]
        /\ most' = [most EXCEPT ![o] = IF o \in born THEN @ ELSE 0]
    /\ UNCHANGED dirty

\* The user fills an object with n bytes.
Write(o, n) ==
    /\ Op /\ o \in held /\ dirty' = dirty \cup {o}
    /\ \E c \in Grown(cap[o], n) : cap' = [cap EXCEPT ![o] = c]
    /\ most' = [most EXCEPT ![o] = IF @ > n THEN @ ELSE n]
    /\ UNCHANGED <<born, held, lists>>

Target(o) ==
    IF cap[o] = 0 THEN Empty ELSE IF cap[o] > 2 ^ Top THEN Big ELSE IndexOf(UpperBound(cap[o]))

GivesBack(o) == o \in held /\ held' = held \ {o} /\ dirty' = dirty \ {o}

\* ArrayCache::release
Release(o) ==
    /\ Op /\ Indexed(Target(o)) /\ GivesBack(o) /\ Pushed(Target(o), o)
    /\ cap' = IF Target(o) \in Sized
              THEN [cap EXCEPT ![o] = Reserved(@, UpperBound(@))] ELSE cap
    /\ UNCHANGED most

\* reserve has no memory: the object is deleted.
ReleaseFails(o) ==
    /\ Op /\ GivesBack(o)
    /\ Target(o) \in Sized /\ cap[o] # UpperBound(cap[o])
    /\ born' = born \ {o}
    /\ UNCHANGED <<cap, most, lists>>

\* get_raw or release of a class reads where free_list_v has nothing: the process
\* ends, and no call follows.
Crash ==
    /\ ops < MaxOps /\ ops' = MaxOps
    /\ \/ \E n \in 1..(2 ^ Top) : ~Indexed(Source(n))
       \/ \E o \in held : ~Indexed(Target(o))
    /\ UNCHANGED <<doubles, limit, classes, born, cap, most, dirty, held, lists>>

\* BaseCache::release of an STDCache
ReleasePlain(o) ==
    /\ Op /\ GivesBack(o) /\ Pushed(Plain, o)
    /\ UNCHANGED <<cap, most>>

\* clear of either cache
Clear(ls) ==
    /\ Op
    /\ lists' = [l \in Lists |-> IF l \in ls THEN <<>> ELSE lists[l]]
    /\ born' = born \ UNION {{lists[l][i] : i \in DOMAIN lists[l]} : l \in ls}
    /\ UNCHANGED <<cap, most, dirty, held>>

CachesNext ==
    \/ \E n \in 0..(2 ^ Top + 1) : GetRaw(n) \/ GetFails(n) \/ \E o \in Objects : Write(o, n)
    \/ \E o \in Objects : Release(o) \/ ReleaseFails(o) \/ ReleasePlain(o)
    \/ GetPlain \/ Crash \/ Clear({Plain}) \/ Clear(Lists \ {Plain})

-----------------------------------------------------------------------------
(* Properties                                                              *)

In(o) == {p \in {<<l, i>> : l \in Lists, i \in 1..Limit} : p[2] <= Len(lists[p[1]]) /\ lists[p[1]][p[2]] = o}

\* An object is with the user or in one list once or does not exist; what waits
\* in a list is empty and as large as its class, what the user got as large as
\* he asked.  A vector, which may double to hold one element more, never holds
\* more than a class above the most anybody wanted of it, however often it is
\* rounded up, given out again and filled; a string does, for its reserve doubles.
Kept ==
    /\ \A o \in Objects :
        Cardinality(In(o)) + (IF o \in held THEN 1 ELSE 0) = (IF o \in born THEN 1 ELSE 0)
    /\ \A o \in born : In(o) # {} => o \notin dirty
    /\ \A l \in Lists : Len(lists[l]) <= limit
    /\ \A l \in Sized, i \in 1..Limit : i <= Len(lists[l]) => cap[lists[l][i]] >= 2 ^ l
    /\ \A o \in held : cap[o] >= most[o]
    /\ \A o \in born : ~doubles /\ most[o] <= 2 ^ Top => cap[o] <= 2 * UpperBound(most[o])

=============================================================================
