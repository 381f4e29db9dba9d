------------------------ MODULE ServerConnectionProofs ------------------------
(* Theorems about ServerConnection, for every number of connections,       *)
(* requests and sessions, every free-list limit and every response length. *)
EXTENDS ServerConnection, SequenceTheorems, TLAPS

USE NoConnAssumption, BoundsAssumption
USE DEF Writable, Rest, Resume, WatchAfter, WatchUser, AfterCall, StartsWrite,
        NewRequests, DetachAll, DisconnectEffect

-----------------------------------------------------------------------------
(* Type correctness                                                        *)

\* Connection::close keeps the types of what it assigns.
LEMMA CloseType ==
    ASSUME TypeOK, NEW c \in Conns, Close(c)
    PROVE  /\ open' \subseteq Conns /\ conns' \subseteq Conns
           /\ freeConns' \in Seq(Conns)
           /\ w' \in [Conns -> SUBSET Watchers]
           /\ out' \in [Conns -> Seq(Rids)]
           /\ user' \in [Conns -> Seq(Rids)]
  BY DEF TypeOK, Close, Park, Watchers

\* So does the write loop, whichever way it ends.
LEMMA FlushType ==
    ASSUME TypeOK, NEW c \in Conns, NEW others \in SUBSET Watchers,
           Flush(c, others)
    PROVE  /\ open' \subseteq Conns /\ conns' \subseteq Conns
           /\ freeConns' \in Seq(Conns)
           /\ w' \in [Conns -> SUBSET Watchers]
           /\ out' \in [Conns -> Seq(Rids)]
           /\ user' \in [Conns -> Seq(Rids)]
           /\ sent' \in [Rids -> 0..Size]
<1> DEFINE done(m) == {out[c][i] : i \in 1..m}
           left(m) == SubSeq(out[c], m + 1, Len(out[c]))
           stop(m) == left(m) = <<>> \/ left(m)[1] \notin ready
<1>1. PICK m \in 0..Len(out[c]), p \in 0..(Size - 1) :
        /\ sent' = [r \in Rids |-> IF r \in done(m) THEN Size
                                   ELSE IF ~stop(m) /\ r = left(m)[1] THEN p
                                   ELSE sent[r]]
        /\ \/ /\ out' = [out EXCEPT ![c] = left(m)]
              /\ w' = [w EXCEPT ![c] = others \cup
                                       (IF stop(m) THEN {} ELSE {"write"})]
              /\ UNCHANGED <<open, poolVars, user>>
           \/ Close(c)
  BY DEF Flush
<1>2. sent' \in [Rids -> 0..Size]
  <2> HIDE DEF done, left, stop
  <2> QED BY <1>1 DEF TypeOK
<1>3. out[c] \in Seq(Rids) /\ left(m) \in Seq(Rids)
  BY DEF TypeOK
<1>4. CASE Close(c)
  BY <1>2, <1>4, CloseType
<1>5. CASE /\ out' = [out EXCEPT ![c] = left(m)]
           /\ w' = [w EXCEPT ![c] = others \cup
                                    (IF stop(m) THEN {} ELSE {"write"})]
           /\ UNCHANGED <<open, poolVars, user>>
  <2> HIDE DEF left, stop
  <2> QED BY <1>2, <1>3, <1>5 DEF TypeOK, poolVars, Watchers
<1> QED BY <1>1, <1>4, <1>5

\* Every variable keeps its type in every step of the connections, the pool
\* and the application.
LEMMA TypeStep == TypeOK /\ [Next]_vars => TypeOK'
<1> SUFFICES ASSUME TypeOK, [Next]_vars PROVE TypeOK'
  OBVIOUS
<1> USE DEF poolVars, reqVars, cbVars
<1>1. CASE UNCHANGED vars
  BY <1>1 DEF TypeOK, vars
<1>2. CASE Shutdown
  <2>1. /\ w' \in [Conns -> SUBSET Watchers]
        /\ out' \in [Conns -> Seq(Rids)]
        /\ user' \in [Conns -> Seq(Rids)]
    BY <1>2, EmptySeq DEF Shutdown
  <2>2. freeConns' \in Seq(Conns) /\ open' \subseteq Conns /\ conns' \subseteq Conns
    BY <1>2 DEF Shutdown
  <2> QED BY <1>2, <2>1, <2>2 DEF TypeOK, Shutdown
<1>3. ASSUME NEW c \in Conns, Loop(c) PROVE TypeOK'
  <2>1. CASE Accept(c)
    BY <2>1 DEF TypeOK, Accept, FreeAfterGet
  <2>2. CASE AcceptNoBuffer(c)
    <3>1. FreeAfterGet \in Seq(Conns)
      BY DEF TypeOK, FreeAfterGet
    <3>2. freeConns' \in Seq(Conns)
      BY <2>2, <3>1 DEF AcceptNoBuffer, Park
    <3> QED BY <2>2, <3>2 DEF TypeOK, AcceptNoBuffer
  <2>3. CASE CbRead(c)
    <3>1. PICK k \in 1..(MaxReq - nreq) :
            /\ nreq' = nreq + k
            /\ rconn' = [r \in Rids |-> IF r > nreq /\ r <= nreq + k THEN c
                                        ELSE rconn[r]]
            /\ rsess' = [r \in Rids |-> IF r > nreq /\ r <= nreq + k
                                        THEN session[c] ELSE rsess[r]]
            /\ out' = [out EXCEPT ![c] = @ \o [i \in 1..k |-> nreq + i]]
            /\ user' = [user EXCEPT ![c] = @ \o [i \in 1..k |-> nreq + i]]
      BY <2>3 DEF CbRead
    <3>2. [i \in 1..k |-> nreq + i] \in Seq(Rids)
      BY DEF TypeOK, Rids
    <3>3. /\ out[c] \o [i \in 1..k |-> nreq + i] \in Seq(Rids)
          /\ user[c] \o [i \in 1..k |-> nreq + i] \in Seq(Rids)
      BY <3>2 DEF TypeOK
    <3>4. nreq' \in 0..MaxReq
      BY <3>1 DEF TypeOK
    <3>5. rconn' \in [Rids -> Conns \cup {NoConn}] /\ rsess' \in [Rids -> Nat]
      BY <3>1 DEF TypeOK
    <3>6. w' \in [Conns -> SUBSET Watchers]
      BY <2>3 DEF CbRead, TypeOK, Watchers
    <3>7. out' \in [Conns -> Seq(Rids)] /\ user' \in [Conns -> Seq(Rids)]
      BY <3>1, <3>3 DEF TypeOK
    <3> QED BY <2>3, <3>4, <3>5, <3>6, <3>7 DEF CbRead, TypeOK
  <2>4. CASE CbReadFail(c)
    BY <2>4, CloseType DEF TypeOK, CbReadFail
  <2>5. CASE KeepAliveTimeout(c)
    BY <2>5, CloseType DEF TypeOK, KeepAliveTimeout
  <2>6. CASE CbClose(c)
    BY <2>6, CloseType DEF TypeOK, CbClose
  <2>7. CASE CbWrite(c)
    <3>1. w[c] \ {"write"} \in SUBSET Watchers
      BY DEF TypeOK
    <3> QED BY <2>7, <3>1, FlushType DEF TypeOK, CbWrite
  <2>8. CASE CbUserBegin(c)
    BY SMTT(60), <2>8 DEF TypeOK, CbUserBegin
  <2>9. CASE CbUserNext(c)
    BY SMTT(60), <2>9 DEF TypeOK, CbUserNext
  <2>10. CASE CbUserAbort(c)
    BY <2>10 DEF TypeOK, CbUserAbort
  <2>11. CASE CbUserEnd(c)
    <3>1. w[c] \ {"user"} \in SUBSET Watchers
      BY DEF TypeOK
    <3>2. CASE "write" \in w[c]
      <4>1. w' \in [Conns -> SUBSET Watchers]
        BY <2>11, <3>1, <3>2 DEF TypeOK, CbUserEnd
      <4> QED BY <2>11, <3>2, <4>1 DEF TypeOK, CbUserEnd
    <3>3. CASE "write" \notin w[c]
      BY <2>11, <3>1, <3>3, FlushType DEF TypeOK, CbUserEnd
    <3> QED BY <3>2, <3>3
  <2> QED BY <1>3, <2>1, <2>2, <2>3, <2>4, <2>5, <2>6, <2>7, <2>8, <2>9,
             <2>10, <2>11 DEF Loop
<1>4. ASSUME NEW c \in Conns, App(c) PROVE TypeOK'
  <2>1. CASE Keep(c)
    BY <2>1 DEF TypeOK, Keep
  <2>2. CASE Release(c)
    BY <2>2 DEF TypeOK, Release
  <2>3. CASE Disconnect(c)
    BY <2>3 DEF TypeOK, Disconnect, Watchers
  <2>4. ASSUME NEW r \in Rids, Send(c, r) PROVE TypeOK'
    BY <2>4 DEF TypeOK, Send, Watchers
  <2>5. ASSUME NEW r \in Rids, SendNoMemory(c, r) PROVE TypeOK'
    BY <2>5 DEF TypeOK, SendNoMemory, Watchers
  <2> QED BY <1>4, <2>1, <2>2, <2>3, <2>4, <2>5 DEF App
<1> QED BY <1>1, <1>2, <1>3, <1>4 DEF Next

\* The types hold initially.
LEMMA TypeInit == Init => TypeOK
  BY DEF Init, TypeOK, Rids, Watchers

\* Every reachable state is well typed, for every value of the constants.
THEOREM TypeCorrect == Spec => []TypeOK
<1> QED BY TypeInit, TypeStep, PTL DEF Spec

-----------------------------------------------------------------------------
(* What steps do to the queues.  The other invariants are proved from this *)
(* list of effects instead of from the actions.                            *)

\* Nothing that the order of responses depends on changes.
Quiet == /\ UNCHANGED <<open, out, session, reqVars, sent>>
         /\ ready \subseteq ready'

ClosedOne(c) == Close(c) /\ UNCHANGED <<session, reqVars, ready, sent>>
FlushedOne(c) == /\ \E others \in SUBSET {"user", "close"} : Flush(c, others)
                 /\ UNCHANGED <<session, reqVars, ready>>

\* A step accepts, reads, closes, writes, shuts down, or is quiet.
LEMMA Effects ==
    ASSUME TypeOK, ClosedIsClean, [Next]_vars
    PROVE  \/ \E c \in Conns : Accept(c)
           \/ \E c \in Conns : CbRead(c)
           \/ \E c \in open : ClosedOne(c)
           \/ \E c \in open : FlushedOne(c)
           \/ Shutdown
           \/ \E c \in Conns : AcceptNoBuffer(c)
           \/ Quiet /\ UNCHANGED poolVars
<1> USE DEF reqVars, poolVars
<1>1. CASE UNCHANGED vars
  BY <1>1 DEF vars, Quiet
<1>2. ASSUME NEW c \in Conns, Loop(c)
      PROVE  \/ Accept(c) \/ AcceptNoBuffer(c) \/ CbRead(c)
             \/ c \in open /\ ClosedOne(c)
             \/ c \in open /\ FlushedOne(c)
             \/ Quiet /\ UNCHANGED poolVars
  <2>1. CASE CbReadFail(c) \/ KeepAliveTimeout(c)
    BY <2>1 DEF CbReadFail, KeepAliveTimeout, ClosedOne
  <2>2. CASE CbClose(c)
    BY <2>2 DEF CbClose, ClosedOne, ClosedIsClean
  <2>3. CASE CbWrite(c)
    <3>1. w[c] \ {"write"} \in SUBSET {"user", "close"}
      BY DEF TypeOK, Watchers
    <3> QED BY <2>3, <3>1 DEF CbWrite, FlushedOne, ClosedIsClean
  <2>4. CASE CbUserBegin(c) \/ CbUserNext(c) \/ CbUserAbort(c)
    BY <2>4 DEF CbUserBegin, CbUserNext, CbUserAbort, Quiet
  <2>5. CASE CbUserEnd(c)
    <3>1. "write" \notin w[c] => w[c] \ {"user"} \in SUBSET {"user", "close"}
      BY DEF TypeOK, Watchers
    <3> QED BY <2>5, <3>1 DEF CbUserEnd, FlushedOne, Quiet
  <2> QED BY <1>2, <2>1, <2>2, <2>3, <2>4, <2>5 DEF Loop
<1>3. ASSUME NEW c \in Conns, App(c) PROVE Quiet /\ UNCHANGED poolVars
  BY <1>3 DEF App, Keep, Release, Disconnect, Send, SendNoMemory, Quiet
<1> QED BY <1>1, <1>2, <1>3 DEF Next

-----------------------------------------------------------------------------
(* The pool                                                                *)

\* Parking a connection that is not in the list keeps the list bounded and
\* free of duplicates, and adds at most that connection.
LEMMA ParkKeeps ==
    ASSUME NEW free \in Seq(Conns), NEW c \in Conns, ~In(c, free),
           Len(free) <= MaxFree,
           \A i, j \in DOMAIN free : free[i] = free[j] => i = j
    PROVE  /\ Len(Park(free, c)) <= MaxFree
           /\ \A i, j \in DOMAIN Park(free, c) :
                 Park(free, c)[i] = Park(free, c)[j] => i = j
           /\ \A d \in Conns : In(d, Park(free, c)) => d = c \/ In(d, free)
<1>1. CASE Len(free) < MaxFree
  <2>1. Park(free, c) = Append(free, c)
    BY <1>1 DEF Park
  <2>2. /\ Len(Append(free, c)) = Len(free) + 1
        /\ \A i \in 1..Len(free) : Append(free, c)[i] = free[i]
        /\ Append(free, c)[Len(free) + 1] = c
        /\ DOMAIN Append(free, c) = 1..(Len(free) + 1)
        /\ DOMAIN free = 1..Len(free)
        /\ Len(free) \in Nat
    BY AppendProperties
  <2> QED BY <1>1, <2>1, <2>2 DEF In
<1>2. CASE ~(Len(free) < MaxFree)
  BY <1>2 DEF Park
<1> QED BY <1>1, <1>2

\* The list that Pool::get leaves is the old one without the connection it
\* returns, which was not in use.
LEMMA GetKeeps ==
    ASSUME TypeOK, PoolConsistent, NEW c \in Conns, Gettable(c)
    PROVE  /\ FreeAfterGet \in Seq(Conns)
           /\ Len(FreeAfterGet) <= MaxFree
           /\ \A i, j \in DOMAIN FreeAfterGet :
                 FreeAfterGet[i] = FreeAfterGet[j] => i = j
           /\ \A d \in Conns : In(d, FreeAfterGet) => In(d, freeConns)
           /\ ~In(c, FreeAfterGet) /\ c \notin open
<1>1. CASE freeConns = <<>>
  BY <1>1, EmptySeq DEF FreeAfterGet, In, Gettable, PoolConsistent
<1>2. CASE freeConns # <<>>
  <2>1. freeConns \in Seq(Conns) /\ Len(freeConns) \in Nat \ {0}
    BY <1>2, EmptySeq DEF TypeOK
  <2>2. /\ c = freeConns[Len(freeConns)]
        /\ FreeAfterGet = SubSeq(freeConns, 1, Len(freeConns) - 1)
    BY <1>2 DEF Gettable, FreeAfterGet
  <2> DEFINE last == Len(freeConns) - 1
  <2>4. last \in Int /\ \A i \in 1..last : freeConns[i] \in Conns
    BY <2>1
  <2>5. /\ FreeAfterGet \in Seq(Conns)
        /\ Len(FreeAfterGet) = IF 1 <= last THEN last - 1 + 1 ELSE 0
        /\ \A i \in 1..(last - 1 + 1) : FreeAfterGet[i] = freeConns[1 + i - 1]
    BY <2>2, <2>4, SubSeqProperties
  <2>3. /\ Len(FreeAfterGet) = Len(freeConns) - 1
        /\ \A i \in 1..(Len(freeConns) - 1) : FreeAfterGet[i] = freeConns[i]
        /\ DOMAIN FreeAfterGet = 1..(Len(freeConns) - 1)
        /\ DOMAIN freeConns = 1..Len(freeConns)
        /\ FreeAfterGet \in Seq(Conns)
    <3>1. Len(FreeAfterGet) = Len(freeConns) - 1
      <4>1. Len(freeConns) \in Nat \ {0}
        BY <2>1
      <4>2. Len(FreeAfterGet) = IF 1 <= last THEN last - 1 + 1 ELSE 0
        BY <2>5
      <4> QED BY <4>1, <4>2
    <3>2. ASSUME NEW i \in 1..(Len(freeConns) - 1)
          PROVE  FreeAfterGet[i] = freeConns[i]
      <4>1. 1 + i - 1 = i /\ i \in 1..(last - 1 + 1)
        BY <2>1
      <4> QED BY <2>5, <4>1
    <3>3. DOMAIN FreeAfterGet = 1..(Len(freeConns) - 1)
      BY <2>5, <3>1, LenProperties
    <3>4. DOMAIN freeConns = 1..Len(freeConns)
      BY <2>1, LenProperties
    <3> HIDE DEF last
    <3> QED BY <2>5, <3>1, <3>2, <3>3, <3>4
  <2> QED BY <2>1, <2>2, <2>3 DEF In, PoolConsistent
<1> QED BY <1>1, <1>2

\* Pool and connections agree after every step, and a closed object is clean.
LEMMA PoolStep ==
    ASSUME TypeOK, PoolConsistent, ClosedIsClean, [Next]_vars
    PROVE  PoolConsistent'
<1>1. ASSUME NEW c \in open, Close(c) PROVE PoolConsistent'
  <2>1. c \in Conns /\ c \in conns /\ ~In(c, freeConns)
    BY <1>1 DEF TypeOK, PoolConsistent
  <2>2. /\ freeConns' = Park(freeConns, c)
        /\ open' = open \ {c} /\ conns' = conns \ {c}
    BY <1>1, <2>1 DEF Close
  <2>3. /\ Len(freeConns') <= MaxFree
        /\ \A i, j \in DOMAIN freeConns' : freeConns'[i] = freeConns'[j] => i = j
        /\ \A d \in Conns : In(d, freeConns') => d = c \/ In(d, freeConns)
    BY <2>1, <2>2, ParkKeeps DEF TypeOK, PoolConsistent
  <2>4. \A d \in open' : ~In(d, freeConns')
    BY <2>2, <2>3 DEF TypeOK, PoolConsistent
  <2> QED BY <2>2, <2>3, <2>4 DEF PoolConsistent, In
<1>2. ASSUME NEW c \in Conns, Accept(c) PROVE PoolConsistent'
  <2>1. Gettable(c) /\ freeConns' = FreeAfterGet
    BY <1>2 DEF Accept
  <2>2. open' = open \cup {c} /\ conns' = conns \cup {c}
    BY <1>2 DEF Accept
  <2>3. \A d \in open' : ~In(d, freeConns')
    BY <2>1, <2>2, GetKeeps DEF TypeOK, PoolConsistent
  <2> QED BY <2>1, <2>2, <2>3, GetKeeps DEF PoolConsistent, In
<1>3. ASSUME NEW c \in Conns, AcceptNoBuffer(c) PROVE PoolConsistent'
  <2>1. Gettable(c) /\ freeConns' = Park(FreeAfterGet, c)
    BY <1>3 DEF AcceptNoBuffer
  <2>2. open' = open /\ conns' = conns
    BY <1>3 DEF AcceptNoBuffer
  <2>3. /\ Len(freeConns') <= MaxFree
        /\ \A i, j \in DOMAIN freeConns' : freeConns'[i] = freeConns'[j] => i = j
        /\ \A d \in Conns : In(d, freeConns') => d = c \/ In(d, FreeAfterGet)
    BY <2>1, GetKeeps, ParkKeeps
  <2>4. \A d \in open' : ~In(d, freeConns')
    BY <2>1, <2>2, <2>3, GetKeeps DEF TypeOK, PoolConsistent
  <2> QED BY <2>2, <2>3, <2>4 DEF PoolConsistent, In
<1>4. ASSUME NEW c \in open, FlushedOne(c) PROVE PoolConsistent'
  <2>1. Close(c) \/ UNCHANGED <<open, poolVars>>
    BY <1>4 DEF FlushedOne, Flush
  <2>2. CASE UNCHANGED <<open, poolVars>>
    BY <2>2 DEF PoolConsistent, poolVars, In
  <2> QED BY <1>1, <2>1, <2>2
<1>5. CASE Shutdown
  BY <1>5, EmptySeq DEF Shutdown, PoolConsistent, In
<1>6. CASE Quiet /\ UNCHANGED poolVars
  BY <1>6 DEF Quiet, poolVars, PoolConsistent, In
<1>7. ASSUME NEW c \in open, ClosedOne(c) PROVE PoolConsistent'
  BY <1>1, <1>7 DEF ClosedOne
<1>8. ASSUME NEW c \in Conns, CbRead(c) PROVE PoolConsistent'
  BY <1>8 DEF CbRead, PoolConsistent, poolVars, In
<1> QED BY <1>2, <1>3, <1>4, <1>5, <1>6, <1>7, <1>8, Effects

\* A closed connection stays clean: only open ones get watchers, requests and
\* responses, and closing takes all of them.
LEMMA CleanStep ==
    ASSUME TypeOK, PoolConsistent, ClosedIsClean, [Next]_vars
    PROVE  ClosedIsClean'
<1> USE DEF reqVars, poolVars, cbVars
<1>1. ASSUME NEW c \in Conns, Close(c) PROVE ClosedIsClean'
  BY <1>1 DEF Close, ClosedIsClean, TypeOK
<1>2. ASSUME NEW c \in open, NEW others, Flush(c, others) PROVE ClosedIsClean'
  <2>1. CASE Close(c)
    BY <1>1, <2>1 DEF TypeOK
  <2>2. CASE ~Close(c)
    <3>1. PICK left, ws : /\ out' = [out EXCEPT ![c] = left]
                          /\ w' = [w EXCEPT ![c] = ws]
                          /\ open' = open /\ user' = user
      BY <1>2, <2>2 DEF Flush
    <3> QED BY <3>1 DEF ClosedIsClean, TypeOK
  <2> QED BY <2>1, <2>2
<1>3. CASE UNCHANGED vars
  BY <1>3 DEF vars, ClosedIsClean
<1>4. CASE Shutdown
  BY <1>4 DEF Shutdown, ClosedIsClean
<1>5. ASSUME NEW c \in Conns, Loop(c) PROVE ClosedIsClean'
  <2>1. CASE Accept(c) \/ AcceptNoBuffer(c)
    BY <2>1 DEF Accept, AcceptNoBuffer, ClosedIsClean
  <2>2. CASE CbRead(c)
    BY <2>2 DEF CbRead, ClosedIsClean, TypeOK
  <2>3. CASE CbReadFail(c) \/ KeepAliveTimeout(c) \/ CbClose(c)
    BY <2>3, <1>1 DEF CbReadFail, KeepAliveTimeout, CbClose
  <2>4. CASE CbWrite(c)
    BY <2>4, <1>2 DEF CbWrite, ClosedIsClean
  <2>5. CASE CbUserBegin(c) \/ CbUserNext(c) \/ CbUserAbort(c)
    BY <2>5 DEF CbUserBegin, CbUserNext, CbUserAbort, ClosedIsClean, TypeOK
  <2>6. CASE CbUserEnd(c)
    <3>1. CASE "write" \in w[c]
      BY <2>6, <3>1 DEF CbUserEnd, ClosedIsClean, TypeOK
    <3>2. CASE "write" \notin w[c]
      BY <2>6, <3>2, <1>2 DEF CbUserEnd
    <3> QED BY <3>1, <3>2
  <2> QED BY <1>5, <2>1, <2>2, <2>3, <2>4, <2>5, <2>6 DEF Loop
<1>6. ASSUME NEW c \in Conns, App(c) PROVE ClosedIsClean'
  <2>1. CASE Keep(c) \/ Release(c)
    BY <2>1 DEF Keep, Release, ClosedIsClean
  <2>2. CASE Disconnect(c)
    BY <2>2 DEF Disconnect, ClosedIsClean, TypeOK
  <2>3. ASSUME NEW r \in Rids, Send(c, r) \/ SendNoMemory(c, r)
        PROVE  ClosedIsClean'
    BY <2>3 DEF Send, SendNoMemory, ClosedIsClean, TypeOK
  <2> QED BY <1>6, <2>1, <2>2, <2>3 DEF App
<1> QED BY <1>3, <1>4, <1>5, <1>6 DEF Next

-----------------------------------------------------------------------------
(* The queue of owed responses                                             *)

\* What a write does to the queue and to the count of sent units, without
\* subsequences.
LEMMA FlushShape ==
    ASSUME TypeOK, NEW c \in Conns, NEW others, Flush(c, others)
    PROVE  \E m \in 0..Len(out[c]), p \in 0..(Size - 1) :
             /\ \A i \in 1..m : out[c][i] \in ready
             /\ \A r \in Rids :
                  \/ /\ \E i \in 1..m : out[c][i] = r
                     /\ sent'[r] = Size
                  \/ /\ m < Len(out[c]) /\ r = out[c][m + 1] /\ r \in ready
                     /\ sent'[r] = p /\ p >= sent[r]
                  \/ /\ ~\E i \in 1..m : out[c][i] = r
                     /\ sent'[r] = sent[r]
             /\ \/ /\ out' = [out EXCEPT ![c] = SubSeq(out[c], m + 1, Len(out[c]))]
                   /\ UNCHANGED <<open, poolVars, user>>
                \/ Close(c)
<1> DEFINE done(m) == {out[c][i] : i \in 1..m}
           left(m) == SubSeq(out[c], m + 1, Len(out[c]))
           stop(m) == left(m) = <<>> \/ left(m)[1] \notin ready
<1>1. PICK m \in 0..Len(out[c]), p \in 0..(Size - 1) :
        /\ done(m) \subseteq ready
        /\ IF stop(m) THEN p = 0 ELSE p >= sent[left(m)[1]]
        /\ sent' = [r \in Rids |-> IF r \in done(m) THEN Size
                                   ELSE IF ~stop(m) /\ r = left(m)[1] THEN p
                                   ELSE sent[r]]
        /\ \/ /\ out' = [out EXCEPT ![c] = left(m)]
              /\ UNCHANGED <<open, poolVars, user>>
           \/ Close(c)
  BY DEF Flush
<1>2. out[c] \in Seq(Rids) /\ Len(out[c]) \in Nat
  BY DEF TypeOK
<1>3. ASSUME left(m) # <<>> PROVE m < Len(out[c]) /\ left(m)[1] = out[c][m + 1]
  <2>1. m + 1 \in Int /\ Len(out[c]) \in Int
    BY <1>2
  <2>2. m < Len(out[c])
    <3>1. CASE Len(out[c]) < m + 1
      BY <1>3, <2>1, <3>1, SubSeqEmpty
    <3> QED BY <1>2, <3>1
  <2>3. \A i \in (m + 1)..Len(out[c]) : out[c][i] \in Rids
    BY <1>2
  <2>4. \A i \in 1..(Len(out[c]) - (m + 1) + 1) : left(m)[i] = out[c][(m + 1) + i - 1]
    <3> HIDE DEF left
    <3>1. left(m) = SubSeq(out[c], m + 1, Len(out[c]))
      BY DEF left
    <3> QED BY <2>1, <2>3, <3>1, SubSeqProperties
  <2>5. 1 \in 1..(Len(out[c]) - (m + 1) + 1) /\ (m + 1) + 1 - 1 = m + 1
    BY <1>2, <2>2
  <2> QED BY <2>2, <2>4, <2>5
<1>4. \A i \in 1..m : out[c][i] \in ready
  BY <1>1
<1>5. ASSUME NEW r \in Rids
      PROVE  \/ /\ \E i \in 1..m : out[c][i] = r
                /\ sent'[r] = Size
             \/ /\ m < Len(out[c]) /\ r = out[c][m + 1] /\ r \in ready
                /\ sent'[r] = p /\ p >= sent[r]
             \/ /\ ~\E i \in 1..m : out[c][i] = r
                /\ sent'[r] = sent[r]
  <2>1. r \in done(m) <=> \E i \in 1..m : out[c][i] = r
    OBVIOUS
  <2>2. CASE r \in done(m)
    BY <1>1, <2>1, <2>2
  <2>3. CASE r \notin done(m) /\ ~stop(m) /\ r = left(m)[1]
    BY <1>1, <1>3, <2>3
  <2>4. CASE r \notin done(m) /\ ~(~stop(m) /\ r = left(m)[1])
    BY <1>1, <2>1, <2>4
  <2> QED BY <2>2, <2>3, <2>4
<1> QED BY <1>1, <1>4, <1>5

\* The rest of a queue: position i of it is position m + i of the queue.
LEMMA RestOf ==
    ASSUME NEW q \in Seq(Rids), NEW m \in 0..Len(q)
    PROVE  /\ SubSeq(q, m + 1, Len(q)) \in Seq(Rids)
           /\ DOMAIN SubSeq(q, m + 1, Len(q)) = 1..(Len(q) - m)
           /\ \A i \in 1..(Len(q) - m) : SubSeq(q, m + 1, Len(q))[i] = q[m + i]
<1> DEFINE rest == SubSeq(q, m + 1, Len(q))
<1>1. /\ Len(q) \in Nat /\ m + 1 \in Int /\ Len(q) \in Int
      /\ \A i \in (m + 1)..Len(q) : q[i] \in Rids
  OBVIOUS
<1>2. /\ rest \in Seq(Rids)
      /\ Len(rest) = IF m + 1 <= Len(q) THEN Len(q) - (m + 1) + 1 ELSE 0
      /\ \A i \in 1..(Len(q) - (m + 1) + 1) : rest[i] = q[(m + 1) + i - 1]
  BY <1>1, SubSeqProperties
<1>3. Len(rest) = Len(q) - m
  <2>1. Len(rest) = IF m + 1 <= Len(q) THEN Len(q) - (m + 1) + 1 ELSE 0
    BY <1>2
  <2> QED BY <1>1, <2>1
<1>4. ASSUME NEW i \in 1..(Len(q) - m) PROVE rest[i] = q[m + i]
  <2>1. i \in 1..(Len(q) - (m + 1) + 1) /\ (m + 1) + i - 1 = m + i
    BY <1>1
  <2> QED BY <1>2, <2>1
<1>5. DOMAIN rest = 1..(Len(q) - m)
  BY <1>2, <1>3, LenProperties
<1> QED BY <1>2, <1>4, <1>5

\* What parse_buffer appends: k new numbers behind the old queue.
LEMMA Appended ==
    ASSUME NEW q \in Seq(Rids), NEW n \in Nat, NEW k \in Nat, n + k <= MaxReq
    PROVE  LET s == q \o [i \in 1..k |-> n + i]
           IN  /\ DOMAIN s = 1..(Len(q) + k)
               /\ \A i \in 1..Len(q) : s[i] = q[i]
               /\ \A i \in (Len(q) + 1)..(Len(q) + k) : s[i] = n + (i - Len(q))
<1> DEFINE new == [i \in 1..k |-> n + i]
<1>1. new \in Seq(Rids) /\ Len(new) = k
  BY DEF Rids
<1>2. /\ Len(q \o new) = Len(q) + k
      /\ \A i \in 1..(Len(q) + k) :
           (q \o new)[i] = IF i <= Len(q) THEN q[i] ELSE new[i - Len(q)]
  <2> HIDE DEF new
  <2> QED BY <1>1, ConcatProperties
<1>3. q \o new \in Seq(Rids)
  <2> HIDE DEF new
  <2> QED BY <1>1, ConcatProperties
<1>4. DOMAIN (q \o new) = 1..(Len(q) + k)
  <2> HIDE DEF new
  <2> QED BY <1>2, <1>3, LenProperties
<1>5. ASSUME NEW i \in 1..Len(q) PROVE (q \o new)[i] = q[i]
  <2> HIDE DEF new
  <2>1. i \in 1..(Len(q) + k) /\ i <= Len(q)
    BY LenProperties
  <2> QED BY <1>2, <2>1
<1>6. ASSUME NEW i \in (Len(q) + 1)..(Len(q) + k)
      PROVE  (q \o new)[i] = n + (i - Len(q))
  <2>1. Len(q) \in Nat
    BY LenProperties
  <2>2. i \in 1..(Len(q) + k) /\ ~(i <= Len(q)) /\ i - Len(q) \in 1..k
    BY <2>1
  <2>3. new[i - Len(q)] = n + (i - Len(q))
    BY <2>2
  <2> HIDE DEF new
  <2> QED BY <1>2, <2>2, <2>3
<1> QED BY <1>4, <1>5, <1>6

\* A connection goes on owing the same when its queue, its session and the
\* progress of its own requests stay as they are.
LEMMA OwesTheSame ==
    ASSUME TypeOK, Recorded, OutIsOwed, NEW d \in open,
           d \in open', out'[d] = out[d], session'[d] = session[d],
           nreq' >= nreq, nreq' \in Nat,
           \A r \in Rids : r <= nreq => rconn'[r] = rconn[r] /\ rsess'[r] = rsess[r],
           \A r \in Rids : r > nreq /\ r <= nreq' => rconn'[r] # d,
           \A r \in Rids : rconn[r] = d => sent'[r] = sent[r]
    PROVE  OwedBy(d)'
<1> USE DEF Rids
<1>1. OwedBy(d) /\ d \in Conns /\ nreq \in Nat
  BY DEF OutIsOwed, TypeOK
<1>2. ASSUME NEW r \in Rids
      PROVE  In(r, out'[d]) <=> Live(r)' /\ rconn'[r] = d /\ sent'[r] < Size
  <2>1. In(r, out'[d]) <=> Live(r) /\ rconn[r] = d /\ sent[r] < Size
    BY <1>1 DEF OwedBy, In
  <2>2. CASE r <= nreq
    BY <1>1, <2>1, <2>2 DEF Live
  <2>3. CASE r > nreq /\ r <= nreq'
    BY <1>1, <2>1, <2>3 DEF Live
  <2>4. CASE r > nreq'
    BY <1>1, <2>1, <2>4 DEF Live
  <2> QED BY <1>1, <2>2, <2>3, <2>4
<1>3. ASSUME NEW i \in DOMAIN out'[d], sent'[out'[d][i]] > 0 PROVE i = 1
  <2>1. out[d][i] \in Rids /\ In(out[d][i], out[d])
    <3>1. out[d] \in Seq(Rids) /\ i \in DOMAIN out[d]
      BY <1>1 DEF TypeOK
    <3> QED BY <3>1, LenProperties DEF In
  <2>2. sent'[out[d][i]] = sent[out[d][i]]
    BY <1>1, <2>1 DEF OwedBy
  <2> QED BY <1>1, <1>3, <2>2 DEF OwedBy
<1>4. Increasing(out'[d])
  BY <1>1 DEF OwedBy, Increasing
<1> QED BY <1>2, <1>3, <1>4 DEF OwedBy, Increasing, In

\* The same when no request arrives at all.
LEMMA OwesTheSameStill ==
    ASSUME TypeOK, Recorded, OutIsOwed, NEW d \in open,
           d \in open', out'[d] = out[d], session'[d] = session[d],
           UNCHANGED reqVars,
           \A r \in Rids : rconn[r] = d => sent'[r] = sent[r]
    PROVE  OwedBy(d)'
<1>1. nreq \in Int
  BY DEF TypeOK
<1>2. nreq' = nreq /\ rconn' = rconn /\ rsess' = rsess
  BY DEF reqVars
<1>3. nreq' >= nreq /\ \A r \in Rids : ~(r > nreq /\ r <= nreq')
  BY <1>1, <1>2 DEF Rids
<1>4. nreq' \in Nat
  BY <1>2 DEF TypeOK
<1> QED BY <1>2, <1>3, <1>4, OwesTheSame

\* A write takes what it completed from the front of the queue, and touches
\* only the response behind it.
LEMMA FlushOwes ==
    ASSUME TypeOK, OutIsOwed, NEW c \in open, FlushedOne(c), ~Close(c)
    PROVE  OwedBy(c)' /\ open' = open /\ \A d \in open \ {c} : out'[d] = out[d]
<1>1. c \in Conns /\ OwedBy(c) /\ out[c] \in Seq(Rids) /\ Len(out[c]) \in Nat
  BY DEF OutIsOwed, TypeOK
<1>2. PICK m \in 0..Len(out[c]), p \in 0..(Size - 1) :
         /\ \A r \in Rids :
              \/ /\ \E i \in 1..m : out[c][i] = r
                 /\ sent'[r] = Size
              \/ /\ m < Len(out[c]) /\ r = out[c][m + 1] /\ r \in ready
                 /\ sent'[r] = p /\ p >= sent[r]
              \/ /\ ~\E i \in 1..m : out[c][i] = r
                 /\ sent'[r] = sent[r]
         /\ out' = [out EXCEPT ![c] = SubSeq(out[c], m + 1, Len(out[c]))]
         /\ open' = open
  BY <1>1, FlushShape DEF FlushedOne
<1>3. /\ out'[c] = SubSeq(out[c], m + 1, Len(out[c]))
      /\ \A d \in open \ {c} : out'[d] = out[d]
  BY <1>1, <1>2 DEF TypeOK
<1>4. /\ DOMAIN out'[c] = 1..(Len(out[c]) - m)
      /\ \A i \in 1..(Len(out[c]) - m) : out'[c][i] = out[c][m + i]
  BY <1>1, <1>3, RestOf
<1>5. DOMAIN out[c] = 1..Len(out[c])
  BY <1>1, LenProperties
<1>6. Increasing(out'[c])
  <2> SUFFICES ASSUME NEW i \in 1..(Len(out[c]) - m), NEW j \in 1..(Len(out[c]) - m), i < j
               PROVE  out[c][m + i] < out[c][m + j]
    BY <1>4 DEF Increasing
  <2>1. m + i \in DOMAIN out[c] /\ m + j \in DOMAIN out[c] /\ m + i < m + j
    BY <1>1, <1>5
  <2> QED BY <1>1, <2>1 DEF OwedBy, Increasing
<1>7. \A i, j \in DOMAIN out[c] : out[c][i] = out[c][j] => i = j
  <2> SUFFICES ASSUME NEW i \in DOMAIN out[c], NEW j \in DOMAIN out[c],
                      out[c][i] = out[c][j]
               PROVE  i = j
    OBVIOUS
  <2>1. out[c][i] \in Nat /\ out[c][j] \in Nat /\ i \in Nat /\ j \in Nat
    BY <1>1, <1>5 DEF Rids
  <2>2. ~(i < j) /\ ~(j < i)
    BY <1>1, <2>1 DEF OwedBy, Increasing
  <2> QED BY <2>1, <2>2
<1>8. ASSUME NEW r \in Rids
      PROVE  In(r, out'[c]) <=> Live(r)' /\ rconn'[r] = c /\ sent'[r] < Size
  <2>1. Live(r)' <=> Live(r)
    BY <1>2 DEF Live, FlushedOne, reqVars
  <2>2. rconn'[r] = rconn[r]
    BY DEF FlushedOne, reqVars
  <2>3. In(r, out'[c]) <=> \E i \in (m + 1)..Len(out[c]) : out[c][i] = r
    <3>1. ASSUME In(r, out'[c])
          PROVE  \E i \in (m + 1)..Len(out[c]) : out[c][i] = r
      <4>1. PICK i \in 1..(Len(out[c]) - m) : out[c][m + i] = r
        BY <1>4, <3>1 DEF In
      <4>2. m + i \in (m + 1)..Len(out[c])
        BY <1>1
      <4> QED BY <4>1, <4>2
    <3>2. ASSUME NEW i \in (m + 1)..Len(out[c]), out[c][i] = r
          PROVE  In(r, out'[c])
      <4>1. i - m \in 1..(Len(out[c]) - m) /\ m + (i - m) = i
        BY <1>1
      <4>2. out'[c][i - m] = r
        BY <1>4, <3>2, <4>1
      <4> QED BY <1>4, <4>1, <4>2 DEF In
    <3> QED BY <3>1, <3>2
  <2>4. In(r, out[c]) <=> Live(r) /\ rconn[r] = c /\ sent[r] < Size
    BY <1>1 DEF OwedBy
  <2>5. In(r, out[c]) <=> \E i \in 1..Len(out[c]) : out[c][i] = r
    BY <1>5 DEF In
  <2>6. sent[r] \in Nat /\ Size \in Nat /\ p < Size
    BY DEF TypeOK
  <2>7. CASE \E i \in 1..m : out[c][i] = r
    <3>1. ~In(r, out'[c])
      BY <1>1, <1>5, <1>7, <2>3, <2>7
    <3>2. sent'[r] = Size
      <4>1. ~(m < Len(out[c]) /\ r = out[c][m + 1])
        BY <1>1, <1>5, <1>7, <2>7
      <4> QED BY <1>2, <2>7, <4>1
    <3> QED BY <2>6, <3>1, <3>2
  <2>8. CASE ~\E i \in 1..m : out[c][i] = r
    <3>1. In(r, out'[c]) <=> In(r, out[c])
      <4>1. \A i \in 1..Len(out[c]) : i \in 1..m \/ i \in (m + 1)..Len(out[c])
        BY <1>1
      <4>2. \A i \in (m + 1)..Len(out[c]) : i \in 1..Len(out[c])
        BY <1>1
      <4> QED BY <2>3, <2>5, <2>8, <4>1, <4>2
    <3>2. CASE sent'[r] = sent[r]
      BY <2>1, <2>2, <2>4, <3>1, <3>2
    <3>3. CASE m < Len(out[c]) /\ r = out[c][m + 1] /\ sent'[r] = p
      <4>1. In(r, out[c])
        BY <1>1, <2>5, <3>3
      <4> QED BY <2>1, <2>2, <2>4, <2>6, <3>1, <3>3, <4>1
    <3> QED BY <1>2, <2>8, <3>2, <3>3
  <2> QED BY <2>7, <2>8
<1>9. ASSUME NEW i \in DOMAIN out'[c], sent'[out'[c][i]] > 0 PROVE i = 1
  <2> SUFFICES ASSUME i # 1 PROVE FALSE
    OBVIOUS
  <2>1. i \in 2..(Len(out[c]) - m) /\ m + i \in DOMAIN out[c] /\ m + i # 1
    BY <1>1, <1>4, <1>5
  <2>2. out'[c][i] = out[c][m + i] /\ out[c][m + i] \in Rids
    BY <1>1, <1>4, <2>1
  <2>3. \A j \in 1..(m + 1) : j \in 1..Len(out[c]) => out[c][j] # out[c][m + i]
    BY <1>1, <1>5, <1>7, <2>1
  <2>4. sent'[out[c][m + i]] = sent[out[c][m + i]]
    <3>1. ~\E j \in 1..m : out[c][j] = out[c][m + i]
      BY <1>1, <2>3
    <3>2. ~(m < Len(out[c]) /\ out[c][m + i] = out[c][m + 1])
      BY <1>1, <2>3
    <3> QED BY <1>2, <2>2, <3>1, <3>2
  <2>5. ~(sent[out[c][m + i]] > 0)
    BY <1>1, <2>1 DEF OwedBy
  <2> QED BY <1>9, <2>2, <2>4, <2>5
<1> QED BY <1>2, <1>3, <1>6, <1>8, <1>9 DEF OwedBy, Increasing, In

\* What parse_buffer read is owed, behind what was owed before.
LEMMA ReadOwes ==
    ASSUME TypeOK, Recorded, OutIsOwed, NEW c \in Conns, CbRead(c)
    PROVE  OutIsOwed'
<1> USE DEF Rids
<1>1. /\ c \in open /\ OwedBy(c) /\ out[c] \in Seq(Rids)
      /\ Len(out[c]) \in Nat /\ nreq \in Nat /\ MaxReq \in Nat
  BY DEF CbRead, OutIsOwed, TypeOK
<1>2. PICK k \in 1..(MaxReq - nreq) :
        /\ nreq' = nreq + k
        /\ rconn' = [r \in Rids |-> IF r > nreq /\ r <= nreq + k THEN c
                                    ELSE rconn[r]]
        /\ rsess' = [r \in Rids |-> IF r > nreq /\ r <= nreq + k
                                    THEN session[c] ELSE rsess[r]]
        /\ out' = [out EXCEPT ![c] = @ \o [i \in 1..k |-> nreq + i]]
  BY DEF CbRead
<1>3. open' = open /\ session' = session /\ sent' = sent
  BY DEF CbRead
<1>4. ASSUME NEW d \in open, d # c PROVE OwedBy(d)'
  <2>1. out'[d] = out[d] /\ nreq' >= nreq /\ nreq' \in Nat
    BY <1>1, <1>2, <1>4 DEF TypeOK
  <2>2. \A r \in Rids : r <= nreq => rconn'[r] = rconn[r] /\ rsess'[r] = rsess[r]
    BY <1>1, <1>2
  <2>3. \A r \in Rids : r > nreq /\ r <= nreq' => rconn'[r] # d
    BY <1>1, <1>2, <1>4
  <2> QED BY <1>3, <2>1, <2>2, <2>3, OwesTheSame
<1>5. OwedBy(c)'
  <2>1. out'[c] = out[c] \o [i \in 1..k |-> nreq + i]
    BY <1>1, <1>2 DEF TypeOK
  <2>2. k \in Nat /\ nreq + k <= MaxReq
    BY <1>1
  <2>3. /\ DOMAIN out'[c] = 1..(Len(out[c]) + k)
        /\ \A i \in 1..Len(out[c]) : out'[c][i] = out[c][i]
        /\ \A i \in (Len(out[c]) + 1)..(Len(out[c]) + k) :
              out'[c][i] = nreq + (i - Len(out[c]))
    BY SMTT(60), <1>1, <2>1, <2>2, Appended
  <2>4. DOMAIN out[c] = 1..Len(out[c])
    BY <1>1, LenProperties
  <2>5. \A i \in 1..Len(out[c]) : out[c][i] \in Rids /\ out[c][i] <= nreq
    <3> SUFFICES ASSUME NEW i \in 1..Len(out[c])
                 PROVE  out[c][i] \in Rids /\ out[c][i] <= nreq
      OBVIOUS
    <3>1. out[c][i] \in Rids /\ In(out[c][i], out[c])
      BY <1>1, <2>4 DEF In
    <3> QED BY <1>1, <3>1 DEF OwedBy, Live
  <2>6. \A r \in Rids :
          In(r, out'[c]) <=> In(r, out[c]) \/ (r > nreq /\ r <= nreq + k)
    <3> SUFFICES ASSUME NEW r \in Rids
                 PROVE  In(r, out'[c]) <=> In(r, out[c]) \/ (r > nreq /\ r <= nreq + k)
      OBVIOUS
    <3>1. ASSUME NEW i \in 1..(Len(out[c]) + k), out'[c][i] = r
          PROVE  In(r, out[c]) \/ (r > nreq /\ r <= nreq + k)
      <4>1. CASE i \in 1..Len(out[c])
        BY <2>3, <2>4, <3>1, <4>1 DEF In
      <4>2. CASE i \notin 1..Len(out[c])
        <5>1. /\ i \in (Len(out[c]) + 1)..(Len(out[c]) + k)
              /\ i - Len(out[c]) \in 1..k
          BY <1>1, <2>2, <4>2
        <5>2. r = nreq + (i - Len(out[c]))
          BY <2>3, <3>1, <5>1
        <5>3. PICK x \in 1..k : r = nreq + x
          BY <5>1, <5>2
        <5>4. r > nreq /\ r <= nreq + k
          BY <1>1, <2>2, <5>3
        <5> QED BY <5>4
      <4> QED BY <4>1, <4>2
    <3>2. ASSUME In(r, out[c]) PROVE In(r, out'[c])
      <4>1. PICK i \in 1..Len(out[c]) : out[c][i] = r
        BY <2>4, <3>2 DEF In
      <4>2. i \in DOMAIN out'[c]
        BY <1>1, <2>2, <2>3
      <4> QED BY <2>3, <4>1, <4>2 DEF In
    <3>3. ASSUME r > nreq, r <= nreq + k PROVE In(r, out'[c])
      <4>1. /\ Len(out[c]) + (r - nreq) \in (Len(out[c]) + 1)..(Len(out[c]) + k)
            /\ Len(out[c]) + (r - nreq) \in 1..(Len(out[c]) + k)
            /\ nreq + ((Len(out[c]) + (r - nreq)) - Len(out[c])) = r
        BY <1>1, <2>2, <3>3
      <4> QED BY <2>3, <4>1 DEF In
    <3> QED BY <2>3, <3>1, <3>2, <3>3 DEF In
  <2>7. Increasing(out'[c])
    <3> SUFFICES ASSUME NEW i \in 1..(Len(out[c]) + k),
                        NEW j \in 1..(Len(out[c]) + k), i < j
                 PROVE  out'[c][i] < out'[c][j]
      BY <2>3 DEF Increasing
    <3>1. CASE j <= Len(out[c])
      <4>1. i \in 1..Len(out[c]) /\ j \in 1..Len(out[c])
        BY <1>1, <3>1
      <4> QED BY <1>1, <2>3, <2>4, <4>1 DEF OwedBy, Increasing
    <3>2. CASE j > Len(out[c])
      <4>1. out'[c][j] = nreq + (j - Len(out[c]))
        BY <1>1, <2>2, <2>3, <3>2
      <4>2. CASE i <= Len(out[c])
        <5>1. i \in 1..Len(out[c])
          BY <1>1, <4>2
        <5>2. out'[c][i] \in Nat /\ out'[c][i] <= nreq
          <6>1. out'[c][i] = out[c][i]
            BY <2>3, <5>1
          <6>2. out[c][i] \in Nat /\ out[c][i] <= nreq
            BY <2>5, <5>1
          <6> QED BY <6>1, <6>2
        <5> QED BY <1>1, <3>2, <4>1, <5>2
      <4>3. CASE i > Len(out[c])
        <5>1. out'[c][i] = nreq + (i - Len(out[c]))
          <6>1. i \in (Len(out[c]) + 1)..(Len(out[c]) + k)
            BY <1>1, <2>2, <4>3
          <6> QED BY <2>3, <6>1
        <5>2. Len(out[c]) \in Nat /\ nreq \in Nat /\ i \in Int /\ j \in Int /\ i < j
          BY <1>1, <2>2
        <5> DEFINE n == Len(out[c])
                   x == out'[c][i]
                   y == out'[c][j]
        <5>3. x = nreq + (i - n) /\ y = nreq + (j - n) /\ n \in Nat
          BY <4>1, <5>1, <5>2
        <5> HIDE DEF n, x, y
        <5>4. x < y
          BY <5>2, <5>3
        <5> QED BY <5>4 DEF x, y
      <4> QED BY <1>1, <4>2, <4>3
    <3> QED BY <1>1, <3>1, <3>2
  <2>8. ASSUME NEW r \in Rids
        PROVE  In(r, out'[c]) <=> Live(r)' /\ rconn'[r] = c /\ sent'[r] < Size
    <3>1. In(r, out[c]) <=> Live(r) /\ rconn[r] = c /\ sent[r] < Size
      BY <1>1 DEF OwedBy
    <3>2. CASE r > nreq /\ r <= nreq + k
      <4>1. sent[r] = 0 /\ 0 < Size
        BY <3>2 DEF Recorded
      <4>2. rconn'[r] = c /\ rsess'[r] = session[c]
        BY <1>2, <3>2
      <4> QED BY <1>1, <1>2, <1>3, <2>6, <3>2, <4>1, <4>2 DEF Live
    <3>3. CASE ~(r > nreq /\ r <= nreq + k)
      <4>1. rconn'[r] = rconn[r] /\ rsess'[r] = rsess[r]
        BY <1>2, <3>3
      <4>2. r <= nreq + k <=> r <= nreq
        BY <1>1, <2>2, <3>3
      <4> QED BY <1>2, <1>3, <2>6, <3>1, <3>3, <4>1, <4>2 DEF Live
    <3> QED BY <3>2, <3>3
  <2>9. ASSUME NEW i \in DOMAIN out'[c], sent'[out'[c][i]] > 0 PROVE i = 1
    <3>1. CASE i <= Len(out[c])
      <4>1. i \in DOMAIN out[c] /\ out'[c][i] = out[c][i]
        BY <1>1, <2>3, <2>4, <3>1
      <4> QED BY <1>1, <1>3, <2>9, <4>1 DEF OwedBy
    <3>2. CASE i > Len(out[c])
      <4>1. /\ out'[c][i] = nreq + (i - Len(out[c]))
            /\ out'[c][i] \in Rids /\ out'[c][i] > nreq
        <5>1. /\ i \in (Len(out[c]) + 1)..(Len(out[c]) + k)
              /\ i - Len(out[c]) \in 1..k
          BY <1>1, <2>2, <2>3, <3>2
        <5>2. out'[c][i] = nreq + (i - Len(out[c]))
          BY <2>3, <5>1
        <5> QED BY <1>1, <2>2, <5>1, <5>2
      <4>2. sent[out'[c][i]] = 0
        BY <4>1 DEF Recorded
      <4> QED BY <1>3, <2>9, <4>2
    <3> QED BY <1>1, <2>3, <3>1, <3>2
  <2> QED BY <2>7, <2>8, <2>9 DEF OwedBy, Increasing, In
<1> QED BY <1>3, <1>4, <1>5 DEF OutIsOwed

\* In every step, what is queued is what is owed.
LEMMA QueueStep ==
    ASSUME TypeOK, Recorded, PoolConsistent, ClosedIsClean, OutIsOwed, [Next]_vars
    PROVE  OutIsOwed'
<1> USE DEF reqVars
<1>1. ASSUME NEW c \in Conns, Accept(c) PROVE OutIsOwed'
  <2>1. c \notin open /\ out[c] = <<>>
    BY <1>1, GetKeeps DEF Accept, ClosedIsClean
  <2>2. /\ open' = open \cup {c} /\ out' = out /\ sent' = sent
        /\ nreq' = nreq /\ rconn' = rconn /\ rsess' = rsess
        /\ session' = [session EXCEPT ![c] = @ + 1]
    BY <1>1 DEF Accept
  <2>3. ASSUME NEW d \in open PROVE OwedBy(d)'
    <3>1. d # c /\ d \in open' /\ session'[d] = session[d]
      BY <2>1, <2>2 DEF TypeOK
    <3> QED BY <2>2, <3>1, OwesTheSameStill DEF TypeOK
  <2>4. OwedBy(c)'
    <3>1. \A r \in Rids : ~In(r, out'[c])
      BY <2>1, <2>2 DEF In
    <3>2. \A r \in Rids : r <= nreq /\ rconn[r] = c => rsess[r] # session'[c]
      BY <2>2 DEF Recorded, TypeOK
    <3>3. \A r \in Rids : ~(Live(r)' /\ rconn'[r] = c)
      BY <2>2, <3>2 DEF Live
    <3>4. DOMAIN out'[c] = {}
      BY <2>1, <2>2
    <3> QED BY <3>1, <3>3, <3>4 DEF OwedBy, Increasing, In
  <2> QED BY <2>2, <2>3, <2>4 DEF OutIsOwed
<1>2. ASSUME NEW c \in Conns, AcceptNoBuffer(c) PROVE OutIsOwed'
  <2>1. c \notin open
    BY <1>2, GetKeeps DEF AcceptNoBuffer
  <2>2. ASSUME NEW d \in open PROVE OwedBy(d)'
    <3>1. d # c /\ d \in open' /\ session'[d] = session[d]
      BY <1>2, <2>1 DEF TypeOK, AcceptNoBuffer
    <3> QED BY <1>2, <3>1, OwesTheSameStill DEF TypeOK, AcceptNoBuffer
  <2> QED BY <1>2, <2>2 DEF OutIsOwed, AcceptNoBuffer
<1>3. ASSUME NEW c \in Conns, CbRead(c) PROVE OutIsOwed'
  BY <1>3, ReadOwes
<1>4. ASSUME NEW c \in open, ClosedOne(c) PROVE OutIsOwed'
  <2>1. ASSUME NEW d \in open, d # c PROVE OwedBy(d)'
    <3>1. d \in open' /\ out'[d] = out[d]
      BY <1>4, <2>1 DEF ClosedOne, Close, TypeOK
    <3> QED BY <1>4, <3>1, OwesTheSameStill DEF ClosedOne, TypeOK
  <2> QED BY <1>4, <2>1 DEF OutIsOwed, ClosedOne, Close
<1>5. ASSUME NEW c \in open, FlushedOne(c) PROVE OutIsOwed'
  <2>1. \A r \in Rids : sent'[r] # sent[r] => rconn[r] = c
    <3>1. out[c] \in Seq(Rids) /\ Len(out[c]) \in Nat /\ c \in Conns
      BY DEF TypeOK
    <3>2. DOMAIN out[c] = 1..Len(out[c])
      BY <3>1, LenProperties
    <3>3. \A r \in Rids : sent'[r] # sent[r] => In(r, out[c])
      BY SMTT(60), <1>5, <3>1, <3>2, FlushShape DEF FlushedOne, In
    <3> QED BY <3>3 DEF OutIsOwed, OwedBy
  <2>2. ASSUME NEW d \in open, d # c, d \in open', out'[d] = out[d]
        PROVE  OwedBy(d)'
    BY <1>5, <2>1, <2>2, OwesTheSameStill DEF FlushedOne, TypeOK
  <2>3. CASE Close(c)
    <3>1. open' = open \ {c} /\ \A d \in open' : out'[d] = out[d]
      BY <2>3 DEF Close, TypeOK
    <3> QED BY <2>2, <3>1 DEF OutIsOwed
  <2>4. CASE ~Close(c)
    BY <1>5, <2>2, <2>4, FlushOwes DEF OutIsOwed
  <2> QED BY <2>3, <2>4
<1>6. CASE Shutdown
  BY <1>6 DEF Shutdown, OutIsOwed
<1>7. CASE Quiet
  <2>1. ASSUME NEW d \in open PROVE OwedBy(d)'
    BY <1>7, <2>1, OwesTheSameStill DEF Quiet, TypeOK
  <2> QED BY <1>7, <2>1 DEF Quiet, OutIsOwed
<1> QED BY <1>1, <1>2, <1>3, <1>4, <1>5, <1>6, <1>7, Effects

-----------------------------------------------------------------------------
(* The record of requests                                                  *)

\* Membership in what Append, Head and Tail return.
LEMMA InAppend ==
    ASSUME NEW s \in Seq(Rids), NEW x \in Rids, NEW r \in Rids,
           In(r, Append(s, x))
    PROVE  In(r, s) \/ r = x
<1>1. /\ DOMAIN Append(s, x) = 1..(Len(s) + 1) /\ DOMAIN s = 1..Len(s)
      /\ \A i \in 1..Len(s) : Append(s, x)[i] = s[i]
      /\ Append(s, x)[Len(s) + 1] = x /\ Len(s) \in Nat
  BY AppendProperties, LenProperties
<1> QED BY <1>1 DEF In

\* What is in a queue without its front is in the queue.
LEMMA InTail ==
    ASSUME NEW s \in Seq(Rids), s # <<>>
    PROVE  /\ In(Head(s), s) /\ Head(s) \in Rids /\ Tail(s) \in Seq(Rids)
           /\ \A r \in Rids : In(r, Tail(s)) => In(r, s)
<1>1. /\ Head(s) \in Rids /\ Tail(s) \in Seq(Rids) /\ Head(s) = s[1]
      /\ Len(Tail(s)) = Len(s) - 1 /\ \A i \in 1..Len(Tail(s)) : Tail(s)[i] = s[i + 1]
  BY HeadTailProperties
<1>2. /\ DOMAIN s = 1..Len(s) /\ DOMAIN Tail(s) = 1..Len(Tail(s))
      /\ Len(s) \in Nat \ {0}
  BY <1>1, LenProperties, EmptySeq
<1>3. In(Head(s), s)
  BY <1>1, <1>2 DEF In
<1>4. ASSUME NEW r \in Rids, In(r, Tail(s)) PROVE In(r, s)
  <2>1. PICK i \in 1..(Len(s) - 1) : s[i + 1] = r
    BY <1>1, <1>2, <1>4 DEF In
  <2>2. i + 1 \in DOMAIN s
    BY <1>2
  <2> QED BY <2>1, <2>2 DEF In
<1> QED BY <1>1, <1>3, <1>4

\* What is in a queue after a read was in it before or is one of the new requests.
LEMMA InRead ==
    ASSUME NEW q \in Seq(Rids), NEW n \in Nat, NEW k \in Nat, n + k <= MaxReq,
           NEW r \in Rids, In(r, q \o [i \in 1..k |-> n + i])
    PROVE  In(r, q) \/ (r > n /\ r <= n + k)
<1> DEFINE s == q \o [i \in 1..k |-> n + i]
<1>1. /\ DOMAIN s = 1..(Len(q) + k)
      /\ \A i \in 1..Len(q) : s[i] = q[i]
      /\ \A i \in (Len(q) + 1)..(Len(q) + k) : s[i] = n + (i - Len(q))
  BY Appended
<1> HIDE DEF s
<1>2. DOMAIN q = 1..Len(q) /\ Len(q) \in Nat
  BY LenProperties
<1>3. PICK i \in 1..(Len(q) + k) : s[i] = r
  BY <1>1 DEF In, s
<1>4. CASE i \in 1..Len(q)
  BY <1>1, <1>2, <1>3, <1>4 DEF In
<1>5. CASE i \notin 1..Len(q)
  <2>1. i \in (Len(q) + 1)..(Len(q) + k) /\ i - Len(q) \in 1..k
    BY <1>2, <1>5
  <2>2. PICK x \in 1..k : r = n + x
    BY <1>1, <1>3, <2>1
  <2>3. r > n /\ r <= n + k
    BY <2>2
  <2> QED BY <2>3
<1> QED BY <1>4, <1>5

\* A write accounts only for responses that are owed.
LEMMA FlushOwed ==
    ASSUME TypeOK, OutIsOwed, NEW c \in open, NEW others, Flush(c, others),
           NEW r \in Rids, sent'[r] # sent[r]
    PROVE  In(r, out[c]) /\ Live(r) /\ rconn[r] = c
<1>1. out[c] \in Seq(Rids) /\ Len(out[c]) \in Nat /\ c \in Conns
  BY DEF TypeOK
<1>2. DOMAIN out[c] = 1..Len(out[c])
  BY <1>1, LenProperties
<1>3. In(r, out[c])
  BY <1>1, <1>2, FlushShape DEF In
<1> QED BY <1>3 DEF OutIsOwed, OwedBy

\* What is recorded of requests stays right.
LEMMA RecordedStep ==
    ASSUME TypeOK, Recorded, Traced, ClosedIsClean, OutIsOwed, [Next]_vars
    PROVE  Recorded'
<1> USE DEF reqVars
<1>1. CASE UNCHANGED <<session, reqVars, sent, ready>>
  BY <1>1 DEF Recorded
<1>2. ASSUME NEW c \in Conns, Accept(c) \/ AcceptNoBuffer(c) PROVE Recorded'
  <2>1. /\ session' = [session EXCEPT ![c] = @ + 1]
        /\ UNCHANGED <<reqVars, sent, ready>>
    BY <1>2 DEF Accept, AcceptNoBuffer
  <2>2. \A d \in Conns : session[d] \in Nat /\ session'[d] \in Nat /\ session[d] <= session'[d]
    BY <2>1 DEF TypeOK
  <2>3. \A r \in Rids : rsess[r] \in Nat
    BY DEF TypeOK
  <2>4. ASSUME NEW r \in Rids, r <= nreq
        PROVE  rconn[r] \in Conns /\ rsess[r] <= session'[rconn[r]]
    BY <2>2, <2>3, <2>4 DEF Recorded
  <2> QED BY <2>1, <2>4 DEF Recorded
<1>3. ASSUME NEW c \in Conns, CbRead(c) PROVE Recorded'
  <2>1. PICK k \in 1..(MaxReq - nreq) :
          /\ nreq' = nreq + k
          /\ rconn' = [r \in Rids |-> IF r > nreq /\ r <= nreq + k THEN c
                                      ELSE rconn[r]]
          /\ rsess' = [r \in Rids |-> IF r > nreq /\ r <= nreq + k
                                      THEN session[c] ELSE rsess[r]]
    BY <1>3 DEF CbRead
  <2>2. UNCHANGED <<session, sent, ready>>
    BY <1>3 DEF CbRead
  <2>3. nreq \in Nat /\ k \in Nat /\ session[c] \in Nat
    BY DEF TypeOK
  <2>4. ASSUME NEW r \in Rids
        PROVE  /\ r <= nreq' => rconn'[r] \in Conns /\ rsess'[r] <= session'[rconn'[r]]
               /\ r > nreq' => sent'[r] = 0 /\ r \notin ready'
    <3>1. r \in Nat
      BY DEF Rids
    <3>2. CASE r > nreq /\ r <= nreq + k
      BY <2>1, <2>2, <2>3, <3>1, <3>2
    <3>3. CASE r <= nreq
      BY <2>1, <2>2, <2>3, <3>1, <3>3 DEF Recorded
    <3>4. CASE r > nreq + k
      BY <2>1, <2>2, <2>3, <3>1, <3>4 DEF Recorded
    <3> QED BY <2>3, <3>1, <3>2, <3>3, <3>4
  <2> QED BY <2>4 DEF Recorded
<1>4. ASSUME NEW c \in open, FlushedOne(c) PROVE Recorded'
  <2>1. UNCHANGED <<session, reqVars, ready>>
    BY <1>4 DEF FlushedOne
  <2>2. \A r \in Rids : sent'[r] # sent[r] => r <= nreq
    BY <1>4, FlushOwed DEF FlushedOne, Live
  <2>3. nreq \in Nat /\ \A r \in Rids : r \in Nat
    BY DEF TypeOK, Rids
  <2> QED BY <2>1, <2>2, <2>3 DEF Recorded
<1>5. ASSUME NEW c \in Conns, NEW r \in Rids, Send(c, r) PROVE Recorded'
  <2>1. r <= nreq /\ ready' = ready \cup {r} /\ UNCHANGED <<session, reqVars, sent>>
    BY <1>5 DEF Send, Traced
  <2>2. nreq \in Nat /\ \A x \in Rids : x \in Nat
    BY DEF TypeOK, Rids
  <2> QED BY <2>1, <2>2 DEF Recorded
<1>6. CASE Shutdown
  BY <1>1, <1>6 DEF Shutdown
<1>7. ASSUME NEW c \in Conns, Loop(c) PROVE Recorded'
  <2>1. CASE CbReadFail(c) \/ KeepAliveTimeout(c) \/ CbClose(c)
    BY <1>1, <2>1 DEF CbReadFail, KeepAliveTimeout, CbClose
  <2>2. CASE CbUserBegin(c) \/ CbUserNext(c) \/ CbUserAbort(c)
    BY <1>1, <2>2 DEF CbUserBegin, CbUserNext, CbUserAbort
  <2>3. CASE CbWrite(c)
    <3>1. w[c] \ {"write"} \in SUBSET {"user", "close"}
      BY DEF TypeOK, Watchers
    <3> QED BY <1>4, <2>3, <3>1 DEF CbWrite, FlushedOne, ClosedIsClean
  <2>4. CASE CbUserEnd(c)
    <3>1. "write" \notin w[c] => w[c] \ {"user"} \in SUBSET {"user", "close"}
      BY DEF TypeOK, Watchers
    <3> QED BY <1>1, <1>4, <2>4, <3>1 DEF CbUserEnd, FlushedOne
  <2> QED BY <1>2, <1>3, <1>7, <2>1, <2>2, <2>3, <2>4 DEF Loop
<1>8. ASSUME NEW c \in Conns, App(c) PROVE Recorded'
  <2>1. CASE Keep(c) \/ Release(c) \/ Disconnect(c)
    BY <1>1, <2>1 DEF Keep, Release, Disconnect
  <2>2. ASSUME NEW r \in Rids, SendNoMemory(c, r) PROVE Recorded'
    BY <1>1, <2>2 DEF SendNoMemory
  <2> QED BY <1>5, <1>8, <2>1, <2>2 DEF App
<1>9. CASE UNCHANGED vars
  BY <1>1, <1>9 DEF vars
<1> QED BY <1>6, <1>7, <1>8, <1>9 DEF Next

\* Only cb_read, cb_user, close and the calls of the callback move requests
\* between _user, tmp and the user; a step that does none of it keeps Traced.
LEMMA TracedStep ==
    ASSUME TypeOK, Traced, [Next]_vars
    PROVE  Traced'
<1> USE DEF reqVars, cbVars, InHand
<1>1. ASSUME UNCHANGED <<handed, running, batch, reqVars>>,
             \A c \in Conns : user'[c] = user[c] \/ user'[c] = <<>>
      PROVE  Traced'
  <2>1. \A c \in Conns, r \in Rids : In(r, user'[c]) => In(r, user[c])
    BY <1>1 DEF In
  <2> QED BY <1>1, <2>1 DEF Traced
<1>2. ASSUME NEW c \in Conns, Close(c) \/ UNCHANGED user
      PROVE  \A d \in Conns : user'[d] = user[d] \/ user'[d] = <<>>
  BY <1>2 DEF Close, TypeOK
<1>3. ASSUME NEW c \in Conns, NEW others, Flush(c, others)
      PROVE  \A d \in Conns : user'[d] = user[d] \/ user'[d] = <<>>
  BY <1>2, <1>3 DEF Flush
<1>4. ASSUME NEW c \in Conns, CbRead(c) PROVE Traced'
  <2>1. PICK k \in 1..(MaxReq - nreq) :
          /\ nreq' = nreq + k
          /\ rconn' = [r \in Rids |-> IF r > nreq /\ r <= nreq + k THEN c
                                      ELSE rconn[r]]
          /\ user' = [user EXCEPT ![c] = @ \o [i \in 1..k |-> nreq + i]]
    BY <1>4 DEF CbRead
  <2>2. UNCHANGED <<handed, running, batch>>
    BY <1>4 DEF CbRead
  <2>3. nreq \in Nat /\ k \in Nat /\ nreq + k <= MaxReq /\ user[c] \in Seq(Rids)
    BY DEF TypeOK
  <2>4. ASSUME NEW d \in Conns, NEW r \in Rids,
               In(r, handed'[d]) \/ In(r, InHand(d)') \/ In(r, user'[d])
        PROVE  r <= nreq' /\ rconn'[r] = d
    <3>1. r \in Nat
      BY DEF Rids
    <3>2. CASE r <= nreq /\ rconn[r] = d
      BY <2>1, <2>3, <3>1, <3>2
    <3>3. CASE d = c /\ r > nreq /\ r <= nreq + k
      BY <2>1, <3>3
    <3>4. CASE In(r, handed'[d]) \/ In(r, InHand(d)')
      BY <2>2, <3>2, <3>4 DEF Traced
    <3>5. CASE In(r, user'[d]) /\ d # c
      <4>1. user'[d] = user[d]
        BY <2>1, <3>5 DEF TypeOK
      <4> QED BY <3>2, <3>5, <4>1 DEF Traced
    <3>6. CASE In(r, user'[d]) /\ d = c
      <4>1. In(r, user[c]) \/ (r > nreq /\ r <= nreq + k)
        <5>1. user'[c] = user[c] \o [i \in 1..k |-> nreq + i]
          BY <2>1 DEF TypeOK
        <5> QED BY <2>3, <3>6, <5>1, InRead
      <4> QED BY <3>2, <3>3, <3>6, <4>1 DEF Traced
    <3> QED BY <2>4, <3>4, <3>5, <3>6
  <2> QED BY <2>4 DEF Traced
<1>5. ASSUME NEW c \in Conns, CbUserBegin(c) PROVE Traced'
  <2>1. user[c] \in Seq(Rids) /\ user[c] # <<>> /\ handed[c] \in Seq(Rids)
    BY <1>5 DEF CbUserBegin, TypeOK
  <2>2. /\ running' = c /\ batch' = Tail(user[c])
        /\ handed' = [handed EXCEPT ![c] = Append(handed[c], Head(user[c]))]
        /\ user' = [user EXCEPT ![c] = <<>>] /\ UNCHANGED reqVars
    BY <1>5 DEF CbUserBegin
  <2>3. ASSUME NEW d \in Conns, NEW r \in Rids,
               In(r, handed'[d]) \/ In(r, InHand(d)') \/ In(r, user'[d])
        PROVE  In(r, handed[d]) \/ In(r, user[d])
    <3>1. CASE d # c
      <4>1. handed'[d] = handed[d] /\ user'[d] = user[d] /\ InHand(d)' = <<>>
        BY <2>2, <3>1 DEF TypeOK
      <4> QED BY <2>3, <4>1 DEF In
    <3>2. CASE d = c
      <4>1. /\ handed'[d] = Append(handed[c], Head(user[c]))
            /\ user'[d] = <<>> /\ InHand(d)' = Tail(user[c])
        BY <2>2, <3>2 DEF TypeOK
      <4>2. /\ In(Head(user[c]), user[c]) /\ Head(user[c]) \in Rids
            /\ In(r, Tail(user[c])) => In(r, user[c])
        BY <2>1, InTail
      <4>3. In(r, handed'[d]) => In(r, handed[c]) \/ r = Head(user[c])
        BY <2>1, <4>1, <4>2, InAppend
      <4>4. ~In(r, user'[d])
        BY <4>1 DEF In
      <4> QED BY <2>3, <3>2, <4>1, <4>2, <4>3, <4>4
    <3> QED BY <3>1, <3>2
  <2> QED BY <2>2, <2>3 DEF Traced
<1>6. ASSUME NEW c \in Conns, CbUserNext(c) PROVE Traced'
  <2>1. batch \in Seq(Rids) /\ batch # <<>> /\ handed[c] \in Seq(Rids) /\ running = c
    BY <1>6 DEF CbUserNext, TypeOK
  <2>2. /\ running' = running /\ batch' = Tail(batch) /\ user' = user
        /\ handed' = [handed EXCEPT ![c] = Append(handed[c], Head(batch))]
        /\ UNCHANGED reqVars
    BY <1>6 DEF CbUserNext
  <2>3. /\ In(Head(batch), batch) /\ Head(batch) \in Rids
        /\ \A r \in Rids : In(r, Tail(batch)) => In(r, batch)
    BY <2>1, InTail
  <2>4. ASSUME NEW d \in Conns, NEW r \in Rids,
               In(r, handed'[d]) \/ In(r, InHand(d)') \/ In(r, user'[d])
        PROVE  In(r, handed[d]) \/ In(r, InHand(d)) \/ In(r, user[d])
    <3>1. CASE d # c
      <4>1. handed'[d] = handed[d] /\ user'[d] = user[d] /\ InHand(d)' = <<>>
        BY <2>1, <2>2, <3>1 DEF TypeOK
      <4> QED BY <2>4, <4>1 DEF In
    <3>2. CASE d = c
      <4>1. /\ handed'[d] = Append(handed[c], Head(batch))
            /\ InHand(d)' = Tail(batch) /\ InHand(d) = batch
        BY <2>1, <2>2, <3>2 DEF TypeOK
      <4>2. In(r, handed'[d]) => In(r, handed[c]) \/ r = Head(batch)
        BY <2>1, <2>3, <4>1, InAppend
      <4> QED BY <2>2, <2>3, <2>4, <3>2, <4>1, <4>2
    <3> QED BY <3>1, <3>2
  <2> QED BY <2>2, <2>4 DEF Traced
<1>7. ASSUME NEW c \in Conns, UNCHANGED <<handed, user, reqVars>>,
             running' = NoConn, running = c
      PROVE  Traced'
  <2>1. \A d \in Conns : InHand(d)' = <<>>
    BY <1>7
  <2> QED BY <1>7, <2>1 DEF Traced, In
<1>8. ASSUME NEW c \in Conns, CbUserEnd(c) PROVE Traced'
  <2>1. \A d \in Conns : user'[d] = user[d] \/ user'[d] = <<>>
    BY <1>3, <1>8 DEF CbUserEnd
  <2>2. \A d \in Conns : InHand(d)' = <<>>
    BY <1>8 DEF CbUserEnd
  <2>3. UNCHANGED <<handed, reqVars>>
    BY <1>8 DEF CbUserEnd
  <2>4. \A d \in Conns, r \in Rids :
          ~In(r, InHand(d)') /\ (In(r, user'[d]) => In(r, user[d]))
    BY <2>1, <2>2 DEF In
  <2> QED BY <2>3, <2>4 DEF Traced
<1>9. ASSUME NEW c \in Conns, Loop(c) PROVE Traced'
  <2>1. CASE Accept(c) \/ AcceptNoBuffer(c)
    BY <1>1, <2>1 DEF Accept, AcceptNoBuffer
  <2>2. CASE CbReadFail(c) \/ KeepAliveTimeout(c) \/ CbClose(c)
    BY <1>1, <1>2, <2>2 DEF CbReadFail, KeepAliveTimeout, CbClose
  <2>3. CASE CbWrite(c)
    BY <1>1, <1>3, <2>3 DEF CbWrite
  <2>4. CASE CbUserAbort(c)
    BY <1>7, <2>4 DEF CbUserAbort
  <2> QED BY <1>4, <1>5, <1>6, <1>8, <1>9, <2>1, <2>2, <2>3, <2>4 DEF Loop
<1>10. ASSUME NEW c \in Conns, App(c) PROVE Traced'
  <2>1. UNCHANGED <<handed, running, batch, reqVars, user>>
    BY <1>10 DEF App, Keep, Release, Disconnect, Send, SendNoMemory
  <2> QED BY <1>1, <2>1
<1>11. CASE Shutdown
  BY <1>1, <1>11 DEF Shutdown
<1>12. CASE UNCHANGED vars
  BY <1>1, <1>12 DEF vars
<1> QED BY <1>9, <1>10, <1>11, <1>12 DEF Next

-----------------------------------------------------------------------------
(* The order on the wire                                                   *)

\* Steps that send nothing keep the order, whatever the user prepares.
LEMMA OrderKept ==
    ASSUME TypeOK, Recorded, Pipelining, sent' = sent, ready \subseteq ready',
           \A r \in Rids : r <= nreq => rconn'[r] = rconn[r] /\ rsess'[r] = rsess[r]
    PROVE  Pipelining'
<1> SUFFICES ASSUME NEW r2 \in Rids, sent'[r2] > 0
             PROVE  /\ r2 \in ready'
                    /\ \A r1 \in Rids : r1 < r2 /\ SameSession(r1, r2)' => sent'[r1] = Size
  BY DEF Pipelining
<1>1. nreq \in Nat /\ r2 \in Nat /\ \A r1 \in Rids : r1 \in Nat
  BY DEF TypeOK, Rids
<1>2. r2 <= nreq
  BY <1>1 DEF Recorded
<1>3. ASSUME NEW r1 \in Rids, r1 < r2, SameSession(r1, r2)' PROVE sent'[r1] = Size
  <2>1. r1 <= nreq
    BY <1>1, <1>2, <1>3
  <2>2. SameSession(r1, r2)
    BY <1>2, <1>3, <2>1 DEF SameSession
  <2> QED BY <1>3, <2>2 DEF Pipelining
<1> QED BY <1>3 DEF Pipelining

\* A write completes a prefix of the queue, begins at most the next response,
\* and both were ready; everything before them in the session is in the queue
\* or was complete.
LEMMA OrderFlushed ==
    ASSUME TypeOK, OutIsOwed, Pipelining, NEW c \in open, FlushedOne(c)
    PROVE  Pipelining'
<1>1. /\ c \in Conns /\ OwedBy(c) /\ out[c] \in Seq(Rids)
      /\ Len(out[c]) \in Nat /\ Size \in Nat /\ DOMAIN out[c] = 1..Len(out[c])
  BY LenProperties DEF OutIsOwed, TypeOK
<1>2. PICK m \in 0..Len(out[c]), p \in 0..(Size - 1) :
        /\ \A i \in 1..m : out[c][i] \in ready
        /\ \A r \in Rids :
              \/ /\ \E i \in 1..m : out[c][i] = r
                 /\ sent'[r] = Size
              \/ /\ m < Len(out[c]) /\ r = out[c][m + 1] /\ r \in ready
                 /\ sent'[r] = p /\ p >= sent[r]
              \/ /\ ~\E i \in 1..m : out[c][i] = r
                 /\ sent'[r] = sent[r]
  BY <1>1, FlushShape DEF FlushedOne
<1>3. ready' = ready /\ rconn' = rconn /\ rsess' = rsess /\ nreq' = nreq
  BY DEF FlushedOne, reqVars
<1> SUFFICES ASSUME NEW r2 \in Rids, sent'[r2] > 0
             PROVE  /\ r2 \in ready
                    /\ \A r1 \in Rids : r1 < r2 /\ SameSession(r1, r2) => sent'[r1] = Size
  BY <1>3 DEF Pipelining, SameSession
<1>4. \A r \in Rids : r \in Nat /\ sent[r] \in 0..Size
  BY SMTT(60) DEF TypeOK, Rids
<1>5. ASSUME NEW r \in Rids, sent[r] = Size PROVE sent'[r] = Size
  <2>1. ~In(r, out[c])
    BY <1>1, <1>4, <1>5 DEF OwedBy
  <2>2. \A i \in 1..Len(out[c]) : out[c][i] # r
    BY <1>1, <2>1 DEF In
  <2> QED BY <1>1, <1>2, <1>5, <2>2
<1>6. CASE \E j \in 1..Len(out[c]) : j <= m + 1 /\ out[c][j] = r2 /\ r2 \in ready
  <2>1. PICK j \in 1..Len(out[c]) : j <= m + 1 /\ out[c][j] = r2
    BY <1>6
  <2>2. In(r2, out[c]) /\ Live(r2) /\ rconn[r2] = c
    BY <1>1, <2>1 DEF In, OwedBy
  <2>3. ASSUME NEW r1 \in Rids, r1 < r2, SameSession(r1, r2) PROVE sent'[r1] = Size
    <3>1. Live(r1) /\ rconn[r1] = c
      <4>1. nreq \in Nat /\ r1 \in Nat /\ r2 \in Nat /\ r2 <= nreq
        BY <1>4, <2>2 DEF Live, TypeOK
      <4>2. r1 <= nreq
        BY <2>3, <4>1
      <4> QED BY <2>2, <2>3, <4>2 DEF Live, SameSession
    <3>2. CASE sent[r1] = Size
      BY <1>5, <3>2
    <3>3. CASE sent[r1] # Size
      <4>1. In(r1, out[c])
        BY <1>1, <1>4, <3>1, <3>3 DEF OwedBy
      <4>2. PICK i \in 1..Len(out[c]) : out[c][i] = r1
        BY <1>1, <4>1 DEF In
      <4>3. i < j
        <5>1. ~(j < i) /\ i # j
          <6>1. j < i => out[c][j] < out[c][i]
            BY <1>1 DEF OwedBy, Increasing
          <6> QED BY <1>4, <2>1, <2>3, <4>2, <6>1
        <5> QED BY <5>1
      <4>4. i \in 1..m
        BY <2>1, <4>3
      <4>5. ~(m < Len(out[c]) /\ r1 = out[c][m + 1])
        <5>1. m < Len(out[c]) => out[c][i] < out[c][m + 1]
          <6>1. i < m + 1 /\ (m < Len(out[c]) => m + 1 \in 1..Len(out[c]))
            BY <1>1, <4>4
          <6> QED BY <1>1, <6>1 DEF OwedBy, Increasing
        <5> QED BY <1>4, <4>2, <5>1
      <4> QED BY <1>2, <4>2, <4>4, <4>5
    <3> QED BY <3>2, <3>3
  <2> QED BY <1>6, <2>3
<1>7. CASE ~\E j \in 1..Len(out[c]) : j <= m + 1 /\ out[c][j] = r2 /\ r2 \in ready
  <2>1. sent'[r2] = sent[r2]
    <3>1. ~\E i \in 1..m : out[c][i] = r2
      BY <1>1, <1>2, <1>7
    <3>2. ~(m < Len(out[c]) /\ r2 = out[c][m + 1] /\ r2 \in ready)
      BY <1>1, <1>7
    <3> QED BY <1>2, <3>1, <3>2
  <2> QED BY <1>5, <2>1 DEF Pipelining
<1> QED BY <1>6, <1>7

\* Every step keeps the responses in the order of their requests.
LEMMA OrderStep ==
    ASSUME TypeOK, Recorded, ClosedIsClean, OutIsOwed, Pipelining, [Next]_vars
    PROVE  Pipelining'
<1> USE DEF reqVars
<1>1. ASSUME NEW c \in Conns, Accept(c) \/ AcceptNoBuffer(c) PROVE Pipelining'
  BY <1>1, OrderKept DEF Accept, AcceptNoBuffer
<1>2. ASSUME NEW c \in Conns, CbRead(c) PROVE Pipelining'
  <2>1. \A r \in Rids : r <= nreq => rconn'[r] = rconn[r] /\ rsess'[r] = rsess[r]
    <3>1. nreq \in Nat /\ \A r \in Rids : r \in Nat
      BY DEF TypeOK, Rids
    <3> QED BY <1>2, <3>1 DEF CbRead
  <2> QED BY <1>2, <2>1, OrderKept DEF CbRead
<1>3. ASSUME NEW c \in open, ClosedOne(c) PROVE Pipelining'
  BY <1>3, OrderKept DEF ClosedOne
<1>4. CASE Shutdown
  BY <1>4, OrderKept DEF Shutdown
<1>5. CASE Quiet
  BY <1>5, OrderKept DEF Quiet
<1> QED BY <1>1, <1>2, <1>3, <1>4, <1>5, OrderFlushed, Effects

-----------------------------------------------------------------------------
(* The write watcher                                                       *)

Armed(c) == "write" \in w[c] <=> out[c] # <<>> /\ out[c][1] \in ready

\* Closing disarms the watcher together with the queue.
LEMMA ArmedClose ==
    ASSUME TypeOK, WriteArmed, NEW c \in Conns, Close(c), ready' = ready
    PROVE  WriteArmed'
<1>1. /\ w' = [w EXCEPT ![c] = {}] /\ out' = [out EXCEPT ![c] = <<>>]
  BY DEF Close
<1>2. ASSUME NEW d \in Conns PROVE Armed(d)'
  <2>1. CASE d = c
    BY <1>1, <2>1 DEF TypeOK, Armed
  <2>2. CASE d # c
    BY <1>1, <2>2 DEF TypeOK, Armed, WriteArmed
  <2> QED BY <2>1, <2>2
<1> QED BY <1>2 DEF WriteArmed, Armed

\* After a write the watcher is active exactly when a ready response is left.
LEMMA ArmedFlush ==
    ASSUME TypeOK, WriteArmed, NEW c \in Conns, NEW others, "write" \notin others,
           Flush(c, others), ready' = ready
    PROVE  WriteArmed'
<1>1. CASE Close(c)
  BY <1>1, ArmedClose
<1>2. CASE ~Close(c)
  <2>1. PICK left :
          /\ out' = [out EXCEPT ![c] = left]
          /\ w' = [w EXCEPT ![c] = others \cup
                      (IF left = <<>> \/ left[1] \notin ready THEN {} ELSE {"write"})]
    BY <1>2 DEF Flush
  <2>2. ASSUME NEW d \in Conns PROVE Armed(d)'
    <3>1. CASE d = c
      <4>1. /\ out'[d] = left
            /\ w'[d] = others \cup
                 (IF left = <<>> \/ left[1] \notin ready THEN {} ELSE {"write"})
        BY <2>1, <3>1 DEF TypeOK
      <4> QED BY <4>1 DEF Armed
    <3>2. CASE d # c
      BY <2>1, <3>2 DEF TypeOK, Armed, WriteArmed
    <3> QED BY <3>1, <3>2
  <2> QED BY <2>2 DEF WriteArmed, Armed
<1> QED BY <1>1, <1>2

\* The watcher follows the front of the queue in every step: what is read into
\* an empty queue is not ready, and send of a response in front arms it.
LEMMA ArmedStep ==
    ASSUME TypeOK, Recorded, Traced, ClosedIsClean, OutIsOwed, WriteArmed, [Next]_vars
    PROVE  WriteArmed'
<1>1. ASSUME out' = out, ready' = ready,
             \A c \in Conns : "write" \in w'[c] <=> "write" \in w[c]
      PROVE  WriteArmed'
  BY <1>1 DEF WriteArmed
<1>2. ASSUME NEW c \in Conns, CbRead(c) PROVE WriteArmed'
  <2>1. PICK k \in 1..(MaxReq - nreq) :
          out' = [out EXCEPT ![c] = @ \o [i \in 1..k |-> nreq + i]]
    BY <1>2 DEF CbRead
  <2>2. w' = [w EXCEPT ![c] = @ \cup {"user"}] /\ ready' = ready
    BY <1>2 DEF CbRead
  <2>3. /\ nreq \in Nat /\ k \in Nat /\ nreq + k <= MaxReq
        /\ out[c] \in Seq(Rids) /\ Len(out[c]) \in Nat /\ k > 0
    BY DEF TypeOK
  <2>4. out'[c] = out[c] \o [i \in 1..k |-> nreq + i]
    BY <2>1 DEF TypeOK
  <2>5. /\ DOMAIN out'[c] = 1..(Len(out[c]) + k)
        /\ \A i \in 1..Len(out[c]) : out'[c][i] = out[c][i]
        /\ \A i \in (Len(out[c]) + 1)..(Len(out[c]) + k) :
              out'[c][i] = nreq + (i - Len(out[c]))
    <3>1. nreq \in Nat /\ k \in Nat /\ nreq + k <= MaxReq /\ out[c] \in Seq(Rids)
      BY <2>3
    <3>2. LET s == out[c] \o [i \in 1..k |-> nreq + i]
          IN  /\ DOMAIN s = 1..(Len(out[c]) + k)
              /\ \A i \in 1..Len(out[c]) : s[i] = out[c][i]
              /\ \A i \in (Len(out[c]) + 1)..(Len(out[c]) + k) :
                    s[i] = nreq + (i - Len(out[c]))
      BY <3>1, Appended
    <3> QED BY <2>4, <3>2
  <2>6. out'[c] # <<>>
    <3>1. 1 \in DOMAIN out'[c]
      BY <2>3, <2>5
    <3> QED BY <3>1
  <2>7. ASSUME NEW d \in Conns PROVE Armed(d)'
    <3>1. CASE d # c
      BY <2>1, <2>2, <3>1 DEF TypeOK, Armed, WriteArmed
    <3>2. CASE d = c /\ out[c] # <<>>
      <4>1. 1 \in 1..Len(out[c])
        BY <2>3, <3>2, EmptySeq
      <4>2. out'[c][1] = out[c][1]
        BY <2>5, <4>1
      <4> QED BY <2>2, <2>6, <3>2, <4>2 DEF TypeOK, Armed, WriteArmed
    <3>3. CASE d = c /\ out[c] = <<>>
      <4>1. Len(out[c]) = 0
        BY <3>3, EmptySeq
      <4>2. 1 \in (Len(out[c]) + 1)..(Len(out[c]) + k) /\ nreq + (1 - Len(out[c])) = nreq + 1
        BY <2>3, <4>1
      <4>3. out'[c][1] = nreq + 1
        BY <2>5, <4>2
      <4>4. nreq + 1 \in Rids /\ nreq + 1 > nreq
        BY <2>3 DEF Rids
      <4>5. out'[c][1] \notin ready
        BY <4>3, <4>4 DEF Recorded
      <4> QED BY <2>2, <3>3, <4>5 DEF TypeOK, Armed, WriteArmed
    <3> QED BY <3>1, <3>2, <3>3
  <2> QED BY <2>7 DEF WriteArmed, Armed
<1>3. ASSUME NEW c \in Conns, NEW r \in Rids, Send(c, r) PROVE WriteArmed'
  <2>1. /\ out' = out /\ ready' = ready \cup {r}
        /\ w' = IF out[c] # <<>> /\ out[c][1] = r
                THEN [w EXCEPT ![c] = @ \cup {"write"}] ELSE w
        /\ r <= nreq /\ rconn[r] = c
    BY <1>3 DEF Send, Traced
  <2>2. ASSUME NEW d \in Conns PROVE Armed(d)'
    <3>1. CASE d = c
      BY <2>1, <3>1 DEF TypeOK, Armed, WriteArmed
    <3>2. CASE d # c
      <4>1. out[d] # <<>> => out[d][1] # r
        <5>1. ASSUME out[d] # <<>> PROVE out[d][1] # r
          <6>1. d \in open /\ out[d] \in Seq(Rids)
            BY <5>1 DEF ClosedIsClean, TypeOK
          <6>2. 1 \in DOMAIN out[d] /\ out[d][1] \in Rids
            BY <5>1, <6>1, EmptySeq, LenProperties
          <6>3. rconn[out[d][1]] = d
            BY <6>1, <6>2 DEF OutIsOwed, OwedBy, In
          <6> QED BY <2>1, <3>2, <6>3
        <5> QED BY <5>1
      <4>2. w'[d] = w[d]
        BY <2>1, <3>2 DEF TypeOK
      <4> QED BY <2>1, <4>1, <4>2 DEF Armed, WriteArmed
    <3> QED BY <3>1, <3>2
  <2> QED BY <2>2 DEF WriteArmed, Armed
<1>4. ASSUME NEW c \in Conns, Loop(c) PROVE WriteArmed'
  <2>1. CASE Accept(c) \/ AcceptNoBuffer(c)
    BY <1>1, <2>1 DEF Accept, AcceptNoBuffer
  <2>2. CASE CbReadFail(c) \/ KeepAliveTimeout(c) \/ CbClose(c)
    BY <2>2, ArmedClose DEF CbReadFail, KeepAliveTimeout, CbClose
  <2>3. CASE CbWrite(c)
    BY <2>3, ArmedFlush DEF CbWrite
  <2>4. CASE CbUserBegin(c) \/ CbUserNext(c) \/ CbUserAbort(c)
    BY <1>1, <2>4 DEF CbUserBegin, CbUserNext, CbUserAbort
  <2>5. CASE CbUserEnd(c)
    <3>1. CASE "write" \in w[c]
      <4>1. w' = [w EXCEPT ![c] = @ \ {"user"}] /\ out' = out /\ ready' = ready
        BY <2>5, <3>1 DEF CbUserEnd
      <4>2. \A d \in Conns : "write" \in w'[d] <=> "write" \in w[d]
        BY <4>1 DEF TypeOK
      <4> QED BY <1>1, <4>1, <4>2
    <3>2. CASE "write" \notin w[c]
      BY <2>5, <3>2, ArmedFlush DEF CbUserEnd
    <3> QED BY <3>1, <3>2
  <2> QED BY <1>2, <1>4, <2>1, <2>2, <2>3, <2>4, <2>5 DEF Loop
<1>5. ASSUME NEW c \in Conns, App(c) PROVE WriteArmed'
  <2>1. CASE Keep(c) \/ Release(c)
    BY <1>1, <2>1 DEF Keep, Release
  <2>2. CASE Disconnect(c)
    <3>1. \A d \in Conns : "write" \in w'[d] <=> "write" \in w[d]
      BY <2>2 DEF Disconnect, TypeOK
    <3> QED BY <1>1, <2>2, <3>1 DEF Disconnect
  <2>3. ASSUME NEW r \in Rids, SendNoMemory(c, r) PROVE WriteArmed'
    <3>1. \A d \in Conns : "write" \in w'[d] <=> "write" \in w[d]
      BY <2>3 DEF SendNoMemory, TypeOK
    <3> QED BY <1>1, <2>3, <3>1 DEF SendNoMemory
  <2> QED BY <1>3, <1>5, <2>1, <2>2, <2>3 DEF App
<1>6. CASE Shutdown
  BY <1>6 DEF Shutdown, WriteArmed
<1>7. CASE UNCHANGED vars
  BY <1>1, <1>7 DEF vars
<1> QED BY <1>4, <1>5, <1>6, <1>7 DEF Next

-----------------------------------------------------------------------------
(* The theorems                                                            *)

\* The invariant holds initially.
LEMMA InductiveInit == Init => Inductive
<1> SUFFICES ASSUME Init PROVE Inductive
  OBVIOUS
<1>1. TypeOK
  BY TypeInit
<1>2. Recorded /\ Traced
  BY DEF Init, Recorded, Traced, In, InHand, Rids
<1>3. PoolConsistent /\ ClosedIsClean /\ OutIsOwed /\ Pipelining /\ WriteArmed
  BY EmptySeq DEF Init, PoolConsistent, ClosedIsClean, OutIsOwed, Pipelining,
     WriteArmed, In
<1> QED BY <1>1, <1>2, <1>3 DEF Inductive

\* Every step keeps the invariant.
LEMMA InductiveStep == Inductive /\ [Next]_vars => Inductive'
<1> SUFFICES ASSUME Inductive, [Next]_vars PROVE Inductive'
  OBVIOUS
<1>1. /\ TypeOK /\ Recorded /\ Traced /\ PoolConsistent /\ ClosedIsClean
      /\ OutIsOwed /\ Pipelining /\ WriteArmed
  BY DEF Inductive
<1>2. TypeOK'
  BY <1>1, TypeStep
<1>3. Recorded' /\ Traced'
  BY <1>1, RecordedStep, TracedStep
<1>4. PoolConsistent' /\ ClosedIsClean'
  BY <1>1, PoolStep, CleanStep
<1>5. OutIsOwed' /\ Pipelining' /\ WriteArmed'
  BY <1>1, QueueStep, OrderStep, ArmedStep
<1> QED BY <1>2, <1>3, <1>4, <1>5 DEF Inductive

\* The invariants hold together in every reachable state.
THEOREM Correct == Spec => []Inductive
<1> QED BY InductiveInit, InductiveStep, PTL DEF Spec

\* Responses leave in the order of their requests, for any number of
\* pipelined requests, partial writes and reuses of a connection.
THEOREM PipeliningHolds == Spec => []Pipelining
<1>1. Inductive => Pipelining
  BY DEF Inductive
<1> QED BY <1>1, Correct, PTL

\* No ready response waits without an active write watcher, and the watcher is
\* never active without one.
THEOREM WriteArmedHolds == Spec => []WriteArmed
<1>1. Inductive => WriteArmed
  BY DEF Inductive
<1> QED BY <1>1, Correct, PTL

\* The pool's lists and the open sockets agree for every free-list limit.
THEOREM PoolHolds == Spec => [](PoolConsistent /\ ClosedIsClean)
<1>1. Inductive => PoolConsistent /\ ClosedIsClean
  BY DEF Inductive
<1> QED BY <1>1, Correct, PTL

\* A request is answered in the session it arrived in or not at all.
THEOREM NoLateWriteHolds == Spec => NoLateWrite
<1>1. Inductive /\ [Next]_vars => [\A r \in Rids : sent'[r] # sent[r] => Live(r)]_vars
  <2> SUFFICES ASSUME Inductive, [Next]_vars, NEW r \in Rids, sent'[r] # sent[r]
               PROVE  Live(r)
    OBVIOUS
  <2>1. TypeOK /\ ClosedIsClean /\ OutIsOwed
    BY DEF Inductive
  <2>2. PICK c \in open : FlushedOne(c)
    <3>1. /\ ~\E c \in Conns : Accept(c) \/ AcceptNoBuffer(c)
          /\ ~\E c \in Conns : CbRead(c)
          /\ ~\E c \in open : ClosedOne(c)
          /\ ~Shutdown /\ ~Quiet
      BY DEF Accept, AcceptNoBuffer, CbRead, ClosedOne, Shutdown, Quiet
    <3> QED BY <2>1, <3>1, Effects
  <2> QED BY <2>1, <2>2, FlushOwed DEF FlushedOne
<1> QED BY <1>1, Correct, PTL DEF Spec, NoLateWrite

\* cb_user's own call of the write loop never has anything to write, so it
\* never closes the connection it is a method of.
THEOREM CbUserWritesNothingHolds == Spec => CbUserWritesNothing
<1>1. Inductive /\ [Next]_vars =>
        [\A c \in Conns : running = c /\ running' = NoConn =>
            sent' = sent /\ open' = open]_vars
  <2> SUFFICES ASSUME Inductive, [Next]_vars, NEW c \in Conns,
                      running = c, running' = NoConn
               PROVE  sent' = sent /\ open' = open
    OBVIOUS
  <2>1. TypeOK /\ WriteArmed
    BY DEF Inductive
  <2>2. c # NoConn
    OBVIOUS
  <2>3. CbUserAbort(c) \/ CbUserEnd(c)
    <3>1. running' # running
      BY <2>2
    <3>2. \A d \in Conns : ~App(d)
      BY <3>1 DEF App, Keep, Release, Disconnect, Send, SendNoMemory, cbVars
    <3>3. \A d \in Conns : Loop(d) => CbUserBegin(d) \/ CbUserAbort(d) \/ CbUserEnd(d)
      BY <3>1 DEF Loop, Accept, AcceptNoBuffer, CbRead, CbReadFail,
         KeepAliveTimeout, CbClose, CbWrite, CbUserNext, cbVars
    <3>4. \A d \in Conns : CbUserBegin(d) => FALSE
      BY <2>2 DEF CbUserBegin
    <3>5. \A d \in Conns : CbUserAbort(d) \/ CbUserEnd(d) => d = c
      BY DEF CbUserAbort, CbUserEnd
    <3>6. ~Shutdown /\ ~UNCHANGED vars
      BY <3>1 DEF Shutdown, cbVars, vars
    <3> QED BY <3>2, <3>3, <3>4, <3>5, <3>6 DEF Next
  <2>4. CASE CbUserAbort(c)
    BY <2>4 DEF CbUserAbort
  <2>5. CASE CbUserEnd(c) /\ "write" \in w[c]
    BY <2>5 DEF CbUserEnd
  <2>6. CASE CbUserEnd(c) /\ "write" \notin w[c]
    <3>1. out[c] = <<>> \/ out[c][1] \notin ready
      BY <2>1, <2>6 DEF WriteArmed
    <3>2. out[c] \in Seq(Rids) /\ Len(out[c]) \in Nat
      BY <2>1 DEF TypeOK
    <3>3. PICK m \in 0..Len(out[c]), p \in 0..(Size - 1) :
            LET done == {out[c][i] : i \in 1..m}
                left == SubSeq(out[c], m + 1, Len(out[c]))
                stop == left = <<>> \/ left[1] \notin ready
            IN  /\ done \subseteq ready
                /\ sent' = [r \in Rids |-> IF r \in done THEN Size
                                           ELSE IF ~stop /\ r = left[1] THEN p
                                           ELSE sent[r]]
                /\ \/ open' = open
                   \/ done \cap closing # {} \/ ~stop
      BY <2>6 DEF CbUserEnd, Flush
    <3>4. m = 0
      <4>1. CASE out[c] = <<>>
        BY <4>1, EmptySeq
      <4>2. CASE out[c] # <<>> /\ out[c][1] \notin ready
        <5>1. m >= 1 => out[c][1] \in {out[c][i] : i \in 1..m}
          OBVIOUS
        <5> QED BY <3>2, <3>3, <4>2, <5>1
      <4> QED BY <3>1, <4>1, <4>2
    <3>5. SubSeq(out[c], m + 1, Len(out[c])) = out[c]
      <4>1. SubSeq(out[c], 1, Len(out[c])) = out[c]
        BY <3>2, SubSeqFull
      <4> QED BY <3>4, <4>1
    <3>6. {out[c][i] : i \in 1..m} = {}
      BY <3>4
    <3>7. sent' = [r \in Rids |-> sent[r]] /\ open' = open
      BY <3>1, <3>3, <3>5, <3>6
    <3> QED BY <2>1, <3>7 DEF TypeOK
  <2> QED BY <2>3, <2>4, <2>5, <2>6
<1> QED BY <1>1, Correct, PTL DEF Spec, CbUserWritesNothing

-----------------------------------------------------------------------------
(* The connections implement the pipeline                                  *)

\* A write is a piece of the pipeline's output, whether the connection
\* survives it or not.
LEMMA FlushEmits ==
    ASSUME TypeOK, NEW c \in Conns, NEW others, Flush(c, others),
           UNCHANGED <<nreq, ready>>
    PROVE  Promise!Emit(c)
<1>1. PICK m \in 0..Len(out[c]), p \in 0..(Size - 1) :
        LET done == {out[c][i] : i \in 1..m}
            left == SubSeq(out[c], m + 1, Len(out[c]))
            stop == left = <<>> \/ left[1] \notin ready
        IN  /\ done \subseteq ready
            /\ IF stop THEN p = 0 ELSE p >= sent[left[1]]
            /\ sent' = [r \in Rids |-> IF r \in done THEN Size
                                       ELSE IF ~stop /\ r = left[1] THEN p
                                       ELSE sent[r]]
            /\ \/ out' = [out EXCEPT ![c] = left]
               \/ out' = [out EXCEPT ![c] = <<>>]
  BY DEF Flush, Close
<1> DEFINE done == {out[c][i] : i \in 1..m}
           left == SubSeq(out[c], m + 1, Len(out[c]))
           begun == left # <<>> /\ left[1] \in ready
<1>2. /\ done \subseteq ready
      /\ IF begun THEN p >= sent[left[1]] ELSE p = 0
      /\ sent' = [r \in Rids |-> IF r \in done THEN Size
                                 ELSE IF begun /\ r = left[1] THEN p
                                 ELSE sent[r]]
      /\ \E rest \in {left, <<>>} : out' = [out EXCEPT ![c] = rest]
  <2>1. begun <=> ~(left = <<>> \/ left[1] \notin ready)
    OBVIOUS
  <2> HIDE DEF begun
  <2> QED BY <1>1, <2>1
<1> QED BY <1>2 DEF Promise!Emit, Promise!Rids, Rids

\* Every step is a step of the pipeline or none at all.
LEMMA PromiseStep ==
    Inductive /\ [Next]_vars => [Promise!Next]_(Promise!vars)
<1> SUFFICES ASSUME Inductive, [Next]_vars
             PROVE  Promise!Next \/ UNCHANGED <<out, nreq, ready, sent>>
  BY DEF Promise!vars
<1> USE DEF reqVars
<1>1. TypeOK /\ Traced
  BY DEF Inductive
<1>2. ASSUME NEW c \in Conns, Close(c), UNCHANGED <<nreq, ready, sent>>
      PROVE  Promise!Next
  <2>1. out' = [d \in Conns |-> IF d \in {c} THEN <<>> ELSE out[d]]
    BY <1>1, <1>2 DEF Close, TypeOK
  <2>2. Promise!End
    BY <1>2, <2>1 DEF Promise!End
  <2> QED BY <2>2 DEF Promise!Next
<1>3. ASSUME NEW c \in Conns, NEW others, Flush(c, others), UNCHANGED <<nreq, ready>>
      PROVE  Promise!Next
  BY <1>1, <1>3, FlushEmits DEF Promise!Next
<1>4. CASE Shutdown
  <2>1. out' = [d \in Conns |-> IF d \in Conns THEN <<>> ELSE out[d]]
    BY <1>4 DEF Shutdown
  <2>2. Promise!End
    BY <1>4, <2>1 DEF Promise!End, Shutdown
  <2> QED BY <2>2 DEF Promise!Next
<1>5. ASSUME NEW c \in Conns, CbRead(c) PROVE Promise!Next
  <2>1. Promise!Ask(c)
    BY <1>5 DEF CbRead, Promise!Ask
  <2> QED BY <2>1 DEF Promise!Next
<1>6. ASSUME NEW c \in Conns, NEW r \in Rids, Send(c, r) PROVE Promise!Next
  <2>1. Promise!Answer(r)
    BY <1>1, <1>6 DEF Send, Promise!Answer, Traced
  <2> QED BY <2>1 DEF Promise!Next, Promise!Rids, Rids
<1>7. ASSUME NEW c \in Conns, Loop(c)
      PROVE  Promise!Next \/ UNCHANGED <<out, nreq, ready, sent>>
  <2>1. CASE Accept(c) \/ AcceptNoBuffer(c)
    BY <2>1 DEF Accept, AcceptNoBuffer
  <2>2. CASE CbReadFail(c) \/ KeepAliveTimeout(c) \/ CbClose(c)
    BY <1>2, <2>2 DEF CbReadFail, KeepAliveTimeout, CbClose
  <2>3. CASE CbWrite(c)
    BY <1>3, <2>3 DEF CbWrite
  <2>4. CASE CbUserBegin(c) \/ CbUserNext(c) \/ CbUserAbort(c)
    BY <2>4 DEF CbUserBegin, CbUserNext, CbUserAbort
  <2>5. CASE CbUserEnd(c)
    BY <1>3, <2>5 DEF CbUserEnd
  <2> QED BY <1>5, <1>7, <2>1, <2>2, <2>3, <2>4, <2>5 DEF Loop
<1>8. ASSUME NEW c \in Conns, App(c)
      PROVE  Promise!Next \/ UNCHANGED <<out, nreq, ready, sent>>
  <2>1. CASE Keep(c) \/ Release(c) \/ Disconnect(c)
    BY <2>1 DEF Keep, Release, Disconnect
  <2>2. ASSUME NEW r \in Rids, SendNoMemory(c, r)
        PROVE  UNCHANGED <<out, nreq, ready, sent>>
    BY <2>2 DEF SendNoMemory
  <2> QED BY <1>6, <1>8, <2>1, <2>2 DEF App
<1>9. CASE UNCHANGED vars
  BY <1>9 DEF vars
<1> QED BY <1>4, <1>7, <1>8, <1>9 DEF Next

\* Seen from their peers, the connections, the pool and the watchers are a
\* pipeline per connection.
THEOREM ImplementsPipeline == Spec => PipelineSpec
<1>1. Init => Promise!Init
  BY DEF Init, Promise!Init, Promise!Rids, Rids
<1>2. Inductive /\ [Next]_vars => [Promise!Next]_(Promise!vars)
  BY PromiseStep
<1> QED BY <1>1, <1>2, Correct, PTL DEF Spec, PipelineSpec, Promise!Spec

-----------------------------------------------------------------------------
(* Delivery to the callback                                                *)

\* Everything in s comes before everything in t.
Before(s, t) == \A i \in DOMAIN s, j \in DOMAIN t : s[i] < t[j]

\* A concatenation is increasing when its parts are and follow each other.
LEMMA IncreasingConcat ==
    ASSUME NEW s \in Seq(Rids), NEW t \in Seq(Rids)
    PROVE  /\ Increasing(s \o t) <=> Increasing(s) /\ Increasing(t) /\ Before(s, t)
           /\ \A r \in Rids : In(r, s \o t) <=> In(r, s) \/ In(r, t)
           /\ \A x \in Seq(Rids) : Before(s \o t, x) <=> Before(s, x) /\ Before(t, x)
<1> DEFINE st == s \o t
<1>1. /\ DOMAIN s = 1..Len(s) /\ DOMAIN t = 1..Len(t)
      /\ Len(s) \in Nat /\ Len(t) \in Nat
      /\ \A i \in 1..Len(s) : s[i] \in Int
      /\ \A i \in 1..Len(t) : t[i] \in Int
  BY LenProperties, ElementOfSeq DEF Rids
<1>2. /\ DOMAIN st = 1..(Len(s) + Len(t))
      /\ \A i \in 1..Len(s) : i \in DOMAIN st /\ st[i] = s[i]
      /\ \A i \in 1..Len(t) : i + Len(s) \in DOMAIN st /\ st[i + Len(s)] = t[i]
      /\ \A i \in DOMAIN st : i \in 1..Len(s) \/ i - Len(s) \in 1..Len(t)
      /\ \A i \in DOMAIN st : i - Len(s) \in 1..Len(t) => st[i] = t[i - Len(s)]
  <2>1. /\ st \in Seq(Rids) /\ Len(st) = Len(s) + Len(t)
        /\ \A i \in 1..(Len(s) + Len(t)) :
             st[i] = IF i <= Len(s) THEN s[i] ELSE t[i - Len(s)]
    BY ConcatProperties
  <2>2. DOMAIN st = 1..(Len(s) + Len(t))
    BY <2>1, LenProperties
  <2> HIDE DEF st
  <2>3. \A i \in 1..Len(s) : i \in DOMAIN st /\ st[i] = s[i]
    BY <1>1, <2>1, <2>2
  <2>4. ASSUME NEW i \in 1..Len(t)
        PROVE  i + Len(s) \in DOMAIN st /\ st[i + Len(s)] = t[i]
    <3>1. i + Len(s) \in 1..(Len(s) + Len(t)) /\ ~(i + Len(s) <= Len(s))
          /\ i + Len(s) - Len(s) = i
      BY <1>1
    <3> QED BY <2>1, <2>2, <3>1
  <2>5. \A i \in DOMAIN st :
          /\ i \in 1..Len(s) \/ i - Len(s) \in 1..Len(t)
          /\ i - Len(s) \in 1..Len(t) => st[i] = t[i - Len(s)]
    BY <1>1, <2>1, <2>2
  <2> QED BY <2>2, <2>3, <2>4, <2>5
<1> HIDE DEF st
<1>3. \A r \in Rids : In(r, st) <=> In(r, s) \/ In(r, t)
  BY <1>1, <1>2 DEF In
<1>4. ASSUME NEW x \in Seq(Rids)
      PROVE  Before(st, x) <=> Before(s, x) /\ Before(t, x)
  BY <1>1, <1>2 DEF Before
<1>5. Increasing(st) => Increasing(s) /\ Increasing(t) /\ Before(s, t)
  <2> SUFFICES ASSUME Increasing(st) 
               PROVE Increasing(s) /\ Increasing(t) /\ Before(s, t)
    OBVIOUS
  <2>1. Increasing(s)
    BY <1>1, <1>2 DEF Increasing
  <2>2. ASSUME NEW i \in 1..Len(t), NEW j \in 1..Len(t), i < j PROVE t[i] < t[j]
    <3>1. i + Len(s) < j + Len(s)
      BY <1>1, <2>2
    <3> QED BY <1>1, <1>2, <3>1 DEF Increasing
  <2>3. ASSUME NEW i \in 1..Len(s), NEW j \in 1..Len(t) PROVE s[i] < t[j]
    <3>1. i < j + Len(s) /\ i \in DOMAIN st
      BY <1>1, <1>2
    <3> QED BY <1>1, <1>2, <3>1 DEF Increasing
  <2> QED BY <1>1, <2>1, <2>2, <2>3 DEF Increasing, Before
<1>6. ASSUME Increasing(s), Increasing(t), Before(s, t) PROVE Increasing(st)
  <2> SUFFICES ASSUME NEW i \in DOMAIN st, NEW j \in DOMAIN st, i < j
               PROVE  st[i] < st[j]
    BY DEF Increasing
  <2>1. CASE i \in 1..Len(s) /\ j \in 1..Len(s)
    BY <1>1, <1>2, <1>6, <2>1 DEF Increasing
  <2>2. CASE i \in 1..Len(s) /\ j - Len(s) \in 1..Len(t)
    BY <1>1, <1>2, <1>6, <2>2 DEF Before
  <2>3. CASE i - Len(s) \in 1..Len(t)
    <3>1. j - Len(s) \in 1..Len(t) /\ i - Len(s) < j - Len(s)
      BY <1>1, <1>2, <2>3
    <3> QED BY <1>1, <1>2, <1>6, <2>3, <3>1 DEF Increasing
  <2> QED BY <1>2, <2>1, <2>2, <2>3
<1> QED BY <1>3, <1>4, <1>5, <1>6 DEF st

\* Passing the head of a queue on loses nothing and keeps the order.
LEMMA PassHead ==
    ASSUME NEW s \in Seq(Rids), NEW t \in Seq(Rids), t # <<>>
    PROVE  /\ Append(s, Head(t)) \in Seq(Rids) /\ Tail(t) \in Seq(Rids)
           /\ Append(s, Head(t)) \o Tail(t) = s \o t
<1>1. Head(t) \in Rids /\ Tail(t) \in Seq(Rids) /\ <<Head(t)>> \in Seq(Rids)
  BY HeadTailProperties
<1>2. <<Head(t)>> \o Tail(t) = t
  BY <1>1
<1>3. Append(s, Head(t)) = s \o <<Head(t)>>
  BY <1>1, AppendIsConcat
<1>4. (s \o <<Head(t)>>) \o Tail(t) = s \o (<<Head(t)>> \o Tail(t))
  BY <1>1, ConcatAssociative
<1> QED BY <1>1, <1>2, <1>3, <1>4

\* The order of the three places a request waits in, taken apart.
LEMMA ThreeParts ==
    ASSUME NEW a \in Seq(Rids), NEW b \in Seq(Rids), NEW u \in Seq(Rids)
    PROVE  Increasing(a \o b \o u) <=>
             /\ Increasing(a) /\ Increasing(b) /\ Increasing(u)
             /\ Before(a, b) /\ Before(a, u) /\ Before(b, u)
<1>1. a \o b \in Seq(Rids)
  BY ConcatProperties
<1> QED BY <1>1, IncreasingConcat

Ordered(c) == Increasing(handed[c] \o InHand(c) \o user[c])
Complete(c) ==
    "close" \in w[c] \/
      \A r \in Rids : Live(r) /\ rconn[r] = c =>
         In(r, handed[c]) \/ In(r, InHand(c)) \/ In(r, user[c])

\* The queues that a connection's requests pass through hold requests.
LEMMA InHandType ==
    ASSUME TypeOK, NEW c \in Conns
    PROVE  InHand(c) \in Seq(Rids) /\ handed[c] \in Seq(Rids) /\ user[c] \in Seq(Rids)
  BY EmptySeq DEF TypeOK, InHand

\* A step that passes nothing on and takes in nothing for c, and may drop what
\* waits for c when its session ends, keeps order and completeness.
LEMMA DeliversStill ==
    ASSUME TypeOK, Recorded, NEW c \in Conns, Ordered(c), Complete(c),
           handed'[c] = handed[c], InHand(c)' = InHand(c),
           nreq' \in Nat, nreq' >= nreq,
           \A r \in Rids : r <= nreq => rconn'[r] = rconn[r] /\ rsess'[r] = rsess[r],
           \A r \in Rids : r > nreq /\ r <= nreq' => rconn'[r] # c,
           \/ /\ user'[c] = user[c] /\ ("close" \in w[c] => "close" \in w'[c])
              /\ c \in open' => c \in open /\ session'[c] = session[c]
           \/ user'[c] = <<>> /\ c \notin open'
    PROVE  Ordered(c)' /\ Complete(c)'
<1> USE DEF Rids
<1>1. /\ InHand(c) \in Seq(Rids) /\ handed[c] \in Seq(Rids) /\ user[c] \in Seq(Rids)
      /\ <<>> \in Seq(Rids)
  BY InHandType, EmptySeq
<1>2. CASE user'[c] = <<>> /\ c \notin open'
  <2>1. /\ Increasing(<<>>) /\ \A x : Before(x, <<>>)
    BY DEF Increasing, Before
  <2>2. Ordered(c)'
    <3> HIDE DEF Rids
    <3> QED BY <1>1, <1>2, <2>1, ThreeParts DEF Ordered
  <2>3. Complete(c)'
    BY <1>2 DEF Complete, Live
  <2> QED BY <2>2, <2>3
<1>3. CASE /\ user'[c] = user[c] /\ ("close" \in w[c] => "close" \in w'[c])
           /\ c \in open' => c \in open /\ session'[c] = session[c]
  <2>1. Ordered(c)'
    BY <1>3 DEF Ordered
  <2>2. ASSUME NEW r \in Rids, Live(r)', rconn'[r] = c
        PROVE  Live(r) /\ rconn[r] = c
    <3>1. r <= nreq' /\ c \in open' /\ rsess'[r] = session'[c]
      BY <2>2 DEF Live
    <3>2. r <= nreq
      BY <2>2, <3>1 DEF TypeOK
    <3> QED BY <1>3, <2>2, <3>1, <3>2 DEF Live
  <2>3. Complete(c)'
    BY <1>3, <2>2 DEF Complete, In
  <2> QED BY <2>1, <2>3
<1> QED BY <1>2, <1>3

\* The requests of one read join the end of _user.
LEMMA DeliversRead ==
    ASSUME TypeOK, Recorded, Traced, NEW c \in Conns, Ordered(c), Complete(c),
           CbRead(c)
    PROVE  Ordered(c)' /\ Complete(c)'
<1> USE DEF Rids
<1>1. /\ InHand(c) \in Seq(Rids) /\ handed[c] \in Seq(Rids) /\ user[c] \in Seq(Rids)
  BY InHandType
<1>2. PICK k \in 1..(MaxReq - nreq) :
        /\ nreq' = nreq + k
        /\ rconn' = [r \in Rids |-> IF r > nreq /\ r <= nreq + k THEN c
                                    ELSE rconn[r]]
        /\ rsess' = [r \in Rids |-> IF r > nreq /\ r <= nreq + k
                                    THEN session[c] ELSE rsess[r]]
        /\ user' = [user EXCEPT ![c] = @ \o [i \in 1..k |-> nreq + i]]
  BY DEF CbRead
<1> DEFINE new == [i \in 1..k |-> nreq + i]
<1>3. /\ nreq \in Nat /\ k \in Nat \ {0} /\ nreq + k <= MaxReq /\ MaxReq \in Nat
  BY <1>2 DEF TypeOK
<1>4. /\ new \in Seq(Rids) /\ DOMAIN new = 1..k
      /\ \A i \in 1..k : new[i] = nreq + i
  BY <1>3
<1>5. \A r \in Rids : In(r, new) <=> r > nreq /\ r <= nreq + k
  <2>1. ASSUME NEW r \in Rids, r > nreq, r <= nreq + k PROVE In(r, new)
    <3>1. r - nreq \in 1..k /\ nreq + (r - nreq) = r
      BY <1>3, <2>1
    <3> HIDE DEF new
    <3> QED BY <1>4, <3>1 DEF In
  <2>2. ASSUME NEW r \in Rids, In(r, new) PROVE r > nreq /\ r <= nreq + k
    <3> HIDE DEF new
    <3> QED BY <1>3, <1>4, <2>2 DEF In
  <2> QED BY <2>1, <2>2
<1>6. user'[c] = user[c] \o new
  BY <1>2 DEF TypeOK
<1>7. handed'[c] = handed[c] /\ InHand(c)' = InHand(c)
  BY DEF CbRead, cbVars, InHand
<1>8. Increasing(new)
  <2> HIDE DEF new
  <2> QED BY <1>3, <1>4 DEF Increasing
<1>9. ASSUME NEW s \in Seq(Rids), \A r \in Rids : In(r, s) => r <= nreq
      PROVE  Before(s, new)
  <2>1. \A i \in DOMAIN s : s[i] \in Rids /\ In(s[i], s)
    BY LenProperties, ElementOfSeq DEF In
  <2> HIDE DEF new, Rids
  <2>2. \A i \in DOMAIN s : s[i] \in Int /\ s[i] <= nreq
    BY <1>9, <2>1 DEF Rids
  <2> QED BY <1>3, <1>4, <2>2 DEF Before
<1> HIDE DEF new, Rids
<1>10. Before(handed[c], new) /\ Before(InHand(c), new) /\ Before(user[c], new)
  BY <1>1, <1>9 DEF Traced
<1>11. Ordered(c)'
  <2>1. /\ Increasing(handed[c]) /\ Increasing(InHand(c)) /\ Increasing(user[c])
        /\ Before(handed[c], InHand(c)) /\ Before(handed[c], user[c])
        /\ Before(InHand(c), user[c])
    BY <1>1, ThreeParts DEF Ordered
  <2>2. /\ user[c] \o new \in Seq(Rids) /\ Increasing(user[c] \o new)
    BY <1>1, <1>4, <1>8, <1>10, <2>1, IncreasingConcat, ConcatProperties
  <2>3. \A s \in Seq(Rids) : Before(s, user[c]) /\ Before(s, new) =>
                               Before(s, user[c] \o new)
    <3> SUFFICES ASSUME NEW s \in Seq(Rids), Before(s, user[c]), Before(s, new)
                 PROVE  Before(s, user[c] \o new)
      OBVIOUS
    <3>1. /\ DOMAIN (user[c] \o new) = 1..(Len(user[c]) + Len(new))
          /\ \A i \in 1..(Len(user[c]) + Len(new)) :
               (user[c] \o new)[i] = IF i <= Len(user[c]) THEN user[c][i]
                                     ELSE new[i - Len(user[c])]
      BY <1>1, <1>4, <2>2, ConcatProperties, LenProperties
    <3>2. /\ DOMAIN user[c] = 1..Len(user[c]) /\ DOMAIN new = 1..Len(new)
          /\ Len(user[c]) \in Nat /\ Len(new) \in Nat
      BY <1>1, <1>4, LenProperties
    <3> QED BY <3>1, <3>2 DEF Before
  <2>4. /\ Before(handed[c], user[c] \o new) /\ Before(InHand(c), user[c] \o new)
    BY <1>1, <1>10, <2>1, <2>3
  <2>5. Increasing(handed[c] \o InHand(c) \o (user[c] \o new))
    BY <1>1, <2>1, <2>2, <2>4, ThreeParts
  <2> QED BY <1>6, <1>7, <2>5 DEF Ordered
<1>12. Complete(c)'
  <2>1. CASE "close" \in w[c]
    BY <2>1 DEF CbRead, Complete, TypeOK
  <2>2. CASE "close" \notin w[c]
    <3> SUFFICES ASSUME NEW r \in Rids, Live(r)', rconn'[r] = c
                 PROVE  In(r, handed[c]) \/ In(r, InHand(c)) \/ In(r, user'[c])
      BY <1>7 DEF Complete, In
    <3>1. In(r, user'[c]) <=> In(r, user[c]) \/ In(r, new)
      BY <1>1, <1>4, <1>6, IncreasingConcat
    <3>2. CASE r > nreq
      BY <1>2, <1>5, <3>1, <3>2 DEF Live
    <3>3. CASE ~(r > nreq)
      <4>1. rconn[r] = c /\ rsess[r] = rsess'[r] /\ r <= nreq
        BY <1>2, <1>3, <3>3 DEF Rids
      <4>2. Live(r)
        BY <4>1 DEF Live, CbRead
      <4> QED BY <2>2, <3>1, <4>1, <4>2 DEF Complete
    <3> QED BY <3>2, <3>3
  <2> QED BY <2>1, <2>2
<1> QED BY <1>11, <1>12

\* cb_user passes the head of what it has to the callback.
LEMMA DeliversPass ==
    ASSUME TypeOK, NEW c \in Conns, Ordered(c), Complete(c),
           CbUserBegin(c) \/ CbUserNext(c)
    PROVE  Ordered(c)' /\ Complete(c)'
<1>1. /\ InHand(c) \in Seq(Rids) /\ handed[c] \in Seq(Rids) /\ user[c] \in Seq(Rids)
  BY InHandType
<1> DEFINE all == handed[c] \o InHand(c) \o user[c]
<1>2. handed'[c] \o InHand(c)' \o user'[c] = all
      /\ handed'[c] \in Seq(Rids) /\ InHand(c)' \in Seq(Rids) /\ user'[c] \in Seq(Rids)
  <2>1. CASE CbUserBegin(c)
    <3>1. /\ InHand(c) = <<>> /\ user[c] # <<>>
          /\ InHand(c)' = Tail(user[c]) /\ user'[c] = <<>>
          /\ handed'[c] = Append(handed[c], Head(user[c]))
      BY <2>1 DEF CbUserBegin, InHand, TypeOK
    <3>2. /\ handed'[c] \in Seq(Rids) /\ InHand(c)' \in Seq(Rids)
          /\ handed'[c] \o InHand(c)' = handed[c] \o user[c]
      BY <1>1, <3>1, PassHead
    <3>3. /\ (handed'[c] \o InHand(c)') \o <<>> = handed'[c] \o InHand(c)'
          /\ handed[c] \o InHand(c) = handed[c]
      BY <1>1, <3>1, <3>2, ConcatEmptySeq, ConcatProperties
    <3> QED BY <3>1, <3>2, <3>3, EmptySeq
  <2>2. CASE CbUserNext(c)
    <3>1. /\ InHand(c) = batch /\ batch # <<>>
          /\ InHand(c)' = Tail(batch) /\ user'[c] = user[c]
          /\ handed'[c] = Append(handed[c], Head(batch))
      BY <2>2 DEF CbUserNext, InHand, TypeOK
    <3>2. /\ handed'[c] \in Seq(Rids) /\ InHand(c)' \in Seq(Rids)
          /\ handed'[c] \o InHand(c)' = handed[c] \o InHand(c)
      BY <1>1, <3>1, PassHead
    <3> QED BY <1>1, <3>1, <3>2
  <2> QED BY <2>1, <2>2
<1>3. Ordered(c)'
  BY <1>2 DEF Ordered
<1>4. ASSUME NEW r \in Rids
      PROVE  /\ In(r, all) <=> In(r, handed[c]) \/ In(r, InHand(c)) \/ In(r, user[c])
             /\ In(r, all) <=> In(r, handed'[c]) \/ In(r, InHand(c)') \/ In(r, user'[c])
  <2>1. /\ handed[c] \o InHand(c) \in Seq(Rids)
        /\ handed'[c] \o InHand(c)' \in Seq(Rids)
    BY <1>1, <1>2, ConcatProperties
  <2>2. /\ In(r, all) <=> In(r, handed[c] \o InHand(c)) \/ In(r, user[c])
        /\ In(r, handed[c] \o InHand(c)) <=> In(r, handed[c]) \/ In(r, InHand(c))
    BY <1>1, <2>1, IncreasingConcat
  <2>3. /\ In(r, handed'[c] \o InHand(c)' \o user'[c]) <=>
             In(r, handed'[c] \o InHand(c)') \/ In(r, user'[c])
        /\ In(r, handed'[c] \o InHand(c)') <=> In(r, handed'[c]) \/ In(r, InHand(c)')
    BY <1>2, <2>1, IncreasingConcat
  <2> QED BY <1>2, <2>2, <2>3
<1>5. UNCHANGED <<w, open, session, nreq, rconn, rsess>>
  BY DEF CbUserBegin, CbUserNext, reqVars
<1> HIDE DEF all
<1>6. Complete(c)'
  <2> SUFFICES ASSUME "close" \notin w[c], NEW r \in Rids, Live(r), rconn[r] = c
               PROVE  In(r, handed'[c]) \/ In(r, InHand(c)') \/ In(r, user'[c])
    BY <1>5 DEF Complete, Live, In
  <2> QED BY <1>4 DEF Complete
<1> QED BY <1>3, <1>6

\* cb_user drops the rest of its vector when its session ends under it.
LEMMA DeliversAbort ==
    ASSUME TypeOK, NEW c \in Conns, Ordered(c), CbUserAbort(c)
    PROVE  Ordered(c)' /\ Complete(c)'
<1>1. /\ InHand(c) \in Seq(Rids) /\ handed[c] \in Seq(Rids) /\ user[c] \in Seq(Rids)
      /\ <<>> \in Seq(Rids)
  BY InHandType, EmptySeq
<1>2. /\ handed'[c] = handed[c] /\ user'[c] = user[c] /\ InHand(c)' = <<>>
      /\ c \notin open' \/ "close" \in w'[c]
  BY NoConnAssumption DEF CbUserAbort, InHand
<1>3. /\ Increasing(<<>>) /\ \A x : Before(x, <<>>) /\ Before(<<>>, x)
  BY DEF Increasing, Before
<1>4. Increasing(handed[c] \o <<>> \o user[c])
  BY <1>1, <1>3, ThreeParts DEF Ordered
<1> QED BY <1>2, <1>4 DEF Ordered, Complete, Live

\* A written piece leaves what waits for the callback alone.
LEMMA FlushDelivers ==
    ASSUME TypeOK, NEW c \in Conns, NEW others, Flush(c, others)
    PROVE  \/ Close(c)
           \/ /\ open' = open /\ user' = user
              /\ "close" \in others => "close" \in w'[c]
              /\ \A d \in Conns \ {c} : w'[d] = w[d]
<1>1. Close(c) \/ \E left, ws : /\ out' = [out EXCEPT ![c] = left]
                                /\ w' = [w EXCEPT ![c] = others \cup ws]
                                /\ open' = open /\ user' = user
  BY DEF Flush
<1>2. w \in [Conns -> SUBSET Watchers]
  BY DEF TypeOK
<1>3. ASSUME NEW left, NEW ws, w' = [w EXCEPT ![c] = others \cup ws]
      PROVE  /\ "close" \in others => "close" \in w'[c]
             /\ \A d \in Conns \ {c} : w'[d] = w[d]
  BY <1>2, <1>3
<1> QED BY <1>1, <1>3

\* Every step keeps the order of the calls and loses no request.
LEMMA DeliveryStep ==
    ASSUME Inductive, Delivery, [Next]_vars
    PROVE  Delivery'
<1> USE DEF reqVars, poolVars, cbVars
<1> SUFFICES ASSUME NEW c \in Conns PROVE Ordered(c)' /\ Complete(c)'
  BY DEF Delivery, Ordered, Complete
<1>1. /\ TypeOK /\ Recorded /\ Traced /\ PoolConsistent /\ ClosedIsClean
      /\ Ordered(c) /\ Complete(c) /\ nreq \in Nat
  BY DEF Inductive, Delivery, Ordered, Complete, TypeOK
<1>2. ASSUME handed'[c] = handed[c], InHand(c)' = InHand(c), UNCHANGED reqVars,
             \/ /\ user'[c] = user[c] /\ ("close" \in w[c] => "close" \in w'[c])
                /\ c \in open' => c \in open /\ session'[c] = session[c]
             \/ user'[c] = <<>> /\ c \notin open'
      PROVE  Ordered(c)' /\ Complete(c)'
  <2>1. /\ nreq' \in Nat /\ nreq' >= nreq
        /\ \A r \in Rids : r <= nreq => rconn'[r] = rconn[r] /\ rsess'[r] = rsess[r]
        /\ \A r \in Rids : r > nreq /\ r <= nreq' => rconn'[r] # c
    BY <1>1, <1>2 DEF Rids
  <2> QED BY <1>1, <1>2, <2>1, DeliversStill
<1>3. ASSUME NEW d \in Conns, Close(d), UNCHANGED <<cbVars, session, reqVars, handed>>
      PROVE  Ordered(c)' /\ Complete(c)'
  BY <1>1, <1>2, <1>3 DEF Close, TypeOK, InHand
<1>4. ASSUME NEW d \in Conns, NEW others, Flush(d, others),
             "close" \in w[d] => "close" \in others,
             UNCHANGED <<session, reqVars, handed>>, InHand(c)' = InHand(c)
      PROVE  Ordered(c)' /\ Complete(c)'
  <2>1. CASE Close(d)
    BY <1>1, <1>2, <1>4, <2>1 DEF Close, TypeOK
  <2>2. CASE ~Close(d)
    BY <1>1, <1>2, <1>4, <2>2, FlushDelivers
  <2> QED BY <2>1, <2>2
<1>5. CASE UNCHANGED vars
  BY <1>2, <1>5 DEF vars, InHand
<1>6. CASE Shutdown
  BY <1>2, <1>6 DEF Shutdown, InHand
<1>7. ASSUME NEW d \in Conns, Loop(d) PROVE Ordered(c)' /\ Complete(c)'
  <2>1. CASE Accept(d)
    <3>1. /\ UNCHANGED <<w, user, cbVars, reqVars, handed>> /\ d \notin open
          /\ open' = open \cup {d} /\ session' = [session EXCEPT ![d] = @ + 1]
      BY <1>1, <2>1, GetKeeps DEF Accept
    <3>2. CASE c # d
      BY <1>2, <3>1, <3>2 DEF InHand, TypeOK
    <3>3. CASE c = d
      <4>1. ~\E r \in Rids : Live(r)' /\ rconn'[r] = c
        BY <1>1, <3>1, <3>3 DEF Live, Recorded, TypeOK
      <4> QED BY <1>1, <3>1, <4>1 DEF Ordered, Complete, InHand
    <3> QED BY <3>2, <3>3
  <2>2. CASE AcceptNoBuffer(d)
    <3>1. d \notin open
      BY <1>1, <2>2, GetKeeps DEF AcceptNoBuffer
    <3> QED BY <1>1, <1>2, <2>2, <3>1 DEF AcceptNoBuffer, InHand, TypeOK
  <2>3. CASE CbRead(d)
    <3>1. CASE c = d
      BY <1>1, <2>3, <3>1, DeliversRead
    <3>2. CASE c # d
      <4>1. PICK k \in 1..(MaxReq - nreq) :
              /\ nreq' = nreq + k
              /\ rconn' = [r \in Rids |-> IF r > nreq /\ r <= nreq + k THEN d
                                          ELSE rconn[r]]
              /\ rsess' = [r \in Rids |-> IF r > nreq /\ r <= nreq + k
                                          THEN session[d] ELSE rsess[r]]
              /\ user' = [user EXCEPT ![d] = @ \o [i \in 1..k |-> nreq + i]]
        BY <2>3 DEF CbRead
      <4>2. /\ nreq' \in Nat /\ nreq' >= nreq
            /\ \A r \in Rids : r <= nreq => rconn'[r] = rconn[r] /\ rsess'[r] = rsess[r]
            /\ \A r \in Rids : r > nreq /\ r <= nreq' => rconn'[r] # c
        BY <1>1, <3>2, <4>1 DEF Rids
      <4>3. /\ handed'[c] = handed[c] /\ InHand(c)' = InHand(c)
            /\ user'[c] = user[c] /\ w'[c] = w[c]
            /\ open' = open /\ session' = session
        BY <2>3, <3>2, <4>1 DEF CbRead, InHand, TypeOK
      <4> QED BY <1>1, <4>2, <4>3, DeliversStill
    <3> QED BY <3>1, <3>2
  <2>4. CASE CbReadFail(d) \/ KeepAliveTimeout(d) \/ CbClose(d)
    BY <1>3, <2>4 DEF CbReadFail, KeepAliveTimeout, CbClose
  <2>5. CASE CbWrite(d)
    <3>1. InHand(c)' = InHand(c)
      BY <2>5 DEF CbWrite, InHand
    <3> QED BY <1>4, <2>5, <3>1 DEF CbWrite
  <2>6. CASE CbUserBegin(d) \/ CbUserNext(d)
    <3>1. CASE c = d
      BY <1>1, <2>6, <3>1, DeliversPass
    <3>2. CASE c # d
      <4>1. /\ handed'[c] = handed[c] /\ InHand(c)' = InHand(c)
            /\ user'[c] = user[c]
            /\ UNCHANGED <<w, open, session, reqVars>>
        BY <1>1, <2>6, <3>2, NoConnAssumption DEF CbUserBegin, CbUserNext, InHand, TypeOK
      <4> QED BY <1>2, <4>1
    <3> QED BY <3>1, <3>2
  <2>7. CASE CbUserAbort(d)
    <3>1. CASE c = d
      BY <1>1, <2>7, <3>1, DeliversAbort
    <3>2. CASE c # d
      BY <1>2, <2>7, <3>2, NoConnAssumption DEF CbUserAbort, InHand
    <3> QED BY <3>1, <3>2
  <2>8. CASE CbUserEnd(d)
    <3>1. InHand(c)' = InHand(c)
      BY <2>8, NoConnAssumption DEF CbUserEnd, InHand
    <3>2. CASE "write" \in w[d]
      BY <1>1, <1>2, <2>8, <3>1, <3>2 DEF CbUserEnd, TypeOK
    <3>3. CASE "write" \notin w[d]
      BY <1>4, <2>8, <3>1, <3>3 DEF CbUserEnd
    <3> QED BY <3>2, <3>3
  <2> QED BY <1>7, <2>1, <2>2, <2>3, <2>4, <2>5, <2>6, <2>7, <2>8 DEF Loop
<1>8. ASSUME NEW d \in Conns, App(d) PROVE Ordered(c)' /\ Complete(c)'
  <2>1. /\ handed'[c] = handed[c] /\ InHand(c)' = InHand(c) /\ UNCHANGED reqVars
        /\ user'[c] = user[c] /\ open' = open /\ session' = session
    BY <1>8 DEF App, Keep, Release, Disconnect, Send, SendNoMemory, InHand
  <2>2. "close" \in w[c] => "close" \in w'[c]
    <3>1. CASE Keep(d) \/ Release(d)
      BY <3>1 DEF Keep, Release
    <3>2. CASE Disconnect(d)
      BY <1>1, <3>2 DEF Disconnect, TypeOK
    <3>3. ASSUME NEW r \in Rids, Send(d, r) \/ SendNoMemory(d, r)
          PROVE  "close" \in w[c] => "close" \in w'[c]
      <4>1. w' \in {w, [w EXCEPT ![d] = @ \cup {"write"}], [w EXCEPT ![d] = @ \cup {"close"}]}
        BY <3>3 DEF Send, SendNoMemory
      <4>2. w \in [Conns -> SUBSET Watchers]
        BY <1>1 DEF TypeOK
      <4> QED BY <4>1, <4>2
    <3> QED BY <1>8, <3>1, <3>2, <3>3 DEF App
  <2> QED BY <1>2, <2>1, <2>2
<1> QED BY <1>5, <1>6, <1>7, <1>8 DEF Next

\* Every request is passed to the callback at most once and in the order of
\* arrival, and none of an open session is lost between parse_buffer, _user,
\* cb_user's local vector and the callback unless the session is about to be
\* closed.
THEOREM CallbacksOrdered == Spec => []Delivery
<1>1. Init => Delivery
  <2> SUFFICES ASSUME Init PROVE Delivery
    OBVIOUS
  <2>1. \A c \in Conns : handed[c] = <<>> /\ InHand(c) = <<>> /\ user[c] = <<>>
    BY DEF Init, InHand
  <2>2. <<>> \o <<>> \o <<>> = <<>>
    BY EmptySeq, ConcatEmptySeq
  <2>3. Increasing(<<>>)
    BY DEF Increasing
  <2>4. \A r \in Rids : ~Live(r)
    BY DEF Init, Live, Rids
  <2> QED BY <2>1, <2>2, <2>3, <2>4 DEF Delivery
<1>2. Inductive /\ Delivery /\ [Next]_vars => Delivery'
  BY DeliveryStep
<1> QED BY <1>1, <1>2, Correct, PTL DEF Spec

\* While cb_user is on the stack the pool owns its connection, whatever the user
\* does in the callback: only the destruction of the server can free it.
THEOREM CallerAliveHolds == Spec => []CallerAlive
<1>1. Init => CallerAlive
  BY DEF Init, CallerAlive
<1>2. Inductive /\ CallerAlive /\ [Next]_vars => CallerAlive'
  <2> SUFFICES ASSUME Inductive, CallerAlive, [Next]_vars, up', running' # NoConn
               PROVE  running' \in conns'
    BY DEF CallerAlive
  <2>1. CASE UNCHANGED vars
    BY <2>1 DEF vars, cbVars, poolVars, CallerAlive
  <2>2. CASE Shutdown
    BY <2>2 DEF Shutdown
  <2>3. ASSUME NEW c \in Conns, Loop(c) PROVE running' \in conns'
    <3>1. CASE CbUserBegin(c)
      <4>1. running' = c /\ "user" \in w[c] /\ UNCHANGED conns
        BY <3>1 DEF CbUserBegin, poolVars
      <4>2. c \in open
        BY <4>1 DEF Inductive, ClosedIsClean
      <4> QED BY <4>1, <4>2 DEF Inductive, PoolConsistent
    <3>2. CASE CbUserNext(c)
      BY <3>2 DEF CbUserNext, poolVars, CallerAlive
    <3>3. CASE Accept(c) \/ AcceptNoBuffer(c) \/ CbRead(c) \/ CbReadFail(c)
               \/ KeepAliveTimeout(c) \/ CbClose(c) \/ CbWrite(c)
      BY <3>3 DEF Accept, AcceptNoBuffer, CbRead, CbReadFail, KeepAliveTimeout,
                  CbClose, CbWrite, cbVars
    <3>4. CASE CbUserAbort(c) \/ CbUserEnd(c)
      BY <3>4 DEF CbUserAbort, CbUserEnd
    <3> QED BY <2>3, <3>1, <3>2, <3>3, <3>4 DEF Loop
  <2>4. ASSUME NEW c \in Conns, App(c) PROVE running' \in conns'
    <3>1. UNCHANGED <<up, running, conns>>
      BY <2>4 DEF App, Keep, Release, Send, SendNoMemory, Disconnect, cbVars, poolVars
    <3> QED BY <3>1 DEF CallerAlive
  <2> QED BY <2>1, <2>2, <2>3, <2>4 DEF Next
<1> QED BY <1>1, <1>2, Correct, PTL DEF Spec

=============================================================================
