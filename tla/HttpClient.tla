------------------------------ MODULE HttpClient ------------------------------
(***************************************************************************)
(* The asynchronous HTTP client of one domain: client::Pool, its two lists *)
(* of connections and client::Connection, on one event loop.  Requests are *)
(* numbered in the order in which the application sends them.  The loop    *)
(* runs one callback at a time; a callback of several steps is running.    *)
(***************************************************************************)
EXTENDS Integers, Sequences, SequencesExt

CONSTANTS
    NumConns,       \* connections of the pool
    HasTimeout,     \* config.response_timeout > 0
    MaxReq          \* bound: requests

ASSUME ClientConfig ==
    NumConns \in Nat \ {0} /\ HasTimeout \in BOOLEAN /\ MaxReq \in Nat

Conns  == 1..NumConns
Rids   == 1..MaxReq
Status == {"Closed", "Connecting", "Ready"}

VARIABLES
    nreq,       \* requests sent by the application
    poolOut,    \* Pool::_out
    poolWatch,  \* Pool::_w is active
    active,     \* Pool::_active
    connecting, \* Pool::_connecting
    err,        \* requests refused by _send, in cb_prepare
    status,     \* Connection::_status
    w,          \* active watchers: "write", "response", "connect", "prepare"
    out,        \* Connection::_out
    in,         \* requests of Connection::_in
    userCb,     \* Connection::_user_cb: records [r, a], a the answered request
    running,    \* callback that runs: "no", "send" or "call"
    caller,     \* the connection that calls, 0 for the pool
    batch,      \* calls it has still to make
    log,        \* calls made: records [r, a, c]
    begun,      \* the front of out is written in part
    srv,        \* requests the server has and did not answer
    resp        \* answers on the way: records [r, keep]

poolVars == <<poolOut, poolWatch, active, connecting, err>>
connVars == <<status, w, out, in, userCb>>
callVars == <<running, caller, batch, log>>
netVars  == <<begun, srv, resp>>
vars == <<nreq, poolVars, connVars, callVars, netVars>>

OfTimeout(timer) == IF HasTimeout THEN {timer} ELSE {}

\* connect(): the watchers it starts when the status becomes s.
Started(s) ==
    IF s = "Connecting" THEN {"write"} \cup OfTimeout("connect") ELSE {}

\* Pool::Pool creates and connects all.
Init ==
    /\ nreq = 0 /\ poolOut = <<>> /\ poolWatch = FALSE /\ err = <<>>
    /\ active = <<>> /\ connecting = [i \in Conns |-> i]
    /\ status \in [Conns -> Status]
    /\ w = [c \in Conns |-> Started(status[c])]
    /\ out = [c \in Conns |-> <<>>] /\ in = [c \in Conns |-> <<>>]
    /\ userCb = [c \in Conns |-> <<>>]
    /\ running = "no" /\ caller = 0 /\ batch = <<>> /\ log = <<>>
    /\ begun = [c \in Conns |-> FALSE]
    /\ srv = [c \in Conns |-> <<>>] /\ resp = [c \in Conns |-> <<>>]

-----------------------------------------------------------------------------
(* The application                                                         *)

\* Faulty variant: a request sent inside a callback does not wake the pool.
StartsPool_Outside == running = "no"

StartsPool == TRUE

\* Client::send and Pool::send, inside a call or from another callback.
Send ==
    /\ running # "send" /\ nreq < MaxReq
    /\ nreq' = nreq + 1
    /\ poolOut' = Append(poolOut, nreq + 1)
    /\ poolWatch' = (poolWatch \/ StartsPool)
    /\ UNCHANGED <<active, connecting, err, connVars, callVars, netVars>>

-----------------------------------------------------------------------------
(* Pool::cb_prepare: _send for each request of _out                        *)

PoolBegin ==
    /\ running = "no" /\ poolWatch
    /\ poolWatch' = FALSE /\ running' = "send"
    /\ UNCHANGED <<nreq, poolOut, active, connecting, err, connVars, caller,
                   batch, log, netVars>>

\* Statuses after connect() of the closed connections of a list.
Connect(st, list) ==
    {st2 \in [Conns -> Status] :
        \A c \in Conns : st2[c] # st[c] => st[c] = "Closed" /\ Contains(list, c)}

First(list, st, s) == SelectInSeq(list, LAMBDA c : st[c] = s)

Before(list, n) == IF n = 0 THEN list ELSE SubSeq(list, 1, n - 1)
Others(list, n) == SubSeq(list, 1, n - 1) \o SubSeq(list, n + 1, Len(list))

\* Connection::send starts the write watcher and the timer.
WatchersOfSend == {"write"} \cup OfTimeout("response")

\* Connection::send of the next request to c; statuses are st2 by now.
Give(c, st2) ==
    LET r == Head(poolOut)
    IN  /\ poolOut' = Tail(poolOut)
        /\ out' = [out EXCEPT ![c] = Append(@, r)]
        /\ in' = [in EXCEPT ![c] = Append(@, r)]
        /\ status' = st2
        /\ w' = [d \in Conns |->
                    w[d] \cup (IF st2[d] # status[d] THEN Started(st2[d]) ELSE {})
                         \cup (IF d = c THEN WatchersOfSend ELSE {})]
        /\ UNCHANGED err

Sending == running = "send" /\ poolOut # <<>>
FrontReady == connecting # <<>> /\ status[Head(connecting)] = "Ready"

PickFront ==
    /\ Sending /\ FrontReady
    /\ active' = Append(active, Head(connecting))
    /\ connecting' = Tail(connecting)
    /\ Give(Head(connecting), status)
    /\ UNCHANGED <<nreq, poolWatch, userCb, callVars, netVars>>

\* The first ready one of _active; those before it go to _connecting.
PickActive ==
    /\ Sending /\ ~FrontReady
    /\ LET n == First(active, status, "Ready")
       IN  /\ n > 0
           /\ active' = Append(SubSeq(active, n + 1, Len(active)), active[n])
           /\ connecting' = connecting \o Before(active, n)
           /\ \E st2 \in Connect(status, Before(active, n)) : Give(active[n], st2)
    /\ UNCHANGED <<nreq, poolWatch, userCb, callVars, netVars>>

Refuse(st2) ==
    /\ err' = Append(err, Head(poolOut)) /\ poolOut' = Tail(poolOut)
    /\ status' = st2
    /\ w' = [d \in Conns |->
                w[d] \cup (IF st2[d] # status[d] THEN Started(st2[d]) ELSE {})]
    /\ UNCHANGED <<out, in>>

\* Faulty variant: no request waits for a connection to be established.
Waiting_No(list, st) == 0

\* The first connection that is being established.
Waiting(list, st) == First(list, st, "Connecting")

\* The list without the connection that was chosen.
Rest(list, n) == Others(list, n)

\* None of _active is ready: all are in _connecting, where a ready one is
\* looked for, then one that is being established.
PickConnecting ==
    /\ Sending /\ ~FrontReady /\ First(active, status, "Ready") = 0
    /\ LET list == connecting \o active
       IN  \E st1 \in Connect(status, active) :
           LET n == First(list, st1, "Ready")
           IN  \E st2 \in Connect(st1, Before(list, n)) :
               LET k == Waiting(list, st2)
               IN  IF n > 0
                   THEN /\ active' = <<list[n]>> /\ connecting' = Rest(list, n)
                        /\ Give(list[n], st2)
                   ELSE /\ active' = <<>>
                        /\ IF k > 0
                           THEN /\ connecting' = Append(Rest(list, k), list[k])
                                /\ Give(list[k], st2)
                           ELSE connecting' = list /\ Refuse(st2)
    /\ UNCHANGED <<nreq, poolWatch, userCb, callVars, netVars>>

\* All sent: the refused ones are called back.
PoolCall ==
    /\ running = "send" /\ poolOut = <<>>
    /\ running' = "call" /\ caller' = 0
    /\ batch' = [i \in DOMAIN err |-> [r |-> err[i], a |-> 0]]
    /\ err' = <<>>
    /\ UNCHANGED <<nreq, poolOut, poolWatch, active, connecting, connVars, log, netVars>>

-----------------------------------------------------------------------------
(* client::Connection                                                      *)

\* Faulty variants of close: _in or _out keeps its requests.
LeftIn_Kept(c) == in[c]
LeftOut_Kept(c) == out[c]

LeftIn(c) == <<>>
LeftOut(c) == <<>>
Failed(done, failed) == done \o failed

\* close() while inC is _in, outC is _out and done is _user_cb.
CloseWith(c, inC, done) ==
    /\ status' = [status EXCEPT ![c] = "Closed"]
    /\ w' = [w EXCEPT ![c] = {"prepare"}]
    /\ userCb' = [userCb EXCEPT ![c] =
                    Failed(done, [i \in DOMAIN inC |-> [r |-> inC[i], a |-> 0]])]
    /\ in' = [in EXCEPT ![c] = LeftIn(c)] /\ out' = [out EXCEPT ![c] = LeftOut(c)]
    /\ begun' = [begun EXCEPT ![c] = FALSE]
    /\ srv' = [srv EXCEPT ![c] = <<>>] /\ resp' = [resp EXCEPT ![c] = <<>>]

Close(c) == CloseWith(c, in[c], userCb[c])

Open(c) == running = "no" /\ status[c] # "Closed"

NotConnected(c) ==
    /\ Open(c) /\ status[c] = "Connecting" /\ "write" \in w[c]
    /\ Close(c)
    /\ UNCHANGED <<nreq, poolVars, callVars>>

\* cb_write stops its watcher when write_int has nothing left.
WatchersOfWrite(c, left) ==
    w[c] \ (IF left = <<>> THEN {"write", "connect"} ELSE {"connect"})

\* write_int sends m requests and perhaps a part of the next one.
CbWrite(c) ==
    /\ Open(c) /\ "write" \in w[c]
    /\ \E m \in 0..Len(out[c]) : \E part \in BOOLEAN :
        LET left == SubSeq(out[c], m + 1, Len(out[c]))
            from == IF begun[c] THEN 2 ELSE 1
            to   == IF part THEN m + 1 ELSE m
        IN  /\ part => left # <<>>
            /\ begun[c] /\ m = 0 => part
            /\ out' = [out EXCEPT ![c] = left]
            /\ begun' = [begun EXCEPT ![c] = part]
            /\ srv' = [srv EXCEPT ![c] = @ \o SubSeq(out[c], from, to)]
            /\ w' = [w EXCEPT ![c] = WatchersOfWrite(c, left)]
    /\ status' = [status EXCEPT ![c] = "Ready"]
    /\ UNCHANGED <<nreq, poolVars, in, userCb, callVars, resp>>

\* cb_read and cb_write: errors, the end of the stream, data that nobody asked for.
NetworkError(c) ==
    /\ Open(c)
    /\ Close(c)
    /\ UNCHANGED <<nreq, poolVars, callVars>>

\* Faulty variant: the timer stops with every answer.
TimerAfter_Stop(c, inC) == w[c] \ {"response"}

\* The timer runs on while requests wait for an answer.
TimerAfter(c, inC) == IF inC = <<>> THEN w[c] \ {"response"} ELSE w[c]

\* cb_read: an answer is complete; without keep-alive the connection closes.
CbRead(c) ==
    /\ Open(c) /\ status[c] = "Ready" /\ resp[c] # <<>> /\ in[c] # <<>>
    /\ LET a == Head(resp[c])
           done == Append(userCb[c], [r |-> Head(in[c]), a |-> a.r])
       IN  IF a.keep
           THEN /\ in' = [in EXCEPT ![c] = Tail(@)]
                /\ userCb' = [userCb EXCEPT ![c] = done]
                /\ w' = [w EXCEPT ![c] = TimerAfter(c, Tail(in[c])) \cup {"prepare"}]
                /\ resp' = [resp EXCEPT ![c] = Tail(@)]
                /\ UNCHANGED <<status, out, begun, srv>>
           ELSE CloseWith(c, Tail(in[c]), done)
    /\ UNCHANGED <<nreq, poolVars, callVars>>

Timeout(c) ==
    /\ Open(c) /\ w[c] \cap {"response", "connect"} # {}
    /\ Close(c)
    /\ UNCHANGED <<nreq, poolVars, callVars>>

\* cb_prepare takes the calls to be made.
CbPrepare(c) ==
    /\ running = "no" /\ "prepare" \in w[c]
    /\ w' = [w EXCEPT ![c] = @ \ {"prepare"}]
    /\ running' = "call" /\ caller' = c
    /\ batch' = userCb[c] /\ userCb' = [userCb EXCEPT ![c] = <<>>]
    /\ UNCHANGED <<nreq, poolVars, status, out, in, log, netVars>>

Call ==
    /\ running = "call" /\ batch # <<>>
    /\ log' = Append(log, [r |-> Head(batch).r, a |-> Head(batch).a, c |-> caller])
    /\ batch' = Tail(batch)
    /\ UNCHANGED <<nreq, poolVars, connVars, running, caller, netVars>>

CallEnd ==
    /\ running = "call" /\ batch = <<>>
    /\ running' = "no" /\ caller' = 0
    /\ UNCHANGED <<nreq, poolVars, connVars, batch, log, netVars>>

-----------------------------------------------------------------------------
(* The server: it answers in order what it received, perhaps before the    *)
(* end of a request.                                                       *)

Answer(c) ==
    /\ running = "no" /\ srv[c] # <<>>
    /\ \E keep \in BOOLEAN :
        resp' = [resp EXCEPT ![c] = Append(@, [r |-> Head(srv[c]), keep |-> keep])]
    /\ srv' = [srv EXCEPT ![c] = Tail(@)]
    /\ UNCHANGED <<nreq, poolVars, connVars, callVars, begun>>

-----------------------------------------------------------------------------
PoolStep == PoolBegin \/ PickFront \/ PickActive \/ PickConnecting \/ PoolCall
CallStep == Call \/ CallEnd
ConnStep(c) ==
    \/ NotConnected(c) \/ CbWrite(c) \/ NetworkError(c) \/ CbRead(c)
    \/ Timeout(c) \/ CbPrepare(c)

Next ==
    \/ Send \/ PoolStep \/ CallStep
    \/ \E c \in Conns : ConnStep(c) \/ Answer(c)

Spec == Init /\ [][Next]_vars

\* Prepare watchers run in every iteration of the loop, callbacks return, and
\* timers fire when nothing stops or restarts them; the network owes nothing.
FairSpec ==
    /\ Spec
    /\ WF_vars(PoolStep) /\ WF_vars(CallStep)
    /\ \A c \in Conns : WF_vars(CbPrepare(c)) /\ WF_vars(Timeout(c))

-----------------------------------------------------------------------------
(* Properties                                                              *)

\* Types; every connection is in one of the lists, once.
TypeOK ==
    /\ nreq \in 0..MaxReq
    /\ poolOut \in Seq(Rids) /\ err \in Seq(Rids) /\ poolWatch \in BOOLEAN
    /\ active \in Seq(Conns) /\ connecting \in Seq(Conns)
    /\ status \in [Conns -> Status]
    /\ w \in [Conns -> SUBSET {"write", "response", "connect", "prepare"}]
    /\ out \in [Conns -> Seq(Rids)] /\ in \in [Conns -> Seq(Rids)]
    /\ running \in {"no", "send", "call"} /\ caller \in 0..NumConns
    /\ Len(active \o connecting) = NumConns
    /\ ToSet(active \o connecting) = Conns

RidsOf(calls) == [i \in DOMAIN calls |-> calls[i].r]

\* The pool, as 0, and the connections.
Holders == 0..NumConns

\* What h still has to call back.
Uncalled(h) ==
    (IF caller = h THEN RidsOf(batch) ELSE <<>>)
        \o (IF h = 0 THEN err \o poolOut ELSE RidsOf(userCb[h]) \o in[h])

Called(h, r) == \E i \in DOMAIN log : log[i].c = h /\ log[i].r = r
Holds(h, r) == Called(h, r) \/ Contains(Uncalled(h), r)

\* The requests that the pool refused or a connection took are called back in
\* the order of sending.
InOrder ==
    \A h \in Holders :
        /\ \A i, j \in DOMAIN Uncalled(h) : i < j => Uncalled(h)[i] < Uncalled(h)[j]
        /\ \A i \in DOMAIN log : log[i].c = h =>
            /\ \A j \in DOMAIN log : i < j /\ log[j].c = h => log[i].r < log[j].r
            /\ \A j \in DOMAIN Uncalled(h) : log[i].r < Uncalled(h)[j]

\* Every request the application sent is in one place only: the pool, one
\* connection, the calls to be made, or called back; and each connection calls
\* back in the order of sending.
OnceEach ==
    /\ InOrder
    /\ \A r \in Rids :
        IF r <= nreq THEN \E h \in Holders : \A g \in Holders : Holds(g, r) <=> g = h
                     ELSE \A h \in Holders : ~Holds(h, r)

\* The last n of a queue.
LastOf(q, n) == SubSeq(q, Len(q) - n + 1, Len(q))

\* What is not written yet was not called back, except for the front of _out
\* that the server answered early.
OutIsOwed ==
    \A c \in Conns :
        \/ Len(out[c]) <= Len(in[c]) /\ out[c] = LastOf(in[c], Len(out[c]))
        \/ out[c] # <<>> /\ begun[c] /\ in[c] = Tail(out[c])

\* The answer given with a request is the server's answer to it, whatever
\* was closed, reconnected or answered early before; only the front of _out may
\* have been called back already.
OwnAnswer ==
    /\ OutIsOwed
    /\ \A i \in DOMAIN log : log[i].a \in {0, log[i].r}

\* Whatever waits has a watcher that will go on with it, and the response
\* timer runs exactly while an answer is owed.
Armed ==
    /\ TypeOK
    /\ poolOut # <<>> => poolWatch \/ running = "send"
    /\ \A c \in Conns :
        /\ userCb[c] # <<>> => "prepare" \in w[c]
        /\ out[c] # <<>> \/ status[c] = "Connecting" => "write" \in w[c]
        /\ "response" \in w[c] <=> HasTimeout /\ in[c] # <<>>
        /\ HasTimeout /\ status[c] = "Connecting" => "connect" \in w[c]
        /\ status[c] = "Closed" => w[c] \subseteq {"prepare"} /\ in[c] = <<>> /\ out[c] = <<>>

\* A request is refused only when all connections were closed, and no attempt
\* to connect is under way.
RefusedWhenClosed ==
    [][Len(err') > Len(err) =>
        \A c \in Conns : status[c] = "Closed" /\ status'[c] # "Connecting"]_vars

\* With a response timeout every request is called back.
EveryRequestCalledBack ==
    \A r \in Rids : nreq >= r ~> \E i \in DOMAIN log : log[i].r = r

=============================================================================
