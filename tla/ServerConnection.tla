--------------------------- MODULE ServerConnection ---------------------------
(***************************************************************************)
(* sniper::http::server::Connection and sniper::http::server::Pool on one  *)
(* libev loop: connections are accepted, read, handed to the user's        *)
(* callback, answered (possibly later, and in any order), written, closed, *)
(* parked in the pool's free list and used again for another peer.         *)
(*                                                                         *)
(* A request and its response are one number: the n-th pair parse_buffer   *)
(* creates is n.  A response is Size units long; sent[r] counts the units  *)
(* that process_iov has accounted for.  The loop runs one callback at a    *)
(* time; only cb_user gives up control in the middle, to the user's code,  *)
(* so running names the connection whose cb_user is on the stack.          *)
(***************************************************************************)
EXTENDS Integers, Sequences

CONSTANTS
    Conns,      \* addresses of Connection objects
    NoConn,     \* no cb_user on the stack
    MaxFree,    \* config.max_free_conns
    Size,       \* length of a response, in units a write may split it into
    MaxReq,     \* bound: requests parsed in one behaviour
    MaxSess     \* bound: sessions (accepted sockets) of one Connection object

ASSUME NoConnAssumption == NoConn \notin Conns
ASSUME BoundsAssumption ==
    /\ MaxFree \in Nat /\ MaxReq \in Nat /\ MaxSess \in Nat
    /\ Size \in Nat \ {0}

Rids == 1..MaxReq

VARIABLES
    up,         \* the Server object exists
    open,       \* connections with _closed = false
    conns,      \* Pool::_conns
    freeConns,  \* Pool::_free_conns, used from the back
    w,          \* active watchers among _w_write, _w_user, _w_close
    out,        \* Connection::_out
    user,       \* Connection::_user
    running,    \* connection whose cb_user is on the stack
    batch,      \* what is left of cb_user's local vector tmp
    session,    \* how many sockets the object has served
    nreq,       \* how many requests were parsed so far
    rconn,      \* connection a request arrived on
    rsess,      \* session of that connection it arrived in
    ready,      \* responses with _ready = true
    closing,    \* responses the user sent with keep_alive = false
    sent,       \* units of a response accounted as written
    handed,     \* requests passed to the callback, per connection, in order
    held        \* connections the application keeps a ConnectionPtr to

poolVars == <<conns, freeConns>>
reqVars  == <<nreq, rconn, rsess>>
cbVars   == <<running, batch>>
vars == <<up, open, poolVars, w, out, user, cbVars, session, reqVars,
          ready, closing, sent, handed, held>>

Watchers == {"write", "user", "close"}

TypeOK ==
    /\ up \in BOOLEAN
    /\ open \subseteq Conns
    /\ conns \subseteq Conns
    /\ freeConns \in Seq(Conns)
    /\ w \in [Conns -> SUBSET Watchers]
    /\ out \in [Conns -> Seq(Rids)]
    /\ user \in [Conns -> Seq(Rids)]
    /\ running \in Conns \cup {NoConn}
    /\ batch \in Seq(Rids)
    /\ session \in [Conns -> Nat]
    /\ nreq \in 0..MaxReq
    /\ rconn \in [Rids -> Conns \cup {NoConn}]
    /\ rsess \in [Rids -> Nat]
    /\ ready \subseteq Rids
    /\ closing \subseteq Rids
    /\ sent \in [Rids -> 0..Size]
    /\ handed \in [Conns -> Seq(Rids)]
    /\ held \subseteq Conns

Init ==
    /\ up = TRUE
    /\ open = {} /\ conns = {} /\ freeConns = <<>>
    /\ w = [c \in Conns |-> {}]
    /\ out = [c \in Conns |-> <<>>]
    /\ user = [c \in Conns |-> <<>>]
    /\ running = NoConn /\ batch = <<>>
    /\ session = [c \in Conns |-> 0]
    /\ nreq = 0
    /\ rconn = [r \in Rids |-> NoConn]
    /\ rsess = [r \in Rids |-> 0]
    /\ ready = {} /\ closing = {}
    /\ sent = [r \in Rids |-> 0]
    /\ handed = [c \in Conns |-> <<>>]
    /\ held = {}

In(x, s) == \E i \in DOMAIN s : s[i] = x

-----------------------------------------------------------------------------
(* Pool                                                                    *)

\* Pool::get: the back of the free list, else a new object.
Gettable(c) ==
    IF freeConns # <<>> THEN c = freeConns[Len(freeConns)]
                        ELSE c \notin conns \cup held

\* Faulty variant: the connection stays in the list.
FreeAfterGet_NoPop == freeConns

FreeAfterGet ==
    IF freeConns = <<>> THEN <<>> ELSE SubSeq(freeConns, 1, Len(freeConns) - 1)

\* The free list after Pool::disconnect: beyond max_free_conns the object is
\* dropped.
Park(free, c) == IF Len(free) < MaxFree THEN Append(free, c) ELSE free

-----------------------------------------------------------------------------
(* Connection                                                              *)

\* Faulty variant: close forgets _out.clear().
Close_KeepsOut(c) ==
    /\ open' = open \ {c} /\ conns' = conns \ {c}
    /\ freeConns' = IF c \in conns THEN Park(freeConns, c) ELSE freeConns
    /\ w' = [w EXCEPT ![c] = {}]
    /\ user' = [user EXCEPT ![c] = <<>>]
    /\ UNCHANGED out

\* Connection::close, with the pool's disconnect.
Close(c) ==
    /\ open' = open \ {c}
    /\ conns' = conns \ {c}
    /\ freeConns' = IF c \in conns THEN Park(freeConns, c) ELSE freeConns
    /\ w' = [w EXCEPT ![c] = {}]
    /\ out' = [out EXCEPT ![c] = <<>>]
    /\ user' = [user EXCEPT ![c] = <<>>]

\* Server::cb_accept, Pool::get and Connection::set.
Accept(c) ==
    /\ up /\ running = NoConn
    /\ Gettable(c) /\ session[c] < MaxSess
    /\ freeConns' = FreeAfterGet
    /\ conns' = conns \cup {c}
    /\ open' = open \cup {c}
    /\ session' = [session EXCEPT ![c] = @ + 1]
    /\ UNCHANGED <<up, w, out, user, cbVars, reqVars, ready, closing, sent,
                   handed, held>>

\* The same when set() finds no memory for the buffer and closes at once.
AcceptNoBuffer(c) ==
    /\ up /\ running = NoConn
    /\ Gettable(c) /\ session[c] < MaxSess
    /\ freeConns' = Park(FreeAfterGet, c)
    /\ session' = [session EXCEPT ![c] = @ + 1]
    /\ UNCHANGED <<up, open, conns, w, out, user, cbVars, reqVars, ready,
                   closing, sent, handed, held>>

\* Faulty variant: started only when nothing waits for an answer.
WatchUser_WhenIdle(c) == IF out[c] = <<>> THEN w[c] \cup {"user"} ELSE w[c]

\* The watchers after cb_read parsed a request: _w_user is started.
WatchUser(c) == w[c] \cup {"user"}

\* The pairs parse_buffer creates, appended to _user and _out alike.
NewRequests(k) == [i \in 1..k |-> nreq + i]

\* cb_read and parse_buffer: k > 0 requests were complete in what was read.
\* Reading none changes nothing that is modelled.
CbRead(c) ==
    /\ running = NoConn /\ c \in open
    /\ \E k \in 1..(MaxReq - nreq) :
        LET new == NewRequests(k)
            isNew(r) == r > nreq /\ r <= nreq + k
        IN  /\ nreq' = nreq + k
            /\ rconn' = [r \in Rids |-> IF isNew(r) THEN c ELSE rconn[r]]
            /\ rsess' = [r \in Rids |-> IF isNew(r) THEN session[c] ELSE rsess[r]]
            /\ out' = [out EXCEPT ![c] = @ \o new]
            /\ user' = [user EXCEPT ![c] = @ \o new]
    /\ w' = [w EXCEPT ![c] = WatchUser(c)]
    /\ UNCHANGED <<up, open, poolVars, cbVars, session, ready, closing, sent,
                   handed, held>>

\* cb_read: end of stream, a socket error, a malformed request, a request
\* beyond request_max_size or no memory.
CbReadFail(c) ==
    /\ running = NoConn /\ c \in open
    /\ Close(c)
    /\ UNCHANGED <<up, cbVars, session, reqVars, ready, closing, sent, handed,
                   held>>

\* cb_keep_alive_timeout: nothing was read for keep_alive_timeout.
KeepAliveTimeout(c) ==
    /\ running = NoConn /\ c \in open
    /\ Close(c)
    /\ UNCHANGED <<up, cbVars, session, reqVars, ready, closing, sent, handed,
                   held>>

\* Faulty variant: the close waits until everything is answered.
CbClose_Graceful(c) ==
    /\ running = NoConn /\ "close" \in w[c] /\ out[c] = <<>>
    /\ Close(c)
    /\ UNCHANGED <<up, cbVars, session, reqVars, ready, closing, sent, handed,
                   held>>

CbClose(c) ==
    /\ running = NoConn /\ "close" \in w[c]
    /\ Close(c)
    /\ UNCHANGED <<up, cbVars, session, reqVars, ready, closing, sent, handed,
                   held>>

\* Faulty variant: only the last response of the batch is looked at.
Writable_Last(q, m) == m > 0 => q[m] \in ready

\* The first m responses of the queue q may be written: all are ready.
Writable(q, m) == {q[i] : i \in 1..m} \subseteq ready

\* The queue after m completed responses were popped.
Rest(q, m) == SubSeq(q, m + 1, Len(q))

\* Faulty variant: the progress of a response is forgotten between two writes.
Resume_Start(r) == 0

\* The units of r that need not be written again (_processed, _total_size).
Resume(r) == sent[r]

\* Faulty variant: the watcher is stopped though a response is left over.
WatchAfter_Never(stop) == {}

\* _w_write after the write loop: stopped only by WriteState::Stop.
WatchAfter(stop) == IF stop THEN {} ELSE {"write"}

\* Faulty variant: the session ends inside the call.
DisconnectEffect_Now(c) ==
    Close(c)

\* disconnect starts _w_close and leaves the rest to cb_close.
DisconnectEffect(c) ==
    /\ w' = [w EXCEPT ![c] = @ \cup {"close"}]
    /\ UNCHANGED <<open, poolVars, out, user>>

(***************************************************************************)
(* cb_writev_int: the loop of writev over the ready responses at the front *)
(* of _out.  All told m of them were completed and the next one, if it is  *)
(* ready, has p units out.  The loop closes at a completed response        *)
(* without keep_alive, though the same writev may have carried units of    *)
(* the responses behind it; it ends with Stop when no ready response is in *)
(* front, with Again or with an error otherwise.                           *)
(* others are the watchers besides _w_write that stay active.  A response   *)
(* has one iovec at least and fits into the array: the exit of an empty     *)
(* array (iov_count = 0) is modelled in ResponseWrite.                     *)
(***************************************************************************)
Flush(c, others) ==
    \E m \in 0..Len(out[c]), p \in 0..(Size - 1) :
        LET done == {out[c][i] : i \in 1..m}
            left == Rest(out[c], m)
            stop == left = <<>> \/ left[1] \notin ready
        IN  /\ Writable(out[c], m)
            /\ IF stop THEN p = 0 ELSE p >= Resume(left[1])
            /\ sent' = [r \in Rids |->
                          IF r \in done THEN Size
                          ELSE IF ~stop /\ r = left[1] THEN p
                          ELSE sent[r]]
            /\ \/ /\ done \cap closing = {}
                  /\ out' = [out EXCEPT ![c] = left]
                  /\ w' = [w EXCEPT ![c] = others \cup WatchAfter(stop)]
                  /\ UNCHANGED <<open, poolVars, user>>
               \/ /\ done \cap closing # {} \/ ~stop
                  /\ Close(c)

CbWrite(c) ==
    /\ running = NoConn /\ "write" \in w[c]
    /\ Flush(c, w[c] \ {"write"})
    /\ UNCHANGED <<up, cbVars, session, reqVars, ready, closing, handed, held>>

\* Faulty variant: the request just passed stays in the vector.
AfterCall_Keep(s) == s

\* What is left of tmp after a call.
AfterCall(s) == Tail(s)

\* cb_user takes all of _user and makes the first call.
CbUserBegin(c) ==
    /\ running = NoConn /\ "user" \in w[c] /\ user[c] # <<>>
    /\ running' = c
    /\ batch' = AfterCall(user[c])
    /\ handed' = [handed EXCEPT ![c] = Append(@, Head(user[c]))]
    /\ user' = [user EXCEPT ![c] = <<>>]
    /\ UNCHANGED <<up, open, poolVars, w, out, session, reqVars, ready,
                   closing, sent, held>>

CbUserNext(c) ==
    /\ running = c /\ c \in open /\ "close" \notin w[c] /\ batch # <<>>
    /\ batch' = AfterCall(batch)
    /\ handed' = [handed EXCEPT ![c] = Append(@, Head(batch))]
    /\ UNCHANGED <<up, open, poolVars, w, out, user, running, session,
                   reqVars, ready, closing, sent, held>>

\* The last call left the connection closed or about to be closed.  After
\* Shutdown the reference made for the call may have been the last one
\* (CallerAlive): _closed is then read from memory freed just before, where
\* detach left it TRUE and no destructor or allocation overwrote it.
CbUserAbort(c) ==
    /\ running = c
    /\ c \notin open \/ "close" \in w[c]
    /\ running' = NoConn /\ batch' = <<>>
    /\ UNCHANGED <<up, open, poolVars, w, out, user, session, reqVars, ready,
                   closing, sent, handed, held>>

\* All calls made: write what is ready unless _w_write will, stop _w_user.
CbUserEnd(c) ==
    /\ running = c /\ c \in open /\ "close" \notin w[c] /\ batch = <<>>
    /\ running' = NoConn
    /\ IF "write" \in w[c]
       THEN /\ w' = [w EXCEPT ![c] = @ \ {"user"}]
            /\ UNCHANGED <<open, poolVars, out, user, sent>>
       ELSE Flush(c, w[c] \ {"user"})
    /\ UNCHANGED <<up, batch, session, reqVars, ready, closing, handed, held>>

-----------------------------------------------------------------------------
(* The application.  It may act inside a callback or from any other event  *)
(* of the loop, through a ConnectionPtr it keeps or was just passed.       *)

Reachable(c) == c \in held \/ running = c

Keep(c) ==
    /\ running = c /\ c \notin held
    /\ held' = held \cup {c}
    /\ UNCHANGED <<up, open, poolVars, w, out, user, cbVars, session, reqVars,
                   ready, closing, sent, handed>>

Release(c) ==
    /\ c \in held
    /\ held' = held \ {c}
    /\ UNCHANGED <<up, open, poolVars, w, out, user, cbVars, session, reqVars,
                   ready, closing, sent, handed>>

\* send starts _w_write: the response is the front of the queue.
StartsWrite(c, r) == out[c] # <<>> /\ out[c][1] = r

\* Connection::send of a response to a request this connection handed over,
\* perhaps in an earlier session.  keep is the keep_alive the user chose.
Send(c, r) ==
    /\ Reachable(c) /\ c \in open /\ In(r, handed[c])
    /\ \E keep \in BOOLEAN :
        closing' = IF keep \/ r \in ready THEN closing ELSE closing \cup {r}
    /\ ready' = ready \cup {r}
    /\ w' = IF StartsWrite(c, r)
            THEN [w EXCEPT ![c] = @ \cup {"write"}] ELSE w
    /\ UNCHANGED <<up, open, poolVars, out, user, cbVars, session, reqVars,
                   sent, handed, held>>

\* send when set_ready has no memory for the Content-Length header.
SendNoMemory(c, r) ==
    /\ Reachable(c) /\ c \in open /\ In(r, handed[c]) /\ r \notin ready
    /\ w' = [w EXCEPT ![c] = @ \cup {"close"}]
    /\ UNCHANGED <<up, open, poolVars, out, user, cbVars, session, reqVars,
                   ready, closing, sent, handed, held>>

Disconnect(c) ==
    /\ Reachable(c) /\ c \in open
    /\ DisconnectEffect(c)
    /\ UNCHANGED <<up, cbVars, session, reqVars, ready, closing, sent, handed, held>>

\* Pool::close and Connection::detach of every connection.
DetachAll ==
    /\ open' = {} /\ conns' = {} /\ freeConns' = <<>>
    /\ w' = [c \in Conns |-> {}]
    /\ out' = [c \in Conns |-> <<>>]
    /\ user' = [c \in Conns |-> <<>>]

\* Server::~Server, also inside a callback and with no ConnectionPtr kept.
Shutdown ==
    /\ up /\ up' = FALSE
    /\ DetachAll
    /\ UNCHANGED <<cbVars, session, reqVars, ready, closing, sent, handed,
                   held>>

-----------------------------------------------------------------------------
Loop(c) ==
    \/ Accept(c) \/ AcceptNoBuffer(c)
    \/ CbRead(c) \/ CbReadFail(c) \/ KeepAliveTimeout(c)
    \/ CbClose(c) \/ CbWrite(c)
    \/ CbUserBegin(c) \/ CbUserNext(c) \/ CbUserAbort(c) \/ CbUserEnd(c)

App(c) ==
    \/ Keep(c) \/ Release(c) \/ Disconnect(c)
    \/ \E r \in Rids : Send(c, r) \/ SendNoMemory(c, r)

Next == Shutdown \/ \E c \in Conns : Loop(c) \/ App(c)

\* A write the socket takes something from, or that ends the connection.
CbWriteProgress(c) == CbWrite(c) /\ (sent' # sent \/ open' # open)

\* Every loop iteration invokes the active prepare watchers and the callbacks
\* the user's code returns from; the peer goes on reading what is written.
Fairness ==
    \A c \in Conns :
        /\ WF_vars(CbUserBegin(c)) /\ WF_vars(CbUserNext(c))
        /\ WF_vars(CbUserAbort(c)) /\ WF_vars(CbUserEnd(c))
        /\ WF_vars(CbClose(c))
        /\ WF_vars(CbWriteProgress(c))

Spec == Init /\ [][Next]_vars
FairSpec == Spec /\ Fairness

-----------------------------------------------------------------------------
(* Properties                                                              *)

Increasing(s) == \A i, j \in DOMAIN s : i < j => s[i] < s[j]
SameSession(r1, r2) == rconn[r1] = rconn[r2] /\ rsess[r1] = rsess[r2]

\* The session a request belongs to is still open.
Live(r) == /\ r <= nreq
           /\ rconn[r] \in open
           /\ rsess[r] = session[rconn[r]]

InHand(c) == IF running = c THEN batch ELSE <<>>

\* HTTP pipelining: units of a response are on the wire only when the user
\* has sent it and every earlier request of the same session is answered
\* completely, whatever the order of the user's calls to send, whichever
\* partial writes happened, and however often the connection was reused
\* (cb_writev_int, send, parse_buffer).
Pipelining ==
    \A r2 \in Rids : sent[r2] > 0 =>
        /\ r2 \in ready
        /\ \A r1 \in Rids :
              r1 < r2 /\ SameSession(r1, r2) => sent[r1] = Size

\* c owes: the requests of its session that are not answered completely are
\* in _out, in the order they arrived, only the first of them begun.
OwedBy(c) ==
    /\ Increasing(out[c])
    /\ \A r \in Rids :
          In(r, out[c]) <=> Live(r) /\ rconn[r] = c /\ sent[r] < Size
    /\ \A i \in DOMAIN out[c] : sent[out[c][i]] > 0 => i = 1

\* _out of an open connection is exactly what its session still owes, across
\* reads, partial writes, closing and reuse of the object (parse_buffer,
\* cb_writev_int, close).
OutIsOwed == \A c \in open : OwedBy(c)

\* What is recorded of a request: its connection and a session that connection
\* had; nothing of a request that was not parsed yet.
Recorded ==
    \A r \in Rids :
        /\ r <= nreq => /\ rconn[r] \in Conns
                        /\ rsess[r] <= session[rconn[r]]
        /\ r > nreq => sent[r] = 0 /\ r \notin ready

\* A request is on its way to the user, or was passed to the user, only with
\* the connection it was read from.
Traced ==
    \A c \in Conns, r \in Rids :
        In(r, handed[c]) \/ In(r, InHand(c)) \/ In(r, user[c]) =>
            r <= nreq /\ rconn[r] = c

\* _w_write is active exactly when the response in front is ready: no ready
\* response is forgotten (send starts the watcher only for the front, cb_write
\* stops it when the front is not ready), and the level-triggered watcher
\* never spins with nothing to write.
WriteArmed ==
    \A c \in Conns : "write" \in w[c] <=>
                       out[c] # <<>> /\ out[c][1] \in ready

\* Every request is passed to the callback at most once and in the order of
\* arrival, and none of an open session gets lost between parse_buffer,
\* _user, cb_user's local vector and the callback unless the session is
\* about to be closed.
Delivery ==
    \A c \in Conns :
        /\ Increasing(handed[c] \o InHand(c) \o user[c])
        /\ "close" \in w[c] \/
             \A r \in Rids : Live(r) /\ rconn[r] = c =>
                In(r, handed[c]) \/ In(r, InHand(c)) \/ In(r, user[c])

\* The pool lists exactly the connections with an open socket, and an object
\* waits for reuse at most once, never while it is in use, and never beyond
\* max_free_conns (Pool::get, Pool::disconnect, Connection::close).
PoolConsistent ==
    /\ conns = open
    /\ Len(freeConns) <= MaxFree
    /\ \A i, j \in DOMAIN freeConns : freeConns[i] = freeConns[j] => i = j
    /\ \A c \in open : ~In(c, freeConns)

\* A closed object keeps nothing that its next session would see: no queued
\* request or response and no active watcher, though cb_user may still be on
\* its stack or the application may call it through an old ConnectionPtr.
ClosedIsClean ==
    \A c \in Conns \ open : out[c] = <<>> /\ user[c] = <<>> /\ w[c] = {}

\* The object whose cb_user is on the stack is in use: whatever the user does in
\* the callback, only the destruction of the server takes it from the pool.  So
\* cb_user goes on with a living object, unless the user destroyed the server
\* and kept no ConnectionPtr.
CallerAlive == up /\ running # NoConn => running \in conns

\* The properties above hold together: they are inductive, none is alone.
\* Accept needs ClosedIsClean to start a session with an empty queue, the
\* queue needs PoolConsistent to know that the object is not in use, and the
\* order on the wire needs OutIsOwed to know what precedes a response.
Inductive ==
    /\ TypeOK /\ Recorded /\ Traced
    /\ PoolConsistent /\ ClosedIsClean
    /\ OutIsOwed /\ Pipelining /\ WriteArmed

\* Nothing is written for a request after its session ended, even when the
\* user answers late and the Connection object already serves another peer.
NoLateWrite ==
    [][\A r \in Rids : sent'[r] # sent[r] => Live(r)]_vars

\* cb_user never finds anything to write itself: send has always started
\* _w_write before.  So close() is never called from cb_user, which goes on
\* to use an object that close() may have released.
CbUserWritesNothing ==
    [][\A c \in Conns : running = c /\ running' = NoConn =>
          sent' = sent /\ open' = open]_vars

\* A parsed request reaches the user's callback unless its session ends.
EveryRequestHanded ==
    \A r \in Rids : Live(r) ~> (\E c \in Conns : In(r, handed[c])) \/ ~Live(r)

\* Once the user answered a request and all before it in the session, the
\* response is written completely unless the session ends.
EveryAnswerWritten ==
    \A r \in Rids :
        (Live(r) /\ \A r1 \in 1..r : SameSession(r1, r) => r1 \in ready)
            ~> sent[r] = Size \/ ~Live(r)

\* disconnect() of an open connection ends the session, also when it is
\* called inside the connection's own callback.
DisconnectEnds ==
    \A c \in Conns : "close" \in w[c] ~> c \notin open

\* Seen from the peer, the connections are the pipeline of module Pipeline:
\* _out is the queue of what is owed.
Promise == INSTANCE Pipeline WITH owed <- out, seen <- nreq

PipelineSpec == Promise!Spec

=============================================================================
