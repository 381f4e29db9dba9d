----------------------------- MODULE ClientStream -----------------------------
(***************************************************************************)
(* One established client::Connection down to the bytes: the views of      *)
(* client::Request that writev shortens, and client::Response with its two *)
(* buffers, its parser and the tail that goes to the next response.        *)
(*                                                                         *)
(* A byte of a request is <<object, part, offset>>; a byte of the server's *)
(* stream is its position.  Request objects may be sent again.  An answer  *)
(* has a head of h bytes that announces a body of a bytes, of which b are  *)
(* sent: b = 0 for an answer to HEAD, a = 0 for a body without a length.   *)
(***************************************************************************)
EXTENDS Integers, Sequences, SequencesExt, Functions

CONSTANTS
    Parts,      \* lengths of the parts of each request object
    Answers,    \* answers of the server: records [h, a, b, keep]
    HeaderMax,  \* config.message.header_max_size
    ChunkSize,  \* config.message.header_chunk_size
    BodyMax,    \* config.message.body_max_size
    MaxSends    \* bound: requests sent

ASSUME StreamConfig ==
    /\ \A o \in DOMAIN Parts : Parts[o] \in Seq(Nat)
    /\ HeaderMax \in Nat \ {0} /\ ChunkSize \in Nat \ {0} /\ BodyMax \in Nat
    /\ Answers \subseteq [h : Nat \ {0}, a : Nat, b : Nat, keep : BOOLEAN]
    /\ MaxSends \in Nat

Objects == DOMAIN Parts

VARIABLES
    open,       \* _status is Ready
    failed,     \* the network reported an error
    pc,         \* the callback that runs: "idle", "write" or "read"
    sends,      \* objects in the order of sending
    torn,       \* an object was sent again while it was in _out
    out,        \* _out
    left,       \* per object, the lengths of its remaining views
    wire,       \* bytes written
    in,         \* number of requests in _in
    cur,        \* the Response at the front of _in
    done,       \* answers given to the callback: positions of data()
    stream,     \* answers the server has begun
    ends,       \* position in its stream after each of them
    arrived,    \* bytes of them that reached the socket
    eof         \* the server closed

sendVars == <<sends, torn, out, left, wire>>
recvVars == <<in, cur, done>>
peerVars == <<stream, ends, arrived, eof>>
vars == <<open, failed, pc, sendVars, recvVars, peerVars>>

EndOf(k) == IF k = 0 THEN 0 ELSE ends[k]

\* clear() and init() without a tail: _buf_header up to _read, _buf_body,
\* _processed, _total and the fields of _pico_resp.
NoResponse ==
    [head |-> <<>>, body |-> <<>>, processed |-> 0, total |-> 0, h |-> 0, a |-> 0]

\* _read, which counts both buffers.
ReadOf(c) == IF c.body = <<>> THEN Len(c.head) ELSE c.h + Len(c.body)

\* Bytes of the stream that were read.
Consumed ==
    IF cur.head # <<>> THEN cur.head[1] + ReadOf(cur) - 1
    ELSE IF done # <<>> THEN Last(done).last ELSE 0

Init ==
    /\ open = TRUE /\ failed = FALSE /\ pc = "idle"
    /\ sends = <<>> /\ torn = FALSE /\ out = <<>> /\ wire = <<>>
    /\ left = [o \in Objects |-> [p \in DOMAIN Parts[o] |-> 0]]
    /\ in = 0 /\ cur = NoResponse /\ done = <<>>
    /\ stream = <<>> /\ ends = <<>> /\ arrived = 0 /\ eof = FALSE

-----------------------------------------------------------------------------
(* The application                                                         *)

\* Request::set_ready: all views are whole again.
SetReady(o) == Parts[o]

\* Connection::send.
Send(o) ==
    /\ open /\ pc = "idle" /\ Len(sends) < MaxSends
    /\ torn' = (torn \/ Contains(out, o))
    /\ left' = [left EXCEPT ![o] = SetReady(o)]
    /\ sends' = Append(sends, o) /\ out' = Append(out, o)
    /\ in' = in + 1
    /\ cur' = IF in = 0 THEN NoResponse ELSE cur
    /\ UNCHANGED <<open, failed, pc, wire, done, peerVars>>

-----------------------------------------------------------------------------
(* cb_write: Connection::write_int and Request::send                       *)

Bytes(o, views) ==
    FlattenSeq([p \in DOMAIN views |->
        [i \in 1..views[p] |-> <<o, p, Parts[o][p] - views[p] + i>>]])
Whole(o) == Bytes(o, Parts[o])
Rest(o) == Bytes(o, left[o])

\* Faulty variant: every view is shortened by the whole count.
UpdateViews_Each(views, n) ==
    [p \in DOMAIN views |-> IF n > views[p] THEN 0 ELSE views[p] - n]

\* The sum of the first n lengths.
SumTo(s, n) == LET sum[i \in 0..n] == IF i = 0 THEN 0 ELSE sum[i - 1] + s[i] IN sum[n]

\* update_view for one view after the other.
UpdateViews(views, n) ==
    [p \in DOMAIN views |->
        LET before == SumTo(views, p - 1)
        IN  IF n <= before THEN views[p]
            ELSE IF n - before >= views[p] THEN 0 ELSE views[p] - (n - before)]

CbWrite ==
    /\ open /\ pc = "idle" /\ out # <<>> /\ pc' = "write"
    /\ UNCHANGED <<open, failed, sendVars, recvVars, peerVars>>

Writing == open /\ pc = "write" /\ out # <<>>

WriteSome ==
    /\ Writing
    /\ \E n \in DOMAIN Rest(Head(out)) :
        /\ wire' = wire \o SubSeq(Rest(Head(out)), 1, n)
        /\ left' = [left EXCEPT ![Head(out)] = UpdateViews(@, n)]
    /\ UNCHANGED <<open, failed, pc, sends, torn, out, recvVars, peerVars>>

\* No view is left: SendStatus::Complete.
WriteComplete ==
    /\ Writing /\ Rest(Head(out)) = <<>>
    /\ out' = Tail(out)
    /\ UNCHANGED <<open, failed, pc, sends, torn, left, wire, recvVars, peerVars>>

\* EAGAIN, or nothing more to send.
WriteEnd ==
    /\ open /\ pc = "write"
    /\ out # <<>> => Rest(Head(out)) # <<>>
    /\ pc' = "idle"
    /\ UNCHANGED <<open, failed, sendVars, recvVars, peerVars>>

Close ==
    /\ open' = FALSE /\ pc' = "idle"
    /\ out' = <<>> /\ in' = 0
    /\ UNCHANGED <<sends, torn, left, wire>>

WriteError ==
    /\ Writing /\ Rest(Head(out)) # <<>>
    /\ failed' = TRUE /\ Close
    /\ UNCHANGED <<cur, done, peerVars>>

-----------------------------------------------------------------------------
(* cb_read: Connection::read_int and Response::recv                        *)

CbRead ==
    /\ open /\ pc = "idle" /\ (arrived > Consumed \/ eof)
    /\ pc' = "read"
    /\ UNCHANGED <<open, failed, sendVars, recvVars, peerVars>>

Reading == open /\ pc = "read"

\* The answer whose head begins the header buffer, 0 if none does.
Starting(c) ==
    LET at == {k \in DOMAIN stream : EndOf(k - 1) + 1 = c.head[1]}
    IN  IF at = {} THEN 0 ELSE CHOOSE k \in at : TRUE

\* The response does not fit into _buf_header.
TooLongForHeader(h, a) == a > 0 /\ h + a > HeaderMax

\* Faulty variant: the part of the body behind the head is left there.
Moved_Not(c, h) == <<>>

\* The bytes of the body that came with the head are copied to _buf_body.
Moved(c, h) == SubSeq(c.head, h + 1, Len(c.head))

\* A complete head: _total, and _buf_body if the rest needs it.
Parsed(c, ans) ==
    LET d == [c EXCEPT !.h = ans.h, !.a = ans.a, !.total = ans.h + ans.a]
    IN  IF TooLongForHeader(ans.h, ans.a) THEN [d EXCEPT !.body = Moved(c, ans.h)]
        ELSE d

\* Faulty variant: a body of exactly the limit is refused.
Refused_AtLimit(ans) == TooLongForHeader(ans.h, ans.a) /\ ans.a >= BodyMax

\* A body beyond the limit is refused, unless it fits behind the head.
Refused(ans) == TooLongForHeader(ans.h, ans.a) /\ ans.a > BodyMax

\* Response::parse: the response with its status.
Parse(c0) ==
    LET c == [c0 EXCEPT !.processed = ReadOf(c0)]
        k == Starting(c)
        ans == stream[k]
        d == IF c.total > 0 THEN c ELSE Parsed(c, ans)
    IN  IF c.total = 0 /\ k = 0 THEN [status |-> "Err", resp |-> c]
        ELSE IF c.total = 0 /\ Len(c.head) < ans.h THEN [status |-> "Partial", resp |-> c]
        ELSE IF c.total = 0 /\ Refused(ans) THEN [status |-> "Err", resp |-> d]
        ELSE IF ReadOf(d) < d.total THEN [status |-> "Partial", resp |-> d]
        ELSE [status |-> "Complete", resp |-> d]

InBody(c) == c.total > HeaderMax

\* Response::data.
DataOf(c) ==
    IF InBody(c) THEN c.body
    ELSE IF c.a > 0 THEN SubSeq(c.head, c.h + 1, c.h + c.a) ELSE <<>>

\* Response::tail.
TailOf(c) == IF ReadOf(c) > c.total THEN SubSeq(c.head, c.total + 1, ReadOf(c)) ELSE <<>>

\* Both the request and its answer have keep-alive.
KeepAlive(c) == stream[Starting(c)].keep

\* cb_read after recv returned Complete.
Deliver(c) ==
    /\ done' = Append(done, [start |-> c.head[1], data |-> DataOf(c),
                             last |-> c.head[1] + c.total - 1])
    /\ IF ~KeepAlive(c) \/ (in = 1 /\ TailOf(c) # <<>>)
       THEN Close /\ UNCHANGED cur
       ELSE /\ in' = in - 1
            /\ cur' = IF in = 1 THEN NoResponse
                      ELSE [NoResponse EXCEPT !.head = TailOf(c)]
            /\ UNCHANGED <<open, pc, sendVars>>

\* What cb_read does with the outcome of recv.
Outcome(r) ==
    /\ CASE r.status = "Complete" -> Deliver(r.resp)
         [] r.status = "Partial"  -> cur' = r.resp /\ UNCHANGED <<open, pc, sendVars, in, done>>
         [] r.status = "Err"      -> Close /\ UNCHANGED <<cur, done>>
    /\ UNCHANGED <<failed, peerVars>>

\* recv goes on with bytes that were copied from the previous response.
Buffered == ReadOf(cur) > cur.processed

RecvBuffered == Reading /\ in > 0 /\ Buffered /\ Outcome(Parse(cur))

ChunkFor(room) == IF room < ChunkSize THEN room ELSE ChunkSize

\* recv_int: how many bytes it asks for, 0 when there is no memory for more.
AskedFor ==
    IF cur.total > 0 THEN cur.total - ReadOf(cur)
    ELSE ChunkFor(HeaderMax - Len(cur.head))

\* The response with n more bytes, from the stream, in the buffer of its place.
Received(n) ==
    LET new == [i \in 1..n |-> Consumed + i]
    IN  IF cur.total > 0 /\ InBody(cur) THEN [cur EXCEPT !.body = @ \o new]
        ELSE [cur EXCEPT !.head = @ \o new]

\* read returns what is there, up to what was asked for.
RecvBytes ==
    /\ Reading /\ in > 0 /\ ~Buffered
    /\ LET there == arrived - Consumed
           n == IF there < AskedFor THEN there ELSE AskedFor
       IN  n > 0 /\ Outcome(Parse(Received(n)))

\* EAGAIN: nothing more arrived.
ReadAsync ==
    /\ Reading /\ (in = 0 \/ ~Buffered) /\ AskedFor > 0
    /\ arrived = Consumed /\ ~eof
    /\ pc' = "idle"
    /\ UNCHANGED <<open, failed, sendVars, recvVars, peerVars>>

\* The end of the stream, a full header buffer, or bytes nobody asked for.
ReadError ==
    /\ Reading
    /\ \/ in > 0 /\ ~Buffered /\ AskedFor = 0
       \/ (in = 0 \/ ~Buffered) /\ arrived = Consumed /\ eof
       \/ in = 0 /\ arrived > Consumed
    /\ Close
    /\ UNCHANGED <<failed, cur, done, peerVars>>

-----------------------------------------------------------------------------
(* The server answers in order, as soon as it has the first byte of a      *)
(* request.  Bytes arrive in pieces of any length.                         *)

\* A byte was written of the request that is answered next.
AskedNext ==
    Len(wire) > Len(FlattenSeq([k \in DOMAIN stream |-> Whole(sends[k])]))

Answer(a) ==
    /\ open /\ pc = "idle" /\ ~eof /\ arrived = EndOf(Len(stream))
    /\ Len(stream) < Len(sends) /\ AskedNext
    /\ stream' = Append(stream, a)
    /\ ends' = Append(ends, EndOf(Len(stream)) + a.h + a.b)
    /\ UNCHANGED <<open, failed, pc, sendVars, recvVars, arrived, eof>>

Arrive ==
    /\ open /\ pc = "idle" /\ ~eof
    /\ \E n \in (arrived + 1)..EndOf(Len(stream)) : arrived' = n
    /\ UNCHANGED <<open, failed, pc, sendVars, recvVars, stream, ends, eof>>

ServerCloses ==
    /\ open /\ pc = "idle" /\ ~eof /\ eof' = TRUE
    /\ UNCHANGED <<open, failed, pc, sendVars, recvVars, stream, ends, arrived>>

-----------------------------------------------------------------------------
WriteStep == CbWrite \/ WriteSome \/ WriteComplete \/ WriteEnd \/ WriteError
ReadStep  == CbRead \/ RecvBuffered \/ RecvBytes \/ ReadAsync \/ ReadError
Server    == (\E a \in Answers : Answer(a)) \/ Arrive \/ ServerCloses

Next == (\E o \in Objects : Send(o)) \/ WriteStep \/ ReadStep \/ Server

Spec == Init /\ [][Next]_vars

-----------------------------------------------------------------------------
(* Properties                                                              *)

\* Types, and no buffer of a response is written beyond its size.
TypeOK ==
    /\ Len(cur.head) <= HeaderMax /\ Len(cur.body) <= cur.a
    /\ open \in BOOLEAN /\ failed \in BOOLEAN /\ torn \in BOOLEAN /\ eof \in BOOLEAN
    /\ pc \in {"idle", "write", "read"}
    /\ sends \in Seq(Objects) /\ out \in Seq(Objects)
    /\ left \in [Objects -> Seq(Nat)]
    /\ in \in Nat /\ arrived \in Nat
    /\ stream \in Seq(Answers) /\ ends \in Seq(Nat)

\* Over writes that stop inside any part, what was written and what is left
\* are together the requests in the order of sending: unless an object was
\* sent again while it waited in _out, as it can be after an early answer.
RequestsWhole ==
    /\ TypeOK
    /\ ~torn /\ open =>
        wire \o FlattenSeq([i \in DOMAIN out |-> Rest(out[i])])
            = FlattenSeq([i \in DOMAIN sends |-> Whole(sends[i])])

\* The body of every answer up to k has the length its head announces.
Exact(k) == \A i \in 1..k : stream[i].a = stream[i].b

\* Between callbacks no answer that was asked for lies complete in a buffer,
\* where no watcher would find it.
NoneLeft ==
    open /\ pc = "idle" /\ Exact(Len(stream)) /\ in > 0 /\ Len(done) < Len(stream)
        => EndOf(Len(done) + 1) > Consumed

\* Wherever reads cut the stream and in whichever buffer a body ends up, the
\* k-th answer begins where the one before ended and its data are its body,
\* and none lies complete where nobody looks.
AnswersFramed ==
    /\ NoneLeft
    /\ \A k \in DOMAIN done :
        Exact(k) => /\ done[k].start = EndOf(k - 1) + 1
                    /\ done[k].data = [i \in 1..stream[k].b |-> EndOf(k - 1) + stream[k].h + i]

\* A head or a body the configuration does not admit.
OverLimit(a) == a.h > HeaderMax \/ (a.h + a.a > HeaderMax /\ a.a > BodyMax)

\* The connection stays open while the network works and the server sends
\* only answers within the limits, of the announced length, with keep-alive.
EndsForReason ==
    ~open => \/ failed \/ eof
             \/ \E k \in DOMAIN stream :
                    ~Exact(k) \/ OverLimit(stream[k]) \/ ~stream[k].keep

=============================================================================
