----------------------------- MODULE RequestBuffer -----------------------------
(***************************************************************************)
(* How one server connection turns a byte stream into requests:            *)
(* Connection::cb_read with Buffer::read, parse_buffer, pico::Request and  *)
(* renew_buffer.  A well-formed request is h bytes of head and b of body;  *)
(* bytes are known by their position in the stream.  The buffer in use     *)
(* holds the positions base .. base + size - 1.  Parsed requests are       *)
(* views: each keeps a reference to a buffer and points into memory.       *)
(*                                                                         *)
(* A buffer is known by its number gen: it is never written again once the *)
(* last reference to it is gone, except by its next owner.                 *)
(***************************************************************************)
EXTENDS Integers, Sequences

CONSTANTS
    BufferSize,     \* config.buffer_size
    Threshold,      \* config.buffer_renew_threshold
    MaxSize,        \* config.request_max_size
    Shapes,         \* lengths of requests: records [h, b]
    MaxReq          \* bound: requests of the peer

ASSUME BufferConfig ==
    /\ BufferSize \in Nat \ {0} /\ Threshold \in Nat \ {0}
    /\ MaxSize \in Nat /\ MaxReq \in Nat
    /\ Shapes \subseteq [h : Nat \ {0}, b : Nat]

\* A fact of arithmetic, stated where it is used: capacities double.
ASSUME PowersOfTwo == \A i \in 0..MaxSize : 2 ^ (i + 1) = 2 * 2 ^ i

VARIABLES
    wire,       \* requests the peer has begun to send
    ends,       \* position in the stream after each of them
    arrived,    \* bytes that reached the socket
    eof,        \* the peer closed or reset the connection
    open,       \* ~Connection::_closed
    pc,         \* what cb_read does next; "idle" when it is not running
    state,      \* what Buffer::read returned last
    gen,        \* which buffer _buf is
    cap,        \* its _capacity
    base,       \* position of its first byte
    size,       \* its _size
    processed,  \* Connection::_processed
    parsed,     \* _pico->head_parsed
    headGen,    \* the buffer the views of _pico point into
    reqs,       \* requests made so far: the buffer each holds, and its head's
    handed,     \* requests given to the user
    kept        \* requests somebody still holds

peerVars == <<wire, ends, arrived, eof>>
bufVars  == <<gen, cap, base, size>>
picoVars == <<parsed, headGen>>
reqVars  == <<reqs, handed, kept>>
vars == <<peerVars, open, pc, state, bufVars, processed, picoVars, reqVars>>

\* Where the n-th request ends.
EndOf(n) == IF n = 0 THEN 0 ELSE ends[n]

Start == EndOf(Len(reqs))       \* of the request that is parsed next
Got   == base + size            \* bytes of the stream that were read
TailLen == size - processed       \* length of _buf->tail(_processed)

TypeOK ==
    /\ wire \in Seq(Shapes) /\ ends \in Seq(Nat) /\ Len(ends) = Len(wire)
    /\ arrived \in Nat /\ eof \in BOOLEAN /\ open \in BOOLEAN
    /\ pc \in {"idle", "read", "parse", "renew"}
    /\ state \in {"Full", "Again"}
    /\ gen \in Nat /\ cap \in Nat \ {0} /\ base \in Nat /\ size \in Nat
    /\ processed \in Nat
    /\ parsed \in BOOLEAN /\ headGen \in Nat
    /\ reqs \in Seq([buf : Nat, head : Nat]) /\ Len(reqs) <= Len(wire)
    /\ handed \in 0..Len(reqs)
    /\ kept \subseteq DOMAIN reqs

Init ==
    /\ wire = <<>> /\ ends = <<>> /\ arrived = 0 /\ eof = FALSE
    /\ open = TRUE /\ pc = "idle" /\ state = "Again"
    /\ gen = 1 /\ cap = BufferSize /\ base = 0 /\ size = 0 /\ processed = 0
    /\ parsed = FALSE /\ headGen = 0
    /\ reqs = <<>> /\ handed = 0 /\ kept = {}

-----------------------------------------------------------------------------
(* The peer                                                                *)

BeginRequest(s) ==
    /\ ~eof /\ Len(wire) < MaxReq /\ arrived = EndOf(Len(wire))
    /\ wire' = Append(wire, s)
    /\ ends' = Append(ends, EndOf(Len(wire)) + s.h + s.b)
    /\ UNCHANGED <<arrived, eof, open, pc, state, bufVars, processed, picoVars, reqVars>>

SendBytes ==
    /\ ~eof
    /\ \E n \in (arrived + 1)..EndOf(Len(wire)) : arrived' = n
    /\ UNCHANGED <<wire, ends, eof, open, pc, state, bufVars, processed, picoVars, reqVars>>

EndStream ==
    /\ ~eof /\ eof' = TRUE
    /\ UNCHANGED <<wire, ends, arrived, open, pc, state, bufVars, processed, picoVars, reqVars>>

-----------------------------------------------------------------------------
(* Connection::cb_read                                                     *)

\* close(): requests still in _user are dropped.
Shut ==
    /\ open' = FALSE /\ pc' = "idle"
    /\ kept' = {k \in kept : k <= handed}
    /\ UNCHANGED <<reqs, handed>>

\* Buffer::read: up to the end of the buffer, or until nothing is left.
Read ==
    /\ open
    /\ \/ pc = "idle" /\ (arrived > Got \/ eof)
       \/ pc = "read"
    /\ LET room == cap - size
       IN  \/ /\ arrived - Got >= room
              /\ size' = cap /\ state' = "Full"
           \/ /\ arrived - Got < room /\ ~eof
              /\ size' = size + (arrived - Got) /\ state' = "Again"
    /\ pc' = "parse"
    /\ UNCHANGED <<peerVars, open, gen, cap, base, processed, picoVars, reqVars>>

ReadError ==
    /\ open /\ pc \in {"idle", "read"} /\ eof
    /\ Shut
    /\ UNCHANGED <<peerVars, state, bufVars, processed, picoVars>>

\* Faulty variant: one request per read.
AfterRequest_Once == pc' = "renew"

\* parse_buffer goes on with the rest of the buffer.
AfterRequest == pc' = "parse"

\* pico::Request::parse_head sets the views once, when the head is complete.
HeadView == IF parsed THEN headGen ELSE gen

Shape == wire[Len(reqs) + 1]
HeadComplete == TailLen > 0 /\ (parsed \/ TailLen >= Shape.h)
TooLarge ==
    /\ ~parsed /\ MaxSize > 0 /\ TailLen > 0
    /\ IF HeadComplete THEN Shape.h + Shape.b > MaxSize ELSE TailLen >= MaxSize

ParseError ==
    /\ pc = "parse" /\ TooLarge
    /\ Shut
    /\ UNCHANGED <<peerVars, state, bufVars, processed, picoVars>>

ParseComplete ==
    /\ pc = "parse" /\ ~TooLarge
    /\ HeadComplete /\ TailLen >= Shape.h + Shape.b
    /\ processed' = processed + Shape.h + Shape.b
    /\ reqs' = Append(reqs, [buf |-> gen, head |-> HeadView])
    /\ kept' = kept \cup {Len(reqs) + 1}
    /\ parsed' = FALSE /\ headGen' = HeadView
    /\ AfterRequest
    /\ UNCHANGED <<peerVars, open, state, bufVars, handed>>

\* Nothing is left, or the rest is the beginning of a request.
ParsePartial ==
    /\ pc = "parse" /\ ~TooLarge
    /\ ~(HeadComplete /\ TailLen >= Shape.h + Shape.b)
    /\ parsed' = HeadComplete
    /\ headGen' = IF HeadComplete THEN HeadView ELSE headGen
    /\ pc' = "renew"
    /\ UNCHANGED <<peerVars, open, state, bufVars, processed, reqVars>>

-----------------------------------------------------------------------------
(* renew_buffer                                                            *)

\* Faulty variant: a buffer that is exactly full enough is kept.
RenewDue_Strict == size > cap - cap \div Threshold

RenewDue == size >= cap - cap \div Threshold

\* Faulty variant: the largest buffer is never used.
GivesUp_Early == 2 * cap >= MaxSize

GivesUp == 2 * cap > MaxSize

Reset == processed' = 0

\* The loop ends after Again and goes on after Full.
LoopOn == pc' = IF state = "Again" THEN "idle" ELSE "read"

KeepBuffer ==
    /\ pc = "renew" /\ ~RenewDue
    /\ LoopOn
    /\ UNCHANGED <<peerVars, open, state, bufVars, processed, picoVars, reqVars>>

\* The tail is copied to a new buffer of twice the capacity.
NewBuffer ==
    /\ pc = "renew" /\ RenewDue /\ ~GivesUp
    /\ gen' = gen + 1 /\ cap' = 2 * cap
    /\ base' = base + processed /\ size' = TailLen
    /\ Reset
    /\ LoopOn
    /\ UNCHANGED <<peerVars, open, state, picoVars, reqVars>>

\* The connection is closed: the new buffer would be too large.
NoBuffer ==
    /\ pc = "renew" /\ RenewDue /\ GivesUp
    /\ Shut
    /\ UNCHANGED <<peerVars, state, bufVars, processed, picoVars>>

-----------------------------------------------------------------------------
(* The user                                                                *)

CbUser ==
    /\ open /\ pc = "idle" /\ handed < Len(reqs)
    /\ handed' = Len(reqs)
    /\ UNCHANGED <<peerVars, open, pc, state, bufVars, processed, picoVars, reqs, kept>>

Release(k) ==
    /\ pc = "idle" /\ k \in kept /\ k <= handed
    /\ kept' = kept \ {k}
    /\ UNCHANGED <<peerVars, open, pc, state, bufVars, processed, picoVars, reqs, handed>>

-----------------------------------------------------------------------------
Peer == (\E s \in Shapes : BeginRequest(s)) \/ SendBytes \/ EndStream

CbRead == \/ Read \/ ReadError
          \/ ParseError \/ ParseComplete \/ ParsePartial
          \/ KeepBuffer \/ NewBuffer \/ NoBuffer

User == CbUser \/ \E k \in kept : Release(k)

Next == Peer \/ CbRead \/ User

Spec == Init /\ [][Next]_vars

\* A callback that was started goes on.
FairSpec == Spec /\ WF_vars(CbRead)

-----------------------------------------------------------------------------
(* Properties                                                              *)

\* Over any reads, partial requests and renewals, what is parsed next starts
\* where the previous request ended, and the buffer has not lost a byte.
Framing ==
    open => /\ base + processed = Start
            /\ processed <= size /\ size <= cap
            /\ Got <= arrived

\* Once the buffer was parsed, no complete request is left in it: nothing would
\* wake the connection for one after cb_read has returned.
NoneLeft ==
    open /\ pc # "parse" /\ Len(reqs) < Len(wire) => ends[Len(reqs) + 1] > Got

\* The buffer a read starts with is not full, so no round of the loop is
\* without progress.
HasRoom == open /\ pc \in {"idle", "read"} => size < cap

\* The method, path and headers of a request without a body point into the
\* buffer the request itself keeps alive.
OwnHead == \A k \in kept : wire[k].b = 0 => reqs[k].head = reqs[k].buf

\* Where requests end, and how much of them is on the way.
Positions ==
    /\ \A n \in DOMAIN wire : ends[n] = EndOf(n - 1) + wire[n].h + wire[n].b
    /\ arrived <= EndOf(Len(wire))
    /\ pc # "idle" => open

\* A parsed head belongs to the next request, of which the body is missing.
HeadPending ==
    open /\ parsed =>
        /\ Len(reqs) < Len(wire)
        /\ TailLen >= Shape.h /\ Shape.b > 0

\* renew_buffer has doubled the first buffer's capacity.
Doubled == \E k \in 0..MaxSize : cap = BufferSize * 2 ^ k

\* The inductive invariant.
Inductive ==
    /\ TypeOK /\ Positions /\ Framing /\ NoneLeft
    /\ HasRoom /\ HeadPending /\ OwnHead /\ Doubled

\* A buffer of 2^i times the first one, for every i the limit allows.
Capacities == {BufferSize * 2 ^ i : i \in 0..MaxSize}
Allowed(c) == c = BufferSize \/ c <= MaxSize

\* As long as the peer keeps its requests within the limit, the server ends
\* the connection only when the largest buffer the limit allows, and so every
\* smaller one, is nearly used up.
ServedUpTo ==
    ~open /\ ~eof /\ (\A i \in DOMAIN wire : wire[i].h + wire[i].b <= MaxSize)
        => \A c \in Capacities : Allowed(c) => Got >= c - c \div Threshold

\* cb_read returns.
LoopEnds == (pc # "idle") ~> (pc = "idle")

=============================================================================
