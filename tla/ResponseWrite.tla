----------------------------- MODULE ResponseWrite -----------------------------
(***************************************************************************)
(* How the answers of one server connection become bytes on the socket:    *)
(* Response::set_ready and fill_iov, add_iov and process_iov, and the loop *)
(* of Connection::cb_writev_int around writev.  Responses are numbered in  *)
(* the order of their requests; _out holds front + 1 .. made.  The parts   *)
(* of a response are its status line, headers and data; a byte is known by *)
(* its response, part and offset.                                          *)
(***************************************************************************)
EXTENDS Integers, Sequences, FiniteSetsExt, SequencesExt

CONSTANTS
    MaxIov,         \* length of the array of iovecs given to writev
    Shapes,         \* responses: sequences of the lengths of their parts
    MaxResponses    \* bound: requests of the connection

ASSUME WriteConfig ==
    /\ MaxIov \in Nat \ {0} /\ MaxResponses \in Nat
    /\ \A s \in Shapes : s \in Seq(Nat \ {0}) /\ s # <<>>

Rids == 1..MaxResponses

VARIABLES
    made,       \* responses made by parse_buffer
    front,      \* responses popped from _out
    ready,      \* Response::_ready
    closing,    \* ready responses whose keep_alive is false
    parts,      \* lengths of the parts of a ready response
    iov,        \* _iov: records [base, len], base an offset in the part
    processed,  \* _processed
    total,      \* _total_size
    watch,      \* _w_write is active
    writing,    \* who runs cb_writev_int: "write", "user" or "no"
    open,       \* ~_closed
    wire        \* bytes written, as records [r, k, at]

respVars == <<ready, closing, parts, iov, processed, total>>
vars == <<made, front, respVars, watch, writing, open, wire>>

\* The sum of the first n numbers of s.
SumTo(s, n) == LET sum[i \in 0..n] == IF i = 0 THEN 0 ELSE sum[i - 1] + s[i] IN sum[n]

FrontReady == front < made /\ front + 1 \in ready
Left(r) == Len(iov[r]) - processed[r]
Lengths(r) == [k \in DOMAIN iov[r] |-> iov[r][k].len]

Init ==
    /\ made = 0 /\ front = 0 /\ ready = {} /\ closing = {}
    /\ parts = [r \in Rids |-> <<>>] /\ iov = [r \in Rids |-> <<>>]
    /\ processed = [r \in Rids |-> 0] /\ total = [r \in Rids |-> 0]
    /\ watch = FALSE /\ writing = "no" /\ open = TRUE /\ wire = <<>>

\* parse_buffer appends a response to _out.
Request ==
    /\ open /\ writing = "no" /\ made < MaxResponses
    /\ made' = made + 1
    /\ UNCHANGED <<front, respVars, watch, writing, open, wire>>

\* set_ready and fill_iov; a ready response is left as it is.  (What send does
\* before, to _date and the headers of a response it got already, is left out.)
SetReady(r, s, keep) ==
    IF r \in ready THEN UNCHANGED respVars
    ELSE /\ ready' = ready \cup {r}
         /\ closing' = IF keep THEN closing ELSE closing \cup {r}
         /\ parts' = [parts EXCEPT ![r] = s]
         /\ iov' = [iov EXCEPT ![r] = [k \in DOMAIN s |-> [base |-> 0, len |-> s[k]]]]
         /\ total' = [total EXCEPT ![r] = SumTo(s, Len(s))]
         /\ UNCHANGED processed

\* send starts _w_write for the front of the queue.
StartsWatch(r) == r = front + 1

Send(r, s, keep) ==
    /\ open /\ writing = "no" /\ r <= made
    /\ SetReady(r, s, keep)
    /\ watch' = (watch \/ StartsWatch(r))
    /\ UNCHANGED <<made, front, writing, open, wire>>

\* keep_alive is public and looked at when the response is popped: the user may
\* change it until then.
SetKeepAlive(r) ==
    /\ writing = "no" /\ r \in ready /\ r > front
    /\ closing' = IF r \in closing THEN closing \ {r} ELSE closing \cup {r}
    /\ UNCHANGED <<made, front, ready, parts, iov, processed, total, watch, writing,
                   open, wire>>

Shut == open' = FALSE /\ writing' = "no" /\ watch' = FALSE

\* close() by another callback: end of stream, timer, disconnect.
CloseElsewhere ==
    /\ open /\ writing = "no"
    /\ Shut
    /\ UNCHANGED <<made, front, respVars, wire>>

-----------------------------------------------------------------------------
(* cb_writev_int, one step per round of its loop                           *)

CbWrite ==
    /\ open /\ writing = "no" /\ watch
    /\ writing' = "write"
    /\ UNCHANGED <<made, front, respVars, watch, open, wire>>

\* The end of cb_user.
CbUser ==
    /\ open /\ writing = "no" /\ ~watch
    /\ writing' = "user"
    /\ UNCHANGED <<made, front, respVars, watch, open, wire>>

\* Faulty variant of add_iov: the last iovec of the array is not used.
Room_OneLess == MaxIov - 1

Room == MaxIov

\* The first m responses are gathered: add_iov copies what is left of each.
Fits(m) ==
    /\ \A i \in 1..m : front + i \in ready /\ Left(front + i) > 0
    /\ SumTo([i \in 1..m |-> Left(front + i)], m) <= Room

Gathered == Max({m \in 0..(made - front) : Fits(m)})

BytesOf(r, k) ==
    [i \in 1..iov[r][k].len |-> [r |-> r, k |-> k, at |-> iov[r][k].base + i - 1]]
BytesLeft(r) ==
    FlattenSeq([j \in 1..Left(r) |-> BytesOf(r, processed[r] + j)])
Data == LET m == Gathered IN FlattenSeq([i \in 1..m |-> BytesLeft(front + i)])

\* cb_write stops its watcher; cb_user starts it for a ready front.
Stop ==
    /\ writing # "no" /\ Gathered = 0
    /\ writing' = "no"
    /\ watch' = (writing = "user" /\ FrontReady)
    /\ UNCHANGED <<made, front, respVars, open, wire>>

Again ==
    /\ writing # "no" /\ Gathered > 0
    /\ writing' = "no" /\ watch' = TRUE
    /\ UNCHANGED <<made, front, respVars, open, wire>>

Error ==
    /\ writing # "no" /\ Gathered > 0
    /\ Shut
    /\ UNCHANGED <<made, front, respVars, wire>>

\* Faulty variant of process_iov: an iovec that was written is not passed.
Passed_None(r, j) == processed[r]

\* process_iov of a response that is not complete: j iovecs are written, of
\* whole bytes together, and cut bytes of the next one.
Passed(r, j) == processed[r] + j
TotalAfter(r, whole, cut) == total[r] - whole - cut
Cut(v, cut) == [v EXCEPT !.len = @ - cut]

ProcessIov(r, size) ==
    LET bytes(j) == SumTo(Lengths(r), processed[r] + j) - SumTo(Lengths(r), processed[r])
        j     == Max({i \in 0..Left(r) : bytes(i) <= size})
        whole == bytes(j)
        cut   == size - whole
    IN  /\ processed' = [processed EXCEPT ![r] = Passed(r, j)]
        /\ total' = [total EXCEPT ![r] = TotalAfter(r, whole, cut)]
        /\ iov' = IF cut = 0 THEN iov
                  ELSE [iov EXCEPT ![r][processed[r] + j + 1] = Cut(@, cut)]

\* Faulty variant: keep_alive of the last complete response only.
Ending_Last(done) == {d \in {done} : front + d \in closing}

\* Complete responses that end the connection.
Ending(done) == {d \in 1..done : front + d \in closing}

\* writev takes n bytes: the complete responses are popped, up to one without
\* keep_alive, which ends the connection; what is left is off the next one.
Write ==
    /\ writing # "no"
    /\ LET m        == Gathered
           data     == Data
           sumTo(d) == SumTo(total, front + d) - SumTo(total, front)
       IN \E n \in 1..Len(data) :
            LET done == Max({d \in 0..m : sumTo(d) <= n})
                size == n - sumTo(done)
                last == Ending(done)
            IN  /\ wire' = wire \o SubSeq(data, 1, n)
                /\ IF last # {}
                   THEN /\ Shut
                        /\ front' = front + Min(last)
                        /\ UNCHANGED <<processed, total, iov>>
                   ELSE /\ front' = front + done
                        /\ IF size > 0 THEN ProcessIov(front + done + 1, size)
                           ELSE UNCHANGED <<processed, total, iov>>
                        /\ UNCHANGED <<open, watch, writing>>
    /\ UNCHANGED <<made, ready, closing, parts>>

-----------------------------------------------------------------------------
Sends == \E r \in Rids, s \in Shapes, keep \in BOOLEAN : Send(r, s, keep)
Callbacks == CbWrite \/ CbUser
Round == Stop \/ Again \/ Error \/ Write

Changes == \E r \in Rids : SetKeepAlive(r)

Next == Request \/ Sends \/ Changes \/ CloseElsewhere \/ Callbacks \/ Round

Spec == Init /\ [][Next]_vars

-----------------------------------------------------------------------------
(* Properties                                                              *)

\* Types, and the bounds of _processed and of what is left of each part.
TypeOK ==
    /\ made \in 0..MaxResponses /\ front \in 0..made
    /\ ready \subseteq 1..made /\ closing \subseteq ready
    /\ \A r \in Rids :
        /\ parts[r] \in Shapes \cup {<<>>}
        /\ DOMAIN iov[r] = DOMAIN parts[r]
        /\ \A k \in DOMAIN iov[r] :
            /\ iov[r][k].len \in 1..parts[r][k]
            /\ iov[r][k].base \in 0..parts[r][k]
        /\ processed[r] \in 0..Len(iov[r]) /\ total[r] \in Nat
    /\ watch \in BOOLEAN /\ open \in BOOLEAN
    /\ writing \in {"no", "write", "user"}

\* Where part k of response r begins in the answers, one after the other.
Size(r) == SumTo(parts[r], Len(parts[r]))
Before(r, k) == SumTo([q \in Rids |-> Size(q)], r - 1) + SumTo(parts[r], k - 1)

\* Every byte on the wire stands where a byte of the same response and the
\* same part belongs, after all the answers before it, over any splits by the
\* socket and the array of iovecs.
Places ==
    \A i \in DOMAIN wire :
        LET b == wire[i] IN
        /\ 1..b.r \subseteq ready
        /\ Before(b.r, b.k) < i /\ i <= Before(b.r, b.k) + parts[b.r][b.k]

\* _total_size is what is left of a response, and what is not left has been
\* written; a response is popped when all of it is on the wire.
Accounted ==
    /\ TypeOK /\ Places
    /\ open =>
        /\ \A r \in ready : r > front =>
            total[r] = SumTo(Lengths(r), Len(iov[r])) - SumTo(Lengths(r), processed[r])
        /\ Len(wire) = SumTo([q \in Rids |-> Size(q)], front)
                       + (IF FrontReady THEN Size(front + 1) - total[front + 1] ELSE 0)

\* When a response without keep_alive is complete, the connection is closed,
\* however many responses one writev completed.
CloseHonoured == open => closing \cap 1..front = {}

\* A ready front that fits in the array is being written or watched.
Armed ==
    open /\ FrontReady /\ Left(front + 1) <= MaxIov => writing # "no" \/ watch

\* The peer receives the bytes of the answers.  After a partial write of an
\* iovec it does not: the length is reduced and the address stays.
RightBytes == \A i \in DOMAIN wire : i = Before(wire[i].r, wire[i].k) + wire[i].at + 1

=============================================================================
