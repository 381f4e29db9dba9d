------------------------------- MODULE Pipeline -------------------------------
(***************************************************************************)
(* What an HTTP server promises a peer that pipelines its requests, without *)
(* watchers, batches, pools or reuse: per connection a queue of requests    *)
(* not yet answered completely; answers may be prepared in any order but    *)
(* leave from the front, piece by piece; the connection may end any time,   *)
(* and what it still owed is then never written.                            *)
(***************************************************************************)
EXTENDS Integers, Sequences

CONSTANTS
    Conns,      \* connections
    Size,       \* pieces of one answer, at least 1
    MaxReq      \* bound: requests in one behaviour

Rids == 1..MaxReq

VARIABLES
    owed,       \* requests a connection has not answered completely, in order
    seen,       \* number of requests that arrived
    ready,      \* answered by the application
    sent        \* pieces of each answer on the wire

vars == <<owed, seen, ready, sent>>

Init ==
    /\ owed = [c \in Conns |-> <<>>]
    /\ seen = 0
    /\ ready = {}
    /\ sent = [r \in Rids |-> 0]

\* k requests arrive together.
Ask(c) ==
    /\ \E k \in 1..(MaxReq - seen) :
        /\ seen' = seen + k
        /\ owed' = [owed EXCEPT ![c] = @ \o [i \in 1..k |-> seen + i]]
    /\ UNCHANGED <<ready, sent>>

\* The application answers a request, in time or too late.
Answer(r) ==
    /\ r <= seen
    /\ ready' = ready \cup {r}
    /\ UNCHANGED <<owed, seen, sent>>

\* Prepared answers leave in order; the connection may end with the write.
Emit(c) ==
    /\ \E m \in 0..Len(owed[c]), p \in 0..(Size - 1) :
        LET done == {owed[c][i] : i \in 1..m}
            left == SubSeq(owed[c], m + 1, Len(owed[c]))
            begun == left # <<>> /\ left[1] \in ready
        IN  /\ done \subseteq ready
            /\ IF begun THEN p >= sent[left[1]] ELSE p = 0
            /\ sent' = [r \in Rids |-> IF r \in done THEN Size
                                       ELSE IF begun /\ r = left[1] THEN p
                                       ELSE sent[r]]
            /\ \E rest \in {left, <<>>} : owed' = [owed EXCEPT ![c] = rest]
    /\ UNCHANGED <<seen, ready>>

\* Some connections end.
End ==
    /\ \E S \in SUBSET Conns :
        owed' = [c \in Conns |-> IF c \in S THEN <<>> ELSE owed[c]]
    /\ UNCHANGED <<seen, ready, sent>>

Next == \/ \E c \in Conns : Ask(c) \/ Emit(c)
        \/ \E r \in Rids : Answer(r)
        \/ End

Spec == Init /\ [][Next]_vars

=============================================================================
