------------------------------- MODULE Resolve -------------------------------
(***************************************************************************)
(* event::Resolve: a timer of the loop starts a thread that asks the       *)
(* resolver, fills _tmp and wakes the loop, which tells the user which     *)
(* addresses came and went.                                                *)
(***************************************************************************)
EXTENDS Naturals

CONSTANTS
    Addresses,  \* IP addresses
    MaxChanges  \* bound: changes of the domain, and lookups that fail

ASSUME ResolveBounds == MaxChanges \in Nat

VARIABLES
    dns,        \* addresses the domain has now
    changes,    \* changes and failures so far
    alive,      \* "yes", "closing" while the destructor joins, "no"
    idle,       \* _idle
    thread,     \* "none", "asks", "fills", "sends", "ends" or "over"
    found,      \* ip_list of the thread
    sent,       \* _w_ready was sent and cb_ready did not run yet
    tmp,        \* _tmp
    ip,         \* _ip
    known,      \* the addresses the user was told of
    broken      \* an exception ended the thread

threadVars == <<thread, found, tmp, sent, broken>>
resolveVars == <<dns, changes, alive, idle, ip, known, threadVars>>

ResolveInit ==
    /\ dns \in SUBSET Addresses /\ changes = 0 /\ alive = "yes"
    /\ idle = TRUE /\ thread = "none" /\ sent = FALSE /\ broken = FALSE
    /\ found = {} /\ tmp = {} /\ ip = {} /\ known = {}

\* Faulty variant: the timer starts a lookup when the thread has ended.
MayStart_Ended == thread \in {"none", "over"}

\* Faulty variant: once addresses are known, nothing is looked up.
MayStart_Unknown == idle /\ thread \in {"none", "over"} /\ ip = {}

\* No lookup is under way; join() has only to wait for the end of the thread.
MayStart == idle /\ thread \in {"none", "over"}

CbTimer ==
    /\ alive = "yes" /\ MayStart
    /\ idle' = FALSE /\ thread' = "asks"
    /\ UNCHANGED <<dns, changes, alive, ip, known, found, tmp, sent, broken>>

\* resolve_domain: the addresses, or an empty list when it fails.
Ask(answer) ==
    /\ thread = "asks" /\ thread' = "fills" /\ found' = answer
    /\ \/ answer = dns /\ UNCHANGED changes
       \/ answer = {} /\ changes < MaxChanges /\ changes' = changes + 1
    /\ UNCHANGED <<dns, alive, idle, ip, known, tmp, sent, broken>>

Fill ==
    /\ thread = "fills" /\ thread' = "sends" /\ tmp' = found
    /\ UNCHANGED <<dns, changes, alive, idle, ip, known, found, sent, broken>>

Notify ==
    /\ thread = "sends" /\ thread' = "ends" /\ sent' = TRUE
    /\ UNCHANGED <<dns, changes, alive, idle, ip, known, found, tmp, broken>>

ThreadEnds ==
    /\ thread = "ends" /\ thread' = "over"
    /\ UNCHANGED <<dns, changes, alive, idle, ip, known, found, tmp, sent, broken>>

\* The lambda catches an exception and does not send.
ThreadThrows ==
    /\ thread \in {"asks", "fills"} /\ thread' = "over" /\ broken' = TRUE
    /\ UNCHANGED <<dns, changes, alive, idle, ip, known, found, tmp, sent>>

CbReady ==
    /\ alive = "yes" /\ sent /\ sent' = FALSE
    /\ known' = (known \cup (tmp \ ip)) \ (ip \ tmp)
    /\ ip' = tmp /\ tmp' = ip
    /\ idle' = TRUE
    /\ UNCHANGED <<dns, changes, alive, thread, found, broken>>

\* The destructor joins the thread, then the watchers go.
Destroy ==
    /\ alive = "yes" /\ alive' = "closing"
    /\ UNCHANGED <<dns, changes, idle, ip, known, threadVars>>

Destroyed ==
    /\ alive = "closing" /\ thread \in {"none", "over"} /\ alive' = "no"
    /\ UNCHANGED <<dns, changes, idle, ip, known, threadVars>>

\* Somebody changes the records of the domain.
Change ==
    /\ changes < MaxChanges /\ changes' = changes + 1
    /\ dns' \in SUBSET Addresses \ {dns}
    /\ UNCHANGED <<alive, idle, ip, known, threadVars>>

ThreadWorks == (\E a \in {dns, {}} : Ask(a)) \/ Fill \/ Notify \/ ThreadEnds
ResolveThread == ThreadWorks \/ ThreadThrows
ResolveLoop == CbTimer \/ CbReady

-----------------------------------------------------------------------------
(* Properties                                                              *)

\* The thread writes _tmp only while neither the timer nor cb_ready, on the
\* other side, can read it or start a second thread, and never after the
\* destructor; the user knows exactly the addresses _ip holds.
HandedOver ==
    /\ thread \in {"asks", "fills", "sends"} => ~idle /\ ~sent /\ alive # "no"
    /\ alive = "yes" => known = ip

\* When the domain changes no more, the user comes to know its addresses,
\* unless the object goes or an exception ended its thread.
AddressesFollow == <>[](known = dns \/ alive # "yes" \/ broken)

=============================================================================
