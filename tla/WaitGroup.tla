------------------------------- MODULE WaitGroup -------------------------------
(***************************************************************************)
(* sniper::event::Wait: the application adds groups of outstanding tasks;  *)
(* when the tasks of a group have called done(), or its timer fired, the   *)
(* pool queues the group and calls the user's callback with it from a      *)
(* prepare watcher.  Groups are reference counted and come from a cache;   *)
(* the last reference that goes clears the object for its next user.       *)
(*                                                                         *)
(* The application acts between loop callbacks and, while cb_done is on    *)
(* the stack (inCb), from inside its callback.                             *)
(***************************************************************************)
EXTENDS Integers, Sequences, FiniteSets

CONSTANTS
    Groups,     \* addresses of Group objects
    MaxCount,   \* bound: tasks of a group
    MaxAdds,    \* bound: accepted adds of one Group object
    EarlyDone   \* tasks may call done() before their group is added

ASSUME WaitBounds ==
    MaxCount \in Nat \ {0} /\ MaxAdds \in Nat /\ EarlyDone \in BOOLEAN

\* Group::_timeout: 0ms, negative (no timer is started) or positive.
Kinds == {"zero", "never", "timed"}

VARIABLES
    up,         \* the Wait object exists
    hasCb,      \* Pool::_cb is set
    count,      \* Group::_count
    timeout,    \* Group::_timeout
    timedOut,   \* groups with _is_timeout
    attached,   \* groups with _pool set
    timer,      \* groups whose timer is active
    held,       \* groups the application has a reference to
    groups,     \* Pool::_groups
    doneQ,      \* Pool::_done
    wDone,      \* Pool::_w_done is active
    inCb,       \* cb_done is on the stack
    tmp,        \* what is left of cb_done's local vector
    pending,    \* tasks that have not called done() yet
    adds,       \* history: adds the pool accepted
    calls,      \* history: callbacks
    lost,       \* history: groups discarded without a callback
    again       \* history: queued groups that were passed to add() meanwhile

groupVars == <<count, timeout, timedOut, attached, timer, pending>>
queueVars == <<groups, doneQ, wDone>>
cbVars    == <<inCb, tmp>>
history   == <<adds, calls, lost>>
vars == <<up, hasCb, groupVars, held, queueVars, cbVars, history, again>>

Listed(s) == {s[i] : i \in DOMAIN s}

\* Groups with a reference left.
Alive(h, gs, d, t) == h \cup gs \cup Listed(d) \cup Listed(t)
InUse == Alive(held, groups, doneQ, tmp)

\* Groups that are queued or next in cb_done's vector.
Queued == Listed(doneQ) \cup Listed(tmp)

TypeOK ==
    /\ up \in BOOLEAN /\ hasCb \in BOOLEAN
    /\ count \in [Groups -> Nat]
    /\ timeout \in [Groups -> Kinds]
    /\ timedOut \subseteq Groups
    /\ attached \subseteq Groups
    /\ timer \subseteq Groups
    /\ held \subseteq Groups
    /\ groups \subseteq Groups
    /\ doneQ \in Seq(Groups)
    /\ wDone \in BOOLEAN
    /\ inCb \in BOOLEAN
    /\ tmp \in Seq(Groups)
    /\ pending \in [Groups -> Nat]
    /\ adds \in [Groups -> Nat]
    /\ calls \in [Groups -> Nat]
    /\ lost \in [Groups -> Nat]
    /\ again \subseteq Groups

Zero == [g \in Groups |-> 0]

Init ==
    /\ up = TRUE /\ hasCb = FALSE
    /\ count = Zero /\ pending = Zero
    /\ timeout = [g \in Groups |-> "zero"]
    /\ timedOut = {} /\ attached = {} /\ timer = {}
    /\ held = {} /\ groups = {}
    /\ doneQ = <<>> /\ wDone = FALSE
    /\ inCb = FALSE /\ tmp = <<>>
    /\ adds = Zero /\ calls = Zero /\ lost = Zero /\ again = {}

-----------------------------------------------------------------------------
(* What Group::clear() leaves of its members; the timer is not stopped.    *)

Without(f, S, v) == [g \in Groups |-> IF g \in S THEN v ELSE f[g]]

\* Faulty variant: _timeout is kept.
ClearFields_KeepsTimeout(S) ==
    /\ count' = Without(count, S, 0)
    /\ timedOut' = timedOut \ S
    /\ UNCHANGED timeout

ClearFields(S) ==
    /\ count' = Without(count, S, 0)
    /\ timeout' = Without(timeout, S, "zero")
    /\ timedOut' = timedOut \ S

\* The group has n tasks by its count, and k in truth.
MakeWith(g, n, k, t) ==
    /\ count' = [count EXCEPT ![g] = n]
    /\ pending' = [pending EXCEPT ![g] = k]
    /\ timeout' = [timeout EXCEPT ![g] = t]

\* make_group: an object of the cache, or a new one; each overload sets a
\* part of the members and relies on clear() for the others.
Make(g) ==
    /\ g \notin InUse
    /\ held' = held \cup {g}
    /\ \E n \in 1..MaxCount, t \in Kinds :
        \/ MakeWith(g, n, n, t)
        \/ MakeWith(g, n, n, timeout[g])
        \/ MakeWith(g, count[g], 0, t)
    /\ UNCHANGED <<up, hasCb, timedOut, attached, timer, queueVars, cbVars, history, again>>

\* Group::inc.
Inc(g) ==
    /\ g \in held /\ count[g] < MaxCount /\ pending[g] < MaxCount
    /\ count' = [count EXCEPT ![g] = @ + 1]
    /\ pending' = [pending EXCEPT ![g] = @ + 1]
    /\ UNCHANGED <<up, hasCb, timeout, timedOut, attached, timer, held, queueVars,
                   cbVars, history, again>>

\* References go: the last one of a group clears the object; the groups in D
\* are detached from the pool.
Freed(h, gs, d, t) == InUse \ Alive(h, gs, d, t)

LetGo(h, gs, d, t, D) ==
    LET S == Freed(h, gs, d, t)
    IN  /\ ClearFields(S)
        /\ attached' = attached \ (D \cup S)
        /\ pending' = Without(pending, S, 0)

\* The application lets go of its references to a group.
Drop(g) ==
    /\ g \in held
    /\ held' = held \ {g}
    /\ LetGo(held', groups, doneQ, tmp, {})
    /\ UNCHANGED <<up, hasCb, timer, queueVars, cbVars, history, again>>

-----------------------------------------------------------------------------
(* Wait::add and Pool::add                                                 *)

StartTimer(g) ==
    timer' = IF timeout[g] = "timed" THEN timer \cup {g} ELSE timer

Accepts(g) == timeout[g] # "zero" /\ count[g] > 0

\* add() of a group that is still on its way to the callback.
Again(g) == again' = again \cup ({g} \cap Queued)

AddRefused(g) ==
    /\ up /\ g \in held /\ ~Accepts(g)
    /\ ClearFields({g})
    /\ attached' = attached \ {g}
    /\ Again(g)
    /\ UNCHANGED <<up, hasCb, timer, pending, held, queueVars, cbVars, history>>

\* A group that already waits keeps its one entry.
Add(g) ==
    /\ up /\ g \in held /\ Accepts(g)
    /\ g \notin groups => adds[g] < MaxAdds
    /\ attached' = attached \cup {g}
    /\ StartTimer(g)
    /\ groups' = groups \cup {g}
    /\ adds' = IF g \in groups THEN adds ELSE [adds EXCEPT ![g] = @ + 1]
    /\ Again(g)
    /\ UNCHANGED <<up, hasCb, count, timeout, timedOut, pending, held, doneQ, wDone,
                   cbVars, calls, lost>>

-----------------------------------------------------------------------------
(* The end of a wait                                                       *)

\* Faulty variant: no wake-up from inside the callback.
Queue_NoWakeInCb(g) ==
    /\ groups' = groups \ {g}
    /\ doneQ' = IF g \in groups THEN Append(doneQ, g) ELSE doneQ
    /\ wDone' = (wDone \/ (g \in groups /\ ~inCb))

\* Pool::done, and the same lines in cb_timeout.
Queue(g) ==
    /\ groups' = groups \ {g}
    /\ doneQ' = IF g \in groups THEN Append(doneQ, g) ELSE doneQ
    /\ wDone' = (wDone \/ g \in groups)

Counts(g) == g \in attached /\ g \notin timedOut /\ count[g] > 0

StopTimer(g) == timer' = timer \ {g}

\* Group::done, called once by each task.
Done(g) ==
    /\ g \in held /\ pending[g] > 0
    /\ EarlyDone \/ g \in attached
    /\ pending' = [pending EXCEPT ![g] = @ - 1]
    /\ IF Counts(g) THEN count' = [count EXCEPT ![g] = @ - 1] ELSE UNCHANGED count
    /\ IF Counts(g) /\ count[g] = 1
       THEN StopTimer(g) /\ Queue(g)
       ELSE UNCHANGED <<timer, queueVars>>
    /\ UNCHANGED <<up, hasCb, timeout, timedOut, attached, held, cbVars, history, again>>

\* Pool::cb_timeout.
CbTimeout(g) ==
    /\ ~inCb /\ g \in timer
    /\ timer' = timer \ {g}
    /\ timedOut' = timedOut \cup {g}
    /\ Queue(g)
    /\ UNCHANGED <<up, hasCb, count, timeout, attached, held, cbVars, pending, history,
                   again>>

-----------------------------------------------------------------------------
(* Pool::cb_done                                                           *)

\* Entries of g in a queue.
Entries(g, s) == Cardinality({i \in DOMAIN s : s[i] = g})
Entry(g, S) == IF g \in S THEN 1 ELSE 0

\* again, when groups left the queue.
StillAgain == again' = again \cap Queued'

\* Without a callback the queue is thrown away.
CbDoneNoCallback ==
    /\ ~inCb /\ wDone /\ ~hasCb
    /\ wDone' = FALSE
    /\ doneQ' = <<>>
    /\ LetGo(held, groups, doneQ', tmp, {})
    /\ lost' = [g \in Groups |-> lost[g] + Entries(g, doneQ)]
    /\ UNCHANGED <<up, hasCb, timer, held, groups, cbVars, adds, calls>>
    /\ StillAgain

\* Faulty variant: the queue is copied, not swapped.
Take_Copy == tmp' = doneQ /\ UNCHANGED doneQ

Take == tmp' = doneQ /\ doneQ' = <<>>

CbDoneBegin ==
    /\ ~inCb /\ wDone /\ hasCb
    /\ wDone' = FALSE
    /\ inCb' = TRUE
    /\ Take
    /\ UNCHANGED <<up, hasCb, groupVars, held, groups, history, again>>

\* The next group of tmp is passed to the callback, which may keep it.  In a
\* pool that is gone (PoolGone) _cb is read from freed memory: the call is still
\* made, or the program ends, for Fairness does not ask for the step.
CbDoneCall ==
    /\ inCb /\ tmp # <<>>
    /\ tmp' = Tail(tmp)
    /\ held' = held \cup {Head(tmp)}
    /\ calls' = [calls EXCEPT ![Head(tmp)] = @ + 1]
    /\ UNCHANGED <<up, hasCb, groupVars, queueVars, inCb, adds, lost>>
    /\ StillAgain

CbDoneEnd ==
    /\ inCb /\ tmp = <<>>
    /\ inCb' = FALSE
    /\ UNCHANGED <<up, hasCb, groupVars, held, queueVars, tmp, history, again>>

-----------------------------------------------------------------------------
(* The Wait object                                                         *)

SetCb ==
    /\ up /\ ~hasCb /\ hasCb' = TRUE
    /\ UNCHANGED <<up, groupVars, held, queueVars, cbVars, history, again>>

\* The Pool object lives as long as the Wait or a group refers to it.
PoolGone == ~up /\ attached = {}

\* _w_done.stop(), and the stop() in Group::detach of every waiting group.
CloseStops == wDone' = FALSE /\ timer' = timer \ groups

\* Faulty variant: finished groups are detached as well.
Detached_All == InUse

\* The groups close() detaches.
Detached == groups

\* Wait::~Wait and Pool::close, also from inside the callback.
Close ==
    /\ up /\ up' = FALSE
    /\ groups' = {} /\ doneQ' = <<>>
    /\ CloseStops
    /\ LetGo(held, {}, <<>>, tmp, Detached)
    /\ lost' = [g \in Groups |->
                    lost[g] + Entries(g, doneQ) + Entry(g, groups)]
    /\ UNCHANGED <<hasCb, held, cbVars, adds, calls>>
    /\ StillAgain

-----------------------------------------------------------------------------
User(g) == Make(g) \/ Inc(g) \/ Drop(g) \/ AddRefused(g) \/ Add(g) \/ Done(g)

CbDone == CbDoneNoCallback \/ CbDoneBegin \/ CbDoneCall \/ CbDoneEnd

Next == \/ \E g \in Groups : User(g) \/ CbTimeout(g)
        \/ CbDone \/ SetCb \/ Close

Spec == Init /\ [][Next]_vars

\* The loop runs: expired timers fire, a prepare watcher that was fed is
\* called in the same iteration, and callbacks return, unless the pool is gone.
Fairness == WF_vars(~PoolGone /\ CbDone) /\ \A g \in Groups : WF_vars(CbTimeout(g))

FairSpec == Spec /\ Fairness

-----------------------------------------------------------------------------
(* Properties                                                              *)

\* Every accepted add is accounted for exactly once: the group waits, is
\* queued, is next in cb_done's vector, was passed to the callback, or was
\* discarded by a pool without a callback or by close().
Conserved ==
    \A g \in Groups :
        adds[g] = calls[g] + lost[g] + Entry(g, groups)
                  + Entries(g, doneQ) + Entries(g, tmp)

\* No lost wake-up: the prepare watcher is active exactly when a finished
\* group is queued, whoever queued it and whether or not cb_done was running.
WakeUp == wDone <=> doneQ # <<>>

\* A timer runs exactly for the groups that wait with a positive timeout, so
\* none fires for a group that is finished, closed or back in the cache.
TimerArmed == timer = {g \in groups : timeout[g] = "timed"}

\* The cache holds clean objects: what make_group does not set is initial.
CleanFree ==
    \A g \in Groups \ InUse :
        /\ count[g] = 0 /\ timeout[g] = "zero"
        /\ g \notin timedOut \cup attached \cup timer

\* A waiting group is attached and has something to wait for: it is counted
\* down to zero only on its way into _done.
Outstanding ==
    \A g \in groups : g \in attached /\ count[g] > 0 /\ timeout[g] # "zero"

\* Until its timer fires, the count of a group that can be waited for is the
\* number of its tasks that have not called done(), however often the object
\* was cleared, recycled, added and delivered.
CountsTasks ==
    EarlyDone \/ \A g \in Groups : timeout[g] # "zero" /\ g \notin timedOut
                                       => count[g] = pending[g]

\* is_timeout() is true only of a group whose count did not reach zero.
Verdict == \A g \in timedOut : count[g] > 0

\* The pool outlives cb_done though its callback may destroy the Wait: the
\* groups it has still to call back hold on to it.  It is lost only when each of
\* them was passed to add() again while it was queued, which clears it or lets
\* close() detach it (Pool.cpp:43, :53).
PoolAlive == PoolGone => Listed(tmp) \subseteq again

\* Between calls of cb_done nothing is left over; a destroyed Wait has no
\* groups; and what is queued refers to the pool and waits for nothing, unless
\* it was added again.
Staged ==
    /\ ~inCb => tmp = <<>>
    /\ ~up => groups = {} /\ doneQ = <<>>
    /\ \A g \in Queued \ again : g \in attached /\ g \notin groups

\* The inductive invariant.
Inductive ==
    /\ TypeOK /\ WakeUp /\ TimerArmed /\ CleanFree
    /\ Outstanding /\ CountsTasks /\ Verdict /\ Staged

\* Each accepted group with a timer, and each finished one, is called back
\* (or discarded by close() or for want of a callback), unless its pool is gone.
EveryWaitEnds ==
    \A g \in Groups, n \in 1..MaxAdds :
        (adds[g] = n /\ (g \in timer \/ g \notin groups))
            ~> (calls[g] + lost[g] >= n \/ PoolGone)

=============================================================================
