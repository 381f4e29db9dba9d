------------------------------ MODULE Watchers -------------------------------
(***************************************************************************)
(* The small objects around one watcher of libev: TimerOnce, TimerRepeat,  *)
(* TimerNowAndRepeat, Prepare, Touch and Sig.  Each calls its callback,    *)
(* in which the user may call the object again.                            *)
(***************************************************************************)
EXTENDS Naturals

CONSTANTS
    KindOf,     \* per object: "once", "repeat", "prepare", "touch" or "sig"
    MaxCalls    \* bound: calls of the user

ASSUME WatcherKinds ==
    /\ MaxCalls \in Nat
    /\ \A w \in DOMAIN KindOf : KindOf[w] \in {"once", "repeat", "prepare", "touch", "sig"}

Objects == DOMAIN KindOf
Timers == {w \in Objects : KindOf[w] \in {"once", "repeat"}}
Nobody == "nobody"

VARIABLES
    calls,      \* calls of the user so far
    active,     \* the watcher is active
    pending,    \* an event is pending: fed, sent or signalled
    period,     \* _t of a timer is not 0ms
    once,       \* _once of Prepare
    running,    \* the object whose callback runs
    owed,       \* a callback was asked for and not begun
    lost        \* the user started a TimerOnce or Prepare inside its own callback

watcherVars == <<calls, active, pending, period, once, running, owed, lost>>

WatchersInit ==
    /\ calls = 0 /\ running = Nobody
    /\ period \in [Objects -> BOOLEAN]
    /\ active = [w \in Objects |-> (w \in Timers /\ period[w]) \/ KindOf[w] \in {"touch", "sig"}]
    /\ owed = [w \in Objects |-> w \in Timers /\ period[w]]
    /\ pending = [w \in Objects |-> FALSE]
    /\ once = [w \in Objects |-> FALSE]
    /\ lost = [w \in Objects |-> FALSE]

\* The user calls from outside or from inside any callback.
User == calls < MaxCalls /\ calls' = calls + 1

\* A call inside the callback of an object that stops it afterwards.
Inside(w) == running = w /\ (KindOf[w] = "once" \/ (KindOf[w] = "prepare" /\ once[w]))

\* TimerDetail::_start
StartTimer(w, set) ==
    /\ User /\ w \in Timers
    /\ period' = [period EXCEPT ![w] = @ \/ set]
    /\ active' = [active EXCEPT ![w] = @ \/ period'[w]]
    /\ owed' = [owed EXCEPT ![w] = @ \/ (period'[w] /\ ~active[w])]
    /\ lost' = [lost EXCEPT ![w] = (@ /\ active[w]) \/ (Inside(w) /\ period'[w])]
    /\ UNCHANGED <<pending, once, running>>

StopTimer(w) ==
    /\ User /\ w \in Timers
    /\ active' = [active EXCEPT ![w] = FALSE]
    /\ owed' = [owed EXCEPT ![w] = FALSE]
    /\ UNCHANGED <<pending, period, once, running, lost>>

\* Prepare::start and start_once: nothing happens when the watcher is active.
StartPrepare(w, single) ==
    /\ User /\ KindOf[w] = "prepare"
    /\ IF active[w] THEN UNCHANGED <<active, pending, once>>
       ELSE /\ active' = [active EXCEPT ![w] = TRUE]
            /\ pending' = [pending EXCEPT ![w] = TRUE]
            /\ once' = [once EXCEPT ![w] = single]
    /\ owed' = [owed EXCEPT ![w] = TRUE]
    /\ lost' = [lost EXCEPT ![w] = Inside(w)]
    /\ UNCHANGED <<period, running>>

\* Touch::touch, from any thread, and a signal: sends that wait are one.
Touch(w) ==
    /\ User /\ KindOf[w] \in {"touch", "sig"} /\ active[w]
    /\ pending' = [pending EXCEPT ![w] = TRUE]
    /\ owed' = [owed EXCEPT ![w] = TRUE]
    /\ UNCHANGED <<active, period, once, running, lost>>

\* The event loop takes an event.  libev itself stops a timer without repeat.
Due(w) == IF KindOf[w] \in {"touch", "sig"} THEN pending[w] ELSE active[w]

Fire(w) ==
    /\ running = Nobody /\ Due(w) /\ running' = w
    /\ active' = [active EXCEPT ![w] = KindOf[w] # "once"]
    /\ pending' = [pending EXCEPT ![w] = FALSE]
    /\ owed' = [owed EXCEPT ![w] = FALSE]
    /\ UNCHANGED <<calls, period, once, lost>>

\* Faulty variant: a repeated timer is stopped as well.
Stops_Timers(w) == KindOf[w] \in {"once", "repeat"} \/ (KindOf[w] = "prepare" /\ once[w])

\* cb_timer and cb_prepare after the callback.
Stops(w) == KindOf[w] = "once" \/ (KindOf[w] = "prepare" /\ once[w])

Return(w) ==
    /\ running = w /\ running' = Nobody
    /\ active' = [active EXCEPT ![w] = @ /\ ~Stops(w)]
    /\ pending' = [pending EXCEPT ![w] = @ /\ ~Stops(w)]
    /\ owed' = [owed EXCEPT ![w] = @ \/ (KindOf[w] = "repeat" /\ active[w])]
    /\ UNCHANGED <<calls, period, once, lost>>

WatcherLoop == \E w \in Objects : Fire(w) \/ Return(w)
WatcherUser == \E w \in Objects :
    \/ \E b \in BOOLEAN : StartTimer(w, b) \/ StartPrepare(w, b)
    \/ StopTimer(w) \/ Touch(w)

-----------------------------------------------------------------------------
(* Properties                                                              *)

\* Whatever is started, touched or signalled, from outside or from inside a
\* callback, leads to a callback or is stopped: unless a watcher that stops
\* itself was started again in its own callback.
CallbackFollows == \A w \in Objects : owed[w] ~> (~owed[w] \/ lost[w])

=============================================================================
