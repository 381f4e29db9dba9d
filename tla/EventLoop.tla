------------------------------ MODULE EventLoop ------------------------------
(***************************************************************************)
(* One event loop with either a Resolve and its thread or the small        *)
(* watcher objects, which share nothing but the loop.                      *)
(***************************************************************************)
EXTENDS Resolve, Watchers

vars == <<resolveVars, watcherVars>>

NoResolve ==
    /\ dns = {} /\ changes = MaxChanges /\ alive = "no"
    /\ idle = TRUE /\ thread = "none" /\ sent = FALSE /\ broken = FALSE
    /\ found = {} /\ tmp = {} /\ ip = {} /\ known = {}

NoWatchers ==
    /\ calls = MaxCalls /\ running = Nobody
    /\ active = [w \in Objects |-> FALSE] /\ pending = active /\ period = active
    /\ once = active /\ owed = active /\ lost = active

Init == (ResolveInit /\ NoWatchers) \/ (WatchersInit /\ NoResolve)

Next ==
    \/ (ResolveLoop \/ ResolveThread \/ Destroy \/ Destroyed \/ Change) /\ UNCHANGED watcherVars
    \/ (WatcherLoop \/ WatcherUser) /\ UNCHANGED resolveVars

\* The thread is scheduled, the timer of Resolve comes round again, and the
\* loop takes every event that waits before it waits again.
Fairness ==
    /\ WF_vars(ResolveLoop /\ UNCHANGED watcherVars)
    /\ WF_vars(Destroyed /\ UNCHANGED watcherVars)
    /\ WF_vars(ThreadWorks /\ UNCHANGED watcherVars)
    /\ \A w \in Objects :
        /\ SF_vars(Fire(w) /\ UNCHANGED resolveVars)
        /\ WF_vars(Return(w) /\ UNCHANGED resolveVars)

Spec == Init /\ [][Next]_vars /\ Fairness

=============================================================================
