----------------------------- MODULE MCEventLoop -----------------------------
EXTENDS EventLoop

\* One object of each kind.
EachKind == [o |-> "once", r |-> "repeat", p |-> "prepare", t |-> "touch"]
=============================================================================
