------------------------------ MODULE Resources ------------------------------
(***************************************************************************)
(* What the process hands out and takes back: either its descriptors or    *)
(* the objects of the caches of a thread, which share nothing.             *)
(***************************************************************************)
EXTENDS Sockets, Caches

vars == <<socketVars, cacheVars>>

NoSockets ==
    /\ sockets = MaxSockets /\ open = {} /\ flags = [f \in Fds |-> {}]
    /\ server = FALSE /\ listeners = <<>>
    /\ sfd = [c \in ServerConns |-> NoFd]
    /\ cfd = [c \in ClientConns |-> NoFd]
    /\ status = [c \in ClientConns |-> "Closed"]
    /\ setup = [t \in Threads |-> Idle]

NoCaches ==
    /\ ops = MaxOps /\ doubles = FALSE /\ limit = 0 /\ classes = TRUE
    /\ born = {} /\ dirty = {} /\ held = {}
    /\ cap = [o \in Objects |-> 0] /\ most = cap
    /\ lists = [l \in Lists |-> <<>>]

Init == (SocketsInit /\ NoCaches) \/ (CachesInit /\ NoSockets)

Next ==
    \/ SocketsNext /\ UNCHANGED cacheVars
    \/ CachesNext /\ UNCHANGED socketVars

Spec == Init /\ [][Next]_vars

=============================================================================
