------------------------------ MODULE Sockets --------------------------------
(***************************************************************************)
(* The descriptors of the process.  A Server with its loop in one thread   *)
(* and the connections of a client in another take them from one table,    *)
(* in which the number of a closed socket is given out again at once.      *)
(***************************************************************************)
EXTENDS Integers, Sequences, FiniteSets

CONSTANTS
    MaxFd,          \* limit: descriptors 0..MaxFd-1
    ServerConns,    \* server::Connection objects
    ClientConns,    \* client::Connection objects
    MaxSockets      \* bound: sockets created or accepted

ASSUME SocketBounds == MaxFd \in Nat /\ MaxSockets \in Nat

Fds == 0..(MaxFd - 1)
NoFd == -1
Threads == {"server", "client"}

\* What create_socket and connect do to a socket, in their order.
ServerSteps == <<"non_blocking", "reuse", "recv_buf", "send_buf", "bind", "listen">>
ClientSteps == <<"no_delay", "non_blocking", "keep_alive", "recv_buf", "send_buf">>

StepsOf(thread) == IF thread = "server" THEN ServerSteps ELSE ClientSteps

VARIABLES
    sockets,    \* sockets created or accepted so far
    open,       \* descriptors that are open
    flags,      \* what was done to each
    server,     \* the Server exists
    listeners,  \* descriptors of _w_accept
    sfd,        \* Connection::_fd of each server connection
    cfd,        \* _w_read.fd of each client connection
    status,     \* Connection::_status of each client connection
    setup       \* per thread the descriptor it works on: [fd, step, conn]

socketVars == <<sockets, open, flags, server, listeners, sfd, cfd, status, setup>>
kernelVars == <<sockets, open, flags>>

Idle == [fd |-> NoFd, step |-> 0, conn |-> "none"]

SocketsInit ==
    /\ sockets = 0 /\ open = {} /\ flags = [f \in Fds |-> {}]
    /\ server = TRUE /\ listeners = <<>>
    /\ sfd = [c \in ServerConns |-> NoFd]
    /\ cfd = [c \in ClientConns |-> NoFd]
    /\ status = [c \in ClientConns |-> "Closed"]
    /\ setup = [t \in Threads |-> Idle]

-----------------------------------------------------------------------------
(* The kernel                                                              *)

\* socket and accept4 take the lowest free number.
Opens(f, initial) ==
    /\ sockets < MaxSockets /\ sockets' = sockets + 1
    /\ f \in Fds \ open /\ \A g \in Fds \ open : f <= g
    /\ open' = open \cup {f} /\ flags' = [flags EXCEPT ![f] = initial]

\* close of a number that is not open, such as -1, is an error without effect.
Closes(fs) ==
    /\ open' = open \ fs
    /\ flags' = [f \in Fds |-> IF f \in fs THEN {} ELSE flags[f]]
    /\ UNCHANGED sockets

-----------------------------------------------------------------------------
(* Server and client set a socket up                                       *)

Create(thread, conn) ==
    /\ setup[thread] = Idle
    /\ \E f \in Fds :
        /\ Opens(f, {})
        /\ setup' = [setup EXCEPT ![thread] = [fd |-> f, step |-> 1, conn |-> conn]]
    /\ UNCHANGED <<server, listeners, sfd, cfd, status>>

\* Server::bind
Bind == server /\ Create("server", "none")

\* Connection::connect, which returns at once when the connection is open.
Connect(c) == status[c] = "Closed" /\ Create("client", c)

Doing(thread) == setup[thread].step \in 1..Len(StepsOf(thread))

\* A setsockopt, ioctl, bind or listen that succeeds.
StepDone(thread) ==
    LET s == setup[thread] IN
    /\ Doing(thread)
    /\ flags' = [flags EXCEPT ![s.fd] = @ \cup {StepsOf(thread)[s.step]}]
    /\ setup' = [setup EXCEPT ![thread].step = @ + 1]
    /\ UNCHANGED <<sockets, open, server, listeners, sfd, cfd, status>>

\* Faulty variant: a socket that cannot be bound is forgotten.
ClosedOnError_NotBound(thread) ==
    IF Doing(thread) /\ StepsOf(thread)[setup[thread].step] = "bind" THEN {} ELSE {setup[thread].fd}

\* The descriptor every error path closes.
ClosedOnError(thread) == {setup[thread].fd}

\* One that fails, connect with an error, or no memory for the watcher.
StepFails(thread) ==
    /\ setup[thread].step > 0
    /\ Closes(ClosedOnError(thread))
    /\ setup' = [setup EXCEPT ![thread] = Idle]
    /\ UNCHANGED <<server, listeners, sfd, cfd, status>>

Prepared(thread) == setup[thread].step = Len(StepsOf(thread)) + 1

\* The end of Server::bind: the watcher of the listening socket.
Listening ==
    /\ Prepared("server")
    /\ listeners' = Append(listeners, setup["server"].fd)
    /\ setup' = [setup EXCEPT !["server"] = Idle]
    /\ UNCHANGED <<kernelVars, server, sfd, cfd, status>>

\* The end of Connection::connect: the address answers at once or later.
Connected(s) ==
    LET c == setup["client"].conn IN
    /\ Prepared("client")
    /\ s \in {"Ready", "Connecting"} /\ status' = [status EXCEPT ![c] = s]
    /\ cfd' = [cfd EXCEPT ![c] = setup["client"].fd]
    /\ setup' = [setup EXCEPT !["client"] = Idle]
    /\ UNCHANGED <<kernelVars, server, listeners, sfd>>

-----------------------------------------------------------------------------
(* Connections                                                             *)

Accepted == Len(ServerSteps) + 2

\* cb_accept: accept4, then a connection of the pool, or close when there is
\* none (StepFails).
AcceptFd ==
    /\ server /\ listeners # <<>> /\ setup["server"] = Idle
    /\ \E f \in Fds :
        /\ Opens(f, {"non_blocking"})
        /\ setup' = [setup EXCEPT !["server"] = [fd |-> f, step |-> Accepted, conn |-> "none"]]
    /\ UNCHANGED <<server, listeners, sfd, cfd, status>>

\* Connection::set; without memory for its buffer it closes at once.
SetConn(c) ==
    /\ setup["server"].step = Accepted /\ sfd[c] = NoFd
    /\ sfd' = [sfd EXCEPT ![c] = setup["server"].fd]
    /\ setup' = [setup EXCEPT !["server"] = Idle]
    /\ UNCHANGED <<kernelVars, server, listeners, cfd, status>>

\* server::Connection::close, from a callback that found it open.
CloseServerConn(c) ==
    /\ sfd[c] # NoFd /\ setup["server"] = Idle
    /\ Closes({sfd[c]})
    /\ sfd' = [sfd EXCEPT ![c] = NoFd]
    /\ UNCHANGED <<server, listeners, cfd, status, setup>>

\* Server::~Server: the listening sockets, then every connection of the pool.
DestroyServer ==
    /\ server /\ setup["server"] = Idle /\ server' = FALSE
    /\ Closes({listeners[i] : i \in DOMAIN listeners} \cup {sfd[c] : c \in ServerConns})
    /\ listeners' = <<>> /\ sfd' = [c \in ServerConns |-> NoFd]
    /\ UNCHANGED <<cfd, status, setup>>

\* Faulty variant: close works on a connection that is closed.
MayClose_Always(c) == TRUE

MayClose(c) == status[c] \in {"Ready", "Connecting"}

\* client::Connection::close: an error, a timeout, the end of the stream or the
\* destructor.  The watcher keeps the number.
CloseClientConn(c) ==
    /\ MayClose(c) /\ setup["client"] = Idle
    /\ Closes({cfd[c]})
    /\ status' = [status EXCEPT ![c] = "Closed"]
    /\ UNCHANGED <<server, listeners, sfd, cfd, setup>>

\* The handshake ends.
Handshake(c) ==
    /\ status[c] = "Connecting" /\ setup["client"] = Idle
    /\ status' = [status EXCEPT ![c] = "Ready"]
    /\ UNCHANGED <<kernelVars, server, listeners, sfd, cfd, setup>>

SocketsNext ==
    \/ Bind \/ Listening \/ AcceptFd \/ DestroyServer
    \/ \E t \in Threads : StepDone(t) \/ StepFails(t)
    \/ \E s \in {"Ready", "Connecting"} : Connected(s)
    \/ \E c \in ServerConns : SetConn(c) \/ CloseServerConn(c)
    \/ \E c \in ClientConns : Connect(c) \/ CloseClientConn(c) \/ Handshake(c)

-----------------------------------------------------------------------------
(* Properties                                                              *)

Watched ==
    {<<"listener", i, listeners[i]>> : i \in DOMAIN listeners}
        \cup {<<"server", c, sfd[c]>> : c \in {c \in ServerConns : sfd[c] # NoFd}}
        \cup {<<"client", c, cfd[c]>> : c \in {c \in ClientConns : status[c] # "Closed"}}

InSetup == {<<"setup", t, setup[t].fd>> : t \in {t \in Threads : setup[t] # Idle}}

\* Every open descriptor has exactly one owner, and every owner's descriptor is
\* open: none is leaked, closed twice or closed for somebody else.  The loops
\* watch only descriptors that do not block.
Owned ==
    /\ \A f \in Fds : Cardinality({o \in Watched \cup InSetup : o[3] = f}) = (IF f \in open THEN 1 ELSE 0)
    /\ \A o \in Watched : "non_blocking" \in flags[o[3]]
    /\ \A i \in DOMAIN listeners : {"bind", "listen"} \subseteq flags[listeners[i]]

=============================================================================
