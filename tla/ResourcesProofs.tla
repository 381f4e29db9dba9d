--------------------------- MODULE ResourcesProofs ---------------------------
(* Theorems about Resources, for every number of descriptors, connections, *)
(* objects and calls, and about EventLoop.                                 *)
EXTENDS Resources, Resolve, SequenceTheorems, FiniteSetTheorems, WellFoundedInduction, TLAPS

\* Faults are variants beside the code; these are the code's.
USE DEF ClosedOnError, MayClose

-----------------------------------------------------------------------------
(* Owners                                                                  *)

\* A descriptor for every owner, each its own, and these are the open ones.
\* An owner is a triple whose last part is the descriptor.
FdsOf(owners) == {o[3] : o \in owners}
Exact(owners, fds) ==
    /\ \A o, p \in owners : o[3] = p[3] => o = p
    /\ FdsOf(owners) = fds

\* Then every open descriptor has one owner, every other has none.
LEMMA OneOwner ==
    ASSUME NEW owners, NEW fds, Exact(owners, fds), NEW f
    PROVE  Cardinality({o \in owners : o[3] = f}) = IF f \in fds THEN 1 ELSE 0
<1> DEFINE of == {o \in owners : o[3] = f}
<1>1. CASE f \in fds
  <2>1. PICK o \in owners : o[3] = f
    BY <1>1 DEF Exact, FdsOf
  <2>2. of = {o}
    BY <2>1 DEF Exact
  <2> QED BY <1>1, <2>2, FS_Singleton
<1>2. CASE f \notin fds
  <2>1. of = {}
    BY <1>2 DEF Exact, FdsOf
  <2> QED BY <1>2, <2>1, FS_EmptySet
<1> QED BY <1>1, <1>2

\* A descriptor that is opened, one that changes hands, and some that are closed.
LEMMA Gained ==
    ASSUME NEW owners, NEW fds, Exact(owners, fds), NEW x, x[3] \notin fds
    PROVE  Exact(owners \cup {x}, fds \cup {x[3]})
  BY DEF Exact, FdsOf

\* From x to y.
LEMMA Passed ==
    ASSUME NEW owners, NEW fds, Exact(owners, fds), NEW x \in owners, NEW y,
           y[3] = x[3]
    PROVE  Exact((owners \ {x}) \cup {y}, fds)
  BY DEF Exact, FdsOf

\* All of lost at once.
LEMMA Dropped ==
    ASSUME NEW owners, NEW fds, Exact(owners, fds), NEW lost \in SUBSET owners
    PROVE  Exact(owners \ lost, fds \ FdsOf(lost))
  BY DEF Exact, FdsOf

-----------------------------------------------------------------------------
(* The table of descriptors                                                *)

Options == {"non_blocking", "reuse", "recv_buf", "send_buf", "bind", "listen",
            "no_delay", "keep_alive"}

SocketTypes ==
    /\ open \in SUBSET Fds /\ flags \in [Fds -> SUBSET Options]
    /\ listeners \in Seq(Fds)
    /\ sfd \in [ServerConns -> Fds \cup {NoFd}]
    /\ cfd \in [ClientConns -> Fds \cup {NoFd}]
    /\ status \in [ClientConns -> {"Closed", "Connecting", "Ready"}]
    /\ setup \in [Threads -> [fd : Fds \cup {NoFd}, step : Nat, conn : ClientConns \cup {"none"}]]

\* A socket that is set up is open, and its connection is not yet.
SetupRuns ==
    /\ \A t \in Threads : setup[t] = Idle \/ (setup[t].fd \in Fds /\ setup[t].step > 0)
    /\ setup["client"] # Idle =>
        setup["client"].conn \in ClientConns /\ status[setup["client"].conn] = "Closed"
    /\ \A t \in Threads : setup[t].step <= Len(StepsOf(t)) + 1 \/ (t = "server" /\ setup[t].step = Accepted)

\* What was done to a socket that is set up.
SetupDone ==
    \A t \in Threads : setup[t] # Idle =>
        /\ setup[t].step <= Len(StepsOf(t)) + 1 =>
            \A i \in 1..Len(StepsOf(t)) : i < setup[t].step => StepsOf(t)[i] \in flags[setup[t].fd]
        /\ setup[t].step = Accepted /\ t = "server" => "non_blocking" \in flags[setup[t].fd]

\* The loops watch only descriptors that do not block, and only listening
\* sockets for connections.
WatchedSafe ==
    /\ \A o \in Watched : "non_blocking" \in flags[o[3]]
    /\ \A i \in DOMAIN listeners : {"bind", "listen"} \subseteq flags[listeners[i]]

Owners == Watched \cup InSetup

SocketInv ==
    /\ SocketTypes /\ SetupRuns /\ SetupDone /\ WatchedSafe
    /\ Exact(Owners, open)

\* -1 is no descriptor.
LEMMA NoFdIsNone == NoFd \notin Fds
  BY SocketBounds DEF NoFd, Fds

\* Who the owners are.
LEMMA OwnersAre ==
    /\ \A i \in DOMAIN listeners : <<"listener", i, listeners[i]>> \in Watched
    /\ \A c \in ServerConns : sfd[c] # NoFd => <<"server", c, sfd[c]>> \in Watched
    /\ \A c \in ClientConns : status[c] # "Closed" => <<"client", c, cfd[c]>> \in Watched
    /\ \A t \in Threads : setup[t] # Idle => <<"setup", t, setup[t].fd>> \in InSetup
    /\ Watched \subseteq Owners /\ InSetup \subseteq Owners
  BY DEF Watched, InSetup, Owners

\* An owner's descriptor is open, and no other owner has it.
LEMMA OwnersOpen ==
    ASSUME SocketInv
    PROVE  /\ \A o \in Owners : o[3] \in open
           /\ \A o, p \in Owners : o[3] = p[3] => o = p
           /\ \A f \in open : \E o \in Owners : o[3] = f
  BY DEF SocketInv, Exact, FdsOf

\* Initially no descriptor is open.
LEMMA SocketsStart == SocketsInit \/ NoSockets => SocketInv
<1> SUFFICES ASSUME SocketsInit \/ NoSockets PROVE SocketInv
  OBVIOUS
<1>1. /\ open = {} /\ flags = [f \in Fds |-> {}] /\ listeners = <<>>
      /\ sfd = [c \in ServerConns |-> NoFd] /\ cfd = [c \in ClientConns |-> NoFd]
      /\ status = [c \in ClientConns |-> "Closed"] /\ setup = [t \in Threads |-> Idle]
  BY DEF SocketsInit, NoSockets
<1>2. SocketTypes
  <2>1. <<>> \in Seq(Fds)
    BY EmptySeq
  <2> QED BY <1>1, <2>1 DEF SocketTypes, Idle
<1>3. SetupRuns /\ SetupDone
  BY <1>1 DEF SetupRuns, SetupDone, Idle, StepsOf, ServerSteps, ClientSteps, Accepted, Threads
<1>4. Watched = {} /\ InSetup = {}
  BY <1>1 DEF Watched, InSetup
<1>5. WatchedSafe
  BY <1>1, <1>4 DEF WatchedSafe
<1>6. Exact(Owners, open)
  BY <1>1, <1>4 DEF Exact, FdsOf, Owners
<1> QED BY <1>2, <1>3, <1>5, <1>6 DEF SocketInv

-----------------------------------------------------------------------------
(* Steps of the sockets                                                    *)

\* A new descriptor, of Server::bind, connect or accept4, that the thread works on.
LEMMA NewSetup ==
    ASSUME SocketInv, NEW t \in Threads, NEW f \in Fds, NEW initial \in SUBSET Options,
           Opens(f, initial), setup[t] = Idle,
           NEW step \in Nat, NEW conn \in ClientConns \cup {"none"},
           setup' = [setup EXCEPT ![t] = [fd |-> f, step |-> step, conn |-> conn]],
           \/ step = 1 /\ (t = "client" => conn \in ClientConns /\ status[conn] = "Closed")
           \/ step = Accepted /\ t = "server" /\ "non_blocking" \in initial,
           UNCHANGED <<server, listeners, sfd, cfd, status>>
    PROVE  SocketInv'
<1>0. /\ SocketTypes /\ SetupRuns /\ SetupDone /\ WatchedSafe /\ Exact(Owners, open)
  BY DEF SocketInv
<1>1. /\ f \notin open /\ open' = open \cup {f} /\ flags' = [flags EXCEPT ![f] = initial]
      /\ setup'[t] = [fd |-> f, step |-> step, conn |-> conn]
      /\ \A u \in Threads \ {t} : setup'[u] = setup[u]
      /\ setup'[t] # Idle /\ step > 0 /\ f # NoFd
  BY <1>0, NoFdIsNone DEF Opens, SocketTypes, Idle, Accepted, ServerSteps
<1>2. Watched' = Watched
  BY DEF Watched
<1>3. Owners' = Owners \cup {<<"setup", t, f>>}
  <2>1. InSetup' = InSetup \cup {<<"setup", t, f>>}
    BY <1>1 DEF InSetup
  <2> QED BY <1>2, <2>1 DEF Owners
<1>4. Exact(Owners, open)'
  <2> DEFINE x == <<"setup", t, f>>
  <2>1. x[3] = f
    OBVIOUS
  <2> HIDE DEF x
  <2>2. Exact(Owners \cup {x}, open \cup {x[3]})
    BY <1>0, <1>1, <2>1, Gained
  <2> QED BY <1>1, <1>3, <2>1, <2>2 DEF x
<1>5. \A g \in open : flags'[g] = flags[g]
  BY <1>0, <1>1 DEF SocketTypes
<1>6. SocketTypes'
  BY <1>0, <1>1 DEF SocketTypes
<1>7. SetupRuns'
  <2>1. /\ setup'[t].fd = f /\ setup'[t].step = step /\ setup'[t].conn = conn
        /\ step <= Len(StepsOf(t)) + 1 \/ (t = "server" /\ step = Accepted)
    BY <1>1 DEF StepsOf, ServerSteps, ClientSteps
  <2> QED BY <1>0, <1>1, <2>1 DEF SetupRuns, Threads
<1>8. SetupDone'
  <2>1. ASSUME NEW u \in Threads, u # t, setup'[u] # Idle
        PROVE  setup[u].fd \in open /\ setup'[u] = setup[u] /\ flags'[setup[u].fd] = flags[setup[u].fd]
    <3>1. setup'[u] = setup[u] /\ <<"setup", u, setup[u].fd>> \in Owners
      BY <1>1, <2>1, OwnersAre
    <3>2. setup[u].fd \in open
      BY <3>1, OwnersOpen
    <3> QED BY <1>5, <3>1, <3>2
  <2>2. /\ setup'[t].fd = f /\ setup'[t].step = step /\ flags'[f] = initial
    BY <1>0, <1>1 DEF SocketTypes
  <2>3. /\ step <= Len(StepsOf(t)) + 1 =>
            \A i \in 1..Len(StepsOf(t)) : i < step => StepsOf(t)[i] \in flags'[f]
        /\ step = Accepted /\ t = "server" => "non_blocking" \in flags'[f]
    BY <2>2 DEF Accepted, StepsOf, ServerSteps, ClientSteps
  <2> QED BY <1>0, <2>1, <2>2, <2>3 DEF SetupDone
<1>9. WatchedSafe'
  <2>1. \A o \in Watched : o[3] \in open
    BY OwnersAre, OwnersOpen
  <2>2. \A i \in DOMAIN listeners : listeners[i] \in open
    BY <2>1, OwnersAre
  <2> QED BY <1>0, <1>2, <1>5, <2>1, <2>2 DEF WatchedSafe
<1> QED BY <1>4, <1>6, <1>7, <1>8, <1>9 DEF SocketInv

\* Server::bind, connect and cb_accept begin.
LEMMA CreateKeeps ==
    ASSUME SocketInv, Bind \/ AcceptFd \/ \E c \in ClientConns : Connect(c)
    PROVE  SocketInv'
<1>0. {"non_blocking"} \in SUBSET Options /\ {} \in SUBSET Options
      /\ "server" \in Threads /\ "client" \in Threads /\ Accepted \in Nat
  BY DEF Options, Threads, Accepted, ServerSteps
<1>1. CASE Bind
  <2>1. PICK f \in Fds :
          /\ Opens(f, {})
          /\ setup' = [setup EXCEPT !["server"] = [fd |-> f, step |-> 1, conn |-> "none"]]
    BY <1>1 DEF Bind, Create
  <2>2. setup["server"] = Idle /\ UNCHANGED <<server, listeners, sfd, cfd, status>>
    BY <1>1 DEF Bind, Create
  <2>3. "server" # "client" /\ 1 \in Nat /\ "none" \in ClientConns \cup {"none"}
    OBVIOUS
  <2> QED BY <1>0, <2>1, <2>2, <2>3, NewSetup
<1>2. CASE AcceptFd
  <2>1. PICK f \in Fds :
          /\ Opens(f, {"non_blocking"})
          /\ setup' = [setup EXCEPT !["server"] = [fd |-> f, step |-> Accepted, conn |-> "none"]]
    BY <1>2 DEF AcceptFd
  <2>2. setup["server"] = Idle /\ UNCHANGED <<server, listeners, sfd, cfd, status>>
    BY <1>2 DEF AcceptFd
  <2>3. "non_blocking" \in {"non_blocking"} /\ "none" \in ClientConns \cup {"none"}
    OBVIOUS
  <2> QED BY <1>0, <2>1, <2>2, <2>3, NewSetup
<1>3. ASSUME NEW c \in ClientConns, Connect(c) PROVE SocketInv'
  <2>1. PICK f \in Fds :
          /\ Opens(f, {})
          /\ setup' = [setup EXCEPT !["client"] = [fd |-> f, step |-> 1, conn |-> c]]
    BY <1>3 DEF Connect, Create
  <2>2. /\ setup["client"] = Idle /\ UNCHANGED <<server, listeners, sfd, cfd, status>>
        /\ status[c] = "Closed" /\ 1 \in Nat /\ c \in ClientConns \cup {"none"}
    BY <1>3 DEF Connect, Create
  <2> QED BY <1>0, <2>1, <2>2, NewSetup
<1> QED BY <1>1, <1>2, <1>3

\* A setsockopt, ioctl, bind or listen.
LEMMA StepDoneKeeps ==
    ASSUME SocketInv, NEW t \in Threads, StepDone(t)
    PROVE  SocketInv'
<1> DEFINE f == setup[t].fd  step == setup[t].step  opt == StepsOf(t)[step]
<1>0. /\ SocketTypes /\ SetupRuns /\ SetupDone /\ WatchedSafe /\ Exact(Owners, open)
  BY DEF SocketInv
<1>1. /\ step \in 1..Len(StepsOf(t)) /\ flags' = [flags EXCEPT ![f] = @ \cup {opt}]
      /\ setup' = [setup EXCEPT ![t].step = @ + 1]
      /\ UNCHANGED <<open, listeners, sfd, cfd, status>>
  BY DEF StepDone, Doing
<1>2. f \in Fds /\ setup[t] # Idle
  BY <1>0, <1>1 DEF SetupRuns, Idle
<1>3. /\ setup'[t].fd = f /\ setup'[t].step = step + 1 /\ setup'[t].conn = setup[t].conn
      /\ setup'[t] # Idle /\ setup'[t] \in [fd : Fds \cup {NoFd}, step : Nat, conn : ClientConns \cup {"none"}]
      /\ \A u \in Threads \ {t} : setup'[u] = setup[u]
  <2>1. setup'[t] = [setup[t] EXCEPT !.step = @ + 1] /\ step \in Nat
    BY <1>0, <1>1 DEF SocketTypes
  <2>2. setup[t] \in [fd : Fds \cup {NoFd}, step : Nat, conn : ClientConns \cup {"none"}]
    BY <1>0 DEF SocketTypes
  <2>3. \A u \in Threads \ {t} : setup'[u] = setup[u]
    BY <1>0, <1>1 DEF SocketTypes
  <2>4. setup'[t].step = step + 1 /\ setup'[t].fd = f /\ setup'[t].conn = setup[t].conn
    BY <2>1, <2>2
  <2>5. setup'[t] # Idle
    BY <1>1, <2>4 DEF Idle
  <2> QED BY <2>1, <2>2, <2>3, <2>4, <2>5
<1>4. opt \in Options
  BY <1>1 DEF StepsOf, ServerSteps, ClientSteps, Options
<1>5. /\ \A g \in Fds : flags[g] \subseteq flags'[g]
      /\ opt \in flags'[f] /\ flags' \in [Fds -> SUBSET Options]
  BY <1>0, <1>1, <1>2, <1>4 DEF SocketTypes
<1>6. SocketTypes'
  <2>1. setup' \in [Threads -> [fd : Fds \cup {NoFd}, step : Nat, conn : ClientConns \cup {"none"}]]
    BY <1>0, <1>1, <1>3 DEF SocketTypes
  <2> QED BY <1>0, <1>1, <1>5, <2>1 DEF SocketTypes
<1>7. Watched' = Watched /\ Owners' = Owners
  <2>1. Watched' = Watched
    BY <1>1 DEF Watched
  <2>2. \A u \in Threads : setup'[u].fd = setup[u].fd /\ (setup'[u] = Idle <=> setup[u] = Idle)
    BY <1>2, <1>3
  <2>3. InSetup' = InSetup
    BY <2>2 DEF InSetup
  <2> QED BY <2>1, <2>3 DEF Owners
<1>8. Exact(Owners, open)'
  BY <1>0, <1>1, <1>7
<1>9. SetupRuns'
  <2>1. setup'[t].step <= Len(StepsOf(t)) + 1
    BY <1>1, <1>3
  <2>2. setup'["client"] # Idle => setup["client"] # Idle /\ setup'["client"].conn = setup["client"].conn
    BY <1>2, <1>3 DEF Threads
  <2> HIDE DEF f, step, opt
  <2>3. setup'[t].fd \in Fds /\ setup'[t].step > 0
    BY <1>1, <1>2, <1>3
  <2> QED BY <1>0, <1>1, <1>3, <2>1, <2>2, <2>3 DEF SetupRuns
<1>10. SetupDone'
  <2>1. ASSUME NEW u \in Threads, u # t, setup'[u] # Idle
        PROVE  setup'[u] = setup[u] /\ flags[setup[u].fd] \subseteq flags'[setup[u].fd]
    <3>1. setup'[u] = setup[u] /\ setup[u].fd \in Fds
      BY <1>0, <1>3, <2>1 DEF SetupRuns
    <3> QED BY <1>5, <3>1
  <2>2. \A i \in 1..Len(StepsOf(t)) : i < step + 1 => StepsOf(t)[i] \in flags'[f]
    <3>1. ASSUME NEW i \in 1..Len(StepsOf(t)), i < step + 1 PROVE StepsOf(t)[i] \in flags'[f]
      <4>1. CASE i = step
        BY <1>5, <4>1
      <4>2. CASE i < step
        <5>1. StepsOf(t)[i] \in flags[f]
          BY <1>0, <1>1, <1>2, <4>2 DEF SetupDone
        <5> QED BY <1>2, <1>5, <5>1
      <4> QED BY <1>1, <3>1, <4>1, <4>2
    <3> QED BY <3>1
  <2>3. ~(step + 1 = Accepted /\ t = "server")
    BY <1>1 DEF Accepted, StepsOf, ServerSteps
  <2> HIDE DEF f, step, opt
  <2>4. ASSUME NEW u \in Threads, u # t, setup'[u] # Idle
        PROVE  /\ setup'[u].step <= Len(StepsOf(u)) + 1 =>
                    \A i \in 1..Len(StepsOf(u)) :
                        i < setup'[u].step => StepsOf(u)[i] \in flags'[setup'[u].fd]
               /\ setup'[u].step = Accepted /\ u = "server" =>
                    "non_blocking" \in flags'[setup'[u].fd]
    <3>1. setup'[u] = setup[u] /\ flags[setup[u].fd] \subseteq flags'[setup[u].fd]
      BY <2>1, <2>4
    <3> QED BY <1>0, <2>4, <3>1 DEF SetupDone
  <2>5. /\ setup'[t].step <= Len(StepsOf(t)) + 1 =>
              \A i \in 1..Len(StepsOf(t)) :
                  i < setup'[t].step => StepsOf(t)[i] \in flags'[setup'[t].fd]
        /\ setup'[t].step = Accepted /\ t = "server" =>
              "non_blocking" \in flags'[setup'[t].fd]
    BY <1>3, <2>2, <2>3
  <2> QED BY <2>4, <2>5 DEF SetupDone
<1>11. WatchedSafe'
  <2>1. \A o \in Watched : o[3] \in Fds
    BY <1>0, OwnersAre, OwnersOpen DEF SocketTypes
  <2>2. \A i \in DOMAIN listeners : listeners[i] \in Fds
    BY <2>1, OwnersAre
  <2> QED BY <1>0, <1>1, <1>5, <1>7, <2>1, <2>2 DEF WatchedSafe
<1> QED BY <1>6, <1>8, <1>9, <1>10, <1>11 DEF SocketInv

\* A socket that is set up and that a step leaves alone, or that is done.
LEMMA SetupsKept ==
    ASSUME SocketInv, setup' \in [Threads -> {Idle} \cup {setup[t] : t \in Threads}],
           \A t \in Threads : \/ setup'[t] = Idle
                              \/ setup'[t] = setup[t] /\ flags'[setup[t].fd] = flags[setup[t].fd],
           setup'["client"] # Idle => status'[setup["client"].conn] = "Closed"
    PROVE  SetupRuns' /\ SetupDone'
<1>0. SetupRuns /\ SetupDone /\ "client" \in Threads
  BY DEF SocketInv, Threads
<1>1. SetupRuns'
  <2>1. \A t \in Threads : setup'[t] = Idle \/ (setup'[t].fd \in Fds /\ setup'[t].step > 0)
    BY <1>0 DEF SetupRuns
  <2>2. setup'["client"] # Idle =>
          /\ setup'["client"].conn \in ClientConns
          /\ status'[setup'["client"].conn] = "Closed"
    BY <1>0 DEF SetupRuns
  <2>3. \A t \in Threads : \/ setup'[t].step <= Len(StepsOf(t)) + 1
                           \/ t = "server" /\ setup'[t].step = Accepted
    <3>1. Idle.step <= Len(StepsOf("server")) + 1 /\ Idle.step <= Len(StepsOf("client")) + 1
      BY DEF Idle, StepsOf, ServerSteps, ClientSteps
    <3> QED BY <1>0, <3>1 DEF SetupRuns, Threads
  <2> QED BY <2>1, <2>2, <2>3 DEF SetupRuns
<1>2. SetupDone'
  <2>1. ASSUME NEW t \in Threads, setup'[t] # Idle
        PROVE  /\ setup'[t].step <= Len(StepsOf(t)) + 1 =>
                    \A i \in 1..Len(StepsOf(t)) :
                        i < setup'[t].step => StepsOf(t)[i] \in flags'[setup'[t].fd]
               /\ setup'[t].step = Accepted /\ t = "server" =>
                    "non_blocking" \in flags'[setup'[t].fd]
    <3>1. setup'[t] = setup[t] /\ flags'[setup[t].fd] = flags[setup[t].fd]
      BY <2>1
    <3> QED BY <1>0, <2>1, <3>1 DEF SetupDone
  <2> QED BY <2>1 DEF SetupDone
<1> QED BY <1>1, <1>2

\* The socket of a thread that sets one up, and what the table is without it.
LEMMA SetupOwns ==
    ASSUME SocketInv, NEW t \in Threads, setup[t].step > 0
    PROVE  /\ setup[t] # Idle /\ setup[t].fd \in open /\ setup[t].fd # NoFd
           /\ setup[t].fd \in Fds
           /\ <<"setup", t, setup[t].fd>> \in Owners
           /\ setup' = [setup EXCEPT ![t] = Idle] =>
                /\ InSetup' = InSetup \ {<<"setup", t, setup[t].fd>>}
                /\ \A u \in Threads : setup'[u] = IF u = t THEN Idle ELSE setup[u]
                /\ setup' \in [Threads -> {Idle} \cup {setup[u] : u \in Threads}]
<1>1. setup[t] # Idle
  BY DEF Idle
<1>2. <<"setup", t, setup[t].fd>> \in Owners /\ setup[t].fd \in Fds
  BY <1>1, OwnersAre DEF SocketInv, SetupRuns
<1>3. setup[t].fd \in open
  BY <1>2, OwnersOpen
<1>4. ASSUME setup' = [setup EXCEPT ![t] = Idle]
      PROVE  /\ InSetup' = InSetup \ {<<"setup", t, setup[t].fd>>}
             /\ \A u \in Threads : setup'[u] = IF u = t THEN Idle ELSE setup[u]
             /\ setup' \in [Threads -> {Idle} \cup {setup[u] : u \in Threads}]
  <2>1. /\ \A u \in Threads : setup'[u] = IF u = t THEN Idle ELSE setup[u]
        /\ setup' \in [Threads -> {Idle} \cup {setup[u] : u \in Threads}]
    BY <1>4 DEF SocketInv, SocketTypes
  <2>2. InSetup' = {<<"setup", u, setup[u].fd>> : u \in {u \in Threads : u # t /\ setup[u] # Idle}}
    BY <2>1 DEF InSetup
  <2>3. InSetup' = InSetup \ {<<"setup", t, setup[t].fd>>}
    BY <2>2 DEF InSetup
  <2> QED BY <2>1, <2>3
<1> QED BY <1>1, <1>2, <1>3, <1>4, NoFdIsNone

\* An error path: the socket is closed.
LEMMA StepFailsKeeps ==
    ASSUME SocketInv, NEW t \in Threads, StepFails(t)
    PROVE  SocketInv'
<1> DEFINE f == setup[t].fd  x == <<"setup", t, f>>
<1>0. /\ SocketTypes /\ WatchedSafe /\ Exact(Owners, open)
  BY DEF SocketInv
<1>1. /\ setup[t].step > 0 /\ setup' = [setup EXCEPT ![t] = Idle]
      /\ open' = open \ {f} /\ flags' = [g \in Fds |-> IF g \in {f} THEN {} ELSE flags[g]]
      /\ UNCHANGED <<listeners, sfd, cfd, status>>
  BY DEF StepFails, Closes
<1>2. /\ f \in open /\ x \in Owners /\ InSetup' = InSetup \ {x}
      /\ \A u \in Threads : setup'[u] = IF u = t THEN Idle ELSE setup[u]
      /\ setup' \in [Threads -> {Idle} \cup {setup[u] : u \in Threads}]
  BY <1>1, SetupOwns
<1>3. Watched' = Watched /\ x \notin Watched
  BY <1>1 DEF Watched
<1>4. Owners' = Owners \ {x}
  BY <1>2, <1>3 DEF Owners
<1>5. Exact(Owners, open)'
  <2>1. FdsOf({x}) = {f}
    BY DEF FdsOf
  <2> HIDE DEF x
  <2>2. {x} \in SUBSET Owners
    BY <1>2
  <2>3. Exact(Owners \ {x}, open \ FdsOf({x}))
    BY <1>0, <2>2, Dropped
  <2> QED BY <1>1, <1>4, <2>1, <2>3
<1>6. \A o \in Owners : o # x => o[3] \in Fds /\ o[3] # f /\ flags'[o[3]] = flags[o[3]]
  <2>1. \A o \in Owners : o[3] \in Fds /\ (o[3] = x[3] => o = x)
    BY <1>0, <1>2, OwnersOpen DEF SocketTypes
  <2>2. x[3] = f
    OBVIOUS
  <2> QED BY <1>1, <2>1, <2>2
<1>7. SocketTypes'
  <2>1. setup' \in [Threads -> [fd : Fds \cup {NoFd}, step : Nat, conn : ClientConns \cup {"none"}]]
    BY <1>0, <1>2 DEF SocketTypes, Idle
  <2> QED BY <1>0, <1>1, <2>1 DEF SocketTypes
<1>8. SetupRuns' /\ SetupDone'
  <2>1. ASSUME NEW u \in Threads, setup'[u] # Idle
        PROVE  setup'[u] = setup[u] /\ flags'[setup[u].fd] = flags[setup[u].fd]
    <3>1. u # t /\ setup'[u] = setup[u] /\ <<"setup", u, setup[u].fd>> \in Owners
      BY <1>2, <2>1, OwnersAre
    <3> QED BY <1>6, <3>1
  <2>2. setup'["client"] # Idle => status'[setup["client"].conn] = "Closed"
    BY <1>1, <1>2 DEF SocketInv, SetupRuns, Threads
  <2> QED BY <1>2, <2>1, <2>2, SetupsKept
<1>9. WatchedSafe'
  <2>1. \A o \in Watched : flags'[o[3]] = flags[o[3]]
    BY <1>3, <1>6 DEF Owners
  <2>2. \A i \in DOMAIN listeners : flags'[listeners[i]] = flags[listeners[i]]
    BY <2>1, OwnersAre
  <2> QED BY <1>0, <1>1, <1>3, <2>1, <2>2 DEF WatchedSafe
<1> QED BY <1>5, <1>7, <1>8, <1>9 DEF SocketInv

\* A socket that is ready passes from the thread to the owner y.
LEMMA HandedToWatcher ==
    ASSUME SocketInv, NEW t \in Threads, setup[t].step > 0, NEW y, y[3] = setup[t].fd,
           Watched' = Watched \cup {y}, "non_blocking" \in flags[setup[t].fd],
           setup' = [setup EXCEPT ![t] = Idle], UNCHANGED <<open, flags>>,
           t # "client" => status' = status
    PROVE  /\ Exact(Owners, open)' /\ SetupRuns' /\ SetupDone'
           /\ \A o \in Watched' : "non_blocking" \in flags'[o[3]]
           /\ setup' \in [Threads -> [fd : Fds \cup {NoFd}, step : Nat, conn : ClientConns \cup {"none"}]]
<1> DEFINE f == setup[t].fd  x == <<"setup", t, f>>
<1>0. /\ SocketTypes /\ WatchedSafe /\ Exact(Owners, open)
  BY DEF SocketInv
<1>1. /\ f \in open /\ x \in Owners /\ InSetup' = InSetup \ {x}
      /\ \A u \in Threads : setup'[u] = IF u = t THEN Idle ELSE setup[u]
      /\ setup' \in [Threads -> {Idle} \cup {setup[u] : u \in Threads}]
  BY SetupOwns
<1>2. x \notin Watched
  BY DEF Watched
<1>3. Owners' = (Owners \ {x}) \cup {y}
  BY <1>1, <1>2 DEF Owners
<1>4. Exact(Owners, open)'
  <2>1. y[3] = x[3]
    OBVIOUS
  <2> HIDE DEF x
  <2>2. Exact((Owners \ {x}) \cup {y}, open)
    BY <1>0, <1>1, <2>1, Passed
  <2> QED BY <1>3, <2>2
<1>5. SetupRuns' /\ SetupDone'
  <2>1. ASSUME NEW u \in Threads, setup'[u] # Idle
        PROVE  setup'[u] = setup[u] /\ flags'[setup[u].fd] = flags[setup[u].fd]
    BY <1>1, <2>1
  <2>2. setup'["client"] # Idle => status'[setup["client"].conn] = "Closed"
    <3>1. "client" \in Threads
      BY DEF Threads
    <3>2. setup'["client"] # Idle => t # "client" /\ setup["client"] # Idle
      BY <1>1, <3>1
    <3> QED BY <3>2 DEF SocketInv, SetupRuns
  <2> QED BY <1>1, <2>1, <2>2, SetupsKept
<1>6. \A o \in Watched' : "non_blocking" \in flags'[o[3]]
  BY <1>0 DEF WatchedSafe
<1>7. setup' \in [Threads -> [fd : Fds \cup {NoFd}, step : Nat, conn : ClientConns \cup {"none"}]]
  BY <1>0, <1>1 DEF SocketTypes, Idle
<1> QED BY <1>4, <1>5, <1>6, <1>7

\* The end of Server::bind.
LEMMA ListeningKeeps ==
    ASSUME SocketInv, Listening
    PROVE  SocketInv'
<1> DEFINE f == setup["server"].fd  n == Len(listeners) + 1
<1>0. /\ SocketTypes /\ SetupDone /\ WatchedSafe /\ "server" \in Threads
  BY DEF SocketInv, Threads
<1>1. /\ setup["server"].step = Len(ServerSteps) + 1 /\ setup["server"].step > 0
      /\ listeners' = Append(listeners, f) /\ setup' = [setup EXCEPT !["server"] = Idle]
      /\ UNCHANGED <<open, flags, sfd, cfd, status>>
  BY DEF Listening, Prepared, StepsOf, ServerSteps, kernelVars
<1>2. f \in Fds /\ setup["server"] # Idle
  BY <1>0, <1>1, SetupOwns
<1>3. {"non_blocking", "bind", "listen"} \subseteq flags[f]
  <2>1. \A i \in 1..Len(ServerSteps) : ServerSteps[i] \in flags[f]
    BY <1>0, <1>1, <1>2 DEF SetupDone, StepsOf, ServerSteps
  <2> QED BY <2>1 DEF ServerSteps
<1> HIDE DEF f
<1>4. /\ listeners' \in Seq(Fds) /\ DOMAIN listeners' = DOMAIN listeners \cup {n}
      /\ n \notin DOMAIN listeners /\ listeners'[n] = f
      /\ \A i \in DOMAIN listeners : listeners'[i] = listeners[i]
  <2>1. /\ listeners \in Seq(Fds) /\ Len(listeners) \in Nat
        /\ DOMAIN listeners = 1..Len(listeners)
    BY <1>0, LenProperties DEF SocketTypes
  <2>2. /\ listeners' \in Seq(Fds) /\ Len(listeners') = n /\ listeners'[n] = f
        /\ \A i \in 1..Len(listeners) : listeners'[i] = listeners[i]
    BY <1>1, <1>2, <2>1, AppendProperties
  <2>3. DOMAIN listeners' = 1..n
    BY <2>2, LenProperties
  <2>4. 1..n = 1..Len(listeners) \cup {n} /\ n \notin 1..Len(listeners)
    BY <2>1
  <2> HIDE DEF n
  <2> QED BY <2>1, <2>2, <2>3, <2>4
<1> HIDE DEF n
<1> DEFINE y == <<"listener", n, f>>
<1>5. Watched' = Watched \cup {y}
  BY <1>1, <1>4 DEF Watched
<1>6. y[3] = setup["server"].fd
  BY DEF f
<1> HIDE DEF y
<1>7. /\ Exact(Owners, open)' /\ SetupRuns' /\ SetupDone'
      /\ \A o \in Watched' : "non_blocking" \in flags'[o[3]]
      /\ setup' \in [Threads -> [fd : Fds \cup {NoFd}, step : Nat, conn : ClientConns \cup {"none"}]]
  <2>1. "non_blocking" \in flags[setup["server"].fd] /\ UNCHANGED <<open, flags, status>>
    BY <1>1, <1>3 DEF f
  <2> QED BY <1>0, <1>1, <1>5, <1>6, <2>1, HandedToWatcher
<1>8. \A i \in DOMAIN listeners' : {"bind", "listen"} \subseteq flags'[listeners'[i]]
  <2>1. \A i \in DOMAIN listeners : {"bind", "listen"} \subseteq flags[listeners[i]]
    BY <1>0 DEF WatchedSafe
  <2>2. ASSUME NEW i \in DOMAIN listeners'
        PROVE  {"bind", "listen"} \subseteq flags'[listeners'[i]]
    <3>1. CASE i = n
      BY <1>1, <1>3, <1>4, <3>1
    <3>2. CASE i # n
      <4>1. i \in DOMAIN listeners /\ listeners'[i] = listeners[i] /\ flags' = flags
        BY <1>1, <1>4, <3>2
      <4> QED BY <2>1, <4>1
    <3> QED BY <3>1, <3>2
  <2> QED BY <2>2
<1>9. SocketTypes'
  BY <1>0, <1>1, <1>4, <1>7 DEF SocketTypes
<1> QED BY <1>7, <1>8, <1>9 DEF SocketInv, WatchedSafe

\* The end of Connection::connect.
LEMMA ConnectedKeeps ==
    ASSUME SocketInv, NEW s \in {"Ready", "Connecting"}, Connected(s)
    PROVE  SocketInv'
<1> DEFINE f == setup["client"].fd  c == setup["client"].conn  y == <<"client", c, f>>
<1>0. /\ SocketTypes /\ SetupDone /\ SetupRuns /\ WatchedSafe /\ "client" \in Threads
  BY DEF SocketInv, Threads
<1>1. /\ setup["client"].step = Len(ClientSteps) + 1 /\ setup["client"].step > 0
      /\ status' = [status EXCEPT ![c] = s] /\ cfd' = [cfd EXCEPT ![c] = f]
      /\ setup' = [setup EXCEPT !["client"] = Idle]
      /\ UNCHANGED <<open, flags, listeners, sfd>>
  BY DEF Connected, Prepared, StepsOf, ClientSteps, kernelVars
<1>2. f \in Fds /\ setup["client"] # Idle /\ c \in ClientConns /\ status[c] = "Closed"
  BY <1>0, <1>1, SetupOwns DEF SetupRuns
<1>3. "non_blocking" \in flags[f]
  <2>1. \A i \in 1..Len(ClientSteps) : ClientSteps[i] \in flags[f]
    BY <1>0, <1>1, <1>2 DEF SetupDone, StepsOf, ClientSteps
  <2> QED BY <2>1 DEF ClientSteps
<1>4. /\ status' \in [ClientConns -> {"Closed", "Connecting", "Ready"}]
      /\ cfd' \in [ClientConns -> Fds \cup {NoFd}]
      /\ \A d \in ClientConns : status'[d] = IF d = c THEN s ELSE status[d]
      /\ \A d \in ClientConns : cfd'[d] = IF d = c THEN f ELSE cfd[d]
  BY <1>0, <1>1, <1>2 DEF SocketTypes
<1>5. Watched' = Watched \cup {y}
  <2> HIDE DEF f, c
  <2>1. {<<"client", d, cfd'[d]>> : d \in {d \in ClientConns : status'[d] # "Closed"}}
          = {<<"client", d, cfd[d]>> : d \in {d \in ClientConns : status[d] # "Closed"}} \cup {y}
    BY <1>2, <1>4
  <2> QED BY <1>1, <2>1 DEF Watched
<1>6. y[3] = setup["client"].fd
  OBVIOUS
<1> HIDE DEF y
<1>7. /\ Exact(Owners, open)' /\ SetupRuns' /\ SetupDone'
      /\ \A o \in Watched' : "non_blocking" \in flags'[o[3]]
      /\ setup' \in [Threads -> [fd : Fds \cup {NoFd}, step : Nat, conn : ClientConns \cup {"none"}]]
  BY <1>0, <1>1, <1>3, <1>5, <1>6, HandedToWatcher
<1>8. SocketTypes' /\ WatchedSafe'
  BY <1>0, <1>1, <1>4, <1>7 DEF SocketTypes, WatchedSafe
<1> QED BY <1>7, <1>8 DEF SocketInv

\* Connection::set.
LEMMA SetConnKeeps ==
    ASSUME SocketInv, NEW c \in ServerConns, SetConn(c)
    PROVE  SocketInv'
<1> DEFINE f == setup["server"].fd  y == <<"server", c, f>>
<1>0. /\ SocketTypes /\ SetupDone /\ SetupRuns /\ WatchedSafe /\ "server" \in Threads
  BY DEF SocketInv, Threads
<1>1. /\ setup["server"].step = Accepted /\ setup["server"].step > 0 /\ sfd[c] = NoFd
      /\ sfd' = [sfd EXCEPT ![c] = f] /\ setup' = [setup EXCEPT !["server"] = Idle]
      /\ UNCHANGED <<open, flags, listeners, cfd, status>>
  BY DEF SetConn, Accepted, ServerSteps, kernelVars
<1>2. f \in Fds /\ f # NoFd /\ setup["server"] # Idle
  BY <1>0, <1>1, SetupOwns
<1>3. "non_blocking" \in flags[f]
  BY <1>0, <1>1, <1>2 DEF SetupDone
<1>4. /\ sfd' \in [ServerConns -> Fds \cup {NoFd}]
      /\ \A d \in ServerConns : sfd'[d] = IF d = c THEN f ELSE sfd[d]
  BY <1>0, <1>1, <1>2 DEF SocketTypes
<1>5. Watched' = Watched \cup {y}
  <2> HIDE DEF f
  <2>1. {<<"server", d, sfd'[d]>> : d \in {d \in ServerConns : sfd'[d] # NoFd}}
          = {<<"server", d, sfd[d]>> : d \in {d \in ServerConns : sfd[d] # NoFd}} \cup {y}
    BY <1>1, <1>2, <1>4
  <2> QED BY <1>1, <2>1 DEF Watched
<1>6. y[3] = setup["server"].fd
  OBVIOUS
<1> HIDE DEF y
<1>7. /\ Exact(Owners, open)' /\ SetupRuns' /\ SetupDone'
      /\ \A o \in Watched' : "non_blocking" \in flags'[o[3]]
      /\ setup' \in [Threads -> [fd : Fds \cup {NoFd}, step : Nat, conn : ClientConns \cup {"none"}]]
  BY <1>0, <1>1, <1>3, <1>5, <1>6, HandedToWatcher
<1>8. SocketTypes' /\ WatchedSafe'
  BY <1>0, <1>1, <1>4, <1>7 DEF SocketTypes, WatchedSafe
<1> QED BY <1>7, <1>8 DEF SocketInv

\* Descriptors that are closed with what watches them.  close() of a number that
\* is not open may be among the calls.
LEMMA WatchedClosed ==
    ASSUME SocketInv, NEW lost \in SUBSET Watched, Watched' = Watched \ lost,
           NEW fs, Closes(fs), FdsOf(lost) \subseteq fs, fs \subseteq FdsOf(lost) \cup {NoFd},
           setup' = setup,
           setup["client"] # Idle => status'[setup["client"].conn] = "Closed"
    PROVE  /\ Exact(Owners, open)' /\ SetupRuns' /\ SetupDone'
           /\ open' \in SUBSET Fds /\ flags' \in [Fds -> SUBSET Options]
           /\ \A o \in Watched' : o \in Watched /\ flags'[o[3]] = flags[o[3]]
<1>0. /\ SocketTypes /\ WatchedSafe /\ Exact(Owners, open)
  BY DEF SocketInv
<1>1. /\ open' = open \ fs /\ flags' = [g \in Fds |-> IF g \in fs THEN {} ELSE flags[g]]
  BY DEF Closes
<1>2. NoFd \notin open
  BY <1>0, NoFdIsNone DEF SocketTypes
<1>3. open' = open \ FdsOf(lost)
  BY <1>1, <1>2
<1>4. Owners' = Owners \ lost
  <2>1. InSetup' = InSetup
    BY DEF InSetup
  <2>2. \A o \in lost : o \notin InSetup
    <3>1. \A o \in Watched : o[1] \in {"listener", "server", "client"}
      BY DEF Watched
    <3>2. \A o \in InSetup : o[1] = "setup"
      BY DEF InSetup
    <3> QED BY <3>1, <3>2
  <2> QED BY <2>1, <2>2 DEF Owners
<1>5. Exact(Owners, open)'
  <2>1. lost \in SUBSET Owners
    BY OwnersAre
  <2> QED BY <1>0, <1>3, <1>4, <2>1, Dropped
<1>6. \A o \in Owners' : o[3] \in Fds /\ flags'[o[3]] = flags[o[3]]
  <2>1. ASSUME NEW o \in Owners' PROVE o[3] \in Fds /\ flags'[o[3]] = flags[o[3]]
    <3>1. o[3] \in open'
      BY <1>5, <2>1 DEF Exact, FdsOf
    <3> QED BY <1>0, <1>1, <3>1 DEF SocketTypes
  <2> QED BY <2>1
<1>7. SetupRuns' /\ SetupDone'
  <2>1. ASSUME NEW u \in Threads, setup'[u] # Idle
        PROVE  setup'[u] = setup[u] /\ flags'[setup[u].fd] = flags[setup[u].fd]
    <3>1. <<"setup", u, setup[u].fd>> \in Owners'
      <4>1. <<"setup", u, setup[u].fd>> \in InSetup'
        BY <2>1 DEF InSetup
      <4> QED BY <4>1 DEF Owners
    <3> QED BY <1>6, <3>1
  <2>2. setup' \in [Threads -> {Idle} \cup {setup[t] : t \in Threads}]
    BY <1>0 DEF SocketTypes
  <2> QED BY <2>1, <2>2, SetupsKept
<1>8. \A o \in Watched' : o \in Watched /\ flags'[o[3]] = flags[o[3]]
  BY <1>6 DEF Owners
<1>9. open' \in SUBSET Fds /\ flags' \in [Fds -> SUBSET Options]
  BY <1>0, <1>1 DEF SocketTypes
<1> QED BY <1>5, <1>7, <1>8, <1>9

\* server::Connection::close.
LEMMA CloseServerKeeps ==
    ASSUME SocketInv, NEW c \in ServerConns, CloseServerConn(c)
    PROVE  SocketInv'
<1> DEFINE x == <<"server", c, sfd[c]>>
<1>0. /\ SocketTypes /\ WatchedSafe /\ SetupRuns
  BY DEF SocketInv
<1>1. /\ sfd[c] # NoFd /\ Closes({sfd[c]}) /\ sfd' = [sfd EXCEPT ![c] = NoFd]
      /\ UNCHANGED <<listeners, cfd, status, setup>>
  BY DEF CloseServerConn
<1>2. /\ sfd' \in [ServerConns -> Fds \cup {NoFd}]
      /\ \A d \in ServerConns : sfd'[d] = IF d = c THEN NoFd ELSE sfd[d]
  BY <1>0, <1>1 DEF SocketTypes
<1>3. x \in Watched /\ Watched' = Watched \ {x}
  <2>1. {<<"server", d, sfd'[d]>> : d \in {d \in ServerConns : sfd'[d] # NoFd}}
          = {<<"server", d, sfd[d]>> : d \in {d \in ServerConns : sfd[d] # NoFd}} \ {x}
    BY <1>1, <1>2
  <2>2. /\ \A i \in DOMAIN listeners : <<"listener", i, listeners[i]>> # x
        /\ \A d \in ClientConns : <<"client", d, cfd[d]>> # x
    OBVIOUS
  <2>3. x \in Watched
    BY <1>1, OwnersAre
  <2> HIDE DEF x
  <2>4. Watched' = Watched \ {x}
    BY <1>1, <2>1, <2>2 DEF Watched
  <2> QED BY <2>3, <2>4
<1>4. FdsOf({x}) = {sfd[c]}
  BY DEF FdsOf
<1>5. setup["client"] # Idle => status'[setup["client"].conn] = "Closed"
  BY <1>0, <1>1 DEF SetupRuns
<1> HIDE DEF x
<1>6. /\ Exact(Owners, open)' /\ SetupRuns' /\ SetupDone'
      /\ open' \in SUBSET Fds /\ flags' \in [Fds -> SUBSET Options]
      /\ \A o \in Watched' : o \in Watched /\ flags'[o[3]] = flags[o[3]]
  <2>1. {x} \in SUBSET Watched
    BY <1>3
  <2> QED BY <1>1, <1>3, <1>4, <1>5, <2>1, WatchedClosed
<1>7. \A i \in DOMAIN listeners : flags'[listeners[i]] = flags[listeners[i]]
  <2>1. \A i \in DOMAIN listeners : <<"listener", i, listeners[i]>> \in Watched'
    BY <1>1 DEF Watched
  <2> QED BY <1>6, <2>1
<1>8. SocketTypes' /\ WatchedSafe'
  BY <1>0, <1>1, <1>2, <1>6, <1>7 DEF SocketTypes, WatchedSafe
<1> QED BY <1>6, <1>8 DEF SocketInv

\* client::Connection::close.
LEMMA CloseClientKeeps ==
    ASSUME SocketInv, NEW c \in ClientConns, CloseClientConn(c)
    PROVE  SocketInv'
<1> DEFINE x == <<"client", c, cfd[c]>>
<1>0. /\ SocketTypes /\ WatchedSafe /\ SetupRuns
  BY DEF SocketInv
<1>1. /\ status[c] # "Closed" /\ Closes({cfd[c]})
      /\ status' = [status EXCEPT ![c] = "Closed"]
      /\ UNCHANGED <<listeners, sfd, cfd, setup>> /\ setup["client"] = Idle
  BY DEF CloseClientConn
<1>2. /\ status' \in [ClientConns -> {"Closed", "Connecting", "Ready"}]
      /\ \A d \in ClientConns : status'[d] = IF d = c THEN "Closed" ELSE status[d]
  BY <1>0, <1>1 DEF SocketTypes
<1>3. x \in Watched /\ Watched' = Watched \ {x}
  <2>1. {<<"client", d, cfd'[d]>> : d \in {d \in ClientConns : status'[d] # "Closed"}}
          = {<<"client", d, cfd[d]>> : d \in {d \in ClientConns : status[d] # "Closed"}} \ {x}
    BY <1>1, <1>2
  <2>2. /\ \A i \in DOMAIN listeners : <<"listener", i, listeners[i]>> # x
        /\ \A d \in ServerConns : <<"server", d, sfd[d]>> # x
    OBVIOUS
  <2>3. x \in Watched
    BY <1>1, OwnersAre
  <2> HIDE DEF x
  <2>4. Watched' = Watched \ {x}
    BY <1>1, <2>1, <2>2 DEF Watched
  <2> QED BY <2>3, <2>4
<1>4. FdsOf({x}) = {cfd[c]}
  BY DEF FdsOf
<1> HIDE DEF x
<1>6. /\ Exact(Owners, open)' /\ SetupRuns' /\ SetupDone'
      /\ open' \in SUBSET Fds /\ flags' \in [Fds -> SUBSET Options]
      /\ \A o \in Watched' : o \in Watched /\ flags'[o[3]] = flags[o[3]]
  <2>1. {x} \in SUBSET Watched
    BY <1>3
  <2> QED BY <1>1, <1>3, <1>4, <2>1, WatchedClosed
<1>7. \A i \in DOMAIN listeners : flags'[listeners[i]] = flags[listeners[i]]
  <2>1. \A i \in DOMAIN listeners : <<"listener", i, listeners[i]>> \in Watched'
    BY <1>1 DEF Watched
  <2> QED BY <1>6, <2>1
<1>8. SocketTypes' /\ WatchedSafe'
  BY <1>0, <1>1, <1>2, <1>6, <1>7 DEF SocketTypes, WatchedSafe
<1> QED BY <1>6, <1>8 DEF SocketInv

\* Server::~Server.
LEMMA DestroyKeeps ==
    ASSUME SocketInv, DestroyServer
    PROVE  SocketInv'
<1> DEFINE lostL == {<<"listener", i, listeners[i]>> : i \in DOMAIN listeners}
           lostS == {<<"server", c, sfd[c]>> : c \in {c \in ServerConns : sfd[c] # NoFd}}
           lost == lostL \cup lostS
           fs == {listeners[i] : i \in DOMAIN listeners} \cup {sfd[c] : c \in ServerConns}
<1>0. /\ SocketTypes /\ WatchedSafe /\ SetupRuns
  BY DEF SocketInv
<1>1. /\ Closes(fs) /\ listeners' = <<>> /\ sfd' = [c \in ServerConns |-> NoFd]
      /\ UNCHANGED <<cfd, status, setup>>
  BY DEF DestroyServer
<1>2. lost \in SUBSET Watched /\ Watched' = Watched \ lost
  <2>1. Watched' = {<<"client", c, cfd[c]>> : c \in {c \in ClientConns : status[c] # "Closed"}}
    BY <1>1 DEF Watched
  <2>2. \A c \in ClientConns : <<"client", c, cfd[c]>> \notin lost
    OBVIOUS
  <2>3. Watched = lostL \cup lostS \cup Watched'
    BY <2>1 DEF Watched
  <2> QED BY <2>1, <2>2, <2>3
<1>3. FdsOf(lost) \subseteq fs /\ fs \subseteq FdsOf(lost) \cup {NoFd}
  <2>1. /\ \A i \in DOMAIN listeners : <<"listener", i, listeners[i]>> \in lost
        /\ \A c \in ServerConns : sfd[c] # NoFd => <<"server", c, sfd[c]>> \in lost
    OBVIOUS
  <2>2. \A o \in lost : o[3] \in fs
    <3>1. \A o \in lostL : o[3] \in fs
      OBVIOUS
    <3>2. \A o \in lostS : o[3] \in fs
      OBVIOUS
    <3> QED BY <3>1, <3>2
  <2>3. \A i \in DOMAIN listeners : \E o \in lost : o[3] = listeners[i]
    <3> HIDE DEF lost
    <3> QED BY <2>1
  <2>4. \A c \in ServerConns : sfd[c] = NoFd \/ \E o \in lost : o[3] = sfd[c]
    <3> HIDE DEF lost
    <3> QED BY <2>1
  <2> HIDE DEF lost
  <2> QED BY <2>2, <2>3, <2>4 DEF FdsOf
<1>5. setup["client"] # Idle => status'[setup["client"].conn] = "Closed"
  BY <1>0, <1>1 DEF SetupRuns
<1> HIDE DEF lost, fs
<1>6. /\ Exact(Owners, open)' /\ SetupRuns' /\ SetupDone'
      /\ open' \in SUBSET Fds /\ flags' \in [Fds -> SUBSET Options]
      /\ \A o \in Watched' : o \in Watched /\ flags'[o[3]] = flags[o[3]]
  BY <1>1, <1>2, <1>3, <1>5, WatchedClosed
<1>7. listeners' \in Seq(Fds) /\ DOMAIN listeners' = {}
  BY <1>1, EmptySeq
<1>8. SocketTypes' /\ WatchedSafe'
  BY <1>0, <1>1, <1>6, <1>7 DEF SocketTypes, WatchedSafe
<1> QED BY <1>6, <1>8 DEF SocketInv

\* The handshake of a client connection ends.
LEMMA HandshakeKeeps ==
    ASSUME SocketInv, NEW c \in ClientConns, Handshake(c)
    PROVE  SocketInv'
<1>0. SocketTypes /\ SetupRuns /\ SetupDone /\ WatchedSafe /\ Exact(Owners, open)
  BY DEF SocketInv
<1>1. /\ status[c] = "Connecting" /\ status' = [status EXCEPT ![c] = "Ready"]
      /\ UNCHANGED <<open, flags, listeners, sfd, cfd, setup>> /\ setup["client"] = Idle
  BY DEF Handshake, kernelVars
<1>2. /\ status' \in [ClientConns -> {"Closed", "Connecting", "Ready"}]
      /\ \A d \in ClientConns : status'[d] # "Closed" <=> status[d] # "Closed"
  BY <1>0, <1>1 DEF SocketTypes
<1>3. Watched' = Watched /\ InSetup' = InSetup
  BY <1>1, <1>2 DEF Watched, InSetup
<1>4. Exact(Owners, open)' /\ WatchedSafe'
  BY <1>0, <1>1, <1>3 DEF Exact, FdsOf, Owners, WatchedSafe
<1>5. SocketTypes' /\ SetupRuns' /\ SetupDone'
  BY <1>0, <1>1, <1>2 DEF SocketTypes, SetupRuns, SetupDone
<1> QED BY <1>4, <1>5 DEF SocketInv

\* Every step of the process keeps the table of descriptors right.
LEMMA SocketsStep == SocketInv /\ [Next]_vars => SocketInv'
<1> SUFFICES ASSUME SocketInv, [Next]_vars PROVE SocketInv'
  OBVIOUS
<1>1. ASSUME UNCHANGED socketVars PROVE SocketInv'
  BY <1>1
  DEF socketVars, SocketInv, SocketTypes, SetupRuns, SetupDone, WatchedSafe, Exact, FdsOf,
      Owners, Watched, InSetup
<1>2. ASSUME SocketsNext PROVE SocketInv'
  <2>1. ASSUME NEW t \in Threads, StepDone(t) \/ StepFails(t) PROVE SocketInv'
    BY <2>1, StepDoneKeeps, StepFailsKeeps
  <2>2. ASSUME NEW s \in {"Ready", "Connecting"}, Connected(s) PROVE SocketInv'
    BY <2>2, ConnectedKeeps
  <2>3. ASSUME NEW c \in ServerConns, SetConn(c) \/ CloseServerConn(c) PROVE SocketInv'
    BY <2>3, SetConnKeeps, CloseServerKeeps
  <2>4. ASSUME NEW c \in ClientConns, Connect(c) \/ CloseClientConn(c) \/ Handshake(c)
        PROVE  SocketInv'
    BY <2>4, CreateKeeps, CloseClientKeeps, HandshakeKeeps
  <2>5. ASSUME Bind \/ Listening \/ AcceptFd \/ DestroyServer PROVE SocketInv'
    BY <2>5, CreateKeeps, ListeningKeeps, DestroyKeeps
  <2> QED BY <1>2, <2>1, <2>2, <2>3, <2>4, <2>5 DEF SocketsNext
<1> QED BY <1>1, <1>2 DEF Next, vars

\* Every open descriptor has exactly one owner, in the server, in the client or
\* in a thread that sets it up, and every owner's descriptor is open and set up:
\* for any number of descriptors, connections and sockets, whichever steps fail.
THEOREM DescriptorsOwned == Spec => []Owned
<1>1. SocketInv => Owned
  <2> SUFFICES ASSUME SocketInv PROVE Owned
    OBVIOUS
  <2>1. ASSUME NEW f \in Fds
        PROVE  Cardinality({o \in Watched \cup InSetup : o[3] = f}) = IF f \in open THEN 1 ELSE 0
    <3>1. Exact(Owners, open)
      BY DEF SocketInv
    <3>2. Cardinality({o \in Owners : o[3] = f}) = IF f \in open THEN 1 ELSE 0
      BY <3>1, OneOwner
    <3> QED BY <3>2 DEF Owners
  <2> QED BY <2>1 DEF SocketInv, WatchedSafe, Owned
<1>2. Init => SocketInv
  BY SocketsStart DEF Init
<1> QED BY <1>1, <1>2, SocketsStep, PTL DEF Spec

-----------------------------------------------------------------------------
(* Classes of capacities                                                   *)

\* A set of numbers has a least element.
LEMMA LeastNumber ==
    ASSUME NEW S \in SUBSET Nat, S # {}
    PROVE  \E x \in S : \A y \in S : x <= y
<1>1. \E x \in S : \A y \in S : ~(<<y, x>> \in OpToRel(<, Nat))
  BY NatLessThanWellFounded, WFMin
<1>2. PICK x \in S : \A y \in S : ~(<<y, x>> \in OpToRel(<, Nat))
  BY <1>1
<1>3. ASSUME NEW y \in S PROVE x <= y
  <2>1. ~(<<y, x>> \in OpToRel(<, Nat))
    BY <1>2
  <2>2. ~(y < x)
    BY <2>1 DEF OpToRel
  <2> QED BY <2>2
<1> QED BY <1>2, <1>3

\* Powers of two are positive and grow.
LEMMA Doubling ==
    ASSUME NEW p \in [0..(Top + 1) -> Int], p[0] = 1, \A i \in 0..Top : p[i + 1] = 2 * p[i]
    PROVE  /\ \A i \in 0..(Top + 1) : p[i] >= 1
           /\ \A i, j \in 0..(Top + 1) : i <= j => p[i] <= p[j]
<1>0. Top \in Nat
  BY CacheBounds
<1>1. ASSUME NEW i \in 0..(Top + 1), ~(p[i] >= 1) PROVE FALSE
  <2> DEFINE S == {k \in 0..(Top + 1) : ~(p[k] >= 1)}
  <2>1. S \in SUBSET Nat /\ S # {}
    <3>1. i \in S
      BY <1>1
    <3>2. 0..(Top + 1) \subseteq Nat
      BY <1>0
    <3> QED BY <3>1, <3>2
  <2>2. PICK k \in S : \A n \in S : k <= n
    <3> HIDE DEF S
    <3> QED BY <2>1, LeastNumber
  <2>3. k # 0 /\ k \in 0..(Top + 1)
    BY <2>2
  <2>4. k - 1 \in 0..Top /\ k - 1 \in 0..(Top + 1) /\ (k - 1) + 1 = k
    BY <1>0, <2>3
  <2>5. ~(k <= k - 1)
    BY <1>0, <2>3
  <2>6. p[k - 1] >= 1
    BY <2>2, <2>4, <2>5
  <2>7. p[k] = 2 * p[k - 1] /\ p[k] \in Int /\ p[k - 1] \in Int
    BY <2>3, <2>4
  <2>8. p[k] >= 1
    BY <2>6, <2>7
  <2> QED BY <2>2, <2>8
<1>2. ASSUME NEW i \in 0..(Top + 1), NEW j \in 0..(Top + 1), i <= j, ~(p[i] <= p[j])
      PROVE  FALSE
  <2> DEFINE S == {k \in 0..(Top + 1) : i <= k /\ ~(p[i] <= p[k])}
  <2>1. S \in SUBSET Nat /\ S # {}
    <3>1. j \in S
      BY <1>2
    <3>2. 0..(Top + 1) \subseteq Nat
      BY <1>0
    <3> QED BY <3>1, <3>2
  <2>2. PICK k \in S : \A n \in S : k <= n
    <3> HIDE DEF S
    <3> QED BY <2>1, LeastNumber
  <2>3. k # i /\ k \in 0..(Top + 1) /\ i <= k
    BY <2>2
  <2>4. k - 1 \in 0..Top /\ k - 1 \in 0..(Top + 1) /\ (k - 1) + 1 = k /\ i <= k - 1
    BY <1>0, <2>3
  <2>5. ~(k <= k - 1)
    BY <1>0, <2>3
  <2>6. p[i] <= p[k - 1] /\ p[k - 1] >= 1
    BY <1>1, <2>2, <2>4, <2>5
  <2>7. p[k] = 2 * p[k - 1] /\ p[k] \in Int /\ p[k - 1] \in Int /\ p[i] \in Int
    BY <2>3, <2>4
  <2>8. p[i] <= p[k]
    BY <2>6, <2>7
  <2> QED BY <2>2, <2>8
<1> QED BY <1>1, <1>2

\* The classes.
LEMMA Powers ==
    /\ \A i \in 0..(Top + 1) : 2 ^ i \in Nat /\ 2 ^ i >= 1
    /\ \A i, j \in 0..(Top + 1) : i <= j => 2 ^ i <= 2 ^ j
    /\ 2 ^ 0 = 1 /\ Top \in Nat
<1> DEFINE p == [i \in 0..(Top + 1) |-> 2 ^ i]
<1>1. Top \in Nat
  BY CacheBounds
<1>2. p \in [0..(Top + 1) -> Int]
  <2>1. ASSUME NEW i \in 0..(Top + 1) PROVE 2 ^ i \in Int
    BY <1>1
  <2> QED BY <2>1
<1>3. 0 \in 0..(Top + 1) /\ \A i \in 0..Top : i \in 0..(Top + 1) /\ i + 1 \in 0..(Top + 1)
  BY <1>1
<1>4. p[0] = 1
  BY <1>3
<1>5. \A i \in 0..Top : p[i + 1] = 2 * p[i]
  BY <1>3, PowersOfTwo
<1>6. \A i \in 0..(Top + 1) : p[i] = 2 ^ i
  OBVIOUS
<1> HIDE DEF p
<1>7. /\ \A i \in 0..(Top + 1) : p[i] >= 1
      /\ \A i, j \in 0..(Top + 1) : i <= j => p[i] <= p[j]
  BY <1>2, <1>4, <1>5, Doubling
<1>8. 2 ^ 0 = 1
  OBVIOUS
<1>9. \A i \in 0..(Top + 1) : 2 ^ i \in Nat /\ 2 ^ i >= 1
  BY <1>2, <1>6, <1>7
<1>10. \A i, j \in 0..(Top + 1) : i <= j => 2 ^ i <= 2 ^ j
  BY <1>6, <1>7
<1> QED BY <1>1, <1>8, <1>9, <1>10

\* get_index finds the smallest class that holds n.
LEMMA Class ==
    ASSUME NEW n \in Nat, 1 <= n, n <= 2 ^ Top
    PROVE  /\ IndexOf(n) \in 0..Top /\ n <= 2 ^ IndexOf(n)
           /\ \A j \in 0..Top : n <= 2 ^ j => IndexOf(n) <= j
<1> DEFINE S == {i \in 0..(Top + 1) : n <= 2 ^ i}
<1> DEFINE x == IndexOf(n)
<1>0. Top \in Nat
  BY Powers
<1>1. PICK k \in S : \A i \in S : k <= i
  <2>1. Top \in S
    BY <1>0
  <2>2. S \in SUBSET Nat
    BY <1>0
  <2> HIDE DEF S
  <2> QED BY <2>1, <2>2, LeastNumber
<1>2. k > 0 => 2 ^ (k - 1) < n
  <2> SUFFICES ASSUME k > 0, ~(2 ^ (k - 1) < n) PROVE FALSE
    OBVIOUS
  <2>1. k - 1 \in 0..(Top + 1) /\ ~(k <= k - 1)
    BY <1>0, <1>1
  <2>2. 2 ^ (k - 1) \in Nat
    BY <2>1, Powers
  <2>3. k - 1 \in S
    BY <2>1, <2>2
  <2> QED BY <1>1, <2>1, <2>3
<1>3. x \in 0..(Top + 1) /\ n <= 2 ^ x /\ (x > 0 => 2 ^ (x - 1) < n)
  <2>1. \E i \in 0..(Top + 1) : n <= 2 ^ i /\ (i > 0 => 2 ^ (i - 1) < n)
    BY <1>1, <1>2
  <2> QED BY <2>1 DEF IndexOf
<1> HIDE DEF x, S
<1>4. ASSUME NEW j \in 0..Top, n <= 2 ^ j PROVE x <= j
  <2> SUFFICES ASSUME ~(x <= j) PROVE FALSE
    OBVIOUS
  <2>1. x > 0 /\ j \in 0..(Top + 1) /\ x - 1 \in 0..(Top + 1) /\ j <= x - 1
    BY <1>0, <1>3
  <2>2. 2 ^ j <= 2 ^ (x - 1) /\ 2 ^ j \in Nat /\ 2 ^ (x - 1) \in Nat
    BY <2>1, Powers
  <2>3. 2 ^ (x - 1) < n
    BY <1>3, <2>1
  <2> QED BY <1>4, <2>2, <2>3
<1>5. x \in 0..Top
  <2>1. x <= Top
    BY <1>0, <1>4
  <2> QED BY <1>0, <1>3, <2>1
<1> QED BY <1>3, <1>4, <1>5 DEF x

\* get_upper_bound rounds up to the size of a class: it grows with n and leaves
\* the size of a class as it is.
LEMMA Rounding ==
    ASSUME NEW n \in Nat, n <= 2 ^ Top
    PROVE  /\ UpperBound(n) \in Nat /\ n <= UpperBound(n) /\ UpperBound(n) <= 2 ^ Top
           /\ n >= 1 => /\ IndexOf(UpperBound(n)) \in 0..Top
                        /\ 2 ^ IndexOf(UpperBound(n)) <= UpperBound(n)
           /\ UpperBound(UpperBound(n)) = UpperBound(n)
<1>0. Top \in Nat /\ 2 ^ Top \in Nat /\ 2 ^ 0 = 1
  <2>1. Top \in 0..(Top + 1)
    BY Powers
  <2> QED BY <2>1, Powers
<1>1. CASE n = 0
  BY <1>0, <1>1 DEF UpperBound
<1>2. CASE n = 1
  <2>1. UpperBound(n) = 1 /\ UpperBound(1) = 1
    BY <1>2 DEF UpperBound
  <2>2. IndexOf(1) \in 0..Top /\ IndexOf(1) <= 0
    <3>1. 1 <= 2 ^ 0 /\ 0 \in 0..Top
      BY <1>0
    <3>2. 1 <= 2 ^ Top
      BY <1>2
    <3>3. /\ IndexOf(1) \in 0..Top
          /\ \A j \in 0..Top : 1 <= 2 ^ j => IndexOf(1) <= j
      <4>1. 1 \in Nat /\ 1 <= 1
        OBVIOUS
      <4> QED BY <3>2, <4>1, Class
    <3> QED BY <3>1, <3>3
  <2>3. IndexOf(1) = 0
    BY <1>0, <2>2
  <2>4. 2 ^ IndexOf(1) = 1
    BY <1>0, <2>3
  <2> QED BY <1>0, <1>2, <2>1, <2>2, <2>4
<1>3. CASE n >= 2
  <2> DEFINE k == IndexOf(n)
  <2>1. k \in 0..Top /\ n <= 2 ^ k
    BY <1>3, Class
  <2>2. UpperBound(n) = 2 ^ k
    BY <1>3 DEF UpperBound
  <2> HIDE DEF k
  <2>3. 2 ^ k \in Nat /\ 2 ^ k <= 2 ^ Top
    <3>1. k \in 0..(Top + 1) /\ Top \in 0..(Top + 1) /\ k <= Top
      BY <1>0, <2>1
    <3> QED BY <3>1, Powers
  <2> DEFINE u == 2 ^ k
  <2>4. u \in Nat /\ u >= 2 /\ u <= 2 ^ Top /\ u <= 2 ^ k
    BY <1>3, <2>1, <2>3
  <2>5. /\ IndexOf(u) \in 0..Top /\ u <= 2 ^ IndexOf(u)
        /\ \A j \in 0..Top : u <= 2 ^ j => IndexOf(u) <= j
    <3> HIDE DEF u
    <3>1. 1 <= u
      BY <2>4
    <3> QED BY <2>4, <3>1, Class
  <2> DEFINE i == IndexOf(u)
  <2>6. i \in 0..Top /\ u <= 2 ^ i /\ i <= k
    BY <2>1, <2>4, <2>5
  <2>7. UpperBound(u) = 2 ^ i
    BY <2>4 DEF UpperBound
  <2> HIDE DEF i
  <2>8. 2 ^ i <= 2 ^ k /\ 2 ^ i \in Nat
    <3>1. i \in 0..(Top + 1) /\ k \in 0..(Top + 1)
      BY <1>0, <2>1, <2>6
    <3> QED BY <2>6, <3>1, Powers
  <2>9. 2 ^ i = u
    BY <2>3, <2>6, <2>8
  <2>10. UpperBound(n) = u
    BY <2>2
  <2>11. i = IndexOf(u)
    BY DEF i
  <2> HIDE DEF u
  <2> QED BY <1>3, <2>1, <2>2, <2>4, <2>6, <2>7, <2>9, <2>10, <2>11
<1> QED BY <1>1, <1>2, <1>3

\* A larger size is not rounded to less.
LEMMA Monotone ==
    ASSUME NEW m \in Nat, NEW n \in Nat, m <= n, n <= 2 ^ Top
    PROVE  UpperBound(m) <= UpperBound(n)
<1>0. Top \in Nat /\ 2 ^ Top \in Nat
  <2>1. Top \in 0..(Top + 1)
    BY Powers
  <2> QED BY <2>1, Powers
<1>1. m <= 2 ^ Top /\ n <= UpperBound(n) /\ UpperBound(n) \in Nat
  <2>1. m <= 2 ^ Top
    BY <1>0
  <2>2. n <= UpperBound(n) /\ UpperBound(n) \in Nat
    BY Rounding
  <2> QED BY <2>1, <2>2
<1>2. CASE m < 2
  <2>1. UpperBound(m) = m
    BY <1>2 DEF UpperBound
  <2> QED BY <1>1, <2>1
<1>3. CASE m >= 2
  <2> DEFINE i == IndexOf(m)
  <2> DEFINE k == IndexOf(n)
  <2>1. k \in 0..Top /\ n <= 2 ^ k
    BY <1>3, Class
  <2>2. i \in 0..Top /\ \A j \in 0..Top : m <= 2 ^ j => i <= j
    BY <1>1, <1>3, Class
  <2>3. UpperBound(m) = 2 ^ i /\ UpperBound(n) = 2 ^ k
    BY <1>3 DEF UpperBound
  <2> HIDE DEF i, k
  <2>4. i \in 0..(Top + 1) /\ k \in 0..(Top + 1)
    BY <1>0, <2>1, <2>2
  <2>5. m <= 2 ^ k
    BY <2>1, <2>4, Powers
  <2>6. 2 ^ i <= 2 ^ k
    BY <2>1, <2>2, <2>4, <2>5, Powers
  <2> QED BY <2>3, <2>6
<1> QED BY <1>2, <1>3

\* What is at most a class larger than m is so when rounded up.
LEMMA RoundedAbove ==
    ASSUME NEW c \in Nat, NEW m \in Nat, c <= 2 ^ Top, m <= 2 ^ Top, c <= 2 * UpperBound(m)
    PROVE  UpperBound(c) <= 2 * UpperBound(m)
<1>0. Top \in Nat /\ 2 ^ Top \in Nat /\ 2 ^ 0 = 1
  <2>1. Top \in 0..(Top + 1)
    BY Powers
  <2> QED BY <2>1, Powers
<1>1. CASE c < 2
  <2>1. UpperBound(c) = c
    BY <1>1 DEF UpperBound
  <2> QED BY <2>1
<1>2. CASE m = 0
  <2>1. UpperBound(m) = 0
    BY <1>2 DEF UpperBound
  <2>2. c = 0
    BY <2>1
  <2>3. UpperBound(c) = c
    BY <2>2 DEF UpperBound
  <2> QED BY <2>3
<1>3. CASE m >= 1 /\ c >= 2
  <2>1. PICK i \in 0..Top : UpperBound(m) = 2 ^ i
    <3>1. CASE m = 1
      <4>1. UpperBound(m) = 2 ^ 0 /\ 0 \in 0..Top
        BY <1>0, <3>1 DEF UpperBound
      <4> QED BY <4>1
    <3>2. CASE m >= 2
      <4>1. IndexOf(m) \in 0..Top
        BY <3>2, Class
      <4>2. UpperBound(m) = 2 ^ IndexOf(m)
        BY <3>2 DEF UpperBound
      <4> QED BY <4>1, <4>2
    <3> QED BY <1>3, <3>1, <3>2
  <2> DEFINE u == UpperBound(m)
  <2> HIDE DEF u
  <2>2. u = 2 ^ i /\ c <= 2 * u
    BY <2>1 DEF u
  <2>3. u \in Nat /\ u >= 1
    <3>1. i \in 0..(Top + 1)
      BY <1>0
    <3> QED BY <2>2, <3>1, Powers
  <2>4. UpperBound(c) \in Nat /\ UpperBound(c) <= 2 ^ Top
    BY Rounding
  <2>5. CASE i = Top
    BY <1>0, <2>2, <2>3, <2>4, <2>5 DEF u
  <2>6. CASE i # Top
    <3> DEFINE j == IndexOf(c)
    <3>1. i + 1 \in 0..Top /\ 2 ^ (i + 1) = 2 * u
      BY <1>0, <2>2, <2>6, PowersOfTwo
    <3>2. j \in 0..Top /\ j <= i + 1
      <4>1. j \in 0..Top /\ \A k \in 0..Top : c <= 2 ^ k => j <= k
        BY <1>3, Class
      <4>2. c <= 2 ^ (i + 1)
        BY <2>2, <3>1
      <4> HIDE DEF j
      <4> QED BY <3>1, <4>1, <4>2
    <3>3. UpperBound(c) = 2 ^ j
      BY <1>3 DEF UpperBound
    <3> HIDE DEF j
    <3>4. j \in 0..(Top + 1) /\ i + 1 \in 0..(Top + 1)
      BY <1>0, <3>1, <3>2
    <3>5. 2 ^ j <= 2 ^ (i + 1)
      BY <3>2, <3>4, Powers
    <3> QED BY <3>1, <3>3, <3>5 DEF u
  <2> QED BY <2>5, <2>6
<1> QED BY <1>1, <1>2, <1>3

-----------------------------------------------------------------------------
(* Objects in lists                                                        *)

\* The lists hold the objects of w, each once.
Placed(ls, w) ==
    /\ ls \in [Lists -> Seq(Objects)]
    /\ \A l \in Lists : \A i \in DOMAIN ls[l] : ls[l][i] \in w
    /\ \A l, m \in Lists : \A i \in DOMAIN ls[l], j \in DOMAIN ls[m] :
        ls[l][i] = ls[m][j] => l = m /\ i = j
    /\ \A o \in w : \E l \in Lists : \E i \in DOMAIN ls[l] : ls[l][i] = o

\* pop: the last object leaves its list.
LEMMA TakenOut ==
    ASSUME NEW ls, NEW w, Placed(ls, w), NEW l \in Lists, ls[l] # <<>>,
           NEW ks \in [Lists -> Seq(Objects)], \A m \in Lists : m # l => ks[m] = ls[m],
           ks[l] = SubSeq(ls[l], 1, Len(ls[l]) - 1)
    PROVE  /\ Len(ls[l]) \in DOMAIN ls[l] /\ ls[l][Len(ls[l])] \in w
           /\ Placed(ks, w \ {ls[l][Len(ls[l])]})
           /\ \A m \in Lists :
                /\ Len(ks[m]) <= Len(ls[m])
                /\ \A i \in DOMAIN ks[m] : i \in DOMAIN ls[m] /\ ks[m][i] = ls[m][i]
<1> DEFINE n == Len(ls[l])
<1> DEFINE o == ls[l][n]
<1>0. ls \in [Lists -> Seq(Objects)] /\ ls[l] \in Seq(Objects)
  BY DEF Placed
<1>1. n \in Nat /\ n >= 1 /\ DOMAIN ls[l] = 1..n /\ n \in DOMAIN ls[l]
  BY <1>0, EmptySeq, LenProperties
<1>2. o \in w
  BY <1>1 DEF Placed
<1>3. /\ ks[l] = SubSeq(ls[l], 1, n - 1)
      /\ \A m \in Lists : m # l => ks[m] = ls[m]
  BY <1>0
<1>4. /\ ks[l] \in Seq(Objects) /\ Len(ks[l]) = n - 1 /\ DOMAIN ks[l] = 1..(n - 1)
      /\ \A i \in 1..(n - 1) : ks[l][i] = ls[l][i]
  <2> DEFINE s == ls[l]
  <2>1. s \in Seq(Objects) /\ n \in Nat /\ n >= 1 /\ n = Len(s)
    BY <1>0, <1>1
  <2> HIDE DEF s, n
  <2>2. SubSeq(s, 1, n - 1) \in Seq(Objects) /\ Len(SubSeq(s, 1, n - 1)) = n - 1
    BY <2>1
  <2>3. \A i \in 1..(n - 1) : SubSeq(s, 1, n - 1)[i] = s[i]
    BY <2>1
  <2>4. DOMAIN SubSeq(s, 1, n - 1) = 1..(n - 1)
    BY <2>1, <2>2, LenProperties
  <2> QED BY <1>3, <2>2, <2>3, <2>4 DEF s
<1>5. ASSUME NEW m \in Lists
      PROVE  /\ Len(ks[m]) <= Len(ls[m])
             /\ \A i \in DOMAIN ks[m] : i \in DOMAIN ls[m] /\ ks[m][i] = ls[m][i]
  <2>1. CASE m = l
    BY <1>1, <1>4, <2>1
  <2>2. CASE m # l
    <3>1. ks[m] = ls[m] /\ Len(ls[m]) \in Nat
      BY <1>0, <1>3, <2>2, LenProperties
    <3> QED BY <3>1
  <2> QED BY <2>1, <2>2
<1>6. ks \in [Lists -> Seq(Objects)]
  BY <1>0, <1>3, <1>4
<1>7. ASSUME NEW m \in Lists, NEW i \in DOMAIN ks[m] PROVE ks[m][i] \in w /\ ks[m][i] # o
  <2>1. i \in DOMAIN ls[m] /\ ks[m][i] = ls[m][i]
    BY <1>5
  <2>2. ls[m][i] \in w
    BY <2>1 DEF Placed
  <2>3. ASSUME ls[m][i] = ls[l][n] PROVE FALSE
    <3> HIDE DEF n
    <3>1. m = l /\ i = n
      BY <1>1, <2>1, <2>3 DEF Placed
    <3> QED BY <1>1, <1>4, <3>1
  <2> QED BY <2>1, <2>2, <2>3
<1>8. ASSUME NEW k \in Lists, NEW m \in Lists, NEW i \in DOMAIN ks[k], NEW j \in DOMAIN ks[m],
             ks[k][i] = ks[m][j]
      PROVE  k = m /\ i = j
  <2>1. i \in DOMAIN ls[k] /\ j \in DOMAIN ls[m] /\ ls[k][i] = ls[m][j]
    BY <1>5, <1>8
  <2> QED BY <2>1 DEF Placed
<1>9. ASSUME NEW p \in w, p # o
      PROVE  \E m \in Lists : \E i \in DOMAIN ks[m] : ks[m][i] = p
  <2>1. PICK m \in Lists : \E i \in DOMAIN ls[m] : ls[m][i] = p
    BY DEF Placed
  <2>1a. PICK i \in DOMAIN ls[m] : ls[m][i] = p
    BY <2>1
  <2>2. CASE m # l
    BY <1>3, <2>1a, <2>2
  <2>3. CASE m = l
    <3>1. i # n
      BY <1>9, <2>1a, <2>3
    <3>2. i \in 1..(n - 1)
      BY <1>1, <2>1a, <2>3, <3>1
    <3>3. i \in DOMAIN ks[m] /\ ks[m][i] = p
      BY <1>4, <2>1a, <2>3, <3>2
    <3> QED BY <3>3
  <2> QED BY <2>2, <2>3
<1>10. Placed(ks, w \ {o})
  BY <1>6, <1>7, <1>8, <1>9 DEF Placed
<1> QED BY <1>1, <1>2, <1>5, <1>10

\* push: an object that is in no list joins one at its end.
LEMMA PutIn ==
    ASSUME NEW ls, NEW w, Placed(ls, w), NEW l \in Lists, NEW o \in Objects, o \notin w,
           NEW ks \in [Lists -> Seq(Objects)], \A m \in Lists : m # l => ks[m] = ls[m],
           ks[l] = Append(ls[l], o)
    PROVE  /\ Placed(ks, w \cup {o})
           /\ Len(ks[l]) = Len(ls[l]) + 1
           /\ \A i \in DOMAIN ks[l] :
                \/ i \in DOMAIN ls[l] /\ ks[l][i] = ls[l][i]
                \/ ks[l][i] = o
<1> DEFINE s == ls[l]
<1>0. ls \in [Lists -> Seq(Objects)] /\ s \in Seq(Objects)
  BY DEF Placed
<1>1. ks[l] = Append(s, o) /\ \A m \in Lists : m # l => ks[m] = ls[m]
  BY <1>0
<1>2. ks \in [Lists -> Seq(Objects)]
  <2>1. Append(s, o) \in Seq(Objects)
    BY <1>0, AppendProperties
  <2> QED BY <1>0, <2>1
<1>3. /\ Len(s) \in Nat /\ DOMAIN s = 1..Len(s)
      /\ Len(ks[l]) = Len(s) + 1 /\ DOMAIN ks[l] = 1..(Len(s) + 1)
      /\ ks[l][Len(s) + 1] = o /\ \A i \in 1..Len(s) : ks[l][i] = s[i]
  <2>1. s \in Seq(Objects) /\ ks[l] = Append(s, o)
    BY <1>0, <1>1
  <2> HIDE DEF s
  <2>2. Len(s) \in Nat /\ DOMAIN s = 1..Len(s)
    BY <2>1, LenProperties
  <2>3. Append(s, o) \in Seq(Objects) /\ Len(Append(s, o)) = Len(s) + 1
    BY <2>1, AppendProperties
  <2>4. DOMAIN Append(s, o) = 1..(Len(s) + 1)
    BY <2>3, LenProperties
  <2>5. Append(s, o)[Len(s) + 1] = o /\ \A i \in 1..Len(s) : Append(s, o)[i] = s[i]
    BY <2>1, AppendProperties
  <2> QED BY <2>1, <2>2, <2>3, <2>4, <2>5
<1>4. \A i \in DOMAIN ks[l] :
        \/ i \in DOMAIN s /\ ks[l][i] = s[i]
        \/ i = Len(s) + 1 /\ ks[l][i] = o
  <2> HIDE DEF s
  <2>1. ASSUME NEW i \in 1..(Len(s) + 1) PROVE i \in 1..Len(s) \/ i = Len(s) + 1
    BY <1>3
  <2> QED BY <1>3, <2>1
<1>5. ASSUME NEW m \in Lists, NEW i \in DOMAIN ks[m]
      PROVE  \/ i \in DOMAIN ls[m] /\ ks[m][i] = ls[m][i]
             \/ m = l /\ i = Len(s) + 1 /\ ks[m][i] = o
  <2>1. CASE m = l
    BY <1>4, <2>1
  <2>2. CASE m # l
    BY <1>1, <2>2
  <2> QED BY <2>1, <2>2
<1>6. ASSUME NEW m \in Lists, NEW i \in DOMAIN ks[m] PROVE ks[m][i] \in w \cup {o}
  BY <1>5 DEF Placed
<1>7. ASSUME NEW k \in Lists, NEW m \in Lists, NEW i \in DOMAIN ks[k], NEW j \in DOMAIN ks[m],
             ks[k][i] = ks[m][j]
      PROVE  k = m /\ i = j
  <2>1. \/ i \in DOMAIN ls[k] /\ ks[k][i] = ls[k][i] /\ ls[k][i] \in w
        \/ k = l /\ i = Len(s) + 1 /\ ks[k][i] = o
    BY <1>5 DEF Placed
  <2>2. \/ j \in DOMAIN ls[m] /\ ks[m][j] = ls[m][j] /\ ls[m][j] \in w
        \/ m = l /\ j = Len(s) + 1 /\ ks[m][j] = o
    BY <1>5 DEF Placed
  <2>3. CASE i \in DOMAIN ls[k] /\ j \in DOMAIN ls[m] /\ ls[k][i] = ls[m][j]
    BY <2>3 DEF Placed
  <2>4. CASE k = l /\ m = l /\ i = Len(s) + 1 /\ j = Len(s) + 1
    BY <2>4
  <2> HIDE DEF s
  <2> QED BY <1>7, <2>1, <2>2, <2>3, <2>4
<1>8. ASSUME NEW p \in w \cup {o} PROVE \E m \in Lists : \E i \in DOMAIN ks[m] : ks[m][i] = p
  <2>1. CASE p = o
    <3>1. Len(s) + 1 \in DOMAIN ks[l]
      BY <1>3
    <3> QED BY <1>3, <2>1, <3>1
  <2>2. CASE p \in w
    <3>1. PICK m \in Lists : \E i \in DOMAIN ls[m] : ls[m][i] = p
      BY <2>2 DEF Placed
    <3>1a. PICK i \in DOMAIN ls[m] : ls[m][i] = p
      BY <3>1
    <3>2. CASE m = l
      <4>1. i \in 1..Len(s) /\ i \in 1..(Len(s) + 1)
        BY <1>3, <3>1a, <3>2
      <4> QED BY <1>3, <3>1a, <3>2, <4>1
    <3>3. CASE m # l
      BY <1>1, <3>1a, <3>3
    <3> QED BY <3>2, <3>3
  <2> QED BY <2>1, <2>2
<1>9. Placed(ks, w \cup {o})
  BY <1>2, <1>6, <1>7, <1>8 DEF Placed
<1> QED BY <1>1, <1>3, <1>4, <1>9

\* clear: the objects of some lists leave them.
LEMMA Emptied ==
    ASSUME NEW ls, NEW w, Placed(ls, w), NEW gone \in SUBSET Lists
    PROVE  Placed([l \in Lists |-> IF l \in gone THEN <<>> ELSE ls[l]],
                  w \ UNION {{ls[l][i] : i \in DOMAIN ls[l]} : l \in gone})
<1> DEFINE ks == [l \in Lists |-> IF l \in gone THEN <<>> ELSE ls[l]]
<1> DEFINE out == UNION {{ls[l][i] : i \in DOMAIN ls[l]} : l \in gone}
<1>0. ls \in [Lists -> Seq(Objects)]
  BY DEF Placed
<1>1. ks \in [Lists -> Seq(Objects)]
  <2>1. <<>> \in Seq(Objects)
    BY EmptySeq
  <2> QED BY <1>0, <2>1
<1>2. ASSUME NEW l \in Lists PROVE IF l \in gone THEN ks[l] = <<>> ELSE ks[l] = ls[l]
  OBVIOUS
<1>3. ASSUME NEW l \in Lists, NEW i \in DOMAIN ks[l] PROVE l \notin gone /\ ks[l] = ls[l]
  <2>1. DOMAIN <<>> = {}
    OBVIOUS
  <2> HIDE DEF ks
  <2> QED BY <1>2, <1>3, <2>1
<1>4. \A p : p \in out <=> \E l \in gone : \E i \in DOMAIN ls[l] : ls[l][i] = p
  OBVIOUS
<1> HIDE DEF ks, out
<1>5. ASSUME NEW l \in Lists, NEW i \in DOMAIN ks[l] PROVE ks[l][i] \in w \ out
  <2>1. l \notin gone /\ ks[l] = ls[l] /\ i \in DOMAIN ls[l]
    BY <1>3
  <2>2. ls[l][i] \in w
    BY <2>1 DEF Placed
  <2>3. ASSUME NEW m \in gone, NEW j \in DOMAIN ls[m], ls[m][j] = ls[l][i] PROVE FALSE
    <3>1. m \in Lists
      OBVIOUS
    <3>2. m = l
      BY <2>1, <2>3, <3>1 DEF Placed
    <3> QED BY <2>1, <3>2
  <2> QED BY <1>4, <2>1, <2>2, <2>3
<1>6. ASSUME NEW k \in Lists, NEW m \in Lists, NEW i \in DOMAIN ks[k], NEW j \in DOMAIN ks[m],
             ks[k][i] = ks[m][j]
      PROVE  k = m /\ i = j
  <2>1. ks[k] = ls[k] /\ ks[m] = ls[m]
    BY <1>3
  <2> QED BY <1>6, <2>1 DEF Placed
<1>7. ASSUME NEW p \in w \ out PROVE \E m \in Lists : \E i \in DOMAIN ks[m] : ks[m][i] = p
  <2>1. PICK m \in Lists : \E i \in DOMAIN ls[m] : ls[m][i] = p
    BY DEF Placed
  <2>1a. PICK i \in DOMAIN ls[m] : ls[m][i] = p
    BY <2>1
  <2>2. m \notin gone
    BY <1>4, <2>1a
  <2> QED BY <1>2, <2>1a, <2>2
<1>8. Placed(ks, w \ out)
  BY <1>1, <1>5, <1>6, <1>7 DEF Placed
<1> QED BY <1>8 DEF ks, out

-----------------------------------------------------------------------------
(* The invariant of the caches                                             *)

CacheTypes ==
    /\ doubles \in BOOLEAN /\ limit \in Nat /\ limit <= Limit
    /\ born \in SUBSET Objects /\ held \in SUBSET born /\ dirty \in SUBSET held
    /\ cap \in [Objects -> Nat] /\ most \in [Objects -> Nat]

\* What is in a list is as large as its class.
ClassesFit == \A l \in Sized : \A i \in DOMAIN lists[l] : cap[lists[l][i]] >= 2 ^ l

\* Every object, the waiting ones too, is as large as anybody wanted it.
Enough == \A o \in born : cap[o] >= most[o]

\* A vector is at most a class larger than the most anybody wanted of it.
NoWaste == \A o \in born : ~doubles /\ most[o] <= 2 ^ Top => cap[o] <= 2 * UpperBound(most[o])

CacheInv ==
    /\ CacheTypes /\ Placed(lists, born \ held)
    /\ \A l \in Lists : Len(lists[l]) <= limit
    /\ ClassesFit /\ Enough /\ NoWaste

\* A list without its last object, and a list with one more, are lists.
LEMMA ListsType ==
    ASSUME NEW ls \in [Lists -> Seq(Objects)], NEW l \in Lists
    PROVE  /\ ls[l] # <<>> => [ls EXCEPT ![l] = SubSeq(@, 1, Len(@) - 1)] \in [Lists -> Seq(Objects)]
           /\ \A o \in Objects : [ls EXCEPT ![l] = Append(@, o)] \in [Lists -> Seq(Objects)]
<1>1. ASSUME NEW s \in Seq(Objects), s # <<>> PROVE SubSeq(s, 1, Len(s) - 1) \in Seq(Objects)
  <2>1. Len(s) \in Nat /\ Len(s) >= 1
    BY <1>1, EmptySeq, LenProperties
  <2> QED BY <2>1
<1>2. ASSUME NEW s \in Seq(Objects), NEW o \in Objects PROVE Append(s, o) \in Seq(Objects)
  BY AppendProperties
<1> QED BY <1>1, <1>2

\* No list gains an object.
Fewer ==
    \A l \in Lists :
        /\ Len(lists'[l]) <= Len(lists[l])
        /\ \A i \in DOMAIN lists'[l] : i \in DOMAIN lists[l] /\ lists'[l][i] = lists[l][i]

\* A step that puts nothing in a list keeps the caches right, if those objects
\* whose size it changes are with the user and large enough.
LEMMA HandedOut ==
    ASSUME CacheInv, UNCHANGED <<doubles, limit>>,
           born' \in SUBSET Objects, held' \in SUBSET born', dirty' \in SUBSET held',
           cap' \in [Objects -> Nat], most' \in [Objects -> Nat],
           Placed(lists', born' \ held'), Fewer,
           \A o \in born' :
              \/ o \in born /\ cap'[o] = cap[o] /\ most'[o] = most[o]
              \/ /\ o \in held' /\ cap'[o] >= most'[o]
                 /\ ~doubles /\ most'[o] <= 2 ^ Top => cap'[o] <= 2 * UpperBound(most'[o])
    PROVE  CacheInv'
<1>1. CacheTypes'
  BY DEF CacheInv, CacheTypes
<1>2. ASSUME NEW l \in Lists PROVE Len(lists'[l]) <= limit'
  <2>1. /\ lists \in [Lists -> Seq(Objects)] /\ lists' \in [Lists -> Seq(Objects)]
        /\ Len(lists'[l]) <= Len(lists[l]) /\ Len(lists[l]) <= limit
        /\ limit' = limit /\ limit \in Nat
    BY DEF CacheInv, CacheTypes, Placed, Fewer
  <2>2. Len(lists'[l]) \in Nat /\ Len(lists[l]) \in Nat
    BY <2>1, LenProperties
  <2> QED BY <2>1, <2>2
<1>3. ASSUME NEW l \in Sized, NEW i \in DOMAIN lists'[l] PROVE cap'[lists'[l][i]] >= 2 ^ l
  <2>1. l \in Lists
    BY DEF Lists
  <2>2. i \in DOMAIN lists[l] /\ lists'[l][i] = lists[l][i]
    BY <2>1 DEF Fewer
  <2>3. lists'[l][i] \in born' \ held'
    BY <2>1 DEF Placed
  <2>4. cap'[lists'[l][i]] = cap[lists'[l][i]]
    BY <2>3
  <2>5. cap[lists[l][i]] >= 2 ^ l
    BY <2>2 DEF CacheInv, ClassesFit
  <2> QED BY <2>2, <2>4, <2>5
<1>4. ASSUME NEW o \in born' PROVE cap'[o] >= most'[o]
  BY DEF CacheInv, Enough
<1>5. ASSUME NEW o \in born', ~doubles', most'[o] <= 2 ^ Top
      PROVE  cap'[o] <= 2 * UpperBound(most'[o])
  BY <1>5 DEF CacheInv, NoWaste
<1>6. ClassesFit' /\ Enough'
  BY <1>3, <1>4 DEF ClassesFit, Enough
<1>7. NoWaste'
  BY <1>5 DEF NoWaste
<1>8. Placed(lists, born \ held)'
  OBVIOUS
<1> QED BY <1>1, <1>2, <1>6, <1>7, <1>8 DEF CacheInv

\* pop hands out an object that was in a list or is new, and the user did not
\* have.
LEMMA PopGives ==
    ASSUME CacheInv, NEW l \in Lists, NEW o \in Objects, Popped(l, o), held' = held \cup {o}
    PROVE  /\ born' = born \cup {o} /\ o \notin held
           /\ Placed(lists', born' \ held') /\ Fewer
<1>0. CacheTypes /\ Placed(lists, born \ held)
  BY DEF CacheInv
<1>1. CASE lists[l] # <<>>
  <2>1. o = lists[l][Len(lists[l])] /\ lists' = Without(l) /\ born' = born
    BY <1>1 DEF Popped
  <2> DEFINE w == born \ held
  <2>2. /\ lists[l][Len(lists[l])] \in w
        /\ Placed(Without(l), w \ {lists[l][Len(lists[l])]})
        /\ \A m \in Lists :
             /\ Len(Without(l)[m]) <= Len(lists[m])
             /\ \A i \in DOMAIN Without(l)[m] :
                  i \in DOMAIN lists[m] /\ Without(l)[m][i] = lists[m][i]
    <3> HIDE DEF w
    <3>1. Placed(lists, w)
      BY <1>0 DEF w
    <3> DEFINE ks == Without(l)
    <3>2. /\ ks \in [Lists -> Seq(Objects)] /\ \A m \in Lists : m # l => ks[m] = lists[m]
          /\ ks[l] = SubSeq(lists[l], 1, Len(lists[l]) - 1)
      <4>1. lists \in [Lists -> Seq(Objects)]
        BY <1>0 DEF Placed
      <4>2. ks \in [Lists -> Seq(Objects)]
        BY <1>1, <4>1, ListsType DEF Without
      <4> QED BY <4>1, <4>2 DEF Without
    <3> HIDE DEF ks
    <3>3. lists[l][Len(lists[l])] \in w
      BY <1>1, <3>1, <3>2, TakenOut
    <3>4. Placed(ks, w \ {lists[l][Len(lists[l])]})
      BY <1>1, <3>1, <3>2, TakenOut
    <3>5. \A m \in Lists :
            /\ Len(ks[m]) <= Len(lists[m])
            /\ \A i \in DOMAIN ks[m] : i \in DOMAIN lists[m] /\ ks[m][i] = lists[m][i]
      BY <1>1, <3>1, <3>2, TakenOut
    <3> QED BY <3>3, <3>4, <3>5 DEF ks
  <2>3. o \in w /\ born' \ held' = w \ {o}
    BY <2>1, <2>2
  <2> HIDE DEF w
  <2>4. Placed(lists', born' \ held')
    BY <2>1, <2>2, <2>3
  <2>5. Fewer
    BY <2>1, <2>2 DEF Fewer
  <2>6. born' = born \cup {o} /\ o \notin held
    BY <2>1, <2>3 DEF w
  <2> QED BY <2>4, <2>5, <2>6
<1>2. CASE lists[l] = <<>>
  <2>1. o \notin born /\ born' = born \cup {o} /\ lists' = lists
    BY <1>2 DEF Popped
  <2>2. o \notin held /\ born' \ held' = born \ held
    BY <1>0, <2>1 DEF CacheTypes
  <2>3. Fewer
    <3>1. lists \in [Lists -> Seq(Objects)]
      BY <1>0 DEF Placed
    <3>2. \A m \in Lists : Len(lists[m]) \in Nat
      BY <3>1, LenProperties
    <3> QED BY <2>1, <3>2 DEF Fewer
  <2> QED BY <1>0, <2>1, <2>2, <2>3
<1> QED BY <1>1, <1>2

\* What reserve leaves is at least what was there and what was asked, and of a
\* vector no more.
LEMMA ReservedSize ==
    ASSUME NEW c \in Nat, NEW n \in Nat, doubles \in BOOLEAN
    PROVE  /\ Reserved(c, n) \in Nat /\ Reserved(c, n) >= c /\ Reserved(c, n) >= n
           /\ ~doubles => Reserved(c, n) \in {c, n}
<1>1. CASE n <= c
  BY <1>1 DEF Reserved
<1>2. CASE ~(n <= c) /\ doubles /\ n < 2 * c
  BY <1>2 DEF Reserved
<1>3. CASE ~(n <= c) /\ ~(doubles /\ n < 2 * c)
  BY <1>3 DEF Reserved
<1> QED BY <1>1, <1>2, <1>3

\* What filling leaves is at least what was there and what was filled in, and of
\* a vector it is what was there or at most twice what was filled in.
LEMMA GrownSize ==
    ASSUME NEW c \in Nat, NEW n \in Nat, doubles \in BOOLEAN, NEW v \in Grown(c, n)
    PROVE  /\ v \in Nat /\ v >= c /\ v >= n
           /\ ~doubles => v = c \/ v <= 2 * n
<1>1. CASE n <= c
  BY <1>1 DEF Grown
<1>2. CASE ~(n <= c) /\ doubles
  <2>1. v = Reserved(c, n)
    BY <1>2 DEF Grown
  <2> QED BY <1>2, <2>1, ReservedSize
<1>3. CASE ~(n <= c) /\ ~doubles
  <2>1. v = n \/ v \in n..(2 * n - 1)
    BY <1>3 DEF Grown
  <2> QED BY <1>3, <2>1
<1> QED BY <1>1, <1>2, <1>3

\* The highest class is a number.
LEMMA TopPower == 2 ^ Top \in Nat /\ Top \in Nat
<1>1. Top \in 0..(Top + 1)
  BY Powers
<1> QED BY <1>1, Powers

\* An object of c bytes, large enough and not too large for m, is so for the
\* larger of m and n once it has v bytes, unless v is more than a class too
\* large for n.
LEMMA GrownFits ==
    ASSUME NEW c \in Nat, NEW m \in Nat, NEW n \in Nat, NEW v \in Nat, v >= c, v >= n,
           c >= m, ~doubles /\ m <= 2 ^ Top => c <= 2 * UpperBound(m),
           ~doubles /\ n <= 2 ^ Top => v = c \/ v <= 2 * UpperBound(n)
    PROVE  LET k == IF m > n THEN m ELSE n
           IN  /\ k \in Nat /\ v >= k
               /\ ~doubles /\ k <= 2 ^ Top => v <= 2 * UpperBound(k)
<1> DEFINE k == IF m > n THEN m ELSE n
<1>1. k \in Nat /\ k >= m /\ k >= n /\ k \in {m, n}
  OBVIOUS
<1> HIDE DEF k
<1>2. v >= k
  BY <1>1
<1>3. ASSUME ~doubles, k <= 2 ^ Top PROVE v <= 2 * UpperBound(k)
  <2>1. m <= 2 ^ Top /\ n <= 2 ^ Top
    BY <1>1, <1>3, TopPower
  <2>2. UpperBound(m) <= UpperBound(k) /\ UpperBound(n) <= UpperBound(k)
    BY <1>1, <1>3, Monotone
  <2>3. UpperBound(m) \in Nat /\ UpperBound(n) \in Nat /\ UpperBound(k) \in Nat
    BY <1>1, <1>3, <2>1, Rounding
  <2>4. c <= 2 * UpperBound(m) /\ (v = c \/ v <= 2 * UpperBound(n))
    BY <1>3, <2>1
  <2> QED BY <2>2, <2>3, <2>4
<1> QED BY <1>1, <1>2, <1>3 DEF k

\* get looks in a list that there is and reserves as much as was asked or a
\* class more.
LEMMA SourceList ==
    ASSUME NEW n \in 0..(2 ^ Top + 1)
    PROVE  /\ Source(n) \in Lists /\ n \in Nat /\ Wanted(n) \in Nat /\ Wanted(n) >= n
           /\ n <= 2 ^ Top => Wanted(n) <= UpperBound(n)
<1>0. n \in Nat /\ 2 ^ Top \in Nat
  BY TopPower
<1>1. CASE n = 0
  <2>1. Source(n) = Empty
    BY <1>1 DEF Source
  <2>2. Wanted(n) = UpperBound(n) /\ UpperBound(n) = 0
    BY <1>0, <1>1 DEF Wanted, UpperBound
  <2> QED BY <1>0, <1>1, <2>1, <2>2 DEF Lists
<1>2. CASE n > 2 ^ Top
  <2>1. Source(n) = Big /\ Wanted(n) = n
    BY <1>0, <1>2 DEF Source, Wanted
  <2> QED BY <1>0, <1>2, <2>1 DEF Lists
<1>3. CASE n # 0 /\ ~(n > 2 ^ Top)
  <2>1. Source(n) = ListFor(IndexOf(n)) /\ Wanted(n) = UpperBound(n)
    BY <1>3 DEF Source, Wanted
  <2>2. 1 <= n /\ n <= 2 ^ Top
    BY <1>0, <1>3
  <2>3. IndexOf(n) \in Sized
    <3>1. IndexOf(n) \in 0..Top
      BY <1>0, <2>2, Class
    <3> QED BY <3>1 DEF Sized
  <2>4. ASSUME NEW i \in Sized PROVE ListFor(i) \in Sized
    <3> DEFINE full == {j \in Sized : j >= i /\ lists[j] # <<>>}
    <3>1. ListFor(i) = IF full = {} THEN i ELSE CHOOSE j \in full : \A k \in full : j <= k
      BY DEF ListFor
    <3>2. full \in SUBSET Nat /\ full \subseteq Sized
      BY TopPower DEF Sized
    <3> HIDE DEF full
    <3>3. CASE full = {}
      BY <3>1, <3>3
    <3>4. CASE full # {}
      <4>1. \E j \in full : \A k \in full : j <= k
        BY <3>2, <3>4, LeastNumber
      <4> QED BY <3>1, <3>2, <3>4, <4>1
    <3> QED BY <3>3, <3>4
  <2>5. Source(n) \in Lists
    BY <2>1, <2>3, <2>4 DEF Lists
  <2>6. UpperBound(n) \in Nat /\ n <= UpperBound(n)
    BY <1>0, <2>2, Rounding
  <2> QED BY <1>0, <2>1, <2>5, <2>6
<1> QED BY <1>1, <1>2, <1>3

\* A new object is not too large for nothing.
LEMMA InitialFits ==
    ASSUME doubles \in BOOLEAN
    PROVE  InitialCap \in Nat /\ UpperBound(0) = 0 /\ (~doubles => InitialCap = 0)
  BY DEF InitialCap, UpperBound

\* get_raw keeps the caches right.
LEMMA GetRawKeeps ==
    ASSUME CacheInv, NEW n \in 0..(2 ^ Top + 1), GetRaw(n)
    PROVE  CacheInv'
<1>0. CacheTypes /\ n \in Nat /\ Wanted(n) \in Nat /\ Source(n) \in Lists
  BY SourceList DEF CacheInv
<1>1. PICK o \in Objects :
        /\ Popped(Source(n), o) /\ held' = held \cup {o}
        /\ cap' = [cap EXCEPT ![o] = Reserved(CapOf(o), Wanted(n))]
        /\ most' = [most EXCEPT ![o] = IF o \in born /\ @ > n THEN @ ELSE n]
  BY DEF GetRaw
<1>2. UNCHANGED <<doubles, limit, dirty>>
  BY DEF GetRaw, Op
<1>3. /\ born' = born \cup {o} /\ o \notin held
      /\ Placed(lists', born' \ held') /\ Fewer
  BY <1>0, <1>1, PopGives
<1> DEFINE c == CapOf(o)
<1> DEFINE m == IF o \in born THEN most[o] ELSE 0
<1> DEFINE v == Reserved(c, Wanted(n))
<1> DEFINE k == IF m > n THEN m ELSE n
<1>4. /\ c \in Nat /\ m \in Nat /\ c >= m
      /\ ~doubles /\ m <= 2 ^ Top => c <= 2 * UpperBound(m)
  <2>1. CASE o \in born
    <3>1. c = cap[o] /\ m = most[o]
      BY <2>1 DEF CapOf
    <3>2. cap[o] \in Nat /\ most[o] \in Nat
      BY <1>0 DEF CacheTypes
    <3> QED BY <2>1, <3>1, <3>2 DEF CacheInv, Enough, NoWaste
  <2>2. CASE o \notin born
    <3>1. c = InitialCap /\ m = 0
      BY <2>2 DEF CapOf
    <3>2. InitialCap \in Nat /\ UpperBound(0) = 0 /\ (~doubles => InitialCap = 0)
      BY <1>0, InitialFits DEF CacheTypes
    <3> HIDE DEF c, m
    <3> QED BY <3>1, <3>2
  <2> QED BY <2>1, <2>2
<1>5. doubles \in BOOLEAN /\ Wanted(n) >= n /\ (n <= 2 ^ Top => Wanted(n) <= UpperBound(n))
  BY <1>0, SourceList DEF CacheTypes
<1>6. /\ v \in Nat /\ k \in Nat /\ v >= k
      /\ ~doubles /\ k <= 2 ^ Top => v <= 2 * UpperBound(k)
  <2> HIDE DEF c, m
  <2>1. v \in Nat /\ v >= c /\ v >= Wanted(n) /\ (~doubles => v \in {c, Wanted(n)})
    BY <1>0, <1>4, <1>5, ReservedSize
  <2> HIDE DEF v
  <2>2. v >= n
    BY <1>0, <1>5, <2>1
  <2>3. ASSUME ~doubles, n <= 2 ^ Top PROVE v = c \/ v <= 2 * UpperBound(n)
    <3>1. UpperBound(n) \in Nat
      BY <1>0, <2>3, Rounding
    <3> QED BY <1>0, <1>5, <2>1, <2>3, <3>1
  <2> QED BY <1>0, <1>4, <2>1, <2>2, <2>3, GrownFits
<1>7. cap \in [Objects -> Nat] /\ most \in [Objects -> Nat]
  BY <1>0 DEF CacheTypes
<1>8. (IF o \in born /\ most[o] > n THEN most[o] ELSE n) = k
  <2>1. CASE o \in born
    BY <2>1
  <2>2. CASE o \notin born
    BY <1>0, <2>2
  <2> QED BY <2>1, <2>2
<1> HIDE DEF c, m, v, k
<1>9. cap' = [cap EXCEPT ![o] = v] /\ most' = [most EXCEPT ![o] = k]
  BY <1>1, <1>7, <1>8 DEF v, c
<1>10. /\ cap' \in [Objects -> Nat] /\ most' \in [Objects -> Nat]
       /\ cap'[o] = v /\ most'[o] = k
       /\ \A p \in Objects : p # o => cap'[p] = cap[p] /\ most'[p] = most[p]
  BY <1>6, <1>7, <1>9
<1>11. ASSUME NEW p \in born'
       PROVE  \/ p \in born /\ cap'[p] = cap[p] /\ most'[p] = most[p]
              \/ /\ p \in held' /\ cap'[p] >= most'[p]
                 /\ ~doubles /\ most'[p] <= 2 ^ Top => cap'[p] <= 2 * UpperBound(most'[p])
  <2>1. p \in Objects
    BY <1>0, <1>3 DEF CacheTypes
  <2>2. CASE p = o
    BY <1>1, <1>6, <1>10, <2>2
  <2>3. CASE p # o
    BY <1>3, <1>10, <2>1, <2>3
  <2> QED BY <2>2, <2>3
<1>12. born' \in SUBSET Objects /\ held' \in SUBSET born' /\ dirty' \in SUBSET held'
  BY <1>0, <1>1, <1>2, <1>3 DEF CacheTypes
<1> QED BY <1>2, <1>3, <1>10, <1>11, <1>12, HandedOut

\* get_raw of the plain cache keeps the caches right.
LEMMA GetPlainKeeps == ASSUME CacheInv, GetPlain PROVE CacheInv'
<1>0. CacheTypes /\ Plain \in Lists
  BY DEF CacheInv, Lists
<1>1. PICK o \in Objects :
        /\ Popped(Plain, o) /\ held' = held \cup {o}
        /\ cap' = [cap EXCEPT ![o] = CapOf(o)]
        /\ most' = [most EXCEPT ![o] = IF o \in born THEN @ ELSE 0]
  BY DEF GetPlain
<1>2. UNCHANGED <<doubles, limit, dirty>>
  BY DEF GetPlain, Op
<1>3. /\ born' = born \cup {o} /\ o \notin held
      /\ Placed(lists', born' \ held') /\ Fewer
  BY <1>0, <1>1, PopGives
<1>4. cap \in [Objects -> Nat] /\ most \in [Objects -> Nat]
  BY <1>0 DEF CacheTypes
<1>5. InitialCap \in Nat /\ UpperBound(0) = 0 /\ (~doubles => InitialCap = 0)
  BY <1>0, InitialFits DEF CacheTypes
<1>6. CapOf(o) \in Nat
  BY <1>4, <1>5 DEF CapOf
<1>7. /\ cap' \in [Objects -> Nat] /\ most' \in [Objects -> Nat]
      /\ cap'[o] = CapOf(o) /\ most'[o] = (IF o \in born THEN most[o] ELSE 0)
      /\ \A p \in Objects : p # o => cap'[p] = cap[p] /\ most'[p] = most[p]
  BY <1>1, <1>4, <1>6
<1>8. ASSUME NEW p \in born'
      PROVE  \/ p \in born /\ cap'[p] = cap[p] /\ most'[p] = most[p]
             \/ /\ p \in held' /\ cap'[p] >= most'[p]
                /\ ~doubles /\ most'[p] <= 2 ^ Top => cap'[p] <= 2 * UpperBound(most'[p])
  <2>1. p \in Objects
    BY <1>0, <1>3 DEF CacheTypes
  <2>2. CASE p \in born
    BY <1>7, <2>1, <2>2 DEF CapOf
  <2>3. CASE p \notin born
    <3>1. p = o
      BY <1>3, <2>3
    <3>2. cap'[p] = InitialCap /\ most'[p] = 0
      BY <1>7, <2>3, <3>1 DEF CapOf
    <3> QED BY <1>1, <1>5, <3>1, <3>2
  <2> QED BY <2>2, <2>3
<1>9. born' \in SUBSET Objects /\ held' \in SUBSET born' /\ dirty' \in SUBSET held'
  BY <1>0, <1>1, <1>2, <1>3 DEF CacheTypes
<1> QED BY <1>2, <1>3, <1>7, <1>8, <1>9, HandedOut

\* Filling an object keeps the caches right.
LEMMA WriteKeeps ==
    ASSUME CacheInv, NEW o \in Objects, NEW n \in 0..(2 ^ Top + 1), Write(o, n)
    PROVE  CacheInv'
<1>0. CacheTypes /\ n \in Nat /\ o \in held /\ o \in born
  BY SourceList DEF CacheInv, CacheTypes, Write
<1>1. /\ dirty' = dirty \cup {o}
      /\ \E v \in Grown(cap[o], n) : cap' = [cap EXCEPT ![o] = v]
      /\ most' = [most EXCEPT ![o] = IF @ > n THEN @ ELSE n]
      /\ UNCHANGED <<born, held, lists, doubles, limit>>
  BY DEF Write, Op
<1>2. /\ cap \in [Objects -> Nat] /\ most \in [Objects -> Nat] /\ doubles \in BOOLEAN
      /\ cap[o] \in Nat /\ most[o] \in Nat
  BY <1>0 DEF CacheTypes
<1>3. cap[o] >= most[o] /\ (~doubles /\ most[o] <= 2 ^ Top => cap[o] <= 2 * UpperBound(most[o]))
  BY <1>0 DEF CacheInv, Enough, NoWaste
<1> DEFINE c == cap[o]
<1> DEFINE m == most[o]
<1> DEFINE k == IF m > n THEN m ELSE n
<1>3a. PICK v \in Grown(c, n) : cap' = [cap EXCEPT ![o] = v]
  BY <1>1
<1>4. /\ v \in Nat /\ k \in Nat /\ v >= k
      /\ ~doubles /\ k <= 2 ^ Top => v <= 2 * UpperBound(k)
  <2>1. /\ c \in Nat /\ m \in Nat /\ c >= m
        /\ ~doubles /\ m <= 2 ^ Top => c <= 2 * UpperBound(m)
    BY <1>2, <1>3
  <2> HIDE DEF c, m
  <2>2. v \in Nat /\ v >= c /\ v >= n /\ (~doubles => v = c \/ v <= 2 * n)
    BY <1>0, <1>2, <2>1, GrownSize
  <2>3. ASSUME ~doubles, n <= 2 ^ Top PROVE v = c \/ v <= 2 * UpperBound(n)
    <3>1. UpperBound(n) \in Nat /\ n <= UpperBound(n)
      BY <1>0, <2>3, Rounding
    <3> QED BY <1>0, <2>2, <2>3, <3>1
  <2> QED BY <1>0, <2>1, <2>2, <2>3, GrownFits
<1>5. /\ cap'[o] = v /\ most'[o] = k
      /\ \A p \in Objects : p # o => cap'[p] = cap[p] /\ most'[p] = most[p]
  BY <1>1, <1>2, <1>3a
<1> HIDE DEF k
<1>6. cap' \in [Objects -> Nat] /\ most' \in [Objects -> Nat]
  BY <1>1, <1>2, <1>3a, <1>4 DEF k
<1>7. ASSUME NEW p \in born'
      PROVE  \/ p \in born /\ cap'[p] = cap[p] /\ most'[p] = most[p]
             \/ /\ p \in held' /\ cap'[p] >= most'[p]
                /\ ~doubles /\ most'[p] <= 2 ^ Top => cap'[p] <= 2 * UpperBound(most'[p])
  <2>1. p \in Objects
    BY <1>0, <1>1 DEF CacheTypes
  <2>2. CASE p = o
    BY <1>0, <1>1, <1>4, <1>5, <2>2
  <2>3. CASE p # o
    BY <1>1, <1>5, <2>1, <2>3
  <2> QED BY <2>2, <2>3
<1>8. born' \in SUBSET Objects /\ held' \in SUBSET born' /\ dirty' \in SUBSET held'
  BY <1>0, <1>1 DEF CacheTypes
<1>9. Placed(lists', born' \ held') /\ lists \in [Lists -> Seq(Objects)]
  BY <1>1 DEF CacheInv, Placed
<1>10. Fewer
  <2>1. \A l \in Lists : Len(lists[l]) \in Nat
    BY <1>9, LenProperties
  <2> QED BY <1>1, <2>1 DEF Fewer
<1> QED BY <1>1, <1>6, <1>7, <1>8, <1>9, <1>10, HandedOut

\* The list an object goes to is one that there is, and a class of the sizes
\* only for what the class below rounds up to.
LEMMA TargetList ==
    ASSUME NEW o \in Objects, cap \in [Objects -> Nat]
    PROVE  /\ Target(o) \in Lists
           /\ Target(o) \in Sized =>
                cap[o] <= 2 ^ Top /\ 2 ^ Target(o) <= UpperBound(cap[o])
<1> DEFINE c == cap[o]
<1>0. c \in Nat /\ Target(o) = IF c = 0 THEN Empty ELSE IF c > 2 ^ Top THEN Big ELSE IndexOf(UpperBound(c))
  BY DEF Target
<1>1. Empty \notin Sized /\ Big \notin Sized
  BY TopPower DEF Empty, Big, Sized
<1> HIDE DEF c
<1>2. CASE c = 0
  BY <1>0, <1>1, <1>2 DEF Lists
<1>3. CASE c # 0 /\ c > 2 ^ Top
  BY <1>0, <1>1, <1>3 DEF Lists
<1>4. CASE c # 0 /\ ~(c > 2 ^ Top)
  <2>1. Target(o) = IndexOf(UpperBound(c))
    BY <1>0, <1>4
  <2>2. 1 <= c /\ c <= 2 ^ Top
    BY <1>0, <1>4, TopPower
  <2>3. IndexOf(UpperBound(c)) \in 0..Top /\ 2 ^ IndexOf(UpperBound(c)) <= UpperBound(c)
    BY <1>0, <2>2, Rounding
  <2>4. Target(o) \in Sized
    BY <2>1, <2>3 DEF Sized
  <2> QED BY <2>1, <2>2, <2>3, <2>4 DEF Lists, c
<1>5. (/\ Target(o) \in Lists
       /\ Target(o) \in Sized => c <= 2 ^ Top /\ 2 ^ Target(o) <= UpperBound(c))
  BY <1>2, <1>3, <1>4 DEF c
<1> QED BY <1>5 DEF c

\* An object that joins a list waits there.
LEMMA Joined ==
    ASSUME NEW l \in Lists, NEW o \in Objects, Placed(lists, born \ held), o \notin born \ held,
           lists' = [lists EXCEPT ![l] = Append(@, o)]
    PROVE  Placed(lists', (born \ held) \cup {o})
<1> DEFINE ks == lists'
<1> DEFINE w == born \ held
<1>1. Placed(lists, w) /\ o \notin w /\ lists \in [Lists -> Seq(Objects)]
  BY DEF Placed
<1>2. /\ ks \in [Lists -> Seq(Objects)] /\ ks[l] = Append(lists[l], o)
      /\ \A m \in Lists : m # l => ks[m] = lists[m]
  BY <1>1, ListsType
<1> HIDE DEF ks, w
<1>3. Placed(ks, w \cup {o})
  BY <1>1, <1>2, PutIn
<1> QED BY <1>3 DEF ks, w

\* push keeps the caches right if the object it takes is large enough for the
\* list it joins, and not too large for what was wanted of it.
LEMMA PushKeeps ==
    ASSUME CacheInv, NEW l \in Lists, NEW o \in Objects, GivesBack(o), Pushed(l, o),
           UNCHANGED <<doubles, limit, most>>,
           cap' \in [Objects -> Nat], \A p \in Objects : p # o => cap'[p] = cap[p],
           cap'[o] >= cap[o], l \in Sized => cap'[o] >= 2 ^ l,
           ~doubles /\ most[o] <= 2 ^ Top => cap'[o] <= 2 * UpperBound(most[o])
    PROVE  CacheInv'
<1>0. CacheTypes /\ Placed(lists, born \ held) /\ lists \in [Lists -> Seq(Objects)]
  BY DEF CacheInv, Placed
<1>1. o \in held /\ o \in born /\ held' = held \ {o} /\ dirty' = dirty \ {o}
  BY <1>0 DEF GivesBack, CacheTypes
<1>2. \A p \in born \ held : p # o /\ p \in Objects
  BY <1>0, <1>1 DEF CacheTypes
<1>3. \A m \in Lists : Len(lists[m]) \in Nat
  BY <1>0, LenProperties
<1>4. CASE Len(lists[l]) >= limit
  <2>1. born' = born \ {o} /\ lists' = lists
    BY <1>4 DEF Pushed
  <2>2. born' \ held' = born \ held
    BY <1>1, <2>1
  <2>3. Placed(lists', born' \ held')
    BY <1>0, <2>1, <2>2
  <2>4. born' \in SUBSET Objects /\ held' \in SUBSET born' /\ dirty' \in SUBSET held'
    BY <1>0, <1>1, <2>1 DEF CacheTypes
  <2>5. Fewer
    BY <1>3, <2>1 DEF Fewer
  <2>6. most' \in [Objects -> Nat]
    BY <1>0 DEF CacheTypes
  <2>7. ASSUME NEW p \in born' PROVE p \in born /\ cap'[p] = cap[p] /\ most'[p] = most[p]
    <3>1. p \in born /\ p # o /\ p \in Objects
      BY <1>0, <2>1 DEF CacheTypes
    <3> QED BY <3>1
  <2> QED BY <2>3, <2>4, <2>5, <2>6, <2>7, HandedOut
<1>5. CASE ~(Len(lists[l]) >= limit)
  <2>1. born' = born /\ lists' = [lists EXCEPT ![l] = Append(@, o)]
    BY <1>5 DEF Pushed
  <2>2. born' \ held' = (born \ held) \cup {o}
    BY <1>1, <2>1
  <2>3. /\ lists' \in [Lists -> Seq(Objects)]
        /\ \A m \in Lists : m # l => lists'[m] = lists[m]
        /\ lists'[l] = Append(lists[l], o)
    BY <1>0, <2>1, ListsType
  <2>4. o \notin born \ held
    BY <1>1
  <2>5. Placed(lists', (born \ held) \cup {o})
    BY <1>0, <2>1, <2>4, Joined
  <2>6. Len(lists'[l]) = Len(lists[l]) + 1
    BY <1>0, <2>3, <2>4, PutIn
  <2>7. \A i \in DOMAIN lists'[l] :
          \/ i \in DOMAIN lists[l] /\ lists'[l][i] = lists[l][i]
          \/ lists'[l][i] = o
    BY <1>0, <2>3, <2>4, PutIn
  <2>8. Placed(lists', born' \ held')
    BY <2>2, <2>5
  <2>9. ASSUME NEW m \in Lists PROVE Len(lists'[m]) <= limit'
    <3>1. limit \in Nat /\ limit' = limit /\ Len(lists[m]) \in Nat /\ Len(lists[m]) <= limit
      BY <1>0, <1>3 DEF CacheInv, CacheTypes
    <3>2. CASE m = l
      BY <1>5, <2>6, <3>1, <3>2
    <3>3. CASE m # l
      BY <2>3, <3>1, <3>3
    <3> QED BY <3>2, <3>3
  <2>10. ASSUME NEW m \in Sized, NEW i \in DOMAIN lists'[m] PROVE cap'[lists'[m][i]] >= 2 ^ m
    <3>0. m \in Lists
      BY DEF Lists
    <3>1. ASSUME i \in DOMAIN lists[m], lists'[m][i] = lists[m][i]
          PROVE  cap'[lists'[m][i]] >= 2 ^ m
      <4>1. lists[m][i] \in born \ held
        BY <1>0, <3>0, <3>1 DEF Placed
      <4>2. cap'[lists[m][i]] = cap[lists[m][i]]
        BY <1>2, <4>1
      <4>3. cap[lists[m][i]] >= 2 ^ m
        BY <3>1 DEF CacheInv, ClassesFit
      <4> QED BY <3>1, <4>2, <4>3
    <3>2. CASE m = l
      BY <2>7, <3>1, <3>2
    <3>3. CASE m # l
      BY <2>3, <3>0, <3>1, <3>3
    <3> QED BY <3>2, <3>3
  <2>11. Enough'
    <3>1. ASSUME NEW p \in born PROVE cap'[p] >= most[p]
      <4>1. p \in Objects /\ cap[p] >= most[p] /\ cap[p] \in Nat /\ most[p] \in Nat /\ cap'[p] \in Nat
        BY <1>0 DEF CacheInv, CacheTypes, Enough
      <4> QED BY <4>1
    <3> QED BY <2>1, <3>1 DEF Enough
  <2>12. NoWaste'
    <3>1. ASSUME NEW p \in born, ~doubles, most[p] <= 2 ^ Top PROVE cap'[p] <= 2 * UpperBound(most[p])
      <4>1. p \in Objects
        BY <1>0 DEF CacheTypes
      <4>2. CASE p = o
        BY <3>1, <4>2
      <4>3. CASE p # o
        BY <3>1, <4>1, <4>3 DEF CacheInv, NoWaste
      <4> QED BY <4>2, <4>3
    <3> QED BY <2>1, <3>1 DEF NoWaste
  <2>13. CacheTypes'
    BY <1>0, <1>1, <2>1 DEF CacheTypes
  <2>14. ClassesFit' /\ Placed(lists, born \ held)'
    BY <2>8, <2>10 DEF ClassesFit
  <2> QED BY <2>9, <2>11, <2>12, <2>13, <2>14 DEF CacheInv
<1> QED BY <1>4, <1>5

\* release keeps the caches right.
LEMMA ReleaseKeeps == ASSUME CacheInv, NEW o \in Objects, Release(o) PROVE CacheInv'
<1>0. CacheTypes /\ cap \in [Objects -> Nat] /\ most \in [Objects -> Nat] /\ doubles \in BOOLEAN
  BY DEF CacheInv, CacheTypes
<1>1. /\ GivesBack(o) /\ Pushed(Target(o), o) /\ UNCHANGED <<doubles, limit, most>>
      /\ cap' = IF Target(o) \in Sized
                THEN [cap EXCEPT ![o] = Reserved(@, UpperBound(@))] ELSE cap
  BY DEF Release, Op
<1>2. o \in born
  BY <1>0, <1>1 DEF GivesBack, CacheTypes
<1>3. cap[o] \in Nat /\ most[o] \in Nat /\ cap[o] >= most[o]
  BY <1>0, <1>2 DEF CacheInv, Enough
<1>4. ~doubles /\ most[o] <= 2 ^ Top => cap[o] <= 2 * UpperBound(most[o])
  BY <1>2 DEF CacheInv, NoWaste
<1>5. Target(o) \in Lists
  BY <1>0, TargetList
<1>6. CASE Target(o) \notin Sized
  <2>1. cap' = cap
    BY <1>1, <1>6
  <2> DEFINE l == Target(o)
  <2> HIDE DEF l
  <2>2. l \in Lists /\ l \notin Sized /\ Pushed(l, o)
    BY <1>1, <1>5, <1>6 DEF l
  <2>3. cap' \in [Objects -> Nat] /\ cap'[o] >= cap[o] /\ \A p \in Objects : cap'[p] = cap[p]
    BY <1>0, <1>3, <2>1
  <2> QED BY <1>1, <1>4, <2>1, <2>2, <2>3, PushKeeps
<1>7. CASE Target(o) \in Sized
  <2> DEFINE c == cap[o]
  <2> DEFINE v == Reserved(c, UpperBound(c))
  <2>1. c \in Nat /\ c <= 2 ^ Top /\ 2 ^ Target(o) <= UpperBound(c)
    BY <1>0, <1>7, TargetList
  <2>2. UpperBound(c) \in Nat
    <3> HIDE DEF c
    <3> QED BY <2>1, Rounding
  <2>3. v \in Nat /\ v >= c /\ v >= UpperBound(c) /\ (~doubles => v \in {c, UpperBound(c)})
    <3> HIDE DEF c
    <3> QED BY <1>0, <2>1, <2>2, ReservedSize
  <2>4. /\ cap' \in [Objects -> Nat] /\ cap'[o] = v
        /\ \A p \in Objects : p # o => cap'[p] = cap[p]
    <3>1. cap' = [cap EXCEPT ![o] = v]
      BY <1>1, <1>7
    <3> HIDE DEF v
    <3> QED BY <1>0, <2>3, <3>1
  <2>5. ASSUME ~doubles, most[o] <= 2 ^ Top PROVE v <= 2 * UpperBound(most[o])
    <3> DEFINE m == most[o]
    <3>1. m \in Nat /\ m <= 2 ^ Top /\ c <= 2 * UpperBound(m)
      BY <1>3, <1>4, <2>5
    <3> HIDE DEF m, c
    <3>2. UpperBound(c) <= 2 * UpperBound(m)
      BY <2>1, <3>1, RoundedAbove
    <3>3. v <= 2 * UpperBound(m)
      BY <2>3, <2>5, <3>1, <3>2
    <3> QED BY <3>3 DEF m
  <2> HIDE DEF v
  <2> DEFINE l == Target(o)
  <2>6. l \in Lists /\ Pushed(l, o) /\ l \in Sized /\ 2 ^ l <= UpperBound(c)
    BY <1>1, <1>5, <1>7, <2>1
  <2> HIDE DEF l
  <2>7. cap'[o] >= 2 ^ l
    <3>1. 2 ^ l \in Nat
      <4>1. l \in 0..(Top + 1)
        BY <2>6, TopPower DEF Sized
      <4> QED BY <4>1, Powers
    <3> QED BY <2>2, <2>3, <2>4, <2>6, <3>1
  <2>8. cap'[o] >= cap[o]
    BY <2>3, <2>4
  <2>9. ~doubles /\ most[o] <= 2 ^ Top => cap'[o] <= 2 * UpperBound(most[o])
    BY <2>4, <2>5
  <2> QED BY <1>1, <2>4, <2>6, <2>7, <2>8, <2>9, PushKeeps
<1> QED BY <1>6, <1>7

\* release of the plain cache keeps the caches right.
LEMMA ReleasePlainKeeps == ASSUME CacheInv, NEW o \in Objects, ReleasePlain(o) PROVE CacheInv'
<1>0. CacheTypes /\ cap \in [Objects -> Nat] /\ Plain \in Lists /\ Plain \notin Sized
  BY DEF CacheInv, CacheTypes, Lists, Plain, Sized
<1>1. GivesBack(o) /\ Pushed(Plain, o) /\ UNCHANGED <<doubles, limit, most, cap>>
  BY DEF ReleasePlain, Op
<1>2. o \in born /\ cap[o] \in Nat
  BY <1>0, <1>1 DEF GivesBack, CacheTypes
<1>3. ~doubles /\ most[o] <= 2 ^ Top => cap[o] <= 2 * UpperBound(most[o])
  BY <1>2 DEF CacheInv, NoWaste
<1>4. /\ cap' \in [Objects -> Nat] /\ cap'[o] >= cap[o] /\ cap'[o] = cap[o]
      /\ \A p \in Objects : cap'[p] = cap[p]
  BY <1>0, <1>1, <1>2
<1> QED BY <1>0, <1>1, <1>3, <1>4, PushKeeps

\* An object that is deleted leaves the caches right.
LEMMA DeletedKeeps ==
    ASSUME CacheInv, UNCHANGED <<doubles, limit, most, cap>>, born' \in SUBSET born,
           held' \in SUBSET born', dirty' \in SUBSET held', Placed(lists', born' \ held'), Fewer
    PROVE  CacheInv'
<1>0. CacheTypes
  BY DEF CacheInv
<1>1. /\ cap' \in [Objects -> Nat] /\ most' \in [Objects -> Nat] /\ born' \in SUBSET Objects
      /\ \A p \in born' : p \in born /\ cap'[p] = cap[p] /\ most'[p] = most[p]
  BY <1>0 DEF CacheTypes
<1> QED BY <1>1, HandedOut

\* get_raw and release without memory keep the caches right.
LEMMA FailsKeeps ==
    ASSUME CacheInv,
           \/ \E n \in 0..(2 ^ Top + 1) : GetFails(n)
           \/ \E o \in Objects : ReleaseFails(o)
    PROVE  CacheInv'
<1>0. CacheTypes /\ Placed(lists, born \ held) /\ lists \in [Lists -> Seq(Objects)]
  BY DEF CacheInv, Placed
<1>1. ASSUME NEW n \in 0..(2 ^ Top + 1), GetFails(n) PROVE CacheInv'
  <2> DEFINE l == Source(n)
  <2> DEFINE o == lists[l][Len(lists[l])]
  <2> DEFINE w == born \ held
  <2>1. /\ lists[l] # <<>> /\ lists' = Without(l) /\ born' = born \ {o}
        /\ UNCHANGED <<doubles, limit, most, cap, dirty, held>>
    BY <1>1 DEF GetFails, Op
  <2>2. l \in Lists
    BY SourceList
  <2> HIDE DEF l, w
  <2>3. lists' \in [Lists -> Seq(Objects)]
    BY <1>0, <2>1, <2>2, ListsType DEF Without
  <2>4. /\ \A m \in Lists : m # l => lists'[m] = lists[m]
        /\ lists'[l] = SubSeq(lists[l], 1, Len(lists[l]) - 1)
    BY <1>0, <2>1, <2>2 DEF Without
  <2>5. Placed(lists, w)
    BY <1>0 DEF w
  <2>6. lists[l][Len(lists[l])] \in w
    BY <2>1, <2>2, <2>3, <2>4, <2>5, TakenOut
  <2>7. Placed(lists', w \ {lists[l][Len(lists[l])]})
    BY <2>1, <2>2, <2>3, <2>4, <2>5, TakenOut
  <2>8. \A m \in Lists :
          /\ Len(lists'[m]) <= Len(lists[m])
          /\ \A i \in DOMAIN lists'[m] : i \in DOMAIN lists[m] /\ lists'[m][i] = lists[m][i]
    BY <2>1, <2>2, <2>3, <2>4, <2>5, TakenOut
  <2>9. o \in born \ held /\ born' \ held' = w \ {o}
    BY <2>1, <2>6 DEF w
  <2>10. Placed(lists', born' \ held') /\ Fewer
    BY <2>7, <2>8, <2>9 DEF Fewer
  <2>11. born' \in SUBSET born /\ held' \in SUBSET born' /\ dirty' \in SUBSET held'
    BY <1>0, <2>1, <2>9 DEF CacheTypes
  <2> QED BY <2>1, <2>10, <2>11, DeletedKeeps
<1>2. ASSUME NEW o \in Objects, ReleaseFails(o) PROVE CacheInv'
  <2>1. /\ o \in held /\ held' = held \ {o} /\ dirty' = dirty \ {o} /\ born' = born \ {o}
        /\ UNCHANGED <<doubles, limit, most, cap, lists>>
    BY <1>2 DEF ReleaseFails, GivesBack, Op
  <2>2. born' \ held' = born \ held
    BY <2>1
  <2>3. Fewer
    <3>1. \A m \in Lists : Len(lists[m]) \in Nat
      BY <1>0, LenProperties
    <3> QED BY <2>1, <3>1 DEF Fewer
  <2>4. born' \in SUBSET born /\ held' \in SUBSET born' /\ dirty' \in SUBSET held'
    BY <1>0, <2>1 DEF CacheTypes
  <2>5. Placed(lists', born' \ held')
    BY <1>0, <2>1, <2>2
  <2> QED BY <2>1, <2>3, <2>4, <2>5, DeletedKeeps
<1> QED BY <1>1, <1>2

\* clear keeps the caches right.
LEMMA ClearKeeps == ASSUME CacheInv, NEW gone \in SUBSET Lists, Clear(gone) PROVE CacheInv'
<1> DEFINE out == UNION {{lists[l][i] : i \in DOMAIN lists[l]} : l \in gone}
<1> DEFINE w == born \ held
<1>0. CacheTypes /\ Placed(lists, w) /\ lists \in [Lists -> Seq(Objects)]
  BY DEF CacheInv, Placed
<1>1. /\ lists' = [l \in Lists |-> IF l \in gone THEN <<>> ELSE lists[l]]
      /\ born' = born \ out
      /\ UNCHANGED <<doubles, limit, most, cap, dirty, held>>
  BY DEF Clear, Op
<1>2. ASSUME NEW p \in out PROVE p \in w
  <2>1. PICK l \in gone : \E i \in DOMAIN lists[l] : lists[l][i] = p
    OBVIOUS
  <2>2. l \in Lists
    OBVIOUS
  <2> HIDE DEF out, w
  <2> QED BY <1>0, <2>1, <2>2 DEF Placed
<1>3. Placed(lists', w \ out)
  <2> HIDE DEF w
  <2> QED BY <1>0, <1>1, Emptied
<1> HIDE DEF out
<1>4. born' \ held' = w \ out /\ born' \in SUBSET born /\ held' \in SUBSET born'
  BY <1>0, <1>1, <1>2 DEF CacheTypes
<1>5. dirty' \in SUBSET held'
  BY <1>0, <1>1 DEF CacheTypes
<1>6. Fewer
  <2>1. \A l \in Lists : lists[l] \in Seq(Objects)
    BY <1>0
  <2>2. \A l \in Lists : Len(lists[l]) \in Nat
    BY <2>1, LenProperties
  <2>3. ASSUME NEW l \in Lists
        PROVE  /\ Len(lists'[l]) <= Len(lists[l])
               /\ \A i \in DOMAIN lists'[l] : i \in DOMAIN lists[l] /\ lists'[l][i] = lists[l][i]
    <3>1. CASE l \in gone
      <4>1. lists'[l] = <<>>
        BY <1>1, <3>1
      <4>2. Len(<<>>) = 0 /\ DOMAIN <<>> = {}
        OBVIOUS
      <4> QED BY <2>2, <4>1, <4>2
    <3>2. CASE l \notin gone
      <4>1. lists'[l] = lists[l]
        BY <1>1, <3>2
      <4> QED BY <2>2, <4>1
    <3> QED BY <3>1, <3>2
  <2> QED BY <2>3 DEF Fewer
<1>7. Placed(lists', born' \ held')
  BY <1>3, <1>4
<1> QED BY <1>1, <1>4, <1>5, <1>6, <1>7, DeletedKeeps

\* The caches start right, with nothing.
LEMMA CachesStart == CachesInit \/ NoCaches => CacheInv
<1> SUFFICES ASSUME CachesInit \/ NoCaches PROVE CacheInv
  OBVIOUS
<1>1. /\ limit \in {0, Limit} /\ doubles \in BOOLEAN
      /\ born = {} /\ dirty = {} /\ held = {}
      /\ cap = [o \in Objects |-> 0] /\ most = [o \in Objects |-> 0]
      /\ lists = [l \in Lists |-> <<>>]
  BY DEF CachesInit, NoCaches
<1>2. CacheTypes
  BY <1>1, CacheBounds DEF CacheTypes
<1>3. \A l \in Lists : lists[l] = <<>>
  BY <1>1
<1>4. <<>> \in Seq(Objects) /\ Len(<<>>) = 0 /\ DOMAIN <<>> = {}
  OBVIOUS
<1>5. lists \in [Lists -> Seq(Objects)]
  BY <1>1, <1>4
<1>6. \A l \in Lists : Len(lists[l]) = 0 /\ DOMAIN lists[l] = {}
  BY <1>3, <1>4
<1>7. Placed(lists, born \ held)
  BY <1>1, <1>5, <1>6 DEF Placed
<1>8. \A l \in Lists : Len(lists[l]) <= limit
  BY <1>2, <1>6 DEF CacheTypes
<1>9. ClassesFit
  BY <1>6 DEF ClassesFit, Lists
<1>10. Enough /\ NoWaste
  BY <1>1 DEF Enough, NoWaste
<1> QED BY <1>2, <1>7, <1>8, <1>9, <1>10 DEF CacheInv

\* Every step of the process keeps the caches right.
LEMMA CachesStep == CacheInv /\ [Next]_vars => CacheInv'
<1> SUFFICES ASSUME CacheInv, [Next]_vars PROVE CacheInv'
  OBVIOUS
<1>1. ASSUME UNCHANGED cacheVars PROVE CacheInv'
  BY <1>1 DEF cacheVars, CacheInv, CacheTypes, Placed, ClassesFit, Enough, NoWaste
<1>2. ASSUME CachesNext PROVE CacheInv'
  <2>1. ASSUME NEW n \in 0..(2 ^ Top + 1), GetRaw(n) \/ GetFails(n) PROVE CacheInv'
    BY <2>1, GetRawKeeps, FailsKeeps
  <2>2. ASSUME NEW n \in 0..(2 ^ Top + 1), NEW o \in Objects, Write(o, n) PROVE CacheInv'
    BY <2>2, WriteKeeps
  <2>3. ASSUME NEW o \in Objects, Release(o) \/ ReleaseFails(o) \/ ReleasePlain(o)
        PROVE  CacheInv'
    BY <2>3, ReleaseKeeps, FailsKeeps, ReleasePlainKeeps
  <2>4. ASSUME NEW gone \in SUBSET Lists, Clear(gone) PROVE CacheInv'
    BY <2>4, ClearKeeps
  <2>5. {Plain} \in SUBSET Lists /\ Lists \ {Plain} \in SUBSET Lists
    BY DEF Lists
  <2>6. ASSUME Crash PROVE CacheInv'
    BY <2>6 DEF Crash, CacheInv, CacheTypes, Placed, ClassesFit, Enough, NoWaste
  <2> QED BY <1>2, <2>1, <2>2, <2>3, <2>4, <2>5, <2>6, GetPlainKeeps DEF CachesNext
<1> QED BY <1>1, <1>2 DEF Next, vars

\* An object that exists and is not with the user is in one list once, any
\* other in none.
LEMMA OnePlace ==
    ASSUME CacheInv, NEW o \in Objects
    PROVE  Cardinality(In(o)) = IF o \in born \ held THEN 1 ELSE 0
<1>0. /\ CacheTypes /\ Placed(lists, born \ held) /\ lists \in [Lists -> Seq(Objects)]
      /\ limit \in Nat /\ limit <= Limit /\ Limit \in Nat
  BY CacheBounds DEF CacheInv, CacheTypes, Placed
<1>1. \A l \in Lists :
        DOMAIN lists[l] = 1..Len(lists[l]) /\ Len(lists[l]) \in Nat /\ Len(lists[l]) <= Limit
  <2>1. \A l \in Lists : DOMAIN lists[l] = 1..Len(lists[l]) /\ Len(lists[l]) \in Nat
    BY <1>0, LenProperties
  <2>2. \A l \in Lists : Len(lists[l]) <= limit
    BY DEF CacheInv
  <2> QED BY <1>0, <2>1, <2>2
<1>2. ASSUME NEW p \in In(o)
      PROVE  \E l \in Lists : \E i \in DOMAIN lists[l] : p = <<l, i>> /\ lists[l][i] = o
  <2>1. PICK l \in Lists, i \in 1..Limit : p = <<l, i>> /\ i <= Len(lists[l]) /\ lists[l][i] = o
    BY DEF In
  <2>2. i \in DOMAIN lists[l]
    BY <1>0, <1>1, <2>1
  <2> QED BY <2>1, <2>2
<1>3. ASSUME NEW l \in Lists, NEW i \in DOMAIN lists[l], lists[l][i] = o PROVE <<l, i>> \in In(o)
  <2>1. i \in 1..Limit /\ i <= Len(lists[l])
    BY <1>0, <1>1
  <2> QED BY <1>3, <2>1 DEF In
<1>4. CASE o \in born \ held
  <2>1. PICK l \in Lists : \E i \in DOMAIN lists[l] : lists[l][i] = o
    BY <1>0, <1>4 DEF Placed
  <2>2. PICK i \in DOMAIN lists[l] : lists[l][i] = o
    BY <2>1
  <2>3. ASSUME NEW p \in In(o) PROVE p = <<l, i>>
    BY <1>0, <1>2, <2>2 DEF Placed
  <2>4. In(o) = {<<l, i>>}
    BY <1>3, <2>2, <2>3
  <2> QED BY <1>4, <2>4, FS_Singleton
<1>5. CASE o \notin born \ held
  <2>1. In(o) = {}
    BY <1>0, <1>2, <1>5 DEF Placed
  <2> QED BY <1>5, <2>1, FS_EmptySet
<1> QED BY <1>4, <1>5

\* No object of a cache is ever with two users or in two places, none is lost,
\* what a list holds is empty and as large as its class, and a vector is at most
\* a class larger than anybody wanted it, by whatever mixture of reserve and
\* doubling it grew: for any number of objects, classes, calls and sizes,
\* whenever a reserve fails, with lists of no capacity, and up to the call that
\* ends a process whose FreeListVector has no lists.
THEOREM ObjectsKept == Spec => []Kept
<1>1. CacheInv => Kept
  <2> SUFFICES ASSUME CacheInv PROVE Kept
    OBVIOUS
  <2>0. CacheTypes /\ Placed(lists, born \ held) /\ lists \in [Lists -> Seq(Objects)]
    BY DEF CacheInv, Placed
  <2>1. ASSUME NEW o \in Objects
        PROVE  Cardinality(In(o)) + (IF o \in held THEN 1 ELSE 0) = (IF o \in born THEN 1 ELSE 0)
    <3>1. Cardinality(In(o)) = IF o \in born \ held THEN 1 ELSE 0
      BY OnePlace
    <3>2. o \in held => o \in born
      BY <2>0 DEF CacheTypes
    <3> QED BY <3>1, <3>2
  <2>2. ASSUME NEW o \in born, In(o) # {} PROVE o \notin dirty
    <3>1. o \in Objects
      BY <2>0 DEF CacheTypes
    <3>2. PICK l \in Lists, i \in 1..Limit : i <= Len(lists[l]) /\ lists[l][i] = o
      BY <2>2 DEF In
    <3>3. i \in DOMAIN lists[l]
      <4>1. DOMAIN lists[l] = 1..Len(lists[l]) /\ Len(lists[l]) \in Nat
        BY <2>0, LenProperties
      <4> QED BY <3>2, <4>1, CacheBounds
    <3>4. o \notin held
      BY <2>0, <3>2, <3>3 DEF Placed
    <3> QED BY <2>0, <3>4 DEF CacheTypes
  <2>3. ASSUME NEW l \in Sized, NEW i \in 1..Limit, i <= Len(lists[l])
        PROVE  cap[lists[l][i]] >= 2 ^ l
    <3>1. l \in Lists
      BY DEF Lists
    <3>2. DOMAIN lists[l] = 1..Len(lists[l]) /\ Len(lists[l]) \in Nat
      BY <2>0, <3>1, LenProperties
    <3>3. i \in DOMAIN lists[l]
      BY <2>3, <3>2, CacheBounds
    <3> QED BY <3>3 DEF CacheInv, ClassesFit
  <2>4. \A o \in held : cap[o] >= most[o]
    BY <2>0 DEF CacheInv, CacheTypes, Enough
  <2>5. \A o \in born : ~doubles /\ most[o] <= 2 ^ Top => cap[o] <= 2 * UpperBound(most[o])
    BY DEF CacheInv, NoWaste
  <2>6. \A l \in Lists : Len(lists[l]) <= limit
    BY DEF CacheInv
  <2> QED BY <2>1, <2>2, <2>3, <2>4, <2>5, <2>6 DEF Kept
<1>2. Init => CacheInv
  BY CachesStart DEF Init
<1> QED BY <1>1, <1>2, CachesStep, PTL DEF Spec

-----------------------------------------------------------------------------
(* The one variable two threads share: Resolve::_tmp needs no lock, in     *)
(* whatever loop; the others are constants and variables of EventLoop.     *)

CONSTANTS KindOf, MaxCalls
VARIABLES calls, active, pending, period, once, running, owed, lost

Events == INSTANCE EventLoop

Working == {"asks", "fills", "sends"}

\* The thread works only between the timer and its own message, and cb_ready
\* is due only while the next lookup may not start.
HandedInv ==
    /\ thread \in Working => ~idle /\ ~sent /\ alive # "no"
    /\ sent => ~idle
    /\ alive = "yes" => known = ip

\* It holds initially.
LEMMA HandedInit == Events!Init => HandedInv
  BY DEF Events!Init, Events!ResolveInit, Events!NoResolve, HandedInv, Working

\* The callbacks of the loop.
LEMMA HandedLoop == HandedInv /\ Events!ResolveLoop => HandedInv'
<1>1. ASSUME HandedInv, Events!CbTimer PROVE HandedInv'
  BY <1>1 DEF Events!CbTimer, Events!MayStart, HandedInv, Working
<1>2. ASSUME HandedInv, Events!CbReady PROVE HandedInv'
  <2>1. thread \notin Working
    BY <1>2 DEF Events!CbReady, HandedInv
  <2>2. known' = ip'
    BY <1>2 DEF Events!CbReady, HandedInv
  <2> QED
    BY <1>2, <2>1, <2>2 DEF Events!CbReady, HandedInv
<1> QED
  BY <1>1, <1>2 DEF Events!ResolveLoop

\* The steps of the thread.
LEMMA HandedThread == HandedInv /\ Events!ResolveThread => HandedInv'
<1>1. ASSUME HandedInv, NEW a, Events!Ask(a) PROVE HandedInv'
  BY <1>1 DEF Events!Ask, HandedInv, Working
<1>2. ASSUME HandedInv, Events!Fill PROVE HandedInv'
  BY <1>2 DEF Events!Fill, HandedInv, Working
<1>3. ASSUME HandedInv, Events!Notify PROVE HandedInv'
  BY <1>3 DEF Events!Notify, HandedInv, Working
<1>4. ASSUME HandedInv, Events!ThreadEnds \/ Events!ThreadThrows PROVE HandedInv'
  BY <1>4 DEF Events!ThreadEnds, Events!ThreadThrows, HandedInv, Working
<1> QED
  BY <1>1, <1>2, <1>3, <1>4 DEF Events!ResolveThread, Events!ThreadWorks

\* The destructor, and everything that does not concern Resolve.
LEMMA HandedOther ==
    HandedInv /\ (Events!Destroy \/ Events!Destroyed \/ Events!Change \/ UNCHANGED Events!resolveVars)
        => HandedInv'
<1>1. ASSUME HandedInv, Events!Destroy PROVE HandedInv'
  BY <1>1 DEF Events!Destroy, HandedInv, Events!threadVars
<1>2. ASSUME HandedInv, Events!Destroyed PROVE HandedInv'
  BY <1>2 DEF Events!Destroyed, HandedInv, Events!threadVars, Working
<1>3. ASSUME HandedInv, Events!Change PROVE HandedInv'
  BY <1>3 DEF Events!Change, HandedInv, Events!threadVars
<1>4. ASSUME HandedInv, UNCHANGED Events!resolveVars PROVE HandedInv'
  BY <1>4 DEF HandedInv, Events!resolveVars, Events!threadVars
<1> QED
  BY <1>1, <1>2, <1>3, <1>4

\* The thread never writes _tmp while the loop may read it or start another
\* thread, nor after the destructor, and the user's view is _ip.
THEOREM HandedOverHolds == Events!Spec => []HandedOver
<1>1. HandedInv /\ [Events!Next]_(Events!vars) => HandedInv'
  BY HandedLoop, HandedThread, HandedOther DEF Events!Next, Events!vars
<1>2. HandedInv => HandedOver
  BY DEF HandedInv, HandedOver, Working
<1> QED
  BY HandedInit, <1>1, <1>2, PTL DEF Events!Spec

=============================================================================
