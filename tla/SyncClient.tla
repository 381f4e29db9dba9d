----------------------------- MODULE SyncClient ------------------------------
(***************************************************************************)
(* http::SyncClient over http::Client: a caller builds requests, collects  *)
(* them in a batch and runs the loop until every one is answered; Client   *)
(* finds or makes the pool of the domain.  What the connections of a pool  *)
(* do with a request is the module HttpClient; here a pool refuses it or   *)
(* calls back once, in any order.                                          *)
(***************************************************************************)
EXTENDS Url, SequencesExt

CONSTANTS
    Dns,            \* per host name the addresses resolve_domain finds
    Texts,          \* texts the caller parses, as records of their parts
    Hosts,          \* records [name, port] the caller sets
    Paths,          \* paths the caller sets
    Proxies,        \* values of config.proxy, EmptyDomain for none
    MaxPools,       \* config.max_pools, 0 for no limit
    ConnsPerIp,     \* config.pool.conns_per_ip
    MaxConns,       \* config.pool.max_conns
    MaxCalls        \* bound: calls of the caller

ASSUME SyncConfig ==
    /\ MaxPools \in Nat /\ ConnsPerIp \in Nat /\ MaxConns \in Nat /\ MaxCalls \in Nat
    /\ \A name \in DOMAIN Dns : Dns[name] \in Seq(Ips)

\* Names the resolver is asked for.  set_host with an empty name or port 0
\* changes nothing and is left out.
Names == Ips \cup DOMAIN Dns

\* A proxy is a domain that was set once.
ASSUME NamesKnown ==
    /\ \A h \in Hosts : h.name \in Names \ {NoText} /\ h.port # 0
    /\ \A t \in Texts : "host" \in DOMAIN t => t.host \in Names
    /\ \A d \in Proxies \ {EmptyDomain} :
        IsDomain(d) /\ d.name \in Names /\ d.nodes = NodesOf(d.name, d.port)

VARIABLES
    proxy,      \* config.proxy
    calls,      \* calls of the caller
    req,        \* the request the caller builds: [url, want]
    reqs,       \* the requests Client accepted, each with its way
    pools,      \* Client::_pools: [domain, conns, proxy, out]
    flying,     \* requests a connection has
    count,      \* SyncClient::_count
    resp,       \* SyncClient::_resp: the requests answered
    running,    \* the loop runs
    broken,     \* break_loop was called
    batch,      \* requests accepted since the last run
    last        \* the last run: what it was asked and what it returned

clientVars == <<proxy, reqs, pools, flying>>
runVars == <<resp, running, broken, last>>
vars == <<calls, req, clientVars, count, runVars, batch>>

\* What the caller meant: where to and which path; mixed is set when its
\* Domain had an address before.
Meant(name, port, path) == [name |-> name, port |-> port, path |-> path, mixed |-> FALSE]

Fresh(u) == [url |-> ClearUrl(u), want |-> Meant(NoText, 80, "/")]

Init ==
    /\ proxy \in Proxies /\ calls = 0 /\ req = Fresh(NewUrl) /\ reqs = <<>> /\ pools = <<>> /\ flying = {}
    /\ count = 0 /\ resp = <<>> /\ running = FALSE /\ broken = FALSE
    /\ batch = {} /\ last = [asked |-> {}, got |-> <<>>]

-----------------------------------------------------------------------------
(* The caller's request                                                    *)

Call == ~running /\ calls < MaxCalls /\ calls' = calls + 1

\* make_request: a new object, or one that was answered and given back.
Make ==
    /\ Call
    /\ \E u \in {req.url} \cup {reqs[i].url : i \in DOMAIN reqs} : req' = Fresh(u)
    /\ UNCHANGED <<clientVars, count, runVars, batch>>

PathIn(text) == IF "path" \in DOMAIN text THEN text.path ELSE "/"

MeantBy(text) ==
    IF "host" \notin DOMAIN text THEN Meant(NoText, 80, "/")
    ELSE IF "port" \in DOMAIN text THEN Meant(text.host, text.port, PathIn(text))
    ELSE Meant(text.host, 80, PathIn(text))

Parsed(r, text) == [url |-> ParseUrl(r.url, text), want |-> MeantBy(text)]

Parse(text) ==
    /\ Call /\ req' = Parsed(req, text)
    /\ UNCHANGED <<clientVars, count, runVars, batch>>

CallSetHost(h) ==
    /\ Call
    /\ req' = [url  |-> SetHost(req.url, h.name, h.port),
               want |-> [Meant(h.name, h.port, req.want.path) EXCEPT
                            !.mixed = req.want.mixed \/ req.url.domain.nodes # <<>>]]
    /\ UNCHANGED <<clientVars, count, runVars, batch>>

CallSetDomain(h) ==
    /\ Call
    /\ req' = [url  |-> SetDomain(req.url, DomainSet(EmptyDomain, h.name, h.port, NoText)),
               want |-> Meant(h.name, h.port, req.want.path)]
    /\ UNCHANGED <<clientVars, count, runVars, batch>>

CallSetPath(path) ==
    /\ Call
    /\ req' = [url |-> SetField(req.url, "path", path), want |-> [req.want EXCEPT !.path = path]]
    /\ UNCHANGED <<clientVars, count, runVars, batch>>

-----------------------------------------------------------------------------
(* Client::send                                                            *)

TargetOf(r) == IF IsDomain(proxy) THEN proxy ELSE r.url.domain

PoolsOf(d) == {i \in DOMAIN pools : SameDomain(pools[i].domain, d)}

\* Pool::Pool resolves the name of a domain without nodes.
Resolved(d) ==
    IF d.nodes # <<>> THEN d.nodes
    ELSE [i \in DOMAIN Dns[d.name] |-> [ip |-> Dns[d.name][i], port |-> d.port]]

\* It connects to every node conns_per_ip times, up to max_conns.
ConnsTo(nodes) ==
    LET all == Len(nodes) * ConnsPerIp
    IN  [i \in 1..(IF all < MaxConns THEN all ELSE MaxConns) |-> nodes[((i - 1) \div ConnsPerIp) + 1]]

NewPool(d) == [domain |-> d, conns |-> ConnsTo(Resolved(d)),
               proxy |-> SameDomain(d, proxy), out |-> <<>>]

\* The pools when Client takes the domain d: the constructor of a pool throws
\* when it has no address.
MayMake(d) == (MaxPools = 0 \/ Len(pools) < MaxPools) /\ Resolved(d) # <<>>

Accepts(r) ==
    LET d == TargetOf(r) IN
    IsDomain(r.url.domain) /\ (PoolsOf(d) # {} \/ MayMake(d))

PoolsWith(d) == IF PoolsOf(d) # {} THEN pools ELSE Append(pools, NewPool(d))

\* The request joins the queue of its pool.
Accept(r) ==
    LET d  == TargetOf(r)
        ps == PoolsWith(d)
        p  == IF PoolsOf(d) # {} THEN CHOOSE i \in PoolsOf(d) : TRUE ELSE Len(ps)
    IN  /\ pools' = [ps EXCEPT ![p].out = Append(@, Len(reqs) + 1)]
        /\ reqs' = Append(reqs, [url |-> r.url, want |-> r.want, pool |-> p])
        /\ batch' = batch \cup {Len(reqs) + 1}

Refuse == UNCHANGED <<pools, reqs, batch>>

-----------------------------------------------------------------------------
(* SyncClient                                                              *)

\* Faulty variant: a request that is refused is counted.
Counted_All(r) == count + 1

Counted(r) == IF Accepts(r) THEN count + 1 ELSE count

\* batch_add_send, with the request the caller built and gives away.
BatchAddSend ==
    /\ Call
    /\ IF Accepts(req) THEN Accept(req) ELSE Refuse
    /\ count' = Counted(req) /\ req' = Fresh(NewUrl)
    /\ UNCHANGED <<proxy, flying, runVars>>

\* batch_add_get and its kind
BatchAdd(text) ==
    LET r == Parsed(Fresh(NewUrl), text) IN
    /\ Call
    /\ IF Accepts(r) THEN Accept(r) ELSE Refuse
    /\ count' = Counted(r)
    /\ UNCHANGED <<proxy, req, flying, runVars>>

Enter ==
    /\ resp' = <<>> /\ broken' = FALSE

\* send: nothing when a batch is being collected.
SendOne ==
    /\ Call /\ count = 0 /\ Enter
    /\ IF Accepts(req)
       THEN Accept(req) /\ count' = 1 /\ running' = TRUE /\ UNCHANGED last
       ELSE Refuse /\ UNCHANGED <<count, running>> /\ last' = [asked |-> {}, got |-> <<>>]
    /\ req' = Fresh(NewUrl)
    /\ UNCHANGED <<proxy, flying>>

BatchRun ==
    /\ Call /\ Enter
    /\ IF count > 0 THEN running' = TRUE /\ UNCHANGED last
       ELSE UNCHANGED running /\ last' = [asked |-> batch, got |-> <<>>]
    /\ UNCHANGED <<req, clientVars, count, batch>>

\* Faulty variant: any answer ends the loop.
Enough_Any(answers) == answers # <<>>

Enough(answers) == Len(answers) >= count

\* The callback of init, for each of the requests.
CallBack(ids) ==
    /\ resp' = resp \o ids
    /\ broken' = (broken \/ (ids # <<>> /\ Enough(resp')))

\* Those of a queue that are in ids, in its order: SelectSeq, of which the
\* provers know nothing.
Only(queue, ids) ==
    LET only[i \in 0..Len(queue)] ==
            IF i = 0 THEN <<>>
            ELSE IF queue[i] \in ids THEN Append(only[i - 1], queue[i]) ELSE only[i - 1]
    IN  only[Len(queue)]

\* Pool::cb_prepare: the refused requests are called back at the end.
Prepare(p, refused) ==
    /\ running /\ pools[p].out # <<>>
    /\ refused \subseteq ToSet(pools[p].out)
    /\ pools[p].conns = <<>> => refused = ToSet(pools[p].out)
    /\ pools' = [pools EXCEPT ![p].out = <<>>]
    /\ flying' = flying \cup (ToSet(pools[p].out) \ refused)
    /\ CallBack(Only(pools[p].out, refused))
    /\ UNCHANGED <<proxy, calls, req, reqs, count, running, batch, last>>

\* A connection calls back with an answer, with none or after a timeout.
Answer(id) ==
    /\ running /\ id \in flying /\ flying' = flying \ {id}
    /\ CallBack(<<id>>)
    /\ UNCHANGED <<proxy, calls, req, reqs, pools, count, running, batch, last>>

\* run() returns after the events of the iteration.
RunReturns ==
    /\ running /\ broken /\ running' = FALSE
    /\ count' = 0 /\ batch' = {} /\ last' = [asked |-> batch, got |-> resp]
    /\ UNCHANGED <<calls, req, clientVars, resp, broken>>

Pooling == \E p \in DOMAIN pools : \E refused \in SUBSET ToSet(pools[p].out) : Prepare(p, refused)
Answering == \E id \in flying : Answer(id)

Building ==
    \/ Make
    \/ \E t \in Texts : Parse(t)
    \/ \E h \in Hosts : CallSetHost(h) \/ CallSetDomain(h)
    \/ \E path \in Paths : CallSetPath(path)

Next ==
    \/ Building
    \/ BatchAddSend \/ (\E t \in Texts : BatchAdd(t)) \/ SendOne \/ BatchRun
    \/ Pooling \/ Answering \/ RunReturns

\* The loop runs prepare watchers, the connections call back and run returns.
Spec == Init /\ [][Next]_vars /\ WF_vars(Pooling) /\ WF_vars(Answering) /\ WF_vars(RunReturns)

-----------------------------------------------------------------------------
(* Properties                                                              *)

NodesFor(name, port) ==
    IF name \in Ips THEN {[ip |-> name, port |-> port]}
    ELSE {[ip |-> a, port |-> port] : a \in ToSet(Dns[name])}

\* Every accepted request is in the pool of the proxy or of the host and port
\* it was last given, whose connections go to addresses of that host and
\* nowhere else, with the path it was last given; no domain has two pools, and
\* there are not more than allowed.
Routed ==
    /\ \A i \in DOMAIN reqs :
        LET r == reqs[i] p == pools[r.pool] dest == IF IsDomain(proxy) THEN proxy ELSE r.want IN
        /\ p.domain.name = dest.name /\ p.domain.port = dest.port
        /\ p.proxy = IsDomain(proxy)
        /\ Shown(r.url, "path") = r.want.path
        /\ ~(\E j \in DOMAIN reqs : reqs[j].pool = r.pool /\ reqs[j].want.mixed) =>
               ToSet(p.conns) \subseteq NodesFor(p.domain.name, p.domain.port)
    /\ \A i, j \in DOMAIN pools : i # j => ~SameDomain(pools[i].domain, pools[j].domain)
    /\ MaxPools > 0 => Len(pools) <= MaxPools

\* A run returns exactly one answer for each request of its batch, and none
\* of another batch is in the way of the next.
RunComplete ==
    /\ ToSet(last.got) = last.asked /\ Len(last.got) = Cardinality(last.asked)
    /\ ToSet(resp) \subseteq 1..Len(reqs)
    /\ ~running => flying = {}

\* Every run ends, with whatever the pools refused before and in it.
EveryRunEnds == running ~> ~running

=============================================================================
