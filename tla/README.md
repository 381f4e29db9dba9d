# Verification of libsniper

libsniper (`src/sniper`) is a C++ framework for network services: an HTTP/1.x server and client on libev loops, wait groups, a resolver thread, timers, parsers and object caches.
This directory holds TLA+ models of it, the TLC runs that check them on small instances, and proofs that TLAPS checks for every value of the constants.
`PROJECT.json` is the machine-readable side: components, runs, mutants, the map from definitions to source lines, findings, hazards and theorems.

Contents: [1 the system](#1-the-system), [2 modules and code](#2-modules-and-code), [3 runs](#3-runs), [4 fairness](#4-fairness), [5 findings and observations](#5-findings-and-observations), [6 proofs](#6-proofs), [7 what is only model-checked](#7-what-is-only-model-checked), [8 what is not modelled](#8-what-is-not-modelled), [9 plan](#9-plan).

## 1 The system

One thread runs one libev loop. Everything in the library happens in callbacks of that loop, one at a time, except for the thread of a `Resolve` and whoever calls `touch()`, which report through an `ev_async`. A program may run several loops in several threads; they share the descriptors of the process and nothing else of the library.
The concurrency that matters is therefore of another kind: the order in which watchers fire is not determined, reads and writes stop at any byte, and **user code runs in the middle of a callback** and may call the library again (send, disconnect, add, drop, destroy) before the callback goes on with what it read before.

| component (under `src/sniper/`) | state it keeps | operations | interacts with |
|---|---|---|---|
| `http/Server` | listening sockets, one `Pool`, date timer | `bind`, `cb_accept`, destructor | gives sockets to `server::Pool` |
| `http/server/Pool` | `_conns`, `_free_conns`, statistics | `get`, `disconnect`, `close` | owns and recycles `Connection` |
| `http/server/Connection` | `_closed`, `_fd`, `_buf`, `_pico`, `_processed`, `_in`/`_user`/`_out`, five watchers | `set`, `send`, `disconnect`, `detach`, `close`, `cb_read`, `cb_write`, `cb_user`, `cb_close`, `cb_keep_alive_timeout` | parses into `Request`, writes `Response`, calls the user |
| `http/Buffer` | `_capacity`, `_size`, bytes | `make_buffer`, `read`, `tail`, `renew_buffer` | shared by a connection and the requests that point into it |
| `pico/Request` | `head_parsed`, views of the head | `parse` | views point into a `Buffer` |
| `http/server/Response` | `_ready`, `_iov`, `_processed`, `_total_size` | setters, `set_ready`, `add_iov`, `process_iov` | written by `cb_writev_int` |
| `event/Wait`, `event/wait/Pool`, `event/wait/Group` | `_groups`, `_done`, `_w_done`; per group count, timeout, timer, pool | `make_group`, `inc`, `add`, `done`, `cb_timeout`, `cb_done`, `close` | groups come from `cache::Cache`; calls the user |
| `http/Client` | a `client::Pool` per domain | `send` | resolves names (blocking) |
| `http/client/Pool` | `_out`, `_active`, `_connecting`, `_w` | `send`, `cb_prepare`, `_send` | chooses a `client::Connection` |
| `http/client/Connection` | `_status`, `_out`, `_in`, `_user_cb`, five watchers | `connect`, `send`, `close`, `cb_read`, `cb_write`, timers, `cb_prepare` | calls the user with each answer or error |
| `http/client/Request`, `http/client/Response` | views of the parts; two buffers and a parser | `set_ready`, `send`; `init`, `recv`, `parse`, `tail` | used by `client::Connection` |
| `http/SyncClient` | a batch and its count | `send`, `batch_add_*`, `batch_run` | `Client` on a loop of its own |
| `event/Resolve` | `_idle`, `_tmp`, `_ip`, thread, async watcher | timer, thread body, `cb_ready` | thread and loop share `_tmp` |
| `event/Prepare`, `event/Timer*`, `event/Touch`, `event/Sig` | a watcher each | start, stop, touch, callback | call the user, who may call them again |
| `net/Url`, `net/Domain` | views of a text, own strings, nodes, hash | `parse`, setters | keys of the pools of `Client` |
| `net/socket` | none (the kernel has it) | create, options, bind, listen, accept, connect, close | `Server`, both kinds of connections |
| `cache/*` | free lists by type or by size class | `get`, `release`, `clear` | objects with `clear()` |
| `pico` parser, `strings/*` | none | heads, numbers, lists, macros, letters | every parser above |
| `threads/*`, `log/*`, `std/*`, `xxhash`, rest of `net` | little or none | locks, wrappers, conversions | |

What is hard about each of the parts that carry state, and what makes it correct:

* **Server connection and pool.** Pipelined requests are handed over in batches and answered late, in any order, inside or outside the callback; one `writev` may complete several responses and cut another; the user may disconnect, destroy the server, or keep a `ConnectionPtr` while the object is recycled for another peer. Correct: responses leave in request order, each request is handed over once, a ready response always has a watcher that will write it, a recycled object is clean, and nothing of an old session reaches the next peer.
* **Read path.** The cut of the stream into reads, the cut of reads into requests, and the replacement of the buffer are independent of each other. Correct: requests are framed exactly, none is left in the buffer when the callback returns, the loop makes progress, and what a request points to is alive.
* **Response writing.** The array of iovecs is bounded, `writev` stops anywhere. Correct: the bytes on the wire are the bytes of the responses, in order, without gap or repetition.
* **Wait groups.** A group finishes by count, by timer, or is thrown away, while `cb_done` holds a part of the queue and the user adds, finishes, drops or destroys. Correct: every accepted add is accounted for exactly once; no lost wake-up, no timer of a dead group, a recycled group is clean.
* **HTTP client.** Connections fail, time out and reconnect under queued, half-written and early-answered requests. Correct: every request is called back exactly once, with its own answer or none, in order per connection, and eventually if there is a response timeout. Below that, a pipeline of requests is cut by every `writev`, and a stream of answers by every `read` and between two buffers: the bytes of each must come out whole.
* **Heads and texts.** A head is parsed again with every read of a few bytes. Correct: what was decided does not depend on how the bytes were cut, the head ends where its empty line is, and a limit on the size decides at the latest when the buffer is full. Conversions have edges at their limits.
* **Event objects.** `Resolve` shares `_tmp` with its thread without a lock and relies on `_idle` and on the async watcher; the watcher objects are started and stopped inside their own callbacks. Correct: `_tmp` is never read and written at once, the user's view follows the domain, and what was started is called back.
* **Synchronous client.** A batch is a count; requests may be refused by a pool, by the limit of pools or at once. Correct: each accepted request is answered once in its own run, in the pool of the host it was given, and every run ends.
* **Descriptors and caches.** Numbers of closed sockets are given out again at once, to other threads too; error paths have one close each; capacities decide in which list an object waits. Correct: everything handed out has exactly one owner, what comes out of a list is clean and as large as its class.

`PROJECT.json` lists 40 hazards of this kind, each at its line, with the properties that would catch it.

## 2 Modules and code

| module | models | depends on |
|---|---|---|
| `ServerConnection` | `http::server::Connection` + `Pool`, accept and destruction of `Server` | `Pipeline` (as the abstract specification) |
| `Pipeline` | what a server promises a peer that pipelines | |
| `RequestBuffer` | one connection's read path: `cb_read`, `Buffer::read`, `parse_buffer`, `pico::Request::parse`, `renew_buffer` | |
| `ResponseWrite` | one connection's write path: `set_ready`, `fill_iov`, `add_iov`, `process_iov`, `cb_writev_int` | |
| `WaitGroup` | `event::Wait`, its pool and groups, and the cache of groups | |
| `HttpClient` | `http::client::Pool` and `http::client::Connection` of one domain | |
| `ClientStream` | one client connection down to the bytes: `client::Request`, `client::Response`, `write_int`, `read_int` | |
| `Strings`, `AsciiCase`, `HttpHead` | pure operators: `strings/*`, of which `AsciiCase` has the word-wise ones; the pico parser and what `pico::Request`, `pico::Response` and the parsing of targets make of a head | `HttpHead` uses `Strings` |
| `Text` | texts that arrive character by character and are read again each time, and what is claimed of heads, numbers and targets | `HttpHead` |
| `Conversions` | the reference definitions the other conversions are compared with | `Text`, `AsciiCase` |
| `Resolve`, `Watchers` | `event::Resolve` with its thread; timers, `Prepare`, `Touch`, `Sig` | |
| `EventLoop` | either of the two in one loop | `Resolve`, `Watchers` |
| `Url` | `net::Domain` and `net::Url` as records | |
| `SyncClient` | `http::SyncClient` and `http::Client` over pools that answer or refuse | `Url`; a pool is what `HttpClient` shows |
| `Sockets`, `Caches` | descriptors of the process; `FreeList`, `Cache`, `ArrayCache` of a thread | |
| `Resources` | either of the two | `Sockets`, `Caches` |
| `*Proofs` | theorems about the module of that name; those about `EventLoop` are at the end of `ResourcesProofs`, those about `Text` at the beginning of `RequestBufferProofs` | TLAPS |
| `MC*` | the instances TLC checks | |

The server is modelled at three levels of grain. `ServerConnection` takes requests and responses as numbers and has everything that decides *which* of them is handed over and written *when*. `RequestBuffer` and `ResponseWrite` look into one connection and have the bytes: where requests begin and end, and which bytes a `writev` sends. `ServerConnection.CbRead(c)` adds any number of requests, which `RequestBuffer` shows to be what a read yields; `ServerConnection.Flush` writes any number of units, which `ResponseWrite` spells out round by round.

The client is cut in the same way. `SyncClient` has the pools as queues that call each request back once or refuse it, which is what `HttpClient` shows of a pool (`OnceEach`, `EveryRequestCalledBack`); `HttpClient` has a connection as a front of requests written and answers received; `ClientStream` has the bytes of one connection; `HttpHead` what the parser says of them. `Sockets` has the descriptors all of them open and close.

`EventLoop` and `Resources` put two components that do not touch each other under one specification: a behaviour begins with one of them and stays with it.

Definitions marked "Faulty variant" are plausible mistakes in the code. No action uses them; each is named by a mutant in `PROJECT.json`, and with the mutant in place a run finds its property violated.

### ServerConnection

| variable | code |
|---|---|
| `up` | the `Server` object exists |
| `open` | connections with `_closed = false` |
| `conns`, `freeConns` | `Pool::_conns`, `Pool::_free_conns` (a stack) |
| `w[c]` | which of `_w_write`, `_w_user`, `_w_close` are active |
| `out[c]`, `user[c]` | `_out`, `_user` (one number stands for the request and its response) |
| `running`, `batch` | the connection whose `cb_user` is on the stack, and what is left of its vector `tmp` |
| `ready`, `closing`, `sent[r]` | `Response::_ready`, `keep_alive = false`, units that `process_iov` accounted for |
| `held` | connections the application keeps a `ConnectionPtr` to |
| `session`, `nreq`, `rconn`, `rsess`, `handed` | history: who asked what, when, and what was handed over |

| action | code |
|---|---|
| `Accept`, `AcceptNoBuffer` | `Server::cb_accept`, `Pool::get`, `Connection::set` (with and without memory for the buffer) |
| `CbRead`, `CbReadFail` | `cb_read` with `parse_buffer`: k requests complete / error, end of stream, malformed, too large |
| `KeepAliveTimeout`, `CbClose` | `cb_keep_alive_timeout`, `cb_close` |
| `CbWrite` (`Flush`) | `cb_write` and the loop of `cb_writev_int` |
| `CbUserBegin`, `CbUserNext`, `CbUserAbort`, `CbUserEnd` | `cb_user`, cut where user code runs |
| `Keep`, `Release`, `Send`, `SendNoMemory`, `Disconnect`, `Shutdown` | the user: copies of `ConnectionPtr`, `send` (with and without memory in `set_ready`), `disconnect`, `Server::~Server` with `Pool::close` and `detach` |
| `Close` | `Connection::close` with `Pool::disconnect`, part of the actions above |

The user's actions, `Shutdown` among them, have no guard on `running`, so they interleave with every callback and also happen inside `cb_user` between two requests of the batch. If the callback destroys the server and kept no `ConnectionPtr`, `cb_user` goes on with an object just freed: `CbUserAbort` reads `_closed` there as `detach` left it, and `CallerAlive` says that nothing else frees or recycles the object. `Send` allows a request of an earlier session of the same object: a late answer.

### RequestBuffer

A byte is its position in the peer's stream; `base` is the position of the first byte of the buffer, `gen` numbers the buffers. `pc` is the place in `cb_read`: `read`, `parse`, `renew`, or `idle` between callbacks. `Read`/`ReadError` are `Buffer::read` to its end (Full, Again, Error); `ParseComplete`/`ParsePartial`/`ParseError` are one round of `parse_buffer` with `pico::Request::parse`, whose `head_parsed` survives between rounds (`parsed`, `headGen` the buffer its views point into); `KeepBuffer`/`NewBuffer`/`NoBuffer` are `renew_buffer`. `reqs[k]` records which buffer request k keeps alive and which its head points into. `CbUser` and `Release` are the user's. The peer sends well-formed requests of lengths from `Shapes`, in pieces of any size, and may end the stream anywhere.

### ResponseWrite

A byte is (response, part, offset). `iov[r]` are the `iovec`s of a response as `process_iov` leaves them, `processed` and `total` are `_processed` and `_total_size`. `SetReady` is `set_ready` with `fill_iov`; each round of `cb_writev_int` is one step: `Gathered`/`Data` is what `add_iov` collects, `Write` a `writev` that takes n bytes with the pops, the close and `process_iov` after it, `Stop`, `Again` and `Error` the three ends, with what `cb_write` or `cb_user` does to `_w_write` then. `keep_alive` is a public member that is read when the response is popped: `SetKeepAlive` is the user who changes it until then.

### WaitGroup

| variable | code |
|---|---|
| `up`, `hasCb` | the `Wait` object exists, `Pool::_cb` is set |
| `count`, `timeout`, `timedOut`, `attached`, `timer` | `Group::_count`, the sign of `_timeout`, `_is_timeout`, `_pool` set, `_w_timeout` active |
| `held`, `groups`, `doneQ`, `tmp` | references: of the application, `Pool::_groups`, `Pool::_done`, the vector of `cb_done`. A group with none is in the cache, cleared |
| `wDone`, `inCb` | `Pool::_w_done` active, `cb_done` on the stack |
| `pending`, `adds`, `calls`, `lost` | history: tasks that still have to call `done()`; accepted adds, callbacks, discards |
| `again` | history: groups passed to `add()` while they were queued |

`Make` (all three overloads), `Inc`, `Drop`, `Add`/`AddRefused`, `Done` are the application's, allowed at any time and inside the callback; `CbTimeout`, `CbDoneBegin`/`CbDoneCall`/`CbDoneEnd`/`CbDoneNoCallback` are the loop's; `SetCb` and `Close` the owner's. When the last reference to a group goes, the same step clears it (`LetGo`), as the intrusive pointer and the cache do.

`Close` has no guard: the `Wait` may be destroyed in the middle of `cb_done`, and `PoolGone` says that nobody holds the pool any more. `PoolAlive` says when that happens while groups are left in `tmp`: only if each of them was added again meanwhile. `cb_done` then goes on in freed memory; the model lets it call or stop there (its fairness ends with the pool).

### HttpClient

`poolOut`, `poolWatch`, `active`, `connecting` are the members of `client::Pool`; `status`, `out`, `in`, `userCb` and `w` those of `client::Connection`; `running`, `caller`, `batch` the callback on the stack and the calls it has still to make. `begun`, `srv`, `resp` are the wire: a front of `_out` written in part, requests the server has, answers on the way.
`PoolBegin`, `PickFront`, `PickActive`, `PickConnecting`, `PoolCall` are `Pool::cb_prepare` with one step per request `_send` places: the front of `_connecting` if ready, else the first ready one of `_active` (those before it are moved and reconnected), else a ready, then a connecting one of the joint list, else the request is refused. `CbWrite`, `CbRead`, `NetworkError`, `NotConnected`, `Timeout` and `CbPrepare` are the callbacks of a connection, each with the whole of `close()` where the code calls it; `connect()` may succeed, stay in progress or fail. `Send` is the user's, also inside a call. `Answer` is the server's and external; it may answer a request that is not written completely.

### ClientStream

`left[o]` are the lengths of the `string_view`s of request object o as `update_view` leaves them, `out` is `_out` (an object may be in it twice), `wire` what the server received. `cur` is the `Response` at the front of `_in`: `head` and `body` are the bytes in `_buf_header` and `_buf_body`, `processed` and `total` the members of that name, `h` and `a` the two results of the parser. `done` is what the callback was given.

| action | code |
|---|---|
| `Send` (`SetReady`) | `Connection::send`, `Request::set_ready` |
| `CbWrite`, `WriteSome` (`UpdateViews`), `WriteComplete`, `WriteEnd`, `WriteError` | `cb_write`, `write_int`, `Request::send`, one `writev` per step |
| `CbRead`, `RecvBuffered`, `RecvBytes` (`AskedFor`, `Received`, `Parse`), `ReadAsync`, `ReadError` | `cb_read`, `read_int`, `Response::recv` and `recv_int`, one `read` or `parse` per step |
| `Deliver` (`DataOf`, `TailOf`), `Close` | the callback, `data()`, `tail()`, `init(tail)` of the next response, `close()` |
| `Answer`, `Arrive`, `ServerCloses` | the server and the network (external) |

A head is its length, and the answers are chosen from `Answers`, among them an answer to HEAD and a body without a length, for which the code has no rule of its own. An answer may come as soon as one byte of its request was written.

### HttpHead, Strings, Text and Conversions

A text is a sequence of characters, and a character stands for as much as the code never tells apart: `"HTTP/1.1"` is one character of eight bytes (`Bytes` counts them), `"con"` and `"tent-length"` are two, `"ctl"` is any control character. `PhrParseRequest`, `PhrParseResponse` and their helpers return a position, `Incomplete` or `Bad`; `Outcome` is `parse_head` around them, `ParseRequest` the whole of `pico::Request::parse` with its limit. The bounds of the integer types are constants, so that they are within reach. `Text` has one action, `Grow`: the next character arrives. `head` is what parse says of the text so far; the limit of `Request::parse` is a parameter of `ParseRequest`. Its properties read the text with reference definitions (`EmptyLines`, `Decimal`, `MacroAt`, ...) that say what the text is and not how it is read.

### Resolve, Watchers and EventLoop

`idle`, `tmp`, `ip` are `_idle`, `_tmp`, `_ip`; `thread` is where the thread is (asks the resolver, fills `_tmp`, sends, ends, over), each a step that interleaves with the loop; `sent` is the async watcher; `known` what the user was told. `CbTimer`, `CbReady`, `Destroy`/`Destroyed` (a destructor that joins) are the loop's; `Ask` (with the addresses or with a failure), `Fill`, `Notify`, `ThreadEnds`, `ThreadThrows` the thread's; `Change` is somebody who edits the domain.
In `Watchers`, `active`, `pending` are libev's, `period`, `once` the members; `owed` and `lost` are history. `StartTimer` is `_start`/`start`, `StopTimer`, `StartPrepare` both `start` and `start_once`, `Touch` `touch()` and a signal, all of them also inside a callback; `Fire` and `Return` are the beginning and the end of a callback, the latter with what `cb_timer` and `cb_prepare` do after the user's code.

### Url and SyncClient

A `Url` is its text as parts, for each field where its view points (default, text, own string), and its domain. In `SyncClient`, `req` is the request the caller builds together with what he meant (`want`, history); `pools` are `Client::_pools`, each with the nodes of its connections; `count`, `resp` the members of `SyncClient`, `batch` and `last` history.
`Make`, `Parse`, `CallSetHost`, `CallSetDomain`, `CallSetPath` are the caller's on the request; `BatchAddSend`, `BatchAdd`, `SendOne`, `BatchRun` are `SyncClient`'s, each with `Client::send` inside (`Accepts`, `Accept`: proxy, lookup by `operator==`, `max_pools`, the constructor of a pool that throws without an address). `Prepare`, `Answer`, `RunReturns` are the loop of a run.

### Sockets, Caches and Resources

`open` and `flags` are the kernel's; `listeners`, `sfd`, `cfd`, `status` who keeps which number; `setup` is how far `bind`, `connect` or `cb_accept` got with a fresh one. `StepDone`/`StepFails` are the calls on a socket in their order and their error paths. The thread of a server and that of a client interleave between any two calls.
In `Caches`, an object is its capacity and whether it has contents; `lists` are the plain list of a `Cache` and the three kinds of an `ArrayCache`. `GetRaw`/`GetFails`, `Release`/`ReleaseFails`, `GetPlain`/`ReleasePlain`, `Clear` are the calls with and without memory, `Write` the user's, who grows an object: a vector to the size asked or by doubling. `Crash` is the first call that indexes a `FreeListVector` whose `resize` had no memory; no call follows it.

## 3 Runs

"Bound" gives what is cut; a mutant for every property shows that the bound still contains the case the property is about.

| run (cfg) | result | checks | bound |
|---|---|---|---|
| `server_session` (`ServerSession.cfg`) | passes | `Pipelining`, `Delivery`, implements `Pipeline` (`PipelineSpec`), `EveryRequestHanded`, `EveryAnswerWritten`, `DisconnectEnds` | 1 object, 2 sessions, 4 requests, responses of 2 units |
| `server_reuse` (`ServerReuse.cfg`) | passes | `Inductive` (section 6), `NoLateWrite`, `CallerAlive` | 2 objects, 3 sessions each, free list of 1, 2 requests |
| `wait_group` (`WaitGroup.cfg`) | passes | `Inductive`, `Conserved`, `PoolAlive`, `EveryWaitEnds` | 2 groups, 2 tasks, 2 adds each |
| `buffer` (`Buffer.cfg`) | passes | `Inductive`, `ServedUpTo`, `LoopEnds` | buffers of 4, 8, 16; 3 requests of 4 shapes |
| `response_write` (`ResponseWrite.cfg`) | passes | `Accounted`, `Armed`, `CloseHonoured` | 3 responses of 1 to 4 parts, 3 iovecs per `writev` |
| `response_bytes` (`ResponseWriteBytes.cfg`) | violated | `RightBytes` | 2 responses |
| `http_client` (`HttpClient.cfg`) | passes | `OnceEach`, `OwnAnswer`, `Armed`, `RefusedWhenClosed`, `EveryRequestCalledBack` | 2 connections, 3 requests, with response timeout |
| `client_stream` (`ClientStream.cfg`) | passes | `RequestsWhole`, `AnswersFramed`, `EndsForReason` | 2 request objects of up to 3 parts, 3 sends, 8 kinds of answers, header buffers of 3 bytes, bodies up to 3 |
| `text` (`Text.cfg`) | passes | `HeadStable`, `HeadEnds`, `HeadersRead`, `Bounded`, `TextExact` | 11 kinds of text of up to 3 to 22 characters, 2 headers |
| `events` (`EventLoop.cfg`) | passes | `HandedOver`, `AddressesFollow`, `CallbackFollows` | 2 addresses, 3 changes; one watcher object of each kind, 4 calls |
| `sync_client` (`SyncClient.cfg`) | passes | `Routed`, `RunComplete`, `EveryRunEnds` | 6 calls, 4 hosts, 2 pools of up to 3 connections, with and without proxy |
| `resources` (`Resources.cfg`) | passes | `Owned`, `Kept` | 3 descriptors, 5 sockets, 2 connections on each side; 3 objects, classes 1 to 8, 6 calls |

Why the bounds are enough to be worth something:

* **Server.** Four requests on one object allow a batch of three with one behind it, responses ready in every order, a `writev` that completes two and cuts a third, and two sessions a late answer. Two units per response are a partial write. Order, pool and reuse are separate questions, so the second run takes two objects and three sessions (get, park, drop beyond the limit, reuse twice) and fewer requests. `Inductive`, checked there, is what section 6 proves for all values.
* **Wait groups.** Two groups are one in `tmp` while the other is added, finished, dropped or the `Wait` is destroyed; two tasks are a `done()` that is not the last; two adds are a second life and a re-add after delivery. `EarlyDone = FALSE`: tasks finish only after their group was added, as the counting properties assume (section 5); the proofs hold for both values.
* **Buffer.** The four shapes are a request without a body, one with, one longer than two buffers, and one beyond the limit; three of them meet every cut: several in one buffer, one over three buffers, a head in one and a body in the next. With a threshold of 8 the smallest buffer is replaced only when it is full (`4 / 8 = 0`) and the larger ones earlier.
* **Responses.** An array of 3 against responses of 1, 2, 3 and 4 parts fills exactly, with room left, and never; parts of two bytes can be cut.
* **Client.** Two connections and three requests let one connection take a pipeline of two while the other fails and reconnects; every list order of `_active` and `_connecting` occurs.
* **Bytes of the client.** A `read` of 2 into a buffer of 3 ends inside a head, inside a body, and behind the end of an answer, so that the tail of one response begins the next; the body of 3 does not fit behind its head and moves, and each limit is met exactly and exceeded. An object with an empty part between two others is cut before, in and after it.
* **Text.** Each kind of text has the characters its function tells apart and a length beyond the first point where they matter: a second header with the same name, a third header where two are allowed, a number one digit too long, a word of the word-wise loops with a rest on both sides. From there on the functions repeat themselves.
* **Events.** Two addresses are one that comes while another goes; three changes are one during each of two lookups and a failed one. Four calls start, start again inside the callback, stop, and touch.
* **Synchronous client.** `a1:80` and `a:180` have one hash; a text with port 0; a host that is an address; a host without one; a third domain for two pools.
* **Resources.** Three descriptors for a server and a client of up to five owners: the table runs full while a number closed by one thread goes to the other. Three objects for lists of two meet the limit, classes up to 8 both ends of the search upwards and what is beyond.

Runs have `CHECK_DEADLOCK FALSE`: with their counters used up, an application that sends no more and a peer that closed leave nothing to do, which is the end of a bounded behaviour and no fault. Where the system must go on, a liveness property says so.

No symmetry is declared: the liveness runs would not allow it and the others are small.

## 4 Fairness

* `ServerConnection.FairSpec`: weak fairness of the steps of `cb_user` and of `CbClose`, because libev calls active prepare watchers in every iteration and user callbacks return; and of `CbWriteProgress`, a write that takes something or ends the connection, because a level-triggered write watcher fires while the socket is writable. This assumes a peer that goes on reading: there is no write timeout in the code except the keep-alive timer, so without it nothing would follow. Nothing is assumed of reads, of accepts or of the application.
* `WaitGroup.FairSpec`: `CbDone`, as long as somebody holds the pool, and started timers. The latter assumes that the application does not add a waiting group again for ever, each time before its timer fires: `Pool::add` restarts the timer then. Tasks owe nothing, so `EveryWaitEnds` speaks of groups that have a timer or have finished.
* `RequestBuffer.FairSpec`: a callback that was started goes on. `LoopEnds` then says that its loop terminates.
* `HttpClient.FairSpec`: the prepare watchers of pool and connections, started callbacks, and timers. Neither the network nor the server owes anything: that every request is called back rests on the response timer alone. The response timer is started by a send when it is inactive and restarted by answers, both bounded by the requests, so it fires in the end if no answer comes.
* `EventLoop.Spec`: weak fairness of the two callbacks of `Resolve` together, because its timer repeats and the loop takes an event that was sent; of the thread, which the system schedules and whose lookup returns or fails; of the destructor behind its `join`; and of the end of a user's callback. Strong fairness of each `Fire(w)`: callbacks of other objects come between again and again and disable it, but libev invokes every pending event of an iteration before the next one. Nothing is assumed of the user, of changes or of exceptions.
* `SyncClient.Spec`: the loop of a run takes its prepare watchers, the pools call each request back (`EveryRequestCalledBack` of `HttpClient`, with a response timeout), and `run()` returns after `break_loop`. Nothing is assumed of the caller.

## 5 Findings and observations

The finding is the counterexample of a run that checks what a line of the repository says.

* `response_bytes`, `http/server/Response.cpp:221`. After a partial write of an iovec, its length is reduced and its address stays: the peer receives the first bytes of the part again and never the last. `Accounted` (run `response_write`) is what does hold: lengths, order and parts. The client does it right: `RequestsWhole` (run `client_stream`) is the same question of `client::Request`.

### Observations

Behaviour that the models have because the code has it, and that a user may not expect. No run is made of it; the properties say what does hold.

Server and wait groups:

* A response with `keep_alive = false` shares its `writev` with ready responses behind it (`http/server/Connection.cpp:200`); their bytes follow it before the connection closes.
* `disconnect()` through a `ConnectionPtr` kept from an earlier session closes the session of the next peer (`Connection.cpp:122`).
* `buffer_renew_threshold` is a percentage by its comments (`Config.h:38`, `http/Buffer.cpp:113`) and a divisor in the code (`Buffer.cpp:112`); the two agree for 10, the default. `RenewDue` has the divisor.
* The capacity doubles with every renewal, also when nothing is left to copy, and never shrinks (`Buffer.cpp:115`): a keep-alive peer of small requests is disconnected after about twice `request_max_size` bytes. `ServedUpTo` is the bound that holds.
* If the buffer is renewed between the head and the end of the body, the views of method, path and headers keep pointing into the old buffer (`Connection.cpp:150`, `pico/Request.cpp:134`).
* A callback that destroys the server and kept no `ConnectionPtr` deletes its own connection, whose `_closed` is read next (`Connection.cpp:260`).
* A callback that destroys the `Wait` after it added every group that is left in `cb_done`'s vector again frees the pool under `cb_done` (`event/wait/Pool.cpp:53` clears a group that has nothing outstanding, its `_pool` included).
* A response sent a second time before it is written gets the server header and `_date` again (`Connection.cpp:289`).
* `done()` before `Wait::add` is not counted (`event/wait/Group.cpp:54`), and a group without a timeout that is already finished, or whose timeout is 0, is cleared by `add`.

Heads and texts:

* `iequals` compares as many characters as the shorter text has (`strings/ascii_case.h:36`), so `con: 5` is read as both headers, `content-length` and `connection`. `HeadersRead` leaves such names out.
* A negative `content-length` is accepted and makes a request shorter; `Bounded` leaves it out.
* The parser wants nine bytes where the version should be before it judges them; a short rest behind a bad line waits.
* `fast_atoi32`/`fast_atoi64`: `"-"` is 0, anything behind the first character that is no digit is ignored, and the overflow check of the 32-bit one is made in 64 bits; it refuses `INT32_MIN`, which is in range. The comment at `strings/atoi.h:26` names `INT64_MAX / 10` as the maximum of `fast_atoi64`; the code takes every number of 18 digits, up to 10^18 - 1, which is more. `NumbersExact` asks for the numbers the comment names and for exactness of the others.
* `join` drops the separators of empty elements in front; `hex2bin` of an odd length reads one character behind the text; `ip_from_sv` writes a terminator behind its array for an address of 15 characters.

Client and `net`:

* An answer to HEAD with a `content-length` waits for a body; a body without a length is taken for the next answer. A `Request` that is sent again after an early answer, while it is still in `_out`, is torn (`RequestsWhole` leaves such connections out).
* A request is refused although a `connect()` succeeded at once while `_send` looked for a connection (`http/client/Pool.cpp:139`).
* `set_data` on a GET sends a body without `Content-Length`; `set_data_copy("")` keeps the old data. Through a proxy the target is still in origin form; the `Host` header omits the port; a fragment is sent.
* `Domain::set` of an address appends a node to those that are there; `set_host` with an empty name or port 0 changes nothing; port texts `80` and `0080` make two pools of one host. `Url::parse` of a view of the same `Url` parses nothing, for it clears first.
* `SyncClient::send` while a batch is collected returns nothing.
* `set_reuse_addr_and_port` joins the names of two options by `|`.

Event objects and caches:

* The period of `Resolve` is divided by 1000 after it was given in seconds; an exception in its thread leaves `_idle` false, and nothing is looked up again; a failed lookup removes all addresses.
* A `TimerOnce`, or a `Prepare` started with `start_once`, that is started inside its own callback is stopped after it; `Prepare::start` after `start_once` is ignored.
* `release` rounds a capacity up by `reserve`, which for a string at least doubles: a string whose capacity is no power of two climbs one class with every round trip. A vector is at most one class larger than anybody wanted it (`Kept`): doubling takes it there, and rounding up keeps it there.
* A `FreeListVector` whose `resize` fails clears its vector of lists under the comment "OOM guard" (`cache/FreeList.h:91`) and indexes it in the next `pop` or `push` (`FreeList.h:103`, `:114`).

## 6 Proofs

Proved by TLAPS for all values of the constants, from assumptions with a name. TLC evaluates each of them in the runs.

| assumption | in | says |
|---|---|---|
| `NoConnAssumption`, `BoundsAssumption` | `ServerConnection` | the model value for "no connection" is not one; the bounds are naturals, `Size` positive |
| `WaitBounds`, `BufferConfig`, `WriteConfig`, `ClientConfig`, `StreamConfig` | `WaitGroup`, `RequestBuffer`, `ResponseWrite`, `HttpClient`, `ClientStream` | sizes, thresholds and the number of iovecs positive, as the defaults in `Config.h`; heads have a length; parts are sequences of lengths |
| `SocketBounds`, `CacheBounds` | `Sockets`, `Caches` | the bounds are naturals |
| `IntegerLimits`, `HeaderLimit` | `Strings`, `HttpHead` | the limits of the integers and of the headers are naturals, and what has `Digits64` digits fits |
| `PowersOfTen` | `Strings` | `10^(i+1) = 10 * 10^i` up to `Digits64`, a fact of arithmetic |
| `StartTexts` | `Text` | what a text begins with is a sequence |
| `SyncConfig` | `SyncClient` | the limits are naturals; the resolver finds lists of addresses |
| `NamesKnown` | `SyncClient` | every host of a text, of a call or of the proxy is an address or a name the resolver answers for, maybe with no address; the caller gives `set_host` neither an empty name nor port 0, which `Domain::set` ignores; a proxy that is configured was set once |
| `PowersOfTwo` | `RequestBuffer`, `Caches` | `2^(i+1) = 2 * 2^i` for the exponents in use: a fact of arithmetic the provers do not have |

Every safety theorem has the same shape: an inductive invariant, which TLC checked first, `Init => IInv`, lemmas `...Step` or `...Keeps` with a step per action and one below it per conjunct the action disturbs, and `PTL`. None of the properties is inductive alone:

* **ServerConnection.** `Inductive` = `TypeOK`, `Recorded`, `Traced`, `PoolConsistent`, `ClosedIsClean`, `OutIsOwed`, `Pipelining`, `WriteArmed`. A session starts with an empty queue only because a closed object is clean; that `Pool::get` yields a closed object rests on the consistency of the pool lists; that what is before a response on the wire is complete (`Pipelining`) rests on `_out` being exactly what the session owes (`OutIsOwed`), and that on numbers of requests that were not parsed yet being unused (`Recorded`). `Delivery` is inductive relative to `Inductive`: what was handed over, the rest of `cb_user`'s vector and `_user` are together increasing, and are all the requests of the session.
* **WaitGroup.** `Inductive` = `TypeOK`, `WakeUp`, `TimerArmed`, `CleanFree`, `Outstanding`, `CountsTasks`, `Verdict`, `Staged`. `make_group` sets only some members and relies on `clear()`, so counts are right only with `CleanFree`; a timer that is stopped with the wait needs `TimerArmed`, which needs `Outstanding`. `Conserved` is a second induction on top; `PoolAlive` follows from `Staged`: a queued group that was not added again is attached.
* **RequestBuffer.** `Inductive` = `TypeOK`, `Positions`, `Framing`, `NoneLeft`, `HasRoom`, `HeadPending`, `OwnHead`, `Doubled`. `HeadPending` carries the parser's state between calls: a head that was parsed belongs to the next request, whose body is missing. It makes `OwnHead` go through: the head of a request without a body is never older than its buffer. `Doubled` says that every capacity is the first one times a power of two; `ServedUpTo` is an induction on top of it.
* **ResponseWrite.** `WInv` adds to the properties what `process_iov` leaves: a response behind the front of `_out` is untouched (`Untouched`), of each in `_out` `_total_size` is the sum of the lengths that are left (`Remaining`), and as much is on the wire as was taken off (`Sent`); each byte on the wire stands where a byte of its part belongs (`Places`).
* **HttpClient.** `IInv` relates, per connection, `_in` to the requests the server was asked and those in `_out` (`Flow`): they are the same sequence, and of a front written in part the server may have been asked already. From it follow that the answer that is read is that of the front of `_in` (`Owns`) and, with the queues of all holders disjoint (`OnceEach`), that no request is called back twice. `PoolRun` is the state of `Pool::cb_prepare` between two requests. `RefusedWhenClosed` is an action property: `cb_prepare` reaches the refusal only when it has seen every connection.
* **ClientStream.** The receiving side is `RInv`: positions in the server's stream (`Positions`), requests and answers counted against each other (`Counted`), what the response at the front has got (`InFront`: a tail that nobody parsed, a head that is not complete, or a head with a part of its body, in whichever buffer), and what was delivered (`Past`). A response always begins where an answer of the server begins, as long as the answers before had the lengths their heads announce; that is why no read can cut the stream at a place that confuses it. The sending side is `SInv`: no object waits twice in `_out`, and the bytes written with those the views still show are the requests in the order of sending. Its proof rests on what `update_view`, applied to one view after the other, does to their concatenation (`Shortened`): exactly the first n bytes go, wherever n falls. For it the module proves, by induction over positions in a set of numbers, what `FlattenSeq` and sums of lengths are.
* **Sockets, Caches.** `SocketInv`: every open descriptor has exactly one owner, a listener, a connection or a call that sets it up, and nobody else has its number (`Exact`), together with what was done to it so far. `CacheInv`: every object that is not held is in exactly one place of one list (`Placed`), lists are within the limit and every object lies in the class its capacity is good for; a vector at most a class larger than wanted is so when rounded up (`RoundedAbove`).
* **SyncClient.** `RunInv`: the count is the number of requests in the batch, and while a loop runs each request of the batch is in exactly one place, one queue of one pool, a connection or the answers (`Placed`); between two runs all of them are in queues. `break_loop` was called only with as many answers as requests, so these are all of them, each once (`AllAnswered`), and nothing is left in a queue or with a connection for the next run. `RouteInv`, on top of it, follows a request from the caller: its domain and path are those given last (`ReqOk`), with addresses of that host alone unless a domain was set over another (`Aimed`); the pool it joins has its domain, and a pool keeps the connections it made for the domain of its first request (`Ways`). That connection `i` goes to node `(i - 1) / conns_per_ip`, one that exists, is `Division`.
* **Text.** The inductive invariant, `Reading`, says little: the text is a sequence and `head` is what parse says of it. All of the work is in the operators. Their recursive functions run over positions or over the headers that may still come; `Recursion` shows once that such a function exists and takes its steps, and the inductions are over sets of numbers. `Extends(A, s, t)` is the relation the proofs go along: whatever the parser finds in s before its end (`FirstIn`, `EndLine`, a header, all headers) it finds in t, and whatever returned something other than `Incomplete` returns the same. So `ParsedStays` and, with the sizes, `DecidedStays`, for any t and not just for one more character. Backwards, every way the parser takes to its end is a chain of lines that are not empty (`OneLine`) with an empty one behind them (`EmptyAt`, `Ended`); a text that goes on lacks that line, but for the nine bytes that `parse_http_version` wants (`EndsWell`). The headers on the way are clean one by one (`Cleaned`). For `NumbersExact` two sums are carried along the digits, one in 64 bits and one without a limit; they are equal as long as the second fits (`Exact`), and `Digits64` digits always do.
* **EventLoop.** `HandedInv` adds to `HandedOver` that a message that was sent keeps `_idle` false: until `cb_ready` has taken it, the timer starts no second thread.

Where a property counts owners or places (`Owned`, `Kept`), the invariant says it without cardinalities and a lemma (`OneOwner`, `OnePlace`) leads back.

| theorem | module | says |
|---|---|---|
| `TypeCorrect`, `Correct` | `ServerConnectionProofs` | types; the inductive invariant |
| `PipeliningHolds`, `WriteArmedHolds`, `PoolHolds` | | order on the wire, watchers of ready responses, consistency of the pool, for any number of connections, requests, sessions |
| `CallbacksOrdered` | | every request is handed over at most once and in order, and none of an open session is lost on the way |
| `CallerAliveHolds` | | the connection whose `cb_user` is on the stack is in the pool as long as the server exists |
| `NoLateWriteHolds`, `CbUserWritesNothingHolds` | | action properties: no write for a session that ended; `cb_user`'s own call of the write loop never writes or closes, so it never uses an object that `close()` released |
| `ImplementsPipeline` | | `Spec => Promise!Spec` with `owed <- out`, `seen <- nreq`: every step of the server is a step of `Pipeline` or a stutter |
| `WaitCorrect`, `ConservedHolds`, `WakeUpHolds`, `TimerArmedHolds`, `CleanFreeHolds`, `OutstandingHolds`, `CountsTasksHolds`, `VerdictHolds`, `PoolAliveHolds` | `WaitGroupProofs` | the safety properties of run `wait_group` and the parts of `Inductive`, for any number of groups, tasks and adds |
| `HeadsStable`, `HeadsEnd`, `HeadersAreAsSent`, `RequestsBounded` | `RequestBufferProofs` | what run `text` checks of heads, for every text over any characters, of any length, with any number of headers |
| `NumbersAreExact`, `TargetsAreCut` | | two parts of `TextExact`, `NumbersExact` for all widths of the integers, and `TargetExact` |
| `DecidedStays` | | the same as `HeadsStable` for two texts of which one begins with the other: how the stream was cut does not matter |
| `BufferCorrect`, `FramingHolds`, `NoneLeftHolds`, `HasRoomHolds`, `OwnHeadHolds`, `ServedUpToHolds` | `RequestBufferProofs` | framing, progress, room, the buffer of a head and the bound up to which a peer within the limit is served, for all buffer sizes, thresholds, limits and lengths of requests |
| `AnswersAccounted`, `CloseHonouredHolds`, `WriteArmed` | `ResponseWriteProofs` | the properties of run `response_write`, for responses of any parts and any array of iovecs |
| `RequestsOnce`, `AnswersOwn`, `WaitersArmed`, `RefusesOnlyClosed` | `HttpClientProofs` | the safety properties of run `http_client`, for any number of connections and requests |
| `ReceiverCorrect`, `AnswersFramedHolds`, `EndsForReasonHolds`, `SenderCorrect`, `RequestsWholeHolds` | `ClientStreamProofs` | the properties of run `client_stream`, for all requests, all answers and all sizes of buffers |
| `DescriptorsOwned`, `ObjectsKept` | `ResourcesProofs` | the properties of run `resources`, for any number of descriptors, connections, objects and classes |
| `RunsComplete`, `RoutedHolds` | `SyncClientProofs` | the safety properties of run `sync_client`, for any texts, hosts, pools, requests and limits |
| `HandedOverHolds` | `ResourcesProofs` | the one variable two threads share, `Resolve::_tmp`, needs no lock, for any addresses and any number of lookups |

## 7 What is only model-checked

* All liveness: `EveryRequestHanded`, `EveryAnswerWritten`, `DisconnectEnds`, `EveryWaitEnds`, `LoopEnds`, `EveryRequestCalledBack`, `AddressesFollow`, `CallbackFollows`, `EveryRunEnds`. Fairness and `ENABLED` are beyond the prover. In `ResponseWrite`, eventual writing is argued through `Armed` (a ready front is being written or has its watcher active), which is proved, together with the write watcher's fairness in `ServerConnection`.
* `TextExact`, except for its parts `NumbersExact` and `TargetExact`: what the other operators of `Strings`, `AsciiCase` and the parsing of query strings compute. Words are taken apart with bitwise operators, which the prover cannot use; lists, macros and hexadecimal bytes would each need inductions of their own over two recursive functions, so `Conversions` compares them with their reference definitions over bounded texts.

## 8 What is not modelled

* Status lines, logging, hashing and wrappers of the standard library; the text of the header lines a response or a request writes, which is a length per part.
* `event::Loop`, which makes a loop of libev and deletes it: the order in which a loop takes events is part of each module. `sync_get` and its kind, which are a `SyncClient` of one request.
* `threads/`: nothing else in the library uses them; `Stop` is one flag. A module with a proof is in the plan.
* The chunked decoder, `phr_parse_headers` and `is_complete` of the pico parser, which nothing calls; user info and fragment of an URL, which nothing keeps.
* `net`: `Peer`, `hostname` and the text of addresses are conversions by library calls. Of the sockets, UDP, the getters, cork and the segment size, which no component uses, and deferred accept and fast open, of which `cb_accept` ignores the result.
* Failures of the allocator except where the code handles them in a way that changes its course: no memory for a connection's buffer, for a response's header, for a client's watcher, for an object of a cache. `renew_buffer` without memory closes as `NoBuffer` does; the buffers of `client::Response` are left out.
* A client `Connection`, a timer or a `Prepare` destroyed inside its own callback, and a client without a callback.
* What `send` does to the headers and `_date` of a response it was given before.
* Lists of one cache of which some have capacity and some have none.
* `max_conns` of the server, which the code only passes to `reserve()`.
* Durations: a timer that runs may fire at any time, and is zero or not.
* `PROJECT.json` lists every component with its status and the reason.

## 9 Plan

Done, in the order of importance: `ServerConnection` with `Pipeline`, `WaitGroup`, `RequestBuffer`, `ResponseWrite`, `HttpClient`, `ClientStream`, `HttpHead` with `Strings`, `AsciiCase`, `Text` and `Conversions`, `SyncClient` with `Url`, `EventLoop` with `Resolve` and `Watchers`, `Resources` with `Sockets` and `Caches`; and the theorems of section 6.

Next theorems: every safety property of a run is proved but for `TextExact`, of which two parts are. Of the others, `ListExact` is within reach of the lemmas on recursive functions in `RequestBufferProofs`.

Next modules: `Spinlock` with a proof of mutual exclusion; a refinement that shows `HttpClient`'s connection to be what `ClientStream` does to the bytes.
