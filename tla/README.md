# Trickle: a TLA+ development of the PSP file sharing program

The repository holds the assignments of a computer networks course. Its one
program with a design of its own is `assignment2/src` (called *Trickle* here): a
central server splits a file into chunks, deals them out to the first clients
that connect, forgets them, and from then on only forwards chunk requests among
the clients ("pseudo-P2P", PSP) with a small cache of chunks that pass through.
This directory models that program from the bytes on its sockets to its
processes, two other versions of it, and the ns-3 experiments of the later
assignments. TLC checks the models, and TLAPS proves the safety
properties for all values of the constants.

## 1. Inventory

### The file sharing program (`assignment2/src`)

| Part | State | Operations | Who it talks to |
|---|---|---|---|
| Server (`server.hpp`) | connections by id, two maps between ids and addresses, the queue of chunks to deal and the sets of dealt and sent ones, `_distributed_all_chunks`, `_requests_open`, who waits for which chunk (`_chunk_requests`) and what each client waits for (`_client_requests`), the cache | `accept_new_client`, `distribute_chunks_to_client`, `open_requests`, `received_chunk`, `received_chunk_request`, `received_control_msg`, `sent_chunk`, `client_disconnected`, `shutdown_server`, `load_file` | one event loop (`run`) over a kqueue |
| Connection (`client_connection.hpp`, `client_connection_{tcp,udp}.cpp`, `server_{tcp,udp}.cpp`) | two send buffers per client | `send_chunk`, `send_control_msg`, `can_read_*`, `can_write_*`, `close_client` | calls back into the server |
| Cache (`lru_cache.hpp`) | a map of values, a `std::list` of keys in order of use, a map of iterators into the list | `insert`, `evict`, `access` | called by the server on every chunk and request |
| Client (`client.hpp`, `client_{tcp,udp}.cpp`) | registration, received chunks and their count, cache of chunks that came too early, request sequence and index, times of open requests, two send buffers | `received_chunk`, `received_control`, `periodic_resend_requests`, `request_chunk`, `save_file`, `disconnected`, the end of a turn of `run` | one event loop with a one-second timer |
| Protocol (`protocol.hpp`) | `REQ`, `OPEN`, `REG` control messages, file chunks | | |
| Client manager (`clientmgr.cpp`) | global `running`, atomic completion counter, one thread per client | start, count completed, join | all clients of one process |
| Event queue (`event_queue.hpp`) | a kqueue | add, get, close | wrapper of `kevent` |
| Programs (`server.cpp`, `client.cpp`) | `running`, options | signal handlers, start | |
| Stand-alone (`chunks.cpp`, `tester.cpp`) | | `get_chunk` | linked into `eval2` only |

The two builds (`Makefile`, `PROTO`) differ in which layer carries what. With
`PROTO=UDP` control messages are UDP datagrams and chunks go over TCP; with
`PROTO=TCP` it is the other way round. The state machines are the same.

### Other programs

* **Earlier version** (`assignment2/demo`, and `eval2/demo`, a copy of it byte for
  byte): the server passes every request for a chunk that is not cached on to all
  other clients, also a repeated one.
* **Chunk server** (`eval2/2020CS10869_proj`): the server distributes nothing and
  answers requests itself, with texts that are corrupted one time in three; the client
  checks a hash and asks again.
* **Traffic** (`assignment3` `a3q1`–`a3q3`, `assignment4` `a4q1`, `eval34` part A):
  `MyApp`, a source that sends packets at a constant rate on a socket from its start
  to its stop, in five programs; part A changes a rate on the way.
* **NewReno Plus** (`assignment4`, `TcpNewRenoPlus.cc`): congestion control.
* **Routing** (`assignment4` `a4q2a`–`a4q2c`, `eval34` part B): a network of routers
  whose links a script tears down and sets up again, and whose tables it prints.
* `programs`, `rcvlowat_test`: ping, traceroute and socket experiments. `assignment1`,
  and all data, notebooks and reports: no program.

### What is hard

* **Ordering.** Registration and the first chunks travel on different sockets, so
  chunks arrive before the client knows how many there are; a forwarded request
  may come before the chunk it asks for.
* **Reordering.** Datagrams overtake each other: in `eval2` the answer to a repeated `REG`
  may come before the greeting.
* **Loss and retry.** Control messages (or chunks) may be lost. Clients repeat
  `REG` and `OPEN` once a second and requests after five seconds. A late answer
  then races the repeated request.
* **Two lists that must agree**, `_chunk_requests` and `_client_requests`, while
  answers, new requests and disconnections interleave.
* **Departure.** A client may leave with chunks nobody else has, while it is being
  waited for, or while it waits; its last datagrams outlive it.
* **Batches and descriptors.** `kevent` returns a batch; a handler may close a
  descriptor, or accept another connection on the same number, while the rest of the
  batch still names it. `accept` and `kevent` may return -1 and nobody looks.
* **Threads.** All clients of a manager share one flag and one counter.
* **Framing.** `send` and `recv` of a chunk are taken to move a whole struct; only the
  low-water marks make it so.
* **Boundaries.** Division by the number of clients still to come, shares
  that must be even and complete, a full request window, a full cache, a file whose
  size is a multiple of the chunk size, growth that is truncated to zero.
* **Equal times.** In the experiments one source closes a socket at the very time
  another starts to use it, and links are torn down and printed at equal times.

### What makes each part correct

* Cache: iterators never dangle, list and maps agree, contents are the most
  recently used keys.
* Client: no chunk is forgotten or requested twice at once, the count is exact,
  the file is saved once and when complete, an answer names a chunk that is here,
  a missing chunk is asked for again and again.
* Server: the books of the distribution, even shares, `OPEN` neither too early nor
  forgotten, the tables agree, only a known cause brings it down.
* Whole: no chunk gets lost, nobody goes by a wrong id, whoever waits is served,
  every client ends up with the file, and the file is the one that was loaded.
* Processes: no event reaches a destroyed connection; a manager ends when its files are
  saved or the server is gone, and not before.
* Experiments: a source sends what its times and its rate promise; link changes hit
  both ends of the link that is meant; an acknowledgement adds at most a segment to the
  congestion window, and slow start stalls where the growth is truncated to zero. The
  comment at `TcpNewRenoPlus.cc:116` on how fast avoidance grows ("roughly 1 segment per
  RTT") is the subject of no property, as round trips are ns-3's.

The hazards, each at its line and with the properties that would catch it, are
listed in `PROJECT.json`.

## 2. Modules

    TrickleProtocol <- TrickleClient <- Trickle (clients, server, network)
                                            instance of TrickleServer
                       Trickle <- Demo (earlier version)
                                            instance of DemoServer
    TrickleProtocol <- EvalClient, EvalServer <- Eval (chunk server)
    ChunkCache   <--implements--  LRUCache
    TrickleServer <--implements-- Trickle
    ChunkChannel <--implements--  Transfer
    ChunkFile <- Transfer                      (bytes)
    ClientManager, ServerLoop <- Processes     (threads, descriptors)
    TrafficApp <- Routing, NewRenoPlus <- Experiment
    MC*: the instances TLC checks, where a module alone does not do
    *Proofs, BufferTheorems: the theorems (section 4)

**ChunkCache** is what the server relies on in its cache: a list of at most
`MaxSize` keys, last used first, with `Hit` and `Add`. **LRUCache** is the data
structure of `lru_cache.hpp`. An iterator is the identity of a list node, so the
list is a sequence of nodes; a node that was erased may be handed out again at
once. The history variable `useOrder` records every key by last use and is what
`LRUStack` compares the list with. `access` of a cached key is `AccessHit` (a miss
changes nothing), `insert` with the eviction it makes is `Insert`.

**TrickleProtocol** has the messages. A chunk is its id, as contents never change.

**TrickleClient** has one action per handler of `client.hpp`: `ReceivedChunk`
(`CacheEarlyChunk`, `StoreChunk`), `ReceivedOpen`, `Register`,
`RegisteredAlready`, `ReceivedRequest`, the three cases of `PeriodicResend`,
`RequestNext` for the end of a loop turn, `WriteControl` and `WriteChunk` for the
write filters, and `Disconnected`. `pending` is the part of `_req_sequence` from
`_next_chunk_idx` on, the only part the code still reads. Which open requests are
more than five seconds old is the clock's choice: `ExpireRequests` may take any
of them, and requeues them in the order of the hash map, hence in any. The
environment is open: any message may come at any time.

**TrickleServer** does the same for `server.hpp` and the buffers of
`client_connection.hpp`: `AcceptNewClient` (with greeting and dealing),
`OpenRequests`, `ReceivedChunk`, `ReceivedRequest` in its three branches (answer
from the cache, join those who wait, forward), `ReceivedOpen`, `ReceivedReg`,
`WriteChunk` (with `sent_chunk`), `WriteControl`, `ClientDisconnected`. Forwarding
walks the hash map of connections in ten rounds of shrinking length; the order of
the map is any. A null connection that is dereferenced or a division by zero
is the step `Crash`. As a division by zero does not trap on every processor, the
code may also go on. `share` and `told` are history variables.

**Trickle** extends TrickleClient, whose variables are those of its clients, and takes an
instance of TrickleServer. It composes them with the network: for each client
a channel each way for control messages and one for chunks, the state of its
connection (a client may end before the server accepts it), loss of the kinds of
messages in `Lossy`, reordering of a channel that may lose, and terminations.

**DemoServer** and **Demo** are the earlier version. The server has two waiting
lists that it keeps in step, asks all others again on every repeated request
(`AskOthers`), and strikes off who was sent a chunk also during the distribution
(`SentChunk`); its other handlers are those of TrickleServer under the names of this
version. The clients are those of Trickle, but never notice that the server is gone.

**EvalClient**, **EvalServer** and **Eval** are the chunk server of `eval2`. An answer
is an id and whether its text is the one that was hashed. The client's request
sequence skips every second id, each good answer counts, and after as many as
there are chunks the file is saved; the server sends every answer to client 0
(`Receiver`). A write past the client's vectors sets `outOfRange`, a null connection
at the server `crashed`. Parts of this server that nothing can reach are named in the
head of EvalServer. Datagrams are taken from their channel in any order (`ReadRequest`,
`ReadReply`). A request may be lost; a reply that is lost is one that stays on its way for ever. A client ends when it has its file,
finds the server gone, or is stopped by a signal at any time (`End`); its requests stay on
their way, and a live server reads them after it has seen the client go.

**ChunkFile** has the arithmetic of `load_file` (when `eof` is seen) and of
`save_file`. **Transfer** loads a file, sends its chunks as structs cut into units
over the two socket buffers of a connection, and saves what arrives: `CanWriteTCP`
waits for room for a whole struct, the network (`Carry`) moves a unit at a time,
`CanReadTCP` waits for the low-water mark of the receiver and takes what is there.
**ChunkChannel** is what the other modules take such a connection for: a channel of whole chunks
with its actions `Queue`, `Write`, `Close`, `Read` and `End`. It has no run, as a theorem
shows that Transfer implements it.

**ClientManager** has the `main` of `clientmgr.cpp` and its threads, in steps at
whose borders the shared flag may change. **ServerLoop** has `run` of the server:
`GetEvents` makes a batch, `Dispatch` takes its events in any order, with accepts that fail
and descriptors that are used again; `close_client` reads its descriptor after
the connection object is destroyed, so the descriptor may stay open (the choice in
`CloseClient`). **Processes** lets the threads be the peers of the loop, with
signals to either process, the end of either, and sockets closed by the kernel.

**TrafficApp** is `MyApp` on a simulator that runs events by time and, at equal
times, in the order they were scheduled. A socket takes a packet if it is bound, not closed since,
and connected; `Connect` fails for a peer address without a port, and `MyApp` ignores that.
`refused` counts what a socket did not take. **Routing** has the topologies and the
link scripts; it computes the interface numbers from the order of the networks
and compares with the numbers the scripts name. **NewRenoPlus** has the four
functions of `TcpNewRenoPlus.cc` on integers. **Experiment** has the numbers of
each program and runs one of them at a time; the window is followed in one of them.

Definitions named as a *variant* are plausible mistakes next to the
definition they would replace. No specification uses them; each shows that one of
the properties tells the code from the mistake.

## 3. Runs

`tlc -config X.cfg M`, all with two workers; states are distinct ones.

| Run | Instance | What is checked and what it shows |
|---|---|---|
| `lru` | 4 keys, 2 places, 3 nodes (300 states) | `CacheConsistent`, `LRUStack`, and that LRUCache implements ChunkCache |
| `client` | 1 client, 3 chunks, window of 2 (15 672) | `ClientTypeOK`, `NoChunkForgotten`, `OneRequestPerChunk`, `SavedExactlyOnce`, `AnswersHeld` in an arbitrary environment; `KeepsAsking`: a chunk that stays missing is requested again and again |
| `server` | 5 chunks for 2 clients, 3 ids, control on UDP (166 760) | `TablesConsistent`, `DistributionBooks`, `EvenShares`, `OpenAfterDistribution`, `NobodyLeftClosed` while clients come and go; `CrashCause`: the server is only ended by the division for a client too many, a chunk that returns for a client that left while waiting, or a datagram of a client that left |
| `live` | 2 clients, 2 chunks, perfect network (8 398) | `EveryoneSaves`: both get the file |
| `admission` | 1 client, lossy control (2 075) | `EveryoneAdmitted`: `REG` and `OPEN` get through by repetition |
| `leave` | 2 clients, 1 chunk, one client may leave, lossy control (562 318) | `RightIdentity`; while nobody leaves `ChunkSurvives`; and `ImplementsServer`: the composed system is a behaviour of TrickleServer, so what holds of the server in its open environment holds in the system |
| `demo` | 2 clients, 1 chunk, one may leave, requests may be lost (112 407) | `ListsAgree`; `EveryoneStayingSaves`: a lost request delays a file but does not prevent it, as it is passed on again |
| `evaluation` | 2 clients, 3 chunks (so that 2 answers make a file), terminations, loss, reordering (959 059) | `GenuineOnly`; `OddChunksOnly`: a file lacks every second chunk; `OnlyTheFirstIsServed`; `OverrunWithoutGreeting`: only a client whose greeting is lost or overtaken writes past its vectors; `ListsConsistent` with requests that arrive after their client was seen gone; `FirstFinishes`: answers complete the file of the first client unless it is terminated or overrun |
| `transfer` | files of 0, 3, 4, 5 bytes in chunks of 2, structs of 3 units through a buffer of 5 (1 014) | `ChunksConsistent`: number of chunks, and every `recv` returns a whole struct; `SavedAsLoaded`; `Arrives` |
| `processes` | 2 threads, 2 descriptors, 3 ids (30 496) | `DescriptorsConsistent`; `AbortExplained`, `AllSavedEnds`, `ServerEndEndsManager` |
| `experiment` | all experiments of the repository and a short one (80 721) | `SentAsPlanned`, `BooksConsistent`, `RoutesAsScripted`, `SlowStartStalls`, `AtMostOneSegment` |
| `second_waiter` | 3 clients, 2 chunks, a cache of one | ends in a counterexample to `WaitersAreServed` |

In `second_waiter` a client joins the waiting list after the answer came but before
it is written to the first waiter. The chunk is already out of the cache, so nobody
alerts it, although the comment at `server.hpp:244` says "chunk request in the air,
will alert when it comes back". Other disagreements between text and code that the
models made visible:

* A client that joins a request in the air is only entered in `_chunk_requests`, and
  `client_disconnected` goes by `_client_requests`. When it disconnects it stays on the waiting
  list, although `server.hpp:171` says "disconnect client_id from everything"; the answer then
  dereferences a null connection. This is the second of the three causes in `CrashCause`; `TablesConsistent`
  is about the other direction of the two lists and holds all the same.
* With control on UDP, a datagram that outlives its sender makes the server dereference a null
  connection (`server.hpp:204`; the third cause in `CrashCause`).
* When the forwarded request for a chunk is lost, or, with chunks on UDP, the
  chunk itself, all repeats by the client find the waiting list non-empty and are
  not forwarded, although the report (`assignment2/report/writeup.tex:69`, `:145`) has the client
  re-request "until we get it". The earlier version does forward repeats, which is why
  `EveryoneStayingSaves` holds of it under loss, and `EveryoneSaves` of this one only on the network of `live`,
  which loses nothing.
* Even then a `REQ` on UDP must not overtake a dealt chunk on TCP (`Overtaking`): the client drops it and those
  who wait are never served. `live` assumes that none does.
* A client that disconnects takes the dealt chunks in its buffer along, and the distribution never ends.
  `DistributionBooks` holds, as they still count as being distributed; `ChunkSurvives` is about the time
  until somebody leaves.
* The peers of all three sources of `a3q3` are addresses without a port (`a3q3.cc:251`, `:253`), so `Connect`
  fails and every packet is refused (`TakenIfAddressed`, part of `SentAsPlanned`). The report explains the measured window by a network
  "overloaded with UDP packets" (`assignment3/report/writeup.tex:213`).
* A client beyond the first `min_clients` that connects before the last dealt
  chunk is written is dealt to with zero clients to come: `m/n` divides by zero
  (`server.hpp:281`; the first cause in `CrashCause`).
* The loop that should request the next chunks as well, by its comment, repeats the
  same request up to ten times (`server.hpp:248`–`263`).
* In `eval2` the client ignores the result of the UDP `bind` (`client.hpp:116`). Its
  request sequence skips every second chunk, every answer goes to client 0, a lost
  `OPEN` is never repeated, and a repeated `REG` announces a number that nobody sets.
* The head comment of `eval34`'s part A gives other times and rates than its code,
  that of part B another time for the break of a link, and its option help other times
  for the prints. The models follow the code.

### Bounds, and why they are enough

* `MaxControl`, `MaxSends` (in Eval `MaxClientControl`), `MaxServerControl`
  and `MaxServerSends` bound the send buffers of clients and server, `MaxEarly` the cache of
  early chunks, `MaxInFlight` a channel. The code's queues are unbounded; here a step that
  would exceed the bound waits (in Eval a datagram to the server is dropped instead, as by a
  full socket). The bounds allow two messages of every kind behind one another, or, in the
  runs with one message in flight, one on the way and the next in the buffer;
  races between messages of one channel need no more. `MaxServerControl` is large
  enough for the copies that forwarding makes in one step. Round r of forwarding reaches
  the first n div 2^r of n clients and none past the end of the file, so two clients
  get at most two copies.
* `MaxClientId`, `MaxId` bound the ids handed out: one id more than addresses in `server`,
  and than descriptors in `processes`, so either is used again by a new connection.
* `NumChunks`: five chunks for two clients do not divide evenly; three chunks with a
  window of two let an expired request wait behind a full window; one chunk is enough for
  `leave` and `demo`, whose hazards are about connections and repeats. A cache of one place in
  `server` and `second_waiter` makes every new chunk evict the last.
* `RequestedChunks` (server alone): only chunk 0 is requested there, since the
  waiting lists of different chunks do not touch each other but for the cache.
* `MaxRetries` and `MaxAsking` bound the timer events where nothing but safety is asked
  or progress does not rest on them. Elsewhere the timer is unbounded (`Unbounded` names the kinds).
* `MaxReplies`: two replies on their way to a client, such as a greeting and its `OPEN`, or a greeting, which
  may be lost, and the answer to a repeated `REG` that overtakes it. `RequestNext` leaves one place in the
  buffer free for the repeats of the timer; the code pushes a request on every turn. Requests may be lost without bound.
* Two clients are the smallest number that forward to each other; `second_waiter`
  needs three: one that answers, one that waits, one that comes in between.
* `Sizes` of `transfer` are empty, one below, at, and one above a multiple of the chunk
  size; `Units` and `Room` share no divisor, so structs wrap around the buffer. `MaxChunks`
  bounds the chunks that a file which cannot be opened yields, `MaxRepeats` what is sent again.
* `MaxWindow`, `MaxAcked`: segments of 10 bytes up to a window of 100 pass through
  slow start until it stalls, a loss at any time, and avoidance.

Deadlock is not checked where the bounds or the end of all work stop the system;
the cache is checked for it.

### Fairness

Every assumption is about something the code does for ever, or the network.

* Weak fairness of the end of a turn (`RequestNext`, `Turn`, `OpenRequests`), of
  the writes, of `Accept`, of the threads' steps, of loading and of both ends of a TCP
  connection: the loops turn for ever, as the write filter of a connected socket is
  ready again and again.
* Weak fairness of the timer, which fires every second, and of the expiry of each
  request: the clock passes any five seconds. `evaluation` does not assume the
  timer fires.
* Strong fairness of reading a channel of `Trickle` and `Demo`: a datagram that is sent
  again and again is not lost every time. In `Eval` strong fairness of answering
  some request with the right text, as corruption is a throw of dice for each answer, and weak fairness of
  reading replies, so that those to the first client arrive (a lost `OPEN` is never sent again). Only the steps of the first client and
  what the server does for it are fair: nothing is assumed of other clients.
* Nothing is assumed about departures, signals, losses or clients that connect, nor, in
  `processes`, that a file is ever saved.

## 4. Proofs

`tlapm M.tla`; all obligations are proved by SMT, Zenon and LS4. The theorems hold for
every value of the constants that satisfies the named assumptions beside them, and for every
bound: nothing in the proofs uses how large a buffer is. BufferTheorems has what
the proofs share about sequences (what a push, a pop and a cut do to the entries).

**TrickleProofs** is about Trickle, in four parts.

*The clients.* `ClientInv` is `ClientTypeOK` and, for every client, `Kept`: `BooksKept`
(chunks, open requests and the rest of the sequence make up the file of a
registered client and do not overlap; no chunk twice in the sequence),
`CountersKept` and `AnswersKept`. The properties that the run checks are almost
inductive together; what is missing is that an unregistered client has no open
request. Without it `init_chunk_request_sequence` could enter a chunk into the
sequence that is also open. There is a lemma for each action and each part that the
action can disturb. It is inductive for TrickleClient's open environment. Proved: all safety
properties of the run `client`.

*The system.* TrickleServer lets a message arrive only if its sender may send it: a request only from an
id that was told `OPEN` (`told`), a chunk only if it was dealt. That the messages of real clients
are such messages is an invariant of the whole, `SystemInv`. It joins `ClientInv`, the server's
`IInv` and the types of the network with what ties them together:
`RegsNameOwner` (a `REG` queued at the server names the id it is queued for), `IdsAreGiven` (an
id that a client has, or will read, is the one the server gave its connection), `SilentBeforeAccept` and
`StoppedAtEnd` (nothing comes before the server has accepted, or goes out after the
end), `SpeaksForItself` (what a client has queued or sent carries its own id, and names a
chunk only after `OPEN`), `OpenWasTold` (who has an `OPEN`, read or on its way, has an
id in `told`) and `ChunksWereSent` (every chunk on a client, in a buffer or in a channel was dealt).
Each conjunct is needed by the next: without `RegsNameOwner` a client could learn an id that is not its own,
without `IdsAreGiven` it could speak for another, and without `SilentBeforeAccept` an id from an earlier life of an
address could be in force. Then every step of the system is a step of the server or leaves it alone
(`StepOfServer`), and the same for the clients (`StepOfClients`): `ServerImplemented`
proves `ImplementsServer`, `ClientsImplemented` the counterpart, and `PromisesKept` carries what either
side promises alone over to the system. `IdentityRight` proves `RightIdentity`.

*Chunks.* `ChunksSurvive` proves `ChunkSurvives` for a network that does not lose chunks
(`"CHUNK" \notin Lossy`), which is the build with chunks on TCP; where they are datagrams a
lost one may be the last, and the property does not hold.

*The earlier version.* `ListsAgree` is inductive as soon as both lists have an entry for every chunk and id
(`ListsInv`): a client joins and leaves them together (`JoinBoth`). `ListsAlwaysAgree` says so of `DemoSpec`.
Its clients are those of Trickle with another server beside them. `DemoInv` joins `ClientInv` and the types of
the network with what this server has in its buffers for clients (`ServerHolds`: messages it may send, and
chunks of the file), and every step of the whole is one of a client or leaves the clients alone.
`DemoClientsKeepBooks` concludes that `DemoSpec` implies `ClientSpec` and the promises that rest on it.

**TrickleServerProofs.** `IInv` joins the properties of the server with `Idle` (an id without
a connection has nothing queued, only ids handed out wait) and `Closed` (until the
distribution is over nobody waits, requests are not open, and each chunk is queued in one place only).
Without `Closed` a chunk queued twice could be written and leave the books while
its other copy is still dealt. `EvenShares` has an invariant of its own,
`SharesInv`: what is left is split by the clients to come as the whole was by all of them, so the
quotient stays, and the rest is used up one by one. Proved: all properties of the run
`server`. `CacheUsedAsMeant` says that the server changes its cache only by the steps of ChunkCache,
each of which leaves it with no chunk twice and no more than `max_size` of them (`CacheHeld`). As
LRUCache implements ChunkCache, nothing is left open between `lru_cache.hpp` and its use.

**LRUCacheProofs.** `IteratorsValid` alone is not inductive: if two places of the list were one
node, or a listed node held a key whose iterator points elsewhere, an access
would unlink a node some iterator still names. `IInv` adds that key_map and the
list are inverse to each other (`NodesKnown`), the list has no node twice, and its length is
the number of cached keys. Both operations remove one node (or none) and push one:
`NodePushed` shows once that pushing keeps the invariant. `SInv` compares the list with the order of
use: `LRUStack` is inductive once that order names each key once. Proved: `CacheConsistent`, `LRUStack`, and
`Implementation`, that LRUCache implements ChunkCache under the mapping that reads the keys off the nodes.

**EvalProofs**, for an odd number of chunks, as the code has. `EInv` adds to the properties that every
request and answer on its way, in whatever buffer or channel, is odd (`OddOnTheWay`),
that addresses, ids and connections belong together (`Identities`), that a registered client is one the
server knows (`Known`), that answers are only ever with the first client or with one that has
ended (`FirstOnly`), and `Greeted`: as long as a client is not registered,
the `REG` of its greeting is first in its connection's buffer (`GreetingNext`) or on its way to it (`GreetingOut`), as one that is
lost is for ever. Buffers are written in their order, so no other `REG` is sent before it; one that is read before it leaves it on its way,
and an overrun client reads no more. The order in which datagrams arrive is not used. Proved: all invariants of the run `evaluation`.

**ProcessesProofs**, for any number of threads and a descriptor for each
(`Cardinality(Fd) >= N`). `ManagerInv` is about the threads: the counter is the number of saved files,
and the flag is only cleared by an interruption or by the last of them. `LoopInv` is about the loop: a peer
is in the backlog once or behind one descriptor, and the listener's event is in the batch only when the
backlog was not empty, so that `accept` finds nobody only if a connection was reset.
As long as every peer connects once, counting gives it a free descriptor, leaked ones included.
Proved: `AbortExplained`, `DescriptorsConsistent`.

**TransferProofs**, for every size of file, chunk, struct and socket buffer. `LoadInv` follows the
read loop: the offset is a multiple of the chunk size until `eof`, and then the size lies below the next one.
`StreamInv` says that the receiver's and the sender's buffers together are whole structs (`Framed`), wherever
the cut between them is. A `recv` takes the first struct as a whole (`StructRead`), a `send`
adds one (`StructWritten`), and the network only moves the cut (`CarryStep`). `ContentInv` adds
the place and size of every chunk that was cut from the file, and that a chunk received is the one that was to be sent. What `save_file` puts together is the
concatenation of the chunks. `FlattenSeq` is a recursion over data, so its values for every number of chunks are taken from the
least number for which they would be wrong, which exists as the naturals are well founded (`Flattened`, with `WFMin`).
Proved: `ChunksConsistent`, `SavedAsLoaded`, and, in `ChannelImplemented`, that Transfer implements
ChunkChannel. The mapping (`InFlight`) reads the chunks off the stream of units, which it finds by choice, so it is
first shown that there is a reading of every stream that occurs (`Readings`) and never two of the same one. A `send` then appends to it, a
`recv` takes its head, and `Carry`, which only moves the cut, is a stutter.

**ExperimentProofs**, first about the congestion window, for every segment size and any losses. `WInv` adds to the properties that
the window stays below the initial threshold. Slow start adds at most a segment as `Growth(c) * c` is at most `Power`.
`AtMostOneSegment` needs that `Power` is at most 0.7399 of the square of the segment size (`PowerModerate`), which
SegmentSize^1.91 is from 29 bytes on; ns-3's segments have 536. `ExperimentsHaveIt` carries the results over to Experiment.

Then about the applications, of every experiment that is `WellTimed`: each application starts before it stops, two that share a socket take
turns (one may stop at the very time the next starts, if it comes first in the list), and a rate is changed at most once, before
its application stops. `TimeOf(x, a, m)` is the time packet m of an application is due. `AInv`
says that an application is before its start, between, or after its stop; that the packet scheduled next
is due at its time and carries the uid in `m_sendEvent`, which is why the stop cancels it and nothing else, as uids of
different applications differ; that all packets before were in time for the stop and the end, and for a change of rate
if that is still to come; and that an application that has the socket after another only runs once the stop of that
one is over. `events` only has events that are known to be so (`KnownEvent`). Each of the two conditions
under which no more is sent, the count and the time, then gives one half of the number in `SentAsPlanned`
(`PlansFollow`). Whether packets are taken is decided by the peer's address alone (`TakenIfAddressed`): of a source with a port none
is refused, as its socket is open and connected from its start to its stop; of one without, all are, as no source that
shares its socket has one either (`WellTimed`). `WellTimedRuns` is the result for every well-timed experiment, `AllWellTimed` shows that those of the repository
are, and `PlansKept` and `BooksKept` follow. TLC finds `AInv` to hold in every state of the run `experiment`.

Third about links: two networks of a node never have the same interface number (`InterfacesDiffer`), so a script that
names both ends of a link by their numbers leaves no link with one end down (`LinksStayWhole`), and the
scripts of the repository do name them so (`LinksNamedRight`).

Last about the order of a script. Its entries run in the order of their times and, at equal times, in that of the
script (`OrderInv`), so what is down was torn down by an entry that ran and not undone by another (`DownBooks`). `PhaseInv`
says that what is down since the last change is printed once a print has run after it, and that everything that was down while time
passed has been printed, but for the topology of the start, which may yet be. `PhasesPrinted` is the result for every
simulation that only has a script: if the tables are printed between any two changes made at different times, and after the
last (`PrintsPhases`), no topology that lasted escapes the prints. The first may also be printed when every link is up
again, as in A4q2c. The paths follow from `OnlyTorn`, that a link no entry tears down is never down. `RoutesFollowScripts`
checks the conditions for the scripts of the repository and so proves `RoutesAsScripted`.

Only model-checked is liveness (`KeepsAsking`, `EveryoneAdmitted`, `EveryoneSaves`, `EveryoneStayingSaves`,
`FirstFinishes`, `AllSavedEnds`, `ServerEndEndsManager`, `Arrives`), which fairness puts out of the
prover's reach.

## 5. Not modelled, and why

* Contents of chunks and files where protocols are concerned (Transfer has them), formatting,
  logging and the RTT statistics: nothing depends on them. The randomised request order
  is never switched on.
* The framing of control messages on TCP in the other build, and errors of `send` and `recv`
  that are reported in `errno`: the code does not look at them.
* SIGPIPE: a `send` on a connection that the peer has reset ends a process that does not handle the
  signal, and none of the programs does. In the models such a write reaches nobody.
* After `disconnected` the code still handles the rest of its batch of events, then
  ends; Trickle ends at once. What it does in between reaches nobody.
* The limit of 64 events a call of `kevent` returns: a batch of the model is smaller.
* A cache of size 0: the server accepts it unchecked, and the first chunk would then
  evict from an empty list. The models and theorems assume a positive size.
* The TCP build of the earlier version (its transport is the later one's) and of `eval2` (which does
  not compile with its client).
* ns-3 itself. Taken from it, as external: events at equal times run in the order in which they were
  scheduled, `Simulator::Stop` precedes what the applications schedule later for the same time, `Bind` opens a
  UDP socket again that was closed, and who calls the functions of the congestion control when. RIP,
  pings, queues, links and traces are left out. `Connect` fails for an address without a port.
* `programs` (ping, traceroute, the ns-3 test), `rcvlowat_test` and the plot scripts: single-shot programs that keep
  no state. What `rcvlowat_test` tries out is part of Transfer.
* Option parsing and output of the programs.

## 6. Plan

Done: all programs of the repository with a state of their own, and theorems about all of them and about
the composed systems. What is left, in this order:

1. In the earlier version, that its server keeps the other tables too, as TrickleServer does.
2. The framing of control messages on TCP, as a second instance of Transfer with structs of another length.
