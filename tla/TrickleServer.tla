--------------------------- MODULE TrickleServer ----------------------------
(***************************************************************************)
(* The server of the file sharing program, assignment2/src/server.hpp with *)
(* the per-client send buffers of client_connection.hpp.  One thread takes *)
(* events off a kqueue; each handler is one action.                        *)
(*                                                                         *)
(* The environment is open: clients connect and leave, and whatever they   *)
(* may send arrives in any order.  Module Trickle closes it.  Control      *)
(* names the layer that carries control messages: on "TCP" a message of a  *)
(* client comes before its disconnection, on "UDP" it may come later.      *)
(*                                                                         *)
(* A null _clients[i] is dereferenced, or a number divided by zero, in     *)
(* some steps: crashed says that such a step ended the process.            *)
(***************************************************************************)
EXTENDS TrickleProtocol

CONSTANTS Addr,             \* addresses clients connect from
          Control,          \* layer of the control messages
          MinClients,       \* _min_clients
          CacheSize,        \* max_size of _chunk_cache
          RequestedChunks,  \* bound: the chunks clients ask for
          MaxControl,       \* bound: entries in a _control_msg_buffer
          MaxSends          \* bound: entries in a _chunk_buffer

NoAddr == "none"

ASSUME ServerAssumption ==
  /\ NoAddr \notin Addr
  /\ Control \in {"TCP", "UDP"}
  /\ MinClients \in Nat \ {0}
  /\ CacheSize \in Nat \ {0}
  /\ RequestedChunks \subseteq Chunk
  /\ MaxControl \in Nat /\ MaxSends \in Nat

VARIABLES crashed,
          clients,               \* keys of _clients
          nextClientId,          \* _next_client_id
          lookup,                \* _client_id_contingency_lookup
          reverseLookup,         \* _client_id_contingency_reverse_lookup
          controlMsgBuffer,      \* _control_msg_buffer of each connection
          chunkBuffer,           \* _chunk_buffer of each connection
          chunkCache,            \* _chunk_cache, see ChunkCache
          clientsDistributedTo,  \* _clients_distributed_to
          chunksToDistribute,    \* _chunks_to_distribute
          beingDistributed,      \* _chunks_being_distributed
          distributed,           \* _chunks_distributed
          distributedAll,        \* _distributed_all_chunks
          requestsOpen,          \* _requests_open
          chunkRequests,         \* _chunk_requests: who waits for a chunk
          clientRequests,        \* _client_requests: what a client waits for
          share,                 \* history: chunks dealt to each client
          told                   \* history: clients an OPEN was written to

connectionVars == <<clients, nextClientId, lookup, reverseLookup>>
dealVars == <<clientsDistributedTo, chunksToDistribute, share>>
sentVars == <<beingDistributed, distributed, distributedAll>>
waitVars == <<chunkRequests, clientRequests>>

serverVars == <<crashed, connectionVars, controlMsgBuffer, chunkBuffer,
                chunkCache, dealVars, sentVars, requestsOpen, waitVars, told>>

Cache == INSTANCE ChunkCache
           WITH Key <- Chunk, MaxSize <- CacheSize, cache <- chunkCache

RoomForControl(i, n) == Len(controlMsgBuffer[i]) + n <= MaxControl
RoomForSend(i) == Len(chunkBuffer[i]) < MaxSends

Pushed(buffer, i, m) == [buffer EXCEPT ![i] = Append(@, m)]
Popped(buffer, i) == [buffer EXCEPT ![i] = Tail(@)]

\* The process dies: nothing it holds matters any more.
Crash ==
  /\ crashed' = TRUE
  /\ UNCHANGED <<connectionVars, controlMsgBuffer, chunkBuffer, chunkCache,
                 dealVars, sentVars, requestsOpen, waitVars, told>>

-----------------------------------------------------------------------------
(***************************************************************************)
(* accept_new_client and distribute_chunks_to_client.                      *)
(***************************************************************************)
\* Clients still to come among the first MinClients, the next one included (the
\* faulty variants do not count them down, or count the next one already), and
\* chunk_lim: the share of the next client when m chunks are left for n clients.
ClientsInAll == MinClients
ClientsAfterNext == MinClients - (clientsDistributedTo + 1)
ClientsToCome == MinClients - clientsDistributedTo
ChunkLimit(m, n) == m \div n + (IF m % n > 0 THEN 1 ELSE 0)

\* The faulty variants use an id that is incremented already, and forget that
\* the distribution may be over.
GreetingWithNextId(i) == <<Reg(nextClientId + 1, NumChunks)>>
GreetingWithoutOpen(i) == <<Reg(i, NumChunks)>>
Greeting(i) == IF distributedAll THEN <<Reg(i, NumChunks), Open(0)>>
                                 ELSE <<Reg(i, NumChunks)>>

\* Client i gets the first lim chunks of the queue.
Deal(i, lim) ==
  /\ chunkBuffer' = [chunkBuffer EXCEPT ![i] = SubSeq(chunksToDistribute, 1, lim)]
  /\ beingDistributed' =
       beingDistributed \cup {chunksToDistribute[j] : j \in 1 .. lim}
  /\ chunksToDistribute' =
       SubSeq(chunksToDistribute, lim + 1, Len(chunksToDistribute))
  /\ share' = [share EXCEPT ![i] = lim]
  /\ clientsDistributedTo' = clientsDistributedTo + 1

\* With MinClients clients served the divisor n is 0, later negative.  The
\* queue is empty then, so a division that goes through (a negative divisor,
\* or a machine that yields 0) leaves nothing to send.
DistributeTo(i) ==
  IF distributedAll
  THEN UNCHANGED <<dealVars, beingDistributed, chunkBuffer>>
  ELSE Deal(i, IF ClientsToCome > 0
               THEN ChunkLimit(Len(chunksToDistribute), ClientsToCome) ELSE 0)

Connect(i, a) ==
  /\ lookup' = [lookup EXCEPT ![a] = i]
  /\ reverseLookup' = [reverseLookup EXCEPT ![i] = a]
  /\ clients' = clients \cup {i}
  /\ nextClientId' = i + 1

DividesByZero == ~distributedAll /\ ClientsToCome = 0

AcceptNewClient(a) ==
  /\ ~crashed
  /\ nextClientId \in ClientId
  /\ \A i \in clients : reverseLookup[i] # a
  /\ \/ DividesByZero /\ Crash
     \/ /\ Connect(nextClientId, a)
        /\ controlMsgBuffer' =
             [controlMsgBuffer EXCEPT ![nextClientId] = Greeting(nextClientId)]
        /\ DistributeTo(nextClientId)
        /\ UNCHANGED <<crashed, chunkCache, distributed, distributedAll,
                       requestsOpen, waitVars, told>>

(***************************************************************************)
(* client_disconnected: "disconnect client_id from everything".            *)
(***************************************************************************)
\* The waiting lists without client i, which only leaves those its own list
\* names.
WithoutWaiter(i) ==
  [k \in Chunk |-> IF k \in clientRequests[i] THEN chunkRequests[k] \ {i}
                                              ELSE chunkRequests[k]]

\* The faulty variant of erasing the address of client i.
AddressKept(i) == lookup
AddressErased(i) == [lookup EXCEPT ![reverseLookup[i]] = NoId]

ClientDisconnected(i) ==
  /\ ~crashed /\ i \in clients
  /\ chunkRequests' = WithoutWaiter(i)
  /\ clientRequests' = [clientRequests EXCEPT ![i] = {}]
  /\ lookup' = AddressErased(i)
  /\ reverseLookup' = [reverseLookup EXCEPT ![i] = NoAddr]
  /\ clients' = clients \ {i}
  /\ controlMsgBuffer' = [controlMsgBuffer EXCEPT ![i] = << >>]
  /\ chunkBuffer' = [chunkBuffer EXCEPT ![i] = << >>]
  /\ UNCHANGED <<crashed, nextClientId, chunkCache, dealVars, sentVars,
                 requestsOpen, told>>

-----------------------------------------------------------------------------
(***************************************************************************)
(* received_chunk: those who wait for the chunk get it queued, then the    *)
(* cache takes it.  They stay on the waiting list until it is written.     *)
(***************************************************************************)
ReceivedChunk(k) ==
  /\ ~crashed
  /\ IF chunkRequests[k] \subseteq clients
     THEN /\ \A i \in chunkRequests[k] : RoomForSend(i)
          /\ chunkBuffer' =
               [i \in ClientId |-> IF i \in chunkRequests[k]
                                   THEN Append(chunkBuffer[i], k)
                                   ELSE chunkBuffer[i]]
          /\ Cache!Store(k)
          /\ UNCHANGED <<crashed, connectionVars, controlMsgBuffer, dealVars,
                         sentVars, requestsOpen, waitVars, told>>
     ELSE Crash

(***************************************************************************)
(* received_chunk_request, its three branches.                             *)
(***************************************************************************)
AnswerFromCache(i, k) ==
  /\ Cache!Cached(k)
  /\ IF i \in clients
     THEN /\ RoomForSend(i)
          /\ chunkBuffer' = Pushed(chunkBuffer, i, k)
          /\ Cache!Hit(k)
          /\ UNCHANGED <<crashed, connectionVars, controlMsgBuffer, dealVars,
                         sentVars, requestsOpen, waitVars, told>>
     ELSE Crash

\* Only _chunk_requests learns of a request that is in the air.
JoinWaiters(i, k) ==
  /\ ~Cache!Cached(k)
  /\ chunkRequests[k] # {}
  /\ chunkRequests' = [chunkRequests EXCEPT ![k] = @ \cup {i}]
  /\ UNCHANGED <<crashed, connectionVars, controlMsgBuffer, chunkBuffer,
                 chunkCache, dealVars, sentVars, requestsOpen, clientRequests,
                 told>>

\* Rounds of the loop over i that are not past the end of the file, and how
\* many of them reach the p-th client of the hash map.
Rounds(k) == {r \in 0 .. 9 : k + r < NumChunks}
Copies(p, k) == Cardinality({r \in Rounds(k) : p <= Cardinality(clients) \div 2^r})

Forwarded(i, k, order) ==
  [j \in ClientId |->
     IF j \in clients
     THEN controlMsgBuffer[j] \o [x \in 1 .. Copies(order[j], k) |-> Req(i, k)]
     ELSE controlMsgBuffer[j]]

ForwardToClients(i, k) ==
  /\ ~Cache!Cached(k)
  /\ chunkRequests[k] = {}
  /\ \E order \in Bijection(clients, 1 .. Cardinality(clients)) :
       /\ \A j \in clients : RoomForControl(j, Copies(order[j], k))
       /\ controlMsgBuffer' = Forwarded(i, k, order)
  /\ chunkRequests' = [chunkRequests EXCEPT ![k] = {i}]
  /\ clientRequests' = [clientRequests EXCEPT ![i] = @ \cup {k}]
  /\ UNCHANGED <<crashed, connectionVars, chunkBuffer, chunkCache, dealVars,
                 sentVars, requestsOpen, told>>

ReceivedRequest(i, k) ==
  /\ ~crashed
  /\ AnswerFromCache(i, k) \/ JoinWaiters(i, k) \/ ForwardToClients(i, k)

(***************************************************************************)
(* The other control messages: a client asks whether it may request        *)
(* chunks, or asks for its registration data by its address.               *)
(***************************************************************************)
SendControl(i, m) ==
  /\ RoomForControl(i, 1)
  /\ controlMsgBuffer' = Pushed(controlMsgBuffer, i, m)
  /\ UNCHANGED <<crashed, connectionVars, chunkBuffer, chunkCache, dealVars,
                 sentVars, requestsOpen, waitVars, told>>

\* The faulty variant answers before the distribution is over.
AlwaysMayOpen == TRUE
MayOpen == distributedAll

ReceivedOpen(i) ==
  /\ ~crashed /\ MayOpen
  /\ IF i \in clients THEN SendControl(i, Open(0)) ELSE Crash

ReceivedReg(a) ==
  /\ ~crashed /\ lookup[a] \in clients
  /\ SendControl(lookup[a], Reg(lookup[a], NumChunks))

\* An OPEN that comes too early, and a REG from an unknown address, are
\* dropped.
DropOpen == ~crashed /\ ~MayOpen /\ UNCHANGED serverVars
DropReg(a) == ~crashed /\ lookup[a] \notin clients /\ UNCHANGED serverVars

\* received_control_msg: message m from address a.
ReceivedControl(a, m) ==
  \/ m.msgtype = "REQ" /\ ReceivedRequest(m.client, m.chunk)
  \/ m.msgtype = "OPEN" /\ (ReceivedOpen(m.client) \/ DropOpen)
  \/ m.msgtype = "REG" /\ (ReceivedReg(a) \/ DropReg(a))

\* open_requests, at the start of a turn of run().
OpenRequests ==
  /\ ~crashed /\ distributedAll /\ ~requestsOpen
  /\ \A i \in clients : RoomForControl(i, 1)
  /\ controlMsgBuffer' =
       [i \in ClientId |-> IF i \in clients
                           THEN Append(controlMsgBuffer[i], Open(0))
                           ELSE controlMsgBuffer[i]]
  /\ requestsOpen' = TRUE
  /\ UNCHANGED <<crashed, connectionVars, chunkBuffer, chunkCache, dealVars,
                 sentVars, waitVars, told>>

-----------------------------------------------------------------------------
(***************************************************************************)
(* One entry leaves a send buffer.  The UDP write filter serves every      *)
(* client in one event; as the kernel may refuse any of these writes, the  *)
(* step of one client is the unit.                                         *)
(***************************************************************************)
\* sent_chunk while chunks are being distributed; the faulty variant does not
\* erase the chunk from _chunks_being_distributed.
CountTwice(k) ==
  /\ distributed' =
       distributed \cup (IF k \in beingDistributed THEN {k} ELSE {})
  /\ distributedAll' = (distributed' = Chunk)
  /\ UNCHANGED <<beingDistributed, waitVars>>

CountDistributed(k) ==
  /\ beingDistributed' = beingDistributed \ {k}
  /\ distributed' =
       distributed \cup (IF k \in beingDistributed THEN {k} ELSE {})
  /\ distributedAll' = (distributed' = Chunk)
  /\ UNCHANGED waitVars

\* sent_chunk afterwards: client i no longer waits for the chunk.
EndWait(i, k) ==
  /\ chunkRequests' = [chunkRequests EXCEPT ![k] = @ \ {i}]
  /\ clientRequests' = [clientRequests EXCEPT ![i] = @ \ {k}]
  /\ UNCHANGED sentVars

WriteChunk(i) ==
  /\ ~crashed /\ chunkBuffer[i] # << >>
  /\ chunkBuffer' = Popped(chunkBuffer, i)
  /\ IF distributedAll THEN EndWait(i, Head(chunkBuffer[i]))
                       ELSE CountDistributed(Head(chunkBuffer[i]))
  /\ UNCHANGED <<crashed, connectionVars, controlMsgBuffer, chunkCache,
                 dealVars, requestsOpen, told>>

WriteControl(i) ==
  /\ ~crashed /\ controlMsgBuffer[i] # << >>
  /\ controlMsgBuffer' = Popped(controlMsgBuffer, i)
  /\ told' = IF Head(controlMsgBuffer[i]).msgtype = "OPEN"
             THEN told \cup {i} ELSE told
  /\ UNCHANGED <<crashed, connectionVars, chunkBuffer, chunkCache, dealVars,
                 sentVars, requestsOpen, waitVars>>

-----------------------------------------------------------------------------
Init ==
  /\ crashed = FALSE
  /\ clients = {}
  /\ nextClientId = 0
  /\ lookup = [a \in Addr |-> NoId]
  /\ reverseLookup = [i \in ClientId |-> NoAddr]
  /\ controlMsgBuffer = [i \in ClientId |-> << >>]
  /\ chunkBuffer = [i \in ClientId |-> << >>]
  /\ chunkCache = << >>
  /\ clientsDistributedTo = 0
  /\ chunksToDistribute = [j \in 1 .. NumChunks |-> j - 1]
  /\ beingDistributed = {}
  /\ distributed = {}
  /\ distributedAll = FALSE
  /\ requestsOpen = FALSE
  /\ chunkRequests = [k \in Chunk |-> {}]
  /\ clientRequests = [i \in ClientId |-> {}]
  /\ share = [i \in ClientId |-> 0]
  /\ told = {}

\* Client i may still have a message on its way to the server.
MaySpeak(i) == i < nextClientId /\ (Control = "TCP" => i \in clients)

\* Clients ask for chunks once they were told OPEN, and send chunks that
\* were distributed.
Arrival ==
  \/ \E a \in Addr : AcceptNewClient(a) \/ ReceivedReg(a)
  \/ \E i \in ClientId : MaySpeak(i) /\ ReceivedOpen(i)
  \/ \E i \in told, k \in RequestedChunks : MaySpeak(i) /\ ReceivedRequest(i, k)
  \/ \E k \in distributed \cap RequestedChunks : ReceivedChunk(k)

Next ==
  \/ Arrival
  \/ OpenRequests
  \/ \E i \in ClientId :
       ClientDisconnected(i) \/ WriteChunk(i) \/ WriteControl(i)

Spec == Init /\ [][Next]_serverVars

-----------------------------------------------------------------------------
\* The values of the variables; ids are handed out in order.
TypeOK ==
  /\ crashed \in BOOLEAN
  /\ nextClientId \in 0 .. (MaxClientId + 1)
  /\ clients \subseteq 0 .. (nextClientId - 1)
  /\ lookup \in [Addr -> ClientId \cup {NoId}]
  /\ reverseLookup \in [ClientId -> Addr \cup {NoAddr}]
  /\ controlMsgBuffer \in [ClientId -> Seq(ControlMessage)]
  /\ chunkBuffer \in [ClientId -> Seq(Chunk)]
  /\ chunkCache \in Seq(Chunk)
  /\ clientsDistributedTo \in Nat
  /\ chunksToDistribute \in Seq(Chunk)
  /\ beingDistributed \subseteq Chunk
  /\ distributed \subseteq Chunk
  /\ distributedAll \in BOOLEAN
  /\ requestsOpen \in BOOLEAN
  /\ chunkRequests \in [Chunk -> SUBSET ClientId]
  /\ clientRequests \in [ClientId -> SUBSET Chunk]
  /\ share \in [ClientId -> Nat]
  /\ told \subseteq ClientId

\* A chunk is in one place of the distribution: to be dealt, dealt, or sent.
\* The distribution is over when all chunks were sent, and a chunk counts as
\* dealt as long as a live connection has it queued.
DistributionBooks ==
  /\ Chunk = Range(chunksToDistribute) \cup beingDistributed \cup distributed
  /\ Range(chunksToDistribute) \cap (beingDistributed \cup distributed) = {}
  /\ beingDistributed \cap distributed = {}
  /\ distributedAll <=> distributed = Chunk
  /\ ~distributedAll => \A i \in clients : Range(chunkBuffer[i]) \subseteq beingDistributed

\* "number of chunks distributed can vary by atmost one among clients": the
\* first MinClients clients share the file out evenly and completely.
EvenShares ==
  LET firsts == {i \in ClientId : i < nextClientId /\ i < MinClients} IN
  /\ clientsDistributedTo >= MinClients => chunksToDistribute = << >>
  /\ \A i, j \in firsts : share[i] <= share[j] + 1

\* No client is told to request chunks before every chunk has left the server.
OpenAfterDistribution ==
  \A i \in ClientId :
    (i \in told \/ \E m \in Range(controlMsgBuffer[i]) : m.msgtype = "OPEN")
      => distributed = Chunk

\* Once requests are open every connected client was told so or has an OPEN
\* queued, whether it connected before, during or after the distribution.
NobodyLeftClosed ==
  requestsOpen => \A i \in clients :
    i \in told \/ \E m \in Range(controlMsgBuffer[i]) : m.msgtype = "OPEN"

\* The lookup by address that answers a repeated REG names exactly the
\* connected clients: the "internal conflict" of received_control_msg does
\* not happen, and no address of a client that left stays behind.
LookupMatchesClients ==
  /\ \A a \in Addr : lookup[a] # NoId =>
       lookup[a] \in clients /\ reverseLookup[lookup[a]] = a
  /\ \A i \in clients : reverseLookup[i] \in Addr /\ lookup[reverseLookup[i]] = i

\* What a client's own list says it waits for is what the chunks' lists say.
OwnListTrue ==
  \A i \in ClientId : \A k \in clientRequests[i] : i \in chunkRequests[k]

\* The server's tables agree with each other after any connects, disconnects
\* and waits: ids in order, addresses, and who waits for what.
TablesConsistent == TypeOK /\ LookupMatchesClients /\ OwnListTrue

Gone == (0 .. (nextClientId - 1)) \ clients

\* Only three things end the process: a client that connects after the first
\* MinClients while the last of the chunks dealt to them are still to be written,
\* and divides what is left by zero clients; a chunk that comes back for a client
\* that joined a request in the air and has left since; and, with control messages on UDP, a
\* message of a client that has left.  No null connection is dereferenced for a
\* client that is there.
CrashCause ==
  crashed =>
    \/ clientsDistributedTo = MinClients /\ ~distributedAll
    \/ \E k \in Chunk : chunkRequests[k] \cap Gone # {}
    \/ Control = "UDP" /\ Gone # {}
=============================================================================
