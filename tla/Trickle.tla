------------------------------ MODULE Trickle -------------------------------
(***************************************************************************)
(* The file sharing program: the server of TrickleServer, the clients of   *)
(* TrickleClient, and the network between them.                            *)
(*                                                                         *)
(* Between server and client c run two channels each way, one for control  *)
(* messages and one for chunks.  The two builds of the program put one     *)
(* kind on the TCP connection and the other on UDP.  A channel in which    *)
(* messages may be lost also reorders them; another keeps all, in order.   *)
(***************************************************************************)
EXTENDS TrickleClient, SequencesExt

CONSTANTS Control,         \* "UDP" or "TCP": the layer of control messages
          MinClients, CacheSize,
          Lossy,           \* which of "REQ", "OPEN", "REG", "CHUNK" may be lost
          Overtaking,      \* whether control messages may overtake chunks
          Leavers,         \* clients that may be terminated
          MaxRetries,      \* bound: timer events of a client
          Unbounded,       \* what that bound is lifted for, see ClientTimer
          MaxServerControl, MaxServerSends,  \* bound: the server's send buffers
          MaxInFlight      \* bound: messages in a channel

VARIABLES crashed, clients, nextClientId, lookup, reverseLookup,
          serverControl, serverSends, chunkCache, clientsDistributedTo,
          chunksToDistribute, beingDistributed, distributed, distributedAll,
          requestsOpen, chunkRequests, clientRequests, share, told,
          retries,         \* timer events of each client, if bounded
          conn,            \* TCP connection of each client
          toServer,        \* toServer["control"][c], toServer["data"][c]
          toClient

S == INSTANCE TrickleServer
       WITH controlMsgBuffer <- serverControl, chunkBuffer <- serverSends,
            MaxControl <- MaxServerControl, MaxSends <- MaxServerSends,
            Addr <- Client, RequestedChunks <- Chunk

ASSUME ServerParameters == S!ServerAssumption
ASSUME NetworkAssumption ==
  /\ Lossy \subseteq {"REQ", "OPEN", "REG", "CHUNK"}
  /\ Leavers \subseteq Client
  /\ MaxInFlight \in Nat
  /\ MaxRetries \in Nat
  /\ Overtaking \in BOOLEAN /\ Unbounded \subseteq {"asking", "expiry"}

netVars == <<retries, conn, toServer, toClient>>
serverVars == <<crashed, clients, nextClientId, lookup, reverseLookup,
                serverControl, serverSends, chunkCache, clientsDistributedTo,
                chunksToDistribute, beingDistributed, distributed,
                distributedAll, requestsOpen, chunkRequests, clientRequests,
                share, told>>
vars == <<clientVars, serverVars, netVars>>

Kind == {"control", "data"}
OnTCP(kind) == (kind = "control") <=> (Control = "TCP")

\* Whether message m can be lost, and where the next message can be taken
\* from a channel.
MayLose(kind, m) == IF kind = "data" THEN "CHUNK" \in Lossy ELSE m.msgtype \in Lossy
Reorders(kind) == IF kind = "data" THEN "CHUNK" \in Lossy ELSE Lossy \ {"CHUNK"} # {}
Takeable(kind, channel) ==
  IF Reorders(kind) THEN DOMAIN channel ELSE DOMAIN channel \cap {1}

Sent(net, kind, c, m) == [net EXCEPT ![kind][c] = Append(@, m)]
Taken(net, kind, c, n) == [net EXCEPT ![kind][c] = RemoveAt(@, n)]
Room(net, kind, c) == Len(net[kind][c]) < MaxInFlight

\* The connection of a client waits in the kernel's "backlog" until the server
\* accepts it; then it is "open".  When the client ends it becomes "closed",
\* by way of "ended" if the server has yet to accept it.
Connected(c) == conn[c] \in {"backlog", "open"}
AfterEnd(state) == IF state = "backlog" THEN "ended" ELSE "closed"
Accepted(state) == IF state = "backlog" THEN "open" ELSE "closed"

-----------------------------------------------------------------------------
(***************************************************************************)
(* Steps of a client.                                                      *)
(***************************************************************************)
\* The constructor connects.
Join(c) ==
  /\ conn[c] = "new"
  /\ conn' = [conn EXCEPT ![c] = "backlog"]
  /\ UNCHANGED <<clientVars, serverVars, retries, toServer, toClient>>

ClientWriteControl(c) ==
  /\ Room(toServer, "control", c)
  /\ WriteControl(c)
  /\ toServer' = Sent(toServer, "control", c, Head(controlMsgBuffer[c]))
  /\ UNCHANGED <<serverVars, retries, conn, toClient>>

ClientWriteChunk(c) ==
  /\ Room(toServer, "data", c)
  /\ WriteChunk(c)
  /\ toServer' = Sent(toServer, "data", c, Head(chunkBuffer[c]))
  /\ UNCHANGED <<serverVars, retries, conn, toClient>>

ClientRead(c, kind, n) ==
  /\ n \in Takeable(kind, toClient[kind][c])
  /\ kind = "control" /\ ~Overtaking => toClient["data"][c] = << >>
  /\ IF kind = "control" THEN ReceivedControl(c, toClient[kind][c][n])
                         ELSE ReceivedChunk(c, toClient[kind][c][n])
  /\ toClient' = Taken(toClient, kind, c, n)
  /\ UNCHANGED <<serverVars, retries, conn, toServer>>

ClientTimer(c) ==
  /\ Connected(c)
  /\ PeriodicResend(c)
  /\ IF (IF registered[c] /\ canRequest[c] THEN "expiry" ELSE "asking") \in Unbounded
     THEN UNCHANGED retries
     ELSE retries[c] < MaxRetries /\ retries' = [retries EXCEPT ![c] = @ + 1]
  /\ UNCHANGED <<serverVars, conn, toServer, toClient>>

ClientTurn(c) ==
  /\ RequestNext(c)
  /\ UNCHANGED <<serverVars, netVars>>

\* The process is terminated: the connection closes behind what was sent.
Leave(c) ==
  /\ c \in Leavers /\ Connected(c)
  /\ Disconnected(c)
  /\ conn' = [conn EXCEPT ![c] = AfterEnd(@)]
  /\ UNCHANGED <<serverVars, retries, toServer, toClient>>

\* The server is gone.
LoseServer(c) ==
  /\ crashed /\ Connected(c)
  /\ Disconnected(c)
  /\ conn' = [conn EXCEPT ![c] = AfterEnd(@)]
  /\ UNCHANGED <<serverVars, retries, toServer, toClient>>

-----------------------------------------------------------------------------
(***************************************************************************)
(* Steps of the server.                                                    *)
(***************************************************************************)
Accept(c) ==
  /\ conn[c] \in {"backlog", "ended"}
  /\ S!AcceptNewClient(c)
  /\ conn' = [conn EXCEPT ![c] = Accepted(@)]
  /\ UNCHANGED <<clientVars, retries, toServer, toClient>>

\* What is sent to a client that has ended reaches nobody.
ServerSent(kind, c, m) ==
  IF conn[c] = "closed" THEN UNCHANGED toClient
  ELSE Room(toClient, kind, c) /\ toClient' = Sent(toClient, kind, c, m)

ServerWriteControl(i) ==
  /\ S!WriteControl(i)
  /\ ServerSent("control", reverseLookup[i], Head(serverControl[i]))
  /\ UNCHANGED <<clientVars, retries, conn, toServer>>

ServerWriteChunk(i) ==
  /\ S!WriteChunk(i)
  /\ ServerSent("data", reverseLookup[i], Head(serverSends[i]))
  /\ UNCHANGED <<clientVars, retries, conn, toServer>>

\* The TCP connection is read only once it is accepted and until its end was
\* seen; UDP datagrams are read whoever sent them.
ServerRead(c, kind, n) ==
  /\ n \in Takeable(kind, toServer[kind][c])
  /\ OnTCP(kind) => lookup[c] \in clients
  /\ IF kind = "control" THEN S!ReceivedControl(c, toServer[kind][c][n])
                         ELSE S!ReceivedChunk(toServer[kind][c][n])
  /\ toServer' = Taken(toServer, kind, c, n)
  /\ UNCHANGED <<clientVars, retries, conn, toClient>>

\* recv returns 0: all that came before on the connection was read.
ServerSeesEnd(i) ==
  /\ i \in clients
  /\ conn[reverseLookup[i]] = "closed"
  /\ \A kind \in Kind : OnTCP(kind) => toServer[kind][reverseLookup[i]] = << >>
  /\ S!ClientDisconnected(i)
  /\ UNCHANGED <<clientVars, netVars>>

ServerTurn ==
  /\ S!OpenRequests
  /\ UNCHANGED <<clientVars, netVars>>

-----------------------------------------------------------------------------
(***************************************************************************)
(* The network loses a message.                                            *)
(***************************************************************************)
LoseToServer(kind, c) ==
  /\ \E n \in DOMAIN toServer[kind][c] :
       /\ MayLose(kind, toServer[kind][c][n])
       /\ toServer' = Taken(toServer, kind, c, n)
  /\ UNCHANGED <<clientVars, serverVars, retries, conn, toClient>>

LoseToClient(kind, c) ==
  /\ \E n \in DOMAIN toClient[kind][c] :
       /\ MayLose(kind, toClient[kind][c][n])
       /\ toClient' = Taken(toClient, kind, c, n)
  /\ UNCHANGED <<clientVars, serverVars, retries, conn, toServer>>

Init ==
  /\ ClientInit
  /\ S!Init
  /\ retries = [c \in Client |-> 0]
  /\ conn = [c \in Client |-> "new"]
  /\ toServer = [kind \in Kind |-> [c \in Client |-> << >>]]
  /\ toClient = [kind \in Kind |-> [c \in Client |-> << >>]]

ClientStep(c) ==
  \/ Join(c)
  \/ ClientWriteControl(c) \/ ClientWriteChunk(c)
  \/ \E kind \in Kind, n \in 1 .. MaxInFlight : ClientRead(c, kind, n)
  \/ ClientTimer(c) \/ ClientTurn(c)
  \/ Leave(c) \/ LoseServer(c)

ServerStep ==
  \/ \E c \in Client : Accept(c)
  \/ \E c \in Client, kind \in Kind, n \in 1 .. MaxInFlight : ServerRead(c, kind, n)
  \/ \E i \in clients :
       ServerWriteControl(i) \/ ServerWriteChunk(i) \/ ServerSeesEnd(i)
  \/ ServerTurn

Loss == \E c \in Client, kind \in Kind : LoseToServer(kind, c) \/ LoseToClient(kind, c)

Next == (\E c \in Client : ClientStep(c)) \/ ServerStep \/ Loss

Spec == Init /\ [][Next]_vars

(***************************************************************************)
(* Fairness.  Both event loops turn for ever and the write filters of      *)
(* connected sockets are ready again and again, so what can be accepted,   *)
(* read, written or requested is, in the end.  What is sent again and      *)
(* again on a channel that loses messages arrives again and again (strong  *)
(* fairness of the reads).  The timer fires every second.                  *)
(***************************************************************************)
ClientFairness(c) ==
  /\ WF_vars(Join(c)) /\ WF_vars(ClientTurn(c)) /\ WF_vars(ClientTimer(c))
  /\ WF_vars(ClientWriteControl(c)) /\ WF_vars(ClientWriteChunk(c))
  /\ \A kind \in Kind : SF_vars(\E n \in 1 .. MaxInFlight : ClientRead(c, kind, n))

ServerFairness ==
  /\ WF_vars(ServerTurn)
  /\ \A c \in Client :
       /\ WF_vars(Accept(c))
       /\ \A kind \in Kind :
            SF_vars(\E n \in 1 .. MaxInFlight : ServerRead(c, kind, n))
  /\ \A i \in ClientId :
       WF_vars(ServerWriteControl(i)) /\ WF_vars(ServerWriteChunk(i))

FairSpec == Spec /\ ServerFairness /\ \A c \in Client : ClientFairness(c)

-----------------------------------------------------------------------------
\* The server proved about in isolation is the server of the system: the
\* clients and the network only do to it what its open environment may do.
\* In particular no request reaches it from a client it has not told OPEN,
\* and no chunk that it has not sent before.
ImplementsServer == S!Spec

NobodyLeft == \A c \in Client : running[c]

\* A connected client goes by the id under which the server knows its
\* address, also when it got it from a repeated REG, so its requests are
\* answered to itself.
RightIdentity ==
  \A c \in Client : registered[c] /\ conn[c] = "open" => lookup[c] = clientId[c]

\* No chunk of the file gets lost as long as no client leaves: when the server
\* has let go of it, a client holds it or is about to.
ChunkSurvives ==
  NobodyLeft => \A k \in Chunk :
    \/ k \in Range(chunksToDistribute)
    \/ \E i \in clients : k \in Range(serverSends[i])
    \/ \E c \in Client :
         k \in chunks[c] \cup recvChunkCache[c] \cup Range(toClient["data"][c])

Asks(m, k) == m.msgtype = "REQ" /\ m.chunk = k

\* Chunk k is coming back to the server: it is queued or in flight, or a
\* client that has it, or will get it before, is about to be asked.
ComingBack(k) ==
  \E c \in Client :
    \/ k \in Range(chunkBuffer[c]) \cup Range(toServer["data"][c])
    \/ /\ \/ \E m \in Range(toClient["control"][c]) : Asks(m, k)
          \/ \E i \in clients : /\ reverseLookup[i] = c
                                /\ \E m \in Range(serverControl[i]) : Asks(m, k)
       /\ k \in chunks[c] \cup recvChunkCache[c] \cup Range(toClient["data"][c])

\* Whoever waits for a chunk at the server is going to get it: the answer is
\* queued for it, or the request for the chunk is indeed "in the air".
WaitersAreServed ==
  \A k \in Chunk : \A i \in chunkRequests[k] \cap clients :
    k \in Range(serverSends[i]) \/ ComingBack(k)

\* Every client registers and is allowed to request, whatever control messages
\* are lost on the way.
EveryoneAdmitted ==
  \A c \in Client : <>(registered[c] /\ canRequest[c])

\* Every client ends up with the whole file.
EveryoneSaves == \A c \in Client : <>savedFile[c]
=============================================================================
