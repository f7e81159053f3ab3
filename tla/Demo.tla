-------------------------------- MODULE Demo ---------------------------------
(***************************************************************************)
(* The earlier version of the program as a whole, in its build with        *)
(* control messages on UDP: the clients and the network of Trickle with    *)
(* the server of DemoServer.  The clients differ from the later ones only  *)
(* in how they keep their chunks and in one line: they do not notice that  *)
(* the server is gone, and go on for ever.                                 *)
(***************************************************************************)
EXTENDS Trickle

D == INSTANCE DemoServer
       WITH controlMsgBuffer <- serverControl, chunkBuffer <- serverSends,
            MaxControl <- MaxServerControl, MaxSends <- MaxServerSends,
            Addr <- Client, RequestedChunks <- Chunk

-----------------------------------------------------------------------------
(***************************************************************************)
(* Clients.                                                                *)
(***************************************************************************)
Construct(c) == Join(c)
CanReadTCP(c, n) == ClientRead(c, "data", n)
CanReadUDP(c, n) == ClientRead(c, "control", n)
CanWriteTCP(c) == ClientWriteChunk(c)
CanWriteUDP(c) == ClientWriteControl(c)
PeriodicResendRequests(c) == ClientTimer(c)
RequestMissing(c) == ClientTurn(c)
Terminate(c) == Leave(c)

DemoClient(c) ==
  \/ Construct(c) \/ CanWriteTCP(c) \/ CanWriteUDP(c)
  \/ \E n \in 1 .. MaxInFlight : CanReadTCP(c, n) \/ CanReadUDP(c, n)
  \/ PeriodicResendRequests(c) \/ RequestMissing(c) \/ Terminate(c)

-----------------------------------------------------------------------------
(***************************************************************************)
(* The server.                                                             *)
(***************************************************************************)
AcceptClient(c) ==
  /\ conn[c] \in {"backlog", "ended"}
  /\ D!AcceptClient(c)
  /\ conn' = [conn EXCEPT ![c] = Accepted(@)]
  /\ UNCHANGED <<clientVars, retries, toServer, toClient>>

ReadMessage(c, n) ==
  /\ n \in Takeable("control", toServer["control"][c])
  /\ D!ReceivedControlMsg(c, toServer["control"][c][n])
  /\ toServer' = Taken(toServer, "control", c, n)
  /\ UNCHANGED <<clientVars, retries, conn, toClient>>

ReadChunk(c) ==
  /\ toServer["data"][c] # << >> /\ lookup[c] \in clients
  /\ D!ServeWaiters(Head(toServer["data"][c]))
  /\ toServer' = Taken(toServer, "data", c, 1)
  /\ UNCHANGED <<clientVars, retries, conn, toClient>>

WriteMessage(i) ==
  /\ D!CanWriteUDP(i)
  /\ ServerSent("control", reverseLookup[i], Head(serverControl[i]))
  /\ UNCHANGED <<clientVars, retries, conn, toServer>>

SendChunk(i) ==
  /\ D!CanWriteTCP(i)
  /\ ServerSent("data", reverseLookup[i], Head(serverSends[i]))
  /\ UNCHANGED <<clientVars, retries, conn, toServer>>

SeeEnd(i) ==
  /\ i \in clients
  /\ conn[reverseLookup[i]] = "closed" /\ toServer["data"][reverseLookup[i]] = << >>
  /\ D!ClientGone(i)
  /\ UNCHANGED <<clientVars, netVars>>

StartTurn == D!OpenAll /\ UNCHANGED <<clientVars, netVars>>

DemoServerStep ==
  \/ \E c \in Client : AcceptClient(c) \/ ReadChunk(c)
  \/ \E c \in Client, n \in 1 .. MaxInFlight : ReadMessage(c, n)
  \/ \E i \in clients : WriteMessage(i) \/ SendChunk(i) \/ SeeEnd(i)
  \/ StartTurn

DemoNext == (\E c \in Client : DemoClient(c)) \/ DemoServerStep \/ Loss

DemoSpec == Init /\ [][DemoNext]_vars

\* As in Trickle: the loops turn for ever, the timer fires every second, and
\* of what is sent again and again on UDP infinitely many messages arrive.
DemoFairness ==
  /\ WF_vars(StartTurn)
  /\ \A c \in Client :
       /\ ClientFairness(c)
       /\ WF_vars(AcceptClient(c)) /\ WF_vars(ReadChunk(c))
       /\ SF_vars(\E n \in 1 .. MaxInFlight : ReadMessage(c, n))
  /\ \A i \in ClientId : WF_vars(WriteMessage(i)) /\ WF_vars(SendChunk(i))

DemoFairSpec == DemoSpec /\ DemoFairness

-----------------------------------------------------------------------------
\* Who waits for a chunk and what a client waits for always agree, so that a
\* client that leaves is struck off every list it is on.
ListsAgree ==
  \A i \in ClientId, k \in Chunk :
    i \in chunkRequests[k] <=> k \in clientRequests[i]

\* Every client ends up with the whole file, whichever requests are lost on
\* the way, unless somebody leaves.
EveryoneStayingSaves == \A c \in Client : <>(savedFile[c] \/ ~NobodyLeft)
=============================================================================
