----------------------------- MODULE EvalServer ------------------------------
(***************************************************************************)
(* The server of the eval2 variant, eval2/2020CS10869_proj/src/server.hpp  *)
(* with chunks.cpp.  It loads no file and distributes nothing: it opens    *)
(* requests for each client at once and answers a request itself, with a   *)
(* text that one time in three is not the one its hash belongs to.         *)
(*                                                                         *)
(* Nothing sets _distributed_all_chunks, so open_requests is never called, *)
(* an OPEN message is never answered, and sent_chunk changes nothing.  The *)
(* clients send no chunks, so received_chunk is never called either.       *)
(***************************************************************************)
EXTENDS TrickleProtocol

CONSTANTS Addr,              \* addresses clients connect from
          UnsetTotals,       \* values _tot_chunks may happen to have
          MaxServerControl,  \* bound: entries in a _control_msg_buffer
          MaxServerSends     \* bound: entries in a _chunk_buffer

NoAddr == "none"

ASSUME EvalServerAssumption == NoAddr \notin Addr /\ UnsetTotals \subseteq Int

\* A REG may carry any number as the total.
Message == [msgtype : {"REQ", "OPEN", "REG"}, client : ClientId, chunk : Int]

VARIABLES crashed,
          totChunks,      \* _tot_chunks, never initialised
          clients,        \* keys of _clients with a connection
          nextClientId,   \* _next_client_id
          lookup,         \* _client_id_contingency_lookup
          reverseLookup,  \* _client_id_contingency_reverse_lookup
          serverControl,  \* _control_msg_buffer of each connection
          serverSends,    \* _chunk_buffer of each connection
          chunkRequests,  \* _chunk_requests
          clientRequests  \* _client_requests

tableVars == <<totChunks, clients, nextClientId, lookup, reverseLookup>>
waitVars == <<chunkRequests, clientRequests>>
serverVars == <<crashed, tableVars, serverControl, serverSends, waitVars>>

\* A null pointer was dereferenced.
Crash ==
  /\ crashed' = TRUE
  /\ UNCHANGED <<tableVars, serverControl, serverSends, waitVars>>

RoomForControl(i) == Len(serverControl[i]) < MaxServerControl
RoomForSend(i) == Len(serverSends[i]) < MaxServerSends

\* accept_new_client announces 11 chunks, so that 10 is the last id, and lets
\* the client request.  The faulty variant announces ten.
GreetingTooShort(i) == <<Reg(i, NumChunks - 1), Open(0)>>
Greeting(i) == <<Reg(i, NumChunks), Open(0)>>

AcceptNewClient(a) ==
  /\ ~crashed /\ nextClientId \in ClientId
  /\ lookup' = [lookup EXCEPT ![a] = nextClientId]
  /\ reverseLookup' = [reverseLookup EXCEPT ![nextClientId] = a]
  /\ clients' = clients \cup {nextClientId}
  /\ nextClientId' = nextClientId + 1
  /\ serverControl' = [serverControl EXCEPT ![nextClientId] = Greeting(nextClientId)]
  /\ UNCHANGED <<crashed, totChunks, serverSends, waitVars>>

\* client_disconnected; the faulty variant leaves the client on the waiting
\* lists of the chunks.
KeepWaiting(i) == chunkRequests
StopWaiting(i) ==
  [k \in Chunk |-> IF k \in clientRequests[i] THEN chunkRequests[k] \ {i}
                                              ELSE chunkRequests[k]]

ClientDisconnected(i) ==
  /\ ~crashed /\ i \in clients
  /\ chunkRequests' = StopWaiting(i)
  /\ clientRequests' = [clientRequests EXCEPT ![i] = {}]
  /\ lookup' = [lookup EXCEPT ![reverseLookup[i]] = NoId]
  /\ reverseLookup' = [reverseLookup EXCEPT ![i] = NoAddr]
  /\ clients' = clients \ {i}
  /\ serverControl' = [serverControl EXCEPT ![i] = << >>]
  /\ serverSends' = [serverSends EXCEPT ![i] = << >>]
  /\ UNCHANGED <<crashed, totChunks, nextClientId>>

\* received_chunk_request: the answer goes to _clients[0], whoever asked.  The
\* text is intact or not (get_chunk).  The variant answers the client that asked.
WhoAsked(i) == i
Receiver(i) == 0

Answered(i, k, intact) ==
  /\ Receiver(i) \in clients
  /\ RoomForSend(Receiver(i))
  /\ serverSends' =
       [serverSends EXCEPT ![Receiver(i)] = Append(@, [id |-> k, intact |-> intact])]
  /\ chunkRequests' = [chunkRequests EXCEPT ![k] = @ \cup {i}]
  /\ clientRequests' = [clientRequests EXCEPT ![i] = @ \cup {k}]
  /\ UNCHANGED <<crashed, tableVars, serverControl>>

ReceivedRequest(i, k, intact) ==
  /\ ~crashed
  /\ Answered(i, k, intact) \/ (Receiver(i) \notin clients /\ Crash)

\* A repeated REG is answered with the total that was never set.
ReceivedReg(a) ==
  /\ ~crashed
  /\ IF lookup[a] = NoId THEN UNCHANGED serverVars
     ELSE /\ RoomForControl(lookup[a])
          /\ serverControl' =
               [serverControl EXCEPT ![lookup[a]] = Append(@, Reg(lookup[a], totChunks))]
          /\ UNCHANGED <<crashed, tableVars, serverSends, waitVars>>

ReceivedControlMsg(a, m, intact) ==
  \/ m.msgtype = "REQ" /\ ReceivedRequest(m.client, m.chunk, intact)
  \/ m.msgtype = "OPEN" /\ ~crashed /\ UNCHANGED serverVars
  \/ m.msgtype = "REG" /\ ReceivedReg(a)

WriteAnswer(i) ==
  /\ ~crashed /\ serverSends[i] # << >>
  /\ serverSends' = [serverSends EXCEPT ![i] = Tail(@)]
  /\ UNCHANGED <<crashed, tableVars, serverControl, waitVars>>

WriteMessage(i) ==
  /\ ~crashed /\ serverControl[i] # << >>
  /\ serverControl' = [serverControl EXCEPT ![i] = Tail(@)]
  /\ UNCHANGED <<crashed, tableVars, serverSends, waitVars>>

ServerInit ==
  /\ crashed = FALSE
  /\ totChunks \in UnsetTotals
  /\ clients = {}
  /\ nextClientId = 0
  /\ lookup = [a \in Addr |-> NoId]
  /\ reverseLookup = [i \in ClientId |-> NoAddr]
  /\ serverControl = [i \in ClientId |-> << >>]
  /\ serverSends = [i \in ClientId |-> << >>]
  /\ chunkRequests = [k \in Chunk |-> {}]
  /\ clientRequests = [i \in ClientId |-> {}]
=============================================================================
