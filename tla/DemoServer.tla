----------------------------- MODULE DemoServer ------------------------------
(***************************************************************************)
(* The server of an earlier version of the program,                        *)
(* assignment2/demo/2020CS10869_proj/src/server.hpp (and, byte for byte,   *)
(* eval2/demo).  A request for a chunk that is not cached is always passed *)
(* on, to every client but the one that asks, and both waiting lists are   *)
(* kept in step.  The other handlers are those of TrickleServer; the       *)
(* definitions that only give one a second name say which.                 *)
(***************************************************************************)
EXTENDS TrickleServer

AcceptClient(a) == AcceptNewClient(a)
ClientGone(i) == ClientDisconnected(i)
ServeWaiters(k) == ReceivedChunk(k)
OpenAll == OpenRequests
AnswerReg(a) == ReceivedReg(a) \/ DropReg(a)
AnswerOpen(i) == ReceivedOpen(i) \/ DropOpen

-----------------------------------------------------------------------------
(***************************************************************************)
(* received_chunk_request.                                                 *)
(***************************************************************************)
AnswerCached(i, k) == AnswerFromCache(i, k)

\* Who is asked; the later version asks nobody while somebody waits.
NobodyAgain(i, k) == IF chunkRequests[k] = {} THEN clients \ {i} ELSE {}
Others(i, k) == clients \ {i}

AskOthers(i, k) ==
  /\ ~Cache!Cached(k)
  /\ \A j \in Others(i, k) : RoomForControl(j, 1)
  /\ controlMsgBuffer' =
       [j \in ClientId |-> IF j \in Others(i, k)
                           THEN Append(controlMsgBuffer[j], Req(0, k))
                           ELSE controlMsgBuffer[j]]
  /\ chunkRequests' = [chunkRequests EXCEPT ![k] = @ \cup {i}]
  /\ clientRequests' = [clientRequests EXCEPT ![i] = @ \cup {k}]
  /\ UNCHANGED <<crashed, connectionVars, chunkBuffer, chunkCache, dealVars,
                 sentVars, requestsOpen, told>>

ReceivedChunkRequest(i, k) == ~crashed /\ (AnswerCached(i, k) \/ AskOthers(i, k))

ReceivedControlMsg(a, m) ==
  \/ m.msgtype = "REQ" /\ ReceivedChunkRequest(m.client, m.chunk)
  \/ m.msgtype = "OPEN" /\ AnswerOpen(m.client)
  \/ m.msgtype = "REG" /\ AnswerReg(a)

-----------------------------------------------------------------------------
(***************************************************************************)
(* can_write_TCP with sent_chunk: whoever was sent a chunk waits for it no *)
(* longer, also while chunks are being distributed.                        *)
(***************************************************************************)
Distribute(k) ==
  /\ beingDistributed' = beingDistributed \ {k}
  /\ distributed' = distributed \cup ({k} \cap beingDistributed)
  /\ distributedAll' = (distributed' = Chunk)

\* The faulty variant erases from the list of the chunk only.
StillListed(i, k) == clientRequests
NoLongerListed(i, k) == [clientRequests EXCEPT ![i] = @ \ {k}]

SentChunk(i, k) ==
  /\ IF distributedAll THEN UNCHANGED sentVars ELSE Distribute(k)
  /\ chunkRequests' = [chunkRequests EXCEPT ![k] = @ \ {i}]
  /\ clientRequests' = NoLongerListed(i, k)

CanWriteTCP(i) ==
  /\ ~crashed /\ chunkBuffer[i] # << >>
  /\ chunkBuffer' = Popped(chunkBuffer, i)
  /\ SentChunk(i, Head(chunkBuffer[i]))
  /\ UNCHANGED <<crashed, connectionVars, controlMsgBuffer, chunkCache,
                 dealVars, requestsOpen, told>>

CanWriteUDP(i) == WriteControl(i)
=============================================================================
