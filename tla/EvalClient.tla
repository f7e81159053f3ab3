----------------------------- MODULE EvalClient ------------------------------
(***************************************************************************)
(* The client of the eval2 variant, eval2/2020CS10869_proj/src/client.hpp: *)
(* it asks the server for ten chunks of text, checks each against the hash *)
(* sent along, asks again for a corrupted one, and saves the file once it  *)
(* counted ten good answers.  Only the build with control messages on UDP  *)
(* exists: client_tcp.cpp does not fit this Client class.                  *)
(*                                                                         *)
(* _num_chunks is 11 (NumChunks): the ids are 0 .. 10 and 0 is not used.   *)
(* An answer carries its id and whether the text is the one the hash was   *)
(* computed from (hashes are taken to tell the two texts apart).           *)
(***************************************************************************)
EXTENDS TrickleProtocol, SequencesExt

CONSTANTS Client,
          MaxClientControl,  \* bound: entries in a client's _control_msg_buffer
          MaxEarly           \* bound: entries in a client's _recv_chunk_cache

VARIABLES running,
          registered,     \* _registered
          clientId,       \* _client_id
          canRequest,     \* _can_request
          chunks,         \* _chunks: what the entry of a chunk holds
          numRcvd,        \* _num_rcvd_chunks
          recvChunkCache, \* _recv_chunk_cache
          nextChunkIdx,   \* _next_chunk_idx
          clientControl,  \* _control_msg_buffer
          savedFile,      \* _saved_file
          file,           \* history: _chunks when save_file wrote them
          outOfRange      \* the process wrote past the end of a vector

regVars == <<registered, clientId, canRequest>>
storeVars == <<chunks, numRcvd, savedFile, file>>
clientVars == <<running, regVars, storeVars, recvChunkCache, nextChunkIdx,
                clientControl, outOfRange>>

LastChunk == NumChunks - 1
NoText == [k \in Chunk |-> "none"]
Answer == [id : Chunk, intact : BOOLEAN]

Alive(c) == running[c] /\ ~outOfRange[c]
\* The buffer has no limit in the code.  Within its bound here one place is
\* kept for asking again, which a turn's request leaves free.
RoomToAsk(c) == Len(clientControl[c]) < MaxClientControl
RoomToRequest(c) == Len(clientControl[c]) + 1 < MaxClientControl
Asked(c, m) == [clientControl EXCEPT ![c] = Append(@, m)]

\* The hash of the text is the hash sent along.  A faulty variant does not look.
HashNotChecked(m) == TRUE
HashMatches(m) == m.intact
Text(m) == IF m.intact THEN "genuine" ELSE "corrupted"

-----------------------------------------------------------------------------
(***************************************************************************)
(* received_chunk of a registered client.  Every good answer counts, also  *)
(* one for a chunk that is there already; the faulty variant counts chunks.*)
(***************************************************************************)
CountOnce(c, k) == IF chunks[c][k] = "none" THEN numRcvd[c] + 1 ELSE numRcvd[c]
CountAnswer(c, k) == numRcvd[c] + 1

StoreChunk(c, m) ==
  /\ HashMatches(m)
  /\ chunks' = [chunks EXCEPT ![c][m.id] = Text(m)]
  /\ numRcvd' = [numRcvd EXCEPT ![c] = CountAnswer(c, m.id)]
  /\ IF numRcvd'[c] = LastChunk /\ ~savedFile[c]
     THEN /\ savedFile' = [savedFile EXCEPT ![c] = TRUE]
          /\ file' = [file EXCEPT ![c] = chunks'[c]]
     ELSE UNCHANGED <<savedFile, file>>
  /\ UNCHANGED clientControl

AskAgain(c, m) ==
  /\ ~HashMatches(m)
  /\ RoomToAsk(c)
  /\ clientControl' = Asked(c, Req(clientId[c], m.id))
  /\ UNCHANGED storeVars

CacheEarlyChunk(c, m) ==
  /\ Len(recvChunkCache[c]) < MaxEarly
  /\ recvChunkCache' = [recvChunkCache EXCEPT ![c] = Append(@, m)]
  /\ UNCHANGED <<storeVars, clientControl>>

\* A turn of run() reads at most one chunk and ends the loop once the file is
\* saved, so at most one more is read then.
ReceivedChunk(c, m) ==
  /\ Alive(c)
  /\ numRcvd[c] <= LastChunk
  /\ IF registered[c]
     THEN (StoreChunk(c, m) \/ AskAgain(c, m)) /\ UNCHANGED recvChunkCache
     ELSE CacheEarlyChunk(c, m)
  /\ UNCHANGED <<running, regVars, nextChunkIdx, outOfRange>>

(***************************************************************************)
(* received_control: OPEN and the first REG; a REQ is ignored.             *)
(***************************************************************************)
ReceivedOpen(c) ==
  /\ canRequest' = [canRequest EXCEPT ![c] = TRUE]
  /\ UNCHANGED <<running, registered, clientId, storeVars, recvChunkCache,
                 nextChunkIdx, clientControl, outOfRange>>

\* init_chunk_request_sequence sizes the vectors for n chunks and fills the
\* entries 1 .. 10, whatever n is.
DoesNotFit(n) == n <= LastChunk

Overrun(c) ==
  /\ outOfRange' = [outOfRange EXCEPT ![c] = TRUE]
  /\ UNCHANGED <<storeVars, recvChunkCache, clientControl>>

\* clear_chunk_cache: the good answers among the early ones are stored, for
\* the others the client (now number i) asks again.
Good(c) == {j \in DOMAIN recvChunkCache[c] : HashMatches(recvChunkCache[c][j])}
FirstGood(c) == {j \in Good(c) : Cardinality(Good(c) \cap 1 .. j) <= LastChunk}
TextFrom(c, J) ==
  [k \in Chunk |-> IF \E j \in J : recvChunkCache[c][j].id = k
                   THEN Text(recvChunkCache[c][CHOOSE j \in J : recvChunkCache[c][j].id = k])
                   ELSE chunks[c][k]]
Bad(c) == DOMAIN recvChunkCache[c] \ Good(c)
InOrder(S) == {e \in [1 .. Cardinality(S) -> S] :
                 \A x, y \in 1 .. Cardinality(S) : x < y => e[x] < e[y]}
RequestsAgain(c, i, order) ==
  [x \in DOMAIN order |-> Req(i, recvChunkCache[c][order[x]].id)]

ClearChunkCache(c, i) ==
  /\ chunks' = [chunks EXCEPT ![c] = TextFrom(c, Good(c))]
  /\ numRcvd' = [numRcvd EXCEPT ![c] = @ + Cardinality(Good(c))]
  /\ savedFile' = [savedFile EXCEPT ![c] = @ \/ Cardinality(Good(c)) >= LastChunk]
  /\ file' = [file EXCEPT ![c] = IF Cardinality(Good(c)) >= LastChunk
                                 THEN TextFrom(c, FirstGood(c)) ELSE @]
  /\ \E order \in InOrder(Bad(c)) :
       clientControl' = [clientControl EXCEPT ![c] = @ \o RequestsAgain(c, i, order)]
  /\ recvChunkCache' = [recvChunkCache EXCEPT ![c] = << >>]
  /\ UNCHANGED outOfRange

Register(c, i, n) ==
  /\ ~registered[c]
  /\ registered' = [registered EXCEPT ![c] = TRUE]
  /\ clientId' = [clientId EXCEPT ![c] = i]
  /\ IF DoesNotFit(n) THEN Overrun(c) ELSE ClearChunkCache(c, i)
  /\ UNCHANGED <<running, canRequest, nextChunkIdx>>

ReceivedControl(c, m) ==
  /\ Alive(c)
  /\ \/ m.msgtype = "OPEN" /\ ReceivedOpen(c)
     \/ m.msgtype = "REG" /\ Register(c, m.client, m.chunk)
     \/ m.msgtype = "REG" /\ registered[c] /\ UNCHANGED clientVars

-----------------------------------------------------------------------------
(***************************************************************************)
(* The timer, the end of a turn of run(), and writing.                     *)
(***************************************************************************)
\* periodic_resend_requests; no request time is ever recorded, so the branch
\* that looks for expired requests finds none.
PeriodicResend(c) ==
  /\ Alive(c) /\ RoomToAsk(c)
  /\ \/ /\ ~registered[c]
        /\ clientControl' = Asked(c, Reg(0, 0))
     \/ /\ registered[c] /\ ~canRequest[c]
        /\ clientControl' = Asked(c, Open(clientId[c]))
  /\ UNCHANGED <<running, regVars, storeVars, recvChunkCache, nextChunkIdx,
                 outOfRange>>

\* Which chunk is requested after chunk k.  The plausible intention, the next
\* one, is a variant.
ChunkAfterInOrder(k) == (k % LastChunk) + 1
ChunkAfter(k) == ((k + 1) % LastChunk) + 1

RequestNext(c) ==
  /\ Alive(c) /\ ~savedFile[c] /\ canRequest[c] /\ registered[c]
  /\ RoomToRequest(c)
  /\ clientControl' = Asked(c, Req(clientId[c], nextChunkIdx[c]))
  /\ nextChunkIdx' = [nextChunkIdx EXCEPT ![c] = ChunkAfter(@)]
  /\ UNCHANGED <<running, regVars, storeVars, recvChunkCache, outOfRange>>

\* "if (_saved_file) break": the sockets are closed.
Finish(c) ==
  /\ Alive(c) /\ savedFile[c]
  /\ running' = [running EXCEPT ![c] = FALSE]
  /\ UNCHANGED <<regVars, storeVars, recvChunkCache, nextChunkIdx,
                 clientControl, outOfRange>>

\* recv returned 0, or the process is terminated by a signal.
Disconnected(c) ==
  /\ running[c]
  /\ running' = [running EXCEPT ![c] = FALSE]
  /\ UNCHANGED <<regVars, storeVars, recvChunkCache, nextChunkIdx,
                 clientControl, outOfRange>>

WriteControl(c) ==
  /\ Alive(c) /\ clientControl[c] # << >>
  /\ clientControl' = [clientControl EXCEPT ![c] = Tail(@)]
  /\ UNCHANGED <<running, regVars, storeVars, recvChunkCache, nextChunkIdx,
                 outOfRange>>

ClientInit ==
  /\ running = [c \in Client |-> TRUE]
  /\ registered = [c \in Client |-> FALSE]
  /\ clientId = [c \in Client |-> NoId]
  /\ canRequest = [c \in Client |-> FALSE]
  /\ chunks = [c \in Client |-> NoText]
  /\ numRcvd = [c \in Client |-> 0]
  /\ recvChunkCache = [c \in Client |-> << >>]
  /\ nextChunkIdx = [c \in Client |-> 1]
  /\ clientControl = [c \in Client |-> << >>]
  /\ savedFile = [c \in Client |-> FALSE]
  /\ file = [c \in Client |-> NoText]
  /\ outOfRange = [c \in Client |-> FALSE]
=============================================================================
