--------------------------- MODULE TrickleClient ----------------------------
(***************************************************************************)
(* The clients of the file sharing program, assignment2/src/client.hpp:    *)
(* every client c runs one thread that takes events off a kqueue and calls *)
(* one handler per event; a loop turn ends with at most one new chunk      *)
(* request.  A handler is one action, the end of the turn is RequestNext.  *)
(* The write filters of the sockets are always ready, so turns follow each *)
(* other without other events and RequestNext may follow any handler.      *)
(*                                                                         *)
(* The environment (network, server, clock) is open here: any message may  *)
(* arrive at any time.  Module Trickle closes it.                          *)
(*                                                                         *)
(* pending is the part of _req_sequence from _next_chunk_idx on: the part  *)
(* before that index is never read again.  requestTimes keeps the keys of  *)
(* _chunk_request_times; which of them are older than five seconds is the  *)
(* clock's choice.  RTT statistics are left out.                           *)
(***************************************************************************)
EXTENDS TrickleProtocol

CONSTANTS Client,          \* client processes
          MaxOutstanding,  \* cap on unanswered requests, 100 in the code
          MaxControl,      \* bound: entries in _control_msg_buffer
          MaxSends         \* bound: entries in _chunk_buffer

ASSUME MaxOutstandingAssumption == MaxOutstanding \in Nat \ {0}
ASSUME ClientBoundsAssumption == MaxControl \in Nat /\ MaxSends \in Nat

VARIABLES running,           \* the run() loop goes on
          registered,        \* _registered
          clientId,          \* _client_id, NoId before registration
          canRequest,        \* _can_request
          chunks,            \* ids with _rcvd_chunks set and _chunks filled
          numRcvd,           \* _num_rcvd_chunks
          recvChunkCache,    \* _recv_chunk_cache, chunks that came too early
          pending,           \* rest of _req_sequence
          requestTimes,      \* keys of _chunk_request_times
          controlMsgBuffer,  \* _control_msg_buffer
          chunkBuffer,       \* _chunk_buffer
          savedFile,         \* _saved_file
          saveCalls          \* history: calls of save_file()

clientVars == <<running, registered, clientId, canRequest, chunks, numRcvd,
                recvChunkCache, pending, requestTimes, controlMsgBuffer,
                chunkBuffer, savedFile, saveCalls>>

chunkVars == <<chunks, numRcvd, savedFile, saveCalls>>

RoomForControl(c) == Len(controlMsgBuffer[c]) < MaxControl
RoomForSend(c) == Len(chunkBuffer[c]) < MaxSends

Pushed(buffer, c, m) == [buffer EXCEPT ![c] = Append(@, m)]
Popped(buffer, c) == [buffer EXCEPT ![c] = Tail(@)]

-----------------------------------------------------------------------------
(***************************************************************************)
(* received_chunk of a registered client, for every chunk of ks in turn.   *)
(***************************************************************************)
\* The chunks of ks that are not duplicates of chunks already there.
NewChunks(c, ks) == ks \ chunks[c]

\* The requests that a reception leaves open; the faulty variant closes none.
AllStayOpen(c, ks) == requestTimes[c]
StillOpen(c, ks) == requestTimes[c] \ NewChunks(c, ks)

\* Whether a reception that makes n chunks saves the file; the faulty variant
\* forgets _saved_file.
SaveWhenComplete(c, n) == n = NumChunks
SaveNow(c, n) == n = NumChunks /\ ~savedFile[c]

Receive(c, ks) ==
  LET n == numRcvd[c] + Cardinality(NewChunks(c, ks)) IN
  /\ chunks' = [chunks EXCEPT ![c] = @ \cup ks]
  /\ requestTimes' = [requestTimes EXCEPT ![c] = StillOpen(c, ks)]
  /\ numRcvd' = [numRcvd EXCEPT ![c] = n]
  /\ savedFile' = [savedFile EXCEPT ![c] = @ \/ SaveNow(c, n)]
  /\ saveCalls' = [saveCalls EXCEPT ![c] = IF SaveNow(c, n) THEN @ + 1 ELSE @]

\* A chunk that comes before the registration waits in a cache; the faulty
\* variant drops it.
DropEarlyChunk(c, k) ==
  /\ running[c] /\ ~registered[c]
  /\ UNCHANGED clientVars

CacheEarlyChunk(c, k) ==
  /\ running[c] /\ ~registered[c]
  /\ recvChunkCache' = [recvChunkCache EXCEPT ![c] = @ \cup {k}]
  /\ UNCHANGED <<running, registered, clientId, canRequest, chunkVars,
                 pending, requestTimes, controlMsgBuffer, chunkBuffer>>

StoreChunk(c, k) ==
  /\ running[c] /\ registered[c]
  /\ Receive(c, {k})
  /\ UNCHANGED <<running, registered, clientId, canRequest, recvChunkCache,
                 pending, controlMsgBuffer, chunkBuffer>>

ReceivedChunk(c, k) == CacheEarlyChunk(c, k) \/ StoreChunk(c, k)

-----------------------------------------------------------------------------
(***************************************************************************)
(* received_control, by the kind of message.                               *)
(***************************************************************************)
ReceivedOpen(c) ==
  /\ running[c]
  /\ canRequest' = [canRequest EXCEPT ![c] = TRUE]
  /\ UNCHANGED <<running, registered, clientId, chunkVars, recvChunkCache,
                 pending, requestTimes, controlMsgBuffer, chunkBuffer>>

\* init_chunk_request_sequence(false): every chunk, in order of its id.
InitialSequence == [i \in 1 .. NumChunks |-> i - 1]

\* The first REG registers the client and empties the cache of early chunks.
Register(c, i) ==
  /\ running[c] /\ ~registered[c]
  /\ registered' = [registered EXCEPT ![c] = TRUE]
  /\ clientId' = [clientId EXCEPT ![c] = i]
  /\ pending' = [pending EXCEPT ![c] = InitialSequence]
  /\ Receive(c, recvChunkCache[c])
  /\ recvChunkCache' = [recvChunkCache EXCEPT ![c] = {}]
  /\ UNCHANGED <<running, canRequest, controlMsgBuffer, chunkBuffer>>

RegisteredAlready(c) ==
  /\ running[c] /\ registered[c]
  /\ UNCHANGED clientVars

\* A request is answered if the chunk is here; the faulty variant does not look.
AnswerAnyRequest(c, k) == registered[c]
CanAnswer(c, k) == registered[c] /\ k \in chunks[c]

ReceivedRequest(c, k) ==
  /\ running[c]
  /\ IF CanAnswer(c, k)
     THEN RoomForSend(c) /\ chunkBuffer' = Pushed(chunkBuffer, c, k)
     ELSE UNCHANGED chunkBuffer
  /\ UNCHANGED <<running, registered, clientId, canRequest, chunkVars,
                 recvChunkCache, pending, requestTimes, controlMsgBuffer>>

ReceivedControl(c, m) ==
  \/ m.msgtype = "OPEN" /\ ReceivedOpen(c)
  \/ m.msgtype = "REG" /\ (Register(c, m.client) \/ RegisteredAlready(c))
  \/ m.msgtype = "REQ" /\ ReceivedRequest(c, m.chunk)

-----------------------------------------------------------------------------
(***************************************************************************)
(* periodic_resend_requests, once a second.                                *)
(***************************************************************************)
AskAgain(c, m) ==
  /\ running[c] /\ RoomForControl(c)
  /\ controlMsgBuffer' = Pushed(controlMsgBuffer, c, m)
  /\ UNCHANGED <<running, registered, clientId, canRequest, chunkVars,
                 recvChunkCache, pending, requestTimes, chunkBuffer>>

AskRegistration(c) == ~registered[c] /\ AskAgain(c, Reg(0, 0))

\* The faulty variant asks only when it need not ask any more.
AskOpenWhenOpen(c) ==
  registered[c] /\ canRequest[c] /\ AskAgain(c, Open(clientId[c]))

AskOpen(c) == registered[c] /\ ~canRequest[c] /\ AskAgain(c, Open(clientId[c]))

\* The requests that may have grown too old; the faulty variant finds none.
NeverTooOld(c) == {}
MayBeTooOld(c) == requestTimes[c]

\* The expired requests go to the end of the sequence, in the order of the
\* hash map; the faulty variant only forgets them.
Forgotten(c, order) == pending[c]
Requeued(c, order) == pending[c] \o order

ExpireRequests(c, expired) ==
  /\ running[c] /\ registered[c] /\ canRequest[c]
  /\ expired \subseteq MayBeTooOld(c)
  /\ \E order \in Bijection(1 .. Cardinality(expired), expired) :
       pending' = [pending EXCEPT ![c] = Requeued(c, order)]
  /\ requestTimes' = [requestTimes EXCEPT ![c] = @ \ expired]
  /\ UNCHANGED <<running, registered, clientId, canRequest, chunkVars,
                 recvChunkCache, controlMsgBuffer, chunkBuffer>>

PeriodicResend(c) ==
  \/ AskRegistration(c)
  \/ AskOpen(c)
  \/ \E expired \in SUBSET requestTimes[c] : ExpireRequests(c, expired)

-----------------------------------------------------------------------------
(***************************************************************************)
(* The end of a turn of run(): chunks already here are skipped and the     *)
(* next one of the sequence is requested, if the window allows.            *)
(***************************************************************************)
\* The faulty variant admits one request too many.
WindowOpenByOne(c) == Cardinality(requestTimes[c]) <= MaxOutstanding
WindowOpen(c) == Cardinality(requestTimes[c]) < MaxOutstanding

\* Position i of the sequence is the first that names a missing chunk.
FirstMissing(c, i) ==
  /\ i \in DOMAIN pending[c]
  /\ pending[c][i] \notin chunks[c]
  /\ \A j \in 1 .. (i - 1) : pending[c][j] \in chunks[c]

Request(c, i) ==
  /\ RoomForControl(c)
  /\ pending' = [pending EXCEPT ![c] = SubSeq(@, i + 1, Len(@))]
  /\ requestTimes' = [requestTimes EXCEPT ![c] = @ \cup {pending[c][i]}]
  /\ controlMsgBuffer' =
       Pushed(controlMsgBuffer, c, Req(clientId[c], pending[c][i]))

\* Nothing is missing any more: the whole sequence is skipped.
SkipAll(c) ==
  /\ Range(pending[c]) \subseteq chunks[c]
  /\ pending' = [pending EXCEPT ![c] = << >>]
  /\ UNCHANGED <<requestTimes, controlMsgBuffer>>

\* The faulty variant does not wait for OPEN.
RequestWhenRegistered(c) == registered[c]
MayRequest(c) == canRequest[c] /\ registered[c]

RequestNext(c) ==
  /\ running[c] /\ MayRequest(c) /\ WindowOpen(c)
  /\ \/ \E i \in DOMAIN pending[c] : FirstMissing(c, i) /\ Request(c, i)
     \/ SkipAll(c)
  /\ UNCHANGED <<running, registered, clientId, canRequest, chunkVars,
                 recvChunkCache, chunkBuffer>>

-----------------------------------------------------------------------------
(***************************************************************************)
(* can_write_TCP and can_write_UDP: one entry leaves its buffer.  A write  *)
(* the kernel refuses leaves it where it is, which is a stuttering step.   *)
(***************************************************************************)
WriteControl(c) ==
  /\ running[c] /\ controlMsgBuffer[c] # << >>
  /\ controlMsgBuffer' = Popped(controlMsgBuffer, c)
  /\ UNCHANGED <<running, registered, clientId, canRequest, chunkVars,
                 recvChunkCache, pending, requestTimes, chunkBuffer>>

WriteChunk(c) ==
  /\ running[c] /\ chunkBuffer[c] # << >>
  /\ chunkBuffer' = Popped(chunkBuffer, c)
  /\ UNCHANGED <<running, registered, clientId, canRequest, chunkVars,
                 recvChunkCache, pending, requestTimes, controlMsgBuffer>>

\* disconnected(): the server closed the connection, run() ends.
Disconnected(c) ==
  /\ running[c]
  /\ running' = [running EXCEPT ![c] = FALSE]
  /\ UNCHANGED <<registered, clientId, canRequest, chunkVars, recvChunkCache,
                 pending, requestTimes, controlMsgBuffer, chunkBuffer>>

-----------------------------------------------------------------------------
ClientInit ==
  /\ running = [c \in Client |-> TRUE]
  /\ registered = [c \in Client |-> FALSE]
  /\ clientId = [c \in Client |-> NoId]
  /\ canRequest = [c \in Client |-> FALSE]
  /\ chunks = [c \in Client |-> {}]
  /\ numRcvd = [c \in Client |-> 0]
  /\ recvChunkCache = [c \in Client |-> {}]
  /\ pending = [c \in Client |-> << >>]
  /\ requestTimes = [c \in Client |-> {}]
  /\ controlMsgBuffer = [c \in Client |-> << >>]
  /\ chunkBuffer = [c \in Client |-> << >>]
  /\ savedFile = [c \in Client |-> FALSE]
  /\ saveCalls = [c \in Client |-> 0]

\* A message of any kind arrives.
Arrival(c) ==
  \/ \E k \in Chunk : ReceivedChunk(c, k) \/ ReceivedRequest(c, k)
  \/ ReceivedOpen(c)
  \/ \E i \in ClientId : Register(c, i)
  \/ RegisteredAlready(c)
  \/ Disconnected(c)

\* The client's own steps.
OwnStep(c) ==
  PeriodicResend(c) \/ RequestNext(c) \/ WriteControl(c) \/ WriteChunk(c)

ClientNext == \E c \in Client : Arrival(c) \/ OwnStep(c)

(***************************************************************************)
(* Fairness.  The write filter of a connected socket is ready again and    *)
(* again, so a turn ends and a buffer is drained again and again; the      *)
(* timer fires every second and the clock advances, so a request that      *)
(* stays open is found too old in the end.                                 *)
(***************************************************************************)
LoopFairness ==
  \A c \in Client :
    /\ WF_clientVars(RequestNext(c))
    /\ WF_clientVars(WriteControl(c))
    /\ \A k \in Chunk :
         WF_clientVars(\E expired \in SUBSET requestTimes[c] :
                         k \in expired /\ ExpireRequests(c, expired))

ClientSpec == ClientInit /\ [][ClientNext]_clientVars

FairClientSpec == ClientSpec /\ LoopFairness

-----------------------------------------------------------------------------
\* The values of the variables; the request window is never exceeded.
ClientTypeOK ==
  /\ running \in [Client -> BOOLEAN]
  /\ registered \in [Client -> BOOLEAN]
  /\ clientId \in [Client -> ClientId \cup {NoId}]
  /\ canRequest \in [Client -> BOOLEAN]
  /\ chunks \in [Client -> SUBSET Chunk]
  /\ numRcvd \in [Client -> Nat]
  /\ recvChunkCache \in [Client -> SUBSET Chunk]
  /\ pending \in [Client -> Seq(Chunk)]
  /\ requestTimes \in [Client -> SUBSET Chunk]
  /\ controlMsgBuffer \in [Client -> Seq(ControlMessage)]
  /\ chunkBuffer \in [Client -> Seq(Chunk)]
  /\ savedFile \in [Client -> BOOLEAN]
  /\ saveCalls \in [Client -> Nat]
  /\ \A c \in Client : /\ registered[c] <=> clientId[c] # NoId
                       /\ Cardinality(requestTimes[c]) <= MaxOutstanding

\* A chunk a registered client does not have is still to be requested or has
\* a request open: between loss, expiry, duplicates and late answers no chunk
\* drops out of the client's books.
NoChunkForgotten ==
  \A c \in Client : registered[c] =>
    Chunk = chunks[c] \cup requestTimes[c] \cup Range(pending[c])

\* A client has at most one place for a chunk: no chunk is twice in the rest
\* of the request sequence, there and open at once, or open although the
\* chunk is already here.
OneRequestPerChunk ==
  \A c \in Client :
    /\ requestTimes[c] \cap chunks[c] = {}
    /\ requestTimes[c] \cap Range(pending[c]) = {}
    /\ \A i, j \in DOMAIN pending[c] : pending[c][i] = pending[c][j] => i = j

\* The counter that decides on saving counts the chunks that are here, each
\* once, however often each was received and whether early or late.
CounterExact ==
  \A c \in Client : numRcvd[c] = Cardinality(chunks[c])

\* The file is saved when it is complete, not before, and the save callback
\* (which clientmgr counts) is called once, because the count is exact.
SavedExactlyOnce ==
  /\ CounterExact
  /\ \A c \in Client :
       /\ savedFile[c] <=> chunks[c] = Chunk
       /\ saveCalls[c] = IF savedFile[c] THEN 1 ELSE 0

\* A queued answer names a chunk the client holds, so can_write_* never
\* dereferences an empty _chunks entry, whenever it gets to write it.
AnswersHeld ==
  \A c \in Client : Range(chunkBuffer[c]) \subseteq chunks[c]

Missing(c, k) ==
  running[c] /\ registered[c] /\ canRequest[c] /\ k \notin chunks[c]

Requested(c, k) == k \notin requestTimes[c] /\ k \in requestTimes'[c]

\* A client that stays without a chunk asks for it again and again: neither
\* the window nor the retries of other chunks starve it.
KeepsAsking ==
  \A c \in Client, k \in Chunk :
    <>[]Missing(c, k) => []<><<Requested(c, k)>>_clientVars
=============================================================================
