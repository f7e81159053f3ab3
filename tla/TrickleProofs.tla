--------------------------- MODULE TrickleProofs ----------------------------
(***************************************************************************)
(* Proofs about the clients and about the whole file sharing program, for  *)
(* any number of clients and chunks, any window, any loss and reordering   *)
(* of control messages, and buffers and channels of any size.  In order:   *)
(* the clients; the server, as TrickleServerProofs proves it; the          *)
(* inductive invariant of the system; its refinement of its parts, and     *)
(* what follows; the earlier version of the program.                       *)
(***************************************************************************)
EXTENDS Demo, FiniteSetTheorems, BufferTheorems

-----------------------------------------------------------------------------
(***************************************************************************)
(* The clients in their open environment.                                  *)
(*                                                                         *)
(* The properties of TrickleClient are nearly inductive together.  What    *)
(* must be added is that a client asks for nothing before it is            *)
(* registered: then registration can fill the request sequence without     *)
(* naming a chunk that has a request open.                                 *)
(***************************************************************************)
\* What holds of one client: its chunks, its open requests and the rest of its
\* sequence make up the file without overlaps; the counter and the saved file
\* follow the chunks; answers are held; nothing is asked before registration.
BooksKept(c) ==
  /\ registered[c] => Chunk = chunks[c] \cup requestTimes[c] \cup Range(pending[c])
  /\ requestTimes[c] \cap chunks[c] = {}
  /\ requestTimes[c] \cap Range(pending[c]) = {}
  /\ NoRepeats(pending[c])
  /\ ~registered[c] => requestTimes[c] = {}

CountersKept(c) ==
  /\ numRcvd[c] = Cardinality(chunks[c])
  /\ savedFile[c] <=> chunks[c] = Chunk
  /\ saveCalls[c] = IF savedFile[c] THEN 1 ELSE 0

AnswersKept(c) == Range(chunkBuffer[c]) \subseteq chunks[c]

Kept(c) == BooksKept(c) /\ CountersKept(c) /\ AnswersKept(c)

\* The inductive invariant.
ClientInv == ClientTypeOK /\ \A c \in Client : Kept(c)

-----------------------------------------------------------------------------
(***************************************************************************)
(* Sets of chunks.                                                         *)
(***************************************************************************)
\* A set of chunks is finite, and it is the whole file when it has as many
\* elements as the file has chunks.
LEMMA ChunkSets ==
  ASSUME NEW A \in SUBSET Chunk
  PROVE  /\ IsFiniteSet(A)
         /\ Cardinality(A) \in Nat
         /\ Cardinality(A) = NumChunks <=> A = Chunk
<1>1. IsFiniteSet(Chunk) /\ Cardinality(Chunk) = NumChunks
  BY FS_Interval, NumChunksAssumption DEF Chunk
<1> QED
  BY <1>1, FS_Subset, FS_CardinalityType

\* Counting the chunks that are not duplicates keeps the count exact.
LEMMA CountingNew ==
  ASSUME NEW A \in SUBSET Chunk, NEW B \in SUBSET Chunk
  PROVE  Cardinality(A) + Cardinality(B \ A) = Cardinality(A \cup B)
<1>1. IsFiniteSet(A) /\ IsFiniteSet(B \ A)
  BY ChunkSets
<1>2. Cardinality(A) \in Nat /\ Cardinality(B \ A) \in Nat
  BY ChunkSets
<1>3. A \cap (B \ A) = {} /\ A \cup (B \ A) = A \cup B
  OBVIOUS
<1>4. Cardinality(A \cup B) = Cardinality(A) + Cardinality(B \ A) - Cardinality({})
  BY <1>1, <1>3, FS_Union
<1> QED
  BY <1>2, <1>4, FS_EmptySet

-----------------------------------------------------------------------------
(***************************************************************************)
(* Sequences of chunks.                                                    *)
(***************************************************************************)
\* The first request sequence names every chunk once.
LEMMA InitialSequenceNamesAll ==
  /\ InitialSequence \in Seq(Chunk)
  /\ Range(InitialSequence) = Chunk
  /\ NoRepeats(InitialSequence)
<1>1. InitialSequence \in [1 .. NumChunks -> Chunk]
  BY NumChunksAssumption DEF InitialSequence, Chunk
<1>2. InitialSequence \in Seq(Chunk)
  BY <1>1, NumChunksAssumption
<1>3. ASSUME NEW k \in Chunk PROVE k \in Range(InitialSequence)
  <2>1. k + 1 \in 1 .. NumChunks /\ InitialSequence[k + 1] = k
    BY NumChunksAssumption DEF Chunk, InitialSequence
  <2> QED
    BY <1>1, <2>1 DEF Range
<1>4. Range(InitialSequence) \subseteq Chunk
  BY <1>1 DEF Range
<1>5. NoRepeats(InitialSequence)
  BY NumChunksAssumption DEF NoRepeats, InitialSequence
<1> QED
  BY <1>2, <1>3, <1>4, <1>5

\* Expired requests go to the end of the sequence, each once, and a sequence
\* without repetitions that named none of them has no repetitions then.
LEMMA RequeuedSequence ==
  ASSUME NEW s \in Seq(Chunk), NEW E \in SUBSET Chunk,
         NEW order \in Bijection(1 .. Cardinality(E), E)
  PROVE  /\ s \o order \in Seq(Chunk)
         /\ Range(s \o order) = Range(s) \cup E
         /\ NoRepeats(s) /\ Range(s) \cap E = {} => NoRepeats(s \o order)
<1>1. Cardinality(E) \in Nat
  BY ChunkSets
<1>2. /\ order \in [1 .. Cardinality(E) -> E]
      /\ \A i, j \in 1 .. Cardinality(E) : order[i] = order[j] => i = j
      /\ \A e \in E : \E i \in 1 .. Cardinality(E) : order[i] = e
  BY DEF Bijection, Injection, Surjection, IsInjective
<1>3. order \in Seq(Chunk) /\ Len(order) = Cardinality(E)
  <2>1. order \in [1 .. Cardinality(E) -> Chunk]
    BY <1>2
  <2> QED
    BY <1>1, <2>1
<1>4. Range(order) = E
  BY <1>2 DEF Range
<1>5. /\ s \o order \in Seq(Chunk)
      /\ Len(s \o order) = Len(s) + Len(order)
      /\ \A i \in 1 .. Len(s) + Len(order) :
           (s \o order)[i] = IF i <= Len(s) THEN s[i] ELSE order[i - Len(s)]
  BY <1>3, ConcatProperties
<1>6. Range(s \o order) = Range(s) \cup E
  BY <1>3, <1>4, RangeConcatenation
<1>7. ASSUME NoRepeats(s), Range(s) \cap E = {},
             NEW i \in DOMAIN (s \o order), NEW j \in DOMAIN (s \o order),
             (s \o order)[i] = (s \o order)[j]
      PROVE  i = j
  <2>1. i \in 1 .. Len(s) + Len(order) /\ j \in 1 .. Len(s) + Len(order)
    BY <1>5
  <2>2. Len(s) \in Nat /\ DOMAIN s = 1 .. Len(s)
    OBVIOUS
  <2>3. CASE i <= Len(s) /\ j <= Len(s)
    <3>1. i \in DOMAIN s /\ j \in DOMAIN s /\ s[i] = s[j]
      BY <1>3, <1>5, <1>7, <2>1, <2>2, <2>3
    <3> QED
      BY <1>7, <3>1 DEF NoRepeats
  <2>4. CASE i > Len(s) /\ j > Len(s)
    <3>1. /\ i - Len(s) \in 1 .. Cardinality(E)
          /\ j - Len(s) \in 1 .. Cardinality(E)
          /\ order[i - Len(s)] = order[j - Len(s)]
      BY <1>1, <1>3, <1>5, <1>7, <2>1, <2>2, <2>4
    <3>2. i - Len(s) = j - Len(s)
      BY <1>2, <3>1
    <3> QED
      BY <1>1, <1>3, <2>1, <2>2, <3>2
  <2>5. ASSUME NEW x \in DOMAIN (s \o order), NEW y \in DOMAIN (s \o order),
               x <= Len(s), y > Len(s)
        PROVE  (s \o order)[x] # (s \o order)[y]
    <3>1. x \in DOMAIN s /\ (s \o order)[x] = s[x]
      BY <1>1, <1>3, <1>5, <2>2, <2>5
    <3>2. /\ y - Len(s) \in 1 .. Cardinality(E)
          /\ (s \o order)[y] = order[y - Len(s)]
      BY <1>1, <1>3, <1>5, <2>2, <2>5
    <3>3. (s \o order)[x] \in Range(s) /\ (s \o order)[y] \in E
      BY <1>2, <3>1, <3>2 DEF Range
    <3> QED
      BY <1>7, <3>3
  <2> QED
    BY <1>1, <1>3, <1>7, <2>1, <2>2, <2>3, <2>4, <2>5
<1> QED
  BY <1>5, <1>6, <1>7 DEF NoRepeats

-----------------------------------------------------------------------------
(***************************************************************************)
(* Types.                                                                  *)
(***************************************************************************)
\* The messages a client makes are control messages.
LEMMA MessageTypes ==
  /\ Reg(0, 0) \in ControlMessage
  /\ \A i \in ClientId : Open(i) \in ControlMessage
  /\ \A i \in ClientId, k \in Chunk : Req(i, k) \in ControlMessage
BY NumChunksAssumption, MaxClientIdAssumption
DEF Reg, Open, Req, ControlMessage, ClientId, Chunk

LEMMA ClientTypeInit == ClientInit => ClientTypeOK
<1> SUFFICES ASSUME ClientInit PROVE ClientTypeOK
  OBVIOUS
<1>1. NoId \in ClientId \cup {NoId}
  OBVIOUS
<1>2. Cardinality({}) <= MaxOutstanding
  BY FS_EmptySet, MaxOutstandingAssumption
<1> QED
  BY <1>1, <1>2 DEF ClientInit, ClientTypeOK

\* What a reception does to the types.
LEMMA ReceiveTypes ==
  ASSUME ClientTypeOK, NEW c \in Client, NEW ks \in SUBSET Chunk, Receive(c, ks)
  PROVE  /\ chunks' \in [Client -> SUBSET Chunk]
         /\ numRcvd' \in [Client -> Nat]
         /\ requestTimes' \in [Client -> SUBSET Chunk]
         /\ \A d \in Client : requestTimes'[d] \subseteq requestTimes[d]
         /\ savedFile' \in [Client -> BOOLEAN]
         /\ saveCalls' \in [Client -> Nat]
<1>1. numRcvd[c] + Cardinality(NewChunks(c, ks)) \in Nat
  <2>1. NewChunks(c, ks) \in SUBSET Chunk /\ numRcvd[c] \in Nat
    BY DEF ClientTypeOK, NewChunks
  <2>2. Cardinality(NewChunks(c, ks)) \in Nat
    BY <2>1, ChunkSets
  <2> QED
    BY <2>1, <2>2
<1>2. SaveNow(c, numRcvd[c] + Cardinality(NewChunks(c, ks))) \in BOOLEAN
  BY DEF SaveNow
<1>3. StillOpen(c, ks) \subseteq requestTimes[c]
  BY DEF StillOpen
<1> QED
  BY <1>1, <1>2, <1>3 DEF ClientTypeOK, Receive

\* Fewer open requests still fit the window.
LEMMA WindowShrinks ==
  ASSUME NEW A \in SUBSET Chunk, NEW B \in SUBSET A,
         Cardinality(A) <= MaxOutstanding
  PROVE  Cardinality(B) <= MaxOutstanding
<1>1. IsFiniteSet(A) /\ Cardinality(A) \in Nat /\ Cardinality(B) \in Nat
  BY ChunkSets
<1>2. Cardinality(B) <= Cardinality(A)
  BY <1>1, FS_Subset
<1> QED
  BY <1>1, <1>2, MaxOutstandingAssumption

LEMMA ClientTypeStep == ClientTypeOK /\ [ClientNext]_clientVars => ClientTypeOK'
<1> SUFFICES ASSUME ClientTypeOK, [ClientNext]_clientVars PROVE ClientTypeOK'
  OBVIOUS
<1>1. ASSUME NEW c \in Client, NEW k \in Chunk, CacheEarlyChunk(c, k)
      PROVE  ClientTypeOK'
  BY <1>1 DEF ClientTypeOK, CacheEarlyChunk, chunkVars
<1>2. ASSUME NEW c \in Client, NEW k \in Chunk, StoreChunk(c, k)
      PROVE  ClientTypeOK'
  <2>1. Receive(c, {k})
    BY <1>2 DEF StoreChunk
  <2>2. \A d \in Client : Cardinality(requestTimes'[d]) <= MaxOutstanding
    BY <2>1, ReceiveTypes, WindowShrinks DEF ClientTypeOK
  <2> QED
    BY <1>2, <2>1, <2>2, ReceiveTypes DEF ClientTypeOK, StoreChunk
<1>3. ASSUME NEW c \in Client, ReceivedOpen(c) PROVE ClientTypeOK'
  BY <1>3 DEF ClientTypeOK, ReceivedOpen, chunkVars
<1>4. ASSUME NEW c \in Client, NEW i \in ClientId, Register(c, i)
      PROVE  ClientTypeOK'
  <2>1. Receive(c, recvChunkCache[c]) /\ recvChunkCache[c] \in SUBSET Chunk
    BY <1>4 DEF Register, ClientTypeOK
  <2>2. \A d \in Client : Cardinality(requestTimes'[d]) <= MaxOutstanding
    BY <2>1, ReceiveTypes, WindowShrinks DEF ClientTypeOK
  <2>3. i # NoId
    BY MaxClientIdAssumption DEF ClientId, NoId
  <2> QED
    BY <1>4, <2>1, <2>2, <2>3, ReceiveTypes, InitialSequenceNamesAll
    DEF ClientTypeOK, Register
<1>5. ASSUME NEW c \in Client, NEW k \in Chunk, ReceivedRequest(c, k)
      PROVE  ClientTypeOK'
  <2>1. Append(chunkBuffer[c], k) \in Seq(Chunk)
    BY DEF ClientTypeOK
  <2>2. chunkBuffer' \in [Client -> Seq(Chunk)]
    BY <1>5, <2>1 DEF ClientTypeOK, ReceivedRequest, Pushed
  <2> QED
    BY <1>5, <2>2 DEF ClientTypeOK, ReceivedRequest, chunkVars
<1>6. ASSUME NEW c \in Client, NEW m \in ControlMessage, AskAgain(c, m)
      PROVE  ClientTypeOK'
  <2>1. controlMsgBuffer' \in [Client -> Seq(ControlMessage)]
    BY <1>6 DEF ClientTypeOK, AskAgain, Pushed
  <2> QED
    BY <1>6, <2>1 DEF ClientTypeOK, AskAgain, chunkVars
<1>7. ASSUME NEW c \in Client, NEW E \in SUBSET requestTimes[c],
             ExpireRequests(c, E)
      PROVE  ClientTypeOK'
  <2>1. PICK order \in Bijection(1 .. Cardinality(E), E) :
          pending' = [pending EXCEPT ![c] = Requeued(c, order)]
    BY <1>7 DEF ExpireRequests
  <2>2. pending[c] \o order \in Seq(Chunk)
    BY RequeuedSequence DEF ClientTypeOK
  <2>3. pending' \in [Client -> Seq(Chunk)]
    BY <2>1, <2>2 DEF ClientTypeOK, Requeued
  <2>4. /\ requestTimes' \in [Client -> SUBSET Chunk]
        /\ \A d \in Client : requestTimes'[d] \subseteq requestTimes[d]
    BY <1>7 DEF ExpireRequests, ClientTypeOK
  <2>5. \A d \in Client : Cardinality(requestTimes'[d]) <= MaxOutstanding
    BY <2>4, WindowShrinks DEF ClientTypeOK
  <2> QED
    BY <1>7, <2>3, <2>4, <2>5 DEF ClientTypeOK, ExpireRequests, chunkVars
<1>8. ASSUME NEW c \in Client, RequestNext(c) PROVE ClientTypeOK'
  <2>1. CASE SkipAll(c)
    BY <1>8, <2>1 DEF ClientTypeOK, RequestNext, SkipAll, chunkVars
  <2>2. ASSUME NEW i \in DOMAIN pending[c], FirstMissing(c, i), Request(c, i)
        PROVE  ClientTypeOK'
    <3>1. pending[c] \in Seq(Chunk) /\ pending[c][i] \in Chunk
      BY <2>2 DEF ClientTypeOK
    <3>2. SubSeq(pending[c], i + 1, Len(pending[c])) \in Seq(Chunk)
      BY <2>2, <3>1, RestOfSequence
    <3>3. pending' \in [Client -> Seq(Chunk)]
      BY <2>2, <3>2 DEF ClientTypeOK, Request
    <3>4. Req(clientId[c], pending[c][i]) \in ControlMessage
      BY <1>8, <3>1, MessageTypes DEF RequestNext, MayRequest, ClientTypeOK
    <3>5. controlMsgBuffer' \in [Client -> Seq(ControlMessage)]
      BY <2>2, <3>4 DEF ClientTypeOK, Request, Pushed
    <3>6. Cardinality(requestTimes[c] \cup {pending[c][i]}) <= MaxOutstanding
      <4>1. /\ IsFiniteSet(requestTimes[c])
            /\ Cardinality(requestTimes[c]) \in Nat
        BY ChunkSets DEF ClientTypeOK
      <4>2. Cardinality(requestTimes[c]) < MaxOutstanding
        BY <1>8 DEF RequestNext, WindowOpen
      <4> QED
        BY <4>1, <4>2, FS_AddElement, MaxOutstandingAssumption
    <3>7. /\ requestTimes' \in [Client -> SUBSET Chunk]
          /\ \A d \in Client : Cardinality(requestTimes'[d]) <= MaxOutstanding
      BY <2>2, <3>1, <3>6 DEF ClientTypeOK, Request
    <3> QED
      BY <1>8, <3>3, <3>5, <3>7 DEF ClientTypeOK, RequestNext, chunkVars
  <2> QED
    BY <1>8, <2>1, <2>2 DEF RequestNext
<1>9. ASSUME NEW c \in Client, WriteControl(c) PROVE ClientTypeOK'
  <2>1. Tail(controlMsgBuffer[c]) \in Seq(ControlMessage)
    BY <1>9 DEF ClientTypeOK, WriteControl
  <2>2. controlMsgBuffer' \in [Client -> Seq(ControlMessage)]
    BY <1>9, <2>1 DEF ClientTypeOK, WriteControl, Popped
  <2> QED
    BY <1>9, <2>2 DEF ClientTypeOK, WriteControl, chunkVars
<1>10. ASSUME NEW c \in Client, WriteChunk(c) PROVE ClientTypeOK'
  <2>1. Tail(chunkBuffer[c]) \in Seq(Chunk)
    BY <1>10 DEF ClientTypeOK, WriteChunk
  <2>2. chunkBuffer' \in [Client -> Seq(Chunk)]
    BY <1>10, <2>1 DEF ClientTypeOK, WriteChunk, Popped
  <2> QED
    BY <1>10, <2>2 DEF ClientTypeOK, WriteChunk, chunkVars
<1>11. ASSUME NEW c \in Client, Disconnected(c) PROVE ClientTypeOK'
  BY <1>11 DEF ClientTypeOK, Disconnected, chunkVars
<1>12. CASE UNCHANGED clientVars
  BY <1>12 DEF ClientTypeOK, clientVars
<1>13. ASSUME NEW c \in Client, PeriodicResend(c) PROVE ClientTypeOK'
  <2>1. CASE AskRegistration(c)
    BY <2>1, <1>6, MessageTypes DEF AskRegistration
  <2>2. CASE AskOpen(c)
    <3>1. Open(clientId[c]) \in ControlMessage
      BY <2>2, MessageTypes DEF AskOpen, ClientTypeOK
    <3> QED
      BY <2>2, <3>1, <1>6 DEF AskOpen
  <2> QED
    BY <1>13, <1>7, <2>1, <2>2 DEF PeriodicResend
<1> QED
  BY <1>1, <1>2, <1>3, <1>4, <1>5, <1>8, <1>9, <1>10, <1>11, <1>12, <1>13
  DEF ClientNext, Arrival, OwnStep, ReceivedChunk, RegisteredAlready

\* The types of the client's variables, and the cap on unanswered requests
\* (client.hpp, run): the window holds whatever arrives, expires or is late.
THEOREM ClientTypeCorrect == ClientSpec => []ClientTypeOK
<1>1. ClientInit => ClientTypeOK
  BY ClientTypeInit
<1>2. ClientTypeOK /\ [ClientNext]_clientVars => ClientTypeOK'
  BY ClientTypeStep
<1> QED
  BY <1>1, <1>2, PTL DEF ClientSpec

-----------------------------------------------------------------------------
(***************************************************************************)
(* The books of a client.                                                  *)
(***************************************************************************)
LEMMA ClientInvInit == ClientInit => ClientInv
<1> SUFFICES ASSUME ClientInit, NEW c \in Client PROVE Kept(c)
  BY ClientTypeInit DEF ClientInv
<1>1. Range(<< >>) = {} /\ NoRepeats(<< >>)
  BY DEF Range, NoRepeats
<1>2. Chunk # {}
  BY NumChunksAssumption DEF Chunk
<1> QED
  BY <1>1, <1>2, FS_EmptySet DEF ClientInit, Kept, BooksKept, CountersKept, AnswersKept

\* A client that a step leaves alone keeps its books.
LEMMA OthersKept ==
  ASSUME NEW d \in Client, Kept(d),
         registered'[d] = registered[d], chunks'[d] = chunks[d],
         numRcvd'[d] = numRcvd[d], pending'[d] = pending[d],
         requestTimes'[d] = requestTimes[d], chunkBuffer'[d] = chunkBuffer[d],
         savedFile'[d] = savedFile[d], saveCalls'[d] = saveCalls[d]
  PROVE  Kept(d)'
<1>1. BooksKept(d)'
  BY DEF Kept, BooksKept
<1>2. CountersKept(d)'
  BY DEF Kept, CountersKept
<1>3. AnswersKept(d)'
  BY DEF Kept, AnswersKept
<1> QED
  BY <1>1, <1>2, <1>3 DEF Kept

\* A step that moves none of the counted variables keeps the counters.
LEMMA CountersUntouched ==
  ASSUME NEW c \in Client, CountersKept(c), UNCHANGED chunkVars
  PROVE  CountersKept(c)'
BY DEF CountersKept, chunkVars

\* A reception keeps the counters: duplicates are not counted, and the file is
\* saved when the last chunk has come and not again.
LEMMA ReceiveCounts ==
  ASSUME ClientTypeOK, NEW c \in Client, NEW ks \in SUBSET Chunk, Receive(c, ks),
         CountersKept(c)
  PROVE  /\ chunks'[c] = chunks[c] \cup ks
         /\ requestTimes'[c] = requestTimes[c] \ (ks \ chunks[c])
         /\ CountersKept(c)'
<1> DEFINE n == numRcvd[c] + Cardinality(NewChunks(c, ks))
<1>1. chunks[c] \in SUBSET Chunk /\ chunks[c] \cup ks \in SUBSET Chunk
  BY DEF ClientTypeOK
<1>2. chunks'[c] = chunks[c] \cup ks
  BY DEF ClientTypeOK, Receive
<1>3. requestTimes'[c] = requestTimes[c] \ (ks \ chunks[c])
  BY DEF ClientTypeOK, Receive, StillOpen, NewChunks
<1>4. n = Cardinality(chunks'[c])
  BY <1>1, <1>2, CountingNew DEF NewChunks, CountersKept
<1>5. /\ numRcvd'[c] = n
      /\ savedFile'[c] = (savedFile[c] \/ SaveNow(c, n))
      /\ saveCalls'[c] = IF SaveNow(c, n) THEN saveCalls[c] + 1 ELSE saveCalls[c]
  BY DEF ClientTypeOK, Receive
<1>6. n = NumChunks <=> chunks'[c] = Chunk
  BY <1>1, <1>2, <1>4, ChunkSets
<1>7. chunks[c] = Chunk => chunks'[c] = Chunk
  BY <1>1, <1>2
<1> HIDE DEF n
<1>8. savedFile'[c] <=> chunks'[c] = Chunk
  BY <1>5, <1>6, <1>7 DEF SaveNow, CountersKept
<1>9. saveCalls'[c] = IF savedFile'[c] THEN 1 ELSE 0
  <2>1. CASE SaveNow(c, n)
    <3>1. ~savedFile[c] /\ saveCalls[c] = 0
      BY <2>1 DEF SaveNow, CountersKept
    <3>2. savedFile'[c] /\ saveCalls'[c] = 0 + 1
      BY <1>5, <2>1, <3>1
    <3> QED
      BY <3>2
  <2>2. CASE ~SaveNow(c, n)
    <3>1. (savedFile'[c] <=> savedFile[c]) /\ saveCalls'[c] = saveCalls[c]
      BY <1>5, <2>2
    <3> QED
      BY <3>1 DEF CountersKept
  <2> QED
    BY <2>1, <2>2
<1> QED
  BY <1>2, <1>3, <1>4, <1>5, <1>8, <1>9 DEF CountersKept

\* Each step keeps the books of every client.
LEMMA BooksStep ==
  ASSUME ClientInv, [ClientNext]_clientVars, NEW d \in Client
  PROVE  Kept(d)'
<1>0. ClientTypeOK /\ Kept(d) /\ BooksKept(d) /\ CountersKept(d) /\ AnswersKept(d)
  BY DEF ClientInv, Kept
<1>1. ASSUME NEW c \in Client, NEW k \in Chunk, CacheEarlyChunk(c, k)
      PROVE  Kept(d)'
  BY <1>0, <1>1, OthersKept DEF CacheEarlyChunk, chunkVars
<1>2. ASSUME NEW c \in Client, NEW k \in Chunk, StoreChunk(c, k)
      PROVE  Kept(d)'
  <2>1. CASE d # c
    BY <1>0, <1>2, <2>1, OthersKept DEF StoreChunk, Receive, ClientTypeOK
  <2>2. CASE d = c
    <3>1. /\ chunks'[c] = chunks[c] \cup {k}
          /\ requestTimes'[c] = requestTimes[c] \ ({k} \ chunks[c])
          /\ CountersKept(c)'
      BY <1>0, <1>2, <2>2, ReceiveCounts DEF StoreChunk
    <3>2. pending' = pending /\ registered' = registered /\ chunkBuffer' = chunkBuffer
      BY <1>2 DEF StoreChunk
    <3>3. BooksKept(c)'
      BY <1>0, <2>2, <3>1, <3>2 DEF BooksKept
    <3>4. AnswersKept(c)'
      BY <1>0, <2>2, <3>1, <3>2 DEF AnswersKept
    <3> QED
      BY <2>2, <3>1, <3>3, <3>4 DEF Kept
  <2> QED
    BY <2>1, <2>2
<1>3. ASSUME NEW c \in Client, ReceivedOpen(c) PROVE Kept(d)'
  BY <1>0, <1>3, OthersKept DEF ReceivedOpen, chunkVars
<1>4. ASSUME NEW c \in Client, NEW i \in ClientId, Register(c, i)
      PROVE  Kept(d)'
  <2>1. CASE d # c
    BY <1>0, <1>4, <2>1, OthersKept DEF Register, Receive, ClientTypeOK
  <2>2. CASE d = c
    <3>0. recvChunkCache[c] \in SUBSET Chunk /\ Receive(c, recvChunkCache[c])
      BY <1>0, <1>4 DEF ClientTypeOK, Register
    <3>1. requestTimes'[c] \subseteq requestTimes[c]
      BY <1>0, <3>0, ReceiveTypes
    <3>2. /\ chunks'[c] = chunks[c] \cup recvChunkCache[c]
          /\ CountersKept(c)'
      BY <1>0, <2>2, <3>0, ReceiveCounts
    <3>3. requestTimes'[c] = {}
      BY <1>0, <1>4, <2>2, <3>1 DEF Register, BooksKept
    <3>4. /\ pending'[c] = InitialSequence /\ registered'[c]
          /\ chunkBuffer' = chunkBuffer
      BY <1>0, <1>4 DEF ClientTypeOK, Register
    <3>5. chunks'[c] \subseteq Chunk
      BY <1>0, <3>0, <3>2 DEF ClientTypeOK
    <3>6. BooksKept(c)'
      BY <3>3, <3>4, <3>5, InitialSequenceNamesAll DEF BooksKept
    <3>7. AnswersKept(c)'
      BY <1>0, <2>2, <3>2, <3>4 DEF AnswersKept
    <3> QED
      BY <2>2, <3>2, <3>6, <3>7 DEF Kept
  <2> QED
    BY <2>1, <2>2
<1>5. ASSUME NEW c \in Client, NEW k \in Chunk, ReceivedRequest(c, k)
      PROVE  Kept(d)'
  <2>1. CASE d # c
    BY <1>0, <1>5, <2>1, OthersKept
    DEF ReceivedRequest, Pushed, chunkVars, ClientTypeOK
  <2>2. CASE d = c
    <3>1. BooksKept(d)' /\ CountersKept(d)'
      BY <1>0, <1>5 DEF ReceivedRequest, chunkVars, BooksKept, CountersKept
    <3>2. CASE ~CanAnswer(c, k)
      BY <1>0, <1>5, <3>1, <3>2 DEF ReceivedRequest, chunkVars, AnswersKept, Kept
    <3>3. CASE CanAnswer(c, k)
      <4>1. chunkBuffer'[c] = Append(chunkBuffer[c], k) /\ chunks' = chunks
        BY <1>0, <1>5, <3>3 DEF ReceivedRequest, Pushed, chunkVars, ClientTypeOK
      <4>2. Range(chunkBuffer'[c]) = Range(chunkBuffer[c]) \cup {k}
        BY <1>0, <4>1, BufferRange DEF ClientTypeOK
      <4>3. AnswersKept(d)'
        BY <1>0, <2>2, <3>3, <4>1, <4>2 DEF AnswersKept, CanAnswer
      <4> QED
        BY <3>1, <4>3 DEF Kept
    <3> QED
      BY <3>2, <3>3
  <2> QED
    BY <2>1, <2>2
<1>6. ASSUME NEW c \in Client, NEW m, AskAgain(c, m) PROVE Kept(d)'
  BY <1>0, <1>6, OthersKept DEF AskAgain, chunkVars
<1>7. ASSUME NEW c \in Client, NEW E \in SUBSET requestTimes[c],
             ExpireRequests(c, E)
      PROVE  Kept(d)'
  <2>1. CASE d # c
    BY <1>0, <1>7, <2>1, OthersKept DEF ExpireRequests, chunkVars, ClientTypeOK
  <2>2. CASE d = c
    <3>1. PICK order \in Bijection(1 .. Cardinality(E), E) :
            pending' = [pending EXCEPT ![c] = Requeued(c, order)]
      BY <1>7 DEF ExpireRequests
    <3>2. /\ pending'[c] = pending[c] \o order
          /\ requestTimes'[c] = requestTimes[c] \ E
          /\ UNCHANGED chunkVars /\ chunkBuffer' = chunkBuffer
          /\ registered'[c] /\ registered[c]
      BY <1>0, <1>7, <3>1 DEF ExpireRequests, Requeued, ClientTypeOK
    <3>3. pending[c] \in Seq(Chunk) /\ E \in SUBSET Chunk
      BY <1>0 DEF ClientTypeOK
    <3>4. /\ Range(pending[c] \o order) = Range(pending[c]) \cup E
          /\ NoRepeats(pending[c]) /\ Range(pending[c]) \cap E = {}
               => NoRepeats(pending[c] \o order)
      BY <3>3, RequeuedSequence
    <3>5. BooksKept(c)'
      BY <1>0, <2>2, <3>2, <3>4 DEF BooksKept, chunkVars
    <3>6. AnswersKept(c)'
      BY <1>0, <2>2, <3>2 DEF AnswersKept, chunkVars
    <3> QED
      BY <1>0, <2>2, <3>2, <3>5, <3>6, CountersUntouched DEF Kept
  <2> QED
    BY <2>1, <2>2
<1>8. ASSUME NEW c \in Client, RequestNext(c) PROVE Kept(d)'
  <2>1. CASE d # c
    BY <1>0, <1>8, <2>1, OthersKept
    DEF RequestNext, Request, SkipAll, chunkVars, ClientTypeOK
  <2>2. CASE d = c
    <3>1. /\ UNCHANGED chunkVars /\ chunkBuffer' = chunkBuffer
          /\ registered' = registered /\ registered[c]
      BY <1>8 DEF RequestNext, MayRequest
    <3>2. ASSUME SkipAll(c) PROVE BooksKept(c)'
      <4>1. pending'[c] = << >> /\ requestTimes' = requestTimes
        BY <1>0, <3>2 DEF SkipAll, ClientTypeOK
      <4>2. Range(<< >>) = {} /\ NoRepeats(<< >>)
        BY DEF Range, NoRepeats
      <4> QED
        BY <1>0, <2>2, <3>1, <3>2, <4>1, <4>2
        DEF SkipAll, BooksKept, chunkVars
    <3>3. ASSUME NEW i \in DOMAIN pending[c], FirstMissing(c, i), Request(c, i)
          PROVE  BooksKept(c)'
      <4> DEFINE rest == SubSeq(pending[c], i + 1, Len(pending[c]))
      <4>1. /\ pending'[c] = rest
            /\ requestTimes'[c] = requestTimes[c] \cup {pending[c][i]}
        BY <1>0, <3>3 DEF Request, ClientTypeOK
      <4>2. pending[c] \in Seq(Chunk) /\ NoRepeats(pending[c])
        BY <1>0, <2>2 DEF ClientTypeOK, BooksKept
      <4>3. /\ i \in 1 .. Len(pending[c]) /\ i \in 0 .. Len(pending[c])
            /\ Len(pending[c]) \in Nat /\ i \in 1 .. i
        BY <4>2
      <4>4. /\ Range(rest) \subseteq Range(pending[c])
            /\ Range(pending[c]) = {pending[c][j] : j \in 1 .. i} \cup Range(rest)
            /\ NoRepeats(rest) /\ pending[c][i] \notin Range(rest)
        BY <4>2, <4>3, RestOfSequence
      <4> HIDE DEF rest
      <4>5. \A j \in 1 .. i : j \in 1 .. (i - 1) \/ j = i
        BY <4>3
      <4>6. {pending[c][j] : j \in 1 .. i} \subseteq chunks[c] \cup {pending[c][i]}
        BY <3>3, <4>5 DEF FirstMissing
      <4>7. pending[c][i] \notin chunks[c]
        BY <3>3 DEF FirstMissing
      <4>8. chunks' = chunks
        BY <3>1 DEF chunkVars
      <4>9. Chunk = chunks[c] \cup requestTimes[c] \cup Range(pending[c])
        BY <1>0, <2>2, <3>1 DEF BooksKept
      <4>10. pending[c][i] \in Chunk
        BY <4>2
      <4>11. Chunk = chunks[c] \cup requestTimes'[c] \cup Range(rest)
        BY <4>1, <4>4, <4>6, <4>9, <4>10
      <4> QED
        BY <1>0, <2>2, <3>1, <4>1, <4>4, <4>7, <4>8, <4>11 DEF BooksKept
    <3>4. BooksKept(c)'
      BY <1>8, <3>2, <3>3 DEF RequestNext
    <3>5. AnswersKept(c)'
      BY <1>0, <2>2, <3>1 DEF AnswersKept, chunkVars
    <3> QED
      BY <1>0, <2>2, <3>1, <3>4, <3>5, CountersUntouched DEF Kept
  <2> QED
    BY <2>1, <2>2
<1>9. ASSUME NEW c \in Client, WriteControl(c) PROVE Kept(d)'
  BY <1>0, <1>9, OthersKept DEF WriteControl, chunkVars
<1>10. ASSUME NEW c \in Client, WriteChunk(c) PROVE Kept(d)'
  <2>1. CASE d # c
    BY <1>0, <1>10, <2>1, OthersKept DEF WriteChunk, Popped, chunkVars, ClientTypeOK
  <2>2. CASE d = c
    <3>1. BooksKept(d)' /\ CountersKept(d)'
      BY <1>0, <1>10 DEF WriteChunk, chunkVars, BooksKept, CountersKept
    <3>2. chunkBuffer'[c] = Tail(chunkBuffer[c]) /\ chunks' = chunks
      BY <1>0, <1>10 DEF WriteChunk, Popped, chunkVars, ClientTypeOK
    <3>3. Range(Tail(chunkBuffer[c])) \subseteq Range(chunkBuffer[c])
      BY <1>0, <1>10, BufferRange DEF WriteChunk, ClientTypeOK
    <3> QED
      BY <1>0, <2>2, <3>1, <3>2, <3>3 DEF AnswersKept, Kept
  <2> QED
    BY <2>1, <2>2
<1>11. ASSUME NEW c \in Client, Disconnected(c) PROVE Kept(d)'
  BY <1>0, <1>11, OthersKept DEF Disconnected, chunkVars
<1>12. CASE UNCHANGED clientVars
  BY <1>0, <1>12, OthersKept DEF clientVars
<1>13. ASSUME NEW c \in Client, PeriodicResend(c) PROVE Kept(d)'
  BY <1>13, <1>6, <1>7 DEF PeriodicResend, AskRegistration, AskOpen
<1>14. ASSUME NEW c \in Client, Arrival(c) PROVE Kept(d)'
  BY <1>14, <1>1, <1>2, <1>3, <1>4, <1>5, <1>11, <1>12
  DEF Arrival, ReceivedChunk, RegisteredAlready
<1>15. ASSUME NEW c \in Client, OwnStep(c) PROVE Kept(d)'
  BY <1>15, <1>8, <1>9, <1>10, <1>13 DEF OwnStep
<1> QED
  BY <1>12, <1>14, <1>15 DEF ClientNext

\* In every reachable state each client keeps its books, its counter and its
\* answers (client.hpp, every handler and the end of a turn of run).
THEOREM ClientInvariance == ClientSpec => []ClientInv
<1>1. ClientInit => ClientInv
  BY ClientInvInit
<1>2. ClientInv /\ [ClientNext]_clientVars => ClientInv'
  BY ClientTypeStep, BooksStep DEF ClientInv
<1> QED
  BY <1>1, <1>2, PTL DEF ClientSpec

-----------------------------------------------------------------------------
(***************************************************************************)
(* The properties of TrickleClient.                                        *)
(***************************************************************************)
\* No chunk drops out of the books of a registered client (client.hpp:
\* received_chunk, periodic_resend_requests and the end of a turn of run).
THEOREM ChunksNeverForgotten == ClientSpec => []NoChunkForgotten
<1>1. ClientInv => NoChunkForgotten
  BY DEF ClientInv, Kept, BooksKept, NoChunkForgotten
<1> QED
  BY <1>1, ClientInvariance, PTL

\* A chunk is never twice in the request sequence, nor there and requested at
\* once, nor requested although it is here.
THEOREM RequestsUnique == ClientSpec => []OneRequestPerChunk
<1>1. ClientInv => OneRequestPerChunk
  BY DEF ClientInv, Kept, BooksKept, NoRepeats, OneRequestPerChunk
<1> QED
  BY <1>1, ClientInvariance, PTL

\* _num_rcvd_chunks counts the chunks that are here, duplicates and early
\* chunks included, and the file is saved once, when it is complete.
THEOREM SavesOnce == ClientSpec => []SavedExactlyOnce
<1>1. ClientInv => SavedExactlyOnce
  BY DEF ClientInv, Kept, CountersKept, CounterExact, SavedExactlyOnce
<1> QED
  BY <1>1, ClientInvariance, PTL

\* What can_write_TCP or can_write_UDP takes from _chunk_buffer is a chunk the
\* client holds, so the pointer it dereferences is not null.
THEOREM AnswersAlwaysHeld == ClientSpec => []AnswersHeld
<1>1. ClientInv => AnswersHeld
  BY DEF ClientInv, Kept, AnswersKept, AnswersHeld
<1> QED
  BY <1>1, ClientInvariance, PTL

-----------------------------------------------------------------------------
(***************************************************************************)
(* The server of the system is the server TrickleServerProofs is about:    *)
(* the same definitions with the same substitution, so what is proved      *)
(* there of its initial states and its steps holds here.                   *)
(***************************************************************************)
SP == INSTANCE TrickleServerProofs
       WITH controlMsgBuffer <- serverControl, chunkBuffer <- serverSends,
            MaxControl <- MaxServerControl, MaxSends <- MaxServerSends,
            Addr <- Client, RequestedChunks <- Chunk

LEMMA ServerAssumptions ==
  SP!ServerAssumption /\ SP!NumChunksAssumption /\ SP!MaxClientIdAssumption
BY ServerParameters, NumChunksAssumption, MaxClientIdAssumption
DEF SP!ServerAssumption, S!ServerAssumption, SP!Chunk, S!Chunk, SP!NoAddr, S!NoAddr

\* The names of the protocol mean the same for the server and for the clients.
LEMMA SameProtocol ==
  /\ S!Chunk = Chunk /\ S!ClientId = ClientId
  /\ SP!Chunk = Chunk /\ SP!ClientId = ClientId
  /\ S!ControlMessage = ControlMessage /\ SP!ControlMessage = ControlMessage
  /\ S!NoId = NoId /\ SP!NoId = NoId
  /\ S!NoAddr = SP!NoAddr /\ SP!NoAddr = "none"
  /\ \A i, k : /\ S!Req(i, k) = Req(i, k) /\ SP!Req(i, k) = Req(i, k)
               /\ S!Reg(i, k) = Reg(i, k) /\ SP!Reg(i, k) = Reg(i, k)
  /\ \A i : S!Open(i) = Open(i) /\ SP!Open(i) = Open(i)
  /\ \A s : S!Range(s) = Range(s) /\ SP!Range(s) = Range(s)
BY DEF S!Chunk, SP!Chunk, Chunk, S!ClientId, SP!ClientId, ClientId,
       S!ControlMessage, SP!ControlMessage, ControlMessage, S!NoId, SP!NoId, NoId, S!NoAddr, SP!NoAddr,
       S!Req, SP!Req, Req, S!Reg, SP!Reg, Reg, S!Open, SP!Open, Open, S!Range, SP!Range, Range

USE DEF S!connectionVars, SP!connectionVars, S!dealVars, SP!dealVars,
        S!sentVars, SP!sentVars, S!waitVars, SP!waitVars

LEMMA SameCache ==
  ASSUME NEW k
  PROVE  /\ S!Cache!Cached(k) = SP!Cache!Cached(k)
         /\ S!Cache!Hit(k) = SP!Cache!Hit(k)
         /\ S!Cache!Store(k) = SP!Cache!Store(k)
<1>1. S!Cache!Cached(k) = SP!Cache!Cached(k)
  BY DEF S!Cache!Cached, SP!Cache!Cached, S!Cache!Range, SP!Cache!Range
<1>2. S!Cache!Hit(k) = SP!Cache!Hit(k)
  BY <1>1 DEF S!Cache!Hit, SP!Cache!Hit, S!Cache!RemoveAt, SP!Cache!RemoveAt
<1>3. S!Cache!Add(k) = SP!Cache!Add(k)
  BY <1>1 DEF S!Cache!Add, SP!Cache!Add, S!Cache!Kept, SP!Cache!Kept,
              S!Cache!Front, SP!Cache!Front
<1> QED
  BY <1>1, <1>2, <1>3 DEF S!Cache!Store, SP!Cache!Store

LEMMA SameCrash == S!Crash = SP!Crash
BY DEF S!Crash, SP!Crash

LEMMA SameAccept ==
  ASSUME NEW c PROVE S!AcceptNewClient(c) = SP!AcceptNewClient(c)
<1>1. S!DividesByZero = SP!DividesByZero /\ S!ClientsToCome = SP!ClientsToCome
  BY DEF S!DividesByZero, SP!DividesByZero, S!ClientsToCome, SP!ClientsToCome
<1>2. \A i : S!Greeting(i) = SP!Greeting(i)
  BY SameProtocol DEF S!Greeting, SP!Greeting
<1>3. \A m, n : S!ChunkLimit(m, n) = SP!ChunkLimit(m, n)
  BY DEF S!ChunkLimit, SP!ChunkLimit
<1>4. ASSUME NEW i, NEW lim PROVE S!Deal(i, lim) = SP!Deal(i, lim)
  BY DEF S!Deal, SP!Deal
<1>5. ASSUME NEW i PROVE S!DistributeTo(i) = SP!DistributeTo(i)
  BY <1>1, <1>3, <1>4 DEF S!DistributeTo, SP!DistributeTo
<1>6. ASSUME NEW i PROVE S!Connect(i, c) = SP!Connect(i, c)
  BY DEF S!Connect, SP!Connect
<1> QED
  BY <1>1, <1>2, <1>5, <1>6, SameCrash, SameProtocol
  DEF S!AcceptNewClient, SP!AcceptNewClient

LEMMA SameDisconnect ==
  ASSUME NEW i PROVE S!ClientDisconnected(i) = SP!ClientDisconnected(i)
<1>1. S!WithoutWaiter(i) = SP!WithoutWaiter(i)
  BY SameProtocol DEF S!WithoutWaiter, SP!WithoutWaiter
<1>2. S!AddressErased(i) = SP!AddressErased(i)
  BY SameProtocol DEF S!AddressErased, SP!AddressErased
<1> QED
  BY <1>1, <1>2, SameProtocol
  DEF S!ClientDisconnected, SP!ClientDisconnected

LEMMA SameReceivedChunk ==
  ASSUME NEW k PROVE S!ReceivedChunk(k) = SP!ReceivedChunk(k)
BY SameProtocol, SameCache, SameCrash
DEF S!ReceivedChunk, SP!ReceivedChunk, S!RoomForSend, SP!RoomForSend

LEMMA SameRequest ==
  ASSUME NEW i, NEW k PROVE S!ReceivedRequest(i, k) = SP!ReceivedRequest(i, k)
<1>1. S!AnswerFromCache(i, k) = SP!AnswerFromCache(i, k)
  BY SameCache, SameCrash
  DEF S!AnswerFromCache, SP!AnswerFromCache, S!RoomForSend, SP!RoomForSend,
      S!Pushed, SP!Pushed
<1>2. S!JoinWaiters(i, k) = SP!JoinWaiters(i, k)
  BY SameCache DEF S!JoinWaiters, SP!JoinWaiters
<1>3. \A x : S!Cardinality(x) = SP!Cardinality(x)
  BY DEF S!Cardinality, SP!Cardinality
<1>4. \A p : S!Copies(p, k) = SP!Copies(p, k)
  BY <1>3 DEF S!Copies, SP!Copies, S!Rounds, SP!Rounds
<1>5. ASSUME NEW order PROVE S!Forwarded(i, k, order) = SP!Forwarded(i, k, order)
  <2> DEFINE copies(j) == [x \in 1 .. S!Copies(order[j], k) |-> S!Req(i, k)]
  <2>1. \A j : [x \in 1 .. SP!Copies(order[j], k) |-> SP!Req(i, k)] = copies(j)
    BY <1>4, SameProtocol
  <2> QED
    BY <2>1, SameProtocol DEF S!Forwarded, SP!Forwarded
<1>6. \A A, B : S!Bijection(A, B) = SP!Bijection(A, B)
  BY DEF S!Bijection, SP!Bijection, S!Injection, SP!Injection,
         S!Surjection, SP!Surjection, S!IsInjective, SP!IsInjective
<1>7. S!ForwardToClients(i, k) = SP!ForwardToClients(i, k)
  BY <1>3, <1>4, <1>5, <1>6, SameCache
  DEF S!ForwardToClients, SP!ForwardToClients, S!RoomForControl, SP!RoomForControl
<1> QED
  BY <1>1, <1>2, <1>7 DEF S!ReceivedRequest, SP!ReceivedRequest

LEMMA SameControl ==
  ASSUME NEW i
  PROVE  /\ S!ReceivedOpen(i) = SP!ReceivedOpen(i)
         /\ S!ReceivedReg(i) = SP!ReceivedReg(i)
<1>1. ASSUME NEW j, NEW m PROVE S!SendControl(j, m) = SP!SendControl(j, m)
  BY DEF S!SendControl, SP!SendControl, S!RoomForControl,
                       SP!RoomForControl, S!Pushed, SP!Pushed
<1>2. S!ReceivedOpen(i) = SP!ReceivedOpen(i)
  BY <1>1, SameProtocol, SameCrash
  DEF S!ReceivedOpen, SP!ReceivedOpen, S!MayOpen, SP!MayOpen
<1>3. S!ReceivedReg(i) = SP!ReceivedReg(i)
  BY <1>1, SameProtocol DEF S!ReceivedReg, SP!ReceivedReg
<1> QED
  BY <1>2, <1>3

LEMMA SameTurn == S!OpenRequests = SP!OpenRequests
BY SameProtocol
DEF S!OpenRequests, SP!OpenRequests, S!RoomForControl, SP!RoomForControl

LEMMA SameWrites ==
  ASSUME NEW i
  PROVE  /\ S!WriteChunk(i) = SP!WriteChunk(i)
         /\ S!WriteControl(i) = SP!WriteControl(i)
<1>1. ASSUME NEW k PROVE S!EndWait(i, k) = SP!EndWait(i, k)
  BY DEF S!EndWait, SP!EndWait
<1>2. ASSUME NEW k PROVE S!CountDistributed(k) = SP!CountDistributed(k)
  BY SameProtocol DEF S!CountDistributed, SP!CountDistributed
<1>3. S!WriteChunk(i) = SP!WriteChunk(i)
  BY <1>1, <1>2
  DEF S!WriteChunk, SP!WriteChunk, S!Popped, SP!Popped
<1>4. S!WriteControl(i) = SP!WriteControl(i)
  BY DEF S!WriteControl, SP!WriteControl, S!Popped, SP!Popped
<1> QED
  BY <1>3, <1>4

LEMMA SameInit == S!Init = SP!Init
BY SameProtocol DEF S!Init, SP!Init

LEMMA SameNext == S!Next = SP!Next
<1>1. \A i : S!MaySpeak(i) = SP!MaySpeak(i)
  BY DEF S!MaySpeak, SP!MaySpeak
<1>2. S!Arrival = SP!Arrival
  BY <1>1, SameProtocol, SameAccept, SameControl, SameRequest, SameReceivedChunk
  DEF S!Arrival, SP!Arrival
<1> QED
  BY <1>2, SameProtocol, SameTurn, SameDisconnect, SameWrites DEF S!Next, SP!Next

\* The server's inductive invariant holds initially and is kept.
LEMMA ServerInvariantKept ==
  /\ S!Init => SP!IInv
  /\ SP!IInv /\ [S!Next]_S!serverVars => SP!IInv'
<1>1. SP!Init => SP!IInv
  BY SP!InitInv, ServerAssumptions
<1>2. SP!IInv /\ [SP!Next]_SP!serverVars => SP!IInv'
  BY SP!StepInv, ServerAssumptions
<1> QED
  BY <1>1, <1>2, SameInit, SameNext DEF S!serverVars, SP!serverVars

LEMMA SameSteps == [S!Next]_S!serverVars => [SP!Next]_SP!serverVars
BY SameNext DEF S!serverVars, SP!serverVars

HIDE DEF S!connectionVars, SP!connectionVars, S!dealVars, SP!dealVars,
         S!sentVars, SP!sentVars, S!waitVars, SP!waitVars

-----------------------------------------------------------------------------
(***************************************************************************)
(* The system: what holds of clients, server and network together.         *)
(***************************************************************************)
\* Both directions of the network carry control messages and chunks.
IsNetwork(net) ==
  /\ net \in [Kind -> [Client -> Seq(ControlMessage) \cup Seq(Chunk)]]
  /\ \A c \in Client : /\ net["control"][c] \in Seq(ControlMessage)
                       /\ net["data"][c] \in Seq(Chunk)

NetTypeOK ==
  /\ conn \in [Client -> {"new", "backlog", "open", "ended", "closed"}]
  /\ IsNetwork(toServer) /\ IsNetwork(toClient)

\* A REG in the buffer of a client carries the id of this client.
RegsNameOwner ==
  \A i \in ClientId : \A m \in Range(serverControl[i]) :
    m.msgtype = "REG" => m.client = i

\* Id i is the one the server gave to client c: it knows c by it, or knows c no
\* more.
GivenTo(c, i) ==
  /\ i < nextClientId
  /\ conn[c] \in {"open", "closed"}
  /\ lookup[c] \in {i, NoId}
  /\ conn[c] = "open" => lookup[c] = i

IdsAreGiven ==
  \A c \in Client :
    /\ registered[c] => GivenTo(c, clientId[c])
    /\ \A m \in Range(toClient["control"][c]) :
         m.msgtype = "REG" => GivenTo(c, m.client)

\* Nothing reaches a client before the server has accepted its connection.
SilentBeforeAccept ==
  \A c \in Client : conn[c] \in {"new", "backlog", "ended"} =>
    /\ lookup[c] = NoId
    /\ Range(toClient["control"][c]) = {}
    /\ ~canRequest[c]

\* A client whose connection has ended has stopped.
StoppedAtEnd ==
  \A c \in Client : conn[c] \in {"ended", "closed"} => ~running[c]

\* What client c has said and the server has not yet read.
Unread(c) == Range(controlMsgBuffer[c]) \cup Range(toServer["control"][c])

\* A client asks for OPEN in its own name, and for chunks of the file once it
\* may.
SaysWhatItMay(c, m) ==
  /\ m.msgtype # "REG" => registered[c] /\ m.client = clientId[c]
  /\ m.msgtype = "REQ" => canRequest[c] /\ m.chunk \in Chunk

SpeaksForItself == \A c \in Client : \A m \in Unread(c) : SaysWhatItMay(c, m)

\* The OPEN that a client has or is about to get was sent to it by the id it
\* has or is about to get.
HasOpen(c) == \/ canRequest[c]
              \/ \E m \in Range(toClient["control"][c]) : m.msgtype = "OPEN"

OpenWasTold ==
  \A c \in Client : HasOpen(c) =>
    /\ lookup[c] # NoId => lookup[c] \in told
    /\ registered[c] => clientId[c] \in told
    /\ \A m \in Range(toClient["control"][c]) : m.msgtype = "REG" => m.client \in told

\* The chunks that client c holds, or that are between it and the server.
ChunksAt(c) ==
  chunks[c] \cup recvChunkCache[c] \cup Range(chunkBuffer[c])
    \cup Range(toServer["data"][c]) \cup Range(toClient["data"][c])

ChunksWereSent == \A c \in Client : ChunksAt(c) \subseteq distributed

\* The inductive invariant of the system.
SystemInv ==
  /\ ClientInv /\ SP!IInv /\ NetTypeOK
  /\ RegsNameOwner /\ IdsAreGiven /\ SilentBeforeAccept /\ StoppedAtEnd
  /\ SpeaksForItself /\ OpenWasTold /\ ChunksWereSent

-----------------------------------------------------------------------------
(***************************************************************************)
(* Channels.                                                               *)
(***************************************************************************)
MessagesOf(kind) == IF kind = "control" THEN ControlMessage ELSE Chunk

\* A channel of a network, and what sending does to it and the others.
LEMMA ChannelType ==
  ASSUME NEW net, IsNetwork(net), NEW kind \in Kind, NEW c \in Client
  PROVE  net[kind][c] \in Seq(MessagesOf(kind))
BY DEF IsNetwork, Kind, MessagesOf

LEMMA Sending ==
  ASSUME NEW net, IsNetwork(net), NEW kind \in Kind, NEW c \in Client,
         NEW m \in MessagesOf(kind)
  PROVE  /\ IsNetwork(Sent(net, kind, c, m))
         /\ Range(Sent(net, kind, c, m)[kind][c]) = Range(net[kind][c]) \cup {m}
         /\ \A k \in Kind, d \in Client : k # kind \/ d # c =>
              Sent(net, kind, c, m)[k][d] = net[k][d]
<1> DEFINE sent == Sent(net, kind, c, m)
<1>1. net \in [Kind -> [Client -> Seq(ControlMessage) \cup Seq(Chunk)]]
  BY DEF IsNetwork
<1>2. net[kind][c] \in Seq(MessagesOf(kind))
  BY ChannelType
<1>3. /\ Append(net[kind][c], m) \in Seq(MessagesOf(kind))
      /\ Range(Append(net[kind][c], m)) = Range(net[kind][c]) \cup {m}
  BY <1>2, BufferRange
<1>4. /\ sent[kind][c] = Append(net[kind][c], m)
      /\ \A k \in Kind, d \in Client : k # kind \/ d # c => sent[k][d] = net[k][d]
  BY <1>1 DEF Sent
<1>5. Append(net[kind][c], m) \in Seq(ControlMessage) \cup Seq(Chunk)
  BY <1>3 DEF MessagesOf
<1>6. sent \in [Kind -> [Client -> Seq(ControlMessage) \cup Seq(Chunk)]]
  BY <1>1, <1>5 DEF Sent
<1> HIDE DEF sent
<1>7. ASSUME NEW d \in Client
      PROVE  sent["control"][d] \in Seq(ControlMessage) /\ sent["data"][d] \in Seq(Chunk)
  <2>1. \A k \in Kind : sent[k][d] \in Seq(MessagesOf(k))
    BY <1>3, <1>4, ChannelType
  <2> QED
    BY <2>1 DEF Kind, MessagesOf
<1>8. IsNetwork(sent)
  BY <1>6, <1>7 DEF IsNetwork
<1> QED
  BY <1>3, <1>4, <1>8 DEF sent

\* Taking a message from a channel leaves the other messages and channels.
LEMMA Taking ==
  ASSUME NEW net, IsNetwork(net), NEW kind \in Kind, NEW c \in Client,
         NEW n \in DOMAIN net[kind][c]
  PROVE  /\ net[kind][c][n] \in MessagesOf(kind)
         /\ net[kind][c][n] \in Range(net[kind][c])
         /\ IsNetwork(Taken(net, kind, c, n))
         /\ Range(Taken(net, kind, c, n)[kind][c]) \subseteq Range(net[kind][c])
         /\ Range(net[kind][c])
              = {net[kind][c][n]} \cup Range(Taken(net, kind, c, n)[kind][c])
         /\ \A k \in Kind, d \in Client : k # kind \/ d # c =>
              Taken(net, kind, c, n)[k][d] = net[k][d]
<1> DEFINE rest == Taken(net, kind, c, n)
<1>1. net \in [Kind -> [Client -> Seq(ControlMessage) \cup Seq(Chunk)]]
  BY DEF IsNetwork
<1>2. net[kind][c] \in Seq(MessagesOf(kind))
  BY ChannelType
<1>3. net[kind][c][n] \in MessagesOf(kind) /\ net[kind][c][n] \in Range(net[kind][c])
  BY <1>2 DEF Range
<1>4. /\ RemoveAt(net[kind][c], n) \in Seq(MessagesOf(kind))
      /\ Range(RemoveAt(net[kind][c], n)) \subseteq Range(net[kind][c])
      /\ Range(net[kind][c])
           = {net[kind][c][n]} \cup Range(RemoveAt(net[kind][c], n))
  BY <1>2, RemovedEntry
<1>5. /\ rest[kind][c] = RemoveAt(net[kind][c], n)
      /\ \A k \in Kind, d \in Client : k # kind \/ d # c => rest[k][d] = net[k][d]
  BY <1>1 DEF Taken
<1>6. RemoveAt(net[kind][c], n) \in Seq(ControlMessage) \cup Seq(Chunk)
  BY <1>4 DEF MessagesOf
<1>7. rest \in [Kind -> [Client -> Seq(ControlMessage) \cup Seq(Chunk)]]
  BY <1>1, <1>6 DEF Taken
<1> HIDE DEF rest
<1>8. ASSUME NEW d \in Client
      PROVE  rest["control"][d] \in Seq(ControlMessage) /\ rest["data"][d] \in Seq(Chunk)
  <2>1. \A k \in Kind : rest[k][d] \in Seq(MessagesOf(k))
    BY <1>4, <1>5, ChannelType
  <2> QED
    BY <2>1 DEF Kind, MessagesOf
<1>9. IsNetwork(rest)
  BY <1>7, <1>8 DEF IsNetwork
<1> QED
  BY <1>3, <1>4, <1>5, <1>9 DEF rest

-----------------------------------------------------------------------------
(***************************************************************************)
(* The server's invariant in the terms of the system.                      *)
(***************************************************************************)
LEMMA ServerFacts ==
  ASSUME SP!IInv
  PROVE  /\ nextClientId \in Nat
         /\ clients \subseteq ClientId /\ \A i \in clients : i < nextClientId
         /\ lookup \in [Client -> ClientId \cup {NoId}]
         /\ reverseLookup \in [ClientId -> Client \cup {"none"}]
         /\ serverControl \in [ClientId -> Seq(ControlMessage)]
         /\ serverSends \in [ClientId -> Seq(Chunk)]
         /\ \A i \in clients : /\ reverseLookup[i] \in Client
                               /\ lookup[reverseLookup[i]] = i
         /\ \A c \in Client : lookup[c] # NoId => lookup[c] \in clients
         /\ told \subseteq ClientId /\ distributed \subseteq Chunk
         /\ distributedAll => distributed = Chunk
         /\ ~distributedAll =>
              \A i \in clients : Range(serverSends[i]) \subseteq beingDistributed
         /\ chunksToDistribute \in Seq(Chunk)
<1>1. SP!TypeOK /\ SP!LookupMatchesClients /\ SP!DistributionBooks
  BY DEF SP!IInv
<1>2. nextClientId \in Nat /\ clients \subseteq 0 .. (nextClientId - 1)
      /\ nextClientId <= MaxClientId + 1
  BY <1>1, MaxClientIdAssumption DEF SP!TypeOK
<1>3. clients \subseteq ClientId /\ \A i \in clients : i < nextClientId
  BY <1>2, MaxClientIdAssumption DEF ClientId
<1> QED
  BY <1>1, <1>2, <1>3, SameProtocol
  DEF SP!TypeOK, SP!LookupMatchesClients, SP!DistributionBooks

-----------------------------------------------------------------------------
(***************************************************************************)
(* Every step of the system is a step of the clients in their open         *)
(* environment, or leaves them alone.                                      *)
(***************************************************************************)
LEMMA ReadIsArrival ==
  ASSUME ClientTypeOK, IsNetwork(toClient), NEW c \in Client, NEW kind \in Kind, NEW n,
         ClientRead(c, kind, n)
  PROVE  [ClientNext]_clientVars
<1>1. n \in DOMAIN toClient[kind][c]
  BY DEF ClientRead, Takeable
<1>2. toClient[kind][c][n] \in MessagesOf(kind)
  BY <1>1, Taking
<1> DEFINE m == toClient[kind][c][n]
<1>3. CASE kind = "data"
  <2>1. m \in Chunk /\ ReceivedChunk(c, m)
    BY <1>2, <1>3 DEF ClientRead, MessagesOf
  <2> QED
    BY <2>1 DEF ClientNext, Arrival
<1>4. CASE kind = "control"
  <2>1. m \in ControlMessage /\ ReceivedControl(c, m)
    BY <1>2, <1>4 DEF ClientRead, MessagesOf
  <2> HIDE DEF m
  <2>2. m.client \in ClientId
    BY <2>1 DEF ControlMessage
  <2>3. CASE ReceivedOpen(c)
    BY <2>3 DEF ClientNext, Arrival
  <2>4. CASE Register(c, m.client) \/ RegisteredAlready(c)
    BY <2>2, <2>4 DEF ClientNext, Arrival
  <2>5. CASE ReceivedRequest(c, m.chunk)
    <3>1. CASE m.chunk \in Chunk
      BY <2>5, <3>1 DEF ClientNext, Arrival
    <3>2. CASE m.chunk \notin Chunk
      <4>1. ~CanAnswer(c, m.chunk)
        BY <3>2 DEF CanAnswer, ClientTypeOK
      <4> QED
        BY <2>5, <4>1 DEF ReceivedRequest, chunkVars, clientVars
    <3> QED
      BY <3>1, <3>2
  <2> QED
    BY <2>1, <2>3, <2>4, <2>5 DEF ReceivedControl
<1> QED
  BY <1>3, <1>4 DEF Kind

LEMMA StepOfClients ==
  ASSUME SystemInv, [Next]_vars
  PROVE  [ClientNext]_clientVars
<1>0. ClientTypeOK /\ IsNetwork(toClient)
  BY DEF SystemInv, ClientInv, NetTypeOK
<1>1. ASSUME NEW c \in Client, ClientStep(c) PROVE [ClientNext]_clientVars
  <2>1. CASE Join(c)
    BY <2>1 DEF Join
  <2>2. CASE ClientWriteControl(c) \/ ClientWriteChunk(c)
    BY <2>2 DEF ClientWriteControl, ClientWriteChunk, ClientNext, OwnStep
  <2>3. CASE \E kind \in Kind, n \in 1 .. MaxInFlight : ClientRead(c, kind, n)
    BY <1>0, <2>3, ReadIsArrival
  <2>4. CASE ClientTimer(c) \/ ClientTurn(c)
    BY <2>4 DEF ClientTimer, ClientTurn, ClientNext, OwnStep
  <2>5. CASE Leave(c) \/ LoseServer(c)
    BY <2>5 DEF Leave, LoseServer, ClientNext, Arrival
  <2> QED
    BY <1>1, <2>1, <2>2, <2>3, <2>4, <2>5 DEF ClientStep
<1>2. CASE ServerStep
  BY <1>2 DEF ServerStep, Accept, ServerRead, ServerWriteControl, ServerWriteChunk,
              ServerSeesEnd, ServerTurn
<1>3. CASE Loss
  BY <1>3 DEF Loss, LoseToServer, LoseToClient
<1>4. CASE UNCHANGED vars
  BY <1>4 DEF vars
<1> QED
  BY <1>1, <1>2, <1>3, <1>4 DEF Next

(***************************************************************************)
(* Every step of the system is a step of the server in its open            *)
(* environment, or leaves it alone: the environment of TrickleServer lets  *)
(* arrive what clients and network can bring about.                        *)
(***************************************************************************)
\* What the server reads from a client that may say it.
LEMMA ReadIsAllowed ==
  ASSUME SystemInv, NEW c \in Client, NEW kind \in Kind, NEW n,
         ServerRead(c, kind, n)
  PROVE  [S!Next]_S!serverVars
<1> DEFINE m == toServer[kind][c][n]
<1>0. SP!IInv /\ IsNetwork(toServer)
  BY DEF SystemInv, NetTypeOK
<1>1. n \in DOMAIN toServer[kind][c]
  BY DEF ServerRead, Takeable
<1>2. m \in MessagesOf(kind) /\ m \in Range(toServer[kind][c])
  BY <1>0, <1>1, Taking
<1>3. CASE kind = "data"
  <2>1. m \in Chunk /\ S!ReceivedChunk(m)
    BY <1>2, <1>3 DEF ServerRead, MessagesOf
  <2>2. m \in distributed
    BY <1>2, <1>3 DEF SystemInv, ChunksWereSent, ChunksAt
  <2> QED
    BY <2>1, <2>2 DEF S!Next, S!Arrival
<1>4. CASE kind = "control"
  <2>1. m \in ControlMessage /\ S!ReceivedControl(c, m)
    BY <1>2, <1>4 DEF ServerRead, MessagesOf
  <2>2. SaysWhatItMay(c, m)
    BY <1>2, <1>4 DEF SystemInv, SpeaksForItself, Unread
  <2>3. OnTCP("control") => lookup[c] \in clients
    BY <1>4 DEF ServerRead
  <2> HIDE DEF m
  <2>4. ASSUME m.msgtype # "REG"
        PROVE  m.client \in ClientId /\ S!MaySpeak(m.client)
    <3>1. registered[c] /\ m.client = clientId[c]
      BY <2>2, <2>4 DEF SaysWhatItMay
    <3>2. GivenTo(c, clientId[c])
      BY <3>1 DEF SystemInv, IdsAreGiven
    <3>3. m.client \in ClientId
      BY <2>1 DEF ControlMessage
    <3>4. NoId \notin clients
      BY <1>0, ServerFacts, MaxClientIdAssumption DEF NoId, ClientId
    <3> QED
      BY <2>3, <3>1, <3>2, <3>3, <3>4 DEF GivenTo, S!MaySpeak, OnTCP
  <2>5. CASE m.msgtype = "REQ" /\ S!ReceivedRequest(m.client, m.chunk)
    <3>1. registered[c] /\ m.client = clientId[c] /\ canRequest[c] /\ m.chunk \in Chunk
      BY <2>2, <2>5 DEF SaysWhatItMay
    <3>2. m.client \in told
      BY <3>1 DEF SystemInv, OpenWasTold, HasOpen
    <3>3. S!MaySpeak(m.client)
      BY <2>4, <2>5
    <3> QED
      BY <2>5, <3>1, <3>2, <3>3 DEF S!Next, S!Arrival
  <2>6. CASE m.msgtype = "OPEN" /\ (S!ReceivedOpen(m.client) \/ S!DropOpen)
    BY <2>4, <2>6, SameProtocol DEF S!Next, S!Arrival, S!DropOpen
  <2>7. CASE m.msgtype = "REG" /\ (S!ReceivedReg(c) \/ S!DropReg(c))
    BY <2>7 DEF S!Next, S!Arrival, S!DropReg
  <2> QED
    BY <2>1, <2>5, <2>6, <2>7 DEF S!ReceivedControl
<1> QED
  BY <1>3, <1>4 DEF Kind

LEMMA StepOfServer ==
  ASSUME SystemInv, [Next]_vars
  PROVE  [S!Next]_S!serverVars
<1> USE DEF S!serverVars, S!connectionVars, S!dealVars, S!sentVars, S!waitVars
<1>0. SP!IInv /\ clients \subseteq ClientId
  BY ServerFacts DEF SystemInv
<1>1. ASSUME UNCHANGED serverVars PROVE UNCHANGED S!serverVars
  BY <1>1 DEF serverVars
<1> HIDE DEF S!serverVars, S!connectionVars, S!dealVars, S!sentVars, S!waitVars
<1>2. ASSUME NEW c \in Client, ClientStep(c) PROVE UNCHANGED serverVars
  BY <1>2 DEF ClientStep, Join, ClientWriteControl, ClientWriteChunk, ClientRead,
              ClientTimer, ClientTurn, Leave, LoseServer
<1>3. CASE Loss
  BY <1>1, <1>3 DEF Loss, LoseToServer, LoseToClient
<1>4. CASE UNCHANGED vars
  BY <1>1, <1>4 DEF vars
<1>5. ASSUME NEW c \in Client, Accept(c) PROVE S!Next
  BY <1>5 DEF Accept, S!Next, S!Arrival
<1>6. ASSUME NEW i \in clients,
             ServerWriteControl(i) \/ ServerWriteChunk(i) \/ ServerSeesEnd(i)
      PROVE  S!Next
  BY <1>0, <1>6, SameProtocol
  DEF ServerWriteControl, ServerWriteChunk, ServerSeesEnd, S!Next
<1>7. CASE ServerTurn
  BY <1>7 DEF ServerTurn, S!Next
<1> QED
  BY <1>1, <1>2, <1>3, <1>4, <1>5, <1>6, <1>7, ReadIsAllowed DEF Next, ServerStep

-----------------------------------------------------------------------------
(***************************************************************************)
(* What a step of the system may change, variable by variable.             *)
(***************************************************************************)
\* Only reading a message changes what a client knows and holds.
LEMMA OnlyReadsTeach ==
  ASSUME [Next]_vars
  PROVE  \/ UNCHANGED <<registered, clientId, canRequest, chunks, recvChunkCache>>
         \/ \E c \in Client, kind \in Kind, n \in 1 .. MaxInFlight : ClientRead(c, kind, n)
<1> USE DEF chunkVars
<1>1. ASSUME NEW c \in Client, ClientStep(c),
             ~\E kind \in Kind, n \in 1 .. MaxInFlight : ClientRead(c, kind, n)
      PROVE  UNCHANGED <<registered, clientId, canRequest, chunks, recvChunkCache>>
  <2>1. CASE Join(c)
    BY <2>1 DEF Join, clientVars
  <2>2. CASE ClientWriteControl(c) \/ ClientWriteChunk(c)
    BY <2>2 DEF ClientWriteControl, ClientWriteChunk, WriteControl, WriteChunk
  <2>3. CASE ClientTimer(c)
    BY <2>3 DEF ClientTimer, PeriodicResend, AskRegistration, AskOpen, AskAgain,
                ExpireRequests
  <2>4. CASE ClientTurn(c)
    BY <2>4 DEF ClientTurn, RequestNext
  <2>5. CASE Leave(c) \/ LoseServer(c)
    BY <2>5 DEF Leave, LoseServer, Disconnected
  <2> QED
    BY <1>1, <2>1, <2>2, <2>3, <2>4, <2>5 DEF ClientStep
<1>2. CASE ServerStep \/ Loss \/ UNCHANGED vars
  BY <1>2 DEF ServerStep, Accept, ServerRead, ServerWriteControl, ServerWriteChunk,
              ServerSeesEnd, ServerTurn, Loss, LoseToServer, LoseToClient, vars, clientVars
<1> QED
  BY <1>1, <1>2 DEF Next

\* What a client reads is a message of the channel.
LEMMA MessageRead ==
  ASSUME IsNetwork(toClient), NEW c \in Client, NEW kind \in Kind, NEW n,
         ClientRead(c, kind, n)
  PROVE  \/ /\ kind = "control"
            /\ \E m \in ControlMessage : /\ m \in Range(toClient["control"][c])
                                        /\ ReceivedControl(c, m)
         \/ /\ kind = "data"
            /\ \E k \in Chunk : /\ k \in Range(toClient["data"][c])
                               /\ ReceivedChunk(c, k)
<1>1. n \in DOMAIN toClient[kind][c]
  BY DEF ClientRead, Takeable
<1>2. /\ toClient[kind][c][n] \in MessagesOf(kind)
      /\ toClient[kind][c][n] \in Range(toClient[kind][c])
  BY <1>1, Taking
<1>3. CASE kind = "control"
  BY <1>2, <1>3 DEF ClientRead, MessagesOf
<1>4. CASE kind = "data"
  BY <1>2, <1>4 DEF ClientRead, MessagesOf
<1> QED
  BY <1>3, <1>4 DEF Kind

\* What a client that is not registered takes for its id is what a REG said.
LEMMA IdentityChange ==
  ASSUME SystemInv, [Next]_vars, NEW c \in Client
  PROVE  \/ registered'[c] = registered[c] /\ clientId'[c] = clientId[c]
         \/ /\ ~registered[c]
            /\ \E m \in Range(toClient["control"][c]) :
                 m.msgtype = "REG" /\ clientId'[c] = m.client
<1>0. /\ registered \in [Client -> BOOLEAN] /\ IsNetwork(toClient)
      /\ clientId \in [Client -> ClientId \cup {NoId}]
  BY DEF SystemInv, ClientInv, ClientTypeOK, NetTypeOK
<1>1. ASSUME NEW d \in Client, NEW k, ReceivedChunk(d, k)
      PROVE  UNCHANGED <<registered, clientId>>
  BY <1>1 DEF ReceivedChunk, CacheEarlyChunk, StoreChunk
<1>2. ASSUME NEW d \in Client, NEW m, ReceivedControl(d, m)
      PROVE  \/ UNCHANGED <<registered, clientId>>
             \/ /\ m.msgtype = "REG" /\ ~registered[d]
                /\ registered' = [registered EXCEPT ![d] = TRUE]
                /\ clientId' = [clientId EXCEPT ![d] = m.client]
  BY <1>2 DEF ReceivedControl, ReceivedOpen, Register, RegisteredAlready,
              ReceivedRequest, clientVars
<1> QED
  BY <1>0, <1>1, <1>2, OnlyReadsTeach, MessageRead

\* A client may request once an OPEN has come, and for good.
LEMMA OpenChange ==
  ASSUME SystemInv, [Next]_vars, NEW c \in Client
  PROVE  /\ canRequest[c] => canRequest'[c]
         /\ canRequest'[c] => HasOpen(c)
<1>0. canRequest \in [Client -> BOOLEAN] /\ IsNetwork(toClient)
  BY DEF SystemInv, ClientInv, ClientTypeOK, NetTypeOK
<1>1. ASSUME NEW d \in Client, NEW k, ReceivedChunk(d, k)
      PROVE  UNCHANGED canRequest
  BY <1>1 DEF ReceivedChunk, CacheEarlyChunk, StoreChunk
<1>2. ASSUME NEW d \in Client, NEW m, ReceivedControl(d, m)
      PROVE  \/ UNCHANGED canRequest
             \/ /\ m.msgtype = "OPEN"
                /\ canRequest' = [canRequest EXCEPT ![d] = TRUE]
  BY <1>2 DEF ReceivedControl, ReceivedOpen, Register, RegisteredAlready,
              ReceivedRequest, clientVars
<1>3. \/ UNCHANGED canRequest
      \/ \E d \in Client : \E m \in Range(toClient["control"][d]) :
           m.msgtype = "OPEN" /\ canRequest' = [canRequest EXCEPT ![d] = TRUE]
  BY <1>0, <1>1, <1>2, OnlyReadsTeach, MessageRead
<1> QED
  BY <1>0, <1>3 DEF HasOpen

\* How a connection and its client go on.
LEMMA ConnectionChange ==
  ASSUME SystemInv, [Next]_vars, NEW c \in Client
  PROVE  /\ \/ conn'[c] = conn[c]
            \/ conn[c] = "new" /\ conn'[c] = "backlog"
            \/ conn[c] = "backlog" /\ conn'[c] = "ended" /\ ~running'[c]
            \/ conn[c] = "open" /\ conn'[c] = "closed" /\ ~running'[c]
            \/ conn[c] = "backlog" /\ conn'[c] = "open"
            \/ conn[c] = "ended" /\ conn'[c] = "closed"
         /\ running'[c] => running[c]
<1>0. /\ running \in [Client -> BOOLEAN]
      /\ conn \in [Client -> {"new", "backlog", "open", "ended", "closed"}]
  BY DEF SystemInv, ClientInv, ClientTypeOK, NetTypeOK
<1>1. ASSUME NEW d \in Client, ClientStep(d)
      PROVE  \/ UNCHANGED <<conn, running>>
             \/ /\ conn[d] = "new" /\ conn' = [conn EXCEPT ![d] = "backlog"]
                /\ running' = running
             \/ /\ Connected(d) /\ conn' = [conn EXCEPT ![d] = AfterEnd(@)]
                /\ running' = [running EXCEPT ![d] = FALSE]
  <2>1. CASE Join(d)
    BY <2>1 DEF Join, clientVars
  <2>2. CASE ClientWriteControl(d) \/ ClientWriteChunk(d)
    BY <2>2 DEF ClientWriteControl, ClientWriteChunk, WriteControl, WriteChunk
  <2>3. ASSUME NEW kind \in Kind, NEW n, ClientRead(d, kind, n)
        PROVE  UNCHANGED <<conn, running>>
    BY <2>3 DEF ClientRead, ReceivedControl, ReceivedChunk, CacheEarlyChunk, StoreChunk,
                ReceivedOpen, Register, RegisteredAlready, ReceivedRequest, clientVars
  <2>4. CASE ClientTimer(d)
    BY <2>4 DEF ClientTimer, PeriodicResend, AskRegistration, AskOpen, AskAgain,
                ExpireRequests
  <2>5. CASE ClientTurn(d)
    BY <2>5 DEF ClientTurn, RequestNext, netVars
  <2>6. CASE Leave(d) \/ LoseServer(d)
    BY <2>6 DEF Leave, LoseServer, Disconnected
  <2> QED
    BY <1>1, <2>1, <2>2, <2>3, <2>4, <2>5, <2>6 DEF ClientStep
<1>2. CASE Loss \/ UNCHANGED vars
  BY <1>2 DEF Loss, LoseToServer, LoseToClient, vars, clientVars, netVars
<1>3. ASSUME ServerStep
      PROVE  /\ running' = running
             /\ \/ conn' = conn
                \/ \E d \in Client : /\ conn[d] \in {"backlog", "ended"}
                                     /\ conn' = [conn EXCEPT ![d] = Accepted(@)]
  BY <1>3 DEF ServerStep, Accept, ServerRead, ServerWriteControl, ServerWriteChunk,
              ServerSeesEnd, ServerTurn, clientVars, netVars
<1> QED
  BY <1>0, <1>1, <1>2, <1>3 DEF Next, Connected, AfterEnd, Accepted

\* The server counts its ids up and forgets neither whom it told OPEN nor
\* which chunks it sent.
LEMMA ServerGrows ==
  ASSUME SystemInv, [Next]_vars
  PROVE  /\ nextClientId' >= nextClientId
         /\ told \subseteq told' /\ distributed \subseteq distributed'
<1> USE DEF S!connectionVars, S!sentVars
<1>0. nextClientId \in Nat /\ [S!Next]_S!serverVars
  BY ServerFacts, StepOfServer DEF SystemInv
<1>1. ASSUME NEW c, S!AcceptNewClient(c)
      PROVE  /\ nextClientId' \in {nextClientId, nextClientId + 1}
             /\ UNCHANGED <<told, distributed>>
  BY <1>1 DEF S!AcceptNewClient, S!Crash, S!Connect
<1>2. ASSUME NEW i, S!ReceivedOpen(i) \/ S!ReceivedReg(i)
      PROVE  UNCHANGED <<nextClientId, told, distributed>>
  BY <1>2 DEF S!ReceivedOpen, S!ReceivedReg, S!SendControl, S!Crash
<1>3. ASSUME NEW i, NEW k, S!ReceivedRequest(i, k)
      PROVE  UNCHANGED <<nextClientId, told, distributed>>
  BY <1>3 DEF S!ReceivedRequest, S!AnswerFromCache, S!JoinWaiters, S!ForwardToClients,
              S!Crash
<1>4. ASSUME NEW k, S!ReceivedChunk(k)
      PROVE  UNCHANGED <<nextClientId, told, distributed>>
  BY <1>4 DEF S!ReceivedChunk, S!Crash
<1>5. ASSUME NEW i, S!ClientDisconnected(i) \/ S!WriteControl(i)
      PROVE  /\ UNCHANGED <<nextClientId, distributed>> /\ told \subseteq told'
  BY <1>5 DEF S!ClientDisconnected, S!WriteControl
<1>6. ASSUME NEW i, S!WriteChunk(i)
      PROVE  UNCHANGED <<nextClientId, told>> /\ distributed \subseteq distributed'
  BY <1>6 DEF S!WriteChunk, S!EndWait, S!CountDistributed
<1>7. CASE S!OpenRequests \/ UNCHANGED S!serverVars
  BY <1>0, <1>7 DEF S!OpenRequests, S!serverVars
<1> QED
  BY <1>0, <1>1, <1>2, <1>3, <1>4, <1>5, <1>6, <1>7 DEF S!Next, S!Arrival

\* The server learns the address of a client when it accepts it and forgets it
\* when it sees the end of its connection.
LEMMA AddressChange ==
  ASSUME SystemInv, [Next]_vars, NEW c \in Client
  PROVE  \/ lookup'[c] = lookup[c]
         \/ conn[c] \in {"backlog", "ended"} /\ conn'[c] \in {"open", "closed"}
         \/ conn[c] = "closed" /\ conn'[c] = "closed" /\ lookup'[c] = NoId
<1> USE DEF S!connectionVars
<1>0. /\ lookup \in [Client -> ClientId \cup {NoId}]
      /\ conn \in [Client -> {"new", "backlog", "open", "ended", "closed"}]
      /\ clients \subseteq ClientId
  BY ServerFacts DEF SystemInv, NetTypeOK
<1>1. ASSUME NEW d \in Client, Accept(d)
      PROVE  \/ lookup'[c] = lookup[c]
             \/ conn[c] \in {"backlog", "ended"} /\ conn'[c] \in {"open", "closed"}
  <2>1. \A e \in Client : e # d => lookup'[e] = lookup[e]
    BY <1>0, <1>1 DEF Accept, S!AcceptNewClient, S!Crash, S!Connect
  <2>2. conn[d] \in {"backlog", "ended"} /\ conn'[d] \in {"open", "closed"}
    BY <1>0, <1>1 DEF Accept, Accepted
  <2> QED
    BY <2>1, <2>2
<1>2. ASSUME NEW i \in clients, ServerSeesEnd(i)
      PROVE  \/ lookup'[c] = lookup[c]
             \/ conn[c] = "closed" /\ conn'[c] = "closed" /\ lookup'[c] = NoId
  <2>1. /\ conn[reverseLookup[i]] = "closed" /\ conn' = conn
        /\ lookup' = [lookup EXCEPT ![reverseLookup[i]] = NoId]
    BY <1>2, SameProtocol
    DEF ServerSeesEnd, netVars, S!ClientDisconnected, S!AddressErased
  <2> QED
    BY <1>0, <2>1
<1>3. ASSUME NEW d, NEW kind \in Kind, NEW n, ServerRead(d, kind, n)
      PROVE  lookup' = lookup
  <2>1. ASSUME NEW m, S!ReceivedControl(d, m) PROVE lookup' = lookup
    BY <2>1 DEF S!ReceivedControl, S!ReceivedRequest, S!AnswerFromCache, S!JoinWaiters,
                S!ForwardToClients, S!ReceivedOpen, S!ReceivedReg, S!SendControl,
                S!DropOpen, S!DropReg, S!Crash, S!serverVars
  <2>2. ASSUME NEW k, S!ReceivedChunk(k) PROVE lookup' = lookup
    BY <2>2 DEF S!ReceivedChunk, S!Crash
  <2> QED
    BY <1>3, <2>1, <2>2 DEF ServerRead
<1>4. ASSUME NEW i \in clients, ServerWriteControl(i) \/ ServerWriteChunk(i)
      PROVE  lookup' = lookup
  BY <1>4 DEF ServerWriteControl, ServerWriteChunk, S!WriteControl, S!WriteChunk
<1>5. CASE ServerTurn
  BY <1>5 DEF ServerTurn, S!OpenRequests
<1>6. CASE (\E d \in Client : ClientStep(d)) \/ Loss \/ UNCHANGED vars
  BY <1>6 DEF ClientStep, Join, ClientWriteControl, ClientWriteChunk, ClientRead,
              ClientTimer, ClientTurn, Leave, LoseServer, Loss, LoseToServer,
              LoseToClient, vars, serverVars
<1> QED
  BY <1>1, <1>2, <1>3, <1>4, <1>5, <1>6 DEF Next, ServerStep

LEMMA CopiesCounted ==
  ASSUME NEW p, NEW k PROVE S!Copies(p, k) \in Nat
<1> DEFINE R == {r \in S!Rounds(k) : p <= S!Cardinality(clients) \div 2^r}
<1>1. IsFiniteSet(0 .. 9)
  <2>1. 0 \in Int /\ 9 \in Int
    OBVIOUS
  <2> QED
    BY <2>1, FS_Interval
<1>2. R \subseteq 0 .. 9
  BY DEF S!Rounds
<1>3. Cardinality(R) \in Nat
  BY <1>1, <1>2, FS_Subset, FS_CardinalityType
<1> HIDE DEF R
<1>4. S!Cardinality(R) = Cardinality(R)
  BY DEF S!Cardinality, Cardinality
<1> QED
  BY <1>3, <1>4 DEF S!Copies, R

\* What is in the buffer of a client on the server: a REG in it names the client.
LEMMA RegsKeepOwner ==
  ASSUME SystemInv, [Next]_vars
  PROVE  RegsNameOwner'
<1> USE DEF S!connectionVars
<1> DEFINE Own(i, m) == m.msgtype = "REG" => m.client = i
<1>0. /\ serverControl \in [ClientId -> Seq(ControlMessage)]
      /\ \A i \in ClientId : \A m \in Range(serverControl[i]) : Own(i, m)
      /\ clients \subseteq ClientId /\ nextClientId \in Nat
      /\ SP!IInv /\ SP!TypeOK /\ [S!Next]_S!serverVars
  BY ServerFacts, StepOfServer DEF SystemInv, RegsNameOwner, SP!IInv
<1>1. SUFFICES ASSUME NEW i \in ClientId, NEW m \in Range(serverControl'[i])
               PROVE  Own(i, m)
  BY DEF RegsNameOwner
<1>2. ASSUME serverControl'[i] = serverControl[i] PROVE Own(i, m)
  BY <1>0, <1>2
<1>3. ASSUME NEW e \in ControlMessage, Own(i, e),
             serverControl'[i] = Append(serverControl[i], e)
      PROVE  Own(i, m)
  <2>1. Range(serverControl'[i]) = Range(serverControl[i]) \cup {e}
    BY <1>0, <1>3, BufferRange
  <2> QED
    BY <1>0, <1>3, <2>1
<1>4. /\ \A j \in ClientId : Reg(j, NumChunks) \in ControlMessage
      /\ Open(0) \in ControlMessage /\ Open(0).msgtype = "OPEN"
      /\ \A j : Reg(j, NumChunks).client = j
  BY NumChunksAssumption, MaxClientIdAssumption
  DEF Reg, Open, ControlMessage, ClientId
<1>5. ASSUME NEW c, S!AcceptNewClient(c) PROVE Own(i, m)
  <2>1. CASE serverControl' = serverControl
    BY <1>2, <2>1
  <2>2. CASE /\ serverControl' = [serverControl EXCEPT ![nextClientId] = S!Greeting(nextClientId)]
             /\ nextClientId = i
    <3>1. serverControl'[i] = S!Greeting(i)
      BY <1>0, <2>2
    <3>2. \/ serverControl'[i] = <<Reg(i, NumChunks), Open(0)>>
          \/ serverControl'[i] = <<Reg(i, NumChunks)>>
      BY <3>1, SameProtocol DEF S!Greeting
    <3>3. m \in {Reg(i, NumChunks), Open(0)}
      BY <3>2 DEF Range
    <3> QED
      BY <1>4, <3>3
  <2>3. CASE /\ serverControl' = [serverControl EXCEPT ![nextClientId] = S!Greeting(nextClientId)]
             /\ nextClientId # i
    BY <1>0, <1>2, <2>3
  <2> QED
    BY <1>5, <2>1, <2>2, <2>3 DEF S!AcceptNewClient, S!Crash
<1>6. ASSUME NEW j, NEW e, S!SendControl(j, e), e \in ControlMessage, Own(j, e)
      PROVE  Own(i, m)
  <2>1. serverControl' = [serverControl EXCEPT ![j] = Append(@, e)]
    BY <1>6 DEF S!SendControl, S!Pushed
  <2> QED
    BY <1>0, <1>2, <1>3, <1>6, <2>1
<1>7. ASSUME NEW j, S!ReceivedOpen(j) \/ S!ReceivedReg(j) PROVE Own(i, m)
  <2>1. CASE S!Crash
    BY <1>2, <2>1 DEF S!Crash
  <2>2. CASE S!SendControl(j, Open(0))
    BY <1>4, <1>6, <2>2
  <2>3. CASE /\ S!SendControl(lookup[j], Reg(lookup[j], NumChunks))
             /\ lookup[j] \in clients
    BY <1>0, <1>4, <1>6, <2>3
  <2> QED
    BY <1>7, <2>1, <2>2, <2>3, SameProtocol DEF S!ReceivedOpen, S!ReceivedReg
<1>8. ASSUME NEW j \in ClientId, NEW k \in Chunk, S!ReceivedRequest(j, k)
      PROVE  Own(i, m)
  <2>1. CASE S!AnswerFromCache(j, k) \/ S!JoinWaiters(j, k)
    BY <1>2, <2>1 DEF S!AnswerFromCache, S!JoinWaiters, S!Crash
  <2>2. CASE S!ForwardToClients(j, k)
    <3>1. PICK order : serverControl' = S!Forwarded(j, k, order)
      BY <2>2 DEF S!ForwardToClients
    <3>2. CASE i \notin clients
      BY <1>2, <3>1, <3>2, SameProtocol DEF S!Forwarded
    <3>3. CASE i \in clients
      <4> DEFINE copies == [x \in 1 .. S!Copies(order[i], k) |-> Req(j, k)]
      <4>1. serverControl'[i] = serverControl[i] \o copies
        BY <3>1, <3>3, SameProtocol DEF S!Forwarded
      <4>2. S!Copies(order[i], k) \in Nat
        BY CopiesCounted
      <4>3. copies \in Seq(ControlMessage) /\ Range(copies) \subseteq {Req(j, k)}
        <5>1. Req(j, k) \in ControlMessage
          BY MessageTypes
        <5> QED
          BY <4>2, <5>1 DEF Range
      <4>4. Range(serverControl'[i]) = Range(serverControl[i]) \cup Range(copies)
        BY <1>0, <4>1, <4>3, ConcatRange
      <4>5. Own(i, Req(j, k))
        BY DEF Req
      <4> QED
        BY <1>0, <4>3, <4>4, <4>5
    <3> QED
      BY <3>2, <3>3
  <2> QED
    BY <1>8, <2>1, <2>2 DEF S!ReceivedRequest
<1>9. ASSUME NEW k, S!ReceivedChunk(k) PROVE Own(i, m)
  BY <1>2, <1>9 DEF S!ReceivedChunk, S!Crash
<1>10. ASSUME NEW j \in ClientId, S!ClientDisconnected(j) PROVE Own(i, m)
  <2>1. CASE i = j
    <3>1. serverControl'[i] = << >>
      BY <1>0, <1>10, <2>1 DEF S!ClientDisconnected
    <3> QED
      BY <3>1 DEF Range
  <2>2. CASE i # j
    BY <1>0, <1>2, <1>10, <2>2 DEF S!ClientDisconnected
  <2> QED
    BY <2>1, <2>2
<1>11. ASSUME NEW j \in ClientId, S!WriteChunk(j) PROVE Own(i, m)
  BY <1>2, <1>11 DEF S!WriteChunk
<1>12. ASSUME NEW j \in ClientId, S!WriteControl(j) PROVE Own(i, m)
  <2>1. CASE i = j
    <3>1. serverControl[i] # << >> /\ serverControl'[i] = Tail(serverControl[i])
      BY <1>0, <1>12, <2>1 DEF S!WriteControl, S!Popped
    <3>2. Range(serverControl'[i]) \subseteq Range(serverControl[i])
      BY <1>0, <3>1, BufferRange
    <3> QED
      BY <1>0, <3>2
  <2>2. CASE i # j
    BY <1>0, <1>2, <1>12, <2>2 DEF S!WriteControl, S!Popped
  <2> QED
    BY <2>1, <2>2
<1>13. CASE S!OpenRequests
  <2>1. CASE i \in clients
    <3>1. serverControl'[i] = Append(serverControl[i], Open(0))
      BY <1>13, <2>1, SameProtocol DEF S!OpenRequests
    <3> QED
      BY <1>3, <1>4, <3>1
  <2>2. CASE i \notin clients
    BY <1>2, <1>13, <2>2, SameProtocol DEF S!OpenRequests
  <2> QED
    BY <2>1, <2>2
<1>14. CASE UNCHANGED S!serverVars
  BY <1>2, <1>14 DEF S!serverVars
<1>15. told \subseteq ClientId
  BY <1>0, ServerFacts
<1> HIDE DEF Own
<1> QED
  BY <1>0, <1>5, <1>7, <1>8, <1>9, <1>10, <1>11, <1>12, <1>13, <1>14, <1>15, SameProtocol
  DEF S!Next, S!Arrival

\* The buffers of a client and of the server a message is taken from.
LEMMA BufferHeads ==
  ASSUME SystemInv
  PROVE  /\ \A c \in Client :
              /\ controlMsgBuffer[c] # << >> =>
                   /\ Head(controlMsgBuffer[c]) \in ControlMessage
                   /\ Head(controlMsgBuffer[c]) \in Range(controlMsgBuffer[c])
              /\ chunkBuffer[c] # << >> =>
                   /\ Head(chunkBuffer[c]) \in Chunk
                   /\ Head(chunkBuffer[c]) \in Range(chunkBuffer[c])
         /\ \A i \in clients :
              /\ serverControl[i] # << >> =>
                   /\ Head(serverControl[i]) \in ControlMessage
                   /\ Head(serverControl[i]) \in Range(serverControl[i])
              /\ serverSends[i] # << >> =>
                   /\ Head(serverSends[i]) \in Chunk
                   /\ Head(serverSends[i]) \in Range(serverSends[i])
<1>1. \A c \in Client : /\ controlMsgBuffer[c] \in Seq(ControlMessage)
                        /\ chunkBuffer[c] \in Seq(Chunk)
  BY DEF SystemInv, ClientInv, ClientTypeOK
<1>2. \A i \in clients : /\ serverControl[i] \in Seq(ControlMessage)
                         /\ serverSends[i] \in Seq(Chunk)
  BY ServerFacts DEF SystemInv
<1> QED
  BY <1>1, <1>2, BufferRange

\* What is on its way to the server comes from the buffers of the clients.
LEMMA ToServerChange ==
  ASSUME SystemInv, [Next]_vars
  PROVE  /\ IsNetwork(toServer')
         /\ \A c \in Client :
              /\ Range(toServer'["control"][c])
                   \subseteq Range(toServer["control"][c]) \cup Range(controlMsgBuffer[c])
              /\ Range(toServer'["data"][c])
                   \subseteq Range(toServer["data"][c]) \cup Range(chunkBuffer[c])
<1>0. IsNetwork(toServer) /\ "control" \in Kind /\ "data" \in Kind /\ "control" # "data"
  BY DEF SystemInv, NetTypeOK, Kind
<1> DEFINE Result ==
      /\ IsNetwork(toServer')
      /\ \A c \in Client :
           /\ Range(toServer'["control"][c])
                \subseteq Range(toServer["control"][c]) \cup Range(controlMsgBuffer[c])
           /\ Range(toServer'["data"][c])
                \subseteq Range(toServer["data"][c]) \cup Range(chunkBuffer[c])
<1>1. CASE toServer' = toServer
  BY <1>0, <1>1
<1>2. ASSUME NEW c \in Client, ClientWriteControl(c) PROVE Result
  <2> DEFINE m == Head(controlMsgBuffer[c])
  <2>1. m \in ControlMessage /\ m \in Range(controlMsgBuffer[c])
    BY <1>2, BufferHeads DEF ClientWriteControl, WriteControl
  <2>2. toServer' = Sent(toServer, "control", c, m) /\ m \in MessagesOf("control")
    BY <1>2, <2>1 DEF ClientWriteControl, MessagesOf
  <2> HIDE DEF m
  <2> QED
    BY <1>0, <2>1, <2>2, Sending
<1>3. ASSUME NEW c \in Client, ClientWriteChunk(c) PROVE Result
  <2> DEFINE k == Head(chunkBuffer[c])
  <2>1. k \in Chunk /\ k \in Range(chunkBuffer[c])
    BY <1>3, BufferHeads DEF ClientWriteChunk, WriteChunk
  <2>2. toServer' = Sent(toServer, "data", c, k) /\ k \in MessagesOf("data")
    BY <1>3, <2>1 DEF ClientWriteChunk, MessagesOf
  <2> HIDE DEF k
  <2> QED
    BY <1>0, <2>1, <2>2, Sending
<1>4. ASSUME NEW c \in Client, NEW kind \in Kind, NEW n \in DOMAIN toServer[kind][c],
             toServer' = Taken(toServer, kind, c, n)
      PROVE  Result
  <2>1. IsNetwork(toServer') /\ Range(toServer'[kind][c]) \subseteq Range(toServer[kind][c])
    BY <1>0, <1>4, Taking
  <2>2. \A k \in Kind, d \in Client : k # kind \/ d # c => toServer'[k][d] = toServer[k][d]
    BY <1>0, <1>4, Taking
  <2>3. \A k \in Kind, d \in Client : Range(toServer'[k][d]) \subseteq Range(toServer[k][d])
    BY <2>1, <2>2
  <2> QED
    BY <1>0, <2>1, <2>3
<1>5. ASSUME NEW c \in Client, NEW kind \in Kind, NEW n, ServerRead(c, kind, n)
      PROVE  Result
  BY <1>4, <1>5 DEF ServerRead, Takeable
<1>6. ASSUME NEW c \in Client, NEW kind \in Kind, LoseToServer(kind, c)
      PROVE  Result
  BY <1>4, <1>6 DEF LoseToServer
<1>7. CASE UNCHANGED vars
  BY <1>1, <1>7 DEF vars, netVars
<1>8. ASSUME NEW c \in Client, ClientStep(c) PROVE Result
  BY <1>1, <1>2, <1>3, <1>8
  DEF ClientStep, Join, ClientRead, ClientTimer, ClientTurn, netVars, Leave, LoseServer
<1>9. CASE ServerStep
  BY <1>1, <1>5, <1>9 DEF ServerStep, Accept, ServerWriteControl, ServerWriteChunk,
                          ServerSeesEnd, ServerTurn, netVars
<1>10. CASE Loss
  BY <1>1, <1>6, <1>10 DEF Loss, LoseToClient
<1> QED
  BY <1>7, <1>8, <1>9, <1>10 DEF Next

\* What is on its way to a client comes from the client's buffers on the
\* server: a control message from the id by which the server knows the client,
\* a chunk only if it is counted as sent from now on.
SentBy(i, c, m) ==
  /\ i \in clients /\ reverseLookup[i] = c /\ m \in Range(serverControl[i])
  /\ m.msgtype = "OPEN" => i \in told'
  /\ UNCHANGED <<conn, lookup, registered, clientId>>

LEMMA ToClientChange ==
  ASSUME SystemInv, [Next]_vars
  PROVE  /\ IsNetwork(toClient')
         /\ \A c \in Client :
              /\ \A m \in Range(toClient'["control"][c]) :
                   m \in Range(toClient["control"][c]) \/ \E i \in ClientId : SentBy(i, c, m)
              /\ Range(toClient'["data"][c])
                   \subseteq Range(toClient["data"][c]) \cup distributed'
<1>0. /\ IsNetwork(toClient) /\ "control" \in Kind /\ "data" \in Kind
      /\ "control" # "data" /\ SP!IInv /\ clients \subseteq ClientId
      /\ \A i \in clients : reverseLookup[i] \in Client
  BY ServerFacts DEF SystemInv, NetTypeOK, Kind
<1> DEFINE Result ==
      /\ IsNetwork(toClient')
      /\ \A c \in Client :
           /\ \A m \in Range(toClient'["control"][c]) :
                m \in Range(toClient["control"][c]) \/ \E i \in ClientId : SentBy(i, c, m)
           /\ Range(toClient'["data"][c])
                \subseteq Range(toClient["data"][c]) \cup distributed'
<1>1. CASE toClient' = toClient
  BY <1>0, <1>1
<1>2. ASSUME NEW c \in Client, NEW m \in ControlMessage, \E i \in ClientId : SentBy(i, c, m),
              toClient' = Sent(toClient, "control", c, m)
       PROVE  Result
  <2>1. m \in MessagesOf("control")
    BY DEF MessagesOf
  <2>2. /\ IsNetwork(toClient')
        /\ Range(toClient'["control"][c]) = Range(toClient["control"][c]) \cup {m}
        /\ \A k \in Kind, d \in Client : k # "control" \/ d # c =>
             toClient'[k][d] = toClient[k][d]
    BY <1>0, <1>2, <2>1, Sending
  <2> QED
    BY <1>0, <1>2, <2>2
<1>3. ASSUME NEW c \in Client, NEW k \in Chunk, k \in distributed',
              toClient' = Sent(toClient, "data", c, k)
       PROVE  Result
  <2>1. k \in MessagesOf("data")
    BY DEF MessagesOf
  <2>2. /\ IsNetwork(toClient')
        /\ Range(toClient'["data"][c]) = Range(toClient["data"][c]) \cup {k}
        /\ \A e \in Kind, d \in Client : e # "data" \/ d # c =>
             toClient'[e][d] = toClient[e][d]
    BY <1>0, <1>3, <2>1, Sending
  <2> QED
    BY <1>0, <1>3, <2>2
<1>4. ASSUME NEW i \in clients, ServerWriteControl(i) PROVE Result
  <2> DEFINE m == Head(serverControl[i])
             c == reverseLookup[i]
  <2>1. m \in ControlMessage /\ m \in Range(serverControl[i])
    BY <1>4, BufferHeads DEF ServerWriteControl, S!WriteControl
  <2>2. SentBy(i, c, m)
    BY <1>4, <2>1 DEF ServerWriteControl, S!WriteControl, S!connectionVars, SentBy,
                      clientVars
  <2>3. toClient' = toClient \/ toClient' = Sent(toClient, "control", c, m)
    BY <1>4 DEF ServerWriteControl, ServerSent
  <2>4. m \in ControlMessage /\ c \in Client /\ i \in ClientId
    BY <1>0, <2>1
  <2> HIDE DEF m, c
  <2> QED
    BY <1>1, <1>2, <2>2, <2>3, <2>4
<1>5. ASSUME NEW i \in clients, ServerWriteChunk(i) PROVE Result
  <2> DEFINE k == Head(serverSends[i])
             c == reverseLookup[i]
  <2>1. k \in Chunk /\ k \in Range(serverSends[i])
    BY <1>5, BufferHeads DEF ServerWriteChunk, S!WriteChunk
  <2>2. k \in distributed'
    <3>1. CASE distributedAll
      <4>1. distributed = Chunk /\ distributed' = distributed
        BY <1>0, <1>5, <3>1, ServerFacts
        DEF ServerWriteChunk, S!WriteChunk, S!EndWait, S!sentVars
      <4> QED
        BY <2>1, <4>1
    <3>2. CASE ~distributedAll
      <4>1. k \in beingDistributed
        BY <1>0, <2>1, <3>2, ServerFacts
      <4> QED
        BY <1>5, <3>2, <4>1 DEF ServerWriteChunk, S!WriteChunk, S!CountDistributed
    <3> QED
      BY <3>1, <3>2
  <2>3. toClient' = toClient \/ toClient' = Sent(toClient, "data", c, k)
    BY <1>5 DEF ServerWriteChunk, ServerSent
  <2>4. k \in Chunk /\ c \in Client
    BY <1>0, <2>1
  <2> HIDE DEF k, c
  <2> QED
    BY <1>1, <1>3, <2>2, <2>3, <2>4
<1>6. ASSUME NEW c \in Client, NEW kind \in Kind, NEW n \in DOMAIN toClient[kind][c],
             toClient' = Taken(toClient, kind, c, n)
      PROVE  Result
  <2>1. IsNetwork(toClient') /\ Range(toClient'[kind][c]) \subseteq Range(toClient[kind][c])
    BY <1>0, <1>6, Taking
  <2>2. \A k \in Kind, d \in Client : k # kind \/ d # c => toClient'[k][d] = toClient[k][d]
    BY <1>0, <1>6, Taking
  <2>3. \A k \in Kind, d \in Client : Range(toClient'[k][d]) \subseteq Range(toClient[k][d])
    BY <2>1, <2>2
  <2> QED
    BY <1>0, <2>1, <2>3
<1>7. ASSUME NEW c \in Client, NEW kind \in Kind, NEW n, ClientRead(c, kind, n)
      PROVE  Result
  BY <1>6, <1>7 DEF ClientRead, Takeable
<1>8. ASSUME NEW c \in Client, NEW kind \in Kind, LoseToClient(kind, c)
      PROVE  Result
  BY <1>6, <1>8 DEF LoseToClient
<1>9. CASE UNCHANGED vars
  BY <1>1, <1>9 DEF vars, netVars
<1>10. ASSUME NEW c \in Client, ClientStep(c) PROVE Result
  BY <1>1, <1>7, <1>10
  DEF ClientStep, Join, ClientWriteControl, ClientWriteChunk, ClientTimer, ClientTurn,
      netVars, Leave, LoseServer
<1>11. CASE ServerStep
  BY <1>1, <1>4, <1>5, <1>11
  DEF ServerStep, Accept, ServerRead, ServerSeesEnd, ServerTurn, netVars
<1>12. CASE Loss
  BY <1>1, <1>8, <1>12 DEF Loss, LoseToServer
<1> QED
  BY <1>9, <1>10, <1>11, <1>12 DEF Next

\* What a client puts into its control buffer it may say.
LEMMA SaidChange ==
  ASSUME SystemInv, [Next]_vars, NEW c \in Client, NEW m \in Unread(c)'
  PROVE  m \in Unread(c) \/ SaysWhatItMay(c, m)'
<1>0. /\ ClientTypeOK
      /\ \A d \in Client : controlMsgBuffer[d] \in Seq(ControlMessage)
  BY DEF SystemInv, ClientInv, ClientTypeOK
<1>1. CASE m \in Range(toServer'["control"][c])
  BY <1>1, ToServerChange DEF Unread
<1>2. ASSUME controlMsgBuffer'[c] = controlMsgBuffer[c], m \in Range(controlMsgBuffer'[c])
      PROVE  m \in Unread(c)
  BY <1>2 DEF Unread
<1>3. ASSUME NEW e \in ControlMessage, m \in Range(controlMsgBuffer'[c]),
             controlMsgBuffer'[c] = Append(controlMsgBuffer[c], e)
      PROVE  m \in Unread(c) \/ m = e
  <2>1. Range(controlMsgBuffer'[c]) = Range(controlMsgBuffer[c]) \cup {e}
    BY <1>0, <1>3, BufferRange
  <2> QED
    BY <1>3, <2>1 DEF Unread
<1> DEFINE Result == m \in Range(controlMsgBuffer'[c]) =>
                       m \in Unread(c) \/ SaysWhatItMay(c, m)'
<1>4. ASSUME NEW d \in Client, ClientWriteControl(d) PROVE Result
  <2>1. CASE d = c
    <3>1. controlMsgBuffer[c] # << >> /\ controlMsgBuffer'[c] = Tail(controlMsgBuffer[c])
      BY <1>0, <1>4, <2>1 DEF ClientWriteControl, WriteControl, Popped, ClientTypeOK
    <3>2. Range(controlMsgBuffer'[c]) \subseteq Range(controlMsgBuffer[c])
      BY <1>0, <3>1, BufferRange
    <3> QED
      BY <3>2 DEF Unread
  <2>2. CASE d # c
    BY <1>0, <1>2, <1>4, <2>2 DEF ClientWriteControl, WriteControl, Popped, ClientTypeOK
  <2> QED
    BY <2>1, <2>2
<1>5. ASSUME NEW d \in Client, NEW e \in ControlMessage, AskAgain(d, e),
             d = c => SaysWhatItMay(c, e)'
      PROVE  Result
  <2>1. controlMsgBuffer' = [controlMsgBuffer EXCEPT ![d] = Append(@, e)]
    BY <1>5 DEF AskAgain, Pushed
  <2>2. CASE d = c
    BY <1>0, <1>3, <1>5, <2>1, <2>2 DEF ClientTypeOK
  <2>3. CASE d # c
    BY <1>0, <1>2, <2>1, <2>3 DEF ClientTypeOK
  <2> QED
    BY <2>2, <2>3
<1>6. ASSUME NEW d \in Client, ClientTimer(d) PROVE Result
  <2>1. CASE AskRegistration(d)
    <3>1. Reg(0, 0).msgtype = "REG" /\ Reg(0, 0) \in ControlMessage
      BY MessageTypes DEF Reg
    <3>2. SaysWhatItMay(c, Reg(0, 0))'
      BY <3>1 DEF SaysWhatItMay
    <3> QED
      BY <1>5, <2>1, <3>1, <3>2 DEF AskRegistration
  <2>2. CASE AskOpen(d)
    <3>1. PICK e \in ControlMessage : e = Open(clientId[d])
      BY <1>0, <2>2, MessageTypes DEF AskOpen, ClientTypeOK
    <3>2. /\ e.msgtype = "OPEN" /\ e.client = clientId[d]
          /\ registered[d] /\ UNCHANGED <<registered, clientId>>
      BY <2>2, <3>1 DEF AskOpen, AskAgain, Open
    <3>3. d = c => SaysWhatItMay(c, e)'
      BY <3>2 DEF SaysWhatItMay
    <3> QED
      BY <1>5, <2>2, <3>1, <3>3 DEF AskOpen
  <2>3. CASE \E expired \in SUBSET requestTimes[d] : ExpireRequests(d, expired)
    BY <1>2, <2>3 DEF ExpireRequests
  <2> QED
    BY <1>6, <2>1, <2>2, <2>3 DEF ClientTimer, PeriodicResend
<1>7. ASSUME NEW d \in Client, ClientTurn(d) PROVE Result
  <2>1. CASE SkipAll(d)
    BY <1>2, <2>1 DEF SkipAll
  <2>2. ASSUME NEW i \in DOMAIN pending[d], Request(d, i) PROVE Result
    <3>1. /\ registered[d] /\ canRequest[d]
          /\ UNCHANGED <<registered, clientId, canRequest>>
      BY <1>7 DEF ClientTurn, RequestNext, MayRequest
    <3>2. clientId[d] \in ClientId /\ pending[d][i] \in Chunk
      BY <1>0, <2>2, <3>1 DEF ClientTypeOK
    <3>8. PICK e \in ControlMessage : e = Req(clientId[d], pending[d][i])
      BY <3>2, MessageTypes
    <3>3. e.msgtype = "REQ" /\ e.client = clientId[d] /\ e.chunk \in Chunk
      BY <3>2, <3>8 DEF Req
    <3>4. controlMsgBuffer' = [controlMsgBuffer EXCEPT ![d] = Append(@, e)]
      BY <2>2, <3>8 DEF Request, Pushed
    <3>5. d = c => SaysWhatItMay(c, e)'
      BY <3>1, <3>3 DEF SaysWhatItMay
    <3>6. CASE d = c
      BY <1>0, <1>3, <3>3, <3>4, <3>5, <3>6 DEF ClientTypeOK
    <3>7. CASE d # c
      BY <1>0, <1>2, <3>4, <3>7 DEF ClientTypeOK
    <3> QED
      BY <3>6, <3>7
  <2> QED
    BY <1>7, <2>1, <2>2 DEF ClientTurn, RequestNext
<1>8. ASSUME NEW d \in Client, NEW kind \in Kind, NEW n, ClientRead(d, kind, n)
      PROVE  Result
  BY <1>2, <1>8 DEF ClientRead, ReceivedControl, ReceivedChunk, CacheEarlyChunk,
     StoreChunk, ReceivedOpen, Register, RegisteredAlready, ReceivedRequest, clientVars
<1>9. ASSUME NEW d \in Client, ClientStep(d) PROVE Result
  <2>1. CASE Join(d) \/ ClientWriteChunk(d) \/ Leave(d) \/ LoseServer(d)
    BY <1>2, <2>1 DEF Join, ClientWriteChunk, WriteChunk, Leave, LoseServer, Disconnected,
                      clientVars
  <2> QED
    BY <1>4, <1>6, <1>7, <1>8, <1>9, <2>1 DEF ClientStep
<1>10. ASSUME ServerStep \/ Loss \/ UNCHANGED vars PROVE Result
  BY <1>2, <1>10
  DEF ServerStep, Accept, ServerRead, ServerWriteControl, ServerWriteChunk,
      ServerSeesEnd, ServerTurn, Loss, LoseToServer, LoseToClient, vars, clientVars
<1>11. Result
  BY <1>9, <1>10 DEF Next
<1> QED
  BY <1>1, <1>11 DEF Unread

\* What a client holds has come to it, and what it sends it holds.
LEMMA HoldingChange ==
  ASSUME SystemInv, [Next]_vars, NEW c \in Client
  PROVE  /\ chunks'[c] \cup recvChunkCache'[c]
              \subseteq chunks[c] \cup recvChunkCache[c] \cup Range(toClient["data"][c])
         /\ Range(chunkBuffer'[c]) \subseteq Range(chunkBuffer[c]) \cup chunks[c]
<1>0. /\ ClientTypeOK /\ ClientTypeOK' /\ ClientInv' /\ IsNetwork(toClient)
      /\ \A d \in Client : AnswersKept(d)'
  BY StepOfClients, ClientTypeStep, BooksStep DEF SystemInv, NetTypeOK, ClientInv, Kept
<1>1. chunks'[c] \cup recvChunkCache'[c]
        \subseteq chunks[c] \cup recvChunkCache[c] \cup Range(toClient["data"][c])
  <2>1. ASSUME NEW d \in Client, NEW k \in Range(toClient["data"][d]), ReceivedChunk(d, k)
        PROVE  chunks'[c] \cup recvChunkCache'[c]
                 \subseteq chunks[c] \cup recvChunkCache[c] \cup Range(toClient["data"][c])
    <3>1. CASE CacheEarlyChunk(d, k)
      BY <1>0, <2>1, <3>1 DEF CacheEarlyChunk, chunkVars, ClientTypeOK
    <3>2. CASE StoreChunk(d, k)
      <4>1. /\ chunks' = [chunks EXCEPT ![d] = @ \cup {k}]
            /\ recvChunkCache' = recvChunkCache
        BY <3>2 DEF StoreChunk, Receive
      <4> QED
        BY <1>0, <2>1, <4>1 DEF ClientTypeOK
    <3> QED
      BY <2>1, <3>1, <3>2 DEF ReceivedChunk
  <2>2. ASSUME NEW d \in Client, NEW m, ReceivedControl(d, m)
        PROVE  chunks'[c] \cup recvChunkCache'[c] \subseteq chunks[c] \cup recvChunkCache[c]
    BY <1>0, <2>2 DEF ReceivedControl, ReceivedOpen, Register, RegisteredAlready,
                      ReceivedRequest, Receive, chunkVars, clientVars, ClientTypeOK
  <2> QED
    BY <1>0, <2>1, <2>2, OnlyReadsTeach, MessageRead
<1>2. Range(chunkBuffer'[c]) \subseteq Range(chunkBuffer[c]) \cup chunks[c]
  <2>1. CASE chunkBuffer'[c] = chunkBuffer[c]
    BY <2>1
  <2>2. CASE chunks'[c] = chunks[c]
    BY <1>0, <2>2 DEF AnswersKept
  <2>3. ASSUME NEW d \in Client, NEW k, ReceivedChunk(d, k)
        PROVE  chunkBuffer' = chunkBuffer
    BY <2>3 DEF ReceivedChunk, CacheEarlyChunk, StoreChunk
  <2>4. ASSUME NEW d \in Client, NEW m, ReceivedControl(d, m)
        PROVE  chunkBuffer' = chunkBuffer \/ chunks' = chunks
    BY <2>4 DEF ReceivedControl, ReceivedOpen, Register, RegisteredAlready,
                ReceivedRequest, chunkVars, clientVars
  <2> QED
    BY <1>0, <2>1, <2>2, <2>3, <2>4, OnlyReadsTeach, MessageRead
<1> QED
  BY <1>1, <1>2

-----------------------------------------------------------------------------
(***************************************************************************)
(* The inductive invariant of the system and what it implies.              *)
(***************************************************************************)
LEMMA SystemInit == Init => SystemInv
<1> SUFFICES ASSUME Init PROVE SystemInv
  OBVIOUS
<1>1. ClientInv /\ SP!IInv
  BY ClientInvInit, ServerInvariantKept DEF Init
<1>2. Range(<< >>) = {}
  BY DEF Range
<1>3. << >> \in Seq(ControlMessage) \cup Seq(Chunk)
      /\ << >> \in Seq(ControlMessage) /\ << >> \in Seq(Chunk)
  OBVIOUS
<1>4. NetTypeOK
  BY <1>3 DEF Init, NetTypeOK, IsNetwork, Kind
<1>5. \A c \in Client : /\ toClient["control"][c] = << >> /\ toClient["data"][c] = << >>
                        /\ toServer["control"][c] = << >> /\ toServer["data"][c] = << >>
                        /\ conn[c] = "new"
  BY DEF Init, Kind
<1>6. \A c \in Client : /\ controlMsgBuffer[c] = << >> /\ chunkBuffer[c] = << >>
                        /\ chunks[c] = {} /\ recvChunkCache[c] = {}
                        /\ ~registered[c] /\ ~canRequest[c]
  BY DEF Init, ClientInit
<1>7. /\ \A c \in Client : lookup[c] = NoId
      /\ \A i \in ClientId : serverControl[i] = << >>
  BY SameProtocol DEF Init, S!Init
<1>8. RegsNameOwner /\ IdsAreGiven /\ SilentBeforeAccept /\ StoppedAtEnd
  BY <1>2, <1>5, <1>6, <1>7
  DEF RegsNameOwner, IdsAreGiven, SilentBeforeAccept, StoppedAtEnd
<1>9. SpeaksForItself /\ OpenWasTold /\ ChunksWereSent
  BY <1>2, <1>5, <1>6
  DEF SpeaksForItself, Unread, OpenWasTold, HasOpen, ChunksWereSent, ChunksAt
<1> QED
  BY <1>1, <1>4, <1>8, <1>9 DEF SystemInv

\* An id that was given to a client stays the one it was given.
LEMMA StaysGiven ==
  ASSUME SystemInv, [Next]_vars, NEW c \in Client, NEW i \in ClientId, GivenTo(c, i)
  PROVE  GivenTo(c, i)'
<1>1. SP!TypeOK /\ SP!TypeOK'
  BY StepOfServer, ServerInvariantKept DEF SystemInv, SP!IInv
<1>2. /\ nextClientId \in Nat /\ nextClientId' \in Nat
      /\ nextClientId' >= nextClientId /\ i \in Nat
  BY <1>1, ServerGrows, MaxClientIdAssumption DEF SP!TypeOK, ClientId
<1> QED
  BY <1>2, ConnectionChange, AddressChange DEF GivenTo

LEMMA ConnectionType ==
  ASSUME NetTypeOK, [Next]_vars
  PROVE  conn' \in [Client -> {"new", "backlog", "open", "ended", "closed"}]
<1>0. conn \in [Client -> {"new", "backlog", "open", "ended", "closed"}]
  BY DEF NetTypeOK
<1>1. ASSUME NEW c \in Client, ClientStep(c)
      PROVE  \/ conn' = conn
             \/ conn' = [conn EXCEPT ![c] = "backlog"]
             \/ conn' = [conn EXCEPT ![c] = AfterEnd(@)]
  BY <1>1 DEF ClientStep, Join, ClientWriteControl, ClientWriteChunk, ClientRead,
              ClientTimer, ClientTurn, Leave, LoseServer, netVars
<1>2. ASSUME ServerStep
      PROVE  \/ conn' = conn
             \/ \E c \in Client : conn' = [conn EXCEPT ![c] = Accepted(@)]
  BY <1>2 DEF ServerStep, Accept, ServerRead, ServerWriteControl, ServerWriteChunk,
              ServerSeesEnd, ServerTurn, netVars
<1>3. CASE Loss \/ UNCHANGED vars
  BY <1>0, <1>3 DEF Loss, LoseToServer, LoseToClient, vars, netVars
<1> QED
  BY <1>0, <1>1, <1>2, <1>3 DEF Next, AfterEnd, Accepted

LEMMA SystemStep ==
  ASSUME SystemInv, [Next]_vars
  PROVE  SystemInv'
<1>0. /\ ClientInv /\ SP!IInv /\ NetTypeOK /\ RegsNameOwner /\ IdsAreGiven
      /\ SilentBeforeAccept /\ StoppedAtEnd /\ SpeaksForItself /\ OpenWasTold
      /\ ChunksWereSent
  BY DEF SystemInv
<1>1. ClientInv'
  BY <1>0, StepOfClients, ClientTypeStep, BooksStep DEF ClientInv
<1>2. SP!IInv'
  BY <1>0, StepOfServer, ServerInvariantKept
<1>3. NetTypeOK'
  <2>1. conn' \in [Client -> {"new", "backlog", "open", "ended", "closed"}]
    BY <1>0, ConnectionType
  <2> QED
    BY <2>1, ToServerChange, ToClientChange DEF NetTypeOK
<1>4. RegsNameOwner'
  BY RegsKeepOwner
\* facts about ids
<1>5. /\ clients \subseteq ClientId /\ NoId \notin ClientId
      /\ \A i \in clients : i < nextClientId /\ lookup[reverseLookup[i]] = i
      /\ \A c \in Client : \A m \in Range(toClient["control"][c]) : m.client \in ClientId
      /\ \A i \in ClientId : \A m \in Range(serverControl[i]) : m.msgtype = "REG" => m.client = i
      /\ \A c \in Client : registered[c] => clientId[c] \in ClientId
  <2>1. ASSUME NEW c \in Client, NEW m \in Range(toClient["control"][c])
        PROVE  m.client \in ClientId
    <3>1. toClient["control"][c] \in Seq(ControlMessage)
      BY <1>0 DEF NetTypeOK, IsNetwork
    <3>2. m \in ControlMessage
      BY <3>1 DEF Range
    <3> QED
      BY <3>2 DEF ControlMessage
  <2>2. NoId \notin ClientId
    BY MaxClientIdAssumption DEF NoId, ClientId
  <2>3. \A c \in Client : registered[c] => clientId[c] \in ClientId
    BY <1>0 DEF ClientInv, ClientTypeOK
  <2> QED
    BY <1>0, <2>1, <2>2, <2>3, ServerFacts DEF RegsNameOwner
\* What arrives anew comes from the id under which the client is known.
<1>6. ASSUME NEW c \in Client, NEW i \in ClientId, NEW m, SentBy(i, c, m)
      PROVE  /\ lookup[c] = i /\ i \in clients /\ GivenTo(c, i)
             /\ m.msgtype = "REG" => m.client = i
  <2>1. lookup[c] = i /\ i \in clients /\ i < nextClientId /\ i # NoId
    BY <1>5, <1>6 DEF SentBy
  <2>2. conn[c] \in {"open", "closed"}
    BY <1>0, <2>1 DEF SilentBeforeAccept, NetTypeOK
  <2>3. m.msgtype = "REG" => m.client = i
    BY <1>5, <1>6 DEF SentBy
  <2> QED
    BY <2>1, <2>2, <2>3 DEF GivenTo
<1>7. IdsAreGiven'
  <2>1. ASSUME NEW c \in Client, registered'[c] PROVE GivenTo(c, clientId[c])'
    <3>1. PICK i \in ClientId : clientId'[c] = i /\ GivenTo(c, i)
      BY <1>0, <1>5, <2>1, IdentityChange DEF IdsAreGiven
    <3>2. GivenTo(c, i)'
      BY <3>1, StaysGiven
    <3> QED
      BY <3>1, <3>2 DEF GivenTo
  <2>2. ASSUME NEW c \in Client, NEW m \in Range(toClient'["control"][c]), m.msgtype = "REG"
        PROVE  GivenTo(c, m.client)'
    <3>1. PICK i \in ClientId : m.client = i /\ GivenTo(c, i)
      BY <1>0, <1>5, <1>6, <2>2, ToClientChange DEF IdsAreGiven
    <3>2. GivenTo(c, i)'
      BY <3>1, StaysGiven
    <3> QED
      BY <3>1, <3>2
  <2> QED
    BY <2>1, <2>2 DEF IdsAreGiven
<1>8. SilentBeforeAccept'
  <2> SUFFICES ASSUME NEW c \in Client, conn'[c] \in {"new", "backlog", "ended"}
               PROVE  /\ lookup'[c] = NoId /\ Range(toClient'["control"][c]) = {}
                      /\ ~canRequest'[c]
    BY DEF SilentBeforeAccept
  <2>1. conn[c] \in {"new", "backlog", "ended"}
    BY ConnectionChange
  <2>2. /\ lookup[c] = NoId /\ Range(toClient["control"][c]) = {} /\ ~canRequest[c]
    BY <1>0, <2>1 DEF SilentBeforeAccept
  <2>3. lookup'[c] = NoId
    BY <2>2, AddressChange
  <2>4. Range(toClient'["control"][c]) = {}
    BY <1>5, <1>6, <2>2, ToClientChange
  <2>5. ~canRequest'[c]
    BY <2>2, OpenChange DEF HasOpen
  <2> QED
    BY <2>3, <2>4, <2>5
<1>9. StoppedAtEnd'
  BY <1>0, ConnectionChange DEF StoppedAtEnd
<1>10. SpeaksForItself'
  <2> SUFFICES ASSUME NEW c \in Client, NEW m \in Unread(c)' PROVE SaysWhatItMay(c, m)'
    BY DEF SpeaksForItself
  <2>1. SaysWhatItMay(c, m) => SaysWhatItMay(c, m)'
    <3>1. registered[c] => registered'[c] /\ clientId'[c] = clientId[c]
      BY IdentityChange
    <3>2. canRequest[c] => canRequest'[c]
      BY OpenChange
    <3> QED
      BY <3>1, <3>2 DEF SaysWhatItMay
  <2> QED
    BY <1>0, <2>1, SaidChange DEF SpeaksForItself
<1>11. OpenWasTold'
  <2> SUFFICES ASSUME NEW c \in Client, HasOpen(c)'
               PROVE  /\ lookup'[c] # NoId => lookup'[c] \in told'
                      /\ registered'[c] => clientId'[c] \in told'
                      /\ \A m \in Range(toClient'["control"][c]) :
                           m.msgtype = "REG" => m.client \in told'
    BY DEF OpenWasTold
  <2>0. told \subseteq told'
    BY ServerGrows
  <2>1. CASE HasOpen(c)
    <3>1. /\ lookup[c] # NoId => lookup[c] \in told
          /\ registered[c] => clientId[c] \in told
          /\ \A m \in Range(toClient["control"][c]) : m.msgtype = "REG" => m.client \in told
      BY <1>0, <2>1 DEF OpenWasTold
    <3>2. lookup'[c] # NoId => lookup'[c] \in told'
      <4>1. conn[c] \notin {"backlog", "ended"}
        BY <1>0, <2>1 DEF SilentBeforeAccept, HasOpen
      <4> QED
        BY <2>0, <3>1, <4>1, AddressChange
    <3>3. registered'[c] => clientId'[c] \in told'
      BY <2>0, <3>1, IdentityChange
    <3>4. ASSUME NEW m \in Range(toClient'["control"][c]), m.msgtype = "REG"
          PROVE  m.client \in told'
      BY <1>5, <1>6, <2>0, <3>1, <3>4, ToClientChange
    <3> QED
      BY <3>2, <3>3, <3>4
  <2>2. CASE ~HasOpen(c)
    <3>1. ~canRequest'[c]
      BY <2>2, OpenChange
    <3>2. PICK m \in Range(toClient'["control"][c]) :
            m.msgtype = "OPEN" /\ m \notin Range(toClient["control"][c])
      BY <2>2, <3>1 DEF HasOpen
    <3>3. PICK i \in ClientId : SentBy(i, c, m)
      BY <3>2, ToClientChange
    <3>4. /\ i \in told' /\ lookup[c] = i /\ i \in clients /\ GivenTo(c, i) /\ i # NoId
          /\ UNCHANGED <<conn, lookup, registered, clientId>>
      BY <1>5, <1>6, <3>2, <3>3 DEF SentBy
    <3>5. ASSUME NEW j, GivenTo(c, j) PROVE j = i
      BY <3>4, <3>5 DEF GivenTo
    <3>6. registered'[c] => clientId'[c] \in told'
      BY <1>0, <3>4, <3>5 DEF IdsAreGiven
    <3>7. ASSUME NEW e \in Range(toClient'["control"][c]), e.msgtype = "REG"
          PROVE  e.client \in told'
      <4>1. GivenTo(c, e.client)
        BY <1>0, <1>6, <3>7, ToClientChange DEF IdsAreGiven
      <4> QED
        BY <3>4, <3>5, <4>1
    <3> QED
      BY <3>4, <3>6, <3>7
  <2> QED
    BY <2>1, <2>2
<1>12. ChunksWereSent'
  <2> SUFFICES ASSUME NEW c \in Client PROVE ChunksAt(c)' \subseteq distributed'
    BY DEF ChunksWereSent
  <2>1. ChunksAt(c) \subseteq distributed'
    BY <1>0, ServerGrows DEF ChunksWereSent
  <2>2. ChunksAt(c)' \subseteq ChunksAt(c) \cup distributed'
    BY HoldingChange, ToServerChange, ToClientChange DEF ChunksAt
  <2> QED
    BY <2>1, <2>2
<1> QED
  BY <1>1, <1>2, <1>3, <1>4, <1>7, <1>8, <1>9, <1>10, <1>11, <1>12 DEF SystemInv

-----------------------------------------------------------------------------
(***************************************************************************)
(* The properties of the system.                                           *)
(***************************************************************************)
THEOREM SystemInvariance == Spec => []SystemInv
<1>1. Init => SystemInv
  BY SystemInit
<1>2. SystemInv /\ [Next]_vars => SystemInv'
  BY SystemStep
<1> QED
  BY <1>1, <1>2, PTL DEF Spec

\* Whatever the clients and the network do, the server of the system
\* implements the server in its open environment: no message reaches it that
\* TrickleServer does not let arrive.
THEOREM ServerImplemented == Spec => ImplementsServer
<1>1. Init => S!Init
  BY DEF Init
<1>2. SystemInv /\ [Next]_vars => [S!Next]_S!serverVars
  BY StepOfServer
<1> QED
  BY <1>1, <1>2, SystemInvariance, PTL DEF Spec, ImplementsServer, S!Spec

\* The clients of the system behave as those of TrickleClient do among a
\* server and a network that may do anything.
THEOREM ClientsImplemented == Spec => ClientSpec
<1>1. Init => ClientInit
  BY DEF Init
<1>2. SystemInv /\ [Next]_vars => [ClientNext]_clientVars
  BY StepOfClients
<1> QED
  BY <1>1, <1>2, SystemInvariance, PTL DEF Spec, ClientSpec

\* So each part keeps in the system what it promises alone: the server its
\* tables, the books of the distribution, the even shares, the two promises about
\* OPEN and the causes of its end, the client its books, its counter and its
\* queued answers.
THEOREM PromisesKept ==
  Spec => /\ [](S!TablesConsistent /\ S!DistributionBooks)
          /\ [](S!OpenAfterDistribution /\ S!NobodyLeftClosed)
          /\ [](S!EvenShares /\ S!CrashCause)
          /\ [](NoChunkForgotten /\ OneRequestPerChunk)
          /\ [](SavedExactlyOnce /\ AnswersHeld)
<1>1. SystemInv => S!TablesConsistent /\ S!DistributionBooks
  <2>1. SystemInv => SP!TypeOK /\ SP!LookupMatchesClients /\ SP!OwnListTrue
                     /\ SP!DistributionBooks
    BY DEF SystemInv, SP!IInv
  <2>2. SP!TypeOK => S!TypeOK
    BY SameProtocol DEF SP!TypeOK, S!TypeOK
  <2>3. SP!LookupMatchesClients => S!LookupMatchesClients
    BY SameProtocol DEF SP!LookupMatchesClients, S!LookupMatchesClients
  <2>4. SP!OwnListTrue => S!OwnListTrue
    BY SameProtocol DEF SP!OwnListTrue, S!OwnListTrue
  <2>5. SP!DistributionBooks => S!DistributionBooks
    BY SameProtocol DEF SP!DistributionBooks, S!DistributionBooks
  <2> QED
    BY <2>1, <2>2, <2>3, <2>4, <2>5 DEF S!TablesConsistent
<1>2. SystemInv => S!OpenAfterDistribution /\ S!NobodyLeftClosed
  <2>1. SP!OpenAfterDistribution => S!OpenAfterDistribution
    BY SameProtocol DEF SP!OpenAfterDistribution, S!OpenAfterDistribution
  <2>2. SP!NobodyLeftClosed => S!NobodyLeftClosed
    BY SameProtocol DEF SP!NobodyLeftClosed, S!NobodyLeftClosed
  <2> QED
    BY <2>1, <2>2 DEF SystemInv, SP!IInv
<1>3. /\ ClientInv => NoChunkForgotten /\ OneRequestPerChunk
      /\ ClientInv => SavedExactlyOnce /\ AnswersHeld
  BY DEF ClientInv, Kept, BooksKept, NoRepeats, CountersKept, CounterExact, AnswersKept,
         NoChunkForgotten, OneRequestPerChunk, SavedExactlyOnce, AnswersHeld
<1>4. SystemInv => ClientInv
  BY DEF SystemInv
<1>5. SystemInv => S!CrashCause
  <2>1. SP!CrashCause => S!CrashCause
    BY SameProtocol DEF SP!CrashCause, S!CrashCause, SP!Gone, S!Gone
  <2> QED
    BY <2>1 DEF SystemInv, SP!IInv
<1>6. Init => SP!SharesInv
  BY SP!SharesInit, ServerAssumptions, SameInit DEF Init
<1>7. SystemInv /\ SP!SharesInv /\ [Next]_vars => SP!SharesInv'
  <2>1. SP!IInv /\ SP!SharesInv /\ [SP!Next]_SP!serverVars => SP!SharesInv'
    BY SP!SharesStep, ServerAssumptions
  <2>2. SystemInv /\ [Next]_vars => [S!Next]_S!serverVars
    BY StepOfServer
  <2>3. SystemInv => SP!IInv
    BY DEF SystemInv
  <2>4. [S!Next]_S!serverVars => [SP!Next]_SP!serverVars
    BY SameSteps
  <2> QED
    BY <2>1, <2>2, <2>3, <2>4
<1>8. SystemInv /\ SP!SharesInv => S!EvenShares
  <2>1. SP!IInv /\ SP!SharesInv => SP!EvenShares
    BY SP!SharesAreEven, ServerAssumptions
  <2>2. SP!EvenShares => S!EvenShares
    BY SameProtocol DEF SP!EvenShares, S!EvenShares
  <2> QED
    BY <2>1, <2>2 DEF SystemInv
<1> QED
  BY <1>1, <1>2, <1>3, <1>4, <1>5, <1>6, <1>7, <1>8, SystemInvariance, PTL DEF Spec

\* A registered client whose connection is open goes by the id under which the
\* server knows its address, so that what it asks for is sent to itself.
THEOREM IdentityRight == Spec => []RightIdentity
<1>1. SystemInv => RightIdentity
  BY DEF SystemInv, IdsAreGiven, GivenTo, RightIdentity
<1> QED
  BY <1>1, SystemInvariance, PTL

-----------------------------------------------------------------------------
(***************************************************************************)
(* No chunk gets lost while no client leaves and the network keeps chunks. *)
(***************************************************************************)
AtServer(k) == \/ k \in Range(chunksToDistribute)
               \/ \E i \in clients : k \in Range(serverSends[i])

AtClient(c, k) == k \in chunks[c] \cup recvChunkCache[c] \cup Range(toClient["data"][c])

\* What is sent to a client with a chunk.
LEMMA ChunkSent ==
  ASSUME IsNetwork(toClient), NEW c \in Client, NEW k \in Chunk,
         toClient' = Sent(toClient, "data", c, k)
  PROVE  /\ Range(toClient'["data"][c]) = Range(toClient["data"][c]) \cup {k}
         /\ \A d \in Client \ {c} : toClient'["data"][d] = toClient["data"][d]
<1>1. "data" \in Kind /\ k \in MessagesOf("data")
  BY DEF Kind, MessagesOf
<1>2. /\ IsNetwork(toClient')
      /\ Range(toClient'["data"][c]) = Range(toClient["data"][c]) \cup {k}
      /\ \A e \in Kind, d \in Client : e # "data" \/ d # c =>
           toClient'[e][d] = toClient[e][d]
  BY <1>1, Sending
<1> QED
  BY <1>1, <1>2

\* A client keeps what it holds or is about to get.
LEMMA ClientKeeps ==
  ASSUME SystemInv, [Next]_vars, "CHUNK" \notin Lossy,
         NEW c \in Client, NEW k \in Chunk, AtClient(c, k)
  PROVE  AtClient(c, k)'
<1>0. /\ IsNetwork(toClient) /\ "control" \in Kind /\ "data" \in Kind /\ "control" # "data"
      /\ chunks \in [Client -> SUBSET Chunk]
      /\ recvChunkCache \in [Client -> SUBSET Chunk]
  BY DEF SystemInv, ClientInv, ClientTypeOK, NetTypeOK, Kind
<1>1. CASE UNCHANGED <<chunks, recvChunkCache>> /\ toClient'["data"][c] = toClient["data"][c]
  BY <1>1 DEF AtClient
<1>2. ASSUME NEW d \in Client, NEW kind \in Kind, NEW n, ClientRead(d, kind, n)
      PROVE  AtClient(c, k)'
  <2> DEFINE m == toClient[kind][d][n]
  <2>1. n \in DOMAIN toClient[kind][d] /\ toClient' = Taken(toClient, kind, d, n)
    BY <1>2 DEF ClientRead, Takeable
  <2>2. /\ \A e \in Kind, f \in Client : e # kind \/ f # d => toClient'[e][f] = toClient[e][f]
        /\ Range(toClient[kind][d]) = {m} \cup Range(toClient'[kind][d])
    BY <1>0, <2>1, Taking
  <2>3. CASE kind = "data"
    <3>1. ReceivedChunk(d, m)
      BY <1>2, <2>3 DEF ClientRead
    <3>2. \/ k \in Range(toClient'["data"][c]) \cup chunks[c] \cup recvChunkCache[c]
          \/ c = d /\ k = m
      BY <1>0, <2>2, <2>3 DEF AtClient
    <3>3. CASE CacheEarlyChunk(d, m)
      BY <1>0, <3>2, <3>3 DEF CacheEarlyChunk, chunkVars, AtClient
    <3>4. CASE StoreChunk(d, m)
      BY <1>0, <3>2, <3>4 DEF StoreChunk, Receive, AtClient
    <3> QED
      BY <3>1, <3>3, <3>4 DEF ReceivedChunk
  <2>4. CASE kind = "control"
    <3>1. ReceivedControl(d, m) /\ toClient'["data"][c] = toClient["data"][c]
      BY <1>0, <1>2, <2>2, <2>4 DEF ClientRead
    <3>2. \/ UNCHANGED <<chunks, recvChunkCache>>
          \/ \E i : Register(d, i)
      BY <3>1 DEF ReceivedControl, ReceivedOpen, RegisteredAlready, ReceivedRequest,
                  chunkVars, clientVars
    <3>3. ASSUME NEW i, Register(d, i)
          PROVE  chunks[c] \cup recvChunkCache[c] \subseteq chunks'[c] \cup recvChunkCache'[c]
      BY <1>0, <3>3 DEF Register, Receive
    <3> QED
      BY <1>1, <3>1, <3>2, <3>3 DEF AtClient
  <2> QED
    BY <2>3, <2>4 DEF Kind
<1>3. CASE UNCHANGED <<chunks, recvChunkCache>> /\ ServerStep
  <2>1. ASSUME NEW i \in clients, ServerWriteControl(i)
        PROVE  toClient'["data"][c] = toClient["data"][c]
    <3> DEFINE m == Head(serverControl[i])
               d == reverseLookup[i]
    <3>1. m \in ControlMessage /\ d \in Client
      BY <2>1, BufferHeads, ServerFacts
      DEF SystemInv, ServerWriteControl, S!WriteControl
    <3>2. toClient' = toClient \/ toClient' = Sent(toClient, "control", d, m)
      BY <2>1 DEF ServerWriteControl, ServerSent
    <3>3. m \in MessagesOf("control")
      BY <3>1 DEF MessagesOf
    <3> HIDE DEF m, d
    <3> QED
      BY <1>0, <3>1, <3>2, <3>3, Sending
  <2>2. ASSUME NEW i \in clients, ServerWriteChunk(i)
        PROVE  Range(toClient["data"][c]) \subseteq Range(toClient'["data"][c])
    <3>1. Head(serverSends[i]) \in Chunk /\ reverseLookup[i] \in Client
      BY <2>2, BufferHeads, ServerFacts DEF SystemInv, ServerWriteChunk, S!WriteChunk
    <3>2. PICK d \in Client, m \in Chunk :
            toClient' = toClient \/ toClient' = Sent(toClient, "data", d, m)
      BY <2>2, <3>1 DEF ServerWriteChunk, ServerSent
    <3>4. ASSUME toClient' = Sent(toClient, "data", d, m)
          PROVE  /\ Range(toClient'["data"][d]) = Range(toClient["data"][d]) \cup {m}
                 /\ \A e \in Client \ {d} : toClient'["data"][e] = toClient["data"][e]
      BY <1>0, <3>4, ChunkSent
    <3> QED
      BY <3>2, <3>4
  <2>3. \/ toClient' = toClient
        \/ \E i \in clients : ServerWriteControl(i) \/ ServerWriteChunk(i)
    BY <1>3 DEF ServerStep, Accept, ServerRead, ServerSeesEnd, ServerTurn, netVars
  <2> QED
    BY <1>3, <2>1, <2>2, <2>3 DEF AtClient
<1>4. CASE UNCHANGED <<chunks, recvChunkCache>> /\ Loss
  <2>1. ASSUME NEW d \in Client, NEW kind \in Kind, LoseToClient(kind, d)
        PROVE  toClient'["data"][c] = toClient["data"][c]
    <3>1. kind = "control"
      BY <2>1 DEF LoseToClient, MayLose, Kind
    <3> QED
      BY <1>0, <2>1, <3>1, Taking DEF LoseToClient
  <2>2. ASSUME NEW d \in Client, NEW kind \in Kind, LoseToServer(kind, d)
        PROVE  toClient' = toClient
    BY <2>2 DEF LoseToServer
  <2> QED
    BY <1>1, <1>4, <2>1, <2>2 DEF Loss
<1>5. ASSUME NEW d \in Client, ClientStep(d),
             ~\E kind \in Kind, n \in 1 .. MaxInFlight : ClientRead(d, kind, n)
      PROVE  toClient' = toClient
  BY <1>5 DEF ClientStep, Join, ClientWriteControl, ClientWriteChunk, ClientTimer,
              ClientTurn, Leave, LoseServer, netVars
<1>6. CASE UNCHANGED vars
  BY <1>1, <1>6 DEF vars, clientVars, chunkVars, netVars
<1>7. ASSUME ~\E d \in Client, kind \in Kind, n \in 1 .. MaxInFlight : ClientRead(d, kind, n)
      PROVE  UNCHANGED <<chunks, recvChunkCache>>
  BY <1>7, OnlyReadsTeach
<1> QED
  BY <1>1, <1>2, <1>3, <1>4, <1>5, <1>6, <1>7 DEF Next

\* Dealing moves chunks from the queue into the buffer of the new client.
LEMMA AcceptKeeps ==
  ASSUME SP!IInv, NEW c \in Client, S!AcceptNewClient(c), NEW k, AtServer(k)
  PROVE  AtServer(k)'
<1> USE DEF S!connectionVars
<1>1. SP!TypeOK /\ SP!AcceptNewClient(c)
  BY SameAccept DEF SP!IInv
<1>2. CASE S!Crash
  BY <1>2 DEF S!Crash, S!dealVars, AtServer
<1>3. CASE /\ S!Connect(nextClientId, c) /\ nextClientId \in ClientId
           /\ SP!DistributeTo(nextClientId)
  <2>1. /\ clients' = clients \cup {nextClientId} /\ nextClientId \notin clients
        /\ clients \subseteq ClientId
    BY <1>1, <1>3, ServerFacts DEF S!Connect
  <2>2. CASE distributedAll
    BY <1>3, <2>1, <2>2 DEF SP!DistributeTo, SP!dealVars, AtServer
  <2>3. CASE ~distributedAll
    <3>1. SP!Deal(nextClientId, SP!NextShare)
      BY <1>3, <2>3 DEF SP!DistributeTo, SP!NextShare
    <3>2. PICK front \in Seq(Chunk) :
            /\ serverSends' = [serverSends EXCEPT ![nextClientId] = front]
            /\ Range(chunksToDistribute) = Range(front) \cup Range(chunksToDistribute')
      BY <1>1, <1>3, <3>1, SP!DealEffect, ServerAssumptions, SameProtocol
      DEF SP!TypeOK
    <3>3. \A i \in clients : serverSends'[i] = serverSends[i]
      BY <2>1, <3>2, ServerFacts
    <3>4. serverSends'[nextClientId] = front
      BY <1>3, <3>2, ServerFacts
    <3> QED
      BY <2>1, <3>2, <3>3, <3>4 DEF AtServer
  <2> QED
    BY <2>2, <2>3
<1> QED
  BY <1>1, <1>2, <1>3, SameAccept, SameProtocol
  DEF S!AcceptNewClient, SP!AcceptNewClient, S!Connect, SP!Connect, SP!Crash, S!Crash

\* The server lets go of a chunk only by sending it to a client that is there.
LEMMA ServerKeeps ==
  ASSUME SystemInv, [Next]_vars, NobodyLeft, NEW k \in Chunk, AtServer(k)
  PROVE  AtServer(k)' \/ \E c \in Client : AtClient(c, k)'
<1> USE DEF S!connectionVars, S!dealVars
<1>0. /\ SP!IInv /\ clients \subseteq ClientId /\ IsNetwork(toClient)
      /\ serverSends \in [ClientId -> Seq(Chunk)]
      /\ "data" \in Kind
      /\ \A i \in clients : reverseLookup[i] \in Client
  BY ServerFacts DEF SystemInv, NetTypeOK, Kind
<1>1. ASSUME UNCHANGED <<chunksToDistribute, clients, serverSends>> PROVE AtServer(k)'
  BY <1>1 DEF AtServer
<1>2. CASE \E c \in Client : Accept(c)
  BY <1>0, <1>2, AcceptKeeps DEF Accept
<1>3. ASSUME UNCHANGED <<chunksToDistribute, clients>>,
             \A i \in clients : Range(serverSends[i]) \subseteq Range(serverSends'[i])
      PROVE  AtServer(k)'
  BY <1>3 DEF AtServer
<1>4. ASSUME NEW c \in Client, NEW kind \in Kind, NEW n, ServerRead(c, kind, n)
      PROVE  AtServer(k)'
  <2>1. ASSUME NEW j \in ClientId, NEW e,
               serverSends' = [serverSends EXCEPT ![j] = Append(@, e)], e \in Chunk
        PROVE  \A i \in clients : Range(serverSends[i]) \subseteq Range(serverSends'[i])
    BY <1>0, <2>1, BufferRange
  <2>2. ASSUME NEW m \in ControlMessage, S!ReceivedControl(c, m)
        PROVE  AtServer(k)'
    <3>1. CASE serverSends' = serverSends
      <4>1. UNCHANGED <<chunksToDistribute, clients>>
        BY <2>2
        DEF S!ReceivedControl, S!ReceivedRequest, S!AnswerFromCache, S!JoinWaiters,
            S!ForwardToClients, S!ReceivedOpen, S!ReceivedReg, S!SendControl,
            S!DropOpen, S!DropReg, S!Crash, S!serverVars
      <4> QED
        BY <1>1, <3>1, <4>1
    <3>2. CASE /\ S!AnswerFromCache(m.client, m.chunk)
               /\ m.client \in clients
      <4>1. /\ serverSends' = [serverSends EXCEPT ![m.client] = Append(@, m.chunk)]
            /\ UNCHANGED <<chunksToDistribute, clients>>
            /\ S!Cache!Cached(m.chunk)
        BY <3>2 DEF S!AnswerFromCache, S!Pushed
      <4>2. m.chunk \in Chunk
        <5>1. chunkCache \in Seq(Chunk)
          BY <1>0, SameProtocol DEF SP!IInv, SP!TypeOK
        <5> QED
          BY <4>1, <5>1 DEF S!Cache!Cached, S!Cache!Range
      <4> QED
        BY <1>0, <1>3, <2>1, <3>2, <4>1, <4>2
    <3>3. \/ serverSends' = serverSends
          \/ S!AnswerFromCache(m.client, m.chunk) /\ m.client \in clients
      BY <2>2
      DEF S!ReceivedControl, S!ReceivedRequest, S!AnswerFromCache, S!JoinWaiters,
          S!ForwardToClients, S!ReceivedOpen, S!ReceivedReg, S!SendControl,
          S!DropOpen, S!DropReg, S!Crash, S!serverVars
    <3> QED
      BY <3>1, <3>2, <3>3
  <2>3. ASSUME NEW e \in Chunk, S!ReceivedChunk(e) PROVE AtServer(k)'
    <3>1. CASE S!Crash
      BY <1>1, <3>1 DEF S!Crash
    <3>2. CASE /\ serverSends' = [i \in ClientId |-> IF i \in chunkRequests[e]
                                                      THEN Append(serverSends[i], e)
                                                      ELSE serverSends[i]]
               /\ UNCHANGED <<chunksToDistribute, clients>>
      <4>1. \A i \in clients : Range(serverSends[i]) \subseteq Range(serverSends'[i])
        BY <1>0, <3>2, BufferRange
      <4> QED
        BY <1>3, <3>2, <4>1
    <3> QED
      BY <2>3, <3>1, <3>2, SameProtocol DEF S!ReceivedChunk
  <2>4. n \in DOMAIN toServer[kind][c]
    BY <1>4 DEF ServerRead, Takeable
  <2>5. toServer[kind][c][n] \in MessagesOf(kind)
    BY <2>4, Taking DEF SystemInv, NetTypeOK
  <2> QED
    BY <1>4, <2>2, <2>3, <2>5 DEF ServerRead, MessagesOf, Kind
<1>5. ASSUME NEW i \in clients, ServerWriteChunk(i)
      PROVE  AtServer(k)' \/ \E c \in Client : AtClient(c, k)'
  <2>0. PICK c \in Client, m \in Chunk : c = reverseLookup[i] /\ m = Head(serverSends[i])
    BY <1>0, <1>5, BufferHeads DEF ServerWriteChunk, S!WriteChunk
  <2>1. /\ m \in Chunk /\ c \in Client /\ serverSends[i] # << >>
        /\ serverSends' = [serverSends EXCEPT ![i] = Tail(@)]
        /\ UNCHANGED <<chunksToDistribute, clients>>
        /\ ServerSent("data", c, m)
    BY <1>5, <2>0 DEF ServerWriteChunk, S!WriteChunk, S!Popped
  <2>2. Range(serverSends[i]) = {m} \cup Range(serverSends'[i])
    BY <1>0, <2>0, <2>1, BufferRange
  <2>3. \A j \in clients \ {i} : serverSends'[j] = serverSends[j]
    BY <1>0, <2>1
  <2>4. conn[c] # "closed"
    BY <2>1 DEF SystemInv, StoppedAtEnd, NobodyLeft
  <2>5. toClient' = Sent(toClient, "data", c, m)
    BY <2>1, <2>4 DEF ServerSent
  <2>6. m \in Range(toClient'["data"][c])
    <3>1. Range(toClient'["data"][c]) = Range(toClient["data"][c]) \cup {m}
      BY <1>0, <2>5, ChunkSent
    <3> QED
      BY <3>1
  <2>7. AtServer(k)' \/ k = m
    BY <2>1, <2>2, <2>3 DEF AtServer
  <2> QED
    BY <2>1, <2>6, <2>7 DEF AtClient
<1>6. ASSUME NEW i \in clients, ServerSeesEnd(i) PROVE FALSE
  BY <1>0, <1>6 DEF ServerSeesEnd, SystemInv, StoppedAtEnd, NobodyLeft
<1>7. CASE \E i \in clients : ServerWriteControl(i)
  BY <1>1, <1>7 DEF ServerWriteControl, S!WriteControl
<1>8. CASE ServerTurn
  BY <1>1, <1>8 DEF ServerTurn, S!OpenRequests
<1>9. CASE (\E c \in Client : ClientStep(c)) \/ Loss \/ UNCHANGED vars
  BY <1>1, <1>9
  DEF ClientStep, Join, ClientWriteControl, ClientWriteChunk, ClientRead, ClientTimer,
      ClientTurn, Leave, LoseServer, Loss, LoseToServer, LoseToClient, vars, serverVars
<1> QED
  BY <1>2, <1>4, <1>5, <1>6, <1>7, <1>8, <1>9 DEF Next, ServerStep

\* While no client leaves and the network does not lose chunks, every chunk is
\* to be dealt or queued on the server, or on its way to a client, or with one.
THEOREM ChunksSurvive ==
  ASSUME "CHUNK" \notin Lossy
  PROVE  Spec => []ChunkSurvives
<1> DEFINE Safe == \A k \in Chunk : AtServer(k) \/ \E c \in Client : AtClient(c, k)
<1>1. Init => Safe
  <2> SUFFICES ASSUME Init PROVE Safe
    OBVIOUS
  <2>1. SystemInv /\ SP!IInv
    BY SystemInit DEF SystemInv
  <2>2. Chunk = Range(chunksToDistribute) \cup beingDistributed \cup distributed
    BY <2>1, SameProtocol DEF SP!IInv, SP!DistributionBooks
  <2>3. beingDistributed = {} /\ distributed = {}
    BY DEF Init, S!Init
  <2> QED
    BY <2>2, <2>3 DEF AtServer
<1>2. SystemInv /\ [Next]_vars /\ (NobodyLeft => Safe) => (NobodyLeft => Safe)'
  <2> SUFFICES ASSUME SystemInv, [Next]_vars, NobodyLeft => Safe, NobodyLeft'
               PROVE  Safe'
    OBVIOUS
  <2>1. NobodyLeft
    BY ConnectionChange DEF NobodyLeft
  <2> SUFFICES ASSUME NEW k \in Chunk
               PROVE  AtServer(k)' \/ \E c \in Client : AtClient(c, k)'
    OBVIOUS
  <2>2. AtServer(k) \/ \E c \in Client : AtClient(c, k)
    BY <2>1
  <2> QED
    BY <2>1, <2>2, ServerKeeps, ClientKeeps
<1>3. (NobodyLeft => Safe) => ChunkSurvives
  BY DEF ChunkSurvives, AtServer, AtClient
<1> QED
  BY <1>1, <1>2, <1>3, SystemInvariance, PTL DEF Spec

-----------------------------------------------------------------------------
(***************************************************************************)
(* The earlier version of the program: its two waiting lists.              *)
(***************************************************************************)
\* The lists exist for every chunk and every client, and agree.
ListsInv ==
  /\ chunkRequests = [k \in Chunk |-> chunkRequests[k]]
  /\ clientRequests = [i \in ClientId |-> clientRequests[i]]
  /\ ListsAgree

LEMMA SameProtocolInDemo == D!Chunk = Chunk /\ D!ClientId = ClientId
BY DEF D!Chunk, Chunk, D!ClientId, ClientId

\* Client i joins the waiters of chunk k, or leaves them, on both lists.
LEMMA JoinBoth ==
  ASSUME ListsInv, NEW i, NEW k,
         chunkRequests' = [chunkRequests EXCEPT ![k] = @ \cup {i}],
         clientRequests' = [clientRequests EXCEPT ![i] = @ \cup {k}]
  PROVE  ListsInv'
BY DEF ListsInv, ListsAgree

LEMMA LeaveBoth ==
  ASSUME ListsInv, NEW i, NEW k,
         chunkRequests' = [chunkRequests EXCEPT ![k] = @ \ {i}],
         clientRequests' = [clientRequests EXCEPT ![i] = @ \ {k}]
  PROVE  ListsInv'
BY DEF ListsInv, ListsAgree

LEMMA ListsStep == ListsInv /\ [DemoNext]_vars => ListsInv'
<1> SUFFICES ASSUME ListsInv, [DemoNext]_vars PROVE ListsInv'
  OBVIOUS
<1> USE DEF D!connectionVars, D!dealVars, D!sentVars, D!waitVars
<1>1. ASSUME UNCHANGED <<chunkRequests, clientRequests>> PROVE ListsInv'
  BY <1>1 DEF ListsInv, ListsAgree
<1>2. CASE \E c \in Client : AcceptClient(c)
  BY <1>1, <1>2 DEF AcceptClient, D!AcceptClient, D!AcceptNewClient, D!Crash
<1>3. ASSUME NEW c \in Client, ReadChunk(c) PROVE ListsInv'
  BY <1>1, <1>3 DEF ReadChunk, D!ServeWaiters, D!ReceivedChunk, D!Crash
<1>4. ASSUME NEW c \in Client, NEW n, ReadMessage(c, n) PROVE ListsInv'
  <2>1. ASSUME NEW i, NEW k, D!ReceivedChunkRequest(i, k) PROVE ListsInv'
    <3>1. CASE D!AnswerCached(i, k)
      BY <1>1, <3>1 DEF D!AnswerCached, D!AnswerFromCache, D!Crash
    <3>2. CASE D!AskOthers(i, k)
      BY <3>2, JoinBoth DEF D!AskOthers
    <3> QED
      BY <2>1, <3>1, <3>2 DEF D!ReceivedChunkRequest
  <2>2. ASSUME NEW i, D!AnswerOpen(i) PROVE ListsInv'
    BY <1>1, <2>2 DEF D!AnswerOpen, D!ReceivedOpen, D!DropOpen, D!SendControl, D!Crash,
                      D!serverVars
  <2>3. CASE D!AnswerReg(c)
    BY <1>1, <2>3 DEF D!AnswerReg, D!ReceivedReg, D!DropReg, D!SendControl, D!serverVars
  <2> QED
    BY <1>4, <2>1, <2>2, <2>3 DEF ReadMessage, D!ReceivedControlMsg
<1>5. ASSUME NEW i \in clients, WriteMessage(i) PROVE ListsInv'
  BY <1>1, <1>5 DEF WriteMessage, D!CanWriteUDP, D!WriteControl
<1>6. ASSUME NEW i \in clients, SendChunk(i) PROVE ListsInv'
  BY <1>6, LeaveBoth DEF SendChunk, D!CanWriteTCP, D!SentChunk, D!NoLongerListed
<1>7. ASSUME NEW i \in clients, SeeEnd(i) PROVE ListsInv'
  <2>1. /\ chunkRequests' = [k \in Chunk |-> IF k \in clientRequests[i]
                                             THEN chunkRequests[k] \ {i}
                                             ELSE chunkRequests[k]]
        /\ clientRequests' = [clientRequests EXCEPT ![i] = {}]
    BY <1>7, SameProtocolInDemo
    DEF SeeEnd, D!ClientGone, D!ClientDisconnected, D!WithoutWaiter
  <2> QED
    BY <2>1 DEF ListsInv, ListsAgree
<1>8. CASE StartTurn
  BY <1>1, <1>8 DEF StartTurn, D!OpenAll, D!OpenRequests
<1>9. CASE (\E c \in Client : DemoClient(c)) \/ Loss \/ UNCHANGED vars
  BY <1>1, <1>9
  DEF DemoClient, Construct, CanReadTCP, CanReadUDP, CanWriteTCP, CanWriteUDP,
      PeriodicResendRequests, RequestMissing, Terminate, Join, ClientRead,
      ClientWriteChunk, ClientWriteControl, ClientTimer, ClientTurn, Leave,
      Loss, LoseToServer, LoseToClient, vars, serverVars
<1> QED
  BY <1>2, <1>3, <1>4, <1>5, <1>6, <1>7, <1>8, <1>9 DEF DemoNext, DemoServerStep

\* In the earlier version who waits for a chunk and what a client waits for
\* agree at any time, so client_disconnected strikes a client off every list.
THEOREM ListsAlwaysAgree == DemoSpec => []ListsAgree
<1>1. Init => ListsInv
  BY SameProtocol DEF Init, S!Init, ListsInv, ListsAgree
<1>2. ListsInv => ListsAgree
  BY DEF ListsInv
<1> QED
  BY <1>1, <1>2, ListsStep, PTL DEF DemoSpec

(***************************************************************************)
(* The clients of the earlier version.  They keep their books whatever     *)
(* arrives; that only messages and chunks arrive takes the server's        *)
(* buffers to hold nothing else.                                           *)
(***************************************************************************)
\* What the server may have to send, and to whom.
ServerHolds ==
  /\ clients \subseteq ClientId
  /\ reverseLookup \in [ClientId -> Client \cup {"none"}]
  /\ \A i \in clients : reverseLookup[i] \in Client
  /\ serverControl \in [ClientId -> Seq(ControlMessage)]
  /\ serverSends \in [ClientId -> Seq(Chunk)]
  /\ chunkCache \in Seq(Chunk)
  /\ chunksToDistribute \in Seq(Chunk) /\ clientsDistributedTo \in Nat

DemoInv == ClientInv /\ IsNetwork(toServer) /\ IsNetwork(toClient) /\ ServerHolds

LEMMA SameInDemo ==
  /\ \A i, k : D!Req(i, k) = Req(i, k) /\ D!Reg(i, k) = Reg(i, k)
  /\ \A i : D!Open(i) = Open(i) /\ D!Greeting(i) = SP!Greeting(i)
  /\ D!NoAddr = "none" /\ D!ControlMessage = ControlMessage
  /\ \A i : D!DistributeTo(i) = SP!DistributeTo(i)
  /\ \A k : /\ D!Cache!Cached(k) = SP!Cache!Cached(k)
            /\ D!Cache!Hit(k) = SP!Cache!Hit(k)
            /\ D!Cache!Store(k) = SP!Cache!Store(k)
<1>1. /\ \A i, k : D!Req(i, k) = Req(i, k) /\ D!Reg(i, k) = Reg(i, k)
      /\ \A i : D!Open(i) = Open(i)
  BY DEF D!Req, Req, D!Reg, Reg, D!Open, Open
<1>2. \A i : D!Greeting(i) = SP!Greeting(i)
  BY <1>1, SameProtocol DEF D!Greeting, SP!Greeting
<1>3. D!NoAddr = "none" /\ D!ControlMessage = ControlMessage
  BY DEF D!NoAddr, D!ControlMessage, ControlMessage, D!ClientId, ClientId
<1>4. ASSUME NEW i PROVE D!DistributeTo(i) = SP!DistributeTo(i)
  <2>1. D!ClientsToCome = SP!ClientsToCome
    BY DEF D!ClientsToCome, SP!ClientsToCome
  <2>2. \A m, n : D!ChunkLimit(m, n) = SP!ChunkLimit(m, n)
    BY DEF D!ChunkLimit, SP!ChunkLimit
  <2>3. \A lim : D!Deal(i, lim) = SP!Deal(i, lim)
    BY DEF D!Deal, SP!Deal
  <2>4. CASE distributedAll
    BY <2>4 DEF D!DistributeTo, SP!DistributeTo, D!dealVars, SP!dealVars
  <2>5. CASE ~distributedAll
    BY <2>1, <2>2, <2>3, <2>5 DEF D!DistributeTo, SP!DistributeTo
  <2> QED
    BY <2>4, <2>5
<1>5. ASSUME NEW k
      PROVE  /\ D!Cache!Cached(k) = SP!Cache!Cached(k)
             /\ D!Cache!Hit(k) = SP!Cache!Hit(k)
             /\ D!Cache!Store(k) = SP!Cache!Store(k)
  <2>1. D!Cache!Cached(k) = SP!Cache!Cached(k)
    BY DEF D!Cache!Cached, SP!Cache!Cached, D!Cache!Range, SP!Cache!Range
  <2>2. D!Cache!Hit(k) = SP!Cache!Hit(k)
    BY <2>1 DEF D!Cache!Hit, SP!Cache!Hit, D!Cache!RemoveAt, SP!Cache!RemoveAt
  <2>3. D!Cache!Add(k) = SP!Cache!Add(k)
    BY <2>1 DEF D!Cache!Add, SP!Cache!Add, D!Cache!Kept, SP!Cache!Kept,
                D!Cache!Front, SP!Cache!Front
  <2> QED
    BY <2>1, <2>2, <2>3 DEF D!Cache!Store, SP!Cache!Store
<1> QED
  BY <1>1, <1>2, <1>3, <1>4, <1>5

\* The cache keeps chunks only.
LEMMA DemoCache ==
  ASSUME chunkCache \in Seq(Chunk), NEW k \in Chunk,
         D!Cache!Hit(k) \/ D!Cache!Store(k)
  PROVE  chunkCache' \in Seq(Chunk)
BY SameInDemo, SameProtocol, SP!CacheType, ServerAssumptions DEF SP!Cache!Store

USE DEF D!connectionVars, D!dealVars, D!sentVars, D!waitVars

LEMMA DemoAccepts ==
  ASSUME ServerHolds, NEW c \in Client, AcceptClient(c)
  PROVE  ServerHolds'
<1>1. CASE D!Crash
  BY <1>1 DEF D!Crash, ServerHolds
<1> DEFINE n == nextClientId
<1>2. CASE /\ n \in ClientId /\ D!Connect(n, c)
           /\ serverControl' = [serverControl EXCEPT ![n] = D!Greeting(n)]
           /\ D!DistributeTo(n) /\ UNCHANGED chunkCache
  <2>1. /\ clients' = clients \cup {n}
        /\ reverseLookup' = [reverseLookup EXCEPT ![n] = c]
    BY <1>2 DEF D!Connect
  <2>2. /\ clients' \subseteq ClientId
        /\ reverseLookup' \in [ClientId -> Client \cup {"none"}]
        /\ \A i \in clients' : reverseLookup'[i] \in Client
    BY <1>2, <2>1 DEF ServerHolds
  <2>3. serverControl' \in [ClientId -> Seq(ControlMessage)]
    <3>1. SP!Greeting(n) \in Seq(ControlMessage)
      BY <1>2, SP!GreetingFacts, SameProtocol, ServerAssumptions
    <3> QED
      BY <1>2, <3>1, SameInDemo DEF ServerHolds
  <2>4. /\ serverSends' \in [ClientId -> Seq(Chunk)]
        /\ chunksToDistribute' \in Seq(Chunk) /\ clientsDistributedTo' \in Nat
    <3>1. SP!DistributeTo(n)
      BY <1>2, SameInDemo
    <3>2. CASE distributedAll
      BY <3>1, <3>2 DEF SP!DistributeTo, SP!dealVars, ServerHolds
    <3>3. CASE ~distributedAll
      <4>1. SP!Deal(n, SP!NextShare)
        BY <3>1, <3>3 DEF SP!DistributeTo, SP!NextShare
      <4>2. PICK front \in Seq(Chunk) :
              /\ serverSends' = [serverSends EXCEPT ![n] = front]
              /\ chunksToDistribute' \in Seq(Chunk)
        BY <1>2, <4>1, SP!DealEffect, ServerAssumptions, SameProtocol DEF ServerHolds
      <4>3. clientsDistributedTo' = clientsDistributedTo + 1
        BY <4>1 DEF SP!Deal
      <4> QED
        BY <1>2, <4>2, <4>3 DEF ServerHolds
    <3> QED
      BY <3>2, <3>3
  <2> QED
    BY <1>2, <2>2, <2>3, <2>4 DEF ServerHolds
<1> QED
  BY <1>1, <1>2, SameProtocolInDemo DEF AcceptClient, D!AcceptClient, D!AcceptNewClient

LEMMA DemoReads ==
  ASSUME ServerHolds, IsNetwork(toServer), NEW c \in Client, NEW n,
         ReadMessage(c, n) \/ ReadChunk(c)
  PROVE  ServerHolds'
<1>1. CASE D!Crash \/ UNCHANGED D!serverVars
  BY <1>1 DEF D!Crash, D!serverVars, ServerHolds
<1>2. CASE ReadChunk(c)
  <2> DEFINE k == Head(toServer["data"][c])
  <2>1. k \in Chunk /\ D!ReceivedChunk(k)
    <3>1. toServer["data"][c] \in Seq(Chunk)
      BY DEF IsNetwork
    <3> QED
      BY <1>2, <3>1, BufferRange DEF ReadChunk, D!ServeWaiters
  <2> HIDE DEF k
  <2>2. CASE chunkRequests[k] \subseteq clients
    <3>1. serverSends' = [i \in ClientId |-> IF i \in chunkRequests[k]
                                             THEN Append(serverSends[i], k)
                                             ELSE serverSends[i]]
      BY <2>1, <2>2, SameProtocolInDemo DEF D!ReceivedChunk
    <3>2. serverSends' \in [ClientId -> Seq(Chunk)]
      BY <2>1, <3>1, BufferRange DEF ServerHolds
    <3>3. chunkCache' \in Seq(Chunk)
      BY <2>1, <2>2, DemoCache DEF D!ReceivedChunk, ServerHolds
    <3> QED
      BY <2>1, <2>2, <3>2, <3>3 DEF D!ReceivedChunk, ServerHolds
  <2>3. CASE ~ (chunkRequests[k] \subseteq clients)
    BY <1>1, <2>1, <2>3 DEF D!ReceivedChunk
  <2> QED
    BY <2>2, <2>3
<1>3. ASSUME NEW i \in ClientId, NEW m \in ControlMessage, D!SendControl(i, m)
      PROVE  ServerHolds'
  <2>1. serverControl' = [serverControl EXCEPT ![i] = Append(@, m)]
    BY <1>3 DEF D!SendControl, D!Pushed
  <2>2. serverControl' \in [ClientId -> Seq(ControlMessage)]
    BY <1>3, <2>1, BufferRange DEF ServerHolds
  <2> QED
    BY <1>3, <2>2 DEF D!SendControl, ServerHolds
<1>4. CASE ReadMessage(c, n)
  <2> DEFINE m == toServer["control"][c][n]
  <2>1. m \in ControlMessage /\ D!ReceivedControlMsg(c, m)
    <3>1. n \in DOMAIN toServer["control"][c]
      BY <1>4 DEF ReadMessage, Takeable
    <3>2. m \in MessagesOf("control")
      BY <3>1, Taking DEF Kind
    <3> QED
      BY <1>4, <3>2 DEF ReadMessage, MessagesOf
  <2> HIDE DEF m
  <2>2. m.client \in ClientId /\ m.chunk \in 0 .. NumChunks
    BY <2>1 DEF ControlMessage
  <2>3. ASSUME D!ReceivedChunkRequest(m.client, m.chunk) PROVE ServerHolds'
    <3> DEFINE i == m.client
               k == m.chunk
    <3>1. i \in ClientId /\ k \in 0 .. NumChunks
      BY <2>2
    <3> HIDE DEF i, k
    <3>2. CASE D!AnswerCached(i, k)
      <4>1. CASE D!Crash
        BY <1>1, <4>1
      <4>2. CASE ~ D!Crash
        <5>1. k \in Chunk
          <6>1. k \in SP!Cache!Range(chunkCache)
            BY <3>2, SameInDemo DEF D!AnswerCached, D!AnswerFromCache, SP!Cache!Cached
          <6> QED
            BY <6>1 DEF SP!Cache!Range, ServerHolds
        <5>2. /\ serverSends' = [serverSends EXCEPT ![i] = Append(@, k)]
              /\ D!Cache!Hit(k)
              /\ UNCHANGED <<clients, reverseLookup, serverControl,
                             chunksToDistribute, clientsDistributedTo>>
          BY <3>2, <4>2 DEF D!AnswerCached, D!AnswerFromCache, D!Pushed
        <5>3. serverSends' \in [ClientId -> Seq(Chunk)]
          BY <3>1, <5>1, <5>2, BufferRange DEF ServerHolds
        <5>4. chunkCache' \in Seq(Chunk)
          BY <5>1, <5>2, DemoCache DEF ServerHolds
        <5> QED
          BY <5>2, <5>3, <5>4 DEF ServerHolds
      <4> QED
        BY <4>1, <4>2
    <3>3. CASE D!AskOthers(i, k)
      <4>1. D!Req(0, k) \in ControlMessage
        <5>1. Req(0, k) \in ControlMessage
          BY <3>1, MaxClientIdAssumption DEF Req, ControlMessage, ClientId
        <5> QED
          BY <5>1, SameInDemo
      <4>2. serverControl' = [j \in ClientId |-> IF j \in D!Others(i, k)
                                                 THEN Append(serverControl[j], D!Req(0, k))
                                                 ELSE serverControl[j]]
        BY <3>3, SameProtocolInDemo DEF D!AskOthers
      <4>3. serverControl' \in [ClientId -> Seq(ControlMessage)]
        BY <4>1, <4>2, BufferRange DEF ServerHolds
      <4> QED
        BY <3>3, <4>3 DEF D!AskOthers, ServerHolds
    <3> QED
      BY <2>3, <3>2, <3>3 DEF D!ReceivedChunkRequest, i, k
  <2>4. ASSUME D!AnswerOpen(m.client) PROVE ServerHolds'
    <3>1. D!Open(0) \in ControlMessage
      BY SP!MessageTypes, SameProtocol, SameInDemo, ServerAssumptions
    <3> QED
      BY <1>1, <1>3, <2>2, <2>4, <3>1 DEF D!AnswerOpen, D!ReceivedOpen, D!DropOpen
  <2>5. ASSUME D!AnswerReg(c) PROVE ServerHolds'
    <3>1. CASE D!DropReg(c)
      BY <1>1, <3>1 DEF D!DropReg
    <3>2. CASE D!ReceivedReg(c)
      <4>1. lookup[c] \in ClientId /\ D!SendControl(lookup[c], D!Reg(lookup[c], NumChunks))
        BY <3>2 DEF D!ReceivedReg, ServerHolds
      <4>2. D!Reg(lookup[c], NumChunks) \in ControlMessage
        BY <4>1, SP!MessageTypes, SameProtocol, SameInDemo, ServerAssumptions
      <4> QED
        BY <1>3, <4>1, <4>2
    <3> QED
      BY <2>5, <3>1, <3>2 DEF D!AnswerReg
  <2> QED
    BY <2>1, <2>3, <2>4, <2>5 DEF D!ReceivedControlMsg
<1> QED
  BY <1>2, <1>4

LEMMA DemoWrites ==
  ASSUME ServerHolds, IsNetwork(toClient), NEW i \in clients,
         WriteMessage(i) \/ SendChunk(i) \/ SeeEnd(i)
  PROVE  ServerHolds' /\ IsNetwork(toClient')
<1>0. i \in ClientId /\ reverseLookup[i] \in Client /\ "control" \in Kind /\ "data" \in Kind
  BY DEF ServerHolds, Kind
<1>1. CASE WriteMessage(i)
  <2> DEFINE m == Head(serverControl[i])
             d == reverseLookup[i]
  <2>1. /\ serverControl[i] # << >> /\ serverControl[i] \in Seq(ControlMessage)
        /\ serverControl' = [serverControl EXCEPT ![i] = Tail(@)]
    BY <1>0, <1>1 DEF WriteMessage, D!CanWriteUDP, D!WriteControl, D!Popped, ServerHolds
  <2>2. m \in ControlMessage /\ Tail(serverControl[i]) \in Seq(ControlMessage)
    BY <2>1, BufferRange
  <2>3. serverControl' \in [ClientId -> Seq(ControlMessage)]
    BY <1>0, <2>1, <2>2 DEF ServerHolds
  <2>4. ServerHolds'
    BY <1>1, <2>3 DEF WriteMessage, D!CanWriteUDP, D!WriteControl, ServerHolds
  <2>5. toClient' = toClient \/ toClient' = Sent(toClient, "control", d, m)
    BY <1>1 DEF WriteMessage, ServerSent
  <2>6. m \in MessagesOf("control") /\ d \in Client
    BY <1>0, <2>2 DEF MessagesOf
  <2> HIDE DEF m, d
  <2>7. IsNetwork(toClient')
    BY <1>0, <2>5, <2>6, Sending
  <2> QED
    BY <2>4, <2>7
<1>2. CASE SendChunk(i)
  <2> DEFINE m == Head(serverSends[i])
             d == reverseLookup[i]
  <2>1. /\ serverSends[i] # << >> /\ serverSends[i] \in Seq(Chunk)
        /\ serverSends' = [serverSends EXCEPT ![i] = Tail(@)]
    BY <1>0, <1>2 DEF SendChunk, D!CanWriteTCP, D!Popped, ServerHolds
  <2>2. m \in Chunk /\ Tail(serverSends[i]) \in Seq(Chunk)
    BY <2>1, BufferRange
  <2>3. serverSends' \in [ClientId -> Seq(Chunk)]
    BY <1>0, <2>1, <2>2 DEF ServerHolds
  <2>4. ServerHolds'
    BY <1>2, <2>3 DEF SendChunk, D!CanWriteTCP, ServerHolds
  <2>5. toClient' = toClient \/ toClient' = Sent(toClient, "data", d, m)
    BY <1>2 DEF SendChunk, ServerSent
  <2>6. m \in MessagesOf("data") /\ d \in Client
    BY <1>0, <2>2 DEF MessagesOf
  <2> HIDE DEF m, d
  <2>7. IsNetwork(toClient')
    BY <1>0, <2>5, <2>6, Sending
  <2> QED
    BY <2>4, <2>7
<1>3. CASE SeeEnd(i)
  <2>1. /\ clients' = clients \ {i}
        /\ reverseLookup' = [reverseLookup EXCEPT ![i] = "none"]
        /\ serverControl' = [serverControl EXCEPT ![i] = << >>]
        /\ serverSends' = [serverSends EXCEPT ![i] = << >>]
        /\ UNCHANGED <<chunkCache, chunksToDistribute, clientsDistributedTo, toClient>>
    BY <1>3, SameInDemo
    DEF SeeEnd, D!ClientGone, D!ClientDisconnected, netVars
  <2>2. << >> \in Seq(ControlMessage) /\ << >> \in Seq(Chunk)
    OBVIOUS
  <2> QED
    BY <2>1, <2>2 DEF ServerHolds
<1> QED
  BY <1>1, <1>2, <1>3

\* Only what the clients have to send enters the network on their side.
LEMMA DemoClients ==
  ASSUME DemoInv, NEW c \in Client, DemoClient(c)
  PROVE  /\ [ClientNext]_clientVars /\ UNCHANGED serverVars
         /\ IsNetwork(toServer') /\ IsNetwork(toClient')
<1>0. /\ ClientTypeOK /\ IsNetwork(toServer) /\ IsNetwork(toClient)
      /\ "control" \in Kind /\ "data" \in Kind
  BY DEF DemoInv, ClientInv, Kind
<1>1. CASE Join(c) \/ ClientTimer(c) \/ ClientTurn(c) \/ Leave(c)
  <2>1. UNCHANGED <<serverVars, toServer, toClient>>
    BY <1>1 DEF Join, ClientTimer, ClientTurn, Leave, netVars
  <2>2. [ClientNext]_clientVars
    BY <1>1 DEF Join, ClientTimer, ClientTurn, Leave, ClientNext, OwnStep, Arrival
  <2> QED
    BY <1>0, <2>1, <2>2
<1>2. CASE ClientWriteChunk(c)
  <2> DEFINE k == Head(chunkBuffer[c])
  <2>1. chunkBuffer[c] \in Seq(Chunk) /\ chunkBuffer[c] # << >>
    BY <1>0, <1>2 DEF ClientWriteChunk, WriteChunk, ClientTypeOK
  <2>2. k \in MessagesOf("data")
    BY <2>1, BufferRange DEF MessagesOf
  <2>3. toServer' = Sent(toServer, "data", c, k) /\ UNCHANGED <<serverVars, toClient>>
    BY <1>2 DEF ClientWriteChunk
  <2> HIDE DEF k
  <2>4. IsNetwork(toServer')
    BY <1>0, <2>2, <2>3, Sending
  <2>5. ClientNext
    BY <1>2 DEF ClientWriteChunk, ClientNext, OwnStep
  <2> QED
    BY <1>0, <2>3, <2>4, <2>5
<1>3. CASE ClientWriteControl(c)
  <2> DEFINE m == Head(controlMsgBuffer[c])
  <2>1. controlMsgBuffer[c] \in Seq(ControlMessage) /\ controlMsgBuffer[c] # << >>
    BY <1>0, <1>3 DEF ClientWriteControl, WriteControl, ClientTypeOK
  <2>2. m \in MessagesOf("control")
    BY <2>1, BufferRange DEF MessagesOf
  <2>3. toServer' = Sent(toServer, "control", c, m) /\ UNCHANGED <<serverVars, toClient>>
    BY <1>3 DEF ClientWriteControl
  <2> HIDE DEF m
  <2>4. IsNetwork(toServer')
    BY <1>0, <2>2, <2>3, Sending
  <2>5. ClientNext
    BY <1>3 DEF ClientWriteControl, ClientNext, OwnStep
  <2> QED
    BY <1>0, <2>3, <2>4, <2>5
<1>4. ASSUME NEW kind \in Kind, NEW n, ClientRead(c, kind, n)
      PROVE  /\ [ClientNext]_clientVars /\ UNCHANGED serverVars
             /\ IsNetwork(toServer') /\ IsNetwork(toClient')
  <2>1. n \in DOMAIN toClient[kind][c]
    BY <1>4 DEF ClientRead, Takeable
  <2>2. IsNetwork(toClient')
    BY <1>0, <1>4, <2>1, Taking DEF ClientRead
  <2> QED
    BY <1>0, <1>4, <2>2, ReadIsArrival DEF ClientRead
<1> QED
  BY <1>0, <1>1, <1>2, <1>3, <1>4
  DEF DemoClient, Construct, CanReadTCP, CanReadUDP, CanWriteTCP, CanWriteUDP,
      PeriodicResendRequests, RequestMissing, Terminate

LEMMA DemoStep ==
  ASSUME DemoInv, [DemoNext]_vars
  PROVE  DemoInv' /\ [ClientNext]_clientVars
<1>0. /\ ClientInv /\ IsNetwork(toServer) /\ IsNetwork(toClient) /\ ServerHolds
      /\ "control" \in Kind /\ "data" \in Kind
  BY DEF DemoInv, Kind
<1>1. [ClientNext]_clientVars => ClientInv'
  BY <1>0, ClientTypeStep, BooksStep DEF ClientInv
<1>2. ASSUME NEW net, IsNetwork(net), NEW kind \in Kind, NEW c \in Client, NEW n,
             n \in Takeable(kind, net[kind][c])
      PROVE  IsNetwork(Taken(net, kind, c, n))
  BY <1>2, Taking DEF Takeable
<1>3. ASSUME UNCHANGED clientVars, ServerHolds', IsNetwork(toServer'), IsNetwork(toClient')
      PROVE  DemoInv' /\ [ClientNext]_clientVars
  BY <1>1, <1>3 DEF DemoInv
<1>4. ASSUME NEW c \in Client, DemoClient(c) PROVE DemoInv' /\ [ClientNext]_clientVars
  <2>1. /\ [ClientNext]_clientVars /\ UNCHANGED serverVars
        /\ IsNetwork(toServer') /\ IsNetwork(toClient')
    BY <1>4, DemoClients
  <2>2. ServerHolds'
    BY <1>0, <2>1 DEF ServerHolds, serverVars
  <2> QED
    BY <1>1, <2>1, <2>2 DEF DemoInv
<1>5. ASSUME NEW c \in Client, AcceptClient(c) PROVE DemoInv' /\ [ClientNext]_clientVars
  <2>1. UNCHANGED <<clientVars, toServer, toClient>>
    BY <1>5 DEF AcceptClient
  <2> QED
    BY <1>0, <1>3, <1>5, <2>1, DemoAccepts
<1>6. ASSUME NEW c \in Client, NEW n, ReadMessage(c, n)
      PROVE  DemoInv' /\ [ClientNext]_clientVars
  <2>1. UNCHANGED <<clientVars, toClient>> /\ IsNetwork(toServer')
    BY <1>0, <1>2, <1>6 DEF ReadMessage
  <2> QED
    BY <1>0, <1>3, <1>6, <2>1, DemoReads
<1>7. ASSUME NEW c \in Client, ReadChunk(c) PROVE DemoInv' /\ [ClientNext]_clientVars
  <2>1. 1 \in DOMAIN toServer["data"][c]
    <3>1. toServer["data"][c] \in Seq(Chunk) /\ toServer["data"][c] # << >>
      BY <1>0, <1>7 DEF IsNetwork, ReadChunk
    <3> QED
      BY <3>1
  <2>2. UNCHANGED <<clientVars, toClient>> /\ IsNetwork(toServer')
    BY <1>0, <1>7, <2>1, Taking DEF ReadChunk
  <2> QED
    BY <1>0, <1>3, <1>7, <2>2, DemoReads
<1>8. ASSUME NEW i \in clients, WriteMessage(i) \/ SendChunk(i) \/ SeeEnd(i)
      PROVE  DemoInv' /\ [ClientNext]_clientVars
  <2>1. UNCHANGED <<clientVars, toServer>>
    BY <1>8 DEF WriteMessage, SendChunk, SeeEnd, netVars
  <2> QED
    BY <1>0, <1>3, <1>8, <2>1, DemoWrites
<1>9. CASE StartTurn
  <2>1. /\ UNCHANGED <<clientVars, toServer, toClient>>
        /\ UNCHANGED <<clients, reverseLookup, serverSends, chunkCache,
                       chunksToDistribute, clientsDistributedTo>>
        /\ serverControl' =
             [i \in ClientId |-> IF i \in clients
                                 THEN Append(serverControl[i], D!Open(0))
                                 ELSE serverControl[i]]
    BY <1>9, SameProtocolInDemo DEF StartTurn, D!OpenAll, D!OpenRequests, netVars
  <2>2. D!Open(0) \in ControlMessage
    BY SP!MessageTypes, SameProtocol, SameInDemo, ServerAssumptions
  <2>3. serverControl' \in [ClientId -> Seq(ControlMessage)]
    BY <1>0, <2>1, <2>2, BufferRange DEF ServerHolds
  <2>4. ServerHolds'
    BY <1>0, <2>1, <2>3 DEF ServerHolds
  <2> QED
    BY <1>0, <1>3, <2>1, <2>4
<1>10. CASE Loss
  <2>1. UNCHANGED <<clientVars, serverVars>>
    BY <1>10 DEF Loss, LoseToServer, LoseToClient
  <2>2. IsNetwork(toServer') /\ IsNetwork(toClient')
    BY <1>0, <1>10, Taking DEF Loss, LoseToServer, LoseToClient
  <2>3. ServerHolds'
    BY <1>0, <2>1 DEF ServerHolds, serverVars
  <2> QED
    BY <1>3, <2>1, <2>2, <2>3
<1>11. CASE UNCHANGED vars
  <2>1. UNCHANGED <<clientVars, serverVars, toServer, toClient>>
    BY <1>11 DEF vars, netVars
  <2>2. ServerHolds'
    BY <1>0, <2>1 DEF ServerHolds, serverVars
  <2> QED
    BY <1>0, <1>3, <2>1, <2>2
<1> QED
  BY <1>4, <1>5, <1>6, <1>7, <1>8, <1>9, <1>10, <1>11 DEF DemoNext, DemoServerStep

\* Among the server of the earlier version, which asks all the other clients
\* for every chunk it has not cached, the clients still keep their books: no
\* chunk is forgotten or requested twice, the counter is exact and the file
\* saved once, and every queued answer is held.
THEOREM DemoClientsKeepBooks ==
  DemoSpec => /\ ClientSpec
              /\ [](NoChunkForgotten /\ OneRequestPerChunk)
              /\ [](SavedExactlyOnce /\ AnswersHeld)
<1>1. Init => DemoInv /\ ClientInit
  <2> SUFFICES ASSUME Init PROVE DemoInv /\ ClientInit
    OBVIOUS
  <2>1. SystemInv /\ SP!IInv
    BY SystemInit DEF SystemInv
  <2>2. ServerHolds
    BY <2>1, ServerFacts, SameProtocol DEF ServerHolds, SP!IInv, SP!TypeOK
  <2> QED
    BY <2>1, <2>2 DEF DemoInv, SystemInv, NetTypeOK, Init
<1>2. DemoInv /\ [DemoNext]_vars => DemoInv' /\ [ClientNext]_clientVars
  BY DemoStep
<1>3. DemoInv => NoChunkForgotten /\ OneRequestPerChunk /\ SavedExactlyOnce /\ AnswersHeld
  BY DEF DemoInv, ClientInv, Kept, BooksKept, NoRepeats, CountersKept, CounterExact,
         AnswersKept, NoChunkForgotten, OneRequestPerChunk, SavedExactlyOnce, AnswersHeld
<1> QED
  BY <1>1, <1>2, <1>3, PTL DEF DemoSpec, ClientSpec
=============================================================================
