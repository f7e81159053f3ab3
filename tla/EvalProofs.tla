----------------------------- MODULE EvalProofs ------------------------------
(***************************************************************************)
(* Proofs about the eval2 variant, for any number of clients and ids, any  *)
(* odd number of chunks, buffers and channels of any size, any number of   *)
(* lost datagrams, and any value _tot_chunks happens to have.              *)
(*                                                                         *)
(* The properties speak of what clients store.  They follow from what is   *)
(* on its way there: which chunks are asked for and answered, in whose     *)
(* buffers answers are, and where the greeting of a client that has not    *)
(* registered is.                                                          *)
(***************************************************************************)
EXTENDS Eval, FiniteSetTheorems, BufferTheorems

Odd(k) == k % 2 = 1

\* Requests name odd chunks, and there are none before the first client came.
Asks(s) == \A m \in Range(s) :
  m.msgtype = "REQ" => m.chunk \in Chunk /\ Odd(m.chunk) /\ nextClientId > 0
Answering(s) == \A m \in Range(s) : Odd(m.id)

OddOnTheWay ==
  /\ \A c \in Client : /\ Odd(nextChunkIdx[c])
                       /\ Asks(clientControl[c]) /\ Asks(requests[c])
                       /\ Answering(answers[c]) /\ Answering(recvChunkCache[c])
  /\ \A i \in ClientId : Answering(serverSends[i])

\* Connections, ids and addresses belong together, and an id without a
\* connection has nothing queued.
Identities ==
  /\ \A i \in clients : reverseLookup[i] \in Client /\ lookup[reverseLookup[i]] = i
  /\ \A c \in Client : lookup[c] # NoId =>
       lookup[c] \in clients /\ reverseLookup[lookup[c]] = c
  /\ \A c \in Client : conn[c] \in {"new", "backlog"} => lookup[c] = NoId
  /\ \A i \in ClientId \ clients : reverseLookup[i] = NoAddr
                                   /\ serverControl[i] = << >> /\ serverSends[i] = << >>

\* Only a client that the server knows is registered or hears from it.
Known ==
  /\ \A c \in Client : registered[c] => clientId[c] \in ClientId /\ nextClientId > 0
  /\ \A c \in Client : replies[c] # << >> => nextClientId > 0

\* Answers are with the first client, or with one that has ended.
FirstOnly ==
  /\ \A i \in ClientId : serverSends[i] # << >> => i = 0
  /\ \A c \in Client : answers[c] # << >> => reverseLookup[0] = c \/ ~running[c]
  /\ \A c \in Client : conn[c] = "closed" => ~running[c]

\* The greeting of a client that has not registered is on its way (or lost), or
\* the server sends it next and nothing else is on its way.
Fits(m) == m.msgtype = "REG" /\ m.chunk = NumChunks
GreetingOut(c) == \E m \in Range(replies[c]) : Fits(m)
GreetingNext(c) ==
  /\ replies[c] = << >>
  /\ \A i \in clients : reverseLookup[i] = c =>
       serverControl[i] # << >> /\ Fits(Head(serverControl[i]))
Greeted == \A c \in Client :
  ~registered[c] /\ conn[c] # "closed" => GreetingOut(c) \/ GreetingNext(c)

\* The inductive invariant.
EInv ==
  /\ TypeOK /\ ListsAgree /\ OddOnTheWay /\ Identities /\ Known /\ FirstOnly /\ Greeted
  /\ GenuineOnly /\ OddChunksOnly /\ OnlyTheFirstIsServed /\ OverrunWithoutGreeting

-----------------------------------------------------------------------------
(***************************************************************************)
(* Types in three parts, and buffers of requests.                          *)
(***************************************************************************)
Texts == [Chunk -> {"none", "genuine", "corrupted"}]

ClientTypes ==
  /\ running \in [Client -> BOOLEAN]
  /\ registered \in [Client -> BOOLEAN]
  /\ clientId \in [Client -> ClientId \cup {NoId}]
  /\ canRequest \in [Client -> BOOLEAN]
  /\ chunks \in [Client -> Texts]
  /\ numRcvd \in [Client -> Nat]
  /\ recvChunkCache \in [Client -> Seq(Answer)]
  /\ nextChunkIdx \in [Client -> Chunk]
  /\ clientControl \in [Client -> Seq(Message)]
  /\ savedFile \in [Client -> BOOLEAN]
  /\ file \in [Client -> Texts]
  /\ outOfRange \in [Client -> BOOLEAN]

ServerTypes ==
  /\ crashed \in BOOLEAN
  /\ totChunks \in UnsetTotals
  /\ nextClientId \in 0 .. (MaxClientId + 1)
  /\ clients \subseteq 0 .. (nextClientId - 1)
  /\ lookup \in [Client -> ClientId \cup {NoId}]
  /\ reverseLookup \in [ClientId -> Client \cup {NoAddr}]
  /\ serverControl \in [ClientId -> Seq(Message)]
  /\ serverSends \in [ClientId -> Seq(Answer)]
  /\ chunkRequests \in [Chunk -> SUBSET ClientId]
  /\ clientRequests \in [ClientId -> SUBSET Chunk]

NetTypes ==
  /\ conn \in [Client -> {"new", "backlog", "open", "closed"}]
  /\ requests \in [Client -> Seq(Message)]
  /\ replies \in [Client -> Seq(Message)]
  /\ answers \in [Client -> Seq(Answer)]
  /\ asking \in 0 .. MaxAsking

LEMMA TypeParts ==
  /\ TypeOK => ClientTypes /\ ServerTypes /\ NetTypes
  /\ ClientTypes /\ ServerTypes /\ NetTypes => TypeOK
  /\ ClientTypes' /\ ServerTypes' /\ NetTypes' => TypeOK'
BY DEF TypeOK, ClientTypes, ServerTypes, NetTypes, Texts

\* The request sequence never leaves the odd chunks.
LEMMA SequenceOdd ==
  ASSUME NEW k \in Chunk, Odd(k)
  PROVE  ChunkAfter(k) \in Chunk /\ Odd(ChunkAfter(k))
<1>1. /\ NumChunks \in Nat /\ NumChunks > 1 /\ NumChunks % 2 = 1
      /\ k \in Nat /\ k % 2 = 1
  BY NumChunksAssumption, EvalAssumption DEF Chunk, Odd
<1> DEFINE n == LastChunk \div 2
           j == (k + 1) \div 2
<1>2. n \in Nat /\ n > 0 /\ LastChunk = 2 * n
  BY <1>1 DEF LastChunk
<1>3. j \in Nat /\ k + 1 = 2 * j
  BY <1>1
<1> HIDE DEF n, j
<1>4. (k + 1) % LastChunk = 2 * (j % n) /\ j % n \in 0 .. n - 1
  <2>1. /\ j \div n \in Nat /\ j % n \in Nat /\ j % n < n
        /\ j = n * (j \div n) + (j % n)
    BY <1>2, <1>3
  <2>2. /\ LastChunk \in Nat /\ LastChunk > 0 /\ k + 1 \in Nat
        /\ (k + 1) \div LastChunk \in Nat /\ (k + 1) % LastChunk \in Nat
        /\ (k + 1) % LastChunk < LastChunk
        /\ k + 1 = LastChunk * ((k + 1) \div LastChunk) + ((k + 1) % LastChunk)
    BY <1>1, <1>2
  <2>3. ASSUME NEW a \in Nat, NEW b \in Nat, NEW x \in 0 .. 2 * n - 1,
               NEW y \in 0 .. 2 * n - 1, (2 * n) * a + x = (2 * n) * b + y
        PROVE  x = y
    <3>1. ASSUME NEW d \in Nat, NEW e \in Nat, d < e PROVE (2 * n) * d + 2 * n <= (2 * n) * e
      <4>1. PICK z \in Nat : e = d + 1 + z
        <5>1. e - d - 1 \in Nat /\ e = d + 1 + (e - d - 1)
          BY <3>1
        <5> QED
          BY <5>1
      <4>2. (2 * n) * e = (2 * n) * d + 2 * n + (2 * n) * z /\ (2 * n) * z \in Nat
        BY <1>2, <4>1
      <4> QED
        BY <1>2, <4>2
    <3>2. (2 * n) * a \in Nat /\ (2 * n) * b \in Nat
      BY <1>2
    <3>3. ~ (a < b)
      <4>1. a < b => (2 * n) * a + 2 * n <= (2 * n) * b
        BY <3>1
      <4> QED
        BY <1>2, <2>3, <3>2, <4>1
    <3>4. ~ (b < a)
      <4>1. b < a => (2 * n) * b + 2 * n <= (2 * n) * a
        BY <3>1
      <4> QED
        BY <1>2, <2>3, <3>2, <4>1
    <3>5. a = b
      BY <3>3, <3>4
    <3> QED
      BY <1>2, <2>3, <3>2, <3>5
  <2> DEFINE a == (k + 1) \div LastChunk
             x == (k + 1) % LastChunk
             b == j \div n
             y == j % n
  <2>4. a \in Nat /\ x \in 0 .. 2 * n - 1 /\ k + 1 = (2 * n) * a + x
    BY <1>2, <2>2
  <2>5. b \in Nat /\ y \in 0 .. n - 1 /\ j = n * b + y
    BY <1>2, <2>1
  <2> HIDE DEF a, x, b, y
  <2>6. 2 * y \in 0 .. 2 * n - 1 /\ k + 1 = (2 * n) * b + 2 * y
    BY <1>2, <1>3, <2>5
  <2>7. (2 * n) * a + x = (2 * n) * b + 2 * y
    BY <2>4, <2>6
  <2>8. x = 2 * y
    BY <2>3, <2>4, <2>5, <2>6, <2>7
  <2> QED
    BY <2>5, <2>8 DEF x, y
<1>5. ChunkAfter(k) = 2 * (j % n) + 1
  BY <1>4 DEF ChunkAfter
<1>6. ChunkAfter(k) \in Nat /\ ChunkAfter(k) <= LastChunk /\ ChunkAfter(k) % 2 = 1
  BY <1>2, <1>4, <1>5
<1> QED
  BY <1>1, <1>6 DEF Chunk, LastChunk, Odd

\* A message added to what a client asks, and what is left of it.
LEMMA AsksPushed ==
  ASSUME NEW s \in Seq(Message), NEW m \in Message,
         m.msgtype = "REQ" => m.chunk \in Chunk /\ Odd(m.chunk) /\ nextClientId > 0
  PROVE  /\ Append(s, m) \in Seq(Message)
         /\ Asks(s) => Asks(Append(s, m))
BY BufferRange DEF Asks

LEMMA MessageFacts ==
  ASSUME NEW i \in ClientId
  PROVE  /\ \A k \in Chunk : /\ Req(i, k) \in Message /\ Req(i, k).chunk = k
                             /\ Req(i, k).client = i /\ Req(i, k).msgtype = "REQ"
         /\ \A n \in Int : /\ Reg(i, n) \in Message /\ Reg(i, n).chunk = n
                           /\ Reg(i, n).msgtype = "REG"
         /\ Open(i) \in Message /\ Open(i).msgtype = "OPEN"
         /\ 0 \in ClientId /\ NoId \notin ClientId
BY MaxClientIdAssumption, NumChunksAssumption
DEF Req, Reg, Open, Message, Chunk, ClientId, NoId

-----------------------------------------------------------------------------
(***************************************************************************)
(* Steps of client c.  The server's tables stay as they are.               *)
(***************************************************************************)
LEMMA ClientFrame ==
  ASSUME EInv, UNCHANGED serverVars
  PROVE  /\ ServerTypes' /\ ListsAgree'
         /\ conn' = conn => Identities'
         /\ UNCHANGED <<crashed, totChunks, clients, nextClientId, lookup, reverseLookup,
                        serverControl, serverSends>>
BY TypeParts
DEF EInv, serverVars, tableVars, waitVars, ServerTypes, ListsAgree, Identities

LEMMA OddChanged ==
  ASSUME OddOnTheWay, NEW c \in Client, nextClientId' = nextClientId,
         serverSends' = serverSends,
         \A d \in Client \ {c} :
           /\ nextChunkIdx'[d] = nextChunkIdx[d]
           /\ clientControl'[d] = clientControl[d] /\ requests'[d] = requests[d]
           /\ answers'[d] = answers[d] /\ recvChunkCache'[d] = recvChunkCache[d],
         Odd(nextChunkIdx[c])', Asks(clientControl[c])', Asks(requests[c])',
         Answering(answers[c])', Answering(recvChunkCache[c])'
  PROVE  OddOnTheWay'
BY DEF OddOnTheWay, Asks, Answering

LEMMA JoinStep ==
  ASSUME EInv, NEW c \in Client, Join(c)
  PROVE  EInv'
<1>1. /\ conn[c] = "new" /\ conn' = [conn EXCEPT ![c] = "backlog"]
      /\ UNCHANGED <<running, registered, clientId, canRequest, chunks, numRcvd,
                     savedFile, file, recvChunkCache, nextChunkIdx, clientControl,
                     outOfRange>>
      /\ UNCHANGED <<requests, replies, answers, asking>>
      /\ UNCHANGED serverVars
  BY DEF Join, clientVars, regVars, storeVars
<1>2. /\ ServerTypes' /\ ListsAgree'
      /\ UNCHANGED <<crashed, totChunks, clients, nextClientId, lookup, reverseLookup,
                     serverControl, serverSends>>
  BY <1>1, ClientFrame
<1>3. ClientTypes' /\ NetTypes'
  BY <1>1, TypeParts DEF EInv, ClientTypes, NetTypes
<1>4. OddOnTheWay' /\ Known' /\ Greeted'
  BY <1>1, <1>2 DEF EInv, OddOnTheWay, Asks, Answering, Known, Greeted, GreetingNext, GreetingOut, Fits
<1>5. Identities' /\ FirstOnly'
  BY <1>1, <1>2, TypeParts DEF EInv, Identities, FirstOnly, NetTypes
<1>6. GenuineOnly' /\ OddChunksOnly' /\ OnlyTheFirstIsServed' /\ OverrunWithoutGreeting'
  BY <1>1, <1>2
  DEF EInv, GenuineOnly, OddChunksOnly, OnlyTheFirstIsServed, OverrunWithoutGreeting
<1> QED
  BY <1>2, <1>3, <1>4, <1>5, <1>6, TypeParts DEF EInv

LEMMA SendRequestStep ==
  ASSUME EInv, NEW c \in Client, SendRequest(c)
  PROVE  EInv'
<1>1. /\ clientControl[c] # << >>
      /\ clientControl' = [clientControl EXCEPT ![c] = Tail(@)]
      /\ requests' = [requests EXCEPT ![c] = Deliver(@, Head(clientControl[c]))]
      /\ UNCHANGED <<running, registered, clientId, canRequest, chunks, numRcvd,
                     savedFile, file, recvChunkCache, nextChunkIdx, outOfRange>>
      /\ UNCHANGED <<conn, replies, answers, asking>>
      /\ UNCHANGED serverVars
  BY DEF SendRequest, WriteControl, regVars, storeVars
<1>2. /\ ServerTypes' /\ ListsAgree' /\ Identities'
      /\ UNCHANGED <<crashed, totChunks, clients, nextClientId, lookup, reverseLookup,
                     serverControl, serverSends>>
  BY <1>1, ClientFrame
<1>3. ClientTypes /\ NetTypes /\ OddOnTheWay
  BY TypeParts DEF EInv
<1> DEFINE m == Head(clientControl[c])
<1>4. clientControl[c] \in Seq(Message) /\ requests[c] \in Seq(Message)
  BY <1>3 DEF ClientTypes, NetTypes
<1>5. /\ m \in Message /\ m \in Range(clientControl[c])
      /\ Tail(clientControl[c]) \in Seq(Message)
      /\ Range(Tail(clientControl[c])) \subseteq Range(clientControl[c])
  BY <1>1, <1>4, BufferRange
<1> HIDE DEF m
<1>6. /\ Deliver(requests[c], m) \in Seq(Message)
      /\ Range(Deliver(requests[c], m)) \subseteq Range(requests[c]) \cup {m}
  BY <1>4, <1>5, BufferRange DEF Deliver
<1>7. /\ clientControl'[c] = Tail(clientControl[c])
      /\ requests'[c] = Deliver(requests[c], m)
      /\ \A d \in Client \ {c} : /\ clientControl'[d] = clientControl[d]
                                 /\ requests'[d] = requests[d]
  BY <1>1, <1>3 DEF ClientTypes, NetTypes, m
<1>8. ClientTypes' /\ NetTypes'
  <2>1. /\ clientControl' \in [Client -> Seq(Message)]
        /\ requests' \in [Client -> Seq(Message)]
    BY <1>1, <1>3, <1>5, <1>6 DEF ClientTypes, NetTypes, m
  <2> QED
    BY <1>1, <1>3, <2>1 DEF ClientTypes, NetTypes
<1>9. OddOnTheWay'
  <2>1. Asks(clientControl[c]) /\ Asks(requests[c])
    BY <1>3 DEF OddOnTheWay
  <2>2. Asks(clientControl[c])' /\ Asks(requests[c])'
    BY <1>2, <1>5, <1>6, <1>7, <2>1 DEF Asks
  <2>3. /\ Odd(nextChunkIdx[c])' /\ Answering(answers[c])'
        /\ Answering(recvChunkCache[c])'
    BY <1>1, <1>3 DEF OddOnTheWay, Answering
  <2> QED
    BY <1>1, <1>2, <1>3, <1>7, <2>2, <2>3, OddChanged
<1>10. Known' /\ FirstOnly' /\ Greeted'
  BY <1>1, <1>2 DEF EInv, Known, FirstOnly, Greeted, GreetingNext, GreetingOut, Fits
<1>11. GenuineOnly' /\ OddChunksOnly' /\ OnlyTheFirstIsServed' /\ OverrunWithoutGreeting'
  BY <1>1, <1>2
  DEF EInv, GenuineOnly, OddChunksOnly, OnlyTheFirstIsServed, OverrunWithoutGreeting
<1> QED
  BY <1>2, <1>8, <1>9, <1>10, <1>11, TypeParts DEF EInv

\* A client that asks something: a message joins those it has queued.
LEMMA AskStep ==
  ASSUME EInv, NEW c \in Client, NEW m \in Message,
         m.msgtype = "REQ" => m.chunk \in Chunk /\ Odd(m.chunk) /\ nextClientId > 0,
         clientControl' = Asked(c, m),
         UNCHANGED <<running, registered, clientId, canRequest, chunks, numRcvd,
                     savedFile, file, recvChunkCache, outOfRange>>,
         \/ nextChunkIdx' = nextChunkIdx
         \/ nextChunkIdx' = [nextChunkIdx EXCEPT ![c] = ChunkAfter(@)],
         \/ UNCHANGED answers
         \/ answers[c] # << >> /\ answers' = [answers EXCEPT ![c] = Tail(@)],
         asking' \in 0 .. MaxAsking,
         UNCHANGED <<conn, requests, replies>>,
         UNCHANGED serverVars
  PROVE  EInv'
<1>1. ClientTypes /\ NetTypes /\ OddOnTheWay
  BY TypeParts DEF EInv
<1>2. /\ ServerTypes' /\ ListsAgree' /\ Identities'
      /\ UNCHANGED <<crashed, totChunks, clients, nextClientId, lookup, reverseLookup,
                     serverControl, serverSends>>
  BY ClientFrame
<1>3. clientControl[c] \in Seq(Message) /\ Asks(clientControl[c])
  BY <1>1 DEF ClientTypes, OddOnTheWay
<1>4. /\ Append(clientControl[c], m) \in Seq(Message)
      /\ Asks(Append(clientControl[c], m))
  BY <1>3, AsksPushed
<1>5. /\ clientControl' \in [Client -> Seq(Message)]
      /\ clientControl'[c] = Append(clientControl[c], m)
      /\ \A d \in Client \ {c} : clientControl'[d] = clientControl[d]
  BY <1>1, <1>4 DEF ClientTypes, Asked
<1>6. /\ nextChunkIdx' \in [Client -> Chunk] /\ Odd(nextChunkIdx'[c])
      /\ \A d \in Client \ {c} : nextChunkIdx'[d] = nextChunkIdx[d]
  <2>1. nextChunkIdx \in [Client -> Chunk] /\ Odd(nextChunkIdx[c])
    BY <1>1 DEF ClientTypes, OddOnTheWay
  <2>2. ChunkAfter(nextChunkIdx[c]) \in Chunk /\ Odd(ChunkAfter(nextChunkIdx[c]))
    BY <2>1, SequenceOdd
  <2> QED
    BY <2>1, <2>2
<1>7. /\ answers' \in [Client -> Seq(Answer)]
      /\ Range(answers'[c]) \subseteq Range(answers[c])
      /\ answers'[c] # << >> => answers[c] # << >>
      /\ \A d \in Client \ {c} : answers'[d] = answers[d]
  <2>1. answers \in [Client -> Seq(Answer)] /\ answers[c] \in Seq(Answer)
    BY <1>1 DEF NetTypes
  <2>2. answers[c] # << >> => /\ Tail(answers[c]) \in Seq(Answer)
                              /\ Range(Tail(answers[c])) \subseteq Range(answers[c])
    BY <2>1, BufferRange
  <2> QED
    BY <2>1, <2>2
<1>8. ClientTypes' /\ NetTypes'
  BY <1>1, <1>5, <1>6, <1>7 DEF ClientTypes, NetTypes
<1>9. OddOnTheWay'
  <2>1. Asks(clientControl[c])' /\ Asks(requests[c])'
    BY <1>1, <1>2, <1>4, <1>5 DEF Asks, OddOnTheWay
  <2>2. Odd(nextChunkIdx[c])' /\ Answering(answers[c])' /\ Answering(recvChunkCache[c])'
    BY <1>1, <1>6, <1>7 DEF OddOnTheWay, Answering
  <2> QED
    BY <1>1, <1>2, <1>5, <1>6, <1>7, <2>1, <2>2, OddChanged
<1>10. Known' /\ FirstOnly' /\ Greeted'
  <2>1. Known' /\ Greeted'
    BY <1>2 DEF EInv, Known, Greeted, GreetingNext, GreetingOut, Fits
  <2>2. FirstOnly'
    BY <1>2, <1>7 DEF EInv, FirstOnly
  <2> QED
    BY <2>1, <2>2
<1>11. GenuineOnly' /\ OddChunksOnly' /\ OnlyTheFirstIsServed' /\ OverrunWithoutGreeting'
  BY <1>2 DEF EInv, GenuineOnly, OddChunksOnly, OnlyTheFirstIsServed, OverrunWithoutGreeting
<1> QED
  BY <1>2, <1>8, <1>9, <1>10, <1>11, TypeParts DEF EInv

LEMMA TimerStep ==
  ASSUME EInv, NEW c \in Client, Timer(c)
  PROVE  EInv'
<1>1. /\ UNCHANGED <<running, registered, clientId, canRequest, chunks, numRcvd,
                     savedFile, file, recvChunkCache, outOfRange>>
      /\ nextChunkIdx' = nextChunkIdx
      /\ UNCHANGED answers
      /\ UNCHANGED <<conn, requests, replies>>
      /\ UNCHANGED serverVars
      /\ asking < MaxAsking /\ asking' = asking + 1
  BY DEF Timer, PeriodicResend, regVars, storeVars
<1>2. asking' \in 0 .. MaxAsking
  BY <1>1, EvalAssumption, TypeParts DEF EInv, NetTypes
<1>3. \E m \in Message : m.msgtype # "REQ" /\ clientControl' = Asked(c, m)
  <2>1. CASE ~registered[c] /\ clientControl' = Asked(c, Reg(0, 0))
    BY <2>1, MessageFacts, MaxClientIdAssumption DEF ClientId
  <2>2. CASE registered[c] /\ clientControl' = Asked(c, Open(clientId[c]))
    BY <2>2, MessageFacts DEF EInv, Known
  <2> QED
    BY <2>1, <2>2 DEF Timer, PeriodicResend
<1> QED
  BY <1>1, <1>2, <1>3, AskStep

LEMMA TurnStep ==
  ASSUME EInv, NEW c \in Client, Turn(c)
  PROVE  EInv'
<1>1. /\ UNCHANGED <<running, registered, clientId, canRequest, chunks, numRcvd,
                     savedFile, file, recvChunkCache, outOfRange>>
      /\ nextChunkIdx' = [nextChunkIdx EXCEPT ![c] = ChunkAfter(@)]
      /\ UNCHANGED answers
      /\ UNCHANGED <<conn, requests, replies>>
      /\ UNCHANGED serverVars
      /\ asking' = asking /\ registered[c]
      /\ clientControl' = Asked(c, Req(clientId[c], nextChunkIdx[c]))
  BY DEF Turn, RequestNext, regVars, storeVars, netVars
<1>2. asking' \in 0 .. MaxAsking
  BY <1>1, TypeParts DEF EInv, NetTypes
<1>3. /\ nextChunkIdx[c] \in Chunk /\ Odd(nextChunkIdx[c])
      /\ clientId[c] \in ClientId /\ nextClientId > 0
  BY <1>1, TypeParts DEF EInv, ClientTypes, OddOnTheWay, Known
<1>4. /\ Req(clientId[c], nextChunkIdx[c]) \in Message
      /\ Req(clientId[c], nextChunkIdx[c]).chunk = nextChunkIdx[c]
  BY <1>3, MessageFacts
<1> QED
  BY <1>1, <1>2, <1>3, <1>4, AskStep

LEMMA EndStep ==
  ASSUME EInv, NEW c \in Client, End(c)
  PROVE  EInv'
<1>1. /\ running' = [running EXCEPT ![c] = FALSE]
      /\ conn' = [conn EXCEPT ![c] = "closed"]
      /\ UNCHANGED <<registered, clientId, canRequest, chunks, numRcvd, savedFile,
                     file, recvChunkCache, nextChunkIdx, clientControl, outOfRange>>
      /\ UNCHANGED <<requests, replies, answers, asking>>
      /\ UNCHANGED serverVars
  BY DEF End, Finish, Disconnected, regVars, storeVars
<1>2. /\ ServerTypes' /\ ListsAgree'
      /\ UNCHANGED <<crashed, totChunks, clients, nextClientId, lookup, reverseLookup,
                     serverControl, serverSends>>
  BY <1>1, ClientFrame
<1>3. ClientTypes' /\ NetTypes'
  BY <1>1, TypeParts DEF EInv, ClientTypes, NetTypes
<1>4. OddOnTheWay' /\ Known' /\ Greeted'
  BY <1>1, <1>2 DEF EInv, OddOnTheWay, Asks, Answering, Known, Greeted, GreetingNext, GreetingOut, Fits
<1>5. Identities' /\ FirstOnly'
  BY <1>1, <1>2, TypeParts DEF EInv, Identities, FirstOnly, NetTypes, ClientTypes
<1>6. GenuineOnly' /\ OddChunksOnly' /\ OnlyTheFirstIsServed' /\ OverrunWithoutGreeting'
  BY <1>1, <1>2, TypeParts
  DEF EInv, GenuineOnly, OddChunksOnly, OnlyTheFirstIsServed, OverrunWithoutGreeting,
      ClientTypes
<1> QED
  BY <1>2, <1>3, <1>4, <1>5, <1>6, TypeParts DEF EInv

-----------------------------------------------------------------------------
(***************************************************************************)
(* Client c reads an answer.  It is with the first client, names an odd    *)
(* chunk, and is stored only if the text is the genuine one.               *)
(***************************************************************************)
LEMMA AnswerRead ==
  ASSUME EInv, NEW c \in Client, answers[c] # << >>, Alive(c)
  PROVE  /\ Head(answers[c]) \in Answer /\ Odd(Head(answers[c]).id)
         /\ Tail(answers[c]) \in Seq(Answer)
         /\ Range(Tail(answers[c])) \subseteq Range(answers[c])
         /\ reverseLookup[0] = c
<1>1. answers[c] \in Seq(Answer) /\ Answering(answers[c])
  BY TypeParts DEF EInv, NetTypes, OddOnTheWay
<1>2. /\ Head(answers[c]) \in Answer /\ Head(answers[c]) \in Range(answers[c])
      /\ Tail(answers[c]) \in Seq(Answer)
      /\ Range(Tail(answers[c])) \subseteq Range(answers[c])
  BY <1>1, BufferRange
<1>3. reverseLookup[0] = c
  BY DEF EInv, FirstOnly, Alive
<1> QED
  BY <1>1, <1>2, <1>3 DEF Answering

LEMMA StoreStep ==
  ASSUME EInv, NEW c \in Client, answers[c] # << >>, Alive(c),
         StoreChunk(c, Head(answers[c])),
         answers' = [answers EXCEPT ![c] = Tail(@)],
         UNCHANGED <<running, regVars, recvChunkCache, nextChunkIdx, outOfRange>>,
         UNCHANGED <<conn, requests, replies, asking>>,
         UNCHANGED serverVars
  PROVE  EInv'
<1> DEFINE m == Head(answers[c])
<1>0. ClientTypes /\ NetTypes /\ OddOnTheWay /\ GenuineOnly /\ OddChunksOnly
  BY TypeParts DEF EInv
<1>1. /\ m \in Answer /\ Odd(m.id) /\ reverseLookup[0] = c
      /\ Tail(answers[c]) \in Seq(Answer)
      /\ Range(Tail(answers[c])) \subseteq Range(answers[c])
  BY AnswerRead
<1>2. /\ ServerTypes' /\ ListsAgree' /\ Identities'
      /\ UNCHANGED <<crashed, totChunks, clients, nextClientId, lookup, reverseLookup,
                     serverControl, serverSends>>
  BY ClientFrame
<1>3. /\ m.intact
      /\ chunks' = [chunks EXCEPT ![c][m.id] = "genuine"]
      /\ numRcvd' = [numRcvd EXCEPT ![c] = numRcvd[c] + 1]
      /\ UNCHANGED clientControl
      /\ \/ /\ savedFile' = [savedFile EXCEPT ![c] = TRUE]
            /\ file' = [file EXCEPT ![c] = chunks'[c]]
         \/ UNCHANGED <<savedFile, file>>
  BY DEF StoreChunk, HashMatches, Text, CountAnswer
<1>4. UNCHANGED <<running, registered, clientId, canRequest, recvChunkCache,
                  nextChunkIdx, outOfRange>>
  BY DEF regVars
<1> HIDE DEF m
<1>5. m.id \in Chunk /\ m.id % 2 = 1
  BY <1>1 DEF Answer, Odd
<1>6. /\ chunks' \in [Client -> Texts]
      /\ \A d \in Client \ {c} : chunks'[d] = chunks[d]
      /\ \A k \in Chunk : chunks'[c][k] = IF k = m.id THEN "genuine" ELSE chunks[c][k]
  BY <1>0, <1>3, <1>5 DEF ClientTypes, Texts
<1>7. /\ file' \in [Client -> Texts]
      /\ \A d \in Client : file'[d] = file[d] \/ file'[d] = chunks'[d]
  BY <1>0, <1>3, <1>6 DEF ClientTypes
<1>8. /\ answers' \in [Client -> Seq(Answer)]
      /\ answers'[c] = Tail(answers[c])
      /\ \A d \in Client \ {c} : answers'[d] = answers[d]
  BY <1>0, <1>1 DEF NetTypes
<1>9. ClientTypes' /\ NetTypes'
  <2>1. numRcvd \in [Client -> Nat] /\ numRcvd[c] + 1 \in Nat
    BY <1>0 DEF ClientTypes
  <2>2. numRcvd' \in [Client -> Nat]
    BY <1>3, <2>1
  <2>3. savedFile' \in [Client -> BOOLEAN]
    BY <1>0, <1>3 DEF ClientTypes
  <2> QED
    BY <1>0, <1>3, <1>4, <1>6, <1>7, <1>8, <2>2, <2>3 DEF ClientTypes, NetTypes
<1>10. OddOnTheWay'
  <2>1. Asks(clientControl[c])' /\ Asks(requests[c])'
    BY <1>0, <1>2, <1>3 DEF Asks, OddOnTheWay
  <2>2. Odd(nextChunkIdx[c])' /\ Answering(answers[c])' /\ Answering(recvChunkCache[c])'
    BY <1>0, <1>1, <1>4, <1>8 DEF OddOnTheWay, Answering
  <2> QED
    BY <1>0, <1>2, <1>3, <1>4, <1>8, <2>1, <2>2, OddChanged
<1>11. Known' /\ Greeted'
  BY <1>2, <1>4 DEF EInv, Known, Greeted, GreetingNext, GreetingOut, Fits
<1>12. FirstOnly'
  BY <1>1, <1>2, <1>4, <1>8 DEF EInv, FirstOnly
<1>13. GenuineOnly' /\ OddChunksOnly'
  BY <1>0, <1>5, <1>6, <1>7 DEF GenuineOnly, OddChunksOnly
<1>14. OnlyTheFirstIsServed' /\ OverrunWithoutGreeting'
  BY <1>1, <1>2, <1>4, <1>6 DEF EInv, OnlyTheFirstIsServed, OverrunWithoutGreeting
<1> QED
  BY <1>2, <1>9, <1>10, <1>11, <1>12, <1>13, <1>14, TypeParts DEF EInv

LEMMA CacheEarlyStep ==
  ASSUME EInv, NEW c \in Client, answers[c] # << >>, Alive(c),
         CacheEarlyChunk(c, Head(answers[c])),
         answers' = [answers EXCEPT ![c] = Tail(@)],
         UNCHANGED <<running, regVars, nextChunkIdx, outOfRange>>,
         UNCHANGED <<conn, requests, replies, asking>>,
         UNCHANGED serverVars
  PROVE  EInv'
<1> DEFINE m == Head(answers[c])
<1>0. ClientTypes /\ NetTypes /\ OddOnTheWay
  BY TypeParts DEF EInv
<1>1. /\ m \in Answer /\ Odd(m.id) /\ reverseLookup[0] = c
      /\ Tail(answers[c]) \in Seq(Answer)
      /\ Range(Tail(answers[c])) \subseteq Range(answers[c])
  BY AnswerRead
<1>2. /\ ServerTypes' /\ ListsAgree' /\ Identities'
      /\ UNCHANGED <<crashed, totChunks, clients, nextClientId, lookup, reverseLookup,
                     serverControl, serverSends>>
  BY ClientFrame
<1>3. /\ recvChunkCache' = [recvChunkCache EXCEPT ![c] = Append(@, m)]
      /\ UNCHANGED <<running, registered, clientId, canRequest, chunks, numRcvd,
                     savedFile, file, clientControl, nextChunkIdx, outOfRange>>
  BY DEF CacheEarlyChunk, regVars, storeVars
<1> HIDE DEF m
<1>4. recvChunkCache[c] \in Seq(Answer)
  BY <1>0 DEF ClientTypes
<1>5. /\ Append(recvChunkCache[c], m) \in Seq(Answer)
      /\ Range(Append(recvChunkCache[c], m)) = Range(recvChunkCache[c]) \cup {m}
  BY <1>1, <1>4, BufferRange
<1>6. /\ recvChunkCache' \in [Client -> Seq(Answer)]
      /\ recvChunkCache'[c] = Append(recvChunkCache[c], m)
      /\ \A d \in Client \ {c} : recvChunkCache'[d] = recvChunkCache[d]
  BY <1>0, <1>3, <1>5 DEF ClientTypes
<1>7. /\ answers' \in [Client -> Seq(Answer)]
      /\ answers'[c] = Tail(answers[c])
      /\ \A d \in Client \ {c} : answers'[d] = answers[d]
  BY <1>0, <1>1 DEF NetTypes
<1>8. ClientTypes' /\ NetTypes'
  BY <1>0, <1>3, <1>6, <1>7 DEF ClientTypes, NetTypes
<1>9. OddOnTheWay'
  <2>1. Asks(clientControl[c])' /\ Asks(requests[c])'
    BY <1>0, <1>2, <1>3 DEF Asks, OddOnTheWay
  <2>2. Odd(nextChunkIdx[c])' /\ Answering(answers[c])'
    BY <1>0, <1>1, <1>3, <1>7 DEF OddOnTheWay, Answering
  <2>3. Answering(recvChunkCache[c])'
    BY <1>0, <1>1, <1>5, <1>6 DEF OddOnTheWay, Answering
  <2> QED
    BY <1>0, <1>2, <1>3, <1>6, <1>7, <2>1, <2>2, <2>3, OddChanged
<1>10. Known' /\ Greeted'
  BY <1>2, <1>3 DEF EInv, Known, Greeted, GreetingNext, GreetingOut, Fits
<1>11. FirstOnly'
  BY <1>1, <1>2, <1>3, <1>7 DEF EInv, FirstOnly
<1>12. GenuineOnly' /\ OddChunksOnly' /\ OnlyTheFirstIsServed' /\ OverrunWithoutGreeting'
  BY <1>1, <1>2, <1>3, <1>6
  DEF EInv, GenuineOnly, OddChunksOnly, OnlyTheFirstIsServed, OverrunWithoutGreeting
<1> QED
  BY <1>2, <1>8, <1>9, <1>10, <1>11, <1>12, TypeParts DEF EInv

LEMMA ReadAnswerStep ==
  ASSUME EInv, NEW c \in Client, ReadAnswer(c)
  PROVE  EInv'
<1> DEFINE m == Head(answers[c])
<1>1. /\ answers[c] # << >> /\ Alive(c)
      /\ answers' = [answers EXCEPT ![c] = Tail(@)]
      /\ UNCHANGED <<running, regVars, nextChunkIdx, outOfRange>>
      /\ UNCHANGED <<conn, requests, replies, asking>>
      /\ UNCHANGED serverVars
  BY DEF ReadAnswer, ReceivedChunk
<1>2. CASE StoreChunk(c, m) /\ UNCHANGED recvChunkCache
  BY <1>1, <1>2, StoreStep
<1>3. CASE CacheEarlyChunk(c, m)
  BY <1>1, <1>3, CacheEarlyStep
<1>4. CASE registered[c] /\ AskAgain(c, m) /\ UNCHANGED recvChunkCache
  <2>1. /\ clientControl' = Asked(c, Req(clientId[c], m.id))
        /\ UNCHANGED <<running, registered, clientId, canRequest, chunks, numRcvd,
                       savedFile, file, recvChunkCache, outOfRange>>
        /\ nextChunkIdx' = nextChunkIdx
    BY <1>1, <1>4 DEF AskAgain, regVars, storeVars
  <2>2. m \in Answer /\ Odd(m.id)
    BY <1>1, AnswerRead
  <2>3. clientId[c] \in ClientId /\ nextClientId > 0
    BY <1>4 DEF EInv, Known
  <2>4. /\ Req(clientId[c], m.id) \in Message /\ Req(clientId[c], m.id).chunk = m.id
        /\ m.id \in Chunk
    BY <2>2, <2>3, MessageFacts DEF Answer
  <2>5. asking' \in 0 .. MaxAsking
    BY <1>1, TypeParts DEF EInv, NetTypes
  <2> HIDE DEF m
  <2> QED
    BY <1>1, <2>1, <2>2, <2>3, <2>4, <2>5, AskStep
<1> QED
  BY <1>2, <1>3, <1>4 DEF ReadAnswer, ReceivedChunk

-----------------------------------------------------------------------------
(***************************************************************************)
(* Client c reads a reply: OPEN, the REG that registers it, or another.    *)
(***************************************************************************)
LEMMA ReplyRead ==
  ASSUME EInv, NEW c \in Client, NEW n \in DOMAIN replies[c],
         replies' = [replies EXCEPT ![c] = RemoveAt(@, n)],
         registered[c] => registered'[c],
         Fits(replies[c][n]) => registered'[c],
         \A d \in Client \ {c} : registered'[d] = registered[d],
         running' = running,
         UNCHANGED <<conn, requests, answers, asking>>,
         UNCHANGED serverVars
  PROVE  /\ replies[c][n] \in Message /\ nextClientId > 0
         /\ ServerTypes' /\ ListsAgree' /\ Identities' /\ NetTypes'
         /\ FirstOnly' /\ Greeted'
         /\ UNCHANGED <<crashed, nextClientId, clients, reverseLookup, serverSends>>
         /\ \A d \in Client : replies'[d] # << >> => nextClientId > 0
         /\ ~Fits(replies[c][n]) /\ GreetingOut(c) => GreetingOut(c)'
         /\ \A d \in Client \ {c} : GreetingOut(d) => GreetingOut(d)'
<1>1. /\ ServerTypes' /\ ListsAgree' /\ Identities'
      /\ UNCHANGED <<crashed, totChunks, clients, nextClientId, lookup, reverseLookup,
                     serverControl, serverSends>>
  BY ClientFrame
<1>2. NetTypes /\ replies[c] \in Seq(Message) /\ replies[c] # << >> /\ nextClientId > 0
  BY TypeParts DEF EInv, NetTypes, Known
<1>3. /\ replies[c][n] \in Message /\ RemoveAt(replies[c], n) \in Seq(Message)
      /\ Range(replies[c]) = {replies[c][n]} \cup Range(RemoveAt(replies[c], n))
  BY <1>2, RemovedEntry
<1>4. /\ replies' \in [Client -> Seq(Message)]
      /\ replies'[c] = RemoveAt(replies[c], n)
      /\ \A d \in Client \ {c} : replies'[d] = replies[d]
  BY <1>2, <1>3 DEF NetTypes
<1>5. NetTypes'
  BY <1>2, <1>4 DEF NetTypes
<1>6. FirstOnly'
  BY <1>1 DEF EInv, FirstOnly
<1>7. ~Fits(replies[c][n]) /\ GreetingOut(c) => GreetingOut(c)'
  BY <1>3, <1>4 DEF GreetingOut, Fits
<1>8. \A d \in Client \ {c} : GreetingOut(d) => GreetingOut(d)'
  BY <1>4 DEF GreetingOut, Fits
<1>9. Greeted'
  <2> SUFFICES ASSUME NEW d \in Client, ~registered'[d], conn[d] # "closed"
               PROVE  GreetingOut(d)' \/ GreetingNext(d)'
    BY DEF Greeted
  <2>1. CASE d = c
    <3>1. GreetingOut(c)
      BY <1>2, <2>1 DEF EInv, Greeted, GreetingNext
    <3> QED
      BY <1>7, <2>1, <3>1
  <2>2. CASE d # c
    <3>1. GreetingOut(d) \/ GreetingNext(d)
      BY <2>2 DEF EInv, Greeted
    <3>2. GreetingNext(d) => GreetingNext(d)'
      BY <1>1, <1>4, <2>2 DEF GreetingNext, GreetingOut, Fits
    <3> QED
      BY <1>8, <2>2, <3>1, <3>2
  <2> QED
    BY <2>1, <2>2
<1> QED
  BY <1>1, <1>2, <1>3, <1>5, <1>6, <1>7, <1>8, <1>9

\* Texts among the good answers that came early are genuine, of odd chunks.
LEMMA TextFromGood ==
  ASSUME EInv, NEW c \in Client, NEW J \in SUBSET Good(c)
  PROVE  /\ TextFrom(c, J) \in Texts
         /\ \A k \in Chunk : \/ TextFrom(c, J)[k] = chunks[c][k]
                             \/ TextFrom(c, J)[k] = "genuine" /\ Odd(k)
         /\ J = {} => TextFrom(c, J) = chunks[c]
<1> DEFINE early == recvChunkCache[c]
<1>1. /\ early \in Seq(Answer) /\ Answering(early) /\ chunks[c] \in Texts
      /\ chunks[c] = [k \in Chunk |-> chunks[c][k]]
  BY TypeParts DEF EInv, ClientTypes, OddOnTheWay, Texts
<1>2. \A j \in J : /\ j \in DOMAIN early /\ early[j].intact
                   /\ Text(early[j]) = "genuine" /\ Odd(early[j].id)
  BY <1>1 DEF Good, HashMatches, Text, Answering, Range
<1>3. ASSUME NEW k \in Chunk
      PROVE  \/ TextFrom(c, J)[k] = chunks[c][k]
             \/ TextFrom(c, J)[k] = "genuine" /\ Odd(k)
  <2>1. CASE \E j \in J : early[j].id = k
    <3> DEFINE j == CHOOSE j \in J : early[j].id = k
    <3>1. j \in J /\ early[j].id = k
      BY <2>1
    <3>2. TextFrom(c, J)[k] = Text(early[j])
      BY <2>1 DEF TextFrom
    <3> QED
      BY <1>2, <3>1, <3>2
  <2>2. CASE ~ \E j \in J : early[j].id = k
    BY <2>2 DEF TextFrom
  <2> QED
    BY <2>1, <2>2
<1>4. TextFrom(c, J) = [k \in Chunk |-> TextFrom(c, J)[k]]
  BY DEF TextFrom
<1>5. TextFrom(c, J) \in Texts
  BY <1>1, <1>3, <1>4 DEF Texts
<1>6. J = {} => TextFrom(c, J) = chunks[c]
  <2>1. J = {} => \A k \in Chunk : TextFrom(c, J)[k] = chunks[c][k]
    BY DEF TextFrom
  <2> QED
    BY <1>1, <1>4, <2>1
<1> QED
  BY <1>3, <1>5, <1>6

\* What the client asks again after registering.
LEMMA AskedAgain ==
  ASSUME EInv, NEW c \in Client, NEW i \in ClientId, nextClientId > 0,
         NEW order \in InOrder(Bad(c))
  PROVE  /\ clientControl[c] \o RequestsAgain(c, i, order) \in Seq(Message)
         /\ Asks(clientControl[c] \o RequestsAgain(c, i, order))
<1> DEFINE early == recvChunkCache[c]
           n == Cardinality(Bad(c))
           again == RequestsAgain(c, i, order)
<1>1. /\ early \in Seq(Answer) /\ Answering(early)
      /\ clientControl[c] \in Seq(Message) /\ Asks(clientControl[c])
  BY TypeParts DEF EInv, ClientTypes, OddOnTheWay
<1>2. n \in Nat
  <2>1. Len(early) \in Nat /\ Bad(c) \in SUBSET (1 .. Len(early))
    BY <1>1 DEF Bad
  <2>2. IsFiniteSet(1 .. Len(early))
    BY <2>1, FS_Interval
  <2> QED
    BY <2>1, <2>2, FS_Subset, FS_CardinalityType
<1>3. order \in [1 .. n -> Bad(c)]
  BY DEF InOrder
<1>4. ASSUME NEW x \in 1 .. n
      PROVE  again[x] \in Message /\ again[x].chunk \in Chunk /\ Odd(again[x].chunk)
  <2>1. order[x] \in DOMAIN early
    BY <1>3 DEF Bad
  <2>2. early[order[x]] \in Answer /\ early[order[x]] \in Range(early)
    BY <1>1, <2>1, ElementOfSeq DEF Range
  <2>3. early[order[x]].id \in Chunk /\ Odd(early[order[x]].id)
    BY <1>1, <2>2 DEF Answer, Answering
  <2>4. again[x] = Req(i, early[order[x]].id)
    BY <1>3 DEF RequestsAgain
  <2> QED
    BY <2>3, <2>4, MessageFacts
<1>5. again \in [1 .. n -> Message]
  BY <1>3, <1>4 DEF RequestsAgain
<1>6. again \in Seq(Message) /\ DOMAIN again = 1 .. n
  BY <1>2, <1>5
<1> HIDE DEF again, n
<1>7. \A m \in Range(again) : m.chunk \in Chunk /\ Odd(m.chunk)
  BY <1>4, <1>6 DEF Range
<1>8. /\ clientControl[c] \o again \in Seq(Message)
      /\ Range(clientControl[c] \o again) = Range(clientControl[c]) \cup Range(again)
  BY <1>1, <1>6, ConcatRange
<1> QED
  BY <1>1, <1>7, <1>8 DEF Asks, again

LEMMA OverrunStep ==
  ASSUME EInv, NEW c \in Client, Alive(c), NEW n \in DOMAIN replies[c],
         replies' = [replies EXCEPT ![c] = RemoveAt(@, n)],
         Register(c, replies[c][n].client, replies[c][n].chunk),
         DoesNotFit(replies[c][n].chunk), Overrun(c),
         UNCHANGED <<conn, requests, answers, asking>>,
         UNCHANGED serverVars
  PROVE  EInv'
<1> DEFINE m == replies[c][n]
<1>0. ClientTypes /\ OddOnTheWay
  BY TypeParts DEF EInv
<1>1. /\ registered' = [registered EXCEPT ![c] = TRUE]
      /\ clientId' = [clientId EXCEPT ![c] = m.client]
      /\ outOfRange' = [outOfRange EXCEPT ![c] = TRUE]
      /\ ~registered[c] /\ DoesNotFit(m.chunk)
      /\ UNCHANGED <<running, canRequest, chunks, numRcvd, savedFile, file,
                     recvChunkCache, nextChunkIdx, clientControl>>
  BY DEF Register, Overrun, storeVars
<1> HIDE DEF m
<1>2. registered'[c] /\ \A d \in Client \ {c} : registered'[d] = registered[d]
  BY <1>0, <1>1 DEF ClientTypes
<1>3. /\ m \in Message /\ nextClientId > 0
      /\ ServerTypes' /\ ListsAgree' /\ Identities' /\ NetTypes'
      /\ FirstOnly' /\ Greeted'
      /\ UNCHANGED <<crashed, nextClientId, clients, reverseLookup, serverSends>>
      /\ \A d \in Client : replies'[d] # << >> => nextClientId > 0
      /\ ~Fits(m) /\ GreetingOut(c) => GreetingOut(c)'
      /\ \A d \in Client \ {c} : GreetingOut(d) => GreetingOut(d)'
  BY <1>1, <1>2, ReplyRead DEF m
<1>4. m.client \in ClientId
  BY <1>3 DEF Message
<1>5. ClientTypes'
  BY <1>0, <1>1, <1>4 DEF ClientTypes
<1>6. OddOnTheWay'
  <2>1. \A s : Asks(s)' <=> Asks(s')
    BY <1>3 DEF Asks
  <2> QED
    BY <1>0, <1>1, <1>3 DEF OddOnTheWay, Asks, Answering
<1>7. Known'
  <2>1. \A d \in Client : registered'[d] => clientId'[d] \in ClientId
    BY <1>0, <1>1, <1>2, <1>4 DEF EInv, Known, ClientTypes
  <2> QED
    BY <1>3, <2>1 DEF Known
<1>8. GreetingOut(c)'
  <2>1. ~Fits(m)
    BY <1>1, NumChunksAssumption DEF Fits, DoesNotFit, LastChunk
  <2>2. conn[c] # "closed" /\ replies[c] # << >>
    BY TypeParts DEF EInv, FirstOnly, Alive, NetTypes
  <2>3. GreetingOut(c)
    BY <1>1, <2>2 DEF EInv, Greeted, GreetingNext
  <2> QED
    BY <1>3, <2>1, <2>3 DEF m
<1>9. OverrunWithoutGreeting'
  <2>1. \A d \in Client \ {c} : outOfRange'[d] => GreetingOut(d)'
    BY <1>0, <1>1, <1>3 DEF EInv, OverrunWithoutGreeting, GreetingOut, Fits, ClientTypes
  <2> QED
    BY <1>8, <2>1 DEF OverrunWithoutGreeting, GreetingOut, Fits
<1>10. GenuineOnly' /\ OddChunksOnly' /\ OnlyTheFirstIsServed'
  BY <1>1, <1>3 DEF EInv, GenuineOnly, OddChunksOnly, OnlyTheFirstIsServed
<1> QED
  BY <1>3, <1>5, <1>6, <1>7, <1>9, <1>10, TypeParts DEF EInv

LEMMA RegisterStep ==
  ASSUME EInv, NEW c \in Client, Alive(c), NEW n \in DOMAIN replies[c],
         replies' = [replies EXCEPT ![c] = RemoveAt(@, n)],
         Register(c, replies[c][n].client, replies[c][n].chunk),
         ClearChunkCache(c, replies[c][n].client),
         UNCHANGED <<conn, requests, answers, asking>>,
         UNCHANGED serverVars
  PROVE  EInv'
<1> DEFINE m == replies[c][n]
           i == m.client
<1>0. /\ ClientTypes /\ OddOnTheWay /\ GenuineOnly /\ OddChunksOnly
      /\ OnlyTheFirstIsServed /\ OverrunWithoutGreeting
  BY TypeParts DEF EInv
<1>1. /\ registered' = [registered EXCEPT ![c] = TRUE]
      /\ clientId' = [clientId EXCEPT ![c] = i]
      /\ UNCHANGED <<running, canRequest, nextChunkIdx, outOfRange>>
  BY DEF Register, ClearChunkCache
<1>2. /\ chunks' = [chunks EXCEPT ![c] = TextFrom(c, Good(c))]
      /\ numRcvd' = [numRcvd EXCEPT ![c] = @ + Cardinality(Good(c))]
      /\ savedFile' = [savedFile EXCEPT ![c] = @ \/ Cardinality(Good(c)) >= LastChunk]
      /\ file' = [file EXCEPT ![c] = IF Cardinality(Good(c)) >= LastChunk
                                     THEN TextFrom(c, FirstGood(c)) ELSE @]
      /\ recvChunkCache' = [recvChunkCache EXCEPT ![c] = << >>]
  BY DEF ClearChunkCache
<1>3. PICK order \in InOrder(Bad(c)) :
        clientControl' = [clientControl EXCEPT ![c] = @ \o RequestsAgain(c, i, order)]
  BY DEF ClearChunkCache
<1> HIDE DEF m
<1>4. registered'[c] /\ \A d \in Client \ {c} : registered'[d] = registered[d]
  BY <1>0, <1>1 DEF ClientTypes
<1>5. /\ m \in Message /\ nextClientId > 0
      /\ ServerTypes' /\ ListsAgree' /\ Identities' /\ NetTypes'
      /\ FirstOnly' /\ Greeted'
      /\ UNCHANGED <<crashed, nextClientId, clients, reverseLookup, serverSends>>
      /\ \A d \in Client : replies'[d] # << >> => nextClientId > 0
      /\ \A d \in Client \ {c} : GreetingOut(d) => GreetingOut(d)'
  BY <1>1, <1>4, ReplyRead DEF m
<1>6. i \in ClientId
  BY <1>5 DEF Message
<1> HIDE DEF i
<1>7. /\ TextFrom(c, Good(c)) \in Texts /\ TextFrom(c, FirstGood(c)) \in Texts
      /\ \A k \in Chunk :
           /\ \/ TextFrom(c, Good(c))[k] = chunks[c][k]
              \/ TextFrom(c, Good(c))[k] = "genuine" /\ Odd(k)
           /\ \/ TextFrom(c, FirstGood(c))[k] = chunks[c][k]
              \/ TextFrom(c, FirstGood(c))[k] = "genuine" /\ Odd(k)
      /\ Good(c) = {} => TextFrom(c, Good(c)) = chunks[c]
  <2>1. Good(c) \in SUBSET Good(c) /\ FirstGood(c) \in SUBSET Good(c)
    BY DEF FirstGood
  <2> QED
    BY <2>1, TextFromGood
<1>8. /\ chunks' \in [Client -> Texts] /\ chunks'[c] = TextFrom(c, Good(c))
      /\ \A d \in Client \ {c} : chunks'[d] = chunks[d]
  BY <1>0, <1>2, <1>7 DEF ClientTypes
<1>9. /\ file' \in [Client -> Texts]
      /\ file'[c] = file[c] \/ file'[c] = TextFrom(c, FirstGood(c))
      /\ \A d \in Client \ {c} : file'[d] = file[d]
  BY <1>0, <1>2, <1>7 DEF ClientTypes
<1>10. numRcvd' \in [Client -> Nat]
  <2>1. Cardinality(Good(c)) \in Nat
    <3>1. recvChunkCache[c] \in Seq(Answer)
      BY <1>0 DEF ClientTypes
    <3>2. Len(recvChunkCache[c]) \in Nat /\ Good(c) \in SUBSET (1 .. Len(recvChunkCache[c]))
      BY <3>1 DEF Good
    <3>3. IsFiniteSet(1 .. Len(recvChunkCache[c]))
      BY <3>2, FS_Interval
    <3> QED
      BY <3>2, <3>3, FS_Subset, FS_CardinalityType
  <2>2. numRcvd \in [Client -> Nat] /\ numRcvd[c] + Cardinality(Good(c)) \in Nat
    BY <1>0, <2>1 DEF ClientTypes
  <2> QED
    BY <1>2, <2>2
<1>11. /\ clientControl[c] \o RequestsAgain(c, i, order) \in Seq(Message)
       /\ Asks(clientControl[c] \o RequestsAgain(c, i, order))
  BY <1>5, <1>6, AskedAgain
<1>12. /\ clientControl' \in [Client -> Seq(Message)]
       /\ clientControl'[c] = clientControl[c] \o RequestsAgain(c, i, order)
       /\ \A d \in Client \ {c} : clientControl'[d] = clientControl[d]
  BY <1>0, <1>3, <1>11 DEF ClientTypes
<1>13. /\ recvChunkCache' \in [Client -> Seq(Answer)] /\ recvChunkCache'[c] = << >>
       /\ \A d \in Client \ {c} : recvChunkCache'[d] = recvChunkCache[d]
  <2>1. << >> \in Seq(Answer)
    OBVIOUS
  <2> QED
    BY <1>0, <1>2, <2>1 DEF ClientTypes
<1>14. ClientTypes'
  <2>1. /\ savedFile' \in [Client -> BOOLEAN]
        /\ clientId' \in [Client -> ClientId \cup {NoId}]
        /\ registered' \in [Client -> BOOLEAN]
    BY <1>0, <1>1, <1>2, <1>6 DEF ClientTypes
  <2> QED
    BY <1>0, <1>1, <1>8, <1>9, <1>10, <1>12, <1>13, <2>1 DEF ClientTypes
<1>15. OddOnTheWay'
  <2>1. Asks(clientControl[c])' /\ Asks(requests[c])'
    BY <1>0, <1>5, <1>11, <1>12 DEF Asks, OddOnTheWay
  <2>2. Odd(nextChunkIdx[c])' /\ Answering(answers[c])' /\ Answering(recvChunkCache[c])'
    <3>1. Answering(<< >>)
      BY DEF Answering, Range
    <3> QED
      BY <1>0, <1>1, <1>13, <3>1 DEF OddOnTheWay, Answering
  <2> QED
    BY <1>0, <1>1, <1>5, <1>12, <1>13, <2>1, <2>2, OddChanged
<1>16. Known'
  <2>1. \A d \in Client : registered'[d] => clientId'[d] \in ClientId
    BY <1>0, <1>1, <1>4, <1>6 DEF EInv, Known, ClientTypes
  <2> QED
    BY <1>5, <2>1 DEF Known
<1>17. GenuineOnly' /\ OddChunksOnly'
  BY <1>0, <1>7, <1>8, <1>9 DEF GenuineOnly, OddChunksOnly, Odd
<1>18. OnlyTheFirstIsServed'
  <2>1. chunks'[c] # NoText => chunks[c] # NoText \/ recvChunkCache[c] # << >>
    <3>1. recvChunkCache[c] = << >> => Good(c) = {}
      BY DEF Good
    <3> QED
      BY <1>7, <1>8, <3>1
  <2> QED
    BY <1>0, <1>1, <1>5, <1>8, <1>13, <2>1 DEF OnlyTheFirstIsServed
<1>19. OverrunWithoutGreeting'
  BY <1>0, <1>1, <1>5 DEF OverrunWithoutGreeting, GreetingOut, Fits, Alive
<1> QED
  BY <1>5, <1>14, <1>15, <1>16, <1>17, <1>18, <1>19, TypeParts DEF EInv

LEMMA ReadReplyStep ==
  ASSUME EInv, NEW c \in Client, NEW n \in Nat, ReadReply(c, n)
  PROVE  EInv'
<1> DEFINE m == replies[c][n]
<1>0. ClientTypes /\ OddOnTheWay
  BY TypeParts DEF EInv
<1>1. /\ n \in DOMAIN replies[c] /\ Alive(c)
      /\ replies' = [replies EXCEPT ![c] = RemoveAt(@, n)]
      /\ UNCHANGED <<conn, requests, answers, asking>>
      /\ UNCHANGED serverVars
  BY DEF ReadReply, ReceivedControl
<1>2. CASE \/ m.msgtype = "OPEN" /\ ReceivedOpen(c)
           \/ m.msgtype = "REG" /\ registered[c] /\ UNCHANGED clientVars
  <2>1. /\ canRequest' \in [Client -> BOOLEAN]
        /\ UNCHANGED <<running, registered, clientId, chunks, numRcvd, savedFile, file,
                       recvChunkCache, nextChunkIdx, clientControl, outOfRange>>
    BY <1>0, <1>2 DEF ReceivedOpen, clientVars, regVars, storeVars, ClientTypes
  <2>2. Fits(m) => registered[c]
    BY <1>2 DEF Fits
  <2>3. /\ nextClientId > 0
        /\ ServerTypes' /\ ListsAgree' /\ Identities' /\ NetTypes'
        /\ FirstOnly' /\ Greeted'
        /\ UNCHANGED <<crashed, nextClientId, clients, reverseLookup, serverSends>>
        /\ \A d \in Client : replies'[d] # << >> => nextClientId > 0
        /\ \A d \in Client \ {c} : GreetingOut(d) => GreetingOut(d)'
    BY <1>1, <2>1, <2>2, ReplyRead
  <2>4. ClientTypes'
    BY <1>0, <2>1 DEF ClientTypes
  <2>5. OddOnTheWay'
    BY <1>0, <1>1, <2>1, <2>3 DEF OddOnTheWay, Asks, Answering
  <2>6. Known'
    BY <2>1, <2>3 DEF EInv, Known
  <2>7. GenuineOnly' /\ OddChunksOnly' /\ OnlyTheFirstIsServed'
    BY <1>1, <2>1, <2>3 DEF EInv, GenuineOnly, OddChunksOnly, OnlyTheFirstIsServed
  <2>8. OverrunWithoutGreeting'
    BY <1>1, <2>1, <2>3 DEF EInv, OverrunWithoutGreeting, GreetingOut, Fits, Alive
  <2> QED
    BY <2>3, <2>4, <2>5, <2>6, <2>7, <2>8, TypeParts DEF EInv
<1>3. CASE m.msgtype = "REG" /\ Register(c, m.client, m.chunk)
  <2>1. CASE DoesNotFit(m.chunk) /\ Overrun(c)
    BY <1>1, <1>3, <2>1, OverrunStep
  <2>2. CASE ClearChunkCache(c, m.client)
    BY <1>1, <1>3, <2>2, RegisterStep
  <2> QED
    BY <1>3, <2>1, <2>2 DEF Register
<1> QED
  BY <1>2, <1>3 DEF ReadReply, ReceivedControl

LEMMA LoseRequestStep ==
  ASSUME EInv, NEW c \in Client, LoseRequest(c)
  PROVE  EInv'
<1>0. /\ ClientTypes /\ NetTypes /\ OddOnTheWay
      /\ requests[c] \in Seq(Message) /\ Asks(requests[c])
  BY TypeParts DEF EInv, NetTypes, OddOnTheWay
<1>1. /\ UNCHANGED <<running, registered, clientId, canRequest, chunks, numRcvd,
                     savedFile, file, recvChunkCache, nextChunkIdx, clientControl,
                     outOfRange>>
      /\ UNCHANGED <<conn, replies, answers, asking>>
      /\ UNCHANGED serverVars
  BY DEF LoseRequest, clientVars, regVars, storeVars
<1>2. /\ ServerTypes' /\ ListsAgree' /\ Identities'
      /\ UNCHANGED <<crashed, totChunks, clients, nextClientId, lookup, reverseLookup,
                     serverControl, serverSends>>
  BY <1>1, ClientFrame
<1>3. PICK n \in DOMAIN requests[c] :
        requests' = [requests EXCEPT ![c] = RemoveAt(@, n)]
  BY DEF LoseRequest
<1>4. /\ RemoveAt(requests[c], n) \in Seq(Message)
      /\ Range(RemoveAt(requests[c], n)) \subseteq Range(requests[c])
  BY <1>0, RemovedEntry
<1>5. /\ requests' \in [Client -> Seq(Message)]
      /\ requests'[c] = RemoveAt(requests[c], n)
      /\ \A d \in Client \ {c} : requests'[d] = requests[d]
  BY <1>0, <1>3, <1>4 DEF NetTypes
<1>6. ClientTypes' /\ NetTypes'
  BY <1>0, <1>1, <1>5 DEF ClientTypes, NetTypes
<1>7. OddOnTheWay'
  <2>1. Asks(clientControl[c])' /\ Asks(requests[c])'
    BY <1>0, <1>1, <1>2, <1>4, <1>5 DEF Asks, OddOnTheWay
  <2>2. Odd(nextChunkIdx[c])' /\ Answering(answers[c])' /\ Answering(recvChunkCache[c])'
    BY <1>0, <1>1 DEF OddOnTheWay, Answering
  <2> QED
    BY <1>0, <1>1, <1>2, <1>5, <2>1, <2>2, OddChanged
<1>8. Known' /\ FirstOnly' /\ Greeted'
  BY <1>1, <1>2 DEF EInv, Known, FirstOnly, Greeted, GreetingNext, GreetingOut, Fits
<1>9. GenuineOnly' /\ OddChunksOnly' /\ OnlyTheFirstIsServed' /\ OverrunWithoutGreeting'
  BY <1>1, <1>2
  DEF EInv, GenuineOnly, OddChunksOnly, OnlyTheFirstIsServed, OverrunWithoutGreeting
<1> QED
  BY <1>2, <1>6, <1>7, <1>8, <1>9, TypeParts DEF EInv

-----------------------------------------------------------------------------
(***************************************************************************)
(* Steps of the server and of the network.  What clients hold stays as it  *)
(* is.                                                                     *)
(***************************************************************************)
LEMMA ServerFrame ==
  ASSUME EInv, UNCHANGED clientVars
  PROVE  /\ ClientTypes' /\ GenuineOnly' /\ OddChunksOnly'
         /\ UNCHANGED <<running, registered, clientId, chunks, recvChunkCache,
                        nextChunkIdx, clientControl, outOfRange>>
         /\ UNCHANGED replies => OverrunWithoutGreeting'
<1>1. /\ UNCHANGED <<running, registered, clientId, canRequest, chunks, numRcvd,
                     savedFile, file, recvChunkCache, nextChunkIdx, clientControl,
                     outOfRange>>
  BY DEF clientVars, regVars, storeVars
<1>2. ClientTypes'
  BY <1>1, TypeParts DEF EInv, ClientTypes
<1>3. GenuineOnly' /\ OddChunksOnly' /\ (UNCHANGED replies => OverrunWithoutGreeting')
  BY <1>1 DEF EInv, GenuineOnly, OddChunksOnly, OverrunWithoutGreeting
<1> QED
  BY <1>1, <1>2, <1>3

LEMMA ClientIds ==
  ASSUME ServerTypes
  PROVE  /\ nextClientId \in Nat /\ nextClientId \notin clients
         /\ clients \subseteq ClientId /\ 0 \in ClientId /\ NoId \notin ClientId
         /\ \A i \in clients : nextClientId > 0
         /\ NoAddr \notin Client
BY MaxClientIdAssumption, EvalServerAssumption, EvalAssumption
DEF ServerTypes, ClientId, NoId

LEMMA AcceptStep ==
  ASSUME EInv, NEW c \in Client, Accept(c)
  PROVE  EInv'
<1> DEFINE n == nextClientId
<1>0. ServerTypes /\ NetTypes /\ OddOnTheWay /\ Identities
  BY TypeParts DEF EInv
<1>1. /\ conn[c] = "backlog" /\ conn' = [conn EXCEPT ![c] = "open"]
      /\ ~crashed /\ n \in ClientId /\ clients' = clients \cup {n} /\ n' = n + 1
      /\ lookup' = [lookup EXCEPT ![c] = n]
      /\ reverseLookup' = [reverseLookup EXCEPT ![n] = c]
      /\ serverControl' = [serverControl EXCEPT ![n] = Greeting(n)]
      /\ UNCHANGED <<crashed, totChunks, serverSends, chunkRequests, clientRequests>>
      /\ UNCHANGED clientVars
      /\ UNCHANGED <<requests, replies, answers, asking>>
  BY DEF Accept, AcceptNewClient, waitVars
<1>2. /\ ClientTypes' /\ GenuineOnly' /\ OddChunksOnly' /\ OverrunWithoutGreeting'
      /\ UNCHANGED <<running, registered, clientId, chunks, recvChunkCache,
                     nextChunkIdx, clientControl, outOfRange>>
  BY <1>1, ServerFrame
<1>3. /\ n \in Nat /\ n \notin clients /\ clients \subseteq ClientId
      /\ NoId \notin ClientId /\ NoAddr \notin Client
  BY <1>0, ClientIds
<1>4. /\ Greeting(n) \in Seq(Message) /\ Greeting(n) # << >> /\ Fits(Head(Greeting(n)))
  <2>1. /\ Reg(n, NumChunks) \in Message /\ Open(0) \in Message
        /\ Reg(n, NumChunks).msgtype = "REG" /\ Reg(n, NumChunks).chunk = NumChunks
    BY <1>1, MessageFacts, NumChunksAssumption
  <2>2. Head(Greeting(n)) = Reg(n, NumChunks)
    BY DEF Greeting
  <2> QED
    BY <2>1, <2>2 DEF Greeting, Fits
<1>5. /\ reverseLookup' \in [ClientId -> Client \cup {NoAddr}] /\ reverseLookup'[n] = c
      /\ \A i \in ClientId \ {n} : reverseLookup'[i] = reverseLookup[i]
      /\ lookup' \in [Client -> ClientId \cup {NoId}] /\ lookup'[c] = n
      /\ \A d \in Client \ {c} : lookup'[d] = lookup[d]
      /\ serverControl' \in [ClientId -> Seq(Message)] /\ serverControl'[n] = Greeting(n)
      /\ \A i \in ClientId \ {n} : serverControl'[i] = serverControl[i]
  BY <1>0, <1>1, <1>4 DEF ServerTypes
<1>6. /\ conn' \in [Client -> {"new", "backlog", "open", "closed"}]
      /\ conn'[c] = "open" /\ \A d \in Client \ {c} : conn'[d] = conn[d]
  BY <1>0, <1>1 DEF NetTypes
<1>7. n' \in 0 .. (MaxClientId + 1) /\ clients' \subseteq 0 .. (n' - 1)
  BY <1>0, <1>1, MaxClientIdAssumption DEF ServerTypes, ClientId
<1>8. ServerTypes' /\ NetTypes'
  BY <1>0, <1>1, <1>5, <1>6, <1>7 DEF ServerTypes, NetTypes
<1>9. n' > 0
  BY <1>1, <1>3
<1> HIDE DEF n
<1>10. lookup[c] = NoId /\ \A i \in clients : reverseLookup[i] # c
  BY <1>0, <1>1, <1>3 DEF Identities
<1>11. Identities'
  <2>1. ASSUME NEW i \in clients'
        PROVE  reverseLookup'[i] \in Client /\ lookup'[reverseLookup'[i]] = i
    <3>1. CASE i = n
      BY <1>5, <3>1
    <3>2. CASE i # n
      <4>1. i \in clients /\ i \in ClientId \ {n}
        BY <1>1, <1>3, <3>2
      <4>2. /\ reverseLookup'[i] = reverseLookup[i] /\ lookup[reverseLookup[i]] = i
            /\ reverseLookup[i] \in Client \ {c}
        BY <1>0, <1>5, <1>10, <4>1 DEF Identities
      <4> QED
        BY <1>5, <4>2
    <3> QED
      BY <3>1, <3>2
  <2>2. ASSUME NEW d \in Client, lookup'[d] # NoId
        PROVE  lookup'[d] \in clients' /\ reverseLookup'[lookup'[d]] = d
    <3>1. CASE d = c
      BY <1>1, <1>5, <3>1
    <3>2. CASE d # c
      <4>1. lookup'[d] = lookup[d] /\ lookup[d] \in clients /\ reverseLookup[lookup[d]] = d
        BY <1>0, <1>5, <2>2, <3>2 DEF Identities
      <4>2. lookup[d] \in ClientId \ {n}
        BY <1>3, <4>1
      <4> QED
        BY <1>1, <1>5, <4>1, <4>2
    <3> QED
      BY <3>1, <3>2
  <2>3. \A d \in Client : conn'[d] \in {"new", "backlog"} => lookup'[d] = NoId
    BY <1>0, <1>5, <1>6 DEF Identities
  <2>4. \A i \in ClientId \ clients' : /\ reverseLookup'[i] = NoAddr
                                       /\ serverControl'[i] = << >>
                                       /\ serverSends'[i] = << >>
    BY <1>0, <1>1, <1>5 DEF Identities
  <2> QED
    BY <2>1, <2>2, <2>3, <2>4 DEF Identities
<1>12. OddOnTheWay' /\ Known' /\ ListsAgree'
  BY <1>0, <1>1, <1>2, <1>9 DEF EInv, OddOnTheWay, Asks, Answering, Known, ListsAgree, n
<1>13. \A d \in Client : reverseLookup[0] = d => reverseLookup'[0] = d
  <2>1. 0 \in ClientId
    BY <1>0, ClientIds
  <2>2. CASE n = 0
    <3>1. reverseLookup[0] = NoAddr
      BY <1>0, <1>3, <2>1, <2>2 DEF Identities
    <3> QED
      BY <1>3, <3>1
  <2>3. CASE n # 0
    BY <1>5, <2>1, <2>3
  <2> QED
    BY <2>2, <2>3
<1>14. FirstOnly'
  BY <1>1, <1>2, <1>6, <1>13 DEF EInv, FirstOnly
<1>15. OnlyTheFirstIsServed'
  <2>1. ~crashed'
    BY <1>1
  <2> QED
    BY <1>2, <1>13, <2>1 DEF EInv, OnlyTheFirstIsServed
<1>16. Greeted'
  <2> SUFFICES ASSUME NEW d \in Client, ~registered[d], conn[d] # "closed",
                      GreetingNext(d), NEW i \in clients', reverseLookup'[i] = d
               PROVE  serverControl'[i] # << >> /\ Fits(Head(serverControl'[i]))
    BY <1>1, <1>2, <1>6 DEF EInv, Greeted, GreetingNext, GreetingOut, Fits
  <2>1. CASE i = n
    BY <1>4, <1>5, <2>1
  <2>2. CASE i # n
    <3>1. i \in clients /\ i \in ClientId
      BY <1>1, <1>3, <2>2
    <3>2. reverseLookup[i] = d /\ serverControl'[i] = serverControl[i]
      BY <1>5, <2>2, <3>1
    <3> QED
      BY <3>1, <3>2 DEF GreetingNext
  <2> QED
    BY <2>1, <2>2
<1> QED
  BY <1>2, <1>8, <1>11, <1>12, <1>14, <1>15, <1>16, TypeParts DEF EInv

\* The server answers a request, drops it, or is brought down by it.
LEMMA AnswerStep ==
  ASSUME EInv, NEW i \in ClientId, NEW k \in Chunk, NEW intact \in BOOLEAN,
         Odd(k), nextClientId > 0,
         ReceivedRequest(i, k, intact)
  PROVE  /\ ServerTypes' /\ ListsAgree' /\ (conn' = conn => Identities')
         /\ \A j \in ClientId : Answering(serverSends[j])'
         /\ \A j \in ClientId : serverSends'[j] # << >> => j = 0
         /\ crashed' => 0 < nextClientId' /\ 0 \notin clients'
         /\ UNCHANGED <<clients, nextClientId, lookup, reverseLookup, serverControl>>
<1> DEFINE e == [id |-> k, intact |-> intact]
<1>0. ServerTypes /\ 0 \in ClientId /\ ListsAgree /\ Identities /\ OddOnTheWay
  BY TypeParts, ClientIds DEF EInv
<1>1. UNCHANGED <<totChunks, clients, nextClientId, lookup, reverseLookup, serverControl>>
  BY DEF ReceivedRequest, Answered, Crash, tableVars
<1>2. CASE Answered(i, k, intact)
  <2>1. /\ 0 \in clients /\ crashed' = crashed
        /\ serverSends' = [serverSends EXCEPT ![0] = Append(@, e)]
        /\ chunkRequests' = [chunkRequests EXCEPT ![k] = @ \cup {i}]
        /\ clientRequests' = [clientRequests EXCEPT ![i] = @ \cup {k}]
    BY <1>2 DEF Answered, Receiver
  <2>2. e \in Answer /\ e.id = k /\ serverSends[0] \in Seq(Answer)
    BY <1>0 DEF Answer, ServerTypes
  <2> HIDE DEF e
  <2>3. /\ Append(serverSends[0], e) \in Seq(Answer)
        /\ Range(Append(serverSends[0], e)) = Range(serverSends[0]) \cup {e}
    BY <2>2, BufferRange
  <2>4. /\ serverSends' \in [ClientId -> Seq(Answer)]
        /\ serverSends'[0] = Append(serverSends[0], e)
        /\ \A j \in ClientId \ {0} : serverSends'[j] = serverSends[j]
    BY <1>0, <2>1, <2>3 DEF ServerTypes
  <2>5. /\ chunkRequests' \in [Chunk -> SUBSET ClientId]
        /\ clientRequests' \in [ClientId -> SUBSET Chunk]
        /\ ListsAgree'
    BY <1>0, <2>1 DEF ServerTypes, ListsAgree
  <2>6. ServerTypes'
    BY <1>0, <1>1, <2>1, <2>4, <2>5 DEF ServerTypes
  <2>7. conn' = conn => Identities'
    BY <1>0, <1>1, <2>1, <2>4 DEF Identities
  <2>8. \A j \in ClientId : Answering(serverSends[j])'
    <3>1. Answering(Append(serverSends[0], e))
      BY <1>0, <2>2, <2>3 DEF OddOnTheWay, Answering
    <3> QED
      BY <1>0, <2>4, <3>1 DEF OddOnTheWay, Answering
  <2>9. \A j \in ClientId : serverSends'[j] # << >> => j = 0
    BY <2>4 DEF EInv, FirstOnly
  <2> QED
    BY <1>1, <2>1, <2>5, <2>6, <2>7, <2>8, <2>9 DEF EInv, OnlyTheFirstIsServed
<1>3. CASE 0 \notin clients /\ Crash
  <2>1. /\ crashed' = TRUE
        /\ UNCHANGED <<serverSends, chunkRequests, clientRequests>>
    BY <1>3 DEF Crash, waitVars
  <2>2. ServerTypes' /\ ListsAgree' /\ (conn' = conn => Identities')
    BY <1>0, <1>1, <2>1 DEF ServerTypes, ListsAgree, Identities
  <2> QED
    BY <1>0, <1>1, <1>3, <2>1, <2>2 DEF EInv, FirstOnly, OddOnTheWay, Answering
<1> QED
  BY <1>2, <1>3 DEF ReceivedRequest, Receiver

\* What a message of client c does to the server: replies are only added, and
\* answers are queued for the first client.
LEMMA MessageStep ==
  ASSUME EInv, NEW c \in Client, NEW m \in Message, NEW intact \in BOOLEAN,
         m.msgtype = "REQ" => m.chunk \in Chunk /\ Odd(m.chunk) /\ nextClientId > 0,
         ReceivedControlMsg(c, m, intact), conn' = conn
  PROVE  /\ ServerTypes' /\ ListsAgree' /\ Identities'
         /\ \A j \in ClientId : Answering(serverSends[j])'
         /\ \A j \in ClientId : serverSends'[j] # << >> => j = 0
         /\ crashed' => 0 < nextClientId' /\ 0 \notin clients'
         /\ UNCHANGED <<clients, nextClientId, lookup, reverseLookup>>
         /\ \A j \in ClientId : serverControl[j] # << >> =>
              /\ serverControl'[j] # << >>
              /\ Head(serverControl'[j]) = Head(serverControl[j])
<1>0. ServerTypes /\ Identities /\ OddOnTheWay
  BY TypeParts DEF EInv
<1>1. CASE m.msgtype = "REQ" /\ ReceivedRequest(m.client, m.chunk, intact)
  <2>1. m.client \in ClientId
    BY DEF Message
  <2> QED
    BY <1>1, <2>1, AnswerStep
<1>2. CASE UNCHANGED serverVars
  <2>1. UNCHANGED <<crashed, totChunks, clients, nextClientId, lookup, reverseLookup,
                    serverControl, serverSends, chunkRequests, clientRequests>>
    BY <1>2 DEF serverVars, tableVars, waitVars
  <2>2. ServerTypes' /\ ListsAgree' /\ Identities'
    BY <1>0, <2>1 DEF EInv, ServerTypes, ListsAgree, Identities
  <2> QED
    BY <1>0, <2>1, <2>2
    DEF EInv, OddOnTheWay, Answering, FirstOnly, OnlyTheFirstIsServed
<1>3. CASE ReceivedReg(c) /\ lookup[c] # NoId
  <2> DEFINE i == lookup[c]
             r == Reg(i, totChunks)
  <2>1. /\ serverControl' = [serverControl EXCEPT ![i] = Append(@, r)]
        /\ UNCHANGED <<crashed, totChunks, clients, nextClientId, lookup, reverseLookup,
                       serverSends, chunkRequests, clientRequests>>
    BY <1>3 DEF ReceivedReg, tableVars, waitVars
  <2>2. i \in clients /\ i \in ClientId /\ totChunks \in Int
    BY <1>0, <1>3, EvalServerAssumption, ClientIds DEF Identities, ServerTypes
  <2>3. r \in Message /\ serverControl[i] \in Seq(Message)
    BY <1>0, <2>2, MessageFacts DEF ServerTypes
  <2> HIDE DEF r, i
  <2>4. /\ Append(serverControl[i], r) \in Seq(Message)
        /\ Append(serverControl[i], r) # << >>
        /\ serverControl[i] # << >> =>
             Head(Append(serverControl[i], r)) = Head(serverControl[i])
    BY <2>3, BufferRange, HeadOfAppend
  <2>5. /\ serverControl' \in [ClientId -> Seq(Message)]
        /\ serverControl'[i] = Append(serverControl[i], r)
        /\ \A j \in ClientId \ {i} : serverControl'[j] = serverControl[j]
    BY <1>0, <2>1, <2>2, <2>4 DEF ServerTypes
  <2>6. ServerTypes' /\ ListsAgree'
    BY <1>0, <2>1, <2>5 DEF EInv, ServerTypes, ListsAgree
  <2>7. Identities'
    BY <1>0, <2>1, <2>2, <2>5 DEF Identities
  <2>8. /\ \A j \in ClientId : Answering(serverSends[j])'
        /\ \A j \in ClientId : serverSends'[j] # << >> => j = 0
        /\ crashed' => 0 < nextClientId' /\ 0 \notin clients'
    BY <1>0, <2>1 DEF EInv, OddOnTheWay, Answering, FirstOnly, OnlyTheFirstIsServed
  <2> QED
    BY <2>1, <2>4, <2>5, <2>6, <2>7, <2>8
<1> QED
  BY <1>1, <1>2, <1>3 DEF ReceivedControlMsg, ReceivedReg

LEMMA ReadRequestStep ==
  ASSUME EInv, NEW c \in Client, NEW n \in Nat, NEW intact \in BOOLEAN,
         ReadRequest(c, n, intact)
  PROVE  EInv'
<1> DEFINE m == requests[c][n]
<1>0. /\ ServerTypes /\ NetTypes /\ OddOnTheWay /\ Identities
      /\ requests[c] \in Seq(Message) /\ Asks(requests[c])
  BY TypeParts DEF EInv, NetTypes, OddOnTheWay
<1>1. /\ n \in DOMAIN requests[c]
      /\ requests' = [requests EXCEPT ![c] = RemoveAt(@, n)]
      /\ UNCHANGED clientVars
      /\ UNCHANGED <<conn, replies, answers, asking>>
      /\ ReceivedControlMsg(c, m, intact)
  BY DEF ReadRequest
<1>2. /\ ClientTypes' /\ GenuineOnly' /\ OddChunksOnly' /\ OverrunWithoutGreeting'
      /\ UNCHANGED <<running, registered, clientId, chunks, recvChunkCache,
                     nextChunkIdx, clientControl, outOfRange>>
  BY <1>1, ServerFrame
<1>3. /\ m \in Message /\ m \in Range(requests[c])
      /\ RemoveAt(requests[c], n) \in Seq(Message)
      /\ Range(RemoveAt(requests[c], n)) \subseteq Range(requests[c])
  BY <1>0, <1>1, RemovedEntry
<1>4. /\ requests' \in [Client -> Seq(Message)]
      /\ requests'[c] = RemoveAt(requests[c], n)
      /\ \A d \in Client \ {c} : requests'[d] = requests[d]
  BY <1>0, <1>1, <1>3 DEF NetTypes
<1>5. NetTypes'
  BY <1>0, <1>1, <1>4 DEF NetTypes
<1> HIDE DEF m
<1>6. m.msgtype = "REQ" => m.chunk \in Chunk /\ Odd(m.chunk) /\ nextClientId > 0
  BY <1>0, <1>3 DEF Asks
<1>7. /\ ServerTypes' /\ ListsAgree' /\ Identities'
      /\ \A j \in ClientId : Answering(serverSends[j])'
      /\ \A j \in ClientId : serverSends'[j] # << >> => j = 0
      /\ crashed' => 0 < nextClientId' /\ 0 \notin clients'
      /\ UNCHANGED <<clients, nextClientId, lookup, reverseLookup>>
      /\ \A j \in ClientId : serverControl[j] # << >> =>
           /\ serverControl'[j] # << >>
           /\ Head(serverControl'[j]) = Head(serverControl[j])
  BY <1>1, <1>3, <1>6, MessageStep
<1>8. OddOnTheWay'
  <2>1. \A d \in Client : Asks(requests[d])'
    BY <1>0, <1>3, <1>4, <1>7 DEF OddOnTheWay, Asks
  <2> QED
    BY <1>0, <1>1, <1>2, <1>7, <2>1 DEF OddOnTheWay, Asks, Answering
<1>9. Known' /\ FirstOnly'
  BY <1>1, <1>2, <1>7 DEF EInv, Known, FirstOnly
<1>10. Greeted'
  <2>1. clients \subseteq ClientId
    BY <1>0, ClientIds
  <2> QED
    BY <1>1, <1>2, <1>7, <2>1 DEF EInv, Greeted, GreetingNext, GreetingOut, Fits
<1>11. OnlyTheFirstIsServed'
  BY <1>2, <1>7 DEF EInv, OnlyTheFirstIsServed
<1> QED
  BY <1>2, <1>5, <1>7, <1>8, <1>9, <1>10, <1>11, TypeParts DEF EInv

LEMMA SendReplyStep ==
  ASSUME EInv, NEW i \in clients, SendReply(i)
  PROVE  EInv'
<1> DEFINE c == reverseLookup[i]
           m == Head(serverControl[i])
<1>0. /\ ServerTypes /\ NetTypes /\ OddOnTheWay /\ Identities
      /\ i \in ClientId /\ clients \subseteq ClientId /\ c \in Client /\ nextClientId > 0
  BY TypeParts, ClientIds DEF EInv, Identities
<1>1. /\ serverControl[i] # << >>
      /\ serverControl' = [serverControl EXCEPT ![i] = Tail(@)]
      /\ UNCHANGED <<crashed, totChunks, clients, nextClientId, lookup, reverseLookup,
                     serverSends, chunkRequests, clientRequests>>
      /\ UNCHANGED clientVars
      /\ UNCHANGED <<conn, requests, answers, asking>>
      /\ \/ replies' = [replies EXCEPT ![c] = Append(@, m)]
         \/ conn[c] # "open" /\ replies' = replies
  BY DEF SendReply, WriteMessage, tableVars, waitVars
<1>2. /\ ClientTypes' /\ GenuineOnly' /\ OddChunksOnly'
      /\ UNCHANGED <<running, registered, clientId, chunks, recvChunkCache,
                     nextChunkIdx, clientControl, outOfRange>>
  BY <1>1, ServerFrame
<1>3. m \in Message /\ Tail(serverControl[i]) \in Seq(Message)
  <2>1. serverControl[i] \in Seq(Message)
    BY <1>0 DEF ServerTypes
  <2> QED
    BY <1>1, <2>1, BufferRange
<1>4. /\ serverControl' \in [ClientId -> Seq(Message)]
      /\ \A j \in ClientId \ {i} : serverControl'[j] = serverControl[j]
  BY <1>0, <1>1, <1>3 DEF ServerTypes
<1>5. ServerTypes' /\ ListsAgree'
  BY <1>0, <1>1, <1>4 DEF EInv, ServerTypes, ListsAgree
<1>6. Identities'
  BY <1>0, <1>1, <1>4 DEF Identities
<1>7. OddOnTheWay'
  BY <1>0, <1>1, <1>2 DEF OddOnTheWay, Asks, Answering
<1>8. FirstOnly' /\ OnlyTheFirstIsServed'
  BY <1>1, <1>2 DEF EInv, FirstOnly, OnlyTheFirstIsServed
<1>9. replies[c] \in Seq(Message)
  BY <1>0, <1>3 DEF NetTypes
<1>10. \A j \in clients : j # i => reverseLookup[j] # c
  BY <1>0 DEF Identities
<1>11. GreetingNext(c) => Fits(m)
  BY <1>0 DEF GreetingNext
<1> HIDE DEF m, c
<1>12. /\ replies' \in [Client -> Seq(Message)]
       /\ \A d \in Client : Range(replies[d]) \subseteq Range(replies'[d])
       /\ \A d \in Client \ {c} : replies'[d] = replies[d]
       /\ \A d \in Client : d = c => m \in Range(replies'[d]) \/ conn[d] # "open"
  <2>1. /\ Append(replies[c], m) \in Seq(Message)
        /\ Range(Append(replies[c], m)) = Range(replies[c]) \cup {m}
    BY <1>3, <1>9, BufferRange
  <2>2. CASE replies' = [replies EXCEPT ![c] = Append(@, m)]
    BY <1>0, <1>9, <2>1, <2>2 DEF NetTypes
  <2>3. CASE conn[c] # "open" /\ replies' = replies
    BY <1>0, <2>3 DEF NetTypes
  <2> QED
    BY <1>1, <2>2, <2>3
<1>13. \A d \in Client : GreetingOut(d) => GreetingOut(d)'
  BY <1>12 DEF GreetingOut, Fits
<1>14. NetTypes' /\ Known' /\ OverrunWithoutGreeting'
  <2>1. NetTypes' /\ Known'
    BY <1>0, <1>1, <1>2, <1>12 DEF EInv, NetTypes, Known
  <2>2. OverrunWithoutGreeting'
    BY <1>2, <1>13 DEF EInv, OverrunWithoutGreeting, GreetingOut, Fits
  <2> QED
    BY <2>1, <2>2
<1>15. Greeted'
  <2> SUFFICES ASSUME NEW d \in Client, ~registered[d], conn[d] # "closed",
                      ~GreetingOut(d)'
               PROVE  GreetingNext(d)'
    BY <1>1, <1>2 DEF Greeted
  <2>1. GreetingNext(d)
    BY <1>13 DEF EInv, Greeted
  <2>2. d # c
    <3>1. ASSUME d = c PROVE FALSE
      <4>1. conn[c] = "open"
        <5>1. lookup[c] = i /\ i # NoId
          BY <1>0, ClientIds DEF Identities, c
        <5> QED
          BY <1>0, <3>1, <5>1 DEF NetTypes, Identities
      <4>2. Fits(m)
        BY <1>11, <2>1, <3>1
      <4> QED
        BY <1>12, <3>1, <4>1, <4>2 DEF GreetingOut, Fits
    <3> QED
      BY <3>1
  <2>3. \A j \in clients : reverseLookup[j] = d => serverControl'[j] = serverControl[j]
    BY <1>0, <1>4, <2>2 DEF c
  <2> QED
    BY <1>1, <1>12, <2>1, <2>2, <2>3 DEF GreetingNext, GreetingOut, Fits
<1> QED
  BY <1>2, <1>5, <1>6, <1>7, <1>8, <1>14, <1>15, TypeParts DEF EInv

LEMMA SendAnswerStep ==
  ASSUME EInv, NEW i \in clients, SendAnswer(i)
  PROVE  EInv'
<1> DEFINE c == reverseLookup[i]
           m == Head(serverSends[i])
<1>0. /\ ServerTypes /\ NetTypes /\ OddOnTheWay /\ Identities
      /\ i \in ClientId /\ clients \subseteq ClientId /\ c \in Client
  BY TypeParts, ClientIds DEF EInv, Identities
<1>1. /\ serverSends[i] # << >>
      /\ serverSends' = [serverSends EXCEPT ![i] = Tail(@)]
      /\ UNCHANGED <<crashed, totChunks, clients, nextClientId, lookup, reverseLookup,
                     serverControl, chunkRequests, clientRequests>>
      /\ UNCHANGED clientVars
      /\ UNCHANGED <<conn, requests, replies, asking>>
      /\ \/ answers' = [answers EXCEPT ![c] = Append(@, m)]
         \/ answers' = answers
  BY DEF SendAnswer, WriteAnswer, tableVars, waitVars
<1>2. /\ ClientTypes' /\ GenuineOnly' /\ OddChunksOnly' /\ OverrunWithoutGreeting'
      /\ UNCHANGED <<running, registered, clientId, chunks, recvChunkCache,
                     nextChunkIdx, clientControl, outOfRange>>
  BY <1>1, ServerFrame
<1>3. i = 0
  BY <1>0, <1>1 DEF EInv, FirstOnly
<1>4. /\ serverSends[i] \in Seq(Answer) /\ Answering(serverSends[i])
      /\ answers[c] \in Seq(Answer) /\ Answering(answers[c])
  BY <1>0 DEF ServerTypes, NetTypes, OddOnTheWay
<1>5. /\ m \in Answer /\ Odd(m.id) /\ Tail(serverSends[i]) \in Seq(Answer)
      /\ Range(Tail(serverSends[i])) \subseteq Range(serverSends[i])
  <2>1. /\ m \in Answer /\ m \in Range(serverSends[i])
        /\ Tail(serverSends[i]) \in Seq(Answer)
        /\ Range(Tail(serverSends[i])) \subseteq Range(serverSends[i])
    BY <1>1, <1>4, BufferRange
  <2> QED
    BY <1>4, <2>1 DEF Answering
<1>6. /\ serverSends' \in [ClientId -> Seq(Answer)]
      /\ serverSends'[i] = Tail(serverSends[i])
      /\ \A j \in ClientId \ {i} : serverSends'[j] = serverSends[j]
  BY <1>0, <1>1, <1>5 DEF ServerTypes
<1> HIDE DEF m, c
<1>7. /\ Append(answers[c], m) \in Seq(Answer)
      /\ Range(Append(answers[c], m)) = Range(answers[c]) \cup {m}
  BY <1>4, <1>5, BufferRange
<1>8. /\ answers' \in [Client -> Seq(Answer)]
      /\ Range(answers'[c]) \subseteq Range(answers[c]) \cup {m}
      /\ \A d \in Client \ {c} : answers'[d] = answers[d]
  <2>1. CASE answers' = [answers EXCEPT ![c] = Append(@, m)]
    BY <1>0, <1>7, <2>1 DEF NetTypes
  <2>2. CASE answers' = answers
    BY <1>0, <2>2 DEF NetTypes
  <2> QED
    BY <1>1, <2>1, <2>2
<1>9. ServerTypes' /\ NetTypes' /\ ListsAgree'
  BY <1>0, <1>1, <1>6, <1>8 DEF EInv, ServerTypes, NetTypes, ListsAgree
<1>10. Identities'
  BY <1>0, <1>1, <1>6 DEF Identities
<1>11. OddOnTheWay'
  <2>1. \A d \in Client : Answering(answers[d])'
    BY <1>0, <1>4, <1>5, <1>8 DEF OddOnTheWay, Answering
  <2>2. \A j \in ClientId : Answering(serverSends[j])'
    BY <1>0, <1>4, <1>5, <1>6 DEF OddOnTheWay, Answering
  <2> QED
    BY <1>0, <1>1, <1>2, <2>1, <2>2 DEF OddOnTheWay, Asks, Answering
<1>12. Known' /\ Greeted'
  BY <1>1, <1>2 DEF EInv, Known, Greeted, GreetingNext, GreetingOut, Fits
<1>13. FirstOnly'
  <2>1. \A j \in ClientId : serverSends'[j] # << >> => j = 0
    BY <1>3, <1>6 DEF EInv, FirstOnly
  <2>2. \A d \in Client : answers'[d] # << >> => reverseLookup[0] = d \/ ~running[d]
    BY <1>3, <1>8 DEF EInv, FirstOnly, c
  <2> QED
    BY <1>1, <1>2, <2>1, <2>2 DEF EInv, FirstOnly
<1>14. OnlyTheFirstIsServed'
  BY <1>1, <1>2 DEF EInv, OnlyTheFirstIsServed
<1> QED
  BY <1>2, <1>9, <1>10, <1>11, <1>12, <1>13, <1>14, TypeParts DEF EInv

LEMMA SeeEndStep ==
  ASSUME EInv, NEW i \in clients, SeeEnd(i)
  PROVE  EInv'
<1> DEFINE c == reverseLookup[i]
<1>0. /\ ServerTypes /\ NetTypes /\ OddOnTheWay /\ Identities /\ ListsAgree
      /\ i \in ClientId /\ clients \subseteq ClientId /\ c \in Client
      /\ NoId \notin ClientId /\ NoAddr \notin Client
  BY TypeParts, ClientIds DEF EInv, Identities
<1>1. /\ conn[c] = "closed" /\ ~crashed
      /\ chunkRequests' = StopWaiting(i)
      /\ clientRequests' = [clientRequests EXCEPT ![i] = {}]
      /\ lookup' = [lookup EXCEPT ![c] = NoId]
      /\ reverseLookup' = [reverseLookup EXCEPT ![i] = NoAddr]
      /\ clients' = clients \ {i}
      /\ serverControl' = [serverControl EXCEPT ![i] = << >>]
      /\ serverSends' = [serverSends EXCEPT ![i] = << >>]
      /\ UNCHANGED <<crashed, totChunks, nextClientId>>
      /\ UNCHANGED clientVars
      /\ UNCHANGED <<conn, requests, replies, answers, asking>>
  BY DEF SeeEnd, ClientDisconnected, netVars
<1>2. /\ ClientTypes' /\ GenuineOnly' /\ OddChunksOnly' /\ OverrunWithoutGreeting'
      /\ UNCHANGED <<running, registered, clientId, chunks, recvChunkCache,
                     nextChunkIdx, clientControl, outOfRange>>
  BY <1>1, ServerFrame
<1>3. ~running[c]
  BY <1>0, <1>1 DEF EInv, FirstOnly
<1> HIDE DEF c
<1>4. /\ lookup' \in [Client -> ClientId \cup {NoId}] /\ lookup'[c] = NoId
      /\ \A d \in Client \ {c} : lookup'[d] = lookup[d]
      /\ reverseLookup' \in [ClientId -> Client \cup {NoAddr}]
      /\ reverseLookup'[i] = NoAddr
      /\ \A j \in ClientId \ {i} : reverseLookup'[j] = reverseLookup[j]
  BY <1>0, <1>1 DEF ServerTypes
<1>5. /\ serverControl' \in [ClientId -> Seq(Message)] /\ serverControl'[i] = << >>
      /\ serverSends' \in [ClientId -> Seq(Answer)] /\ serverSends'[i] = << >>
      /\ \A j \in ClientId \ {i} : /\ serverControl'[j] = serverControl[j]
                                   /\ serverSends'[j] = serverSends[j]
  <2>1. << >> \in Seq(Message) /\ << >> \in Seq(Answer)
    OBVIOUS
  <2> QED
    BY <1>0, <1>1, <2>1 DEF ServerTypes
<1>6. /\ chunkRequests' \in [Chunk -> SUBSET ClientId]
      /\ clientRequests' \in [ClientId -> SUBSET Chunk]
      /\ ListsAgree'
  BY <1>0, <1>1 DEF StopWaiting, ServerTypes, ListsAgree
<1>7. ServerTypes' /\ NetTypes'
  <2>1. clients' \subseteq 0 .. (nextClientId' - 1)
    BY <1>0, <1>1 DEF ServerTypes
  <2> QED
    BY <1>0, <1>1, <1>4, <1>5, <1>6, <2>1 DEF ServerTypes, NetTypes
<1>8. Identities'
  <2>1. ASSUME NEW j \in clients'
        PROVE  reverseLookup'[j] \in Client /\ lookup'[reverseLookup'[j]] = j
    <3>1. j \in clients /\ j \in ClientId \ {i}
      BY <1>0, <1>1
    <3>2. /\ reverseLookup'[j] = reverseLookup[j] /\ lookup[reverseLookup[j]] = j
          /\ lookup[c] = i /\ reverseLookup[j] \in Client
      BY <1>0, <1>4, <3>1 DEF Identities, c
    <3> QED
      BY <1>4, <3>1, <3>2
  <2>2. ASSUME NEW d \in Client, lookup'[d] # NoId
        PROVE  lookup'[d] \in clients' /\ reverseLookup'[lookup'[d]] = d
    <3>1. d # c /\ lookup'[d] = lookup[d]
      BY <1>4, <2>2
    <3>2. lookup[d] \in clients /\ reverseLookup[lookup[d]] = d
      BY <1>0, <2>2, <3>1 DEF Identities
    <3>3. lookup[d] # i
      BY <3>1, <3>2 DEF c
    <3> QED
      BY <1>0, <1>1, <1>4, <3>1, <3>2, <3>3
  <2>3. \A d \in Client : conn'[d] \in {"new", "backlog"} => lookup'[d] = NoId
    BY <1>0, <1>1, <1>4 DEF Identities
  <2>4. \A j \in ClientId \ clients' : /\ reverseLookup'[j] = NoAddr
                                       /\ serverControl'[j] = << >>
                                       /\ serverSends'[j] = << >>
    BY <1>0, <1>1, <1>4, <1>5 DEF Identities
  <2> QED
    BY <2>1, <2>2, <2>3, <2>4 DEF Identities
<1>9. OddOnTheWay' /\ Known'
  <2>1. \A j \in ClientId : Answering(serverSends[j])'
    <3>1. Answering(<< >>)
      BY DEF Answering, Range
    <3> QED
      BY <1>0, <1>5, <3>1 DEF OddOnTheWay, Answering
  <2> QED
    BY <1>0, <1>1, <1>2, <2>1 DEF EInv, OddOnTheWay, Asks, Answering, Known
<1>10. \A d \in Client : reverseLookup[0] = d => reverseLookup'[0] = d \/ ~running[d]
  BY <1>0, <1>3, <1>4, ClientIds DEF c
<1>11. FirstOnly'
  BY <1>1, <1>2, <1>5, <1>10 DEF EInv, FirstOnly
<1>12. OnlyTheFirstIsServed'
  <2>1. ~crashed'
    BY <1>1
  <2> QED
    BY <1>2, <1>10, <2>1 DEF EInv, OnlyTheFirstIsServed
<1>13. Greeted'
  <2>1. \A j \in clients' : /\ j \in clients /\ reverseLookup'[j] = reverseLookup[j]
                            /\ serverControl'[j] = serverControl[j]
    BY <1>0, <1>1, <1>4, <1>5
  <2> QED
    BY <1>1, <1>2, <2>1 DEF EInv, Greeted, GreetingNext, GreetingOut, Fits
<1> QED
  BY <1>2, <1>6, <1>7, <1>8, <1>9, <1>11, <1>12, <1>13, TypeParts DEF EInv

-----------------------------------------------------------------------------
(***************************************************************************)
(* The invariant and the properties.                                       *)
(***************************************************************************)
LEMMA EInvInit ==
  ASSUME Init
  PROVE  EInv
<1>0. /\ running = [c \in Client |-> TRUE] /\ registered = [c \in Client |-> FALSE]
      /\ clientId = [c \in Client |-> NoId] /\ canRequest = [c \in Client |-> FALSE]
      /\ chunks = [c \in Client |-> NoText] /\ numRcvd = [c \in Client |-> 0]
      /\ recvChunkCache = [c \in Client |-> << >>]
      /\ nextChunkIdx = [c \in Client |-> 1]
      /\ clientControl = [c \in Client |-> << >>]
      /\ savedFile = [c \in Client |-> FALSE] /\ file = [c \in Client |-> NoText]
      /\ outOfRange = [c \in Client |-> FALSE]
  BY DEF Init, ClientInit
<1>1. /\ crashed = FALSE /\ totChunks \in UnsetTotals /\ clients = {} /\ nextClientId = 0
      /\ lookup = [a \in Client |-> NoId] /\ reverseLookup = [i \in ClientId |-> NoAddr]
      /\ serverControl = [i \in ClientId |-> << >>]
      /\ serverSends = [i \in ClientId |-> << >>]
      /\ chunkRequests = [k \in Chunk |-> {}] /\ clientRequests = [i \in ClientId |-> {}]
  BY EvalAssumption DEF Init, ServerInit
<1>2. /\ conn = [c \in Client |-> "new"] /\ requests = [c \in Client |-> << >>]
      /\ replies = [c \in Client |-> << >>] /\ answers = [c \in Client |-> << >>]
      /\ asking = 0
  BY DEF Init
<1>3. /\ << >> \in Seq(Message) /\ << >> \in Seq(Answer) /\ << >> \in Seq(Client \X Message)
      /\ Range(<< >>) = {}
  BY DEF Range
<1>4. NumChunks \in Nat /\ NumChunks > 1 /\ MaxClientId \in Nat /\ MaxAsking \in Nat
  BY NumChunksAssumption, MaxClientIdAssumption, EvalAssumption
<1>5. 1 \in Chunk /\ Odd(1)
  BY <1>4 DEF Chunk, Odd
<1>6. ClientTypes
  <2>1. NoText \in Texts
    BY DEF NoText, Texts
  <2>2. /\ numRcvd \in [Client -> Nat] /\ nextChunkIdx \in [Client -> Chunk]
        /\ recvChunkCache \in [Client -> Seq(Answer)]
        /\ clientControl \in [Client -> Seq(Message)]
    BY <1>0, <1>3, <1>5
  <2> QED
    BY <1>0, <2>1, <2>2 DEF ClientTypes
<1>7. ServerTypes
  <2>1. /\ nextClientId \in 0 .. (MaxClientId + 1) /\ clients \subseteq 0 .. (nextClientId - 1)
    BY <1>1, <1>4
  <2>2. /\ serverControl \in [ClientId -> Seq(Message)]
        /\ serverSends \in [ClientId -> Seq(Answer)]
    BY <1>1, <1>3
  <2> QED
    BY <1>1, <2>1, <2>2 DEF ServerTypes
<1>8. NetTypes
  BY <1>2, <1>3, <1>4 DEF NetTypes
<1>9. OddOnTheWay
  BY <1>0, <1>1, <1>2, <1>3, <1>5 DEF OddOnTheWay, Asks, Answering
<1>10. Identities /\ Known /\ FirstOnly /\ Greeted
  BY <1>0, <1>1, <1>2 DEF Identities, Known, FirstOnly, Greeted, GreetingNext
<1>11. ListsAgree /\ GenuineOnly /\ OddChunksOnly /\ OnlyTheFirstIsServed /\ OverrunWithoutGreeting
  BY <1>0, <1>1
  DEF ListsAgree, GenuineOnly, OddChunksOnly, OnlyTheFirstIsServed, OverrunWithoutGreeting, NoText
<1> QED
  BY <1>6, <1>7, <1>8, <1>9, <1>10, <1>11, TypeParts DEF EInv

LEMMA EInvStep ==
  ASSUME EInv, Next
  PROVE  EInv'
<1>1. ASSUME NEW c \in Client, ClientStep(c) PROVE EInv'
  <2>1. ASSUME NEW n \in 1 .. MaxReplies, ReadReply(c, n) PROVE EInv'
    <3>1. n \in Nat
      BY EvalAssumption
    <3> QED
      BY <2>1, <3>1, ReadReplyStep
  <2> QED
    BY <1>1, <2>1, JoinStep, SendRequestStep, ReadAnswerStep, TimerStep, TurnStep,
       EndStep DEF ClientStep
<1>2. ASSUME NEW c \in Client, LoseRequest(c) PROVE EInv'
  BY <1>2, LoseRequestStep
<1>3. ASSUME ServerStep PROVE EInv'
  <2>1. ASSUME NEW c \in Client, Accept(c) PROVE EInv'
    BY <2>1, AcceptStep
  <2>2. ASSUME NEW c \in Client, NEW n \in 1 .. MaxInFlight, NEW intact \in BOOLEAN,
               ReadRequest(c, n, intact)
        PROVE  EInv'
    <3>1. n \in Nat
      BY EvalAssumption
    <3> QED
      BY <2>2, <3>1, ReadRequestStep
  <2>3. ASSUME NEW i \in clients, SendReply(i) \/ SendAnswer(i) \/ SeeEnd(i)
        PROVE  EInv'
    BY <2>3, SendReplyStep, SendAnswerStep, SeeEndStep
  <2> QED
    BY <1>3, <2>1, <2>2, <2>3 DEF ServerStep
<1> QED
  BY <1>1, <1>2, <1>3 DEF Next

LEMMA EInvStutter ==
  ASSUME EInv, UNCHANGED vars
  PROVE  EInv'
<1>1. UNCHANGED clientVars /\ UNCHANGED serverVars /\ UNCHANGED netVars
  BY DEF vars
<1>2. /\ ServerTypes' /\ ListsAgree' /\ Identities'
      /\ UNCHANGED <<crashed, totChunks, clients, nextClientId, lookup, reverseLookup,
                     serverControl, serverSends>>
  BY <1>1, ClientFrame DEF netVars
<1>3. /\ ClientTypes' /\ GenuineOnly' /\ OddChunksOnly' /\ OverrunWithoutGreeting'
      /\ UNCHANGED <<running, registered, clientId, chunks, recvChunkCache,
                     nextChunkIdx, clientControl, outOfRange>>
  BY <1>1, ServerFrame DEF netVars
<1>4. UNCHANGED <<conn, requests, replies, answers, asking>>
  BY <1>1 DEF netVars
<1>5. NetTypes'
  BY <1>4, TypeParts DEF EInv, NetTypes
<1>6. OddOnTheWay' /\ Known' /\ FirstOnly' /\ Greeted' /\ OnlyTheFirstIsServed'
  BY <1>2, <1>3, <1>4
  DEF EInv, OddOnTheWay, Asks, Answering, Known, FirstOnly, Greeted, GreetingNext, GreetingOut, Fits,
      OnlyTheFirstIsServed
<1> QED
  BY <1>2, <1>3, <1>5, <1>6, TypeParts DEF EInv

\* The inductive invariant holds in every reachable state.
THEOREM Invariance == Spec => []EInv
<1>1. Init => EInv
  BY EInvInit
<1>2. EInv /\ [Next]_vars => EInv'
  BY EInvStep, EInvStutter
<1> QED
  BY <1>1, <1>2, PTL DEF Spec

\* The server's tables and the two directions of who waits for what agree,
\* although requests arrive twice, not at all, or when the server has seen the
\* end of their client, with the first client still there to be answered.
THEOREM ListsStayConsistent == Spec => []ListsConsistent
<1>1. EInv => ListsConsistent
  BY DEF EInv, ListsConsistent
<1> QED
  BY <1>1, Invariance, PTL

\* No corrupted text is ever among the chunks of a client or in its file.
THEOREM NothingCorruptedIsSaved == Spec => []GenuineOnly
<1>1. EInv => GenuineOnly
  BY DEF EInv
<1> QED
  BY <1>1, Invariance, PTL

\* For any odd number of chunks no client ever holds or saves an even one: the
\* request sequence skips them.
THEOREM EvenChunksAreMissing == Spec => []OddChunksOnly
<1>1. EInv => OddChunksOnly
  BY DEF EInv
<1> QED
  BY <1>1, Invariance, PTL

\* Only the client with id 0 is ever served, and the server comes down only
\* after that client has gone.
THEOREM OthersAreNotServed == Spec => []OnlyTheFirstIsServed
<1>1. EInv => OnlyTheFirstIsServed
  BY DEF EInv
<1> QED
  BY <1>1, Invariance, PTL

\* For any number of clients and any total: a client writes past its vectors only
\* if its greeting is still on its way to it, overtaken by another REG, or lost.
THEOREM OverrunExplained == Spec => []OverrunWithoutGreeting
<1>1. EInv => OverrunWithoutGreeting
  BY DEF EInv
<1> QED
  BY <1>1, Invariance, PTL
=============================================================================
