------------------------ MODULE TrickleServerProofs -------------------------
(***************************************************************************)
(* Proofs about the server in its open environment, for any number of      *)
(* chunks, ids, addresses and first clients, and buffers of any size.      *)
(*                                                                         *)
(* What the properties of TrickleServer need beside each other: that an id *)
(* without a connection has nothing queued, that only ids handed out wait  *)
(* for chunks, and that until the distribution is over nobody waits for    *)
(* anything or was told OPEN, and each chunk is queued in one place only.  *)
(* At the end, that the server uses its cache as ChunkCache means it.      *)
(***************************************************************************)
EXTENDS TrickleServer, FiniteSetTheorems, BufferTheorems

OpenQueued(i) == \E m \in Range(controlMsgBuffer[i]) : m.msgtype = "OPEN"

\* Ids without a connection have empty buffers, and ids still to be handed out
\* are on no list.
Idle ==
  /\ \A i \in ClientId \ clients : controlMsgBuffer[i] = << >> /\ chunkBuffer[i] = << >>
  /\ \A k \in Chunk : chunkRequests[k] \subseteq 0 .. (nextClientId - 1)

\* Until the distribution is over.
Closed ==
  ~distributedAll =>
    /\ ~requestsOpen
    /\ \A k \in Chunk : chunkRequests[k] = {}
    /\ \A i \in ClientId : NoRepeats(chunkBuffer[i])
    /\ \A i, j \in ClientId :
         i # j => Range(chunkBuffer[i]) \cap Range(chunkBuffer[j]) = {}

\* The inductive invariant.
IInv ==
  /\ TypeOK /\ LookupMatchesClients /\ OwnListTrue /\ Idle
  /\ DistributionBooks /\ NoRepeats(chunksToDistribute) /\ Closed
  /\ OpenAfterDistribution /\ NobodyLeftClosed /\ CrashCause

-----------------------------------------------------------------------------
(***************************************************************************)
(* Messages, shares and the cache.                                         *)
(***************************************************************************)
LEMMA MessageTypes ==
  /\ \A i \in ClientId : Reg(i, NumChunks) \in ControlMessage
  /\ Open(0) \in ControlMessage
  /\ \A i \in ClientId, k \in Chunk : Req(i, k) \in ControlMessage
BY NumChunksAssumption, MaxClientIdAssumption
DEF Reg, Open, Req, ControlMessage, ClientId, Chunk

\* A share is never more than there is to deal.
LEMMA ShareBound ==
  ASSUME NEW m \in Nat, NEW n \in Nat \ {0}
  PROVE  ChunkLimit(m, n) \in 0 .. m
<1>1. m \div n \in Nat /\ m % n \in Nat /\ m = n * (m \div n) + (m % n)
  OBVIOUS
<1>2. ASSUME NEW q \in Nat PROVE n * q >= q
  OBVIOUS
<1>3. m >= (m \div n) + (m % n)
  BY <1>1, <1>2
<1> QED
  BY <1>1, <1>3 DEF ChunkLimit

NextShare == IF ClientsToCome > 0
             THEN ChunkLimit(Len(chunksToDistribute), ClientsToCome) ELSE 0

\* What dealing a share out does to the queue and the buffer.
LEMMA DealEffect ==
  ASSUME chunksToDistribute \in Seq(Chunk), clientsDistributedTo \in Nat,
         NEW i \in ClientId, Deal(i, NextShare)
  PROVE  \E front \in Seq(Chunk) :
           /\ NextShare \in Nat
           /\ chunkBuffer' = [chunkBuffer EXCEPT ![i] = front]
           /\ beingDistributed' = beingDistributed \cup Range(front)
           /\ chunksToDistribute' \in Seq(Chunk)
           /\ Range(chunksToDistribute) = Range(front) \cup Range(chunksToDistribute')
           /\ NoRepeats(chunksToDistribute) =>
                /\ NoRepeats(front) /\ NoRepeats(chunksToDistribute')
                /\ Range(front) \cap Range(chunksToDistribute') = {}
<1> DEFINE queue == chunksToDistribute
           front == SubSeq(queue, 1, NextShare)
<1>1. queue \in Seq(Chunk) /\ Len(queue) \in Nat
  BY LenProperties
<1>2. NextShare \in 0 .. Len(queue)
  <2>1. ClientsToCome \in Int
    BY ServerAssumption DEF ClientsToCome
  <2> QED
    BY <1>1, <2>1, ShareBound DEF NextShare
<1>3. /\ front \in Seq(Chunk)
      /\ Range(front) = {queue[j] : j \in 1 .. NextShare}
      /\ NoRepeats(queue) => NoRepeats(front)
  BY <1>1, <1>2, FrontOfSequence
<1>4. /\ queue' = SubSeq(queue, NextShare + 1, Len(queue))
      /\ chunkBuffer' = [chunkBuffer EXCEPT ![i] = front]
      /\ beingDistributed' = beingDistributed \cup {queue[j] : j \in 1 .. NextShare}
  BY DEF Deal
<1>5. /\ queue' \in Seq(Chunk)
      /\ Range(queue) = {queue[j] : j \in 1 .. NextShare} \cup Range(queue')
      /\ NoRepeats(queue) => NoRepeats(queue')
                             /\ \A j \in 1 .. NextShare : queue[j] \notin Range(queue')
  BY <1>1, <1>2, <1>4, RestOfSequence
<1> HIDE DEF queue, front
<1>6. NoRepeats(queue) => Range(front) \cap Range(queue') = {}
  BY <1>3, <1>5
<1>7. NextShare \in Nat
  BY <1>1, <1>2
<1>8. Range(queue) = Range(front) \cup Range(queue')
  BY <1>3, <1>5
<1> QED
  BY <1>3, <1>4, <1>5, <1>6, <1>7, <1>8 DEF queue

\* The cache keeps a list of chunks.
LEMMA CacheType ==
  ASSUME chunkCache \in Seq(Chunk), NEW k \in Chunk, Cache!Hit(k) \/ Cache!Add(k)
  PROVE  chunkCache' \in Seq(Chunk)
<1>0. <<k>> \in Seq(Chunk)
  OBVIOUS
<1>1. ASSUME NEW i \in DOMAIN chunkCache
      PROVE  Cache!RemoveAt(chunkCache, i) \in Seq(Chunk)
  <2>1. Len(chunkCache) \in Nat /\ \A j \in 1 .. Len(chunkCache) : chunkCache[j] \in Chunk
    BY ElementOfSeq
  <2>2. i \in 1 .. Len(chunkCache)
    OBVIOUS
  <2>3. \A j \in 1 .. i - 1 : chunkCache[j] \in Chunk
    BY <2>1, <2>2
  <2>4. SubSeq(chunkCache, 1, i - 1) \in Seq(Chunk)
    BY <2>1, <2>2, <2>3, SubSeqProperties
  <2>5. \A j \in i + 1 .. Len(chunkCache) : chunkCache[j] \in Chunk
    BY <2>1, <2>2
  <2>6. SubSeq(chunkCache, i + 1, Len(chunkCache)) \in Seq(Chunk)
    BY <2>1, <2>2, <2>5, SubSeqProperties
  <2> QED
    BY <2>4, <2>6, ConcatProperties DEF Cache!RemoveAt
<1>2. Cache!Kept \in Seq(Chunk)
  <2>1. Len(chunkCache) \in Nat /\ \A j \in 1 .. Len(chunkCache) : chunkCache[j] \in Chunk
    BY ElementOfSeq
  <2>2. \A j \in 1 .. Len(chunkCache) - 1 : chunkCache[j] \in Chunk
    BY <2>1
  <2>3. SubSeq(chunkCache, 1, Len(chunkCache) - 1) \in Seq(Chunk)
    BY <2>1, <2>2, SubSeqProperties
  <2> QED
    BY <2>3 DEF Cache!Kept, Cache!Front
<1> QED
  BY <1>0, <1>1, <1>2, ConcatProperties DEF Cache!Hit, Cache!Add

\* A client is greeted with an OPEN exactly when the distribution is over.
LEMMA GreetingFacts ==
  ASSUME NEW i \in ClientId
  PROVE  /\ Greeting(i) \in Seq(ControlMessage)
         /\ (\E m \in Range(Greeting(i)) : m.msgtype = "OPEN") <=> distributedAll
<1>1. Reg(i, NumChunks) \in ControlMessage /\ Open(0) \in ControlMessage
  BY MessageTypes
<1>2. Reg(i, NumChunks).msgtype = "REG" /\ Open(0).msgtype = "OPEN"
  BY DEF Reg, Open
<1>3. CASE distributedAll
  <2> DEFINE s == <<Reg(i, NumChunks), Open(0)>>
  <2>1. Greeting(i) = s
    BY <1>3 DEF Greeting
  <2>2. s \in Seq(ControlMessage) /\ 2 \in DOMAIN s /\ s[2] = Open(0)
    BY <1>1
  <2> QED
    BY <1>2, <1>3, <2>1, <2>2 DEF Range
<1>4. CASE ~distributedAll
  <2> DEFINE s == <<Reg(i, NumChunks)>>
  <2>1. Greeting(i) = s
    BY <1>4 DEF Greeting
  <2>2. s \in Seq(ControlMessage)
    BY <1>1
  <2>3. \A j \in DOMAIN s : s[j] = Reg(i, NumChunks)
    OBVIOUS
  <2> QED
    BY <1>2, <1>4, <2>1, <2>2, <2>3 DEF Range
<1> QED
  BY <1>3, <1>4

\* What a client that connects is dealt, whether or not the distribution runs.
LEMMA DistributeEffect ==
  ASSUME TypeOK, NEW i \in ClientId, DistributeTo(i)
  PROVE  \/ distributedAll /\ UNCHANGED <<dealVars, beingDistributed, chunkBuffer>>
         \/ /\ ~distributedAll
            /\ Deal(i, NextShare)
BY DEF DistributeTo, NextShare

\* The copies of a forwarded request leave what is queued in place.
LEMMA ForwardedEffect ==
  ASSUME TypeOK, NEW i \in ClientId, NEW k \in Chunk,
         NEW order \in [clients -> 1 .. Cardinality(clients)]
  PROVE  LET buffer == Forwarded(i, k, order) IN
         /\ buffer \in [ClientId -> Seq(ControlMessage)]
         /\ \A j \in ClientId : Range(controlMsgBuffer[j]) \subseteq Range(buffer[j])
         /\ \A j \in ClientId \ clients : buffer[j] = controlMsgBuffer[j]
<1>1. ASSUME NEW p PROVE Copies(p, k) \in Nat
  <2> DEFINE S == {r \in Rounds(k) : p <= Cardinality(clients) \div 2^r}
  <2>0. 0 \in Int /\ 9 \in Int
    OBVIOUS
  <2>1. S \subseteq 0 .. 9
    BY DEF Rounds
  <2>2. IsFiniteSet(0 .. 9)
    BY <2>0, FS_Interval
  <2>3. IsFiniteSet(S)
    BY <2>1, <2>2, FS_Subset
  <2>4. Cardinality(S) \in Nat
    BY <2>3, FS_CardinalityType
  <2> QED
    BY <2>4 DEF Copies
<1>2. ASSUME NEW j \in ClientId, j \in clients
      PROVE  /\ Forwarded(i, k, order)[j] \in Seq(ControlMessage)
             /\ Range(controlMsgBuffer[j]) \subseteq Range(Forwarded(i, k, order)[j])
  <2> DEFINE n == Copies(order[j], k)
             copies == [x \in 1 .. n |-> Req(i, k)]
  <2>1. n \in Nat /\ Req(i, k) \in ControlMessage
    BY <1>1, MessageTypes
  <2> HIDE DEF n
  <2>2. copies \in Seq(ControlMessage)
    BY <2>1
  <2>3. controlMsgBuffer[j] \in Seq(ControlMessage)
    BY DEF TypeOK
  <2>4. Forwarded(i, k, order)[j] = controlMsgBuffer[j] \o copies
    BY <1>2 DEF Forwarded, n
  <2> HIDE DEF copies
  <2> QED
    BY <2>2, <2>3, <2>4, ConcatRange
<1>3. ASSUME NEW j \in ClientId \ clients
      PROVE  Forwarded(i, k, order)[j] = controlMsgBuffer[j]
  BY DEF Forwarded
<1>4. \A j \in ClientId : controlMsgBuffer[j] \in Seq(ControlMessage)
  BY DEF TypeOK
<1>5. DOMAIN Forwarded(i, k, order) = ClientId
  BY DEF Forwarded
<1>6. \A j \in ClientId : Forwarded(i, k, order)[j] \in Seq(ControlMessage)
  BY <1>2, <1>3, <1>4
<1>7. Forwarded(i, k, order) \in [ClientId -> Seq(ControlMessage)]
  BY <1>6 DEF Forwarded
<1> QED
  BY <1>2, <1>3, <1>4, <1>7

-----------------------------------------------------------------------------
(***************************************************************************)
(* The steps that may end the process.  They change nothing else, so only  *)
(* what is said about the cause of a crash has to be shown.                *)
(***************************************************************************)
LEMMA CrashStep ==
  ASSUME IInv, Crash,
         \/ clientsDistributedTo = MinClients /\ ~distributedAll
         \/ \E k \in Chunk : chunkRequests[k] \cap Gone # {}
         \/ Control = "UDP" /\ Gone # {}
  PROVE  IInv'
<1> USE DEF Crash, connectionVars, dealVars, sentVars, waitVars
<1>1. TypeOK' /\ LookupMatchesClients' /\ OwnListTrue'
  BY DEF IInv, TypeOK, LookupMatchesClients, OwnListTrue
<1>2. Idle' /\ Closed' /\ DistributionBooks' /\ NoRepeats(chunksToDistribute)'
  BY DEF IInv, Idle, Closed, DistributionBooks
<1>3. OpenAfterDistribution' /\ NobodyLeftClosed'
  BY DEF IInv, OpenAfterDistribution, NobodyLeftClosed
<1>4. CrashCause'
  BY DEF CrashCause, Gone
<1> QED
  BY <1>1, <1>2, <1>3, <1>4 DEF IInv

\* A client whose message is on its way is connected, unless it left and the
\* message outlived it.
LEMMA SpeakerConnected ==
  ASSUME TypeOK, NEW i \in ClientId, MaySpeak(i), i \notin clients
  PROVE  Control = "UDP" /\ Gone # {}
BY ServerAssumption DEF TypeOK, MaySpeak, ClientId, Gone

-----------------------------------------------------------------------------
(***************************************************************************)
(* Connecting and leaving.                                                 *)
(***************************************************************************)
LEMMA DivisionStep ==
  ASSUME IInv, DividesByZero, Crash
  PROVE  IInv'
<1>1. clientsDistributedTo = MinClients /\ ~distributedAll
  BY ServerAssumption DEF DividesByZero, ClientsToCome, IInv, TypeOK
<1> QED
  BY <1>1, CrashStep

LEMMA ConnectStep ==
  ASSUME IInv, NEW a \in Addr, nextClientId \in ClientId, ~crashed,
         \A i \in clients : reverseLookup[i] # a,
         Connect(nextClientId, a),
         controlMsgBuffer' =
           [controlMsgBuffer EXCEPT ![nextClientId] = Greeting(nextClientId)],
         DistributeTo(nextClientId),
         UNCHANGED <<crashed, chunkCache, distributed, distributedAll,
                     requestsOpen, waitVars, told>>
  PROVE  IInv'
<1> DEFINE n == nextClientId
<1>0. /\ TypeOK /\ LookupMatchesClients /\ OwnListTrue /\ Idle /\ Closed
      /\ DistributionBooks /\ NoRepeats(chunksToDistribute)
      /\ OpenAfterDistribution /\ NobodyLeftClosed /\ CrashCause
  BY DEF IInv
<1>1. /\ n \in ClientId /\ n \notin clients /\ n \in Nat /\ clients \subseteq ClientId
      /\ clients' = clients \cup {n} /\ n' = n + 1
  BY <1>0, MaxClientIdAssumption DEF TypeOK, ClientId, Connect
<1>2. /\ controlMsgBuffer'[n] = Greeting(n)
      /\ \A i \in ClientId \ {n} : controlMsgBuffer'[i] = controlMsgBuffer[i]
      /\ controlMsgBuffer' \in [ClientId -> Seq(ControlMessage)]
  BY <1>0, <1>1, GreetingFacts DEF TypeOK
<1>3. chunkBuffer[n] = << >>
  BY <1>0, <1>1 DEF Idle
<1>4. /\ UNCHANGED <<crashed, chunkCache, distributed, distributedAll,
                     requestsOpen, chunkRequests, clientRequests, told>>
      /\ lookup' = [lookup EXCEPT ![a] = n]
      /\ reverseLookup' = [reverseLookup EXCEPT ![n] = a]
  BY DEF waitVars, Connect
<1>5. \/ distributedAll /\ UNCHANGED <<dealVars, beingDistributed, chunkBuffer>>
      \/ ~distributedAll /\ Deal(n, NextShare)
  BY <1>0, <1>1, DistributeEffect
<1>6. LookupMatchesClients'
  BY <1>0, <1>1, <1>4 DEF LookupMatchesClients, TypeOK
<1>7. OwnListTrue'
  BY <1>0, <1>4 DEF OwnListTrue
<1>8. OpenAfterDistribution'
  <2>1. distributedAll <=> distributed = Chunk
    BY <1>0 DEF DistributionBooks
  <2> QED
    BY <1>0, <1>1, <1>2, <1>4, <2>1, GreetingFacts DEF OpenAfterDistribution
<1>9. NobodyLeftClosed'
  <2>1. requestsOpen => distributedAll
    BY <1>0 DEF Closed
  <2> QED
    BY <1>0, <1>1, <1>2, <1>4, <2>1, GreetingFacts DEF NobodyLeftClosed
<1>10. CrashCause'
  BY <1>4 DEF CrashCause
<1>11. \A i \in ClientId \ clients' : controlMsgBuffer'[i] = << >>
  BY <1>0, <1>1, <1>2 DEF Idle
<1>12. \A k \in Chunk : chunkRequests'[k] \subseteq 0 .. (n' - 1)
  BY <1>0, <1>1, <1>4 DEF Idle
<1>13. ASSUME TypeOK', \A i \in ClientId \ clients' : chunkBuffer'[i] = << >>,
              Closed', DistributionBooks', NoRepeats(chunksToDistribute)'
       PROVE  IInv'
  BY <1>6, <1>7, <1>8, <1>9, <1>10, <1>11, <1>12, <1>13 DEF IInv, Idle
<1>14. /\ nextClientId' \in 0 .. (MaxClientId + 1)
       /\ clients' \subseteq 0 .. (nextClientId' - 1)
       /\ lookup' \in [Addr -> ClientId \cup {NoId}]
       /\ reverseLookup' \in [ClientId -> Addr \cup {NoAddr}]
  <2>1. /\ nextClientId' \in 0 .. (MaxClientId + 1)
        /\ clients' \subseteq 0 .. (nextClientId' - 1)
    BY <1>0, <1>1, MaxClientIdAssumption DEF TypeOK, ClientId
  <2>2. /\ lookup' \in [Addr -> ClientId \cup {NoId}]
        /\ reverseLookup' \in [ClientId -> Addr \cup {NoAddr}]
    BY <1>0, <1>1, <1>4 DEF TypeOK
  <2> QED
    BY <2>1, <2>2
<1>15. CASE distributedAll /\ UNCHANGED <<dealVars, beingDistributed, chunkBuffer>>
  <2>1. UNCHANGED <<clientsDistributedTo, chunksToDistribute, share,
                    beingDistributed, chunkBuffer>>
    BY <1>15 DEF dealVars
  <2>2. TypeOK'
    BY <1>0, <1>2, <1>4, <1>14, <2>1 DEF TypeOK
  <2>3. \A i \in ClientId \ clients' : chunkBuffer'[i] = << >>
    BY <1>0, <1>1, <2>1 DEF Idle
  <2>4. Closed' /\ DistributionBooks' /\ NoRepeats(chunksToDistribute)'
    BY <1>0, <1>4, <1>15, <2>1 DEF Closed, DistributionBooks
  <2> QED
    BY <1>13, <2>2, <2>3, <2>4
<1>16. CASE ~distributedAll /\ Deal(n, NextShare)
  <2>1. PICK front \in Seq(Chunk) :
          /\ NextShare \in Nat
          /\ chunkBuffer' = [chunkBuffer EXCEPT ![n] = front]
          /\ beingDistributed' = beingDistributed \cup Range(front)
          /\ chunksToDistribute' \in Seq(Chunk)
          /\ Range(chunksToDistribute) = Range(front) \cup Range(chunksToDistribute')
          /\ NoRepeats(chunksToDistribute) =>
               /\ NoRepeats(front) /\ NoRepeats(chunksToDistribute')
               /\ Range(front) \cap Range(chunksToDistribute') = {}
    BY <1>0, <1>1, <1>16, DealEffect DEF TypeOK
  <2>2. /\ chunkBuffer'[n] = front
        /\ \A i \in ClientId \ {n} : chunkBuffer'[i] = chunkBuffer[i]
    BY <1>0, <1>1, <2>1 DEF TypeOK
  <2>3. /\ share' = [share EXCEPT ![n] = NextShare]
        /\ clientsDistributedTo' = clientsDistributedTo + 1
    BY <1>16 DEF Deal
  <2>4. Range(front) \subseteq Chunk
    BY <2>1 DEF Range
  <2>5. TypeOK'
    <3>1. chunkBuffer' \in [ClientId -> Seq(Chunk)]
      BY <1>0, <2>1 DEF TypeOK
    <3>2. share' \in [ClientId -> Nat] /\ clientsDistributedTo' \in Nat
      BY <1>0, <2>1, <2>3 DEF TypeOK
    <3>3. beingDistributed' \subseteq Chunk /\ chunksToDistribute' \in Seq(Chunk)
      BY <1>0, <2>1, <2>4 DEF TypeOK
    <3> QED
      BY <1>0, <1>2, <1>4, <1>14, <3>1, <3>2, <3>3 DEF TypeOK
  <2>6. \A i \in ClientId \ clients' : chunkBuffer'[i] = << >>
    BY <1>0, <1>1, <2>2 DEF Idle
  <2>7. \A i \in ClientId \ {n} : Range(chunkBuffer[i]) \subseteq beingDistributed
    <3>1. Range(<< >>) = {}
      BY DEF Range
    <3> QED
      BY <1>0, <1>1, <1>16, <3>1 DEF Idle, DistributionBooks
  <2>8. Range(front) \cap beingDistributed = {}
    BY <1>0, <2>1 DEF DistributionBooks
  <2>9. Closed'
    <3>1. /\ ~requestsOpen'
          /\ \A k \in Chunk : chunkRequests'[k] = {}
      BY <1>0, <1>4, <1>16 DEF Closed
    <3>2. \A i \in ClientId : NoRepeats(chunkBuffer'[i])
      BY <1>0, <1>16, <2>1, <2>2 DEF Closed
    <3>3. \A i \in ClientId \ {n} : Range(chunkBuffer'[i]) \cap Range(front) = {}
      BY <2>2, <2>7, <2>8
    <3>4. \A i, j \in ClientId :
            i # j => Range(chunkBuffer'[i]) \cap Range(chunkBuffer'[j]) = {}
      BY <1>0, <1>16, <2>2, <3>3 DEF Closed
    <3> QED
      BY <3>1, <3>2, <3>4 DEF Closed
  <2>10. DistributionBooks'
    BY <1>0, <1>1, <1>4, <1>16, <2>1, <2>2, <2>7, <2>8 DEF DistributionBooks
  <2>11. NoRepeats(chunksToDistribute)'
    BY <1>0, <2>1
  <2> QED
    BY <1>13, <2>5, <2>6, <2>9, <2>10, <2>11
<1> QED
  BY <1>5, <1>15, <1>16

LEMMA AcceptStep ==
  ASSUME IInv, NEW a \in Addr, AcceptNewClient(a)
  PROVE  IInv'
BY DivisionStep, ConnectStep DEF AcceptNewClient

LEMMA DisconnectStep ==
  ASSUME IInv, NEW i \in ClientId, ClientDisconnected(i)
  PROVE  IInv'
<1>0. /\ TypeOK /\ LookupMatchesClients /\ OwnListTrue /\ Idle /\ Closed
      /\ DistributionBooks /\ NoRepeats(chunksToDistribute)
      /\ OpenAfterDistribution /\ NobodyLeftClosed /\ CrashCause
  BY DEF IInv
<1>1. /\ i \in clients /\ clients' = clients \ {i} /\ ~crashed
      /\ lookup' = [lookup EXCEPT ![reverseLookup[i]] = NoId]
      /\ reverseLookup' = [reverseLookup EXCEPT ![i] = NoAddr]
      /\ controlMsgBuffer' = [controlMsgBuffer EXCEPT ![i] = << >>]
      /\ chunkBuffer' = [chunkBuffer EXCEPT ![i] = << >>]
      /\ chunkRequests' = WithoutWaiter(i)
      /\ clientRequests' = [clientRequests EXCEPT ![i] = {}]
      /\ UNCHANGED <<crashed, nextClientId, chunkCache, clientsDistributedTo,
                     chunksToDistribute, share, beingDistributed, distributed,
                     distributedAll, requestsOpen, told>>
  BY DEF ClientDisconnected, AddressErased, dealVars, sentVars
<1>2. /\ controlMsgBuffer'[i] = << >> /\ chunkBuffer'[i] = << >>
      /\ \A j \in ClientId \ {i} : /\ controlMsgBuffer'[j] = controlMsgBuffer[j]
                                   /\ chunkBuffer'[j] = chunkBuffer[j]
      /\ controlMsgBuffer' \in [ClientId -> Seq(ControlMessage)]
      /\ chunkBuffer' \in [ClientId -> Seq(Chunk)]
  BY <1>0, <1>1 DEF TypeOK
<1>3. /\ chunkRequests' \in [Chunk -> SUBSET ClientId]
      /\ \A k \in Chunk : chunkRequests'[k] \subseteq chunkRequests[k]
      /\ \A k \in Chunk, j \in ClientId :
           j # i /\ j \in chunkRequests[k] => j \in chunkRequests'[k]
  BY <1>0, <1>1 DEF WithoutWaiter, TypeOK
<1>4. Range(<< >>) = {} /\ NoRepeats(<< >>)
  BY DEF Range, NoRepeats
<1>5. TypeOK'
  <2>1. reverseLookup[i] \in Addr
    BY <1>0, <1>1 DEF LookupMatchesClients
  <2>2. lookup' \in [Addr -> ClientId \cup {NoId}]
    BY <1>0, <1>1, <2>1 DEF TypeOK
  <2>3. reverseLookup' \in [ClientId -> Addr \cup {NoAddr}]
    BY <1>0, <1>1 DEF TypeOK
  <2>4. clientRequests' \in [ClientId -> SUBSET Chunk]
    BY <1>0, <1>1 DEF TypeOK
  <2> QED
    BY <1>0, <1>1, <1>2, <1>3, <2>2, <2>3, <2>4 DEF TypeOK
<1>6. LookupMatchesClients'
  BY <1>0, <1>1 DEF LookupMatchesClients, TypeOK
<1>7. OwnListTrue'
  BY <1>0, <1>1, <1>3 DEF OwnListTrue, TypeOK
<1>8. Idle'
  BY <1>0, <1>1, <1>2, <1>3 DEF Idle
<1>9. Closed'
  BY <1>0, <1>1, <1>2, <1>3, <1>4 DEF Closed
<1>10. DistributionBooks' /\ NoRepeats(chunksToDistribute)'
  <2>1. \A j \in clients' : chunkBuffer'[j] = chunkBuffer[j]
    BY <1>0, <1>1, <1>2 DEF TypeOK, ClientId
  <2> QED
    BY <1>0, <1>1, <2>1 DEF DistributionBooks
<1>11. OpenAfterDistribution'
  BY <1>0, <1>1, <1>2, <1>4 DEF OpenAfterDistribution
<1>12. NobodyLeftClosed'
  <2>1. \A j \in clients' : controlMsgBuffer'[j] = controlMsgBuffer[j] /\ j \in clients
    BY <1>0, <1>1, <1>2 DEF TypeOK, ClientId
  <2> QED
    BY <1>0, <1>1, <2>1 DEF NobodyLeftClosed
<1>13. CrashCause'
  BY <1>1 DEF CrashCause
<1> QED
  BY <1>5, <1>6, <1>7, <1>8, <1>9, <1>10, <1>11, <1>12, <1>13 DEF IInv

-----------------------------------------------------------------------------
(***************************************************************************)
(* Serving clients once the distribution is over: whoever was told OPEN    *)
(* was told so with all chunks distributed, and that lasts.                *)
(***************************************************************************)
LEMMA ServingStep ==
  ASSUME IInv, distributedAll, ~crashed, crashed' = crashed,
         UNCHANGED <<connectionVars, dealVars, sentVars>>,
         TypeOK', OwnListTrue', Idle', NobodyLeftClosed'
  PROVE  IInv'
<1> USE DEF connectionVars, dealVars, sentVars
<1>1. LookupMatchesClients'
  BY DEF IInv, LookupMatchesClients
<1>2. distributed' = Chunk /\ distributedAll'
  BY DEF IInv, DistributionBooks
<1>3. Closed' /\ OpenAfterDistribution' /\ CrashCause'
  BY <1>2 DEF Closed, OpenAfterDistribution, CrashCause
<1>4. DistributionBooks' /\ NoRepeats(chunksToDistribute)'
  BY DEF IInv, DistributionBooks
<1> QED
  BY <1>1, <1>3, <1>4 DEF IInv

LEMMA ToldWhenOver ==
  ASSUME IInv, NEW i \in told
  PROVE  distributedAll
BY DEF IInv, TypeOK, OpenAfterDistribution, DistributionBooks

LEMMA ReceivedChunkStep ==
  ASSUME IInv, NEW k \in Chunk, ReceivedChunk(k)
  PROVE  IInv'
<1>1. CASE ~ (chunkRequests[k] \subseteq clients)
  <2>1. Crash
    BY <1>1 DEF ReceivedChunk
  <2>2. chunkRequests[k] \cap Gone # {}
    BY <1>1 DEF IInv, Idle, Gone
  <2> QED
    BY <2>1, <2>2, CrashStep
<1>2. CASE chunkRequests[k] \subseteq clients
  <2>1. /\ ~crashed /\ crashed' = crashed
        /\ chunkBuffer' = [i \in ClientId |-> IF i \in chunkRequests[k]
                                              THEN Append(chunkBuffer[i], k)
                                              ELSE chunkBuffer[i]]
        /\ Cache!Store(k)
        /\ UNCHANGED <<connectionVars, dealVars, sentVars>>
        /\ UNCHANGED <<controlMsgBuffer, requestsOpen, waitVars, told>>
    BY <1>2 DEF ReceivedChunk
  <2>2. chunkCache' \in Seq(Chunk)
    BY <2>1, CacheType DEF IInv, TypeOK, Cache!Store
  <2>3. chunkBuffer' \in [ClientId -> Seq(Chunk)]
    BY <2>1, BufferRange DEF IInv, TypeOK
  <2>4. TypeOK'
    BY <2>1, <2>2, <2>3
    DEF IInv, TypeOK, connectionVars, dealVars, sentVars, waitVars
  <2>5. OwnListTrue'
    BY <2>1 DEF IInv, OwnListTrue, waitVars
  <2>6. NobodyLeftClosed'
    BY <2>1 DEF IInv, NobodyLeftClosed, connectionVars
  <2>7. Idle'
    BY <1>2, <2>1 DEF IInv, Idle, connectionVars, waitVars
  <2>8. CASE distributedAll
    BY <2>1, <2>4, <2>5, <2>6, <2>7, <2>8, ServingStep
  <2>9. CASE ~distributedAll
    <3>1. chunkBuffer' = chunkBuffer
      <4>1. chunkRequests[k] = {}
        BY <2>9 DEF IInv, Closed
      <4>2. \A i \in ClientId : chunkBuffer'[i] = chunkBuffer[i]
        BY <2>1, <4>1
      <4> QED
        BY <2>3, <4>2 DEF IInv, TypeOK
    <3>2. LookupMatchesClients' /\ OpenAfterDistribution' /\ CrashCause'
      BY <2>1 DEF IInv, LookupMatchesClients, OpenAfterDistribution, CrashCause,
                  connectionVars, sentVars
    <3>3. Closed' /\ DistributionBooks' /\ NoRepeats(chunksToDistribute)'
      BY <2>1, <3>1 DEF IInv, Closed, DistributionBooks, connectionVars,
                        dealVars, sentVars, waitVars
    <3> QED
      BY <2>4, <2>5, <2>6, <2>7, <3>2, <3>3 DEF IInv
  <2> QED
    BY <2>8, <2>9
<1> QED
  BY <1>1, <1>2

LEMMA AnswerStep ==
  ASSUME IInv, ~crashed, NEW i \in ClientId, NEW k \in Chunk, i \in told,
         MaySpeak(i), AnswerFromCache(i, k)
  PROVE  IInv'
<1>1. CASE i \notin clients
  BY <1>1, SpeakerConnected, CrashStep DEF AnswerFromCache, IInv
<1>2. CASE i \in clients
  <2>1. /\ crashed' = crashed
        /\ chunkBuffer' = [chunkBuffer EXCEPT ![i] = Append(@, k)]
        /\ Cache!Hit(k)
        /\ UNCHANGED <<connectionVars, dealVars, sentVars>>
        /\ UNCHANGED <<controlMsgBuffer, requestsOpen, waitVars, told>>
    BY <1>2 DEF AnswerFromCache, Pushed
  <2>2. chunkCache' \in Seq(Chunk)
    BY <2>1, CacheType DEF IInv, TypeOK
  <2>3. chunkBuffer' \in [ClientId -> Seq(Chunk)]
    BY <2>1, BufferRange DEF IInv, TypeOK
  <2>4. TypeOK'
    BY <2>1, <2>2, <2>3
    DEF IInv, TypeOK, connectionVars, dealVars, sentVars, waitVars
  <2>5. OwnListTrue'
    BY <2>1 DEF IInv, OwnListTrue, waitVars
  <2>6. NobodyLeftClosed'
    BY <2>1 DEF IInv, NobodyLeftClosed, connectionVars
  <2>7. Idle'
    BY <1>2, <2>1 DEF IInv, Idle, TypeOK, connectionVars, waitVars
  <2> QED
    BY <2>1, <2>4, <2>5, <2>6, <2>7, ToldWhenOver, ServingStep
<1> QED
  BY <1>1, <1>2

LEMMA JoinStep ==
  ASSUME IInv, ~crashed, NEW i \in ClientId, NEW k \in Chunk, i \in told,
         MaySpeak(i), JoinWaiters(i, k)
  PROVE  IInv'
<1>1. /\ crashed' = crashed
      /\ chunkRequests' = [chunkRequests EXCEPT ![k] = @ \cup {i}]
      /\ UNCHANGED <<connectionVars, dealVars, sentVars>>
      /\ UNCHANGED <<controlMsgBuffer, chunkBuffer, chunkCache, requestsOpen,
                     clientRequests, told>>
  BY DEF JoinWaiters
<1>2. chunkRequests' \in [Chunk -> SUBSET ClientId]
  BY <1>1 DEF IInv, TypeOK
<1>3. TypeOK'
  BY <1>1, <1>2 DEF IInv, TypeOK, connectionVars, dealVars, sentVars
<1>4. OwnListTrue'
  BY <1>1 DEF IInv, OwnListTrue, TypeOK
<1>5. NobodyLeftClosed'
  BY <1>1 DEF IInv, NobodyLeftClosed, connectionVars
<1>6. i \in 0 .. (nextClientId - 1)
  BY DEF IInv, TypeOK, MaySpeak, ClientId
<1>7. Idle'
  BY <1>1, <1>6 DEF IInv, Idle, TypeOK, connectionVars
<1> QED
  BY <1>1, <1>3, <1>4, <1>5, <1>7, ToldWhenOver, ServingStep

LEMMA ForwardStep ==
  ASSUME IInv, ~crashed, NEW i \in ClientId, NEW k \in Chunk, i \in told,
         MaySpeak(i), ForwardToClients(i, k)
  PROVE  IInv'
<1>1. /\ crashed' = crashed
      /\ chunkRequests[k] = {}
      /\ chunkRequests' = [chunkRequests EXCEPT ![k] = {i}]
      /\ clientRequests' = [clientRequests EXCEPT ![i] = @ \cup {k}]
      /\ UNCHANGED <<connectionVars, dealVars, sentVars>>
      /\ UNCHANGED <<chunkBuffer, chunkCache, requestsOpen, told>>
  BY DEF ForwardToClients
<1>2. PICK order \in [clients -> 1 .. Cardinality(clients)] :
        controlMsgBuffer' = Forwarded(i, k, order)
  BY DEF ForwardToClients, Bijection, Injection, Surjection
<1>3. /\ controlMsgBuffer' \in [ClientId -> Seq(ControlMessage)]
      /\ \A j \in ClientId : Range(controlMsgBuffer[j]) \subseteq Range(controlMsgBuffer'[j])
      /\ \A j \in ClientId \ clients : controlMsgBuffer'[j] = controlMsgBuffer[j]
  <2> DEFINE buffer == Forwarded(i, k, order)
  <2>1. TypeOK
    BY DEF IInv
  <2>2. /\ buffer \in [ClientId -> Seq(ControlMessage)]
        /\ \A j \in ClientId : Range(controlMsgBuffer[j]) \subseteq Range(buffer[j])
        /\ \A j \in ClientId \ clients : buffer[j] = controlMsgBuffer[j]
    BY <2>1, ForwardedEffect
  <2>3. controlMsgBuffer' = buffer
    BY <1>2
  <2> QED
    BY <2>2, <2>3
<1>4. /\ chunkRequests' \in [Chunk -> SUBSET ClientId]
      /\ clientRequests' \in [ClientId -> SUBSET Chunk]
  BY <1>1 DEF IInv, TypeOK
<1>5. TypeOK'
  BY <1>1, <1>3, <1>4 DEF IInv, TypeOK, connectionVars, dealVars, sentVars
<1>6. OwnListTrue'
  BY <1>1 DEF IInv, OwnListTrue, TypeOK
<1>7. NobodyLeftClosed'
  <2>1. clients \subseteq ClientId /\ clients' = clients
    BY <1>1, MaxClientIdAssumption DEF IInv, TypeOK, ClientId, connectionVars
  <2> QED
    BY <1>1, <1>3, <2>1 DEF IInv, NobodyLeftClosed
<1>8. i \in 0 .. (nextClientId - 1)
  BY DEF IInv, TypeOK, MaySpeak, ClientId
<1>9. Idle'
  BY <1>1, <1>3, <1>8 DEF IInv, Idle, TypeOK, connectionVars
<1> QED
  BY <1>1, <1>5, <1>6, <1>7, <1>9, ToldWhenOver, ServingStep

LEMMA RequestStep ==
  ASSUME IInv, NEW i \in ClientId, NEW k \in Chunk, i \in told, MaySpeak(i),
         ReceivedRequest(i, k)
  PROVE  IInv'
BY AnswerStep, JoinStep, ForwardStep DEF ReceivedRequest

-----------------------------------------------------------------------------
(***************************************************************************)
(* Control messages queued and written.                                    *)
(***************************************************************************)
\* A control message may be queued for a connected client if it is no OPEN or
\* the distribution is over.
LEMMA SendStep ==
  ASSUME IInv, ~crashed, NEW i \in clients, NEW m \in ControlMessage,
         m.msgtype = "OPEN" => distributedAll, SendControl(i, m)
  PROVE  IInv'
<1>0. /\ TypeOK /\ LookupMatchesClients /\ OwnListTrue /\ Idle /\ Closed
      /\ DistributionBooks /\ NoRepeats(chunksToDistribute)
      /\ OpenAfterDistribution /\ NobodyLeftClosed
  BY DEF IInv
<1>1. /\ crashed' = crashed
      /\ controlMsgBuffer' = [controlMsgBuffer EXCEPT ![i] = Append(@, m)]
      /\ UNCHANGED <<clients, nextClientId, lookup, reverseLookup, chunkBuffer,
                     chunkCache, clientsDistributedTo, chunksToDistribute, share,
                     beingDistributed, distributed, distributedAll, requestsOpen,
                     chunkRequests, clientRequests, told>>
  BY DEF SendControl, Pushed, connectionVars, dealVars, sentVars, waitVars
<1>2. i \in ClientId /\ clients \subseteq ClientId
  BY <1>0, MaxClientIdAssumption DEF TypeOK, ClientId
<1>3. controlMsgBuffer[i] \in Seq(ControlMessage)
  BY <1>0, <1>2 DEF TypeOK
<1>4. /\ Append(controlMsgBuffer[i], m) \in Seq(ControlMessage)
      /\ Range(Append(controlMsgBuffer[i], m)) = Range(controlMsgBuffer[i]) \cup {m}
  BY <1>3, BufferRange
<1>5. /\ controlMsgBuffer' \in [ClientId -> Seq(ControlMessage)]
      /\ Range(controlMsgBuffer'[i]) = Range(controlMsgBuffer[i]) \cup {m}
      /\ \A j \in ClientId \ {i} : controlMsgBuffer'[j] = controlMsgBuffer[j]
  BY <1>0, <1>1, <1>2, <1>4 DEF TypeOK
<1>6. TypeOK'
  BY <1>0, <1>1, <1>5 DEF TypeOK
<1>7. LookupMatchesClients' /\ OwnListTrue'
  BY <1>0, <1>1 DEF LookupMatchesClients, OwnListTrue
<1>8. Idle'
  BY <1>0, <1>1, <1>5 DEF Idle
<1>9. Closed' /\ DistributionBooks' /\ NoRepeats(chunksToDistribute)'
  BY <1>0, <1>1 DEF Closed, DistributionBooks
<1>10. OpenAfterDistribution'
  BY <1>0, <1>1, <1>2, <1>5 DEF OpenAfterDistribution, DistributionBooks
<1>11. NobodyLeftClosed'
  BY <1>0, <1>1, <1>2, <1>5 DEF NobodyLeftClosed
<1>12. CrashCause'
  BY <1>1 DEF CrashCause
<1> QED
  BY <1>6, <1>7, <1>8, <1>9, <1>10, <1>11, <1>12 DEF IInv

LEMMA ReceivedOpenStep ==
  ASSUME IInv, NEW i \in ClientId, MaySpeak(i), ReceivedOpen(i)
  PROVE  IInv'
<1>1. ~crashed /\ distributedAll /\ TypeOK
  BY DEF ReceivedOpen, MayOpen, IInv
<1>2. CASE i \in clients
  <2>1. SendControl(i, Open(0)) /\ Open(0) \in ControlMessage
    BY <1>2, MessageTypes DEF ReceivedOpen
  <2> QED
    BY <1>1, <1>2, <2>1, SendStep
<1>3. CASE i \notin clients
  BY <1>1, <1>3, SpeakerConnected, CrashStep DEF ReceivedOpen
<1> QED
  BY <1>2, <1>3

LEMMA ReceivedRegStep ==
  ASSUME IInv, NEW a \in Addr, ReceivedReg(a)
  PROVE  IInv'
<1> DEFINE i == lookup[a]
<1>1. ~crashed /\ i \in clients /\ SendControl(i, Reg(i, NumChunks))
  BY DEF ReceivedReg
<1>2. i \in ClientId
  <2>1. clients \subseteq ClientId
    BY MaxClientIdAssumption DEF IInv, TypeOK, ClientId
  <2> QED
    BY <1>1, <2>1
<1>3. Reg(i, NumChunks) \in ControlMessage
  BY <1>2, MessageTypes
<1>4. Reg(i, NumChunks).msgtype # "OPEN"
  BY DEF Reg
<1> HIDE DEF i
<1> QED
  BY <1>1, <1>3, <1>4, SendStep

LEMMA OpenRequestsStep ==
  ASSUME IInv, OpenRequests
  PROVE  IInv'
<1>1. /\ ~crashed /\ distributedAll /\ requestsOpen' = TRUE
      /\ controlMsgBuffer' = [i \in ClientId |->
                                IF i \in clients THEN Append(controlMsgBuffer[i], Open(0))
                                                 ELSE controlMsgBuffer[i]]
      /\ UNCHANGED <<crashed, chunkBuffer, chunkCache, told>>
      /\ UNCHANGED <<clients, nextClientId, lookup, reverseLookup>>
      /\ UNCHANGED <<clientsDistributedTo, chunksToDistribute, share,
                     beingDistributed, distributed, distributedAll,
                     chunkRequests, clientRequests>>
  BY DEF OpenRequests, connectionVars, dealVars, sentVars, waitVars
<1>2. TypeOK /\ OwnListTrue /\ Idle
  BY DEF IInv
<1>3. Open(0) \in ControlMessage /\ Open(0).msgtype = "OPEN"
  BY MessageTypes DEF Open
<1>4. \A i \in ClientId :
        /\ Append(controlMsgBuffer[i], Open(0)) \in Seq(ControlMessage)
        /\ Open(0) \in Range(Append(controlMsgBuffer[i], Open(0)))
  BY <1>2, <1>3, BufferRange DEF TypeOK
<1>5. controlMsgBuffer' \in [ClientId -> Seq(ControlMessage)]
  BY <1>1, <1>2, <1>4 DEF TypeOK
<1>6. TypeOK' /\ OwnListTrue' /\ Idle'
  <2>1. TypeOK'
    BY <1>1, <1>2, <1>5 DEF TypeOK
  <2>2. OwnListTrue'
    BY <1>1, <1>2 DEF OwnListTrue
  <2>3. Idle'
    BY <1>1, <1>2 DEF Idle
  <2> QED
    BY <2>1, <2>2, <2>3
<1>7. NobodyLeftClosed'
  <2>1. clients' = clients /\ clients \subseteq ClientId
    BY <1>1, <1>2, MaxClientIdAssumption DEF TypeOK, ClientId
  <2>2. \A i \in clients : Open(0) \in Range(controlMsgBuffer'[i])
    BY <1>1, <1>4, <2>1
  <2> QED
    BY <1>3, <2>1, <2>2 DEF NobodyLeftClosed
<1>8. UNCHANGED <<connectionVars, dealVars, sentVars>>
  BY <1>1 DEF connectionVars, dealVars, sentVars
<1> QED
  BY <1>1, <1>6, <1>7, <1>8, ServingStep

LEMMA WriteControlStep ==
  ASSUME IInv, NEW i \in ClientId, WriteControl(i)
  PROVE  IInv'
<1> DEFINE m == Head(controlMsgBuffer[i])
<1>0. /\ TypeOK /\ LookupMatchesClients /\ OwnListTrue /\ Idle /\ Closed
      /\ DistributionBooks /\ NoRepeats(chunksToDistribute)
      /\ OpenAfterDistribution /\ NobodyLeftClosed
  BY DEF IInv
<1>1. /\ ~crashed /\ controlMsgBuffer[i] # << >>
      /\ controlMsgBuffer' = [controlMsgBuffer EXCEPT ![i] = Tail(@)]
      /\ told' = IF m.msgtype = "OPEN" THEN told \cup {i} ELSE told
      /\ UNCHANGED <<crashed, clients, nextClientId, lookup, reverseLookup,
                     chunkBuffer, chunkCache, clientsDistributedTo,
                     chunksToDistribute, share, beingDistributed, distributed,
                     distributedAll, requestsOpen, chunkRequests, clientRequests>>
  BY DEF WriteControl, Popped, connectionVars, dealVars, sentVars, waitVars
<1>2. clients \subseteq ClientId
  BY <1>0, MaxClientIdAssumption DEF TypeOK, ClientId
<1>3. controlMsgBuffer[i] \in Seq(ControlMessage)
  BY <1>0 DEF TypeOK
<1>4. /\ Tail(controlMsgBuffer[i]) \in Seq(ControlMessage)
      /\ Range(controlMsgBuffer[i]) = {m} \cup Range(Tail(controlMsgBuffer[i]))
  BY <1>1, <1>3, BufferRange
<1>5. /\ controlMsgBuffer' \in [ClientId -> Seq(ControlMessage)]
      /\ Range(controlMsgBuffer[i]) = {m} \cup Range(controlMsgBuffer'[i])
      /\ \A j \in ClientId \ {i} : controlMsgBuffer'[j] = controlMsgBuffer[j]
  BY <1>0, <1>1, <1>4 DEF TypeOK
<1> HIDE DEF m
<1>6. TypeOK'
  BY <1>0, <1>1, <1>5 DEF TypeOK
<1>7. LookupMatchesClients' /\ OwnListTrue'
  BY <1>0, <1>1 DEF LookupMatchesClients, OwnListTrue
<1>8. Idle'
  BY <1>0, <1>1, <1>5 DEF Idle
<1>9. Closed' /\ DistributionBooks' /\ NoRepeats(chunksToDistribute)'
  BY <1>0, <1>1 DEF Closed, DistributionBooks
<1>10. OpenAfterDistribution'
  BY <1>0, <1>1, <1>5 DEF OpenAfterDistribution
<1>11. NobodyLeftClosed'
  BY <1>0, <1>1, <1>2, <1>5 DEF NobodyLeftClosed
<1>12. CrashCause'
  BY <1>1 DEF CrashCause
<1> QED
  BY <1>6, <1>7, <1>8, <1>9, <1>10, <1>11, <1>12 DEF IInv

-----------------------------------------------------------------------------
(***************************************************************************)
(* A chunk leaves a send buffer: while the distribution runs it moves from *)
(* beingDistributed to distributed, and no other buffer holds it.          *)
(***************************************************************************)
LEMMA EndWaitStep ==
  ASSUME IInv, NEW i \in ClientId, WriteChunk(i), distributedAll
  PROVE  IInv'
<1> DEFINE k == Head(chunkBuffer[i])
<1>0. TypeOK /\ OwnListTrue /\ Idle /\ NobodyLeftClosed
  BY DEF IInv
<1>1. /\ ~crashed /\ chunkBuffer[i] # << >>
      /\ chunkBuffer' = [chunkBuffer EXCEPT ![i] = Tail(@)]
      /\ chunkRequests' = [chunkRequests EXCEPT ![k] = @ \ {i}]
      /\ clientRequests' = [clientRequests EXCEPT ![i] = @ \ {k}]
      /\ UNCHANGED <<crashed, clients, nextClientId, lookup, reverseLookup,
                     controlMsgBuffer, chunkCache, clientsDistributedTo,
                     chunksToDistribute, share, beingDistributed, distributed,
                     distributedAll, requestsOpen, told>>
  BY DEF WriteChunk, EndWait, Popped, connectionVars, dealVars, sentVars
<1>2. k \in Chunk /\ Tail(chunkBuffer[i]) \in Seq(Chunk)
  BY <1>0, <1>1, BufferRange DEF TypeOK
<1>3. /\ chunkBuffer' \in [ClientId -> Seq(Chunk)]
      /\ \A j \in ClientId \ {i} : chunkBuffer'[j] = chunkBuffer[j]
  BY <1>0, <1>1, <1>2 DEF TypeOK
<1> HIDE DEF k
<1>4. /\ chunkRequests' \in [Chunk -> SUBSET ClientId]
      /\ clientRequests' \in [ClientId -> SUBSET Chunk]
  BY <1>0, <1>1, <1>2 DEF TypeOK
<1>5. TypeOK'
  BY <1>0, <1>1, <1>3, <1>4 DEF TypeOK
<1>6. OwnListTrue'
  BY <1>0, <1>1, <1>2 DEF OwnListTrue, TypeOK
<1>7. Idle'
  BY <1>0, <1>1, <1>2, <1>3 DEF Idle, TypeOK
<1>8. NobodyLeftClosed'
  BY <1>0, <1>1 DEF NobodyLeftClosed
<1>9. UNCHANGED <<connectionVars, dealVars, sentVars>>
  BY <1>1 DEF connectionVars, dealVars, sentVars
<1> QED
  BY <1>1, <1>5, <1>6, <1>7, <1>8, <1>9, ServingStep

LEMMA CountStep ==
  ASSUME IInv, NEW i \in ClientId, WriteChunk(i), ~distributedAll
  PROVE  IInv'
<1> DEFINE k == Head(chunkBuffer[i])
<1>0. /\ TypeOK /\ LookupMatchesClients /\ OwnListTrue /\ Idle /\ Closed
      /\ DistributionBooks /\ NoRepeats(chunksToDistribute)
      /\ OpenAfterDistribution /\ NobodyLeftClosed
  BY DEF IInv
<1>1. /\ ~crashed /\ chunkBuffer[i] # << >>
      /\ chunkBuffer' = [chunkBuffer EXCEPT ![i] = Tail(@)]
      /\ beingDistributed' = beingDistributed \ {k}
      /\ distributed' = distributed \cup (IF k \in beingDistributed THEN {k} ELSE {})
      /\ distributedAll' = (distributed' = Chunk)
      /\ UNCHANGED <<crashed, clients, nextClientId, lookup, reverseLookup,
                     controlMsgBuffer, chunkCache, clientsDistributedTo,
                     chunksToDistribute, share, chunkRequests, clientRequests,
                     requestsOpen, told>>
  BY DEF WriteChunk, CountDistributed, Popped, connectionVars, dealVars, waitVars
<1>2. i \in clients /\ clients \subseteq ClientId
  BY <1>0, <1>1, MaxClientIdAssumption DEF Idle, TypeOK, ClientId
<1>3. chunkBuffer[i] \in Seq(Chunk) /\ NoRepeats(chunkBuffer[i])
  BY <1>0 DEF TypeOK, Closed
<1>4. /\ k \in Chunk /\ Tail(chunkBuffer[i]) \in Seq(Chunk)
      /\ k \in Range(chunkBuffer[i])
      /\ Range(Tail(chunkBuffer[i])) \subseteq Range(chunkBuffer[i])
      /\ NoRepeats(Tail(chunkBuffer[i])) /\ k \notin Range(Tail(chunkBuffer[i]))
  BY <1>1, <1>3, BufferRange, PopDistinct
<1>5. /\ chunkBuffer' \in [ClientId -> Seq(Chunk)]
      /\ chunkBuffer'[i] = Tail(chunkBuffer[i])
      /\ \A j \in ClientId \ {i} : chunkBuffer'[j] = chunkBuffer[j]
  BY <1>0, <1>1, <1>4 DEF TypeOK
<1> HIDE DEF k
<1>6. k \in beingDistributed /\ distributed' = distributed \cup {k}
  BY <1>0, <1>1, <1>2, <1>4 DEF DistributionBooks
<1>7. \A j \in ClientId \ {i} : k \notin Range(chunkBuffer[j])
  BY <1>0, <1>4 DEF Closed
<1>8. TypeOK'
  <2>1. /\ beingDistributed' \subseteq Chunk /\ distributed' \subseteq Chunk
        /\ distributedAll' \in BOOLEAN
    BY <1>0, <1>1, <1>4, <1>6 DEF TypeOK
  <2> QED
    BY <1>0, <1>1, <1>5, <2>1 DEF TypeOK
<1>9. LookupMatchesClients' /\ OwnListTrue'
  BY <1>0, <1>1 DEF LookupMatchesClients, OwnListTrue
<1>10. Idle'
  BY <1>0, <1>1, <1>2, <1>5 DEF Idle
<1>11. Closed'
  <2>1. ~requestsOpen' /\ \A k1 \in Chunk : chunkRequests'[k1] = {}
    BY <1>0, <1>1 DEF Closed
  <2>2. \A j \in ClientId : NoRepeats(chunkBuffer'[j])
    BY <1>0, <1>4, <1>5 DEF Closed
  <2>3. \A j \in ClientId : Range(chunkBuffer'[j]) \subseteq Range(chunkBuffer[j])
    BY <1>4, <1>5
  <2>4. \A j, l \in ClientId :
          j # l => Range(chunkBuffer'[j]) \cap Range(chunkBuffer'[l]) = {}
    BY <1>0, <2>3 DEF Closed
  <2> QED
    BY <2>1, <2>2, <2>4 DEF Closed
<1>12. DistributionBooks'
  <2>1. \A j \in clients : Range(chunkBuffer'[j]) \subseteq beingDistributed \ {k}
    BY <1>0, <1>2, <1>4, <1>5, <1>7 DEF DistributionBooks
  <2>2. /\ Chunk = Range(chunksToDistribute) \cup beingDistributed' \cup distributed'
        /\ Range(chunksToDistribute) \cap (beingDistributed' \cup distributed') = {}
        /\ beingDistributed' \cap distributed' = {}
    BY <1>0, <1>1, <1>6 DEF DistributionBooks
  <2> QED
    BY <1>1, <2>1, <2>2 DEF DistributionBooks
<1>13. OpenAfterDistribution' /\ NobodyLeftClosed' /\ CrashCause'
  <2>1. distributed # Chunk
    BY <1>0 DEF DistributionBooks
  <2> QED
    BY <1>0, <1>1, <2>1
    DEF OpenAfterDistribution, NobodyLeftClosed, Closed, CrashCause
<1> QED
  BY <1>0, <1>1, <1>8, <1>9, <1>10, <1>11, <1>12, <1>13 DEF IInv

-----------------------------------------------------------------------------
(***************************************************************************)
(* The inductive invariant and what it implies.                            *)
(***************************************************************************)
LEMMA InitInv == Init => IInv
<1> SUFFICES ASSUME Init PROVE IInv
  OBVIOUS
<1> USE DEF Init
<1> DEFINE queue == [j \in 1 .. NumChunks |-> j - 1]
<1>1. queue \in Seq(Chunk) /\ Range(queue) = Chunk /\ NoRepeats(queue)
  <2>1. \A j \in 1 .. NumChunks : j - 1 \in Chunk
    BY NumChunksAssumption DEF Chunk
  <2>2. \A c \in Chunk : c + 1 \in 1 .. NumChunks /\ (c + 1) - 1 = c
    BY NumChunksAssumption DEF Chunk
  <2>3. queue \in Seq(Chunk)
    BY <2>1, NumChunksAssumption
  <2>4. \A c \in Chunk : queue[c + 1] = c
    BY <2>2
  <2>5. Range(queue) = Chunk
    BY <2>1, <2>2, <2>4 DEF Range
  <2>6. NoRepeats(queue)
    BY NumChunksAssumption DEF NoRepeats
  <2> QED
    BY <2>3, <2>5, <2>6
<1>2. chunksToDistribute = queue
  OBVIOUS
<1> HIDE DEF queue
<1>3. Range(<< >>) = {} /\ NoRepeats(<< >>)
  BY DEF Range, NoRepeats
<1>4. TypeOK
  <2>1. << >> \in Seq(ControlMessage) /\ << >> \in Seq(Chunk)
    OBVIOUS
  <2>2. 0 \in 0 .. (MaxClientId + 1)
    BY MaxClientIdAssumption
  <2>3. /\ controlMsgBuffer \in [ClientId -> Seq(ControlMessage)]
        /\ chunkBuffer \in [ClientId -> Seq(Chunk)]
        /\ chunksToDistribute \in Seq(Chunk) /\ chunkCache \in Seq(Chunk)
    BY <1>1, <1>2, <2>1
  <2>4. /\ lookup \in [Addr -> ClientId \cup {NoId}]
        /\ reverseLookup \in [ClientId -> Addr \cup {NoAddr}]
        /\ chunkRequests \in [Chunk -> SUBSET ClientId]
        /\ clientRequests \in [ClientId -> SUBSET Chunk]
        /\ share \in [ClientId -> Nat]
    OBVIOUS
  <2> QED
    BY <2>2, <2>3, <2>4 DEF TypeOK
<1>5. LookupMatchesClients /\ OwnListTrue /\ Idle /\ Closed
  BY <1>3 DEF LookupMatchesClients, OwnListTrue, Idle, Closed
<1>6. DistributionBooks
  <2>1. 0 \in Chunk
    BY NumChunksAssumption DEF Chunk
  <2> QED
    BY <1>1, <1>2, <2>1 DEF DistributionBooks
<1>7. OpenAfterDistribution /\ NobodyLeftClosed /\ CrashCause
  BY <1>3 DEF OpenAfterDistribution, NobodyLeftClosed, CrashCause
<1> QED
  BY <1>1, <1>2, <1>4, <1>5, <1>6, <1>7 DEF IInv

LEMMA StepInv == IInv /\ [Next]_serverVars => IInv'
<1> SUFFICES ASSUME IInv, [Next]_serverVars PROVE IInv'
  OBVIOUS
<1>0. told \subseteq ClientId /\ RequestedChunks \subseteq Chunk
  BY ServerAssumption DEF IInv, TypeOK
<1>1. ASSUME NEW a \in Addr, AcceptNewClient(a) \/ ReceivedReg(a) PROVE IInv'
  BY <1>1, AcceptStep, ReceivedRegStep
<1>2. ASSUME NEW i \in ClientId, MaySpeak(i), ReceivedOpen(i) PROVE IInv'
  BY <1>2, ReceivedOpenStep
<1>3. ASSUME NEW i \in told, NEW k \in RequestedChunks, MaySpeak(i),
             ReceivedRequest(i, k)
      PROVE  IInv'
  BY <1>0, <1>3, RequestStep
<1>4. ASSUME NEW k \in distributed \cap RequestedChunks, ReceivedChunk(k)
      PROVE  IInv'
  BY <1>0, <1>4, ReceivedChunkStep
<1>5. CASE OpenRequests
  BY <1>5, OpenRequestsStep
<1>6. ASSUME NEW i \in ClientId,
             ClientDisconnected(i) \/ WriteChunk(i) \/ WriteControl(i)
      PROVE  IInv'
  BY <1>6, DisconnectStep, EndWaitStep, CountStep, WriteControlStep
<1>7. CASE UNCHANGED serverVars
  <2> USE <1>7 DEF serverVars, connectionVars, dealVars, sentVars, waitVars
  <2>1. TypeOK' /\ LookupMatchesClients' /\ OwnListTrue' /\ Idle' /\ Closed'
    BY DEF IInv, TypeOK, LookupMatchesClients, OwnListTrue, Idle, Closed
  <2>2. DistributionBooks' /\ NoRepeats(chunksToDistribute)'
    BY DEF IInv, DistributionBooks
  <2>3. OpenAfterDistribution' /\ NobodyLeftClosed' /\ CrashCause'
    BY DEF IInv, OpenAfterDistribution, NobodyLeftClosed, CrashCause, Gone
  <2> QED
    BY <2>1, <2>2, <2>3 DEF IInv
<1> QED
  BY <1>1, <1>2, <1>3, <1>4, <1>5, <1>6, <1>7 DEF Next, Arrival

THEOREM Invariance == Spec => []IInv
<1>1. Init => IInv
  BY InitInv
<1>2. IInv /\ [Next]_serverVars => IInv'
  BY StepInv
<1> QED
  BY <1>1, <1>2, PTL DEF Spec

\* The ids, the two address lookups and the two kinds of waiting lists agree
\* with each other in every reachable state.
THEOREM TablesStayConsistent == Spec => []TablesConsistent
<1>1. IInv => TablesConsistent
  BY DEF IInv, TablesConsistent
<1> QED
  BY <1>1, Invariance, PTL

\* Every chunk is in exactly one place of the distribution, whatever clients
\* connect and leave while it runs.
THEOREM BooksKept == Spec => []DistributionBooks
<1>1. IInv => DistributionBooks
  BY DEF IInv
<1> QED
  BY <1>1, Invariance, PTL

\* Nobody is told to request chunks before all chunks have left the server.
THEOREM OpenNotTooEarly == Spec => []OpenAfterDistribution
<1>1. IInv => OpenAfterDistribution
  BY DEF IInv
<1> QED
  BY <1>1, Invariance, PTL

\* Once requests are open, every connected client was told so or has an OPEN
\* queued.
THEOREM NobodyLeftOut == Spec => []NobodyLeftClosed
<1>1. IInv => NobodyLeftClosed
  BY DEF IInv
<1> QED
  BY <1>1, Invariance, PTL

\* Only the division by zero of a client that comes late, a waiter that has left,
\* and over UDP a message of a client that has left, end the server.
THEOREM CrashExplained == Spec => []CrashCause
<1>1. IInv => CrashCause
  BY DEF IInv
<1> QED
  BY <1>1, Invariance, PTL

-----------------------------------------------------------------------------
(***************************************************************************)
(* Even shares.  The quotient of the chunks left and the clients to come   *)
(* never changes while shares are dealt, so every share is that quotient   *)
(* or one more.                                                            *)
(***************************************************************************)
Quotient == NumChunks \div MinClients

\* The chunks left, m, for the clients to come, r, have quotient q.
Splits(m, r, q) == IF r > 0 THEN q * r <= m /\ m < q * r + r ELSE m = 0

SharesInv ==
  /\ clientsDistributedTo <= nextClientId
  /\ Splits(Len(chunksToDistribute), ClientsToCome, Quotient)
  /\ \A i \in ClientId : IF i < nextClientId
                         THEN i < MinClients => share[i] \in {Quotient, Quotient + 1}
                         ELSE share[i] = 0

\* Dealing one share keeps the quotient.
LEMMA SplitShare ==
  ASSUME NEW m \in Nat, NEW r \in Nat \ {0}, NEW q \in Nat, Splits(m, r, q)
  PROVE  /\ ChunkLimit(m, r) \in {q, q + 1}
         /\ Splits(m - ChunkLimit(m, r), r - 1, q)
<1> DEFINE d == m \div r
           t == m % r
<1>1. d \in Nat /\ t \in Nat /\ t < r /\ m = d * r + t
  OBVIOUS
<1> HIDE DEF d, t
<1>2. q * r <= m /\ m < q * r + r
  BY DEF Splits
<1>3. d = q
  <2>1. ASSUME NEW x \in Nat, NEW y \in Nat, x < y PROVE x * r + r <= y * r
    <3>1. PICK z \in Nat : y = x + 1 + z
      <4>1. y - x - 1 \in Nat /\ y = x + 1 + (y - x - 1)
        BY <2>1
      <4> QED
        BY <4>1
    <3>2. y * r = x * r + r + z * r /\ z * r \in Nat
      BY <3>1
    <3>3. x * r \in Nat /\ y * r \in Nat
      OBVIOUS
    <3> QED
      BY <3>2, <3>3
  <2>2. d * r \in Nat /\ q * r \in Nat
    BY <1>1
  <2>3. ~ (d < q)
    <3>1. d < q => d * r + r <= q * r
      BY <1>1, <2>1
    <3> QED
      BY <1>1, <1>2, <2>2, <3>1
  <2>4. ~ (q < d)
    <3>1. q < d => q * r + r <= d * r
      BY <1>1, <2>1
    <3> QED
      BY <1>1, <1>2, <2>2, <3>1
  <2> QED
    BY <1>1, <2>3, <2>4
<1>4. ChunkLimit(m, r) = q + (IF t > 0 THEN 1 ELSE 0)
  BY <1>3 DEF ChunkLimit, d, t
<1>5. q * (r - 1) = q * r - q /\ q * r \in Nat /\ m = q * r + t
  BY <1>1, <1>3
<1>6. CASE t > 0
  BY <1>1, <1>4, <1>5, <1>6 DEF Splits
<1>7. CASE t = 0
  BY <1>1, <1>4, <1>5, <1>7 DEF Splits
<1> QED
  BY <1>1, <1>6, <1>7

LEMMA SharesInit == Init => SharesInv
<1> SUFFICES ASSUME Init PROVE SharesInv
  OBVIOUS
<1>1. clientsDistributedTo = 0 /\ nextClientId = 0 /\ Len(chunksToDistribute) = NumChunks
  BY NumChunksAssumption DEF Init
<1>2. /\ Quotient * MinClients <= NumChunks
      /\ NumChunks < Quotient * MinClients + MinClients
  <2>1. MinClients \in Nat /\ MinClients > 0 /\ NumChunks \in Nat
    BY ServerAssumption, NumChunksAssumption
  <2>2. /\ NumChunks \div MinClients \in Nat
        /\ NumChunks % MinClients \in Nat /\ NumChunks % MinClients < MinClients
        /\ NumChunks = (NumChunks \div MinClients) * MinClients + (NumChunks % MinClients)
    BY <2>1
  <2> QED
    BY <2>1, <2>2 DEF Quotient
<1>3. Splits(Len(chunksToDistribute), ClientsToCome, Quotient)
  BY <1>1, <1>2, ServerAssumption DEF Splits, ClientsToCome
<1>4. \A i \in ClientId : ~ (i < nextClientId) /\ share[i] = 0
  BY <1>1 DEF Init, ClientId
<1> QED
  BY <1>1, <1>3, <1>4 DEF SharesInv

LEMMA SharesStep == IInv /\ SharesInv /\ [Next]_serverVars => SharesInv'
<1> SUFFICES ASSUME IInv, SharesInv, [Next]_serverVars PROVE SharesInv'
  OBVIOUS
<1> USE DEF ClientsToCome
<1>1. TypeOK /\ DistributionBooks
  BY DEF IInv
<1>2. /\ MinClients \in Nat /\ MinClients > 0 /\ Quotient \in Nat
      /\ clientsDistributedTo \in Nat /\ nextClientId \in Nat
      /\ Len(chunksToDistribute) \in Nat
  <2>1. Quotient \in Nat
    BY ServerAssumption, NumChunksAssumption DEF Quotient
  <2>2. Len(chunksToDistribute) \in Nat
    BY <1>1, LenProperties DEF TypeOK
  <2>3. clientsDistributedTo \in Nat /\ nextClientId \in Nat
    BY <1>1 DEF TypeOK
  <2> QED
    BY <2>1, <2>2, <2>3, ServerAssumption
<1>3. ASSUME UNCHANGED dealVars, nextClientId' = nextClientId PROVE SharesInv'
  BY <1>3 DEF SharesInv, dealVars
<1>4. ASSUME NEW a \in Addr, Connect(nextClientId, a), nextClientId \in ClientId,
             DistributeTo(nextClientId)
      PROVE  SharesInv'
  <2>1. nextClientId' = nextClientId + 1
    BY <1>4 DEF Connect
  <2>2. CASE distributedAll /\ UNCHANGED dealVars
    <3>1. Len(chunksToDistribute) = 0
      <4>1. Range(chunksToDistribute) = {}
        BY <1>1, <2>2 DEF DistributionBooks
      <4>2. DOMAIN chunksToDistribute = {}
        BY <4>1 DEF Range
      <4>3. chunksToDistribute \in Seq(Chunk)
        BY <1>1 DEF TypeOK
      <4> QED
        BY <4>2, <4>3, EmptySeq
    <3>2. nextClientId < MinClients => Quotient = 0
      <4>1. ASSUME nextClientId < MinClients PROVE MinClients - clientsDistributedTo > 0
        BY <1>2, <4>1 DEF SharesInv
      <4>2. ASSUME NEW r \in Nat, r > 0, Quotient * r <= 0 PROVE Quotient = 0
        BY <1>2, <4>2
      <4> QED
        BY <1>2, <3>1, <4>1, <4>2 DEF SharesInv, Splits
    <3>3. share[nextClientId] = 0
      BY <1>2, <1>4 DEF SharesInv
    <3>4. \A i \in ClientId : i < nextClientId' =>
            (i < MinClients => share[i] \in {Quotient, Quotient + 1})
      BY <1>2, <2>1, <3>2, <3>3 DEF SharesInv, ClientId
    <3>5. \A i \in ClientId : ~ (i < nextClientId') => share[i] = 0
      BY <1>2, <2>1 DEF SharesInv, ClientId
    <3> QED
      BY <1>2, <2>1, <2>2, <3>4, <3>5 DEF SharesInv, dealVars
  <2>3. CASE Deal(nextClientId, NextShare)
    <3>1. /\ clientsDistributedTo' = clientsDistributedTo + 1
          /\ share' = [share EXCEPT ![nextClientId] = NextShare]
          /\ chunksToDistribute' = SubSeq(chunksToDistribute, NextShare + 1,
                                          Len(chunksToDistribute))
      BY <2>3 DEF Deal
    <3>2. NextShare \in 0 .. Len(chunksToDistribute)
      BY <1>2, ShareBound DEF NextShare
    <3>3. Len(chunksToDistribute') = Len(chunksToDistribute) - NextShare
      BY <1>1, <3>1, <3>2, RestOfSequence DEF TypeOK
    <3>4. /\ Splits(Len(chunksToDistribute'), ClientsToCome', Quotient)
          /\ nextClientId < MinClients => NextShare \in {Quotient, Quotient + 1}
      <4> DEFINE r == ClientsToCome
      <4>1. r' = r - 1 /\ r \in Int
        BY <1>2, <3>1
      <4>2. CASE r > 0
        <5>1. NextShare = ChunkLimit(Len(chunksToDistribute), r)
          BY <4>2 DEF NextShare
        <5>2. Splits(Len(chunksToDistribute), r, Quotient)
          BY DEF SharesInv
        <5>3. r \in Nat \ {0}
          BY <4>1, <4>2
        <5> HIDE DEF r
        <5> QED
          BY <1>2, <3>3, <4>1, <5>1, <5>2, <5>3, SplitShare DEF r
      <4>3. CASE ~ (r > 0)
        <5>1. NextShare = 0 /\ Len(chunksToDistribute) = 0
          BY <4>3 DEF NextShare, SharesInv, Splits
        <5>2. Len(chunksToDistribute') = 0 /\ ~ (r' > 0)
          BY <1>2, <3>3, <4>1, <4>3, <5>1
        <5>3. ~ (nextClientId < MinClients)
          BY <1>2, <4>3 DEF SharesInv
        <5> QED
          BY <5>2, <5>3 DEF Splits
      <4> QED
        BY <4>2, <4>3
    <3>5. /\ share'[nextClientId] = NextShare
          /\ \A i \in ClientId \ {nextClientId} : share'[i] = share[i]
      BY <1>1, <1>4, <3>1 DEF TypeOK
    <3>6. \A i \in ClientId : i < nextClientId' =>
            (i < MinClients => share'[i] \in {Quotient, Quotient + 1})
      BY <1>2, <2>1, <3>4, <3>5 DEF SharesInv, ClientId
    <3>7. \A i \in ClientId : ~ (i < nextClientId') => share'[i] = 0
      BY <1>2, <2>1, <3>5 DEF SharesInv, ClientId
    <3>8. clientsDistributedTo' <= nextClientId'
      BY <1>2, <2>1, <3>1 DEF SharesInv
    <3>9. Quotient' = Quotient
      BY DEF Quotient
    <3> QED
      BY <3>4, <3>6, <3>7, <3>8, <3>9 DEF SharesInv
  <2> QED
    BY <1>1, <1>4, <2>2, <2>3, DistributeEffect
<1>5. \/ UNCHANGED dealVars /\ nextClientId' = nextClientId
      \/ \E a \in Addr : /\ Connect(nextClientId, a) /\ nextClientId \in ClientId
                         /\ DistributeTo(nextClientId)
  <2>1. CASE UNCHANGED serverVars
    BY <2>1 DEF serverVars, connectionVars
  <2>2. CASE \E a \in Addr : AcceptNewClient(a)
    BY <2>2 DEF AcceptNewClient, Crash, connectionVars
  <2>3. CASE \E a \in Addr : ReceivedReg(a)
    BY <2>3 DEF ReceivedReg, SendControl, connectionVars
  <2>4. CASE \E i \in ClientId : ReceivedOpen(i)
    BY <2>4 DEF ReceivedOpen, SendControl, Crash, connectionVars
  <2>5. CASE \E i \in told, k \in RequestedChunks : ReceivedRequest(i, k)
    BY <2>5 DEF ReceivedRequest, AnswerFromCache, JoinWaiters, ForwardToClients,
                Crash, connectionVars
  <2>6. CASE \E k \in RequestedChunks : ReceivedChunk(k)
    BY <2>6 DEF ReceivedChunk, Crash, connectionVars
  <2>7. CASE OpenRequests
    BY <2>7 DEF OpenRequests, connectionVars
  <2>8. CASE \E i \in ClientId : ClientDisconnected(i)
    BY <2>8 DEF ClientDisconnected
  <2>9. CASE \E i \in ClientId : WriteChunk(i) \/ WriteControl(i)
    BY <2>9 DEF WriteChunk, WriteControl, connectionVars
  <2> QED
    BY <2>1, <2>2, <2>3, <2>4, <2>5, <2>6, <2>7, <2>8, <2>9 DEF Next, Arrival
<1> QED
  BY <1>3, <1>4, <1>5

LEMMA SharesAreEven == IInv /\ SharesInv => EvenShares
<1> SUFFICES ASSUME IInv, SharesInv PROVE EvenShares
  OBVIOUS
<1>1. Quotient \in Nat
  BY ServerAssumption, NumChunksAssumption DEF Quotient
<1>2. clientsDistributedTo >= MinClients => Len(chunksToDistribute) = 0
  BY ServerAssumption DEF SharesInv, Splits, ClientsToCome, IInv, TypeOK
<1>3. clientsDistributedTo >= MinClients => chunksToDistribute = << >>
  BY <1>2, EmptySeq DEF IInv, TypeOK
<1>4. \A i, j \in {l \in ClientId : l < nextClientId /\ l < MinClients} :
        share[i] <= share[j] + 1
  BY <1>1 DEF SharesInv
<1> QED
  BY <1>3, <1>4 DEF EvenShares

\* The chunks dealt to the first MinClients clients differ by at most one, and
\* together they are the whole file.
THEOREM SharesEven == Spec => []EvenShares
<1>1. IInv /\ SharesInv => EvenShares
  BY SharesAreEven
<1>2. Init => IInv /\ SharesInv
  BY InitInv, SharesInit
<1>3. IInv /\ SharesInv /\ [Next]_serverVars => IInv' /\ SharesInv'
  BY StepInv, SharesStep
<1> QED
  BY <1>1, <1>2, <1>3, PTL DEF Spec

-----------------------------------------------------------------------------
(***************************************************************************)
(* The cache in the server's hands.                                        *)
(***************************************************************************)
\* What its use brings about: no chunk is cached twice, and no more than
\* max_size are.
CacheHeld ==
  /\ chunkCache \in Seq(Chunk)
  /\ NoRepeats(chunkCache)
  /\ Len(chunkCache) <= CacheSize

\* A chunk put in front of a list it is not in.
LEMMA PutInFront ==
  ASSUME NEW k \in Chunk, NEW s \in Seq(Chunk), NoRepeats(s), k \notin Range(s)
  PROVE  NoRepeats(<<k>> \o s) /\ Len(<<k>> \o s) = Len(s) + 1
<1> DEFINE one == <<k>>
<1>1. one \in Seq(Chunk) /\ Len(one) = 1 /\ Range(one) = {k} /\ NoRepeats(one)
  BY DEF Range, NoRepeats
<1> HIDE DEF one
<1>2. NoRepeats(one \o s)
  BY <1>1, ConcatDistinct
<1>3. Len(one \o s) = Len(s) + 1
  <2>1. Len(one \o s) = Len(one) + Len(s) /\ Len(s) \in Nat
    BY <1>1, ConcatProperties, LenProperties
  <2> QED
    BY <1>1, <2>1
<1> QED
  BY <1>2, <1>3 DEF one

\* A chunk is cached at one place, and not in what is left of it.
LEMMA CacheLess ==
  ASSUME CacheHeld, NEW i \in DOMAIN chunkCache
  PROVE  LET rest == Cache!RemoveAt(chunkCache, i) IN
         /\ rest \in Seq(Chunk) /\ NoRepeats(rest)
         /\ Len(rest) = Len(chunkCache) - 1 /\ chunkCache[i] \notin Range(rest)
<1> DEFINE front == SubSeq(chunkCache, 1, i - 1)
           rest == SubSeq(chunkCache, i + 1, Len(chunkCache))
           n == Len(chunkCache)
<1>1. chunkCache \in Seq(Chunk) /\ n \in Nat /\ DOMAIN chunkCache = 1 .. n /\ NoRepeats(chunkCache)
  BY LenProperties DEF CacheHeld
<1>2. i \in 1 .. n /\ i \in 0 .. n /\ i - 1 \in 0 .. n
  BY <1>1
<1>3. /\ front \in Seq(Chunk) /\ Len(front) = i - 1 /\ NoRepeats(front)
      /\ Range(front) = {chunkCache[j] : j \in 1 .. i - 1}
  BY <1>1, <1>2, FrontOfSequence
<1>4. /\ rest \in Seq(Chunk) /\ Len(rest) = n - i /\ NoRepeats(rest)
      /\ \A j \in 1 .. i : chunkCache[j] \notin Range(rest)
  BY <1>1, <1>2, RestOfSequence
<1>5. chunkCache[i] \notin Range(front)
  <2>1. \A j \in 1 .. i - 1 : j \in DOMAIN chunkCache /\ j # i
    BY <1>1, <1>2
  <2> QED
    BY <1>1, <1>3, <2>1 DEF NoRepeats
<1>6. Range(front) \cap Range(rest) = {} /\ chunkCache[i] \notin Range(rest)
  <2>1. i \in 1 .. i /\ \A j \in 1 .. i - 1 : j \in 1 .. i
    BY <1>2
  <2> QED
    BY <1>3, <1>4, <2>1
<1> HIDE DEF front, rest, n
<1>7. Len(front \o rest) = Len(front) + Len(rest)
  BY <1>3, <1>4, ConcatProperties
<1>8. /\ front \o rest \in Seq(Chunk) /\ NoRepeats(front \o rest)
      /\ Range(front \o rest) = Range(front) \cup Range(rest)
  BY <1>3, <1>4, <1>6, ConcatDistinct, ConcatRange
<1>9. Len(front \o rest) = n - 1
  <2>1. Len(front) = i - 1 /\ Len(rest) = n - i /\ n \in Nat /\ i \in Nat
    BY <1>1, <1>2, <1>3, <1>4
  <2> QED
    BY <1>7, <2>1
<1> QED
  BY <1>5, <1>6, <1>8, <1>9 DEF Cache!RemoveAt, front, rest, n

\* An access or an insertion keeps it so.
LEMMA CacheStep ==
  ASSUME CacheHeld, NEW k \in Chunk, Cache!Store(k)
  PROVE  CacheHeld'
<1>1. CASE Cache!Hit(k)
  <2>1. PICK i \in DOMAIN chunkCache :
          chunkCache[i] = k /\ chunkCache' = <<k>> \o Cache!RemoveAt(chunkCache, i)
    BY <1>1 DEF Cache!Hit
  <2> DEFINE rest == Cache!RemoveAt(chunkCache, i)
  <2>2. /\ rest \in Seq(Chunk) /\ NoRepeats(rest)
        /\ Len(rest) = Len(chunkCache) - 1 /\ k \notin Range(rest)
    BY <2>1, CacheLess
  <2>3. chunkCache' = <<k>> \o rest
    BY <2>1
  <2> HIDE DEF rest
  <2>4. NoRepeats(chunkCache') /\ Len(chunkCache') = Len(rest) + 1
    BY <2>2, <2>3, PutInFront
  <2>5. chunkCache' \in Seq(Chunk)
    BY <1>1, CacheType DEF CacheHeld
  <2>6. Len(chunkCache) \in Nat
    BY LenProperties DEF CacheHeld
  <2> QED
    BY <2>2, <2>4, <2>5, <2>6 DEF CacheHeld
<1>2. CASE Cache!Add(k)
  <2> DEFINE kept == Cache!Kept
             n == Len(chunkCache)
  <2>1. chunkCache \in Seq(Chunk) /\ n \in Nat /\ n <= CacheSize /\ NoRepeats(chunkCache)
    BY LenProperties DEF CacheHeld
  <2>2. CacheSize \in Nat \ {0} /\ k \notin Range(chunkCache)
    BY <1>2, ServerAssumption DEF Cache!Add, Cache!Cached, Cache!Range, Range
  <2>3. /\ kept \in Seq(Chunk) /\ NoRepeats(kept) /\ k \notin Range(kept)
        /\ Len(kept) + 1 <= CacheSize
    <3>1. CASE n < CacheSize
      BY <2>1, <2>2, <3>1 DEF Cache!Kept
    <3>2. CASE ~ (n < CacheSize)
      <4>1. kept = SubSeq(chunkCache, 1, n - 1) /\ n - 1 \in 0 .. n
        BY <2>1, <2>2, <3>2 DEF Cache!Kept, Cache!Front
      <4>2. /\ kept \in Seq(Chunk) /\ Len(kept) = n - 1 /\ NoRepeats(kept)
            /\ Range(kept) = {chunkCache[j] : j \in 1 .. n - 1}
        BY <2>1, <4>1, FrontOfSequence
      <4>3. \A j \in 1 .. n - 1 : j \in DOMAIN chunkCache
        BY <2>1
      <4>4. Range(kept) \subseteq Range(chunkCache)
        BY <4>2, <4>3 DEF Range
      <4> QED
        BY <2>1, <2>2, <4>2, <4>4
    <3> QED
      BY <3>1, <3>2
  <2>4. chunkCache' = <<k>> \o kept
    BY <1>2 DEF Cache!Add
  <2> HIDE DEF kept, n
  <2>5. NoRepeats(chunkCache') /\ Len(chunkCache') = Len(kept) + 1
    BY <2>3, <2>4, PutInFront
  <2>6. chunkCache' \in Seq(Chunk)
    BY <1>2, <2>1, CacheType
  <2> QED
    BY <2>3, <2>5, <2>6 DEF CacheHeld
<1> QED
  BY <1>1, <1>2 DEF Cache!Store

\* Whatever the server handles, it looks a chunk up or stores one, or leaves
\* the cache alone.
LEMMA ServerUsesCache ==
  ASSUME IInv, [Next]_serverVars
  PROVE  [Cache!Next]_chunkCache
<1>0. told \subseteq ClientId /\ RequestedChunks \subseteq Chunk
  BY ServerAssumption DEF IInv, TypeOK
<1>1. ASSUME NEW a \in Addr, AcceptNewClient(a) \/ ReceivedReg(a)
      PROVE  UNCHANGED chunkCache
  BY <1>1 DEF AcceptNewClient, ReceivedReg, SendControl, Crash
<1>2. ASSUME NEW i \in ClientId, ReceivedOpen(i) PROVE UNCHANGED chunkCache
  BY <1>2 DEF ReceivedOpen, SendControl, Crash
<1>3. ASSUME NEW i \in told, NEW k \in RequestedChunks, ReceivedRequest(i, k)
      PROVE  [Cache!Next]_chunkCache
  <2>1. k \in Chunk
    BY <1>0
  <2>2. CASE AnswerFromCache(i, k)
    BY <2>1, <2>2 DEF AnswerFromCache, Crash, Cache!Next, Cache!Store
  <2>3. CASE JoinWaiters(i, k) \/ ForwardToClients(i, k)
    BY <2>3 DEF JoinWaiters, ForwardToClients
  <2> QED
    BY <1>3, <2>2, <2>3 DEF ReceivedRequest
<1>4. ASSUME NEW k \in distributed \cap RequestedChunks, ReceivedChunk(k)
      PROVE  [Cache!Next]_chunkCache
  <2>1. k \in Chunk
    BY <1>0
  <2> QED
    BY <1>4, <2>1 DEF ReceivedChunk, Crash, Cache!Next
<1>5. ASSUME NEW i \in ClientId,
             ClientDisconnected(i) \/ WriteChunk(i) \/ WriteControl(i)
      PROVE  UNCHANGED chunkCache
  BY <1>5 DEF ClientDisconnected, WriteChunk, WriteControl
<1>6. CASE OpenRequests \/ UNCHANGED serverVars
  BY <1>6 DEF OpenRequests, serverVars
<1> QED
  BY <1>1, <1>2, <1>3, <1>4, <1>5, <1>6 DEF Next, Arrival

\* The server uses its cache as the list of keys that LRUCache implements:
\* it inserts only chunks that are not there, so that no chunk is ever cached
\* twice, and no more than max_size are.
THEOREM CacheUsedAsMeant == Spec => Cache!Spec /\ []CacheHeld
<1>1. Init => Cache!Init /\ CacheHeld
  BY ServerAssumption DEF Init, Cache!Init, CacheHeld, NoRepeats
<1>2. IInv /\ [Next]_serverVars => [Cache!Next]_chunkCache
  BY ServerUsesCache
<1>3. CacheHeld /\ [Cache!Next]_chunkCache => CacheHeld'
  BY CacheStep DEF Cache!Next, CacheHeld
<1> QED
  BY <1>1, <1>2, <1>3, Invariance, PTL DEF Spec, Cache!Spec
=============================================================================
