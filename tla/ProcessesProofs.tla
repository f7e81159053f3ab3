--------------------------- MODULE ProcessesProofs ---------------------------
(***************************************************************************)
(* Proofs about the client manager and the server's event loop, for any    *)
(* number of clients, at least as many descriptors, and any bound on ids:  *)
(* what ends the manager early, and that no event of a batch reaches a     *)
(* connection object that is gone.                                         *)
(***************************************************************************)
EXTENDS Processes, FiniteSetTheorems, BufferTheorems

(***************************************************************************)
(* The manager.  Its flag is cleared by whatever is called interrupted, or *)
(* once all clients counted, and main() goes on to join the threads only   *)
(* after it started all of them or saw the flag cleared.                   *)
(***************************************************************************)
ManagerTypes ==
  /\ running \in BOOLEAN
  /\ main \in {"test", "sleep", "join", "exit", "abort"}
  /\ started \in 0 .. N /\ joined \in 0 .. N
  /\ thread \in [Thread -> {"none", "loop", "count", "done"}]
  /\ saved \in [Thread -> BOOLEAN]
  /\ completed \in 0 .. N
  /\ interrupted \in BOOLEAN

Saved == {i \in Thread : saved[i]}

ManagerInv ==
  /\ ManagerTypes
  /\ completed = Cardinality(Saved)
  /\ ~running => interrupted \/ completed = N
  /\ main = "sleep" => started < N
  /\ main = "join" => started = N \/ ~running
  /\ \A i \in Thread : thread[i] = "none" <=> i >= started
  /\ \A i \in Saved : thread[i] # "none"
  /\ AbortExplained

(***************************************************************************)
(* The event loop.  A peer connects once: it waits in the backlog or is    *)
(* behind one descriptor.  The listener's event is there because the       *)
(* backlog was not empty.                                                  *)
(***************************************************************************)
LoopTypes ==
  /\ serving \in BOOLEAN
  /\ server \in {"wait", "batch", "ended", "crashed"}
  /\ batch \subseteq (Fd \cup {Listener}) \X {"read", "write"}
  /\ backlog \in Seq(Peer)
  /\ peerOf \in [Fd -> Peer \cup {Nobody}]
  /\ closed \subseteq Peer
  /\ DOMAIN tcpMap \subseteq Fd \cup {NoFd}
  /\ clients \subseteq 0 .. MaxId
  /\ nextId \in 0 .. (MaxId + 1)
  /\ vanished \subseteq Peer

IdsInOrder == \A i \in clients : i < nextId /\ fdOf[i] \in Fd \cup {NoFd}

OnePlaceEach ==
  /\ NoRepeats(backlog)
  /\ \A p \in Range(backlog) : p < started
  /\ \A f \in Fd : peerOf[f] # Nobody => peerOf[f] < started /\ peerOf[f] \notin Range(backlog)
  /\ \A f, g \in Fd : peerOf[f] = peerOf[g] /\ peerOf[f] # Nobody => f = g

ListenerReady ==
  /\ <<Listener, "read">> \in batch /\ backlog = << >> => vanished # {}
  /\ \A e \in batch : e[1] = Listener => e[2] = "read"
  /\ server # "batch" => batch = {}

LoopInv ==
  /\ LoopTypes /\ NoNullDispatch /\ DescriptorsAgree /\ GhostsExplained
  /\ IdsInOrder /\ OnePlaceEach /\ ListenerReady

\* The inductive invariant.
PInv == ManagerInv /\ LoopInv

LEMMA ThreadFacts ==
  /\ N \in Nat /\ N > 0 /\ Peer = Thread /\ Nobody \notin Peer
  /\ Thread \subseteq Nat /\ \A p \in Peer : p \in Nat /\ p < N
  /\ IsFiniteSet(Thread) /\ Cardinality(Thread) = N
<1>1. N \in Nat /\ N > 0 /\ Peer = Thread
  BY NAssumption, ProcessesAssumption
<1>2. IsFiniteSet(0 .. (N - 1)) /\ Cardinality(0 .. (N - 1)) = N
  <2>1. 0 \in Int /\ N - 1 \in Int /\ ~ (0 > N - 1) /\ (N - 1) - 0 + 1 = N
    BY <1>1
  <2> QED
    BY <2>1, FS_Interval
<1> QED
  BY <1>1, <1>2 DEF Thread, Nobody

LEMMA SavedFacts ==
  ASSUME ManagerTypes
  PROVE  /\ IsFiniteSet(Saved) /\ Cardinality(Saved) \in Nat /\ Cardinality(Saved) <= N
         /\ Cardinality(Saved) = N => Saved = Thread
<1>1. Saved \in SUBSET Thread
  BY DEF Saved
<1> QED
  BY <1>1, ThreadFacts, FS_Subset, FS_CardinalityType

-----------------------------------------------------------------------------
(***************************************************************************)
(* Steps of the manager.                                                   *)
(***************************************************************************)
LEMMA TestStep ==
  ASSUME ManagerInv, Test
  PROVE  ManagerInv'
<1>1. /\ main' \in {"sleep", "join"}
      /\ main' = "sleep" => started < N
      /\ main' = "join" => ~ (started < N) \/ ~running
      /\ UNCHANGED <<running, started, joined, thread, saved, completed, interrupted>>
  BY DEF Test
<1>2. main' = "join" => started = N \/ ~running
  BY <1>1, ThreadFacts DEF ManagerInv, ManagerTypes
<1>3. ManagerTypes'
  BY <1>1 DEF ManagerInv, ManagerTypes
<1> QED
  BY <1>1, <1>2, <1>3 DEF ManagerInv, Saved, AbortExplained

LEMMA StartStep ==
  ASSUME ManagerInv, NEW connected \in BOOLEAN, Start(connected)
  PROVE  ManagerInv' /\ started \in Thread /\ started' = started + 1
<1>1. /\ main = "sleep" /\ main' = "test" /\ started' = started + 1
      /\ running' = (running /\ connected)
      /\ interrupted' = (interrupted \/ ~connected)
      /\ thread' = [thread EXCEPT ![started] = "loop"]
      /\ UNCHANGED <<joined, saved, completed>>
  BY DEF Start
<1>2. started \in Thread /\ started + 1 \in 0 .. N
  BY <1>1, ThreadFacts DEF ManagerInv, ManagerTypes, Thread
<1>3. ManagerTypes'
  BY <1>1, <1>2 DEF ManagerInv, ManagerTypes
<1>4. \A i \in Thread : thread'[i] = "none" <=> i >= started'
  BY <1>1, <1>2, ThreadFacts DEF ManagerInv, ManagerTypes
<1>5. \A i \in Saved : thread'[i] # "none"
  BY <1>1, <1>2 DEF ManagerInv, ManagerTypes, Saved
<1>6. ~running' => interrupted' \/ completed = N
  BY <1>1 DEF ManagerInv, ManagerTypes
<1> QED
  BY <1>1, <1>2, <1>3, <1>4, <1>5, <1>6 DEF ManagerInv, Saved, AbortExplained

LEMMA JoinStep ==
  ASSUME ManagerInv, Join
  PROVE  ManagerInv'
<1>1. /\ main = "join" /\ main' \in {"join", "exit", "abort"} /\ joined' \in 0 .. N
      /\ main' = "abort" => joined < N /\ thread[joined] = "none"
      /\ UNCHANGED <<running, started, thread, saved, completed, interrupted>>
  BY ThreadFacts DEF Join, ManagerInv, ManagerTypes
<1>2. ASSUME main' = "abort" PROVE interrupted
  <2>1. joined \in Thread /\ thread[joined] = "none" /\ started # N
    BY <1>1, <1>2, ThreadFacts DEF ManagerInv, ManagerTypes, Thread
  <2>2. ~running /\ joined \notin Saved
    BY <1>1, <2>1 DEF ManagerInv
  <2>3. Saved # Thread
    BY <2>1, <2>2
  <2>4. completed # N
    BY <2>3, SavedFacts DEF ManagerInv
  <2> QED
    BY <2>2, <2>4 DEF ManagerInv
<1>3. ManagerTypes'
  BY <1>1 DEF ManagerInv, ManagerTypes
<1> QED
  BY <1>1, <1>2, <1>3 DEF ManagerInv, Saved, AbortExplained

LEMMA SaveStep ==
  ASSUME ManagerInv, NEW i \in Thread, SaveFile(i)
  PROVE  ManagerInv'
<1>1. /\ thread[i] = "loop" /\ ~saved[i]
      /\ saved' = [saved EXCEPT ![i] = TRUE]
      /\ completed' = completed + 1
      /\ thread' = [thread EXCEPT ![i] = "count"]
      /\ UNCHANGED <<running, main, started, joined, interrupted>>
  BY DEF SaveFile
<1>2. saved' \in [Thread -> BOOLEAN] /\ thread' \in [Thread -> {"none", "loop", "count", "done"}]
  BY <1>1 DEF ManagerInv, ManagerTypes
<1>3. Saved' = Saved \cup {i} /\ i \notin Saved
  BY <1>1 DEF ManagerInv, ManagerTypes, Saved
<1>4. Cardinality(Saved') = Cardinality(Saved) + 1 /\ Cardinality(Saved') <= N
  <2>1. IsFiniteSet(Saved)
    BY SavedFacts DEF ManagerInv
  <2>2. Cardinality(Saved \cup {i}) = Cardinality(Saved) + 1
    BY <1>3, <2>1, FS_AddElement
  <2>3. Saved \cup {i} \in SUBSET Thread
    BY DEF Saved
  <2>4. Cardinality(Saved \cup {i}) <= N
    BY <2>3, ThreadFacts, FS_Subset
  <2> QED
    BY <1>3, <2>2, <2>4
<1>5. completed' = Cardinality(Saved') /\ completed' \in 0 .. N /\ completed < N
  BY <1>1, <1>4, ThreadFacts, SavedFacts DEF ManagerInv
<1>6. ~running => interrupted
  BY <1>5 DEF ManagerInv
<1>7. ManagerTypes'
  BY <1>1, <1>2, <1>5 DEF ManagerInv, ManagerTypes
<1>8. /\ \A j \in Thread : thread'[j] = "none" <=> thread[j] = "none"
      /\ \A j \in Saved' : thread'[j] # "none"
  BY <1>1, <1>3 DEF ManagerInv, ManagerTypes
<1> QED
  BY <1>1, <1>5, <1>6, <1>7, <1>8 DEF ManagerInv, AbortExplained

LEMMA ThreadStep ==
  ASSUME ManagerInv, NEW i \in Thread, FileSaved(i) \/ RunEnds(i) \/ Disconnected(i)
  PROVE  ManagerInv' /\ started' = started
<1>1. CASE FileSaved(i)
  BY <1>1 DEF ManagerInv, ManagerTypes, Saved, AbortExplained, FileSaved, AllCompleted
<1>2. CASE RunEnds(i)
  BY <1>2 DEF ManagerInv, ManagerTypes, Saved, AbortExplained, RunEnds
<1>3. CASE Disconnected(i)
  BY <1>3 DEF ManagerInv, ManagerTypes, Saved, AbortExplained, Disconnected, Noticed
<1> QED
  BY <1>1, <1>2, <1>3

LEMMA SignalStep ==
  ASSUME ManagerInv, Signal
  PROVE  ManagerInv'
BY DEF ManagerInv, ManagerTypes, Saved, AbortExplained, Signal

LEMMA ManagerFrame ==
  ASSUME ManagerInv, UNCHANGED managerVars
  PROVE  ManagerInv' /\ started' = started
BY DEF ManagerInv, ManagerTypes, Saved, AbortExplained, managerVars

-----------------------------------------------------------------------------
(***************************************************************************)
(* Steps of the event loop.  Nothing of the manager matters to it but how  *)
(* many threads were started.                                              *)
(***************************************************************************)
LEMMA Descriptors ==
  /\ MaxId \in Nat /\ NoFd \notin Fd /\ Listener \notin Fd
  /\ IsFiniteSet(Fd) /\ Cardinality(Fd) \in Nat /\ Cardinality(Fd) >= N
  /\ NoFd # Listener
BY ServerLoopAssumption, ProcessesAssumption, FS_CardinalityType DEF NoFd, Listener

\* There is a free descriptor for a peer that waits.
LEMMA RoomToAccept ==
  ASSUME LoopInv, started \in 0 .. N, backlog # << >>
  PROVE  FirstFree # {}
<1>1. backlog \in Seq(Peer) /\ peerOf \in [Fd -> Peer \cup {Nobody}]
  BY DEF LoopInv, LoopTypes
<1> DEFINE p == Head(backlog)
<1>2. p \in Peer /\ p \in Range(backlog)
  BY <1>1, BufferRange
<1> HIDE DEF p
<1> SUFFICES ASSUME FirstFree = {} PROVE FALSE
  OBVIOUS
<1>3. peerOf \in [Fd -> Peer \ {p}]
  BY <1>1, <1>2 DEF FirstFree, LoopInv, OnePlaceEach
<1>4. IsFiniteSet(Peer \ {p}) /\ Cardinality(Peer \ {p}) = N - 1
  BY <1>2, ThreadFacts, FS_RemoveElement
<1>5. Cardinality(Peer \ {p}) < Cardinality(Fd)
  BY <1>4, Descriptors, ThreadFacts
<1>6. PICK f, g \in Fd : f # g /\ peerOf[f] = peerOf[g]
  BY <1>3, <1>4, <1>5, Descriptors, FS_PigeonHole
<1> QED
  BY <1>1, <1>3, <1>6, ThreadFacts DEF LoopInv, OnePlaceEach

LEMMA GetEventsStep ==
  ASSUME LoopInv, GetEvents, started' = started
  PROVE  LoopInv'
<1>1. /\ batch' = Ready /\ server = "wait" /\ server' = "batch"
      /\ UNCHANGED <<serving, backlog, peerOf, closed, tcpMap, fdOf, nextId, vanished>>
  BY DEF GetEvents
<1>2. DOMAIN tcpMap \ {NoFd} \subseteq Fd
  BY DEF LoopInv, LoopTypes
<1>3. Ready \subseteq (Fd \cup {Listener}) \X {"read", "write"}
  BY <1>2 DEF Ready
<1>4. <<Listener, "read">> \in Ready => backlog # << >>
  BY <1>2, Descriptors DEF Ready
<1>5. LoopTypes' /\ ListenerReady'
  <2>1. \A e \in Ready : e[1] = Listener => e[2] = "read"
    BY <1>2, Descriptors DEF Ready
  <2> QED
    BY <1>1, <1>3, <1>4, <2>1 DEF LoopInv, LoopTypes, ListenerReady, clients
<1>6. DescriptorsAgree' /\ NoNullDispatch' /\ GhostsExplained'
  BY <1>1 DEF LoopInv, NoNullDispatch, DescriptorsAgree, GhostsExplained, clients
<1>7. IdsInOrder' /\ OnePlaceEach'
  BY <1>1 DEF LoopInv, IdsInOrder, OnePlaceEach, clients
<1> QED
  BY <1>5, <1>6, <1>7 DEF LoopInv

\* A client entered in both tables.
LEMMA TablesGrow ==
  ASSUME NEW fd, NewClient(fd)
  PROVE  /\ DOMAIN tcpMap' = DOMAIN tcpMap \cup {fd} /\ tcpMap'[fd] = nextId
         /\ \A f \in DOMAIN tcpMap \ {fd} : tcpMap'[f] = tcpMap[f]
         /\ clients' = clients \cup {nextId} /\ fdOf'[nextId] = fd
         /\ \A i \in clients \ {nextId} : fdOf'[i] = fdOf[i]
         /\ nextId' = nextId + 1
BY DEF NewClient, With, IdInMap, clients

LEMMA AgreeGrows ==
  ASSUME DescriptorsAgree, server # "ended", nextId \notin clients,
         NEW fd, NewClient(fd),
         \A i \in clients : fdOf[i] # NoFd =>
           fdOf[i] # fd /\ peerOf'[fdOf[i]] # Nobody,
         fd # NoFd => peerOf'[fd] # Nobody
  PROVE  DescriptorsAgree'
<1>1. /\ DOMAIN tcpMap' = DOMAIN tcpMap \cup {fd} /\ tcpMap'[fd] = nextId
      /\ \A f \in DOMAIN tcpMap \ {fd} : tcpMap'[f] = tcpMap[f]
      /\ clients' = clients \cup {nextId} /\ fdOf'[nextId] = fd
      /\ \A i \in clients \ {nextId} : fdOf'[i] = fdOf[i]
  BY TablesGrow
<1>2. ASSUME NEW i \in clients', fdOf'[i] # NoFd
      PROVE  /\ fdOf'[i] \in DOMAIN tcpMap' /\ tcpMap'[fdOf'[i]] = i
             /\ peerOf'[fdOf'[i]] # Nobody
  <2>1. CASE i = nextId
    BY <1>1, <1>2, <2>1
  <2>2. CASE i # nextId
    <3>1. i \in clients /\ fdOf'[i] = fdOf[i]
      BY <1>1, <2>2
    <3>2. /\ fdOf[i] \in DOMAIN tcpMap \ {fd} /\ tcpMap[fdOf[i]] = i
          /\ peerOf'[fdOf[i]] # Nobody
      BY <1>2, <3>1 DEF DescriptorsAgree
    <3> QED
      BY <1>1, <3>1, <3>2
  <2> QED
    BY <2>1, <2>2
<1>3. ASSUME NEW f \in DOMAIN tcpMap'
      PROVE  tcpMap'[f] \in clients' /\ fdOf'[tcpMap'[f]] = f
  <2>1. CASE f = fd
    BY <1>1, <2>1
  <2>2. CASE f # fd
    <3>1. f \in DOMAIN tcpMap /\ tcpMap'[f] = tcpMap[f]
      BY <1>1, <2>2
    <3>2. tcpMap[f] \in clients \ {nextId} /\ fdOf[tcpMap[f]] = f
      BY <3>1 DEF DescriptorsAgree
    <3> QED
      BY <1>1, <3>1, <3>2
  <2> QED
    BY <2>1, <2>2
<1> QED
  BY <1>2, <1>3 DEF DescriptorsAgree

LEMMA AcceptStep ==
  ASSUME LoopInv, started \in 0 .. N, started' = started, server = "batch",
         <<Listener, "read">> \in batch,
         batch' = batch \ {<<Listener, "read">>},
         AcceptNewClient
  PROVE  LoopInv'
<1>0. LoopTypes /\ NoNullDispatch /\ DescriptorsAgree /\ IdsInOrder /\ OnePlaceEach
  BY DEF LoopInv
<1>1. UNCHANGED <<serving, server, closed, vanished>> /\ nextId <= MaxId
  BY DEF AcceptNewClient
<1>2. nextId \notin clients /\ nextId \in 0 .. MaxId /\ nextId + 1 \in 0 .. (MaxId + 1)
  BY <1>0, <1>1, Descriptors DEF LoopTypes, IdsInOrder
<1>3. ASSUME NEW fd \in Fd \cup {NoFd}, NewClient(fd)
      PROVE  /\ DOMAIN tcpMap' \subseteq Fd \cup {NoFd} /\ clients' \subseteq 0 .. MaxId
             /\ nextId' \in 0 .. (MaxId + 1) /\ IdsInOrder'
  <2>1. /\ DOMAIN tcpMap' = DOMAIN tcpMap \cup {fd}
        /\ clients' = clients \cup {nextId} /\ fdOf'[nextId] = fd
        /\ \A i \in clients \ {nextId} : fdOf'[i] = fdOf[i]
        /\ nextId' = nextId + 1
    BY <1>3, TablesGrow
  <2>2. \A i \in clients : i \in Nat /\ i < nextId
    BY <1>0 DEF LoopTypes, IdsInOrder
  <2>3. \A i \in clients' : i < nextId' /\ fdOf'[i] \in Fd \cup {NoFd}
    BY <1>0, <1>2, <1>3, <2>1, <2>2 DEF IdsInOrder
  <2> QED
    BY <1>0, <1>2, <1>3, <2>1, <2>3 DEF LoopTypes, IdsInOrder
<1>4. batch' \subseteq (Fd \cup {Listener}) \X {"read", "write"} /\ ListenerReady'
  <2>1. batch' \subseteq batch /\ <<Listener, "read">> \notin batch'
    OBVIOUS
  <2>2. batch' \subseteq (Fd \cup {Listener}) \X {"read", "write"}
    BY <1>0, <2>1 DEF LoopTypes
  <2>3. \A e \in batch' : e[1] = Listener => e[2] = "read"
    BY <2>1 DEF LoopInv, ListenerReady
  <2> QED
    BY <1>1, <2>1, <2>2, <2>3 DEF ListenerReady
<1>5. CASE backlog # << >> /\ \E fd \in FirstFree :
             /\ peerOf' = [peerOf EXCEPT ![fd] = Head(backlog)]
             /\ NewClient(fd) /\ backlog' = Tail(backlog)
  <2>1. PICK fd \in FirstFree :
          /\ peerOf' = [peerOf EXCEPT ![fd] = Head(backlog)]
          /\ NewClient(fd) /\ backlog' = Tail(backlog)
    BY <1>5
  <2> DEFINE p == Head(backlog)
  <2>2. fd \in Fd /\ peerOf[fd] = Nobody /\ fd # NoFd
    BY Descriptors DEF FirstFree
  <2>3. /\ p \in Peer /\ p \in Range(backlog) /\ p # Nobody /\ p < started
        /\ Tail(backlog) \in Seq(Peer) /\ Range(Tail(backlog)) \subseteq Range(backlog)
        /\ NoRepeats(Tail(backlog)) /\ p \notin Range(Tail(backlog))
    <3>1. backlog \in Seq(Peer) /\ NoRepeats(backlog)
      BY <1>0 DEF LoopTypes, OnePlaceEach
    <3>2. p \in Peer /\ p \in Range(backlog)
      BY <1>5, <3>1, BufferRange
    <3>3. p # Nobody /\ p < started
      BY <1>0, <3>2, ThreadFacts DEF OnePlaceEach
    <3>4. Tail(backlog) \in Seq(Peer) /\ Range(Tail(backlog)) \subseteq Range(backlog)
      BY <1>5, <3>1, BufferRange
    <3>5. NoRepeats(Tail(backlog)) /\ p \notin Range(Tail(backlog))
      BY <1>5, <3>1, PopDistinct
    <3> QED
      BY <3>2, <3>3, <3>4, <3>5
  <2> HIDE DEF p
  <2>4. /\ peerOf' \in [Fd -> Peer \cup {Nobody}] /\ peerOf'[fd] = p
        /\ \A f \in Fd \ {fd} : peerOf'[f] = peerOf[f]
    BY <1>0, <2>1, <2>2, <2>3 DEF LoopTypes, p
  <2>5. LoopTypes' /\ IdsInOrder'
    BY <1>0, <1>1, <1>3, <1>4, <2>1, <2>2, <2>3, <2>4 DEF LoopTypes
  <2>6. fd \notin DOMAIN tcpMap /\ \A i \in clients : fdOf[i] # fd
    BY <1>0, <1>1, <2>2 DEF DescriptorsAgree
  <2>7. DescriptorsAgree'
    <3>1. \A i \in clients : fdOf[i] # NoFd =>
            fdOf[i] \in Fd \ {fd} /\ peerOf[fdOf[i]] # Nobody
      BY <1>0, <1>1, <2>6 DEF DescriptorsAgree, IdsInOrder
    <3>2. \A i \in clients : fdOf[i] # NoFd => fdOf[i] # fd /\ peerOf'[fdOf[i]] # Nobody
      BY <2>4, <3>1
    <3>3. peerOf'[fd] # Nobody
      BY <2>3, <2>4
    <3> QED
      BY <1>0, <1>2, <2>1, <3>2, <3>3, AgreeGrows
  <2>8. OnePlaceEach'
    <3>1. NoRepeats(backlog') /\ \A q \in Range(backlog') : q < started'
      BY <1>0, <2>1, <2>3 DEF OnePlaceEach
    <3>2. \A f \in Fd : peerOf'[f] # Nobody =>
            peerOf'[f] < started' /\ peerOf'[f] \notin Range(backlog')
      BY <1>0, <2>1, <2>3, <2>4 DEF OnePlaceEach
    <3>3. \A f, g \in Fd : peerOf'[f] = peerOf'[g] /\ peerOf'[f] # Nobody => f = g
      BY <1>0, <2>3, <2>4 DEF OnePlaceEach
    <3> QED
      BY <3>1, <3>2, <3>3 DEF OnePlaceEach
  <2>9. GhostsExplained'
    BY <1>1, <1>2, <2>1, <2>2, TablesGrow DEF LoopInv, GhostsExplained
  <2> QED
    BY <1>0, <1>1, <1>4, <2>5, <2>7, <2>8, <2>9 DEF LoopInv, NoNullDispatch
<1>6. CASE /\ backlog = << >> \/ FirstFree = {}
           /\ NewClient(NoFd) /\ UNCHANGED <<backlog, peerOf>>
  <2>1. vanished # {}
    BY <1>6, RoomToAccept DEF LoopInv, ListenerReady
  <2>2. LoopTypes' /\ IdsInOrder'
    BY <1>0, <1>1, <1>3, <1>4, <1>6 DEF LoopTypes
  <2>3. DescriptorsAgree'
    <3>1. \A i \in clients : fdOf[i] # NoFd => peerOf'[fdOf[i]] # Nobody
      BY <1>0, <1>6 DEF DescriptorsAgree
    <3> QED
      BY <1>0, <1>2, <1>6, <3>1, AgreeGrows
  <2> QED
    BY <1>0, <1>1, <1>4, <1>6, <2>1, <2>2, <2>3
    DEF LoopInv, NoNullDispatch, GhostsExplained, OnePlaceEach
<1> QED
  BY <1>5, <1>6 DEF AcceptNewClient

\* close_client: the client is struck off both tables, and whether or not its
\* descriptor is closed, no other client has it.
LEMMA CloseStep ==
  ASSUME LoopInv, started' = started, NEW e \in batch, server = "batch",
         batch' = batch \ {e}, e[1] \in DOMAIN tcpMap, e[1] \in Fd,
         CloseClient(tcpMap[e[1]])
  PROVE  LoopInv'
<1> DEFINE i == tcpMap[e[1]]
           fd == e[1]
<1>0. LoopTypes /\ NoNullDispatch /\ DescriptorsAgree /\ IdsInOrder /\ OnePlaceEach
  BY DEF LoopInv
<1>1. i \in clients /\ fdOf[i] = fd /\ fd \in Fd
  BY <1>0 DEF DescriptorsAgree
<1>2. /\ DOMAIN tcpMap' = DOMAIN tcpMap \ {fd}
      /\ \A f \in DOMAIN tcpMap \ {fd} : tcpMap'[f] = tcpMap[f]
      /\ clients' = clients \ {i} /\ \A j \in clients \ {i} : fdOf'[j] = fdOf[j]
      /\ peerOf' = [peerOf EXCEPT ![fd] = Nobody] \/ peerOf' = peerOf
      /\ UNCHANGED <<serving, server, backlog, closed, nextId, vanished>>
  BY <1>1 DEF CloseClient, Without, Restrict, clients
<1> HIDE DEF i, fd
<1>3. /\ peerOf' \in [Fd -> Peer \cup {Nobody}]
      /\ \A f \in Fd : f # fd => peerOf'[f] = peerOf[f]
      /\ peerOf'[fd] = Nobody \/ peerOf'[fd] = peerOf[fd]
  BY <1>0, <1>1, <1>2 DEF LoopTypes
<1>4. LoopTypes' /\ ListenerReady'
  BY <1>0, <1>2, <1>3 DEF LoopInv, LoopTypes, ListenerReady
<1>5. IdsInOrder' /\ GhostsExplained' /\ NoNullDispatch'
  BY <1>0, <1>2 DEF LoopInv, IdsInOrder, GhostsExplained, NoNullDispatch
<1>6. DescriptorsAgree'
  <2>1. ASSUME NEW j \in clients', fdOf'[j] # NoFd
        PROVE  /\ fdOf'[j] \in DOMAIN tcpMap' /\ tcpMap'[fdOf'[j]] = j
               /\ peerOf'[fdOf'[j]] # Nobody
    <3>1. j \in clients /\ j # i /\ fdOf'[j] = fdOf[j]
      BY <1>2
    <3>2. /\ fdOf[j] \in DOMAIN tcpMap /\ tcpMap[fdOf[j]] = j /\ peerOf[fdOf[j]] # Nobody
          /\ fdOf[j] \in Fd
      BY <1>0, <2>1, <3>1 DEF DescriptorsAgree, IdsInOrder
    <3>3. fdOf[j] # fd
      BY <3>1, <3>2 DEF i, fd
    <3> QED
      BY <1>2, <1>3, <3>1, <3>2, <3>3
  <2>2. ASSUME NEW f \in DOMAIN tcpMap'
        PROVE  tcpMap'[f] \in clients' /\ fdOf'[tcpMap'[f]] = f
    <3>1. f \in DOMAIN tcpMap /\ f # fd /\ tcpMap'[f] = tcpMap[f]
      BY <1>2
    <3>2. tcpMap[f] \in clients /\ fdOf[tcpMap[f]] = f
      BY <1>0, <3>1 DEF DescriptorsAgree
    <3>3. tcpMap[f] # i
      BY <1>1, <3>1, <3>2
    <3> QED
      BY <1>2, <3>1, <3>2, <3>3
  <2> QED
    BY <2>1, <2>2 DEF DescriptorsAgree
<1>7. OnePlaceEach'
  BY <1>0, <1>1, <1>2, <1>3 DEF OnePlaceEach
<1> QED
  BY <1>4, <1>5, <1>6, <1>7 DEF LoopInv

\* A step that leaves the tables alone.
LEMMA QuietStep ==
  ASSUME LoopInv, started' = started, batch' \subseteq batch,
         server' # "batch" => batch' = {},
         UNCHANGED <<backlog, peerOf, closed, tcpMap, fdOf, nextId, vanished>>,
         serving' \in BOOLEAN,
         server' \in {"wait", "batch", "ended"}, server = "ended" => server' = "ended"
  PROVE  LoopInv'
<1>1. LoopTypes' /\ ListenerReady'
  BY DEF LoopInv, LoopTypes, ListenerReady, clients
<1>2. DescriptorsAgree' /\ NoNullDispatch' /\ GhostsExplained'
  BY DEF LoopInv, NoNullDispatch, DescriptorsAgree, GhostsExplained, clients
<1>3. IdsInOrder' /\ OnePlaceEach'
  BY DEF LoopInv, IdsInOrder, OnePlaceEach, clients
<1> QED
  BY <1>1, <1>2, <1>3 DEF LoopInv

LEMMA DispatchStep ==
  ASSUME LoopInv, started \in 0 .. N, started' = started, NEW e \in batch, Dispatch(e)
  PROVE  LoopInv'
<1>1. server = "batch" /\ batch' = batch \ {e}
  BY DEF Dispatch
<1>2. e = <<e[1], e[2]>> /\ e[1] \in Fd \cup {Listener} /\ e[2] \in {"read", "write"}
  BY DEF LoopInv, LoopTypes
<1>3. CASE /\ e[1] # Listener
           /\ UNCHANGED <<serving, server, backlog, peerOf, closed, tcpMap, fdOf,
                          nextId, vanished>>
  BY <1>1, <1>3, QuietStep DEF LoopInv, LoopTypes
<1>4. CASE e[1] = Listener /\ AcceptNewClient
  <2>1. CASE e[2] = "read"
    BY <1>1, <1>2, <1>4, <2>1, AcceptStep
  <2>2. CASE e[2] # "read"
    BY <1>4, <2>2 DEF LoopInv, ListenerReady
  <2> QED
    BY <2>1, <2>2
<1>5. CASE e[1] \in DOMAIN tcpMap /\ DispatchTo(tcpMap[e[1]], e[2])
  <2>1. e[1] \in Fd
    BY <1>2, <1>5, Descriptors DEF LoopInv, LoopTypes
  <2>2. tcpMap[e[1]] \in clients
    BY <1>1, <1>5 DEF LoopInv, DescriptorsAgree
  <2>3. \/ CloseClient(tcpMap[e[1]])
        \/ UNCHANGED <<serving, server, backlog, peerOf, closed, tcpMap, fdOf,
                       nextId, vanished>>
    BY <1>5, <2>2 DEF DispatchTo
  <2>4. CASE CloseClient(tcpMap[e[1]])
    BY <1>1, <1>5, <2>1, <2>4, CloseStep
  <2>5. e[1] # Listener
    BY <2>1, Descriptors
  <2> QED
    BY <1>3, <2>3, <2>4, <2>5
<1> QED
  BY <1>3, <1>4, <1>5 DEF Dispatch

LEMMA ConnectStep ==
  ASSUME LoopInv, started \in Thread, started' = started + 1, PeerConnects(started)
  PROVE  LoopInv'
<1> DEFINE p == started
<1>0. LoopTypes /\ OnePlaceEach /\ p \in Peer /\ p \in Nat /\ p' = p + 1
  BY ThreadFacts DEF LoopInv
<1>1. /\ backlog' = Append(backlog, p)
      /\ UNCHANGED <<serving, server, batch, peerOf, closed, tcpMap, fdOf, nextId,
                     vanished>>
  BY DEF PeerConnects
<1> HIDE DEF p
<1>2. backlog \in Seq(Peer) /\ p \notin Range(backlog) /\ NoRepeats(backlog)
  BY <1>0 DEF LoopTypes, OnePlaceEach, p
<1>3. /\ Append(backlog, p) \in Seq(Peer) /\ Append(backlog, p) # << >>
      /\ Range(Append(backlog, p)) = Range(backlog) \cup {p}
  BY <1>0, <1>2, BufferRange, HeadOfAppend
<1>4. NoRepeats(Append(backlog, p))
  <2>1. <<p>> \in Seq(Peer) /\ Range(<<p>>) = {p} /\ NoRepeats(<<p>>)
    BY <1>0 DEF Range, NoRepeats
  <2>2. Append(backlog, p) = backlog \o <<p>>
    BY <1>0, <1>2, AppendIsConcat
  <2> QED
    BY <1>2, <2>1, <2>2, ConcatDistinct
<1>5. LoopTypes' /\ ListenerReady'
  BY <1>0, <1>1, <1>3 DEF LoopInv, LoopTypes, ListenerReady, clients
<1>6. DescriptorsAgree' /\ NoNullDispatch' /\ GhostsExplained' /\ IdsInOrder'
  BY <1>1 DEF LoopInv, NoNullDispatch, DescriptorsAgree, GhostsExplained, IdsInOrder, clients
<1>7. OnePlaceEach'
  <2>1. \A q \in Range(backlog') : q < p'
    <3>1. \A q \in Range(backlog) : q \in Nat /\ q < p
      <4>1. Range(backlog) \subseteq Peer
        BY <1>2 DEF Range
      <4> QED
        BY <1>0, <4>1, ThreadFacts DEF OnePlaceEach, p
    <3> QED
      BY <1>0, <1>1, <1>3, <3>1
  <2>2. ASSUME NEW f \in Fd, peerOf[f] # Nobody
        PROVE  peerOf[f] < p' /\ peerOf[f] \notin Range(backlog')
    <3>1. peerOf[f] \in Nat /\ peerOf[f] < p /\ peerOf[f] \notin Range(backlog)
      BY <1>0, <2>2, ThreadFacts DEF LoopTypes, OnePlaceEach, p
    <3> QED
      BY <1>0, <1>1, <1>3, <3>1
  <2> QED
    BY <1>0, <1>1, <1>3, <1>4, <2>1, <2>2 DEF OnePlaceEach, p
<1> QED
  BY <1>5, <1>6, <1>7 DEF LoopInv

\* A peer closes; if it was still waiting it may leave the backlog.
LEMMA PeerClosesStep ==
  ASSUME LoopInv, started' = started, NEW p \in Thread, PeerCloses(p)
  PROVE  LoopInv'
<1>0. LoopTypes /\ OnePlaceEach /\ p \in Peer
  BY ThreadFacts DEF LoopInv
<1>1. /\ closed' = closed \cup {p}
      /\ UNCHANGED <<serving, server, batch, peerOf, tcpMap, fdOf, nextId>>
      /\ \/ backlog' = backlog /\ vanished' = vanished
         \/ /\ \E n \in DOMAIN backlog : backlog' = RemoveAt(backlog, n)
            /\ vanished' = vanished \cup {p}
  BY DEF PeerCloses
<1>2. /\ backlog' \in Seq(Peer) /\ NoRepeats(backlog')
      /\ Range(backlog') \subseteq Range(backlog)
  BY <1>0, <1>1, RemovedEntry DEF LoopTypes, OnePlaceEach
<1>3. /\ vanished' \subseteq Peer /\ vanished \subseteq vanished'
      /\ backlog' = backlog \/ vanished' # {}
  BY <1>0, <1>1 DEF LoopTypes
<1>4. LoopTypes' /\ ListenerReady'
  BY <1>0, <1>1, <1>2, <1>3 DEF LoopInv, LoopTypes, ListenerReady, clients
<1>5. DescriptorsAgree' /\ NoNullDispatch' /\ GhostsExplained' /\ IdsInOrder'
  BY <1>1, <1>3
  DEF LoopInv, NoNullDispatch, DescriptorsAgree, GhostsExplained, IdsInOrder, clients
<1>6. OnePlaceEach'
  BY <1>0, <1>1, <1>2 DEF OnePlaceEach
<1> QED
  BY <1>4, <1>5, <1>6 DEF LoopInv

LEMMA ShutdownStep ==
  ASSUME LoopInv, started' = started, Shutdown
  PROVE  LoopInv'
<1>1. /\ server = "wait" /\ server' = "ended" /\ batch = {} /\ batch' = {}
      /\ peerOf' = [f \in Fd |-> Nobody] /\ backlog' = << >>
      /\ UNCHANGED <<serving, closed, tcpMap, fdOf, nextId, vanished>>
  BY DEF Shutdown, LoopInv, ListenerReady
<1>2. << >> \in Seq(Peer) /\ NoRepeats(<< >>) /\ Range(<< >>) = {}
  BY DEF NoRepeats, Range
<1>3. LoopTypes' /\ ListenerReady'
  BY <1>1, <1>2 DEF LoopInv, LoopTypes, ListenerReady, clients
<1>4. DescriptorsAgree' /\ NoNullDispatch' /\ GhostsExplained' /\ IdsInOrder'
  BY <1>1
  DEF LoopInv, NoNullDispatch, DescriptorsAgree, GhostsExplained, IdsInOrder, clients
<1>5. OnePlaceEach'
  BY <1>1, <1>2 DEF OnePlaceEach
<1> QED
  BY <1>3, <1>4, <1>5 DEF LoopInv

LEMMA ServerStep ==
  ASSUME LoopInv, started \in 0 .. N, started' = started,
         GetEvents \/ (\E e \in batch : Dispatch(e)) \/ EndOfBatch \/ Shutdown \/ SignalServer
  PROVE  LoopInv'
<1>1. CASE GetEvents
  BY <1>1, GetEventsStep
<1>2. CASE \E e \in batch : Dispatch(e)
  BY <1>2, DispatchStep
<1>3. CASE EndOfBatch
  BY <1>3, QuietStep DEF EndOfBatch, LoopInv, LoopTypes
<1>4. CASE Shutdown
  BY <1>4, ShutdownStep
<1>5. CASE SignalServer
  <2>1. /\ batch' = batch /\ server' = server /\ serving' \in BOOLEAN
        /\ UNCHANGED <<backlog, peerOf, closed, tcpMap, fdOf, nextId, vanished>>
    BY <1>5 DEF SignalServer
  <2>2. server \in {"wait", "batch", "ended"} /\ (server # "batch" => batch = {})
    BY DEF LoopInv, LoopTypes, NoNullDispatch, ListenerReady
  <2> QED
    BY <2>1, <2>2, QuietStep
<1> QED
  BY <1>1, <1>2, <1>3, <1>4, <1>5

LEMMA LoopFrame ==
  ASSUME LoopInv, started' = started, UNCHANGED loopVars
  PROVE  LoopInv'
<1>1. /\ batch' = batch /\ server' = server /\ serving' = serving
      /\ UNCHANGED <<backlog, peerOf, closed, tcpMap, fdOf, nextId, vanished>>
  BY DEF loopVars
<1>2. /\ server \in {"wait", "batch", "ended"} /\ (server # "batch" => batch = {})
      /\ serving \in BOOLEAN
  BY DEF LoopInv, LoopTypes, NoNullDispatch, ListenerReady
<1> QED
  BY <1>1, <1>2, QuietStep

\* A thread that starts without a connection.
LEMMA LoopFrameStart ==
  ASSUME LoopInv, started \in Thread, started' = started + 1, UNCHANGED loopVars
  PROVE  LoopInv'
<1>1. UNCHANGED <<serving, server, batch, backlog, peerOf, closed, tcpMap, fdOf, nextId,
                  vanished>>
  BY DEF loopVars
<1>2. LoopTypes' /\ ListenerReady'
  BY <1>1 DEF LoopInv, LoopTypes, ListenerReady, clients
<1>3. DescriptorsAgree' /\ NoNullDispatch' /\ GhostsExplained' /\ IdsInOrder'
  BY <1>1
  DEF LoopInv, NoNullDispatch, DescriptorsAgree, GhostsExplained, IdsInOrder, clients
<1>4. OnePlaceEach'
  <2>1. started \in Nat /\ Range(backlog) \subseteq Nat
    <3>1. backlog \in Seq(Peer)
      BY DEF LoopInv, LoopTypes
    <3> QED
      BY <3>1, ThreadFacts DEF Range
  <2>2. \A f \in Fd : peerOf[f] # Nobody => peerOf[f] \in Nat
    BY ThreadFacts DEF LoopInv, LoopTypes
  <2>3. /\ \A q \in Range(backlog) : q < started'
        /\ \A f \in Fd : peerOf[f] # Nobody => peerOf[f] < started'
    BY <2>1, <2>2 DEF LoopInv, OnePlaceEach
  <2> QED
    BY <1>1, <2>3 DEF LoopInv, OnePlaceEach
<1> QED
  BY <1>2, <1>3, <1>4 DEF LoopInv

-----------------------------------------------------------------------------
(***************************************************************************)
(* The invariant and the properties.                                       *)
(***************************************************************************)
LEMMA PInvInit ==
  ASSUME Init
  PROVE  PInv
<1>1. ManagerInv
  <2>1. /\ running = TRUE /\ main = "test" /\ started = 0 /\ joined = 0 /\ completed = 0
        /\ thread = [i \in Thread |-> "none"] /\ saved = [i \in Thread |-> FALSE]
        /\ interrupted = FALSE
    BY DEF Init, ManagerInit
  <2>2. ManagerTypes /\ Saved = {} /\ \A i \in Thread : i >= 0
    <3>1. ManagerTypes
      <4>1. 0 \in 0 .. N
        BY ThreadFacts
      <4>2. /\ thread \in [Thread -> {"none", "loop", "count", "done"}]
            /\ saved \in [Thread -> BOOLEAN]
        BY <2>1
      <4> QED
        BY <2>1, <4>1, <4>2 DEF ManagerTypes
    <3>2. \A i \in Thread : i >= 0
      BY ThreadFacts DEF Thread
    <3>3. Saved = {}
      BY <2>1 DEF Saved
    <3> QED
      BY <3>1, <3>2, <3>3
  <2>3. completed = Cardinality(Saved)
    BY <2>1, <2>2, FS_EmptySet
  <2> QED
    BY <2>1, <2>2, <2>3 DEF ManagerInv, AbortExplained
<1>2. LoopInv
  <2>1. /\ serving = TRUE /\ server = "wait" /\ batch = {} /\ backlog = << >>
        /\ peerOf = [f \in Fd |-> Nobody] /\ closed = {} /\ tcpMap = << >>
        /\ fdOf = << >> /\ nextId = 0 /\ vanished = {}
    BY DEF Init, LoopInit
  <2>2. /\ << >> \in Seq(Peer) /\ NoRepeats(<< >>) /\ Range(<< >>) = {}
        /\ DOMAIN << >> = {}
    BY DEF NoRepeats, Range
  <2>3. LoopTypes /\ clients = {}
    BY <2>1, <2>2, Descriptors DEF LoopTypes, clients
  <2> QED
    BY <2>1, <2>2, <2>3
    DEF LoopInv, NoNullDispatch, DescriptorsAgree, GhostsExplained, IdsInOrder,
        OnePlaceEach, ListenerReady
<1> QED
  BY <1>1, <1>2 DEF PInv

LEMMA PInvStep ==
  ASSUME PInv, Next
  PROVE  PInv'
<1>0. ManagerInv /\ LoopInv /\ started \in 0 .. N
  BY DEF PInv, ManagerInv, ManagerTypes
<1>1. CASE (Test \/ Join \/ Signal) /\ UNCHANGED loopVars
  <2>1. ManagerInv'
    BY <1>0, <1>1, TestStep, JoinStep, SignalStep
  <2>2. started' = started
    BY <1>1 DEF Test, Join, Signal
  <2> QED
    BY <1>0, <1>1, <2>1, <2>2, LoopFrame DEF PInv
<1>2. CASE StartThread
  <2>1. CASE Start(TRUE) /\ PeerConnects(started)
    BY <1>0, <2>1, StartStep, ConnectStep DEF PInv
  <2>2. CASE Start(FALSE) /\ UNCHANGED loopVars
    BY <1>0, <2>2, StartStep, LoopFrameStart DEF PInv
  <2> QED
    BY <1>2, <2>1, <2>2 DEF StartThread
<1>3. ASSUME NEW i \in Thread,
             \/ (SaveFile(i) \/ FileSaved(i)) /\ UNCHANGED loopVars
             \/ ThreadEnds(i) \/ SeesServerEnd(i)
      PROVE  PInv'
  <2>1. CASE SaveFile(i) /\ UNCHANGED loopVars
    <3>1. started' = started
      BY <2>1 DEF SaveFile
    <3> QED
      BY <1>0, <2>1, <3>1, SaveStep, LoopFrame DEF PInv
  <2>2. CASE FileSaved(i) /\ UNCHANGED loopVars
    BY <1>0, <2>2, ThreadStep, LoopFrame DEF PInv
  <2>3. CASE ThreadEnds(i)
    BY <1>0, <2>3, ThreadStep, PeerClosesStep DEF PInv, ThreadEnds
  <2>4. CASE SeesServerEnd(i)
    BY <1>0, <2>4, ThreadStep, LoopFrame DEF PInv, SeesServerEnd
  <2> QED
    BY <1>3, <2>1, <2>2, <2>3, <2>4
<1>4. CASE AbortCloses
  BY <1>0, <1>4, ManagerFrame, PeerClosesStep DEF PInv, AbortCloses
<1>5. CASE Server
  <2>1. ManagerInv' /\ started' = started
    BY <1>0, <1>5, ManagerFrame DEF Server
  <2> QED
    BY <1>0, <1>5, <2>1, ServerStep DEF PInv, Server
<1> QED
  BY <1>1, <1>2, <1>3, <1>4, <1>5 DEF Next, Manager

LEMMA PInvStutter ==
  ASSUME PInv, UNCHANGED vars
  PROVE  PInv'
<1>1. UNCHANGED managerVars /\ UNCHANGED loopVars
  BY DEF vars
<1> QED
  BY <1>1, ManagerFrame, LoopFrame DEF PInv

\* The inductive invariant holds in every reachable state.
THEOREM Invariance == Spec => []PInv
<1>1. Init => PInv
  BY PInvInit
<1>2. PInv /\ [Next]_vars => PInv'
  BY PInvStep, PInvStutter
<1> QED
  BY <1>1, <1>2, PTL DEF Spec

\* However signals, failed connects and saved files interleave with main()'s
\* loops, the manager dies only after an interruption: counting the saved files
\* never stops it before it started every thread.
THEOREM ManagerDiesOnlyInterrupted == Spec => []AbortExplained
<1>1. PInv => AbortExplained
  BY DEF PInv, ManagerInv
<1> QED
  BY <1>1, Invariance, PTL

\* In whatever order a batch is dispatched, clients close and descriptors are
\* used again, the tables agree and no event reaches a destroyed connection.
THEOREM DescriptorsStayConsistent == Spec => []DescriptorsConsistent
<1>1. PInv => DescriptorsConsistent
  <2> SUFFICES ASSUME PInv PROVE DescriptorsConsistent
    OBVIOUS
  <2>1. TypeOK
    BY DEF PInv, ManagerInv, ManagerTypes, LoopInv, LoopTypes, TypeOK
  <2> QED
    BY <2>1 DEF PInv, LoopInv, DescriptorsConsistent
<1> QED
  BY <1>1, Invariance, PTL
=============================================================================
