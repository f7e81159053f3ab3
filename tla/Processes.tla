------------------------------ MODULE Processes ------------------------------
(***************************************************************************)
(* The client manager and the server as processes: the threads of          *)
(* ClientManager are the peers of ServerLoop.  What they say to each other *)
(* is the subject of Trickle; here a client saves its file at some time.   *)
(***************************************************************************)
EXTENDS ClientManager, ServerLoop

\* The server may hold a descriptor for each client.
ASSUME ProcessesAssumption == Peer = Thread /\ Cardinality(Fd) >= N

vars == <<managerVars, loopVars>>

ServerUp == server \in {"wait", "batch"}

\* connect succeeds if the server listens.  A client that could not connect
\* has nothing to close.
StartThread ==
  \/ ServerUp /\ Start(TRUE) /\ PeerConnects(started)
  \/ ~ServerUp /\ Start(FALSE) /\ UNCHANGED loopVars

ThreadEnds(i) == RunEnds(i) /\ PeerCloses(i)

\* recv returns 0 in client i: the server has ended.
SeesServerEnd(i) == ~ServerUp /\ Disconnected(i) /\ UNCHANGED loopVars

Manager ==
  \/ (Test \/ Join \/ Signal) /\ UNCHANGED loopVars
  \/ StartThread
  \/ \E i \in Thread :
       \/ (SaveFile(i) \/ FileSaved(i)) /\ UNCHANGED loopVars
       \/ ThreadEnds(i) \/ SeesServerEnd(i)

\* When main() throws, the process ends and the kernel closes its sockets.
AbortCloses ==
  /\ main = "abort"
  /\ \E i \in Thread \ closed : thread[i] # "none" /\ PeerCloses(i)
  /\ UNCHANGED managerVars

Server ==
  /\ GetEvents \/ (\E e \in batch : Dispatch(e)) \/ EndOfBatch \/ Shutdown \/ SignalServer
  /\ UNCHANGED managerVars

Init == ManagerInit /\ LoopInit

Next == Manager \/ AbortCloses \/ Server

Spec == Init /\ [][Next]_vars

(***************************************************************************)
(* Fairness.  Every thread runs, both loops turn (their write filters are  *)
(* ready), and the end of a connection is seen.                            *)
(***************************************************************************)
Fairness ==
  /\ WF_vars(Test /\ UNCHANGED loopVars)
  /\ WF_vars(Join /\ UNCHANGED loopVars)
  /\ WF_vars(StartThread)
  /\ \A i \in Thread :
       /\ WF_vars(FileSaved(i) /\ UNCHANGED loopVars)
       /\ WF_vars(ThreadEnds(i))
       /\ WF_vars(SeesServerEnd(i))

FairSpec == Spec /\ Fairness

-----------------------------------------------------------------------------
\* The values of the variables; a descriptor belongs to one client at most.
TypeOK ==
  /\ running \in BOOLEAN
  /\ main \in {"test", "sleep", "join", "exit", "abort"}
  /\ started \in 0 .. N /\ joined \in 0 .. N
  /\ thread \in [Thread -> {"none", "loop", "count", "done"}]
  /\ saved \in [Thread -> BOOLEAN]
  /\ completed \in 0 .. N
  /\ interrupted \in BOOLEAN
  /\ serving \in BOOLEAN
  /\ server \in {"wait", "batch", "ended", "crashed"}
  /\ batch \subseteq (Fd \cup {Listener}) \X {"read", "write"}
  /\ backlog \in Seq(Peer)
  /\ peerOf \in [Fd -> Peer \cup {Nobody}]
  /\ closed \subseteq Peer
  /\ DOMAIN tcpMap \subseteq Fd \cup {NoFd}
  /\ clients \subseteq 0 .. MaxId
  /\ nextId \in 0 .. (MaxId + 1)
  /\ vanished \subseteq Peer

\* No event of a batch, however stale, is dispatched to a connection object
\* that was destroyed earlier in the batch.
NoNullDispatch == server # "crashed"

\* A descriptor that is used again, in the same batch or later, names the one
\* client it was accepted for, and a client's descriptor is nobody else's.
DescriptorsAgree ==
  server # "ended" =>
    /\ \A i \in clients : fdOf[i] # NoFd =>
         /\ fdOf[i] \in DOMAIN tcpMap /\ tcpMap[fdOf[i]] = i
         /\ peerOf[fdOf[i]] # Nobody
    /\ \A f \in DOMAIN tcpMap : tcpMap[f] \in clients /\ fdOf[tcpMap[f]] = f

\* A client nobody is behind comes only of a connection that was reset before
\* it was accepted.  Descriptors that close_client leaks are no reason as long
\* as there is one for each client.
GhostsExplained == (\E i \in clients : fdOf[i] = NoFd) => vanished # {}

\* The server's tables of clients and descriptors are sound, whatever happens
\* between the events of a batch.
DescriptorsConsistent == TypeOK /\ NoNullDispatch /\ DescriptorsAgree /\ GhostsExplained

\* The manager dies, joining a thread it never started or in kevent, only if a
\* signal, a failed connect or the end of the server came; saved files alone
\* never stop it early.
AbortExplained == main = "abort" => interrupted

\* When all files are saved the manager ends, in the regular way or, after a
\* signal, by throwing.
AllSavedEnds ==
  (\A i \in Thread : saved[i]) ~> (main = "exit" \/ (main = "abort" /\ interrupted))

\* When the server ends so does the manager, whichever threads run by then.
ServerEndEndsManager == server = "ended" ~> Ended
=============================================================================
