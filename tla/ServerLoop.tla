----------------------------- MODULE ServerLoop ------------------------------
(***************************************************************************)
(* run() of assignment2/src/server.hpp and what it does with descriptors:  *)
(* kevent returns a batch of events, each is dispatched by its descriptor, *)
(* and a handler may close a descriptor, or accept another connection on   *)
(* the same one, while events of the batch still name it.  The protocol    *)
(* (TrickleServer) is left out, a connection object is its client id.      *)
(*                                                                         *)
(* accept is not checked: with no connection to take, or no descriptor     *)
(* left, it returns -1 and a client comes into being that nobody is behind *)
(* (descriptor NoFd).                                                      *)
(***************************************************************************)
EXTENDS Integers, FiniteSets, Functions, SequencesExt

CONSTANTS Peer,   \* client processes or threads
          Fd,     \* descriptors accept may return
          MaxId   \* bound: the largest id the server hands out

NoFd == "-1"
Nobody == -1
Listener == "_tcp_ss"

ASSUME ServerLoopAssumption ==
  /\ MaxId \in Nat
  /\ NoFd \notin Fd /\ Listener \notin Fd /\ IsFiniteSet(Fd)

VARIABLES serving,   \* running
          server,    \* "wait", "batch", "ended" or "crashed"
          batch,     \* events of get_events() still to be dispatched
          backlog,   \* the listener's queue of connections
          peerOf,    \* whose connection a descriptor is, or Nobody
          closed,    \* peers that have closed their connection
          tcpMap,    \* _tcp_map
          fdOf,      \* _tcp_fd of each connection object in _clients
          nextId,    \* _next_client_id
          vanished   \* connections that left the backlog before accept

loopVars == <<serving, server, batch, backlog, peerOf, closed, tcpMap, fdOf,
              nextId, vanished>>

clients == DOMAIN fdOf
With(f, x, v) == [y \in DOMAIN f \cup {x} |-> IF y = x THEN v ELSE f[y]]
Without(f, x) == Restrict(f, DOMAIN f \ {x})
FirstFree == {f \in Fd : peerOf[f] = Nobody}

-----------------------------------------------------------------------------
(***************************************************************************)
(* kevent: every registered filter that is ready.                          *)
(***************************************************************************)
Ready ==
  (IF backlog # << >> THEN {<<Listener, "read">>} ELSE {})
    \cup {<<f, "write">> : f \in DOMAIN tcpMap \ {NoFd}}
    \cup {<<f, "read">> : f \in {g \in DOMAIN tcpMap \ {NoFd} : peerOf[g] \in closed}}

GetEvents ==
  /\ server = "wait" /\ serving
  /\ Ready # {}
  /\ batch' = Ready
  /\ server' = "batch"
  /\ UNCHANGED <<serving, backlog, peerOf, closed, tcpMap, fdOf, nextId,
                 vanished>>

\* The connection object is made with fd, and accept put p behind it.  The
\* variant counts the client before it enters it in _tcp_map.
CountedFirst == nextId + 1
IdInMap == nextId

NewClient(fd) ==
  /\ tcpMap' = With(tcpMap, fd, IdInMap)
  /\ fdOf' = With(fdOf, nextId, fd)
  /\ nextId' = nextId + 1

AcceptNewClient ==
  /\ nextId <= MaxId
  /\ \/ /\ backlog # << >>
        /\ \E fd \in FirstFree :
             /\ peerOf' = [peerOf EXCEPT ![fd] = Head(backlog)]
             /\ NewClient(fd)
        /\ backlog' = Tail(backlog)
     \/ /\ backlog = << >> \/ FirstFree = {}
        /\ NewClient(NoFd)
        /\ UNCHANGED <<backlog, peerOf>>
  /\ UNCHANGED <<serving, server, closed, vanished>>

(***************************************************************************)
(* close_client, after recv returned 0: the disconnect callback strikes    *)
(* client i off the maps, which destroys the connection object.  close     *)
(* then reads _tcp_fd from freed memory: it may still be there, or not.    *)
(***************************************************************************)
CloseClient(i) ==
  /\ tcpMap' = Without(tcpMap, fdOf[i])
  /\ fdOf' = Without(fdOf, i)
  /\ peerOf' = [peerOf EXCEPT ![fdOf[i]] = Nobody] \/ UNCHANGED peerOf
  /\ UNCHANGED <<serving, server, backlog, closed, nextId, vanished>>

\* An event of a descriptor in _tcp_map goes to the client found there, which
\* had better exist; recv finds the end of the stream only if it is there.
DispatchTo(i, filter) ==
  IF i \notin clients
  THEN /\ server' = "crashed"
       /\ UNCHANGED <<serving, backlog, peerOf, closed, tcpMap, fdOf, nextId,
                      vanished>>
  ELSE IF filter = "read" /\ peerOf[fdOf[i]] \in closed
       THEN CloseClient(i)
       ELSE UNCHANGED <<serving, server, backlog, peerOf, closed, tcpMap, fdOf,
                        nextId, vanished>>

Dispatch(e) ==
  /\ server = "batch" /\ e \in batch
  /\ batch' = batch \ {e}
  /\ \/ e[1] = Listener /\ AcceptNewClient
     \/ e[1] \in DOMAIN tcpMap /\ DispatchTo(tcpMap[e[1]], e[2])
     \/ /\ e[1] # Listener /\ e[1] \notin DOMAIN tcpMap
        /\ UNCHANGED <<serving, server, backlog, peerOf, closed, tcpMap, fdOf,
                       nextId, vanished>>

EndOfBatch ==
  /\ server = "batch" /\ batch = {}
  /\ server' = "wait"
  /\ UNCHANGED <<serving, batch, backlog, peerOf, closed, tcpMap, fdOf, nextId,
                 vanished>>

\* shutdown_server erases from _clients what it iterates over, and a signal that
\* interrupts kevent makes get_events throw.  However far the process gets, it
\* ends and the kernel closes what is still open.
Shutdown ==
  /\ server = "wait" /\ ~serving
  /\ server' = "ended"
  /\ peerOf' = [f \in Fd |-> Nobody]
  /\ backlog' = << >>
  /\ UNCHANGED <<serving, batch, closed, tcpMap, fdOf, nextId, vanished>>

SignalServer ==
  /\ serving
  /\ serving' = FALSE
  /\ UNCHANGED <<server, batch, backlog, peerOf, closed, tcpMap, fdOf, nextId,
                 vanished>>

-----------------------------------------------------------------------------
(***************************************************************************)
(* The kernel at the other end: peer p connects, and closes.  A connection *)
(* that is reset leaves the backlog.                                       *)
(***************************************************************************)
PeerConnects(p) ==
  /\ backlog' = Append(backlog, p)
  /\ UNCHANGED <<serving, server, batch, peerOf, closed, tcpMap, fdOf, nextId,
                 vanished>>

PeerCloses(p) ==
  /\ closed' = closed \cup {p}
  /\ \/ UNCHANGED <<backlog, vanished>>
     \/ /\ \E n \in DOMAIN backlog :
             backlog[n] = p /\ backlog' = RemoveAt(backlog, n)
        /\ vanished' = vanished \cup {p}
  /\ UNCHANGED <<serving, server, batch, peerOf, tcpMap, fdOf, nextId>>

LoopInit ==
  /\ serving = TRUE
  /\ server = "wait"
  /\ batch = {}
  /\ backlog = << >>
  /\ peerOf = [f \in Fd |-> Nobody]
  /\ closed = {}
  /\ tcpMap = << >>
  /\ fdOf = << >>
  /\ nextId = 0
  /\ vanished = {}
=============================================================================
