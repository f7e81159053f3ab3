-------------------------------- MODULE Eval ---------------------------------
(***************************************************************************)
(* The eval2 variant as a whole: the clients of EvalClient, the server of  *)
(* EvalServer, control messages on UDP and chunks on TCP.                  *)
(*                                                                         *)
(* Datagrams may be lost, or overtaken by later ones, both ways.  One for  *)
(* the server that finds the channel full is dropped, as by the receive    *)
(* buffer of a socket; one for a client that is lost stays on its way for  *)
(* ever.                                                                   *)
(*                                                                         *)
(* A client may be terminated at any time, so that the server may read its *)
(* requests when it is gone, with other clients still there.               *)
(***************************************************************************)
EXTENDS EvalClient, EvalServer

CONSTANTS MaxAsking,   \* bound: timer events of all clients
          MaxInFlight, \* bound: requests, or chunks, in a channel
          MaxReplies   \* bound: datagrams on their way to a client

ASSUME EvalAssumption ==
  /\ Addr = Client
  /\ NumChunks > 1 /\ NumChunks % 2 = 1  \* 11 in the code
  /\ MaxInFlight \in Nat \ {0} /\ MaxReplies \in Nat \ {0}
  /\ MaxAsking \in Nat

VARIABLES conn,      \* TCP connection of each client
          requests,  \* datagrams from each client to the server
          replies,   \* datagrams from the server to each client
          answers,   \* chunks from the server to each client
          asking     \* timer events of all clients

netVars == <<conn, requests, replies, answers, asking>>
vars == <<clientVars, serverVars, netVars>>

Deliver(channel, m) ==
  IF Len(channel) < MaxInFlight THEN Append(channel, m) ELSE channel

-----------------------------------------------------------------------------
(***************************************************************************)
(* Steps of a client.                                                      *)
(***************************************************************************)
Join(c) ==
  /\ conn[c] = "new"
  /\ conn' = [conn EXCEPT ![c] = "backlog"]
  /\ UNCHANGED <<clientVars, serverVars, requests, replies, answers, asking>>

SendRequest(c) ==
  /\ conn[c] # "new"
  /\ WriteControl(c)
  /\ requests' = [requests EXCEPT ![c] = Deliver(@, Head(clientControl[c]))]
  /\ UNCHANGED <<serverVars, conn, replies, answers, asking>>

ReadReply(c, n) ==
  /\ n \in DOMAIN replies[c]
  /\ ReceivedControl(c, replies[c][n])
  /\ replies' = [replies EXCEPT ![c] = RemoveAt(@, n)]
  /\ UNCHANGED <<serverVars, conn, requests, answers, asking>>

ReadAnswer(c) ==
  /\ answers[c] # << >>
  /\ ReceivedChunk(c, Head(answers[c]))
  /\ answers' = [answers EXCEPT ![c] = Tail(@)]
  /\ UNCHANGED <<serverVars, conn, requests, replies, asking>>

Timer(c) ==
  /\ conn[c] # "new" /\ asking < MaxAsking
  /\ PeriodicResend(c)
  /\ asking' = asking + 1
  /\ UNCHANGED <<serverVars, conn, requests, replies, answers>>

Turn(c) ==
  /\ RequestNext(c)
  /\ UNCHANGED <<serverVars, netVars>>

\* The client has its file, is terminated by a signal, or finds that the server
\* is gone; the sockets close.
End(c) ==
  /\ conn[c] \in {"backlog", "open"}
  /\ Finish(c) \/ Disconnected(c)
  /\ conn' = [conn EXCEPT ![c] = "closed"]
  /\ UNCHANGED <<serverVars, requests, replies, answers, asking>>

-----------------------------------------------------------------------------
(***************************************************************************)
(* Steps of the server, and of the network.                                *)
(***************************************************************************)
Accept(c) ==
  /\ conn[c] = "backlog"
  /\ AcceptNewClient(c)
  /\ conn' = [conn EXCEPT ![c] = "open"]
  /\ UNCHANGED <<clientVars, requests, replies, answers, asking>>

ReadRequest(c, n, intact) ==
  /\ n \in DOMAIN requests[c]
  /\ ReceivedControlMsg(c, requests[c][n], intact)
  /\ requests' = [requests EXCEPT ![c] = RemoveAt(@, n)]
  /\ UNCHANGED <<clientVars, conn, replies, answers, asking>>

\* What is sent to a client that has closed its sockets reaches nobody.
SendReply(i) ==
  LET c == reverseLookup[i]
      m == Head(serverControl[i]) IN
  /\ WriteMessage(i)
  /\ \/ /\ conn[c] = "open" /\ Len(replies[c]) < MaxReplies
        /\ replies' = [replies EXCEPT ![c] = Append(@, m)]
     \/ conn[c] # "open" /\ UNCHANGED replies
  /\ UNCHANGED <<clientVars, conn, requests, answers, asking>>

SendAnswer(i) ==
  LET c == reverseLookup[i] IN
  /\ WriteAnswer(i)
  /\ conn[c] = "open" => Len(answers[c]) < MaxInFlight
  /\ answers' = IF conn[c] = "open"
                THEN [answers EXCEPT ![c] = Append(@, Head(serverSends[i]))]
                ELSE answers
  /\ UNCHANGED <<clientVars, conn, requests, replies, asking>>

SeeEnd(i) ==
  /\ i \in clients /\ conn[reverseLookup[i]] = "closed"
  /\ ClientDisconnected(i)
  /\ UNCHANGED <<clientVars, netVars>>

LoseRequest(c) ==
  /\ \E n \in DOMAIN requests[c] :
       requests' = [requests EXCEPT ![c] = RemoveAt(@, n)]
  /\ UNCHANGED <<clientVars, serverVars, conn, replies, answers, asking>>

-----------------------------------------------------------------------------
Init ==
  /\ ClientInit
  /\ ServerInit
  /\ conn = [c \in Client |-> "new"]
  /\ requests = [c \in Client |-> << >>]
  /\ replies = [c \in Client |-> << >>]
  /\ answers = [c \in Client |-> << >>]
  /\ asking = 0

ClientStep(c) ==
  \/ Join(c) \/ SendRequest(c) \/ ReadAnswer(c)
  \/ \E n \in 1 .. MaxReplies : ReadReply(c, n)
  \/ Timer(c) \/ Turn(c) \/ End(c)

ServerStep ==
  \/ \E c \in Client : Accept(c)
  \/ \E c \in Client, n \in 1 .. MaxInFlight, intact \in BOOLEAN :
       ReadRequest(c, n, intact)
  \/ \E i \in clients : SendReply(i) \/ SendAnswer(i) \/ SeeEnd(i)

Next ==
  \/ \E c \in Client : ClientStep(c) \/ LoseRequest(c)
  \/ ServerStep

Spec == Init /\ [][Next]_vars

(***************************************************************************)
(* Fairness of the first client and of what the server does for it: both   *)
(* loops turn for ever, and replies arrive.  A text is corrupted one time  *)
(* in three, so of infinitely many answers infinitely many are intact,     *)
(* whoever asked, and of requests sent again and again infinitely many     *)
(* arrive.                                                                 *)
(***************************************************************************)
First == {c \in Client : lookup[c] = 0}

Fairness ==
  /\ WF_vars(\E c \in First : SendRequest(c))
  /\ WF_vars(\E c \in First, n \in 1 .. MaxReplies : ReadReply(c, n))
  /\ WF_vars(\E c \in First : ReadAnswer(c))
  /\ WF_vars(\E c \in First : Turn(c))
  /\ SF_vars(\E c \in Client, n \in 1 .. MaxInFlight : ReadRequest(c, n, TRUE))
  /\ WF_vars(SendReply(0)) /\ WF_vars(SendAnswer(0))

FairSpec == Spec /\ Fairness

-----------------------------------------------------------------------------
\* The values of the variables.
TypeOK ==
  /\ running \in [Client -> BOOLEAN]
  /\ registered \in [Client -> BOOLEAN]
  /\ clientId \in [Client -> ClientId \cup {NoId}]
  /\ canRequest \in [Client -> BOOLEAN]
  /\ chunks \in [Client -> [Chunk -> {"none", "genuine", "corrupted"}]]
  /\ numRcvd \in [Client -> Nat]
  /\ recvChunkCache \in [Client -> Seq(Answer)]
  /\ nextChunkIdx \in [Client -> Chunk]
  /\ clientControl \in [Client -> Seq(Message)]
  /\ savedFile \in [Client -> BOOLEAN]
  /\ file \in [Client -> [Chunk -> {"none", "genuine", "corrupted"}]]
  /\ outOfRange \in [Client -> BOOLEAN]
  /\ crashed \in BOOLEAN
  /\ totChunks \in UnsetTotals
  /\ nextClientId \in 0 .. (MaxClientId + 1)
  /\ clients \subseteq 0 .. (nextClientId - 1)
  /\ lookup \in [Client -> ClientId \cup {NoId}]
  /\ reverseLookup \in [ClientId -> Client \cup {NoAddr}]
  /\ serverControl \in [ClientId -> Seq(Message)]
  /\ serverSends \in [ClientId -> Seq(Answer)]
  /\ chunkRequests \in [Chunk -> SUBSET ClientId]
  /\ clientRequests \in [ClientId -> SUBSET Chunk]
  /\ conn \in [Client -> {"new", "backlog", "open", "closed"}]
  /\ requests \in [Client -> Seq(Message)]
  /\ replies \in [Client -> Seq(Message)]
  /\ answers \in [Client -> Seq(Answer)]
  /\ asking \in 0 .. MaxAsking

\* However answers are corrupted, cached early or asked for again, no corrupted
\* text is ever among the chunks of a client, nor in its file.
GenuineOnly ==
  \A c \in Client, k \in Chunk :
    chunks[c][k] # "corrupted" /\ file[c][k] # "corrupted"

\* The request sequence 1, 3, 5, .. only ever names odd chunks, so (10 being
\* even) every file is saved without the even ones: ten good answers to five
\* different requests pass for ten chunks.
OddChunksOnly ==
  \A c \in Client, k \in Chunk :
    k % 2 = 0 => chunks[c][k] = "none" /\ file[c][k] = "none"

\* Every answer goes to the client with id 0, whoever asked: no other client
\* gets a chunk, and the server dereferences a null connection only when its
\* first client has come and gone, which is how the first client's success
\* ends the service for the others.
OnlyTheFirstIsServed ==
  /\ \A c \in Client : chunks[c] # NoText \/ recvChunkCache[c] # << >> =>
       reverseLookup[0] = c \/ ~running[c]
  /\ crashed => 0 < nextClientId /\ 0 \notin clients

\* A client writes past its vectors only if its greeting is still on its way (or
\* lost), overtaken by the answer to the client's repeated REG with the number
\* nobody set.
OverrunWithoutGreeting ==
  \A c \in Client : outOfRange[c] =>
    \E m \in Range(replies[c]) : m.msgtype = "REG" /\ m.chunk = NumChunks

\* The two directions of who waits for what agree, also when requests of a
\* client arrive after its connection has ended.
ListsAgree ==
  \A i \in ClientId, k \in Chunk :
    i \in chunkRequests[k] <=> k \in clientRequests[i]

\* The tables of the server agree, also with requests that arrive late.
ListsConsistent == TypeOK /\ ListsAgree

\* The first client completes its file despite corrupted answers, lost requests
\* and early, late or repeated replies, unless it is terminated or overrun.  That
\* replies arrive is assumed: an OPEN that is lost is never sent again.
FirstFinishes ==
  \A c \in Client :
    lookup[c] = 0 ~> savedFile[c] \/ ~running[c] \/ outOfRange[c]
=============================================================================
