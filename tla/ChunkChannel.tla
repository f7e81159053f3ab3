---------------------------- MODULE ChunkChannel -----------------------------
(***************************************************************************)
(* What Trickle takes a TCP connection for: a channel of whole chunks.     *)
(* None is lost or overtaken; what was written before the connection is    *)
(* closed still arrives, what was queued does not.  Module Transfer, where *)
(* the connection is a stream of bytes that passes through two socket      *)
(* buffers, implements it.                                                 *)
(***************************************************************************)
EXTENDS Naturals, Sequences, SequencesExt

VARIABLES queue,     \* what the sender has yet to write
          channel,   \* what was written and has not been received
          closed,    \* by the sender
          received,  \* the chunks the receiver has, by their ids
          ended      \* the receiver has seen the end

vars == <<queue, channel, closed, received, ended>>

Init ==
  /\ queue = << >> /\ channel = << >> /\ closed = FALSE
  /\ received = << >> /\ ended = FALSE

\* Chunks are queued behind those that are.
Queue ==
  /\ IsPrefix(queue, queue')
  /\ UNCHANGED <<channel, closed, received, ended>>

Write ==
  /\ ~closed /\ queue # << >>
  /\ channel' = Append(channel, Head(queue))
  /\ queue' = Tail(queue)
  /\ UNCHANGED <<closed, received, ended>>

Close ==
  /\ ~closed
  /\ closed' = TRUE /\ queue' = << >>
  /\ UNCHANGED <<channel, received, ended>>

\* A chunk that is there already is dropped.
With(chunks, c) ==
  [i \in DOMAIN chunks \cup {c.id} |-> IF i \in DOMAIN chunks THEN chunks[i] ELSE c]

Read ==
  /\ ~ended /\ channel # << >>
  /\ received' = With(received, Head(channel))
  /\ channel' = Tail(channel)
  /\ UNCHANGED <<queue, closed, ended>>

\* The end comes behind all that was written.
End ==
  /\ ~ended /\ closed /\ channel = << >>
  /\ ended' = TRUE
  /\ UNCHANGED <<queue, channel, closed, received>>

Next == Queue \/ Write \/ Close \/ Read \/ End

Spec == Init /\ [][Next]_vars
=============================================================================
