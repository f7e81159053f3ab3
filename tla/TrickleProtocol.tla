-------------------------- MODULE TrickleProtocol ---------------------------
(***************************************************************************)
(* What client and server of the PSP file sharing program agree on,        *)
(* assignment2/src/protocol.hpp.  A FileChunk is identified with its id:   *)
(* the bytes of a chunk never change and no property tells them apart.  A  *)
(* ControlMessage keeps its three fields; the field a kind of message does *)
(* not use is 0, as in the code.                                           *)
(***************************************************************************)
EXTENDS Integers, Sequences, FiniteSets, Functions

CONSTANTS NumChunks,   \* _tot_chunks of the server, _num_chunks of a client
          MaxClientId  \* bound: the largest id the server hands out

\* load_file turns even an empty file into one chunk.
ASSUME NumChunksAssumption == NumChunks \in Nat \ {0}
ASSUME MaxClientIdAssumption == MaxClientId \in Nat

Chunk == 0 .. (NumChunks - 1)
ClientId == 0 .. MaxClientId
NoId == -1

Req(i, k) == [msgtype |-> "REQ", client |-> i, chunk |-> k]
Open(i) == [msgtype |-> "OPEN", client |-> i, chunk |-> 0]
Reg(i, n) == [msgtype |-> "REG", client |-> i, chunk |-> n]

ControlMessage == [msgtype : {"REQ", "OPEN", "REG"},
                   client : ClientId, chunk : 0 .. NumChunks]
=============================================================================
