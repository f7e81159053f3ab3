------------------------------ MODULE ChunkFile ------------------------------
(***************************************************************************)
(* load_file of server.hpp and save_file of client.hpp: a file is cut into *)
(* chunks and put together again.  A byte of the file is represented by    *)
(* its offset, so that a file of size s is 1 .. s in this order.           *)
(***************************************************************************)
EXTENDS Integers, SequencesExt

CONSTANT ChunkSize  \* 1024 in the code

ASSUME ChunkSizeAssumption == ChunkSize \in Nat \ {0}

\* A FileChunk: the size field says how much of data is of the file.
Chunk(i, from, n) == [id |-> i, from |-> from, size |-> n]

\* What read(data, 1024) delivers at offset pos: gcount.
Count(size, pos) == IF size - pos < ChunkSize THEN size - pos ELSE ChunkSize

\* eof is set by a read that wants more than there is, not by one that takes
\* the last byte.  The variant sets it by the latter.
EofAtLastByte(size, pos) == size - pos <= ChunkSize
EofAfter(size, pos) == size - pos < ChunkSize

\* save_file writes size bytes of each chunk, in the order of ids.  The variant
\* writes the whole of data.
WrittenWhole(c) == [k \in 1 .. ChunkSize |-> c.from + k]
Written(c) == [k \in 1 .. c.size |-> c.from + k]

\* map is _chunks, numChunks is _num_chunks.
SaveFile(map, numChunks) ==
  FlattenSeq([i \in 1 .. numChunks |-> Written(map[i - 1])])

File(size) == [k \in 1 .. size |-> k]
=============================================================================
