------------------------------ MODULE Transfer -------------------------------
(***************************************************************************)
(* From the server's file to the client's: load_file, FileChunk structs    *)
(* over one TCP connection, save_file.  TCP is a stream of bytes, and the  *)
(* code relies on low-water marks for each send and each recv to move      *)
(* exactly one struct.  Which chunks are sent when is the subject of       *)
(* Trickle; here each goes out once, and some again.                       *)
(*                                                                         *)
(* A struct is cut into Units units.  The sender's socket buffer has room  *)
(* for Room of them, the network carries them over one at a time.          *)
(***************************************************************************)
EXTENDS ChunkFile

CONSTANTS Sizes,        \* sizes of the file
          Units,        \* the length of a FileChunk struct
          Room,         \* room in the sender's socket buffer
          MaxChunks,    \* bound: chunks a file that cannot be opened makes
          MaxRepeats    \* bound: chunks that are sent once more

ASSUME TransferAssumption ==
  /\ Sizes \subseteq Nat
  /\ Units \in Nat \ {0} /\ Room \in Nat /\ Room >= Units
  /\ MaxChunks \in Nat /\ MaxRepeats \in Nat
  /\ \A s \in Sizes : s \div ChunkSize + 1 < MaxChunks

VARIABLES file,       \* its size, and whether it could be opened
          pos,        \* offset of the next read
          eof,        \* infile.eof()
          toDistribute, \* _chunks_to_distribute
          loaded,     \* load_file has returned
          queue,      \* _chunk_buffer of the connection
          repeats,    \* chunks queued once more
          sndbuf,     \* units in the sender's socket buffer
          rcvbuf,     \* units in the receiver's
          closed,     \* the sender has closed the connection
          chunks,     \* _chunks of the client
          torn,       \* history: a recv returned other than one whole struct
          ended,      \* the client's recv returned 0
          saved       \* the file written, or None

None == <<0>>  \* no file: offsets start at 1

fileVars == <<file, pos, eof, toDistribute, loaded>>
socketVars == <<queue, repeats, sndbuf, rcvbuf, closed>>
clientVars == <<chunks, torn, ended, saved>>
vars == <<fileVars, socketVars, clientVars>>

NumChunks == Len(toDistribute)
Bounded == NumChunks < MaxChunks

-----------------------------------------------------------------------------
(***************************************************************************)
(* load_file: while (!infile.eof()).  A file that could not be opened has  *)
(* its failbit set: read does nothing, and eof never comes.                *)
(***************************************************************************)
ReadChunk ==
  /\ ~loaded /\ ~eof /\ Bounded
  /\ LET n == IF file.readable THEN Count(file.size, pos) ELSE 0
     IN /\ toDistribute' = Append(toDistribute, Chunk(NumChunks, pos, n))
        /\ pos' = pos + n
  /\ eof' = (file.readable /\ EofAfter(file.size, pos))
  /\ UNCHANGED <<file, loaded, socketVars, clientVars>>

\* The chunks go to the one client there is, by send_chunk.
FileLoaded ==
  /\ ~loaded /\ eof
  /\ loaded' = TRUE
  /\ queue' = toDistribute
  /\ UNCHANGED <<file, pos, eof, toDistribute, repeats, sndbuf, rcvbuf, closed,
                 clientVars>>

\* A chunk is asked for and sent again.
SendAgain ==
  /\ loaded /\ ~closed /\ repeats < MaxRepeats
  /\ \E k \in 1 .. NumChunks : queue' = Append(queue, toDistribute[k])
  /\ repeats' = repeats + 1
  /\ UNCHANGED <<fileVars, sndbuf, rcvbuf, closed, clientVars>>

-----------------------------------------------------------------------------
(***************************************************************************)
(* can_write_TCP is called when the socket has room for SendLowWater: the  *)
(* kernel's default of 2048 bytes, more than a struct.  send takes what    *)
(* there is room for; whatever it took, the chunk is popped.               *)
(***************************************************************************)
SendLowWater == Units

Struct(c) == [k \in 1 .. Units |-> <<c, k>>]
Free == Room - Len(sndbuf)

CanWriteTCP ==
  /\ ~closed /\ queue # << >> /\ Free >= SendLowWater
  /\ LET took == IF Free < Units THEN Free ELSE Units
     IN sndbuf' = sndbuf \o SubSeq(Struct(Head(queue)), 1, took)
  /\ queue' = Tail(queue)
  /\ UNCHANGED <<fileVars, repeats, rcvbuf, closed, clientVars>>

\* The network.
Carry ==
  /\ sndbuf # << >>
  /\ rcvbuf' = Append(rcvbuf, Head(sndbuf))
  /\ sndbuf' = Tail(sndbuf)
  /\ UNCHANGED <<fileVars, queue, repeats, closed, clientVars>>

\* The server ends; what is still in _chunk_buffer is lost, what is in the
\* socket buffer is not.
Close ==
  /\ ~closed
  /\ closed' = TRUE
  /\ queue' = << >>
  /\ UNCHANGED <<fileVars, repeats, sndbuf, rcvbuf, clientVars>>

-----------------------------------------------------------------------------
(***************************************************************************)
(* The client's socket is ready for reading at SO_RCVLOWAT, which          *)
(* configure_tcp sets to the length of a struct, or at the end of the      *)
(* stream.  With the variant, it is left at its default.                   *)
(***************************************************************************)
DefaultRcvLowat == 1
RcvLowat == Units

EndOfStream == closed /\ sndbuf = << >>
Readable == Len(rcvbuf) >= RcvLowat \/ EndOfStream
Whole(s) == Len(s) = Units /\ \A k \in DOMAIN s : s[k] = <<s[1][1], k>>

\* The client knows the number of chunks by its registration.
Complete(map) == DOMAIN map = 0 .. (NumChunks - 1)

\* received_chunk: a chunk that is there already is dropped, the last one to
\* come has the file saved.  What a part of a struct does is not followed.
ReceivedChunk(c) ==
  /\ chunks' = [i \in DOMAIN chunks \cup {c.id} |->
                  IF i \in DOMAIN chunks THEN chunks[i] ELSE c]
  /\ saved' = IF saved = None /\ Complete(chunks')
              THEN SaveFile(chunks', NumChunks) ELSE saved
  /\ UNCHANGED <<torn, ended>>

CanReadTCP ==
  /\ ~ended /\ ~torn /\ Readable
  /\ LET s == SubSeq(rcvbuf, 1, IF Len(rcvbuf) < Units THEN Len(rcvbuf) ELSE Units)
     IN /\ rcvbuf' = SubSeq(rcvbuf, Len(s) + 1, Len(rcvbuf))
        /\ \/ /\ s = << >>
              /\ ended' = TRUE
              /\ UNCHANGED <<chunks, torn, saved>>
           \/ s # << >> /\ Whole(s) /\ ReceivedChunk(s[1][1])
           \/ /\ s # << >> /\ ~Whole(s)
              /\ torn' = TRUE
              /\ UNCHANGED <<chunks, ended, saved>>
  /\ UNCHANGED <<fileVars, queue, repeats, sndbuf, closed>>

-----------------------------------------------------------------------------
Init ==
  /\ file \in [size : Sizes, readable : BOOLEAN]
  /\ pos = 0 /\ eof = FALSE
  /\ toDistribute = << >> /\ loaded = FALSE
  /\ queue = << >> /\ repeats = 0
  /\ sndbuf = << >> /\ rcvbuf = << >> /\ closed = FALSE
  /\ chunks = << >> /\ torn = FALSE /\ ended = FALSE
  /\ saved = None

Loading == ReadChunk \/ FileLoaded
Next == Loading \/ SendAgain \/ CanWriteTCP \/ Carry \/ Close \/ CanReadTCP

Spec == Init /\ [][Next]_vars

\* Both programs run, and the network carries what it is given.
Fairness ==
  WF_vars(Loading) /\ WF_vars(CanWriteTCP) /\ WF_vars(Carry) /\ WF_vars(CanReadTCP)

FairSpec == Spec /\ Fairness

-----------------------------------------------------------------------------
\* The values of the variables, but for the units' contents.
TypeOK ==
  /\ file \in [size : Nat, readable : BOOLEAN]
  /\ pos \in 0 .. file.size
  /\ eof \in BOOLEAN /\ loaded \in BOOLEAN /\ closed \in BOOLEAN
  /\ torn \in BOOLEAN /\ ended \in BOOLEAN
  /\ NumChunks <= MaxChunks
  /\ repeats \in 0 .. MaxRepeats
  /\ Len(sndbuf) <= Room
  /\ DOMAIN chunks \subseteq 0 .. (NumChunks - 1)

\* Every recv returns one whole struct or the end of the stream, however full
\* the sender's buffer was and however little of a chunk has arrived.
NeverTorn == ~torn

\* The file a client saves is the file the server loaded, whatever was sent
\* twice and whatever its size, multiples of ChunkSize included.
SavedAsLoaded == saved # None => saved = File(file.size)

\* load_file returns only for a file that could be opened: for any other it
\* makes empty chunks without end.  It then has made one chunk more than there
\* are full ones, an empty one if the size is a multiple of ChunkSize.
ChunkCount ==
  loaded => file.readable /\ NumChunks = file.size \div ChunkSize + 1

\* The chunks are as loaded, and they stay whole on their way.
ChunksConsistent == TypeOK /\ ChunkCount /\ NeverTorn

\* load_file returns if the file can be opened, also when its last read takes
\* exactly the last byte (if it cannot, ChunkCount says it never returns), and
\* unless the server ends before, the file then arrives.
Arrives == file.readable => <>(loaded /\ (saved # None \/ closed))
=============================================================================
