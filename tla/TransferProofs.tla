--------------------------- MODULE TransferProofs ----------------------------
(***************************************************************************)
(* Proofs about the file and its chunks on their way through the sockets,  *)
(* for every size of files, chunks, structs and socket buffers: load_file  *)
(* makes the chunks it should, every recv returns one whole struct, and    *)
(* the file saved is the one that was loaded.                              *)
(*                                                                         *)
(* The second rests on the stream from sender to receiver being whole      *)
(* structs at all times, wherever it is cut between the two buffers; the   *)
(* third on the chunks being consecutive pieces of the file.               *)
(*                                                                         *)
(* Last, this stream implements the channel of whole chunks of module      *)
(* ChunkChannel.                                                           *)
(***************************************************************************)
EXTENDS Transfer, BufferTheorems, WellFoundedInduction

Piece == [id : Nat, from : Nat, size : Nat]
Unit == Piece \X (1 .. Units)

\* Chunks are cut one after the other, and all but the last are full.
LoadInv ==
  /\ file \in [size : Nat, readable : BOOLEAN]
  /\ toDistribute \in Seq(Piece)
  /\ \A k \in 1 .. NumChunks : toDistribute[k].id = k - 1
  /\ eof \in BOOLEAN /\ loaded \in BOOLEAN
  /\ pos \in 0 .. file.size
  /\ ~file.readable => ~eof /\ pos = 0
  /\ file.readable /\ ~eof => pos = NumChunks * ChunkSize
  /\ eof => /\ NumChunks > 0
            /\ (NumChunks - 1) * ChunkSize <= file.size
            /\ file.size < NumChunks * ChunkSize
  /\ loaded => eof
  /\ NumChunks <= MaxChunks

\* A struct of chunk q is in stream s as a whole, from position j on.
StructAt(s, q, j) ==
  /\ j + Units - 1 <= Len(s)
  /\ \A r \in 1 .. Units : s[j + r - 1] = <<q, r>>

\* Position i of the stream is in a struct of one of the chunks.
InStruct(s, i, cs) == \E q \in cs, j \in 1 .. i : i - j < Units /\ StructAt(s, q, j)

\* Every unit of a stream is in a whole struct.
Framed(s, cs) == \A i \in 1 .. Len(s) : InStruct(s, i, cs)

StreamInv ==
  /\ closed \in BOOLEAN /\ torn = FALSE /\ ended \in BOOLEAN
  /\ repeats \in 0 .. MaxRepeats
  /\ queue \in Seq(Piece) /\ Range(queue) \subseteq Range(toDistribute)
  /\ sndbuf \in Seq(Unit) /\ rcvbuf \in Seq(Unit)
  /\ Len(sndbuf) <= Room
  /\ Framed(rcvbuf \o sndbuf, Range(toDistribute))
  /\ ~loaded => queue = << >> /\ sndbuf = << >> /\ rcvbuf = << >>
  /\ DOMAIN chunks \subseteq 0 .. (NumChunks - 1)

\* The inductive invariant.
TInv == LoadInv /\ StreamInv

LEMMA Sizing ==
  /\ ChunkSize \in Nat /\ ChunkSize > 0 /\ Units \in Nat /\ Units > 0
  /\ Room \in Nat /\ MaxRepeats \in Nat /\ MaxChunks \in Nat /\ Sizes \subseteq Nat
BY ChunkSizeAssumption, TransferAssumption

-----------------------------------------------------------------------------
(***************************************************************************)
(* Loading.                                                                *)
(***************************************************************************)
\* The number of chunks, from the bounds on the size.
LEMMA CountOfChunks ==
  ASSUME NEW n \in Nat, n > 0, NEW size \in Nat,
         (n - 1) * ChunkSize <= size, size < n * ChunkSize
  PROVE  n = size \div ChunkSize + 1
<1> DEFINE q == size \div ChunkSize
           m == n - 1
<1>1. /\ q \in Nat /\ ChunkSize * q <= size /\ size < ChunkSize * q + ChunkSize
      /\ m \in Nat /\ n = m + 1
  BY Sizing
<1>2. m * ChunkSize <= size /\ size < m * ChunkSize + ChunkSize
  BY <1>1, Sizing
<1> HIDE DEF q, m
<1>3. ASSUME NEW a \in Nat, NEW b \in Nat, a < b
      PROVE  a * ChunkSize + ChunkSize <= b * ChunkSize
  <2>1. PICK z \in Nat : b = a + 1 + z
    <3>1. b - a - 1 \in Nat /\ b = a + 1 + (b - a - 1)
      BY <1>3
    <3> QED
      BY <3>1
  <2>2. b * ChunkSize = a * ChunkSize + ChunkSize + z * ChunkSize /\ z * ChunkSize \in Nat
    BY <2>1, Sizing
  <2>3. a * ChunkSize \in Nat
    BY Sizing
  <2> QED
    BY <2>2, <2>3, Sizing
<1>4. m * ChunkSize \in Nat /\ q * ChunkSize \in Nat /\ ChunkSize * q = q * ChunkSize
  BY <1>1, Sizing
<1>5. ~ (m < q)
  <2>1. m < q => m * ChunkSize + ChunkSize <= q * ChunkSize
    BY <1>1, <1>3
  <2> QED
    BY <1>1, <1>2, <1>4, <2>1, Sizing
<1>6. ~ (q < m)
  <2>1. q < m => q * ChunkSize + ChunkSize <= m * ChunkSize
    BY <1>1, <1>3
  <2> QED
    BY <1>1, <1>2, <1>4, <2>1, Sizing
<1>7. n = q + 1
  BY <1>1, <1>5, <1>6
<1> QED
  BY <1>7 DEF q

LEMMA ReadChunkStep ==
  ASSUME TInv, ReadChunk
  PROVE  TInv'
<1> DEFINE n == IF file.readable THEN Count(file.size, pos) ELSE 0
           c == Chunk(NumChunks, pos, n)
<1>0. LoadInv /\ StreamInv
  BY DEF TInv
<1>1. /\ ~loaded /\ ~eof /\ NumChunks < MaxChunks
      /\ toDistribute' = Append(toDistribute, c)
      /\ pos' = pos + n
      /\ eof' = (file.readable /\ EofAfter(file.size, pos))
      /\ UNCHANGED <<file, loaded, queue, repeats, sndbuf, rcvbuf, closed, chunks, torn, ended>>
  BY DEF ReadChunk, Bounded, socketVars, clientVars
<1>2. /\ NumChunks \in Nat /\ pos \in Nat /\ pos <= file.size /\ file.size \in Nat
      /\ file.readable \in BOOLEAN
  BY <1>0 DEF LoadInv, NumChunks
<1>3. n \in Nat /\ pos + n <= file.size
  BY <1>2, Sizing DEF Count
<1>4. c \in Piece /\ c.id = NumChunks
  BY <1>2, <1>3 DEF Chunk, Piece
<1> HIDE DEF c
<1>5. /\ toDistribute' \in Seq(Piece) /\ NumChunks' = NumChunks + 1
      /\ \A k \in 1 .. NumChunks : toDistribute'[k] = toDistribute[k]
      /\ toDistribute'[NumChunks + 1] = c
      /\ Range(toDistribute) \subseteq Range(toDistribute')
  <2>1. toDistribute \in Seq(Piece)
    BY <1>0 DEF LoadInv
  <2>2. Range(toDistribute') = Range(toDistribute) \cup {c}
    BY <1>1, <1>4, <2>1, BufferRange
  <2> QED
    BY <1>1, <1>4, <2>1, <2>2, AppendProperties DEF NumChunks
<1>6. ASSUME NEW k \in 1 .. NumChunks' PROVE toDistribute'[k].id = k - 1
  <2>1. k \in 1 .. NumChunks \/ k = NumChunks + 1
    BY <1>2, <1>5
  <2>2. CASE k \in 1 .. NumChunks
    BY <1>0, <1>5, <2>2 DEF LoadInv
  <2>3. CASE k = NumChunks + 1
    <3>1. (NumChunks + 1) - 1 = NumChunks
      BY <1>2
    <3> QED
      BY <1>4, <1>5, <2>3, <3>1
  <2> QED
    BY <2>1, <2>2, <2>3
<1>7. /\ ~file.readable => ~eof' /\ pos' = 0
      /\ file.readable /\ ~eof' => pos' = NumChunks' * ChunkSize
      /\ eof' => /\ (NumChunks' - 1) * ChunkSize <= file.size
                 /\ file.size < NumChunks' * ChunkSize
  <2>1. (NumChunks + 1) * ChunkSize = NumChunks * ChunkSize + ChunkSize
    BY <1>2, Sizing
  <2>2. file.readable => pos = NumChunks * ChunkSize
    BY <1>0, <1>1 DEF LoadInv
  <2>3. NumChunks * ChunkSize \in Nat /\ (NumChunks + 1) - 1 = NumChunks
    BY <1>2, Sizing
  <2> DEFINE full == NumChunks * ChunkSize
             next == NumChunks' * ChunkSize
  <2>4. /\ next = full + ChunkSize /\ full \in Nat
        /\ file.readable => pos = full
        /\ (NumChunks' - 1) * ChunkSize = full
    BY <1>5, <2>1, <2>2, <2>3
  <2> HIDE DEF full, next
  <2>5. CASE file.readable
    <3>1. n = IF file.size - pos < ChunkSize THEN file.size - pos ELSE ChunkSize
      BY <2>5 DEF Count
    <3>2. eof' <=> file.size - pos < ChunkSize
      BY <1>1, <2>5 DEF EofAfter
    <3>3. ~eof' => pos' = next
      BY <1>1, <1>2, <2>4, <2>5, <3>1, <3>2, Sizing
    <3>4. eof' => full <= file.size /\ file.size < next
      BY <1>2, <2>4, <2>5, <3>2, Sizing
    <3> QED
      BY <2>4, <2>5, <3>3, <3>4 DEF next
  <2>6. CASE ~file.readable
    BY <1>0, <1>1, <2>6 DEF LoadInv
  <2> QED
    BY <2>5, <2>6
<1>8. LoadInv'
  <2>1. eof' \in BOOLEAN
    BY <1>1
  <2>2. pos' \in 0 .. file'.size
    BY <1>1, <1>2, <1>3
  <2>3. NumChunks' <= MaxChunks /\ NumChunks' > 0
    BY <1>1, <1>2, <1>5, Sizing
  <2> QED
    BY <1>0, <1>1, <1>5, <1>6, <1>7, <2>1, <2>2, <2>3 DEF LoadInv
<1>9. StreamInv'
  <2>1. DOMAIN chunks' \subseteq 0 .. (NumChunks' - 1)
    BY <1>0, <1>1, <1>2, <1>5 DEF StreamInv
  <2>2. Framed(rcvbuf \o sndbuf, Range(toDistribute'))
    BY <1>0, <1>5 DEF StreamInv, Framed, InStruct
  <2> QED
    BY <1>0, <1>1, <1>5, <2>1, <2>2 DEF StreamInv
<1> QED
  BY <1>8, <1>9 DEF TInv

LEMMA FileLoadedStep ==
  ASSUME TInv, FileLoaded
  PROVE  TInv'
<1>1. /\ eof /\ loaded' = TRUE /\ queue' = toDistribute
      /\ UNCHANGED <<file, pos, eof, toDistribute, repeats, sndbuf, rcvbuf, closed,
                     chunks, torn, ended>>
  BY DEF FileLoaded, clientVars
<1>2. LoadInv'
  BY <1>1 DEF TInv, LoadInv, NumChunks
<1>3. StreamInv'
  BY <1>1 DEF TInv, LoadInv, StreamInv, NumChunks
<1> QED
  BY <1>2, <1>3 DEF TInv

\* What is loaded stays as it is from then on.
LEMMA LoadFrame ==
  ASSUME TInv, UNCHANGED fileVars
  PROVE  /\ LoadInv' /\ NumChunks' = NumChunks
         /\ UNCHANGED <<file, pos, eof, toDistribute, loaded>>
BY DEF TInv, LoadInv, NumChunks, fileVars

LEMMA SendAgainStep ==
  ASSUME TInv, SendAgain
  PROVE  TInv'
<1>1. /\ repeats < MaxRepeats /\ repeats' = repeats + 1 /\ loaded
      /\ \E k \in 1 .. NumChunks : queue' = Append(queue, toDistribute[k])
      /\ UNCHANGED <<sndbuf, rcvbuf, closed, chunks, torn, ended>>
      /\ UNCHANGED fileVars
  BY DEF SendAgain, clientVars
<1>2. /\ LoadInv' /\ NumChunks' = NumChunks
      /\ UNCHANGED <<file, pos, eof, toDistribute, loaded>>
  BY <1>1, LoadFrame
<1>3. queue' \in Seq(Piece) /\ Range(queue') \subseteq Range(toDistribute)
  <2>1. PICK k \in 1 .. NumChunks : queue' = Append(queue, toDistribute[k])
    BY <1>1
  <2>2. toDistribute[k] \in Piece /\ toDistribute[k] \in Range(toDistribute)
    BY <2>1 DEF TInv, LoadInv, NumChunks, Range
  <2>3. queue \in Seq(Piece) /\ Range(queue) \subseteq Range(toDistribute)
    BY DEF TInv, StreamInv
  <2> QED
    BY <2>1, <2>2, <2>3, BufferRange
<1>4. repeats' \in 0 .. MaxRepeats
  BY <1>1, Sizing DEF TInv, StreamInv
<1>5. StreamInv'
  BY <1>1, <1>2, <1>3, <1>4 DEF TInv, StreamInv
<1> QED
  BY <1>2, <1>5 DEF TInv

-----------------------------------------------------------------------------
(***************************************************************************)
(* The stream.                                                             *)
(***************************************************************************)
\* A struct written behind a stream of whole structs.
LEMMA StructWritten ==
  ASSUME NEW cs, NEW s \in Seq(Unit), NEW p \in Piece, p \in cs, Framed(s, cs)
  PROVE  /\ Struct(p) \in Seq(Unit) /\ Len(Struct(p)) = Units
         /\ SubSeq(Struct(p), 1, Units) = Struct(p)
         /\ Framed(s \o Struct(p), cs)
<1> DEFINE t == Struct(p)
           st == s \o t
<1>1. t \in Seq(Unit) /\ Len(t) = Units /\ \A r \in 1 .. Units : t[r] = <<p, r>>
  BY Sizing DEF Struct, Unit
<1> HIDE DEF t
<1>2. SubSeq(t, 1, Units) = t
  BY <1>1, Sizing
<1>3. /\ Len(s) \in Nat /\ st \in Seq(Unit) /\ Len(st) = Len(s) + Units
      /\ \A i \in 1 .. Len(s) + Units :
           st[i] = IF i <= Len(s) THEN s[i] ELSE t[i - Len(s)]
  BY <1>1, ConcatProperties, LenProperties
<1> HIDE DEF st
<1>4. ASSUME NEW i \in 1 .. Len(st)
      PROVE  InStruct(st, i, cs)
  <2>1. CASE i <= Len(s)
    <3>1. InStruct(s, i, cs)
      <4>1. i \in 1 .. Len(s)
        BY <1>3, <2>1
      <4> QED
        BY <4>1 DEF Framed
    <3>2. PICK q \in cs, j \in 1 .. i : i - j < Units /\ StructAt(s, q, j)
      BY <3>1 DEF InStruct
    <3>3. ASSUME NEW r \in 1 .. Units
          PROVE  st[j + r - 1] = <<q, r>>
      <4>1. j + r - 1 \in 1 .. Len(s) + Units /\ j + r - 1 <= Len(s)
        BY <1>3, <3>2, Sizing DEF StructAt
      <4>2. st[j + r - 1] = s[j + r - 1]
        BY <1>3, <4>1
      <4> QED
        BY <3>2, <4>2 DEF StructAt
    <3>4. j + Units - 1 <= Len(st)
      BY <1>3, <3>2, Sizing DEF StructAt
    <3>5. StructAt(st, q, j)
      BY <3>3, <3>4 DEF StructAt
    <3> QED
      BY <3>2, <3>5 DEF InStruct
  <2>2. CASE i > Len(s)
    <3> DEFINE j == Len(s) + 1
    <3>1. j \in 1 .. i /\ i - j < Units /\ j + Units - 1 <= Len(st)
      BY <1>3, <2>2, Sizing
    <3>2. ASSUME NEW r \in 1 .. Units
          PROVE  st[j + r - 1] = <<p, r>>
      <4>1. /\ j + r - 1 \in 1 .. Len(s) + Units
            /\ ~ (j + r - 1 <= Len(s))
            /\ (j + r - 1) - Len(s) = r
        BY <1>3, Sizing
      <4> QED
        BY <1>1, <1>3, <4>1
    <3> HIDE DEF j
    <3>3. StructAt(st, p, j)
      BY <3>1, <3>2 DEF StructAt
    <3> QED
      BY <3>1, <3>3 DEF InStruct
  <2> QED
    BY <1>3, <2>1, <2>2
<1> QED
  BY <1>1, <1>2, <1>4 DEF Framed, st, t

\* What comes first in a stream is a whole struct, and behind it are whole
\* structs.
LEMMA StructRead ==
  ASSUME NEW cs, NEW s \in Seq(Unit), s # << >>, Framed(s, cs)
  PROVE  /\ Units <= Len(s)
         /\ \E p \in cs : \A r \in 1 .. Units : s[r] = <<p, r>>
         /\ SubSeq(s, Units + 1, Len(s)) \in Seq(Unit)
         /\ Framed(SubSeq(s, Units + 1, Len(s)), cs)
<1>1. Len(s) \in Nat /\ Len(s) > 0
  BY EmptySeq, LenProperties
<1>2. InStruct(s, 1, cs)
  <2>1. 1 \in 1 .. Len(s)
    BY <1>1
  <2> QED
    BY <2>1 DEF Framed
<1>3. PICK p \in cs, j \in 1 .. 1 : StructAt(s, p, j)
  BY <1>2 DEF InStruct
<1>4. Units <= Len(s)
  BY <1>1, <1>3, Sizing DEF StructAt
<1>5. ASSUME NEW r \in 1 .. Units PROVE s[r] = <<p, r>>
  <2>1. j + r - 1 = r
    BY Sizing
  <2> QED
    BY <1>3, <2>1 DEF StructAt
<1> DEFINE t == SubSeq(s, Units + 1, Len(s))
<1>6. /\ t \in Seq(Unit) /\ Len(t) = Len(s) - Units
      /\ \A i \in 1 .. Len(t) : t[i] = s[i + Units]
  BY <1>1, <1>4, Sizing
<1> HIDE DEF t
<1>7. ASSUME NEW i \in 1 .. Len(t)
      PROVE  InStruct(t, i, cs)
  <2>1. InStruct(s, i + Units, cs)
    <3>1. i + Units \in 1 .. Len(s)
      BY <1>1, <1>4, <1>6, Sizing
    <3> QED
      BY <3>1 DEF Framed
  <2>2. PICK q \in cs, k \in 1 .. i + Units :
          (i + Units) - k < Units /\ StructAt(s, q, k)
    BY <2>1 DEF InStruct
  <2>3. k > 1
    BY <2>2, Sizing
  <2>4. s[k] = <<q, 1>>
    <3>1. k + 1 - 1 = k /\ 1 \in 1 .. Units
      BY Sizing
    <3> QED
      BY <2>2, <3>1 DEF StructAt
  <2>5. k > Units
    <3>1. k \in 1 .. Units => s[k] = <<p, k>>
      BY <1>5
    <3>2. k \in 1 .. Units => k = 1
      BY <2>4, <3>1
    <3> QED
      BY <2>3, <3>2, Sizing
  <2> DEFINE l == k - Units
  <2>6. l \in 1 .. i /\ i - l < Units /\ l + Units - 1 <= Len(t)
    BY <1>1, <1>6, <2>2, <2>5, Sizing DEF StructAt
  <2>7. ASSUME NEW r \in 1 .. Units
        PROVE  t[l + r - 1] = <<q, r>>
    <3>1. l + r - 1 \in 1 .. Len(t) /\ (l + r - 1) + Units = k + r - 1
      BY <1>1, <1>6, <2>6, Sizing
    <3>2. t[l + r - 1] = s[k + r - 1]
      BY <1>6, <3>1
    <3> QED
      BY <2>2, <3>2 DEF StructAt
  <2> HIDE DEF l
  <2>8. StructAt(t, q, l)
    BY <2>6, <2>7 DEF StructAt
  <2> QED
    BY <2>6, <2>8 DEF InStruct
<1>8. Framed(t, cs)
  BY <1>7 DEF Framed
<1> QED
  BY <1>4, <1>5, <1>6, <1>8 DEF t

LEMMA CanWriteStep ==
  ASSUME TInv, CanWriteTCP
  PROVE  /\ TInv'
         /\ Head(queue) \in Piece
         /\ rcvbuf' \o sndbuf' = (rcvbuf \o sndbuf) \o Struct(Head(queue))
<1> DEFINE p == Head(queue)
<1>0. StreamInv
  BY DEF TInv
<1>1. queue # << >> /\ Free >= Units
      /\ queue' = Tail(queue) /\ UNCHANGED fileVars
      /\ UNCHANGED <<repeats, rcvbuf, closed, chunks, torn, ended>>
  BY DEF CanWriteTCP, SendLowWater, clientVars
<1>2. /\ LoadInv' /\ NumChunks' = NumChunks
      /\ UNCHANGED <<file, pos, eof, toDistribute, loaded>>
  BY <1>1, LoadFrame
<1>3. /\ p \in Piece /\ p \in Range(toDistribute)
      /\ Tail(queue) \in Seq(Piece) /\ Range(Tail(queue)) \subseteq Range(toDistribute)
  <2>1. queue \in Seq(Piece) /\ Range(queue) \subseteq Range(toDistribute)
    BY <1>0 DEF StreamInv
  <2> QED
    BY <1>1, <2>1, BufferRange
<1>4. /\ sndbuf \in Seq(Unit) /\ rcvbuf \in Seq(Unit) /\ rcvbuf \o sndbuf \in Seq(Unit)
      /\ Framed(rcvbuf \o sndbuf, Range(toDistribute)) /\ Len(sndbuf) \in Nat
  BY <1>0, ConcatProperties, LenProperties DEF StreamInv
<1> HIDE DEF p
<1>5. /\ Struct(p) \in Seq(Unit) /\ Len(Struct(p)) = Units
      /\ SubSeq(Struct(p), 1, Units) = Struct(p)
      /\ Framed((rcvbuf \o sndbuf) \o Struct(p), Range(toDistribute))
  BY <1>3, <1>4, StructWritten
<1>6. sndbuf' = sndbuf \o Struct(p)
  <2>1. (IF Free < Units THEN Free ELSE Units) = Units
    BY <1>1, <1>4, Sizing DEF Free
  <2>2. sndbuf' = sndbuf \o SubSeq(Struct(p), 1, IF Free < Units THEN Free ELSE Units)
    BY DEF CanWriteTCP, p
  <2> QED
    BY <1>5, <2>1, <2>2
<1>7. sndbuf' \in Seq(Unit) /\ Len(sndbuf') <= Room
  <2>1. sndbuf' \in Seq(Unit) /\ Len(sndbuf') = Len(sndbuf) + Units
    BY <1>4, <1>5, <1>6, ConcatProperties
  <2> QED
    BY <1>1, <1>4, <2>1, Sizing DEF Free
<1>8. rcvbuf \o (sndbuf \o Struct(p)) = (rcvbuf \o sndbuf) \o Struct(p)
  BY <1>4, <1>5, ConcatAssociative
<1>9. Framed(rcvbuf' \o sndbuf', Range(toDistribute'))
  BY <1>1, <1>2, <1>5, <1>6, <1>8
<1>10. loaded
  BY <1>0, <1>1 DEF StreamInv
<1>11. StreamInv'
  BY <1>0, <1>1, <1>2, <1>3, <1>7, <1>9, <1>10 DEF StreamInv
<1>12. rcvbuf' \o sndbuf' = (rcvbuf \o sndbuf) \o Struct(p)
  BY <1>1, <1>6, <1>8
<1> QED
  BY <1>2, <1>3, <1>11, <1>12 DEF TInv, p

LEMMA CarryStep ==
  ASSUME TInv, Carry
  PROVE  TInv' /\ rcvbuf' \o sndbuf' = rcvbuf \o sndbuf
<1>0. StreamInv
  BY DEF TInv
<1>1. /\ sndbuf # << >> /\ rcvbuf' = Append(rcvbuf, Head(sndbuf)) /\ sndbuf' = Tail(sndbuf)
      /\ UNCHANGED <<queue, repeats, closed, chunks, torn, ended>> /\ UNCHANGED fileVars
  BY DEF Carry, clientVars
<1>2. /\ LoadInv' /\ NumChunks' = NumChunks
      /\ UNCHANGED <<file, pos, eof, toDistribute, loaded>>
  BY <1>1, LoadFrame
<1>3. sndbuf \in Seq(Unit) /\ rcvbuf \in Seq(Unit)
  BY <1>0 DEF StreamInv
<1>4. /\ Head(sndbuf) \in Unit /\ Tail(sndbuf) \in Seq(Unit)
      /\ Len(Tail(sndbuf)) = Len(sndbuf) - 1 /\ Len(sndbuf) \in Nat
      /\ sndbuf = <<Head(sndbuf)>> \o Tail(sndbuf)
  BY <1>1, <1>3, HeadTailProperties, LenProperties
<1> DEFINE h == Head(sndbuf)
           t == Tail(sndbuf)
<1>5. Append(rcvbuf, h) \o t = rcvbuf \o sndbuf
  <2> HIDE DEF h, t
  <2>1. h \in Unit /\ t \in Seq(Unit) /\ <<h>> \in Seq(Unit) /\ sndbuf = <<h>> \o t
    BY <1>4 DEF h, t
  <2>2. Append(rcvbuf, h) = rcvbuf \o <<h>>
    BY <1>3, <2>1, AppendIsConcat
  <2>3. (rcvbuf \o <<h>>) \o t = rcvbuf \o (<<h>> \o t)
    BY <1>3, <2>1, ConcatAssociative
  <2> QED
    BY <2>1, <2>2, <2>3
<1>6. Framed(rcvbuf' \o sndbuf', Range(toDistribute'))
  BY <1>0, <1>1, <1>2, <1>5 DEF StreamInv
<1>7. /\ sndbuf' \in Seq(Unit) /\ rcvbuf' \in Seq(Unit) /\ Len(sndbuf') <= Room
  <2>1. Append(rcvbuf, h) \in Seq(Unit)
    BY <1>3, <1>4, BufferRange
  <2>2. Len(t) <= Room
    BY <1>0, <1>4, Sizing DEF StreamInv
  <2> QED
    BY <1>1, <1>4, <2>1, <2>2
<1>8. loaded
  BY <1>0, <1>1 DEF StreamInv
<1>9. StreamInv'
  BY <1>0, <1>1, <1>2, <1>6, <1>7, <1>8 DEF StreamInv
<1> QED
  BY <1>1, <1>2, <1>5, <1>9 DEF TInv

LEMMA CloseStep ==
  ASSUME TInv, Close
  PROVE  TInv'
<1>1. /\ closed' = TRUE /\ queue' = << >>
      /\ UNCHANGED <<repeats, sndbuf, rcvbuf, chunks, torn, ended>> /\ UNCHANGED fileVars
  BY DEF Close, clientVars
<1>2. /\ LoadInv' /\ NumChunks' = NumChunks
      /\ UNCHANGED <<file, pos, eof, toDistribute, loaded>>
  BY <1>1, LoadFrame
<1>3. << >> \in Seq(Piece) /\ Range(<< >>) = {}
  BY DEF Range
<1>4. StreamInv'
  BY <1>1, <1>2, <1>3 DEF TInv, StreamInv
<1> QED
  BY <1>2, <1>4 DEF TInv

\* Cutting units off the first of two buffers cuts them off the stream.
LEMMA FrontCut ==
  ASSUME NEW S, NEW a \in Seq(S), NEW b \in Seq(S), NEW n \in 0 .. Len(a)
  PROVE  SubSeq(a, n + 1, Len(a)) \o b = SubSeq(a \o b, n + 1, Len(a \o b))
<1> DEFINE ab == a \o b
           c == SubSeq(a, n + 1, Len(a))
           d == SubSeq(ab, n + 1, Len(ab))
           e == c \o b
<1>1. /\ Len(a) \in Nat /\ Len(b) \in Nat /\ n \in Nat /\ n <= Len(a)
      /\ ab \in Seq(S) /\ Len(ab) = Len(a) + Len(b)
      /\ \A i \in 1 .. Len(a) + Len(b) : ab[i] = IF i <= Len(a) THEN a[i] ELSE b[i - Len(a)]
  BY ConcatProperties, LenProperties
<1> HIDE DEF ab
<1>2. c \in Seq(S) /\ Len(c) = Len(a) - n /\ \A i \in 1 .. Len(a) - n : c[i] = a[i + n]
  BY <1>1
<1>3. d \in Seq(S) /\ Len(d) = Len(ab) - n /\ \A i \in 1 .. Len(ab) - n : d[i] = ab[i + n]
  BY <1>1
<1> HIDE DEF c, d
<1>4. /\ e \in Seq(S) /\ Len(e) = Len(c) + Len(b)
      /\ \A i \in 1 .. Len(c) + Len(b) : e[i] = IF i <= Len(c) THEN c[i] ELSE b[i - Len(c)]
  BY <1>2, ConcatProperties
<1> HIDE DEF e
<1>5. Len(e) = Len(d) /\ Len(e) = Len(a) - n + Len(b)
  BY <1>1, <1>2, <1>3, <1>4
<1>6. ASSUME NEW i \in 1 .. Len(e) PROVE e[i] = d[i]
  <2>1. i + n \in 1 .. Len(a) + Len(b) /\ i \in 1 .. Len(ab) - n /\ d[i] = ab[i + n]
    BY <1>1, <1>3, <1>5
  <2>2. CASE i <= Len(c)
    <3>1. i \in 1 .. Len(a) - n /\ i + n <= Len(a) /\ i \in 1 .. Len(c) + Len(b)
      BY <1>1, <1>2, <2>2
    <3>2. e[i] = c[i]
      BY <1>4, <2>2, <3>1
    <3> QED
      BY <1>1, <1>2, <2>1, <3>1, <3>2
  <2>3. CASE ~ (i <= Len(c))
    <3>1. e[i] = b[i - Len(c)] /\ ~ (i + n <= Len(a)) /\ i - Len(c) = (i + n) - Len(a)
      BY <1>1, <1>2, <1>4, <2>3
    <3> QED
      BY <1>1, <2>1, <3>1
  <2> QED
    BY <2>2, <2>3
<1>7. e = d
  BY <1>3, <1>4, <1>5, <1>6, SeqEqual
<1> QED
  BY <1>7 DEF ab, c, d, e

\* When the socket is ready for reading, what comes out is a whole struct of
\* one of the chunks, which is received; a stream that has ended has nothing
\* left.
LEMMA CanReadStep ==
  ASSUME TInv, CanReadTCP
  PROVE  /\ TInv'
         /\ \/ /\ rcvbuf \o sndbuf = << >> /\ closed /\ ended' = TRUE
               /\ UNCHANGED <<chunks, saved, rcvbuf, sndbuf>>
            \/ /\ loaded /\ rcvbuf \o sndbuf # << >>
               /\ \E k \in 1 .. NumChunks :
                    /\ \A r \in 1 .. Units : (rcvbuf \o sndbuf)[r] = <<toDistribute[k], r>>
                    /\ ReceivedChunk(toDistribute[k])
               /\ rcvbuf' \o sndbuf' =
                    SubSeq(rcvbuf \o sndbuf, Units + 1, Len(rcvbuf \o sndbuf))
<1> DEFINE stream == rcvbuf \o sndbuf
           n == IF Len(rcvbuf) < Units THEN Len(rcvbuf) ELSE Units
           s == SubSeq(rcvbuf, 1, n)
           cs == Range(toDistribute)
<1>0. LoadInv /\ StreamInv
  BY DEF TInv
<1>1. /\ Readable /\ UNCHANGED fileVars /\ UNCHANGED <<queue, repeats, sndbuf, closed>>
      /\ rcvbuf' = SubSeq(rcvbuf, Len(s) + 1, Len(rcvbuf))
      /\ \/ s = << >> /\ ended' = TRUE /\ UNCHANGED <<chunks, torn, saved>>
         \/ s # << >> /\ Whole(s) /\ ReceivedChunk(s[1][1])
         \/ s # << >> /\ ~Whole(s) /\ torn' = TRUE /\ UNCHANGED <<chunks, ended, saved>>
  BY DEF CanReadTCP
<1>2. /\ LoadInv' /\ NumChunks' = NumChunks
      /\ UNCHANGED <<file, pos, eof, toDistribute, loaded>>
  BY <1>1, LoadFrame
<1>3. /\ sndbuf \in Seq(Unit) /\ rcvbuf \in Seq(Unit) /\ Len(rcvbuf) \in Nat
      /\ stream \in Seq(Unit) /\ Framed(stream, cs)
      /\ Len(stream) = Len(rcvbuf) + Len(sndbuf) /\ Len(sndbuf) \in Nat
      /\ \A i \in 1 .. Len(rcvbuf) : stream[i] = rcvbuf[i]
  BY <1>0, ConcatProperties, LenProperties DEF StreamInv
<1>4. CASE Len(rcvbuf) >= Units
  <2>1. stream # << >> /\ rcvbuf # << >>
    BY <1>3, <1>4, EmptySeq, Sizing
  <2> HIDE DEF stream
  <2>2. /\ \E p \in cs : \A r \in 1 .. Units : stream[r] = <<p, r>>
        /\ Framed(SubSeq(stream, Units + 1, Len(stream)), cs)
    BY <1>3, <2>1, StructRead
  <2>3. PICK p \in cs : \A r \in 1 .. Units : stream[r] = <<p, r>>
    BY <2>2
  <2>4. n = Units
    BY <1>3, <1>4, Sizing
  <2>5. Len(s) = Units /\ \A r \in 1 .. Units : s[r] = rcvbuf[r]
    BY <1>3, <1>4, <2>4, Sizing
  <2>6. s \in Seq(Unit)
    BY <1>3, <1>4, <2>4, Sizing
  <2> HIDE DEF n, s
  <2>7. \A r \in 1 .. Units : s[r] = <<p, r>>
    <3>1. \A r \in 1 .. Units : r \in 1 .. Len(rcvbuf)
      BY <1>3, <1>4, Sizing
    <3> QED
      BY <1>3, <2>3, <2>5, <3>1
  <2>8. s # << >> /\ s[1][1] = p /\ Whole(s)
    <3>1. 1 \in 1 .. Units /\ DOMAIN s = 1 .. Units
      BY <2>5, <2>6, LenProperties, Sizing
    <3>2. s[1] = <<p, 1>> /\ s # << >>
      BY <2>5, <2>7, <3>1, Sizing
    <3>3. s[1][1] = p
      BY <3>2
    <3>4. \A k \in DOMAIN s : s[k] = <<s[1][1], k>>
      BY <2>7, <3>1, <3>3
    <3> QED
      BY <2>5, <3>2, <3>3, <3>4 DEF Whole
  <2>9. ReceivedChunk(p)
    BY <1>1, <2>8
  <2>10. /\ DOMAIN chunks' = DOMAIN chunks \cup {p.id}
         /\ torn' = FALSE /\ ended' = ended
    BY <1>0, <2>9 DEF ReceivedChunk, StreamInv
  <2>11. /\ p.id \in 0 .. (NumChunks - 1)
         /\ \E k \in 1 .. NumChunks : p = toDistribute[k]
    <3>1. PICK k \in 1 .. NumChunks : p = toDistribute[k]
      <4>1. toDistribute \in Seq(Piece)
        BY <1>0 DEF LoadInv
      <4>2. DOMAIN toDistribute = 1 .. NumChunks
        BY <4>1, LenProperties DEF NumChunks
      <4> QED
        BY <4>2 DEF Range
    <3>2. p.id = k - 1 /\ NumChunks \in Nat
      BY <1>0, <3>1 DEF LoadInv, NumChunks
    <3> QED
      BY <3>1, <3>2
  <2>12. rcvbuf' = SubSeq(rcvbuf, Units + 1, Len(rcvbuf)) /\ rcvbuf' \in Seq(Unit)
    <3>1. rcvbuf' = SubSeq(rcvbuf, Units + 1, Len(rcvbuf))
      BY <1>1, <2>5
    <3> QED
      BY <1>3, <1>4, <3>1, Sizing
  <2>13. rcvbuf' \o sndbuf = SubSeq(stream, Units + 1, Len(stream))
    <3>1. Units \in 0 .. Len(rcvbuf)
      BY <1>3, <1>4, Sizing
    <3> QED
      BY <1>3, <2>12, <3>1, FrontCut DEF stream
  <2>14. loaded
    BY <1>0, <2>1 DEF StreamInv
  <2>15. Framed(rcvbuf' \o sndbuf', Range(toDistribute'))
    BY <1>1, <1>2, <2>2, <2>13
  <2>16. DOMAIN chunks' \subseteq 0 .. (NumChunks' - 1)
    BY <1>0, <1>2, <2>10, <2>11 DEF StreamInv
  <2>17. StreamInv'
    BY <1>0, <1>1, <1>2, <2>10, <2>12, <2>14, <2>15, <2>16 DEF StreamInv
  <2>18. rcvbuf' \o sndbuf' = SubSeq(stream, Units + 1, Len(stream))
    BY <1>1, <2>13
  <2> QED
    BY <1>2, <2>1, <2>3, <2>9, <2>11, <2>14, <2>17, <2>18 DEF TInv, stream
<1>5. CASE ~ (Len(rcvbuf) >= Units)
  <2>1. sndbuf = << >> /\ closed
    BY <1>1, <1>5 DEF Readable, RcvLowat, EndOfStream
  <2>2. stream = rcvbuf
    BY <1>3, <2>1, ConcatEmptySeq
  <2>3. rcvbuf = << >>
    <3>1. rcvbuf # << >> => Units <= Len(rcvbuf)
      BY <1>3, <2>2, StructRead
    <3> QED
      BY <1>3, <1>5, <3>1, Sizing
  <2>4. s = << >> /\ rcvbuf' = << >>
    <3>1. Len(rcvbuf) = 0 /\ n = 0
      BY <2>3, Sizing
    <3>2. s = << >>
      BY <1>3, <2>3, <3>1
    <3> HIDE DEF s
    <3>3. Len(s) = 0
      BY <3>2
    <3>4. rcvbuf' = SubSeq(rcvbuf, 1, 0)
      BY <1>1, <3>1, <3>3
    <3> QED
      BY <2>3, <3>2, <3>4
  <2>5. ended' = TRUE /\ UNCHANGED <<chunks, torn, saved>>
    BY <1>1, <2>4
  <2>6. UNCHANGED <<rcvbuf, sndbuf>>
    BY <1>1, <2>3, <2>4
  <2>7. StreamInv'
    BY <1>0, <1>1, <1>2, <2>5, <2>6 DEF StreamInv
  <2> QED
    BY <1>2, <2>1, <2>2, <2>3, <2>5, <2>6, <2>7 DEF TInv
<1> QED
  BY <1>4, <1>5

-----------------------------------------------------------------------------
LEMMA TInvInit == Init => TInv
<1> SUFFICES ASSUME Init PROVE TInv
  OBVIOUS
<1>1. /\ file.size \in Nat /\ file.readable \in BOOLEAN
      /\ file \in [size : Nat, readable : BOOLEAN]
  BY Sizing DEF Init
<1>2. Range(<< >>) = {} /\ Len(<< >>) = 0 /\ 0 * ChunkSize = 0
  BY Sizing DEF Range
<1>3. LoadInv
  <2>1. /\ toDistribute = << >> /\ pos = 0 /\ eof = FALSE /\ loaded = FALSE /\ NumChunks = 0
    BY DEF Init, NumChunks
  <2>2. toDistribute \in Seq(Piece) /\ \A k \in 1 .. NumChunks : toDistribute[k].id = k - 1
    BY <2>1
  <2>3. pos \in 0 .. file.size /\ NumChunks <= MaxChunks /\ pos = NumChunks * ChunkSize
    BY <1>1, <1>2, <2>1, Sizing
  <2> QED
    BY <1>1, <2>1, <2>2, <2>3 DEF LoadInv
<1>4. Framed(rcvbuf \o sndbuf, Range(toDistribute))
  <2>1. rcvbuf \o sndbuf = << >>
    BY DEF Init
  <2> QED
    BY <2>1 DEF Framed
<1>5. StreamInv
  <2>1. /\ queue = << >> /\ repeats = 0 /\ sndbuf = << >> /\ rcvbuf = << >>
        /\ closed = FALSE /\ chunks = << >> /\ torn = FALSE /\ ended = FALSE
    BY DEF Init
  <2>2. DOMAIN chunks = {}
    BY <2>1
  <2>3. /\ queue \in Seq(Piece) /\ Range(queue) \subseteq Range(toDistribute)
        /\ sndbuf \in Seq(Unit) /\ rcvbuf \in Seq(Unit)
    BY <1>2, <2>1
  <2>4. repeats \in 0 .. MaxRepeats /\ Len(sndbuf) <= Room
    BY <1>2, <2>1, Sizing
  <2> QED
    BY <1>4, <2>1, <2>2, <2>3, <2>4 DEF StreamInv
<1> QED
  BY <1>3, <1>5 DEF TInv

LEMMA TInvStep == TInv /\ [Next]_vars => TInv'
<1> SUFFICES ASSUME TInv, [Next]_vars PROVE TInv'
  OBVIOUS
<1>1. CASE ReadChunk
  BY <1>1, ReadChunkStep
<1>2. CASE FileLoaded
  BY <1>2, FileLoadedStep
<1>3. CASE SendAgain
  BY <1>3, SendAgainStep
<1>4. CASE CanWriteTCP
  BY <1>4, CanWriteStep
<1>5. CASE Carry
  BY <1>5, CarryStep
<1>6. CASE Close
  BY <1>6, CloseStep
<1>7. CASE CanReadTCP
  BY <1>7, CanReadStep
<1>8. CASE UNCHANGED vars
  BY <1>8 DEF vars, fileVars, socketVars, clientVars, TInv, LoadInv, StreamInv, NumChunks
<1> QED
  BY <1>1, <1>2, <1>3, <1>4, <1>5, <1>6, <1>7, <1>8 DEF Next, Loading

\* Loading and the stream keep the inductive invariant: every unit between
\* the two programs belongs to a whole struct of a chunk that was loaded.
THEOREM Invariance == Spec => []TInv
BY TInvInit, TInvStep, PTL DEF Spec

\* load_file makes the right number of chunks from any file it can open, and
\* never returns for another; a recv returns one whole struct or the end of
\* the stream, for every size of the file, the structs and the buffers.
THEOREM ChunksStayWhole == Spec => []ChunksConsistent
<1>1. ASSUME TInv PROVE ChunksConsistent
  <2>1. LoadInv /\ StreamInv
    BY <1>1 DEF TInv
  <2>2. TypeOK
    BY <2>1 DEF LoadInv, StreamInv, TypeOK
  <2>3. ChunkCount
    <3> SUFFICES ASSUME loaded PROVE file.readable /\ NumChunks = file.size \div ChunkSize + 1
      BY DEF ChunkCount
    <3>1. /\ file.readable /\ file.size \in Nat /\ NumChunks \in Nat
          /\ NumChunks > 0 /\ (NumChunks - 1) * ChunkSize <= file.size
          /\ file.size < NumChunks * ChunkSize
      BY <2>1 DEF LoadInv, NumChunks
    <3> HIDE DEF NumChunks
    <3> QED
      BY <3>1, CountOfChunks
  <2>4. NeverTorn
    BY <2>1 DEF StreamInv, NeverTorn
  <2> QED
    BY <2>2, <2>3, <2>4 DEF ChunksConsistent
<1> QED
  BY <1>1, Invariance, PTL

-----------------------------------------------------------------------------
(***************************************************************************)
(* What is in the chunks and in the file.                                  *)
(***************************************************************************)
\* FlattenSeq appends one sequence after the other: what it makes is the last
\* of any sequence g of intermediate results.  Were the two recursions to
\* differ, they would at a least place, and there they do not.
LEMMA Flattened ==
  ASSUME NEW s, Len(s) \in Nat, Len(s) > 0, NEW g,
         g = [i \in 1 .. Len(s) |-> IF i = 1 THEN s[i] ELSE g[i - 1] \o s[i]]
  PROVE  FlattenSeq(s) = g[Len(s)]
<1> DEFINE Step(f) == [i \in 1 .. Len(s) |-> IF i = 1 THEN s[i] ELSE f[i - 1] \o s[i]]
           h == CHOOSE f : f = Step(f)
<1>1. h = Step(h)
  <2>1. g = Step(g)
    OBVIOUS
  <2> HIDE DEF Step
  <2> QED
    BY <2>1
<1>2. FlattenSeq(s) = h[Len(s)]
  BY DEF FlattenSeq
<1> HIDE DEF h
<1> DEFINE T == {i \in 1 .. Len(s) : h[i] # g[i]}
<1>3. T = {}
  <2>1. SUFFICES ASSUME T # {} PROVE FALSE
    OBVIOUS
  <2>2. T \subseteq Nat
    OBVIOUS
  <2>3. \E x \in T : \A y \in T : ~ (<<y, x>> \in OpToRel(<, Nat))
    <3> HIDE DEF T
    <3> QED
      BY <2>1, <2>2, NatLessThanWellFounded, WFMin
  <2>4. PICK x \in T : \A y \in T : ~ (<<y, x>> \in OpToRel(<, Nat))
    BY <2>3
  <2>5. \A y \in T : ~ (y < x)
    <3> SUFFICES ASSUME NEW y \in T, y < x PROVE FALSE
      OBVIOUS
    <3>1. <<y, x>> \in Nat \X Nat /\ <<y, x>>[1] < <<y, x>>[2]
      BY <2>2
    <3>2. <<y, x>> \in OpToRel(<, Nat)
      BY <3>1 DEF OpToRel
    <3> QED
      BY <2>4, <3>2
  <2>6. x \in 1 .. Len(s) /\ h[x] # g[x]
    OBVIOUS
  <2>7. CASE x = 1
    <3>1. h[1] = s[1] /\ g[1] = s[1]
      BY <1>1
    <3> QED
      BY <2>6, <2>7, <3>1
  <2>8. CASE x # 1
    <3>1. x - 1 \in 1 .. Len(s) /\ x - 1 < x
      BY <2>6, <2>8
    <3>2. h[x - 1] = g[x - 1]
      BY <2>5, <3>1
    <3>3. h[x] = h[x - 1] \o s[x] /\ g[x] = g[x - 1] \o s[x]
      BY <1>1, <2>6, <2>8
    <3> QED
      BY <2>6, <3>2, <3>3
  <2> QED
    BY <2>7, <2>8
<1>4. Len(s) \in 1 .. Len(s)
  OBVIOUS
<1>5. h[Len(s)] = g[Len(s)]
  BY <1>3, <1>4
<1> QED
  BY <1>2, <1>5

\* A file up to some place, and what comes next.
LEMMA FileGrows ==
  ASSUME NEW a \in Nat, NEW n \in Nat
  PROVE  File(a) \o [k \in 1 .. n |-> a + k] = File(a + n)
<1> DEFINE s == File(a)
           t == [k \in 1 .. n |-> a + k]
           u == File(a + n)
<1>1. /\ s \in Seq(Nat) /\ Len(s) = a /\ \A k \in 1 .. a : s[k] = k
      /\ t \in Seq(Nat) /\ Len(t) = n /\ \A k \in 1 .. n : t[k] = a + k
      /\ u \in Seq(Nat) /\ Len(u) = a + n /\ \A k \in 1 .. a + n : u[k] = k
  BY DEF File
<1> HIDE DEF s, t, u
<1>2. /\ s \o t \in Seq(Nat) /\ Len(s \o t) = a + n
      /\ \A k \in 1 .. a + n : (s \o t)[k] = IF k <= a THEN s[k] ELSE t[k - a]
  BY <1>1, ConcatProperties
<1>3. ASSUME NEW k \in 1 .. a + n PROVE (s \o t)[k] = u[k]
  <2>1. CASE k <= a
    <3>1. k \in 1 .. a
      BY <2>1
    <3> QED
      BY <1>1, <1>2, <2>1, <3>1
  <2>2. CASE ~ (k <= a)
    <3>1. k - a \in 1 .. n /\ a + (k - a) = k
      BY <2>2
    <3> QED
      BY <1>1, <1>2, <2>2, <3>1
  <2> QED
    BY <2>1, <2>2
<1>4. s \o t = u
  BY <1>1, <1>2, <1>3, SeqEqual
<1> QED
  BY <1>4 DEF s, t, u

\* save_file puts together what load_file cut: all chunks full but the last,
\* which has the rest.
LEMMA PutTogether ==
  ASSUME NEW map, NEW n \in Nat, n > 0, NEW size \in Nat,
         (n - 1) * ChunkSize <= size, size < n * ChunkSize,
         \A i \in 1 .. n :
           /\ map[i - 1].from = (i - 1) * ChunkSize
           /\ map[i - 1].size = IF i = n THEN size - (n - 1) * ChunkSize ELSE ChunkSize
  PROVE  SaveFile(map, n) = File(size)
<1> DEFINE Upto(i) == IF i = n THEN size ELSE i * ChunkSize
           w == [i \in 1 .. n |-> Written(map[i - 1])]
           g == [i \in 1 .. n |-> File(Upto(i))]
<1>1. /\ Len(w) = n /\ SaveFile(map, n) = FlattenSeq(w)
  BY DEF SaveFile
<1>2. \A i \in 1 .. n : w[i] = Written(map[i - 1]) /\ g[i] = File(Upto(i))
  OBVIOUS
<1>3. ASSUME NEW i \in 1 .. n
      PROVE  /\ Upto(i) \in Nat /\ map[i - 1].size \in Nat /\ map[i - 1].from \in Nat
             /\ Upto(i) = map[i - 1].from + map[i - 1].size
             /\ i = 1 => map[i - 1].from = 0
             /\ i # 1 => map[i - 1].from = Upto(i - 1)
  <2> DEFINE before == (i - 1) * ChunkSize
  <2>1. /\ before \in Nat /\ i * ChunkSize = before + ChunkSize
        /\ i = 1 => before = 0
        /\ i = n => (n - 1) * ChunkSize = before
        /\ map[i - 1].from = before
        /\ ChunkSize \in Nat
    BY Sizing
  <2>2. i # 1 => i - 1 \in 1 .. n /\ i - 1 # n
    OBVIOUS
  <2>3. i # 1 => Upto(i - 1) = before
    BY <2>2
  <2> HIDE DEF before
  <2>4. map[i - 1].size = IF i = n THEN size - before ELSE ChunkSize
    BY <2>1
  <2>5. Upto(i) = IF i = n THEN size ELSE before + ChunkSize
    BY <2>1
  <2>6. i = n => before <= size
    BY <2>1
  <2> QED
    BY <2>1, <2>3, <2>4, <2>5, <2>6
<1> HIDE DEF Upto
<1>4. ASSUME NEW i \in 1 .. n
      PROVE  g[i] = IF i = 1 THEN w[i] ELSE g[i - 1] \o w[i]
  <2> DEFINE c == map[i - 1]
  <2>1. /\ c.size \in Nat /\ c.from \in Nat
        /\ w[i] = [k \in 1 .. c.size |-> c.from + k]
        /\ g[i] = File(c.from + c.size)
    BY <1>2, <1>3 DEF Written
  <2>2. CASE i = 1
    <3>1. c.from = 0
      BY <1>3, <2>2
    <3> HIDE DEF c
    <3>2. w[i] = File(c.size) /\ g[i] = File(c.size)
      BY <2>1, <3>1 DEF File
    <3> QED
      BY <2>2, <3>2
  <2>3. CASE i # 1
    <3>1. i - 1 \in 1 .. n
      BY <2>3
    <3>2. c.from = Upto(i - 1)
      BY <1>3, <2>3
    <3>3. g[i - 1] = File(c.from)
      BY <1>2, <3>1, <3>2
    <3> HIDE DEF c
    <3>4. g[i - 1] \o w[i] = g[i]
      BY <2>1, <3>3, FileGrows
    <3> QED
      BY <2>3, <3>4
  <2> QED
    BY <2>2, <2>3
<1>5. g = [i \in 1 .. n |-> IF i = 1 THEN w[i] ELSE g[i - 1] \o w[i]]
  <2>1. DOMAIN g = 1 .. n /\ g = [i \in DOMAIN g |-> g[i]]
    OBVIOUS
  <2> HIDE DEF g, w
  <2> QED
    BY <1>4, <2>1
<1>6. n \in 1 .. n /\ g[n] = File(size)
  <2>1. n \in 1 .. n
    OBVIOUS
  <2>2. Upto(n) = size
    BY DEF Upto
  <2> QED
    BY <1>2, <2>1, <2>2
<1> HIDE DEF g, w
<1>7. FlattenSeq(w) = g[n]
  BY <1>1, <1>5, Flattened
<1> QED
  BY <1>1, <1>6, <1>7

\* What is in the chunks, on either side, and in the file that was saved.
ContentInv ==
  /\ file.readable => \A k \in 1 .. NumChunks :
       /\ toDistribute[k].from = (k - 1) * ChunkSize
       /\ toDistribute[k].size =
            IF eof /\ k = NumChunks THEN file.size - (NumChunks - 1) * ChunkSize
            ELSE ChunkSize
  /\ \A i \in DOMAIN chunks : chunks[i] = toDistribute[i + 1]
  /\ saved # None => saved = File(file.size)

LEMMA ContentRead ==
  ASSUME TInv, ContentInv, ReadChunk
  PROVE  ContentInv'
<1> DEFINE n == IF file.readable THEN Count(file.size, pos) ELSE 0
           c == Chunk(NumChunks, pos, n)
<1>1. /\ ~eof /\ toDistribute' = Append(toDistribute, c)
      /\ eof' = (file.readable /\ EofAfter(file.size, pos))
      /\ UNCHANGED <<file, chunks, saved>>
  BY DEF ReadChunk, clientVars
<1>2. /\ toDistribute \in Seq(Piece) /\ NumChunks \in Nat
      /\ file.readable => pos = NumChunks * ChunkSize
      /\ DOMAIN chunks \subseteq 0 .. (NumChunks - 1)
      /\ file.size \in Nat
  BY <1>1 DEF TInv, LoadInv, StreamInv, NumChunks
<1>3. c.from = pos /\ c.size = n
  BY DEF Chunk
<1> HIDE DEF c
<1>4. /\ NumChunks' = NumChunks + 1
      /\ \A k \in 1 .. NumChunks : toDistribute'[k] = toDistribute[k]
      /\ toDistribute'[NumChunks + 1] = c
  BY <1>1, <1>2, AppendProperties DEF NumChunks
<1>5. ASSUME file.readable, NEW k \in 1 .. NumChunks'
      PROVE  /\ toDistribute'[k].from = (k - 1) * ChunkSize
             /\ toDistribute'[k].size =
                  IF eof' /\ k = NumChunks' THEN file.size - (NumChunks' - 1) * ChunkSize
                  ELSE ChunkSize
  <2>1. CASE k \in 1 .. NumChunks
    <3>1. k # NumChunks'
      BY <1>2, <1>4, <2>1
    <3> QED
      BY <1>1, <1>4, <1>5, <2>1, <3>1 DEF ContentInv
  <2>2. CASE k = NumChunks + 1
    <3>1. k - 1 = NumChunks /\ NumChunks' - 1 = NumChunks /\ k = NumChunks'
      BY <1>2, <1>4, <2>2
    <3>2. toDistribute'[k] = c /\ pos = (k - 1) * ChunkSize
      BY <1>2, <1>4, <1>5, <2>2, <3>1
    <3>3. n = IF eof' THEN file.size - pos ELSE ChunkSize
      BY <1>1, <1>5 DEF Count, EofAfter
    <3> QED
      BY <1>3, <3>1, <3>2, <3>3
  <2> QED
    BY <1>2, <1>4, <2>1, <2>2
<1>6. ASSUME NEW i \in DOMAIN chunks PROVE chunks[i] = toDistribute'[i + 1]
  <2>1. i + 1 \in 1 .. NumChunks
    BY <1>2
  <2> QED
    BY <1>4, <2>1 DEF ContentInv
<1> QED
  BY <1>1, <1>5, <1>6 DEF ContentInv

LEMMA ContentReceived ==
  ASSUME TInv, ContentInv, CanReadTCP
  PROVE  ContentInv'
<1>1. UNCHANGED <<file, pos, eof, toDistribute, loaded>> /\ NumChunks' = NumChunks
  BY DEF CanReadTCP, fileVars, NumChunks
<1>2. CASE UNCHANGED <<chunks, saved>>
  BY <1>1, <1>2 DEF ContentInv
<1>3. ASSUME loaded, NEW k \in 1 .. NumChunks, ReceivedChunk(toDistribute[k])
      PROVE  ContentInv'
  <2>1. /\ eof /\ file.readable /\ file.size \in Nat /\ NumChunks \in Nat /\ NumChunks > 0
        /\ (NumChunks - 1) * ChunkSize <= file.size
        /\ file.size < NumChunks * ChunkSize
        /\ toDistribute[k].id = k - 1
    BY <1>3 DEF TInv, LoadInv, NumChunks
  <2>2. chunks' = [i \in DOMAIN chunks \cup {k - 1} |->
                     IF i \in DOMAIN chunks THEN chunks[i] ELSE toDistribute[k]]
    BY <1>3, <2>1 DEF ReceivedChunk
  <2>3. ASSUME NEW i \in DOMAIN chunks' PROVE chunks'[i] = toDistribute[i + 1]
    <3>1. CASE i \in DOMAIN chunks
      BY <2>2, <3>1 DEF ContentInv
    <3>2. CASE i \notin DOMAIN chunks
      <4>1. i = k - 1 /\ i + 1 = k
        BY <2>2, <3>2
      <4> QED
        BY <2>2, <3>2, <4>1
    <3> QED
      BY <3>1, <3>2
  <2>4. ASSUME saved' # None PROVE saved' = File(file.size)
    <3>1. CASE saved = None /\ Complete(chunks')
      <4>1. saved' = SaveFile(chunks', NumChunks)
        BY <1>3, <3>1 DEF ReceivedChunk
      <4>2. ASSUME NEW i \in 1 .. NumChunks
            PROVE  /\ chunks'[i - 1].from = (i - 1) * ChunkSize
                   /\ chunks'[i - 1].size =
                        IF i = NumChunks THEN file.size - (NumChunks - 1) * ChunkSize
                        ELSE ChunkSize
        <5>1. i - 1 \in DOMAIN chunks' /\ (i - 1) + 1 = i
          BY <2>1, <3>1 DEF Complete
        <5>2. chunks'[i - 1] = toDistribute[i]
          BY <2>3, <5>1
        <5> QED
          BY <2>1, <5>2 DEF ContentInv
      <4> HIDE DEF NumChunks
      <4>3. SaveFile(chunks', NumChunks) = File(file.size)
        BY <2>1, <4>2, PutTogether
      <4> QED
        BY <4>1, <4>3
    <3>2. CASE ~ (saved = None /\ Complete(chunks'))
      <4>1. saved' = saved
        BY <1>3, <3>2 DEF ReceivedChunk
      <4> QED
        BY <2>4, <4>1 DEF ContentInv
    <3> QED
      BY <3>1, <3>2
  <2> QED
    BY <1>1, <2>3, <2>4 DEF ContentInv
<1>4. \/ UNCHANGED <<chunks, saved>>
      \/ loaded /\ \E k \in 1 .. NumChunks : ReceivedChunk(toDistribute[k])
  BY CanReadStep
<1> QED
  BY <1>2, <1>3, <1>4

LEMMA ContentStep ==
  ASSUME TInv, ContentInv, [Next]_vars
  PROVE  ContentInv'
<1>1. ASSUME UNCHANGED <<file, eof, toDistribute, chunks, saved>> PROVE ContentInv'
  BY <1>1 DEF ContentInv, NumChunks
<1>2. CASE ReadChunk
  BY <1>2, ContentRead
<1>3. CASE FileLoaded
  BY <1>1, <1>3 DEF FileLoaded, clientVars
<1>4. CASE SendAgain
  BY <1>1, <1>4 DEF SendAgain, clientVars, fileVars
<1>5. CASE CanWriteTCP
  BY <1>1, <1>5 DEF CanWriteTCP, clientVars, fileVars
<1>6. CASE Carry
  BY <1>1, <1>6 DEF Carry, clientVars, fileVars
<1>7. CASE Close
  BY <1>1, <1>7 DEF Close, clientVars, fileVars
<1>8. CASE CanReadTCP
  BY <1>8, ContentReceived
<1>9. CASE UNCHANGED vars
  BY <1>1, <1>9 DEF vars, clientVars, fileVars
<1> QED
  BY <1>2, <1>3, <1>4, <1>5, <1>6, <1>7, <1>8, <1>9 DEF Next, Loading

\* The file a client saves is the one the server loaded, byte by byte: for
\* every size of the file, of the chunks, the structs and the buffers, and
\* whatever was sent again.
THEOREM SavedAsItWas == Spec => []SavedAsLoaded
<1>1. Init => ContentInv
  <2> SUFFICES ASSUME Init PROVE ContentInv
    OBVIOUS
  <2>1. NumChunks = 0 /\ DOMAIN chunks = {} /\ saved = None
    BY DEF Init, NumChunks
  <2> QED
    BY <2>1 DEF ContentInv
<1>2. ContentInv => SavedAsLoaded
  BY DEF ContentInv, SavedAsLoaded
<1>3. TInv /\ ContentInv /\ [Next]_vars => ContentInv'
  BY ContentStep
<1> QED
  BY <1>1, <1>2, <1>3, Invariance, PTL DEF Spec
-----------------------------------------------------------------------------
(***************************************************************************)
(* The stream as the channel of whole chunks that it implements.           *)
(***************************************************************************)
\* Stream s is made of the structs of the chunks in q.
Carries(s, q) ==
  /\ Len(s) = Len(q) * Units
  /\ \A i \in 1 .. Len(q), r \in 1 .. Units : s[(i - 1) * Units + r] = <<q[i], r>>

ChunksOf(s) == CHOOSE q \in Seq(Piece) : Carries(s, q)

\* What was written and has not been received, in whichever buffer it is.
InFlight == ChunksOf(rcvbuf \o sndbuf)

Channel == INSTANCE ChunkChannel WITH channel <- InFlight, received <- chunks

\* Where structs lie in a stream.
LEMMA Blocks ==
  ASSUME NEW i \in Nat, NEW n \in Nat
  PROVE  /\ i * Units \in Nat
         /\ i < n => i * Units + Units <= n * Units
         /\ (i + 1) * Units = i * Units + Units
         /\ i * Units = n * Units => i = n
<1>1. \A a \in Nat : a * Units \in Nat /\ (a + 1) * Units = a * Units + Units
  BY Sizing
<1>2. ASSUME NEW a \in Nat, NEW b \in Nat, a < b
      PROVE  a * Units + Units <= b * Units
  <2>1. PICK z \in Nat : b = a + 1 + z
    <3>1. b - a - 1 \in Nat /\ b = a + 1 + (b - a - 1)
      BY <1>2
    <3> QED
      BY <3>1
  <2>2. b * Units = a * Units + Units + z * Units /\ z * Units \in Nat /\ a * Units \in Nat
    BY <2>1, Sizing
  <2> QED
    BY <2>2, Sizing
<1>3. i * Units = n * Units => ~(i < n) /\ ~(n < i)
  BY <1>1, <1>2, Sizing
<1> QED
  BY <1>1, <1>2, <1>3

\* A stream has one reading.
LEMMA OneReading ==
  ASSUME NEW s, NEW q \in Seq(Piece), Carries(s, q)
  PROVE  ChunksOf(s) = q
<1>1. ASSUME NEW t \in Seq(Piece), Carries(s, t) PROVE t = q
  <2>1. Len(t) \in Nat /\ Len(q) \in Nat /\ Len(t) * Units = Len(q) * Units
    BY <1>1, LenProperties DEF Carries
  <2>2. Len(t) = Len(q)
    BY <2>1, Blocks
  <2>3. ASSUME NEW i \in 1 .. Len(q) PROVE t[i] = q[i]
    <3>1. 1 \in 1 .. Units
      BY Sizing
    <3>2. s[(i - 1) * Units + 1] = <<t[i], 1>> /\ s[(i - 1) * Units + 1] = <<q[i], 1>>
      BY <1>1, <2>2, <3>1 DEF Carries
    <3> QED
      BY <3>2
  <2> QED
    BY <1>1, <2>2, <2>3, SeqEqual
<1> QED
  BY <1>1 DEF ChunksOf

\* Writing a struct.
LEMMA OneMore ==
  ASSUME NEW s \in Seq(Unit), NEW q \in Seq(Piece), Carries(s, q), NEW p \in Piece
  PROVE  Carries(s \o Struct(p), Append(q, p)) /\ Append(q, p) \in Seq(Piece)
<1> DEFINE t == Struct(p)
           st == s \o t
           qp == Append(q, p)
           n == Len(q)
<1>1. t \in Seq(Unit) /\ Len(t) = Units /\ \A r \in 1 .. Units : t[r] = <<p, r>>
  BY Sizing DEF Struct, Unit
<1> HIDE DEF t
<1>2. /\ Len(s) \in Nat /\ Len(st) = Len(s) + Units
      /\ \A i \in 1 .. Len(s) + Units :
           st[i] = IF i <= Len(s) THEN s[i] ELSE t[i - Len(s)]
  BY <1>1, ConcatProperties, LenProperties
<1>3. /\ n \in Nat /\ qp \in Seq(Piece) /\ Len(qp) = n + 1
      /\ \A i \in 1 .. n : qp[i] = q[i]
      /\ qp[n + 1] = p
  BY AppendProperties, LenProperties
<1>4. Len(s) = n * Units /\ \A i \in 1 .. n, r \in 1 .. Units : s[(i - 1) * Units + r] = <<q[i], r>>
  BY DEF Carries
<1> HIDE DEF st, qp, n
<1>5. Len(st) = Len(qp) * Units
  <2>1. (n + 1) * Units = n * Units + Units
    BY <1>3, Blocks
  <2> QED
    BY <1>2, <1>3, <1>4, <2>1
<1>6. ASSUME NEW i \in 1 .. n + 1, NEW r \in 1 .. Units
      PROVE  st[(i - 1) * Units + r] = <<qp[i], r>>
  <2> DEFINE m == (i - 1) * Units
  <2>1. m \in Nat
    <3>1. i - 1 \in Nat
      BY <1>3
    <3> QED
      BY <3>1, Blocks
  <2>2. CASE i <= n
    <3>1. m + Units <= n * Units
      <4>1. i - 1 \in Nat /\ i - 1 < n
        BY <1>3, <2>2
      <4> QED
        BY <1>3, <4>1, Blocks
    <3>2. s[m + r] = <<q[i], r>> /\ qp[i] = q[i]
      BY <1>3, <1>4, <2>2
    <3> HIDE DEF m
    <3>3. m + r \in 1 .. Len(s) + Units /\ m + r <= Len(s)
      BY <1>2, <1>4, <2>1, <3>1, Sizing
    <3>4. st[m + r] = s[m + r]
      BY <1>2, <3>3
    <3> QED
      BY <3>2, <3>4 DEF m
  <2>3. CASE i = n + 1
    <3>1. m = n * Units
      <4>1. i - 1 = n
        BY <1>3, <2>3
      <4> QED
        BY <4>1
    <3> HIDE DEF m
    <3>2. m + r \in 1 .. Len(s) + Units /\ ~(m + r <= Len(s)) /\ (m + r) - Len(s) = r
      BY <1>2, <1>4, <2>1, <3>1, Sizing
    <3>3. st[m + r] = t[r]
      BY <1>2, <3>2
    <3> QED
      BY <1>1, <1>3, <2>3, <3>3 DEF m
  <2> QED
    BY <1>3, <2>2, <2>3
<1>7. Carries(st, qp)
  BY <1>3, <1>5, <1>6 DEF Carries
<1> QED
  BY <1>3, <1>7 DEF st, qp, t

\* Reading a struct.
LEMMA OneLess ==
  ASSUME NEW s \in Seq(Unit), NEW q \in Seq(Piece), Carries(s, q), s # << >>
  PROVE  /\ q # << >> /\ Tail(q) \in Seq(Piece)
         /\ \A r \in 1 .. Units : s[r] = <<Head(q), r>>
         /\ Carries(SubSeq(s, Units + 1, Len(s)), Tail(q))
<1> DEFINE t == SubSeq(s, Units + 1, Len(s))
           n == Len(q)
           tq == Tail(q)
<1>1. /\ Len(s) \in Nat /\ Len(s) > 0 /\ n \in Nat
      /\ Len(s) = n * Units
      /\ \A i \in 1 .. n, r \in 1 .. Units : s[(i - 1) * Units + r] = <<q[i], r>>
  BY EmptySeq, LenProperties DEF Carries
<1>2. n > 0 /\ q # << >>
  <2>1. 0 * Units = 0
    BY Sizing
  <2>2. n # 0
    BY <1>1, <2>1
  <2> QED
    BY <1>1, <2>2, EmptySeq
<1>3. /\ tq \in Seq(Piece) /\ Len(tq) = n - 1 /\ Head(q) = q[1]
      /\ \A i \in 1 .. n - 1 : tq[i] = q[i + 1]
  BY <1>2, HeadTailProperties
<1>4. n * Units = (n - 1) * Units + Units /\ (n - 1) * Units \in Nat
  <2>1. n - 1 \in Nat /\ (n - 1) + 1 = n
    BY <1>1, <1>2
  <2> QED
    BY <2>1, Blocks
<1>5. /\ Len(t) = Len(s) - Units
      /\ \A i \in 1 .. Len(s) - Units : t[i] = s[i + Units]
  BY <1>1, <1>4, Sizing
<1> HIDE DEF t, tq, n
<1>6. ASSUME NEW r \in 1 .. Units PROVE s[r] = <<Head(q), r>>
  <2>1. 1 \in 1 .. n /\ (1 - 1) * Units + r = r
    BY <1>1, <1>2, Sizing
  <2>2. s[(1 - 1) * Units + r] = <<q[1], r>>
    BY <1>1, <2>1
  <2> QED
    BY <1>3, <2>1, <2>2
<1>7. Len(t) = Len(tq) * Units
  BY <1>1, <1>3, <1>4, <1>5, Sizing
<1>8. ASSUME NEW i \in 1 .. n - 1, NEW r \in 1 .. Units
      PROVE  t[(i - 1) * Units + r] = <<tq[i], r>>
  <2> DEFINE m == (i - 1) * Units
  <2>1. i \in Nat /\ i - 1 \in Nat /\ (i - 1) + 1 = i /\ i < n /\ i + 1 \in 1 .. n
        /\ (i + 1) - 1 = i
    BY <1>1
  <2>2. m \in Nat /\ i * Units = m + Units
    BY <2>1, Blocks
  <2>3. i * Units + Units <= n * Units
    BY <1>1, <2>1, Blocks
  <2>4. s[i * Units + r] = <<q[i + 1], r>>
    BY <1>1, <2>1
  <2> HIDE DEF m
  <2>5. m + r \in 1 .. Len(s) - Units /\ (m + r) + Units = i * Units + r
    <3> DEFINE x == i * Units
    <3>1. x = m + Units /\ x + Units <= Len(s) /\ Len(s) \in Nat
      BY <1>1, <2>2, <2>3
    <3> HIDE DEF x
    <3>2. m + r \in 1 .. Len(s) - Units /\ (m + r) + Units = x + r
      BY <2>2, <3>1, Sizing
    <3> QED
      BY <3>2 DEF x
  <2>6. t[m + r] = s[i * Units + r]
    BY <1>5, <2>5
  <2> QED
    BY <1>3, <2>4, <2>6 DEF m
<1>9. Carries(t, tq)
  BY <1>3, <1>7, <1>8 DEF Carries
<1> QED
  BY <1>2, <1>3, <1>6, <1>9 DEF t, tq

\* The stream can be read as chunks.
Readings == \E q \in Seq(Piece) : Carries(rcvbuf \o sndbuf, q)

LEMMA Reading ==
  ASSUME Readings
  PROVE  InFlight \in Seq(Piece) /\ Carries(rcvbuf \o sndbuf, InFlight)
BY OneReading DEF Readings, InFlight

LEMMA NothingInFlight == ChunksOf(<< >>) = << >> /\ Carries(<< >>, << >>)
<1>1. Carries(<< >>, << >>)
  BY Sizing DEF Carries
<1>2. << >> \in Seq(Piece)
  OBVIOUS
<1> QED
  BY <1>1, <1>2, OneReading

\* A write puts a chunk behind those in flight.
LEMMA WriteOnChannel ==
  ASSUME TInv, Readings, CanWriteTCP
  PROVE  Readings' /\ Channel!Write
<1> DEFINE s == rcvbuf \o sndbuf
           q == InFlight
           p == Head(queue)
<1>1. q \in Seq(Piece) /\ Carries(s, q) /\ s \in Seq(Unit)
  <2>1. rcvbuf \in Seq(Unit) /\ sndbuf \in Seq(Unit)
    BY DEF TInv, StreamInv
  <2>2. s \in Seq(Unit)
    BY <2>1, ConcatProperties
  <2> QED
    BY <2>2, Reading
<1>2. p \in Piece /\ rcvbuf' \o sndbuf' = s \o Struct(p)
  BY CanWriteStep
<1> HIDE DEF s, q, p
<1>3. Carries(s \o Struct(p), Append(q, p)) /\ Append(q, p) \in Seq(Piece)
  BY <1>1, <1>2, OneMore
<1>4. ChunksOf(s \o Struct(p)) = Append(q, p)
  BY <1>3, OneReading
<1>5. InFlight' = Append(InFlight, Head(queue))
  BY <1>2, <1>4 DEF InFlight, q, p
<1>6. Readings'
  BY <1>2, <1>3 DEF Readings
<1>7. ~closed /\ queue # << >> /\ queue' = Tail(queue) /\ UNCHANGED <<closed, chunks, ended>>
  BY DEF CanWriteTCP, clientVars
<1> QED
  BY <1>5, <1>6, <1>7 DEF Channel!Write

\* The network moves units between the buffers, not chunks.
LEMMA CarryOnChannel ==
  ASSUME TInv, Readings, Carry
  PROVE  Readings' /\ UNCHANGED Channel!vars
<1>1. rcvbuf' \o sndbuf' = rcvbuf \o sndbuf
  BY CarryStep
<1>2. InFlight' = InFlight /\ Readings'
  BY <1>1 DEF InFlight, Readings
<1>3. UNCHANGED <<queue, closed, chunks, ended>>
  BY DEF Carry, clientVars
<1> QED
  BY <1>2, <1>3 DEF Channel!vars

\* A recv takes the first chunk in flight, or finds the end with none left.
LEMMA ReadOnChannel ==
  ASSUME TInv, Readings, CanReadTCP
  PROVE  Readings' /\ (Channel!Read \/ Channel!End)
<1> DEFINE s == rcvbuf \o sndbuf
           q == InFlight
<1>1. q \in Seq(Piece) /\ Carries(s, q) /\ s \in Seq(Unit)
  <2>1. rcvbuf \in Seq(Unit) /\ sndbuf \in Seq(Unit)
    BY DEF TInv, StreamInv
  <2>2. s \in Seq(Unit)
    BY <2>1, ConcatProperties
  <2> QED
    BY <2>2, Reading
<1>2. ~ended /\ UNCHANGED <<queue, closed>>
  BY DEF CanReadTCP
<1>3. \/ s = << >> /\ closed /\ ended' = TRUE /\ UNCHANGED <<chunks, rcvbuf, sndbuf>>
      \/ /\ s # << >>
         /\ \E p : /\ \A r \in 1 .. Units : s[r] = <<p, r>>
                   /\ ReceivedChunk(p)
         /\ rcvbuf' \o sndbuf' = SubSeq(s, Units + 1, Len(s))
  BY CanReadStep
<1>4. InFlight = q /\ InFlight = ChunksOf(s) /\ InFlight' = ChunksOf(rcvbuf' \o sndbuf')
  BY DEF InFlight
<1>5. (\E c \in Seq(Piece) : Carries(rcvbuf' \o sndbuf', c)) => Readings'
  BY DEF Readings
<1> HIDE DEF q
<1>6. CASE s = << >> /\ closed /\ ended' = TRUE /\ UNCHANGED <<chunks, rcvbuf, sndbuf>>
  <2>1. InFlight = << >> /\ InFlight' = InFlight
    BY <1>4, <1>6, NothingInFlight
  <2>2. Readings'
    <3>1. rcvbuf' = rcvbuf /\ sndbuf' = sndbuf
      BY <1>6
    <3> QED
      BY <3>1 DEF Readings
  <2> QED
    BY <1>2, <1>6, <2>1, <2>2 DEF Channel!End
<1> HIDE DEF s
<1>7. CASE /\ s # << >>
           /\ \E p : /\ \A r \in 1 .. Units : s[r] = <<p, r>>
                     /\ ReceivedChunk(p)
           /\ rcvbuf' \o sndbuf' = SubSeq(s, Units + 1, Len(s))
  <2>1. PICK p : (\A r \in 1 .. Units : s[r] = <<p, r>>) /\ ReceivedChunk(p)
    BY <1>7
  <2>2. /\ q # << >> /\ Tail(q) \in Seq(Piece)
        /\ \A r \in 1 .. Units : s[r] = <<Head(q), r>>
        /\ Carries(SubSeq(s, Units + 1, Len(s)), Tail(q))
    BY <1>1, <1>7, OneLess
  <2>3. p = Head(q)
    <3>1. 1 \in 1 .. Units
      BY Sizing
    <3>2. s[1] = <<p, 1>> /\ s[1] = <<Head(q), 1>>
      BY <2>1, <2>2, <3>1
    <3> QED
      BY <3>2
  <2>4. InFlight' = Tail(InFlight) /\ Readings'
    <3>1. ChunksOf(SubSeq(s, Units + 1, Len(s))) = Tail(q)
      BY <2>2, OneReading
    <3>2. Readings'
      BY <1>5, <1>7, <2>2
    <3> QED
      BY <1>4, <1>7, <3>1, <3>2
  <2>5. chunks' = Channel!With(chunks, Head(InFlight)) /\ ended' = ended
    BY <1>4, <2>1, <2>3 DEF ReceivedChunk, Channel!With
  <2>6. InFlight # << >>
    BY <1>4, <2>2
  <2> QED
    BY <1>2, <2>4, <2>5, <2>6 DEF Channel!Read
<1> QED
  BY <1>3, <1>6, <1>7

\* Where the stream is left alone.
LEMMA OthersOnChannel ==
  ASSUME TInv, Readings, ReadChunk \/ FileLoaded \/ SendAgain \/ Close \/ UNCHANGED vars
  PROVE  Readings' /\ (Channel!Queue \/ Channel!Close \/ UNCHANGED Channel!vars)
<1>1. UNCHANGED <<rcvbuf, sndbuf, chunks, ended>>
  BY DEF ReadChunk, FileLoaded, SendAgain, Close, vars, socketVars, clientVars
<1>2. InFlight' = InFlight /\ Readings'
  BY <1>1 DEF InFlight, Readings
<1>3. CASE ReadChunk \/ UNCHANGED vars
  <2>1. UNCHANGED <<queue, closed>>
    BY <1>3 DEF ReadChunk, vars, socketVars
  <2> QED
    BY <1>1, <1>2, <2>1 DEF Channel!vars
<1>4. CASE FileLoaded \/ SendAgain
  <2>1. UNCHANGED closed
    BY <1>4 DEF FileLoaded, SendAgain
  <2>2. Channel!IsPrefix(queue, queue')
    <3>0. queue \in Seq(Piece) /\ toDistribute \in Seq(Piece) /\ (~loaded => queue = << >>)
      BY DEF TInv, LoadInv, StreamInv
    <3>1. CASE FileLoaded
      <4>1. queue = << >> /\ queue' = toDistribute
        BY <3>0, <3>1 DEF FileLoaded
      <4> QED
        BY <3>0, <4>1 DEF Channel!IsPrefix
    <3>2. CASE SendAgain
      <4>1. PICK k \in 1 .. NumChunks : queue' = Append(queue, toDistribute[k])
        BY <3>2 DEF SendAgain
      <4>2. toDistribute[k] \in Piece
        BY <3>0 DEF NumChunks
      <4> DEFINE p == toDistribute[k]
                 t == Append(queue, p)
      <4>3. /\ t \in Seq(Piece) /\ Len(t) = Len(queue) + 1 /\ Len(queue) \in Nat
            /\ \A i \in 1 .. Len(queue) : t[i] = queue[i]
        BY <3>0, <4>2, AppendProperties, LenProperties
      <4> HIDE DEF t
      <4>4. SubSeq(queue, 1, Len(queue)) = SubSeq(t, 1, Len(queue))
        BY <3>0, <4>3
      <4> QED
        BY <4>1, <4>3, <4>4 DEF Channel!IsPrefix, t
    <3> QED
      BY <1>4, <3>1, <3>2
  <2> QED
    BY <1>1, <1>2, <2>1, <2>2 DEF Channel!Queue
<1>5. CASE Close
  BY <1>1, <1>2, <1>5 DEF Close, Channel!Close
<1> QED
  BY <1>3, <1>4, <1>5

\* The byte stream with its low-water marks is a channel of whole chunks: none
\* is lost, cut or overtaken, and the end is seen behind all that was written,
\* wherever the stream is cut between the two socket buffers and however large
\* they are.
THEOREM ChannelImplemented == Spec => Channel!Spec
<1>1. Init => Readings /\ Channel!Init
  <2> SUFFICES ASSUME Init PROVE Readings /\ Channel!Init
    OBVIOUS
  <2>1. rcvbuf \o sndbuf = << >>
    BY DEF Init
  <2>2. Readings /\ InFlight = << >>
    <3>1. << >> \in Seq(Piece)
      OBVIOUS
    <3> QED
      BY <2>1, <3>1, NothingInFlight DEF Readings, InFlight
  <2> QED
    BY <2>2 DEF Init, Channel!Init
<1>2. TInv /\ Readings /\ [Next]_vars => Readings' /\ [Channel!Next]_Channel!vars
  <2> SUFFICES ASSUME TInv, Readings, [Next]_vars
               PROVE  Readings' /\ [Channel!Next]_Channel!vars
    OBVIOUS
  <2>1. CASE CanWriteTCP
    BY <2>1, WriteOnChannel DEF Channel!Next
  <2>2. CASE Carry
    BY <2>2, CarryOnChannel
  <2>3. CASE CanReadTCP
    BY <2>3, ReadOnChannel DEF Channel!Next
  <2>4. CASE ReadChunk \/ FileLoaded \/ SendAgain \/ Close \/ UNCHANGED vars
    BY <2>4, OthersOnChannel DEF Channel!Next
  <2> QED
    BY <2>1, <2>2, <2>3, <2>4 DEF Next, Loading
<1> QED
  BY <1>1, <1>2, Invariance, PTL DEF Spec, Channel!Spec
=============================================================================
