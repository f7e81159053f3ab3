--------------------------- MODULE BufferTheorems ----------------------------
(***************************************************************************)
(* Lemmas about the sequences that serve as send buffers and queues in the *)
(* models: what a push, a pop, and cutting off the front do to the entries *)
(* of a sequence.  The proofs about clients and servers cite them.         *)
(***************************************************************************)
EXTENDS SequencesExt, SequenceTheorems, TLAPS

NoRepeats(s) == \A i, j \in DOMAIN s : s[i] = s[j] => i = j

\* An entry pushed to a buffer, and one taken from it.
LEMMA BufferRange ==
  ASSUME NEW S, NEW s \in Seq(S)
  PROVE  /\ \A e \in S : /\ Append(s, e) \in Seq(S)
                         /\ Range(Append(s, e)) = Range(s) \cup {e}
         /\ s # << >> => /\ Head(s) \in S /\ Head(s) \in Range(s)
                         /\ Tail(s) \in Seq(S) /\ Range(Tail(s)) \subseteq Range(s)
                         /\ Range(s) = {Head(s)} \cup Range(Tail(s))
<1>1. ASSUME NEW e \in S
      PROVE  Append(s, e) \in Seq(S) /\ Range(Append(s, e)) = Range(s) \cup {e}
  <2>1. /\ Append(s, e) \in Seq(S)
        /\ Len(Append(s, e)) = Len(s) + 1
        /\ \A i \in 1 .. Len(s) : Append(s, e)[i] = s[i]
        /\ Append(s, e)[Len(s) + 1] = e
    BY AppendProperties
  <2>2. /\ DOMAIN s = 1 .. Len(s) /\ Len(s) \in Nat
        /\ DOMAIN Append(s, e) = 1 .. (Len(s) + 1)
    BY <2>1, LenProperties
  <2>3. \A i \in DOMAIN Append(s, e) : i \in DOMAIN s \/ i = Len(s) + 1
    BY <2>2
  <2>4. \A i \in DOMAIN s : i \in DOMAIN Append(s, e)
    BY <2>2
  <2>5. Len(s) + 1 \in DOMAIN Append(s, e)
    BY <2>2
  <2> QED
    BY <2>1, <2>2, <2>3, <2>4, <2>5 DEF Range
<1>2. ASSUME s # << >>
      PROVE  /\ Head(s) \in S /\ Head(s) \in Range(s)
             /\ Tail(s) \in Seq(S) /\ Range(Tail(s)) \subseteq Range(s)
             /\ Range(s) = {Head(s)} \cup Range(Tail(s))
  <2>1. /\ Head(s) \in S /\ Head(s) = s[1] /\ 1 \in DOMAIN s
        /\ Tail(s) \in Seq(S)
        /\ Len(Tail(s)) = Len(s) - 1
        /\ \A i \in 1 .. Len(Tail(s)) : Tail(s)[i] = s[i + 1]
    BY <1>2, HeadTailProperties
  <2>2. \A i \in DOMAIN Tail(s) : i + 1 \in DOMAIN s /\ Tail(s)[i] = s[i + 1]
    BY <2>1
  <2>3. \A i \in DOMAIN s \ {1} : i - 1 \in DOMAIN Tail(s) /\ Tail(s)[i - 1] = s[i]
    BY <2>1
  <2>4. Head(s) \in Range(s)
    BY <2>1 DEF Range
  <2>5. Range(Tail(s)) \subseteq Range(s)
    BY <2>2 DEF Range
  <2>6. ASSUME NEW i \in DOMAIN s, i # 1 PROVE s[i] \in Range(Tail(s))
    BY <2>3, <2>6 DEF Range
  <2>7. Range(s) \subseteq {Head(s)} \cup Range(Tail(s))
    BY <2>1, <2>6 DEF Range
  <2> QED
    BY <2>1, <2>4, <2>5, <2>7
<1> QED
  BY <1>1, <1>2

\* A push does not change what comes out first, unless nothing was in the buffer.
LEMMA HeadOfAppend ==
  ASSUME NEW S, NEW s \in Seq(S), NEW e \in S
  PROVE  /\ Append(s, e) # << >>
         /\ s # << >> => Head(Append(s, e)) = Head(s)
         /\ s = << >> => Head(Append(s, e)) = e
<1>1. /\ Append(s, e) \in Seq(S)
      /\ Len(Append(s, e)) = Len(s) + 1 /\ Len(s) \in Nat
      /\ \A i \in 1 .. Len(s) : Append(s, e)[i] = s[i]
      /\ Append(s, e)[Len(s) + 1] = e
  BY AppendProperties, LenProperties
<1>2. Append(s, e) # << >> /\ Head(Append(s, e)) = Append(s, e)[1]
  <2>1. Append(s, e) # << >>
    BY AppendProperties
  <2> DEFINE t == Append(s, e)
  <2>2. t \in Seq(S) /\ t # << >>
    BY <1>1, <2>1
  <2> HIDE DEF t
  <2>3. Head(t) = t[1]
    BY <2>2, HeadTailProperties
  <2> QED
    BY <2>2, <2>3 DEF t
<1>3. s # << >> => Head(s) = s[1] /\ 1 \in 1 .. Len(s)
  BY HeadTailProperties
<1>4. s = << >> => Len(s) = 0
  OBVIOUS
<1> QED
  BY <1>1, <1>2, <1>3, <1>4

\* What is left of a sequence behind position i.
LEMMA RestOfSequence ==
  ASSUME NEW S, NEW s \in Seq(S), NEW i \in 0 .. Len(s)
  PROVE  LET rest == SubSeq(s, i + 1, Len(s)) IN
         /\ rest \in Seq(S) /\ Len(rest) = Len(s) - i
         /\ Range(rest) \subseteq Range(s)
         /\ Range(s) = {s[j] : j \in 1 .. i} \cup Range(rest)
         /\ NoRepeats(s) => NoRepeats(rest)
                            /\ \A j \in 1 .. i : s[j] \notin Range(rest)
<1> DEFINE rest == SubSeq(s, i + 1, Len(s))
<1>0. DOMAIN s = 1 .. Len(s)
  OBVIOUS
<1>1. Len(s) \in Nat /\ i \in Nat /\ i <= Len(s)
  OBVIOUS
<1>2. \A j \in i + 1 .. Len(s) : s[j] \in S
  BY <1>0, <1>1, ElementOfSeq
<1>3. /\ rest \in Seq(S)
      /\ Len(rest) = Len(s) - i
      /\ \A j \in 1 .. Len(s) - i : rest[j] = s[i + j]
  <2>1. rest \in Seq(S)
    BY <1>1, <1>2, SubSeqProperties
  <2>2. Len(rest) = IF i + 1 <= Len(s) THEN Len(s) - (i + 1) + 1 ELSE 0
    BY <1>1, <1>2, SubSeqProperties
  <2>3. \A j \in 1 .. Len(s) - (i + 1) + 1 : rest[j] = s[i + 1 + j - 1]
    BY <1>1, <1>2, SubSeqProperties
  <2> HIDE DEF rest
  <2>4. Len(rest) = Len(s) - i
    BY <1>1, <2>2
  <2>5. ASSUME NEW j \in 1 .. Len(s) - i PROVE rest[j] = s[i + j]
    <3>1. j \in 1 .. Len(s) - (i + 1) + 1 /\ i + 1 + j - 1 = i + j
      BY <1>1
    <3> QED
      BY <2>3, <3>1
  <2> QED
    BY <2>1, <2>4, <2>5
<1> HIDE DEF rest
<1>4. /\ DOMAIN rest = 1 .. Len(s) - i
      /\ Len(rest) = Len(s) - i
      /\ \A j \in DOMAIN rest : j + i \in DOMAIN s /\ rest[j] = s[j + i]
  <2>1. DOMAIN rest = 1 .. Len(s) - i
    BY <1>3
  <2>2. \A j \in 1 .. Len(s) - i : j + i \in 1 .. Len(s) /\ i + j = j + i
    BY <1>1
  <2> QED
    BY <1>0, <1>3, <2>1, <2>2
<1>5. Range(rest) \subseteq Range(s)
  BY <1>4 DEF Range
<1>6. Range(s) = {s[j] : j \in 1 .. i} \cup Range(rest)
  <2>1. ASSUME NEW j \in DOMAIN s, j \notin 1 .. i
        PROVE  s[j] \in Range(rest)
    <3>1. j - i \in DOMAIN rest /\ rest[j - i] = s[j]
      BY <1>0, <1>1, <1>4, <2>1
    <3> QED
      BY <3>1 DEF Range
  <2>2. \A j \in 1 .. i : j \in DOMAIN s
    BY <1>0, <1>1
  <2> QED
    BY <1>5, <2>1, <2>2 DEF Range
<1>7. ASSUME NoRepeats(s)
      PROVE  NoRepeats(rest) /\ \A j \in 1 .. i : s[j] \notin Range(rest)
  BY <1>0, <1>1, <1>4, <1>7 DEF NoRepeats, Range
<1> QED
  BY <1>3, <1>4, <1>5, <1>6, <1>7 DEF rest

\* The first i entries of a sequence.
LEMMA FrontOfSequence ==
  ASSUME NEW S, NEW s \in Seq(S), NEW i \in 0 .. Len(s)
  PROVE  LET front == SubSeq(s, 1, i) IN
         /\ front \in Seq(S) /\ Len(front) = i
         /\ Range(front) = {s[j] : j \in 1 .. i}
         /\ NoRepeats(s) => NoRepeats(front)
<1> DEFINE front == SubSeq(s, 1, i)
<1>0. DOMAIN s = 1 .. Len(s)
  OBVIOUS
<1>1. Len(s) \in Nat /\ i \in Nat /\ i <= Len(s)
  OBVIOUS
<1>2. \A j \in 1 .. i : s[j] \in S
  BY <1>0, <1>1, ElementOfSeq
<1>3. /\ front \in Seq(S)
      /\ Len(front) = IF 1 <= i THEN i - 1 + 1 ELSE 0
      /\ \A j \in 1 .. i - 1 + 1 : front[j] = s[1 + j - 1]
  BY <1>1, <1>2, SubSeqProperties
<1>4. /\ DOMAIN front = 1 .. i /\ Len(front) = i
      /\ \A j \in 1 .. i : j \in DOMAIN s /\ front[j] = s[j]
  BY <1>0, <1>1, <1>3
<1> HIDE DEF front
<1>5. Range(front) = {s[j] : j \in 1 .. i}
  BY <1>4 DEF Range
<1>6. NoRepeats(s) => NoRepeats(front)
  BY <1>4 DEF NoRepeats
<1> QED
  BY <1>3, <1>4, <1>5, <1>6 DEF front

\* Popping a sequence without repetitions.
LEMMA PopDistinct ==
  ASSUME NEW S, NEW s \in Seq(S), s # << >>, NoRepeats(s)
  PROVE  NoRepeats(Tail(s)) /\ Head(s) \notin Range(Tail(s))
<1>1. /\ Head(s) = s[1] /\ 1 \in DOMAIN s
      /\ Tail(s) \in Seq(S)
      /\ Len(Tail(s)) = Len(s) - 1
      /\ \A i \in 1 .. Len(Tail(s)) : Tail(s)[i] = s[i + 1]
  BY HeadTailProperties
<1>2. \A i \in DOMAIN Tail(s) :
        i + 1 \in DOMAIN s /\ Tail(s)[i] = s[i + 1] /\ i + 1 # 1 /\ i \in Nat
  BY <1>1
<1> QED
  BY <1>1, <1>2 DEF NoRepeats, Range

\* Two sequences, one behind the other.
LEMMA ConcatRange ==
  ASSUME NEW S, NEW s \in Seq(S), NEW t \in Seq(S)
  PROVE  s \o t \in Seq(S) /\ Range(s \o t) = Range(s) \cup Range(t)
<1>1. /\ s \o t \in Seq(S)
      /\ Len(s \o t) = Len(s) + Len(t)
      /\ \A i \in 1 .. Len(s) + Len(t) :
           (s \o t)[i] = IF i <= Len(s) THEN s[i] ELSE t[i - Len(s)]
  BY ConcatProperties
<1>2. Len(s) \in Nat /\ Len(t) \in Nat
  OBVIOUS
<1>3. DOMAIN s = 1 .. Len(s) /\ DOMAIN t = 1 .. Len(t)
  OBVIOUS
<1>4. DOMAIN (s \o t) = 1 .. Len(s) + Len(t)
  BY <1>1
<1>5. \A i \in DOMAIN s : i \in DOMAIN (s \o t) /\ (s \o t)[i] = s[i]
  BY <1>1, <1>2, <1>3, <1>4
<1>6. ASSUME NEW i \in DOMAIN t
      PROVE  i + Len(s) \in DOMAIN (s \o t) /\ (s \o t)[i + Len(s)] = t[i]
  <2>1. /\ i \in Nat /\ i >= 1 /\ i <= Len(t)
        /\ i + Len(s) \in 1 .. Len(s) + Len(t)
        /\ ~ (i + Len(s) <= Len(s)) /\ (i + Len(s)) - Len(s) = i
    BY <1>2, <1>3
  <2> QED
    BY <1>1, <1>4, <2>1
<1>7. ASSUME NEW i \in DOMAIN (s \o t), i \notin DOMAIN s
      PROVE  i - Len(s) \in DOMAIN t /\ (s \o t)[i] = t[i - Len(s)]
  <2>1. /\ i \in 1 .. Len(s) + Len(t) /\ ~ (i <= Len(s))
        /\ i - Len(s) \in 1 .. Len(t)
    BY <1>2, <1>3, <1>4, <1>7
  <2> QED
    BY <1>1, <1>3, <2>1
<1> DEFINE st == s \o t
<1> HIDE DEF st
<1>8. \A i \in DOMAIN st : st[i] \in Range(s) \cup Range(t)
  BY <1>5, <1>7 DEF Range, st
<1>9. /\ \A i \in DOMAIN s : s[i] \in Range(st)
      /\ \A i \in DOMAIN t : t[i] \in Range(st)
  BY <1>5, <1>6 DEF Range, st
<1>10. Range(st) = Range(s) \cup Range(t)
  BY <1>8, <1>9 DEF Range
<1> QED
  BY <1>1, <1>10 DEF st

\* Two sequences without repeats that share no entry.
LEMMA ConcatDistinct ==
  ASSUME NEW S, NEW s \in Seq(S), NEW t \in Seq(S),
         NoRepeats(s), NoRepeats(t), Range(s) \cap Range(t) = {}
  PROVE  NoRepeats(s \o t)
<1>1. /\ Len(s) \in Nat /\ Len(t) \in Nat
      /\ DOMAIN s = 1 .. Len(s) /\ DOMAIN t = 1 .. Len(t)
      /\ s \o t \in Seq(S) /\ Len(s \o t) = Len(s) + Len(t)
      /\ \A i \in 1 .. Len(s) + Len(t) :
           (s \o t)[i] = IF i <= Len(s) THEN s[i] ELSE t[i - Len(s)]
  BY ConcatProperties, LenProperties
<1> DEFINE st == s \o t
<1>2. DOMAIN st = 1 .. Len(s) + Len(t)
  BY <1>1
<1> HIDE DEF st
<1>3. \A i \in DOMAIN st : \/ i \in DOMAIN s /\ st[i] = s[i]
                           \/ /\ i \notin DOMAIN s /\ i - Len(s) \in DOMAIN t
                              /\ st[i] = t[i - Len(s)] /\ i \in Int
  BY <1>1, <1>2 DEF st
<1>4. \A i \in DOMAIN s, j \in DOMAIN t : s[i] # t[j]
  BY DEF Range
<1>5. ASSUME NEW i \in DOMAIN st, NEW j \in DOMAIN st, st[i] = st[j]
      PROVE  i = j
  <2>1. CASE i \in DOMAIN s
    <3>1. j \in DOMAIN s
      BY <1>3, <1>4, <1>5, <2>1
    <3> QED
      BY <1>3, <1>5, <2>1, <3>1 DEF NoRepeats
  <2>2. CASE i \notin DOMAIN s
    <3>1. j \notin DOMAIN s
      BY <1>3, <1>4, <1>5, <2>2
    <3>2. i - Len(s) = j - Len(s)
      BY <1>3, <1>5, <2>2, <3>1 DEF NoRepeats
    <3> QED
      BY <1>1, <1>3, <2>2, <3>1, <3>2
  <2> QED
    BY <2>1, <2>2
<1> QED
  BY <1>5 DEF NoRepeats, st

\* A sequence without its n-th entry.
LEMMA RemovedEntry ==
  ASSUME NEW S, NEW s \in Seq(S), NEW n \in DOMAIN s
  PROVE  /\ s[n] \in S /\ s[n] \in Range(s)
         /\ RemoveAt(s, n) \in Seq(S) /\ Range(RemoveAt(s, n)) \subseteq Range(s)
         /\ Range(s) = {s[n]} \cup Range(RemoveAt(s, n))
         /\ NoRepeats(s) => NoRepeats(RemoveAt(s, n))
<1>1. Len(s) \in Nat /\ n \in 1 .. Len(s)
  OBVIOUS
<1>2. s[n] \in S /\ s[n] \in Range(s)
  BY ElementOfSeq, <1>1 DEF Range
<1>3. n - 1 \in 0 .. Len(s) /\ n \in 0 .. Len(s)
  BY <1>1
<1> DEFINE front == SubSeq(s, 1, n - 1)
           rest == SubSeq(s, n + 1, Len(s))
<1>4. front \in Seq(S) /\ Range(front) = {s[j] : j \in 1 .. n - 1}
  BY <1>3, FrontOfSequence
<1>5. /\ rest \in Seq(S) /\ Range(rest) \subseteq Range(s)
      /\ Range(s) = {s[j] : j \in 1 .. n} \cup Range(rest)
  BY <1>3, RestOfSequence
<1>6. /\ \A j \in 1 .. n - 1 : j \in DOMAIN s /\ j \in 1 .. n
      /\ \A j \in 1 .. n : j \in 1 .. n - 1 \/ j = n
  BY <1>1
<1>7. Range(front) \subseteq Range(s)
  BY <1>4, <1>6 DEF Range
<1> HIDE DEF front, rest
<1>8. /\ front \o rest \in Seq(S)
      /\ Range(front \o rest) = Range(front) \cup Range(rest)
  BY <1>4, <1>5, ConcatRange
<1>10. Range(s) = {s[n]} \cup Range(front \o rest)
  BY <1>2, <1>4, <1>5, <1>6, <1>8
<1>9. ASSUME NoRepeats(s) PROVE NoRepeats(front \o rest)
  <2>1. NoRepeats(front)
    BY <1>3, <1>9, FrontOfSequence DEF front
  <2>2. NoRepeats(rest) /\ \A j \in 1 .. n : s[j] \notin Range(rest)
    BY <1>3, <1>9, RestOfSequence DEF rest
  <2>3. \A j \in 1 .. n - 1 : j \in 1 .. n
    BY <1>1
  <2>4. Range(front) \cap Range(rest) = {}
    BY <1>4, <2>2, <2>3
  <2> QED
    BY <1>4, <1>5, <2>1, <2>2, <2>4, ConcatDistinct
<1> QED
  BY <1>2, <1>8, <1>9, <1>10 DEF RemoveAt, front, rest
=============================================================================
