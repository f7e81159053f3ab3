--------------------------- MODULE LRUCacheProofs ---------------------------
(***************************************************************************)
(* Proofs about the chunk cache, for any keys, any supply of list nodes    *)
(* and any size of the cache.                                              *)
(*                                                                         *)
(* IteratorsValid is not inductive: an access could unlink the node of     *)
(* another key if two entries of the list were the same node, or if a      *)
(* listed node held a key whose iterator points elsewhere.  The inductive  *)
(* invariant says that key_map and the list are inverse to each other.     *)
(***************************************************************************)
EXTENDS LRUCache, FiniteSetTheorems, SequenceTheorems, TLAPS

NoRepeats(s) == \A i, j \in DOMAIN s : s[i] = s[j] => i = j

\* A listed node holds a cached key, and the iterator of that key is the node.
NodesKnown ==
  \A n \in Range(usage) : nodeKey[n] \in cacheMap /\ keyMap[nodeKey[n]] = n

Lengths == IsFiniteSet(cacheMap) /\ Len(usage) = Cardinality(cacheMap)

\* The inductive invariant.
IInv == TypeOK /\ IteratorsValid /\ NodesKnown /\ NoRepeats(usage) /\ Lengths

-----------------------------------------------------------------------------
(***************************************************************************)
(* Sequences.                                                              *)
(***************************************************************************)
\* A sequence without its i-th element: what erase leaves of a list.
LEMMA RemoveAtElements ==
  ASSUME NEW S, NEW s \in Seq(S), NEW i \in 1 .. Len(s)
  PROVE  /\ RemoveAt(s, i) \in Seq(S)
         /\ Len(RemoveAt(s, i)) = Len(s) - 1
         /\ \A j \in 1 .. Len(s) - 1 :
              RemoveAt(s, i)[j] = IF j < i THEN s[j] ELSE s[j + 1]
<1> DEFINE left == SubSeq(s, 1, i - 1)
           right == SubSeq(s, i + 1, Len(s))
<1>1. Len(s) \in Nat /\ \A j \in 1 .. Len(s) : s[j] \in S
  BY ElementOfSeq
<1>2. /\ left \in Seq(S) /\ Len(left) = i - 1
      /\ \A j \in 1 .. i - 1 : left[j] = s[j]
  <2>1. \A j \in 1 .. i - 1 : s[j] \in S
    BY <1>1
  <2>2. /\ left \in Seq(S)
        /\ Len(left) = IF 1 <= i - 1 THEN i - 1 - 1 + 1 ELSE 0
        /\ \A j \in 1 .. i - 1 - 1 + 1 : left[j] = s[1 + j - 1]
    BY <1>1, <2>1, SubSeqProperties
  <2> QED
    BY <1>1, <2>2
<1>3. /\ right \in Seq(S) /\ Len(right) = Len(s) - i
      /\ \A j \in 1 .. Len(s) - i : right[j] = s[i + j]
  <2>1. \A j \in i + 1 .. Len(s) : s[j] \in S
    BY <1>1
  <2>2. /\ right \in Seq(S)
        /\ Len(right) = IF i + 1 <= Len(s) THEN Len(s) - (i + 1) + 1 ELSE 0
        /\ \A j \in 1 .. Len(s) - (i + 1) + 1 : right[j] = s[i + 1 + j - 1]
    BY <1>1, <2>1, SubSeqProperties
  <2> QED
    BY <1>1, <2>2
<1> HIDE DEF left, right
<1>4. RemoveAt(s, i) = left \o right
  BY DEF RemoveAt, left, right
<1>5. /\ left \o right \in Seq(S)
      /\ Len(left \o right) = Len(left) + Len(right)
      /\ \A j \in 1 .. Len(left) + Len(right) :
           (left \o right)[j] = IF j <= Len(left) THEN left[j]
                                ELSE right[j - Len(left)]
  BY <1>2, <1>3, ConcatProperties
<1>6. ASSUME NEW j \in 1 .. Len(s) - 1
      PROVE  (left \o right)[j] = IF j < i THEN s[j] ELSE s[j + 1]
  <2>1. CASE j < i
    BY <1>1, <1>2, <1>3, <1>5, <2>1
  <2>2. CASE ~(j < i)
    <3>1. j - (i - 1) \in 1 .. Len(s) - i /\ i + (j - (i - 1)) = j + 1
      BY <1>1, <2>2
    <3>2. (left \o right)[j] = right[j - (i - 1)]
      BY <1>1, <1>2, <1>3, <1>5, <2>2
    <3> QED
      BY <1>3, <2>2, <3>1, <3>2
  <2> QED
    BY <2>1, <2>2
<1> QED
  BY <1>1, <1>2, <1>3, <1>4, <1>5, <1>6

LEMMA RemoveAtRange ==
  ASSUME NEW S, NEW s \in Seq(S), NEW i \in 1 .. Len(s), NoRepeats(s)
  PROVE  /\ Range(RemoveAt(s, i)) = Range(s) \ {s[i]}
         /\ NoRepeats(RemoveAt(s, i))
<1> DEFINE r == RemoveAt(s, i)
<1>1. Len(s) \in Nat /\ DOMAIN s = 1 .. Len(s)
  BY LenProperties
<1>2. /\ DOMAIN r = 1 .. Len(s) - 1
      /\ \A j \in 1 .. Len(s) - 1 : r[j] = IF j < i THEN s[j] ELSE s[j + 1]
  BY <1>1, RemoveAtElements, LenProperties
<1> HIDE DEF r
<1>3. ASSUME NEW j \in DOMAIN r
      PROVE  \E x \in DOMAIN s : x # i /\ r[j] = s[x] /\ x = IF j < i THEN j ELSE j + 1
  BY <1>1, <1>2
<1>4. ASSUME NEW x \in DOMAIN s, x # i PROVE s[x] \in Range(r)
  <2>1. CASE x < i
    <3>1. x \in DOMAIN r /\ r[x] = s[x]
      BY <1>1, <1>2, <2>1
    <3> QED
      BY <3>1 DEF Range
  <2>2. CASE x > i
    <3>1. x - 1 \in DOMAIN r /\ r[x - 1] = s[x]
      BY <1>1, <1>2, <2>2
    <3> QED
      BY <3>1 DEF Range
  <2> QED
    BY <1>1, <1>4, <2>1, <2>2
<1>5. Range(r) = Range(s) \ {s[i]}
  <2>1. Range(r) \subseteq Range(s) \ {s[i]}
    BY <1>1, <1>3 DEF Range, NoRepeats
  <2>2. Range(s) \ {s[i]} \subseteq Range(r)
    BY <1>4 DEF Range
  <2> QED
    BY <2>1, <2>2
<1>6. NoRepeats(r)
  <2> SUFFICES ASSUME NEW j \in DOMAIN r, NEW l \in DOMAIN r, r[j] = r[l]
               PROVE  j = l
    BY DEF NoRepeats
  <2>1. PICK x \in DOMAIN s : x # i /\ r[j] = s[x] /\ x = IF j < i THEN j ELSE j + 1
    BY <1>3
  <2>2. PICK y \in DOMAIN s : y # i /\ r[l] = s[y] /\ y = IF l < i THEN l ELSE l + 1
    BY <1>3
  <2>3. x = y
    BY <2>1, <2>2 DEF NoRepeats
  <2> QED
    BY <1>1, <1>2, <2>1, <2>2, <2>3
<1> QED
  BY <1>5, <1>6 DEF r

\* A sequence with a new first element: what push_front makes of a list.
LEMMA PushFrontElements ==
  ASSUME NEW S, NEW s \in Seq(S), NEW e \in S
  PROVE  /\ <<e>> \o s \in Seq(S)
         /\ Len(<<e>> \o s) = Len(s) + 1
         /\ \A j \in 1 .. Len(s) + 1 :
              (<<e>> \o s)[j] = IF j = 1 THEN e ELSE s[j - 1]
<1> DEFINE t == <<e>> \o s
<1>1. Len(s) \in Nat /\ <<e>> \in Seq(S)
  BY LenProperties
<1>2. /\ t \in Seq(S) /\ Len(t) = Len(<<e>>) + Len(s)
      /\ \A j \in 1 .. Len(<<e>>) + Len(s) :
           t[j] = IF j <= Len(<<e>>) THEN <<e>>[j] ELSE s[j - Len(<<e>>)]
  BY <1>1, ConcatProperties
<1>3. Len(<<e>>) = 1 /\ <<e>>[1] = e
  OBVIOUS
<1> QED
  BY <1>1, <1>2, <1>3

LEMMA PushFront ==
  ASSUME NEW S, NEW s \in Seq(S), NEW e \in S
  PROVE  /\ <<e>> \o s \in Seq(S)
         /\ Len(<<e>> \o s) = Len(s) + 1
         /\ \A j \in 1 .. Len(s) + 1 :
              (<<e>> \o s)[j] = IF j = 1 THEN e ELSE s[j - 1]
         /\ Range(<<e>> \o s) = Range(s) \cup {e}
         /\ NoRepeats(s) /\ e \notin Range(s) => NoRepeats(<<e>> \o s)
<1> DEFINE t == <<e>> \o s
<1>1. Len(s) \in Nat /\ DOMAIN s = 1 .. Len(s)
  BY LenProperties
<1>2. /\ t \in Seq(S) /\ Len(t) = Len(s) + 1
      /\ \A j \in 1 .. Len(s) + 1 : t[j] = IF j = 1 THEN e ELSE s[j - 1]
  BY PushFrontElements
<1>3. DOMAIN t = 1 .. Len(s) + 1
  BY <1>2, LenProperties
<1> HIDE DEF t
<1>4. Range(t) = Range(s) \cup {e}
  <2>1. \A j \in DOMAIN s : j + 1 \in DOMAIN t /\ t[j + 1] = s[j]
    BY <1>1, <1>2, <1>3
  <2>2. 1 \in DOMAIN t /\ t[1] = e
    BY <1>1, <1>2, <1>3
  <2>3. \A j \in DOMAIN t : j = 1 \/ (j - 1 \in DOMAIN s /\ t[j] = s[j - 1])
    BY <1>1, <1>2, <1>3
  <2> QED
    BY <2>1, <2>2, <2>3 DEF Range
<1>5. ASSUME NoRepeats(s), e \notin Range(s) PROVE NoRepeats(t)
  <2> SUFFICES ASSUME NEW j \in DOMAIN t, NEW l \in DOMAIN t, t[j] = t[l]
               PROVE  j = l
    BY DEF NoRepeats
  <2>1. \A x \in DOMAIN t \ {1} : x - 1 \in DOMAIN s /\ t[x] = s[x - 1] /\ t[x] # e
    BY <1>1, <1>2, <1>3, <1>5 DEF Range
  <2>2. t[1] = e
    BY <1>1, <1>2
  <2>3. CASE j = 1 \/ l = 1
    BY <2>1, <2>2, <2>3
  <2>4. CASE j # 1 /\ l # 1
    <3>1. j - 1 = l - 1
      BY <1>5, <2>1, <2>4 DEF NoRepeats
    <3> QED
      BY <1>3, <3>1, <1>1
  <2> QED
    BY <2>3, <2>4
<1> QED
  BY <1>2, <1>4, <1>5 DEF t

\* Dropping the last element is removing at the last position.
LEMMA FrontIsRemoveAt ==
  ASSUME NEW S, NEW s \in Seq(S), s # << >>
  PROVE  Len(s) \in 1 .. Len(s) /\ Front(s) = RemoveAt(s, Len(s)) /\ Last(s) = s[Len(s)]
<1>1. Len(s) \in Nat \ {0}
  BY EmptySeq
<1>2. \A j \in 1 .. Len(s) - 1 : s[j] \in S
  BY <1>1, ElementOfSeq
<1>3. SubSeq(s, 1, Len(s) - 1) \in Seq(S)
  BY <1>1, <1>2, SubSeqProperties
<1>4. SubSeq(s, Len(s) + 1, Len(s)) = << >>
  BY <1>1, SubSeqEmpty
<1> QED
  BY <1>1, <1>3, <1>4, ConcatEmptySeq DEF Front, Last, RemoveAt

-----------------------------------------------------------------------------
(***************************************************************************)
(* The parts of the two operations.                                        *)
(***************************************************************************)
\* The recency order stays a sequence of keys.
LEMMA UsedNowType ==
  ASSUME TypeOK, NEW k \in Key
  PROVE  UsedNow(useOrder, k) \in Seq(Key)
<1>1. useOrder \in Seq(Key) /\ DOMAIN useOrder = 1 .. Len(useOrder)
  BY LenProperties DEF TypeOK
<1>2. CASE k \in Range(useOrder)
  <2> DEFINE i == CHOOSE j \in DOMAIN useOrder : useOrder[j] = k
  <2>1. i \in 1 .. Len(useOrder)
    BY <1>1, <1>2 DEF Range
  <2> HIDE DEF i
  <2>2. RemoveAt(useOrder, i) \in Seq(Key)
    BY <1>1, <2>1, RemoveAtElements
  <2>3. <<k>> \o RemoveAt(useOrder, i) \in Seq(Key)
    BY <2>2, PushFront
  <2> QED
    BY <1>2, <2>3 DEF UsedNow, i
<1>3. CASE k \notin Range(useOrder)
  BY <1>1, <1>3, PushFront DEF UsedNow
<1> QED
  BY <1>2, <1>3

\* Erasing an iterator and pushing a node to the front, both of key k, leave
\* the iterators of the other keys and the nodes of the rest as they were.
LEMMA NodePushed ==
  ASSUME IInv, NEW k \in Key, NEW n \in Node,
         NEW rest \in Seq(Node), NEW kept \in SUBSET cacheMap,
         k \notin kept, n \notin Range(rest), NoRepeats(rest),
         \A q \in kept : keyMap[q] \in Range(rest),
         \A m \in Range(rest) : nodeKey[m] \in kept /\ keyMap[nodeKey[m]] = m,
         Len(rest) < MaxSize, Len(rest) = Cardinality(kept),
         NEW f, DOMAIN f = kept \/ DOMAIN f = kept \cup {k},
         \A q \in kept : f[q] = keyMap[q],
         cacheMap' = kept \cup {k}, usage' = <<n>> \o rest,
         nodeKey' = [nodeKey EXCEPT ![n] = k], keyMap' = Pointing(f, k, n),
         useOrder' \in Seq(Key)
  PROVE  IInv'
<1>1. /\ cacheMap \subseteq Key /\ nodeKey \in [Node -> Key]
      /\ \A q \in cacheMap : nodeKey[keyMap[q]] = q
      /\ IsFiniteSet(cacheMap)
  BY DEF IInv, TypeOK, IteratorsValid, Lengths
<1>2. Range(rest) \subseteq Node
  BY RangeOfSeq
<1>3. /\ usage' \in Seq(Node) /\ Len(usage') = Len(rest) + 1
      /\ Range(usage') = Range(rest) \cup {n}
      /\ NoRepeats(usage')
  BY PushFront
<1>4. /\ DOMAIN keyMap' = kept \cup {k}
      /\ keyMap'[k] = n
      /\ \A q \in kept : keyMap'[q] = keyMap[q]
  BY DEF Pointing
<1>5. keyMap' \in [DOMAIN keyMap' -> Node]
  <2>1. \A q \in kept : keyMap[q] \in Node
    BY <1>2
  <2> QED
    BY <1>4, <2>1 DEF Pointing
<1>6. /\ nodeKey' \in [Node -> Key] /\ nodeKey'[n] = k
      /\ \A m \in Range(rest) : nodeKey'[m] = nodeKey[m]
  BY <1>1, <1>2
<1>7. Len(rest) \in Nat
  BY LenProperties
<1>8. TypeOK'
  BY <1>1, <1>3, <1>5, <1>6, <1>7, MaxSizeAssumption DEF TypeOK
<1>9. IteratorsValid'
  <2>1. nodeKey'[keyMap'[k]] = k /\ keyMap'[k] \in Range(usage')
    BY <1>3, <1>4, <1>6
  <2>2. ASSUME NEW q \in kept
        PROVE  keyMap'[q] \in Range(usage') /\ nodeKey'[keyMap'[q]] = q
    BY <1>1, <1>3, <1>4, <1>6
  <2> QED
    BY <1>4, <2>1, <2>2 DEF IteratorsValid
<1>10. NodesKnown'
  <2>1. nodeKey'[n] \in cacheMap' /\ keyMap'[nodeKey'[n]] = n
    BY <1>4, <1>6
  <2>2. ASSUME NEW m \in Range(rest)
        PROVE  nodeKey'[m] \in cacheMap' /\ keyMap'[nodeKey'[m]] = m
    BY <1>4, <1>6
  <2> QED
    BY <1>3, <2>1, <2>2 DEF NodesKnown
<1>11. Lengths'
  <2>1. IsFiniteSet(kept)
    BY <1>1, FS_Subset
  <2>2. Cardinality(kept) \in Nat
    BY <2>1, FS_CardinalityType
  <2> QED
    BY <1>3, <2>1, <2>2, FS_AddElement DEF Lengths
<1> QED
  BY <1>3, <1>8, <1>9, <1>10, <1>11 DEF IInv

-----------------------------------------------------------------------------
(***************************************************************************)
(* The invariant.                                                          *)
(***************************************************************************)
LEMMA IInvInit == Init => IInv
<1> SUFFICES ASSUME Init PROVE IInv
  OBVIOUS
<1>1. Range(<< >>) = {} /\ NoRepeats(<< >>) /\ Len(<< >>) = 0
  BY DEF Range, NoRepeats
<1>2. TypeOK
  BY MaxSizeAssumption DEF Init, TypeOK
<1>3. IteratorsValid /\ NodesKnown
  BY <1>1 DEF Init, IteratorsValid, NodesKnown
<1>4. Lengths
  BY <1>1, FS_EmptySet DEF Init, Lengths
<1> QED
  BY <1>1, <1>2, <1>3, <1>4 DEF Init, IInv

LEMMA AccessKeeps ==
  ASSUME IInv, NEW k \in Key, AccessHit(k)
  PROVE  IInv'
<1>1. PICK i \in DOMAIN usage, n \in Node :
        /\ usage[i] = keyMap[k]
        /\ n \notin Range(RemoveAt(usage, i))
        /\ usage' = <<n>> \o RemoveAt(usage, i)
        /\ nodeKey' = [nodeKey EXCEPT ![n] = k]
        /\ keyMap' = Pointing(keyMap, k, n)
  BY DEF AccessHit
<1> DEFINE rest == RemoveAt(usage, i)
<1>2. /\ usage \in Seq(Node) /\ i \in 1 .. Len(usage) /\ Len(usage) \in Nat
      /\ Len(usage) <= MaxSize /\ NoRepeats(usage) /\ k \in cacheMap
  BY LenProperties DEF IInv, TypeOK, AccessHit
<1>3. rest \in Seq(Node) /\ Len(rest) = Len(usage) - 1
  BY <1>2, RemoveAtElements
<1>4. Range(rest) = Range(usage) \ {keyMap[k]} /\ NoRepeats(rest)
  BY <1>1, <1>2, RemoveAtRange
<1> HIDE DEF rest
<1>5. /\ \A q \in cacheMap : keyMap[q] \in Range(usage) /\ nodeKey[keyMap[q]] = q
      /\ \A m \in Range(usage) : nodeKey[m] \in cacheMap /\ keyMap[nodeKey[m]] = m
      /\ DOMAIN keyMap = cacheMap
      /\ IsFiniteSet(cacheMap) /\ Len(usage) = Cardinality(cacheMap)
  BY DEF IInv, IteratorsValid, NodesKnown, Lengths
<1>6. \A q \in cacheMap \ {k} : keyMap[q] \in Range(rest)
  BY <1>2, <1>4, <1>5
<1>7. \A m \in Range(rest) : nodeKey[m] \in cacheMap \ {k} /\ keyMap[nodeKey[m]] = m
  BY <1>4, <1>5
<1>8. Len(rest) = Cardinality(cacheMap \ {k})
  BY <1>2, <1>3, <1>5, FS_RemoveElement
<1>9. Len(rest) < MaxSize
  BY <1>2, <1>3, MaxSizeAssumption
<1>10. useOrder' \in Seq(Key)
  BY UsedNowType DEF AccessHit, IInv
<1>11. cacheMap' = (cacheMap \ {k}) \cup {k}
  BY <1>2 DEF AccessHit
<1>12. usage' = <<n>> \o rest /\ n \notin Range(rest)
  BY <1>1 DEF rest
<1>13. DOMAIN keyMap = (cacheMap \ {k}) \cup {k}
  BY <1>2, <1>5
<1> QED
  BY <1>1, <1>3, <1>4, <1>6, <1>7, <1>8, <1>9, <1>10, <1>11, <1>12, <1>13,
     NodePushed

\* What eviction leaves when the cache is full, and all there is otherwise.
LEMMA EvictionKeeps ==
  ASSUME IInv
  PROVE  /\ ListAfterEviction \in Seq(Node)
         /\ NoRepeats(ListAfterEviction)
         /\ Len(ListAfterEviction) < MaxSize
         /\ Len(ListAfterEviction) = Cardinality(MapAfterEviction)
         /\ MapAfterEviction \subseteq cacheMap
         /\ DOMAIN IteratorsAfterEviction = MapAfterEviction
         /\ \A q \in MapAfterEviction :
              /\ IteratorsAfterEviction[q] = keyMap[q]
              /\ keyMap[q] \in Range(ListAfterEviction)
         /\ \A m \in Range(ListAfterEviction) :
              nodeKey[m] \in MapAfterEviction /\ keyMap[nodeKey[m]] = m
<1>1. /\ usage \in Seq(Node) /\ Len(usage) \in Nat /\ Len(usage) <= MaxSize
      /\ NoRepeats(usage)
      /\ DOMAIN keyMap = cacheMap
      /\ \A q \in cacheMap : keyMap[q] \in Range(usage) /\ nodeKey[keyMap[q]] = q
      /\ \A m \in Range(usage) : nodeKey[m] \in cacheMap /\ keyMap[nodeKey[m]] = m
      /\ IsFiniteSet(cacheMap) /\ Len(usage) = Cardinality(cacheMap)
  BY LenProperties DEF IInv, TypeOK, IteratorsValid, NodesKnown, Lengths
<1>2. CASE ~IsFull
  BY <1>1, <1>2, MaxSizeAssumption
  DEF IsFull, ListAfterEviction, MapAfterEviction, IteratorsAfterEviction
<1>3. CASE IsFull
  <2>1. Len(usage) # 0 /\ usage # << >>
    BY <1>1, <1>3, MaxSizeAssumption DEF IsFull
  <2>2. /\ Len(usage) \in 1 .. Len(usage)
        /\ Front(usage) = RemoveAt(usage, Len(usage))
        /\ Last(usage) = usage[Len(usage)]
    BY <1>1, <2>1, FrontIsRemoveAt
  <2>3. Front(usage) \in Seq(Node) /\ Len(Front(usage)) = Len(usage) - 1
    BY <1>1, <2>2, RemoveAtElements
  <2>4. Range(Front(usage)) = Range(usage) \ {Last(usage)} /\ NoRepeats(Front(usage))
    BY <1>1, <2>2, RemoveAtRange
  <2>5. Last(usage) \in Range(usage)
    BY <1>1, <2>2, LenProperties DEF Range
  <2>6. EvictedKey \in cacheMap /\ keyMap[EvictedKey] = Last(usage)
    BY <1>1, <2>5 DEF EvictedKey
  <2>7. Cardinality(cacheMap \ {EvictedKey}) = Cardinality(cacheMap) - 1
    BY <1>1, <2>6, FS_RemoveElement
  <2>8. \A q \in cacheMap \ {EvictedKey} : keyMap[q] \in Range(Front(usage))
    BY <1>1, <2>4, <2>6
  <2>9. \A m \in Range(Front(usage)) :
          nodeKey[m] \in cacheMap \ {EvictedKey} /\ keyMap[nodeKey[m]] = m
    BY <1>1, <2>4, <2>6
  <2>10. /\ ListAfterEviction = Front(usage)
         /\ MapAfterEviction = cacheMap \ {EvictedKey}
         /\ IteratorsAfterEviction = [q \in cacheMap \ {EvictedKey} |-> keyMap[q]]
    BY <1>1, <1>3
    DEF ListAfterEviction, MapAfterEviction, IteratorsAfterEviction, Restrict
  <2> QED
    BY <1>1, <2>3, <2>4, <2>7, <2>8, <2>9, <2>10, MaxSizeAssumption
<1> QED
  BY <1>2, <1>3

LEMMA InsertKeeps ==
  ASSUME IInv, NEW k \in Key, Insert(k)
  PROVE  IInv'
<1>1. PICK n \in Node \ Range(ListAfterEviction) :
        /\ usage' = <<n>> \o ListAfterEviction
        /\ nodeKey' = [nodeKey EXCEPT ![n] = k]
        /\ keyMap' = Pointing(IteratorsAfterEviction, k, n)
  BY DEF Insert
<1>2. /\ k \notin MapAfterEviction
      /\ cacheMap' = MapAfterEviction \cup {k}
  BY EvictionKeeps DEF Insert
<1>3. useOrder' \in Seq(Key)
  BY UsedNowType DEF Insert, IInv
<1> QED
  BY <1>1, <1>2, <1>3, EvictionKeeps, NodePushed

LEMMA IInvStep == IInv /\ [Next]_vars => IInv'
<1>1. CASE UNCHANGED vars
  BY <1>1 DEF vars, IInv, TypeOK, IteratorsValid, NodesKnown, NoRepeats, Lengths
<1> QED
  BY <1>1, AccessKeeps, InsertKeeps DEF Next

\* In every reachable state key_map and the list are inverse to each other and
\* no longer than max_size (lru_cache.hpp, all of access, insert and evict).
THEOREM Invariance == Spec => []IInv
<1> QED
  BY IInvInit, IInvStep, PTL DEF Spec

\* The types of the cache, and its bound: the list never outgrows max_size.
THEOREM TypeCorrect == Spec => []TypeOK
<1>1. IInv => TypeOK
  BY DEF IInv
<1> QED
  BY <1>1, Invariance, PTL

\* No iterator in key_map dangles, so access() erases the node of its own key
\* (lru_cache.hpp, access and evict).
THEOREM IteratorsStayValid == Spec => []IteratorsValid
<1>1. IInv => IteratorsValid
  BY DEF IInv
<1> QED
  BY <1>1, Invariance, PTL

\* The list and the map name the same keys, each once.
THEOREM ListStaysMatched == Spec => []ListMatchesMap
<1>1. IInv => ListMatchesMap
  <2> SUFFICES ASSUME IInv PROVE ListMatchesMap
    OBVIOUS
  <2>1. /\ \A q \in cacheMap : keyMap[q] \in Range(usage) /\ nodeKey[keyMap[q]] = q
        /\ \A m \in Range(usage) : nodeKey[m] \in cacheMap
        /\ Len(usage) = Cardinality(cacheMap)
    BY DEF IInv, IteratorsValid, NodesKnown, Lengths
  <2>2. Range(KeysInUse) = {nodeKey[m] : m \in Range(usage)}
    BY DEF Range, KeysInUse
  <2> QED
    BY <2>1, <2>2 DEF ListMatchesMap
<1> QED
  BY <1>1, Invariance, PTL

\* All that access(), insert() and evict() rely on, for a cache of any size.
THEOREM StaysConsistent == Spec => []CacheConsistent
<1> QED
  BY TypeCorrect, IteratorsStayValid, ListStaysMatched, PTL DEF CacheConsistent

-----------------------------------------------------------------------------
(***************************************************************************)
(* The cache implements the list of keys of ChunkCache.                    *)
(***************************************************************************)
\* The keys of a list of nodes, read from the nodes.
LEMMA KeysOfNodes ==
  ASSUME NEW s \in Seq(Node), NEW f \in [Node -> Key], NEW ks,
         ks = [i \in DOMAIN s |-> f[s[i]]]
  PROVE  /\ ks \in Seq(Key) /\ Len(ks) = Len(s)
         /\ \A i \in 1 .. Len(s) : ks[i] = f[s[i]]
<1>1. /\ Len(s) \in Nat /\ DOMAIN s = 1 .. Len(s)
      /\ \A i \in 1 .. Len(s) : s[i] \in Node
  BY LenProperties, ElementOfSeq
<1>2. ks \in [1 .. Len(s) -> Key]
  BY <1>1
<1> QED
  BY <1>1, <1>2

\* The invariant, restated about the list of keys.
LEMMA KeysFacts ==
  ASSUME IInv
  PROVE  /\ KeysInUse \in Seq(Key) /\ Len(KeysInUse) = Len(usage)
         /\ \A i \in 1 .. Len(usage) : KeysInUse[i] = nodeKey[usage[i]]
         /\ Range(KeysInUse) = cacheMap
<1>1. usage \in Seq(Node) /\ nodeKey \in [Node -> Key]
  BY DEF IInv, TypeOK
<1>2. /\ KeysInUse \in Seq(Key) /\ Len(KeysInUse) = Len(usage)
      /\ \A i \in 1 .. Len(usage) : KeysInUse[i] = nodeKey[usage[i]]
  BY <1>1, KeysOfNodes DEF KeysInUse
<1>3. Range(KeysInUse) = {nodeKey[m] : m \in Range(usage)}
  BY DEF Range, KeysInUse
<1> QED
  BY <1>2, <1>3 DEF IInv, IteratorsValid, NodesKnown

\* Pushing a node that holds k pushes k to the list of keys.
LEMMA KeyPushed ==
  ASSUME IInv, IInv', NEW k \in Key, NEW n \in Node,
         NEW rest \in Seq(Node), NEW keys \in Seq(Key),
         n \notin Range(rest), Len(keys) = Len(rest),
         \A j \in 1 .. Len(rest) : keys[j] = nodeKey[rest[j]],
         usage' = <<n>> \o rest, nodeKey' = [nodeKey EXCEPT ![n] = k]
  PROVE  KeysInUse' = <<k>> \o keys
<1>1. /\ Len(rest) \in Nat /\ DOMAIN rest = 1 .. Len(rest)
      /\ \A j \in 1 .. Len(rest) : rest[j] \in Node /\ rest[j] # n
  BY LenProperties, ElementOfSeq DEF Range
<1>2. /\ Len(usage') = Len(rest) + 1
      /\ \A j \in 1 .. Len(rest) + 1 :
           usage'[j] = IF j = 1 THEN n ELSE rest[j - 1]
  BY PushFront
<1>3. /\ <<k>> \o keys \in Seq(Key) /\ Len(<<k>> \o keys) = Len(rest) + 1
      /\ \A j \in 1 .. Len(rest) + 1 :
           (<<k>> \o keys)[j] = IF j = 1 THEN k ELSE keys[j - 1]
  <2> DEFINE new == <<k>> \o keys
             one == <<k>>
  <2>1. /\ new \in Seq(Key) /\ Len(new) = Len(one) + Len(keys)
        /\ \A j \in 1 .. Len(one) + Len(keys) :
             new[j] = IF j <= Len(one) THEN one[j] ELSE keys[j - Len(one)]
    BY ConcatProperties
  <2>2. Len(one) = 1 /\ one[1] = k
    OBVIOUS
  <2> HIDE DEF new, one
  <2>3. /\ new \in Seq(Key) /\ Len(new) = Len(rest) + 1
        /\ \A j \in 1 .. Len(rest) + 1 : new[j] = IF j = 1 THEN k ELSE keys[j - 1]
    BY <1>1, <2>1, <2>2
  <2> QED
    BY <2>3 DEF new
<1>4. /\ nodeKey'[n] = k
      /\ \A j \in 1 .. Len(rest) : nodeKey'[rest[j]] = nodeKey[rest[j]]
  BY <1>1 DEF IInv, TypeOK
<1>5. /\ KeysInUse' \in Seq(Key) /\ Len(KeysInUse') = Len(usage')
      /\ \A j \in 1 .. Len(usage') : KeysInUse'[j] = nodeKey'[usage'[j]]
  <2>1. usage' \in Seq(Node) /\ nodeKey' \in [Node -> Key]
    BY DEF IInv, TypeOK
  <2>2. KeysInUse' = [j \in DOMAIN usage' |-> nodeKey'[usage'[j]]]
    BY DEF KeysInUse
  <2> QED
    BY <2>1, <2>2, KeysOfNodes
<1>6. ASSUME NEW j \in 1 .. Len(rest) + 1
      PROVE  KeysInUse'[j] = (<<k>> \o keys)[j]
  <2>1. CASE j = 1
    BY <1>2, <1>3, <1>4, <1>5, <2>1
  <2>2. CASE j # 1
    <3>1. j - 1 \in 1 .. Len(rest)
      BY <1>1, <2>2
    <3>2. KeysInUse'[j] = nodeKey'[rest[j - 1]]
      BY <1>2, <1>5, <2>2
    <3>3. (<<k>> \o keys)[j] = keys[j - 1]
      BY <1>3, <2>2
    <3> QED
      BY <1>4, <3>1, <3>2, <3>3
  <2> QED
    BY <2>1, <2>2
<1> QED
  BY <1>2, <1>3, <1>5, <1>6, SeqEqual

\* The keys of a list that loses its i-th node are the keys less the i-th.
LEMMA KeyRemoved ==
  ASSUME IInv, NEW i \in 1 .. Len(usage)
  PROVE  LET rest == RemoveAt(usage, i)
             keys == RemoveAt(KeysInUse, i)
         IN  /\ rest \in Seq(Node) /\ keys \in Seq(Key)
             /\ Len(keys) = Len(rest)
             /\ \A j \in 1 .. Len(rest) : keys[j] = nodeKey[rest[j]]
<1>1. usage \in Seq(Node) /\ Len(usage) \in Nat
  BY LenProperties DEF IInv, TypeOK
<1>2. /\ KeysInUse \in Seq(Key) /\ Len(KeysInUse) = Len(usage)
      /\ \A j \in 1 .. Len(usage) : KeysInUse[j] = nodeKey[usage[j]]
  BY KeysFacts
<1>3. /\ RemoveAt(usage, i) \in Seq(Node)
      /\ Len(RemoveAt(usage, i)) = Len(usage) - 1
      /\ \A j \in 1 .. Len(usage) - 1 :
           RemoveAt(usage, i)[j] = IF j < i THEN usage[j] ELSE usage[j + 1]
  BY <1>1, RemoveAtElements
<1>4. /\ RemoveAt(KeysInUse, i) \in Seq(Key)
      /\ Len(RemoveAt(KeysInUse, i)) = Len(usage) - 1
      /\ \A j \in 1 .. Len(usage) - 1 :
           RemoveAt(KeysInUse, i)[j] = IF j < i THEN KeysInUse[j] ELSE KeysInUse[j + 1]
  BY <1>2, RemoveAtElements
<1>5. ASSUME NEW j \in 1 .. Len(usage) - 1
      PROVE  RemoveAt(KeysInUse, i)[j] = nodeKey[RemoveAt(usage, i)[j]]
  <2>1. j \in 1 .. Len(usage) /\ j + 1 \in 1 .. Len(usage)
    BY <1>1
  <2> QED
    BY <1>2, <1>3, <1>4, <2>1
<1> QED
  BY <1>3, <1>4, <1>5

LEMMA AccessHits ==
  ASSUME IInv, IInv', NEW k \in Key, AccessHit(k)
  PROVE  Abstract!Hit(k)
<1>1. PICK i \in DOMAIN usage, n \in Node :
        /\ usage[i] = keyMap[k]
        /\ n \notin Range(RemoveAt(usage, i))
        /\ usage' = <<n>> \o RemoveAt(usage, i)
        /\ nodeKey' = [nodeKey EXCEPT ![n] = k]
  BY DEF AccessHit
<1>2. k \in cacheMap /\ nodeKey[keyMap[k]] = k
  BY DEF AccessHit, IInv, IteratorsValid
<1>3. i \in 1 .. Len(usage)
  BY LenProperties DEF IInv, TypeOK
<1>4. k \in Range(KeysInUse) /\ i \in DOMAIN KeysInUse /\ KeysInUse[i] = k
  BY <1>1, <1>2, <1>3, KeysFacts, LenProperties
<1>5. KeysInUse' = <<k>> \o RemoveAt(KeysInUse, i)
  <2> DEFINE rest == RemoveAt(usage, i)
             keys == RemoveAt(KeysInUse, i)
  <2>1. /\ rest \in Seq(Node) /\ keys \in Seq(Key) /\ Len(keys) = Len(rest)
        /\ \A j \in 1 .. Len(rest) : keys[j] = nodeKey[rest[j]]
    BY <1>3, KeyRemoved
  <2>2. usage' = <<n>> \o rest /\ n \notin Range(rest)
    BY <1>1
  <2> HIDE DEF rest, keys
  <2>3. KeysInUse' = <<k>> \o keys
    BY <1>1, <2>1, <2>2, KeyPushed
  <2> QED
    BY <2>3 DEF keys
<1> QED
  BY <1>4, <1>5
  DEF Abstract!Hit, Abstract!Cached, Abstract!Range, Range, Abstract!RemoveAt,
      RemoveAt

LEMMA InsertAdds ==
  ASSUME IInv, IInv', NEW k \in Key, Insert(k)
  PROVE  Abstract!Add(k)
<1>1. PICK n \in Node \ Range(ListAfterEviction) :
        /\ usage' = <<n>> \o ListAfterEviction
        /\ nodeKey' = [nodeKey EXCEPT ![n] = k]
  BY DEF Insert
<1>2. /\ KeysInUse \in Seq(Key) /\ Len(KeysInUse) = Len(usage)
      /\ \A i \in 1 .. Len(usage) : KeysInUse[i] = nodeKey[usage[i]]
      /\ Range(KeysInUse) = cacheMap
  BY KeysFacts
<1>3. /\ usage \in Seq(Node) /\ Len(usage) \in Nat
      /\ Len(usage) = Cardinality(cacheMap)
  BY LenProperties DEF IInv, TypeOK, Lengths
<1>4. /\ ListAfterEviction \in Seq(Node) /\ Abstract!Kept \in Seq(Key)
      /\ Len(Abstract!Kept) = Len(ListAfterEviction)
      /\ \A j \in 1 .. Len(ListAfterEviction) :
           Abstract!Kept[j] = nodeKey[ListAfterEviction[j]]
  <2>1. CASE ~IsFull
    BY <1>2, <1>3, <2>1, MaxSizeAssumption
    DEF IsFull, ListAfterEviction, Abstract!Kept
  <2>2. CASE IsFull
    <3>1. ListAfterEviction = Front(usage) /\ Abstract!Kept = Front(KeysInUse)
      BY <1>2, <1>3, <2>2, MaxSizeAssumption
      DEF IsFull, ListAfterEviction, Abstract!Kept, Abstract!Front, Front
    <3>2. usage # << >> /\ KeysInUse # << >>
      BY <1>2, <1>3, <2>2, MaxSizeAssumption DEF IsFull
    <3>3. /\ Len(usage) \in 1 .. Len(usage)
          /\ Front(usage) = RemoveAt(usage, Len(usage))
          /\ Front(KeysInUse) = RemoveAt(KeysInUse, Len(usage))
      BY <1>2, <1>3, <3>2, FrontIsRemoveAt
    <3> QED
      BY <3>1, <3>3, KeyRemoved
  <2> QED
    BY <2>1, <2>2
<1>5. KeysInUse' = <<k>> \o Abstract!Kept
  BY <1>1, <1>4, KeyPushed
<1> QED
  BY <1>2, <1>5
  DEF Insert, Abstract!Add, Abstract!Cached, Abstract!Range, Range

\* The two hash maps and the list of iterators (lru_cache.hpp) implement the
\* list of at most max_size keys, most recently used first, that the server
\* relies on: access moves a key to the front, insert adds one and drops the
\* last of a full list.
THEOREM Implementation == Spec => ImplementsChunkCache
<1>1. Init => Abstract!Init
  BY DEF Init, Abstract!Init, KeysInUse
<1>2. IInv /\ IInv' /\ [Next]_vars => [Abstract!Next]_KeysInUse
  <2> SUFFICES ASSUME IInv, IInv', [Next]_vars
               PROVE  [Abstract!Next]_KeysInUse
    OBVIOUS
  <2>1. CASE UNCHANGED vars
    BY <2>1 DEF vars, KeysInUse
  <2>2. ASSUME NEW k \in Key, AccessHit(k) \/ Insert(k)
        PROVE  Abstract!Next
    BY <2>2, AccessHits, InsertAdds DEF Abstract!Next, Abstract!Store
  <2> QED
    BY <2>1, <2>2 DEF Next
<1> QED
  BY <1>1, <1>2, Invariance, PTL DEF Spec, ImplementsChunkCache, Abstract!Spec

-----------------------------------------------------------------------------
(***************************************************************************)
(* The keys are the most recently used ones.  What makes that inductive is *)
(* that useOrder has each key once: a key that moves to the front leaves   *)
(* the same place in the list and in the order.                            *)
(***************************************************************************)
Shorter(n) == IF n < MaxSize THEN n ELSE MaxSize

\* The list is the front of the order.
SInv ==
  /\ NoRepeats(useOrder)
  /\ Len(usage) = Shorter(Len(useOrder))
  /\ \A j \in 1 .. Len(usage) : KeysInUse[j] = useOrder[j]

\* What the list keeps and what the order keeps, with k pushed to either.
LEMMA FrontPushed ==
  ASSUME NEW k \in Key, NEW keys \in Seq(Key), NEW order \in Seq(Key),
         Len(keys) <= Len(order),
         \A j \in 1 .. Len(keys) : keys[j] = order[j]
  PROVE  /\ Len(<<k>> \o keys) = Len(keys) + 1
         /\ Len(<<k>> \o order) = Len(order) + 1
         /\ \A j \in 1 .. Len(keys) + 1 : (<<k>> \o keys)[j] = (<<k>> \o order)[j]
<1>1. /\ Len(<<k>> \o keys) = Len(keys) + 1 /\ Len(keys) \in Nat
      /\ \A j \in 1 .. Len(keys) + 1 :
           (<<k>> \o keys)[j] = IF j = 1 THEN k ELSE keys[j - 1]
  BY PushFront, LenProperties
<1>2. /\ Len(<<k>> \o order) = Len(order) + 1 /\ Len(order) \in Nat
      /\ \A j \in 1 .. Len(order) + 1 :
           (<<k>> \o order)[j] = IF j = 1 THEN k ELSE order[j - 1]
  BY PushFront, LenProperties
<1>3. ASSUME NEW j \in 1 .. Len(keys) + 1
      PROVE  (<<k>> \o keys)[j] = (<<k>> \o order)[j]
  <2>1. j \in 1 .. Len(order) + 1 /\ (j = 1 \/ j - 1 \in 1 .. Len(keys))
    BY <1>1, <1>2
  <2> QED
    BY <1>1, <1>2, <2>1
<1> QED
  BY <1>1, <1>2, <1>3

\* Where k is in the order.
LEMMA UsedBefore ==
  ASSUME NEW order \in Seq(Key), NEW k \in Key, NoRepeats(order)
  PROVE  /\ NoRepeats(UsedNow(order, k)) /\ UsedNow(order, k) \in Seq(Key)
         /\ k \notin Range(order) => UsedNow(order, k) = <<k>> \o order
         /\ k \in Range(order) =>
              \E x \in 1 .. Len(order) :
                order[x] = k /\ UsedNow(order, k) = <<k>> \o RemoveAt(order, x)
<1>1. DOMAIN order = 1 .. Len(order) /\ Len(order) \in Nat
  BY LenProperties
<1>2. CASE k \notin Range(order)
  BY <1>2, PushFront DEF UsedNow
<1>3. CASE k \in Range(order)
  <2> DEFINE x == CHOOSE i \in DOMAIN order : order[i] = k
  <2>1. x \in 1 .. Len(order) /\ order[x] = k
    BY <1>1, <1>3 DEF Range
  <2>2. UsedNow(order, k) = <<k>> \o RemoveAt(order, x)
    BY <1>3 DEF UsedNow
  <2> HIDE DEF x
  <2>3. /\ RemoveAt(order, x) \in Seq(Key) /\ NoRepeats(RemoveAt(order, x))
        /\ k \notin Range(RemoveAt(order, x))
    BY <2>1, RemoveAtRange, RemoveAtElements
  <2> QED
    BY <1>3, <2>1, <2>2, <2>3, PushFront
<1> QED
  BY <1>2, <1>3

\* An access moves the same place of list and order to the front.
LEMMA AccessStacks ==
  ASSUME IInv, IInv', SInv, NEW k \in Key, AccessHit(k)
  PROVE  SInv'
<1> DEFINE keys == KeysInUse
           order == useOrder
<1>1. /\ keys \in Seq(Key) /\ Len(keys) = Len(usage) /\ Len(usage) \in Nat
      /\ order \in Seq(Key) /\ Len(order) \in Nat /\ MaxSize \in Nat
      /\ DOMAIN keys = 1 .. Len(keys) /\ DOMAIN order = 1 .. Len(order)
  BY KeysFacts, LenProperties, MaxSizeAssumption DEF IInv, TypeOK
<1>2. /\ NoRepeats(order) /\ Len(keys) = Shorter(Len(order))
      /\ \A j \in 1 .. Len(keys) : keys[j] = order[j]
  BY <1>1 DEF SInv
<1>3. PICK i \in 1 .. Len(keys) : keys[i] = k /\ KeysInUse' = <<k>> \o RemoveAt(keys, i)
  <2>1. Abstract!Hit(k)
    BY AccessHits
  <2> QED
    BY <1>1, <2>1 DEF Abstract!Hit, Abstract!RemoveAt, RemoveAt
<1>4. /\ Len(KeysInUse') = Len(usage')
      /\ useOrder' = UsedNow(order, k)
  BY KeysFacts DEF AccessHit, IInv, TypeOK, KeysInUse
<1> HIDE DEF keys, order
<1>5. Len(keys) <= Len(order) /\ i \in 1 .. Len(order) /\ order[i] = k
  BY <1>1, <1>2, <1>3 DEF Shorter
<1>6. /\ NoRepeats(UsedNow(order, k)) /\ k \in Range(order)
      /\ \E x \in 1 .. Len(order) :
           order[x] = k /\ UsedNow(order, k) = <<k>> \o RemoveAt(order, x)
  BY <1>1, <1>2, <1>5, UsedBefore DEF Range
<1>7. useOrder' = <<k>> \o RemoveAt(order, i)
  <2>1. PICK x \in 1 .. Len(order) :
          order[x] = k /\ UsedNow(order, k) = <<k>> \o RemoveAt(order, x)
    BY <1>6
  <2>2. x = i
    BY <1>1, <1>2, <1>5, <2>1 DEF NoRepeats
  <2> QED
    BY <1>4, <2>1, <2>2
<1>8. /\ RemoveAt(keys, i) \in Seq(Key) /\ Len(RemoveAt(keys, i)) = Len(keys) - 1
      /\ \A j \in 1 .. Len(keys) - 1 :
           RemoveAt(keys, i)[j] = IF j < i THEN keys[j] ELSE keys[j + 1]
  BY <1>1, <1>3, RemoveAtElements
<1>9. /\ RemoveAt(order, i) \in Seq(Key) /\ Len(RemoveAt(order, i)) = Len(order) - 1
      /\ \A j \in 1 .. Len(order) - 1 :
           RemoveAt(order, i)[j] = IF j < i THEN order[j] ELSE order[j + 1]
  BY <1>1, <1>5, RemoveAtElements
<1>10. ASSUME NEW j \in 1 .. Len(keys) - 1
       PROVE  RemoveAt(keys, i)[j] = RemoveAt(order, i)[j]
  <2>1. j \in 1 .. Len(order) - 1 /\ j \in 1 .. Len(keys) /\ j + 1 \in 1 .. Len(keys)
    BY <1>1, <1>5
  <2> QED
    BY <1>2, <1>8, <1>9, <2>1
<1>11. /\ Len(KeysInUse') = Len(keys) /\ Len(useOrder') = Len(order)
       /\ \A j \in 1 .. Len(keys) : KeysInUse'[j] = useOrder'[j]
  <2> DEFINE a == RemoveAt(keys, i)
             b == RemoveAt(order, i)
  <2>1. /\ a \in Seq(Key) /\ b \in Seq(Key) /\ Len(a) <= Len(b)
        /\ Len(a) + 1 = Len(keys) /\ Len(b) + 1 = Len(order)
    BY <1>1, <1>5, <1>8, <1>9
  <2>2. \A j \in 1 .. Len(a) : a[j] = b[j]
    BY <1>8, <1>10
  <2>3. KeysInUse' = <<k>> \o a /\ useOrder' = <<k>> \o b
    BY <1>3, <1>7 DEF keys
  <2> HIDE DEF a, b
  <2> QED
    BY <2>1, <2>2, <2>3, FrontPushed
<1>12. NoRepeats(useOrder')
  BY <1>4, <1>6
<1>13. /\ Len(usage') = Shorter(Len(useOrder'))
       /\ \A j \in 1 .. Len(usage') : KeysInUse'[j] = useOrder'[j]
  BY <1>2, <1>4, <1>11
<1> QED
  BY <1>12, <1>13 DEF SInv, Shorter

\* An insertion pushes k to both; what falls off a full list stays in the order,
\* behind the keys of the list.
LEMMA InsertStacks ==
  ASSUME IInv, IInv', SInv, NEW k \in Key, Insert(k)
  PROVE  SInv'
<1> DEFINE keys == KeysInUse
           order == useOrder
           rest == IF Len(keys) < MaxSize THEN keys ELSE Front(keys)
<1>1. /\ keys \in Seq(Key) /\ Len(keys) = Len(usage) /\ Len(usage) \in Nat
      /\ order \in Seq(Key) /\ Len(order) \in Nat /\ MaxSize \in Nat /\ MaxSize > 0
      /\ DOMAIN keys = 1 .. Len(keys) /\ DOMAIN order = 1 .. Len(order)
  BY KeysFacts, LenProperties, MaxSizeAssumption DEF IInv, TypeOK
<1>2. /\ NoRepeats(order) /\ Len(keys) = Shorter(Len(order))
      /\ \A j \in 1 .. Len(keys) : keys[j] = order[j]
  BY <1>1 DEF SInv
<1>3. k \notin Range(keys) /\ KeysInUse' = <<k>> \o rest
  <2>1. Abstract!Add(k)
    BY InsertAdds
  <2> QED
    BY <2>1 DEF Abstract!Add, Abstract!Kept, Abstract!Cached, Abstract!Range, Range,
                Abstract!Front, Front
<1>4. /\ Len(KeysInUse') = Len(usage')
      /\ useOrder' = UsedNow(order, k)
  BY KeysFacts DEF Insert, IInv, TypeOK, KeysInUse
<1> HIDE DEF keys, order
<1>5. /\ rest \in Seq(Key)
      /\ Len(rest) = IF Len(keys) < MaxSize THEN Len(keys) ELSE Len(keys) - 1
      /\ \A j \in 1 .. Len(rest) : rest[j] = keys[j]
  <2>1. CASE Len(keys) < MaxSize
    BY <1>1, <2>1
  <2>2. CASE ~ (Len(keys) < MaxSize)
    <3>1. keys # << >>
      BY <1>1, <2>2
    <3>2. /\ Len(keys) \in 1 .. Len(keys) /\ Front(keys) = RemoveAt(keys, Len(keys))
      BY <1>1, <3>1, FrontIsRemoveAt
    <3>3. /\ RemoveAt(keys, Len(keys)) \in Seq(Key)
          /\ Len(RemoveAt(keys, Len(keys))) = Len(keys) - 1
          /\ \A j \in 1 .. Len(keys) - 1 :
               RemoveAt(keys, Len(keys))[j] = IF j < Len(keys) THEN keys[j] ELSE keys[j + 1]
      BY <1>1, <3>2, RemoveAtElements
    <3>4. \A j \in 1 .. Len(keys) - 1 : j < Len(keys)
      BY <1>1
    <3> QED
      BY <2>2, <3>2, <3>3, <3>4
  <2> QED
    BY <2>1, <2>2
<1> HIDE DEF rest
<1> DEFINE m == Len(keys)
           n == Len(order)
           r == Len(rest)
<1>6. /\ m \in Nat /\ n \in Nat /\ MaxSize \in Nat /\ MaxSize > 0
      /\ m = IF n < MaxSize THEN n ELSE MaxSize
      /\ r = IF m < MaxSize THEN m ELSE m - 1
  BY <1>1, <1>2, <1>5 DEF Shorter
<1> HIDE DEF m, n, r
<1>7. NoRepeats(useOrder')
  BY <1>1, <1>2, <1>4, UsedBefore
<1>8. \A j \in 1 .. Len(rest) : rest[j] = order[j]
  <2>1. \A j \in 1 .. r : j \in 1 .. m
    BY <1>6
  <2> QED
    BY <1>2, <1>5, <2>1 DEF m, r
<1>9. CASE k \notin Range(order)
  <2>1. useOrder' = <<k>> \o order
    BY <1>1, <1>2, <1>4, <1>9, UsedBefore
  <2>2. r <= n
    BY <1>6
  <2>3. /\ Len(KeysInUse') = r + 1 /\ Len(useOrder') = n + 1
        /\ \A j \in 1 .. r + 1 : KeysInUse'[j] = useOrder'[j]
    BY <1>1, <1>3, <1>5, <1>8, <2>1, <2>2, FrontPushed DEF r, n
  <2>4. r + 1 = IF n + 1 < MaxSize THEN n + 1 ELSE MaxSize
    BY <1>6
  <2> QED
    BY <1>4, <1>7, <2>3, <2>4 DEF SInv, Shorter
<1>10. CASE k \in Range(order)
  <2>1. PICK x \in 1 .. n :
          order[x] = k /\ useOrder' = <<k>> \o RemoveAt(order, x)
    BY <1>1, <1>2, <1>4, <1>10, UsedBefore DEF n
  <2>2. ~ (x \in 1 .. m)
    BY <1>1, <1>2, <1>3, <2>1 DEF Range, m
  <2>3. x > m /\ m = MaxSize /\ n > MaxSize /\ r = MaxSize - 1
    BY <1>6, <2>1, <2>2
  <2>4. /\ RemoveAt(order, x) \in Seq(Key) /\ Len(RemoveAt(order, x)) = n - 1
        /\ \A j \in 1 .. n - 1 :
             RemoveAt(order, x)[j] = IF j < x THEN order[j] ELSE order[j + 1]
    BY <1>1, <2>1, RemoveAtElements DEF n
  <2>5. \A j \in 1 .. r : rest[j] = RemoveAt(order, x)[j]
    <3>1. \A j \in 1 .. r : j \in 1 .. n - 1 /\ j < x
      BY <1>6, <2>1, <2>3
    <3> QED
      BY <1>8, <2>4, <3>1 DEF r
  <2>6. r <= n - 1 /\ (n - 1) + 1 = n
    BY <1>6, <2>3
  <2>7. /\ Len(KeysInUse') = r + 1
        /\ Len(useOrder') = (n - 1) + 1
        /\ \A j \in 1 .. r + 1 : KeysInUse'[j] = useOrder'[j]
    BY <1>3, <1>5, <2>1, <2>4, <2>5, <2>6, FrontPushed DEF r
  <2>8. r + 1 = IF n < MaxSize THEN n ELSE MaxSize
    BY <1>6, <2>3
  <2> QED
    BY <1>4, <1>7, <2>6, <2>7, <2>8 DEF SInv, Shorter
<1> QED
  BY <1>9, <1>10

\* Through every sequence of accesses, insertions and evictions the cache holds
\* the max_size most recently used keys in their order, for every max_size.
THEOREM RecencyKept == Spec => []LRUStack
<1>1. Init => SInv
  <2> SUFFICES ASSUME Init PROVE SInv
    OBVIOUS
  <2>1. useOrder = << >> /\ usage = << >> /\ NoRepeats(<< >>)
    BY DEF Init, NoRepeats
  <2> QED
    BY <2>1, MaxSizeAssumption DEF SInv, Shorter
<1>2. IInv /\ IInv' /\ SInv /\ [Next]_vars => SInv'
  <2>1. CASE UNCHANGED vars
    BY <2>1 DEF vars, SInv, KeysInUse, NoRepeats, Shorter
  <2> QED
    BY <2>1, AccessStacks, InsertStacks DEF Next
<1>3. IInv /\ SInv => LRUStack
  <2> SUFFICES ASSUME IInv, SInv PROVE LRUStack
    OBVIOUS
  <2>1. /\ KeysInUse \in Seq(Key) /\ Len(KeysInUse) = Len(usage) /\ Len(usage) \in Nat
        /\ useOrder \in Seq(Key) /\ Len(useOrder) \in Nat /\ MaxSize \in Nat
    BY KeysFacts, LenProperties, MaxSizeAssumption DEF IInv, TypeOK
  <2> DEFINE n == Shorter(Len(useOrder))
             front == SubSeq(useOrder, 1, n)
  <2>2. n \in 0 .. Len(useOrder) /\ Len(usage) = n
    BY <2>1 DEF SInv, Shorter
  <2>3. front \in Seq(Key) /\ Len(front) = n /\ \A j \in 1 .. n : front[j] = useOrder[j]
    <3> HIDE DEF n
    <3> QED
      BY <2>1, <2>2
  <2>4. KeysInUse = front
    <3> HIDE DEF n, front
    <3> QED
      BY <2>1, <2>2, <2>3, SeqEqual DEF SInv
  <2> QED
    BY <2>4 DEF LRUStack, Shorter
<1> QED
  BY <1>1, <1>2, <1>3, Invariance, PTL DEF Spec
=============================================================================
