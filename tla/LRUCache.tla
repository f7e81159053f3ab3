------------------------------ MODULE LRUCache ------------------------------
(***************************************************************************)
(* The server's chunk cache, assignment2/src/lru_cache.hpp: a hash map of  *)
(* the cached chunks, a std::list `usage' of their keys, most recently     *)
(* used first, and a hash map `key_map' of iterators into that list.       *)
(*                                                                         *)
(* An iterator is the identity of a list node, so `usage' is a sequence of *)
(* nodes and nodeKey gives the key stored in a node.  The cached values    *)
(* play no role in the algorithm: cacheMap is the set of keys of           *)
(* cache_map.  The allocator may hand out any node that is not in the      *)
(* list, the one just freed included.                                      *)
(*                                                                         *)
(* useOrder is a history variable: every key ever used, most recent first. *)
(***************************************************************************)
EXTENDS Naturals, Sequences, FiniteSets, SequencesExt

CONSTANTS Key,      \* chunk ids
          Node,     \* list nodes the allocator can hand out
          MaxSize   \* max_size

ASSUME MaxSizeAssumption == MaxSize \in Nat \ {0}
ASSUME NodeAssumption == IsFiniteSet(Node) /\ Cardinality(Node) > MaxSize

VARIABLES cacheMap,  \* DOMAIN cache_map
          keyMap,    \* key_map, a function from the keys present to nodes
          usage,     \* the list
          nodeKey,   \* what each node holds
          useOrder   \* history: the keys used so far, most recent first

vars == <<cacheMap, keyMap, usage, nodeKey, useOrder>>

KeysInUse == [i \in DOMAIN usage |-> nodeKey[usage[i]]]

\* key_map[k] = n
Pointing(f, k, n) == [x \in DOMAIN f \cup {k} |-> IF x = k THEN n ELSE f[x]]

\* The recency order after a use of k, which may be in the order already.
UsedNow(order, k) ==
  IF k \in Range(order)
  THEN <<k>> \o RemoveAt(order, CHOOSE i \in DOMAIN order : order[i] = k)
  ELSE <<k>> \o order

(***************************************************************************)
(* access(key) of a cached key: its node leaves the list, a new node is    *)
(* pushed to the front and key_map is pointed at it.  An access that       *)
(* misses returns nullptr and changes nothing.                             *)
(***************************************************************************)
\* Faulty variants, each of which a property below tells from the code.
AccessStaleIterator(k) ==
  /\ k \in cacheMap
  /\ \E i \in DOMAIN usage, n \in Node :
       /\ usage[i] = keyMap[k]
       /\ n \notin Range(RemoveAt(usage, i))
       /\ usage' = <<n>> \o RemoveAt(usage, i)
       /\ nodeKey' = [nodeKey EXCEPT ![n] = k]
  /\ useOrder' = UsedNow(useOrder, k)
  /\ UNCHANGED <<cacheMap, keyMap>>

AccessWithoutReordering(k) ==
  /\ k \in cacheMap
  /\ useOrder' = UsedNow(useOrder, k)
  /\ UNCHANGED <<cacheMap, keyMap, usage, nodeKey>>

AccessHit(k) ==
  /\ k \in cacheMap
  /\ \E i \in DOMAIN usage, n \in Node :
       /\ usage[i] = keyMap[k]
       /\ n \notin Range(RemoveAt(usage, i))
       /\ usage' = <<n>> \o RemoveAt(usage, i)
       /\ nodeKey' = [nodeKey EXCEPT ![n] = k]
       /\ keyMap' = Pointing(keyMap, k, n)
  /\ useOrder' = UsedNow(useOrder, k)
  /\ UNCHANGED cacheMap

(***************************************************************************)
(* insert(key, value).  The server only calls it after access(key) has     *)
(* returned nullptr (server.hpp, received_chunk).                          *)
(***************************************************************************)
IsFull == Cardinality(cacheMap) >= MaxSize

\* evict(): the key at the back of the list leaves both maps and the list.
EvictedKey == nodeKey[Last(usage)]
MapAfterEviction == IF IsFull THEN cacheMap \ {EvictedKey} ELSE cacheMap
IteratorsAfterEviction ==
  IF IsFull THEN Restrict(keyMap, DOMAIN keyMap \ {EvictedKey}) ELSE keyMap
ListWithoutNewest == IF IsFull THEN Tail(usage) ELSE usage
ListAfterEviction == IF IsFull THEN Front(usage) ELSE usage

Insert(k) ==
  /\ k \notin cacheMap
  /\ cacheMap' = MapAfterEviction \cup {k}
  /\ \E n \in Node \ Range(ListAfterEviction) :
       /\ usage' = <<n>> \o ListAfterEviction
       /\ nodeKey' = [nodeKey EXCEPT ![n] = k]
       /\ keyMap' = Pointing(IteratorsAfterEviction, k, n)
  /\ useOrder' = UsedNow(useOrder, k)

Init ==
  /\ cacheMap = {}
  /\ keyMap = << >>
  /\ usage = << >>
  /\ nodeKey \in [Node -> Key]
  /\ useOrder = << >>

Next == \E k \in Key : AccessHit(k) \/ Insert(k)

Spec == Init /\ [][Next]_vars

-----------------------------------------------------------------------------
\* The values of the variables; the list never outgrows max_size.
TypeOK ==
  /\ cacheMap \subseteq Key
  /\ keyMap \in [DOMAIN keyMap -> Node]
  /\ usage \in Seq(Node)
  /\ Len(usage) <= MaxSize
  /\ nodeKey \in [Node -> Key]
  /\ useOrder \in Seq(Key)

\* Every iterator kept in key_map points at a node that is in the list and
\* that holds its own key, so usage.erase(key_map[key]) in access() never
\* dereferences a dangling iterator or unlinks another chunk.
IteratorsValid ==
  /\ DOMAIN keyMap = cacheMap
  /\ \A k \in cacheMap : keyMap[k] \in Range(usage) /\ nodeKey[keyMap[k]] = k

\* The list and the map name the same keys, each once: evict() removes from
\* the map what it removes from the list, so neither grows behind the other.
ListMatchesMap ==
  /\ Range(KeysInUse) = cacheMap
  /\ Len(usage) = Cardinality(cacheMap)

\* What access() and evict() rely on, for any sequence of calls: the list stays
\* within max_size, no iterator dangles, and list and maps agree.
CacheConsistent == TypeOK /\ IteratorsValid /\ ListMatchesMap

\* The cache is an LRU cache: through every sequence of accesses, insertions
\* and evictions the list holds exactly the max_size most recently used
\* keys, in order of use.
LRUStack ==
  KeysInUse = SubSeq(useOrder, 1,
                     IF Len(useOrder) < MaxSize THEN Len(useOrder) ELSE MaxSize)

\* The two maps and the list implement the list of keys the server relies on.
Abstract == INSTANCE ChunkCache WITH cache <- KeysInUse

ImplementsChunkCache == Abstract!Spec
=============================================================================
