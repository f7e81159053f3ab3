----------------------------- MODULE ChunkCache -----------------------------
(***************************************************************************)
(* What the server relies on in its chunk cache: a list of at most MaxSize *)
(* keys, the most recently used first.  Module LRUCache, which models the  *)
(* two hash maps and the list of assignment2/src/lru_cache.hpp, implements *)
(* it; module TrickleServer uses it.                                       *)
(***************************************************************************)
EXTENDS Naturals, Sequences, SequencesExt

CONSTANTS Key, MaxSize

VARIABLE cache

Cached(k) == k \in Range(cache)

\* access(k): the value if it is there, and its key moves to the front.
Hit(k) ==
  /\ Cached(k)
  /\ \E i \in DOMAIN cache :
       cache[i] = k /\ cache' = <<k>> \o RemoveAt(cache, i)

Kept == IF Len(cache) < MaxSize THEN cache ELSE Front(cache)

\* insert(k, v) of a key that is not there; a full cache evicts its last key.
Add(k) ==
  /\ ~Cached(k)
  /\ cache' = <<k>> \o Kept

\* Access, and insertion if that missed.
Store(k) == Hit(k) \/ Add(k)

Init == cache = << >>

Next == \E k \in Key : Store(k)

Spec == Init /\ [][Next]_cache
=============================================================================
