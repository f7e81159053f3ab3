----------------------------- MODULE MCLRUCache -----------------------------
(***************************************************************************)
(* Model checking LRUCache: four chunks compete for two places, so every   *)
(* order of hits, misses and evictions occurs.  One list node more than    *)
(* there are places, so a freed node is reused at once or only later.      *)
(***************************************************************************)
EXTENDS LRUCache, TLC

\* Keys and nodes are interchangeable; the nodes alone are made symmetric,
\* so the run still distinguishes every recency order of the keys.
NodeSymmetry == Permutations(Node)
=============================================================================
