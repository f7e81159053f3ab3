-------------------------- MODULE MCTrickleServer ---------------------------
(***************************************************************************)
(* Model checking TrickleServer.  Addresses are interchangeable.           *)
(***************************************************************************)
EXTENDS TrickleServer, TLC

AddrSymmetry == Permutations(Addr)
=============================================================================
