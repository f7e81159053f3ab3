----------------------------- MODULE MCTrickle ------------------------------
(***************************************************************************)
(* Model checking Trickle.  Clients are interchangeable.                   *)
(***************************************************************************)
EXTENDS Trickle, TLC

ClientSymmetry == Permutations(Client)
=============================================================================
