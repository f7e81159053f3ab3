-------------------------- MODULE MCTrickleClient ---------------------------
(***************************************************************************)
(* Model checking TrickleClient: one client, for clients share no state.   *)
(***************************************************************************)
EXTENDS TrickleClient
=============================================================================
