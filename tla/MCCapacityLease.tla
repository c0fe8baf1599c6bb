-------------------------- MODULE MCCapacityLease --------------------------
(***************************************************************************)
(* CapacityLease for TLC: two handoffs, so that one finds the Lease taken. *)
(***************************************************************************)
EXTENDS CapacityLease

CONSTANTS h1, h2

MCHandoffs == {h1, h2}
=============================================================================
