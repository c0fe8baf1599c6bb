------------------------------ MODULE MCPlayout ------------------------------
(***************************************************************************)
(* Playout for TLC: two attempts, a quantum of two samples so that partial *)
(* pieces exist, chunks of one to three samples.                           *)
(***************************************************************************)
EXTENDS Playout
=============================================================================
