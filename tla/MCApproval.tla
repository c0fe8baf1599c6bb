----------------------------- MODULE MCApproval -----------------------------
(* Approval with both flows on small instances.                             *)
EXTENDS Approval

MCFlows == {"bank", "demo"}
=============================================================================
