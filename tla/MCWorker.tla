------------------------------ MODULE MCWorker ------------------------------
(* Worker for TLC: more jobs than slots and than the id cache holds.        *)
EXTENDS Worker

CONSTANTS j1, j2, j3, j4
MCJobs == {j1, j2, j3, j4}
=============================================================================
