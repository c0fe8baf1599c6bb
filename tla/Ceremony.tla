------------------------------ MODULE Ceremony ------------------------------
(***************************************************************************)
(* What an approval ceremony promises, whoever judges the proof: a ceremony *)
(* is offered once, at most one proof of it is ever judged, only while it    *)
(* is open and in time, and a verdict is final.  Everything else closes it   *)
(* without effect.                                                          *)
(***************************************************************************)
CONSTANT Ids

VARIABLES
  stage,  \* of each ceremony
  late    \* the ceremonies whose time is over

Init == stage = [c \in Ids |-> "new"] /\ late = {}

Offer(c) == stage[c] = "new" /\ stage' = [stage EXCEPT ![c] = "open"] /\ UNCHANGED late

\* A proof in time is taken for judgement, or judged on the spot.
Take(c) ==
  /\ stage[c] = "open" /\ c \notin late
  /\ stage' \in {[stage EXCEPT ![c] = s] : s \in {"judging", "accepted", "refused"}}
  /\ UNCHANGED late

Judge(c) ==
  /\ stage[c] = "judging"
  /\ stage' \in {[stage EXCEPT ![c] = s] : s \in {"accepted", "refused", "closed"}}
  /\ UNCHANGED late

\* Cancelled, withdrawn, replaced, refused as late, or the call is over: any
\* number of ceremonies that have no verdict.
Closing ==
  /\ \E S \in SUBSET {c \in Ids : stage[c] \in {"open", "judging"}} :
       stage' = [c \in Ids |-> IF c \in S THEN "closed" ELSE stage[c]]
  /\ UNCHANGED late

Expire(c) == stage[c] # "new" /\ late' = late \union {c} /\ UNCHANGED stage

Next == Closing \/ \E c \in Ids : Offer(c) \/ Take(c) \/ Judge(c) \/ Expire(c)

Spec == Init /\ [][Next]_<<stage, late>>
=============================================================================
