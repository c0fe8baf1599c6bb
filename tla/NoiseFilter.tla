---------------------------- MODULE NoiseFilter ----------------------------
(***************************************************************************)
(* InputNoiseFilter (input_noise.py) with the WebRTC module: the caller's     *)
(* audio passes in blocks, and unfiltered once the module fails.  Audio is     *)
(* the sequence of its units; 0 is the silence that pads the last block.      *)
(***************************************************************************)
EXTENDS Integers, Sequences

CONSTANTS
  Block,  \* InputNoiseFilter.BLOCK, in units
  MaxIn   \* bound: units of audio

ASSUME NoiseAssumption == Block \in Nat \ {0} /\ MaxIn \in Nat

VARIABLE nf  \* enabled, pending, what came in, what went out, finished

NoiseInit == nf \in {[enabled |-> e, pending |-> <<>>, in |-> 0, out |-> <<>>, finished |-> FALSE] : e \in BOOLEAN}

\* Mutant of ProcessApm: a failure returns the blocks and forgets the rest.
ProcessApmForgets(f, pcm, fails) ==
  LET all == f.pending \o pcm
      size == (Len(all) \div Block) * Block
  IN IF size = 0 THEN [f |-> [f EXCEPT !.pending = all], out |-> <<>>]
     ELSE IF fails THEN [f |-> [f EXCEPT !.enabled = FALSE, !.pending = <<>>], out |-> SubSeq(all, 1, size)]
     ELSE [f |-> [f EXCEPT !.pending = SubSeq(all, size + 1, Len(all))], out |-> SubSeq(all, 1, size)]

\* _process_apm: a failure returns every unit unfiltered, the held ones too.
ProcessApm(f, pcm, fails) ==
  LET all == f.pending \o pcm
      size == (Len(all) \div Block) * Block
  IN IF size = 0 THEN [f |-> [f EXCEPT !.pending = all], out |-> <<>>]
     ELSE IF fails THEN [f |-> [f EXCEPT !.enabled = FALSE, !.pending = <<>>], out |-> all]
     ELSE [f |-> [f EXCEPT !.pending = SubSeq(all, size + 1, Len(all))], out |-> SubSeq(all, 1, size)]

Process(f, pcm, fails) == IF f.enabled THEN ProcessApm(f, pcm, fails) ELSE [f |-> f, out |-> pcm]

Filters ==
  /\ ~nf.finished
  /\ \E n \in 1..(MaxIn - nf.in), fails \in BOOLEAN :
       LET r == Process(nf, [i \in 1..n |-> nf.in + i], fails) IN
       nf' = [r.f EXCEPT !.in = nf.in + n, !.out = nf.out \o r.out]

\* finish: the last block is padded, and the padding cut off again.
Finish ==
  /\ ~nf.finished
  /\ \E fails \in BOOLEAN :
       LET count == Len(nf.pending)
           r == Process(nf, [i \in 1..(Block - count) |-> 0], fails)
       IN nf' = IF count = 0 THEN [nf EXCEPT !.finished = TRUE]
                ELSE [r.f EXCEPT !.finished = TRUE, !.out = nf.out \o SubSeq(r.out, 1, count)]

NoiseNext == Filters \/ Finish

\* The filter loses, repeats or reorders nothing of what the caller said,
\* however the audio is cut and wherever the module fails, and adds nothing at
\* the end (input_noise.py:84: "Never lose caller audio").
AudioKept ==
  /\ nf.out \o nf.pending = [i \in 1..nf.in |-> i]
  /\ nf.finished => nf.pending = <<>>

-----------------------------------------------------------------------------
(* The inductive invariant behind AudioKept: less than a block is held back,  *)
(* and nothing once the module has failed.                                   *)

FilterSet == [enabled : BOOLEAN, pending : Seq(Nat), in : Nat, out : Seq(Nat), finished : BOOLEAN]

FilterInv ==
  /\ nf \in FilterSet
  /\ Len(nf.pending) < Block /\ (~nf.enabled => nf.pending = <<>>)
  /\ AudioKept
=============================================================================
