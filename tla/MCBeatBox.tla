----------------------------- MODULE MCBeatBox -----------------------------
(* Instances of BeatBox for TLC: a base drum that spans two periods of the *)
(* buffer, so that a slot keeps its position, and two sounds that fit one. *)
EXTENDS BeatBox

MCNumSamples == [base |-> 6, hihat |-> 3, snare |-> 5]
=============================================================================
