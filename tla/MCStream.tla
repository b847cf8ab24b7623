------------------------------ MODULE MCStream ------------------------------
(* The instance of Stream for TLC: two events on one stream of two chunks, *)
(* the second of which is short at first.                                  *)
EXTENDS Stream, TLC

MCStreamSymmetry ==
  Permutations(Events) \cup Permutations(Glossaries) \cup Permutations(Questions)
=============================================================================
