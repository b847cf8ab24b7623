------------------------------- MODULE MCClip -------------------------------
(* The instance of Clip for TLC. *)
EXTENDS Clip, TLC

\* Takes are recycled and only told apart; the cuts are alike.
MCClipSymmetry == Permutations(Takes) \cup Permutations(Cuts)
=============================================================================
