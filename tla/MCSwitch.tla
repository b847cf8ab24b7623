------------------------------ MODULE MCSwitch ------------------------------
(* The instance of Switch for TLC.  No symmetry: the run checks liveness. *)
EXTENDS Switch
=============================================================================
