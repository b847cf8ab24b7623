------------------------------ MODULE MCStudio ------------------------------
(* The instance of Studio that TLC checks: two entries for two events, which *)
(* may be exchanged together, and jobs that may be exchanged.                *)
EXTENDS Studio, TLC

CONSTANTS e1, e2, j1, j2, j3, event, other, render, cpu

MCPoolOf == render :> cpu
MCBuilds == {{render}}
MCOneOrTwoAtOnce == {cpu :> 1, cpu :> 2}
MCTwoAtOnce == {cpu :> 2}
MCTwoEvents == e1 :> {event} @@ e2 :> {other}
MCOneLocked == e1 :> {event} @@ e2 :> {}
MCSymmetry ==
  Permutations(Jobs) \cup {e1 :> e2 @@ e2 :> e1 @@ event :> other @@ other :> event}
=============================================================================
