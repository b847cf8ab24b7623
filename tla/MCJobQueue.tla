----------------------------- MODULE MCJobQueue -----------------------------
(* The instance of JobQueue that TLC checks: three entries that may wait for *)
(* one another, and two versions of the program, one of which does not know  *)
(* the kind of work that is planned.                                         *)
EXTENDS JobQueue, TLC

CONSTANTS e1, e2, e3, render, cpu

MCPoolOf == render :> cpu
MCBuilds == {{render}, {}}
MCLimits == {cpu :> 1, cpu :> 2}
MCSymmetry == Permutations(Ids)
=============================================================================
