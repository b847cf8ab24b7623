------------------------------ MODULE MCPidLock ------------------------------
(* The instance of PidLock that TLC checks: two threads of a studio and a   *)
(* render started on the command line.                                      *)
EXTENDS PidLock, TLC

CONSTANTS route, worker, render, studio, cli

MCPidOf == route :> studio @@ worker :> studio @@ render :> cli
=============================================================================
