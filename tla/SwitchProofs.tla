---------------------------- MODULE SwitchProofs ----------------------------
(***************************************************************************)
(* Theorems about Switch, for every set of workspaces, and about what a    *)
(* switch relies on: that one thread drains the queue (WorkerThread), for  *)
(* any number of thread objects, and that a lock file refuses only for a   *)
(* holder (PidLock), for any tasks and processes.                          *)
(***************************************************************************)
EXTENDS Switch, WorkerThread, PidLock, TLAPS

----------------------------------------------------------------------------
(* The inductive invariant *)

\* The plan in use is some workspace's, and what is tracked is in the plan.
PlanHasAWorkspace ==
  /\ queue => root # None
  /\ tracked # "none" => queue

\* A process that is gone holds nothing, and one that starts serves no request.
DownHasNothing ==
  /\ phase = "down" => Ours = {} /\ stuck = {} /\ tracked = "none" /\ pauses = {} /\ latched = {}
  /\ phase \in {"down", "starting"} => switch = None /\ ~copying

\* The workspace a switch has locked and whose lock the studio has not adopted.
Entering ==
  IF switch # None /\ switch.at \in {"stop", "join", "check", "reap", "adopt", "reroot",
                                     "release", "undo"}
  THEN {switch.to} ELSE {}

\* At every step of a switch the studio holds the lock it keeps, the one of the
\* workspace it enters, and those it could not release; and it is in the
\* workspace whose lock it keeps until it has rerooted.
LocksOfASwitch ==
  phase \in {"starting", "up"} =>
    /\ Ours = ({kept} \ {None}) \cup Entering \cup stuck
    /\ kept \notin stuck
    /\ Entering \cap ({kept} \cup stuck) = {}
    /\ At("release") => root = switch.to
    /\ ~At("release") => root = kept

\* How far a switch has brought the worker.
SwitchPrepares ==
  switch # None =>
    /\ switch.at \in {"check", "reap", "adopt", "reroot", "release", "start"} =>
         worker \notin Draining
    /\ switch.at = "reap" => tracked # "running"
    /\ switch.at \in {"adopt", "reroot"} => tracked = "none"

\* A pause is kept by the queue of the workspace in use, and on the list for
\* every other one.
PausesAreKept ==
  /\ queue => (paused <=> root \in latched)
  /\ \A r \in Roots : (queue => r # root) => (r \in pauses <=> r \in latched)

IInv ==
  /\ SwitchTypeOK
  /\ PlanHasAWorkspace
  /\ DownHasNothing
  /\ LocksOfASwitch
  /\ SwitchPrepares
  /\ PausesAreKept

----------------------------------------------------------------------------
(* Lemmas about locks and about a switch that goes on *)

\* Removing lock files, and creating one, changes which locks are held by just that.
LEMMA FreeOfReleases ==
  ASSUME SwitchTypeOK, NEW s, locks' = FreeOf(s)
  PROVE  locks' \in [Roots -> {"free", "ours", "theirs"}] /\ Ours' = Ours \ s
BY DEF SwitchTypeOK, FreeOf, Ours

LEMMA HeldWithAcquires ==
  ASSUME SwitchTypeOK, NEW r \in Roots, locks' = HeldWith(r)
  PROVE  locks' \in [Roots -> {"free", "ours", "theirs"}] /\ Ours' = Ours \cup {r}
BY DEF SwitchTypeOK, HeldWith, Ours

\* A switch that goes on is the same switch, at its next step.
LEMMA SwitchGoesOn ==
  ASSUME switch \in Switches, NEW place \in Places, Goes(place)
  PROVE  /\ switch' \in Switches /\ switch' # None
         /\ switch'.at = place /\ switch'.to = switch.to
<1>1. switch' \in Switches /\ switch'.at = place /\ switch'.to = switch.to
  BY DEF Switches, Goes
<1> QED BY <1>1, SwitchAssumption

\* A switch that has taken the lock stops the worker next.
LEMMA SwitchHasTheLock ==
  ASSUME switch \in Switches, TakesTheLock
  PROVE  /\ switch.to \in Roots /\ switch' \in Switches /\ switch' # None
         /\ switch'.at = "stop" /\ switch'.to = switch.to
<1>1. PICK was \in BOOLEAN : switch' = [switch EXCEPT !.at = "stop", !.was = was]
  <2>1. (worker \in Draining) \in BOOLEAN
    OBVIOUS
  <2> QED BY <2>1 DEF TakesTheLock
<1>2. switch' \in Switches /\ switch'.at = "stop" /\ switch'.to = switch.to /\ switch.to \in Roots
  BY <1>1 DEF Switches, Places
<1> QED BY <1>2, SwitchAssumption

\* Jobs outside the queue disturb nothing else.
LEMMA JobStepKeepsTheRest ==
  JobStep => /\ UNCHANGED <<phase, root, locks, kept, queue, worker, tracked, pausing, switch, stuck>>
             /\ direct \in BOOLEAN /\ copying \in BOOLEAN => direct' \in BOOLEAN /\ copying' \in BOOLEAN
             /\ copying' => copying \/ phase = "up"
<1> SUFFICES ASSUME JobStep
             PROVE  /\ UNCHANGED <<phase, root, locks, kept, queue, worker, tracked, pausing, switch, stuck>>
                    /\ direct \in BOOLEAN /\ copying \in BOOLEAN => direct' \in BOOLEAN /\ copying' \in BOOLEAN
                    /\ copying' => copying \/ phase = "up"
  OBVIOUS
<1>1. UNCHANGED <<phase, root, locks, kept, queue, worker, tracked, pausing, switch, stuck>>
  BY DEF JobStep, DirectStarts, DirectEnds, CopyStarts, CopyEnds
<1>2. direct \in BOOLEAN /\ copying \in BOOLEAN => direct' \in BOOLEAN /\ copying' \in BOOLEAN
  BY DEF JobStep, DirectStarts, DirectEnds, CopyStarts, CopyEnds
<1>3. copying' => copying \/ phase = "up"
  BY DEF JobStep, DirectStarts, DirectEnds, CopyStarts, CopyEnds
<1> QED BY <1>1, <1>2, <1>3

\* A save that fails pauses the queue and nothing else.
LEMMA LatchesTheWorkspace ==
  ASSUME SwitchTypeOK, root # None, Latches
  PROVE  paused' = TRUE /\ latched' \subseteq Roots /\ latched' = latched \cup {root} /\ pauses' = pauses
BY DEF SwitchTypeOK, Latches

----------------------------------------------------------------------------
(* Every step keeps the invariant, one part at a time *)

\* The types.
LEMMA StepKeepsType == IInv /\ SwitchNext => SwitchTypeOK'
<1> SUFFICES ASSUME SwitchTypeOK, PlanHasAWorkspace, DownHasNothing, SwitchNext PROVE SwitchTypeOK'
  BY DEF IInv
<1> USE SwitchAssumption
<1>1. CASE \E r \in Roots \cup {None} : Boots(r)
  <2>1. PICK r \in Roots \cup {None} : Boots(r)
    BY <1>1
  <2>2. locks' \in [Roots -> {"free", "ours", "theirs"}]
    BY <2>1, HeldWithAcquires DEF SwitchTypeOK, Boots
  <2>3. queue' \in BOOLEAN /\ (~queue' <=> worker' = "none") /\ worker' \in {"none", "off"}
    BY <2>1 DEF Boots
  <2> QED BY <2>1, <2>2, <2>3 DEF SwitchTypeOK, Phases, Boots, Draining, InAPass, Flagged, jobs, pausing
<1>2. CASE Serves
  BY <1>2 DEF SwitchTypeOK, PlanHasAWorkspace, Phases, Draining, InAPass, Flagged, Switches, jobs, pausing, AnyRunning, Serves
<1>3. CASE StopsServing
  BY FreeOfReleases, <1>3 DEF SwitchTypeOK, PlanHasAWorkspace, Phases, Draining, InAPass, Flagged, Switches, jobs, pausing, AnyRunning, StopsServing
<1>4. CASE Dies
  BY FreeOfReleases, <1>4 DEF SwitchTypeOK, PlanHasAWorkspace, Phases, Draining, InAPass, Flagged, Switches, jobs, pausing, AnyRunning, Dies
<1>5. CASE \E r \in Roots : OthersTake(r)
  BY <1>5 DEF SwitchTypeOK, PlanHasAWorkspace, Phases, Draining, InAPass, Flagged, Switches, jobs, pausing, AnyRunning, OthersTake
<1>6. CASE \E r \in Roots : OthersLeave(r)
  BY FreeOfReleases, <1>6 DEF SwitchTypeOK, PlanHasAWorkspace, Phases, Draining, InAPass, Flagged, Switches, jobs, pausing, AnyRunning, OthersLeave
<1>7. CASE \E r \in Roots : Asks(r)
  <2>1. PICK r \in Roots : Asks(r)
    BY <1>7
  <2>2. switch' \in Switches
    BY <2>1 DEF Asks, Switches, Places
  <2> QED BY <2>1, <2>2 DEF SwitchTypeOK, Asks, jobs, pausing
<1>8. CASE \E r \in Roots : CopySelects(r)
  <2>1. PICK r \in Roots : CopySelects(r)
    BY <1>8
  <2>2. switch' \in Switches
    BY <2>1 DEF CopySelects, Switches, Places
  <2> QED BY <2>1, <2>2 DEF SwitchTypeOK, DownHasNothing, CopySelects, jobs, pausing
<1>9. CASE JobStep
  BY JobStepKeepsTheRest, <1>9 DEF SwitchTypeOK, PlanHasAWorkspace, Phases, Draining, InAPass, Flagged, Switches, jobs, pausing, AnyRunning
<1>10. CASE SavingFails
  BY <1>10 DEF SavingFails, Latches, SwitchTypeOK, PlanHasAWorkspace, Phases, Draining, InAPass, Flagged, Switches, jobs, pausing, AnyRunning
<1>11. CASE ResumesStorage
  BY <1>11 DEF ResumesStorage, Latches, SwitchTypeOK, PlanHasAWorkspace, Phases, Draining, InAPass, Flagged, Switches, jobs, pausing, AnyRunning
<1>12. CASE WorkerStep
  BY <1>12 DEF WorkerStep, PassBegins, PassReaps, PassClaims, PassEnds, ThreadEnds, TrackedEnds, Latches, Draining, InAPass, Flagged, SwitchTypeOK, PlanHasAWorkspace, Phases, Draining, InAPass, Flagged, Switches, jobs, pausing, AnyRunning
<1>13. CASE SwitchStep
  <2>1. CASE Declines
    BY <2>1 DEF SwitchTypeOK, PlanHasAWorkspace, Phases, Draining, InAPass, Flagged, Switches, jobs, pausing, AnyRunning, Declines, At, Places
  <2>2. CASE TakesTheLock
    BY HeldWithAcquires, SwitchHasTheLock, <2>2 DEF SwitchTypeOK, TakesTheLock, At, jobs, pausing
  <2>3. CASE Stops
    BY SwitchGoesOn, <2>3 DEF SwitchTypeOK, PlanHasAWorkspace, Phases, Draining, InAPass, Flagged, Switches, jobs, pausing, AnyRunning, Stops, At, Places
  <2>4. CASE Joins
    BY SwitchGoesOn, <2>4 DEF SwitchTypeOK, PlanHasAWorkspace, Phases, Draining, InAPass, Flagged, Switches, jobs, pausing, AnyRunning, Joins, At, Places
  <2>5. CASE TimesOut
    BY SwitchGoesOn, <2>5 DEF SwitchTypeOK, PlanHasAWorkspace, Phases, Draining, InAPass, Flagged, Switches, jobs, pausing, AnyRunning, TimesOut, At, Places
  <2>6. CASE Checks
    BY SwitchGoesOn, <2>6 DEF SwitchTypeOK, PlanHasAWorkspace, Phases, Draining, InAPass, Flagged, Switches, jobs, pausing, AnyRunning, Checks, AnyRunning, At, Places
  <2>7. CASE Reaps
    <3>1. switch' \in Switches
      BY <2>7, SwitchGoesOn DEF SwitchTypeOK, Reaps, At, Places
    <3>2. paused' \in BOOLEAN /\ (paused' => queue) /\ pauses' \subseteq Roots /\ latched' \subseteq Roots
      <4>1. UNCHANGED pausing \/ (Latches /\ queue /\ root # None)
        BY <2>7 DEF SwitchTypeOK, PlanHasAWorkspace, Reaps
      <4>2. CASE UNCHANGED pausing
        BY <4>2, <2>7 DEF SwitchTypeOK, pausing
      <4>3. CASE Latches /\ queue /\ root # None
        BY <4>3, LatchesTheWorkspace DEF SwitchTypeOK
      <4> QED BY <4>1, <4>2, <4>3
    <3>3. tracked' \in {"none", "running", "ended"}
      BY <2>7 DEF SwitchTypeOK, Reaps
    <3> QED BY <2>7, <3>1, <3>2, <3>3 DEF SwitchTypeOK, Reaps, At, jobs
  <2>8. CASE Adopts
    BY SwitchGoesOn, <2>8 DEF SwitchTypeOK, PlanHasAWorkspace, Phases, Draining, InAPass, Flagged, Switches, jobs, pausing, AnyRunning, Adopts, At, Places
  <2>9. CASE Reroots
    BY SwitchGoesOn, <2>9 DEF SwitchTypeOK, PlanHasAWorkspace, Phases, Draining, InAPass, Flagged, Switches, jobs, pausing, AnyRunning, Reroots, RerootsOnto, PausesLeft, At, Places
  <2>10. CASE ReleasesTheOld
    BY FreeOfReleases, SwitchGoesOn, <2>10 DEF SwitchTypeOK, PlanHasAWorkspace, Phases, Draining, InAPass, Flagged, Switches, jobs, pausing, AnyRunning, ReleasesTheOld, At, Places
  <2>11. CASE Starts
    <3>1. paused' \in BOOLEAN /\ (paused' => queue) /\ pauses' \subseteq Roots /\ latched' \subseteq Roots
      <4>1. UNCHANGED pausing \/ (Latches /\ queue /\ root # None)
        BY <2>11 DEF SwitchTypeOK, PlanHasAWorkspace, Starts, StartsTheThread
      <4>2. CASE UNCHANGED pausing
        BY <4>2, <2>11 DEF SwitchTypeOK, pausing
      <4>3. CASE Latches /\ queue /\ root # None
        BY <4>3, LatchesTheWorkspace DEF SwitchTypeOK
      <4> QED BY <4>1, <4>2, <4>3
    <3>2. worker' \in {"none", "off"} \cup Draining /\ (worker' = "none" <=> worker = "none")
      BY <2>11 DEF SwitchTypeOK, Starts, StartsTheThread, Draining, InAPass, Flagged
    <3> QED BY <2>11, <3>1, <3>2 DEF SwitchTypeOK, Starts, StartsTheThread, At, jobs
  <2>12. CASE Undoes
    BY FreeOfReleases, SwitchGoesOn, <2>12 DEF SwitchTypeOK, PlanHasAWorkspace, Phases, Draining, InAPass, Flagged, Switches, jobs, pausing, AnyRunning, Undoes, At, Places
  <2>13. CASE Restarts
    <3>1. paused' \in BOOLEAN /\ (paused' => queue) /\ pauses' \subseteq Roots /\ latched' \subseteq Roots
      <4>1. UNCHANGED pausing \/ (Latches /\ queue /\ root # None)
        BY <2>13 DEF SwitchTypeOK, PlanHasAWorkspace, Restarts, StartsTheThread
      <4>2. CASE UNCHANGED pausing
        BY <4>2, <2>13 DEF SwitchTypeOK, pausing
      <4>3. CASE Latches /\ queue /\ root # None
        BY <4>3, LatchesTheWorkspace DEF SwitchTypeOK
      <4> QED BY <4>1, <4>2, <4>3
    <3>2. worker' \in {"none", "off"} \cup Draining /\ (worker' = "none" <=> worker = "none")
      BY <2>13 DEF SwitchTypeOK, Restarts, StartsTheThread, Draining, InAPass, Flagged
    <3> QED BY <2>13, <3>1, <3>2 DEF SwitchTypeOK, Restarts, StartsTheThread, At, jobs
  <2> QED BY <1>13, <2>1, <2>2, <2>3, <2>4, <2>5, <2>6, <2>7, <2>8, <2>9, <2>10, <2>11, <2>12, <2>13 DEF SwitchStep
<1> QED BY <1>1, <1>2, <1>3, <1>4, <1>5, <1>6, <1>7, <1>8, <1>9, <1>10, <1>11, <1>12, <1>13 DEF SwitchNext

\* A queue has a workspace, and what is tracked a queue.
LEMMA StepKeepsPlan == IInv /\ SwitchNext => PlanHasAWorkspace'
<1> SUFFICES ASSUME SwitchTypeOK, PlanHasAWorkspace, SwitchPrepares, SwitchNext PROVE PlanHasAWorkspace'
  BY DEF IInv
<1> USE SwitchAssumption
<1>1. CASE \E r \in Roots \cup {None} : Boots(r)
  BY HeldWithAcquires, <1>1 DEF SwitchTypeOK, PlanHasAWorkspace, SwitchPrepares, Draining, InAPass, Flagged, Switches, jobs, pausing, Boots
<1>2. CASE Serves
  BY <1>2 DEF SwitchTypeOK, PlanHasAWorkspace, SwitchPrepares, Draining, InAPass, Flagged, Switches, jobs, pausing, Serves
<1>3. CASE StopsServing
  BY FreeOfReleases, <1>3 DEF SwitchTypeOK, PlanHasAWorkspace, SwitchPrepares, Draining, InAPass, Flagged, Switches, jobs, pausing, StopsServing
<1>4. CASE Dies
  BY FreeOfReleases, <1>4 DEF SwitchTypeOK, PlanHasAWorkspace, SwitchPrepares, Draining, InAPass, Flagged, Switches, jobs, pausing, Dies
<1>5. CASE \E r \in Roots : OthersTake(r)
  BY <1>5 DEF SwitchTypeOK, PlanHasAWorkspace, SwitchPrepares, Draining, InAPass, Flagged, Switches, jobs, pausing, OthersTake
<1>6. CASE \E r \in Roots : OthersLeave(r)
  BY FreeOfReleases, <1>6 DEF SwitchTypeOK, PlanHasAWorkspace, SwitchPrepares, Draining, InAPass, Flagged, Switches, jobs, pausing, OthersLeave
<1>7. CASE \E r \in Roots : Asks(r)
  BY <1>7 DEF SwitchTypeOK, PlanHasAWorkspace, SwitchPrepares, Draining, InAPass, Flagged, Switches, jobs, pausing, Asks
<1>8. CASE \E r \in Roots : CopySelects(r)
  BY <1>8 DEF SwitchTypeOK, PlanHasAWorkspace, SwitchPrepares, Draining, InAPass, Flagged, Switches, jobs, pausing, CopySelects
<1>9. CASE JobStep
  BY JobStepKeepsTheRest, <1>9 DEF SwitchTypeOK, PlanHasAWorkspace, SwitchPrepares, Draining, InAPass, Flagged, Switches, jobs, pausing
<1>10. CASE SavingFails
  BY <1>10 DEF SavingFails, Latches, SwitchTypeOK, PlanHasAWorkspace, SwitchPrepares, Draining, InAPass, Flagged, Switches, jobs, pausing
<1>11. CASE ResumesStorage
  BY <1>11 DEF ResumesStorage, Latches, SwitchTypeOK, PlanHasAWorkspace, SwitchPrepares, Draining, InAPass, Flagged, Switches, jobs, pausing
<1>12. CASE WorkerStep
  BY <1>12 DEF WorkerStep, PassBegins, PassReaps, PassClaims, PassEnds, ThreadEnds, TrackedEnds, Latches, Draining, InAPass, Flagged, SwitchTypeOK, PlanHasAWorkspace, SwitchPrepares, Draining, InAPass, Flagged, Switches, jobs, pausing
<1>13. CASE SwitchStep
  <2>1. CASE Declines
    BY <2>1 DEF SwitchTypeOK, PlanHasAWorkspace, SwitchPrepares, Draining, InAPass, Flagged, Switches, jobs, pausing, Declines, At, Places
  <2>2. CASE TakesTheLock
    BY HeldWithAcquires, <2>2 DEF SwitchTypeOK, PlanHasAWorkspace, SwitchPrepares, Draining, InAPass, Flagged, Switches, jobs, pausing, TakesTheLock, At, Places
  <2>3. CASE Stops
    BY SwitchGoesOn, <2>3 DEF SwitchTypeOK, PlanHasAWorkspace, SwitchPrepares, Draining, InAPass, Flagged, Switches, jobs, pausing, Stops, At, Places
  <2>4. CASE Joins
    BY SwitchGoesOn, <2>4 DEF SwitchTypeOK, PlanHasAWorkspace, SwitchPrepares, Draining, InAPass, Flagged, Switches, jobs, pausing, Joins, At, Places
  <2>5. CASE TimesOut
    BY SwitchGoesOn, <2>5 DEF SwitchTypeOK, PlanHasAWorkspace, SwitchPrepares, Draining, InAPass, Flagged, Switches, jobs, pausing, TimesOut, At, Places
  <2>6. CASE Checks
    BY SwitchGoesOn, <2>6 DEF SwitchTypeOK, PlanHasAWorkspace, SwitchPrepares, Draining, InAPass, Flagged, Switches, jobs, pausing, Checks, AnyRunning, At, Places
  <2>7. CASE Reaps
    BY SwitchGoesOn, <2>7 DEF SwitchTypeOK, PlanHasAWorkspace, SwitchPrepares, Draining, InAPass, Flagged, Switches, jobs, pausing, Reaps, Latches, At, Places
  <2>8. CASE Adopts
    BY SwitchGoesOn, <2>8 DEF SwitchTypeOK, PlanHasAWorkspace, SwitchPrepares, Draining, InAPass, Flagged, Switches, jobs, pausing, Adopts, At, Places
  <2>9. CASE Reroots
    BY SwitchGoesOn, <2>9 DEF SwitchTypeOK, PlanHasAWorkspace, SwitchPrepares, Draining, InAPass, Flagged, Switches, jobs, pausing, Reroots, RerootsOnto, PausesLeft, At, Places
  <2>10. CASE ReleasesTheOld
    BY FreeOfReleases, SwitchGoesOn, <2>10 DEF SwitchTypeOK, PlanHasAWorkspace, SwitchPrepares, Draining, InAPass, Flagged, Switches, jobs, pausing, ReleasesTheOld, At, Places
  <2>11. CASE Starts
    BY <2>11 DEF SwitchTypeOK, PlanHasAWorkspace, SwitchPrepares, Draining, InAPass, Flagged, Switches, jobs, pausing, Starts, StartsTheThread, Latches, At, Places
  <2>12. CASE Undoes
    BY FreeOfReleases, SwitchGoesOn, <2>12 DEF SwitchTypeOK, PlanHasAWorkspace, SwitchPrepares, Draining, InAPass, Flagged, Switches, jobs, pausing, Undoes, At, Places
  <2>13. CASE Restarts
    BY <2>13 DEF SwitchTypeOK, PlanHasAWorkspace, SwitchPrepares, Draining, InAPass, Flagged, Switches, jobs, pausing, Restarts, StartsTheThread, Latches, At, Places
  <2> QED BY <1>13, <2>1, <2>2, <2>3, <2>4, <2>5, <2>6, <2>7, <2>8, <2>9, <2>10, <2>11, <2>12, <2>13 DEF SwitchStep
<1> QED BY <1>1, <1>2, <1>3, <1>4, <1>5, <1>6, <1>7, <1>8, <1>9, <1>10, <1>11, <1>12, <1>13 DEF SwitchNext

\* A process that is gone, or not serving yet.
LEMMA StepKeepsDown == IInv /\ SwitchNext => DownHasNothing'
<1> SUFFICES ASSUME SwitchTypeOK, PlanHasAWorkspace, DownHasNothing, SwitchNext PROVE DownHasNothing'
  BY DEF IInv
<1> USE SwitchAssumption
<1>1. CASE \E r \in Roots \cup {None} : Boots(r)
  BY HeldWithAcquires, <1>1 DEF SwitchTypeOK, PlanHasAWorkspace, DownHasNothing, Draining, InAPass, Flagged, Ours, jobs, pausing, Boots
<1>2. CASE Serves
  BY <1>2 DEF SwitchTypeOK, PlanHasAWorkspace, DownHasNothing, Draining, InAPass, Flagged, Ours, jobs, pausing, Serves
<1>3. CASE StopsServing
  BY FreeOfReleases, <1>3 DEF SwitchTypeOK, PlanHasAWorkspace, DownHasNothing, Draining, InAPass, Flagged, Ours, jobs, pausing, StopsServing
<1>4. CASE Dies
  BY FreeOfReleases, <1>4 DEF SwitchTypeOK, PlanHasAWorkspace, DownHasNothing, Draining, InAPass, Flagged, Ours, jobs, pausing, Dies
<1>5. CASE \E r \in Roots : OthersTake(r)
  BY <1>5 DEF SwitchTypeOK, PlanHasAWorkspace, DownHasNothing, Draining, InAPass, Flagged, Ours, jobs, pausing, OthersTake
<1>6. CASE \E r \in Roots : OthersLeave(r)
  BY FreeOfReleases, <1>6 DEF SwitchTypeOK, PlanHasAWorkspace, DownHasNothing, Draining, InAPass, Flagged, Ours, jobs, pausing, OthersLeave
<1>7. CASE \E r \in Roots : Asks(r)
  BY <1>7 DEF SwitchTypeOK, PlanHasAWorkspace, DownHasNothing, Draining, InAPass, Flagged, Ours, jobs, pausing, Asks
<1>8. CASE \E r \in Roots : CopySelects(r)
  BY <1>8 DEF SwitchTypeOK, PlanHasAWorkspace, DownHasNothing, Draining, InAPass, Flagged, Ours, jobs, pausing, CopySelects
<1>9. CASE JobStep
  BY JobStepKeepsTheRest, <1>9 DEF SwitchTypeOK, PlanHasAWorkspace, DownHasNothing, Draining, InAPass, Flagged, Ours, jobs, pausing
<1>10. CASE SavingFails
  BY <1>10 DEF SavingFails, Latches, SwitchTypeOK, PlanHasAWorkspace, DownHasNothing, Draining, InAPass, Flagged, Ours, jobs, pausing
<1>11. CASE ResumesStorage
  BY <1>11 DEF ResumesStorage, Latches, SwitchTypeOK, PlanHasAWorkspace, DownHasNothing, Draining, InAPass, Flagged, Ours, jobs, pausing
<1>12. CASE WorkerStep
  BY <1>12 DEF WorkerStep, PassBegins, PassReaps, PassClaims, PassEnds, ThreadEnds, TrackedEnds, Latches, Draining, InAPass, Flagged, SwitchTypeOK, PlanHasAWorkspace, DownHasNothing, Draining, InAPass, Flagged, Ours, jobs, pausing
<1>13. CASE SwitchStep
  <2>1. CASE Declines
    BY <2>1 DEF SwitchTypeOK, PlanHasAWorkspace, DownHasNothing, Draining, InAPass, Flagged, Ours, jobs, pausing, Declines, At, Places
  <2>2. CASE TakesTheLock
    BY HeldWithAcquires, <2>2 DEF SwitchTypeOK, PlanHasAWorkspace, DownHasNothing, Draining, InAPass, Flagged, Ours, jobs, pausing, TakesTheLock, At, Places
  <2>3. CASE Stops
    BY SwitchGoesOn, <2>3 DEF SwitchTypeOK, PlanHasAWorkspace, DownHasNothing, Draining, InAPass, Flagged, Ours, jobs, pausing, Stops, At, Places
  <2>4. CASE Joins
    BY SwitchGoesOn, <2>4 DEF SwitchTypeOK, PlanHasAWorkspace, DownHasNothing, Draining, InAPass, Flagged, Ours, jobs, pausing, Joins, At, Places
  <2>5. CASE TimesOut
    BY SwitchGoesOn, <2>5 DEF SwitchTypeOK, PlanHasAWorkspace, DownHasNothing, Draining, InAPass, Flagged, Ours, jobs, pausing, TimesOut, At, Places
  <2>6. CASE Checks
    BY SwitchGoesOn, <2>6 DEF SwitchTypeOK, PlanHasAWorkspace, DownHasNothing, Draining, InAPass, Flagged, Ours, jobs, pausing, Checks, AnyRunning, At, Places
  <2>7. CASE Reaps
    BY SwitchGoesOn, <2>7 DEF SwitchTypeOK, PlanHasAWorkspace, DownHasNothing, Draining, InAPass, Flagged, Ours, jobs, pausing, Reaps, Latches, At, Places
  <2>8. CASE Adopts
    BY SwitchGoesOn, <2>8 DEF SwitchTypeOK, PlanHasAWorkspace, DownHasNothing, Draining, InAPass, Flagged, Ours, jobs, pausing, Adopts, At, Places
  <2>9. CASE Reroots
    BY SwitchGoesOn, <2>9 DEF SwitchTypeOK, PlanHasAWorkspace, DownHasNothing, Draining, InAPass, Flagged, Ours, jobs, pausing, Reroots, RerootsOnto, PausesLeft, At, Places
  <2>10. CASE ReleasesTheOld
    BY FreeOfReleases, SwitchGoesOn, <2>10 DEF SwitchTypeOK, PlanHasAWorkspace, DownHasNothing, Draining, InAPass, Flagged, Ours, jobs, pausing, ReleasesTheOld, At, Places
  <2>11. CASE Starts
    BY <2>11 DEF SwitchTypeOK, PlanHasAWorkspace, DownHasNothing, Draining, InAPass, Flagged, Ours, jobs, pausing, Starts, StartsTheThread, Latches, At, Places
  <2>12. CASE Undoes
    BY FreeOfReleases, SwitchGoesOn, <2>12 DEF SwitchTypeOK, PlanHasAWorkspace, DownHasNothing, Draining, InAPass, Flagged, Ours, jobs, pausing, Undoes, At, Places
  <2>13. CASE Restarts
    BY <2>13 DEF SwitchTypeOK, PlanHasAWorkspace, DownHasNothing, Draining, InAPass, Flagged, Ours, jobs, pausing, Restarts, StartsTheThread, Latches, At, Places
  <2> QED BY <1>13, <2>1, <2>2, <2>3, <2>4, <2>5, <2>6, <2>7, <2>8, <2>9, <2>10, <2>11, <2>12, <2>13 DEF SwitchStep
<1> QED BY <1>1, <1>2, <1>3, <1>4, <1>5, <1>6, <1>7, <1>8, <1>9, <1>10, <1>11, <1>12, <1>13 DEF SwitchNext

\* What a switch has made of the worker.
LEMMA StepKeepsPrepares == IInv /\ SwitchNext => SwitchPrepares'
<1> SUFFICES ASSUME SwitchTypeOK, DownHasNothing, PlanHasAWorkspace, SwitchPrepares, SwitchNext PROVE SwitchPrepares'
  BY DEF IInv
<1> USE SwitchAssumption
<1>1. CASE \E r \in Roots \cup {None} : Boots(r)
  BY HeldWithAcquires, <1>1 DEF SwitchTypeOK, SwitchPrepares, Draining, InAPass, Flagged, Switches, AnyRunning, jobs, pausing, Boots
<1>2. CASE Serves
  BY <1>2 DEF DownHasNothing, SwitchPrepares, Serves
<1>3. CASE StopsServing
  BY FreeOfReleases, <1>3 DEF SwitchTypeOK, SwitchPrepares, Draining, InAPass, Flagged, Switches, AnyRunning, jobs, pausing, StopsServing
<1>4. CASE Dies
  BY FreeOfReleases, <1>4 DEF SwitchTypeOK, SwitchPrepares, Draining, InAPass, Flagged, Switches, AnyRunning, jobs, pausing, Dies
<1>5. CASE \E r \in Roots : OthersTake(r)
  BY <1>5 DEF SwitchTypeOK, SwitchPrepares, Draining, InAPass, Flagged, Switches, AnyRunning, jobs, pausing, OthersTake
<1>6. CASE \E r \in Roots : OthersLeave(r)
  BY FreeOfReleases, <1>6 DEF SwitchTypeOK, SwitchPrepares, Draining, InAPass, Flagged, Switches, AnyRunning, jobs, pausing, OthersLeave
<1>7. CASE \E r \in Roots : Asks(r)
  BY <1>7 DEF SwitchTypeOK, SwitchPrepares, Draining, InAPass, Flagged, Switches, AnyRunning, jobs, pausing, Asks
<1>8. CASE \E r \in Roots : CopySelects(r)
  BY <1>8 DEF SwitchTypeOK, SwitchPrepares, Draining, InAPass, Flagged, Switches, AnyRunning, jobs, pausing, CopySelects
<1>9. CASE JobStep
  BY JobStepKeepsTheRest, <1>9 DEF SwitchTypeOK, SwitchPrepares, Draining, InAPass, Flagged, Switches, AnyRunning, jobs, pausing
<1>10. CASE SavingFails
  BY <1>10 DEF SavingFails, Latches, SwitchTypeOK, SwitchPrepares, Draining, InAPass, Flagged, Switches, AnyRunning, jobs, pausing
<1>11. CASE ResumesStorage
  BY <1>11 DEF ResumesStorage, Latches, SwitchTypeOK, SwitchPrepares, Draining, InAPass, Flagged, Switches, AnyRunning, jobs, pausing
<1>12. CASE WorkerStep
  BY <1>12 DEF WorkerStep, PassBegins, PassReaps, PassClaims, PassEnds, ThreadEnds, TrackedEnds, Latches, Draining, InAPass, Flagged, SwitchTypeOK, SwitchPrepares, Draining, InAPass, Flagged, Switches, AnyRunning, jobs, pausing
<1>13. CASE SwitchStep
  <2>1. CASE Declines
    BY <2>1 DEF SwitchTypeOK, SwitchPrepares, Draining, InAPass, Flagged, Switches, AnyRunning, jobs, pausing, Declines, At, Places
  <2>2. CASE TakesTheLock
    BY HeldWithAcquires, <2>2 DEF SwitchTypeOK, SwitchPrepares, Draining, InAPass, Flagged, Switches, AnyRunning, jobs, pausing, TakesTheLock, At, Places
  <2>3. CASE Stops
    BY SwitchGoesOn, <2>3 DEF SwitchTypeOK, SwitchPrepares, Draining, InAPass, Flagged, Switches, AnyRunning, jobs, pausing, Stops, At, Places
  <2>4. CASE Joins
    BY SwitchGoesOn, <2>4 DEF SwitchTypeOK, SwitchPrepares, Draining, InAPass, Flagged, Switches, AnyRunning, jobs, pausing, Joins, At, Places
  <2>5. CASE TimesOut
    BY SwitchGoesOn, <2>5 DEF SwitchTypeOK, SwitchPrepares, Draining, InAPass, Flagged, Switches, AnyRunning, jobs, pausing, TimesOut, At, Places
  <2>6. CASE Checks
    BY SwitchGoesOn, <2>6 DEF SwitchTypeOK, SwitchPrepares, Draining, InAPass, Flagged, Switches, AnyRunning, jobs, pausing, Checks, AnyRunning, At, Places
  <2>7. CASE Reaps
    BY SwitchGoesOn, <2>7 DEF SwitchTypeOK, SwitchPrepares, Draining, InAPass, Flagged, Switches, AnyRunning, jobs, pausing, Reaps, Latches, At, Places
  <2>8. CASE Adopts
    BY SwitchGoesOn, <2>8 DEF SwitchTypeOK, SwitchPrepares, Draining, InAPass, Flagged, Switches, AnyRunning, jobs, pausing, Adopts, At, Places
  <2>9. CASE Reroots
    BY SwitchGoesOn, <2>9 DEF SwitchTypeOK, SwitchPrepares, Draining, InAPass, Flagged, Switches, AnyRunning, jobs, pausing, Reroots, RerootsOnto, PausesLeft, At, Places
  <2>10. CASE ReleasesTheOld
    BY FreeOfReleases, SwitchGoesOn, <2>10 DEF SwitchTypeOK, SwitchPrepares, Draining, InAPass, Flagged, Switches, AnyRunning, jobs, pausing, ReleasesTheOld, At, Places
  <2>11. CASE Starts
    BY <2>11 DEF SwitchTypeOK, SwitchPrepares, Draining, InAPass, Flagged, Switches, AnyRunning, jobs, pausing, Starts, StartsTheThread, Latches, At, Places
  <2>12. CASE Undoes
    BY FreeOfReleases, SwitchGoesOn, <2>12 DEF SwitchTypeOK, SwitchPrepares, Draining, InAPass, Flagged, Switches, AnyRunning, jobs, pausing, Undoes, At, Places
  <2>13. CASE Restarts
    BY <2>13 DEF SwitchTypeOK, SwitchPrepares, Draining, InAPass, Flagged, Switches, AnyRunning, jobs, pausing, Restarts, StartsTheThread, Latches, At, Places
  <2> QED BY <1>13, <2>1, <2>2, <2>3, <2>4, <2>5, <2>6, <2>7, <2>8, <2>9, <2>10, <2>11, <2>12, <2>13 DEF SwitchStep
<1> QED BY <1>1, <1>2, <1>3, <1>4, <1>5, <1>6, <1>7, <1>8, <1>9, <1>10, <1>11, <1>12, <1>13 DEF SwitchNext

\* The pauses of the workspaces.
LEMMA StepKeepsPauses == IInv /\ SwitchNext => PausesAreKept'
<1> SUFFICES ASSUME SwitchTypeOK, PlanHasAWorkspace, DownHasNothing, SwitchPrepares, PausesAreKept, SwitchNext PROVE PausesAreKept'
  BY DEF IInv
<1> USE SwitchAssumption
<1>1. CASE \E r \in Roots \cup {None} : Boots(r)
  BY HeldWithAcquires, <1>1 DEF SwitchTypeOK, PlanHasAWorkspace, DownHasNothing, PausesAreKept, Draining, InAPass, Flagged, Switches, jobs, pausing, Boots
<1>2. CASE Serves
  BY <1>2 DEF SwitchTypeOK, PlanHasAWorkspace, DownHasNothing, PausesAreKept, Draining, InAPass, Flagged, Switches, jobs, pausing, Serves
<1>3. CASE StopsServing
  BY FreeOfReleases, <1>3 DEF SwitchTypeOK, PlanHasAWorkspace, DownHasNothing, PausesAreKept, Draining, InAPass, Flagged, Switches, jobs, pausing, StopsServing
<1>4. CASE Dies
  BY FreeOfReleases, <1>4 DEF SwitchTypeOK, PlanHasAWorkspace, DownHasNothing, PausesAreKept, Draining, InAPass, Flagged, Switches, jobs, pausing, Dies
<1>5. CASE \E r \in Roots : OthersTake(r)
  BY <1>5 DEF SwitchTypeOK, PlanHasAWorkspace, DownHasNothing, PausesAreKept, Draining, InAPass, Flagged, Switches, jobs, pausing, OthersTake
<1>6. CASE \E r \in Roots : OthersLeave(r)
  BY FreeOfReleases, <1>6 DEF SwitchTypeOK, PlanHasAWorkspace, DownHasNothing, PausesAreKept, Draining, InAPass, Flagged, Switches, jobs, pausing, OthersLeave
<1>7. CASE \E r \in Roots : Asks(r)
  BY <1>7 DEF SwitchTypeOK, PlanHasAWorkspace, DownHasNothing, PausesAreKept, Draining, InAPass, Flagged, Switches, jobs, pausing, Asks
<1>8. CASE \E r \in Roots : CopySelects(r)
  BY <1>8 DEF SwitchTypeOK, PlanHasAWorkspace, DownHasNothing, PausesAreKept, Draining, InAPass, Flagged, Switches, jobs, pausing, CopySelects
<1>9. CASE JobStep
  BY JobStepKeepsTheRest, <1>9 DEF SwitchTypeOK, PlanHasAWorkspace, DownHasNothing, PausesAreKept, Draining, InAPass, Flagged, Switches, jobs, pausing
<1>10. CASE SavingFails
  BY <1>10 DEF SavingFails, Latches, SwitchTypeOK, PlanHasAWorkspace, DownHasNothing, PausesAreKept, Draining, InAPass, Flagged, Switches, jobs, pausing
<1>11. CASE ResumesStorage
  BY <1>11 DEF ResumesStorage, Latches, SwitchTypeOK, PlanHasAWorkspace, DownHasNothing, PausesAreKept, Draining, InAPass, Flagged, Switches, jobs, pausing
<1>12. CASE WorkerStep
  BY <1>12 DEF WorkerStep, PassBegins, PassReaps, PassClaims, PassEnds, ThreadEnds, TrackedEnds, Latches, Draining, InAPass, Flagged, SwitchTypeOK, PlanHasAWorkspace, DownHasNothing, PausesAreKept, Draining, InAPass, Flagged, Switches, jobs, pausing
<1>13. CASE SwitchStep
  <2>1. CASE Declines
    BY <2>1 DEF SwitchTypeOK, PlanHasAWorkspace, DownHasNothing, PausesAreKept, Draining, InAPass, Flagged, Switches, jobs, pausing, Declines, At, Places
  <2>2. CASE TakesTheLock
    BY HeldWithAcquires, <2>2 DEF SwitchTypeOK, PlanHasAWorkspace, DownHasNothing, PausesAreKept, Draining, InAPass, Flagged, Switches, jobs, pausing, TakesTheLock, At, Places
  <2>3. CASE Stops
    BY SwitchGoesOn, <2>3 DEF SwitchTypeOK, PlanHasAWorkspace, DownHasNothing, PausesAreKept, Draining, InAPass, Flagged, Switches, jobs, pausing, Stops, At, Places
  <2>4. CASE Joins
    BY SwitchGoesOn, <2>4 DEF SwitchTypeOK, PlanHasAWorkspace, DownHasNothing, PausesAreKept, Draining, InAPass, Flagged, Switches, jobs, pausing, Joins, At, Places
  <2>5. CASE TimesOut
    BY SwitchGoesOn, <2>5 DEF SwitchTypeOK, PlanHasAWorkspace, DownHasNothing, PausesAreKept, Draining, InAPass, Flagged, Switches, jobs, pausing, TimesOut, At, Places
  <2>6. CASE Checks
    BY SwitchGoesOn, <2>6 DEF SwitchTypeOK, PlanHasAWorkspace, DownHasNothing, PausesAreKept, Draining, InAPass, Flagged, Switches, jobs, pausing, Checks, AnyRunning, At, Places
  <2>7. CASE Reaps
    BY SwitchGoesOn, <2>7 DEF SwitchTypeOK, PlanHasAWorkspace, DownHasNothing, PausesAreKept, Draining, InAPass, Flagged, Switches, jobs, pausing, Reaps, Latches, At, Places
  <2>8. CASE Adopts
    BY SwitchGoesOn, <2>8 DEF SwitchTypeOK, PlanHasAWorkspace, DownHasNothing, PausesAreKept, Draining, InAPass, Flagged, Switches, jobs, pausing, Adopts, At, Places
  <2>9. CASE Reroots
    BY SwitchGoesOn, <2>9 DEF SwitchTypeOK, PlanHasAWorkspace, DownHasNothing, PausesAreKept, Draining, InAPass, Flagged, Switches, jobs, pausing, Reroots, RerootsOnto, PausesLeft, At, Places
  <2>10. CASE ReleasesTheOld
    BY FreeOfReleases, SwitchGoesOn, <2>10 DEF SwitchTypeOK, PlanHasAWorkspace, DownHasNothing, PausesAreKept, Draining, InAPass, Flagged, Switches, jobs, pausing, ReleasesTheOld, At, Places
  <2>11. CASE Starts
    BY <2>11 DEF SwitchTypeOK, PlanHasAWorkspace, DownHasNothing, PausesAreKept, Draining, InAPass, Flagged, Switches, jobs, pausing, Starts, StartsTheThread, Latches, At, Places
  <2>12. CASE Undoes
    BY FreeOfReleases, SwitchGoesOn, <2>12 DEF SwitchTypeOK, PlanHasAWorkspace, DownHasNothing, PausesAreKept, Draining, InAPass, Flagged, Switches, jobs, pausing, Undoes, At, Places
  <2>13. CASE Restarts
    BY <2>13 DEF SwitchTypeOK, PlanHasAWorkspace, DownHasNothing, PausesAreKept, Draining, InAPass, Flagged, Switches, jobs, pausing, Restarts, StartsTheThread, Latches, At, Places
  <2> QED BY <1>13, <2>1, <2>2, <2>3, <2>4, <2>5, <2>6, <2>7, <2>8, <2>9, <2>10, <2>11, <2>12, <2>13 DEF SwitchStep
<1> QED BY <1>1, <1>2, <1>3, <1>4, <1>5, <1>6, <1>7, <1>8, <1>9, <1>10, <1>11, <1>12, <1>13 DEF SwitchNext

\* Steps that leave the locks and the switch alone.
LEMMA LocksLeftAlone ==
  ASSUME LocksOfASwitch, Ours' = Ours, UNCHANGED <<phase, root, kept, switch, stuck>>
  PROVE  LocksOfASwitch'
BY DEF LocksOfASwitch, Entering, At

\* Steps of a switch between taking the new lock and rerooting.
LEMMA LocksWhileEntering ==
  ASSUME SwitchTypeOK, LocksOfASwitch, UNCHANGED <<phase, root, locks, kept, stuck>>,
         switch # None, switch.at \in {"stop", "join", "check", "reap", "adopt"},
         NEW place \in {"join", "check", "reap", "adopt", "reroot", "undo"}, Goes(place)
  PROVE  LocksOfASwitch'
<1>1. switch' # None /\ switch'.at = place /\ switch'.to = switch.to
  BY SwitchGoesOn DEF SwitchTypeOK, Places
<1>2. Entering' = Entering /\ ~At("release") /\ ~At("release")' /\ Ours' = Ours
  BY <1>1 DEF Entering, At, Ours
<1> QED BY <1>2 DEF LocksOfASwitch

\* The locks.
LEMMA StepKeepsLocks == IInv /\ SwitchNext => LocksOfASwitch'
<1> SUFFICES ASSUME SwitchTypeOK, DownHasNothing, LocksOfASwitch, SwitchNext PROVE LocksOfASwitch'
  BY DEF IInv
<1> USE SwitchAssumption
<1>1. ASSUME NEW r \in Roots \cup {None}, Boots(r) PROVE LocksOfASwitch'
  <2>1. Ours' = {r} \ {None}
    <3>1. CASE r = None
      BY <1>1, <3>1 DEF Boots, DownHasNothing, Ours
    <3>2. CASE r # None
      BY <1>1, <3>2, HeldWithAcquires DEF Boots, DownHasNothing
    <3> QED BY <3>1, <3>2
  <2>2. Entering' = {} /\ ~At("release")' /\ stuck' = {} /\ root' = r /\ kept' = r
    BY <1>1 DEF Boots, DownHasNothing, Entering, At
  <2> QED BY <2>1, <2>2 DEF LocksOfASwitch
<1>2. CASE Serves
  <2>1. Ours' = Ours /\ Entering' = {} /\ Entering = {} /\ ~At("release")' /\ ~At("release")
    BY <1>2 DEF Serves, DownHasNothing, Entering, At, Ours
  <2> QED BY <1>2, <2>1 DEF Serves, LocksOfASwitch
<1>3. CASE StopsServing \/ Dies
  BY <1>3 DEF StopsServing, Dies, LocksOfASwitch
<1>4. CASE \E r \in Roots : OthersTake(r) \/ OthersLeave(r)
  <2>1. Ours' = Ours
    BY <1>4 DEF OthersTake, OthersLeave, FreeOf, Ours, SwitchTypeOK
  <2> QED BY <1>4, <2>1, LocksLeftAlone DEF OthersTake, OthersLeave
<1>5. CASE \E r \in Roots : Asks(r) \/ CopySelects(r)
  <2>1. switch = None /\ switch'.at = "asked"
    <3>1. PICK r \in Roots : Asks(r) \/ CopySelects(r)
      BY <1>5
    <3>2. CASE Asks(r)
      BY <3>2 DEF Asks
    <3>3. CASE CopySelects(r)
      BY <3>3 DEF CopySelects
    <3> QED BY <3>1, <3>2, <3>3
  <2>2. Entering = {} /\ Entering' = {} /\ ~At("release") /\ ~At("release")' /\ Ours' = Ours
    BY <1>5, <2>1 DEF Asks, CopySelects, Entering, At, Ours
  <2> QED BY <1>5, <2>2 DEF Asks, CopySelects, LocksOfASwitch
<1>6. CASE JobStep
  BY <1>6, JobStepKeepsTheRest, LocksLeftAlone DEF Ours
<1>7. CASE SavingFails \/ ResumesStorage
  BY <1>7, LocksLeftAlone DEF SavingFails, ResumesStorage, Ours
<1>8. CASE WorkerStep
  BY <1>8, LocksLeftAlone DEF WorkerStep, PassBegins, PassReaps, PassClaims, PassEnds, ThreadEnds, TrackedEnds, Ours
<1>9. CASE SwitchStep
  <2>1. CASE Declines
    <3>1. Entering = {} /\ Entering' = {} /\ ~At("release") /\ ~At("release")' /\ Ours' = Ours
      BY <2>1 DEF Declines, Entering, At, Ours
    <3> QED BY <2>1, <3>1 DEF Declines, LocksOfASwitch
  <2>2. CASE TakesTheLock
    <3>1. /\ switch \in Switches /\ switch.to \in Roots
          /\ switch' # None /\ switch'.at = "stop" /\ switch'.to = switch.to
      BY <2>2, SwitchHasTheLock DEF SwitchTypeOK, TakesTheLock, At, Switches
    <3>2. Ours' = Ours \cup {switch.to} /\ switch.to \notin Ours
      BY <2>2, <3>1, HeldWithAcquires DEF TakesTheLock, Ours
    <3>3. Entering = {} /\ Entering' = {switch.to} /\ ~At("release") /\ ~At("release")'
      BY <2>2, <3>1 DEF TakesTheLock, Entering, At
    <3> QED BY <2>2, <3>1, <3>2, <3>3 DEF TakesTheLock, LocksOfASwitch
  <2>3. CASE Stops \/ Joins \/ TimesOut \/ Checks \/ Reaps \/ Adopts
    <3>1. PICK place \in {"join", "check", "reap", "adopt", "reroot", "undo"} : Goes(place)
      BY <2>3 DEF Stops, Joins, TimesOut, Checks, Reaps, Adopts
    <3>2. switch # None /\ switch.at \in {"stop", "join", "check", "reap", "adopt"}
      BY <2>3 DEF Stops, Joins, TimesOut, Checks, Reaps, Adopts, At
    <3>3. UNCHANGED <<phase, root, locks, kept, stuck>>
      BY <2>3 DEF Stops, Joins, TimesOut, Checks, Reaps, Adopts
    <3> QED BY <3>1, <3>2, <3>3, LocksWhileEntering
  <2>4. CASE Reroots
    <3>1. switch' # None /\ switch'.at = "release" /\ switch'.to = switch.to
      BY <2>4, SwitchGoesOn DEF SwitchTypeOK, Reroots, At, Places
    <3>2. Entering' = Entering /\ At("release")' /\ Ours' = Ours
      BY <2>4, <3>1 DEF Reroots, Entering, At, Ours
    <3> QED BY <2>4, <3>1, <3>2 DEF Reroots, RerootsOnto, LocksOfASwitch
  <2>5. CASE ReleasesTheOld
    <3>1. At("release") /\ Entering = {switch.to} /\ root' = root
      BY <2>5 DEF ReleasesTheOld, Entering, At
    <3>2. Entering' = {} /\ ~At("release")'
      BY <2>5, SwitchGoesOn DEF SwitchTypeOK, ReleasesTheOld, Entering, At, Places
    <3>3. switch.to \in Roots
      BY <3>1 DEF SwitchTypeOK, Switches, At
    <3>4. CASE Goes("start") /\ locks' = FreeOf({kept}) /\ UNCHANGED stuck
      <4>1. Ours' = Ours \ {kept}
        BY <3>4, FreeOfReleases
      <4> QED BY <2>5, <3>1, <3>2, <3>3, <3>4, <4>1 DEF ReleasesTheOld, LocksOfASwitch
    <3>5. CASE kept # None /\ switch' = None /\ stuck' = stuck \cup {kept} /\ UNCHANGED locks
      BY <2>5, <3>1, <3>2, <3>3, <3>5 DEF ReleasesTheOld, LocksOfASwitch, Ours
    <3> QED BY <2>5, <3>4, <3>5 DEF ReleasesTheOld
  <2>6. CASE Starts \/ Restarts
    <3>1. Entering = {} /\ Entering' = {} /\ ~At("release") /\ ~At("release")' /\ Ours' = Ours
      BY <2>6 DEF Starts, Restarts, StartsTheThread, Entering, At, Ours
    <3> QED BY <2>6, <3>1 DEF Starts, Restarts, StartsTheThread, LocksOfASwitch
  <2>7. CASE Undoes
    <3>1. Entering = {switch.to} /\ ~At("release") /\ switch.to \in Roots
      BY <2>7 DEF Undoes, Entering, At, SwitchTypeOK, Switches
    <3>2. Entering' = {} /\ ~At("release")'
      BY <2>7, SwitchGoesOn DEF SwitchTypeOK, Undoes, Entering, At, Places
    <3>3. CASE Goes("restart") /\ locks' = FreeOf({switch.to}) /\ UNCHANGED stuck
      <4>1. Ours' = Ours \ {switch.to}
        BY <3>3, FreeOfReleases
      <4> QED BY <2>7, <3>1, <3>2, <3>3, <4>1 DEF Undoes, LocksOfASwitch
    <3>4. CASE switch' = None /\ stuck' = stuck \cup {switch.to} /\ UNCHANGED locks
      BY <2>7, <3>1, <3>2, <3>4 DEF Undoes, LocksOfASwitch, Ours
    <3> QED BY <2>7, <3>3, <3>4 DEF Undoes
  <2> QED BY <1>9, <2>1, <2>2, <2>3, <2>4, <2>5, <2>6, <2>7 DEF SwitchStep
<1> QED BY <1>1, <1>2, <1>3, <1>4, <1>5, <1>6, <1>7, <1>8, <1>9 DEF SwitchNext

----------------------------------------------------------------------------
(* The theorems *)

LEMMA InitHolds == SwitchInit => IInv
BY SwitchAssumption DEF SwitchInit, IInv, SwitchTypeOK, PlanHasAWorkspace, DownHasNothing,
  LocksOfASwitch, SwitchPrepares, PausesAreKept, Phases, Ours

LEMMA StutterHolds == IInv /\ UNCHANGED switchVars => IInv'
BY DEF switchVars, IInv, SwitchTypeOK, PlanHasAWorkspace, DownHasNothing, LocksOfASwitch,
  Entering, At, SwitchPrepares, PausesAreKept, Ours, jobs, pausing

\* The invariant that the theorems below rest on: how far a switch has come is
\* told by the locks, the worker and the pauses alone.
THEOREM SwitchInvariantHolds == SwitchSpec => []IInv
<1>1. IInv /\ [SwitchNext]_switchVars => IInv'
  BY StutterHolds, StepKeepsType, StepKeepsPlan, StepKeepsDown, StepKeepsPrepares,
     StepKeepsPauses, StepKeepsLocks DEF IInv
<1> QED BY InitHolds, <1>1, PTL DEF SwitchSpec

\* Type correctness.
THEOREM SwitchTypeCorrect == SwitchSpec => []SwitchTypeOK
BY SwitchInvariantHolds, PTL DEF IInv

\* `_select`: the new workspace's lock is taken before the plan is left, and
\* the old one's removed after, so the worker never drains a plan whose
\* workspace another studio may enter.
THEOREM WorkAlwaysHoldsItsWorkspace == SwitchSpec => []WorkHoldsItsWorkspace
<1>1. IInv => WorkHoldsItsWorkspace
  <2> SUFFICES ASSUME IInv, phase \in {"starting", "up"}, worker \in Draining \/ tracked # "none"
               PROVE  root # None /\ locks[root] = "ours"
    BY DEF WorkHoldsItsWorkspace
  <2>1. root # None
    BY DEF IInv, SwitchTypeOK, PlanHasAWorkspace, Draining, InAPass, Flagged
  <2>2. root \in Ours
    <3>1. CASE At("release")
      BY <3>1 DEF IInv, LocksOfASwitch, Entering, At
    <3>2. CASE ~At("release")
      BY <2>1, <3>2 DEF IInv, LocksOfASwitch
    <3> QED BY <3>1, <3>2
  <2> QED BY <2>1, <2>2 DEF Ours
<1> QED BY <1>1, SwitchInvariantHolds, PTL

\* Between switches the locks held are the workspace's and the stuck ones.
THEOREM LocksAlwaysMatchTheWorkspace == SwitchSpec => []LocksMatchTheWorkspace
<1>1. IInv => LocksMatchTheWorkspace
  BY DEF IInv, LocksOfASwitch, LocksMatchTheWorkspace, Entering, At
<1> QED BY <1>1, SwitchInvariantHolds, PTL

\* A pause outlives every switch, and follows no queue but its own.
THEOREM StoragePauseAlwaysSurvives == SwitchSpec => []StoragePauseSurvives
<1>1. IInv => StoragePauseSurvives
  BY DEF IInv, PausesAreKept, StoragePauseSurvives
<1> QED BY <1>1, SwitchInvariantHolds, PTL

\* No workspace is left behind with an entry unrecorded or a thread draining.
THEOREM NothingTrackedIsEverLost == SwitchSpec => NothingTrackedIsLost
<1>1. ASSUME IInv, SwitchNext, root' # root, phase' # "down"
      PROVE  tracked = "none" /\ worker \notin Draining
  <2>1. CASE \E r \in Roots \cup {None} : Boots(r)
    BY <1>1, <2>1 DEF IInv, SwitchTypeOK, DownHasNothing, Boots, Draining, InAPass, Flagged
  <2>2. CASE Reroots
    BY <1>1, <2>2 DEF IInv, SwitchPrepares, Reroots, At
  <2>3. Reroots \/ \E r \in Roots \cup {None} : Boots(r)
    BY <1>1, JobStepKeepsTheRest
    DEF SwitchNext, Serves, StopsServing, Dies, OthersTake, OthersLeave, Asks, CopySelects,
        SavingFails, ResumesStorage, WorkerStep, PassBegins, PassReaps, PassClaims, PassEnds,
        ThreadEnds, TrackedEnds, SwitchStep, Declines, TakesTheLock, Stops, Joins, TimesOut, Checks, Reaps,
        Adopts, ReleasesTheOld, Starts, Undoes, Restarts
  <2> QED BY <2>1, <2>2, <2>3
<1>2. IInv /\ [SwitchNext]_switchVars =>
        [root' # root /\ phase' # "down" => tracked = "none" /\ worker \notin Draining]_switchVars
  BY <1>1
<1> QED BY <1>2, SwitchInvariantHolds, PTL DEF SwitchSpec, NothingTrackedIsLost

----------------------------------------------------------------------------
(* The draining thread *)

\* The thread that drains the queue is the one that the worker knows, and the
\* one that a stop() under way joins.
DrainerIsKnown ==
  /\ \A t \in Threads : Drains(t) => ref = t
  /\ \A c \in Callers : call[c] = "joining" => joined[c] = ref

ThreadInv == ThreadTypeOK /\ DrainerIsKnown

\* A loop keeps its place in `ref`, and Worker.lock for the time of a pass.
LEMMA LoopKeepsInv ==
  ASSUME ThreadInv, NEW t \in Threads, LoopStep(t)
  PROVE  ThreadInv'
<1>1. ThreadTypeOK'
  <2>1. CASE Tests(t) \/ Wakes(t) \/ Ends(t)
    BY <2>1 DEF ThreadInv, ThreadTypeOK, Tests, Wakes, Ends
  <2>2. CASE EntersPass(t)
    <3>1. /\ lock = Nobody /\ lock' = t /\ at[t] = "enter" /\ at' = [at EXCEPT ![t] = "pass"]
          /\ UNCHANGED <<ref, stopping, call, joined, wanted>>
      BY <2>2 DEF EntersPass
    <3>2. /\ \A u \in Threads : lock' = u <=> at'[u] = "pass"
          /\ \A c \in Callers : lock' = c <=> call'[c] = "started"
      BY <3>1, ThreadAssumption DEF ThreadInv, ThreadTypeOK
    <3> QED BY <3>1, <3>2 DEF ThreadInv, ThreadTypeOK
  <2>3. CASE LeavesPass(t)
    BY <2>3, ThreadAssumption DEF ThreadInv, ThreadTypeOK, LeavesPass
  <2> QED BY <2>1, <2>2, <2>3 DEF LoopStep
<1>2. DrainerIsKnown'
  <2>1. /\ UNCHANGED <<ref, call, joined>>
        /\ \A u \in Threads : Drains(u)' => Drains(u)
    BY DEF LoopStep, Tests, EntersPass, LeavesPass, Wakes, Ends, ThreadInv, ThreadTypeOK, Drains
  <2> QED BY <2>1 DEF ThreadInv, DrainerIsKnown
<1> QED BY <1>1, <1>2 DEF ThreadInv

\* start() makes a thread only when the one it knows has ended, and stop()
\* forgets only a thread that has.
LEMMA CallKeepsInv ==
  ASSUME ThreadInv, NEW c \in Callers, CallerStep(c)
  PROVE  ThreadInv'
<1>1. CASE StartBegins(c)
  <2>1. ThreadTypeOK'
    BY <1>1, ThreadAssumption DEF ThreadInv, ThreadTypeOK, StartBegins
  <2>2. DrainerIsKnown'
    BY <1>1 DEF ThreadInv, ThreadTypeOK, DrainerIsKnown, StartBegins, Drains
  <2> QED BY <2>1, <2>2 DEF ThreadInv
<1>2. CASE StartFindsThread(c) \/ StartRaises(c)
  <2>1. ThreadTypeOK'
    BY <1>2, ThreadAssumption DEF ThreadInv, ThreadTypeOK, StartFindsThread, StartRaises
  <2>2. DrainerIsKnown'
    BY <1>2 DEF ThreadInv, ThreadTypeOK, DrainerIsKnown, StartFindsThread, StartRaises, Drains
  <2> QED BY <2>1, <2>2 DEF ThreadInv
<1>3. CASE StartMakesThread(c)
  <2>1. PICK t \in Threads : ~Alive(t) /\ at' = [at EXCEPT ![t] = "test"] /\ ref' = t
    BY <1>3 DEF StartMakesThread
  <2>2. /\ call[c] = "started" /\ lock' = Nobody /\ wanted' = TRUE
        /\ call' = [call EXCEPT ![c] = "none"] /\ UNCHANGED <<stopping, joined>>
    BY <1>3 DEF StartMakesThread
  <2>3. ThreadTypeOK'
    BY <2>1, <2>2, ThreadAssumption DEF ThreadInv, ThreadTypeOK, Alive
  <2>4. \A u \in Threads : ~Drains(u)
    <3>1. ~is_running
      BY <1>3 DEF StartMakesThread
    <3> QED BY <3>1, ThreadAssumption DEF ThreadInv, DrainerIsKnown, is_running, Alive, Drains
  <2>5. \A u \in Threads : Drains(u)' => u = t
    BY <2>1, <2>4 DEF ThreadInv, ThreadTypeOK, Drains
  <2>6. \A d \in Callers : call'[d] # "joining"
    BY <2>2, ThreadAssumption DEF ThreadInv, ThreadTypeOK
  <2> QED BY <2>1, <2>3, <2>5, <2>6 DEF ThreadInv, DrainerIsKnown
<1>4. CASE StopBegins(c)
  <2>1. ThreadTypeOK'
    BY <1>4 DEF ThreadInv, ThreadTypeOK, StopBegins
  <2>2. DrainerIsKnown'
    BY <1>4 DEF ThreadInv, ThreadTypeOK, DrainerIsKnown, StopBegins, Drains
  <2> QED BY <2>1, <2>2 DEF ThreadInv
<1>5. CASE StopFindsNone(c) \/ StopTimesOut(c)
  <2>1. ThreadTypeOK'
    BY <1>5 DEF ThreadInv, ThreadTypeOK, StopFindsNone, StopTimesOut
  <2>2. DrainerIsKnown'
    BY <1>5 DEF ThreadInv, ThreadTypeOK, DrainerIsKnown, StopFindsNone, StopTimesOut, Drains
  <2> QED BY <2>1, <2>2 DEF ThreadInv
<1>6. CASE StopSeesEnd(c)
  <2>1. ThreadTypeOK'
    BY <1>6 DEF ThreadInv, ThreadTypeOK, StopSeesEnd
  <2>2. \A u \in Threads : ~Drains(u)'
    BY <1>6 DEF ThreadInv, DrainerIsKnown, StopSeesEnd, Alive, Drains
  <2>3. \A d \in Callers : call'[d] # "joining"
    BY <1>6, ThreadAssumption DEF ThreadInv, ThreadTypeOK, StopSeesEnd
  <2> QED BY <2>1, <2>2, <2>3 DEF ThreadInv, DrainerIsKnown
<1> QED BY <1>1, <1>2, <1>3, <1>4, <1>5, <1>6 DEF CallerStep

\* Types, and who has Worker.lock; the drainer is the thread that is known.
THEOREM ThreadInvariantHolds == ThreadSpec => []ThreadInv
<1>1. ThreadInit => ThreadInv
  BY ThreadAssumption
     DEF ThreadInit, ThreadInv, ThreadTypeOK, DrainerIsKnown, Drains
<1>2. ThreadInv /\ [ThreadNext]_threadVars => ThreadInv'
  <2> SUFFICES ASSUME ThreadInv, [ThreadNext]_threadVars PROVE ThreadInv'
    OBVIOUS
  <2>1. CASE UNCHANGED threadVars
    BY <2>1 DEF threadVars, ThreadInv, ThreadTypeOK, DrainerIsKnown, Drains
  <2> QED BY <2>1, LoopKeepsInv, CallKeepsInv DEF ThreadNext
<1> QED BY <1>1, <1>2, PTL DEF ThreadSpec

\* However starts, stops and joins that time out fall, one thread drains the
\* queue, and none is in a pass while is_running() answers False.
THEOREM OneThreadAlwaysDrains == ThreadSpec => []OneThreadDrains
<1>1. ThreadInv => OneThreadDrains
  BY ThreadAssumption DEF ThreadInv, DrainerIsKnown, OneThreadDrains, Drains, is_running, Alive
<1> QED BY <1>1, ThreadInvariantHolds, PTL

----------------------------------------------------------------------------
(* The lock file *)

\* Whose pid a lock file tells: its creator's, and while that process lives,
\* the creator has the lock.
PidIsTheHolders == ReadPid \in alive => stage[file.by] = "held"

LockInv == LockTypeOK /\ PidIsTheHolders

\* A file without a pid and a file that is gone refuse nobody.
LEMMA NoPidNoHolder ==
  ASSUME LockInv, ReadPid' = Absent,
         stage' \in [Tasks -> {"idle", "create", "recreate", "read", "unlink", "write", "held"}],
         file' \in File \cup {Absent}, alive' \subseteq Pids
  PROVE  LockInv'
BY LockAssumption DEF LockInv, LockTypeOK, PidIsTheHolders

\* Each step of acquire() and release(), by a task whose process is alive.
LEMMA TaskKeepsInv ==
  ASSUME LockInv, NEW a \in Tasks, Acquires(a) \/ AcquireStep(a) \/ Releases(a)
  PROVE  LockInv'
<1>1. stage' \in [Tasks -> {"idle", "create", "recreate", "read", "unlink", "write", "held"}]
  BY DEF LockInv, LockTypeOK, Acquires, AcquireStep, Creates, FindsFile, Writes, Refused,
         JudgesStale, Unlinks, Releases, Moves
<1>2. UNCHANGED alive
  BY DEF Acquires, AcquireStep, Creates, FindsFile, Writes, Refused, JudgesStale, Unlinks, Releases
<1>3. CASE UNCHANGED file /\ stage[a] # "held"
  <2>1. \A b \in Tasks : stage[b] = "held" => stage'[b] = "held"
    BY <1>3 DEF LockInv, LockTypeOK, Acquires, AcquireStep, Creates, FindsFile, Writes, Refused,
                JudgesStale, Unlinks, Releases, Moves
  <2>2. ReadPid \in alive => file.by \in Tasks
    BY LockAssumption DEF LockInv, LockTypeOK, ReadPid, File
  <2> QED BY <1>1, <1>2, <1>3, <2>1, <2>2 DEF LockInv, LockTypeOK, PidIsTheHolders, ReadPid
<1>4. CASE Acquires(a) \/ FindsFile(a) \/ Refused(a) \/ JudgesStale(a)
  BY <1>3, <1>4 DEF Acquires, FindsFile, Refused, JudgesStale, Moves
<1>5. CASE Unlinks(a) \/ Releases(a)
  BY <1>1, <1>2, <1>5, NoPidNoHolder DEF Unlinks, Releases, ReadPid, LockInv, LockTypeOK
<1>6. CASE Creates(a)
  <2>1. file' = [by |-> a, pid |-> Absent] /\ file' \in File
    BY <1>6 DEF Creates, File
  <2>2. ReadPid' = Absent
    BY <2>1 DEF ReadPid
  <2> QED BY <1>1, <1>2, <2>1, <2>2, NoPidNoHolder DEF LockInv, LockTypeOK
<1>7. CASE Writes(a)
  <2>1. stage[a] = "write" /\ stage'[a] = "held"
    BY <1>7 DEF Writes, Moves, LockInv, LockTypeOK
  <2>2. CASE UNCHANGED file
    BY <1>3, <2>1, <2>2
  <2>3. CASE file # Absent /\ file.by = a /\ file' = [file EXCEPT !.pid = PidOf[a]]
    <3>1. file' \in File /\ file'.by = a /\ file'.pid = PidOf[a]
      BY <2>3, LockAssumption DEF LockInv, LockTypeOK, File
    <3> QED BY <1>1, <1>2, <2>1, <3>1 DEF LockInv, LockTypeOK, PidIsTheHolders, ReadPid
  <2> QED BY <1>7, <2>2, <2>3 DEF Writes
<1> QED BY <1>4, <1>5, <1>6, <1>7 DEF AcquireStep

\* A process that ends is no longer alive, and a new one has another pid.
LEMMA ProcessKeepsInv ==
  ASSUME LockInv, NEW p \in Pids, Exits(p) \/ Spawns(p)
  PROVE  LockInv'
<1>1. LockTypeOK'
  BY DEF LockInv, LockTypeOK, Exits, Spawns, ReadPid
<1>2. UNCHANGED file
  BY DEF Exits, Spawns
<1>3. ASSUME ReadPid \in alive
      PROVE  file.by \in Tasks /\ ReadPid = PidOf[file.by] /\ stage[file.by] = "held"
  BY <1>3, LockAssumption DEF LockInv, LockTypeOK, PidIsTheHolders, ReadPid, File
<1>4. UNCHANGED ReadPid
  BY <1>2 DEF ReadPid
<1>5. CASE Exits(p)
  <2>1. /\ alive' = alive \ {p}
        /\ \A a \in Tasks : PidOf[a] # p => stage'[a] = stage[a]
    BY <1>5 DEF Exits
  <2> QED BY <1>1, <1>2, <1>3, <1>4, <2>1 DEF LockInv, PidIsTheHolders
<1>6. CASE Spawns(p)
  <2>1. ReadPid # p
    BY <1>6, LockAssumption DEF Spawns, ReadPid
  <2>2. alive' = alive \cup {p} /\ UNCHANGED stage
    BY <1>6 DEF Spawns
  <2> QED BY <1>1, <1>2, <1>3, <1>4, <2>1, <2>2 DEF LockInv, PidIsTheHolders
<1> QED BY <1>5, <1>6

\* A pid in a lock file is that of its creator's process, whatever takeovers and
\* releases fall between the creation and the write, and tells a holder.
THEOREM LockInvariantHolds == LockSpec => []LockInv
<1>1. LockInit => LockInv
  BY LockAssumption DEF LockInit, LockInv, LockTypeOK, PidIsTheHolders, ReadPid
<1>2. LockInv /\ [LockNext]_lockVars => LockInv'
  <2> SUFFICES ASSUME LockInv, [LockNext]_lockVars PROVE LockInv'
    OBVIOUS
  <2>1. CASE UNCHANGED lockVars
    BY <2>1 DEF lockVars, LockInv, LockTypeOK, PidIsTheHolders, ReadPid
  <2> QED BY <2>1, TaskKeepsInv, ProcessKeepsInv DEF LockNext
<1> QED BY <1>1, <1>2, PTL DEF LockSpec

\* A task is refused only for a thread of a live process that has the lock.
THEOREM RefusalsAlwaysHaveAHolder == LockSpec => []RefusalsHaveAHolder
<1>1. LockInv => RefusalsHaveAHolder
  <2> SUFFICES ASSUME LockInv, ReadPid \in alive
               PROVE  \E a \in Tasks : PidOf[a] = ReadPid /\ stage[a] = "held"
    BY DEF RefusalsHaveAHolder
  <2>1. file.by \in Tasks /\ ReadPid = PidOf[file.by]
    BY LockAssumption DEF LockInv, LockTypeOK, ReadPid, File
  <2> QED BY <2>1 DEF LockInv, PidIsTheHolders
<1> QED BY <1>1, LockInvariantHolds, PTL
=============================================================================
