------------------------------- MODULE Switch -------------------------------
(***************************************************************************)
(* A studio moving from one workspace to another: `_select` and            *)
(* `_switch_to` of studio/api.py, step by step, against the worker thread, *)
(* the jobs, a failing disk and the other studios that want the same       *)
(* workspaces.  One studio is modelled in full; the others are seen only   *)
(* through the StudioLock files, as that is all studios share.             *)
(***************************************************************************)
EXTENDS Naturals

CONSTANTS
  Roots,  \* workspaces
  None    \* no workspace; no switch under way

Phases == {"down", "starting", "up", "exiting"}
Places == {"asked", "stop", "join", "check", "reap", "adopt", "reroot",
           "release", "start", "undo", "restart"}
\* A call of _select: where to, the step it is at, `was_running`, `from_copy`.
Switches == [to : Roots, at : Places, was : BOOLEAN, copy : BOOLEAN]

ASSUME SwitchAssumption == None \notin Roots \cup Switches

VARIABLES
  phase,    \* the process: not there, starting, serving, on its way out
  root,     \* the workspace of channels_dir, None when none could be resolved
  locks,    \* the StudioLock file of each workspace
  kept,     \* the workspace of app.state.studio_lock
  queue,    \* app.state.job_queue is not None
  worker,   \* app.state.worker and its thread
  tracked,  \* the entry the worker tracks: none, its job running, or ended
  direct,   \* a job started by its own route is running
  copying,  \* a copy of the workspace is running
  paused,   \* the queue's storage_error is set
  pauses,   \* _storage_pauses
  switch,   \* the call that holds _reroot_lock, or is next to
  latched,  \* history: workspaces whose storage failed and was not resumed
  stuck     \* history: workspaces whose lock could not be released

jobs == <<direct, copying>>
pausing == <<paused, pauses, latched>>
switchVars == <<phase, root, locks, kept, queue, worker, tracked, jobs, pausing,
                switch, stuck>>

\* The thread is alive: between passes or in one, and the same once the stop
\* flag is set; a last pass may begin before the thread sees the flag.
InAPass == {"pass", "last"}
Draining == {"idle", "leaving", "ending"} \cup InAPass
Flagged(w) == IF w = "idle" THEN "leaving" ELSE IF w = "pass" THEN "last" ELSE w
Ours == {r \in Roots : locks[r] = "ours"}
FreeOf(s) == [r \in Roots |-> IF r \in s THEN "free" ELSE locks[r]]
HeldWith(r) == [locks EXCEPT ![r] = "ours"]
Goes(place) == switch' = [switch EXCEPT !.at = place]
At(place) == phase # "down" /\ switch # None /\ switch.at = place
\* any_running, as a request sees it and as the copy job's own call does.
AnyRunning(fromCopy) == direct \/ tracked = "running" \/ (copying /\ ~fromCopy)
\* A save that fails latches the queue's storage_error.
Latches == paused' = TRUE /\ latched' = latched \cup {root} /\ UNCHANGED pauses

-----------------------------------------------------------------------------
SwitchInit ==
  /\ phase = "down" /\ root = None /\ locks = [r \in Roots |-> "free"]
  /\ kept = None /\ queue = FALSE /\ worker = "none" /\ tracked = "none"
  /\ direct = FALSE /\ copying = FALSE /\ paused = FALSE /\ pauses = {}
  /\ switch = None /\ latched = {} /\ stuck = {}

\* cmd_studio, create_app: the lock is taken first.  A workspace that cannot
\* be resolved has neither lock nor queue, and one that can may have no queue.
Boots(r) ==
  /\ phase = "down" /\ phase' = "starting"
  /\ r # None => locks[r] = "free" /\ locks' = HeldWith(r)
  /\ r = None => UNCHANGED locks
  /\ root' = r /\ kept' = r
  /\ queue' \in IF r = None THEN {FALSE} ELSE BOOLEAN
  /\ worker' = IF queue' THEN "off" ELSE "none"
  /\ UNCHANGED <<tracked, jobs, pausing, switch, stuck>>

\* _serve_studio starts the worker there is.  If recover cannot save the plan,
\* the studio does not start: Dies.
Serves ==
  /\ phase = "starting" /\ phase' = "up"
  /\ worker' = IF queue THEN "idle" ELSE "none"
  /\ UNCHANGED <<root, locks, kept, queue, tracked, jobs, pausing, switch, stuck>>

\* The server ends: requests are over, and the lock goes.  _serve_studio stops
\* the worker it started, which after a switch is no longer the one in use.
StopsServing ==
  /\ phase = "up" /\ phase' = "exiting"
  /\ switch # None => switch.copy
  /\ locks' = FreeOf({kept})
  /\ worker' \in {worker, Flagged(worker)} \cup IF worker \in Draining THEN {"off"} ELSE {}
  /\ UNCHANGED <<root, kept, queue, tracked, jobs, pausing, switch, stuck>>

\* The process is gone: what it held in memory, and with it every lock.
Dies ==
  /\ phase # "down" /\ phase' = "down"
  /\ locks' = FreeOf(Ours)
  /\ root' = None /\ kept' = None /\ queue' = FALSE /\ worker' = "none"
  /\ tracked' = "none" /\ direct' = FALSE /\ copying' = FALSE /\ paused' = FALSE
  /\ pauses' = {} /\ switch' = None /\ latched' = {} /\ stuck' = {}

\* Another studio takes a workspace, and leaves it.
OthersTake(r) ==
  /\ locks[r] = "free" /\ locks' = [locks EXCEPT ![r] = "theirs"]
  /\ UNCHANGED <<phase, root, kept, queue, worker, tracked, jobs, pausing, switch, stuck>>

OthersLeave(r) ==
  /\ locks[r] = "theirs" /\ locks' = FreeOf({r})
  /\ UNCHANGED <<phase, root, kept, queue, worker, tracked, jobs, pausing, switch, stuck>>

-----------------------------------------------------------------------------
\* Jobs outside the queue.
DirectStarts ==
  /\ phase = "up" /\ root # None /\ ~direct /\ direct' = TRUE
  /\ UNCHANGED <<phase, root, locks, kept, queue, worker, tracked, copying, pausing, switch, stuck>>

DirectEnds ==
  /\ direct /\ direct' = FALSE
  /\ UNCHANGED <<phase, root, locks, kept, queue, worker, tracked, copying, pausing, switch, stuck>>

\* copy_workspace_route: the guard, then the job.
CopyStarts ==
  /\ phase = "up" /\ root # None /\ ~AnyRunning(FALSE) /\ copying' = TRUE
  /\ UNCHANGED <<phase, root, locks, kept, queue, worker, tracked, direct, pausing, switch, stuck>>

\* The job ends, whether or not its copy was selected.
CopyEnds ==
  /\ copying /\ copying' = FALSE
  /\ switch # None => ~switch.copy
  /\ UNCHANGED <<phase, root, locks, kept, queue, worker, tracked, direct, pausing, switch, stuck>>

\* A mutating route finds that the plan cannot be saved.
SavingFails ==
  /\ phase = "up" /\ queue /\ Latches
  /\ UNCHANGED <<phase, root, locks, kept, queue, worker, tracked, jobs, switch, stuck>>

\* resume_storage: the plan was saved.
ResumesStorage ==
  /\ phase = "up" /\ queue
  /\ paused' = FALSE /\ latched' = latched \ {root}
  /\ UNCHANGED <<phase, root, locks, kept, queue, worker, tracked, jobs, pauses, switch, stuck>>

-----------------------------------------------------------------------------
\* The worker's thread.  It holds Worker.lock for the whole of a pass.
PassBegins ==
  /\ \/ worker = "idle" /\ worker' = "pass"
     \/ worker = "leaving" /\ worker' = "last"
  /\ UNCHANGED <<phase, root, locks, kept, queue, tracked, jobs, pausing, switch, stuck>>

PassReaps ==
  /\ worker \in InAPass /\ tracked = "ended" /\ tracked' = "none"
  /\ UNCHANGED <<phase, root, locks, kept, queue, worker, jobs, pausing, switch, stuck>>

\* A start may leave nothing but a failure to record.
PassClaims ==
  /\ worker \in InAPass /\ tracked = "none" /\ ~paused
  /\ tracked' \in {"running", "ended"}
  /\ UNCHANGED <<phase, root, locks, kept, queue, worker, jobs, pausing, switch, stuck>>

\* A pass is over, by itself or because it could not save.
PassEnds ==
  /\ worker \in InAPass
  /\ worker' = IF worker = "pass" THEN "idle" ELSE "ending"
  /\ Latches \/ UNCHANGED pausing
  /\ UNCHANGED <<phase, root, locks, kept, queue, tracked, jobs, switch, stuck>>

ThreadEnds ==
  /\ worker \in {"leaving", "ending"} /\ worker' = "off"
  /\ UNCHANGED <<phase, root, locks, kept, queue, tracked, jobs, pausing, switch, stuck>>

TrackedEnds ==
  /\ tracked = "running" /\ tracked' = "ended"
  /\ UNCHANGED <<phase, root, locks, kept, queue, worker, jobs, pausing, switch, stuck>>

-----------------------------------------------------------------------------
\* The routes: _guard_reroot is asked before the lock is waited for.
Asks(to) ==
  /\ phase = "up" /\ switch = None /\ ~AnyRunning(FALSE)
  /\ switch' = [to |-> to, at |-> "asked", was |-> FALSE, copy |-> FALSE]
  /\ UNCHANGED <<phase, root, locks, kept, queue, worker, tracked, jobs, pausing, stuck>>

\* The copy is made, and its job selects it.
CopySelects(to) ==
  /\ copying /\ switch = None /\ to # root
  /\ switch' = [to |-> to, at |-> "asked", was |-> FALSE, copy |-> TRUE]
  /\ UNCHANGED <<phase, root, locks, kept, queue, worker, tracked, jobs, pausing, stuck>>

\* It is this workspace already, or somebody else's.
Declines ==
  /\ At("asked") /\ switch' = None
  /\ \/ switch.to = root
     \/ switch.to # kept /\ locks[switch.to] # "free"
  /\ UNCHANGED <<phase, root, locks, kept, queue, worker, tracked, jobs, pausing, stuck>>

\* Faulty variant: the new workspace's lock is left for later.
TakesNoLock ==
  /\ At("asked") /\ switch.to # root
  /\ switch' = [switch EXCEPT !.at = "stop", !.was = worker \in Draining]
  /\ UNCHANGED <<phase, root, locks, kept, queue, worker, tracked, jobs, pausing, stuck>>

TakesTheLock ==
  /\ At("asked") /\ switch.to # root
  /\ locks[switch.to] = "free" /\ locks' = HeldWith(switch.to)
  /\ switch' = [switch EXCEPT !.at = "stop", !.was = worker \in Draining]
  /\ UNCHANGED <<phase, root, kept, queue, worker, tracked, jobs, pausing, stuck>>

\* Worker.stop: the flag, then at most five seconds for the thread to end.
Stops ==
  /\ At("stop") /\ Goes("join")
  /\ worker' = Flagged(worker)
  /\ UNCHANGED <<phase, root, locks, kept, queue, tracked, jobs, pausing, stuck>>

Joins ==
  /\ At("join") /\ worker \notin Draining /\ Goes("check")
  /\ UNCHANGED <<phase, root, locks, kept, queue, worker, tracked, jobs, pausing, stuck>>

\* Faulty variant: the thread is waited for without a limit.
WaitsForever == FALSE

TimesOut ==
  /\ At("join") /\ worker \in Draining /\ Goes("undo")
  /\ UNCHANGED <<phase, root, locks, kept, queue, worker, tracked, jobs, pausing, stuck>>

Checks ==
  /\ At("check")
  /\ Goes(IF AnyRunning(switch.copy) THEN "undo" ELSE "reap")
  /\ UNCHANGED <<phase, root, locks, kept, queue, worker, tracked, jobs, pausing, stuck>>

\* Faulty variant: what the stopped worker tracked is not recorded.
ReapsNothing ==
  /\ At("reap") /\ Goes("adopt")
  /\ UNCHANGED <<phase, root, locks, kept, queue, worker, tracked, jobs, pausing, stuck>>

Reaps ==
  /\ At("reap")
  /\ \/ /\ Goes("adopt")
        /\ tracked' = IF tracked = "ended" THEN "none" ELSE tracked
        /\ UNCHANGED pausing
     \/ tracked = "ended" /\ Goes("undo") /\ Latches /\ UNCHANGED tracked
  /\ UNCHANGED <<phase, root, locks, kept, queue, worker, jobs, stuck>>

\* The manifest and the list of recent workspaces, whose files may not be writable.
Adopts ==
  /\ At("adopt") /\ (Goes("reroot") \/ Goes("undo"))
  /\ UNCHANGED <<phase, root, locks, kept, queue, worker, tracked, jobs, pausing, stuck>>

\* _switch_to: the pause of the workspace left is kept, the queue and worker
\* of the one entered are built, and a pause kept for it applies again.
PausesLeft ==
  IF ~queue THEN pauses ELSE IF paused THEN pauses \cup {root} ELSE pauses \ {root}

RerootsOnto(to) ==
  /\ root' = to
  /\ pauses' = PausesLeft
  /\ queue' \in BOOLEAN
  /\ paused' = (queue' /\ to \in PausesLeft)
  /\ tracked' = "none"
  /\ UNCHANGED latched

Reroots ==
  /\ At("reroot") /\ Goes("release") /\ RerootsOnto(switch.to)
  /\ worker' = IF queue' THEN "off" ELSE "none"
  /\ UNCHANGED <<phase, locks, kept, jobs, stuck>>

\* The new lock is the studio's, and the old one's file is removed, or cannot be.
ReleasesTheOld ==
  /\ At("release") /\ kept' = switch.to
  /\ \/ Goes("start") /\ locks' = FreeOf({kept}) /\ UNCHANGED stuck
     \/ kept # None /\ switch' = None /\ stuck' = stuck \cup {kept} /\ UNCHANGED locks
  /\ UNCHANGED <<phase, root, queue, worker, tracked, jobs, pausing>>

\* Worker.start takes Worker.lock first, and so waits for a pass that has not ended.
\* A thread that has not ended after that may go on or end; where there is none,
\* recover may find the plan cannot be saved.
StartsTheThread ==
  \/ worker \in {"leaving", "ending"} /\ worker' \in {"idle", "off"} /\ UNCHANGED pausing
  \/ worker = "off" /\ worker' = "idle" /\ UNCHANGED pausing
  \/ worker = "off" /\ UNCHANGED worker /\ Latches

Starts ==
  /\ At("start") /\ switch' = None
  /\ \/ switch.was /\ queue /\ StartsTheThread
     \/ ~(switch.was /\ queue) /\ UNCHANGED <<worker, pausing>>
  /\ UNCHANGED <<phase, root, locks, kept, queue, tracked, jobs, stuck>>

Undoes ==
  /\ At("undo")
  /\ \/ Goes("restart") /\ locks' = FreeOf({switch.to}) /\ UNCHANGED stuck
     \/ switch' = None /\ stuck' = stuck \cup {switch.to} /\ UNCHANGED locks
  /\ UNCHANGED <<phase, root, kept, queue, worker, tracked, jobs, pausing>>

\* The worker stopped for nothing is started again.
Restarts ==
  /\ At("restart") /\ switch' = None
  /\ \/ switch.was /\ StartsTheThread
     \/ ~switch.was /\ UNCHANGED <<worker, pausing>>
  /\ UNCHANGED <<phase, root, locks, kept, queue, tracked, jobs, stuck>>

SwitchStep ==
  \/ Declines \/ TakesTheLock \/ Stops \/ Joins \/ TimesOut \/ Checks \/ Reaps
  \/ Adopts \/ Reroots \/ ReleasesTheOld \/ Starts \/ Undoes \/ Restarts

WorkerStep ==
  PassBegins \/ PassReaps \/ PassClaims \/ PassEnds \/ ThreadEnds \/ TrackedEnds

JobStep == DirectStarts \/ DirectEnds \/ CopyStarts \/ CopyEnds

SwitchNext ==
  \/ \E r \in Roots \cup {None} : Boots(r)
  \/ Serves \/ StopsServing \/ Dies
  \/ \E r \in Roots : OthersTake(r) \/ OthersLeave(r) \/ Asks(r) \/ CopySelects(r)
  \/ JobStep \/ SavingFails \/ ResumesStorage
  \/ WorkerStep
  \/ SwitchStep

\* The thread that runs the call goes on; nothing is asked of the worker.
SwitchSpec == SwitchInit /\ [][SwitchNext]_switchVars /\ WF_switchVars(SwitchStep)

-----------------------------------------------------------------------------
\* The types; a worker and a pause belong to a queue, and a process that is
\* down has nothing.
SwitchTypeOK ==
  /\ phase \in Phases
  /\ root \in Roots \cup {None} /\ kept \in Roots \cup {None}
  /\ locks \in [Roots -> {"free", "ours", "theirs"}]
  /\ queue \in BOOLEAN /\ (~queue <=> worker = "none")
  /\ worker \in {"none", "off"} \cup Draining
  /\ tracked \in {"none", "running", "ended"}
  /\ direct \in BOOLEAN /\ copying \in BOOLEAN
  /\ paused \in BOOLEAN /\ (paused => queue)
  /\ pauses \subseteq Roots /\ latched \subseteq Roots /\ stuck \subseteq Roots
  /\ switch \in Switches \cup {None}
  /\ phase = "down" => root = None /\ kept = None /\ ~queue /\ switch = None

\* While the studio serves, its worker drains, and tracks entries of, a plan
\* only under the lock of the workspace that plan belongs to, at every step of
\* a switch and of a switch undone (lock.py, StudioLock).
WorkHoldsItsWorkspace ==
  phase \in {"starting", "up"} /\ (worker \in Draining \/ tracked # "none") =>
    root # None /\ locks[root] = "ours"

\* Between switches a serving studio holds the lock of its workspace and no
\* other, except those it tried to release and could not: a refused or failed
\* switch keeps nobody out of the workspace it did not enter.
LocksMatchTheWorkspace ==
  phase = "up" /\ switch = None =>
    /\ kept = root
    /\ Ours = ({root} \ {None}) \cup stuck

\* A studio leaves a workspace only with its worker's thread ended and every
\* entry that worker tracked recorded in the plan (`_switch_to`: "nothing this
\* worker is tracking is lost by re-pointing it here").
NothingTrackedIsLost ==
  [][root' # root /\ phase' # "down" => tracked = "none" /\ worker \notin Draining]_switchVars

\* A queue whose plan could not be saved stays paused until storage is resumed
\* there, whatever workspaces are visited in between, and no other queue is
\* paused for it (test_workspace_selection_cannot_bypass_storage_pause).
StoragePauseSurvives == queue => (paused <=> root \in latched)

WaitsForThePass ==
  /\ At("restart") /\ switch.was /\ worker = "last"
  /\ locks[switch.to] # "ours"

\* Every switch asked for is answered, although nothing makes a pass of the
\* worker end: the one that is not answered is one whose join has timed out,
\* that has given the other workspace back, and that waits in start() for a
\* pass that never ends.
SwitchIsAnswered ==
  (switch # None ~> switch = None) \/ <>[]WaitsForThePass
=============================================================================
