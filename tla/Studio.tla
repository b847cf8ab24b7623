------------------------------- MODULE Studio -------------------------------
(***************************************************************************)
(* The studio process around the job queue: the worker's passes, the job   *)
(* threads, the routes that change the plan, and the lock files the work   *)
(* needs (studio/worker.py, studio/jobs.py, studio/api.py).                *)
(*                                                                         *)
(* Worker.lock makes a sequence of queue calls one decision; `holder` is   *)
(* what its holder is in the middle of.  The job threads, other processes  *)
(* and the DELETE route do not take it, so their steps fall between the    *)
(* steps of whoever holds it.  The lock files are abstract here: taken or  *)
(* free, and free again when their process dies (PidLock has the files).   *)
(***************************************************************************)
EXTENDS JobQueue

CONSTANTS
  Locks,       \* the .lock files of the events, the .stream.lock files
  LocksOf,     \* which of them the work of an entry needs, by its params
  Stoppable,   \* kinds whose starter takes a cancel token
  Counted,     \* kinds with a progress_unit: their work reports readings
  Unguarded,   \* kinds whose runner may raise past its own status: _run (render)
  Outside,     \* a lock holder that is no queued job: the CLI, a direct route
  Pending,     \* the threadless job of an entry whose failure is not saved yet
  NoJob        \* a job id nothing uses: it stands for a fresh uuid4

Job == [entry : Ids, status : {"running", "done", "failed", "stopped"},
        at : {"working", "closing", "gone"}, stop : BOOLEAN]

ASSUME StudioAssumption ==
  /\ LocksOf \in [Ids -> SUBSET Locks]
  /\ Stoppable \subseteq Kinds /\ Counted \subseteq Kinds /\ Unguarded \subseteq Kinds
  /\ NoJob \notin Job
  /\ {None, Outside, Pending} \cap Jobs = {}
  /\ None # Outside /\ None # Pending

VARIABLES
  holder,    \* what the thread that holds Worker.lock is doing
  tracked,   \* Worker._running: the job of an entry
  unsaved,   \* Worker._deferred: entries whose return to the queue is not saved
  job,       \* the studio.jobs.Job objects and their threads
  heldBy     \* the holder of each lock file

studioVars == <<vars, holder, tracked, unsaved, job, heldBy>>

Idle == [op |-> "idle"]

Busy(e) == {l \in LocksOf[e] : heldBy[l] # None}
Blocked == {e \in Ids : Busy(e) # {}}

\* A job whose thread is gone and that nothing tracks is only history.
Settled(jobs, running) ==
  [j \in Jobs |-> IF /\ jobs[j] # NoJob /\ jobs[j].at = "gone"
                     /\ \A e \in Ids : running[e] # j
                  THEN NoJob ELSE jobs[j]]

\* No row still names a fresh job, and nothing in the process a fresh entry.
FreshJob(j) ==
  /\ job[j] = NoJob
  /\ \A e \in InPlan(entries) : entries[e].job # j

FreshId(e, after) ==
  /\ Fresh(e, after)
  /\ tracked[e] = None
  /\ \A j \in Jobs : job[j] # NoJob => job[j].entry # e

StatusOf(e) == IF tracked[e] = Pending THEN "failed" ELSE job[tracked[e]].status

----------------------------------------------------------------------------
(* One pass of the worker: reap, then claim and start until nothing is     *)
(* left to claim.  A queue call that could not be saved ends the pass.     *)

\* The reap goes through a dict in an order of its own.
PassBegins ==
  /\ phase = "serving" /\ holder = Idle
  /\ \E left \in Arrangements({e \in Ids : tracked[e] # None}) :
       holder' = [op |-> "reap", left |-> left]
  /\ UNCHANGED <<vars, tracked, unsaved, job, heldBy>>

ReapDeferred(e) ==
  /\ holder.op = "reap"
  /\ e \in unsaved
  /\ Defer(e)
  /\ IF entries' # entries
     THEN unsaved' = unsaved \ {e} /\ UNCHANGED holder
     ELSE holder' = Idle /\ UNCHANGED unsaved
  /\ UNCHANGED <<tracked, job, heldBy>>

\* Faulty variant: the first job that still runs ends the reap.
ReapRunningBreaks(e) ==
  /\ holder.op = "reap" /\ unsaved = {} /\ holder.left # <<>> /\ e = Head(holder.left)
  /\ StatusOf(e) = "running"
  /\ holder' = [op |-> "claim", passed |-> {}]
  /\ UNCHANGED <<vars, tracked, unsaved, job, heldBy>>

\* A job that is still running is left for a later pass.
ReapRunning(e) ==
  /\ holder.op = "reap" /\ unsaved = {} /\ holder.left # <<>> /\ e = Head(holder.left)
  /\ StatusOf(e) = "running"
  /\ holder' = [holder EXCEPT !.left = Tail(@)]
  /\ UNCHANGED <<vars, tracked, unsaved, job, heldBy>>

Reap(e) ==
  /\ holder.op = "reap" /\ unsaved = {} /\ holder.left # <<>> /\ e = Head(holder.left)
  /\ StatusOf(e) # "running"
  /\ MarkFinished(e, StatusOf(e), "ended")
  /\ IF entries' # entries
     THEN /\ tracked' = [tracked EXCEPT ![e] = None]
          /\ job' = Settled(job, tracked')
          /\ holder' = [holder EXCEPT !.left = Tail(@)]
     ELSE holder' = Idle /\ UNCHANGED <<tracked, job>>
  /\ UNCHANGED <<unsaved, heldBy>>

ReapEnds ==
  /\ holder.op = "reap" /\ unsaved = {} /\ holder.left = <<>>
  /\ holder' = [op |-> "claim", passed |-> {}]
  /\ UNCHANGED <<vars, tracked, unsaved, job, heldBy>>

\* The scan claims nothing and has nothing new to say about what waits.
NothingToClaim(passed) ==
  \/ storageError
  \/ LET claimed == Claimed(passed, Blocked)
         reached == Reached(passed, Blocked)
     IN \E failed \in SUBSET reached :
          /\ failed = Unrunnable(reached, failed)
          /\ AfterScan(claimed, reached, failed, Blocked) = entries

\* The pass ends when nothing is claimed, or the claim is not saved.
Claim ==
  /\ holder.op = "claim"
  /\ \/ /\ ClaimNext(holder.passed, Blocked)
        /\ \/ \E e \in Claimed(holder.passed, Blocked) :
                /\ entries' # entries
                /\ holder' = [op |-> "start", entry |-> e, passed |-> holder.passed]
           \/ /\ entries' = entries \/ Claimed(holder.passed, Blocked) = {}
              /\ holder' = Idle
     \/ /\ NothingToClaim(holder.passed)
        /\ holder' = Idle
        /\ UNCHANGED vars
  /\ UNCHANGED <<tracked, unsaved, job, heldBy>>

\* The lock was taken between the scan's question and the starter's acquire:
\* the entry goes back to the queue, now or in the next pass's reap.
DeferClaimed ==
  /\ holder.op = "start"
  /\ LET e == holder.entry
     IN /\ Busy(e) # {}
        /\ Defer(e)
        /\ IF entries' # entries
           THEN /\ holder' = [op |-> "claim", passed |-> holder.passed \cup {e}]
                /\ UNCHANGED unsaved
           ELSE /\ holder' = Idle
                /\ unsaved' = unsaved \cup {e}
  /\ UNCHANGED <<tracked, job, heldBy>>

\* Faulty variant: a failure that could not be saved is only logged.
FailClaimedForgotten ==
  /\ holder.op = "start"
  /\ MarkFinished(holder.entry, "failed", "ended")
  /\ holder' = [op |-> "claim", passed |-> holder.passed]
  /\ UNCHANGED <<tracked, unsaved, job, heldBy>>

\* Parameters, profile or starter refuse the entry: it fails, and a failure
\* that could not be saved is left for the reap as a job that has failed.
FailClaimed ==
  /\ holder.op = "start"
  /\ LET e == holder.entry
     IN /\ MarkFinished(e, "failed", "ended")
        /\ tracked' = IF entries' # entries THEN tracked
                      ELSE [tracked EXCEPT ![e] = Pending]
        /\ holder' = [op |-> "claim", passed |-> holder.passed]
  /\ UNCHANGED <<unsaved, job, heldBy>>

\* The starter takes the locks and starts the thread; the row is told after.
StartThread(j) ==
  /\ holder.op = "start" /\ FreshJob(j)
  /\ LET e == holder.entry
     IN /\ Busy(e) = {}
        /\ heldBy' = [l \in Locks |-> IF l \in LocksOf[e] THEN j ELSE heldBy[l]]
        /\ job' = [job EXCEPT ![j] = [entry |-> e, status |-> "running",
                                      at |-> "working", stop |-> FALSE]]
        /\ tracked' = [tracked EXCEPT ![e] = j]
        /\ holder' = [op |-> "tell", entry |-> e, passed |-> holder.passed]
  /\ UNCHANGED <<vars, unsaved>>

TellJob ==
  /\ holder.op = "tell"
  /\ MarkRunning(holder.entry, None, tracked[holder.entry])
  /\ holder' = IF entries' # entries THEN [op |-> "claim", passed |-> holder.passed]
               ELSE Idle
  /\ UNCHANGED <<tracked, unsaved, job, heldBy>>

----------------------------------------------------------------------------
(* The job threads *)

\* A reading that the queue refuses or cannot save is dropped.
Report(j) ==
  /\ job[j] # NoJob /\ job[j].at = "working"
  /\ entries[job[j].entry].kind \in Counted
  /\ MarkRunning(job[j].entry, Reading, None)
  /\ UNCHANGED <<holder, tracked, unsaved, job, heldBy>>

\* Only a job that was asked to stop reports that it stopped.
Finish(j, status) ==
  /\ job[j] # NoJob /\ job[j].at = "working"
  /\ status = "stopped" => job[j].stop
  /\ job' = [job EXCEPT ![j].status = status, ![j].at = "closing"]
  /\ UNCHANGED <<vars, holder, tracked, unsaved, heldBy>>

Unlocked(j) == [l \in Locks |-> IF heldBy[l] = j THEN None ELSE heldBy[l]]

\* The runner's finally: the terminal status was there before.
Release(j) ==
  /\ job[j] # NoJob /\ job[j].at = "closing"
  /\ heldBy' = Unlocked(j)
  /\ job' = Settled([job EXCEPT ![j].at = "gone"], tracked)
  /\ UNCHANGED <<vars, holder, tracked, unsaved>>

\* An exception outside the runner's per-clip handler: the finally runs, the
\* status stays "running".
Die(j) ==
  /\ job[j] # NoJob /\ job[j].at = "working"
  /\ entries[job[j].entry].kind \in Unguarded
  /\ heldBy' = Unlocked(j)
  /\ job' = Settled([job EXCEPT ![j].at = "gone"], tracked)
  /\ UNCHANGED <<vars, holder, tracked, unsaved>>

----------------------------------------------------------------------------
(* The routes *)

\* A route under the plan lock mutates, then reads the entry back for its answer.
Answering(e) ==
  IF <<entries', order'>> # <<entries, order>> THEN [op |-> "answer", entry |-> e] ELSE Idle

EnqueueBegins(kind, after) ==
  /\ phase = "serving" /\ holder = Idle
  /\ \E e \in Ids : FreshId(e, after)
  /\ after \in InPlan(entries) \cup {None}
  /\ holder' = [op |-> "enqueue", kind |-> kind, after |-> after]
  /\ UNCHANGED <<vars, tracked, unsaved, job, heldBy>>

EnqueueEnds(e) ==
  /\ holder.op = "enqueue"
  /\ \/ /\ FreshId(e, holder.after)
        /\ Enqueue(e, holder.kind, holder.after)
        /\ holder' = Answering(e)
     \/ /\ storageError
        /\ holder' = Idle
        /\ UNCHANGED vars
  /\ UNCHANGED <<tracked, unsaved, job, heldBy>>

ChangePlan(e) ==
  /\ holder = Idle
  /\ \/ Pause(e) \/ Resume(e) \/ Retry(e)
     \/ \E index \in DOMAIN order : Move(e, index)
  /\ holder' = Answering(e)
  /\ UNCHANGED <<tracked, unsaved, job, heldBy>>

\* The answer is built from a second read of the plan.
Answer ==
  /\ holder.op = "answer"
  /\ holder' = Idle
  /\ UNCHANGED <<vars, tracked, unsaved, job, heldBy>>

\* The one mutating route that does not take Worker.lock.
RemoveRoute(e) ==
  /\ Remove(e)
  /\ UNCHANGED <<holder, tracked, unsaved, job, heldBy>>

CanStop(e) ==
  /\ e \in InPlan(entries)
  /\ tracked[e] \in Jobs
  /\ entries[e].kind \in Stoppable

\* Faulty variant: the row is moved, the job is never told.
StopBeginsUntold(e) ==
  /\ phase = "serving" /\ holder = Idle
  /\ CanStop(e)
  /\ holder' = [op |-> "stop", entry |-> e]
  /\ UNCHANGED <<vars, tracked, unsaved, job, heldBy>>

\* request_stop: the job's token first, the row after.
StopBegins(e) ==
  /\ phase = "serving" /\ holder = Idle
  /\ CanStop(e)
  /\ job' = [job EXCEPT ![tracked[e]].stop = TRUE]
  /\ holder' = [op |-> "stop", entry |-> e]
  /\ UNCHANGED <<vars, tracked, unsaved, heldBy>>

\* A stopping entry can be asked again (escalated); its row does not move.
StopEnds ==
  /\ holder.op = "stop"
  /\ \/ MarkStopping(holder.entry)
     \/ entries[holder.entry].state # "running" /\ UNCHANGED vars
  /\ holder' = Idle
  /\ UNCHANGED <<tracked, unsaved, job, heldBy>>

RepairStorage ==
  /\ holder = Idle /\ storageError
  /\ ResumeStorage
  /\ UNCHANGED <<holder, tracked, unsaved, job, heldBy>>

----------------------------------------------------------------------------
(* Other lock holders, and restarts *)

OutsideTakes(l) ==
  /\ heldBy[l] = None
  /\ heldBy' = [heldBy EXCEPT ![l] = Outside]
  /\ UNCHANGED <<vars, holder, tracked, unsaved, job>>

OutsideLeaves(l) ==
  /\ heldBy[l] = Outside
  /\ heldBy' = [heldBy EXCEPT ![l] = None]
  /\ UNCHANGED <<vars, holder, tracked, unsaved, job>>

\* Worker.start: on the first start everything active is an orphan, on a
\* later one only what this worker has no work for.
StartWorker ==
  /\ holder = Idle
  /\ Recover({e \in Ids : tracked[e] # None} \cup unsaved)
  /\ UNCHANGED <<holder, tracked, unsaved, job, heldBy>>

\* The threads and the locks of a process end with it.
StudioEnds ==
  /\ Crash
  /\ holder' = Idle
  /\ tracked' = [e \in Ids |-> None]
  /\ unsaved' = {}
  /\ job' = [j \in Jobs |-> NoJob]
  /\ heldBy' = [l \in Locks |-> IF heldBy[l] \in Jobs THEN None ELSE heldBy[l]]

StudioLoads ==
  /\ LoadPlan
  /\ UNCHANGED <<holder, tracked, unsaved, job, heldBy>>

----------------------------------------------------------------------------
StudioInit ==
  /\ Init
  /\ holder = Idle
  /\ tracked = [e \in Ids |-> None]
  /\ unsaved = {}
  /\ job = [j \in Jobs |-> NoJob]
  /\ heldBy = [l \in Locks |-> None]

WorkerStep ==
  \/ PassBegins \/ ReapEnds \/ Claim
  \/ DeferClaimed \/ FailClaimed \/ TellJob
  \/ \E e \in Ids : ReapDeferred(e) \/ ReapRunning(e) \/ Reap(e)
  \/ \E j \in Jobs : StartThread(j)

JobStep ==
  \E j \in Jobs :
    \/ Report(j) \/ Release(j) \/ Die(j)
    \/ \E status \in {"done", "failed", "stopped"} : Finish(j, status)

RouteStep ==
  \/ \E kind \in known, after \in Ids \cup {None} : EnqueueBegins(kind, after)
  \/ \E e \in Ids : EnqueueEnds(e) \/ ChangePlan(e) \/ RemoveRoute(e) \/ StopBegins(e)
  \/ Answer \/ StopEnds \/ RepairStorage

StudioNext ==
  \/ WorkerStep \/ JobStep \/ RouteStep
  \/ \E l \in Locks : OutsideTakes(l) \/ OutsideLeaves(l)
  \/ StartWorker \/ StudioEnds \/ StudioLoads

StudioSpec == StudioInit /\ [][StudioNext]_studioVars

\* The worker's loop passes again and again, and gets Worker.lock between the
\* routes; a route runs to its end; storage is repaired in the end, so a call
\* that is retried in every pass is saved in one of them.
Fairness ==
  /\ WF_studioVars(WorkerStep) /\ SF_studioVars(PassBegins)
  /\ WF_studioVars(Answer \/ StopEnds \/ \E e \in Ids : EnqueueEnds(e))
  /\ \A e \in Ids :
       /\ SF_studioVars(Reap(e) /\ entries' # entries)
       /\ SF_studioVars(ReapDeferred(e) /\ entries' # entries)

FairStudioSpec == StudioSpec /\ Fairness

----------------------------------------------------------------------------
(* Properties *)

\* The plan is well-formed, the worker tracks threads or a claim it has just
\* made, and a lock is held by a job's thread or by another process.
StudioTypeOK ==
  /\ PlanOK(entries, order)
  /\ tracked \in [Ids -> Jobs \cup {None, Pending}]
  /\ unsaved \subseteq Ids
  /\ job \in [Jobs -> Job \cup {NoJob}]
  /\ heldBy \in [Locks -> Jobs \cup {None, Outside}]
  /\ holder.op \in {"idle", "reap", "claim", "start", "tell", "enqueue", "answer", "stop"}

Working(j) == job[j] # NoJob /\ job[j].at = "working"

\* A thread never works unseen: its entry is in the plan, occupies its pool,
\* and is tracked as this thread's - so no entry has two threads at work.
EveryThreadHasItsRow ==
  \A j \in Jobs : Working(j) =>
    LET e == job[j].entry
    IN tracked[e] = j /\ e \in InPlan(entries) /\ entries[e].state \in ActiveStates

\* An active row is one the worker will come back to: between passes each has
\* a job or a return to the queue that is still to be saved.
EveryActiveRowIsTracked ==
  phase = "serving" /\ holder = Idle =>
    \A e \in InPlan(entries) :
      entries[e].state \in ActiveStates => tracked[e] # None \/ e \in unsaved

\* An entry says "stopping" only when its job has been told to stop.
StoppingWorkWasTold ==
  phase = "serving" =>
    \A e \in InPlan(entries) :
      entries[e].state = "stopping" => tracked[e] \in Jobs /\ job[tracked[e]].stop

\* Work that ended is recorded in the plan in the end, whatever storage
\* failures, other entries and routes come between.
EndedWorkIsRecorded ==
  \A e \in Ids :
    tracked[e] # None /\ StatusOf(e) # "running" ~> tracked[e] = None

Eligible(e) ==
  /\ phase = "serving" /\ ~storageError
  /\ e \in InPlan(entries) /\ entries[e].state = "queued"
  /\ Satisfied(e) /\ entries[e].kind \in known
  /\ PoolHasRoom(PoolOf[entries[e].kind])
  /\ Busy(e) = {}

\* What could start does not stay so for ever: an entry whose locks are taken
\* never holds up an entry for a different event.
NothingEligibleIsForgotten ==
  \A e \in Ids : []<>~Eligible(e)

=============================================================================
