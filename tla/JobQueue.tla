------------------------------ MODULE JobQueue ------------------------------
(***************************************************************************)
(* The persistent job queue of yt_shorts.job_queue.JobQueue: an ordered    *)
(* plan of entries held in memory, and the jobs.json file behind it.       *)
(*                                                                         *)
(* Every public call runs under the queue's own lock (_synchronised), so   *)
(* each is one action here.  A call that changes the plan ends in save();  *)
(* when save() raises OSError the wrapper puts the plan back as it was and *)
(* latches storage_error.  What the callers owe the queue (who may call    *)
(* what, and when) is the business of the modules that compose it; Next    *)
(* below calls every operation in every order the API allows.              *)
(***************************************************************************)
EXTENDS Integers, Sequences, FiniteSets, Functions

CONSTANTS
  Ids,            \* identities of entries; one not in the plan stands for a fresh uuid4
  Kinds,          \* the job kinds that may be queued (KINDS with queueable = True)
  Pools,          \* the resources a kind saturates: cpu, net
  PoolOf,         \* KindSpec.pool
  Builds,         \* the sets of kinds the installed versions of the program know
  Jobs,           \* ids of the studio jobs that do an entry's work
  LimitChoices,   \* the pool limits an operator may set
  KeepFinished,   \* _KEEP_FINISHED
  None,           \* Python's None
  NoEntry,        \* an id that names no entry of the plan
  Corrupt         \* contents of jobs.json that do not parse

Unlimited == -1   \* a pool absent from the limits
Reasons == {"waiting", "ended"}   \* why an entry waits; how it ended
Reading == "reading"              \* any {"unit", "done", "total"}

States == {"queued", "running", "done", "failed", "stopped", "paused",
           "stopping", "interrupted"}
ActiveStates == {"running", "stopping"}
TerminalStates == {"done", "failed", "stopped", "interrupted"}

RetryableStates == {"failed", "interrupted", "stopped"}

Entry == [kind : Kinds, state : States, reason : Reasons \cup {None},
          progress : {Reading, None}, after : Ids \cup {None},
          job : Jobs \cup {None}]

ASSUME QueueAssumption ==
  /\ IsFiniteSet(Ids)
  /\ None \notin Ids \cup Jobs \cup Reasons \cup {Reading}
  /\ NoEntry \notin Entry
  /\ PoolOf \in [Kinds -> Pools]
  /\ Builds \subseteq SUBSET Kinds
  /\ LimitChoices \subseteq [Pools -> Nat \cup {Unlimited}]
  /\ LimitChoices # {}
  /\ KeepFinished \in Nat

VARIABLES
  entries,        \* JobQueue._entries as a function of the id
  order,          \* JobQueue._entries as the list of ids
  file,           \* jobs.json: a plan, or Corrupt
  storageError,   \* storage_error is not None
  limits,         \* JobQueue._limits, the workspace settings behind it included
  known,          \* the kinds table of the running build
  phase           \* down; loaded (__init__ done); serving (recover() done)

vars == <<entries, order, file, storageError, limits, known, phase>>

InPlan(ents) == {e \in Ids : ents[e] # NoEntry}
PlanOf(ents, ord) == [entries |-> ents, order |-> ord]
EmptyEntries == [e \in Ids |-> NoEntry]
EmptyPlan == PlanOf(EmptyEntries, <<>>)

----------------------------------------------------------------------------
(* The list as an arrangement of the ids in the plan: a list operation is  *)
(* told by the entries that stay and the relative order that is kept.      *)

Arrangements(S) == Bijection(1..Cardinality(S), S)

Ahead(ord, e, f) == \E i, j \in DOMAIN ord : i < j /\ ord[i] = e /\ ord[j] = f

SameOrder(S, ord, new) == \A e, f \in S : Ahead(ord, e, f) <=> Ahead(new, e, f)

----------------------------------------------------------------------------
(* Persistence *)

Save(ents, ord) ==
  /\ entries' = ents
  /\ order' = ord
  /\ file' = PlanOf(ents, ord)
  /\ UNCHANGED storageError

\* Faulty variant: the wrapper latches the error and keeps the mutated plan.
RollBackForgotten(ents, ord) ==
  /\ storageError' = TRUE
  /\ entries' = ents
  /\ order' = ord
  /\ UNCHANGED file

RollBack(ents, ord) ==
  /\ storageError' = TRUE
  /\ UNCHANGED <<entries, order, file>>

Commit(ents, ord) == Save(ents, ord) \/ RollBack(ents, ord)

\* A mutation that neither adds, drops nor moves an entry.
Update(e, entry) ==
  Commit([entries EXCEPT ![e] = entry], order) /\ UNCHANGED <<limits, known, phase>>

\* Faulty variant: the retention cap forgets that an entry may be waited on.
RetentionIgnoringReferences(ents) ==
  LET finished == {e \in InPlan(ents) : ents[e].state \in TerminalStates}
      aged == {e \in finished :
                 Cardinality({f \in finished : Ahead(order, e, f)}) >= KeepFinished}
  IN [e \in Ids |-> IF e \in aged THEN NoEntry ELSE ents[e]]

\* _trim_finished: what is left of the plan.  `referenced` is read before
\* anything is dropped, and "most recent" is the position in the list.
TrimFinished(ents) ==
  LET referenced == {ents[e].after : e \in InPlan(ents)}
      finished == {e \in InPlan(ents) \ referenced :
                     ents[e].state \in TerminalStates}
      aged == {e \in finished :
                 Cardinality({f \in finished : Ahead(order, e, f)}) >= KeepFinished}
  IN [e \in Ids |-> IF e \in aged THEN NoEntry ELSE ents[e]]

CommitTrimmed(ents) ==
  /\ \E ord \in Arrangements(InPlan(TrimFinished(ents))) :
       /\ SameOrder(InPlan(TrimFinished(ents)), order, ord)
       /\ Commit(TrimFinished(ents), ord)
  /\ UNCHANGED <<limits, known, phase>>

----------------------------------------------------------------------------
(* Pools and dependencies *)

\* An active entry of a kind this build does not know is counted in no pool.
ActiveIn(pool) ==
  {e \in InPlan(entries) : /\ entries[e].state \in ActiveStates
                           /\ entries[e].kind \in known
                           /\ PoolOf[entries[e].kind] = pool}

PoolHasRoom(pool) ==
  limits[pool] = Unlimited \/ Cardinality(ActiveIn(pool)) < limits[pool]

Satisfied(e) ==
  LET after == entries[e].after
  IN after # None => after \in InPlan(entries) /\ entries[after].state = "done"

\* The prerequisite is gone or ended badly; `failed` are the entries the same
\* scan has failed on its way here.
Hopeless(e, failed) ==
  LET after == entries[e].after
  IN /\ after # None
     /\ \/ after \notin InPlan(entries)
        \/ entries[after].state \in RetryableStates
        \/ after \in failed /\ Ahead(order, after, e)

----------------------------------------------------------------------------
(* Mutations *)

NewEntry(kind, after) ==
  [kind |-> kind, state |-> "queued", reason |-> None, progress |-> None,
   after |-> after, job |-> None]

\* A fresh uuid4 is no entry of the plan, and nothing names it yet.
Fresh(e, after) ==
  /\ entries[e] = NoEntry /\ after # e
  /\ \A f \in InPlan(entries) : entries[f].after # e

\* The queue does not look `after` up.  The enqueue route does, in a call
\* before this one, and a DELETE may come in between (see Studio).
Enqueue(e, kind, after) ==
  /\ phase = "serving" /\ ~storageError
  /\ Fresh(e, after)
  /\ kind \in known
  /\ Commit([entries EXCEPT ![e] = NewEntry(kind, after)], Append(order, e))
  /\ UNCHANGED <<limits, known, phase>>

----------------------------------------------------------------------------
(* claim_next: one scan of the list, front to back, that fails what can    *)
(* never run, records why a blocked entry waits, and stops at the first    *)
(* entry that may start.  `skip` are the entries the worker deferred in    *)
(* this pass, `blocked` those whose blocked_by callback gives a reason.    *)

Candidates(skip) ==
  {e \in InPlan(entries) : entries[e].state = "queued"} \ skip

\* Faulty variant: the scan looks at pools and kinds alone.
StartableIgnoringAfter(e) ==
  /\ entries[e].kind \in known
  /\ PoolHasRoom(PoolOf[entries[e].kind])

Startable(e) ==
  /\ Satisfied(e)
  /\ entries[e].kind \in known
  /\ PoolHasRoom(PoolOf[entries[e].kind])

\* Faulty variant: the scan does not walk past an entry that has to wait.
ClaimedHeadOnly(skip, blocked) ==
  {e \in Candidates(skip) \ blocked :
     Startable(e) /\ \A f \in Candidates(skip) : ~Ahead(order, f, e)}

\* The entry the scan stops at, as a set of at most one.
Claimed(skip, blocked) ==
  LET free == {e \in Candidates(skip) \ blocked : Startable(e)}
  IN {e \in free : \A f \in free : ~Ahead(order, f, e)}

Reached(skip, blocked) ==
  {e \in Candidates(skip) : \A c \in Claimed(skip, blocked) : Ahead(order, e, c)}

\* What the scan fails: the entries it reaches that are hopeless by then, or
\* of a kind this build does not know.
Unrunnable(reached, failed) ==
  {e \in reached : \/ Hopeless(e, failed)
                   \/ Satisfied(e) /\ entries[e].kind \notin known}

AfterScan(claimed, reached, failed, blocked) ==
  [e \in Ids |->
     CASE e \in claimed -> [entries[e] EXCEPT !.state = "running", !.reason = None]
       [] e \in failed  -> [entries[e] EXCEPT !.state = "failed", !.reason = "ended"]
       [] e \in reached \cap blocked /\ Startable(e)
                        -> [entries[e] EXCEPT !.reason = "waiting"]
       [] OTHER         -> entries[e]]

\* A scan that changes nothing writes nothing.
ClaimNext(skip, blocked) ==
  /\ phase = "serving" /\ ~storageError
  /\ LET claimed == Claimed(skip, blocked)
         reached == Reached(skip, blocked)
     IN \E failed \in SUBSET reached :
          /\ failed = Unrunnable(reached, failed)
          /\ LET ents == AfterScan(claimed, reached, failed, blocked)
             IN /\ ents # entries
                /\ CommitTrimmed(ents)

\* Called with the job's id when a job starts, and with a reading from the
\* job's own thread afterwards.
MarkRunning(e, progress, job) ==
  /\ phase = "serving"
  /\ e \in InPlan(entries) /\ entries[e].state = "running"
  /\ Update(e, [entries[e] EXCEPT
                  !.progress = IF progress = None THEN @ ELSE progress,
                  !.job = IF job = None THEN @ ELSE job])

Defer(e) ==
  /\ phase = "serving"
  /\ e \in InPlan(entries) /\ entries[e].state = "running"
  /\ Update(e, [entries[e] EXCEPT !.state = "queued", !.reason = "waiting",
                                  !.job = None, !.progress = None])

MarkStopping(e) ==
  /\ phase = "serving"
  /\ e \in InPlan(entries) /\ entries[e].state = "running"
  /\ Update(e, [entries[e] EXCEPT !.state = "stopping"])

MarkFinished(e, state, reason) ==
  /\ phase = "serving"
  /\ state \in TerminalStates
  /\ e \in InPlan(entries) /\ entries[e].state \in ActiveStates
  /\ CommitTrimmed([entries EXCEPT ![e] = [@ EXCEPT
                      !.state = state, !.reason = reason, !.progress = None]])

Pause(e) ==
  /\ phase = "serving"
  /\ e \in InPlan(entries) /\ entries[e].state = "queued"
  /\ Update(e, [entries[e] EXCEPT !.state = "paused"])

Resume(e) ==
  /\ phase = "serving"
  /\ e \in InPlan(entries) /\ entries[e].state = "paused"
  /\ Update(e, [entries[e] EXCEPT !.state = "queued"])

\* The index is clamped into the list, so every position is reachable.
Move(e, index) ==
  /\ phase = "serving"
  /\ e \in InPlan(entries) /\ entries[e].state = "queued"
  /\ \E ord \in Arrangements(InPlan(entries)) :
       /\ ord[index] = e
       /\ SameOrder(InPlan(entries) \ {e}, order, ord)
       /\ Commit(entries, ord)
  /\ UNCHANGED <<limits, known, phase>>

\* Faulty variant: work in progress may be removed.
RemovableWhileActive(e) ==
  /\ e \in InPlan(entries)
  /\ \A f \in InPlan(entries) : entries[f].after # e

Removable(e) ==
  /\ e \in InPlan(entries)
  /\ \A f \in InPlan(entries) : entries[f].after # e
  /\ entries[e].state \notin ActiveStates

Remove(e) ==
  /\ phase = "serving"
  /\ Removable(e)
  /\ \E ord \in Arrangements(InPlan(entries) \ {e}) :
       /\ SameOrder(InPlan(entries) \ {e}, order, ord)
       /\ Commit([entries EXCEPT ![e] = NoEntry], ord)
  /\ UNCHANGED <<limits, known, phase>>

Retry(e) ==
  /\ phase = "serving"
  /\ e \in InPlan(entries) /\ entries[e].state \in RetryableStates
  /\ Update(e, [entries[e] EXCEPT !.state = "queued", !.reason = None,
                                  !.progress = None])

\* Limits are settings, not plan: nothing is saved, and a limit may fall
\* below what is already running.
SetLimits(new) ==
  /\ phase = "serving"
  /\ limits' = new
  /\ UNCHANGED <<entries, order, file, storageError, known, phase>>

ResumeStorage ==
  /\ phase = "serving"
  /\ \/ file' = PlanOf(entries, order) /\ storageError' = FALSE
     \/ storageError' = TRUE /\ UNCHANGED file
  /\ UNCHANGED <<entries, order, limits, known, phase>>

----------------------------------------------------------------------------
(* Restarts *)

Orphaned(entry) ==
  [entry EXCEPT !.state = "interrupted", !.reason = "ended", !.progress = None]

\* Called by Worker.start before its thread runs; `skip` are the entries this
\* process still has work for, none after a restart.
Recover(skip) ==
  LET orphans == {e \in InPlan(entries) \ skip : entries[e].state \in ActiveStates}
      ents == [e \in Ids |-> IF e \in orphans THEN Orphaned(entries[e]) ELSE entries[e]]
      kept == InPlan(TrimFinished(ents))
  IN /\ phase = "serving" \/ (phase = "loaded" /\ skip = {})
     /\ \/ /\ orphans = {}
           /\ phase' = "serving"
           /\ UNCHANGED <<entries, order, file, storageError>>
        \/ /\ orphans # {}
           /\ \E ord \in Arrangements(kept) :
                /\ SameOrder(kept, order, ord)
                /\ Save(TrimFinished(ents), ord)
           /\ phase' = "serving"
        \/ orphans # {} /\ RollBack(TrimFinished(ents), order) /\ UNCHANGED phase
     /\ UNCHANGED <<limits, known>>

\* The process ends at any point; only jobs.json outlives it.  A save under
\* way has replaced the file or not: os.replace leaves nothing in between.
Crash ==
  /\ phase # "down"
  /\ phase' = "down"
  /\ entries' = EmptyEntries /\ order' = <<>> /\ storageError' = FALSE
  /\ UNCHANGED <<file, limits, known>>

\* The next process may be another version, with another kinds table, and
\* reads the pool limits from the settings file.
LoadPlan ==
  /\ phase = "down" /\ file # Corrupt
  /\ entries' = file.entries /\ order' = file.order
  /\ phase' = "loaded"
  /\ known' \in Builds /\ limits' \in LimitChoices
  /\ UNCHANGED <<file, storageError>>

\* The file is renamed aside, or the rename fails too; either way the queue
\* starts empty.
LoadCorrupt ==
  /\ phase = "down" /\ file = Corrupt
  /\ file' \in {EmptyPlan, Corrupt}
  /\ phase' = "loaded"
  /\ known' \in Builds /\ limits' \in LimitChoices
  /\ UNCHANGED <<entries, order, storageError>>

\* A hand edit or a damaged disk, while no studio runs.
Damage ==
  /\ phase = "down"
  /\ file' = Corrupt
  /\ UNCHANGED <<entries, order, storageError, limits, known, phase>>

----------------------------------------------------------------------------
Init ==
  /\ entries = EmptyEntries /\ order = <<>>
  /\ file = EmptyPlan
  /\ storageError = FALSE
  /\ limits \in LimitChoices
  /\ known \in Builds
  /\ phase = "loaded"

\* The calls of the studio's routes.
PlanCall ==
  \E e \in Ids :
    \/ \E kind \in Kinds, after \in Ids \cup {None} : Enqueue(e, kind, after)
    \/ Pause(e) \/ Resume(e) \/ Remove(e) \/ Retry(e)
    \/ \E index \in DOMAIN order : Move(e, index)

\* The calls of the worker and of the job threads.
WorkCall ==
  \/ \E skip, blocked \in SUBSET Ids : ClaimNext(skip, blocked)
  \/ \E e \in Ids :
       \/ \E job \in Jobs : MarkRunning(e, None, job)
       \/ MarkRunning(e, Reading, None)
       \/ Defer(e) \/ MarkStopping(e)
       \/ \E state \in TerminalStates : MarkFinished(e, state, "ended")
  \/ \E skip \in SUBSET Ids : Recover(skip)

Next ==
  \/ PlanCall
  \/ WorkCall
  \/ \E new \in LimitChoices : SetLimits(new)
  \/ ResumeStorage
  \/ Crash \/ LoadPlan \/ LoadCorrupt \/ Damage

Spec == Init /\ [][Next]_vars

----------------------------------------------------------------------------
(* Properties *)

\* The plan is a list without repetitions of well-formed entries, in memory
\* and in the file.
PlanOK(ents, ord) ==
  /\ ents \in [Ids -> Entry \cup {NoEntry}]
  /\ ord \in Arrangements(InPlan(ents))

\* The plan in memory, and the one a restart would load unless it is damaged.
TypeOK ==
  /\ PlanOK(entries, order)
  /\ file # Corrupt => PlanOK(file.entries, file.order)
  /\ storageError \in BOOLEAN
  /\ limits \in LimitChoices
  /\ known \in Builds
  /\ phase \in {"down", "loaded", "serving"}

\* What the queue answers from memory is what a restart would find: a call
\* that could not be saved leaves no trace in memory, and one that returned
\* is on disk (_synchronised's roll back, save's atomic replace).
MemoryIsOnDisk ==
  phase # "down" /\ file # Corrupt => file = PlanOf(entries, order)

\* Work that has started had a prerequisite that was done, and still is: no
\* retry, restart or retention undoes what the work relied on.
OnlySatisfiedWorkStarts ==
  \A e \in InPlan(entries) :
    entries[e].state \in ActiveStates \cup {"done", "stopped", "interrupted"}
      => Satisfied(e)

\* A live row says nothing left over from before it was claimed, and a row
\* that is not live shows no reading (claim_next, _clear_progress).
RowsDescribeTheirOwnRun ==
  \A e \in InPlan(entries) :
    IF entries[e].state \in ActiveStates
    THEN entries[e].reason = None
    ELSE entries[e].progress = None

\* The entries whose threads use a pool's resource.
Using(pool) ==
  {e \in InPlan(entries) : /\ entries[e].state \in {"running", "stopping"}
                           /\ entries[e].kind \in known
                           /\ PoolOf[entries[e].kind] = pool}

\* A pool never takes on work beyond its limit, even when limits fall below
\* what runs, entries are stopping, or a restart changes the kinds table.
PoolsNeverOversubscribed ==
  [][\A pool \in Pools :
       /\ phase = "serving" /\ limits[pool] # Unlimited
       /\ Cardinality(Using(pool)') > Cardinality(Using(pool))
       => Cardinality(Using(pool)') <= limits[pool]]_vars

\* The plan keeps an entry for as long as it keeps one that waits on it: no
\* call, retention, roll back or recovery takes it out (_trim_finished's
\* exemption, remove's refusal).  That the route named one that is there is
\* not the queue's promise, and not always so.
PrerequisitesAreKept ==
  [][\A e \in InPlan(entries) \cap InPlan(entries') :
       entries[e].after \in InPlan(entries) => entries[e].after \in InPlan(entries')]_vars

\* A success is never run again: done ends an entry for good, across restarts
\* too (retry's refusal).
DoneIsFinal ==
  [][\A e \in InPlan(entries) \cap InPlan(entries') :
       entries[e].state = "done" => entries'[e].state = "done"]_vars

=============================================================================
