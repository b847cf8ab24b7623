---------------------------- MODULE WorkerThread ----------------------------
(***************************************************************************)
(* The draining thread of studio/worker.py: Worker.start, Worker.stop,     *)
(* is_running and _loop, statement by statement.  What a pass does is      *)
(* Studio's business; here it is the time the thread holds Worker.lock.    *)
(*                                                                         *)
(* start() and stop() are called one after the other: by cmd_studio around *)
(* the server's life, by a workspace switch under the studio's reroot lock.*)
(***************************************************************************)
EXTENDS Integers, FiniteSets

CONSTANTS
  Threads,   \* thread objects; one that is not alive stands for a new one too
  Callers,   \* the thread that calls start() and stop()
  Nobody     \* no thread, no holder

ASSUME ThreadAssumption ==
  /\ Threads \cap Callers = {}
  /\ Nobody \notin Threads \cup Callers
  /\ \A c, d \in Callers : c = d

VARIABLES
  at,         \* where each thread is in _loop; "over": not started, or ended
  ref,        \* Worker._thread
  stopping,   \* the _stopping event is set
  lock,       \* who holds Worker.lock
  call,       \* where each caller is in start() or stop()
  joined,     \* the thread a stop() in progress joins
  wanted      \* the last call to return was a start()

threadVars == <<at, ref, stopping, lock, call, joined, wanted>>

Alive(t) == at[t] # "over"

is_running == ref # Nobody /\ Alive(ref)

----------------------------------------------------------------------------
(* Worker._loop *)

\* The loop's test.  A thread that leaves is alive until it has ended.
Tests(t) ==
  /\ at[t] = "test"
  /\ at' = [at EXCEPT ![t] = IF stopping THEN "leaving" ELSE "enter"]
  /\ UNCHANGED <<ref, stopping, lock, call, joined, wanted>>

EntersPass(t) ==
  /\ at[t] = "enter" /\ lock = Nobody
  /\ lock' = t
  /\ at' = [at EXCEPT ![t] = "pass"]
  /\ UNCHANGED <<ref, stopping, call, joined, wanted>>

LeavesPass(t) ==
  /\ at[t] = "pass"
  /\ lock' = Nobody
  /\ at' = [at EXCEPT ![t] = "wait"]
  /\ UNCHANGED <<ref, stopping, call, joined, wanted>>

\* Faulty variant: the loop goes round without a look at the event.
WakesUnasked(t) ==
  /\ at[t] = "wait"
  /\ at' = [at EXCEPT ![t] = "enter"]
  /\ UNCHANGED <<ref, stopping, lock, call, joined, wanted>>

\* The interval is over, or the event is set.
Wakes(t) ==
  /\ at[t] = "wait"
  /\ at' = [at EXCEPT ![t] = "test"]
  /\ UNCHANGED <<ref, stopping, lock, call, joined, wanted>>

Ends(t) ==
  /\ at[t] = "leaving"
  /\ at' = [at EXCEPT ![t] = "over"]
  /\ UNCHANGED <<ref, stopping, lock, call, joined, wanted>>

----------------------------------------------------------------------------
(* Worker.start *)

StartBegins(c) ==
  /\ call[c] = "none" /\ lock = Nobody
  /\ lock' = c
  /\ stopping' = FALSE
  /\ call' = [call EXCEPT ![c] = "started"]
  /\ UNCHANGED <<at, ref, joined, wanted>>

\* The thread of an earlier start() is alive: nothing more to do.
StartFindsThread(c) ==
  /\ call[c] = "started" /\ is_running
  /\ lock' = Nobody /\ wanted' = TRUE
  /\ call' = [call EXCEPT ![c] = "none"]
  /\ UNCHANGED <<at, ref, stopping, joined>>

\* Faulty variant: the thread is made without a look at the old one.
StartMakesAnyThread(c) ==
  /\ call[c] = "started"
  /\ \E t \in Threads :
       /\ ~Alive(t)
       /\ at' = [at EXCEPT ![t] = "test"]
       /\ ref' = t
  /\ lock' = Nobody /\ wanted' = TRUE
  /\ call' = [call EXCEPT ![c] = "none"]
  /\ UNCHANGED <<stopping, joined>>

StartMakesThread(c) ==
  /\ call[c] = "started" /\ ~is_running
  /\ \E t \in Threads :
       /\ ~Alive(t)
       /\ at' = [at EXCEPT ![t] = "test"]
       /\ ref' = t
  /\ lock' = Nobody /\ wanted' = TRUE
  /\ call' = [call EXCEPT ![c] = "none"]
  /\ UNCHANGED <<stopping, joined>>

\* recover() could not be saved: start() raises, no thread is made.
StartRaises(c) ==
  /\ call[c] = "started" /\ ~is_running
  /\ lock' = Nobody /\ wanted' = FALSE
  /\ call' = [call EXCEPT ![c] = "none"]
  /\ UNCHANGED <<at, ref, stopping, joined>>

----------------------------------------------------------------------------
(* Worker.stop: it takes no lock *)

StopBegins(c) ==
  /\ call[c] = "none"
  /\ stopping' = TRUE
  /\ joined' = [joined EXCEPT ![c] = ref]
  /\ call' = [call EXCEPT ![c] = "joining"]
  /\ UNCHANGED <<at, ref, lock, wanted>>

StopFindsNone(c) ==
  /\ call[c] = "joining" /\ joined[c] = Nobody
  /\ wanted' = FALSE
  /\ call' = [call EXCEPT ![c] = "none"]
  /\ UNCHANGED <<at, ref, stopping, lock, joined>>

StopSeesEnd(c) ==
  /\ call[c] = "joining" /\ joined[c] # Nobody /\ ~Alive(joined[c])
  /\ ref' = Nobody /\ wanted' = FALSE
  /\ joined' = [joined EXCEPT ![c] = Nobody]
  /\ call' = [call EXCEPT ![c] = "none"]
  /\ UNCHANGED <<at, stopping, lock>>

\* The join timed out: the thread is still in its pass, and still ours.
StopTimesOut(c) ==
  /\ call[c] = "joining" /\ joined[c] # Nobody /\ Alive(joined[c])
  /\ wanted' = FALSE
  /\ joined' = [joined EXCEPT ![c] = Nobody]
  /\ call' = [call EXCEPT ![c] = "none"]
  /\ UNCHANGED <<at, ref, stopping, lock>>

----------------------------------------------------------------------------
ThreadInit ==
  /\ at = [t \in Threads |-> "over"]
  /\ ref = Nobody
  /\ stopping = FALSE
  /\ lock = Nobody
  /\ call = [c \in Callers |-> "none"]
  /\ joined = [c \in Callers |-> Nobody]
  /\ wanted = FALSE

LoopStep(t) == Tests(t) \/ EntersPass(t) \/ LeavesPass(t) \/ Wakes(t) \/ Ends(t)

CallerStep(c) ==
  \/ StartBegins(c) \/ StartFindsThread(c) \/ StartMakesThread(c) \/ StartRaises(c)
  \/ StopBegins(c) \/ StopFindsNone(c) \/ StopSeesEnd(c) \/ StopTimesOut(c)

ThreadNext ==
  \/ \E t \in Threads : LoopStep(t)
  \/ \E c \in Callers : CallerStep(c)

ThreadSpec == ThreadInit /\ [][ThreadNext]_threadVars

\* Threads run, passes end, and a call that began returns.
FairThreadSpec ==
  /\ ThreadSpec
  /\ \A t \in Threads : WF_threadVars(LoopStep(t)) /\ SF_threadVars(EntersPass(t))
  /\ \A c \in Callers :
       WF_threadVars(call[c] # "none" /\ CallerStep(c))

----------------------------------------------------------------------------
(* Properties *)

\* Types, and who has Worker.lock: a pass, or a start() that is under way, and
\* nobody else on whatever path it left.
ThreadTypeOK ==
  /\ at \in [Threads -> {"over", "test", "enter", "pass", "wait", "leaving"}]
  /\ ref \in Threads \cup {Nobody}
  /\ stopping \in BOOLEAN /\ wanted \in BOOLEAN
  /\ lock \in Threads \cup Callers \cup {Nobody}
  /\ call \in [Callers -> {"none", "started", "joining"}]
  /\ joined \in [Callers -> Threads \cup {Nobody}]
  /\ \A t \in Threads : lock = t <=> at[t] = "pass"
  /\ \A c \in Callers : lock = c <=> call[c] = "started"

Drains(t) == at[t] \in {"test", "enter", "pass", "wait"}

\* However starts, stops and timed-out joins fall, one thread drains the
\* queue, and none is in a pass while is_running() answers False: a second
\* would reap and claim behind the first one's back, and a switch that asked
\* would take the workspace away under a pass.
OneThreadDrains ==
  /\ \A t, u \in Threads : Drains(t) /\ Drains(u) => t = u
  /\ ~is_running => \A t \in Threads : at[t] # "pass"

\* Once stopped for good every thread ends, also one that a stop() gave up on.
StoppedThreadsEnd ==
  <>[]stopping => <>[](\A t \in Threads : ~Alive(t))

=============================================================================
