------------------------------- MODULE PidLock -------------------------------
(***************************************************************************)
(* The lock files of lock.py (_PidLock: EventLock, StreamLock, StudioLock), *)
(* one file-system call at a time.  A lock file holds the pid of a process; *)
(* threads of one process write the same pid.  A file that was unlinked    *)
(* while its creator still writes to it is gone: the write reaches nobody. *)
(***************************************************************************)
EXTENDS FiniteSets

CONSTANTS
  Tasks,    \* threads that take the lock
  Pids,     \* process ids
  PidOf,    \* the process a thread runs in
  Absent    \* no lock file; a read that told no pid

ASSUME LockAssumption ==
  /\ PidOf \in [Tasks -> Pids]
  /\ Absent \notin Tasks \cup Pids

VARIABLES
  stage,   \* where each task is: idle, in acquire(), or holding
  file,    \* Absent, or who created the lock file and the pid in it, if any yet
  alive    \* the processes that are running

lockVars == <<stage, file, alive>>

Running(a) == PidOf[a] \in alive

File == [by : Tasks, pid : Pids \cup {Absent}]

\* What _read_holder_pid answers: an absent or empty file tells no pid.
ReadPid == IF file = Absent THEN Absent ELSE file.pid

Moves(a, from, to) == Running(a) /\ stage[a] = from /\ stage' = [stage EXCEPT ![a] = to]

----------------------------------------------------------------------------
(* acquire() *)

Acquires(a) ==
  /\ Moves(a, "idle", "create")
  /\ UNCHANGED <<file, alive>>

\* os.open with O_CREAT | O_EXCL, on the first try and after a takeover.
Creates(a) ==
  /\ file = Absent
  /\ Moves(a, "create", "write") \/ Moves(a, "recreate", "write")
  /\ file' = [by |-> a, pid |-> Absent]
  /\ UNCHANGED alive

FindsFile(a) ==
  /\ file # Absent
  /\ Moves(a, "create", "read") \/ Moves(a, "recreate", "read")
  /\ UNCHANGED <<file, alive>>

\* The pid goes into the file this task created, wherever that is by now.
Writes(a) ==
  /\ Moves(a, "write", "held")
  /\ file' = IF file # Absent /\ file.by = a THEN [file EXCEPT !.pid = PidOf[a]] ELSE file
  /\ UNCHANGED alive

\* LockError: a live process holds the lock.
Refused(a) ==
  /\ ReadPid \in alive
  /\ Moves(a, "read", "idle")
  /\ UNCHANGED <<file, alive>>

\* Faulty variant: an empty lock file is an error, not a stale lock.
JudgesOnlyDeadPidsStale(a) ==
  /\ file = Absent \/ ReadPid # Absent
  /\ ReadPid \notin alive
  /\ Moves(a, "read", "unlink")
  /\ UNCHANGED <<file, alive>>

JudgesStale(a) ==
  /\ ReadPid \notin alive
  /\ Moves(a, "read", "unlink")
  /\ UNCHANGED <<file, alive>>

Unlinks(a) ==
  /\ Moves(a, "unlink", "recreate")
  /\ file' = Absent
  /\ UNCHANGED alive

----------------------------------------------------------------------------
\* Faulty variant: the work ends and its lock file stays.
ReleasesNothing(a) ==
  /\ Moves(a, "held", "idle")
  /\ UNCHANGED <<file, alive>>

\* release() unlinks the file that is there, whoever wrote it.
Releases(a) ==
  /\ Moves(a, "held", "idle")
  /\ file' = Absent
  /\ UNCHANGED alive

Exits(p) ==
  /\ p \in alive
  /\ alive' = alive \ {p}
  /\ stage' = [a \in Tasks |-> IF PidOf[a] = p THEN "idle" ELSE stage[a]]
  /\ UNCHANGED file

\* A new process; no lock file names it.
Spawns(p) ==
  /\ p \notin alive
  /\ file # Absent => file.pid # p /\ PidOf[file.by] # p
  /\ alive' = alive \cup {p}
  /\ UNCHANGED <<stage, file>>

----------------------------------------------------------------------------
LockInit ==
  /\ stage = [a \in Tasks |-> "idle"]
  /\ file = Absent
  /\ alive = Pids

AcquireStep(a) ==
  \/ Creates(a) \/ FindsFile(a) \/ Writes(a) \/ Refused(a) \/ JudgesStale(a) \/ Unlinks(a)

LockNext ==
  \/ \E a \in Tasks : Acquires(a) \/ AcquireStep(a) \/ Releases(a)
  \/ \E p \in Pids : Exits(p) \/ Spawns(p)

LockSpec == LockInit /\ [][LockNext]_lockVars

\* A task that wants the lock asks for it again and again.
FairLockSpec ==
  /\ LockSpec
  /\ \A a \in Tasks : WF_lockVars(Acquires(a)) /\ WF_lockVars(AcquireStep(a))

----------------------------------------------------------------------------
(* Properties *)

\* Types, and what acquire() relies on when it reads: a lock file never tells
\* another pid than that of the process that created it, whatever takeovers
\* and releases happened between the creation and the write.
LockTypeOK ==
  /\ stage \in [Tasks -> {"idle", "create", "recreate", "read", "unlink", "write", "held"}]
  /\ file \in File \cup {Absent}
  /\ ReadPid # Absent => ReadPid = PidOf[file.by]
  /\ alive \subseteq Pids

\* A refusal is never for nothing: a lock file with the pid of a live process
\* is there only while a thread of that process has the lock.
RefusalsHaveAHolder ==
  ReadPid \in alive => \E a \in Tasks : PidOf[a] = ReadPid /\ stage[a] = "held"

\* What a crash leaves behind never locks anybody out: a task that is the only
\* one left to want the lock gets it.
StaleLocksAreTakenOver ==
  \A a \in Tasks :
    <>[](Running(a) /\ \A b \in Tasks \ {a} : stage[b] = "idle")
      => []<>(stage[a] = "held")

=============================================================================
