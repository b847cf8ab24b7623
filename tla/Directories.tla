----------------------------- MODULE Directories -----------------------------
(***************************************************************************)
(* The lives of a workspace's channel and event directories                *)
(* (channel_admin.py, event_admin.py) beside the jobs that work in them.   *)
(* A job holds its event's lock file; a rename or a deletion of a channel  *)
(* takes the lock of each of its events, one after the other, and the lock *)
(* files move and go with the directories they lie in.                     *)
(*                                                                         *)
(* Administrative requests come one at a time; jobs come and go between    *)
(* their steps.  Every holder is alive (a dead one's lock is PidLock's).   *)
(***************************************************************************)
EXTENDS FiniteSets, Naturals

CONSTANTS
  ChannelNames, EventNames,
  Jobs,
  Admin,      \* the holder of a lock an administrative request took
  Free        \* no lock file

ASSUME DirectoryAssumption == Admin \notin Jobs /\ Free \notin Jobs /\ Admin # Free

VARIABLES
  channels,   \* the channel directories there are
  events,     \* the event directories, as <<channel, event>>
  lock,       \* who holds the lock file in an event's directory
  job,        \* the path each job works at
  admin,      \* the request in progress and what it still has to do
  spoiled,    \* history only: where a job got into a directory being removed
  left        \* history only: where an OSError made a request leave its lock

directoryVars == <<channels, events, lock, job, admin, spoiled, left>>

Paths == ChannelNames \X EventNames
EventsIn(c) == {p \in events : p[1] = c}

NoRequest == [step |-> "idle"]
NoWork == <<>>

DirectoryTypeOK ==
  /\ channels \subseteq ChannelNames
  /\ events \subseteq channels \X EventNames
  /\ lock \in [Paths -> Jobs \cup {Admin, Free}]
  /\ job \in [Jobs -> Paths \cup {NoWork}]
  /\ spoiled \subseteq Paths /\ left \subseteq Paths
  /\ admin \in {NoRequest} \cup
       [step  : {"locking", "moving", "unlocking", "emptying", "removing"},
        does  : {"rename_channel", "delete_channel", "rename_event", "delete_event"},
        paths : SUBSET Paths, held : SUBSET Paths,
        to    : (ChannelNames \X ChannelNames) \cup {<<c>> : c \in ChannelNames} \cup Paths]

DirectoryInit ==
  /\ channels \in SUBSET ChannelNames
  /\ events \in SUBSET (channels \X EventNames)
  /\ lock = [p \in Paths |-> Free]
  /\ job = [j \in Jobs |-> NoWork]
  /\ admin = NoRequest
  /\ spoiled = {} /\ left = {}

----------------------------------------------------------------------------
(* Jobs *)

\* Between rmtree's unlinking a lock file and its removing the directory, a job can
\* start there.  Its release by path may later take another holder's lock, so the
\* path stays spoiled until the jobs there and the request in progress are over.
StartsWork(j, p) ==
  /\ job[j] = NoWork
  /\ p \in events /\ lock[p] = Free
  /\ lock' = [lock EXCEPT ![p] = j]
  /\ spoiled' = IF admin.step = "removing" /\ p \in admin.held THEN spoiled \cup {p} ELSE spoiled
  /\ job' = [job EXCEPT ![j] = p]
  /\ UNCHANGED <<channels, events, admin, left>>

\* release() unlinks the file at the job's path, if there is one.
EndsWork(j) ==
  /\ job[j] # NoWork
  /\ lock' = [lock EXCEPT ![job[j]] = Free]
  /\ job' = [job EXCEPT ![j] = NoWork]
  /\ spoiled' = IF admin # NoRequest THEN spoiled
                ELSE {p \in spoiled : \E k \in Jobs \ {j} : job[k] = p}
  /\ left' = left \ {job[j]}
  /\ UNCHANGED <<channels, events, admin>>

----------------------------------------------------------------------------
(* Administrative requests *)

CreateChannel(c) ==
  /\ admin = NoRequest /\ c \notin channels
  /\ channels' = channels \cup {c}
  /\ UNCHANGED <<events, lock, job, admin, spoiled, left>>

CreateEvent(c, e) ==
  /\ admin = NoRequest /\ c \in channels /\ <<c, e>> \notin events
  /\ events' = events \cup {<<c, e>>}
  /\ UNCHANGED <<channels, lock, job, admin, spoiled, left>>

BeginsTo(does, paths, to) ==
  /\ admin = NoRequest
  /\ admin' = [step |-> "locking", does |-> does, paths |-> paths, held |-> {}, to |-> to]
  /\ UNCHANGED <<channels, events, lock, job, spoiled, left>>

RenameChannel(c, d) ==
  /\ c \in channels /\ d \notin channels
  /\ BeginsTo("rename_channel", EventsIn(c), <<c, d>>)

DeleteChannel(c) ==
  /\ c \in channels
  /\ BeginsTo("delete_channel", EventsIn(c), <<c>>)

RenameEvent(c, e, f) ==
  /\ <<c, e>> \in events /\ <<c, f>> \notin events
  /\ BeginsTo("rename_event", {<<c, e>>}, <<c, f>>)

DeleteEvent(c, e) ==
  /\ <<c, e>> \in events
  /\ BeginsTo("delete_event", {<<c, e>>}, <<c>>)

Renaming == admin.does \in {"rename_channel", "rename_event"}

\* Faulty variant: every lock is looked at and none is taken.
TakesALockByLooking ==
  /\ admin.step = "locking"
  /\ \E p \in admin.paths \ admin.held :
       /\ lock[p] = Free
       /\ admin' = [admin EXCEPT !.held = @ \cup {p}]
  /\ UNCHANGED <<channels, events, lock, job, spoiled, left>>

TakesALock ==
  /\ admin.step = "locking"
  /\ \E p \in admin.paths \ admin.held :
       /\ lock[p] = Free
       /\ lock' = [lock EXCEPT ![p] = Admin]
       /\ admin' = [admin EXCEPT !.held = @ \cup {p}]
  /\ UNCHANGED <<channels, events, job, spoiled, left>>

Unlocked(paths) == [p \in Paths |-> IF p \in paths THEN Free ELSE lock[p]]

\* The request ends with the release of its locks at these paths; a release that
\* raises OSError leaves that lock and those it had still to get to.
GivesBack(paths) ==
  /\ \E kept \in SUBSET paths :
       /\ lock' = Unlocked(paths \ kept)
       /\ left' = left \cup {p \in kept : lock[p] # Free}
  /\ admin' = NoRequest

IsRefused ==
  /\ admin.step = "locking"
  /\ \E p \in admin.paths \ admin.held : lock[p] # Free
  /\ GivesBack(admin.held)
  /\ UNCHANGED <<channels, events, job, spoiled>>

\* acquire() raises OSError: only a LockError makes _acquire_all_event_locks
\* give back the locks it took before.
AcquireFails ==
  /\ admin.step = "locking" /\ admin.held # admin.paths
  /\ admin' = NoRequest
  /\ left' = left \cup {p \in admin.held : lock[p] # Free}
  /\ UNCHANGED <<channels, events, lock, job, spoiled>>

HasAllLocks ==
  /\ admin.step = "locking" /\ admin.paths = admin.held
  /\ admin' = [admin EXCEPT !.step = IF Renaming THEN "moving" ELSE "emptying"]
  /\ UNCHANGED <<channels, events, lock, job, spoiled, left>>

\* The directories move, and the lock files in them.
Target(p) ==
  IF admin.does = "rename_channel" THEN <<admin.to[2], p[2]>> ELSE admin.to

MovesAll(moved) ==
  LET from(q) == CHOOSE p \in moved : Target(p) = q
      targets == {Target(p) : p \in moved}
  IN  /\ channels' = IF admin.does = "rename_channel"
                     THEN (channels \ {admin.to[1]}) \cup {admin.to[2]} ELSE channels
      /\ events' = (events \ moved) \cup targets
      /\ lock' = [q \in Paths |-> IF q \in targets THEN lock[from(q)]
                                  ELSE IF q \in moved THEN Free ELSE lock[q]]
      /\ admin' = [admin EXCEPT !.step = "unlocking", !.paths = targets]
      /\ spoiled' = spoiled \cup {Target(p) : p \in moved \cap spoiled}
      /\ UNCHANGED <<job, left>>

Moves ==
  /\ admin.step = "moving"
  /\ MovesAll(IF admin.does = "rename_channel" THEN EventsIn(admin.to[1]) ELSE admin.paths)

\* The rename fails, and the locks are given back where they were taken.
MoveFails ==
  /\ admin.step = "moving"
  /\ GivesBack(admin.held)
  /\ UNCHANGED <<channels, events, job, spoiled>>

\* Faulty variant: the locks are given back where they were taken, and not where they are.
UnlocksOldPlaces ==
  /\ admin.step = "unlocking"
  /\ GivesBack(admin.held)
  /\ UNCHANGED <<channels, events, job, spoiled>>

Unlocks ==
  /\ admin.step = "unlocking"
  /\ GivesBack(admin.paths \cup admin.held)
  /\ UNCHANGED <<channels, events, job, spoiled>>

\* rmtree unlinks the files of a directory, the lock among them, before the
\* directory; an OSError stops it before it has got to all.
Empties ==
  /\ admin.step = "emptying"
  /\ \E emptied \in SUBSET admin.held : lock' = Unlocked(emptied)
  /\ admin' = [admin EXCEPT !.step = "removing"]
  /\ UNCHANGED <<channels, events, job, spoiled, left>>

\* rmtree stops at a file it cannot remove, or at a directory something was
\* written to meanwhile; of those it emptied, some are gone.
Removes ==
  LET stuck == {p \in admin.held : lock[p] # Free}
  IN  /\ admin.step = "removing"
      /\ \E gone \in SUBSET (admin.held \ stuck) :
           /\ events' = events \ gone
           /\ channels' \in {channels} \cup
                IF admin.does = "delete_channel" /\ gone = admin.held
                THEN {channels \ {admin.to[1]}} ELSE {}
      /\ GivesBack(admin.held)
      /\ UNCHANGED <<job, spoiled>>

----------------------------------------------------------------------------
ChannelRequests ==
  \/ \E c \in ChannelNames : CreateChannel(c) \/ DeleteChannel(c)
  \/ \E c, d \in ChannelNames : RenameChannel(c, d)

EventRequests ==
  \E c \in ChannelNames, e \in EventNames :
    \/ CreateEvent(c, e) \/ DeleteEvent(c, e)
    \/ \E f \in EventNames : RenameEvent(c, e, f)

DirectoryNext ==
  \/ ChannelRequests \/ EventRequests
  \/ TakesALock \/ IsRefused \/ AcquireFails \/ HasAllLocks
  \/ Moves \/ MoveFails \/ Unlocks
  \/ Empties \/ Removes
  \/ \E j \in Jobs : EndsWork(j) \/ \E p \in Paths : StartsWork(j, p)

----------------------------------------------------------------------------
\* While a job works, its event's directory stays where it is and the lock in it
\* stays its own, whatever is renamed or deleted and however the request and the
\* job's start interleave (channel_admin._acquire_all_event_locks).  A job that
\* started in a directory rmtree had already emptied is the exception.
WorkKeepsItsEvent ==
  \A j \in Jobs : job[j] # NoWork =>
    \/ job[j] \in events /\ lock[job[j]] = j
    \/ job[j] \in spoiled

\* When no request is in progress, a lock file is a working job's, or one whose
\* request an OSError cut short while it took its locks or gave them back.  Any
\* other lock left at the old place or the new one would name the studio's live
\* process and refuse every later run of the event.
NoLockIsLeftBehind ==
  admin = NoRequest =>
    \A p \in Paths : lock[p] # Free =>
      \/ p \in events /\ \E j \in Jobs : lock[p] = j /\ job[j] = p
      \/ p \in left

=============================================================================
