# TLA+ models of yt-shorts

yt-shorts cuts short vertical clips out of long streams: it transcribes a stream,
scores moments in it, renders clips with ffmpeg and uploads them. A local web
application (the *studio*) and a command line drive the same code against the same
directories. This project models the part of it where several actors share state:
the job queue, the worker and its job threads, the lock files, the files of a clip, of
a stream and of a workspace, the credentials, and the configuration that the studio's
editors write. The pure parts of moment detection are modelled as functions. Paths below are relative to `src/src/yt_shorts/`.

## Inventory

| Component | State it keeps | Operations | What is hard | What makes it correct |
|---|---|---|---|---|
| Job queue (`job_queue.py`) | the ordered plan in memory, `jobs.json`, `storage_error`, pool limits | enqueue, claim_next, mark_running/finished/stopping, defer, pause, resume, move, remove, retry, recover, load, save | failed saves, restarts, version changes, retention against dependencies | memory = disk; what an entry waits on stays and is honoured; pools within limits; done is final |
| Queue worker (`studio/worker.py`) | `_running`, `_deferred`, the thread, `Worker.lock` | drain_once (reap, claim, start), request_stop, recover, start, stop | a save that fails between two steps of a pass; locks taken between the question and the acquire; stop that times out | no thread without its row, no active row without its thread; progress under failures; one draining thread |
| Job threads and job store (`studio/jobs.py`) | status, results, cancel token, event lock per job; the bounded map of jobs | start_*_job, `_run*`, record, finish, evict, connect guard | threads that die; status terminal before the lock is released | ended work is recorded; locks come back |
| Routes (`studio/api.py`) | the application's current queue, worker, workspace | plan routes, workspace routes, reads | which of them hold `Worker.lock`; guard and act apart | answers tell the truth about the plan |
| Lock files (`lock.py`) | `.lock`, `.stream.lock`, studio lock: a pid in a file | acquire, take over, release, is_held | empty-file window, takeover by name, crashes | at most one holder; nobody locked out by a crash |
| Trim (`trim.py`) | `short.mp4`, `short.full.mp4`, `short.trim.json` | ensure_applied, forget_applied, is_pending | crash or failure between two renames | what is delivered is what is recorded |
| Workspace switch (`studio/api.py`, `workspaces.py`) | studio lock, queue and worker of the current workspace | switch, create, copy, guard | jobs that start meanwhile, worker that does not stop | the plan on screen is the one being drained, under its lock |
| Stream transcription, detection (`stream_transcribe.py`, `detect.py`, `moment_scan.py`) | chunk and window caches | resume at the first missing unit | stop, failure and crash between units | nothing paid twice, nothing skipped |
| Cancellation (`cancel.py`) | token, child process | request_stop, request_kill, run_cancellable | kill against start and end of the child | a killed run ends and says so |
| Clip store, editorial state, harvest (`clipstore.py`, `editorial.py`, `clip_from_moment.py`, `cli.py`, `migrate.py`) | one directory per clip: `clip.json`, `edit.json`, `transcript.json` | harvest, migrate, pick a moment, PATCH, render | titles that change, seconds that round, PATCHes and harvests without a lock | a clip keeps one record and its own edit; captions are of what is seen |
| Upload, credentials, quota (`youtube_upload.py`, `upload_record.py`, `auth.py`, `quota.py`) | the record of what was uploaded, a token per channel, `quota.json`, the connect guard | upload, record, connect, refresh, disconnect, book | crash between upload and record; refreshes and consents that overlap | one upload per clip, on its channel; the estimate never promises less than there is |
| Moments and vendors (`moment_scan.py`, `moments.py`, `detect.py`, `providers/*.py`) | one run: windows asked, found and missing, usage | split, ask, read a response, validate, merge; score with a lexicon | three vendors' ways to refuse; seams and silences | a hole is named; a merge leaves out only what overlaps something that scored as high; what was spent is counted |
| Lexicon and glossary (`lexicon*.py`, `glossary*.py`, `profile.py`) | a file at the workspace, each channel and each event | read, update, adopt the default, load | two walks over the same layers | the editor shows what a run uses |
| Brands and fonts (`brand_admin.py`, `event_brand_admin.py`, `font_admin.py`, `profile.py`) | `brand.json` of channels and events, font files | save, override, upload and delete a font, load | one file validated, a merge of several loaded | what is accepted can be loaded |
| Channels and events (`channel_admin.py`, `event_admin.py`) | directories, event locks | create, rename, delete | jobs that start between two locks; lock files that move | nothing moves under a holder of its lock, no lock is left behind but by an OSError |
| Everything else | video settings, palettes, pixels and text, installation, logging, web client | | | validated inputs |

Interaction: routes and the worker's thread call the queue, each call atomic under the
queue's own lock; sequences of calls are decisions under `Worker.lock`, which routes
take too, except DELETE. The worker starts job threads, which hold event and stream
locks, report progress straight into the queue, and are reaped by a later pass. The
command line and the direct routes take the same lock files without the queue. Editors
of configuration and PATCHes of clips take no lock at all: they read, validate and write
whole files. Renames and deletions of directories take the event locks of the jobs in
them. A restart keeps only files.

## Modules

| Module | What it is | Uses | Instance | Proofs |
|---|---|---|---|---|
| `JobQueue` | the plan and `jobs.json` | | `MCJobQueue` | `StudioProofs` |
| `Studio` | worker passes, job threads, routes and lock files around the plan | EXTENDS `JobQueue` | `MCStudio` | `StudioProofs` |
| `WorkerThread` | `Worker.start`, `stop`, `_loop`, statement by statement | | itself | `SwitchProofs` |
| `PidLock` | one lock file, call by call | | `MCPidLock` | `SwitchProofs` |
| `Clip` | the files of one clip under renders, trims and uploads | | `MCClip` | `ClipProofs` |
| `Stream` | what is kept of one stream under transcriptions and detections | | `MCStream` | `StreamProofs` |
| `Switch` | `_select` and `_switch_to`, step by step | | `MCSwitch` | `SwitchProofs` |
| `Credentials` | token files, connects, refreshes, uploads and the quota file | | `MCCredentials` | `CredentialsProofs` |
| `Moments` | windows, validation, merge and lexicon scores, as functions | | | `DetectionProofs` |
| `Detection` | one run of `detect_moments` over what a vendor may send | EXTENDS `Moments` | `MCDetection` | `DetectionProofs` |
| `ClipBook` | what the clip store promises, without directories | | | |
| `ClipStore` | the clips of an event on disk | INSTANCE `ClipBook` | `MCClipStore` | `ClipStoreProofs` |
| `Vocabulary` | lexicon and glossary, as editors show and runs use them | | | `AdministrationProofs` |
| `Brands` | `brand.json` of channels and events, fonts, what `profile.load` refuses | EXTENDS `Vocabulary` | | |
| `Directories` | channels and events as directories, beside jobs | | | `AdministrationProofs` |
| `Administration` | the composition of the three above | EXTENDS `Brands`, `Directories` | `MCAdministration` | `AdministrationProofs` |

`Studio` takes a pass as the time `Worker.lock` is held and the lock files as taken or
free; `WorkerThread` and `PidLock` look into those two. `Switch` takes the queue as
there or not and one tracked entry; `Studio` has the rest. `Clip` takes the event lock
as a single `run` at a time, which is what `PidLock` is asked about, and `Stream` the
event locks and the stream's lock. `Stream` has the caches a scan reads and writes and
takes an answer as the question it was asked; `Detection` has one scan, and what an answer
is. `Clip` has the videos of a clip and takes its edit as the trim asked for; `ClipStore`
has the record, the edit and the transcript, and takes a short as what is seen in it.

Operators named after a fault ("Faulty variant" in the comment above them) are not part
of any specification: each is a small plausible change of the definition below it, kept
to show that some property notices it.

### How state and actions correspond to the code

**`JobQueue`** (`job_queue.py`). `entries` and `order` are `JobQueue._entries`; `file` is
`jobs.json`; `storageError`, `limits`, `known` are `storage_error`, `_limits` and the
`KINDS` of the build that runs; `phase` says how far a start has come. Every public call
is one action, because `_synchronised` runs it under the queue's lock. `Commit` is the
end of a call: `Save`, or `RollBack` when `save()` raises, which also latches
`storageError`. `claim_next` scans the list in one call; its choice is `Claimed`, the
entries the scan fails on the way are `Unrunnable`. The list is an arrangement of ids, so
a list operation is said by which ids stay and in which relative order. `Enqueue` takes any
`after`, as the queue does: it is the route that looks for it. `Crash`,
`LoadPlan`, `LoadCorrupt` and `Recover` are a death and the start after it, under a build
that may not know a kind; `Damage` is anything that spoils the file outside the program.

**`Studio`** (`studio/worker.py`, `studio/jobs.py`, the plan routes of `studio/api.py`).
`holder` is what the holder of `Worker.lock` is in the middle of. `PassBegins`,
`ReapDeferred`, `ReapRunning`, `Reap`, `ReapEnds`, `Claim`, then `StartThread` and
`TellJob`, `DeferClaimed` or `FailClaimed` are `drain_once`, one queue call at a time;
`tracked` is `_running`, `unsaved` is `_deferred`. `Report`, `Finish`, `Release`, `Die`
are a job thread, none of them under `Worker.lock`. `EnqueueBegins`/`EnqueueEnds`,
`StopBegins`/`StopEnds`, `ChangePlan`/`Answer` are routes that take it; `RemoveRoute` is
the one that does not, and comes between any two of these steps: also between
`EnqueueBegins`, the route's look for the prerequisite, and `EnqueueEnds`, the enqueue.
`OutsideTakes`/`OutsideLeaves` are command-line and direct runs that hold a lock file. `StudioEnds`, `StudioLoads`, `StartWorker` are a death and the
next start.

**`WorkerThread`** (`worker.py:726-786`). `ref`, `stopping`, `lock` are `_thread`,
`_stopping`, `Worker.lock`; `at` is where each thread is in `_loop`, `call` where the
caller is in `start` or `stop`, whose calls follow one another; a pass is the time from
`EntersPass` to `LeavesPass`. The moment between the loop's last test of the event and
the end of the thread (`leaving`) is a step of its own: two of its properties hang on it.

**`PidLock`** (`lock.py`). `file` is the lock file with its creator and the pid in it, if
any yet; `stage` is where each task is in `acquire`. Each action is one file-system call, so
the empty file between `Creates` and `Writes` is a state. `Exits` ends a process anywhere.

**`Clip`** (`trim.py`, the runs of `jobs.py` and `cli.py` that touch a clip,
`upload_policy.py`). `short`, `master`, `state` are `short.mp4`, `short.full.mp4`,
`short.trim.json`; a video is the render it comes from and the trims cut out of it. `run`
is the one run that holds the event lock and its place; each action is one file operation
of it. `PatchesEdit` takes no lock. `RunIsCutOff` ends a run between any two operations.
`latest`, `uploads`, `unrecorded`, `interrupted` are history.

**`Stream`** (`stream_transcribe.py`, `detect.py`, `moment_scan.py`, the runs of `jobs.py`
and `cli.py` that use them). `chunks`, `transcript`, `windows`, `analysis` are
`chunks/NNN.json`, `transcript.json`, `windows/NNN.json`, `moments.json`; `lock` is the
stream's lock, `run` the run that holds each event's lock, with its place, its cancel
token and what it has gathered. Words are the length of stream they were heard in and the
glossaries that corrected them; an answer of a model is the question it was asked, which
is what `window_fingerprint` condenses. `Downloads` takes the stream at the length it has
by then, and `Grows` makes it longer. Each pass of the two loops is one action per way it
can go: stopped, cached, decoded or asked, failed, killed. A decode and the write of its
file are one step, because the holder of the lock is the only writer of chunks; asking a
model and putting its answer away are two, because window files have several.
`BreaksOff` ends a run between any two steps. `answered` is history.

**`Switch`** (`studio/api.py:795-1979`, `cli.py:519-568`). `switch` is the call of
`_select` under way and its step; `locks` is who has each workspace's studio lock, `kept`
is `app.state.studio_lock`; `worker` is the worker and its thread's place, `paused` and
`pauses` are the queue's `storage_error` and `_storage_pauses`. The thread's pass holds
`Worker.lock`, and `StartsTheThread` is `Worker.start`, which takes that lock: a switch
that is undone, and starts the old worker again, waits there for the pass that its own
join did not wait for. The flag of a stop can find the thread between passes (`leaving`)
or in one (`last`), and one more pass may begin before it is seen. `latched` and `stuck`
are history.

**`Credentials`** (`auth.py`, `quota.py`, the connect guard and the connect and upload
runs of `jobs.py`, the auth routes). `token` is `auth/token-<channel>.json`: whose account
it is for and whether it is still fresh. `task` is where each thread is in
`load_credentials`, `authorize` or an upload, with what it holds in memory: `Load`,
`Refresh` and `SaveRefreshed` are three steps, and so are reading and writing `quota.json`.
`StartConnect` takes the guard `connecting`; the command line's sign-in, the screens that
show a channel's state and uploads take none. `Fails` ends a task anywhere; `Disconnect`,
`Expires`, `NextDay`, `Restart` come at any time. `inserted`, `landed`, `legacy` are
history.

**`Moments` and `Detection`** (`moment_scan.py`, `moments.py`, `detect.py`,
`providers/*.py`). `GroupLines`, `SplitWindows`, `ValidateMoment`, `MergeMoments`,
`MarkerMatches`, `LexiconMoments` are the functions of those names or of the private ones
they stand for. `Detection` runs them: `Responses` is what a vendor may send (how it
ended, what its text is, what it reports as spent), `ReadAnthropic`, `ReadGemini` and
`ReadOpenAI` are how each provider reads it. A transcript is in the order in which the
decoder heard it (`InOrder`). `asked` is history.

**`ClipStore`** (`clipstore.py`, `editorial.py`, `clip_from_moment.py`,
`subtitle_pipeline.py`, `cli.py:cmd_harvest`, `migrate.py`, the PATCH route). `dir` is the
directory of each name, and a name is a title and an identity; `harvest`, `patch` and `run`
are what a harvest, each serving thread and a render have in memory. `Target` is
`_existing_dir` and what follows when it finds none; `Occupied` is `_existing_window`.
`StartHarvest` is a harvest up to its last query, then `WriteEntry` is one turn of its
last loop. The four actions of the human are what the messages of the program tell an
operator to do, or what happens to files.

**`Vocabulary`** (`lexicon*.py`, `glossary*.py`, `tracks.py`, `profile.py:440-665`).
`moments` and `glossaries` are the files by scope. `ScoringMarkers` and `UsedGlossary` are
what `profile.load` makes of the layers, `ReadLexicon` and `ReadGlossary` what the editors
make of them on their own; each request is one action, as nothing else writes its file in
between that it looks at. The loops over layers are functions: `OverAll` is a dict updated
with each layer in turn, `Pick` a list of what passed a test, `MostSpecificFirst` and
`Wins` the pass of `merge_glossaries` with `setdefault` over the layers in reverse.

**`Brands`** (`brand_admin.py`, `event_brand_admin.py`, `font_admin.py`, the validation in
`profile.py` and `overlay.py`). `brand` and `fonts` are the files by scope; a brand is a
function of its sections. A request looks and validates in one step and writes in another
(`Writes`, `Unlinks`); `request` is what each is about to write. `BrandLoads` is what
`profile.load` accepts of the merge, `ChannelAccepts` and `EventAccepts` what the two
editors accept.

**`Directories`** (`channel_admin.py`, `event_admin.py`). `lock` is the lock file at a
path, so it moves and goes with its directory; `admin` is the request in progress with
the locks it has taken, `job` where each job works. A rename is `TakesALock` for each
event, `HasAllLocks`, `Moves`, `Unlocks`; a deletion is the same up to `Empties` and
`Removes`, as rmtree unlinks the lock files before the directories, and may stop at any of
them. A request ends with `GivesBack`, whose releases may raise OSError and leave what they
had still to unlink; `AcquireFails` is an acquire that raises OSError, after which nothing
gives back the locks taken before it. `left` (the paths of such locks) and `spoiled` are
history.

**`Administration`** puts the last three together. They write different files, so each
behaviour of it explores one kind of request (`focus`).

## What the runs show

All runs pass; each property of each run has a faulty variant of the code, in the
modules, under which TLC finds it violated.

| Run | Question | Instance |
|---|---|---|
| `job_queue` | Does the plan survive every sequence of calls, failed saves, restarts, builds and damaged files? | 3 entries, 1 kind in 1 pool of limit 1 or 2, 1 finished entry kept, a build that knows the kind and one that does not |
| `studio` | Do threads, rows and the worker's records ever lose one another? | 2 entries of 2 events, 3 jobs, limit 1 or 2 |
| `studio_progress` | Does ended work get recorded, and eligible work claimed, although saves fail and routes keep coming? | 2 entries, one of which needs no lock, 2 jobs, nothing finished kept |
| `worker_thread` | Is there never more than one draining thread, none behind a negative `is_running`, and does a stop end it? | 3 threads, 1 caller |
| `pid_lock` | Has every refusal a holder, and is a dead one's lock taken over? | 2 threads of a studio, 1 command-line run |
| `clip` | Is no video lost, no cut cut again, and what goes out what was asked for? | 3 takes, 2 cuts, 2 inserts |
| `stream` | Are transcripts whole and lossless, and analyses of one piece, whoever shares the caches? | 2 events, 2 glossaries, 1 engine, a stream of 1 chunk that grows to 2 |
| `switch` | Is a plan drained only under its workspace's lock, is nothing tracked lost, and is a switch answered? | 3 workspaces |
| `credentials` | Is the connect guard exact and given back, do videos reach their channel, does the quota never count too much? | 1 channel, 2 accounts, 2 threads, 2 inserts, 2 days |
| `detection` | Is what a scan lacks named, what it spent counted, and does a merge leave out only what overlaps something as high? | the 3 vendors, every shape of response, streams of up to 3 windows with up to 2 silences |
| `clip_store` | Does a clip keep one record and its own edit, and are captions of what is seen? | 1 harvested clip with 2 spellings of its url, or 1 moment with 2 windows; 2 titles, 1 PATCHing thread |
| `administration` | Do editors show what runs use, do saves stay loadable, and do directories and locks survive renames and deletions? | 1 channel and event for the files, 2 fonts, 2 overlapping requests; 2 channels, 2 events, 2 jobs for the directories |

`clip_store` also shows a refinement: `KeepsTheBook` is `ClipBook`'s specification under
the mapping that takes a clip for what its live directory says of it. `ClipBook` is the
promise of `clipstore.py` without names, harvests, loops and files: a derivation replaces
a record and never an edit, an edit comes back with its clip and never with another, and
only a human takes a clip away.

Why the instances are large enough. *Entries*: a claim relates one entry to its
prerequisite and to one that goes before it, so three entries have every shape a scan can
tell apart; retention with one finished entry kept drops one as soon as two have ended.
*Pool limits*: limit 1 has the pool full, limit 2 has room beside a running entry, and a
change from 2 to 1 has it beyond its limit. *Jobs*: three of them let an entry be retried
while the thread of its first run is still on its way out. *Threads*: one that was given
up by a stop, its successor, and one more that would be one too many. *Lock tasks*: a
takeover needs one that judges, one that creates meanwhile and one that dies; two of them
share a pid, as a route and the worker do. *Takes*: the short, the master and the run in
progress can hold three different renders; takes are used again once no file holds them.
*Cuts*: a change of one trim into another needs two.
*Stream*: two events are one run that changes a cache and one that reads it; the first
chunk is short at first and full once there is a second, so a cached chunk may be of a
shorter stream; two glossaries make two texts of the same chunks, hence two questions for
the same window, also with one engine. *Workspaces*: leaving one, visiting
another and coming back while a third is another studio's. *Credentials*: two tasks are a
refresh and a connect of one channel, or two bookings; tokens and guards of different
channels are different files and different members of a set. *Detection*: three windows
have a seam on each side of the middle one, and a silence can leave a window empty. *Clip
store*: two urls of one clip and two windows of one moment are what can collide; two
titles are what can part them. *Vocabulary*: two spellings of one word and another word, a
pack that uses one of them, and all four layers a default, workspace, channel and event
can make; every file is in turn absent, unreadable, invalid and valid. *Brands*: the
sections that are merged are each saved at the edge of what is valid, on either side of
an override. *Directories*: two channels with two events have a rename take two locks
with a job in either and a name to move to.

Bounds: `MaxUploads` (inserts of a clip), `MaxInserts` and `MaxDay` (of a channel),
`MaxSaves` (PATCHes that saved) and `MaxDamages` (files a human took away) cap counters
and stop nothing but the action that counts. `OneKindOfClip` (`MCClipStore`) is a state
constraint: a state with files of a harvested clip and of a moment is not explored
further. The two share the event's lock and the threads but no file. `focus`
(`Administration`) has one kind of request per behaviour: lexicon, glossary, fonts, looks
or directories. Files of different kinds are never read by the same check, except for
`profile.load`, which refuses if one of them is broken; the bodies of the requests are
those of `Scenario`. Every other variable has a finite range by itself. Deadlock is
checked in every run but `detection`, whose runs of `detect_moments` end.

Symmetry is used where the members of a set are only told apart (entries, jobs, takes,
cuts, events, glossaries, urls of one clip, windows of one moment, titles, directory
names; in `MCStudio` an entry goes together with its event) and the run checks safety
only.

### Fairness

- `Studio`: the worker's steps are weakly fair, as its thread runs whenever it can; the
  begin of a pass is strongly fair, as `Worker.lock` is free between any two routes and
  the waiting thread gets it in the end; the answers of routes that hold it are weakly
  fair. The saves of the reap are strongly fair in their successful form: a disk that
  fails is repaired at some time, not every time. Nothing is asked of job threads, of
  outside holders, of restarts or of the routes that begin something.
- `WorkerThread`: the loop's steps and a call that has begun are weakly fair, the begin
  of a pass strongly. No call need ever begin.
- `PidLock`: a task that is in `acquire` goes on, and an idle one tries again. Nothing is
  asked of those that hold the lock, and no process needs to die.
- `Switch`: the steps of a switch are weakly fair. The worker may stay in its pass for
  ever. The join gives up on it after its timeout, but the `start()` that follows takes
  `Worker.lock`: `SwitchIsAnswered` holds of every switch but one that waits there
  (`WaitsForThePass`), and by then has given the other workspace back.
- `Credentials`: the steps of a task are weakly fair, because everything a thread waits
  for has a timeout: the sign-in page `CONSENT_TIMEOUT_SECONDS`, requests the client's own.
  Which way it goes on, by failing or not, is free; nobody need ever sign in.
- `JobQueue`, `Clip`, `Stream`, `Detection`, `ClipStore` and `Administration` have no
  fairness: nothing in the code schedules their operations.

### Where the code and what it says differ

These are sentences of the code's own documentation that behaviours of the models break.
The properties of the runs are stated for the rest.

- DELETE (`api.py:2968`) falls between the enqueue route's look for the prerequisite and
  the enqueue, although the comment there counts on the check: the new entry waits on one
  that is gone and fails at its claim. What the queue promises is less: an entry that is
  there stays as long as one in the plan waits on it (`PrerequisitesAreKept`), and one
  whose prerequisite is gone never starts (`OnlySatisfiedWorkStarts`). Both are proved of
  the queue and of the studio.
- `start()` after a `stop()` that timed out may meet a thread that has tested the event
  for the last time: it makes no new one, and nothing drains, though it has returned as
  started.
- An empty lock file counts as stale, and it is empty between its creation and the write
  of the pid; a takeover unlinks by name. Two tasks can hold the lock that `lock.py` calls
  exclusive.
- `trim.py:7` has the invariant that the short embodies the trim recorded. A re-render
  that is cut off between its composition and `forget_applied` leaves an old trim record
  beside an uncut short, and neither `is_unknown` nor `is_pending` says so. The properties
  of `Clip` are stated for clips without such an interruption, or hold in spite of it.
- The docstring of `merge_moments` (`moment_scan.py:304-319`) says that chains do not
  collapse. They do not when the one in the middle is the weakest; with rising scores each
  replaces the one before, and a moment is dropped that overlaps nothing that is kept.
- `brand_admin.py:86-89` says that a brand it accepts is one `profile.load` accepts. It is
  validated without the events: an event that overrides only part of `logo`, `output` or
  `subtitles` may be refused after a save of the rest (`SavesUnderAnOverride`).
- `font_admin.delete_event_font` looks at the event's own brand only, as "the only brand
  that can assign an event font"; a channel's brand that names a font the channel has no
  file for resolves to the event's (`TakesAnInheritedFont`).
Observed while modelling, and left unchecked:

- `_run` (`jobs.py:473`) has no handler of its own, so an exception outside the per-clip
  one leaves the job `running` with its thread gone (`Die`); no pass reaps it and its pool
  slot is never freed. `studio_progress` therefore asks only about runners that set their
  status (`Unguarded` is empty there).
- `_run_detect` reads `moments.json` back after the write (`jobs.py:605`): its note may
  describe the analysis of another event's run.
- An analysis may be written on words older than the transcript beside it, as a detection
  takes no stream lock; two events with different lexicons overwrite each other's window
  cache, which costs calls and never a wrong answer.
- A download whose metadata has no duration counts as a stream of no length
  (`stream_transcribe.py:333`): an empty transcript replaces a whole one.
- With ffprobe failing, a complete audio file is downloaded with `--continue` again, the
  request the docstring at 286-290 says to avoid.
- Retention goes by position in the list; the comment at `job_queue.py:193` speaks of
  when entries finished.
- When an unreadable `jobs.json` cannot be renamed, the next save overwrites it, while
  `load_error` says it was renamed.
- The DELETE and enqueue routes look the entry up after they have acted
  (`api.py:2668-2669`, `2859-2862`) and can answer an error for a call that took effect.
- After a retry whose `mark_running` cannot be saved, the row still names the job of an
  earlier run.
- The text at `trim.py:297` speaks of a complete copy that is no longer there when the
  unlink at 292 fails after the rename.
- A switch that is refused because a pass does not end answers only when it does: the
  undo calls `previous.start()` (`api.py:1938`), which waits for the `Worker.lock` that
  pass holds (`worker.py:729`, `379`), with `_reroot_lock` held, so every later switch
  waits too. The comment in `stop` (`worker.py:753-760`) has such a pass in mind.
- An OSError of `acquire()` for a later event of a channel (`channel_admin.py:98-108`)
  leaves the locks of the events before it, outside the `try` that would release them; so
  does one of a `release()`. They name the live studio and refuse every run of those events
  until it ends. `NoLockIsLeftBehind` denies locks left in any other way.
- A direct route can start a job between the last look of a switch (`api.py:1916`) and
  `_switch_to`.
- A route that took `app.state.job_queue` before a switch writes the old plan after its
  lock is gone.
- `_serve_studio` (`cli.py:557-568`) stops the worker it found at the start, not the one
  in use after a switch.
- A switch through a workspace whose queue cannot be built loses `was_running`
  (`api.py:836-841`, 1910).
- When the old lock cannot be released (`api.py:1931`), the new worker is not started,
  and coming back to that workspace is refused until the process ends.
- A refresh that was under way while the operator connected the channel again, or
  disconnected it, saves its old token over the new state (`auth.py:95`). Bookings that
  overlap lose one another, and a `quota.json` that cannot be read is written anew.
- `save_api_key` (`providers/_shared.py:172-217`) writes through one fixed `.part` name:
  two saves at once share it.
- A source list with two spellings of one url can replace a good record by the failure of
  the other's query (`cli.py:105-140`, the exception in `GoodRecordsStay`). `migrate`
  run again overwrites `clip.json`, drafts and an event's `brand.json`.
- Deleting `clip.json` to force a query, with a title that has changed since, makes a new
  directory, and the edit stays in the old one. Deleting it to pick another window of the
  same rounded seconds puts that window beside the old edit and transcript. Two harvests
  at once can make two directories.
- PATCHes take no lock, so of two that overlap one loses its fields; a save makes the
  directory again if it has gone. A trim made for a window is not validated again when the
  window shrinks.
- Saves of a channel's identity, of brands, of the upload mode and of the adopted default
  read and write whole files: of two that overlap one is lost. Saving in an editor over a
  broken file starts from an empty layer. A font that is deleted while a brand that names
  it is being saved is the third exception of `SavesKeepProfilesLoadable`
  (`WasOvertaken`).
- `create_event` and `editorial.save` make parent directories, so one that comes after a
  rename or a deletion brings the old name back. A `create_channel` that fails half way
  leaves a directory that refuses the next try.
- Restructurings that overlap break what one at a time keeps: an event created after the
  locks were listed is not locked, and locks are released by path, whoever holds what is
  there by then. rmtree unlinks a lock file before its directory, so a job can start in an
  event that is half gone; the deletion then unlinks that job's lock (`spoiled`).

## What is proved

All theorems are of the specifications without fairness, for every value of the
constants that satisfies the module's assumption. Each proof states the same four
things: the initial states satisfy an inductive invariant, every action preserves it, it
implies the properties, and the temporal theorem that combines them. Type invariants are
proved where they are part of an inductive invariant and are not among the runs'
properties; so are some properties of earlier runs, named below, which a proof settles for
every instance.

- **`StudioProofs`**, the plan, under `QueueAssumption` (the ids are a finite set, the null
  values are none of the values they stand for, kinds have pools). `IInv` says that both the
  plan in memory and the plan in `jobs.json` are good plans, and that they are the same plan
  whenever the program is up. The file has to be in it because a restart reads it: an
  invariant of memory alone is lost at the first `LoadPlan`. A good plan is well-formed,
  has the prerequisites of what has started and has them done, and has no row with a
  reading or a reason of another run. An entry that has not started may wait on one that
  is not there. From it: `TypeCorrect`, `MemoryIsAlwaysOnDisk`,
  `PrerequisitesAreAlwaysKept`, `OnlySatisfiedWorkEverStarts`,
  `RowsAlwaysDescribeTheirOwnRun`, `DoneStaysFinal`,
  `PoolsAreNeverOversubscribed`.
- **`StudioProofs`**, the studio, under `QueueAssumption` and `StudioAssumption`.
  `StudioInv` is about three records of the same work that are never written together: the
  rows of the plan, the worker's `_running` and `_deferred`, and the job threads. A row is
  active just when it is tracked, or to be taken back, or claimed by the pass that goes on
  (`TrackedRows`, `ActiveIsTracked`); a thread at work is the tracked one of its row
  (`JobsAreTracked`); a stopping row's job was told (`StoppingWasTold`); a lock file is held
  exactly from a thread's first step to its finally (`LocksAreHeld`, `LocksAreGivenBack`).
  None of these is inductive without what the holder of `Worker.lock` has read and not yet
  acted on (`HolderKnows`), which has to survive every step of a thread, of DELETE and of
  another process: a row it is about to start stays running, a job it is about to tell stays
  tracked. Each action of `Studio` is a call of the queue that either is saved or is rolled
  back, so that every one has both cases; the lemmas on what each call does to running and
  stopping rows (`RowsStay`) are what carries them. From it the three invariants of the run
  `studio` about threads and rows and `LocksAreAlwaysGivenBack`. `StudioImplementsQueue` is
  the refinement, `StudioSpec => Spec`: each step of the studio is a call of the queue or
  leaves the plan alone. So every property of the plan holds of the studio, wherever the
  DELETE route comes in (`StudioKeepsPrerequisites`, `StudioStartsOnlySatisfiedWork`,
  `StudioBoundsPools`).
- **`ClipProofs`** under `ClipAssumption`. `IInv` adds to the properties what each step of
  a run knows of the files (`FilesMidRun`: after the promotion there is a master and no
  short, and so on), that a cut short has its master beside it, and that the files agree
  with the record until a run is cut off. The properties do not imply themselves: that
  nothing is lost when a cut fails depends on where the run stands. From it: the type, the
  five properties of the run `clip`, and two more: `UncutLatestIsKept` (the newest render
  is on disk uncut until a run is cut off) and `DoneLeavesNothingPending` (what a trim
  answers is true whatever it found).
- **`StreamProofs`** under `StreamAssumption`. `IInv` says of a run at each of its steps
  what it has looked at: at chunk n, exactly the chunks before n are known or missing, each
  at its full length for this run's stream and uncorrected; at window n, the same of
  answers and failures, each the answer to this run's question. That the files are whole
  follows when a run ends its loop. That nothing heard is lost needs more than the files
  say (`HInv`): a transcription holds the lock, no chunk in the cache is longer than the
  stream of the run that transcribes, so none can be replaced by a shorter one, and a run
  has found what it passed. It is an argument about two runs one after the other, through a
  cache; the lock makes it sound. `ChunksGrow` is its arithmetic. From them: the type,
  the three properties of the run `stream`, `CorrectedByOneGlossary` and
  `NothingIsAskedAgain`.
- **`SwitchProofs`** under `SwitchAssumption`. `IInv` says for every step of a switch which
  locks are held (`LocksOfASwitch`), what the worker's thread may still do
  (`SwitchPrepares`) and where a storage pause is kept (`PausesAreKept`). From it: the
  type, the safety properties of the run `switch`, `LocksMatchTheWorkspace` and
  `StoragePauseSurvives`.
- **`SwitchProofs`** has what a switch and every job rely on as well. `OneThreadDrains`, for
  any number of threads, under `ThreadAssumption` (one caller at a time): a thread that drains
  is the one the worker refers to, and a `stop` joins that one (`DrainerIsKnown`), which is why
  a `stop` that has timed out keeps the reference. `RefusalsHaveAHolder`, for any number of
  tasks and processes, under `LockAssumption`: the task that wrote the pid in the file still
  holds the lock if its process lives (`PidIsTheHolders`), although by then other tasks may
  hold it as well.
- **`ClipStoreProofs`** under `ClipStoreAssumption` and `NoneAssumption` (a missing file is
  no file). `IInv` has each record under its own identity, one live directory per identity,
  each transcript of the passage its source names, also for a render that still works from
  a record somebody has spoilt since, and what a harvest has left to write beside what it
  had to ask for. That the store keeps the book follows from the second: a write finds the
  one live directory there is, so it is a `Derive`, a saved edit is a `Decide`, and taking
  something away is a `Withdraw` of its own clip; `OthersStay` says that no other clip's
  page of the book changes. From it all five properties of the run `clip_store`, the
  refinement among them, without the bound `OneKindOfClip` and for every number of PATCHing
  threads.
- **`AdministrationProofs`** under `DirectoryAssumption`, `VocabularyAssumption` and
  `PackAssumption` (keys are their own keys, the default and what requests send are
  spelled in the spellings there are, shipped packs parse). `IInv` has two parts.
  `DirectoryInv` says for each step of a request which paths it is about, which of their
  locks it holds and where those are once the directories have moved, and whose every
  other lock is, unless an OSError left it. A working job is then never at a path the request unlocks
  (`WorkIsNotLocked`), unless rmtree had been there before it. From it both properties
  about directories of the run `administration`, for every number of channels, events and
  jobs. `VocabularyTypeOK` says what the files can hold, and that is all an editor needs to
  agree with a run. The editor walks every scope and takes an empty layer for a file it
  cannot use; the run leaves that file out, so the run's layers are the editor's without
  some empty ones (`Sparse`). An entry's value is that of the last layer that has it, which
  is the same layer on both sides (`MergedAlike`). For the terms, which a run takes in
  reverse and the first of each key, the first of a key is from the last layer that has it
  (`WinnersAreFromTheLast`), so they are the terms the editor shows, and in the order of
  their layers. Adopting the default puts it below the workspace's own entries and above
  itself, which changes no merge (`AdoptedMergesAlike`). From them
  `EditorsShowWhatIsUsed` and `AdoptingChangesNothing`, for every set of spellings, packs
  and files. The walks are recursive functions; `Recursion` and `NatSetInduction` are as
  in `DetectionProofs`.
- **`CredentialsProofs`** under `CredentialsAssumption`. `IInv` says that a stored token, and
  the credential of every thread but one that has just been given a consent, is of an
  account its channel may have: itself, or the one it had before the first step. Only
  `Verify` takes a thread from a credential of any account to one it may store. The guard
  is exact because a channel is in it just when a thread connects it, and no two do.
  From it `ConnectGuardIsExact` and `UploadsLandOnTheirChannel`, for any channels,
  accounts, threads and bounds. `QuotaNeverOverstates` needs more than the file: a thread
  that has read it will write back what it read plus one, however old that is. `CountsInv`
  therefore bounds both the file and each such reading by the inserts that no thread has
  still to book (`Margin`), which no step takes down. The sum over the days is the
  cardinality of a set with one element for each counted insert.
- **`DetectionProofs`** under `DetectionAssumption`. The walks along a stream
  (`GroupLines`, `SplitWindows`, `MergeMoments` and the insertion in it) are recursive
  functions; what each one returns is proved for every input. `Recursion` says that a
  function that goes up one step at a time exists and that each of its values is good if a
  step from a good value leads to one, and it is proved with a set of numbers
  (`NatSetInduction`), so neither takes an operator as a parameter. From that: lines are in
  order and windows cover all of them, an insertion keeps a sequence sorted, and what a merge
  drops overlaps something it has met that scores no less (met, not kept: see the chains
  above). `RunInv`, `DoneInv` and `BillInv`
  say of a run what it has asked, found and missed, what an analysis is made of, and that
  the usage is the number of responses and of the tokens in them. From them `HolesAreNamed`,
  `SpentTokensAreCounted` and `MergeKeepsTheBest`, for every vendor, transcript and sequence
  of responses.

Only model-checked: `SavesKeepProfilesLoadable`, as its proof would go through the
validation of every section of a brand, and all liveness (`EndedWorkIsRecorded`,
`NothingEligibleIsForgotten`, `StoppedThreadsEnd`, `StaleLocksAreTakenOver`,
`SwitchIsAnswered`, `ConnectsEnd`): the proof system has no rule for fairness with ENABLED.

## What is left out

Inside the modelled parts:

- Times, texts of reasons, names and secrets of params; `reason` keeps whether it says
  why an entry waits or how it ended.
- `start_transcribe_job` takes the stream lock and the event lock one after the other;
  `Studio` takes them in one step, as a failure of the second gives back the first.
- A cancel token is a Boolean: force and stop differ only in what the work does with it.
- A thread that the operating system refuses to start. Reuse of a pid by an unrelated
  process.
- In `Clip`, taking the lock and reading the edit are one step, an unreadable record is
  an absent one, and the check of a trim against the duration is one way for a cut to
  fail. Deletions by hand are modelled for the record only.
- In `Stream`, lengths only grow, an unreadable cache file is an absent one, the bias that
  terms give a decode is not part of a text, and the number of windows grows with the
  known chunks. A scan with the lexicon, or of no words, writes an analysis without a
  question. `cmd_detect` that meets a taken stream ends at once and changes nothing. The
  signals and the grace period of a kill are one step, and a decode may still end by itself
  after the kill was asked for.
- In `Switch`, `_switch_to` and the reap are one step each, one entry and one direct job
  stand for all, and the contents of manifests, configuration and copied trees are left
  out. Its properties are stated for a studio that serves; `exiting` is modelled up to
  the end of the process.

- In `Credentials`, the browser's part of a sign-in is the account it ends with; owner
  mode, which hides screens, is left out. A booking is of one insert, at one price.
- In `Moments` and `Detection`, prompts, languages, model names, keys and the wording of
  errors; times are whole units of a short stream, and the text of a moment is not kept.
- In `ClipStore`, titles and statuses of an edit, the fix-ups of a transcript's text and
  the page a harvest reads. Two commands of the command line do not overlap.
- In `Vocabulary` and `Brands`, previews, palettes, image formats, the files of bundled
  fonts, and of the sections of a brand those that are merged like one that is there.
- In `Directories`, requests that overlap; the other files of a channel or event move and
  go with its directory. Tokens are kept elsewhere, by the site's id of the channel.

Parts that are not modelled, and why, are listed with their reason in `PROJECT.json`
under `components`: pixels and text layout, requests to networks, the web client,
installation, video settings, the PATCH of a channel's identity, logging.

## Plan

Done, in this order: `JobQueue` and its proofs; `Studio`; `WorkerThread` and `PidLock`,
which look into what `Studio` abstracts; `Clip`, `Switch`, `Stream` and `Credentials`, each
with its proofs; `Moments` and `Detection`; `ClipBook` and `ClipStore` with the
refinement and its proof; `Vocabulary`, `Brands`, `Directories` and their composition,
with the proofs of `Directories`; then the proofs of `Studio`, `WorkerThread`, `PidLock`,
the quota, `Detection` and `Vocabulary`.

Next:

1. A proof of `SavesKeepProfilesLoadable`: what each editor accepts of its own file against
   what `profile.load` refuses of the merge, section by section.
2. The eviction of the job store, which keeps jobs that run and drops the oldest others.
3. An abstract lock, implemented by `PidLock` while nobody reads an empty file.
4. Administrative requests that overlap, with what then still holds.
