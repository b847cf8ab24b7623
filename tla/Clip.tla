-------------------------------- MODULE Clip --------------------------------
(***************************************************************************)
(* The files of one clip and the runs that write them: a render, a trim    *)
(* and an upload, each under the event's lock, one file operation at a     *)
(* time (trim.py, the render of jobs.py and cli.py, upload_policy.py,      *)
(* upload_record.py).  A video is the render it comes from and the trims   *)
(* cut out of it.  A run may be cut off between any two operations: its    *)
(* process dies, or a file operation raises.                               *)
(***************************************************************************)
EXTENDS Naturals, Sequences

CONSTANTS
  Takes,     \* renders, told apart: every composition is a new take
  Cuts,      \* trims that take something off
  Uncut,     \* the trim (0, 0)
  MaxUploads,\* bound: inserts that are followed
  None       \* no such file; no run holds the lock

Trims == Cuts \cup {Uncut}
Videos == [take : Takes, cuts : Seq(Cuts)]
Edits == [trim : Trims, kept : BOOLEAN]

\* A run: its kind, the step it is at, the edit it read, whether it is a forced
\* upload, whether its trim made the short the master.
EnsurePlaces == {"ensure", "restore", "unlink state", "cut", "write state"}
RenderPlaces == {"compose", "forget master", "forget state"} \cup EnsurePlaces
UploadPlaces == {"check", "insert", "record"}

RunsOf(kind, places, forces) ==
  [kind : {kind}, at : places, edit : Edits, force : forces, promoted : BOOLEAN]

Runs ==
  RunsOf("render", RenderPlaces, {FALSE})
  \cup RunsOf("trim", EnsurePlaces, {FALSE})
  \cup RunsOf("upload", UploadPlaces, BOOLEAN)

ASSUME ClipAssumption ==
  /\ Uncut \notin Cuts
  /\ None \notin Takes \cup Trims \cup Videos \cup Runs
  /\ MaxUploads \in Nat

VARIABLES
  short,       \* short.mp4, or None
  master,      \* short.full.mp4, or None
  state,       \* the trim in short.trim.json; None when nothing readable is there
  edit,        \* edit.json, as far as a trim or an upload reads it
  recorded,    \* upload.json can be read
  run,         \* the run that holds the event's lock, or None
  asked,       \* upload requests past their route's checks: are they forced?
  latest,      \* history: the take composed last
  uploads,     \* history: inserts made
  unrecorded,  \* history: an insert's record was never written
  interrupted  \* history: a run was cut off midway, no render got through since

files == <<short, master, state>>
published == <<recorded, uploads, unrecorded>>
clipVars == <<files, edit, published, run, asked, latest, interrupted>>

Video(take, cuts) == [take |-> take, cuts |-> cuts]
\* The video of a take that embodies a trim.
Embodying(take, trim) == Video(take, IF trim = Uncut THEN <<>> ELSE <<trim>>)

Applied == IF state = None THEN Uncut ELSE state
IsUnknown == state = None /\ master # None
\* Faulty variant: only the two recorded values are compared.
ComparesRecordsOnly(e) == short # None /\ e.trim # Applied
IsPending(e) == short # None /\ (IsUnknown \/ e.trim # Applied)

At(kind, place) == run # None /\ run.kind = kind /\ run.at = place
Applying(place) == run # None /\ run.at = place
Goes(place) == run' = [run EXCEPT !.at = place]
Ends == run' = None

Starts(kind, place, force) ==
  /\ run = None
  /\ run' = [kind |-> kind, at |-> place, edit |-> edit, force |-> force,
             promoted |-> FALSE]

----------------------------------------------------------------------------
(* A render: build_short, forget_applied, then ensure_applied *)

RenderStarts ==
  /\ Starts("render", "compose", FALSE)
  /\ UNCHANGED <<files, edit, published, asked, latest, interrupted>>

\* No download, a failed encode or a stop: the old short stays.
RenderFails ==
  /\ At("render", "compose")
  /\ Ends
  /\ UNCHANGED <<files, edit, published, asked, latest, interrupted>>

InUse == {latest} \cup {v.take : v \in {short, master} \ {None}}

Composes ==
  /\ At("render", "compose")
  /\ \E take \in Takes \ InUse : latest' = take /\ short' = Video(take, <<>>)
  /\ Goes("forget master")
  /\ UNCHANGED <<master, state, edit, published, asked, interrupted>>

ForgetsMaster ==
  /\ At("render", "forget master")
  /\ master' = None
  /\ Goes("forget state")
  /\ UNCHANGED <<short, state, edit, published, asked, latest, interrupted>>

ForgetsState ==
  /\ At("render", "forget state")
  /\ state' = None
  /\ interrupted' = FALSE
  /\ Goes("ensure")
  /\ UNCHANGED <<short, master, edit, published, asked, latest>>

----------------------------------------------------------------------------
(* ensure_applied, the whole of a trim run and the end of a render *)

TrimStarts ==
  /\ Starts("trim", "ensure", FALSE)
  /\ UNCHANGED <<files, edit, published, asked, latest, interrupted>>

\* A stop asked for before the cut; a render passes no token here.
TrimStopsFirst ==
  /\ At("trim", "ensure")
  /\ Ends
  /\ UNCHANGED <<files, edit, published, asked, latest, interrupted>>

NeedsApplying == short # None /\ (IsUnknown \/ run.edit.trim # Applied)

NothingToApply ==
  /\ Applying("ensure")
  /\ ~NeedsApplying
  /\ Ends
  /\ UNCHANGED <<files, edit, published, asked, latest, interrupted>>

\* Faulty variant: every trim makes the current short the master.
AlwaysPromotes ==
  /\ Applying("ensure")
  /\ NeedsApplying
  /\ master' = short
  /\ short' = None
  /\ run' = [run EXCEPT !.promoted = TRUE,
                        !.at = IF run.edit.trim = Uncut THEN "restore" ELSE "cut"]
  /\ UNCHANGED <<state, edit, published, asked, latest, interrupted>>

\* The short becomes the master unless there is one.
Promotes ==
  /\ Applying("ensure")
  /\ NeedsApplying
  /\ IF master = None THEN master' = short /\ short' = None
                      ELSE UNCHANGED <<master, short>>
  /\ run' = [run EXCEPT !.promoted = (master = None),
                        !.at = IF run.edit.trim = Uncut THEN "restore" ELSE "cut"]
  /\ UNCHANGED <<state, edit, published, asked, latest, interrupted>>

Restores ==
  /\ Applying("restore")
  /\ short' = master
  /\ master' = None
  /\ Goes("unlink state")
  /\ UNCHANGED <<state, edit, published, asked, latest, interrupted>>

UnlinksState ==
  /\ Applying("unlink state")
  /\ state' = None
  /\ Ends
  /\ UNCHANGED <<short, master, edit, published, asked, latest, interrupted>>

CutOf(video, trim) == Video(video.take, Append(video.cuts, trim))

Cut ==
  /\ Applying("cut")
  /\ short' = CutOf(master, run.edit.trim)
  /\ Goes("write state")
  /\ UNCHANGED <<master, state, edit, published, asked, latest, interrupted>>

\* Faulty variant: a failed cut clears the promoted master away.
CutFailureDropsMaster ==
  /\ Applying("cut")
  /\ master' = IF run.promoted THEN None ELSE master
  /\ Ends
  /\ UNCHANGED <<short, state, edit, published, asked, latest, interrupted>>

\* A probe, a trim that is too long, ffmpeg or a stop: a promotion is undone.
CutFails ==
  /\ Applying("cut")
  /\ IF run.promoted THEN short' = master /\ master' = None
                     ELSE UNCHANGED <<short, master>>
  /\ Ends
  /\ UNCHANGED <<state, edit, published, asked, latest, interrupted>>

WritesState ==
  /\ Applying("write state")
  /\ state' = run.edit.trim
  /\ Ends
  /\ UNCHANGED <<short, master, edit, published, asked, latest, interrupted>>

----------------------------------------------------------------------------
(* An upload: the route's checks, the lock, the checks again, insert, record *)

Eligible(e, force) ==
  e.kept /\ short # None /\ ~IsPending(e) /\ (recorded => force)

\* The route's own checks, before the lock.
AsksUpload ==
  /\ \E force \in BOOLEAN \ asked :
       Eligible(edit, force) /\ asked' = asked \cup {force}
  /\ UNCHANGED <<files, edit, published, run, latest, interrupted>>

\* The lock's answer to a request that passed the route's checks.
UploadStarts ==
  /\ \E force \in asked : Starts("upload", "check", force) /\ asked' = asked \ {force}
  /\ UNCHANGED <<files, edit, published, latest, interrupted>>

UploadFindsLockHeld ==
  /\ run # None
  /\ \E force \in asked : asked' = asked \ {force}
  /\ UNCHANGED <<files, edit, published, run, latest, interrupted>>

\* bin/yt-shorts upload: no route, never forced.
CliUploadStarts ==
  /\ Starts("upload", "check", FALSE)
  /\ UNCHANGED <<files, edit, published, asked, latest, interrupted>>

\* Faulty variant: the run takes the route's word for it.
TrustsTheRoute ==
  /\ At("upload", "check")
  /\ Goes("insert")
  /\ UNCHANGED <<files, edit, published, asked, latest, interrupted>>

\* Faulty variant: whether it was uploaded is only asked by the route.
ForgetsTheRecord ==
  /\ At("upload", "check")
  /\ IF Eligible(run.edit, TRUE) THEN Goes("insert") ELSE Ends
  /\ UNCHANGED <<files, edit, published, asked, latest, interrupted>>

RequiresEligible ==
  /\ At("upload", "check")
  /\ IF Eligible(run.edit, run.force) THEN Goes("insert") ELSE Ends
  /\ UNCHANGED <<files, edit, published, asked, latest, interrupted>>

InsertFails ==
  /\ At("upload", "insert")
  /\ Ends
  /\ UNCHANGED <<files, edit, published, asked, latest, interrupted>>

Inserts ==
  /\ At("upload", "insert")
  /\ uploads < MaxUploads
  /\ uploads' = uploads + 1
  /\ Goes("record")
  /\ UNCHANGED <<files, edit, recorded, unrecorded, asked, latest, interrupted>>

RecordsUpload ==
  /\ At("upload", "record")
  /\ recorded' = TRUE
  /\ Ends
  /\ UNCHANGED <<files, edit, uploads, unrecorded, asked, latest, interrupted>>

----------------------------------------------------------------------------
(* What happens around the runs *)

\* A PATCH of the clip takes no lock.
PatchesEdit ==
  /\ \E e \in Edits \ {edit} : edit' = e
  /\ UNCHANGED <<files, published, run, asked, latest, interrupted>>

\* short.trim.json deleted or corrupted by hand.
StateIsLost ==
  /\ state # None
  /\ state' = None
  /\ UNCHANGED <<short, master, edit, published, run, asked, latest, interrupted>>

Midway == {"forget master", "forget state", "unlink state", "write state"}

\* The process dies, or a rename, an unlink or a write raises.
RunIsCutOff ==
  /\ run # None
  /\ Ends
  /\ interrupted' = (interrupted \/ run.at \in Midway)
  /\ unrecorded' = (unrecorded \/ run.at = "record")
  /\ asked' \in {asked, {}}
  /\ UNCHANGED <<files, edit, recorded, uploads, latest>>

Init ==
  /\ short = None /\ master = None /\ state = None
  /\ edit = [trim |-> Uncut, kept |-> TRUE]
  /\ recorded = FALSE
  /\ run = None
  /\ asked = {}
  /\ latest = None
  /\ uploads = 0
  /\ unrecorded = FALSE
  /\ interrupted = FALSE

RenderStep == RenderStarts \/ RenderFails \/ Composes \/ ForgetsMaster \/ ForgetsState

EnsureStep ==
  \/ TrimStarts \/ TrimStopsFirst \/ NothingToApply \/ Promotes
  \/ Restores \/ UnlinksState \/ Cut \/ CutFails \/ WritesState

UploadStep ==
  \/ AsksUpload \/ UploadStarts \/ UploadFindsLockHeld \/ CliUploadStarts
  \/ RequiresEligible \/ InsertFails \/ Inserts \/ RecordsUpload

Next == RenderStep \/ EnsureStep \/ UploadStep \/ PatchesEdit \/ StateIsLost \/ RunIsCutOff

ClipSpec == Init /\ [][Next]_clipVars

----------------------------------------------------------------------------
(* Properties *)

\* Every variable has a value of its kind, a run is at a step its kind has,
\* and only an upload is ever forced.
ClipTypeOK ==
  /\ short \in Videos \cup {None} /\ master \in Videos \cup {None}
  /\ state \in Cuts \cup {None}
  /\ edit \in Edits
  /\ run \in Runs \cup {None}
  /\ asked \subseteq BOOLEAN
  /\ latest \in Takes \cup {None}
  /\ uploads \in 0..MaxUploads
  /\ recorded \in BOOLEAN /\ unrecorded \in BOOLEAN /\ interrupted \in BOOLEAN

\* No cut is ever made of a cut: whatever was interrupted, short.full.mp4 never
\* holds a video that something was already taken off (trim.py:19-22).
MasterIsUncut == master # None => master.cuts = <<>>

\* A clip that was rendered always has a video on disk, under one name or the
\* other, at every step of a render or a trim and wherever one is cut off.
NothingIsLost == latest # None => short # None \/ master # None

\* Unless a run was cut off, the newest render is on disk with nothing taken
\* off it: a trim can always be widened or undone without rendering again.
UncutLatestIsKept ==
  ~interrupted /\ latest # None => Video(latest, <<>>) \in {short, master}

\* Unless a run was cut off, a short that is_pending lets out while nothing
\* runs is the newest render with exactly the trim the edit asks for, however
\* cuts failed, edits changed meanwhile and the state file was lost.
DeliverableIsDesired ==
  ~interrupted /\ run = None /\ short # None /\ ~IsPending(edit)
    => short = Embodying(latest, edit.trim)

\* Unless a run was cut off, what an upload inserts is the newest render with
\* the trim of the kept edit it was approved for, though edits take no lock.
UploadsAreApproved ==
  [][uploads' # uploads /\ ~interrupted
       => run.edit.kept /\ short = Embodying(latest, run.edit.trim)]_clipVars

\* Nothing is published twice by accident: an upload that was not forced is the
\* clip's first, unless an earlier one was never recorded.
NoAccidentalReupload ==
  [][uploads' # uploads /\ ~run.force => uploads = 0 \/ unrecorded]_clipVars

\* A trim or a render that ends as done leaves nothing pending for the edit it
\* read, whatever state an earlier interruption left the files in.
DoneLeavesNothingPending ==
  [][\A e \in Edits : run # None /\ run.edit = e /\ (NothingToApply \/ UnlinksState \/ WritesState)
       => ~IsPending(e)']_clipVars

=============================================================================
