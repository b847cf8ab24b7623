----------------------------- MODULE ClipProofs -----------------------------
(* Theorems about Clip, for every set of takes and cuts. *)
EXTENDS Clip, SequenceTheorems, TLAPS

----------------------------------------------------------------------------
(* The inductive invariant *)

Forgetting == Applying("forget master") \/ Applying("forget state")

\* What a run knows of the files at each of its steps, interrupted or not.
FilesMidRun ==
  /\ Forgetting => latest # None /\ short = Video(latest, <<>>)
  /\ Applying("forget state") => master = None
  /\ Applying("restore") \/ Applying("cut") \/ Applying("write state") => master # None
  /\ Applying("restore") \/ Applying("unlink state") => run.edit.trim = Uncut
  /\ Applying("cut") \/ Applying("write state") => run.edit.trim # Uncut
  /\ Applying("write state") => short # None
  /\ Applying("unlink state") => short # None /\ master = None

\* A cut short never stands without the master it was cut from.
CutsHaveTheirMaster == short # None /\ short.cuts # <<>> => master # None

\* The files agree with each other until a run is cut off between two of them.
FilesAgree ==
  ~interrupted /\ ~Forgetting =>
    /\ master # None => master = Video(latest, <<>>)
    /\ short # None => short.take = latest
    /\ master = None => state = None \/ Applying("unlink state")
    /\ Applying("cut") /\ run.promoted => state = None
    /\ short # None /\ ~IsUnknown /\ ~Applying("unlink state") /\ ~Applying("write state")
         => short = Embodying(latest, Applied)
    /\ Applying("write state") => short = Embodying(latest, run.edit.trim)

\* An upload past its check sends what its edit asks for, and a first one
\* unless it was forced.
UploadsKnowTheClip ==
  /\ Applying("insert") =>
       /\ run.edit.kept
       /\ ~interrupted => short = Embodying(latest, run.edit.trim)
       /\ ~run.force => ~recorded
  /\ uploads # 0 => recorded \/ unrecorded \/ Applying("record")

IInv ==
  /\ ClipTypeOK
  /\ MasterIsUncut
  /\ NothingIsLost
  /\ FilesMidRun
  /\ CutsHaveTheirMaster
  /\ FilesAgree
  /\ UploadsKnowTheClip

----------------------------------------------------------------------------
(* Type correctness *)

\* A video nothing was taken off, and a video cut once more.
LEMMA FreshVideo ==
  ASSUME NEW take \in Takes
  PROVE  /\ Video(take, <<>>) \in Videos /\ Video(take, <<>>) # None
         /\ Video(take, <<>>).take = take /\ Video(take, <<>>).cuts = <<>>
<1>1. Video(take, <<>>) \in Videos
  BY DEF Video, Videos
<1> QED BY <1>1, ClipAssumption DEF Video

LEMMA CutVideo ==
  ASSUME NEW video \in Videos, NEW trim \in Cuts
  PROVE  /\ CutOf(video, trim) \in Videos /\ CutOf(video, trim) # None
         /\ CutOf(video, trim).take = video.take
<1>1. video.take \in Takes /\ video.cuts \in Seq(Cuts)
  BY DEF Videos
<1>2. Append(video.cuts, trim) \in Seq(Cuts)
  BY <1>1, AppendProperties
<1>3. CutOf(video, trim) \in Videos
  BY <1>1, <1>2 DEF CutOf, Video, Videos
<1> QED BY <1>3, ClipAssumption DEF CutOf, Video

\* A cut of an untouched video embodies exactly that trim.
LEMMA CutOfFresh ==
  ASSUME NEW take \in Takes, NEW trim \in Cuts
  PROVE  CutOf(Video(take, <<>>), trim) = Embodying(take, trim)
<1>1. Append(<<>>, trim) = <<trim>>
  OBVIOUS
<1> QED BY <1>1, ClipAssumption DEF CutOf, Video, Embodying

\* A run moves on to a step its kind has.
LEMMA RunGoesOn ==
  ASSUME run \in Runs, NEW place,
         \/ run.kind = "render" /\ place \in RenderPlaces
         \/ run.kind = "trim" /\ place \in EnsurePlaces
         \/ run.kind = "upload" /\ place \in UploadPlaces
  PROVE  [run EXCEPT !.at = place] \in Runs /\ [run EXCEPT !.at = place] # None
<1>1. [run EXCEPT !.at = place] \in Runs
  BY DEF Runs, RunsOf
<1> QED BY <1>1, ClipAssumption

LEMMA EnsuringRuns ==
  ASSUME run \in Runs, run.at \in EnsurePlaces
  PROVE  run.kind = "render" \/ run.kind = "trim"
BY DEF Runs, RunsOf, EnsurePlaces, UploadPlaces

LEMMA StepKeepsType == IInv /\ Next => ClipTypeOK'
<1> SUFFICES ASSUME ClipTypeOK, FilesMidRun, Next PROVE ClipTypeOK'
  BY DEF IInv
<1> USE ClipAssumption
<1>1. CASE RenderStep
  <2>1. CASE RenderStarts
    BY <2>1 DEF ClipTypeOK, RenderStarts, Starts, Runs, RunsOf, RenderPlaces, files, published
  <2>2. CASE RenderFails
    BY <2>2 DEF ClipTypeOK, RenderFails, Ends, files, published
  <2>3. CASE Composes
    <3>1. run' \in Runs
      BY <2>3, RunGoesOn DEF ClipTypeOK, Composes, Goes, At, RenderPlaces
    <3>2. PICK take \in Takes : latest' = take /\ short' = Video(take, <<>>)
      BY <2>3 DEF Composes
    <3>3. short' \in Videos
      BY <3>2, FreshVideo
    <3> QED BY <2>3, <3>1, <3>2, <3>3 DEF ClipTypeOK, Composes, published
  <2>4. CASE ForgetsMaster
    BY <2>4, RunGoesOn DEF ClipTypeOK, ForgetsMaster, Goes, At, RenderPlaces, published
  <2>5. CASE ForgetsState
    BY <2>5, RunGoesOn DEF ClipTypeOK, ForgetsState, Goes, At, RenderPlaces, EnsurePlaces, published
  <2> QED BY <1>1, <2>1, <2>2, <2>3, <2>4, <2>5 DEF RenderStep
<1>2. CASE EnsureStep
  <2>1. CASE TrimStarts
    BY <2>1 DEF ClipTypeOK, TrimStarts, Starts, Runs, RunsOf, EnsurePlaces, files, published
  <2>2. CASE TrimStopsFirst
    BY <2>2 DEF ClipTypeOK, TrimStopsFirst, Ends, files, published
  <2>3. CASE NothingToApply
    BY <2>3 DEF ClipTypeOK, NothingToApply, Ends, files, published
  <2>4. CASE Promotes
    <3>1. run \in Runs /\ run.at = "ensure"
      BY <2>4 DEF ClipTypeOK, Promotes, Applying
    <3>2. run' \in Runs
      BY <2>4, <3>1 DEF Promotes, Runs, RunsOf, RenderPlaces, EnsurePlaces, UploadPlaces
    <3> QED BY <2>4, <3>2 DEF ClipTypeOK, Promotes, published
  <2>5. CASE Restores
    BY <2>5, RunGoesOn, EnsuringRuns DEF ClipTypeOK, Restores, Goes, Applying, RenderPlaces, EnsurePlaces, published
  <2>6. CASE UnlinksState
    BY <2>6 DEF ClipTypeOK, UnlinksState, Ends, published
  <2>7. CASE Cut
    <3>1. run \in Runs /\ run.at = "cut" /\ run.edit.trim \in Cuts /\ master \in Videos
      BY <2>7 DEF ClipTypeOK, FilesMidRun, Cut, Applying, Runs, RunsOf, Edits, Trims
    <3>2. short' \in Videos
      BY <2>7, <3>1, CutVideo DEF Cut
    <3>3. run' \in Runs
      BY <2>7, <3>1, RunGoesOn, EnsuringRuns DEF Cut, Goes, RenderPlaces, EnsurePlaces
    <3> QED BY <2>7, <3>2, <3>3 DEF ClipTypeOK, Cut, published
  <2>8. CASE CutFails
    BY <2>8 DEF ClipTypeOK, CutFails, Ends, published
  <2>9. CASE WritesState
    <3>1. run.edit.trim \in Cuts
      BY <2>9 DEF ClipTypeOK, FilesMidRun, WritesState, Applying, Runs, RunsOf, Edits, Trims
    <3> QED BY <2>9, <3>1 DEF ClipTypeOK, WritesState, Ends, published
  <2> QED BY <1>2, <2>1, <2>2, <2>3, <2>4, <2>5, <2>6, <2>7, <2>8, <2>9 DEF EnsureStep
<1>3. CASE UploadStep
  <2>1. CASE AsksUpload
    BY <2>1 DEF ClipTypeOK, AsksUpload, files, published
  <2>2. CASE UploadStarts
    BY <2>2 DEF ClipTypeOK, UploadStarts, Starts, Runs, RunsOf, UploadPlaces, files, published
  <2>3. CASE UploadFindsLockHeld
    BY <2>3 DEF ClipTypeOK, UploadFindsLockHeld, files, published
  <2>4. CASE CliUploadStarts
    BY <2>4 DEF ClipTypeOK, CliUploadStarts, Starts, Runs, RunsOf, UploadPlaces, files, published
  <2>5. CASE RequiresEligible
    BY <2>5, RunGoesOn DEF ClipTypeOK, RequiresEligible, Goes, Ends, At, UploadPlaces, files, published
  <2>6. CASE InsertFails
    BY <2>6 DEF ClipTypeOK, InsertFails, Ends, files, published
  <2>7. CASE Inserts
    BY <2>7, RunGoesOn DEF ClipTypeOK, Inserts, Goes, At, UploadPlaces, files
  <2>8. CASE RecordsUpload
    BY <2>8 DEF ClipTypeOK, RecordsUpload, Ends, files
  <2> QED BY <1>3, <2>1, <2>2, <2>3, <2>4, <2>5, <2>6, <2>7, <2>8 DEF UploadStep
<1>4. CASE PatchesEdit
  BY <1>4 DEF ClipTypeOK, PatchesEdit, files, published
<1>5. CASE StateIsLost
  BY <1>5 DEF ClipTypeOK, StateIsLost, published
<1>6. CASE RunIsCutOff
  BY <1>6 DEF ClipTypeOK, RunIsCutOff, Ends, files
<1> QED BY <1>1, <1>2, <1>3, <1>4, <1>5, <1>6 DEF Next

----------------------------------------------------------------------------
(* The files *)

\* A step that leaves the files alone and holds no step of the files' order
\* keeps what a run knows of them.
LEMMA StepKeepsFiles ==
  IInv /\ Next => /\ MasterIsUncut' /\ NothingIsLost'
                  /\ FilesMidRun' /\ CutsHaveTheirMaster'
<1> SUFFICES ASSUME IInv, Next
             PROVE  MasterIsUncut' /\ NothingIsLost' /\ FilesMidRun' /\ CutsHaveTheirMaster'
  OBVIOUS
<1> USE ClipAssumption
<1> USE DEF IInv, MasterIsUncut, NothingIsLost, FilesMidRun, CutsHaveTheirMaster,
            Forgetting, Applying, At, Ends, Goes, Starts, files, published
<1>0. /\ short # None => short \in Videos
      /\ master # None => master \in Videos
      /\ run # None => run \in Runs
  BY DEF ClipTypeOK
<1>1. CASE RenderStep
  <2>1. CASE RenderStarts
    BY <2>1 DEF RenderStarts
  <2>2. CASE RenderFails
    BY <2>2 DEF RenderFails
  <2>3. CASE Composes
    <3>1. PICK take \in Takes : latest' = take /\ short' = Video(take, <<>>)
      BY <2>3 DEF Composes
    <3>2. short' # None /\ short'.cuts = <<>> /\ run'.at = "forget master"
      BY <1>0, <2>3, <3>1, FreshVideo DEF Composes, Runs, RunsOf
    <3> QED BY <2>3, <3>1, <3>2 DEF Composes
  <2>4. CASE ForgetsMaster
    <3>1. short # None /\ short.cuts = <<>>
      BY <2>4, FreshVideo DEF ForgetsMaster, ClipTypeOK
    <3>2. run'.at = "forget state"
      BY <1>0, <2>4 DEF ForgetsMaster, Runs, RunsOf
    <3> QED BY <2>4, <3>1, <3>2 DEF ForgetsMaster
  <2>5. CASE ForgetsState
    <3>1. run'.at = "ensure"
      BY <1>0, <2>5 DEF ForgetsState, Runs, RunsOf
    <3> QED BY <2>5, <3>1 DEF ForgetsState
  <2> QED BY <1>1, <2>1, <2>2, <2>3, <2>4, <2>5 DEF RenderStep
<1>2. CASE EnsureStep
  <2>1. CASE TrimStarts
    BY <2>1 DEF TrimStarts
  <2>2. CASE TrimStopsFirst
    BY <2>2 DEF TrimStopsFirst
  <2>3. CASE NothingToApply
    BY <2>3 DEF NothingToApply
  <2>4. CASE Promotes
    <3>1. /\ run'.edit = run.edit
          /\ run'.at = IF run.edit.trim = Uncut THEN "restore" ELSE "cut"
      BY <1>0, <2>4 DEF Promotes, Runs, RunsOf
    <3>2. master' # None /\ master'.cuts = <<>>
      BY <1>0, <2>4 DEF Promotes, NeedsApplying
    <3> QED BY <2>4, <3>1, <3>2 DEF Promotes
  <2>5. CASE Restores
    <3>1. run'.edit = run.edit /\ run'.at = "unlink state"
      BY <1>0, <2>5 DEF Restores, Runs, RunsOf
    <3> QED BY <2>5, <3>1 DEF Restores
  <2>6. CASE UnlinksState
    BY <2>6 DEF UnlinksState
  <2>7. CASE Cut
    <3>1. run'.edit = run.edit /\ run'.at = "write state"
      BY <1>0, <2>7 DEF Cut, Runs, RunsOf
    <3>2. short' # None
      <4>1. run.edit.trim \in Cuts /\ master \in Videos
        BY <1>0, <2>7 DEF Cut, Runs, RunsOf, Edits, Trims
      <4> QED BY <2>7, <4>1, CutVideo DEF Cut
    <3> QED BY <2>7, <3>1, <3>2 DEF Cut
  <2>8. CASE CutFails
    BY <2>8 DEF CutFails
  <2>9. CASE WritesState
    BY <2>9 DEF WritesState
  <2> QED BY <1>2, <2>1, <2>2, <2>3, <2>4, <2>5, <2>6, <2>7, <2>8, <2>9 DEF EnsureStep
<1>3. CASE UploadStep
  <2>1. CASE AsksUpload
    BY <2>1 DEF AsksUpload
  <2>2. CASE UploadStarts
    BY <2>2 DEF UploadStarts
  <2>3. CASE UploadFindsLockHeld
    BY <2>3 DEF UploadFindsLockHeld
  <2>4. CASE CliUploadStarts
    BY <2>4 DEF CliUploadStarts
  <2>5. CASE RequiresEligible
    <3>1. run' = None \/ run'.at = "insert"
      BY <1>0, <2>5 DEF RequiresEligible, Runs, RunsOf
    <3> QED BY <2>5, <3>1 DEF RequiresEligible
  <2>6. CASE InsertFails
    BY <2>6 DEF InsertFails
  <2>7. CASE Inserts
    <3>1. run'.at = "record"
      BY <1>0, <2>7 DEF Inserts, Runs, RunsOf
    <3> QED BY <2>7, <3>1 DEF Inserts
  <2>8. CASE RecordsUpload
    BY <2>8 DEF RecordsUpload
  <2> QED BY <1>3, <2>1, <2>2, <2>3, <2>4, <2>5, <2>6, <2>7, <2>8 DEF UploadStep
<1>4. CASE PatchesEdit
  BY <1>4 DEF PatchesEdit
<1>5. CASE StateIsLost
  BY <1>5 DEF StateIsLost
<1>6. CASE RunIsCutOff
  BY <1>6 DEF RunIsCutOff
<1> QED BY <1>1, <1>2, <1>3, <1>4, <1>5, <1>6 DEF Next

\* Two videos of the same take with the same trims are the same video.
LEMMA SameVideo ==
  ASSUME NEW video \in Videos, video.cuts = <<>>
  PROVE  video = Video(video.take, <<>>)
BY DEF Videos, Video

LEMMA StepKeepsAgreement == IInv /\ Next => FilesAgree'
<1> SUFFICES ASSUME IInv, Next PROVE FilesAgree'
  OBVIOUS
<1> USE ClipAssumption
<1> USE DEF FilesAgree, Forgetting, Applying, At, Ends, Goes, Starts, Applied, IsUnknown
<1>0. /\ short # None => short \in Videos
      /\ master # None => master \in Videos
      /\ run # None => run \in Runs
      /\ state \in Cuts \cup {None}
  BY DEF IInv, ClipTypeOK
<1>f. FilesAgree /\ FilesMidRun /\ MasterIsUncut /\ CutsHaveTheirMaster
  BY DEF IInv
\* A step that touches no file, from a step of the run that owes none.
<1>m. ASSUME UNCHANGED <<files, latest, interrupted>>, run # None,
             run.at \notin {"forget master", "forget state", "unlink state", "write state"},
             run' # None => run'.at \notin {"cut", "write state"}
      PROVE  FilesAgree'
  BY <1>f, <1>m DEF files
<1>1. CASE RenderStep
  <2>1. CASE RenderStarts
    BY <2>1, <1>f DEF RenderStarts, files
  <2>2. CASE RenderFails
    BY <2>2, <1>m DEF RenderFails
  <2>3. CASE Composes
    <3>1. run' # None => run'.at = "forget master"
      BY <1>0, <2>3 DEF Composes, Runs, RunsOf
    <3>2. run' # None
      BY <2>3, <1>0, RunGoesOn DEF Composes, RenderPlaces
    <3> QED BY <3>1, <3>2
  <2>4. CASE ForgetsMaster
    <3>1. run' # None /\ run'.at = "forget state"
      <4>1. run \in Runs /\ run.kind = "render"
        BY <1>0, <2>4 DEF ForgetsMaster
      <4>2. run' # None
        BY <2>4, <4>1, RunGoesOn DEF ForgetsMaster, RenderPlaces
      <4> QED BY <2>4, <4>1, <4>2 DEF ForgetsMaster, Runs, RunsOf
    <3> QED BY <3>1
  <2>5. CASE ForgetsState
    <3>1. run'.at = "ensure"
      BY <1>0, <2>5 DEF ForgetsState, Runs, RunsOf
    <3>2. short = Video(latest, <<>>) /\ latest \in Takes /\ master = None
      BY <2>5, <1>f DEF ForgetsState, FilesMidRun, IInv, ClipTypeOK
    <3> QED BY <2>5, <3>1, <3>2, FreshVideo DEF ForgetsState, Embodying
  <2> QED BY <1>1, <2>1, <2>2, <2>3, <2>4, <2>5 DEF RenderStep
<1>2. CASE EnsureStep
  <2>1. CASE TrimStarts
    BY <2>1, <1>f DEF TrimStarts, files
  <2>2. CASE TrimStopsFirst
    BY <2>2, <1>m DEF TrimStopsFirst
  <2>3. CASE NothingToApply
    BY <2>3, <1>m DEF NothingToApply
  <2>4. CASE Promotes
    <3>1. /\ run'.edit = run.edit /\ run'.promoted = (master = None)
          /\ run'.at \in {"restore", "cut"}
      BY <1>0, <2>4 DEF Promotes, Runs, RunsOf
    <3>2. CASE master = None
      <4>1. short \in Videos /\ short.cuts = <<>> /\ master' = short /\ short' = None
        BY <1>0, <1>f, <2>4, <3>2 DEF Promotes, NeedsApplying, CutsHaveTheirMaster
      <4>2. short # None /\ run # None /\ run.at = "ensure"
        BY <2>4 DEF Promotes, NeedsApplying
      <4>3. ~interrupted => short.take = latest /\ state = None
        BY <1>f, <3>2, <4>2
      <4>4. ~interrupted => short = Video(latest, <<>>) /\ state = None
        BY <4>1, <4>3, SameVideo
      <4> QED BY <2>4, <3>1, <4>1, <4>4 DEF Promotes
    <3>3. CASE master # None
      BY <1>f, <2>4, <3>1, <3>3 DEF Promotes
    <3> QED BY <3>2, <3>3
  <2>5. CASE Restores
    <3>1. run' # None /\ run'.at = "unlink state"
      <4>1. run \in Runs /\ run.at \in EnsurePlaces
        BY <1>0, <2>5 DEF Restores, EnsurePlaces
      <4>2. run' # None
        BY <2>5, <4>1, RunGoesOn, EnsuringRuns DEF Restores, RenderPlaces, EnsurePlaces
      <4> QED BY <2>5, <4>1, <4>2 DEF Restores, Runs, RunsOf
    <3>2. short' = master /\ master' = None /\ interrupted' = interrupted /\ latest' = latest
      BY <2>5 DEF Restores
    <3>3. ~interrupted => short' = Video(latest, <<>>)
      BY <2>5, <1>f, <3>2 DEF Restores, FilesMidRun
    <3>4. Video(latest, <<>>).take = latest
      BY DEF Video
    <3> QED BY <3>1, <3>2, <3>3, <3>4
  <2>6. CASE UnlinksState
    <3>1. ~interrupted => short = Video(latest, <<>>)
      BY <2>6, <1>f, <1>0, SameVideo DEF UnlinksState, FilesMidRun, CutsHaveTheirMaster
    <3> QED BY <2>6, <1>f, <3>1 DEF UnlinksState, FilesMidRun, Embodying
  <2>7. CASE Cut
    <3>1. run'.edit = run.edit /\ run'.at = "write state"
      BY <1>0, <2>7 DEF Cut, Runs, RunsOf
    <3>2. run.edit.trim \in Cuts /\ master \in Videos
      BY <1>0, <1>f, <2>7 DEF Cut, Runs, RunsOf, Edits, Trims, FilesMidRun
    <3>3. short'.take = master.take
      BY <2>7, <3>2, CutVideo DEF Cut
    <3>4. ~interrupted => master = Video(latest, <<>>) /\ latest \in Takes
      <4>1. ~interrupted => master = Video(latest, <<>>)
        BY <1>f, <2>7 DEF Cut, FilesMidRun
      <4>2. master.take \in Takes
        BY <3>2 DEF Videos
      <4> QED BY <4>1, <4>2 DEF Video
    <3>5. ~interrupted => short' = Embodying(latest, run.edit.trim)
      BY <2>7, <3>2, <3>4, CutOfFresh DEF Cut
    <3>6. ~interrupted => short'.take = latest
      BY <3>3, <3>4 DEF Video
    <3>7. /\ master' = master /\ master # None /\ interrupted' = interrupted
          /\ latest' = latest /\ short' # None /\ run.edit.trim = run'.edit.trim
      BY <2>7, <1>f, <3>1, <3>2, CutVideo DEF Cut, FilesMidRun
    <3>8. run' # None
      <4>1. run \in Runs /\ run.at \in EnsurePlaces
        BY <1>0, <2>7 DEF Cut, EnsurePlaces
      <4> QED BY <2>7, <4>1, RunGoesOn, EnsuringRuns DEF Cut, RenderPlaces, EnsurePlaces
    <3> QED BY <3>1, <3>4, <3>5, <3>6, <3>7, <3>8
  <2>8. CASE CutFails
    <3>1. CASE run.promoted
      BY <2>8, <3>1, <1>f, <1>0, FreshVideo DEF CutFails, FilesMidRun, Video, Videos, Embodying
    <3>2. CASE ~run.promoted
      BY <2>8, <3>2, <1>f DEF CutFails
    <3> QED BY <3>1, <3>2
  <2>9. CASE WritesState
    <3>1. run.edit.trim \in Cuts /\ run.edit.trim # None
      BY <1>0, <1>f, <2>9 DEF WritesState, Runs, RunsOf, Edits, Trims, FilesMidRun
    <3> QED BY <2>9, <1>f, <3>1 DEF WritesState, FilesMidRun
  <2> QED BY <1>2, <2>1, <2>2, <2>3, <2>4, <2>5, <2>6, <2>7, <2>8, <2>9 DEF EnsureStep
<1>3. CASE UploadStep
  <2>1. CASE AsksUpload
    BY <2>1, <1>f DEF AsksUpload, files
  <2>2. CASE UploadStarts
    BY <2>2, <1>f DEF UploadStarts, files
  <2>3. CASE UploadFindsLockHeld
    BY <2>3, <1>f DEF UploadFindsLockHeld, files
  <2>4. CASE CliUploadStarts
    BY <2>4, <1>f DEF CliUploadStarts, files
  <2>5. CASE RequiresEligible
    <3>1. run' # None => run'.at = "insert"
      BY <1>0, <2>5 DEF RequiresEligible, Runs, RunsOf
    <3> QED BY <2>5, <3>1, <1>m DEF RequiresEligible
  <2>6. CASE InsertFails
    BY <2>6, <1>m DEF InsertFails
  <2>7. CASE Inserts
    <3>1. run'.at = "record"
      BY <1>0, <2>7 DEF Inserts, Runs, RunsOf
    <3> QED BY <2>7, <3>1, <1>m DEF Inserts
  <2>8. CASE RecordsUpload
    BY <2>8, <1>m DEF RecordsUpload
  <2> QED BY <1>3, <2>1, <2>2, <2>3, <2>4, <2>5, <2>6, <2>7, <2>8 DEF UploadStep
<1>4. CASE PatchesEdit
  BY <1>4, <1>f DEF PatchesEdit, files
<1>5. CASE StateIsLost
  <2>1. short # None /\ master = None /\ ~interrupted /\ ~Forgetting
          => short = Embodying(latest, Uncut)
    BY <1>0, <1>f, SameVideo DEF CutsHaveTheirMaster, Embodying
  <2> QED BY <1>5, <1>f, <2>1 DEF StateIsLost
<1>6. CASE RunIsCutOff
  BY <1>6, <1>f DEF RunIsCutOff, Midway, files
<1> QED BY <1>1, <1>2, <1>3, <1>4, <1>5, <1>6 DEF Next

----------------------------------------------------------------------------
(* Uploads *)

LEMMA StepKeepsUploads == IInv /\ Next => UploadsKnowTheClip'
<1> SUFFICES ASSUME IInv, Next PROVE UploadsKnowTheClip'
  OBVIOUS
<1> USE DEF UploadsKnowTheClip, Applying, At, Ends, Goes, Starts, files, published
<1>0. run # None => run \in Runs
  BY DEF IInv, ClipTypeOK
<1>f. UploadsKnowTheClip
  BY DEF IInv
\* A step of a render or a trim is none of an upload.
<1>m. ASSUME UNCHANGED published,
             run = None \/ run.at # "record",
             run' = None \/ run'.at \notin {"insert", "record"}
      PROVE  UploadsKnowTheClip'
  BY <1>f, <1>m
<1>1. CASE RenderStep
  <2>1. CASE RenderStarts
    BY <1>0, <1>m, <2>1 DEF RenderStarts, Runs, RunsOf
  <2>2. CASE RenderFails
    BY <1>0, <1>m, <2>2 DEF RenderFails, Runs, RunsOf
  <2>3. CASE Composes
    BY <1>0, <1>m, <2>3 DEF Composes, Runs, RunsOf
  <2>4. CASE ForgetsMaster
    BY <1>0, <1>m, <2>4 DEF ForgetsMaster, Runs, RunsOf
  <2>5. CASE ForgetsState
    BY <1>0, <1>m, <2>5 DEF ForgetsState, Runs, RunsOf
  <2> QED BY <1>1, <2>1, <2>2, <2>3, <2>4, <2>5 DEF RenderStep
<1>2. CASE EnsureStep
  <2>1. CASE TrimStarts
    BY <1>0, <1>m, <2>1 DEF TrimStarts, Runs, RunsOf
  <2>2. CASE TrimStopsFirst
    BY <1>0, <1>m, <2>2 DEF TrimStopsFirst, Runs, RunsOf
  <2>3. CASE NothingToApply
    BY <1>0, <1>m, <2>3 DEF NothingToApply, Runs, RunsOf
  <2>4. CASE Promotes
    BY <1>0, <1>m, <2>4 DEF Promotes, Runs, RunsOf
  <2>5. CASE Restores
    BY <1>0, <1>m, <2>5 DEF Restores, Runs, RunsOf
  <2>6. CASE UnlinksState
    BY <1>0, <1>m, <2>6 DEF UnlinksState, Runs, RunsOf
  <2>7. CASE Cut
    BY <1>0, <1>m, <2>7 DEF Cut, Runs, RunsOf
  <2>8. CASE CutFails
    BY <1>0, <1>m, <2>8 DEF CutFails, Runs, RunsOf
  <2>9. CASE WritesState
    BY <1>0, <1>m, <2>9 DEF WritesState, Runs, RunsOf
  <2> QED BY <1>2, <2>1, <2>2, <2>3, <2>4, <2>5, <2>6, <2>7, <2>8, <2>9 DEF EnsureStep
<1>3. CASE UploadStep
  <2>1. CASE AsksUpload
    BY <2>1, <1>f DEF AsksUpload
  <2>2. CASE UploadStarts
    BY <2>2, <1>f DEF UploadStarts
  <2>3. CASE UploadFindsLockHeld
    BY <2>3, <1>f DEF UploadFindsLockHeld
  <2>4. CASE CliUploadStarts
    BY <2>4, <1>f DEF CliUploadStarts
  <2>5. CASE RequiresEligible
    <3>1. CASE Eligible(run.edit, run.force)
      <4>1. run'.at = "insert" /\ run'.edit = run.edit /\ run'.force = run.force
        BY <1>0, <2>5, <3>1 DEF RequiresEligible, Runs, RunsOf
      <4>2. short # None /\ ~IsUnknown /\ run.edit.trim = Applied
        BY <3>1 DEF Eligible, IsPending
      <4>3. ~interrupted => short = Embodying(latest, run.edit.trim)
        BY <2>5, <4>2 DEF IInv, FilesAgree, Forgetting, RequiresEligible
      <4> QED BY <2>5, <1>f, <3>1, <4>1, <4>3 DEF RequiresEligible, Eligible
    <3>2. CASE ~Eligible(run.edit, run.force)
      BY <2>5, <1>f, <3>2 DEF RequiresEligible
    <3> QED BY <3>1, <3>2
  <2>6. CASE InsertFails
    BY <2>6, <1>f DEF InsertFails
  <2>7. CASE Inserts
    <3>1. run' # None /\ run'.at = "record"
      <4>1. run \in Runs /\ run.kind = "upload"
        BY <1>0, <2>7 DEF Inserts
      <4>2. run' # None
        BY <2>7, <4>1, RunGoesOn DEF Inserts, UploadPlaces
      <4> QED BY <2>7, <4>1, <4>2 DEF Inserts, Runs, RunsOf
    <3> QED BY <3>1
  <2>8. CASE RecordsUpload
    BY <2>8, <1>f DEF RecordsUpload
  <2> QED BY <1>3, <2>1, <2>2, <2>3, <2>4, <2>5, <2>6, <2>7, <2>8 DEF UploadStep
<1>4. CASE PatchesEdit
  BY <1>4, <1>f DEF PatchesEdit
<1>5. CASE StateIsLost
  BY <1>5, <1>f DEF StateIsLost
<1>6. CASE RunIsCutOff
  BY <1>6, <1>f DEF RunIsCutOff
<1> QED BY <1>1, <1>2, <1>3, <1>4, <1>5, <1>6 DEF Next

----------------------------------------------------------------------------
(* Theorems *)

LEMMA OnlyInsertsUpload == [Next]_clipVars /\ uploads' # uploads => Inserts
BY DEF Next, RenderStep, RenderStarts, RenderFails, Composes, ForgetsMaster, ForgetsState,
   EnsureStep, TrimStarts, TrimStopsFirst, NothingToApply, Promotes, Restores, UnlinksState, Cut,
   CutFails, WritesState, UploadStep, AsksUpload, UploadStarts, UploadFindsLockHeld,
   CliUploadStarts, RequiresEligible, InsertFails, RecordsUpload, PatchesEdit, StateIsLost,
   RunIsCutOff, clipVars, published

LEMMA InitHolds == Init => IInv
<1> SUFFICES ASSUME Init PROVE IInv
  OBVIOUS
<1>1. ClipTypeOK
  <2>1. uploads \in 0..MaxUploads
    BY ClipAssumption DEF Init
  <2>2. edit \in Edits
    BY DEF Init, Edits, Trims
  <2> QED BY <2>1, <2>2 DEF Init, ClipTypeOK
<1>2. MasterIsUncut /\ NothingIsLost /\ FilesMidRun /\ CutsHaveTheirMaster
  BY DEF Init, MasterIsUncut, NothingIsLost, FilesMidRun, Forgetting, CutsHaveTheirMaster, Applying
<1>3. FilesAgree /\ UploadsKnowTheClip
  BY DEF Init, FilesAgree, UploadsKnowTheClip, Applying
<1> QED BY <1>1, <1>2, <1>3 DEF IInv

LEMMA StutterKeeps == IInv /\ UNCHANGED clipVars => IInv'
<1> SUFFICES ASSUME IInv, UNCHANGED clipVars PROVE IInv'
  OBVIOUS
<1> USE DEF clipVars, files, published
<1>1. ClipTypeOK'
  BY DEF IInv, ClipTypeOK
<1>2. MasterIsUncut' /\ NothingIsLost' /\ FilesMidRun' /\ CutsHaveTheirMaster'
  BY DEF IInv, MasterIsUncut, NothingIsLost, FilesMidRun, Forgetting, CutsHaveTheirMaster, Applying
<1>3. FilesAgree'
  BY DEF IInv, FilesAgree, Forgetting, Applying, Applied, IsUnknown
<1>4. UploadsKnowTheClip'
  BY DEF IInv, UploadsKnowTheClip, Applying
<1> QED BY <1>1, <1>2, <1>3, <1>4 DEF IInv

\* What every step of every run keeps.
THEOREM ClipInvariantHolds == ClipSpec => []IInv
<1>1. IInv /\ [Next]_clipVars => IInv'
  BY StepKeepsType, StepKeepsFiles, StepKeepsAgreement, StepKeepsUploads, StutterKeeps DEF IInv
<1> QED BY InitHolds, <1>1, PTL DEF ClipSpec

\* However renders, trims, uploads and edits follow each other and wherever
\* they are cut off, every file holds what its name says it can hold.
THEOREM ClipTypeCorrect == ClipSpec => []ClipTypeOK
<1>1. IInv => ClipTypeOK
  BY DEF IInv
<1> QED BY ClipInvariantHolds, <1>1, PTL

\* The master is never a cut: no trim compounds on an earlier one.
THEOREM MasterIsNeverACut == ClipSpec => []MasterIsUncut
<1>1. IInv => MasterIsUncut
  BY DEF IInv
<1> QED BY ClipInvariantHolds, <1>1, PTL

\* A rendered clip never loses its last video.
THEOREM NothingIsEverLost == ClipSpec => []NothingIsLost
<1>1. IInv => NothingIsLost
  BY DEF IInv
<1> QED BY ClipInvariantHolds, <1>1, PTL

\* Unless a run was cut off, the newest render survives uncut.
THEOREM UncutLatestIsAlwaysKept == ClipSpec => []UncutLatestIsKept
<1>1. IInv => UncutLatestIsKept
  <2> SUFFICES ASSUME IInv, ~interrupted, latest # None
               PROVE  Video(latest, <<>>) \in {short, master}
    BY DEF UncutLatestIsKept
  <2>1. CASE Forgetting
    BY <2>1 DEF IInv, FilesMidRun
  <2>2. CASE ~Forgetting /\ master # None
    BY <2>2 DEF IInv, FilesAgree
  <2>3. CASE ~Forgetting /\ master = None
    <3>1. short # None /\ short.cuts = <<>> /\ short.take = latest /\ short \in Videos
      BY <2>3 DEF IInv, NothingIsLost, CutsHaveTheirMaster, FilesAgree, ClipTypeOK
    <3> QED BY <3>1, SameVideo
  <2> QED BY <2>1, <2>2, <2>3
<1> QED BY ClipInvariantHolds, <1>1, PTL

\* Unless a run was cut off, what is_pending lets out is what was asked for.
THEOREM DeliverableIsAlwaysDesired == ClipSpec => []DeliverableIsDesired
<1>1. IInv => DeliverableIsDesired
  BY DEF IInv, DeliverableIsDesired, FilesAgree, Forgetting, Applying, IsPending
<1> QED BY ClipInvariantHolds, <1>1, PTL

\* Unless a run was cut off, every insert sends the newest render, trimmed as
\* the kept edit asked for when the upload was checked.
THEOREM UploadsAreAlwaysApproved == ClipSpec => UploadsAreApproved
<1>1. IInv /\ [Next]_clipVars
        => (uploads' # uploads /\ ~interrupted
              => run.edit.kept /\ short = Embodying(latest, run.edit.trim))
  <2> SUFFICES ASSUME IInv, [Next]_clipVars, uploads' # uploads
               PROVE  Inserts
    BY DEF IInv, UploadsKnowTheClip, Inserts, At, Applying
  <2> QED BY OnlyInsertsUpload
<1> QED BY ClipInvariantHolds, <1>1, PTL DEF ClipSpec, UploadsAreApproved

\* A clip is published again only by force or where a record was never written.
THEOREM ReuploadsAreNeverAccidents == ClipSpec => NoAccidentalReupload
<1>1. IInv /\ [Next]_clipVars
        => (uploads' # uploads /\ ~run.force => uploads = 0 \/ unrecorded)
  <2> SUFFICES ASSUME IInv, [Next]_clipVars, uploads' # uploads, Inserts, ~run.force
               PROVE  uploads = 0 \/ unrecorded
    BY OnlyInsertsUpload
  <2> QED BY DEF IInv, UploadsKnowTheClip, Inserts, At, Applying
<1> QED BY ClipInvariantHolds, <1>1, PTL DEF ClipSpec, NoAccidentalReupload

\* Whatever state an interruption left, a trim or render that ends as done
\* leaves the short trimmed, on record, as the edit it read asks.
THEOREM DoneAlwaysLeavesNothingPending == ClipSpec => DoneLeavesNothingPending
<1> DEFINE Settles ==
      \A e \in Edits : run # None /\ run.edit = e /\ (NothingToApply \/ UnlinksState \/ WritesState)
         => ~IsPending(e)'
<1>1. IInv /\ [Next]_clipVars => Settles
  <2> SUFFICES ASSUME IInv, NEW e \in Edits, run # None, run.edit = e,
                      NothingToApply \/ UnlinksState \/ WritesState
               PROVE  ~IsPending(e)'
    OBVIOUS
  <2>1. CASE NothingToApply
    BY <2>1 DEF NothingToApply, NeedsApplying, IsPending, IsUnknown, Applied, files
  <2>2. CASE UnlinksState
    BY <2>2 DEF IInv, FilesMidRun, UnlinksState, IsPending, IsUnknown, Applied
  <2>3. CASE WritesState
    <3>1. e.trim # None
      BY ClipAssumption DEF Edits
    <3> QED BY <2>3, <3>1 DEF WritesState, IsPending, IsUnknown, Applied
  <2> QED BY <2>1, <2>2, <2>3
<1> QED BY ClipInvariantHolds, <1>1, PTL DEF ClipSpec, DoneLeavesNothingPending
=============================================================================
