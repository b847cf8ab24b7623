------------------------------ MODULE ClipStore ------------------------------
(***************************************************************************)
(* The clips of one event on disk: clipstore.py (one directory per clip,   *)
(* named after the title it had first and after its identity), harvest     *)
(* (cli.cmd_harvest), clips made of a moment (clip_from_moment.py), the    *)
(* operator's edit.json (editorial.py, the PATCH route) and the captions a *)
(* render takes from the transcript cached beside them                     *)
(* (subtitle_pipeline.py, transcribe.py).  Renders and clips made of a     *)
(* moment hold the event's lock; harvest and PATCH hold none.              *)
(***************************************************************************)
EXTENDS Naturals

CONSTANTS
  Clips,      \* identities: the canonical urls of clips
  Urls,       \* urls as they are written, of clips on the video site
  ClipAt,     \* canonical_url and clip_id: the identity behind each of Urls
  Windows,    \* passages of a stream
  ClipOf,     \* moment_url: the identity of each window, rounded to seconds
  Hooks,      \* titles, as far as they make a directory's name
  Patchers,   \* threads that serve a PATCH
  SourceLists,\* what sources.json may hold: sets of rows
  MaxSaves, MaxDamages,
  None

ASSUME ClipStoreAssumption ==
  /\ ClipAt \in [Urls -> Clips]
  /\ ClipOf \in [Windows -> Clips]
  /\ \A u \in Urls, w \in Windows : ClipAt[u] # ClipOf[w]
  /\ None \notin Urls \cup Windows \cup Clips
  /\ SourceLists \subseteq SUBSET [url : Urls, hook : Hooks] \ {{}}
  /\ MaxSaves \in Nat /\ MaxDamages \in Nat

VARIABLES
  dir,      \* the directories under clips/, by name
  harvest,  \* what a running harvest has left to write, and its source list
  patch,    \* per thread: the clip and the edit it has loaded
  run,      \* the render that holds the event's lock and its short, or None
  saves,    \* bound: how often a PATCH has saved
  damages   \* bound: how often a human has taken something away

vars == <<dir, harvest, patch, run, saves, damages>>
counts == <<saves, damages>>

Names == [hook : Hooks, clip : Clips]
Rows == [url : Urls, hook : Hooks]

\* clip.json.  A harvested clip lies where its url says; a moment has a window.
Harvested == [url : Urls, window : {None}, failed : BOOLEAN]
Moment == {[url |-> None, window |-> w, failed |-> FALSE] : w \in Windows}
Records == Harvested \cup Moment
Unreadable == [unreadable |-> TRUE]

\* What is seen and heard of a clip: its url's own passage, or a window.
Passages == Clips \cup Windows
\* edit.json: the window put in place of the detected one, and a corrected
\* transcript with the words it was made against.
Edits == [window : Windows \cup {None}, correctedFrom : Passages \cup {None, "nothing"}]
Untouched == [window |-> None, correctedFrom |-> None]
\* transcript.json: its source and the passage its words are of.
Transcripts == [clip : Clips, window : Windows \cup {None}, words : Passages]
\* A short: what is seen, what its captions say, whether there was a transcript
\* to compare them with and whether a note was made.
Shorts == [video : Passages, captions : Passages \cup {None, "nothing"},
           transcribed : BOOLEAN, noted : BOOLEAN]

Dir == [clip : Records \cup {Unreadable, None}, edit : Edits \cup {None},
        transcript : Transcripts \cup {None}]
\* A file that is not there is not one that is.
ASSUME NoneAssumption == None \notin Records \cup {Unreadable} \cup Edits \cup Transcripts

NoDir == [clip |-> None, edit |-> None, transcript |-> None]
NoHarvest == [rows |-> {}, todo |-> {}]

TypeOK ==
  /\ dir \in [Names -> Dir]
  /\ harvest \in [rows : SUBSET Rows, todo : SUBSET [row : Rows, record : Harvested]]
  /\ patch \in [Patchers -> [name : Names, edit : Edits] \cup {None}]
  /\ run \in [name : Names, record : Records, edit : Edits,
              short : Shorts \cup {None}] \cup {None}
  /\ saves \in 0..MaxSaves /\ damages \in 0..MaxDamages

Init ==
  /\ dir = [n \in Names |-> NoDir]
  /\ harvest = NoHarvest
  /\ patch = [p \in Patchers |-> None]
  /\ run = None
  /\ saves = 0 /\ damages = 0

----------------------------------------------------------------------------
(* The clip store *)

Readable(n) == dir[n].clip \in Records
\* _existing_dir: a directory is found by the identity in its name, if its
\* clip.json can be read.
Live(c) == {n \in Names : n.clip = c /\ Readable(n)}

\* Faulty variant: the directory is looked up by the name it would get today.
TargetByName(c, hook) == [hook |-> hook, clip |-> c]

\* Where write_clip writes.
Target(c, hook) ==
  IF Live(c) # {} THEN CHOOSE n \in Live(c) : TRUE ELSE [hook |-> hook, clip |-> c]

WriteClip(c, hook, r) ==
  dir' = [dir EXCEPT ![Target(c, hook)].clip = r]

----------------------------------------------------------------------------
(* Harvest *)

Good(r) == r \in Harvested /\ ~r.failed

\* Faulty variant: every row of the list is asked for again.
StoredForgotten(u) == {}

\* The records under this very url that need no second query.
Stored(u) == {dir[n].clip : n \in {n \in Names : Good(dir[n].clip) /\ dir[n].clip.url = u}}

\* cmd_harvest up to its last query: a row that is stored keeps its record, every
\* other one is asked for and may fail.
StartHarvest(rows) ==
  LET asked == {row \in rows : Stored(row.url) = {}} IN
  /\ harvest = NoHarvest
  /\ \E failed \in [asked -> BOOLEAN] :
       harvest' = [rows |-> rows,
         todo |-> {[row |-> row, record |->
                      IF row \in asked
                      THEN [url |-> row.url, window |-> None, failed |-> failed[row]]
                      ELSE CHOOSE r \in Stored(row.url) : TRUE] : row \in rows}]
  /\ UNCHANGED <<dir, patch, run, counts>>

\* Its last loop writes every entry, the failed ones too.
WriteEntry(entry) ==
  /\ entry \in harvest.todo
  /\ WriteClip(ClipAt[entry.row.url], entry.row.hook, entry.record)
  /\ harvest' = IF harvest.todo = {entry} THEN NoHarvest
                ELSE [harvest EXCEPT !.todo = @ \ {entry}]
  /\ UNCHANGED <<patch, run, counts>>

----------------------------------------------------------------------------
(* The migrate command, which copies an event of the old layout; a command line *)
(* is taken to run one command at a time, as neither it nor harvest has a lock   *)

\* An entry of clips.json, resolved or failed, is written whatever is there.
MigratesRecord(u, hook, failed) ==
  /\ harvest = NoHarvest
  /\ WriteClip(ClipAt[u], hook, [url |-> u, window |-> None, failed |-> failed])
  /\ UNCHANGED <<harvest, patch, run, counts>>

\* A transcript goes to the directory of the clip its source names.
MigratesTranscript(n) ==
  /\ harvest = NoHarvest
  /\ dir[n].clip \in Harvested
  /\ dir' = [dir EXCEPT ![n].transcript = [clip |-> n.clip, window |-> None, words |-> n.clip]]
  /\ UNCHANGED <<harvest, patch, run, counts>>

----------------------------------------------------------------------------
(* A clip made of a moment *)

\* _existing_window: the directories of an identity, its clip.json readable or not.
Occupied(c) == {n \in Names : n.clip = c /\ dir[n].clip # None}

\* Faulty variant: a neighbour that cannot be read counts as no neighbour.
MayCreateBesideUnreadable(w) ==
  \A n \in Occupied(ClipOf[w]) : Readable(n) => dir[n].clip.window = w

\* Faulty variant: whatever rounds to the same seconds is the same moment.
MayCreateOverOthers(w) == \A n \in Occupied(ClipOf[w]) : Readable(n)

\* create_clip refuses an identity it cannot read and one with another window.
MayCreate(w) == \A n \in Occupied(ClipOf[w]) : Readable(n) /\ dir[n].clip.window = w

\* post_clip_from_window, under the event's lock.
CreateClip(w, hook) ==
  /\ run = None
  /\ MayCreate(w)
  /\ WriteClip(ClipOf[w], hook, [url |-> None, window |-> w, failed |-> FALSE])
  /\ UNCHANGED <<harvest, patch, run, counts>>

----------------------------------------------------------------------------
(* The editorial layer *)

\* editorial.load: no file means untouched.
EditOf(n) == IF dir[n].edit = None THEN Untouched ELSE dir[n].edit

\* patch_clip loads the clip and its edit ...
PatchLoads(p, n) ==
  /\ patch[p] = None
  /\ Readable(n)
  /\ patch' = [patch EXCEPT ![p] = [name |-> n, edit |-> EditOf(n)]]
  /\ UNCHANGED <<dir, harvest, run, counts>>

\* A correction is recorded against the transcript cached at that moment.
DerivedWords(n) == IF dir[n].transcript = None THEN "nothing" ELSE dir[n].transcript.words

Patched(p) ==
  LET loaded == patch[p].edit IN
    {[window |-> w, correctedFrom |-> c] :
       w \in Windows \cup {None},
       c \in {loaded.correctedFrom, DerivedWords(patch[p].name)}}

\* ... and saves it with the fields the body names, whatever was saved
\* meanwhile; save makes the directory if it has gone.
PatchSaves(p, e) ==
  /\ patch[p] # None
  /\ e \in Patched(p)
  /\ dir' = [dir EXCEPT ![patch[p].name].edit = e]
  /\ saves < MaxSaves /\ saves' = saves + 1
  /\ patch' = [patch EXCEPT ![p] = None]
  /\ UNCHANGED <<harvest, run, damages>>

\* A title, a status or a refused value: the edit is as it was loaded, or unsaved.
PatchRefused(p) ==
  /\ patch[p] # None
  /\ patch' = [patch EXCEPT ![p] = None]
  /\ UNCHANGED <<dir, harvest, run, counts>>

----------------------------------------------------------------------------
(* A render, as far as its captions *)

\* _render_one reads clip.json and edit.json; a failed record is not rendered.
RenderReads(n) ==
  /\ run = None
  /\ Readable(n)
  /\ ~dir[n].clip.failed
  /\ run' = [name |-> n, record |-> dir[n].clip, edit |-> EditOf(n), short |-> None]
  /\ UNCHANGED <<dir, harvest, patch, counts>>

\* source_for_clip: a moment is fetched by its effective window.
Fetched(n, r, e) ==
  CASE r.window = None -> n.clip
    [] r.window # None /\ e.window # None -> e.window
    [] OTHER -> r.window

\* Faulty variant: the transcript is keyed on the clip's url alone.
SourceWithoutWindow(n, e) == [clip |-> n.clip, window |-> None]

\* transcript_source: the url, and the window where the operator set one.
Source(n, e) == [clip |-> n.clip, window |-> e.window]

\* transcribe trusts a cache of the same source and replaces any other.
Transcribed(n, e, video) ==
  LET t == dir[n].transcript
      s == Source(n, e)
  IN  IF t # None /\ t.clip = s.clip /\ t.window = s.window THEN t
      ELSE [clip |-> s.clip, window |-> s.window, words |-> video]

\* effective_words: a correction always wins, and a conflict is noted.
Captioned(video, e, derived) ==
  [video |-> video,
   captions |-> IF e.correctedFrom # None THEN e.correctedFrom ELSE derived,
   transcribed |-> TRUE, noted |-> e.correctedFrom \notin {None, derived}]

RenderComposes ==
  /\ run # None /\ run.short = None
  /\ LET n == run.name
         video == Fetched(n, run.record, run.edit)
         t == Transcribed(n, run.edit, video)
     IN  /\ dir' = [dir EXCEPT ![n].transcript = t]
         /\ run' = [run EXCEPT !.short = Captioned(video, run.edit, t.words)]
  /\ UNCHANGED <<harvest, patch, counts>>

\* Without a transcript a correction is used as it stands; there is no note.
RenderUntranscribed ==
  /\ run # None /\ run.short = None
  /\ run' = [run EXCEPT !.short =
       [video |-> Fetched(run.name, run.record, run.edit),
        captions |-> run.edit.correctedFrom,
        transcribed |-> FALSE, noted |-> run.edit.correctedFrom = None]]
  /\ UNCHANGED <<dir, harvest, patch, counts>>

\* The run ends; before it has composed, its download or encode has failed.
RenderEnds ==
  /\ run # None
  /\ run' = None
  /\ UNCHANGED <<dir, harvest, patch, counts>>

----------------------------------------------------------------------------
(* The human *)

Damages == damages < MaxDamages /\ damages' = damages + 1

\* Deleting a harvested clip's clip.json forces a query.
DeletesRecord(n) ==
  /\ dir[n].clip \in Harvested
  /\ dir' = [dir EXCEPT ![n].clip = None]
  /\ Damages
  /\ UNCHANGED <<harvest, patch, run, saves>>

SpoilsRecord(n) ==
  /\ Readable(n)
  /\ dir' = [dir EXCEPT ![n].clip = Unreadable]
  /\ Damages
  /\ UNCHANGED <<harvest, patch, run, saves>>

DeletesTranscript(n) ==
  /\ dir[n].transcript # None
  /\ dir' = [dir EXCEPT ![n].transcript = None]
  /\ Damages
  /\ UNCHANGED <<harvest, patch, run, saves>>

\* Nobody removes a directory that is being rendered.
RemovesDirectory(n) ==
  /\ dir[n] # NoDir
  /\ run # None => run.name # n
  /\ dir' = [dir EXCEPT ![n] = NoDir]
  /\ Damages
  /\ UNCHANGED <<harvest, patch, run, saves>>

----------------------------------------------------------------------------
Next ==
  \/ \E rows \in SourceLists : StartHarvest(rows)
  \/ \E entry \in harvest.todo : WriteEntry(entry)
  \/ \E u \in Urls, hook \in Hooks, failed \in BOOLEAN : MigratesRecord(u, hook, failed)
  \/ \E n \in Names : MigratesTranscript(n)
  \/ \E w \in Windows, hook \in Hooks : CreateClip(w, hook)
  \/ \E p \in Patchers :
       \/ \E n \in Names : PatchLoads(p, n)
       \/ \E e \in Edits : PatchSaves(p, e)
       \/ PatchRefused(p)
  \/ \E n \in Names : RenderReads(n)
  \/ RenderComposes \/ RenderUntranscribed \/ RenderEnds
  \/ \E n \in Names :
       \/ DeletesRecord(n) \/ SpoilsRecord(n)
       \/ DeletesTranscript(n) \/ RemovesDirectory(n)

Spec == Init /\ [][Next]_vars

----------------------------------------------------------------------------
(* What must hold *)

\* A clip is what its live directory says of it.
Its(c) == CHOOSE n \in Live(c) : TRUE
RecordOf == [c \in Clips |-> IF Live(c) = {} THEN None ELSE dir[Its(c)].clip]
DecisionOn == [c \in Clips |-> IF Live(c) = {} THEN None ELSE dir[Its(c)].edit]
Filed == [c \in Clips |-> {dir[n].edit : n \in {n \in Names : n.clip = c}} \ {None}]
Book == INSTANCE ClipBook WITH record <- RecordOf, edit <- DecisionOn, filed <- Filed

\* Harvests with new titles, picks, edits that overlap and directories a human
\* damaged never leave a clip with two records or with another's edit, and
\* nothing but a PATCH changes what was decided (clipstore._existing_dir).
KeepsTheBook == Book!BookSpec

\* A moment's identity is in one directory, also while its clip.json cannot be
\* read (ClipIdentityUnreadable).
OneDirectoryPerMoment ==
  \A w \in Windows : \A n, m \in Occupied(ClipOf[w]) : n = m

\* The window of a moment never changes under its edit, its transcript and its
\* short, whatever other window rounds to the same seconds
\* (ClipIdentityCollision).
MomentsKeepTheirWindow ==
  [][\A n \in Names :
       LET before == dir[n].clip  after == dir'[n].clip IN
       before \in Moment /\ after \in Records => after = before]_dir

\* A harvest never puts a failure in place of a good record, if its source list
\* names the clip once and by the url that is stored (cmd_harvest).
GoodRecordsStay ==
  [][\A n \in Names, entry \in harvest.todo :
       WriteEntry(entry) /\ Good(dir[n].clip) /\ ~Good(dir'[n].clip) =>
         \E row \in harvest.rows :
           /\ row.url = dir[n].clip.url => row # entry.row
           /\ ClipAt[row.url] = n.clip]_vars

\* Captions are of the passage that is seen, or they are a correction made for
\* it, or a note says that the correction is of another transcript; only where
\* there is no transcript a correction goes unquestioned (transcript_source,
\* effective_words).
CaptionsFitTheVideo ==
  run # None => (run.short # None => (run.short.transcribed =>
    run.short.captions = run.short.video \/ run.short.noted))
=============================================================================
