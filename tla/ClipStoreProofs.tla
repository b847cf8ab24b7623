-------------------------- MODULE ClipStoreProofs --------------------------
(* Theorems about ClipStore, for every set of clips, windows and titles. *)
EXTENDS ClipStore, TLAPS

----------------------------------------------------------------------------
(* The inductive invariant *)

\* A clip has one live directory at most.
OneLiveDirectory ==
  \A n, m \in Names : Readable(n) /\ Readable(m) /\ n.clip = m.clip => n = m

\* A record lies under its own identity.
AtHome(r, c) ==
  /\ r \in Harvested => ClipAt[r.url] = c
  /\ r \in Moment => ClipOf[r.window] = c

RecordsAreAtHome == \A n \in Names : AtHome(dir[n].clip, n.clip)

\* What a harvest has left to write is one entry per row, and a row that failed
\* was not stored when it was asked for: what is stored since is another row's.
EntriesAreTheirRows ==
  \A e \in harvest.todo :
    /\ e.row \in harvest.rows /\ e.record.url = e.row.url
    /\ \A f \in harvest.todo : f.row = e.row => f = e

FailuresAreNew ==
  \A e \in harvest.todo, n \in Names :
    ~Good(e.record) /\ Good(dir[n].clip) /\ dir[n].clip.url = e.row.url =>
      \E row \in harvest.rows \ {e.row} : row.url = e.row.url

\* The passage a transcript that was made for window w is of.
Heard(n, r, w) ==
  IF r.window = None THEN n.clip ELSE IF w # None THEN w ELSE r.window

Fits(n, r) ==
  dir[n].transcript # None => dir[n].transcript.words = Heard(n, r, dir[n].transcript.window)

IsHarvested(c) == \E u \in Urls : ClipAt[u] = c

\* A cached transcript is of the passage its source names, and a directory
\* without a record that holds one is a harvested clip's.
TranscriptsFit ==
  \A n \in Names :
    /\ IsHarvested(n.clip) /\ dir[n].transcript # None => dir[n].transcript.words = n.clip
    /\ dir[n].clip \in Moment => Fits(n, dir[n].clip)
    /\ dir[n].clip = None /\ dir[n].transcript # None => IsHarvested(n.clip)

\* So it is for the record a render has read, whatever became of clip.json since.
RunFits ==
  run # None =>
    /\ AtHome(run.record, run.name.clip) /\ Fits(run.name, run.record)
    /\ dir[run.name].clip \in Moment => dir[run.name].clip = run.record
    /\ dir[run.name].clip = None => IsHarvested(run.name.clip)

IInv ==
  /\ TypeOK
  /\ OneLiveDirectory
  /\ RecordsAreAtHome
  /\ OneDirectoryPerMoment
  /\ EntriesAreTheirRows
  /\ FailuresAreNew
  /\ TranscriptsFit
  /\ RunFits
  /\ CaptionsFitTheVideo

----------------------------------------------------------------------------
(* What is told apart *)

\* Nothing is taken for nothing else: files, their absence, and the two kinds of clips.
LEMMA Distinct ==
  /\ None \notin Records /\ Unreadable \notin Records /\ None \notin Edits /\ None \notin Transcripts
  /\ Harvested \cap Moment = {}
  /\ \A u \in Urls, w \in Windows : ClipAt[u] # ClipOf[w]
  /\ None \notin Windows /\ None \notin Urls
  /\ ClipAt \in [Urls -> Clips] /\ ClipOf \in [Windows -> Clips]
<1>1. Unreadable \notin Records
  BY DEF Unreadable, Records, Harvested, Moment
<1>2. None \notin Records /\ None \notin Edits /\ None \notin Transcripts
  BY NoneAssumption
<1>3. Harvested \cap Moment = {}
  BY ClipStoreAssumption DEF Harvested, Moment
<1> QED BY <1>1, <1>2, <1>3, ClipStoreAssumption

\* No identity is both a harvested clip's and a moment's.
LEMMA HomesDiffer ==
  ASSUME NEW c, NEW r \in Moment, AtHome(r, c)
  PROVE  ~IsHarvested(c) /\ r.window \in Windows /\ r.window # None
BY Distinct DEF AtHome, IsHarvested, Moment

----------------------------------------------------------------------------
(* Writing a record *)

\* A record is written where the clip's live directory is, and only there.
LEMMA Written ==
  ASSUME TypeOK, OneLiveDirectory, NEW c \in Clips, NEW hook \in Hooks, NEW r \in Records,
         WriteClip(c, hook, r)
  PROVE  \E t \in Names :
           /\ t.clip = c
           /\ Live(c) # {} => Live(c) = {t}
           /\ dir' = [dir EXCEPT ![t].clip = r]
           /\ dir' \in [Names -> Dir]
<1> DEFINE t == Target(c, hook)
<1>1. t \in Names /\ t.clip = c /\ (Live(c) # {} => t \in Live(c))
  BY DEF Target, Live, Names
<1>2. Live(c) # {} => Live(c) = {t}
  BY <1>1 DEF OneLiveDirectory, Live
<1>3. dir' = [dir EXCEPT ![t].clip = r]
  BY DEF WriteClip
<1>4. dir' \in [Names -> Dir]
  BY <1>1, <1>3 DEF TypeOK, Dir
<1> HIDE DEF t
<1> QED BY <1>1, <1>2, <1>3, <1>4

\* A record written where it belongs disturbs no clip, no transcript and no run.
LEMMA WritingKeeps ==
  ASSUME IInv, NEW c \in Clips, NEW hook \in Hooks, NEW r \in Records,
         WriteClip(c, hook, r), AtHome(r, c),
         r \in Moment => run = None /\ c = ClipOf[r.window] /\ MayCreate(r.window),
         UNCHANGED run
  PROVE  /\ dir' \in [Names -> Dir]
         /\ OneLiveDirectory' /\ RecordsAreAtHome' /\ OneDirectoryPerMoment'
         /\ TranscriptsFit' /\ RunFits' /\ CaptionsFitTheVideo'
<1>1. PICK t \in Names :
        /\ t.clip = c
        /\ Live(c) # {} => Live(c) = {t}
        /\ dir' = [dir EXCEPT ![t].clip = r]
        /\ dir' \in [Names -> Dir]
  BY Written DEF IInv
<1>2. /\ dir'[t].clip = r /\ dir'[t].edit = dir[t].edit /\ dir'[t].transcript = dir[t].transcript
      /\ \A n \in Names : n # t => dir'[n] = dir[n]
      /\ \A n \in Names : dir'[n].transcript = dir[n].transcript
  BY <1>1 DEF IInv, TypeOK, Dir
<1>3. OneLiveDirectory'
  BY <1>1 DEF IInv, OneLiveDirectory, Live, Readable
<1>4. RecordsAreAtHome'
  BY <1>1, <1>2 DEF IInv, RecordsAreAtHome
<1>5. OneDirectoryPerMoment'
  <2> SUFFICES ASSUME NEW w \in Windows, NEW n \in Occupied(ClipOf[w])', NEW m \in Occupied(ClipOf[w])'
               PROVE  n = m
    BY DEF OneDirectoryPerMoment
  <2>1. CASE c # ClipOf[w]
    BY <1>1, <2>1 DEF IInv, OneDirectoryPerMoment, Occupied
  <2>2. CASE c = ClipOf[w]
    <3>1. r \in Moment
      BY <2>2, Distinct DEF Records, AtHome, Harvested
    <3>2. \A k \in Occupied(c) : k = t
      BY <1>1, <3>1 DEF MayCreate, Occupied, Live
    <3> QED BY <1>2, <2>2, <3>2 DEF Occupied
  <2> QED BY <2>1, <2>2
<1>6. TranscriptsFit'
  <2> SUFFICES ASSUME NEW n \in Names
               PROVE  /\ IsHarvested(n.clip) /\ dir[n]'.transcript # None => dir[n]'.transcript.words = n.clip
                      /\ dir[n]'.clip \in Moment => Fits(n, dir[n].clip)'
                      /\ dir[n]'.clip = None /\ dir[n]'.transcript # None => IsHarvested(n.clip)
    BY DEF TranscriptsFit, IsHarvested
  <2>1. CASE n # t
    BY <1>2, <2>1 DEF IInv, TranscriptsFit, Fits
  <2>2. CASE n = t /\ r \in Harvested
    BY <1>2, <2>2, Distinct DEF IInv, TranscriptsFit
  <2>3. CASE n = t /\ r \in Moment
    <3>1. ~IsHarvested(t.clip)
      BY <1>1, <2>3, HomesDiffer
    <3>2. dir[t].clip = None \/ (dir[t].clip \in Moment /\ dir[t].clip.window = r.window)
      <4>1. dir[t].clip # None => Readable(t) /\ dir[t].clip.window = r.window
        BY <1>1, <2>3 DEF MayCreate, Occupied
      <4>2. dir[t].clip \notin Harvested
        BY <3>1 DEF IInv, RecordsAreAtHome, AtHome, IsHarvested, Harvested
      <4> QED BY <4>1, <4>2 DEF Readable, Records
    <3> QED BY <1>2, <3>1, <3>2, Distinct DEF IInv, TranscriptsFit, Fits, Heard
  <2> QED BY <2>1, <2>2, <2>3 DEF Records
<1>7. RunFits'
  <2>1. run # None => dir'[t].clip \notin Moment /\ dir'[t].clip # None
    BY <1>2, Distinct DEF Records
  <2> QED BY <1>2, <2>1 DEF IInv, TypeOK, RunFits, Fits
<1>8. CaptionsFitTheVideo'
  BY DEF IInv, CaptionsFitTheVideo
<1> QED BY <1>1, <1>3, <1>4, <1>5, <1>6, <1>7, <1>8

----------------------------------------------------------------------------
(* Every step keeps it *)

\* An event without clips.
LEMMA InitHolds == Init => IInv
BY Distinct, ClipStoreAssumption
DEF Init, IInv, TypeOK, OneLiveDirectory, RecordsAreAtHome, OneDirectoryPerMoment,
    EntriesAreTheirRows, FailuresAreNew, TranscriptsFit, RunFits, CaptionsFitTheVideo, AtHome,
    Occupied, Readable, Dir, NoDir, NoHarvest, Records

\* A harvest asks for what is not stored, and what it then writes are its rows.
LEMMA StartKeepsInv ==
  ASSUME IInv, NEW rows \in SourceLists, StartHarvest(rows)
  PROVE  IInv'
<1> DEFINE asked == {row \in rows : Stored(row.url) = {}}
<1>1. rows \subseteq Rows
  BY ClipStoreAssumption DEF Rows
<1>2. PICK failed \in [asked -> BOOLEAN] :
        harvest' = [rows |-> rows,
          todo |-> {[row |-> row, record |->
                       IF row \in asked
                       THEN [url |-> row.url, window |-> None, failed |-> failed[row]]
                       ELSE CHOOSE r \in Stored(row.url) : TRUE] : row \in rows}]
  BY DEF StartHarvest
<1>3. ASSUME NEW e \in harvest'.todo
      PROVE  /\ e.row \in rows /\ e.row \in Rows
             /\ e.record \in Harvested /\ e.record.url = e.row.url
             /\ ~Good(e.record) => Stored(e.row.url) = {}
             /\ e = [row |-> e.row, record |-> e.record]
             /\ \A f \in harvest'.todo : f.row = e.row => f = e
  <2>1. PICK row \in rows :
          e = [row |-> row, record |->
                 IF row \in asked
                 THEN [url |-> row.url, window |-> None, failed |-> failed[row]]
                 ELSE CHOOSE r \in Stored(row.url) : TRUE]
    BY <1>2
  <2>2. row \in Rows /\ row.url \in Urls
    BY <1>1 DEF Rows
  <2>3. CASE row \in asked
    BY <1>2, <2>1, <2>2, <2>3 DEF Harvested
  <2>4. CASE row \notin asked
    <3>1. e.record \in Stored(row.url)
      BY <2>1, <2>4
    <3>2. Good(e.record) /\ e.record.url = row.url
      BY <3>1 DEF Stored
    <3> QED BY <1>2, <2>1, <2>2, <3>2 DEF Good
  <2> QED BY <2>3, <2>4
<1>4. UNCHANGED <<dir, patch, run, saves, damages>> /\ harvest'.rows = rows
  BY <1>2 DEF StartHarvest, counts
<1>5. TypeOK'
  <2>1. harvest'.todo \subseteq [row : Rows, record : Harvested]
    BY <1>3
  <2>2. harvest' = [rows |-> rows, todo |-> harvest'.todo]
    BY <1>2
  <2> QED BY <1>1, <1>4, <2>1, <2>2 DEF IInv, TypeOK
<1>6. EntriesAreTheirRows'
  BY <1>3, <1>4 DEF EntriesAreTheirRows
<1>7. FailuresAreNew'
  BY <1>3, <1>4 DEF FailuresAreNew, Stored
<1>8. /\ OneLiveDirectory' /\ RecordsAreAtHome' /\ OneDirectoryPerMoment' /\ TranscriptsFit'
      /\ RunFits' /\ CaptionsFitTheVideo'
  BY <1>4
  DEF IInv, OneLiveDirectory, RecordsAreAtHome, OneDirectoryPerMoment, Occupied, TranscriptsFit,
      RunFits, Fits, Readable, CaptionsFitTheVideo
<1> QED BY <1>5, <1>6, <1>7, <1>8 DEF IInv

\* What a harvest writes is at home, and explains the failures it has left.
LEMMA WriteEntryKeepsInv ==
  ASSUME IInv, NEW entry \in harvest.todo, WriteEntry(entry)
  PROVE  IInv'
<1> DEFINE c == ClipAt[entry.row.url]
<1>1. entry.row \in Rows /\ entry.record \in Harvested /\ entry.record.url = entry.row.url
  BY DEF IInv, TypeOK, EntriesAreTheirRows
<1>2. entry.row.url \in Urls /\ c \in Clips /\ entry.row.hook \in Hooks
  BY <1>1, Distinct DEF Rows
<1>3. entry.record \in Records /\ AtHome(entry.record, c) /\ entry.record \notin Moment
  BY <1>1, Distinct DEF Records, AtHome
<1>4. WriteClip(c, entry.row.hook, entry.record) /\ UNCHANGED <<patch, run, saves, damages>>
  BY DEF WriteEntry, counts
<1>5. /\ dir' \in [Names -> Dir]
      /\ OneLiveDirectory' /\ RecordsAreAtHome' /\ OneDirectoryPerMoment'
      /\ TranscriptsFit' /\ RunFits' /\ CaptionsFitTheVideo'
  BY <1>2, <1>3, <1>4, WritingKeeps
<1>6. harvest' = NoHarvest \/ harvest' = [harvest EXCEPT !.todo = harvest.todo \ {entry}]
  BY DEF WriteEntry
<1>7. harvest'.todo \subseteq harvest.todo \ {entry} /\ (harvest'.todo # {} => harvest'.rows = harvest.rows)
  BY <1>6 DEF NoHarvest, IInv, TypeOK
<1>8. TypeOK'
  BY <1>4, <1>5, <1>6 DEF IInv, TypeOK, NoHarvest
<1>9. EntriesAreTheirRows'
  <2> SUFFICES ASSUME NEW e \in harvest'.todo
               PROVE  /\ e.row \in harvest'.rows /\ e.record.url = e.row.url
                      /\ \A f \in harvest'.todo : f.row = e.row => f = e
    BY DEF EntriesAreTheirRows
  <2> QED BY <1>7 DEF IInv, EntriesAreTheirRows
<1>10. FailuresAreNew'
  <2> SUFFICES ASSUME NEW e \in harvest'.todo, NEW n \in Names,
                      ~Good(e.record), Good(dir[n].clip)', dir'[n].clip.url = e.row.url
               PROVE  \E row \in harvest.rows \ {e.row} : row.url = e.row.url
    BY <1>7 DEF FailuresAreNew, Good
  <2>1. PICK t \in Names : dir' = [dir EXCEPT ![t].clip = entry.record]
    BY <1>2, <1>3, <1>4, Written DEF IInv
  <2>2. CASE n # t
    BY <1>7, <2>1, <2>2 DEF IInv, FailuresAreNew
  <2>3. CASE n = t
    <3>1. dir'[n].clip = entry.record
      BY <2>1, <2>3 DEF IInv, TypeOK
    <3>2. entry.row # e.row /\ entry.row \in harvest.rows
      BY <1>7 DEF IInv, EntriesAreTheirRows
    <3> QED BY <1>1, <3>1, <3>2
  <2> QED BY <2>2, <2>3
<1> QED BY <1>5, <1>8, <1>9, <1>10 DEF IInv

\* migrate writes while no harvest runs.
LEMMA MigratesRecordKeepsInv ==
  ASSUME IInv, NEW u \in Urls, NEW hook \in Hooks, NEW failed \in BOOLEAN, MigratesRecord(u, hook, failed)
  PROVE  IInv'
<1> DEFINE r == [url |-> u, window |-> None, failed |-> failed]
<1>1. ClipAt[u] \in Clips /\ r \in Records /\ AtHome(r, ClipAt[u]) /\ r \notin Moment
  BY Distinct DEF Records, Harvested, AtHome
<1>2. WriteClip(ClipAt[u], hook, r) /\ UNCHANGED <<harvest, patch, run, saves, damages>> /\ harvest.todo = {}
  BY DEF MigratesRecord, counts, NoHarvest
<1>3. /\ dir' \in [Names -> Dir]
      /\ OneLiveDirectory' /\ RecordsAreAtHome' /\ OneDirectoryPerMoment'
      /\ TranscriptsFit' /\ RunFits' /\ CaptionsFitTheVideo'
  BY <1>1, <1>2, WritingKeeps
<1> QED BY <1>2, <1>3 DEF IInv, TypeOK, EntriesAreTheirRows, FailuresAreNew

\* A clip is made of a moment where the moment has a directory, or has none.
LEMMA CreateClipKeepsInv ==
  ASSUME IInv, NEW w \in Windows, NEW hook \in Hooks, CreateClip(w, hook)
  PROVE  IInv'
<1> DEFINE r == [url |-> None, window |-> w, failed |-> FALSE]
<1>1. ClipOf[w] \in Clips /\ r \in Records /\ AtHome(r, ClipOf[w]) /\ r \notin Harvested
  BY Distinct DEF Records, Harvested, Moment, AtHome
<1>2. /\ WriteClip(ClipOf[w], hook, r) /\ UNCHANGED <<harvest, patch, run, saves, damages>>
      /\ run = None /\ MayCreate(w)
  BY DEF CreateClip, counts
<1>3. /\ dir' \in [Names -> Dir]
      /\ OneLiveDirectory' /\ RecordsAreAtHome' /\ OneDirectoryPerMoment'
      /\ TranscriptsFit' /\ RunFits' /\ CaptionsFitTheVideo'
  BY <1>1, <1>2, WritingKeeps
<1>4. FailuresAreNew'
  <2>1. PICK t \in Names : dir' = [dir EXCEPT ![t].clip = r]
    BY <1>1, <1>2, Written DEF IInv
  <2>2. \A n \in Names : Good(dir[n].clip)' => dir'[n] = dir[n]
    BY <1>1, <2>1 DEF Good
  <2> QED BY <1>2, <2>2 DEF IInv, FailuresAreNew
<1> QED BY <1>2, <1>3, <1>4 DEF IInv, TypeOK, EntriesAreTheirRows

\* A transcript that migrate copies is of a harvested clip.
LEMMA MigratesTranscriptKeepsInv ==
  ASSUME IInv, NEW n \in Names, MigratesTranscript(n)
  PROVE  IInv'
<1> DEFINE t == [clip |-> n.clip, window |-> None, words |-> n.clip]
<1>1. /\ dir' = [dir EXCEPT ![n].transcript = t]
      /\ dir[n].clip \in Harvested
      /\ UNCHANGED <<harvest, patch, run, saves, damages>>
  BY DEF MigratesTranscript, counts
<1>2. t \in Transcripts /\ t.words = n.clip
  BY DEF Transcripts, Names, Passages
<1> HIDE DEF t
<1>3. IsHarvested(n.clip)
  BY <1>1 DEF IInv, RecordsAreAtHome, AtHome, IsHarvested, Harvested
<1>4. /\ dir'[n].transcript = t
      /\ \A m \in Names : dir'[m].clip = dir[m].clip /\ (m # n => dir'[m] = dir[m])
      /\ dir' \in [Names -> Dir]
  BY <1>1, <1>2 DEF IInv, TypeOK, Dir
<1>5. TypeOK'
  BY <1>1, <1>4 DEF IInv, TypeOK
<1>6. /\ OneLiveDirectory' /\ RecordsAreAtHome' /\ OneDirectoryPerMoment'
      /\ EntriesAreTheirRows' /\ FailuresAreNew' /\ CaptionsFitTheVideo'
  BY <1>1
  DEF IInv, OneLiveDirectory, Readable, RecordsAreAtHome, OneDirectoryPerMoment, Occupied,
      EntriesAreTheirRows, FailuresAreNew, CaptionsFitTheVideo
<1>7. TranscriptsFit'
  BY <1>2, <1>3, <1>4, HomesDiffer DEF IInv, TranscriptsFit, RecordsAreAtHome, Fits
<1>8. RunFits'
  <2>1. run # None /\ run.name = n => run.record.window = None
    BY <1>3, HomesDiffer DEF IInv, RunFits, TypeOK, Records, Harvested
  <2> QED BY <1>1, <1>2, <2>1 DEF IInv, RunFits, Fits, Heard
<1> QED BY <1>5, <1>6, <1>7, <1>8 DEF IInv

\* Loading an edit changes nothing on disk.
LEMMA PatchLoadsKeepsInv ==
  ASSUME IInv, NEW p \in Patchers, NEW n \in Names, PatchLoads(p, n)
  PROVE  IInv'
<1>1. EditOf(n) \in Edits
  BY DEF IInv, TypeOK, Dir, EditOf, Untouched, Edits
<1>2. patch' \in [Patchers -> [name : Names, edit : Edits] \cup {None}]
  BY <1>1 DEF PatchLoads, IInv, TypeOK
<1>3. UNCHANGED <<dir, harvest, run, saves, damages>>
  BY DEF PatchLoads, counts
<1> QED
  BY <1>2, <1>3
  DEF IInv, TypeOK, OneLiveDirectory, RecordsAreAtHome, OneDirectoryPerMoment, Occupied, Readable,
      EntriesAreTheirRows, FailuresAreNew, TranscriptsFit, RunFits, Fits, CaptionsFitTheVideo

\* An edit touches no record and no transcript.
LEMMA PatchSavesKeepsInv ==
  ASSUME IInv, NEW p \in Patchers, NEW e \in Edits, PatchSaves(p, e)
  PROVE  IInv'
<1>1. patch[p] # None /\ patch[p].name \in Names
  BY DEF PatchSaves, IInv, TypeOK
<1>2. /\ dir' = [dir EXCEPT ![patch[p].name].edit = e]
      /\ UNCHANGED <<harvest, run, damages>>
  BY DEF PatchSaves
<1>3. /\ dir' \in [Names -> Dir]
      /\ \A n \in Names : dir'[n].clip = dir[n].clip /\ dir'[n].transcript = dir[n].transcript
  BY <1>2 DEF IInv, TypeOK, Dir
<1>4. TypeOK'
  BY <1>3, ClipStoreAssumption DEF IInv, TypeOK, PatchSaves
<1>5. /\ OneLiveDirectory' /\ RecordsAreAtHome' /\ OneDirectoryPerMoment'
      /\ EntriesAreTheirRows' /\ FailuresAreNew' /\ CaptionsFitTheVideo'
  BY <1>2
  DEF IInv, OneLiveDirectory, Readable, RecordsAreAtHome, OneDirectoryPerMoment, Occupied,
      EntriesAreTheirRows, FailuresAreNew, CaptionsFitTheVideo
<1>6. TranscriptsFit' /\ RunFits'
  BY <1>2 DEF IInv, TranscriptsFit, RunFits, Fits
<1> QED BY <1>4, <1>5, <1>6 DEF IInv

\* Nor does a request that is refused.
LEMMA PatchRefusedKeepsInv ==
  ASSUME IInv, NEW p \in Patchers, PatchRefused(p)
  PROVE  IInv'
BY DEF PatchRefused, counts, IInv, TypeOK, OneLiveDirectory, RecordsAreAtHome,
       OneDirectoryPerMoment, Occupied, Readable, EntriesAreTheirRows, FailuresAreNew,
       TranscriptsFit, RunFits, Fits, CaptionsFitTheVideo

\* What a render reads is at home, and the transcript beside it fits.
LEMMA RenderReadsKeepsInv ==
  ASSUME IInv, NEW n \in Names, RenderReads(n)
  PROVE  IInv'
<1>1. /\ run' = [name |-> n, record |-> dir[n].clip, edit |-> EditOf(n), short |-> None]
      /\ Readable(n) /\ UNCHANGED <<dir, harvest, patch, saves, damages>>
  BY DEF RenderReads, counts
<1>2. EditOf(n) \in Edits
  BY DEF IInv, TypeOK, Dir, EditOf, Untouched, Edits
<1>3. TypeOK'
  BY <1>1, <1>2 DEF IInv, TypeOK, Readable
<1>4. RunFits'
  <2>1. AtHome(dir[n].clip, n.clip)
    BY DEF IInv, RecordsAreAtHome
  <2>2. CASE dir[n].clip \in Moment
    BY <1>1, <2>1, <2>2, Distinct DEF IInv, TranscriptsFit, RunFits, Fits, Records
  <2>3. CASE dir[n].clip \in Harvested
    <3>1. IsHarvested(n.clip) /\ dir[n].clip.window = None
      BY <2>1, <2>3 DEF AtHome, IsHarvested, Harvested
    <3> QED BY <1>1, <2>1, <3>1 DEF IInv, TranscriptsFit, RunFits, Fits, Heard
  <2> QED BY <1>1, <2>2, <2>3 DEF Readable, Records
<1>5. /\ OneLiveDirectory' /\ RecordsAreAtHome' /\ OneDirectoryPerMoment' /\ EntriesAreTheirRows'
      /\ FailuresAreNew' /\ TranscriptsFit' /\ CaptionsFitTheVideo'
  BY <1>1
  DEF IInv, OneLiveDirectory, Readable, RecordsAreAtHome, OneDirectoryPerMoment, Occupied,
      EntriesAreTheirRows, FailuresAreNew, TranscriptsFit, Fits, CaptionsFitTheVideo
<1> QED BY <1>3, <1>4, <1>5 DEF IInv

\* A transcript is trusted where it is of what was fetched, and made of it otherwise.
LEMMA RenderComposesKeepsInv ==
  ASSUME IInv, RenderComposes
  PROVE  IInv'
<1> DEFINE n == run.name
           video == Fetched(n, run.record, run.edit)
           t == Transcribed(n, run.edit, video)
<1>1. /\ run # None /\ n \in Names /\ run.record \in Records /\ run.edit \in Edits
      /\ AtHome(run.record, n.clip) /\ Fits(n, run.record)
  BY DEF RenderComposes, IInv, TypeOK, RunFits
<1>2. /\ dir' = [dir EXCEPT ![n].transcript = t]
      /\ run' = [run EXCEPT !.short = Captioned(video, run.edit, t.words)]
      /\ UNCHANGED <<harvest, patch, saves, damages>>
  BY DEF RenderComposes, counts
<1>3. n.clip \in Clips /\ n.clip \in Passages
  BY <1>1 DEF Names, Passages
<1>4. video = Heard(n, run.record, run.edit.window) /\ video \in Passages
  BY <1>1, <1>3 DEF Fetched, Heard, Records, Harvested, Moment, Edits, Passages
<1>5. t \in Transcripts /\ t.words = video /\ t.window = run.edit.window
  BY <1>1, <1>3, <1>4 DEF Transcribed, Source, Transcripts, Edits, Fits, IInv, TypeOK, Dir
<1> HIDE DEF video, t
<1>6. /\ dir'[n].transcript = t /\ dir' \in [Names -> Dir]
      /\ \A m \in Names : dir'[m].clip = dir[m].clip /\ (m # n => dir'[m] = dir[m])
  BY <1>1, <1>2, <1>5 DEF IInv, TypeOK, Dir
<1>7. TypeOK'
  <2>1. Captioned(video, run.edit, t.words) \in Shorts
    BY <1>1, <1>4, <1>5 DEF Captioned, Shorts, Edits
  <2> QED BY <1>1, <1>2, <1>6, <2>1 DEF IInv, TypeOK
<1>8. /\ OneLiveDirectory' /\ RecordsAreAtHome' /\ OneDirectoryPerMoment'
      /\ EntriesAreTheirRows' /\ FailuresAreNew'
  BY <1>2
  DEF IInv, OneLiveDirectory, Readable, RecordsAreAtHome, OneDirectoryPerMoment, Occupied,
      EntriesAreTheirRows, FailuresAreNew
<1>9. run'.name = n /\ run'.record = run.record /\ run'.short = Captioned(video, run.edit, t.words)
  BY <1>1, <1>2 DEF IInv, TypeOK
<1>10. RunFits'
  <2>1. AtHome(run'.record, run'.name.clip)
    BY <1>1, <1>9
  <2>2. dir'[n].transcript.words = Heard(n, run.record, dir'[n].transcript.window)
    BY <1>4, <1>5, <1>6
  <2>3. /\ dir'[n].clip \in Moment => dir'[n].clip = run.record
        /\ dir'[n].clip = None => IsHarvested(n.clip)
    BY <1>1, <1>6 DEF IInv, RunFits
  <2> QED BY <1>9, <2>1, <2>2, <2>3 DEF RunFits, Fits
<1>11. TranscriptsFit'
  <2>1. IsHarvested(n.clip) => run.record.window = None
    BY <1>1, HomesDiffer DEF Records, Harvested
  <2>2. dir[n].clip \in Moment => dir[n].clip = run.record
    BY <1>1 DEF IInv, RunFits
  <2>3. dir[n].clip = None => IsHarvested(n.clip)
    BY <1>1 DEF IInv, RunFits
  <2> QED BY <1>4, <1>5, <1>6, <2>1, <2>2, <2>3 DEF IInv, TranscriptsFit, Fits, Heard
<1>12. CaptionsFitTheVideo'
  <2>1. Captioned(video, run.edit, t.words).captions = video \/ Captioned(video, run.edit, t.words).noted
    BY <1>5 DEF Captioned
  <2>2. Captioned(video, run.edit, t.words).video = video
    BY DEF Captioned
  <2> QED BY <1>9, <2>1, <2>2 DEF CaptionsFitTheVideo
<1> QED BY <1>7, <1>8, <1>10, <1>11, <1>12 DEF IInv

\* The end of a run, or a short without a transcript, leaves the clip as it was.
LEMMA RunGoesOn ==
  ASSUME IInv, RenderUntranscribed \/ RenderEnds
  PROVE  IInv'
<1>1. UNCHANGED <<dir, harvest, patch, saves, damages>>
  BY DEF RenderUntranscribed, RenderEnds, counts
<1>2. /\ OneLiveDirectory' /\ RecordsAreAtHome' /\ OneDirectoryPerMoment'
      /\ EntriesAreTheirRows' /\ FailuresAreNew' /\ TranscriptsFit'
  BY <1>1
  DEF IInv, OneLiveDirectory, Readable, RecordsAreAtHome, OneDirectoryPerMoment, Occupied,
      EntriesAreTheirRows, FailuresAreNew, TranscriptsFit, Fits
<1>3. CASE RenderEnds
  BY <1>1, <1>2, <1>3 DEF RenderEnds, IInv, TypeOK, RunFits, CaptionsFitTheVideo
<1>4. CASE RenderUntranscribed
  <2> DEFINE short == [video |-> Fetched(run.name, run.record, run.edit),
                       captions |-> run.edit.correctedFrom,
                       transcribed |-> FALSE, noted |-> run.edit.correctedFrom = None]
  <2>1. run # None /\ run' = [run EXCEPT !.short = short]
    BY <1>4 DEF RenderUntranscribed
  <2>2. run.name \in Names /\ run.record \in Records /\ run.edit \in Edits
    BY <2>1 DEF IInv, TypeOK
  <2>3. Fetched(run.name, run.record, run.edit) \in Passages
    BY <2>2 DEF Fetched, Names, Records, Harvested, Moment, Edits, Passages
  <2>4. short \in Shorts /\ ~short.transcribed
    BY <2>2, <2>3 DEF Shorts, Edits
  <2> HIDE DEF short
  <2>5. run'.name = run.name /\ run'.record = run.record /\ run'.short = short
    BY <2>1 DEF IInv, TypeOK
  <2>6. TypeOK'
    BY <1>1, <2>1, <2>4 DEF IInv, TypeOK
  <2>7. RunFits'
    BY <1>1, <2>1 DEF IInv, RunFits, Fits
  <2>8. CaptionsFitTheVideo'
    BY <2>4, <2>5 DEF CaptionsFitTheVideo
  <2> QED BY <1>2, <2>6, <2>7, <2>8 DEF IInv
<1> QED BY <1>3, <1>4

\* A human takes away or spoils a record: nothing of it is anywhere else.
LEMMA RecordGoes ==
  ASSUME IInv, NEW n \in Names, DeletesRecord(n) \/ SpoilsRecord(n)
  PROVE  IInv'
<1>1. PICK gone \in {None, Unreadable} :
        /\ dir' = [dir EXCEPT ![n].clip = gone]
        /\ gone = None => dir[n].clip \in Harvested
        /\ dir[n].clip \in Records
  <2>1. CASE DeletesRecord(n)
    BY <2>1 DEF DeletesRecord, Records
  <2>2. CASE SpoilsRecord(n)
    BY <2>2, NoneAssumption DEF SpoilsRecord, Readable
  <2> QED BY <2>1, <2>2
<1>2. UNCHANGED <<harvest, patch, run, saves>> /\ damages' \in 0..MaxDamages
  BY ClipStoreAssumption DEF DeletesRecord, SpoilsRecord, Damages, IInv, TypeOK
<1>3. /\ dir'[n].clip = gone /\ dir' \in [Names -> Dir]
      /\ \A m \in Names : dir'[m].transcript = dir[m].transcript /\ (m # n => dir'[m] = dir[m])
  BY <1>1 DEF IInv, TypeOK, Dir
<1>4. gone \notin Records /\ gone \notin Harvested /\ gone \notin Moment
  BY Distinct DEF Records
<1>5. gone = None => IsHarvested(n.clip)
  BY <1>1 DEF IInv, RecordsAreAtHome, AtHome, IsHarvested, Harvested
<1>6. TypeOK'
  BY <1>2, <1>3 DEF IInv, TypeOK
<1>7. OneLiveDirectory' /\ RecordsAreAtHome' /\ OneDirectoryPerMoment'
  BY <1>1, <1>4, Distinct
  DEF IInv, OneLiveDirectory, Readable, RecordsAreAtHome, AtHome, OneDirectoryPerMoment, Occupied
<1>8. EntriesAreTheirRows' /\ FailuresAreNew'
  BY <1>2, <1>3, <1>4 DEF IInv, EntriesAreTheirRows, FailuresAreNew, Good
<1>9. TranscriptsFit' /\ RunFits'
  BY <1>2, <1>3, <1>4, <1>5 DEF IInv, TypeOK, TranscriptsFit, RunFits, Fits
<1>10. CaptionsFitTheVideo'
  BY <1>2 DEF IInv, CaptionsFitTheVideo
<1> QED BY <1>6, <1>7, <1>8, <1>9, <1>10 DEF IInv

\* A transcript that is gone is no wrong one.
LEMMA TranscriptGoes ==
  ASSUME IInv, NEW n \in Names, DeletesTranscript(n)
  PROVE  IInv'
<1>1. dir' = [dir EXCEPT ![n].transcript = None]
  BY DEF DeletesTranscript
<1>2. UNCHANGED <<harvest, patch, run, saves>> /\ damages' \in 0..MaxDamages
  BY ClipStoreAssumption DEF DeletesTranscript, Damages, IInv, TypeOK
<1>3. /\ dir'[n].transcript = None /\ dir' \in [Names -> Dir]
      /\ \A m \in Names : dir'[m].clip = dir[m].clip /\ (m # n => dir'[m] = dir[m])
  BY <1>1 DEF IInv, TypeOK, Dir
<1>4. TypeOK'
  BY <1>2, <1>3 DEF IInv, TypeOK
<1>5. /\ OneLiveDirectory' /\ RecordsAreAtHome' /\ OneDirectoryPerMoment'
      /\ EntriesAreTheirRows' /\ FailuresAreNew' /\ CaptionsFitTheVideo'
  BY <1>2, <1>3
  DEF IInv, OneLiveDirectory, Readable, RecordsAreAtHome, OneDirectoryPerMoment, Occupied,
      EntriesAreTheirRows, FailuresAreNew, CaptionsFitTheVideo
<1>6. TranscriptsFit' /\ RunFits'
  BY <1>2, <1>3 DEF IInv, TypeOK, TranscriptsFit, RunFits, Fits
<1> QED BY <1>4, <1>5, <1>6 DEF IInv

\* A directory that is gone holds no record; a render is not where it was.
LEMMA DirectoryGoes ==
  ASSUME IInv, NEW n \in Names, RemovesDirectory(n)
  PROVE  IInv'
<1>1. dir' = [dir EXCEPT ![n] = NoDir] /\ (run # None => run.name # n)
  BY DEF RemovesDirectory
<1>2. UNCHANGED <<harvest, patch, run, saves>> /\ damages' \in 0..MaxDamages
  BY ClipStoreAssumption DEF RemovesDirectory, Damages, IInv, TypeOK
<1>3. /\ dir'[n] = NoDir /\ NoDir.clip = None /\ NoDir.transcript = None
      /\ dir' \in [Names -> Dir] /\ \A m \in Names : m # n => dir'[m] = dir[m]
  BY <1>1 DEF IInv, TypeOK, Dir, NoDir
<1>4. None \notin Records /\ None \notin Harvested /\ None \notin Moment
  BY Distinct DEF Records
<1>5. TypeOK'
  BY <1>2, <1>3 DEF IInv, TypeOK
<1>6. OneLiveDirectory' /\ RecordsAreAtHome' /\ OneDirectoryPerMoment'
  BY <1>3, <1>4
  DEF IInv, OneLiveDirectory, Readable, RecordsAreAtHome, AtHome, OneDirectoryPerMoment, Occupied
<1>7. EntriesAreTheirRows' /\ FailuresAreNew'
  BY <1>2, <1>3, <1>4 DEF IInv, EntriesAreTheirRows, FailuresAreNew, Good
<1>8. TranscriptsFit' /\ RunFits'
  BY <1>1, <1>2, <1>3 DEF IInv, TranscriptsFit, RunFits, Fits
<1>9. CaptionsFitTheVideo'
  BY <1>2 DEF IInv, CaptionsFitTheVideo
<1> QED BY <1>5, <1>6, <1>7, <1>8, <1>9 DEF IInv

\* Every step, and no step, keeps the invariant.
LEMMA NextKeepsInv == IInv /\ [Next]_vars => IInv'
<1> SUFFICES ASSUME IInv, [Next]_vars PROVE IInv'
  OBVIOUS
<1>1. CASE \E rows \in SourceLists : StartHarvest(rows)
  BY <1>1, StartKeepsInv
<1>2. CASE \E entry \in harvest.todo : WriteEntry(entry)
  BY <1>2, WriteEntryKeepsInv
<1>3. CASE \E u \in Urls, hook \in Hooks, failed \in BOOLEAN : MigratesRecord(u, hook, failed)
  BY <1>3, MigratesRecordKeepsInv
<1>4. CASE \E n \in Names : MigratesTranscript(n)
  BY <1>4, MigratesTranscriptKeepsInv
<1>5. CASE \E w \in Windows, hook \in Hooks : CreateClip(w, hook)
  BY <1>5, CreateClipKeepsInv
<1>6. CASE \E p \in Patchers :
             \/ \E n \in Names : PatchLoads(p, n)
             \/ \E e \in Edits : PatchSaves(p, e)
             \/ PatchRefused(p)
  BY <1>6, PatchLoadsKeepsInv, PatchSavesKeepsInv, PatchRefusedKeepsInv
<1>7. CASE \E n \in Names : RenderReads(n)
  BY <1>7, RenderReadsKeepsInv
<1>8. CASE RenderComposes
  BY <1>8, RenderComposesKeepsInv
<1>9. CASE RenderUntranscribed \/ RenderEnds
  BY <1>9, RunGoesOn
<1>10. CASE \E n \in Names : \/ DeletesRecord(n) \/ SpoilsRecord(n)
                              \/ DeletesTranscript(n) \/ RemovesDirectory(n)
  BY <1>10, RecordGoes, TranscriptGoes, DirectoryGoes
<1>11. CASE UNCHANGED vars
  BY <1>11
  DEF vars, IInv, TypeOK, OneLiveDirectory, Readable, RecordsAreAtHome, OneDirectoryPerMoment,
      Occupied, EntriesAreTheirRows, FailuresAreNew, TranscriptsFit, RunFits, Fits,
      CaptionsFitTheVideo
<1> QED
  BY <1>1, <1>2, <1>3, <1>4, <1>5, <1>6, <1>7, <1>8, <1>9, <1>10, <1>11 DEF Next

----------------------------------------------------------------------------
(* The store keeps the book *)

\* What the book says of a clip is what its live directory says.
LEMMA BookReads ==
  ASSUME OneLiveDirectory, NEW c \in Clips
  PROVE  /\ Live(c) = {} => RecordOf[c] = None /\ DecisionOn[c] = None
         /\ \A n \in Live(c) : RecordOf[c] = dir[n].clip /\ DecisionOn[c] = dir[n].edit
BY DEF OneLiveDirectory, Live, RecordOf, DecisionOn, Its

\* The same after a step.
LEMMA BookReadsNext ==
  ASSUME OneLiveDirectory', NEW c \in Clips
  PROVE  /\ Live(c)' = {} => RecordOf'[c] = None /\ DecisionOn'[c] = None
         /\ \A n \in Live(c)' : RecordOf'[c] = dir'[n].clip /\ DecisionOn'[c] = dir'[n].edit
BY DEF OneLiveDirectory, Live, RecordOf, DecisionOn, Its

\* A step that writes no record and no edit leaves the book as it is.
LEMMA BookStays ==
  ASSUME \A n \in Names : dir'[n].clip = dir[n].clip /\ dir'[n].edit = dir[n].edit
  PROVE  UNCHANGED <<RecordOf, DecisionOn, Filed>>
<1>1. \A c \in Clips : Live(c)' = Live(c)
  BY DEF Live, Readable
<1>2. \A c \in Clips : Its(c)' = Its(c)
  BY <1>1 DEF Its
<1>3. \A c \in Clips : Live(c) # {} => Its(c) \in Names
  BY DEF Its, Live
<1>4. UNCHANGED RecordOf
  BY <1>1, <1>2, <1>3 DEF RecordOf
<1>5. UNCHANGED DecisionOn
  BY <1>1, <1>2, <1>3 DEF DecisionOn
<1>6. UNCHANGED Filed
  BY DEF Filed
<1> QED BY <1>4, <1>5, <1>6

\* Two books that agree but on one clip.
LEMMA BookFunctions ==
  /\ RecordOf = [c \in Clips |-> RecordOf[c]] /\ RecordOf' = [c \in Clips |-> RecordOf'[c]]
  /\ DecisionOn = [c \in Clips |-> DecisionOn[c]] /\ DecisionOn' = [c \in Clips |-> DecisionOn'[c]]
  /\ Filed = [c \in Clips |-> Filed[c]] /\ Filed' = [c \in Clips |-> Filed'[c]]
BY DEF RecordOf, DecisionOn, Filed

\* A step in the directory of one clip concerns no other.
LEMMA OthersStay ==
  ASSUME OneLiveDirectory, OneLiveDirectory', NEW t \in Names, NEW d \in Clips, d # t.clip,
         \A n \in Names : n # t => dir'[n] = dir[n]
  PROVE  RecordOf'[d] = RecordOf[d] /\ DecisionOn'[d] = DecisionOn[d] /\ Filed'[d] = Filed[d]
<1>1. Live(d)' = Live(d) /\ \A n \in Live(d) : dir'[n] = dir[n]
  BY DEF Live, Readable
<1>2. RecordOf'[d] = RecordOf[d] /\ DecisionOn'[d] = DecisionOn[d]
  <2>1. CASE Live(d) = {}
    BY <1>1, <2>1, BookReads, BookReadsNext
  <2>2. CASE Live(d) # {}
    BY <1>1, <2>2, BookReads, BookReadsNext
  <2> QED BY <2>1, <2>2
<1>3. Filed'[d] = Filed[d]
  BY DEF Filed
<1> QED BY <1>2, <1>3

\* Writing a record is a derivation: of this clip, with what was decided about it.
LEMMA WriteIsDerive ==
  ASSUME IInv, IInv', NEW c \in Clips, NEW hook \in Hooks, NEW r \in Records, WriteClip(c, hook, r)
  PROVE  Book!Derive(c, r)
<1>1. PICK t \in Names :
        /\ t.clip = c
        /\ Live(c) # {} => Live(c) = {t}
        /\ dir' = [dir EXCEPT ![t].clip = r]
  BY Written DEF IInv
<1>2. /\ dir'[t].clip = r /\ dir'[t].edit = dir[t].edit
      /\ \A n \in Names : n # t => dir'[n] = dir[n]
      /\ \A n \in Names : dir'[n].edit = dir[n].edit
  BY <1>1 DEF IInv, TypeOK, Dir
<1>3. t \in Live(c)'
  BY <1>1, <1>2 DEF Live, Readable
<1>4. RecordOf'[c] = r /\ DecisionOn'[c] = dir[t].edit
  BY <1>2, <1>3, BookReadsNext DEF IInv
<1>5. \A d \in Clips \ {c} : RecordOf'[d] = RecordOf[d] /\ DecisionOn'[d] = DecisionOn[d]
  BY <1>1, <1>2, OthersStay DEF IInv
<1>6. UNCHANGED Filed
  BY <1>2 DEF Filed
<1>7. RecordOf' = [RecordOf EXCEPT ![c] = r]
  BY <1>4, <1>5, BookFunctions
<1>8. DecisionOn' = [DecisionOn EXCEPT ![c] = dir[t].edit]
  BY <1>4, <1>5, BookFunctions
<1>9. RecordOf[c] # None => DecisionOn[c] = dir[t].edit
  BY <1>1, BookReads DEF IInv
<1>10. dir[t].edit \in Filed[c] \cup {None}
  BY <1>1 DEF Filed
<1> QED BY <1>6, <1>7, <1>8, <1>9, <1>10, BookFunctions DEF Book!Derive

\* Saving an edit is a decision about the clip it was loaded for.
LEMMA SaveIsDecide ==
  ASSUME IInv, IInv', NEW p \in Patchers, NEW e \in Edits, PatchSaves(p, e)
  PROVE  \E c \in Clips : Book!Decide(c, e)
<1>1. PICK t \in Names, c \in Clips : t = patch[p].name /\ c = t.clip
  BY DEF PatchSaves, IInv, TypeOK, Names
<1>2. dir' = [dir EXCEPT ![t].edit = e]
  BY <1>1 DEF PatchSaves
<1>3. /\ dir'[t].edit = e /\ \A n \in Names : n # t => dir'[n] = dir[n]
      /\ \A n \in Names : dir'[n].clip = dir[n].clip
  BY <1>2 DEF IInv, TypeOK
<1>4. Live(c)' = Live(c)
  BY <1>3 DEF Live, Readable
<1>5. \A d \in Clips \ {c} : /\ RecordOf'[d] = RecordOf[d] /\ DecisionOn'[d] = DecisionOn[d]
                             /\ Filed'[d] = Filed[d]
  BY <1>1, <1>3, OthersStay DEF IInv
<1>6. /\ RecordOf'[c] = RecordOf[c] /\ DecisionOn'[c] \in {DecisionOn[c], e}
      /\ RecordOf[c] = None => DecisionOn'[c] = DecisionOn[c]
  <2>1. CASE Live(c) = {}
    BY <1>4, <2>1, BookReads, BookReadsNext DEF IInv
  <2>2. ASSUME NEW n \in Live(c)
        PROVE  /\ RecordOf'[c] = RecordOf[c] /\ DecisionOn'[c] \in {DecisionOn[c], e}
               /\ RecordOf[c] # None
    <3>1. RecordOf[c] = dir[n].clip /\ DecisionOn[c] = dir[n].edit
      BY <1>1, BookReads DEF IInv
    <3>2. RecordOf'[c] = dir'[n].clip /\ DecisionOn'[c] = dir'[n].edit
      BY <1>1, <1>4, BookReadsNext DEF IInv
    <3>3. n \in Names /\ dir[n].clip # None
      BY Distinct DEF Live, Readable
    <3> QED BY <1>3, <3>1, <3>2, <3>3
  <2> QED BY <2>1, <2>2
<1>7. \E kept \in SUBSET Filed[c] : Filed'[c] = kept \cup {e}
  <2> DEFINE kept == {dir[n].edit : n \in {m \in Names : m.clip = c /\ m # t}} \ {None}
  <2>1. kept \in SUBSET Filed[c]
    BY DEF Filed
  <2>2. Filed'[c] = kept \cup {e}
    BY <1>1, <1>3, Distinct DEF Filed
  <2> QED BY <2>1, <2>2
<1>8. UNCHANGED RecordOf
  BY <1>5, <1>6, BookFunctions
<1>9. DecisionOn' \in {DecisionOn, [DecisionOn EXCEPT ![c] = e]}
  BY <1>5, <1>6, BookFunctions
<1>10. RecordOf[c] = None => UNCHANGED DecisionOn
  BY <1>5, <1>6, BookFunctions
<1>11. \E kept \in SUBSET Filed[c] : Filed' = [Filed EXCEPT ![c] = kept \cup {e}]
  BY <1>5, <1>7, BookFunctions
<1> QED BY <1>8, <1>9, <1>10, <1>11 DEF Book!Decide

\* Taking a record or a directory away is a withdrawal of its clip and of no other.
LEMMA TakingAwayIsWithdraw ==
  ASSUME IInv, IInv', NEW t \in Names, dir'[t].clip \notin Records, dir'[t].edit \in {dir[t].edit, None},
         \A n \in Names : n # t => dir'[n] = dir[n]
  PROVE  \E c \in Clips : Book!Withdraw(c)
<1>1. PICK c \in Clips : c = t.clip
  BY DEF Names
<1>2. \A d \in Clips \ {c} : /\ RecordOf'[d] = RecordOf[d] /\ DecisionOn'[d] = DecisionOn[d]
                             /\ Filed'[d] = Filed[d]
  BY <1>1, OthersStay DEF IInv
<1>3. Filed'[c] \in SUBSET Filed[c]
  BY <1>1 DEF Filed
<1>4. \/ RecordOf'[c] = RecordOf[c] /\ DecisionOn'[c] = DecisionOn[c]
      \/ RecordOf'[c] = None /\ DecisionOn'[c] = None
  <2>1. CASE t \in Live(c)
    <3>1. Live(c)' = {}
      BY <2>1 DEF IInv, OneLiveDirectory, Live, Readable
    <3> QED BY <3>1, BookReadsNext DEF IInv
  <2>2. CASE t \notin Live(c)
    <3>1. Live(c)' = Live(c) /\ \A n \in Live(c) : dir'[n] = dir[n]
      BY <2>2 DEF Live, Readable
    <3>2. CASE Live(c) = {}
      BY <3>1, BookReads, BookReadsNext DEF IInv
    <3>3. CASE Live(c) # {}
      BY <3>1, BookReads, BookReadsNext DEF IInv
    <3> QED BY <3>2, <3>3
  <2> QED BY <2>1, <2>2
<1>5. \/ UNCHANGED <<RecordOf, DecisionOn>>
      \/ RecordOf' = [RecordOf EXCEPT ![c] = None] /\ DecisionOn' = [DecisionOn EXCEPT ![c] = None]
  BY <1>2, <1>4, BookFunctions
<1>6. Filed' = [Filed EXCEPT ![c] = Filed'[c]]
  BY <1>2, BookFunctions
<1>7. \E kept \in SUBSET Filed[c] : Filed' = [Filed EXCEPT ![c] = kept]
  BY <1>3, <1>6
<1> QED BY <1>5, <1>7 DEF Book!Withdraw

\* Every step of the store is a step of the book, or none.
LEMMA NextKeepsTheBook ==
  ASSUME IInv, IInv', [Next]_vars
  PROVE  [Book!BookNext]_(Book!bookVars)
<1>1. ASSUME NEW c \in Clips, NEW hook \in Hooks, NEW r \in Records, WriteClip(c, hook, r)
      PROVE  Book!BookNext
  BY <1>1, WriteIsDerive DEF Book!BookNext
<1>2. ASSUME UNCHANGED dir
      PROVE  UNCHANGED Book!bookVars
  BY <1>2, BookStays DEF Book!bookVars
<1>3. CASE \E entry \in harvest.todo : WriteEntry(entry)
  <2>1. PICK entry \in harvest.todo : WriteEntry(entry)
    BY <1>3
  <2>2. /\ ClipAt[entry.row.url] \in Clips /\ entry.row.hook \in Hooks /\ entry.record \in Records
        /\ WriteClip(ClipAt[entry.row.url], entry.row.hook, entry.record)
    BY <2>1, Distinct DEF WriteEntry, IInv, TypeOK, Rows, Records
  <2> QED BY <1>1, <2>2
<1>4. CASE \E u \in Urls, hook \in Hooks, failed \in BOOLEAN : MigratesRecord(u, hook, failed)
  <2>1. PICK u \in Urls, hook \in Hooks, failed \in BOOLEAN : MigratesRecord(u, hook, failed)
    BY <1>4
  <2>2. ClipAt[u] \in Clips /\ [url |-> u, window |-> None, failed |-> failed] \in Records
    BY Distinct DEF Records, Harvested
  <2> QED BY <1>1, <2>1, <2>2 DEF MigratesRecord
<1>5. CASE \E w \in Windows, hook \in Hooks : CreateClip(w, hook)
  <2>1. PICK w \in Windows, hook \in Hooks : CreateClip(w, hook)
    BY <1>5
  <2>2. ClipOf[w] \in Clips /\ [url |-> None, window |-> w, failed |-> FALSE] \in Records
    BY Distinct DEF Records, Moment
  <2> QED BY <1>1, <2>1, <2>2 DEF CreateClip
<1>6. CASE \E p \in Patchers, e \in Edits : PatchSaves(p, e)
  BY <1>6, SaveIsDecide DEF Book!BookNext
<1>7. CASE \E n \in Names : DeletesRecord(n) \/ SpoilsRecord(n)
  <2>1. PICK n \in Names : DeletesRecord(n) \/ SpoilsRecord(n)
    BY <1>7
  <2>2. PICK gone \in {None, Unreadable} : dir' = [dir EXCEPT ![n].clip = gone]
    BY <2>1 DEF DeletesRecord, SpoilsRecord
  <2>3. /\ dir'[n].clip = gone /\ dir'[n].edit = dir[n].edit
        /\ \A m \in Names : m # n => dir'[m] = dir[m]
    BY <2>2 DEF IInv, TypeOK, Dir
  <2> QED BY <2>3, Distinct, TakingAwayIsWithdraw DEF Book!BookNext
<1>8. CASE \E n \in Names : RemovesDirectory(n)
  <2>1. PICK n \in Names : RemovesDirectory(n)
    BY <1>8
  <2>2. /\ dir'[n].clip = None /\ dir'[n].edit = None
        /\ \A m \in Names : m # n => dir'[m] = dir[m]
    BY <2>1 DEF RemovesDirectory, NoDir, IInv, TypeOK
  <2> QED BY <2>2, Distinct, TakingAwayIsWithdraw DEF Book!BookNext
<1>9. CASE (\E n \in Names : MigratesTranscript(n) \/ DeletesTranscript(n)) \/ RenderComposes
  <2>1. run # None => run.name \in Names
    BY DEF IInv, TypeOK
  <2>2. PICK n \in Names : \E t : dir' = [dir EXCEPT ![n].transcript = t]
    BY <1>9, <2>1 DEF MigratesTranscript, DeletesTranscript, RenderComposes
  <2>3. \A m \in Names : dir'[m].clip = dir[m].clip /\ dir'[m].edit = dir[m].edit
    BY <2>2 DEF IInv, TypeOK, Dir
  <2> QED BY <2>3, BookStays DEF Book!bookVars
<1>10. CASE \/ \E rows \in SourceLists : StartHarvest(rows)
            \/ \E p \in Patchers : PatchRefused(p) \/ \E n \in Names : PatchLoads(p, n)
            \/ \E n \in Names : RenderReads(n)
            \/ RenderUntranscribed \/ RenderEnds \/ UNCHANGED vars
  BY <1>2, <1>10
  DEF StartHarvest, PatchRefused, PatchLoads, RenderReads, RenderUntranscribed, RenderEnds, vars
<1> QED BY <1>3, <1>4, <1>5, <1>6, <1>7, <1>8, <1>9, <1>10 DEF Next

----------------------------------------------------------------------------
(* What a write may replace *)

\* A step writes a record where it belongs, or it brings no record anywhere.
LEMMA RecordsComeFromWrites ==
  ASSUME IInv, [Next]_vars
  PROVE  \/ \E c \in Clips, hook \in Hooks, r \in Records :
              /\ WriteClip(c, hook, r) /\ AtHome(r, c)
              /\ r \in Moment => MayCreate(r.window)
         \/ \A n \in Names : dir'[n].clip = dir[n].clip \/ dir'[n].clip \notin Records
<1>1. CASE \E entry \in harvest.todo : WriteEntry(entry)
  <2>1. PICK entry \in harvest.todo : WriteEntry(entry)
    BY <1>1
  <2>2. /\ ClipAt[entry.row.url] \in Clips /\ entry.row.hook \in Hooks /\ entry.record \in Harvested
        /\ entry.record.url = entry.row.url
    BY Distinct DEF IInv, TypeOK, Rows, EntriesAreTheirRows
  <2> QED BY <2>1, <2>2, Distinct DEF WriteEntry, Records, AtHome
<1>2. CASE \E u \in Urls, hook \in Hooks, failed \in BOOLEAN : MigratesRecord(u, hook, failed)
  <2>1. PICK u \in Urls, hook \in Hooks, failed \in BOOLEAN : MigratesRecord(u, hook, failed)
    BY <1>2
  <2>2. ClipAt[u] \in Clips /\ [url |-> u, window |-> None, failed |-> failed] \in Harvested
    BY Distinct DEF Harvested
  <2> QED BY <2>1, <2>2, Distinct DEF MigratesRecord, Records, AtHome
<1>3. CASE \E w \in Windows, hook \in Hooks : CreateClip(w, hook)
  <2>1. PICK w \in Windows, hook \in Hooks : CreateClip(w, hook)
    BY <1>3
  <2>2. ClipOf[w] \in Clips /\ [url |-> None, window |-> w, failed |-> FALSE] \in Moment
    BY Distinct DEF Moment
  <2> QED BY <2>1, <2>2, Distinct DEF CreateClip, Records, AtHome
<1>4. CASE \E p \in Patchers, e \in Edits : PatchSaves(p, e)
  BY <1>4 DEF PatchSaves
<1>5. CASE \E n \in Names : \/ DeletesRecord(n) \/ SpoilsRecord(n) \/ RemovesDirectory(n)
                           \/ DeletesTranscript(n) \/ MigratesTranscript(n)
  BY <1>5, Distinct
  DEF DeletesRecord, SpoilsRecord, RemovesDirectory, NoDir, DeletesTranscript, MigratesTranscript,
      IInv, TypeOK, Dir
<1>6. CASE RenderComposes
  BY <1>6 DEF RenderComposes
<1>7. CASE \/ \E rows \in SourceLists : StartHarvest(rows)
           \/ \E p \in Patchers : PatchRefused(p) \/ \E n \in Names : PatchLoads(p, n)
           \/ \E n \in Names : RenderReads(n)
           \/ RenderUntranscribed \/ RenderEnds \/ UNCHANGED vars
  BY <1>7
  DEF StartHarvest, PatchRefused, PatchLoads, RenderReads, RenderUntranscribed, RenderEnds, vars
<1> QED BY <1>1, <1>2, <1>3, <1>4, <1>5, <1>6, <1>7 DEF Next

\* A moment's record is written over by itself and by nothing else.
LEMMA WindowStays ==
  ASSUME IInv, NEW c \in Clips, NEW hook \in Hooks, NEW r \in Records,
         WriteClip(c, hook, r), AtHome(r, c), r \in Moment => MayCreate(r.window),
         NEW n \in Names, dir[n].clip \in Moment
  PROVE  dir'[n].clip = dir[n].clip
<1>1. PICK t \in Names : t.clip = c /\ dir' = [dir EXCEPT ![t].clip = r]
  BY Written DEF IInv
<1>2. CASE n # t
  BY <1>1, <1>2 DEF IInv, TypeOK
<1>3. CASE n = t
  <2>1. AtHome(dir[n].clip, c)
    BY <1>1, <1>3 DEF IInv, RecordsAreAtHome
  <2>2. r \in Moment
    BY <2>1, HomesDiffer DEF Records, AtHome, IsHarvested, Harvested
  <2>3. n \in Occupied(ClipOf[r.window])
    BY <1>1, <1>3, <2>2, Distinct DEF Occupied, AtHome, Records
  <2>4. dir[n].clip.window = r.window
    BY <2>2, <2>3 DEF MayCreate
  <2>5. dir[n].clip = r
    <3>1. PICK v \in Windows : r = [url |-> None, window |-> v, failed |-> FALSE]
      BY <2>2 DEF Moment
    <3>2. PICK w \in Windows : dir[n].clip = [url |-> None, window |-> w, failed |-> FALSE]
      BY DEF Moment
    <3>3. v = w
      BY <2>4, <3>1, <3>2
    <3> QED BY <3>1, <3>2, <3>3, Zenon
  <2> QED BY <1>1, <2>5
<1> QED BY <1>2, <1>3

\* What a failure takes the place of has another row to come back from.
LEMMA FailureHasAnotherRow ==
  ASSUME IInv, NEW n \in Names, NEW entry \in harvest.todo, WriteEntry(entry),
         Good(dir[n].clip), ~Good(dir'[n].clip)
  PROVE  \E row \in harvest.rows :
           /\ row.url = dir[n].clip.url => row # entry.row
           /\ ClipAt[row.url] = n.clip
<1>1. /\ entry.row \in Rows /\ entry.record \in Records
      /\ entry.row \in harvest.rows
  BY DEF IInv, TypeOK, EntriesAreTheirRows, Records
<1>2. PICK t \in Names : t.clip = ClipAt[entry.row.url] /\ dir' = [dir EXCEPT ![t].clip = entry.record]
  <2>1. ClipAt[entry.row.url] \in Clips /\ entry.row.hook \in Hooks
    BY <1>1, Distinct DEF Rows
  <2> QED BY <1>1, <2>1, Written DEF IInv, WriteEntry
<1>3. n = t /\ ~Good(entry.record)
  BY <1>2 DEF IInv, TypeOK, Dir
<1>4. CASE entry.row.url # dir[n].clip.url
  BY <1>1, <1>2, <1>3, <1>4
<1>5. CASE entry.row.url = dir[n].clip.url
  <2>1. PICK row \in harvest.rows \ {entry.row} : row.url = entry.row.url
    BY <1>3, <1>5 DEF IInv, FailuresAreNew
  <2> QED BY <1>2, <1>3, <2>1
<1> QED BY <1>4, <1>5

----------------------------------------------------------------------------
(* The theorems *)

\* The inductive invariant of an event's clips: where records, transcripts and runs
\* belong, and what a harvest still owes.
THEOREM StoreInvariantHolds == Spec => []IInv
<1>1. Init => IInv
  BY InitHolds
<1>2. IInv /\ [Next]_vars => IInv'
  BY NextKeepsInv
<1> QED BY <1>1, <1>2, PTL DEF Spec

\* The store keeps the book: a clip is its identity, whatever its directory is called,
\* and its record and its edit are its own (clipstore._existing_dir, write_clip).
THEOREM StoreKeepsTheBook == Spec => KeepsTheBook
<1>1. Init => Book!BookInit
  <2> SUFFICES ASSUME Init PROVE Book!BookInit
    OBVIOUS
  <2>1. \A n \in Names : dir[n].clip = None /\ dir[n].edit = None
    BY DEF Init, NoDir
  <2>2. \A c \in Clips : Live(c) = {}
    BY <2>1, Distinct DEF Live, Readable
  <2>3. RecordOf = [c \in Clips |-> None] /\ DecisionOn = [c \in Clips |-> None]
    BY <2>2 DEF RecordOf, DecisionOn
  <2>4. Filed = [c \in Clips |-> {}]
    BY <2>1 DEF Filed
  <2> QED BY <2>3, <2>4 DEF Book!BookInit
<1>2. IInv /\ IInv' /\ [Next]_vars => [Book!BookNext]_(Book!bookVars)
  BY NextKeepsTheBook
<1> QED BY <1>1, <1>2, StoreInvariantHolds, PTL DEF Spec, KeepsTheBook, Book!BookSpec

\* A moment's identity is in one directory, readable or not (ClipIdentityUnreadable).
THEOREM AlwaysOneDirectoryPerMoment == Spec => []OneDirectoryPerMoment
<1>1. IInv => OneDirectoryPerMoment
  BY DEF IInv
<1> QED BY <1>1, StoreInvariantHolds, PTL

\* Captions are of the passage that is seen, or a note says otherwise
\* (transcript_source, effective_words).
THEOREM CaptionsAlwaysFitTheVideo == Spec => []CaptionsFitTheVideo
<1>1. IInv => CaptionsFitTheVideo
  BY DEF IInv
<1> QED BY <1>1, StoreInvariantHolds, PTL

\* The window of a moment never changes under its edit, its transcript and its short
\* (ClipIdentityCollision).
THEOREM MomentsAlwaysKeepTheirWindow == Spec => MomentsKeepTheirWindow
<1> DEFINE Keeps == \A n \in Names :
             LET before == dir[n].clip  after == dir'[n].clip IN
             before \in Moment /\ after \in Records => after = before
<1>1. IInv /\ [Next]_vars => Keeps
  BY RecordsComeFromWrites, WindowStays
<1>2. IInv /\ [Next]_vars => [Keeps]_dir
  BY <1>1
<1> QED BY <1>2, StoreInvariantHolds, PTL DEF Spec, MomentsKeepTheirWindow

\* A harvest puts a failure over a good record only where the list names the clip
\* again or by another url (cmd_harvest).
THEOREM GoodRecordsAlwaysStay == Spec => GoodRecordsStay
<1> DEFINE Stays == \A n \in Names, entry \in harvest.todo :
             WriteEntry(entry) /\ Good(dir[n].clip) /\ ~Good(dir'[n].clip) =>
               \E row \in harvest.rows :
                 /\ row.url = dir[n].clip.url => row # entry.row
                 /\ ClipAt[row.url] = n.clip
<1>1. IInv => [Stays]_vars
  BY FailureHasAnotherRow
<1> QED BY <1>1, StoreInvariantHolds, PTL DEF GoodRecordsStay

=============================================================================
