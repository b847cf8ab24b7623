---------------------------- MODULE StreamProofs ----------------------------
(* Theorems about Stream, for any events, glossaries, questions, chunk     *)
(* length and finite set of stream lengths.                                *)
EXTENDS Stream, FiniteSetTheorems, TLAPS

-----------------------------------------------------------------------------
(* The inductive invariant *)

\* The units a run is through with, of those it has to go through.
Behind(S, n) == {i \in S : i < n}

\* A run that transcribes knows its stream and its corrections, and has accounted
\* for every chunk behind it, uncorrected and at its full length.
Transcribing(r) ==
  /\ r.at \in {"download", "chunk", "decode"} =>
       /\ r.glossary \in Glossaries
       /\ r.kind # "transcribe" => r.of \in Questions
  /\ r.at = "download" => r.next = 0 /\ r.words = NoWords /\ r.missing = {}
  /\ r.at \in {"chunk", "decode"} =>
       /\ r.duration \in Lengths
       /\ Known(r.words) \cup r.missing = Behind(ChunksOf(r.duration), r.next)
       /\ Known(r.words) \cap r.missing = {}
       /\ \A i \in Known(r.words) :
            r.words[i].length = LengthOf(i, r.duration) /\ r.words[i].corrected = {}
  /\ r.at = "decode" => r.next \in ChunksOf(r.duration)

\* A run that scans has one question, and every window behind it is scored by the
\* answer to that question or failed.
Detecting(r) ==
  /\ r.at \in {"read", "window", "ask"} => r.of \in Questions
  /\ r.at = "write" => r.of = None
  /\ r.at \in {"window", "ask"} =>
       /\ Known(r.scored) \cup r.failed = Behind(WindowsOf(r.words), r.next)
       /\ \A w \in Known(r.scored) : r.scored[w] = [of |-> r.of, words |-> r.words]
  /\ r.at = "ask" => r.next \in WindowsOf(r.words)

RunsAccount == \A e \in Events : run[e] # None => Transcribing(run[e]) /\ Detecting(run[e])

IInv ==
  /\ StreamTypeOK
  /\ RunsAccount
  /\ TranscriptCoversItsStream
  /\ CorrectedByOneGlossary
  /\ AnalysisAnswersOneQuestion
  /\ answered = windows

-----------------------------------------------------------------------------
(* Lemmas about chunks, windows and what is known of them *)

\* Every chunk has a length a cached chunk may have.
LEMMA ChunkHasLength ==
  ASSUME NEW d \in Lengths, NEW i \in ChunksOf(d)
  PROVE  i \in Indices /\ i \in Nat /\ LengthOf(i, d) \in 1..ChunkSeconds
<1> DEFINE s == i * ChunkSeconds
<1>1. i \in Indices
  BY DEF Indices
<1>2. d \in Nat /\ i \in Nat /\ ChunkSeconds \in Nat \ {0} /\ s < d
  BY StreamAssumption DEF ChunksOf
<1>3. s \in Nat /\ (i + 1) * ChunkSeconds = s + ChunkSeconds
  BY <1>2
<1>4. LengthOf(i, d) = IF s + ChunkSeconds <= d THEN ChunkSeconds ELSE d - s
  BY <1>3 DEF LengthOf
<1> HIDE DEF s
<1> QED BY <1>1, <1>2, <1>3, <1>4

\* A run that has passed the last chunk has passed all of them.
LEMMA PastTheLastChunk ==
  ASSUME NEW d \in Lengths, NEW n \in Nat, n \notin ChunksOf(d)
  PROVE  Behind(ChunksOf(d), n) = ChunksOf(d)
<1> SUFFICES ASSUME NEW i \in ChunksOf(d), ~(i < n) PROVE FALSE
  BY DEF Behind
<1>1. d \in Nat /\ i \in Nat /\ i <= d /\ ChunkSeconds \in Nat /\ i * ChunkSeconds < d
  BY StreamAssumption DEF ChunksOf
<1>2. n <= i /\ n \in 0..d
  BY <1>1
<1>3. i * ChunkSeconds = n * ChunkSeconds + (i - n) * ChunkSeconds /\ (i - n) * ChunkSeconds >= 0
  BY <1>1, <1>2
<1>4. n * ChunkSeconds < d
  BY <1>1, <1>2, <1>3
<1> QED BY <1>2, <1>4 DEF ChunksOf

\* There are finitely many chunks, and so windows.
LEMMA ChunksAreFinite == IsFiniteSet(Indices) /\ Cardinality(Indices) \in Nat
<1> DEFINE T == {ChunksOf(d) : d \in Lengths}
           f == [d \in Lengths |-> ChunksOf(d)]
<1>1. f \in Surjection(Lengths, T)
  BY DEF Surjection
<1>2. IsFiniteSet(T)
  BY <1>1, FS_Surjection, StreamAssumption
<1>3. \A S \in T : IsFiniteSet(S)
  <2> SUFFICES ASSUME NEW d \in Lengths PROVE IsFiniteSet(ChunksOf(d))
    OBVIOUS
  <2>1. d \in Int /\ IsFiniteSet(0..d)
    BY FS_Interval, StreamAssumption
  <2> QED BY <2>1, FS_Subset DEF ChunksOf
<1>4. IsFiniteSet(UNION T)
  BY <1>2, <1>3, FS_UNION
<1> QED BY <1>4, FS_CardinalityType DEF Indices

\* A run that has passed the last window has passed all of them.
LEMMA PastTheLastWindow ==
  ASSUME NEW words \in Words, NEW n \in Nat, n \notin WindowsOf(words)
  PROVE  Behind(WindowsOf(words), n) = WindowsOf(words)
<1>1. Known(words) \in SUBSET Indices
  BY DEF Known, Words
<1>2. Cardinality(Known(words)) \in Nat /\ Cardinality(Indices) \in Nat
  BY <1>1, ChunksAreFinite, FS_Subset, FS_CardinalityType
<1> QED BY <1>2 DEF Behind, WindowsOf, Windows

\* One unit more is behind.
LEMMA OneMoreBehind ==
  ASSUME NEW S, S \subseteq Nat, NEW n \in S
  PROVE  Behind(S, n + 1) = Behind(S, n) \cup {n} /\ n \notin Behind(S, n)
<1>1. \A i \in S : i < n + 1 <=> i < n \/ i = n
  OBVIOUS
<1>2. ~(n < n)
  OBVIOUS
<1> QED BY <1>1, <1>2 DEF Behind

\* What becomes known with a value.
LEMMA KnowsOneMore ==
  ASSUME NEW f, NEW i \in DOMAIN f, NEW x, x # None
  PROVE  /\ Known([f EXCEPT ![i] = x]) = Known(f) \cup {i}
         /\ [f EXCEPT ![i] = x][i] = x
         /\ \A j \in Known(f) \ {i} : [f EXCEPT ![i] = x][j] = f[j]
BY DEF Known

\* Nothing is known at first.
LEMMA NothingIsKnown == Known(NoWords) = {} /\ Known(NoAnswers) = {}
BY DEF Known, NoWords, NoAnswers

\* A correction changes no word's place or length.
LEMMA CorrectionsKeepPlace ==
  ASSUME NEW words \in Words, NEW g \in Glossaries
  PROVE  /\ Corrected(words, g) \in Words
         /\ Known(Corrected(words, g)) = Known(words)
         /\ \A i \in Known(words) : /\ Corrected(words, g)[i].length = words[i].length
                                    /\ Corrected(words, g)[i].corrected
                                         = words[i].corrected \cup {g}
<1>1. \A i \in Known(words) : words[i] \in Text /\ i \in Indices
  BY DEF Known, Words
<1>2. \A i \in Known(words) :
        /\ Corrected(words, g)[i] \in Text
        /\ Corrected(words, g)[i].length = words[i].length
        /\ Corrected(words, g)[i].corrected = words[i].corrected \cup {g}
  BY <1>1 DEF Corrected, Known, Text
<1>3. \A i \in Indices \ Known(words) : Corrected(words, g)[i] = None
  BY DEF Corrected, Known, Words
<1>4. DOMAIN Corrected(words, g) = Indices /\ Known(words) \subseteq Indices
  BY DEF Corrected, Known, Words
<1>5. Known(Corrected(words, g)) = Known(words)
  BY <1>2, <1>3, <1>4, StreamAssumption DEF Known
<1>6. Corrected(words, g) \in Words
  BY <1>2, <1>3, <1>4 DEF Words, Corrected
<1> QED BY <1>2, <1>5, <1>6

-----------------------------------------------------------------------------
(* Lemmas about a run that goes on *)

\* A run that accounts for itself, and none at all, may follow on any other.
LEMMA RunChanges ==
  ASSUME StreamTypeOK, RunsAccount, NEW e \in Events, NEW r,
         r = None \/ (r \in Run /\ Transcribing(r) /\ Detecting(r)),
         Becomes(e, r)
  PROVE  run' \in [Events -> Run \cup {None}] /\ RunsAccount'
BY DEF StreamTypeOK, RunsAccount, Becomes

\* A run that has ended.
LEMMA RunEnds ==
  ASSUME StreamTypeOK, RunsAccount, NEW e \in Events, Ends(e)
  PROVE  /\ run' \in [Events -> Run \cup {None}] /\ RunsAccount'
         /\ lock' \in Events \cup {None}
BY DEF StreamTypeOK, RunsAccount, Ends, Unlocked

\* What the run of an event is.
LEMMA RunIsTyped ==
  ASSUME StreamTypeOK, RunsAccount, NEW e \in Events, run[e] # None
  PROVE  run[e] \in Run /\ Transcribing(run[e]) /\ Detecting(run[e])
BY DEF StreamTypeOK, RunsAccount

\* A new run accounts for nothing yet.
LEMMA NewRunAccounts ==
  ASSUME NEW kind \in {"transcribe", "detect", "both"}, NEW at \in {"download", "read", "write"},
         NEW g \in Glossaries \cup {None}, NEW q \in Questions \cup {None},
         at = "download" => g \in Glossaries /\ (kind # "transcribe" => q \in Questions),
         at = "read" => q \in Questions, at = "write" => q = None
  PROVE  LET r == NewRun(kind, at, g, q)
         IN r \in Run /\ Transcribing(r) /\ Detecting(r)
<1> DEFINE r == NewRun(kind, at, g, q)
<1>1. NoWords \in Words /\ NoAnswers \in [Windows -> Question \cup {None}]
  BY DEF NoWords, NoAnswers, Words
<1>2. r \in Run
  BY <1>1 DEF NewRun, Run
<1>3. Transcribing(r) /\ Detecting(r)
  BY DEF NewRun, Transcribing, Detecting
<1> QED BY <1>2, <1>3

\* A run that looks at a chunk stays well-formed whichever way the chunk is
\* accounted for: as words of its length, or as missing.
LEMMA NextChunkAccounts ==
  ASSUME NEW r \in Run, Transcribing(r), r.at \in {"chunk", "decode"},
         r.next \in ChunksOf(r.duration), NEW words, NEW missing,
         \/ /\ \E x \in Text : /\ x.length = LengthOf(r.next, r.duration) /\ x.corrected = {}
                             /\ words = [r.words EXCEPT ![r.next] = x]
            /\ missing = r.missing
         \/ words = r.words /\ missing = r.missing \cup {r.next}
  PROVE  LET s == [r EXCEPT !.at = "chunk", !.next = @ + 1, !.words = words, !.missing = missing]
         IN s \in Run /\ Transcribing(s) /\ Detecting(s)
<1> DEFINE s == [r EXCEPT !.at = "chunk", !.next = @ + 1, !.words = words, !.missing = missing]
           S == ChunksOf(r.duration)
<1>1. /\ r.duration \in Lengths /\ r.words \in Words /\ r.missing \subseteq Indices
      /\ r.glossary \in Glossaries /\ (r.kind # "transcribe" => r.of \in Questions)
      /\ Known(r.words) \cup r.missing = Behind(S, r.next)
      /\ Known(r.words) \cap r.missing = {}
      /\ \A i \in Known(r.words) :
           r.words[i].length = LengthOf(i, r.duration) /\ r.words[i].corrected = {}
  BY DEF Transcribing, Run
<1>2. r.next \in Indices /\ r.next \in Nat /\ S \subseteq Nat
  BY <1>1, ChunkHasLength
<1>3. Behind(S, r.next + 1) = Behind(S, r.next) \cup {r.next} /\ r.next \notin Behind(S, r.next)
  BY <1>2, OneMoreBehind
<1>4. /\ words \in Words /\ missing \subseteq Indices
      /\ Known(words) \cup missing = Behind(S, r.next + 1)
      /\ Known(words) \cap missing = {}
      /\ \A i \in Known(words) : words[i].length = LengthOf(i, r.duration) /\ words[i].corrected = {}
  <2>1. CASE words = r.words /\ missing = r.missing \cup {r.next}
    BY <1>1, <1>2, <1>3, <2>1
  <2>2. CASE /\ \E x \in Text : /\ x.length = LengthOf(r.next, r.duration) /\ x.corrected = {}
                              /\ words = [r.words EXCEPT ![r.next] = x]
             /\ missing = r.missing
    <3>1. PICK x \in Text : /\ x.length = LengthOf(r.next, r.duration) /\ x.corrected = {}
                            /\ words = [r.words EXCEPT ![r.next] = x]
      BY <2>2
    <3>2. x # None /\ r.next \in DOMAIN r.words
      BY <1>1, <1>2, StreamAssumption DEF Words
    <3>3. /\ Known(words) = Known(r.words) \cup {r.next} /\ words[r.next] = x
          /\ \A j \in Known(r.words) \ {r.next} : words[j] = r.words[j]
      BY <3>1, <3>2, KnowsOneMore
    <3>4. words \in Words
      BY <3>1, <1>1, <1>2 DEF Words
    <3> QED BY <1>1, <1>3, <2>2, <3>1, <3>3, <3>4
  <2> QED BY <2>1, <2>2
<1>5. s \in Run /\ s.at = "chunk" /\ s.glossary = r.glossary /\ s.kind = r.kind /\ s.of = r.of
      /\ s.duration = r.duration /\ s.next = r.next + 1 /\ s.words = words /\ s.missing = missing
  <2>1. r.next + 1 \in Nat
    BY <1>2
  <2>2. s = [r EXCEPT !.at = "chunk", !.next = r.next + 1, !.words = words, !.missing = missing]
    OBVIOUS
  <2> HIDE DEF s
  <2> QED BY <1>4, <2>1, <2>2 DEF Run
<1>6. Transcribing(s)
  BY <1>1, <1>4, <1>5 DEF Transcribing
<1>7. Detecting(s)
  BY <1>5 DEF Detecting
<1> QED BY <1>5, <1>6, <1>7

\* So does one that looks at a window: scored by the answer to the run's
\* question, or failed.
LEMMA NextWindowAccounts ==
  ASSUME NEW r \in Run, Detecting(r), r.at \in {"window", "ask"},
         r.next \in WindowsOf(r.words), NEW scored, NEW failed,
         \/ /\ scored = [r.scored EXCEPT ![r.next] = [of |-> r.of, words |-> r.words]]
            /\ failed = r.failed
         \/ scored = r.scored /\ failed = r.failed \cup {r.next}
  PROVE  LET s == [r EXCEPT !.at = "window", !.next = @ + 1, !.scored = scored, !.failed = failed]
         IN s \in Run /\ Transcribing(s) /\ Detecting(s)
<1> DEFINE s == [r EXCEPT !.at = "window", !.next = @ + 1, !.scored = scored, !.failed = failed]
           S == WindowsOf(r.words)
           x == [of |-> r.of, words |-> r.words]
<1>1. /\ r.scored \in [Windows -> Question \cup {None}] /\ r.failed \subseteq Windows
      /\ r.of \in Questions /\ r.words \in Words
      /\ Known(r.scored) \cup r.failed = Behind(S, r.next)
      /\ \A w \in Known(r.scored) : r.scored[w] = x
  BY DEF Detecting, Run
<1>2. r.next \in Windows /\ r.next \in Nat /\ S \subseteq Nat
  BY DEF WindowsOf, Windows
<1>3. Behind(S, r.next + 1) = Behind(S, r.next) \cup {r.next}
  BY <1>2, OneMoreBehind
<1>4. x \in Question /\ x # None
  BY <1>1, StreamAssumption DEF Question
<1>5. /\ scored \in [Windows -> Question \cup {None}] /\ failed \subseteq Windows
      /\ Known(scored) \cup failed = Behind(S, r.next + 1)
      /\ \A w \in Known(scored) : scored[w] = x
  <2>1. CASE scored = r.scored /\ failed = r.failed \cup {r.next}
    BY <1>1, <1>2, <1>3, <2>1
  <2>2. CASE scored = [r.scored EXCEPT ![r.next] = x] /\ failed = r.failed
    <3> HIDE DEF x
    <3>1. /\ Known(scored) = Known(r.scored) \cup {r.next} /\ scored[r.next] = x
          /\ \A j \in Known(r.scored) \ {r.next} : scored[j] = r.scored[j]
      BY <1>1, <1>2, <1>4, <2>2, KnowsOneMore
    <3> QED BY <1>1, <1>2, <1>3, <1>4, <2>2, <3>1
  <2> QED BY <2>1, <2>2
<1>6. s \in Run /\ s.at = "window" /\ s.of = r.of /\ s.words = r.words /\ s.next = r.next + 1
      /\ s.scored = scored /\ s.failed = failed
  <2>1. r.next + 1 \in Nat
    BY <1>2
  <2>2. s = [r EXCEPT !.at = "window", !.next = r.next + 1, !.scored = scored, !.failed = failed]
    OBVIOUS
  <2> HIDE DEF s
  <2> QED BY <1>5, <2>1, <2>2 DEF Run
<1>7. Transcribing(s)
  BY <1>6 DEF Transcribing
<1>8. Detecting(s)
  BY <1>1, <1>5, <1>6 DEF Detecting
<1> QED BY <1>6, <1>7, <1>8

\* A scan that begins is well-formed.
LEMMA ScanAccounts ==
  ASSUME StreamTypeOK, RunsAccount, NEW e \in Events, run[e] # None, run[e].of \in Questions,
         NEW words \in Words, Scans(e, words)
  PROVE  run' \in [Events -> Run \cup {None}] /\ RunsAccount'
<1> DEFINE n == NewRun(run[e].kind, "window", None, run[e].of)
           s == [n EXCEPT !.stop = run[e].stop, !.words = words]
           t == NewRun(run[e].kind, "write", None, None)
<1>1. run[e] \in Run
  BY RunIsTyped
<1>2. run[e].kind \in {"transcribe", "detect", "both"} /\ run[e].stop \in {"no", "stop", "kill"}
  BY <1>1 DEF Run
<1>3. CASE Becomes(e, t)
  BY <1>2, <1>3, NewRunAccounts, RunChanges
<1>4. CASE Becomes(e, s)
  <2>1. NoWords \in Words /\ NoAnswers \in [Windows -> Question \cup {None}]
    BY DEF NoWords, NoAnswers, Words
  <2>2. n \in Run
    BY <1>2, <2>1 DEF NewRun, Run
  <2>3. /\ s \in Run /\ s.at = "window" /\ s.of = run[e].of /\ s.words = words /\ s.next = 0
        /\ s.scored = NoAnswers /\ s.failed = {}
    BY <1>2, <2>2 DEF NewRun, Run
  <2>4. Behind(WindowsOf(words), 0) = {}
    BY DEF Behind, WindowsOf, Windows
  <2>5. Transcribing(s) /\ Detecting(s)
    BY <2>3, <2>4, NothingIsKnown DEF Transcribing, Detecting
  <2> QED BY <1>4, <2>3, <2>5, RunChanges
<1> QED BY <1>3, <1>4 DEF Scans

-----------------------------------------------------------------------------
(* Every step keeps the invariant, one part at a time *)

\* The runs account for what is behind them.
LEMMA StepKeepsRuns ==
  IInv /\ Next => run' \in [Events -> Run \cup {None}] /\ RunsAccount'
<1> DEFINE Kept == run' \in [Events -> Run \cup {None}] /\ RunsAccount'
<1> SUFFICES ASSUME StreamTypeOK, RunsAccount, Next PROVE Kept
  BY DEF IInv
<1>1. CASE Grows
  BY <1>1 DEF Grows, StreamTypeOK, RunsAccount
<1>2. SUFFICES ASSUME NEW e \in Events,
                      \/ Starts(e) \/ TranscribeStep(e) \/ DetectStep(e) \/ BreaksOff(e)
                      \/ \E stop \in {"stop", "kill"} : AskedToStop(e, stop)
               PROVE  Kept
  BY <1>1 DEF Next
<1>3. ASSUME NEW g \in Glossaries, TranscribeStarts(e, g) PROVE Kept
  BY <1>3, NewRunAccounts, RunChanges DEF TranscribeStarts
<1>4. ASSUME NEW q \in Questions, DetectStarts(e, q) PROVE Kept
  BY <1>4, NewRunAccounts, RunChanges DEF DetectStarts
<1>5. ASSUME NEW g \in Glossaries, NEW q \in Questions, CliDetectStarts(e, g, q) PROVE Kept
  BY <1>5, NewRunAccounts, RunChanges DEF CliDetectStarts
<1>6. CASE Ends(e)
  BY <1>6, RunEnds
<1>7. ASSUME NEW stop \in {"stop", "kill"}, AskedToStop(e, stop) PROVE Kept
  <2> DEFINE r == run[e]
             s == [r EXCEPT !.stop = stop]
  <2>1. r \in Run /\ Transcribing(r) /\ Detecting(r) /\ Becomes(e, s)
    BY <1>7, RunIsTyped DEF AskedToStop
  <2>2. /\ s \in Run /\ s.at = r.at /\ s.kind = r.kind /\ s.glossary = r.glossary /\ s.of = r.of
        /\ s.next = r.next /\ s.duration = r.duration /\ s.words = r.words
        /\ s.missing = r.missing /\ s.scored = r.scored /\ s.failed = r.failed
    BY <2>1 DEF Run
  <2>3. Transcribing(s) /\ Detecting(s)
    BY <2>1, <2>2 DEF Transcribing, Detecting
  <2> QED BY <2>1, <2>2, <2>3, RunChanges
<1>8. CASE Downloads(e)
  <2> DEFINE r == run[e]
             s == [r EXCEPT !.at = "chunk", !.duration = length]
  <2>1. r \in Run /\ Transcribing(r) /\ r.at = "download" /\ Becomes(e, s) /\ length \in Lengths
    BY <1>8, RunIsTyped DEF Downloads, At, StreamTypeOK
  <2>2. /\ s \in Run /\ s.at = "chunk" /\ s.duration = length /\ s.kind = r.kind
        /\ s.glossary = r.glossary /\ s.of = r.of /\ s.next = 0
        /\ s.words = NoWords /\ s.missing = {}
    BY <2>1 DEF Run, Transcribing
  <2>3. Behind(ChunksOf(length), 0) = {}
    BY DEF Behind, ChunksOf
  <2>4. Transcribing(s) /\ Detecting(s)
    BY <2>1, <2>2, <2>3, NothingIsKnown DEF Transcribing, Detecting
  <2> QED BY <2>1, <2>2, <2>4, RunChanges
<1>9. CASE TakesCachedChunk(e)
  <2> DEFINE r == run[e]
             words == [r.words EXCEPT ![r.next] = chunks[r.next]]
             missing == r.missing
             s == [r EXCEPT !.at = "chunk", !.next = @ + 1, !.words = words, !.missing = missing]
  <2>1. r \in Run /\ Transcribing(r) /\ r.at \in {"chunk", "decode"} /\ Becomes(e, s)
    BY <1>9, RunIsTyped DEF TakesCachedChunk, AtChunk, At, NextChunk
  <2>2. r.next \in ChunksOf(r.duration)
    BY <1>9, <2>1 DEF TakesCachedChunk, AtChunk, At, Transcribing
  <2>3. chunks[r.next] \in Text /\ chunks[r.next].corrected = {}
          /\ chunks[r.next].length = LengthOf(r.next, r.duration)
    BY <1>9, <2>1, <2>2, ChunkHasLength DEF TakesCachedChunk, Cached, StreamTypeOK, Text, Transcribing
  <2> QED BY <2>1, <2>2, <2>3, NextChunkAccounts, RunChanges
<1>10. CASE StartsDecoding(e)
  <2> DEFINE r == run[e]
             s == [r EXCEPT !.at = "decode"]
  <2>1. r \in Run /\ Transcribing(r) /\ Detecting(r) /\ Becomes(e, s)
          /\ r.at = "chunk" /\ r.next \in ChunksOf(r.duration)
    BY <1>10, RunIsTyped DEF StartsDecoding, AtChunk, AtWindow, At
  <2>2. /\ s \in Run /\ s.at = "decode" /\ s.kind = r.kind /\ s.glossary = r.glossary /\ s.of = r.of
        /\ s.next = r.next /\ s.duration = r.duration /\ s.words = r.words
        /\ s.missing = r.missing /\ s.scored = r.scored /\ s.failed = r.failed
    BY <2>1 DEF Run
  <2>3. Transcribing(s) /\ Detecting(s)
    BY <2>1, <2>2 DEF Transcribing, Detecting
  <2> QED BY <2>1, <2>2, <2>3, RunChanges
<1>11. CASE Decodes(e)
  <2> DEFINE r == run[e]
             words == [r.words EXCEPT ![r.next] = Heard(e)]
             missing == r.missing
             s == [r EXCEPT !.at = "chunk", !.next = @ + 1, !.words = words, !.missing = missing]
  <2>1. r \in Run /\ Transcribing(r) /\ r.at \in {"chunk", "decode"} /\ Becomes(e, s)
    BY <1>11, RunIsTyped DEF Decodes, AtChunk, At, NextChunk
  <2>2. r.next \in ChunksOf(r.duration)
    BY <1>11, <2>1 DEF Decodes, AtChunk, At, Transcribing
  <2>3. Heard(e) \in Text /\ Heard(e).corrected = {} /\ Heard(e).length = LengthOf(r.next, r.duration)
    BY <2>1, <2>2, ChunkHasLength DEF Heard, Text, Transcribing
  <2> QED BY <2>1, <2>2, <2>3, NextChunkAccounts, RunChanges
<1>12. CASE DecodeFails(e)
  <2> DEFINE r == run[e]
             words == r.words
             missing == r.missing \cup {r.next}
             s == [r EXCEPT !.at = "chunk", !.next = @ + 1, !.words = words, !.missing = missing]
  <2>1. r \in Run /\ Transcribing(r) /\ r.at \in {"chunk", "decode"} /\ Becomes(e, s)
    BY <1>12, RunIsTyped DEF DecodeFails, AtChunk, At, NextChunk
  <2>2. r.next \in ChunksOf(r.duration)
    BY <1>12, <2>1 DEF DecodeFails, AtChunk, At, Transcribing
  <2>3. words = r.words /\ missing = r.missing \cup {r.next}
    OBVIOUS
  <2> QED BY <2>1, <2>2, <2>3, NextChunkAccounts, RunChanges
<1>13. CASE Assembles(e)
  <2> DEFINE r == run[e]
             words == Corrected(r.words, r.glossary)
  <2>1. r \in Run /\ Transcribing(r) /\ r.at = "chunk" /\ r # None
    BY <1>13, RunIsTyped DEF Assembles, At
  <2>2. words \in Words
    BY <2>1, CorrectionsKeepPlace DEF Run, Transcribing
  <2>3. Ends(e) \/ (r.kind # "transcribe" /\ Scans(e, words))
    BY <1>13 DEF Assembles
  <2> QED BY <2>1, <2>2, <2>3, ScanAccounts, RunEnds DEF Transcribing
<1>14. CASE ReadsTranscript(e)
  <2>1. run[e] # None /\ run[e].of \in Questions
    BY <1>14, RunIsTyped DEF ReadsTranscript, At, Detecting
  <2>2. transcript.words \in Words /\ Scans(e, transcript.words)
    BY <1>14 DEF ReadsTranscript, StreamTypeOK, Transcript
  <2> QED BY <2>1, <2>2, ScanAccounts
<1>15. CASE TakesCachedWindow(e)
  <2> DEFINE r == run[e]
             scored == [r.scored EXCEPT ![r.next] = [of |-> r.of, words |-> r.words]]
             failed == r.failed
             s == [r EXCEPT !.at = "window", !.next = @ + 1, !.scored = scored, !.failed = failed]
  <2>1. r \in Run /\ Detecting(r) /\ r.at \in {"window", "ask"} /\ Becomes(e, s)
    BY <1>15, RunIsTyped DEF TakesCachedWindow, AtWindow, At, NextWindow, Scored, Asked
  <2>2. r.next \in WindowsOf(r.words)
    BY <1>15, <2>1 DEF TakesCachedWindow, AtWindow, At, Detecting
  <2> QED BY <2>1, <2>2, NextWindowAccounts, RunChanges
<1>16. CASE AsksModel(e)
  <2> DEFINE r == run[e]
             s == [r EXCEPT !.at = "ask"]
  <2>1. r \in Run /\ Transcribing(r) /\ Detecting(r) /\ Becomes(e, s)
          /\ r.at = "window" /\ r.next \in WindowsOf(r.words)
    BY <1>16, RunIsTyped DEF AsksModel, AtChunk, AtWindow, At
  <2>2. /\ s \in Run /\ s.at = "ask" /\ s.kind = r.kind /\ s.glossary = r.glossary /\ s.of = r.of
        /\ s.next = r.next /\ s.duration = r.duration /\ s.words = r.words
        /\ s.missing = r.missing /\ s.scored = r.scored /\ s.failed = r.failed
    BY <2>1 DEF Run
  <2>3. Transcribing(s) /\ Detecting(s)
    BY <2>1, <2>2 DEF Transcribing, Detecting
  <2> QED BY <2>1, <2>2, <2>3, RunChanges
<1>17. CASE ModelAnswers(e) \/ ModelAnswersUnkept(e)
  <2> DEFINE r == run[e]
             scored == [r.scored EXCEPT ![r.next] = [of |-> r.of, words |-> r.words]]
             failed == r.failed
             s == [r EXCEPT !.at = "window", !.next = @ + 1, !.scored = scored, !.failed = failed]
  <2>1. r \in Run /\ Detecting(r) /\ r.at \in {"window", "ask"} /\ Becomes(e, s)
    BY <1>17, RunIsTyped DEF ModelAnswers, ModelAnswersUnkept, AtWindow, At, NextWindow, Asked
  <2>2. r.next \in WindowsOf(r.words)
    BY <1>17, <2>1 DEF ModelAnswers, ModelAnswersUnkept, AtWindow, At, Detecting
  <2> QED BY <2>1, <2>2, NextWindowAccounts, RunChanges
<1>18. CASE ModelFails(e)
  <2> DEFINE r == run[e]
             scored == r.scored
             failed == r.failed \cup {r.next}
             s == [r EXCEPT !.at = "window", !.next = @ + 1, !.scored = scored, !.failed = failed]
  <2>1. r \in Run /\ Detecting(r) /\ r.at \in {"window", "ask"} /\ Becomes(e, s)
    BY <1>18, RunIsTyped DEF ModelFails, AtWindow, At, NextWindow
  <2>2. r.next \in WindowsOf(r.words)
    BY <1>18, <2>1 DEF ModelFails, AtWindow, At, Detecting
  <2> QED BY <2>1, <2>2, NextWindowAccounts, RunChanges
<1>19. StopsAtChunk(e) \/ DecodeIsKilled(e) \/ DownloadFails(e) \/ FindsNoTranscript(e)
         \/ StopsAtWindow(e) \/ WritesAnalysis(e) \/ BreaksOff(e) => Ends(e)
  BY DEF StopsAtChunk, DecodeIsKilled, DownloadFails, FindsNoTranscript, StopsAtWindow,
         WritesAnalysis, BreaksOff
<1> QED
  BY <1>2, <1>3, <1>4, <1>5, <1>6, <1>7, <1>8, <1>9, <1>10, <1>11, <1>12, <1>13, <1>14, <1>15,
     <1>16, <1>17, <1>18, <1>19 DEF Starts, TranscribeStep, DetectStep

\* The files keep their types.
LEMMA StepKeepsFiles ==
  IInv /\ Next =>
    /\ length' \in Lengths /\ lock' \in Events \cup {None}
    /\ chunks' \in [Indices -> [length : 1..ChunkSeconds, corrected : {{}}] \cup {None}]
    /\ windows' \in [Windows -> Question \cup {None}] /\ answered' = windows'
    /\ transcript' \in Transcript \cup {None} /\ analysis' \in Analysis \cup {None}
<1> SUFFICES ASSUME StreamTypeOK, RunsAccount, answered = windows, Next
             PROVE  /\ length' \in Lengths /\ lock' \in Events \cup {None}
                    /\ chunks' \in [Indices -> [length : 1..ChunkSeconds, corrected : {{}}] \cup {None}]
                    /\ windows' \in [Windows -> Question \cup {None}] /\ answered' = windows'
                    /\ transcript' \in Transcript \cup {None} /\ analysis' \in Analysis \cup {None}
  BY DEF IInv
<1>1. length' \in Lengths
  BY DEF StreamTypeOK, Next, Grows, Starts, TranscribeStarts, DetectStarts, CliDetectStarts,
         TranscribeStep, DetectStep, AskedToStop, BreaksOff, Downloads, DownloadFails, StopsAtChunk,
         TakesCachedChunk, StartsDecoding, Decodes, DecodeFails, DecodeIsKilled, Assembles,
         ReadsTranscript, FindsNoTranscript, StopsAtWindow, TakesCachedWindow, AsksModel,
         ModelAnswers, ModelAnswersUnkept, ModelFails, WritesAnalysis
<1>2. lock' \in Events \cup {None}
  BY DEF StreamTypeOK, Next, Grows, Starts, TranscribeStarts, DetectStarts, CliDetectStarts,
         TranscribeStep, DetectStep, AskedToStop, BreaksOff, Downloads, DownloadFails, StopsAtChunk,
         TakesCachedChunk, StartsDecoding, Decodes, DecodeFails, DecodeIsKilled, Assembles,
         ReadsTranscript, FindsNoTranscript, StopsAtWindow, TakesCachedWindow, AsksModel,
         ModelAnswers, ModelAnswersUnkept, ModelFails, WritesAnalysis, Ends, Unlocked
<1>3. CASE \E e \in Events : Decodes(e)
  <2>1. PICK e \in Events : Decodes(e)
    BY <1>3
  <2>2. /\ run[e] \in Run /\ Transcribing(run[e]) /\ run[e].at = "decode"
        /\ run[e].duration \in Lengths /\ run[e].next \in ChunksOf(run[e].duration)
    BY <2>1, RunIsTyped DEF Decodes, At, Transcribing
  <2>3. Heard(e) \in [length : 1..ChunkSeconds, corrected : {{}}]
    BY <2>2, ChunkHasLength DEF Heard
  <2> QED BY <1>1, <1>2, <2>1, <2>3 DEF Decodes, StreamTypeOK
<1>4. CASE \E e \in Events : ModelAnswers(e)
  <2>1. PICK e \in Events : ModelAnswers(e)
    BY <1>4
  <2>2. run[e] \in Run /\ run[e].at = "ask" /\ run[e].of \in Questions
    BY <2>1, RunIsTyped DEF ModelAnswers, At, Detecting
  <2>3. Asked(e) \in Question
    BY <2>2 DEF Asked, Question, Run
  <2> QED BY <1>1, <1>2, <2>1, <2>3 DEF ModelAnswers, Puts, StreamTypeOK
<1>5. CASE \E e \in Events : Assembles(e)
  <2>1. PICK e \in Events : Assembles(e)
    BY <1>5
  <2>2. /\ run[e] \in Run /\ Transcribing(run[e]) /\ run[e].at = "chunk"
        /\ run[e].duration \in Lengths /\ run[e].glossary \in Glossaries
    BY <2>1, RunIsTyped DEF Assembles, At, Transcribing
  <2>3. Corrected(run[e].words, run[e].glossary) \in Words /\ run[e].missing \subseteq Indices
    BY <2>2, CorrectionsKeepPlace DEF Run
  <2>4. transcript' \in Transcript
    BY <2>1, <2>2, <2>3 DEF Assembles, Transcript
  <2> QED BY <1>1, <1>2, <2>1, <2>4 DEF Assembles, StreamTypeOK
<1>6. CASE \E e \in Events : WritesAnalysis(e)
  <2>1. PICK e \in Events : WritesAnalysis(e)
    BY <1>6
  <2>2. /\ run[e] \in Run /\ Detecting(run[e]) /\ run[e].at \in {"write", "window"}
    BY <2>1, RunIsTyped DEF WritesAnalysis, ScanEnds, At
  <2>3. run[e].of # None => Asked(e) \in Question
    BY <2>2 DEF Asked, Question, Run, Detecting
  <2>4. analysis' \in Analysis
    BY <2>1, <2>2, <2>3 DEF WritesAnalysis, Analysis, Run
  <2> QED BY <1>1, <1>2, <2>1, <2>4 DEF WritesAnalysis, StreamTypeOK
<1>7. CASE ~\E e \in Events : Decodes(e) \/ ModelAnswers(e) \/ Assembles(e) \/ WritesAnalysis(e)
  <2>1. UNCHANGED <<kept, answered>>
    BY <1>7 DEF Next, Grows, Starts, TranscribeStarts, DetectStarts, CliDetectStarts,
         TranscribeStep, DetectStep, AskedToStop, BreaksOff, Downloads, DownloadFails, StopsAtChunk,
         TakesCachedChunk, StartsDecoding, DecodeFails, DecodeIsKilled,
         ReadsTranscript, FindsNoTranscript, StopsAtWindow, TakesCachedWindow, AsksModel,
         ModelAnswersUnkept, ModelFails
  <2> QED BY <1>1, <1>2, <2>1 DEF kept, StreamTypeOK
<1> QED BY <1>3, <1>4, <1>5, <1>6, <1>7

\* Only an assembly writes the transcript, and it has gone through every chunk.
LEMMA StepKeepsTranscript ==
  IInv /\ Next => TranscriptCoversItsStream' /\ CorrectedByOneGlossary'
<1> SUFFICES ASSUME IInv, Next PROVE TranscriptCoversItsStream' /\ CorrectedByOneGlossary'
  OBVIOUS
<1>1. CASE \E e \in Events : Assembles(e)
  <2>1. PICK e \in Events : Assembles(e)
    BY <1>1
  <2> DEFINE r == run[e]
             words == Corrected(r.words, r.glossary)
  <2>2. r \in Run /\ Transcribing(r) /\ r.at = "chunk" /\ r.next \notin ChunksOf(r.duration)
    BY <2>1, RunIsTyped DEF IInv, Assembles, At
  <2>3. /\ r.duration \in Lengths /\ r.next \in Nat /\ r.words \in Words /\ r.glossary \in Glossaries
        /\ Known(r.words) \cup r.missing = Behind(ChunksOf(r.duration), r.next)
        /\ Known(r.words) \cap r.missing = {}
        /\ \A i \in Known(r.words) :
             r.words[i].length = LengthOf(i, r.duration) /\ r.words[i].corrected = {}
    BY <2>2 DEF Run, Transcribing
  <2>4. Known(r.words) \cup r.missing = ChunksOf(r.duration)
    BY <2>2, <2>3, PastTheLastChunk
  <2>5. /\ Known(words) = Known(r.words)
        /\ \A i \in Known(r.words) : /\ words[i].length = r.words[i].length
                                     /\ words[i].corrected = r.words[i].corrected \cup {r.glossary}
    BY <2>3, CorrectionsKeepPlace
  <2>6. transcript' = [duration |-> r.duration, words |-> words, missing |-> r.missing,
                       glossary |-> r.glossary]
    BY <2>1 DEF Assembles
  <2> HIDE DEF words
  <2>7. /\ transcript'.duration = r.duration /\ transcript'.words = words
        /\ transcript'.missing = r.missing /\ transcript'.glossary = r.glossary
    BY <2>6
  <2>8. TranscriptCoversItsStream'
    BY <2>3, <2>4, <2>5, <2>7 DEF TranscriptCoversItsStream
  <2>9. CorrectedByOneGlossary'
    BY <2>3, <2>5, <2>7 DEF CorrectedByOneGlossary
  <2> QED BY <2>8, <2>9
<1>2. CASE ~\E e \in Events : Assembles(e)
  <2>1. UNCHANGED transcript
    BY <1>2 DEF kept, Next, Grows, Starts, TranscribeStarts, DetectStarts, CliDetectStarts,
         TranscribeStep, DetectStep, AskedToStop, BreaksOff, Downloads, DownloadFails, StopsAtChunk,
         TakesCachedChunk, StartsDecoding, Decodes, DecodeFails, DecodeIsKilled,
         ReadsTranscript, FindsNoTranscript, StopsAtWindow, TakesCachedWindow, AsksModel,
         ModelAnswers, ModelAnswersUnkept, ModelFails, WritesAnalysis
  <2> QED BY <2>1 DEF IInv, TranscriptCoversItsStream, CorrectedByOneGlossary
<1> QED BY <1>1, <1>2

\* Only a scan that has gone through every window, or asked nothing, writes the
\* analysis.
LEMMA StepKeepsAnalysis == IInv /\ Next => AnalysisAnswersOneQuestion'
<1> SUFFICES ASSUME IInv, Next PROVE AnalysisAnswersOneQuestion'
  OBVIOUS
<1>1. CASE \E e \in Events : WritesAnalysis(e)
  <2>1. PICK e \in Events : WritesAnalysis(e)
    BY <1>1
  <2> DEFINE r == run[e]
             asked == [of |-> r.of, words |-> r.words]
  <2>2. r \in Run /\ Detecting(r)
    BY <2>1, RunIsTyped DEF IInv, WritesAnalysis, ScanEnds, At
  <2>3. /\ analysis'.asked = (IF r.of = None THEN None ELSE asked)
        /\ analysis'.answers = r.scored /\ analysis'.failed = r.failed
    BY <2>1 DEF WritesAnalysis, Asked
  <2>4. CASE r.of = None
    BY <2>3, <2>4 DEF AnalysisAnswersOneQuestion
  <2>5. CASE r.of # None
    <3>1. r.at = "window" /\ r.next \notin WindowsOf(r.words)
      BY <2>1, <2>2, <2>5 DEF WritesAnalysis, ScanEnds, At, Detecting
    <3>2. /\ Known(r.scored) \cup r.failed = Behind(WindowsOf(r.words), r.next)
          /\ \A w \in Known(r.scored) : r.scored[w] = asked
      BY <2>2, <3>1 DEF Detecting
    <3>3. Known(r.scored) \cup r.failed = WindowsOf(r.words)
      BY <2>2, <3>1, <3>2, PastTheLastWindow DEF Run
    <3> QED BY <2>3, <2>5, <3>2, <3>3 DEF AnalysisAnswersOneQuestion
  <2> QED BY <2>4, <2>5
<1>2. CASE ~\E e \in Events : WritesAnalysis(e)
  <2>1. UNCHANGED analysis
    BY <1>2 DEF kept, Next, Grows, Starts, TranscribeStarts, DetectStarts, CliDetectStarts,
         TranscribeStep, DetectStep, AskedToStop, BreaksOff, Downloads, DownloadFails, StopsAtChunk,
         TakesCachedChunk, StartsDecoding, Decodes, DecodeFails, DecodeIsKilled, Assembles,
         ReadsTranscript, FindsNoTranscript, StopsAtWindow, TakesCachedWindow, AsksModel,
         ModelAnswers, ModelAnswersUnkept, ModelFails
  <2> QED BY <2>1 DEF IInv, AnalysisAnswersOneQuestion
<1> QED BY <1>1, <1>2

-----------------------------------------------------------------------------
(* Theorems *)

\* The invariant holds when nothing is kept and nothing runs.
LEMMA InitEstablishes == Init => IInv
<1> SUFFICES ASSUME Init PROVE IInv
  OBVIOUS
<1>1. NoWords \in [Indices -> [length : 1..ChunkSeconds, corrected : {{}}] \cup {None}]
      /\ NoAnswers \in [Windows -> Question \cup {None}]
  BY DEF NoWords, NoAnswers
<1>2. StreamTypeOK /\ RunsAccount /\ answered = windows
  BY <1>1 DEF Init, StreamTypeOK, RunsAccount
<1> QED
  BY <1>2 DEF Init, IInv, TranscriptCoversItsStream, CorrectedByOneGlossary, AnalysisAnswersOneQuestion

\* Every step keeps it.
LEMMA StepKeepsInvariant == IInv /\ [Next]_streamVars => IInv'
<1> SUFFICES ASSUME IInv, [Next]_streamVars PROVE IInv'
  OBVIOUS
<1>1. CASE Next
  <2>1. StreamTypeOK'
    BY <1>1, StepKeepsRuns, StepKeepsFiles DEF StreamTypeOK
  <2> QED BY <1>1, <2>1, StepKeepsRuns, StepKeepsFiles, StepKeepsTranscript, StepKeepsAnalysis DEF IInv
<1>2. CASE UNCHANGED streamVars
  BY <1>2 DEF streamVars, kept, IInv, StreamTypeOK, RunsAccount, TranscriptCoversItsStream,
              CorrectedByOneGlossary, AnalysisAnswersOneQuestion
<1> QED BY <1>1, <1>2

\* The inductive invariant: what each run has accounted for, and what the files
\* of the stream may be trusted for.
THEOREM StreamInvariantHolds == StreamSpec => []IInv
BY InitEstablishes, StepKeepsInvariant, PTL DEF StreamSpec

\* Every variable keeps its type, and chunks are cached as they were heard.
THEOREM StreamTypeCorrect == StreamSpec => []StreamTypeOK
<1>1. IInv => StreamTypeOK
  BY DEF IInv
<1> QED BY <1>1, StreamInvariantHolds, PTL

\* A transcript accounts for every chunk of its stream (_transcribe_stream).
THEOREM TranscriptAlwaysCoversItsStream == StreamSpec => []TranscriptCoversItsStream
<1>1. IInv => TranscriptCoversItsStream
  BY DEF IInv
<1> QED BY <1>1, StreamInvariantHolds, PTL

\* A transcript is corrected by one glossary (subprocess_decoder sends terms only).
THEOREM AlwaysCorrectedByOneGlossary == StreamSpec => []CorrectedByOneGlossary
<1>1. IInv => CorrectedByOneGlossary
  BY DEF IInv
<1> QED BY <1>1, StreamInvariantHolds, PTL

\* An analysis mixes no answers of different questions (window_fingerprint).
THEOREM AnalysisAlwaysAnswersOneQuestion == StreamSpec => []AnalysisAnswersOneQuestion
<1>1. IInv => AnalysisAnswersOneQuestion
  BY DEF IInv
<1> QED BY <1>1, StreamInvariantHolds, PTL

\* An answer that could be written is never paid for twice while it is the
\* window's last (WindowCache).
THEOREM NothingIsEverAskedAgain == StreamSpec => NothingIsAskedAgain
<1> DEFINE Once == \A e \in Events :
                     At(e, "window") /\ run'[e] # None /\ run'[e].at = "ask"
                       => answered[run[e].next] # Asked(e)
<1>1. IInv /\ [Next]_streamVars => [Once]_streamVars
  <2> SUFFICES ASSUME IInv, Next, NEW e \in Events,
                      At(e, "window"), run'[e] # None, run'[e].at = "ask"
               PROVE  answered[run[e].next] # Asked(e)
    OBVIOUS
  <2>1. run[e] \in Run /\ run[e].at = "window" /\ answered = windows
    BY RunIsTyped DEF IInv, At
  <2>2. CASE AsksModel(e)
    BY <2>1, <2>2 DEF AsksModel, Scored
  <2>3. CASE ~AsksModel(e)
    <3>1. CASE \E f \in Events \ {e} : \/ Starts(f) \/ TranscribeStep(f) \/ DetectStep(f) \/ BreaksOff(f)
                                       \/ \E stop \in {"stop", "kill"} : AskedToStop(f, stop)
      <4>1. run'[e] = run[e]
        BY <3>1 DEF IInv, StreamTypeOK, Starts, TranscribeStarts, DetectStarts, CliDetectStarts,
           TranscribeStep, DetectStep, AskedToStop, BreaksOff, Downloads, DownloadFails, StopsAtChunk,
           TakesCachedChunk, StartsDecoding, Decodes, DecodeFails, DecodeIsKilled, Assembles,
           ReadsTranscript, FindsNoTranscript, StopsAtWindow, TakesCachedWindow, AsksModel,
           ModelAnswers, ModelAnswersUnkept, ModelFails, WritesAnalysis, Ends, Becomes, Scans,
           NextChunk, NextWindow
      <4> QED BY <2>1, <4>1
    <3>2. CASE Grows
      BY <2>1, <3>2 DEF Grows
    <3>3. CASE \E stop \in {"stop", "kill"} : AskedToStop(e, stop)
      BY <2>1, <3>3 DEF IInv, StreamTypeOK, AskedToStop, Becomes, Run
    <3>4. CASE TakesCachedWindow(e)
      BY <2>1, <3>4 DEF IInv, StreamTypeOK, TakesCachedWindow, NextWindow, Becomes, Run
    <3>5. CASE StopsAtWindow(e) \/ WritesAnalysis(e) \/ BreaksOff(e)
      BY <3>5 DEF IInv, StreamTypeOK, StopsAtWindow, WritesAnalysis, BreaksOff, Ends
    <3>6. \/ Grows \/ TakesCachedWindow(e) \/ StopsAtWindow(e) \/ WritesAnalysis(e) \/ BreaksOff(e)
          \/ \E stop \in {"stop", "kill"} : AskedToStop(e, stop)
          \/ \E f \in Events \ {e} : \/ Starts(f) \/ TranscribeStep(f) \/ DetectStep(f) \/ BreaksOff(f)
                                     \/ \E stop \in {"stop", "kill"} : AskedToStop(f, stop)
      <4>1. ~Starts(e) /\ ~TranscribeStep(e)
        BY <2>1 DEF At, AtChunk, Starts, TranscribeStarts, DetectStarts, CliDetectStarts, TranscribeStep,
           Downloads, DownloadFails, StopsAtChunk, TakesCachedChunk, StartsDecoding, Decodes,
           DecodeFails, DecodeIsKilled, Assembles
      <4>2. DetectStep(e) => TakesCachedWindow(e) \/ StopsAtWindow(e) \/ WritesAnalysis(e)
        BY <2>1, <2>3 DEF At, DetectStep, ReadsTranscript, FindsNoTranscript, ModelAnswers,
           ModelAnswersUnkept, ModelFails
      <4> QED BY <4>1, <4>2 DEF Next
    <3> QED BY <3>1, <3>2, <3>3, <3>4, <3>5, <3>6
  <2> QED BY <2>2, <2>3
<1> QED BY <1>1, StreamInvariantHolds, PTL DEF StreamSpec, NothingIsAskedAgain

-----------------------------------------------------------------------------
(* What was heard stays: the cache and the transcript only move forward, as *)
(* the stream does, and only the holder of its lock moves them.             *)

Hearing == {"download", "chunk", "decode"}

\* A run that transcribes holds the stream's lock.
HearingIsLocked == \A e \in Events : run[e] # None /\ run[e].at \in Hearing => lock = e

\* A cached chunk is no longer than the stream lets it be, and no shorter than it
\* was when the transcript was assembled.
CacheMovesForward ==
  /\ \A i \in Known(chunks) : i \in ChunksOf(length) /\ chunks[i].length <= LengthOf(i, length)
  /\ transcript # None =>
       /\ transcript.duration <= length
       /\ \A i \in Known(transcript.words) :
            i \in Known(chunks) /\ LengthOf(i, transcript.duration) <= chunks[i].length

\* Chunk i of the transcript there is would be the same in the one of this run.
SameChunk(r, i) ==
  /\ transcript # None /\ i \in Known(transcript.words)
  /\ LengthOf(i, transcript.duration) = LengthOf(i, r.duration)

\* A run is ahead of all that is kept, keeps what it has heard, and has heard all
\* that was heard before and lies behind it.
HearsNoLess(r) ==
  /\ r.duration <= length
  /\ \A i \in Known(chunks) : i \in ChunksOf(r.duration) /\ chunks[i].length <= LengthOf(i, r.duration)
  /\ transcript # None => transcript.duration <= r.duration
  /\ \A i \in Known(r.words) : i \in Known(chunks) /\ chunks[i].length = LengthOf(i, r.duration)
  /\ \A i \in Indices : SameChunk(r, i) /\ i < r.next => i \in Known(r.words)
  /\ r.at = "decode" => ~SameChunk(r, r.next)

RunsHearNoLess ==
  \A e \in Events : run[e] # None /\ run[e].at \in {"chunk", "decode"} => HearsNoLess(run[e])

HInv == IInv /\ HearingIsLocked /\ CacheMovesForward /\ RunsHearNoLess

\* A longer stream has longer chunks, and more.
LEMMA ChunksGrow ==
  ASSUME NEW d \in Lengths, NEW f \in Lengths, d <= f, NEW i \in ChunksOf(d)
  PROVE  i \in ChunksOf(f) /\ LengthOf(i, d) <= LengthOf(i, f)
<1> DEFINE s == i * ChunkSeconds
<1>1. d \in Nat /\ f \in Nat /\ i \in Nat /\ ChunkSeconds \in Nat \ {0} /\ s < d /\ i <= d
  BY StreamAssumption DEF ChunksOf
<1>2. s \in Nat /\ (i + 1) * ChunkSeconds = s + ChunkSeconds
  BY <1>1
<1>3. /\ LengthOf(i, d) = IF s + ChunkSeconds <= d THEN ChunkSeconds ELSE d - s
      /\ LengthOf(i, f) = IF s + ChunkSeconds <= f THEN ChunkSeconds ELSE f - s
  BY <1>2 DEF LengthOf
<1>4. i \in ChunksOf(f)
  BY <1>1 DEF ChunksOf
<1> HIDE DEF s
<1> QED BY <1>1, <1>2, <1>3, <1>4

\* Steps that change neither the stream nor what is kept of it leave a run that
\* transcribes as it was, or end it, or take it through the steps named here.
LEMMA HearingSteps ==
  ASSUME IInv, HearingIsLocked, Next
  PROVE  \/ Grows /\ UNCHANGED <<chunks, transcript, run, lock>>
         \/ \E e \in Events :
              /\ \A f \in Events \ {e} : run'[f] = run[f]
              /\ \/ \E g \in Glossaries : TranscribeStarts(e, g)
                 \/ \E g \in Glossaries, q \in Questions : CliDetectStarts(e, g, q)
                 \/ Downloads(e) \/ TakesCachedChunk(e) \/ StartsDecoding(e) \/ Decodes(e)
                 \/ DecodeFails(e) \/ Assembles(e)
                 \/ \E stop \in {"stop", "kill"} : AskedToStop(e, stop)
                 \/ /\ UNCHANGED <<length, chunks, transcript>> /\ lock' = Unlocked(e)
                    /\ run'[e] = None
                 \/ /\ UNCHANGED <<length, chunks, transcript, lock>>
                    /\ run'[e] # None => run'[e].at \notin Hearing
                    /\ run[e] # None => run[e].at \notin Hearing
<1>1. CASE Grows
  BY <1>1 DEF Grows, kept
<1>2. SUFFICES ASSUME NEW e \in Events,
                      \/ Starts(e) \/ TranscribeStep(e) \/ DetectStep(e) \/ BreaksOff(e)
                      \/ \E stop \in {"stop", "kill"} : AskedToStop(e, stop)
               PROVE  /\ \A f \in Events \ {e} : run'[f] = run[f]
                      /\ \/ \E g \in Glossaries : TranscribeStarts(e, g)
                         \/ \E g \in Glossaries, q \in Questions : CliDetectStarts(e, g, q)
                         \/ Downloads(e) \/ TakesCachedChunk(e) \/ StartsDecoding(e) \/ Decodes(e)
                         \/ DecodeFails(e) \/ Assembles(e)
                         \/ \E stop \in {"stop", "kill"} : AskedToStop(e, stop)
                         \/ /\ UNCHANGED <<length, chunks, transcript>> /\ lock' = Unlocked(e)
                            /\ run'[e] = None
                         \/ /\ UNCHANGED <<length, chunks, transcript, lock>>
                            /\ run'[e] # None => run'[e].at \notin Hearing
                            /\ run[e] # None => run[e].at \notin Hearing
  BY <1>1 DEF Next
<1>3. \A f \in Events \ {e} : run'[f] = run[f]
  BY <1>2 DEF IInv, StreamTypeOK, Starts, TranscribeStarts, DetectStarts, CliDetectStarts, TranscribeStep, DetectStep, AskedToStop,
         BreaksOff, Downloads, DownloadFails, StopsAtChunk, TakesCachedChunk, StartsDecoding,
         Decodes, DecodeFails, DecodeIsKilled, Assembles, ReadsTranscript, FindsNoTranscript,
         StopsAtWindow, TakesCachedWindow, AsksModel, ModelAnswers, ModelAnswersUnkept,
         ModelFails, WritesAnalysis, Ends, Becomes, Scans, NextChunk, NextWindow
<1>4. run \in [Events -> Run \cup {None}]
  BY DEF IInv, StreamTypeOK
<1>5. ASSUME StopsAtChunk(e) \/ DecodeIsKilled(e) \/ DownloadFails(e) \/ FindsNoTranscript(e)
               \/ StopsAtWindow(e) \/ WritesAnalysis(e) \/ BreaksOff(e)
      PROVE  /\ UNCHANGED <<length, chunks, transcript>> /\ lock' = Unlocked(e)
             /\ run'[e] = None
  BY <1>4, <1>5 DEF StopsAtChunk, DecodeIsKilled, DownloadFails, FindsNoTranscript, StopsAtWindow,
                    WritesAnalysis, BreaksOff, Ends, kept
<1> DEFINE Scanned == /\ UNCHANGED <<length, chunks, transcript, lock>>
                      /\ run'[e] # None => run'[e].at \notin Hearing
                      /\ run[e] # None => run[e].at \notin Hearing
<1>6. ASSUME NEW r, Becomes(e, r) PROVE run'[e] = r
  BY <1>4, <1>6 DEF Becomes
<1>7. ASSUME NEW q \in Questions, DetectStarts(e, q) PROVE Scanned
  BY <1>6, <1>7 DEF DetectStarts, NewRun, Hearing, kept
<1>8. ASSUME ReadsTranscript(e) PROVE Scanned
  <2> DEFINE n == NewRun(run[e].kind, "window", None, run[e].of)
             s == [n EXCEPT !.stop = run[e].stop, !.words = transcript.words]
             t == NewRun(run[e].kind, "write", None, None)
  <2>1. s.at = "window" /\ t.at = "write"
    BY DEF NewRun
  <2>2. run'[e] = s \/ run'[e] = t
    BY <1>6, <1>8 DEF ReadsTranscript, Scans
  <2> QED BY <1>8, <2>1, <2>2 DEF ReadsTranscript, At, Hearing, kept
<1>9. ASSUME \/ TakesCachedWindow(e) \/ AsksModel(e) \/ ModelAnswers(e) \/ ModelAnswersUnkept(e)
             \/ ModelFails(e)
      PROVE  Scanned
  <2>1. run[e].at \in {"window", "ask"} /\ UNCHANGED <<length, chunks, transcript, lock>> /\ run[e] # None
    BY <1>9 DEF TakesCachedWindow, AsksModel, ModelAnswers, ModelAnswersUnkept, ModelFails, AtWindow,
                At, kept
  <2>2. run[e] \in Run
    BY <2>1, RunIsTyped DEF IInv
  <2>3. run'[e].at \in {"window", "ask"}
    BY <1>4, <1>9, <2>2 DEF TakesCachedWindow, AsksModel, ModelAnswers, ModelAnswersUnkept, ModelFails,
                            NextWindow, Becomes, Run
  <2> QED BY <2>1, <2>3 DEF Hearing
<1> QED
  BY <1>2, <1>3, <1>5, <1>7, <1>8, <1>9 DEF Starts, TranscribeStep, DetectStep

\* Who transcribes goes on holding the lock.
LEMMA StepKeepsLock == IInv /\ HearingIsLocked /\ Next => HearingIsLocked'
<1> SUFFICES ASSUME IInv, HearingIsLocked, Next, NEW f \in Events,
                    run'[f] # None, run'[f].at \in Hearing
             PROVE  lock' = f
  BY DEF HearingIsLocked
<1>1. CASE Grows
  BY <1>1 DEF Grows, HearingIsLocked
<1>2. CASE ~Grows
  <2>1. PICK e \in Events :
          /\ \A h \in Events \ {e} : run'[h] = run[h]
          /\ \/ \E g \in Glossaries : TranscribeStarts(e, g)
             \/ \E g \in Glossaries, q \in Questions : CliDetectStarts(e, g, q)
             \/ Downloads(e) \/ TakesCachedChunk(e) \/ StartsDecoding(e) \/ Decodes(e)
             \/ DecodeFails(e) \/ Assembles(e)
             \/ \E stop \in {"stop", "kill"} : AskedToStop(e, stop)
             \/ lock' = Unlocked(e) /\ run'[e] = None
             \/ UNCHANGED lock /\ (run'[e] # None => run'[e].at \notin Hearing)
    BY <1>2, HearingSteps
  <2>2. CASE f = e
    <3>1. CASE \E stop \in {"stop", "kill"} : AskedToStop(e, stop)
      <4>1. run[e] \in Run /\ run'[e].at = run[e].at /\ run[e] # None /\ lock' = lock
        BY <3>1, RunIsTyped DEF IInv, StreamTypeOK, AskedToStop, Becomes, Run
      <4> QED BY <2>2, <4>1 DEF HearingIsLocked
    <3>2. CASE Assembles(e)
      <4>1. Ends(e) \/ Scans(e, Corrected(run[e].words, run[e].glossary))
        BY <3>2 DEF Assembles
      <4>2. CASE Ends(e)
        BY <2>2, <4>2 DEF Ends, IInv, StreamTypeOK
      <4>3. CASE Scans(e, Corrected(run[e].words, run[e].glossary))
        <5> DEFINE n == NewRun(run[e].kind, "window", None, run[e].of)
                   s == [n EXCEPT !.stop = run[e].stop,
                                  !.words = Corrected(run[e].words, run[e].glossary)]
                   t == NewRun(run[e].kind, "write", None, None)
        <5>1. s.at = "window" /\ t.at = "write"
          BY DEF NewRun
        <5>2. run'[e] = s \/ run'[e] = t
          BY <4>3 DEF Scans, Becomes, IInv, StreamTypeOK
        <5> QED BY <2>2, <5>1, <5>2 DEF Hearing
      <4> QED BY <4>1, <4>2, <4>3
    <3>3. CASE Downloads(e) \/ TakesCachedChunk(e) \/ StartsDecoding(e) \/ Decodes(e) \/ DecodeFails(e)
      BY <2>2, <3>3 DEF Downloads, TakesCachedChunk, StartsDecoding, Decodes, DecodeFails, AtChunk, At,
                        Hearing, HearingIsLocked
    <3> QED BY <2>1, <2>2, <3>1, <3>2, <3>3 DEF TranscribeStarts, CliDetectStarts
  <2>3. CASE f # e
    <3>1. lock = f /\ lock # None
      BY <2>1, <2>3, StreamAssumption DEF HearingIsLocked
    <3> QED
      BY <2>1, <2>3, <3>1 DEF TranscribeStarts, CliDetectStarts, Downloads, TakesCachedChunk,
         StartsDecoding, Decodes, DecodeFails, Assembles, AskedToStop, Ends, Unlocked, AtChunk, At,
         HearingIsLocked, Hearing
  <2> QED BY <2>2, <2>3
<1> QED BY <1>1, <1>2

\* While a run is at its chunks, no other one is.
LEMMA HearsAlone ==
  ASSUME HearingIsLocked, NEW e \in Events, run[e] # None, run[e].at \in Hearing,
         NEW f \in Events \ {e}, run[f] # None
  PROVE  run[f].at \notin Hearing
BY DEF HearingIsLocked

\* A growing stream leaves everything behind it.
LEMMA GrowthHearsOn ==
  HInv /\ Grows => CacheMovesForward' /\ RunsHearNoLess'
<1> SUFFICES ASSUME HInv, Grows PROVE CacheMovesForward' /\ RunsHearNoLess'
  OBVIOUS
<1>1. /\ length \in Lengths /\ length' \in Lengths /\ length <= length' /\ length \in Nat /\ length' \in Nat
      /\ UNCHANGED <<chunks, transcript, run>>
  BY StreamAssumption DEF HInv, IInv, StreamTypeOK, Grows, kept
<1>2. \A i \in Known(chunks) : /\ chunks[i].length \in Int /\ LengthOf(i, length) \in Int /\ LengthOf(i, length') \in Int
                               /\ i \in ChunksOf(length') /\ LengthOf(i, length) <= LengthOf(i, length')
  <2> SUFFICES ASSUME NEW i \in Known(chunks)
               PROVE  /\ chunks[i].length \in Int /\ LengthOf(i, length) \in Int /\ LengthOf(i, length') \in Int
                      /\ i \in ChunksOf(length') /\ LengthOf(i, length) <= LengthOf(i, length')
    OBVIOUS
  <2>1. i \in ChunksOf(length) /\ chunks[i].length \in 1..ChunkSeconds
    BY DEF HInv, CacheMovesForward, Known, IInv, StreamTypeOK
  <2>2. i \in ChunksOf(length') /\ LengthOf(i, length) <= LengthOf(i, length')
    BY <1>1, <2>1, ChunksGrow
  <2>3. LengthOf(i, length) \in 1..ChunkSeconds /\ LengthOf(i, length') \in 1..ChunkSeconds
    BY <1>1, <2>1, <2>2, ChunkHasLength
  <2>4. ChunkSeconds \in Nat
    BY StreamAssumption
  <2> QED BY <2>1, <2>2, <2>3, <2>4
<1>3. transcript # None => transcript.duration \in Nat
  BY StreamAssumption DEF HInv, IInv, StreamTypeOK, Transcript
<1>4. CacheMovesForward'
  BY <1>1, <1>2, <1>3 DEF HInv, CacheMovesForward
<1>5. \A e \in Events : run[e] # None => run[e].duration \in Nat
  <2> SUFFICES ASSUME NEW e \in Events, run[e] # None PROVE run[e].duration \in Nat
    OBVIOUS
  <2>1. run[e] \in Run
    BY RunIsTyped DEF HInv, IInv
  <2>2. run[e].duration \in Lengths \cup {0}
    BY <2>1 DEF Run
  <2>3. Lengths \cup {0} \subseteq Nat
    BY StreamAssumption
  <2> QED BY <2>2, <2>3
<1>6. RunsHearNoLess'
  BY <1>1, <1>5 DEF HInv, RunsHearNoLess, HearsNoLess, SameChunk
<1> QED BY <1>4, <1>6

\* A step of one run that changes neither the stream nor what is kept of it.
LEMMA OneRunHearsOn ==
  ASSUME HInv, NEW e \in Events, \A f \in Events \ {e} : run'[f] = run[f],
         UNCHANGED <<length, chunks, transcript>>,
         run'[e] # None /\ run'[e].at \in {"chunk", "decode"} => HearsNoLess(run'[e])
  PROVE  CacheMovesForward' /\ RunsHearNoLess'
<1>1. CacheMovesForward'
  BY DEF HInv, CacheMovesForward
<1>2. RunsHearNoLess'
  BY DEF HInv, RunsHearNoLess, HearsNoLess, SameChunk
<1> QED BY <1>1, <1>2

\* What a run knows of its chunks stays when it goes on to the next one.
LEMMA StepHearsOn ==
  HInv /\ Next => CacheMovesForward' /\ RunsHearNoLess'
<1> DEFINE Kept == CacheMovesForward' /\ RunsHearNoLess'
<1> SUFFICES ASSUME HInv, Next PROVE Kept
  OBVIOUS
<1>1. CASE Grows
  BY <1>1, GrowthHearsOn
<1>2. SUFFICES ASSUME NEW e \in Events,
                      \A f \in Events \ {e} : run'[f] = run[f],
                      \/ \E g \in Glossaries : TranscribeStarts(e, g)
                      \/ \E g \in Glossaries, q \in Questions : CliDetectStarts(e, g, q)
                      \/ Downloads(e) \/ TakesCachedChunk(e) \/ StartsDecoding(e) \/ Decodes(e)
                      \/ DecodeFails(e) \/ Assembles(e)
                      \/ \E stop \in {"stop", "kill"} : AskedToStop(e, stop)
                      \/ UNCHANGED <<length, chunks, transcript>> /\ run'[e] = None
                      \/ /\ UNCHANGED <<length, chunks, transcript>>
                         /\ run'[e] # None => run'[e].at \notin Hearing
               PROVE  Kept
  BY <1>1, HearingSteps DEF HInv
<1> DEFINE r == run[e]
<1>3. /\ run \in [Events -> Run \cup {None}] /\ length \in Lengths /\ StreamTypeOK /\ RunsAccount
      /\ length \in Nat /\ ChunkSeconds \in Nat \ {0}
  BY StreamAssumption DEF HInv, IInv, StreamTypeOK
<1>4. ASSUME NEW s, Becomes(e, s) PROVE run'[e] = s
  BY <1>3, <1>4 DEF Becomes
<1>5. r # None => r \in Run /\ Transcribing(r) /\ Detecting(r)
  BY <1>3, RunIsTyped
<1>6. CASE (\E g \in Glossaries : TranscribeStarts(e, g))
             \/ (\E g \in Glossaries, q \in Questions : CliDetectStarts(e, g, q))
  <2>1. run'[e].at = "download" /\ UNCHANGED <<length, chunks, transcript>>
    <3>1. /\ UNCHANGED <<length, chunks, transcript>>
          /\ \E k \in {"transcribe", "both"}, g \in Glossaries, q \in Questions \cup {None} :
               Becomes(e, NewRun(k, "download", g, q))
      BY <1>6 DEF TranscribeStarts, CliDetectStarts, kept
    <3>2. PICK k \in {"transcribe", "both"}, g \in Glossaries, q \in Questions \cup {None} :
            Becomes(e, NewRun(k, "download", g, q))
      BY <3>1
    <3>3. run'[e] = NewRun(k, "download", g, q)
      BY <1>4, <3>2
    <3> QED BY <3>1, <3>3 DEF NewRun
  <2> QED BY <1>2, <2>1, OneRunHearsOn
<1>7. CASE UNCHANGED <<length, chunks, transcript>> /\ (run'[e] # None => run'[e].at \notin Hearing)
  BY <1>2, <1>7, OneRunHearsOn DEF Hearing
<1>8. CASE Downloads(e)
  <2> DEFINE s == [r EXCEPT !.at = "chunk", !.duration = length]
  <2>1. r # None /\ r.at = "download" /\ UNCHANGED <<length, chunks, transcript>> /\ run'[e] = s
    BY <1>4, <1>8 DEF Downloads, At, kept
  <2>2. s.at = "chunk" /\ s.duration = length /\ s.words = NoWords /\ s.next = 0
    BY <1>5, <2>1 DEF Transcribing, Run
  <2>3. \A i \in Indices : ~(i < 0)
    BY DEF Indices, ChunksOf
  <2>4. HearsNoLess(s)
    BY <1>3, <2>2, <2>3, NothingIsKnown DEF HInv, CacheMovesForward, HearsNoLess
  <2> QED BY <1>2, <2>1, <2>4, OneRunHearsOn
<1>9. CASE \E stop \in {"stop", "kill"} : AskedToStop(e, stop)
  <2>1. PICK stop \in {"stop", "kill"} : AskedToStop(e, stop)
    BY <1>9
  <2> DEFINE s == [r EXCEPT !.stop = stop]
  <2>2. r # None /\ UNCHANGED <<length, chunks, transcript>> /\ run'[e] = s
    BY <1>4, <2>1 DEF AskedToStop, kept
  <2>3. s.at = r.at /\ s.duration = r.duration /\ s.words = r.words /\ s.next = r.next
    BY <1>5, <2>2 DEF Run
  <2>4. r.at \in {"chunk", "decode"} => HearsNoLess(s)
    BY <2>2, <2>3 DEF HInv, RunsHearNoLess, HearsNoLess, SameChunk
  <2> QED BY <1>2, <2>2, <2>3, <2>4, OneRunHearsOn
<1>10. ASSUME r # None, r.at \in {"chunk", "decode"}
       PROVE  /\ HearsNoLess(r) /\ r \in Run /\ Transcribing(r) /\ r.duration \in Lengths
              /\ r.duration \in Nat /\ r.next \in Nat
  BY <1>5, <1>10, StreamAssumption DEF HInv, RunsHearNoLess, Transcribing, Run
<1>11. ASSUME r # None, r.at \in {"chunk", "decode"}, r.next \in ChunksOf(r.duration)
       PROVE  r.next \in Indices /\ LengthOf(r.next, r.duration) \in 1..ChunkSeconds
  BY <1>10, <1>11, ChunkHasLength
<1>12. CASE TakesCachedChunk(e)
  <2> DEFINE words == [r.words EXCEPT ![r.next] = chunks[r.next]]
             s == [r EXCEPT !.at = "chunk", !.next = @ + 1, !.words = words, !.missing = r.missing]
  <2>1. /\ r # None /\ r.at = "chunk" /\ r.next \in ChunksOf(r.duration)
        /\ UNCHANGED <<length, chunks, transcript>> /\ run'[e] = s
        /\ chunks[r.next] # None /\ chunks[r.next].length = LengthOf(r.next, r.duration)
    BY <1>4, <1>12 DEF TakesCachedChunk, AtChunk, At, Cached, NextChunk, kept
  <2>2. s.at = "chunk" /\ s.duration = r.duration /\ s.words = words /\ s.next = r.next + 1
    BY <1>10, <2>1 DEF Run
  <2>3. r.next \in Indices /\ r.next \in DOMAIN r.words /\ DOMAIN chunks = Indices
    BY <1>3, <1>10, <1>11, <2>1 DEF Run, Words, StreamTypeOK
  <2>4. Known(words) = Known(r.words) \cup {r.next}
    BY <2>1, <2>3, KnowsOneMore
  <2>5. \A i \in Indices : i < r.next + 1 => i < r.next \/ i = r.next
    BY <1>10, <2>1 DEF Indices, ChunksOf
  <2>6. r.next \in Known(chunks)
    BY <2>1, <2>3 DEF Known
  <2> HIDE DEF words
  <2>7. HearsNoLess(s)
    BY <1>10, <2>1, <2>2, <2>4, <2>5, <2>6 DEF HearsNoLess, SameChunk
  <2> QED BY <1>2, <2>1, <2>7, OneRunHearsOn
<1>13. CASE StartsDecoding(e)
  <2> DEFINE s == [r EXCEPT !.at = "decode"]
  <2>1. /\ r # None /\ r.at = "chunk" /\ r.next \in ChunksOf(r.duration)
        /\ UNCHANGED <<length, chunks, transcript>> /\ run'[e] = s /\ ~Cached(e)
    BY <1>4, <1>13 DEF StartsDecoding, AtChunk, At, kept
  <2>2. s.at = "decode" /\ s.duration = r.duration /\ s.words = r.words /\ s.next = r.next
    BY <1>10, <2>1 DEF Run
  <2>3. ~SameChunk(r, r.next)
    <3> SUFFICES ASSUME SameChunk(r, r.next) PROVE FALSE
      OBVIOUS
    <3>1. /\ r.next \in Known(chunks) /\ LengthOf(r.next, r.duration) <= chunks[r.next].length
          /\ chunks[r.next].length <= LengthOf(r.next, r.duration)
      BY <1>10, <2>1 DEF SameChunk, HInv, CacheMovesForward, HearsNoLess
    <3>2. chunks[r.next] # None /\ chunks[r.next].length \in 1..ChunkSeconds
      BY <1>3, <3>1 DEF Known, StreamTypeOK
    <3>3. chunks[r.next].length = LengthOf(r.next, r.duration)
      BY <1>3, <1>11, <2>1, <3>1, <3>2
    <3> QED BY <2>1, <3>2, <3>3 DEF Cached
  <2>4. HearsNoLess(s)
    BY <1>10, <2>1, <2>2, <2>3 DEF HearsNoLess, SameChunk
  <2> QED BY <1>2, <2>1, <2>4, OneRunHearsOn
<1>14. CASE DecodeFails(e)
  <2> DEFINE s == [r EXCEPT !.at = "chunk", !.next = @ + 1, !.words = r.words,
                            !.missing = r.missing \cup {r.next}]
  <2>1. /\ r # None /\ r.at = "decode" /\ UNCHANGED <<length, chunks, transcript>> /\ run'[e] = s
    BY <1>4, <1>14 DEF DecodeFails, At, NextChunk, kept
  <2>2. s.at = "chunk" /\ s.duration = r.duration /\ s.words = r.words /\ s.next = r.next + 1
    BY <1>10, <2>1 DEF Run
  <2>3. \A i \in Indices : i < r.next + 1 => i < r.next \/ i = r.next
    BY <1>10, <2>1 DEF Indices, ChunksOf
  <2>4. HearsNoLess(s)
    BY <1>10, <2>1, <2>2, <2>3 DEF HearsNoLess, SameChunk
  <2> QED BY <1>2, <2>1, <2>4, OneRunHearsOn
<1>15. CASE Decodes(e)
  <2> DEFINE x == Heard(e)
             words == [r.words EXCEPT ![r.next] = x]
             cache == [chunks EXCEPT ![r.next] = x]
  <2>0. PICK s : s = [r EXCEPT !.at = "chunk", !.next = @ + 1, !.words = words, !.missing = r.missing]
    OBVIOUS
  <2>1. /\ r # None /\ r.at = "decode" /\ UNCHANGED <<length, transcript>> /\ run'[e] = s
        /\ chunks' = cache
    BY <1>4, <1>15, <2>0 DEF Decodes, At, NextChunk
  <2>2. r.next \in ChunksOf(r.duration)
    BY <1>10, <2>1 DEF Transcribing
  <2>3. s.at = "chunk" /\ s.duration = r.duration /\ s.words = words /\ s.next = r.next + 1
    BY <1>10, <2>0, <2>1 DEF Run
  <2>4. r.next \in Indices /\ r.next \in DOMAIN r.words /\ DOMAIN chunks = Indices
    BY <1>3, <1>10, <1>11, <2>1, <2>2 DEF Run, Words, StreamTypeOK
  <2>5. x # None /\ x.length = LengthOf(r.next, r.duration)
    <3>1. x \in Text /\ x.length = LengthOf(r.next, r.duration)
      BY <1>11, <2>1, <2>2 DEF Heard, Text
    <3> QED BY <3>1, StreamAssumption
  <2> HIDE DEF x
  <2>6. Known(words) = Known(r.words) \cup {r.next}
    BY <2>4, <2>5, KnowsOneMore
  <2>7. /\ Known(chunks') = Known(chunks) \cup {r.next} /\ chunks'[r.next] = x
        /\ \A i \in Known(chunks) \ {r.next} : chunks'[i] = chunks[i]
    <3>1. r.next \in DOMAIN chunks
      BY <2>4
    <3>2. Known(cache) = Known(chunks) \cup {r.next}
      BY <2>5, <3>1, KnowsOneMore
    <3>3. cache[r.next] = x /\ \A i \in Known(chunks) \ {r.next} : cache[i] = chunks[i]
      BY <3>1 DEF Known
    <3> QED BY <2>1, <3>2, <3>3
  <2>8. \A i \in Indices : i < r.next + 1 => i < r.next \/ i = r.next
    BY <1>10, <2>1 DEF Indices, ChunksOf
  <2> HIDE DEF words, cache
  <2>9. r.next \in ChunksOf(length) /\ LengthOf(r.next, r.duration) <= LengthOf(r.next, length)
    BY <1>3, <1>10, <2>1, <2>2, ChunksGrow DEF HearsNoLess
  <2>10. LengthOf(r.next, r.duration) <= LengthOf(r.next, r.duration)
    BY <1>3, <1>11, <2>1, <2>2
  <2>11. HearsNoLess(s)'
    <3>1. s.duration <= length'
      BY <1>10, <2>1, <2>3 DEF HearsNoLess
    <3>2. \A i \in Known(chunks') : i \in ChunksOf(s.duration) /\ chunks'[i].length <= LengthOf(i, s.duration)
      BY <1>10, <2>1, <2>2, <2>3, <2>5, <2>7, <2>10 DEF HearsNoLess
    <3>3. \A i \in Known(s.words) : i \in Known(chunks') /\ chunks'[i].length = LengthOf(i, s.duration)
      BY <1>10, <2>1, <2>3, <2>5, <2>6, <2>7 DEF HearsNoLess
    <3>4. transcript' # None => transcript'.duration <= s.duration
      BY <1>10, <2>1, <2>3 DEF HearsNoLess
    <3>5. \A i \in Indices : SameChunk(s, i)' /\ i < s.next => i \in Known(s.words)
      BY <1>10, <2>1, <2>3, <2>6, <2>8 DEF HearsNoLess, SameChunk
    <3> QED BY <2>3, <3>1, <3>2, <3>3, <3>4, <3>5 DEF HearsNoLess
  <2>12. CacheMovesForward'
    <3>1. \A i \in Known(chunks') : i \in ChunksOf(length') /\ chunks'[i].length <= LengthOf(i, length')
      BY <2>1, <2>5, <2>7, <2>9 DEF HInv, CacheMovesForward
    <3>2. ASSUME transcript # None, r.next \in Known(transcript.words)
          PROVE  LengthOf(r.next, transcript.duration) <= x.length
      <4>1. transcript.duration \in Lengths /\ r.next \in ChunksOf(transcript.duration)
        BY <1>3, <3>2 DEF HInv, IInv, StreamTypeOK, Transcript, TranscriptCoversItsStream
      <4> QED BY <1>10, <2>1, <2>5, <3>2, <4>1, ChunksGrow DEF HearsNoLess
    <3> QED BY <2>1, <2>7, <3>1, <3>2 DEF HInv, CacheMovesForward
  <2>13. RunsHearNoLess'
    <3> SUFFICES ASSUME NEW f \in Events, run'[f] # None, run'[f].at \in {"chunk", "decode"}
                 PROVE  HearsNoLess(run[f])'
      BY DEF RunsHearNoLess
    <3>1. f = e
      BY <1>2, <2>1, HearsAlone DEF HInv, Hearing
    <3> QED BY <2>1, <2>11, <3>1 DEF HearsNoLess, SameChunk
  <2> QED BY <2>12, <2>13
<1>16. CASE Assembles(e)
  <2> DEFINE words == Corrected(r.words, r.glossary)
             whole == [duration |-> r.duration, words |-> words, missing |-> r.missing,
                       glossary |-> r.glossary]
  <2>1. /\ r # None /\ r.at = "chunk" /\ UNCHANGED <<length, chunks>>
        /\ transcript' = whole
    BY <1>16 DEF Assembles, At
  <2>2. Known(words) = Known(r.words)
    <3>1. r.words \in Words /\ r.glossary \in Glossaries
      BY <1>10, <2>1 DEF Run, Transcribing
    <3> QED BY <3>1, CorrectionsKeepPlace
  <2> HIDE DEF words
  <2>3. transcript'.duration = r.duration /\ transcript'.words = words
    BY <2>1
  <2> HIDE DEF whole
  <2>4. \A i \in Known(r.words) :
          i \in Known(chunks) /\ LengthOf(i, r.duration) <= chunks[i].length
    <3> SUFFICES ASSUME NEW i \in Known(r.words)
                 PROVE  i \in Known(chunks) /\ LengthOf(i, r.duration) <= chunks[i].length
      OBVIOUS
    <3>1. i \in Known(chunks) /\ chunks[i].length = LengthOf(i, r.duration)
      BY <1>10, <2>1 DEF HearsNoLess
    <3>2. chunks[i].length \in Int
      BY <1>3, <3>1 DEF Known, StreamTypeOK
    <3> QED BY <3>1, <3>2
  <2>5. r.duration <= length
    BY <1>10, <2>1 DEF HearsNoLess
  <2>6. CacheMovesForward'
    BY <2>1, <2>2, <2>3, <2>4, <2>5 DEF HInv, CacheMovesForward
  <2>7. run'[e] # None => run'[e].at \notin Hearing
    <3>1. Ends(e) \/ Scans(e, words)
      BY <1>16 DEF Assembles, words
    <3>2. CASE Ends(e)
      BY <1>3, <3>2 DEF Ends
    <3>3. CASE Scans(e, words)
      <4> DEFINE n == NewRun(r.kind, "window", None, r.of)
                 s == [n EXCEPT !.stop = r.stop, !.words = words]
                 t == NewRun(r.kind, "write", None, None)
      <4>1. s.at = "window" /\ t.at = "write"
        BY DEF NewRun
      <4>2. run'[e] = s \/ run'[e] = t
        BY <1>4, <3>3 DEF Scans
      <4> QED BY <4>1, <4>2 DEF Hearing
    <3> QED BY <3>1, <3>2, <3>3
  <2>8. \A f \in Events : run'[f] # None => run'[f].at \notin {"chunk", "decode"}
    BY <1>2, <2>1, <2>7, HearsAlone DEF HInv, Hearing
  <2>9. RunsHearNoLess'
    BY <2>8 DEF RunsHearNoLess
  <2> QED BY <2>6, <2>9
<1> QED
  BY <1>2, <1>6, <1>7, <1>8, <1>9, <1>12, <1>13, <1>14, <1>15, <1>16

LEMMA HearingInit == Init => HInv
<1> SUFFICES ASSUME Init PROVE HInv
  OBVIOUS
<1>1. IInv
  BY InitEstablishes
<1>2. Known(chunks) = {}
  BY NothingIsKnown DEF Init
<1> QED
  BY <1>1, <1>2 DEF HInv, Init, HearingIsLocked, CacheMovesForward, RunsHearNoLess

LEMMA HearingStep == HInv /\ [Next]_streamVars => HInv'
<1> SUFFICES ASSUME HInv, [Next]_streamVars PROVE HInv'
  OBVIOUS
<1>1. IInv'
  BY StepKeepsInvariant DEF HInv
<1>2. CASE Next
  BY <1>1, <1>2, StepHearsOn, StepKeepsLock DEF HInv
<1>3. CASE UNCHANGED streamVars
  BY <1>1, <1>3 DEF HInv, streamVars, kept, HearingIsLocked, CacheMovesForward, RunsHearNoLess,
                    HearsNoLess, SameChunk
<1> QED BY <1>2, <1>3

LEMMA HearingHolds == StreamSpec => []HInv
<1> QED BY HearingInit, HearingStep, PTL DEF StreamSpec

\* What was heard once is heard in every later transcript whose window for it is
\* the same (stream_transcribe.py:336): a new one is only ever assembled by the
\* holder of the lock, which has passed every chunk and found it in the cache.
THEOREM NothingHeardIsEverLost == StreamSpec => NothingHeardIsLost
<1> DEFINE NoneLost == transcript # None /\ transcript' # None =>
             \A i \in Known(transcript.words) :
               LengthOf(i, transcript.duration) = LengthOf(i, transcript'.duration)
                 => i \in Known(transcript'.words)
<1>1. HInv /\ [Next]_streamVars => [NoneLost]_streamVars
  <2> SUFFICES ASSUME HInv, Next, transcript # None, transcript' # None,
                      NEW i \in Known(transcript.words),
                      LengthOf(i, transcript.duration) = LengthOf(i, transcript'.duration)
               PROVE  i \in Known(transcript'.words)
    OBVIOUS
  <2>1. CASE UNCHANGED transcript
    BY <2>1
  <2>2. CASE transcript' # transcript
    <3>1. PICK e \in Events : Assembles(e)
      BY <2>2, HearingSteps DEF HInv, kept, Grows, TranscribeStarts, CliDetectStarts, Downloads,
         TakesCachedChunk, StartsDecoding, Decodes, DecodeFails, AskedToStop
    <3> DEFINE r == run[e]
    <3>2. /\ r # None /\ r.at = "chunk" /\ r.next \notin ChunksOf(r.duration)
          /\ transcript'.duration = r.duration
          /\ transcript'.words = Corrected(r.words, r.glossary)
      BY <3>1 DEF Assembles, At
    <3>3. r \in Run /\ Transcribing(r) /\ HearsNoLess(r)
      BY <3>2, RunIsTyped DEF HInv, IInv, RunsHearNoLess
    <3>4. r.duration \in Lengths /\ r.next \in Nat /\ r.words \in Words /\ r.glossary \in Glossaries
      BY <3>2, <3>3 DEF Transcribing, Run
    <3>5. transcript.duration \in Lengths /\ i \in ChunksOf(transcript.duration)
      BY DEF HInv, IInv, StreamTypeOK, Transcript, TranscriptCoversItsStream
    <3>6. i \in ChunksOf(r.duration)
      BY <3>3, <3>4, <3>5, ChunksGrow DEF HearsNoLess
    <3>7. i \in Indices /\ i < r.next
      BY <3>2, <3>4, <3>6, PastTheLastChunk DEF Behind, Indices
    <3>8. i \in Known(r.words)
      BY <3>2, <3>3, <3>7 DEF HearsNoLess, SameChunk
    <3> QED BY <3>2, <3>4, <3>8, CorrectionsKeepPlace
  <2> QED BY <2>1, <2>2
<1> QED BY <1>1, HearingHolds, PTL DEF StreamSpec, NothingHeardIsLost

=============================================================================
