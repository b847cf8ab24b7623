------------------------------- MODULE Stream -------------------------------
(***************************************************************************)
(* What is kept of one stream, in streams/<video id>/: the chunk cache and *)
(* transcript.json of a transcription, the window cache and moments.json   *)
(* of a detection (stream_transcribe.py, detect.py, moment_scan.py, and    *)
(* the jobs and the command that run them).  A run holds the lock of its   *)
(* event; only a transcription takes the lock of the stream, so runs of    *)
(* two events meet in the stream's files.  Every file is replaced whole.   *)
(***************************************************************************)
EXTENDS Naturals, FiniteSets

CONSTANTS
  Events,       \* events that look at the stream: one run each at a time
  Glossaries,   \* corrections a channel may ask for
  Questions,    \* engine and markers: what a model is asked, the words aside
  ChunkSeconds,
  Lengths,      \* how long the stream may be when a run asks
  None

\* chunk_windows: the last one may be short.
ChunksOf(duration) == {i \in 0..duration : i * ChunkSeconds < duration}
LengthOf(i, duration) ==
  IF (i + 1) * ChunkSeconds <= duration THEN ChunkSeconds ELSE duration - i * ChunkSeconds

Indices == UNION {ChunksOf(d) : d \in Lengths}
Windows == 0..(Cardinality(Indices) - 1)
NoWords == [i \in Indices |-> None]
NoAnswers == [w \in Windows |-> None]
Known(f) == {i \in DOMAIN f : f[i] # None}
\* split_windows: the more words, the more windows, numbered from 0.
WindowsOf(words) == {w \in Windows : w < Cardinality(Known(words))}

\* The words of a chunk: how much of the stream they are, which corrections
\* were made to them.
Text == [length : 1..ChunkSeconds, corrected : SUBSET Glossaries]
Words == [Indices -> Text \cup {None}]
Question == [of : Questions, words : Words]   \* window_fingerprint
Transcript == [duration : Lengths, words : Words, missing : SUBSET Indices,
               glossary : Glossaries]
Analysis == [asked : Question \cup {None}, answers : [Windows -> Question \cup {None}],
             failed : SUBSET Windows]

Run == [kind : {"transcribe", "detect", "both"},
        at : {"download", "chunk", "decode", "read", "window", "ask", "write"},
        stop : {"no", "stop", "kill"},
        glossary : Glossaries \cup {None}, of : Questions \cup {None},
        next : Nat, duration : Lengths \cup {0}, words : Words,
        missing : SUBSET Indices, scored : [Windows -> Question \cup {None}],
        failed : SUBSET Windows]

ASSUME StreamAssumption ==
  /\ ChunkSeconds \in Nat \ {0}
  /\ Lengths \subseteq Nat \ {0} /\ IsFiniteSet(Lengths)
  /\ None \notin Events \cup Glossaries \cup Questions
  /\ None \notin Text \cup Question \cup Transcript \cup Analysis \cup Run

VARIABLES
  length,      \* how long the stream is by now
  chunks,      \* chunks/NNN.json
  transcript,  \* transcript.json
  windows,     \* windows/NNN.json: the question each answers
  analysis,    \* moments.json
  lock,        \* the event whose run holds the stream's lock
  run,         \* the run that holds the lock of each event
  answered     \* history: what each window answered last, if that could be written

kept == <<chunks, transcript, windows, analysis>>
streamVars == <<length, kept, lock, run, answered>>

At(e, place) == run[e] # None /\ run[e].at = place
Becomes(e, r) == run' = [run EXCEPT ![e] = r]
Unlocked(e) == IF lock = e THEN None ELSE lock
Ends(e) == run' = [run EXCEPT ![e] = None] /\ lock' = Unlocked(e)

NewRun(kind, at, glossary, of) ==
  [kind |-> kind, at |-> at, stop |-> "no", glossary |-> glossary, of |-> of, next |-> 0,
   duration |-> 0, words |-> NoWords, missing |-> {}, scored |-> NoAnswers, failed |-> {}]

-----------------------------------------------------------------------------
(* A run begins, is asked to stop, ends too early. *)

\* start_transcribe_job: both locks, or no job.
TranscribeStarts(e, g) ==
  /\ run[e] = None /\ lock = None
  /\ Becomes(e, NewRun("transcribe", "download", g, None)) /\ lock' = e
  /\ UNCHANGED <<length, kept, answered>>

\* start_detect_job: with what is transcribed already, or not at all.
DetectStarts(e, q) ==
  /\ run[e] = None
  /\ Becomes(e, NewRun("detect", "read", None, q))
  /\ UNCHANGED <<length, kept, lock, answered>>

\* cmd_detect: transcribe, then scan; a stream that is taken ends it at once.
CliDetectStarts(e, g, q) ==
  /\ run[e] = None /\ lock = None
  /\ Becomes(e, NewRun("both", "download", g, q)) /\ lock' = e
  /\ UNCHANGED <<length, kept, answered>>

\* Only the jobs of the queue have a token; a kill is a stop that stays one, and
\* only a transcription has a worker to tell the two apart.
AskedToStop(e, stop) ==
  /\ run[e] # None /\ run[e].kind # "both" /\ run[e].stop # "kill"
  /\ stop # run[e].stop /\ (stop = "kill" => run[e].kind = "transcribe")
  /\ Becomes(e, [run[e] EXCEPT !.stop = stop])
  /\ UNCHANGED <<length, kept, lock, answered>>

\* The process dies, or a file cannot be read or written.
BreaksOff(e) ==
  /\ run[e] # None
  /\ Ends(e)
  /\ UNCHANGED <<length, kept, answered>>

\* A live stream goes on.
Grows ==
  /\ \E d \in Lengths : d > length /\ length' = d
  /\ UNCHANGED <<kept, lock, run, answered>>

-----------------------------------------------------------------------------
(* _transcribe_stream *)

Downloads(e) ==
  /\ At(e, "download")
  /\ Becomes(e, [run[e] EXCEPT !.at = "chunk", !.duration = length])
  /\ UNCHANGED <<length, kept, lock, answered>>

DownloadFails(e) ==
  /\ At(e, "download")
  /\ Ends(e)
  /\ UNCHANGED <<length, kept, answered>>

\* The top of the loop.
AtChunk(e) == At(e, "chunk") /\ run[e].next \in ChunksOf(run[e].duration)

NextChunk(e, words, missing) ==
  Becomes(e, [run[e] EXCEPT !.at = "chunk", !.next = @ + 1,
                            !.words = words, !.missing = missing])

\* Faulty variant: a stop leaves with the transcript so far.
StopsShort(e) ==
  /\ AtChunk(e) /\ run[e].stop # "no"
  /\ transcript' = [duration |-> run[e].duration, words |-> run[e].words,
                    missing |-> run[e].missing, glossary |-> run[e].glossary]
  /\ Ends(e)
  /\ UNCHANGED <<length, chunks, windows, analysis, answered>>

StopsAtChunk(e) ==
  /\ AtChunk(e) /\ run[e].stop # "no"
  /\ Ends(e)
  /\ UNCHANGED <<length, kept, answered>>

\* Faulty variant: the window is compared with the whole stream.
CachedForStream(e) ==
  /\ chunks[run[e].next] # None
  /\ chunks[run[e].next].length = run[e].duration
\* _read_cached_chunk: for exactly this window.
Cached(e) ==
  /\ chunks[run[e].next] # None
  /\ chunks[run[e].next].length = LengthOf(run[e].next, run[e].duration)

TakesCachedChunk(e) ==
  /\ AtChunk(e) /\ run[e].stop = "no" /\ Cached(e)
  /\ NextChunk(e, [run[e].words EXCEPT ![run[e].next] = chunks[run[e].next]], run[e].missing)
  /\ UNCHANGED <<length, kept, lock, answered>>

StartsDecoding(e) ==
  /\ AtChunk(e) /\ run[e].stop = "no" /\ ~Cached(e)
  /\ Becomes(e, [run[e] EXCEPT !.at = "decode"])
  /\ UNCHANGED <<length, kept, lock, answered>>

\* Terms only: the cache keeps what was heard.
Heard(e) == [length |-> LengthOf(run[e].next, run[e].duration), corrected |-> {}]

\* The worker ends by itself, even if a kill has come meanwhile.  Nobody else
\* writes a chunk, so the decode and its file are one step.
Decodes(e) ==
  /\ At(e, "decode")
  /\ chunks' = [chunks EXCEPT ![run[e].next] = Heard(e)]
  /\ NextChunk(e, [run[e].words EXCEPT ![run[e].next] = Heard(e)], run[e].missing)
  /\ UNCHANGED <<length, transcript, windows, analysis, lock, answered>>

\* An error, or the timeout.
DecodeFails(e) ==
  /\ At(e, "decode")
  /\ NextChunk(e, run[e].words, run[e].missing \cup {run[e].next})
  /\ UNCHANGED <<length, kept, lock, answered>>

DecodeIsKilled(e) ==
  /\ At(e, "decode") /\ run[e].stop = "kill"
  /\ Ends(e)
  /\ UNCHANGED <<length, kept, answered>>

Corrected(words, g) ==
  [i \in Indices |-> IF words[i] = None THEN None ELSE [words[i] EXCEPT !.corrected = @ \cup {g}]]

\* The scan begins: what the transcription needed is left behind.  One engine for
\* the whole run; without words, or without a model to reach, it asks nothing.
Scans(e, words) ==
  \/ /\ Known(words) # {}
     /\ Becomes(e, [NewRun(run[e].kind, "window", None, run[e].of)
                     EXCEPT !.stop = run[e].stop, !.words = words])
  \/ Becomes(e, NewRun(run[e].kind, "write", None, None))

\* A stop that comes after the last chunk comes too late.
Assembles(e) ==
  /\ At(e, "chunk") /\ run[e].next \notin ChunksOf(run[e].duration)
  /\ LET words == Corrected(run[e].words, run[e].glossary)
     IN /\ transcript' = [duration |-> run[e].duration, words |-> words,
                          missing |-> run[e].missing, glossary |-> run[e].glossary]
        /\ IF run[e].kind = "transcribe"
           THEN Ends(e)
           ELSE Scans(e, words) /\ lock' = Unlocked(e)
  /\ UNCHANGED <<length, chunks, windows, analysis, answered>>

-----------------------------------------------------------------------------
(* detect_moments *)

\* require_cached_transcript.
ReadsTranscript(e) ==
  /\ At(e, "read") /\ transcript # None
  /\ Scans(e, transcript.words)
  /\ UNCHANGED <<length, kept, lock, answered>>

FindsNoTranscript(e) ==
  /\ At(e, "read") /\ transcript = None
  /\ Ends(e)
  /\ UNCHANGED <<length, kept, answered>>

Asked(e) == [of |-> run[e].of, words |-> run[e].words]

AtWindow(e) == At(e, "window") /\ run[e].next \in WindowsOf(run[e].words)

NextWindow(e, scored, failed) ==
  Becomes(e, [run[e] EXCEPT !.at = "window", !.next = @ + 1,
                            !.scored = scored, !.failed = failed])

StopsAtWindow(e) ==
  /\ AtWindow(e) /\ run[e].stop # "no"
  /\ Ends(e)
  /\ UNCHANGED <<length, kept, answered>>

\* Faulty variant: the window's number is the whole key.
ScoredByNumber(e) == windows[run[e].next] # None
\* WindowCache.get: an answer to exactly this question.
Scored(e) == windows[run[e].next] = Asked(e)

TakesCachedWindow(e) ==
  /\ AtWindow(e) /\ run[e].stop = "no" /\ Scored(e)
  /\ NextWindow(e, [run[e].scored EXCEPT ![run[e].next] = windows[run[e].next]], run[e].failed)
  /\ UNCHANGED <<length, kept, lock, answered>>

AsksModel(e) ==
  /\ AtWindow(e) /\ run[e].stop = "no" /\ ~Scored(e)
  /\ Becomes(e, [run[e] EXCEPT !.at = "ask"])
  /\ UNCHANGED <<length, kept, lock, answered>>

\* WindowCache.put
Puts(e) == windows' = [windows EXCEPT ![run[e].next] = Asked(e)]

ModelAnswers(e) ==
  /\ At(e, "ask")
  /\ NextWindow(e, [run[e].scored EXCEPT ![run[e].next] = Asked(e)], run[e].failed)
  /\ Puts(e) /\ answered' = [answered EXCEPT ![run[e].next] = Asked(e)]
  /\ UNCHANGED <<length, chunks, transcript, analysis, lock>>

\* A cache that cannot be written never costs the run.
ModelAnswersUnkept(e) ==
  /\ At(e, "ask")
  /\ NextWindow(e, [run[e].scored EXCEPT ![run[e].next] = Asked(e)], run[e].failed)
  /\ UNCHANGED <<length, kept, lock, answered>>

ModelFails(e) ==
  /\ At(e, "ask")
  /\ NextWindow(e, run[e].scored, run[e].failed \cup {run[e].next})
  /\ UNCHANGED <<length, kept, lock, answered>>

ScanEnds(e) == At(e, "window") /\ run[e].next \notin WindowsOf(run[e].words)

WritesAnalysis(e) ==
  /\ At(e, "write") \/ ScanEnds(e)
  /\ analysis' = [asked |-> IF run[e].of = None THEN None ELSE Asked(e),
                  answers |-> run[e].scored, failed |-> run[e].failed]
  /\ Ends(e)
  /\ UNCHANGED <<length, chunks, transcript, windows, answered>>

-----------------------------------------------------------------------------
Init ==
  /\ length \in Lengths
  /\ chunks = NoWords /\ transcript = None
  /\ windows = NoAnswers /\ analysis = None
  /\ lock = None /\ run = [e \in Events |-> None]
  /\ answered = windows

Starts(e) ==
  \/ \E g \in Glossaries : TranscribeStarts(e, g)
  \/ \E q \in Questions : DetectStarts(e, q)
  \/ \E g \in Glossaries, q \in Questions : CliDetectStarts(e, g, q)

TranscribeStep(e) ==
  \/ Downloads(e) \/ DownloadFails(e)
  \/ StopsAtChunk(e) \/ TakesCachedChunk(e) \/ StartsDecoding(e) \/ Decodes(e)
  \/ DecodeFails(e) \/ DecodeIsKilled(e) \/ Assembles(e)

DetectStep(e) ==
  \/ ReadsTranscript(e) \/ FindsNoTranscript(e)
  \/ StopsAtWindow(e) \/ TakesCachedWindow(e) \/ AsksModel(e) \/ ModelAnswers(e)
  \/ ModelAnswersUnkept(e) \/ ModelFails(e) \/ WritesAnalysis(e)

Next ==
  \/ Grows
  \/ \E e \in Events :
       \/ Starts(e) \/ TranscribeStep(e) \/ DetectStep(e) \/ BreaksOff(e)
       \/ \E stop \in {"stop", "kill"} : AskedToStop(e, stop)

StreamSpec == Init /\ [][Next]_streamVars

-----------------------------------------------------------------------------
(* Properties *)

\* Every variable keeps its type, and a chunk is cached as it was heard.
StreamTypeOK ==
  /\ length \in Lengths
  /\ chunks \in [Indices -> [length : 1..ChunkSeconds, corrected : {{}}] \cup {None}]
  /\ transcript \in Transcript \cup {None}
  /\ windows \in [Windows -> Question \cup {None}]
  /\ analysis \in Analysis \cup {None}
  /\ lock \in Events \cup {None}
  /\ run \in [Events -> Run \cup {None}]
  /\ answered \in [Windows -> Question \cup {None}]

\* A transcript is whole: every chunk of its stream was looked at, is there at
\* its full length or is named as missing, whatever was stopped, cached for a
\* shorter stream or broken off before (stream_transcribe.py:451).
TranscriptCoversItsStream ==
  transcript # None =>
    /\ Known(transcript.words) \cup transcript.missing = ChunksOf(transcript.duration)
    /\ Known(transcript.words) \cap transcript.missing = {}
    /\ \A i \in Known(transcript.words) :
         transcript.words[i].length = LengthOf(i, transcript.duration)

\* A transcript is corrected by the glossary it was assembled with and by no
\* other, however old its cached chunks are (stream_transcribe.py:203).
CorrectedByOneGlossary ==
  transcript # None =>
    \A i \in Known(transcript.words) : transcript.words[i].corrected = {transcript.glossary}

\* What was heard once is heard in every later transcript, as long as its window
\* stays the same: a failure never takes words back.
NothingHeardIsLost ==
  [][transcript # None /\ transcript' # None =>
       \A i \in Known(transcript.words) :
         LengthOf(i, transcript.duration) = LengthOf(i, transcript'.duration)
           => i \in Known(transcript'.words)]_streamVars

\* moments.json is the answer to one question: one engine, one vocabulary and one
\* transcript for all its windows, each of which is scored or named as failed,
\* although runs of other events write the same cache.
AnalysisAnswersOneQuestion ==
  analysis # None /\ analysis.asked # None =>
    /\ Known(analysis.answers) \cup analysis.failed = WindowsOf(analysis.asked.words)
    /\ \A w \in Known(analysis.answers) : analysis.answers[w] = analysis.asked

\* A model is never asked what a window answered last and could be written:
\* stopping a scan costs nothing.
NothingIsAskedAgain ==
  [][\A e \in Events :
       At(e, "window") /\ run'[e] # None /\ run'[e].at = "ask"
         => answered[run[e].next] # Asked(e)]_streamVars
=============================================================================
