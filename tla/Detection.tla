------------------------------ MODULE Detection ------------------------------
(***************************************************************************)
(* One run of detect.detect_moments over a finished transcript: the vendor *)
(* is chosen and its key read, a client is built or the lexicon takes over,*)
(* every window is put to the model and what comes back is read the way    *)
(* that vendor's provider reads it (providers/*.py), and the moments are   *)
(* merged.  The pure steps are in Moments; the caches are in Stream.       *)
(***************************************************************************)
EXTENDS Moments

CONSTANTS
  Transcripts,  \* the word sequences a stream may have
  Lexicons,     \* the marker sequences a channel may have
  Answers,      \* the candidate lists a model may answer with
  None

\* Words come in the order they are spoken in, and none ends before it starts.
InOrder(words) ==
  \A i, j \in DOMAIN words :
    /\ words[i].start <= words[i].end
    /\ i <= j => words[i].start <= words[j].start /\ words[i].end <= words[j].end

Vendors == {"anthropic", "gemini", "openai"}
\* What auth/<vendor>.json may hold.
KeyFiles == {"absent", "unreadable", "empty", "raw", "object", "bad json", "no api_key"}

VARIABLES
  config,   \* the vendor and the transcript of this run; constant
  phase,    \* where detect_moments is
  lines,    \* scan's lines of the transcript ...
  windows,  \* ... and its windows on them
  asked,    \* per window: what the vendor sent back and what was made of it
  found,    \* scan's result.moments before the merge
  missing,  \* result.missing_windows
  unscanned,
  usage,    \* providers.Usage: calls and tokens
  analysis  \* moments.json, or None

scanVars == <<lines, windows>>
vars == <<config, phase, scanVars, asked, found, missing, unscanned, usage, analysis>>

----------------------------------------------------------------------------
(* What a vendor sends back: how the answer ended, its text, the candidates  *)
(* in the text, and the tokens it reports (None where it reports none).      *)

Thoughtful == [output |-> 1, thought |-> 1]
Thoughtless == [output |-> 1, thought |-> None]
Unreported == [output |-> None, thought |-> None]
Plain(ends, texts) ==
  [ended : ends, text : texts, moments : {None}, spent : {Thoughtful}]
\* A refusal may leave part of an answer behind.
Responses ==
  Plain({"complete"}, {"not json", "empty", "not text", "no list"})
    \cup Plain({"cut off"}, {"not json", "empty"})
    \cup Plain({"refused"}, {"not json", "empty"})
    \cup [ended : {"refused"}, text : {"answer"}, moments : Answers, spent : {Thoughtful}]
    \cup [ended : {"complete"}, text : {"answer"}, moments : Answers,
          spent : {Thoughtful, Thoughtless, Unreported}]

\* json.loads(text), and then scan's answer["moments"].
Parse(r) ==
  CASE r.text = "answer" -> "answer"
    [] r.text = "no list" -> "no list"
    [] OTHER -> "not json"

\* Anthropic's text blocks are joined, so no text at all is an empty string.
ReadAnthropic(r) ==
  CASE r.ended = "refused" -> "refused"
    [] r.ended = "cut off" -> "cut off"
    [] OTHER -> Parse(r)

ReadText(r) == IF r.text \in {"empty", "not text"} THEN r.text ELSE Parse(r)

\* Gemini has one status for an answer and others for everything else.
ReadGemini(r) == IF r.ended # "complete" THEN "no answer" ELSE ReadText(r)

\* Faulty variant: the refusal part is not looked for.
ReadOpenAIUnrefused(r) == IF r.ended = "cut off" THEN "no answer" ELSE ReadText(r)

\* OpenAI refuses inside a completed response.
ReadOpenAI(r) ==
  CASE r.ended = "cut off" -> "no answer"
    [] r.ended = "refused" -> "refused"
    [] OTHER -> ReadText(r)

Read(vendor, r) ==
  CASE vendor = "anthropic" -> ReadAnthropic(r)
    [] vendor = "gemini" -> ReadGemini(r)
    [] vendor = "openai" -> ReadOpenAI(r)

\* A number that is missing or no number counts as none.
Count(reported) == IF reported = None THEN 0 ELSE reported

\* Gemini reports thought beside output ...
GeminiTokens(r) == Count(r.spent.output) + Count(r.spent.thought)

\* ... and the others count it in already.
Tokens(vendor, r) == IF vendor = "gemini" THEN GeminiTokens(r) ELSE Count(r.spent.output)

\* Faulty variant: only an answer that could be read is booked.
RecordAnswersOnly(u, vendor, r) ==
  IF Read(vendor, r) # "answer" THEN u
  ELSE [calls |-> u.calls + 1, tokens |-> u.tokens + Tokens(vendor, r)]

\* usage.record, before the response is looked at.
Record(u, vendor, r) ==
  [calls |-> u.calls + 1, tokens |-> u.tokens + Tokens(vendor, r)]

ASSUME DetectionAssumption ==
  /\ \A words \in Transcripts :
       words \in Seq([start : Int, end : Int, text : {words[i].text : i \in DOMAIN words}])
  /\ \A words \in Transcripts : InOrder(words)
  /\ \A answer \in Answers : answer \in Seq(ToSet(answer))
  /\ None \notin Nat \cup Responses

----------------------------------------------------------------------------
\* load_api_key: every other file is MissingKey.
HasKey(file) == file \in {"raw", "object"}

Init ==
  /\ config \in [vendor : Vendors, words : Transcripts]
  /\ phase = "engine"
  /\ lines = <<>> /\ windows = <<>>
  /\ asked = <<>> /\ found = <<>> /\ missing = {} /\ unscanned = {}
  /\ usage = [calls |-> 0, tokens |-> 0]
  /\ analysis = None

Writes(engine, moments) ==
  /\ analysis' = [engine |-> engine, moments |-> moments, missing |-> missing]
  /\ phase' = "done"

\* _caller_from_config: a key and its SDK must be there ...
ChooseModel(file) ==
  /\ phase = "engine"
  /\ config.words # <<>>
  /\ HasKey(file)
  /\ phase' = "client"
  /\ UNCHANGED <<config, scanVars, asked, found, missing, unscanned, usage, analysis>>

\* ... and the SDK must take the key: make_caller of the vendor, then scan begins.
BuildClient ==
  /\ phase = "client"
  /\ phase' = "scan"
  /\ lines' = GroupLines(config.words)
  /\ windows' = SplitWindows(lines')
  /\ UNCHANGED <<config, asked, found, missing, unscanned, usage, analysis>>

\* One engine per run: whatever keeps a caller from being there, the lexicon
\* scores the whole stream; a stream without words needs no engine.
UseLexicon ==
  /\ phase \in {"engine", "client"}
  /\ IF config.words = <<>> THEN Writes("none", <<>>)
     ELSE \E markers \in Lexicons :
            Writes("lexicon", LexiconMoments(config.words, markers))
  /\ UNCHANGED <<config, scanVars, asked, found, missing, unscanned, usage>>

Next1 == Len(asked) + 1   \* the window at hand

\* The SDK raises: no response, no usage, a missing window.
CallRaises ==
  /\ phase = "scan"
  /\ Next1 <= Len(windows)
  /\ asked' = Append(asked, [response |-> None, outcome |-> "raised"])
  /\ missing' = missing \cup {Next1}
  /\ UNCHANGED <<config, scanVars, phase, found, unscanned, usage, analysis>>

\* A response arrives; only an answer contributes, anything else is a hole.
Ask(r) ==
  LET outcome == Read(config.vendor, r) IN
  /\ phase = "scan"
  /\ Next1 <= Len(windows)
  /\ asked' = Append(asked, [response |-> r, outcome |-> outcome])
  /\ usage' = Record(usage, config.vendor, r)
  /\ IF outcome = "answer"
     THEN /\ found' = found \o Contribution(r.moments, windows[Next1], lines)
          /\ UNCHANGED missing
     ELSE /\ missing' = missing \cup {Next1}
          /\ UNCHANGED found
  /\ UNCHANGED <<config, scanVars, phase, unscanned, analysis>>

\* should_stop, at the top of the loop: what is left was not looked at, and
\* the run raises Stopped without writing an analysis.
Stop ==
  /\ phase = "scan"
  /\ Next1 <= Len(windows)
  /\ unscanned' = Next1..Len(windows)
  /\ phase' = "stopped"
  /\ UNCHANGED <<config, scanVars, asked, found, missing, usage, analysis>>

FinishScan ==
  /\ phase = "scan"
  /\ Next1 > Len(windows)
  /\ Writes("model", MergeMoments(found))
  /\ UNCHANGED <<config, scanVars, asked, found, missing, unscanned, usage>>

Next ==
  \/ (\E file \in KeyFiles : ChooseModel(file)) \/ BuildClient \/ UseLexicon
  \/ CallRaises \/ (\E r \in Responses : Ask(r))
  \/ Stop \/ FinishScan

Spec == Init /\ [][Next]_vars

----------------------------------------------------------------------------
(* What must hold *)

\* A window has moments to give or is named as missing, the two never mix, and
\* no refused or cut off response passes for an answer or for bad JSON, in
\* any vendor's dialect (make_caller of each provider, scan).  Every span of
\* lines that could be a moment was asked about as a whole, wherever the seams
\* fall and the stream is silent (split_windows): what an analysis lacks, it
\* names.
HolesAreNamed ==
  /\ \A w \in DOMAIN asked :
       /\ w \in missing <=> asked[w].outcome # "answer"
       /\ asked[w].outcome \in {"answer", "not json", "empty"} =>
            asked[w].response.ended = "complete"
  /\ \A i, j \in DOMAIN lines :
       i <= j /\ Acceptable([first |-> i, last |-> j], lines) =>
         \E w \in DOMAIN windows : i..j \subseteq windows[w]
  /\ analysis # None /\ analysis.engine = "model" =>
       /\ Len(asked) = Len(windows) /\ unscanned = {}
       /\ analysis.missing = missing

\* Every response was paid for and is counted, also when it was refused, cut
\* off or unreadable, and a thought is counted once; a usage that cannot be
\* read costs its numbers and not the window (Usage.record).
SpentTokensAreCounted ==
  LET answered == {w \in DOMAIN asked : asked[w].response # None}
      Billed(r) ==
        CASE r.spent = Unreported -> 0
          [] config.vendor = "gemini" /\ r.spent = Thoughtful -> 2
          [] OTHER -> 1
  IN  /\ usage.calls = Cardinality(answered)
      /\ usage.tokens =
           Cardinality(UNION {{w} \X (1..Billed(asked[w].response)) : w \in answered})

\* The merged moments are in order and do not overlap, each was found, and
\* one that was found is only gone because another one that overlaps it
\* scored as high (merge_moments).
MergeKeepsTheBest ==
  phase = "done" /\ analysis.engine = "model" =>
    LET kept == analysis.moments IN
    /\ \A i, j \in DOMAIN kept : i < j => kept[i].end <= kept[j].start
    /\ ToSet(kept) \subseteq ToSet(found)
    /\ \A m \in ToSet(found) \ ToSet(kept) :
         \E n \in ToSet(found) \ {m} : Overlap(m, n) /\ n.score >= m.score

=============================================================================
