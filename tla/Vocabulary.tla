------------------------------ MODULE Vocabulary ------------------------------
(***************************************************************************)
(* The layered vocabulary of a workspace: the excitement lexicon           *)
(* (moments.json; lexicon.py, lexicon_admin.py) and the glossary           *)
(* (glossary.json; glossary.py, glossary_admin.py, tracks.py).  Each has   *)
(* one file at the workspace, at a channel and at an event.  profile.load  *)
(* folds the layers into what a run uses; the studio's editors read the    *)
(* same layers to show them and overwrite one of them.                     *)
(*                                                                         *)
(* A scope is the path to its file: <<>>, <<channel>>, <<channel, event>>. *)
(* An entry is known to other layers by the Key of its spelling (case and  *)
(* punctuation do not count), and shown by the spelling itself.            *)
(***************************************************************************)
EXTENDS Integers, Sequences, FiniteSets, FiniteSetsExt, Functions

CONSTANTS
  Channels, Events,
  Spellings, Key,      \* normalise, normalise_term and normalise_key
  DefaultMarkers,      \* the built-in lexicon: Key -> weight
  MaxWeight,
  Packs,               \* PACKS: the vocabulary of each track
  MarkerPayloads,      \* spelling -> weight: a request's body, or a file's text
  GlossaryPayloads,    \* [terms, replacements, track]
  Absent, Unreadable,  \* a file that is not there, one that is not JSON
  Off, Blank,          \* a replacement by null, one by white space
  None

\* A marker file has a weight for each spelling in it, which need not be a valid one.
IsMarkerFile(raw) == DOMAIN raw \subseteq Spellings /\ raw \in [DOMAIN raw -> Int]
Terms == [spelling : Spellings, enabled : BOOLEAN]

ASSUME VocabularyAssumption ==
  /\ Key \in [Spellings -> Spellings]
  /\ \A x \in Spellings : Key[Key[x]] = Key[x]
  /\ MaxWeight \in Nat
  /\ IsMarkerFile(DefaultMarkers)
  /\ \A k \in DOMAIN DefaultMarkers : Key[k] = k /\ DefaultMarkers[k] \in 0..MaxWeight
  /\ \A raw \in MarkerPayloads : IsMarkerFile(raw)
  /\ \A p \in GlossaryPayloads \cup Range(Packs) : p.terms \in Seq(Terms)
  /\ \A spellings \in SUBSET Spellings : {Absent, Unreadable} \cap [spellings -> Int] = {}

VARIABLES
  moments,     \* moments.json, by scope
  glossaries   \* glossary.json, by scope

vocabularyVars == <<moments, glossaries>>

EventScopes   == Channels \X Events
ChannelScopes == {<<c>> : c \in Channels}
Scopes        == {<<>>} \cup ChannelScopes \cup EventScopes

\* The scopes that apply at s, the least specific first.
Upto(s) == [i \in 1..Len(s) + 1 |-> SubSeq(s, 1, i - 1)]
Levels  == <<"workspace", "channel", "event">>

\* The elements of a sequence at some of its places, in their order.
Pick(s, places) ==
  LET picked[n \in 0..Len(s)] ==
        IF n = 0 THEN <<>>
        ELSE IF n \in places THEN Append(picked[n - 1], s[n]) ELSE picked[n - 1]
  IN  picked[Len(s)]

KeysOf(spellings) == {Key[x] : x \in spellings}
KeysDiffer(spellings) == \A x, y \in spellings : Key[x] = Key[y] => x = y
SpellingOf(k, spellings) == CHOOSE x \in spellings : Key[x] = k

\* {**base, **over}: what the more specific layer says wins.
Over(over, base) ==
  [k \in DOMAIN over \cup DOMAIN base |-> IF k \in DOMAIN over THEN over[k] ELSE base[k]]
OverAll(layers) ==
  LET saying(k) == {i \in DOMAIN layers : k \in DOMAIN layers[i]}
  IN  [k \in UNION {DOMAIN layers[i] : i \in DOMAIN layers} |-> layers[Max(saying(k))][k]]

----------------------------------------------------------------------------
(* The lexicon *)

ValidMarkers(raw) ==
  /\ KeysDiffer(DOMAIN raw)
  /\ \A x \in DOMAIN raw : raw[x] \in 0..MaxWeight

NormalMarkers(raw) == [k \in KeysOf(DOMAIN raw) |-> raw[SpellingOf(k, DOMAIN raw)]]

MomentsAreBroken(s) ==
  moments[s] # Absent /\ (moments[s] = Unreadable \/ ~ValidMarkers(moments[s]))

\* lexicon.load, and {} for a file that is not there or, in the editor, broken.
MarkersAt(s) ==
  IF moments[s] = Absent \/ MomentsAreBroken(s) THEN <<>> ELSE NormalMarkers(moments[s])

\* A weight of 0 switches a marker off.
SwitchedOn(weights) == [k \in {x \in DOMAIN weights : weights[x] > 0} |-> weights[k]]

MergeLexicons(layers) == SwitchedOn(OverAll(layers))

\* _load_lexicon: what scores an event's clips, and the files it is refused for.
ScoringMarkers(s) ==
  LET scopes == Upto(s)
      there  == Pick(scopes, {i \in DOMAIN scopes : /\ moments[scopes[i]] # Absent
                                                   /\ ~MomentsAreBroken(scopes[i])})
  IN  MergeLexicons(<<DefaultMarkers>> \o [i \in DOMAIN there |-> NormalMarkers(moments[there[i]])])

LexiconProblems(s) == {u \in Range(Upto(s)) : MomentsAreBroken(u)}

\* What the lexicon's editor shows: entries that are switched off stay visible.
ReadLexicon(s) ==
  LET sources == <<"default">> \o Levels
      layers  == <<DefaultMarkers>> \o [i \in DOMAIN Upto(s) |-> MarkersAt(Upto(s)[i])]
  IN  [own       |-> MarkersAt(s),
       effective |-> OverAll([i \in DOMAIN layers |->
                       [k \in DOMAIN layers[i] |-> [weight |-> layers[i][k], source |-> sources[i]]]]),
       problems  |-> {u \in Range(Upto(s)) : MomentsAreBroken(u)}]

UpdateLexicon(s, raw) ==
  /\ ValidMarkers(raw)
  /\ moments' = [moments EXCEPT ![s] = NormalMarkers(raw)]
  /\ UNCHANGED glossaries

\* Faulty variant: the default replaces what the operator had of their own.
AdoptDefaultOverwriting ==
  /\ moments' = [moments EXCEPT ![<<>>] = DefaultMarkers]
  /\ UNCHANGED glossaries

AdoptDefault ==
  /\ moments' = [moments EXCEPT ![<<>>] = Over(MarkersAt(<<>>), DefaultMarkers)]
  /\ UNCHANGED glossaries

----------------------------------------------------------------------------
(* The glossary *)

ValidGlossary(p) ==
  /\ \A i, j \in DOMAIN p.terms : Key[p.terms[i].spelling] = Key[p.terms[j].spelling] => i = j
  /\ KeysDiffer(DOMAIN p.replacements)
  /\ \A x \in DOMAIN p.replacements : p.replacements[x] # Blank

\* parse_layer: terms in their order, each entry with its key beside its spelling.
ParseLayer(p) ==
  [terms        |-> [i \in DOMAIN p.terms |->
                       [key |-> Key[p.terms[i].spelling], spelling |-> p.terms[i].spelling,
                        enabled |-> p.terms[i].enabled]],
   replacements |-> [k \in KeysOf(DOMAIN p.replacements) |->
                       LET raw == SpellingOf(k, DOMAIN p.replacements)
                       IN  [raw |-> raw, text |-> p.replacements[raw]]],
   track        |-> p.track]

\* What the program ships it has parsed, or it would not start.
ASSUME PackAssumption == \A t \in DOMAIN Packs : ValidGlossary(Packs[t])

EmptyLayer == [terms |-> <<>>, replacements |-> <<>>, track |-> None]

\* _own_shape: the layer as its file and its editor spell it.
OwnShape(layer) ==
  [terms        |-> [i \in DOMAIN layer.terms |->
                       [spelling |-> layer.terms[i].spelling, enabled |-> layer.terms[i].enabled]],
   replacements |-> [x \in {r.raw : r \in Range(layer.replacements)} |->
                       layer.replacements[Key[x]].text],
   track        |-> layer.track]

GlossaryIsBroken(s) ==
  glossaries[s] # Absent /\ (glossaries[s] = Unreadable \/ ~ValidGlossary(glossaries[s]))

LayerAt(s) ==
  IF glossaries[s] = Absent \/ GlossaryIsBroken(s) THEN EmptyLayer ELSE ParseLayer(glossaries[s])

KnownTrack(id) == id \in DOMAIN Packs
PackOf(track) ==
  IF track # None /\ KnownTrack(track) THEN <<ParseLayer(Packs[track])>> ELSE <<>>

\* _check_track_scope and the unknown ids the editor warns of.
TrackProblems(s) ==
  {u \in Range(Upto(s)) : LayerAt(u).track # None
                          /\ (Len(u) < 2 \/ ~KnownTrack(LayerAt(u).track))}

\* The pack the event names comes before everything the operator wrote.
LayersAt(s) ==
  LET packs == PackOf(IF Len(s) = 2 THEN LayerAt(s).track ELSE None)
  IN  <<[source |-> "default", layer |-> EmptyLayer]>>
      \o [i \in DOMAIN packs |-> [source |-> "track", layer |-> packs[i]]]
      \o [i \in DOMAIN Upto(s) |-> [source |-> Levels[i], layer |-> LayerAt(Upto(s)[i])]]

\* Faulty variant: the layers are not reversed, and the least specific one wins.
TermsInLayerOrder(layers) ==
  LET all[n \in 0..Len(layers)] ==
        IF n = 0 THEN <<>> ELSE all[n - 1] \o layers[n].terms
  IN  all[Len(layers)]

\* The terms of all layers, the most specific layer first: the decoder's prompt
\* is cut at its end.
MostSpecificFirst(layers) ==
  LET all[n \in 0..Len(layers)] ==
        IF n = 0 THEN <<>> ELSE layers[n].terms \o all[n - 1]
  IN  all[Len(layers)]

\* The first of its key wins, as in setdefault.
Wins(terms, i) == \A j \in 1..i - 1 : terms[j].key # terms[i].key
SpellingsOf(terms) == [i \in DOMAIN terms |-> terms[i].spelling]

\* A replacement by null switches off what a less specific layer replaces.
InUse(texts) == [k \in {x \in DOMAIN texts : texts[x].text # Off} |-> texts[k]]

\* merge_glossaries
MergeGlossaries(layers) ==
  LET terms == MostSpecificFirst(layers)
  IN  [terms        |-> SpellingsOf(Pick(terms, {i \in DOMAIN terms :
                                                   Wins(terms, i) /\ terms[i].enabled})),
       replacements |-> InUse(OverAll([i \in DOMAIN layers |-> layers[i].replacements]))]

\* _load_glossary: the files that can be read, what they select and hold, and
\* what a run is refused for.
ReadableGlossaries(s) ==
  LET scopes == Upto(s)
  IN  Pick(scopes, {i \in DOMAIN scopes : /\ glossaries[scopes[i]] # Absent
                                          /\ ~GlossaryIsBroken(scopes[i])})

UsedGlossary(s) ==
  LET loaded  == ReadableGlossaries(s)
      parsed  == [i \in DOMAIN loaded |-> ParseLayer(glossaries[loaded[i]])]
      track   == IF s \in Range(loaded) THEN glossaries[s].track ELSE None
  IN  MergeGlossaries(<<EmptyLayer>> \o PackOf(track) \o parsed)

GlossaryProblems(s) ==
  LET naming == {u \in Range(ReadableGlossaries(s)) : glossaries[u].track # None}
  IN  {u \in Range(Upto(s)) : GlossaryIsBroken(u)}
        \cup {u \in naming : u # s \/ ~KnownTrack(glossaries[u].track)}

\* What the glossary's editor shows.  A track is the event's own and no other's.
ReadGlossary(s) ==
  LET layers == LayersAt(s)
      own    == OwnShape(LayerAt(s))
      marked(l) == [k \in {l.layer.terms[i].key : i \in DOMAIN l.layer.terms} |->
                      LET e == CHOOSE e \in Range(l.layer.terms) : e.key = k
                      IN  [term |-> e.spelling, enabled |-> e.enabled, source |-> l.source]]
      texts(l)  == [k \in DOMAIN l.layer.replacements |->
                      [raw |-> l.layer.replacements[k].raw, text |-> l.layer.replacements[k].text,
                       source |-> l.source]]
  IN  [own          |-> IF Len(s) = 2 THEN own ELSE [own EXCEPT !.track = None],
       terms        |-> OverAll([i \in DOMAIN layers |-> marked(layers[i])]),
       replacements |-> OverAll([i \in DOMAIN layers |-> texts(layers[i])]),
       problems     |-> {u \in Range(Upto(s)) : GlossaryIsBroken(u)} \cup TrackProblems(s)]

\* An event named without its channel is no event: the scope is the workspace's.
Resolved(channel, event) ==
  CASE channel = None                  -> <<>>
    [] channel # None /\ event = None  -> <<channel>>
    [] OTHER                           -> <<channel, event>>

SaveLayer(s, p) ==
  /\ glossaries' = [glossaries EXCEPT ![s] = OwnShape(ParseLayer(p))]
  /\ UNCHANGED moments

UpdateGlossary(channel, event, p) ==
  /\ ValidGlossary(p)
  /\ p.track # None => Len(Resolved(channel, event)) = 2 /\ KnownTrack(p.track)
  /\ SaveLayer(Resolved(channel, event), p)

----------------------------------------------------------------------------
Files(payloads) == payloads \cup {Absent, Unreadable}

\* Files are also written by hand.
VocabularyInit(momentsFiles, glossaryFiles) ==
  /\ moments \in [Scopes -> momentsFiles]
  /\ glossaries \in [Scopes -> glossaryFiles]

LexiconRequests ==
  \/ \E s \in Scopes, raw \in MarkerPayloads : UpdateLexicon(s, raw)
  \/ AdoptDefault

GlossaryRequests ==
  \E channel \in Channels \cup {None}, event \in Events \cup {None}, p \in GlossaryPayloads :
    UpdateGlossary(channel, event, p)

----------------------------------------------------------------------------
(* What the editors show against what a run uses *)

\* Every editor of an event shows the entries its runs will use, with the value
\* they are used with, warns of the files a run is refused for, and of no others:
\* lexicon_admin.read and glossary_admin.read walk the layers on their own, and
\* must agree with profile._load_lexicon and _load_glossary.  The decoder cuts
\* its prompt at the end, so the terms it drops come from layers that, as the
\* editor shows them, are no more specific than those it keeps.
EditorsShowWhatIsUsed ==
  \A s \in EventScopes :
    LET lexicon  == ReadLexicon(s)
        glossary == ReadGlossary(s)
        used     == UsedGlossary(s)
        sources  == [n \in DOMAIN LayersAt(s) |-> LayersAt(s)[n].source]
        rank(t)  == CHOOSE n \in DOMAIN sources : sources[n] = glossary.terms[Key[t]].source
    IN  /\ lexicon.problems = LexiconProblems(s)
        /\ SwitchedOn([k \in DOMAIN lexicon.effective |-> lexicon.effective[k].weight])
             = ScoringMarkers(s)
        /\ glossary.problems = GlossaryProblems(s)
        /\ {t.term : t \in {e \in Range(glossary.terms) : e.enabled}} = Range(used.terms)
        /\ {<<r.raw, r.text>> : r \in {e \in Range(glossary.replacements) : e.text # Off}}
             = {<<r.raw, r.text>> : r \in Range(used.replacements)}
        /\ \A i, j \in DOMAIN used.terms :
             i < j => rank(used.terms[i]) >= rank(used.terms[j])

\* Adopting the default makes it editable and changes nothing that scores a clip,
\* at any scope (adopt_default's promise to the studio's dialog).
AdoptingChangesNothing ==
  [][AdoptDefault => \A s \in EventScopes : ScoringMarkers(s)' = ScoringMarkers(s)]_vocabularyVars

=============================================================================
