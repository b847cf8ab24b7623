----------------------------- MODULE MCDetection -----------------------------
(* The instance of Detection for TLC: lines of two seconds, windows of eight *)
(* that overlap by four, streams of up to three windows with up to two       *)
(* silences anywhere, and lexicons whose markers share their words.          *)
EXTENDS Detection

Word(start, text) == [start |-> start, end |-> start + 1, text |-> text]
Spoken(texts) == [i \in DOMAIN texts |-> Word(i - 1, texts[i])]
Texts == <<"super", "pole", "sitter", "pole", "a", "pole", "super", "pole", "a", "a">>
\* Six words with or without a silence before each of them; the last one does
\* not last.
WithSilences(silent) ==
  LET start(i) == (i - 1) + 3 * Cardinality({j \in silent : j <= i}) IN
  [i \in 1..6 |-> [start |-> start(i), text |-> Texts[i],
                   end |-> IF i = 6 THEN start(i) ELSE start(i) + 1]]
MCTranscripts ==
  {Spoken(Texts), <<>>}
    \cup {WithSilences(silent) : silent \in {s \in SUBSET (2..6) : Cardinality(s) <= 2}}

Marker(phrase, weight, worth) == [phrase |-> phrase, weight |-> weight, worth |-> worth]
MCLexicons ==
  { <<Marker(<<"pole">>, 1, 2), Marker(<<"super", "pole">>, 3, 2)>>,
    <<Marker(<<"pole">>, 1, 2), Marker(<<"pole", "sitter">>, 1, 2),
      Marker(<<"super", "pole">>, 3, 2), Marker(<<"super">>, 0, 1)>> }

Raw(first, last, score) ==
  [first |-> first, last |-> last, score |-> score, wellFormed |-> TRUE]
MCAnswers ==
  { <<>>,
    <<Raw(1, 2, 5), Raw(2, 3, 7), Raw(3, 4, 9), Raw(1, 4, 9)>>,
    <<Raw(3, 4, 7), [Raw(4, 4, 9) EXCEPT !.wellFormed = FALSE]>>,
    <<Raw(4, 3, 2), Raw(4, 5, 9), Raw(5, 5, 4)>> }
=============================================================================
