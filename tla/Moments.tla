------------------------------- MODULE Moments -------------------------------
(***************************************************************************)
(* The pure half of moment detection (moment_scan.py, moments.py): a       *)
(* transcript is grouped into lines and overlapping windows, what a model  *)
(* says about a window is validated and merged, and a marker lexicon       *)
(* scores the lines where there is no model.  Times are whole numbers; a   *)
(* text is the sequence of its tokens, a marker phrase likewise.           *)
(***************************************************************************)
EXTENDS Integers, Sequences, FiniteSets, SequencesExt

CONSTANTS
  LineSeconds, WindowSeconds, OverlapSeconds,
  MinSeconds, MaxSeconds,
  MaxScore,
  MaxPerWindow,
  MinGap,      \* lexicon_moments' min_gap
  Threshold,   \* lexicon_moments' threshold
  Nothing      \* what validate_moment answers for a moment it rejects

ASSUME MomentsAssumption ==
  /\ {LineSeconds, WindowSeconds, OverlapSeconds, MaxSeconds} \subseteq Nat
  /\ MinSeconds \in Nat \ {0}
  /\ {MaxScore, MaxPerWindow, MinGap, Threshold} \subseteq Nat
  /\ MinSeconds <= MaxSeconds
  /\ MaxSeconds <= OverlapSeconds
  /\ OverlapSeconds < WindowSeconds

Overlap(a, b) == a.start < b.end /\ b.start < a.end

----------------------------------------------------------------------------
(* Lines and windows *)

\* A word that would make the line too long opens the next one.
AddWord(lines, w) ==
  IF lines = <<>> \/ w.end - Last(lines).start > LineSeconds
  THEN Append(lines, [start |-> w.start, end |-> w.end, text |-> <<w.text>>])
  ELSE LET line == Last(lines)
       IN  [lines EXCEPT ![Len(lines)] =
              [line EXCEPT !.end = w.end, !.text = Append(line.text, w.text)]]

\* group_lines and _bins
GroupLines(words) ==
  LET grouped[n \in 0..Len(words)] ==
        IF n = 0 THEN <<>> ELSE AddWord(grouped[n - 1], words[n])
  IN  grouped[Len(words)]

\* The cursor moves on from the first line's start to the last one's end, and
\* every window with a line in it is taken.
Windows(lines, step) ==
  LET first == lines[1].start
      moves == (Last(lines).end - first + step - 1) \div step
      cursor(n) == first + (n - 1) * step
      chunk(n) == {i \in DOMAIN lines : /\ cursor(n) <= lines[i].start
                                        /\ lines[i].start < cursor(n) + WindowSeconds}
      taken[n \in 0..moves] ==
        IF n = 0 THEN <<>>
        ELSE IF chunk(n) = {} THEN taken[n - 1] ELSE Append(taken[n - 1], chunk(n))
  IN  IF lines = <<>> THEN <<>>
      ELSE IF taken[moves] = <<>> THEN <<DOMAIN lines>> ELSE taken[moves]

\* The lines of each window, by their numbers in the whole transcript.
SplitWindows(lines) == Windows(lines, WindowSeconds - OverlapSeconds)

----------------------------------------------------------------------------
(* What a model says *)

Acceptable(raw, lines) ==
  LET length == lines[raw.last].end - lines[raw.first].start
  IN  MinSeconds <= length /\ length <= MaxSeconds

\* validate_moment: line numbers are looked up among the lines of the window.
ValidateMoment(raw, window, lines) ==
  IF /\ raw.wellFormed
     /\ raw.score \in 0..MaxScore
     /\ raw.first <= raw.last
     /\ {raw.first, raw.last} \subseteq window
     /\ Acceptable(raw, lines)
  THEN [start |-> lines[raw.first].start, end |-> lines[raw.last].end,
        score |-> raw.score]
  ELSE Nothing

\* sorted() is stable: an element goes behind all that do not come after it.
Insert(sorted, m, before) ==
  LET ahead == {i \in DOMAIN sorted : <<m, sorted[i]>> \notin before}
      k     == IF ahead = {} THEN 0 ELSE Max(ahead)
  IN  SubSeq(sorted, 1, k) \o <<m>> \o SubSeq(sorted, k + 1, Len(sorted))

Sorted(s, before) ==
  LET sorted[n \in 0..Len(s)] ==
        IF n = 0 THEN <<>> ELSE Insert(sorted[n - 1], s[n], before)
  IN  sorted[Len(s)]

Higher(ms)  == {p \in ms \X ms : p[1].score > p[2].score}
Earlier(ms) == {p \in ms \X ms : p[1].start < p[2].start}
Before(ms)  == {p \in ms \X ms : \/ p[1].start < p[2].start
                                 \/ p[1].start = p[2].start /\ p[1].score > p[2].score}

ValidMoments(candidates, window, lines) ==
  LET valid[n \in 0..Len(candidates)] ==
        IF n = 0 THEN <<>>
        ELSE LET m == ValidateMoment(candidates[n], window, lines)
             IN  IF m = Nothing THEN valid[n - 1] ELSE Append(valid[n - 1], m)
  IN  valid[Len(candidates)]

\* What a window contributes: its valid moments, the best MAX_PER_WINDOW of them.
Contribution(candidates, window, lines) ==
  LET valid == ValidMoments(candidates, window, lines)
      best  == Sorted(valid, Higher(ToSet(valid)))
  IN  SubSeq(best, 1, IF Len(best) < MaxPerWindow THEN Len(best) ELSE MaxPerWindow)

\* The number of the first of the kept moments that m overlaps, or 0.
Clash(kept, m) ==
  LET clashes == {i \in DOMAIN kept : Overlap(m, kept[i])}
  IN  IF clashes = {} THEN 0 ELSE Min(clashes)

\* Faulty variant: of two moments that overlap the one seen first wins.
KeepFirst(kept, m) == IF Clash(kept, m) = 0 THEN Append(kept, m) ELSE kept

\* Of two moments that overlap the one with the higher score stays.
Keep(kept, m) ==
  LET i == Clash(kept, m)
  IN  IF i = 0 THEN Append(kept, m)
      ELSE IF m.score > kept[i].score THEN [kept EXCEPT ![i] = m] ELSE kept

KeepAll(moments) ==
  LET kept[n \in 0..Len(moments)] ==
        IF n = 0 THEN <<>> ELSE Keep(kept[n - 1], moments[n])
  IN  kept[Len(moments)]

MergeMoments(found) ==
  LET kept == KeepAll(Sorted(found, Before(ToSet(found))))
  IN  Sorted(kept, Earlier(ToSet(kept)))

----------------------------------------------------------------------------
(* The lexicon engine *)

Spans(i, j, m, n) == i < j + n /\ j < i + m   \* m tokens at i meet n tokens at j

\* re.finditer: the occurrences of a phrase from the left, none inside another.
Occurrences(text, phrase) ==
  LET size == Len(phrase)
  IN  FoldLeft(
        LAMBDA seen, i :
          IF /\ SubSeq(text, i, i + size - 1) = phrase
             /\ \A j \in seen : ~Spans(i, j, size, size)
          THEN seen \cup {i} ELSE seen,
        {}, [i \in 1..(Len(text) - size + 1) |-> i])

\* The markers in the order they may claim their words: longest first, then by
\* weight; "markers" is in alphabetical order.  A weight of 0 is switched off.
Claimants(markers) ==
  SortSeq(SelectSeq(markers, LAMBDA m : m.weight > 0),
          LAMBDA a, b : \/ Len(a.phrase) > Len(b.phrase)
                        \/ Len(a.phrase) = Len(b.phrase) /\ a.weight > b.weight)

Claims(text, claimants) ==
  FoldLeft(
    LAMBDA claimed, m :
      claimed \cup
        {[at |-> i, marker |-> m] :
           i \in {i \in Occurrences(text, m.phrase) :
                    \A c \in claimed :
                      ~Spans(i, c.at, Len(m.phrase), Len(c.marker.phrase))}},
    {}, claimants)

\* _marker_matches
MarkerMatches(text, markers) == Claims(text, Claimants(markers))

\* _best_marker: all the weight matched, and the strongest marker's category.
MatchedWeight(text, markers) ==
  MapThenSumSet(LAMBDA c : c.marker.weight, MarkerMatches(text, markers))
BestMarker(text, markers) ==
  LET matched == {c.marker : c \in MarkerMatches(text, markers)}
      Beats(a, b) == \/ a.weight > b.weight
                     \/ a.weight = b.weight /\ Len(a.phrase) >= Len(b.phrase)
  IN  CHOOSE m \in matched : \A n \in matched : Beats(m, n)

\* The middle one of the lines' word counts.
Baseline(bins) ==
  LET counts == SortSeq([i \in DOMAIN bins |-> Len(bins[i].text)], <)
  IN  counts[Len(counts) \div 2 + 1]

\* Marker weight times what the category is worth, amplified where the line
\* holds more words than usual.
LexiconScore(bin, bins, markers) ==
  LET weight == BestMarker(bin.text, markers).worth * MatchedWeight(bin.text, markers)
      usual  == Baseline(bins)
      rated  == IF Len(bin.text) > usual THEN (weight * Len(bin.text)) \div usual ELSE weight
  IN  IF rated > MaxScore THEN MaxScore ELSE rated

\* lexicon_moments: a hit too close to the last one stays only if it scores more.
LexiconMoments(words, markers) ==
  LET bins == GroupLines(words)
      Hit(bin) == [start |-> bin.start, end |-> bin.end,
                   score |-> LexiconScore(bin, bins, markers)]
      Take(found, bin) ==
        IF MarkerMatches(bin.text, markers) = {} \/ Hit(bin).score < Threshold THEN found
        ELSE IF found # <<>> /\ bin.start - Last(found).start < MinGap
        THEN IF Hit(bin).score > Last(found).score
             THEN [found EXCEPT ![Len(found)] = Hit(bin)] ELSE found
        ELSE Append(found, Hit(bin))
  IN  IF words = <<>> \/ markers = <<>> THEN <<>> ELSE FoldLeft(Take, <<>>, bins)
=============================================================================
