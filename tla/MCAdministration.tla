---------------------------- MODULE MCAdministration ----------------------------
EXTENDS Administration, TLC

(* The vocabulary: two spellings of one word, and another word. *)
MCKey == [Pole |-> "pole", pole |-> "pole", wall |-> "wall"]
MCDefaultMarkers == [pole |-> 1]

Term(spelling, enabled) == [spelling |-> spelling, enabled |-> enabled]
Glossary(terms, replacements, track) ==
  [terms |-> terms, replacements |-> replacements, track |-> track]

MCPacks == [monza |-> Glossary(<<Term("wall", TRUE)>>, [wall |-> "x"], None)]
MCMarkerPayloads ==
  {<<>>, [Pole |-> 0], [pole |-> 2], [wall |-> 1, Pole |-> 1], [Pole |-> 1, pole |-> 2],
   [wall |-> 9], [wall |-> 0]}
MCGlossaryPayloads ==
  {Glossary(<<>>, <<>>, None),
   Glossary(<<Term("Pole", TRUE)>>, <<>>, None),
   Glossary(<<Term("pole", FALSE), Term("wall", TRUE)>>, <<>>, None),
   Glossary(<<Term("wall", TRUE), Term("pole", TRUE)>>, <<>>, "monza"),
   Glossary(<<Term("wall", FALSE)>>, [wall |-> Off], None),
   Glossary(<<Term("Pole", TRUE), Term("pole", TRUE)>>, <<>>, None),
   Glossary(<<>>, [pole |-> Blank], None),
   Glossary(<<>>, [wall |-> "y"], "monza"),
   Glossary(<<>>, <<>>, "nowhere")}

(* The brands: the default geometry of a portrait video, and what is changed in it. *)
Output == [width |-> 1080, height |-> 1920, video_width |-> 1080, video_height |-> 608, video_y |-> 656]
Brand(font) ==
  [colors |-> [accent |-> "rgb"], fonts |-> [hook |-> font], output |-> Output]
FontOnly(font) == [fonts |-> [hook |-> font]]
MCVariantFile ==
  [v \in {"logo"} \X {"color", "white"} |-> IF v[2] = "white" THEN "logo-white" ELSE v[1]]

Subtitles(enabled) == [subtitles |-> [enabled |-> enabled]]
SubtitlesAt(y) == [subtitles |-> [y |-> y, enabled |-> TRUE]]

Plain ==
  [channels |-> {Brand("f")}, events |-> {Absent}, channelFonts |-> {{"f"}}, eventFonts |-> {{}},
   patches |-> {}, modes |-> {}, overrides |-> {}, files |-> {}]
FontScenario ==
  [channels     |-> {Absent, Unreadable, Brand("f"), Brand("g"), Brand(Elsewhere), [output |-> Output]},
   events       |-> {Absent, Unreadable, FontOnly("f"), FontOnly("g")},
   channelFonts |-> SUBSET Fonts,
   eventFonts   |-> SUBSET Fonts,
   patches      |-> {FontOnly("f"), FontOnly("g")},
   modes        |-> {},
   overrides    |-> {<<>>, FontOnly("f"), FontOnly("g")},
   files        |-> Fonts]
LookScenario ==
  [channels     |-> {Brand("f"), Over([upload |-> [mode |-> "post"]], Brand("f"))},
   events       |-> {Absent, [output |-> [video_y |-> 1300]]},
   channelFonts |-> {{"f"}},
   eventFonts   |-> {{}},
   patches      |-> {[colors |-> [accent |-> "rgba"]], [logo |-> [file |-> "logo"]], [logo |-> Null],
                     [output |-> [Output EXCEPT !.video_y = 1200]], [output |-> [Output EXCEPT !.video_y = 1313]],
                     Subtitles(TRUE), SubtitlesAt(1263), [bands |-> [middle |-> 5]], [upload |-> [mode |-> "post"]],
                     [detect |-> [provider |-> "nobody"]]},
   modes        |-> {"manual"},
   overrides    |-> {<<>>, Subtitles(TRUE), SubtitlesAt(1263), SubtitlesAt(1400), [logo |-> [variant |-> "white"]],
                     [logo |-> [file |-> "banner"]], [logo |-> Null], [upload |-> [mode |-> "post"]]},
   files        |-> {}]

MCScenario == [f \in Focuses |-> CASE f = "fonts" -> FontScenario
                                   [] f = "looks" -> LookScenario
                                   [] OTHER       -> Plain]

NamesAreAlike == Permutations(ChannelNames) \cup Permutations(EventNames) \cup Permutations(Jobs) \cup Permutations(Tasks)
=============================================================================
