SPECIFICATION StreamSpec
CONSTANTS
  Events = {a, b}
  Glossaries = {g1, g2}
  Questions = {q1}
  ChunkSeconds = 2
  Lengths = {1, 3}
  None = none
SYMMETRY MCStreamSymmetry
INVARIANTS
  TranscriptCoversItsStream
  AnalysisAnswersOneQuestion
PROPERTIES
  NothingHeardIsLost
