CONSTANTS
  LineSeconds = 2
  WindowSeconds = 8
  OverlapSeconds = 4
  MinSeconds = 1
  MaxSeconds = 4
  MaxScore = 10
  MaxPerWindow = 2
  MinGap = 3
  Threshold = 1
  Nothing = Nothing
  None = None
  Transcripts <- MCTranscripts
  Lexicons <- MCLexicons
  Answers <- MCAnswers
SPECIFICATION Spec
CHECK_DEADLOCK FALSE
INVARIANTS
  HolesAreNamed
  SpentTokensAreCounted
  MergeKeepsTheBest
