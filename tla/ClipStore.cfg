CONSTANTS
  harvested = harvested  moment = moment
  url = url  shared = shared  w1 = w1  w2 = w2  h1 = h1  h2 = h2
  Clips <- MCClips
  Urls = {url, shared}
  ClipAt <- MCClipAt
  Windows = {w1, w2}
  ClipOf <- MCClipOf
  Hooks = {h1, h2}
  Patchers = {p1}
  SourceLists <- MCSourceLists
  MaxSaves = 1
  MaxDamages = 2
  None = None
SPECIFICATION Spec
SYMMETRY Symmetry
CONSTRAINT OneKindOfClip
INVARIANTS
  OneDirectoryPerMoment
  CaptionsFitTheVideo
PROPERTIES
  KeepsTheBook
  MomentsKeepTheirWindow
  GoodRecordsStay
