CONSTANTS
  Channels = {"c"}
  Events = {"e"}
  Spellings = {"Pole", "pole", "wall"}
  Key <- MCKey
  DefaultMarkers <- MCDefaultMarkers
  MaxWeight = 2
  Packs <- MCPacks
  MarkerPayloads <- MCMarkerPayloads
  GlossaryPayloads <- MCGlossaryPayloads
  Absent = Absent
  Unreadable = Unreadable
  Off = Off
  Blank = Blank
  None = None
  Tasks = {t1, t2}
  Fonts = {"f", "g"}
  Elsewhere = "elsewhere"
  ColorKeys = {"accent"}
  FontRoles = {"hook"}
  ChannelAssets = {"logo", "logo-white"}
  EventAssets = {}
  VariantFile <- MCVariantFile
  Gap = 82
  FooterHeight = 124
  CaptionSize = 78
  Modes = {"api", "manual"}
  Providers = {"anthropic"}
  BandKeys = {"top", "bottom"}
  Null = Null
  ChannelNames = {c1, c2}
  EventNames = {a, b}
  Jobs = {j1, j2}
  Admin = Admin
  Free = Free
  Focuses = {"lexicon", "glossary", "fonts", "looks", "directories"}
  Scenario <- MCScenario
SPECIFICATION Spec
INVARIANTS
  EditorsShowWhatIsUsed
  WorkKeepsItsEvent
  NoLockIsLeftBehind
PROPERTIES
  AdoptingChangesNothing
  SavesKeepProfilesLoadable
SYMMETRY NamesAreAlike
