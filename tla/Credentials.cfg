CONSTANTS
  Channels = {main}
  Accounts = {main, other}
  Tasks = {t1, t2}
  None = None
  MaxInserts = 2
  MaxDay = 2
SPECIFICATION FairSpec
INVARIANTS
  ConnectGuardIsExact
  UploadsLandOnTheirChannel
  QuotaNeverOverstates
PROPERTIES
  ConnectsEnd
