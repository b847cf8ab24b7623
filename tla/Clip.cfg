SPECIFICATION ClipSpec
CONSTANTS
  Takes = {t1, t2, t3}
  Cuts = {three, five}
  Uncut = uncut
  MaxUploads = 2
  None = none
SYMMETRY MCClipSymmetry
INVARIANTS
  MasterIsUncut
  NothingIsLost
  DeliverableIsDesired
PROPERTIES
  UploadsAreApproved
  NoAccidentalReupload
