SPECIFICATION Spec
CONSTANTS
  LinkTypes <- MCLinkTypes
  Captures <- ClassicFiles
  MaxRecords = 3
INVARIANTS
  RejectedFramesAreSkipped

