SPECIFICATION Spec
CONSTANTS
  LinkTypes <- MCLinkTypes
  Captures <- CaptureFiles
  MaxRecords = 3
INVARIANTS
  ClassicDeliversPrefix
  PcapngDeliversAll
PROPERTIES
  ReadsToAnEnd
