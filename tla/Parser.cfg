SPECIFICATION Spec
CONSTANTS
  LinkTypes = {"ethernet", "sll", "sll2", "loopback", "raw4", "raw6", "raw"}
  Families <- MCFamilies
  Lengths <- MCLengths
  Declared = {0, 8, 19, 20, 28, 40, 44}
  HeaderWords = {0, 4, 5, 6}
  ExtensionUnits = {0, 1}
  UdpLengths = {0, 7, 8, 9, 20}
INVARIANTS
  NoPanic
  PayloadWithinPacket
  UpperLayerReached
  FamilyAskedFor
PROPERTIES
  ParseEnds
