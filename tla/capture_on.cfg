SPECIFICATION Spec
CONSTANTS
  p1 = p1
  p2 = p2
  p3 = p3
  Packets = {p1, p2, p3}
  Size <- MCSize
  N = 5
  MaxStarts = 2
INVARIANTS
  TypeOK
  WholeRecords
  CountsMatch
  AloneRecordingHasFile
  NoneLostInHand
PROPERTIES
  RingDrains
  FileCloses
