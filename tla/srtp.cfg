SPECIFICATION Spec
CONSTANTS
  SeqMod = 28
  RocMod = 5
  WindowSize = 4
  IntBits = 2
  FirstSeq = 3
  Late = 5
  MaxLost = 6
  MaxIndex = 90
CHECK_DEADLOCK FALSE
INVARIANTS TypeOK IndexIsNew RocIsNewest NewestAccepted NotAcceptedTwice NextRolloverHeals
