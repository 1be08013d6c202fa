SPECIFICATION Spec
CONSTANTS
  Alice = Alice
  Bob = Bob
  Setups <- PlainSetup
  Draws = {1, 2, 3}
  T1Detect = 1
  T1AckSent = 1
  T2Max = 1
  MaxChain = 1
  MaxStarts = 1
CHECK_DEADLOCK FALSE
INVARIANT HelloStillToCome
