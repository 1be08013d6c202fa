SPECIFICATION Spec
CONSTANTS
  Alice = Alice
  Bob = Bob
  Setups <- RestartSetups
  Draws = {1, 2, 3, 4}
  T1Detect = 0
  T1AckSent = 0
  T2Max = 0
  MaxChain = 2
  MaxStarts = 2
CHECK_DEADLOCK FALSE
SYMMETRY Swap
CONSTRAINT NoTimeouts SrtpOutlives
INVARIANTS SentMatchesState RetransmissionArmed SrtpMatchesState KeyConfirmed SecureAgreement
PROPERTY KeyNeverReused
