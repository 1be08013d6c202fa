SPECIFICATION FairSpec
CONSTANTS
  RetrInvite = 2
  RetrRequest = 3
  RetrError = 2
  Busy = {}
  Prompt = TRUE
  Roaming = TRUE
  MaxFlight = 2
  MaxFault = 1
  MaxIncoming = 2
  MaxReinvite = 1
INVARIANTS AppMatches EndingIsTimed
PROPERTIES CallSpec EndedIsFreed
CHECK_DEADLOCK FALSE
