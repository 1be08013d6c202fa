SPECIFICATION Spec
CONSTANTS
  Alice = Alice
  Bob = Bob
  Peers <- MCPeers
  MaxCalls = 2
  MaxActive = 2
CHECK_DEADLOCK FALSE
PROPERTY StopKeepsSecrets
