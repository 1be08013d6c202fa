SPECIFICATION Spec
CONSTANTS
  Alice = Alice
  Bob = Bob
  Peers <- MCPeers
  MaxCalls = 4
  MaxActive = 1
CHECK_DEADLOCK FALSE
SYMMETRY SwapPeers
INVARIANTS SasMeansVerified KeysAgree ContinuityAfterCut
PROPERTY FlagsAgree
