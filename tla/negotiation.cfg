SPECIFICATION Spec
CONSTANTS
  Alice = Alice
  Bob = Bob
  Configs <- AllConfigs
CHECK_DEADLOCK FALSE
INVARIANTS NoFailure PubKeyAgreed SuiteAgreed ResponderOffered SlaveLikeMaster
