SPECIFICATION FairSpec
CONSTANT MaxCalls = 2
INVARIANT SlaveIsKeyed
PROPERTY SlaveStarts
CHECK_DEADLOCK FALSE
