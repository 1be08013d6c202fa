SPECIFICATION FairSpec
CONSTANTS
  Streams = {s1}
  Worker = worker
  Nobody = nobody
  Delays = {1, 2}
  IdleWait = 3
  MaxList = 3
INVARIANTS Sorted NotOverslept
PROPERTIES CallsReturn FrontServed TimersSpec
