SPECIFICATION Spec
CONSTANTS
  Streams = {s1, s2}
  Worker = worker
  Nobody = nobody
  Delays = {1, 2}
  IdleWait = 3
  MaxList = 2
PROPERTY RequestIsQueued
