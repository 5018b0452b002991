SPECIFICATION FairSpec
CONSTANTS
  w1 = w1
  w2 = w2
  r1 = r1
  r2 = r2
  j1 = j1
  j2 = j2
  j3 = j3
  a = a
  b = b
  Jobs = {j1, j2}
  Workers = {w1, w2}
  Requesters = {r1}
  Ids = {"worker-local-1", "worker-1", "worker-2"}
  WorkerId <- OwnId
  Keys = {a}
  Plain = {a}
  FollowOn <- NoChain
  Lease = 2
  BeatEvery = 1
  RetryDelay = 1
  MaxAttempts = 2
  MaxRequests = 2
  MaxFaults = 1
PROPERTY EveryJobEnds
