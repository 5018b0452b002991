SPECIFICATION Spec
CONSTANTS
  w1 = w1
  w2 = w2
  r1 = r1
  r2 = r2
  j1 = j1
  j2 = j2
  j3 = j3
  a = a
  b = b
  Jobs = {j1, j2}
  Workers = {w1, w2}
  Requesters = {r1, r2}
  Ids = {"worker-local-1", "worker-1", "worker-2"}
  WorkerId <- SharedId
  Keys = {a, b}
  Plain = {}
  FollowOn <- Chain
  Lease = 2
  BeatEvery = 1
  RetryDelay = 1
  MaxAttempts = 2
  MaxRequests = 2
  MaxFaults = 2
SYMMETRY Interchangeable
INVARIANTS
  TypeOK
  ExclusiveRun
  AttemptsCharged
  TwinsBounded
PROPERTY FinalStaysFinal
