SPECIFICATION Spec
CONSTANTS
  feed = feed
  manual = manual
  c1 = c1
  w1 = w1
  w2 = w2
  p = p
  q = q
  None = None
  Sources = {feed, manual}
  Policy <- Rules
  Lists <- Shown
  Asked <- Intakes
  Shapes <- Says
  Workers = {w1, w2}
  Clerks = {c1}
  MaxJobs = 3
  MaxTwins = 2
  MaxAttempts = 2
  MaxEvents = 3
SYMMETRY Interchangeable
CHECK_DEADLOCK FALSE
INVARIANTS
  TypeOK
  
  ClustersCurrent
  
  OpenClustersServed
