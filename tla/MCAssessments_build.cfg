SPECIFICATION Spec
CONSTANTS
  api = api
  worker = worker
  o1 = o1
  o2 = o2
  rel = rel
  Builders = {api, worker}
  Workers = {worker}
  Analysts = {}
  MaxFacts = 2
  Passing = {2}
  Release = rel
  MaxSets = 2
  MaxFailures = 2
  MaxOverrides = 0
CHECK_DEADLOCK FALSE
INVARIANTS
  TypeOK
  ReadyReplays
  
 
