SPECIFICATION Spec
CONSTANTS
  t1 = t1
  t2 = t2
  g1 = g1
  g2 = g2
  c1 = c1
  c2 = c2
  n1 = n1
  n2 = n2
  x1 = x1
  None = None
  Templates = {t1}
  Hashes = {g1,g2}
  Contents = {c1}
  Eligibility = {"PASS"}
  Drawn = {FALSE}
  Drafts = {}
  Sessions = {x1}
  MaxRevisions = 2
  MaxOverlaps = 1
SYMMETRY Interchangeable
INVARIANTS
  TypeOK
  OnlyOverlapCarriesForward
