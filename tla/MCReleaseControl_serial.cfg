SPECIFICATION Spec
CONSTANTS
  rel1 = rel1
  rel2 = rel2
  rel3 = rel3
  adm1 = adm1
  adm2 = adm2
  inc1 = inc1
  inc2 = inc2
  k1 = k1
  Releases = {rel1, rel2}
  Scopes = {k1}
  ScopeKey <- OneScope
  Supported = {rel1}
  Borough = {k1}
  Incidents = {inc1, inc2}
  Admins = {adm1}
  Viewers = {"v"}
  MaxRows = 2
SYMMETRY Rivals
INVARIANTS
  TypeOK
  KillSwitchEffective
  OneActivePerScope
  OpenIncidentsResolvable
