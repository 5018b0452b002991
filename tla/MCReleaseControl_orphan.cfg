SPECIFICATION Spec
CONSTANTS
  rel1 = rel1
  rel2 = rel2
  rel3 = rel3
  adm1 = adm1
  adm2 = adm2
  inc1 = inc1
  inc2 = inc2
  k1 = k1
  Releases = {rel1}
  Scopes = {k1}
  ScopeKey <- OneScope
  Supported = {rel1}
  Borough = {k1}
  Incidents = {inc1}
  Admins = {adm1, adm2}
  Viewers = {"v"}
  MaxRows = 2
SYMMETRY Rivals
INVARIANT KillSwitchEffective
