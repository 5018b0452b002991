------------------------ MODULE ReleaseControl_proofs ------------------------
(***************************************************************************)
(* For every set of releases, scopes, incidents, administrators and        *)
(* viewers: ReleaseControl is type correct, and a scope row is visible     *)
(* only if an administrator made that row visible.  When requests of       *)
(* administrators do not overlap, the registry agrees with the scope rows, *)
(* open incidents are found, and the kill switch holds.                    *)
(*                                                                         *)
(* VisibleWasGranted is not inductive: a mode also reaches the row out of  *)
(* what a handler read before (the mode an incident is to restore) and out *)
(* of an incident record.  GrantsKept says those copies were granted too.  *)
(***************************************************************************)
EXTENDS ReleaseControl, TLAPS

Visible == "VISIBLE_REVIEWER_ONLY"

\* The mode an open incident will restore on row n of scope k was granted to that row.
Restorable(i, k, n) == /\ incident[i].status # "ABSENT"
                       /\ incident[i].previous = Visible => n \in granted[k]

GrantsKept ==
  /\ \A i \in Incidents : incident[i].row # 0 => Restorable(i, incident[i].key, incident[i].row)
  /\ \A a \in Admins :
       /\ admin[a].op = "open" /\ admin[a].row.mode = Visible
            => admin[a].row.id \in granted[admin[a].key]
       /\ admin[a].op = "resolve"
            => Restorable(admin[a].incident, admin[a].key, admin[a].row.id)

IInv == TypeOK /\ VisibleWasGranted /\ GrantsKept

USE ReleaseAssumption, NoReleaseAssumption

-------------------------------------------------------------------------------
(* Initial states *)

LEMMA InitIInv == Init => IInv
<1> SUFFICES ASSUME Init PROVE IInv
  OBVIOUS
<1>1. \A i \in Incidents : incident[i] \in IncidentRows /\ incident[i].row = 0
  BY DEF Init, IncidentRows, Modes
<1>2. TypeOK
  <2>1. \A k \in Scopes : scope[k] \in ScopeRows /\ scope[k] = NoRow
    BY DEF Init, ScopeRows, NoRow, Modes
  <2>2. \A a \in Admins : admin[a] \in Handlers
    BY DEF Init, Handlers, Idle
  <2>3. \A v \in Viewers : viewer[v] \in Reads
    BY DEF Init, Reads
  <2> QED
    BY <1>1, <2>1, <2>2, <2>3 DEF Init, TypeOK, ReleaseStatus, NoRow
<1>3. VisibleWasGranted
  BY DEF Init, VisibleWasGranted, NoRow
<1>4. GrantsKept
  BY <1>1 DEF Init, GrantsKept, Idle
<1> QED
  BY <1>2, <1>3, <1>4 DEF IInv

-------------------------------------------------------------------------------
(* The handlers' reads *)

\* A handler that starts holds copies that were granted; everything else stays.
LEMMA ReadingKeeps ==
  ASSUME IInv, Reading, NEW a \in Admins, NEW h \in Handlers,
         admin' = [admin EXCEPT ![a] = h],
         h.op = "open" /\ h.row.mode = Visible => h.row.id \in granted[h.key],
         h.op = "resolve" => Restorable(h.incident, h.key, h.row.id)
  PROVE  IInv'
<1>1. TypeOK'
  BY DEF IInv, TypeOK, Reading
<1>2. VisibleWasGranted'
  BY DEF IInv, VisibleWasGranted, Reading
<1>3. GrantsKept'
  <2>1. UNCHANGED <<incident, granted>> /\ admin \in [Admins -> Handlers]
    BY DEF Reading, IInv, TypeOK
  <2>2. ASSUME NEW i \in Incidents, (incident[i].row # 0)'
        PROVE  Restorable(i, incident[i].key, incident[i].row)'
    BY <2>1, <2>2 DEF IInv, GrantsKept, Restorable
  <2>3. ASSUME NEW b \in Admins
        PROVE  /\ (admin[b].op = "open" /\ admin[b].row.mode = Visible
                     => admin[b].row.id \in granted[admin[b].key])'
               /\ (admin[b].op = "resolve"
                     => Restorable(admin[b].incident, admin[b].key, admin[b].row.id))'
    <3>1. CASE b = a
      <4>1. admin'[b] = h
        BY <2>1, <3>1
      <4> QED
        BY <2>1, <4>1 DEF Restorable
    <3>2. CASE b # a
      <4>1. admin'[b] = admin[b]
        BY <2>1, <3>2
      <4> QED
        BY <2>1, <4>1 DEF IInv, GrantsKept, Restorable
    <3> QED
      BY <3>1, <3>2
  <2> QED
    BY <2>2, <2>3 DEF GrantsKept
<1> QED
  BY <1>1, <1>2, <1>3 DEF IInv

LEMMA AdminReadsKeep ==
  ASSUME IInv, NEW a \in Admins, AdminReads(a)
  PROVE  IInv'
<1>0. TypeOK /\ VisibleWasGranted
  BY DEF IInv
<1>1. ASSUME NEW r \in Releases, ReadActivate(a, r) PROVE IInv'
  <2> DEFINE row == scope[ScopeKey[r]]
             h == [op |-> "activate", release |-> r, row |-> row, incidents |-> {},
                   fresh |-> release[r] = "ABSENT",
                   status |-> IF release[r] = "ABSENT" THEN "VALIDATED" ELSE release[r],
                   prior |-> IF row.id # 0 THEN release[row.release] ELSE "ABSENT"]
  <2>1. row \in ScopeRows /\ (row.id # 0 => row.release \in Releases)
    BY <1>0 DEF TypeOK, ScopeRows
  <2>2. /\ (IF release[r] = "ABSENT" THEN "VALIDATED" ELSE release[r]) \in ReleaseStatus
        /\ (IF row.id # 0 THEN release[row.release] ELSE "ABSENT") \in ReleaseStatus
    BY <1>0, <2>1 DEF TypeOK, ReleaseStatus
  <2>3. h \in Handlers
    BY <2>1, <2>2 DEF Handlers
  <2>4. h.op = "activate" /\ admin' = [admin EXCEPT ![a] = h] /\ Reading
    BY <1>1 DEF ReadActivate
  <2> HIDE DEF h
  <2> QED
    BY <2>3, <2>4, ReadingKeeps
<1>2. ASSUME NEW r \in Releases, ReadRetire(a, r) PROVE IInv'
  <2> DEFINE row == IF scope[ScopeKey[r]].release = r THEN scope[ScopeKey[r]] ELSE NoRow
             h == [op |-> "retire", release |-> r, row |-> row, fresh |-> FALSE,
                   status |-> release[r], prior |-> "ABSENT",
                   incidents |-> {i \in Incidents : /\ incident[i].status \in {"OPEN", "RESOLVED"}
                                                    /\ incident[i].key = ScopeKey[r]
                                                    /\ row.id # 0 /\ incident[i].row = row.id}]
  <2>1. row \in ScopeRows
    BY <1>0 DEF TypeOK, ScopeRows, NoRow, Modes
  <2>2. h \in Handlers
    <3>1. release[r] \in ReleaseStatus /\ "ABSENT" \in ReleaseStatus
      BY <1>0 DEF TypeOK, ReleaseStatus
    <3> QED
      BY <2>1, <3>1 DEF Handlers
  <2>3. h.op = "retire" /\ admin' = [admin EXCEPT ![a] = h] /\ Reading
    BY <1>2 DEF ReadRetire
  <2> HIDE DEF h
  <2> QED
    BY <2>2, <2>3, ReadingKeeps
<1>3. ASSUME NEW k \in Scopes, NEW mode \in Modes, ReadSetVisibility(a, k, mode) PROVE IInv'
  <2> DEFINE h == [op |-> "set", key |-> k, row |-> scope[k], mode |-> mode]
  <2>1. h \in Handlers /\ h.op = "set"
    BY <1>0 DEF TypeOK, Handlers
  <2>2. admin' = [admin EXCEPT ![a] = h] /\ Reading
    BY <1>3 DEF ReadSetVisibility
  <2> HIDE DEF h
  <2> QED
    BY <2>1, <2>2, ReadingKeeps
<1>4. ASSUME NEW k \in Scopes, ReadOpenIncident(a, k) PROVE IInv'
  <2> DEFINE h == [op |-> "open", key |-> k, row |-> scope[k]]
  <2>1. h \in Handlers /\ h.op = "open"
    BY <1>0 DEF TypeOK, Handlers
  <2>2. h.row.mode = Visible => h.row.id \in granted[h.key]
    BY <1>0 DEF VisibleWasGranted, Visible
  <2>3. admin' = [admin EXCEPT ![a] = h] /\ Reading
    BY <1>4 DEF ReadOpenIncident
  <2> HIDE DEF h
  <2> QED
    BY <2>1, <2>2, <2>3, ReadingKeeps
<1>5. ASSUME NEW k \in Scopes, NEW rollback \in BOOLEAN, ReadResolveIncident(a, k, rollback)
      PROVE IInv'
  <2>1. PICK i \in Incidents :
          /\ OpenOn(k, scope[k]) = {i}
          /\ admin' = [admin EXCEPT ![a] = [op |-> "resolve", key |-> k, row |-> scope[k],
                                            incident |-> i, rollback |-> rollback]]
    BY <1>5 DEF ReadResolveIncident
  <2> DEFINE h == [op |-> "resolve", key |-> k, row |-> scope[k], incident |-> i,
                   rollback |-> rollback]
  <2>2. h \in Handlers /\ h.op = "resolve"
    BY <1>0 DEF TypeOK, Handlers
  <2>3. /\ incident[i].status = "OPEN" /\ incident[i].key = k
        /\ incident[i].row = scope[k].id
    BY <2>1 DEF OpenOn
  <2>4. scope[k].id # 0 /\ Reading
    BY <1>5 DEF ReadResolveIncident
  <2>5. Restorable(h.incident, h.key, h.row.id)
    BY <2>3, <2>4 DEF IInv, GrantsKept
  <2>6. admin' = [admin EXCEPT ![a] = h]
    BY <2>1
  <2> HIDE DEF h
  <2> QED
    BY <2>2, <2>4, <2>5, <2>6, ReadingKeeps
<1> QED
  BY <1>1, <1>2, <1>3, <1>4, <1>5 DEF AdminReads

-------------------------------------------------------------------------------
(* The handlers' commits *)

\* An incident keeps what it restores and where; the mode a new one restores was granted.
Carried(i) ==
  /\ incident[i].status # "ABSENT" => /\ incident'[i].status # "ABSENT"
                                      /\ incident'[i].previous = incident[i].previous
  /\ \/ incident'[i].row = 0
     \/ incident'[i].key = incident[i].key /\ incident'[i].row = incident[i].row
     \/ /\ incident'[i].status # "ABSENT"
        /\ incident'[i].previous = Visible => incident'[i].row \in granted'[incident'[i].key]

LEMMA CommitKeeps ==
  ASSUME IInv, NEW a \in Admins, Finished(a),
         release' \in [Releases -> ReleaseStatus], rowsMade' \in [Scopes -> Nat],
         scope' \in [Scopes -> ScopeRows],
         \A k \in Scopes : scope'[k].release = NoRelease <=> scope'[k].id = 0,
         incident' \in [Incidents -> IncidentRows], \A i \in Incidents : Carried(i),
         granted' \in [Scopes -> SUBSET Nat], \A k \in Scopes : granted[k] \subseteq granted'[k],
         VisibleWasGranted'
  PROVE  IInv'
<1>1. /\ admin' = [admin EXCEPT ![a] = Idle] /\ admin \in [Admins -> Handlers]
      /\ Idle \in Handlers /\ Idle.op = "none"
  BY DEF Finished, IInv, TypeOK, Handlers, Idle
<1>2. TypeOK'
  <2>1. calm' \subseteq Viewers
    BY DEF IInv, TypeOK, Finished
  <2> QED
    BY <1>1, <2>1 DEF IInv, TypeOK, Finished
<1>3. ASSUME NEW i \in Incidents, NEW k \in Scopes, NEW n, Restorable(i, k, n)
      PROVE  /\ incident'[i].status # "ABSENT"
             /\ incident'[i].previous = Visible => n \in granted'[k]
  BY <1>3 DEF Restorable, Carried
<1>4. ASSUME NEW i \in Incidents, (incident[i].row # 0)'
      PROVE  Restorable(i, incident[i].key, incident[i].row)'
  <2>1. Carried(i)
    OBVIOUS
  <2>2. CASE incident'[i].key = incident[i].key /\ incident'[i].row = incident[i].row
    <3>1. Restorable(i, incident[i].key, incident[i].row)
      BY <1>4, <2>2 DEF IInv, GrantsKept
    <3>2. incident[i].key \in Scopes
      BY DEF IInv, TypeOK, IncidentRows
    <3> QED
      BY <1>3, <2>2, <3>1, <3>2 DEF Restorable
  <2>3. CASE /\ incident'[i].status # "ABSENT"
             /\ incident'[i].previous = Visible => incident'[i].row \in granted'[incident'[i].key]
    BY <2>3 DEF Restorable
  <2> QED
    BY <1>4, <2>1, <2>2, <2>3 DEF Carried
<1>5. ASSUME NEW b \in Admins
      PROVE  /\ (admin[b].op = "open" /\ admin[b].row.mode = Visible
                   => admin[b].row.id \in granted[admin[b].key])'
             /\ (admin[b].op = "resolve"
                   => Restorable(admin[b].incident, admin[b].key, admin[b].row.id))'
  <2>1. CASE b = a
    BY <1>1, <2>1
  <2>2. CASE b # a
    <3>1. admin'[b] = admin[b] /\ admin[b] \in Handlers
      BY <1>1, <2>2
    <3>2. admin[b].op = "open" => admin[b].key \in Scopes
      BY <3>1 DEF Handlers
    <3>3. admin[b].op = "resolve" => admin[b].key \in Scopes /\ admin[b].incident \in Incidents
      BY <3>1 DEF Handlers
    <3>4. CASE admin[b].op = "open"
      BY <3>1, <3>2, <3>4 DEF IInv, GrantsKept
    <3>5. CASE admin[b].op = "resolve"
      <4>1. Restorable(admin[b].incident, admin[b].key, admin[b].row.id)
        BY <3>5 DEF IInv, GrantsKept
      <4> QED
        BY <1>3, <3>1, <3>3, <3>5, <4>1 DEF Restorable
    <3> QED
      BY <3>1, <3>4, <3>5
  <2> QED
    BY <2>1, <2>2
<1> QED
  BY <1>2, <1>4, <1>5 DEF IInv, GrantsKept

\* Writing to the mode of the row a handler read keeps the scope rows well formed and granted.
LEMMA ModeWrite ==
  ASSUME IInv, NEW k \in Scopes, NEW row \in ScopeRows, NEW new \in Modes, SameRow(k, row),
         scope' = [scope EXCEPT ![k].mode = Write(row.mode, new, @)],
         granted' \in [Scopes -> SUBSET Nat], \A x \in Scopes : granted[x] \subseteq granted'[x],
         new = Visible => row.id \in granted'[k]
  PROVE  /\ scope' \in [Scopes -> ScopeRows]
         /\ \A x \in Scopes : scope'[x].release = NoRelease <=> scope'[x].id = 0
         /\ VisibleWasGranted'
<1>1. /\ scope \in [Scopes -> ScopeRows] /\ scope[k].id = row.id
      /\ \A x \in Scopes : scope[x].release = NoRelease <=> scope[x].id = 0
  BY DEF IInv, TypeOK, SameRow
<1>2. PICK m \in {new, scope[k].mode} : scope' = [scope EXCEPT ![k].mode = m]
  BY <1>1 DEF Write
<1>3. scope[k] \in ScopeRows /\ m \in Modes
  BY <1>1, <1>2 DEF ScopeRows
<1>4. /\ scope'[k].mode = m /\ scope'[k].id = row.id
      /\ scope'[k].release = scope[k].release /\ scope'[k] \in ScopeRows
  BY <1>1, <1>2, <1>3 DEF ScopeRows
<1>5. \A x \in Scopes : x # k => scope'[x] = scope[x]
  BY <1>1, <1>2
<1>6. scope' \in [Scopes -> ScopeRows]
  BY <1>1, <1>2, <1>4, <1>5
<1>7. VisibleWasGranted'
  <2>1. ASSUME NEW x \in Scopes, scope'[x].mode = Visible PROVE scope'[x].id \in granted'[x]
    BY <1>1, <1>2, <1>4, <1>5, <2>1 DEF IInv, VisibleWasGranted, Visible
  <2> QED
    BY <2>1 DEF VisibleWasGranted, Visible
<1> QED
  BY <1>1, <1>4, <1>5, <1>6, <1>7

LEMMA ActivateKeeps == ASSUME IInv, NEW a \in Admins, CommitActivate(a) PROVE IInv'
<1> DEFINE h == admin[a]
           k == ScopeKey[h.release]
<1>0. TypeOK /\ VisibleWasGranted /\ Finished(a) /\ UNCHANGED <<incident, granted>>
  BY DEF IInv, CommitActivate
<1>1. /\ h.release \in Releases /\ h.row \in ScopeRows /\ h.status \in ReleaseStatus
      /\ h.prior \in ReleaseStatus /\ k \in Scopes /\ scope \in [Scopes -> ScopeRows]
  <2>1. admin[a] \in Handlers /\ admin[a].op = "activate"
    BY <1>0 DEF TypeOK, CommitActivate
  <2> QED
    BY <1>0, <2>1 DEF Handlers, TypeOK
<1>2. release' \in [Releases -> ReleaseStatus]
  <2>1. {"ACTIVE", "RETIRED"} \subseteq ReleaseStatus /\ release \in [Releases -> ReleaseStatus]
    BY <1>0 DEF ReleaseStatus, TypeOK
  <2>2. \A r \in Releases : Write(h.status, "ACTIVE", release[r]) \in ReleaseStatus
                            /\ Write(h.prior, "RETIRED", release[r]) \in ReleaseStatus
    BY <2>1 DEF Write
  <2>3. release' = [r \in Releases |->
           CASE r = h.release -> IF h.fresh THEN "ACTIVE" ELSE Write(h.status, "ACTIVE", release[r])
             [] Supersedes(h) /\ r = h.row.release -> Write(h.prior, "RETIRED", release[r])
             [] OTHER -> release[r]]
    BY DEF CommitActivate
  <2> QED
    BY <2>1, <2>2, <2>3
<1>3. ASSUME NEW row \in ScopeRows, scope' = [scope EXCEPT ![k] = row],
             row.release \in Releases, row.id # 0,
             row.mode = Visible => row.id = scope[k].id /\ scope[k].mode = Visible,
             rowsMade' \in [Scopes -> Nat]
      PROVE  IInv'
  <2>1. /\ scope' \in [Scopes -> ScopeRows] /\ scope'[k] = row
        /\ \A x \in Scopes : x # k => scope'[x] = scope[x]
    BY <1>1, <1>3
  <2>2. \A x \in Scopes : scope'[x].release = NoRelease <=> scope'[x].id = 0
    BY <1>0, <1>3, <2>1 DEF TypeOK
  <2>3. VisibleWasGranted'
    BY <1>0, <1>3, <2>1 DEF VisibleWasGranted, Visible
  <2>4. \A i \in Incidents : Carried(i)
    BY <1>0 DEF Carried
  <2>5. incident' \in [Incidents -> IncidentRows] /\ granted' \in [Scopes -> SUBSET Nat]
    BY <1>0 DEF TypeOK
  <2> QED
    BY <1>0, <1>2, <1>3, <2>1, <2>2, <2>3, <2>4, <2>5, CommitKeeps
<1>4. CASE /\ scope' = [scope EXCEPT ![k] = [id |-> rowsMade[k] + 1, release |-> h.release,
                                             mode |-> "HIDDEN_ONLY"]]
           /\ rowsMade' = [rowsMade EXCEPT ![k] = @ + 1]
  <2>1. rowsMade \in [Scopes -> Nat] /\ rowsMade[k] \in Nat /\ rowsMade[k] + 1 \in Nat
    BY <1>0, <1>1 DEF TypeOK
  <2> DEFINE row == [id |-> rowsMade[k] + 1, release |-> h.release, mode |-> "HIDDEN_ONLY"]
  <2>2. /\ row \in ScopeRows /\ row.release \in Releases /\ row.id # 0
        /\ row.mode # Visible /\ scope' = [scope EXCEPT ![k] = row]
    BY <1>1, <1>4, <2>1 DEF ScopeRows, Modes, Visible
  <2>3. rowsMade' \in [Scopes -> Nat]
    <3> HIDE DEF k
    <3> QED
      BY <1>1, <1>4, <2>1
  <2> HIDE DEF row
  <2> QED
    BY <1>3, <2>2, <2>3
<1>5. CASE /\ SameRow(k, h.row)
           /\ scope' = [scope EXCEPT ![k].release = Write(h.row.release, h.release, @)]
           /\ UNCHANGED rowsMade
  <2> DEFINE row == [scope[k] EXCEPT !.release = Write(h.row.release, h.release, scope[k].release)]
  <2>1. scope[k] \in ScopeRows /\ scope[k].id # 0 /\ scope[k].release \in Releases
    BY <1>0, <1>1, <1>5 DEF TypeOK, ScopeRows, SameRow
  <2>2. Write(h.row.release, h.release, scope[k].release) \in Releases
    BY <1>1, <2>1 DEF Write
  <2>3. /\ row \in ScopeRows /\ row.release \in Releases /\ row.id = scope[k].id
        /\ row.mode = scope[k].mode
    BY <2>1, <2>2 DEF ScopeRows
  <2>4. scope' = [scope EXCEPT ![k] = row] /\ rowsMade' \in [Scopes -> Nat]
    BY <1>0, <1>1, <1>5 DEF TypeOK
  <2> HIDE DEF row
  <2> QED
    BY <1>3, <2>1, <2>3, <2>4
<1> QED
  BY <1>4, <1>5 DEF CommitActivate

LEMMA RetireKeeps == ASSUME IInv, NEW a \in Admins, CommitRetire(a) PROVE IInv'
<1> DEFINE h == admin[a]
           k == ScopeKey[h.release]
<1>0. TypeOK /\ VisibleWasGranted /\ Finished(a) /\ UNCHANGED <<rowsMade, granted>>
  BY DEF IInv, CommitRetire
<1>1. h.release \in Releases /\ k \in Scopes /\ scope \in [Scopes -> ScopeRows]
  <2>1. admin[a] \in Handlers /\ admin[a].op = "retire"
    BY <1>0 DEF TypeOK, CommitRetire
  <2> QED
    BY <1>0, <2>1 DEF Handlers, TypeOK
<1>2. release' \in [Releases -> ReleaseStatus]
  <2>1. "RETIRED" \in ReleaseStatus /\ release \in [Releases -> ReleaseStatus]
    BY <1>0 DEF ReleaseStatus, TypeOK
  <2>2. release' = [release EXCEPT ![h.release] = Write(h.status, "RETIRED", @)]
    BY DEF CommitRetire
  <2> QED
    BY <1>1, <2>1, <2>2 DEF Write
<1>3. \A x \in Scopes : scope'[x] = scope[x] \/ scope'[x] = NoRow
  BY <1>1 DEF CommitRetire, Deleted
<1>4. NoRow \in ScopeRows /\ NoRow.release = NoRelease /\ NoRow.id = 0 /\ NoRow.mode # Visible
  BY DEF NoRow, ScopeRows, Modes, Visible
<1>5. scope' \in [Scopes -> ScopeRows]
  <2>1. scope' = scope \/ scope' = [scope EXCEPT ![k] = NoRow]
    BY DEF CommitRetire, Deleted
  <2> QED
    BY <1>1, <1>4, <2>1
<1>6. /\ \A x \in Scopes : scope'[x].release = NoRelease <=> scope'[x].id = 0
      /\ VisibleWasGranted'
  <2>1. \A x \in Scopes : scope'[x].release = NoRelease <=> scope'[x].id = 0
    BY <1>0, <1>3, <1>4 DEF TypeOK
  <2>2. VisibleWasGranted'
    BY <1>0, <1>3, <1>4 DEF VisibleWasGranted, Visible
  <2> QED
    BY <2>1, <2>2
<1>7. \A i \in Incidents : \/ incident'[i] = [incident[i] EXCEPT !.status = "DELETED"]
                              /\ i \in h.incidents
                           \/ incident'[i] = [incident[i] EXCEPT !.row = 0]
                           \/ incident'[i] = incident[i]
  BY DEF CommitRetire
<1>8. \A i \in Incidents : incident[i] \in IncidentRows
  BY <1>0 DEF TypeOK
<1>9. incident' \in [Incidents -> IncidentRows]
  <2>1. ASSUME NEW i \in Incidents PROVE incident'[i] \in IncidentRows
    <3>1. /\ [incident[i] EXCEPT !.status = "DELETED"] \in IncidentRows
          /\ [incident[i] EXCEPT !.row = 0] \in IncidentRows
      BY <1>8 DEF IncidentRows
    <3> QED
      BY <1>7, <1>8, <3>1
  <2>2. incident' = [i \in Incidents |-> incident'[i]]
    BY DEF CommitRetire
  <2> QED
    BY <2>1, <2>2
<1>10. ASSUME NEW i \in Incidents PROVE Carried(i)
  BY <1>7, <1>8 DEF Carried, IncidentRows
<1>11. granted' \in [Scopes -> SUBSET Nat] /\ rowsMade' \in [Scopes -> Nat]
  BY <1>0 DEF TypeOK
<1> QED
  BY <1>0, <1>2, <1>5, <1>6, <1>9, <1>10, <1>11, CommitKeeps

LEMMA SetKeeps == ASSUME IInv, NEW a \in Admins, CommitSetVisibility(a) PROVE IInv'
<1> DEFINE h == admin[a]
<1>0. TypeOK /\ Finished(a) /\ UNCHANGED <<release, rowsMade, incident>>
  BY DEF IInv, CommitSetVisibility
<1>1. h.key \in Scopes /\ h.row \in ScopeRows /\ h.mode \in Modes /\ h.row.id \in Nat
  <2>1. admin[a] \in Handlers /\ admin[a].op = "set"
    BY <1>0 DEF TypeOK, CommitSetVisibility
  <2>2. h.key \in Scopes /\ h.row \in ScopeRows /\ h.mode \in Modes
    BY <2>1 DEF Handlers
  <2> QED
    BY <2>2 DEF ScopeRows
<1>2. /\ granted' \in [Scopes -> SUBSET Nat]
      /\ \A x \in Scopes : granted[x] \subseteq granted'[x]
      /\ h.mode = Visible => h.row.id \in granted'[h.key]
  <2>1. /\ granted \in [Scopes -> SUBSET Nat]
        /\ granted' = IF h.mode = "VISIBLE_REVIEWER_ONLY"
                      THEN [granted EXCEPT ![h.key] = @ \cup {h.row.id}] ELSE granted
    BY <1>0 DEF TypeOK, CommitSetVisibility
  <2> HIDE DEF h
  <2> QED
    BY <1>1, <2>1 DEF Visible
<1>3. /\ SameRow(h.key, h.row)
      /\ scope' = [scope EXCEPT ![h.key].mode = Write(h.row.mode, h.mode, @)]
  BY DEF CommitSetVisibility
<1>4. /\ scope' \in [Scopes -> ScopeRows] /\ VisibleWasGranted'
      /\ \A x \in Scopes : scope'[x].release = NoRelease <=> scope'[x].id = 0
  <2> HIDE DEF h
  <2> QED
    BY <1>1, <1>2, <1>3, ModeWrite
<1>5. \A i \in Incidents : Carried(i)
  BY <1>0 DEF Carried
<1>6. /\ incident' \in [Incidents -> IncidentRows] /\ release' \in [Releases -> ReleaseStatus]
      /\ rowsMade' \in [Scopes -> Nat]
  BY <1>0 DEF TypeOK
<1> QED
  BY <1>0, <1>2, <1>4, <1>5, <1>6, CommitKeeps

LEMMA OpenKeeps == ASSUME IInv, NEW a \in Admins, CommitOpenIncident(a) PROVE IInv'
<1> DEFINE h == admin[a]
<1>0. TypeOK /\ Finished(a) /\ UNCHANGED <<release, rowsMade, granted>>
  BY DEF IInv, CommitOpenIncident
<1>1. /\ h.key \in Scopes /\ h.row \in ScopeRows /\ h.row.id \in Nat /\ h.row.mode \in Modes
      /\ h.op = "open"
  <2>1. admin[a] \in Handlers /\ admin[a].op = "open"
    BY <1>0 DEF TypeOK, CommitOpenIncident
  <2>2. h.key \in Scopes /\ h.row \in ScopeRows
    BY <2>1 DEF Handlers
  <2> QED
    BY <2>1, <2>2 DEF ScopeRows
<1>2. granted' = granted /\ granted' \in [Scopes -> SUBSET Nat]
  BY <1>0 DEF TypeOK
<1>3. /\ SameRow(h.key, h.row) /\ "DISABLED" \in Modes /\ "DISABLED" # Visible
      /\ scope' = [scope EXCEPT ![h.key].mode = Write(h.row.mode, "DISABLED", @)]
  BY DEF CommitOpenIncident, Modes, Visible
<1>4. /\ scope' \in [Scopes -> ScopeRows] /\ VisibleWasGranted'
      /\ \A x \in Scopes : scope'[x].release = NoRelease <=> scope'[x].id = 0
  <2> HIDE DEF h
  <2> QED
    BY <1>1, <1>2, <1>3, ModeWrite
<1>5. PICK j \in Incidents :
        /\ incident[j].status = "ABSENT"
        /\ incident' = [incident EXCEPT ![j] = [status |-> "OPEN", key |-> h.key,
                                                row |-> h.row.id, previous |-> h.row.mode]]
  BY DEF CommitOpenIncident
<1>6. [status |-> "OPEN", key |-> h.key, row |-> h.row.id, previous |-> h.row.mode]
        \in IncidentRows
  BY <1>1 DEF IncidentRows
<1>7. incident \in [Incidents -> IncidentRows]
  BY <1>0 DEF TypeOK
<1>8. incident' \in [Incidents -> IncidentRows]
  <2> HIDE DEF h
  <2> QED
    BY <1>5, <1>6, <1>7
<1>9. ASSUME NEW i \in Incidents PROVE Carried(i)
  <2>1. h.row.mode = Visible => h.row.id \in granted[h.key]
    BY <1>1 DEF IInv, GrantsKept
  <2> HIDE DEF h
  <2>2. CASE i = j
    BY <1>2, <1>5, <1>7, <2>1, <2>2 DEF Carried
  <2>3. CASE i # j
    <3>1. incident'[i] = incident[i]
      BY <1>5, <1>7, <2>3
    <3> QED
      BY <3>1 DEF Carried
  <2> QED
    BY <2>2, <2>3
<1>10. release' \in [Releases -> ReleaseStatus] /\ rowsMade' \in [Scopes -> Nat]
  BY <1>0 DEF TypeOK
<1> QED
  BY <1>0, <1>2, <1>4, <1>8, <1>9, <1>10, CommitKeeps

LEMMA ResolveKeeps == ASSUME IInv, NEW a \in Admins, CommitResolveIncident(a) PROVE IInv'
<1> DEFINE h == admin[a]
           found == incident[h.incident]
<1>0. TypeOK /\ VisibleWasGranted /\ Finished(a) /\ UNCHANGED <<release, rowsMade, granted>>
  BY DEF IInv, CommitResolveIncident
<1>1. /\ h.key \in Scopes /\ h.row \in ScopeRows /\ h.incident \in Incidents
      /\ h.op = "resolve"
  <2>1. admin[a] \in Handlers /\ admin[a].op = "resolve"
    BY <1>0 DEF TypeOK, CommitResolveIncident
  <2> QED
    BY <2>1 DEF Handlers
<1>2. granted' = granted /\ granted' \in [Scopes -> SUBSET Nat]
  BY <1>0 DEF TypeOK
<1>3. /\ incident \in [Incidents -> IncidentRows] /\ found.previous \in Modes
      /\ incident' = [incident EXCEPT ![h.incident].status = "RESOLVED"]
  BY <1>0, <1>1 DEF TypeOK, IncidentRows, CommitResolveIncident
<1>4. found.previous = Visible => h.row.id \in granted[h.key]
  BY <1>1 DEF IInv, GrantsKept, Restorable
<1>5. /\ scope' \in [Scopes -> ScopeRows] /\ VisibleWasGranted'
      /\ \A x \in Scopes : scope'[x].release = NoRelease <=> scope'[x].id = 0
  <2>1. CASE h.rollback
    <3>1. /\ SameRow(h.key, h.row)
          /\ scope' = [scope EXCEPT ![h.key].mode = Write(h.row.mode, found.previous, @)]
      BY <2>1 DEF CommitResolveIncident
    <3> HIDE DEF h, found
    <3> QED
      BY <1>1, <1>2, <1>3, <1>4, <3>1, ModeWrite
  <2>2. CASE ~h.rollback
    <3>1. scope' = scope
      BY <2>2 DEF CommitResolveIncident
    <3> QED
      BY <1>0, <1>2, <3>1 DEF TypeOK, VisibleWasGranted
  <2> QED
    BY <2>1, <2>2
<1>6. ASSUME NEW i \in Incidents
      PROVE  \/ incident'[i] = incident[i]
             \/ incident'[i] = [incident[i] EXCEPT !.status = "RESOLVED"]
  <2> HIDE DEF h
  <2> QED
    BY <1>3
<1>7. \A i \in Incidents : incident[i] \in IncidentRows
  BY <1>3
<1>8. incident' \in [Incidents -> IncidentRows]
  <2>1. ASSUME NEW i \in Incidents PROVE incident'[i] \in IncidentRows
    <3>1. [incident[i] EXCEPT !.status = "RESOLVED"] \in IncidentRows
      BY <1>7 DEF IncidentRows
    <3> QED
      BY <1>6, <1>7, <3>1
  <2> HIDE DEF h
  <2> QED
    BY <1>3, <2>1
<1>9. ASSUME NEW i \in Incidents PROVE Carried(i)
  BY <1>6, <1>7 DEF Carried, IncidentRows
<1>10. release' \in [Releases -> ReleaseStatus] /\ rowsMade' \in [Scopes -> Nat]
  BY <1>0 DEF TypeOK
<1> QED
  BY <1>0, <1>2, <1>5, <1>8, <1>9, <1>10, CommitKeeps

LEMMA AbortKeeps == ASSUME IInv, NEW a \in Admins, Abort(a) PROVE IInv'
<1>1. Reading /\ admin' = [admin EXCEPT ![a] = Idle]
  BY DEF Abort, Reading
<1>2. Idle \in Handlers /\ Idle.op = "none"
  BY DEF Handlers, Idle
<1> HIDE DEF Idle
<1> QED
  BY <1>1, <1>2, ReadingKeeps

-------------------------------------------------------------------------------
(* The other steps and the theorems *)

\* Registering, packs, scoring and viewers touch none of the rows that GrantsKept speaks of.
LEMMA OthersKeep ==
  ASSUME IInv, TypeOK', UNCHANGED <<scope, incident, admin, granted>>
  PROVE  IInv'
BY DEF IInv, VisibleWasGranted, GrantsKept, Restorable

LEMMA NextIInv == ASSUME IInv, [Next]_vars PROVE IInv'
<1>0. TypeOK
  BY DEF IInv
<1>1. ASSUME NEW r \in Releases, Register(r) PROVE IInv'
  <2>1. BuildStatus(r) \in ReleaseStatus
    BY DEF BuildStatus, ReleaseStatus
  <2> QED
    BY <1>0, <1>1, <2>1, OthersKeep DEF TypeOK, Register
<1>2. ASSUME NEW a \in Admins, AdminReads(a) \/ AdminCommits(a) PROVE IInv'
  BY <1>2, AdminReadsKeep, ActivateKeeps, RetireKeeps, SetKeeps, OpenKeeps, ResolveKeeps,
     AbortKeeps DEF AdminCommits
<1>3. ASSUME NEW k \in Borough, PacksChange(k) PROVE IInv'
  BY <1>0, <1>3, OthersKeep DEF TypeOK, PacksChange
<1>4. ASSUME NEW k \in Scopes, Score(k) PROVE IInv'
  <2>1. scope[k].release \in Releases
    BY <1>0, <1>4 DEF TypeOK, ScopeRows, Score
  <2> QED
    BY <1>0, <1>4, <2>1, OthersKeep DEF TypeOK, Score
<1>5. ASSUME NEW v \in Viewers,
             \/ \E r \in Releases, hidden \in BOOLEAN : ReadScope(v, r, hidden)
             \/ Decide(v) \/ Answered(v)
      PROVE  IInv'
  <2>1. viewer \in [Viewers -> Reads] /\ calm \subseteq Viewers /\ [pc |-> "idle"] \in Reads
    BY <1>0 DEF TypeOK, Reads
  <2>2. ASSUME NEW r \in Releases, NEW hidden \in BOOLEAN, ReadScope(v, r, hidden)
        PROVE  viewer' \in [Viewers -> Reads] /\ calm' \subseteq Viewers
    <3>1. [pc |-> "read", key |-> ScopeKey[r], release |-> r, row |-> scope[ScopeKey[r]],
           hidden |-> hidden] \in Reads
      BY <1>0 DEF TypeOK, Reads
    <3>2. viewer' \in [Viewers -> Reads]
      BY <2>1, <2>2, <3>1 DEF ReadScope
    <3>3. calm' \subseteq Viewers
      BY <2>1, <2>2 DEF ReadScope
    <3> QED
      BY <3>2, <3>3
  <2>3. CASE Decide(v)
    <3>1. viewer[v] \in Reads /\ viewer[v].pc = "read"
      BY <2>1, <2>3 DEF Decide
    <3>2. [viewer[v] EXCEPT !.pc = "shown"] \in Reads
      BY <3>1 DEF Reads
    <3>3. viewer' \in [Viewers -> Reads]
      BY <2>1, <2>3, <3>2 DEF Decide
    <3> QED
      BY <1>0, <2>3, <3>3, OthersKeep DEF TypeOK, Decide
  <2>4. CASE Answered(v)
    <3>1. viewer' \in [Viewers -> Reads]
      BY <2>1, <2>4 DEF Answered
    <3> QED
      BY <1>0, <2>4, <3>1, OthersKeep DEF TypeOK, Answered
  <2>5. ASSUME NEW r \in Releases, NEW hidden \in BOOLEAN, ReadScope(v, r, hidden) PROVE IInv'
    BY <1>0, <2>2, <2>5, OthersKeep DEF TypeOK, ReadScope
  <2> QED
    BY <1>5, <2>3, <2>4, <2>5
<1>6. CASE UNCHANGED vars
  BY <1>0, <1>6, OthersKeep DEF vars, TypeOK
<1> QED
  BY <1>1, <1>2, <1>3, <1>4, <1>5, <1>6 DEF Next

\* The invariant holds in every reachable state.
THEOREM ControlInvariant == Spec => []IInv
<1>1. IInv /\ [Next]_vars => IInv'
  BY NextIInv
<1> QED
  BY <1>1, InitIInv, PTL DEF Spec

\* Every row, handler and viewer stays within its type (all tables and handlers of the model).
THEOREM ControlTypeCorrect == Spec => []TypeOK
<1>1. IInv => TypeOK
  BY DEF IInv
<1> QED
  BY <1>1, ControlInvariant, PTL

\* A scope is reviewer-visible only by an administrator's decision about that very row
\* (set_scope_visibility with its sign-off check), whatever activations, retirements, incidents
\* and rollbacks race with it.
THEOREM VisibilityIsGranted == Spec => []VisibleWasGranted
<1>1. IInv => VisibleWasGranted
  BY DEF IInv
<1> QED
  BY <1>1, ControlInvariant, PTL

-------------------------------------------------------------------------------
(* One administrator at a time                                                 *)

\* Administrators' requests do not overlap: there is one handler slot.
OneAdministrator == \A a, b \in Admins : a = b

\* What retire_model_release finds for release r: its row, and the incidents the row loads.
RowOf(r) == IF scope[ScopeKey[r]].release = r THEN scope[ScopeKey[r]] ELSE NoRow
RecordsOf(k, row) == {i \in Incidents : /\ incident[i].status \in {"OPEN", "RESOLVED"}
                                        /\ incident[i].key = k
                                        /\ row.id # 0 /\ incident[i].row = row.id}

\* What a handler holds is what the tables still say.
StillAsRead ==
  \A a \in Admins :
    /\ admin[a].op = "activate" =>
         /\ admin[a].row = scope[ScopeKey[admin[a].release]]
         /\ ~admin[a].fresh => /\ release[admin[a].release] = admin[a].status
                               /\ admin[a].status # "ABSENT"
         /\ admin[a].row.id # 0 => admin[a].prior = release[admin[a].row.release]
    /\ admin[a].op = "retire" =>
         /\ admin[a].row = RowOf(admin[a].release)
         /\ release[admin[a].release] = admin[a].status /\ admin[a].status # "ABSENT"
         /\ admin[a].incidents = RecordsOf(ScopeKey[admin[a].release], admin[a].row)
    /\ admin[a].op \in {"set", "open", "resolve"} => admin[a].row = scope[admin[a].key]
    /\ admin[a].op = "open" => OpenOn(admin[a].key, admin[a].row) = {}

\* An open incident is on a row.
OpenIsOnARow == \A i \in Incidents : incident[i].status = "OPEN" => incident[i].row # 0

\* A gate that has seen no moment without an open incident still finds one on the row it read.
NoticedOrOpen ==
  \A v \in Viewers : viewer[v].pc = "read" /\ v \notin calm =>
    OpenOn(viewer[v].key, viewer[v].row) # {}

SInv == /\ OneActivePerScope /\ OpenIncidentsResolvable /\ OpenIsOnARow
        /\ StillAsRead /\ KillSwitchEffective /\ NoticedOrOpen

\* OneActivePerScope, release by release.
Registered ==
  /\ \A r \in Releases : release[r] = "ACTIVE" <=>
       scope[ScopeKey[r]].id # 0 /\ scope[ScopeKey[r]].release = r
  /\ \A k \in Scopes : scope[k].id # 0 => ScopeKey[scope[k].release] = k

LEMMA RegisteredIsOneActive == ASSUME TypeOK PROVE Registered <=> OneActivePerScope
<1>1. \A k \in Scopes : scope[k].id # 0 => scope[k].release \in Releases
  BY DEF TypeOK, ScopeRows
<1>2. ASSUME Registered PROVE OneActivePerScope
  BY <1>1, <1>2 DEF Registered, OneActivePerScope
<1>3. ASSUME OneActivePerScope PROVE Registered
  <2>1. ASSUME NEW k \in Scopes, scope[k].id # 0
        PROVE  ScopeKey[scope[k].release] = k
    <3>1. scope[k].release \in {r \in Releases : ScopeKey[r] = k /\ release[r] = "ACTIVE"}
      BY <1>3, <2>1 DEF OneActivePerScope
    <3> QED
      BY <3>1
  <2>2. ASSUME NEW r \in Releases
        PROVE  release[r] = "ACTIVE" <=> scope[ScopeKey[r]].id # 0 /\ scope[ScopeKey[r]].release = r
    <3>1. {q \in Releases : ScopeKey[q] = ScopeKey[r] /\ release[q] = "ACTIVE"} =
            IF scope[ScopeKey[r]].id = 0 THEN {} ELSE {scope[ScopeKey[r]].release}
      BY <1>3 DEF OneActivePerScope
    <3> QED
      BY <3>1
  <2> QED
    BY <2>1, <2>2 DEF Registered
<1> QED
  BY <1>2, <1>3

LEMMA RegisteredIsOneActiveNext == ASSUME TypeOK' PROVE Registered' <=> OneActivePerScope'
<1>1. \A k \in Scopes : scope'[k].id # 0 => scope'[k].release \in Releases
  BY DEF TypeOK, ScopeRows
<1>2. ASSUME Registered' PROVE OneActivePerScope'
  BY <1>1, <1>2 DEF Registered, OneActivePerScope
<1>3. ASSUME OneActivePerScope' PROVE Registered'
  <2>1. ASSUME NEW k \in Scopes, scope'[k].id # 0
        PROVE  ScopeKey[scope'[k].release] = k
    <3>1. scope'[k].release \in {r \in Releases : ScopeKey[r] = k /\ release'[r] = "ACTIVE"}
      BY <1>3, <2>1 DEF OneActivePerScope
    <3> QED
      BY <3>1
  <2>2. ASSUME NEW r \in Releases
        PROVE  release'[r] = "ACTIVE"
                 <=> scope'[ScopeKey[r]].id # 0 /\ scope'[ScopeKey[r]].release = r
    <3>1. {q \in Releases : ScopeKey[q] = ScopeKey[r] /\ release'[q] = "ACTIVE"} =
            IF scope'[ScopeKey[r]].id = 0 THEN {} ELSE {scope'[ScopeKey[r]].release}
      BY <1>3 DEF OneActivePerScope
    <3> QED
      BY <3>1
  <2> QED
    BY <2>1, <2>2 DEF Registered
<1> QED
  BY <1>2, <1>3

\* The gate's part: a step that leaves the viewers alone, notes the quiet moments, and moves no
\* row under an open incident.
LEMMA GateKeeps ==
  ASSUME IInv, IInv', KillSwitchEffective, NoticedOrOpen, OpenIncidentsResolvable, OpenIsOnARow,
         OpenIncidentsResolvable', OpenIsOnARow', UNCHANGED viewer,
         calm' = calm \cup {v \in Viewers : /\ viewer[v].pc = "read"
                                            /\ Quiet(incident', viewer[v].key)},
         \A k \in Scopes : scope[k].id # 0 /\ scope'[k].id # 0 => scope'[k].id = scope[k].id
  PROVE  KillSwitchEffective' /\ NoticedOrOpen'
<1>1. KillSwitchEffective'
  BY DEF KillSwitchEffective
<1>2. ASSUME NEW v \in Viewers, viewer[v].pc = "read", v \notin calm'
      PROVE  OpenOn(viewer[v].key, viewer[v].row)' # {}
  <2> DEFINE k == viewer[v].key
             row == viewer[v].row
  <2>0. k \in Scopes
    BY <1>2 DEF IInv, TypeOK, Reads
  <2>1. v \notin calm /\ ~Quiet(incident', k)
    BY <1>2
  <2>2. PICK i \in Incidents : incident[i].status = "OPEN" /\ incident[i].key = k
                               /\ incident[i].row = row.id
    BY <1>2, <2>1 DEF NoticedOrOpen, OpenOn
  <2>3. scope[k].id = row.id /\ row.id # 0
    BY <2>2 DEF OpenIncidentsResolvable, OpenIsOnARow
  <2>4. PICK j \in Incidents : incident'[j].status = "OPEN" /\ incident'[j].key = k
    BY <2>1 DEF Quiet
  <2>5. incident'[j].row = scope'[k].id /\ incident'[j].row # 0
    BY <2>4 DEF OpenIncidentsResolvable, OpenIsOnARow
  <2>6. incident'[j].row = row.id
    BY <2>0, <2>3, <2>5
  <2>7. viewer'[v] = viewer[v]
    OBVIOUS
  <2> QED
    BY <2>4, <2>6, <2>7 DEF OpenOn
<1> QED
  BY <1>1, <1>2 DEF NoticedOrOpen

\* After a commit there is no other handler that holds anything.
LEMMA NobodyReads ==
  ASSUME OneAdministrator, NEW a \in Admins, TypeOK, admin' = [admin EXCEPT ![a] = Idle]
  PROVE  StillAsRead'
<1>1. \A b \in Admins : admin'[b].op = "none"
  BY DEF OneAdministrator, TypeOK, Idle
<1> QED
  BY <1>1 DEF StillAsRead

\* A commit that leaves the incidents alone and deletes no scope row.
LEMMA RowsStay ==
  ASSUME IInv, IInv', SInv, NEW a \in Admins, Finished(a), UNCHANGED incident,
         OneActivePerScope', StillAsRead',
         \A k \in Scopes : scope[k].id # 0 => scope'[k].id = scope[k].id
  PROVE  SInv'
<1>1. OpenIsOnARow'
  BY DEF SInv, OpenIsOnARow
<1>2. OpenIncidentsResolvable'
  <2>1. ASSUME NEW i \in Incidents, incident[i].status = "OPEN"
        PROVE  incident[i].row = scope'[incident[i].key].id
    <3>1. incident[i].key \in Scopes
      BY DEF IInv, TypeOK, IncidentRows
    <3>2. incident[i].row = scope[incident[i].key].id /\ incident[i].row # 0
      BY <2>1 DEF SInv, OpenIncidentsResolvable, OpenIsOnARow
    <3> QED
      BY <3>1, <3>2
  <2> QED
    BY <2>1 DEF SInv, OpenIncidentsResolvable
<1>3. KillSwitchEffective' /\ NoticedOrOpen'
  BY <1>1, <1>2, GateKeeps DEF Finished, SInv
<1> QED
  BY <1>1, <1>2, <1>3 DEF SInv

LEMMA InitSInv == Init => SInv
<1> SUFFICES ASSUME Init PROVE SInv
  OBVIOUS
<1>1. OneActivePerScope
  BY DEF Init, OneActivePerScope, NoRow
<1>2. OpenIncidentsResolvable /\ OpenIsOnARow
  BY DEF Init, OpenIncidentsResolvable, OpenIsOnARow
<1>3. StillAsRead
  BY DEF Init, StillAsRead, Idle
<1>4. KillSwitchEffective /\ NoticedOrOpen
  BY DEF Init, KillSwitchEffective, NoticedOrOpen
<1> QED
  BY <1>1, <1>2, <1>3, <1>4 DEF SInv

\* A handler that starts holds what it has just read.
LEMMA ReadingIsFresh ==
  ASSUME OneAdministrator, IInv, SInv, Reading, NEW a \in Admins, NEW h,
         admin' = [admin EXCEPT ![a] = h],
         h.op = "activate" =>
           /\ h.row = scope[ScopeKey[h.release]]
           /\ ~h.fresh => release[h.release] = h.status /\ h.status # "ABSENT"
           /\ h.row.id # 0 => h.prior = release[h.row.release],
         h.op = "retire" =>
           /\ h.row = RowOf(h.release)
           /\ release[h.release] = h.status /\ h.status # "ABSENT"
           /\ h.incidents = RecordsOf(ScopeKey[h.release], h.row),
         h.op \in {"set", "open", "resolve"} => h.row = scope[h.key],
         h.op = "open" => OpenOn(h.key, h.row) = {}
  PROVE  SInv'
<1>1. UNCHANGED <<release, scope, incident, viewer, calm>>
  BY DEF Reading
<1>2. \A b \in Admins : admin'[b] = h
  BY DEF OneAdministrator, IInv, TypeOK
<1>3. StillAsRead'
  BY <1>1, <1>2 DEF StillAsRead, RowOf, RecordsOf, OpenOn
<1>4. (OneActivePerScope /\ OpenIncidentsResolvable /\ OpenIsOnARow)'
  BY <1>1 DEF SInv, OneActivePerScope, OpenIncidentsResolvable, OpenIsOnARow
<1>5. (KillSwitchEffective /\ NoticedOrOpen)'
  BY <1>1 DEF SInv, KillSwitchEffective, NoticedOrOpen, OpenOn
<1> QED
  BY <1>3, <1>4, <1>5 DEF SInv

LEMMA AdminReadsFresh ==
  ASSUME OneAdministrator, IInv, SInv, NEW a \in Admins, AdminReads(a)
  PROVE  SInv'
<1>1. ASSUME NEW r \in Releases, ReadActivate(a, r) PROVE SInv'
  <2> DEFINE row == scope[ScopeKey[r]]
             h == [op |-> "activate", release |-> r, row |-> row, incidents |-> {},
                   fresh |-> release[r] = "ABSENT",
                   status |-> IF release[r] = "ABSENT" THEN "VALIDATED" ELSE release[r],
                   prior |-> IF row.id # 0 THEN release[row.release] ELSE "ABSENT"]
  <2>1. admin' = [admin EXCEPT ![a] = h] /\ Reading
    BY <1>1 DEF ReadActivate
  <2>2. /\ h.op = "activate" /\ h.row = scope[ScopeKey[h.release]]
        /\ h.row.id # 0 => h.prior = release[h.row.release]
    OBVIOUS
  <2>3. ~h.fresh => release[h.release] = h.status /\ h.status # "ABSENT"
    OBVIOUS
  <2> HIDE DEF h
  <2> QED
    BY <2>1, <2>2, <2>3, ReadingIsFresh
<1>2. ASSUME NEW r \in Releases, ReadRetire(a, r) PROVE SInv'
  <2> DEFINE row == IF scope[ScopeKey[r]].release = r THEN scope[ScopeKey[r]] ELSE NoRow
             h == [op |-> "retire", release |-> r, row |-> row, fresh |-> FALSE,
                   status |-> release[r], prior |-> "ABSENT",
                   incidents |-> {i \in Incidents : /\ incident[i].status \in {"OPEN", "RESOLVED"}
                                                    /\ incident[i].key = ScopeKey[r]
                                                    /\ row.id # 0 /\ incident[i].row = row.id}]
  <2>1. admin' = [admin EXCEPT ![a] = h] /\ Reading /\ release[r] # "ABSENT"
    BY <1>2 DEF ReadRetire
  <2>2. h.incidents = RecordsOf(ScopeKey[h.release], h.row)
    BY DEF RecordsOf
  <2>3. /\ h.op = "retire" /\ h.row = RowOf(h.release)
        /\ release[h.release] = h.status /\ h.status # "ABSENT"
    BY <2>1 DEF RowOf
  <2> HIDE DEF h
  <2> QED
    BY <2>1, <2>2, <2>3, ReadingIsFresh
<1>3. ASSUME NEW k \in Scopes, NEW mode \in Modes, ReadSetVisibility(a, k, mode) PROVE SInv'
  <2> DEFINE h == [op |-> "set", key |-> k, row |-> scope[k], mode |-> mode]
  <2>1. admin' = [admin EXCEPT ![a] = h] /\ Reading /\ h.op = "set" /\ h.row = scope[h.key]
    BY <1>3 DEF ReadSetVisibility
  <2> HIDE DEF h
  <2> QED
    BY <2>1, ReadingIsFresh
<1>4. ASSUME NEW k \in Scopes, ReadOpenIncident(a, k) PROVE SInv'
  <2> DEFINE h == [op |-> "open", key |-> k, row |-> scope[k]]
  <2>1. /\ admin' = [admin EXCEPT ![a] = h] /\ Reading /\ h.op = "open"
        /\ h.row = scope[h.key] /\ OpenOn(h.key, h.row) = {}
    BY <1>4 DEF ReadOpenIncident
  <2> HIDE DEF h
  <2> QED
    BY <2>1, ReadingIsFresh
<1>5. ASSUME NEW k \in Scopes, NEW rollback \in BOOLEAN, ReadResolveIncident(a, k, rollback)
      PROVE  SInv'
  <2>1. PICK i \in Incidents :
          admin' = [admin EXCEPT ![a] = [op |-> "resolve", key |-> k, row |-> scope[k],
                                         incident |-> i, rollback |-> rollback]]
    BY <1>5 DEF ReadResolveIncident
  <2> DEFINE h == [op |-> "resolve", key |-> k, row |-> scope[k], incident |-> i,
                   rollback |-> rollback]
  <2>2. /\ admin' = [admin EXCEPT ![a] = h] /\ Reading /\ h.op = "resolve"
        /\ h.row = scope[h.key]
    BY <1>5, <2>1 DEF ReadResolveIncident
  <2> HIDE DEF h
  <2> QED
    BY <2>2, ReadingIsFresh
<1> QED
  BY <1>1, <1>2, <1>3, <1>4, <1>5 DEF AdminReads

LEMMA ActivateSerial ==
  ASSUME OneAdministrator, IInv, SInv, NEW a \in Admins, CommitActivate(a)
  PROVE  SInv'
<1> DEFINE h == admin[a]
           k == ScopeKey[h.release]
<1>0. /\ IInv' /\ TypeOK /\ TypeOK' /\ h.op = "activate" /\ h \in Handlers
      /\ h.release \in Releases /\ k \in Scopes /\ scope \in [Scopes -> ScopeRows]
      /\ release \in [Releases -> ReleaseStatus] /\ rowsMade[k] \in Nat /\ h.fresh \in BOOLEAN
  BY ActivateKeeps DEF IInv, TypeOK, CommitActivate, Handlers
<1>1. /\ h.row = scope[k]
      /\ ~h.fresh => release[h.release] = h.status
      /\ h.row.id # 0 => h.prior = release[h.row.release]
  BY <1>0 DEF SInv, StillAsRead
<1>2. Registered
  BY <1>0, RegisteredIsOneActive DEF SInv
<1>3. \/ /\ scope[k].id = 0
         /\ scope' = [scope EXCEPT ![k] = [id |-> rowsMade[k] + 1, release |-> h.release,
                                           mode |-> "HIDDEN_ONLY"]]
      \/ /\ SameRow(k, h.row)
         /\ scope' = [scope EXCEPT ![k].release = Write(h.row.release, h.release, @)]
  BY DEF CommitActivate
<1>4. release' = [r \in Releases |->
           CASE r = h.release -> IF h.fresh THEN "ACTIVE" ELSE Write(h.status, "ACTIVE", release[r])
             [] Supersedes(h) /\ r = h.row.release -> Write(h.prior, "RETIRED", release[r])
             [] OTHER -> release[r]]
  BY DEF CommitActivate
<1>5. UNCHANGED incident /\ Finished(a)
  BY DEF CommitActivate
<1> HIDE DEF h, k
<1>6. k = ScopeKey[h.release]
  BY DEF k
<1>7. /\ scope'[k].release = h.release /\ scope'[k].id # 0
      /\ \A q \in Scopes : q # k => scope'[q] = scope[q]
      /\ scope[k].id # 0 => scope'[k].id = scope[k].id
  <2>1. CASE /\ scope[k].id = 0
             /\ scope' = [scope EXCEPT ![k] = [id |-> rowsMade[k] + 1, release |-> h.release,
                                               mode |-> "HIDDEN_ONLY"]]
    BY <1>0, <2>1
  <2>2. CASE /\ SameRow(k, h.row)
             /\ scope' = [scope EXCEPT ![k].release = Write(h.row.release, h.release, @)]
    <3>1. /\ scope'[k].release = Write(h.row.release, h.release, scope[k].release)
          /\ scope'[k].id = scope[k].id /\ \A q \in Scopes : q # k => scope'[q] = scope[q]
      BY <1>0, <2>2 DEF ScopeRows
    <3>2. scope'[k].release = h.release
      BY <1>1, <3>1 DEF Write
    <3> QED
      BY <2>2, <3>1, <3>2 DEF SameRow
  <2> QED
    BY <1>3, <2>1, <2>2
<1>8. release'[h.release] = "ACTIVE"
  <2>1. CASE h.fresh
    BY <1>0, <1>4, <2>1 DEF Supersedes
  <2>2. CASE ~h.fresh
    <3>1. release'[h.release] = Write(h.status, "ACTIVE", release[h.release])
      BY <1>0, <1>4, <2>2 DEF Supersedes
    <3> QED
      BY <1>1, <2>2, <3>1 DEF Write
  <2> QED
    BY <2>1, <2>2
<1>9. ASSUME NEW r \in Releases, r # h.release
      PROVE  release'[r] = "ACTIVE" <=> release[r] = "ACTIVE" /\ ScopeKey[r] # k
  <2>1. CASE Supersedes(h) /\ r = h.row.release
    <3>1. release'[r] = Write(h.prior, "RETIRED", release[r])
      BY <1>4, <1>9, <2>1
    <3>2. h.prior = release[r] /\ ScopeKey[r] = k
      BY <1>0, <1>1, <1>2, <2>1 DEF Registered, Supersedes
    <3> QED
      BY <3>1, <3>2 DEF Write
  <2>2. CASE ~(Supersedes(h) /\ r = h.row.release)
    <3>1. release'[r] = release[r]
      BY <1>4, <1>9, <2>2
    <3>2. release[r] = "ACTIVE" /\ ScopeKey[r] = k => scope[k].id # 0 /\ scope[k].release = r
      BY <1>2 DEF Registered
    <3>3. ~(scope[k].id # 0 /\ scope[k].release = r)
      BY <1>1, <1>9, <2>2 DEF Supersedes
    <3> QED
      BY <3>1, <3>2, <3>3
  <2> QED
    BY <2>1, <2>2
<1>10. Registered'
  <2>1. ASSUME NEW r \in Releases
        PROVE  release'[r] = "ACTIVE"
                 <=> scope'[ScopeKey[r]].id # 0 /\ scope'[ScopeKey[r]].release = r
    <3>1. CASE r = h.release
      BY <1>6, <1>7, <1>8, <3>1
    <3>2. CASE r # h.release /\ ScopeKey[r] = k
      BY <1>7, <1>9, <3>2
    <3>3. CASE ScopeKey[r] # k
      <4>1. scope'[ScopeKey[r]] = scope[ScopeKey[r]] /\ r # h.release
        BY <1>6, <1>7, <3>3
      <4>2. release'[r] = "ACTIVE" <=> release[r] = "ACTIVE"
        BY <1>9, <3>3, <4>1
      <4> QED
        BY <1>2, <4>1, <4>2 DEF Registered
    <3> QED
      BY <3>1, <3>2, <3>3
  <2>2. ASSUME NEW q \in Scopes, scope'[q].id # 0 PROVE ScopeKey[scope'[q].release] = q
    <3>1. CASE q = k
      BY <1>6, <1>7, <3>1
    <3>2. CASE q # k
      BY <1>2, <1>7, <2>2, <3>2 DEF Registered
    <3> QED
      BY <3>1, <3>2
  <2> QED
    BY <2>1, <2>2 DEF Registered
<1>11. OneActivePerScope'
  BY <1>0, <1>10, RegisteredIsOneActiveNext
<1>12. \A q \in Scopes : scope[q].id # 0 => scope'[q].id = scope[q].id
  BY <1>7
<1>13. StillAsRead'
  BY <1>0, <1>5, NobodyReads DEF Finished
<1> QED
  BY <1>0, <1>5, <1>11, <1>12, <1>13, RowsStay

LEMMA RetireSerial ==
  ASSUME OneAdministrator, IInv, SInv, NEW a \in Admins, CommitRetire(a)
  PROVE  SInv'
<1> DEFINE h == admin[a]
           k == ScopeKey[h.release]
           deletes == SameRow(k, h.row)
<1>0. /\ IInv' /\ TypeOK /\ TypeOK' /\ h.op = "retire" /\ h \in Handlers
      /\ h.release \in Releases /\ k \in Scopes /\ scope \in [Scopes -> ScopeRows]
  BY RetireKeeps DEF IInv, TypeOK, CommitRetire, Handlers
<1>1. /\ h.row = RowOf(h.release)
      /\ release[h.release] = h.status /\ h.status # "ABSENT"
      /\ h.incidents = RecordsOf(k, h.row)
  BY <1>0 DEF SInv, StillAsRead
<1>2. Registered
  BY <1>0, RegisteredIsOneActive DEF SInv
<1>3. release' = [release EXCEPT ![h.release] = Write(h.status, "RETIRED", @)]
  BY DEF CommitRetire
<1>4. release'[h.release] # "ACTIVE" /\ \A r \in Releases : r # h.release => release'[r] = release[r]
  BY <1>0, <1>1, <1>3 DEF Write, TypeOK
<1>5. deletes <=> scope[k].id # 0 /\ scope[k].release = h.release
  BY <1>0, <1>1 DEF SameRow, RowOf, NoRow
<1>6. deletes => h.row = scope[k] /\ h.row.id # 0
  BY <1>0, <1>1, <1>5 DEF RowOf
<1>7. scope' = IF deletes THEN [scope EXCEPT ![k] = NoRow] ELSE scope
  BY DEF CommitRetire, Deleted
<1>8. /\ \A q \in Scopes : q # k => scope'[q] = scope[q]
      /\ deletes => scope'[k] = NoRow
      /\ ~deletes => scope'[k] = scope[k]
  BY <1>0, <1>7
<1>9. incident' = [i \in Incidents |->
           CASE i \in h.incidents -> [incident[i] EXCEPT !.status = "DELETED"]
             [] deletes /\ i \notin h.incidents /\ incident[i].key = k
                  /\ incident[i].row = h.row.id -> [incident[i] EXCEPT !.row = 0]
             [] OTHER -> incident[i]]
  BY DEF CommitRetire
<1>10. k = ScopeKey[h.release] /\ Finished(a)
  BY DEF CommitRetire
<1> HIDE DEF h, k, deletes
<1>11. Registered'
  <2>1. ASSUME NEW r \in Releases
        PROVE  release'[r] = "ACTIVE"
                 <=> scope'[ScopeKey[r]].id # 0 /\ scope'[ScopeKey[r]].release = r
    <3>1. CASE r = h.release
      BY <1>0, <1>4, <1>5, <1>8, <1>10, <3>1 DEF NoRow
    <3>2. CASE r # h.release /\ ScopeKey[r] = k
      BY <1>0, <1>2, <1>4, <1>5, <1>8, <3>2 DEF Registered, NoRow
    <3>3. CASE ScopeKey[r] # k
      BY <1>2, <1>4, <1>8, <1>10, <3>3 DEF Registered
    <3> QED
      BY <3>1, <3>2, <3>3
  <2>2. ASSUME NEW q \in Scopes, scope'[q].id # 0 PROVE ScopeKey[scope'[q].release] = q
    BY <1>2, <1>8, <2>2 DEF Registered, NoRow
  <2> QED
    BY <2>1, <2>2 DEF Registered
<1>12. OneActivePerScope'
  BY <1>0, <1>11, RegisteredIsOneActiveNext
<1>13. ASSUME NEW i \in Incidents, incident'[i].status = "OPEN"
       PROVE  incident'[i] = incident[i] /\ (deletes => incident[i].key # k)
  <2>0. incident[i] \in IncidentRows
    BY <1>0 DEF TypeOK
  <2>1. i \notin h.incidents
    BY <1>9, <1>13, <2>0 DEF IncidentRows
  <2>2. incident'[i] \in {[incident[i] EXCEPT !.row = 0], incident[i]}
    BY <1>9, <2>1
  <2>3. incident[i].status = "OPEN"
    BY <1>13, <2>0, <2>2 DEF IncidentRows
  <2>4. incident[i].row = scope[incident[i].key].id
    BY <2>3 DEF SInv, OpenIncidentsResolvable
  <2>5. ASSUME deletes PROVE incident[i].key # k
    <3>1. i \notin RecordsOf(k, scope[k]) /\ scope[k].id # 0
      BY <1>1, <1>6, <2>1, <2>5
    <3> QED
      BY <2>3, <2>4, <3>1 DEF RecordsOf
  <2> QED
    BY <1>9, <2>1, <2>5
<1>14. OpenIsOnARow'
  BY <1>13 DEF SInv, OpenIsOnARow
<1>15. OpenIncidentsResolvable'
  <2>1. ASSUME NEW i \in Incidents, incident'[i].status = "OPEN"
        PROVE  incident'[i].row = scope'[incident'[i].key].id
    <3>1. incident[i].key \in Scopes
      BY <1>0 DEF TypeOK, IncidentRows
    <3>2. incident[i].row = scope[incident[i].key].id
      BY <1>13, <2>1 DEF SInv, OpenIncidentsResolvable
    <3>3. scope'[incident[i].key] = scope[incident[i].key]
      BY <1>8, <1>13, <2>1, <3>1
    <3> QED
      BY <1>13, <2>1, <3>2, <3>3
  <2> QED
    BY <1>13, <2>1 DEF SInv, OpenIncidentsResolvable
<1>16. \A q \in Scopes : scope[q].id # 0 /\ scope'[q].id # 0 => scope'[q].id = scope[q].id
  BY <1>8 DEF NoRow
<1>17. StillAsRead'
  BY <1>0, <1>10, NobodyReads DEF Finished
<1>18. KillSwitchEffective' /\ NoticedOrOpen'
  BY <1>0, <1>10, <1>14, <1>15, <1>16, GateKeeps DEF Finished, SInv
<1> QED
  BY <1>12, <1>14, <1>15, <1>17, <1>18 DEF SInv

\* A commit that writes a mode: ids and releases of the scope rows stay.
LEMMA ModesOnly ==
  ASSUME IInv, SInv, IInv', NEW k \in Scopes, NEW m, UNCHANGED release,
         scope' = [scope EXCEPT ![k].mode = m]
  PROVE  /\ OneActivePerScope'
         /\ \A q \in Scopes : scope'[q].id = scope[q].id
<1>1. scope \in [Scopes -> ScopeRows] /\ TypeOK /\ TypeOK'
  BY DEF IInv, TypeOK
<1>2. \A q \in Scopes : scope'[q].id = scope[q].id /\ scope'[q].release = scope[q].release
  BY <1>1 DEF ScopeRows
<1> QED
  BY <1>2 DEF SInv, OneActivePerScope

LEMMA SetSerial ==
  ASSUME OneAdministrator, IInv, SInv, NEW a \in Admins, CommitSetVisibility(a)
  PROVE  SInv'
<1> DEFINE h == admin[a]
<1>0. /\ IInv' /\ TypeOK /\ Finished(a) /\ UNCHANGED <<release, incident>> /\ h.key \in Scopes
      /\ scope' = [scope EXCEPT ![h.key].mode = Write(h.row.mode, h.mode, @)]
  BY SetKeeps DEF IInv, TypeOK, CommitSetVisibility, Handlers
<1>1. scope' = [scope EXCEPT ![h.key].mode = Write(h.row.mode, h.mode, scope[h.key].mode)]
  BY <1>0
<1> HIDE DEF h
<1>2. OneActivePerScope' /\ \A q \in Scopes : scope'[q].id = scope[q].id
  BY <1>0, <1>1, ModesOnly
<1>3. StillAsRead'
  BY <1>0, NobodyReads DEF Finished
<1> QED
  BY <1>0, <1>2, <1>3, RowsStay

LEMMA OpenSerial ==
  ASSUME OneAdministrator, IInv, SInv, NEW a \in Admins, CommitOpenIncident(a)
  PROVE  SInv'
<1> DEFINE h == admin[a]
<1>0. /\ IInv' /\ TypeOK /\ Finished(a) /\ UNCHANGED release /\ h.key \in Scopes
      /\ scope' = [scope EXCEPT ![h.key].mode = Write(h.row.mode, "DISABLED", @)]
      /\ SameRow(h.key, h.row) /\ h.op = "open"
  BY OpenKeeps DEF IInv, TypeOK, CommitOpenIncident, Handlers
<1>1. scope' = [scope EXCEPT ![h.key].mode = Write(h.row.mode, "DISABLED", scope[h.key].mode)]
  BY <1>0
<1>2. h.row = scope[h.key] /\ OpenOn(h.key, h.row) = {} /\ h.row.id # 0
  BY <1>0 DEF SInv, StillAsRead, SameRow
<1>3. PICK j \in Incidents :
        /\ incident[j].status = "ABSENT"
        /\ incident' = [incident EXCEPT ![j] = [status |-> "OPEN", key |-> h.key,
                                                row |-> h.row.id, previous |-> h.row.mode]]
  BY DEF CommitOpenIncident
<1> HIDE DEF h
<1>4. OneActivePerScope' /\ \A q \in Scopes : scope'[q].id = scope[q].id
  BY <1>0, <1>1, ModesOnly
<1>5. /\ incident'[j].status = "OPEN" /\ incident'[j].key = h.key /\ incident'[j].row = h.row.id
      /\ \A i \in Incidents : i # j => incident'[i] = incident[i]
  BY <1>0, <1>3 DEF TypeOK
<1>6. OpenIsOnARow'
  BY <1>2, <1>5 DEF SInv, OpenIsOnARow
<1>7. OpenIncidentsResolvable'
  <2>1. \A i \in Incidents : incident[i].status = "OPEN" => incident[i].key # h.key
    BY <1>2 DEF SInv, OpenIncidentsResolvable, OpenOn
  <2>2. \A i \in Incidents : incident[i].key \in Scopes
    BY <1>0 DEF TypeOK, IncidentRows
  <2>3. ASSUME NEW i \in Incidents, incident'[i].status = "OPEN"
        PROVE  incident'[i].row = scope'[incident'[i].key].id
    BY <1>0, <1>2, <1>4, <1>5, <2>2, <2>3 DEF SInv, OpenIncidentsResolvable
  <2>4. ASSUME NEW i \in Incidents, NEW l \in Incidents, incident'[i].status = "OPEN",
               incident'[l].status = "OPEN", incident'[l].key = incident'[i].key
        PROVE  i = l
    BY <1>5, <2>1, <2>4 DEF SInv, OpenIncidentsResolvable
  <2> QED
    BY <2>3, <2>4 DEF OpenIncidentsResolvable
<1>8. StillAsRead'
  BY <1>0, NobodyReads DEF Finished
<1>9. KillSwitchEffective' /\ NoticedOrOpen'
  BY <1>0, <1>4, <1>6, <1>7, GateKeeps DEF Finished, SInv
<1> QED
  BY <1>4, <1>6, <1>7, <1>8, <1>9 DEF SInv

LEMMA ResolveSerial ==
  ASSUME OneAdministrator, IInv, SInv, NEW a \in Admins, CommitResolveIncident(a)
  PROVE  SInv'
<1> DEFINE h == admin[a]
           found == incident[h.incident]
<1>0. /\ IInv' /\ TypeOK /\ Finished(a) /\ UNCHANGED release
      /\ h.key \in Scopes /\ h.incident \in Incidents
      /\ incident' = [incident EXCEPT ![h.incident].status = "RESOLVED"]
      /\ scope' = IF h.rollback
                  THEN [scope EXCEPT ![h.key].mode = Write(h.row.mode, found.previous, @)]
                  ELSE scope
  BY ResolveKeeps DEF IInv, TypeOK, CommitResolveIncident, Handlers
<1>1. OneActivePerScope' /\ \A q \in Scopes : scope'[q].id = scope[q].id
  <2>1. CASE h.rollback
    <3>1. scope' = [scope EXCEPT ![h.key].mode =
                      Write(h.row.mode, found.previous, scope[h.key].mode)]
      BY <1>0, <2>1
    <3> HIDE DEF h, found
    <3> QED
      BY <1>0, <3>1, ModesOnly
  <2>2. CASE ~h.rollback
    BY <1>0, <2>2 DEF SInv, OneActivePerScope
  <2> QED
    BY <2>1, <2>2
<1> HIDE DEF h, found
<1>2. ASSUME NEW i \in Incidents, incident'[i].status = "OPEN"
      PROVE  incident'[i] = incident[i] /\ incident[i].key \in Scopes
  BY <1>0, <1>2 DEF TypeOK, IncidentRows
<1>3. OpenIsOnARow'
  BY <1>2 DEF SInv, OpenIsOnARow
<1>4. OpenIncidentsResolvable'
  BY <1>1, <1>2 DEF SInv, OpenIncidentsResolvable
<1>5. StillAsRead'
  BY <1>0, NobodyReads DEF Finished
<1>6. KillSwitchEffective' /\ NoticedOrOpen'
  BY <1>0, <1>1, <1>3, <1>4, GateKeeps DEF Finished, SInv
<1> QED
  BY <1>1, <1>3, <1>4, <1>5, <1>6 DEF SInv

\* Steps that leave what a scope points to, the incidents and the viewers as they are.
LEMMA OthersSerial ==
  ASSUME SInv, OneActivePerScope', StillAsRead', UNCHANGED <<scope, incident, viewer, calm>>
  PROVE  SInv'
BY DEF SInv, OpenIncidentsResolvable, OpenIsOnARow, KillSwitchEffective, NoticedOrOpen, OpenOn

LEMMA RegisterSerial == ASSUME IInv, SInv, NEW q \in Releases, Register(q) PROVE SInv'
<1>0. /\ TypeOK /\ UNCHANGED <<scope, incident, viewer, calm, admin>> /\ release[q] = "ABSENT"
      /\ release' = [release EXCEPT ![q] = BuildStatus(q)] /\ BuildStatus(q) # "ACTIVE"
      /\ release \in [Releases -> ReleaseStatus]
  BY DEF IInv, TypeOK, Register, BuildStatus
<1>1. /\ \A r \in Releases : release'[r] = "ACTIVE" <=> release[r] = "ACTIVE"
      /\ \A r \in Releases : release[r] # "ABSENT" => release'[r] = release[r]
  BY <1>0
<1>2. OneActivePerScope'
  BY <1>0, <1>1 DEF SInv, OneActivePerScope
<1>3. Registered
  BY <1>0, RegisteredIsOneActive DEF SInv
<1>4. \A k \in Scopes : scope[k].id # 0 => /\ scope[k].release \in Releases
                                           /\ release[scope[k].release] = "ACTIVE"
  BY <1>0, <1>3 DEF Registered, TypeOK, ScopeRows
<1>5. ASSUME NEW b \in Admins, admin[b].op = "activate"
      PROVE  /\ ~admin[b].fresh => release'[admin[b].release] = admin[b].status
             /\ admin[b].row.id # 0 => admin[b].prior = release'[admin[b].row.release]
  <2>1. admin[b].release \in Releases /\ ScopeKey[admin[b].release] \in Scopes
    <3>1. admin[b] \in Handlers
      BY <1>0 DEF TypeOK
    <3> QED
      BY <1>5, <3>1 DEF Handlers
  <2>2. /\ admin[b].row = scope[ScopeKey[admin[b].release]]
        /\ ~admin[b].fresh => /\ release[admin[b].release] = admin[b].status
                              /\ admin[b].status # "ABSENT"
        /\ admin[b].row.id # 0 => admin[b].prior = release[admin[b].row.release]
    BY <1>5 DEF SInv, StillAsRead
  <2>3. admin[b].row.id # 0 => release'[admin[b].row.release] = release[admin[b].row.release]
    BY <1>1, <1>4, <2>1, <2>2
  <2> QED
    BY <1>1, <2>1, <2>2, <2>3
<1>6. ASSUME NEW b \in Admins, admin[b].op = "retire"
      PROVE  release'[admin[b].release] = admin[b].status
  <2>1. admin[b].release \in Releases
    <3>1. admin[b] \in Handlers
      BY <1>0 DEF TypeOK
    <3> QED
      BY <1>6, <3>1 DEF Handlers
  <2> QED
    BY <1>1, <1>6, <2>1 DEF SInv, StillAsRead
<1>7. StillAsRead'
  BY <1>0, <1>5, <1>6 DEF SInv, StillAsRead, RowOf, RecordsOf, OpenOn
<1> QED
  BY <1>0, <1>2, <1>7, OthersSerial

LEMMA GateSerial ==
  ASSUME IInv, SInv, NEW v \in Viewers,
         \/ \E r \in Releases, hidden \in BOOLEAN : ReadScope(v, r, hidden)
         \/ Decide(v) \/ Answered(v)
  PROVE  SInv'
<1>0. TypeOK /\ viewer \in [Viewers -> Reads] /\ UNCHANGED <<release, scope, incident, admin>>
  BY DEF IInv, TypeOK, ReadScope, Decide, Answered
<1>1. (OneActivePerScope /\ OpenIncidentsResolvable /\ OpenIsOnARow /\ StillAsRead)'
  BY <1>0 DEF SInv, OneActivePerScope, OpenIncidentsResolvable, OpenIsOnARow, StillAsRead,
              RowOf, RecordsOf, OpenOn
<1>2. ASSUME NEW w \in Viewers, viewer'[w] = viewer[w], w \in calm' <=> w \in calm
      PROVE  /\ viewer'[w].pc = "shown" => w \in calm'
             /\ viewer'[w].pc = "read" /\ w \notin calm'
                  => OpenOn(viewer[w].key, viewer[w].row)' # {}
  BY <1>0, <1>2 DEF SInv, KillSwitchEffective, NoticedOrOpen, OpenOn
<1>3. ASSUME NEW r \in Releases, NEW hidden \in BOOLEAN, ReadScope(v, r, hidden)
      PROVE  KillSwitchEffective' /\ NoticedOrOpen'
  <2> DEFINE k == ScopeKey[r]
  <2>1. /\ viewer'[v].pc = "read" /\ viewer'[v].key = k /\ viewer'[v].row = scope[k]
        /\ \A w \in Viewers : w # v => viewer'[w] = viewer[w]
    BY <1>0, <1>3 DEF ReadScope
  <2>2. \A w \in Viewers : w # v => (w \in calm' <=> w \in calm)
    BY <1>3 DEF ReadScope
  <2>3. v \notin calm' => ~Quiet(incident, k)
    BY <1>3 DEF ReadScope
  <2>4. ASSUME v \notin calm' PROVE OpenOn(viewer[v].key, viewer[v].row)' # {}
    <3>1. PICK i \in Incidents : incident[i].status = "OPEN" /\ incident[i].key = k
      BY <2>3, <2>4 DEF Quiet
    <3>2. incident[i].row = scope[k].id
      BY <3>1 DEF SInv, OpenIncidentsResolvable
    <3> QED
      BY <1>0, <2>1, <3>1, <3>2 DEF OpenOn
  <2>5. KillSwitchEffective'
    BY <1>2, <2>1, <2>2 DEF KillSwitchEffective
  <2> QED
    BY <1>2, <2>1, <2>2, <2>4, <2>5 DEF NoticedOrOpen
<1>4. CASE Decide(v)
  <2>0. calm' = calm
    BY <1>4 DEF Decide
  <2>1. /\ viewer[v].pc = "read" /\ viewer'[v].pc \in {"shown", "idle"}
        /\ viewer'[v].pc = "shown" => ~Blocked(v)
        /\ \A w \in Viewers : w # v => viewer'[w] = viewer[w]
    <3>1. viewer[v] \in Reads
      BY <1>0
    <3> QED
      BY <1>0, <1>4, <3>1 DEF Decide, Reads
  <2>2. viewer'[v].pc = "shown" => v \in calm
    BY <2>1 DEF Blocked, SInv, NoticedOrOpen
  <2>3. KillSwitchEffective'
    BY <1>2, <2>0, <2>1, <2>2 DEF KillSwitchEffective
  <2>4. ASSUME NEW w \in Viewers, viewer'[w].pc = "read", w \notin calm'
        PROVE  OpenOn(viewer[w].key, viewer[w].row)' # {}
    BY <1>2, <2>0, <2>1, <2>4
  <2>5. NoticedOrOpen'
    BY <2>4 DEF NoticedOrOpen
  <2> QED
    BY <1>1, <2>3, <2>5 DEF SInv
<1>5. CASE Answered(v)
  <2>0. calm' = calm
    BY <1>5 DEF Answered
  <2>1. /\ viewer'[v].pc = "idle"
        /\ \A w \in Viewers : w # v => viewer'[w] = viewer[w]
    BY <1>0, <1>5 DEF Answered
  <2>2. KillSwitchEffective'
    BY <1>2, <2>0, <2>1 DEF KillSwitchEffective
  <2>3. ASSUME NEW w \in Viewers, viewer'[w].pc = "read", w \notin calm'
        PROVE  OpenOn(viewer[w].key, viewer[w].row)' # {}
    BY <1>2, <2>0, <2>1, <2>3
  <2>4. NoticedOrOpen'
    BY <2>3 DEF NoticedOrOpen
  <2> QED
    BY <1>1, <2>2, <2>4 DEF SInv
<1> QED
  BY <1>1, <1>3, <1>4, <1>5 DEF SInv

LEMMA NextSerial == ASSUME OneAdministrator, IInv, SInv, [Next]_vars PROVE SInv'
<1>1. ASSUME NEW a \in Admins, Abort(a) PROVE SInv'
  <2>1. TypeOK /\ admin' = [admin EXCEPT ![a] = Idle]
        /\ UNCHANGED <<release, scope, incident, viewer, calm>>
    BY <1>1 DEF IInv, Abort
  <2>2. StillAsRead'
    BY <2>1, NobodyReads
  <2>3. OneActivePerScope'
    BY <2>1 DEF SInv, OneActivePerScope
  <2> QED
    BY <2>1, <2>2, <2>3, OthersSerial
<1>2. ASSUME UNCHANGED <<release, scope, incident, admin, viewer, calm>> PROVE SInv'
  <2>1. StillAsRead' /\ OneActivePerScope'
    BY <1>2 DEF SInv, StillAsRead, OneActivePerScope, RowOf, RecordsOf, OpenOn
  <2> QED
    BY <1>2, <2>1, OthersSerial
<1>3. ASSUME NEW k \in Borough, PacksChange(k) PROVE SInv'
  BY <1>2, <1>3 DEF PacksChange
<1>4. ASSUME NEW k \in Scopes, Score(k) PROVE SInv'
  BY <1>2, <1>4 DEF Score
<1>5. CASE UNCHANGED vars
  BY <1>2, <1>5 DEF vars
<1>6. ASSUME NEW a \in Admins, AdminReads(a) \/ AdminCommits(a) PROVE SInv'
  BY <1>1, <1>6, AdminReadsFresh, ActivateSerial, RetireSerial, SetSerial, OpenSerial,
     ResolveSerial DEF AdminCommits
<1> QED
  BY <1>3, <1>4, <1>5, <1>6, RegisterSerial, GateSerial DEF Next

\* The invariant behind the three theorems below holds in every reachable state.
THEOREM SerialInvariant == ASSUME OneAdministrator PROVE Spec => []SInv
<1>1. IInv /\ IInv' /\ SInv /\ [Next]_vars => SInv'
  BY NextSerial
<1> QED
  BY <1>1, InitSInv, ControlInvariant, PTL DEF Spec

\* When administrators' requests do not overlap, the ACTIVE releases of a scope are exactly the
\* one its row points to (activate_model_release, retire_model_release).
THEOREM RegistryAgrees == ASSUME OneAdministrator PROVE Spec => []OneActivePerScope
<1>1. SInv => OneActivePerScope
  BY DEF SInv
<1> QED
  BY <1>1, SerialInvariant, PTL

\* ... an open incident is the only one of its scope and on its live row, so the gate and the
\* resolve handler find it (scalar_one_or_none) ...
THEOREM IncidentsAreFound == ASSUME OneAdministrator PROVE Spec => []OpenIncidentsResolvable
<1>1. SInv => OpenIncidentsResolvable
  BY DEF SInv
<1> QED
  BY <1>1, SerialInvariant, PTL

\* ... and the kill switch holds: evaluate_assessment_visibility, in two queries, shows a
\* probability only when there was a moment during the request without an open incident.
THEOREM KillSwitchHolds == ASSUME OneAdministrator PROVE Spec => []KillSwitchEffective
<1>1. SInv => KillSwitchEffective
  BY DEF SInv
<1> QED
  BY <1>1, SerialInvariant, PTL

===============================================================================
