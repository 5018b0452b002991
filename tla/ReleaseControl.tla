---------------------------- MODULE ReleaseControl ----------------------------
(***************************************************************************)
(* Model releases, the scope rows that put one release in force, the       *)
(* visibility mode and the incidents (kill switch) of a scope, and the     *)
(* gate that decides whether a viewer is shown a probability               *)
(* (scoring/release.py, review/visibility.py and the admin routes).        *)
(*                                                                         *)
(* Every admin handler reads rows, decides, and writes by primary key at   *)
(* its flush, in a READ COMMITTED transaction without row locks.  It is    *)
(* modelled as two steps, the reads and the commit.  The ORM writes only   *)
(* the columns that differ from what the handler read; a row that is gone  *)
(* at the flush (StaleDataError) or a second row for one scope_key         *)
(* (IntegrityError) rolls the handler back.  The gate runs its two queries *)
(* in two steps likewise.                                                  *)
(***************************************************************************)
EXTENDS Integers, FiniteSets

CONSTANTS
  Releases,     \* identities of model_release rows (uuid5 of scope_key and manifest hash)
  Scopes,       \* the scope_key values
  ScopeKey,     \* ScopeKey[r]: the scope a release is built for
  Supported,    \* the releases whose training manifest is VALIDATED
  Borough,      \* the scopes with a borough_id whose baseline pack and rulepack exist
  Incidents,    \* identities of incident_record rows: bounds how many are opened
  Admins,       \* concurrent admin requests
  Viewers,      \* concurrent reviewer or admin reads of an assessment
  MaxRows       \* bound of the model: scope rows inserted per scope_key

ASSUME ReleaseAssumption ==
  /\ Scopes # {}
  /\ ScopeKey \in [Releases -> Scopes]
  /\ Supported \subseteq Releases
  /\ Borough \subseteq Scopes
  /\ MaxRows \in Nat

Modes == {"HIDDEN_ONLY", "VISIBLE_REVIEWER_ONLY", "DISABLED"}
ReleaseStatus == {"ABSENT", "NOT_READY", "VALIDATED", "ACTIVE", "RETIRED"}
NoRelease == "no release"
ASSUME NoReleaseAssumption == NoRelease \notin Releases

VARIABLES
  release,      \* release[r]: model_release.status
  scope,        \* scope[k]: the active_release_scope row of k; id 0 when there is none
  rowsMade,     \* rowsMade[k]: scope rows ever inserted for k, so ids are never reused
  incident,     \* incident[i]: an incident_record row; row 0 is a NULL scope id
  signedOff,    \* the borough scopes whose baseline pack and rulepack are signed off
  admin,        \* admin[a]: a handler that has read and not yet committed
  viewer,       \* viewer[v]: a gate evaluation that has read its scope row
  results,      \* the releases that some assessment result was scored with
  granted,      \* history: granted[k]: ids of the rows of k that an admin made visible
  calm          \* history: viewers whose request has seen a moment without an open incident

vars == <<release, scope, rowsMade, incident, signedOff, admin, viewer, results, granted, calm>>

ScopeRows == [id : Nat, release : Releases \cup {NoRelease}, mode : Modes]
NoRow == [id |-> 0, release |-> NoRelease, mode |-> "HIDDEN_ONLY"]

IncidentRows == [status : {"ABSENT", "OPEN", "RESOLVED", "DELETED"},
                 key : Scopes, row : Nat, previous : Modes]

\* What a handler holds between its reads and its commit.
Handlers ==
  [op : {"none"}]
    \cup [op : {"activate", "retire"}, release : Releases, status : ReleaseStatus,
          fresh : BOOLEAN, row : ScopeRows, prior : ReleaseStatus,
          incidents : SUBSET Incidents]
    \cup [op : {"set"}, key : Scopes, row : ScopeRows, mode : Modes]
    \cup [op : {"open"}, key : Scopes, row : ScopeRows]
    \cup [op : {"resolve"}, key : Scopes, row : ScopeRows, incident : Incidents,
          rollback : BOOLEAN]
Idle == [op |-> "none"]

Reads == [pc : {"idle"}] \cup [pc : {"read", "shown"}, key : Scopes, release : Releases,
                              row : ScopeRows, hidden : BOOLEAN]

\* Releases, scope rows, incidents and handlers in flight are well formed, and a scope row
\* that exists names a release.
TypeOK ==
  /\ release \in [Releases -> ReleaseStatus]
  /\ scope \in [Scopes -> ScopeRows]
  /\ \A k \in Scopes : scope[k].release = NoRelease <=> scope[k].id = 0
  /\ rowsMade \in [Scopes -> Nat]
  /\ incident \in [Incidents -> IncidentRows]
  /\ signedOff \subseteq Borough
  /\ admin \in [Admins -> Handlers]
  /\ viewer \in [Viewers -> Reads]
  /\ results \subseteq Releases
  /\ granted \in [Scopes -> SUBSET Nat]
  /\ calm \subseteq Viewers

Init ==
  /\ release = [r \in Releases |-> "ABSENT"]
  /\ scope = [k \in Scopes |-> NoRow]
  /\ rowsMade = [k \in Scopes |-> 0]
  /\ incident = [i \in Incidents |->
                   [status |-> "ABSENT", key |-> CHOOSE k \in Scopes : TRUE, row |-> 0,
                    previous |-> "HIDDEN_ONLY"]]
  /\ signedOff = {}
  /\ admin = [a \in Admins |-> Idle]
  /\ viewer = [v \in Viewers |-> [pc |-> "idle"]]
  /\ results = {}
  /\ granted = [k \in Scopes |-> {}]
  /\ calm = {}

\* get_open_incident_for_scope: called with a scope id it looks at that id alone.
OpenOn(k, row) == {i \in Incidents : /\ incident[i].status = "OPEN"
                                     /\ incident[i].key = k /\ incident[i].row = row.id}

-------------------------------------------------------------------------------
(* Registering, activating and retiring releases *)

BuildStatus(r) == IF r \in Supported THEN "VALIDATED" ELSE "NOT_READY"

\* _build_template_release committed on its own; an existing release is returned unchanged.
Register(r) ==
  /\ release[r] = "ABSENT"
  /\ release' = [release EXCEPT ![r] = BuildStatus(r)]
  /\ UNCHANGED <<scope, rowsMade, incident, signedOff, admin, viewer, results, granted, calm>>

Reading == UNCHANGED <<release, scope, rowsMade, incident, signedOff, viewer, results,
                       granted, calm>>

\* activate_model_release reads the release, the scope row of its key and the release the row
\* points to.  With build_hidden_model_releases(auto_activate_hidden) the release may be new.
ReadActivate(a, r) ==
  LET row == scope[ScopeKey[r]]
  IN  /\ admin[a] = Idle
      /\ release[r] # "NOT_READY"
      /\ release[r] = "ABSENT" => r \in Supported
      /\ admin' = [admin EXCEPT ![a] =
           [op |-> "activate", release |-> r, row |-> row, incidents |-> {},
            fresh |-> release[r] = "ABSENT",
            status |-> IF release[r] = "ABSENT" THEN "VALIDATED" ELSE release[r],
            prior |-> IF row.id # 0 THEN release[row.release] ELSE "ABSENT"]]
      /\ Reading

\* retire_model_release reads the release and the scope row that points to it; deleting the
\* row through the ORM loads its incidents.
ReadRetire(a, r) ==
  LET here == scope[ScopeKey[r]]
      row == IF here.release = r THEN here ELSE NoRow
  IN  /\ admin[a] = Idle
      /\ release[r] # "ABSENT"
      /\ admin' = [admin EXCEPT ![a] =
           [op |-> "retire", release |-> r, row |-> row, fresh |-> FALSE,
            status |-> release[r], prior |-> "ABSENT",
            incidents |-> {i \in Incidents : /\ incident[i].status \in {"OPEN", "RESOLVED"}
                                             /\ incident[i].key = ScopeKey[r]
                                             /\ row.id # 0 /\ incident[i].row = row.id}]]
      /\ Reading

\* A column is written only when it differs from the value the handler read.
Write(seen, new, now) == IF new # seen THEN new ELSE now

\* No incident record of the scope is open.
Quiet(records, k) == \A i \in Incidents : records[i].status = "OPEN" => records[i].key # k

\* The handler is over; moments without an open incident are noted for the viewers at work.
Finished(a) ==
  /\ admin' = [admin EXCEPT ![a] = Idle]
  /\ calm' = calm \cup {v \in Viewers : /\ viewer[v].pc = "read"
                                        /\ Quiet(incident', viewer[v].key)}
  /\ UNCHANGED <<signedOff, viewer, results>>

\* Whether an activation takes the scope from another release; broken variant: it never does.
NeverSupersedes(h) == FALSE
Supersedes(h) == h.row.id # 0 /\ h.row.release # h.release

\* Whether the handler's row is still there at its flush; broken variant: any row will do.
SomeRow(k, row) == row.id # 0 /\ scope[k].id # 0
SameRow(k, row) == row.id # 0 /\ scope[k].id = row.id

CommitActivate(a) ==
  LET h == admin[a]
      k == ScopeKey[h.release]
  IN  /\ h.op = "activate"
      /\ h.fresh => release[h.release] = "ABSENT"
      /\ \/ /\ h.row.id = 0 /\ scope[k].id = 0 /\ rowsMade[k] < MaxRows
            /\ scope' = [scope EXCEPT ![k] = [id |-> rowsMade[k] + 1, release |-> h.release,
                                              mode |-> "HIDDEN_ONLY"]]
            /\ rowsMade' = [rowsMade EXCEPT ![k] = @ + 1]
         \/ /\ SameRow(k, h.row)
            /\ scope' = [scope EXCEPT ![k].release = Write(h.row.release, h.release, @)]
            /\ UNCHANGED rowsMade
      /\ release' = [r \in Releases |->
           CASE r = h.release -> IF h.fresh THEN "ACTIVE" ELSE Write(h.status, "ACTIVE", release[r])
             [] Supersedes(h) /\ r = h.row.release -> Write(h.prior, "RETIRED", release[r])
             [] OTHER -> release[r]]
      /\ UNCHANGED <<incident, granted>>
      /\ Finished(a)

\* What is left of a scope row; broken variant: a row that points nowhere.
Cleared(row) == [row EXCEPT !.release = NoRelease]
Deleted(row) == NoRow

\* The incidents the handler loaded are deleted with the row (cascade "all, delete-orphan");
\* one added since then is kept with a NULL scope id (ondelete SET NULL).
CommitRetire(a) ==
  LET h == admin[a]
      k == ScopeKey[h.release]
      deletes == SameRow(k, h.row)
  IN  /\ h.op = "retire"
      /\ scope' = IF deletes THEN [scope EXCEPT ![k] = Deleted(@)] ELSE scope
      /\ incident' = [i \in Incidents |->
           CASE i \in h.incidents -> [incident[i] EXCEPT !.status = "DELETED"]
             [] deletes /\ i \notin h.incidents /\ incident[i].key = k
                  /\ incident[i].row = h.row.id -> [incident[i] EXCEPT !.row = 0]
             [] OTHER -> incident[i]]
      /\ release' = [release EXCEPT ![h.release] = Write(h.status, "RETIRED", @)]
      /\ UNCHANGED <<rowsMade, granted>>
      /\ Finished(a)

-------------------------------------------------------------------------------
(* Visibility modes and incidents *)

ReadSetVisibility(a, k, mode) ==
  /\ admin[a] = Idle
  /\ scope[k].id # 0
  /\ mode = "VISIBLE_REVIEWER_ONLY" => k \in signedOff
  /\ admin' = [admin EXCEPT ![a] = [op |-> "set", key |-> k, row |-> scope[k], mode |-> mode]]
  /\ Reading

CommitSetVisibility(a) ==
  LET h == admin[a]
  IN  /\ h.op = "set"
      /\ SameRow(h.key, h.row)
      /\ scope' = [scope EXCEPT ![h.key].mode = Write(h.row.mode, h.mode, @)]
      /\ granted' = IF h.mode = "VISIBLE_REVIEWER_ONLY"
                    THEN [granted EXCEPT ![h.key] = @ \cup {h.row.id}] ELSE granted
      /\ UNCHANGED <<release, rowsMade, incident>>
      /\ Finished(a)

\* Broken variant: an open incident is not looked for.
OpenIncidentAgain(a, k) ==
  /\ admin[a] = Idle
  /\ scope[k].id # 0
  /\ admin' = [admin EXCEPT ![a] = [op |-> "open", key |-> k, row |-> scope[k]]]
  /\ Reading

\* With an open incident the handler returns it and writes nothing; with two it raises.
ReadOpenIncident(a, k) ==
  /\ admin[a] = Idle
  /\ scope[k].id # 0
  /\ OpenOn(k, scope[k]) = {}
  /\ admin' = [admin EXCEPT ![a] = [op |-> "open", key |-> k, row |-> scope[k]]]
  /\ Reading

CommitOpenIncident(a) ==
  LET h == admin[a]
  IN  /\ h.op = "open"
      /\ SameRow(h.key, h.row)
      /\ scope' = [scope EXCEPT ![h.key].mode = Write(h.row.mode, "DISABLED", @)]
      /\ \E i \in Incidents :
           /\ incident[i].status = "ABSENT"
           /\ incident' = [incident EXCEPT ![i] = [status |-> "OPEN", key |-> h.key,
                                                   row |-> h.row.id, previous |-> h.row.mode]]
      /\ UNCHANGED <<release, rowsMade, granted>>
      /\ Finished(a)

\* No open incident, or more than one: the handler raises.
ReadResolveIncident(a, k, rollback) ==
  /\ admin[a] = Idle
  /\ scope[k].id # 0
  /\ \E i \in Incidents :
       /\ OpenOn(k, scope[k]) = {i}
       /\ admin' = [admin EXCEPT ![a] = [op |-> "resolve", key |-> k, row |-> scope[k],
                                         incident |-> i, rollback |-> rollback]]
  /\ Reading

CommitResolveIncident(a) ==
  LET h == admin[a]
      found == incident[h.incident]
  IN  /\ h.op = "resolve"
      /\ found.status # "DELETED"
      /\ h.rollback => SameRow(h.key, h.row)
      /\ scope' = IF h.rollback
                  THEN [scope EXCEPT ![h.key].mode = Write(h.row.mode, found.previous, @)]
                  ELSE scope
      /\ incident' = [incident EXCEPT ![h.incident].status = "RESOLVED"]
      /\ UNCHANGED <<release, rowsMade, granted>>
      /\ Finished(a)

\* The flush fails and the request is rolled back.
Abort(a) ==
  LET h == admin[a]
  IN  /\ h.op # "none"
      /\ CASE h.op = "activate" -> \/ h.fresh /\ release[h.release] # "ABSENT"
                                   \/ scope[ScopeKey[h.release]].id # h.row.id
           [] h.op \in {"set", "open"} -> ~SameRow(h.key, h.row)
           [] h.op = "resolve" -> \/ incident[h.incident].status = "DELETED"
                                  \/ h.rollback /\ ~SameRow(h.key, h.row)
           [] OTHER -> FALSE
      /\ admin' = [admin EXCEPT ![a] = Idle]
      /\ UNCHANGED <<release, scope, rowsMade, incident, signedOff, viewer, results, granted,
                     calm>>

-------------------------------------------------------------------------------
(* The world around: packs, scoring, and the gate *)

\* A borough's baseline pack and rulepack are signed off, or replaced by unsigned versions.
PacksChange(k) ==
  /\ signedOff' = IF k \in signedOff THEN signedOff \ {k} ELSE signedOff \cup {k}
  /\ UNCHANGED <<release, scope, rowsMade, incident, admin, viewer, results, granted, calm>>

\* An assessment is scored with what resolve_active_release returns.
Score(k) ==
  /\ scope[k].id # 0
  /\ results' = results \cup {scope[k].release}
  /\ UNCHANGED <<release, scope, rowsMade, incident, signedOff, admin, viewer, granted, calm>>

\* evaluate_assessment_visibility for a privileged viewer of a replay-verified result: the
\* query for the scope row ...
ReadScope(v, r, hidden) ==
  LET k == ScopeKey[r]
  IN  /\ viewer[v].pc = "idle"
      /\ r \in results
      /\ viewer' = [viewer EXCEPT ![v] = [pc |-> "read", key |-> k, release |-> r,
                                          row |-> scope[k], hidden |-> hidden]]
      /\ calm' = IF Quiet(incident, k) THEN calm \cup {v} ELSE calm \ {v}
      /\ UNCHANGED <<release, scope, rowsMade, incident, signedOff, admin, results, granted>>

\* Broken variant: trusting that an open incident has left its scope DISABLED.
BlockedByMode(v) ==
  LET q == viewer[v]
  IN  q.row.id = 0 \/ q.row.mode = "DISABLED" \/ q.row.release # q.release

\* ... and the query for an open incident, on which the answer is decided.
Blocked(v) ==
  LET q == viewer[v]
  IN  \/ q.row.id = 0                               \* NO_SCOPE
      \/ q.row.mode = "DISABLED"                    \* SCOPE_DISABLED
      \/ OpenOn(q.key, q.row) # {}                  \* ACTIVE_INCIDENT, or two and an error
      \/ q.row.release # q.release                  \* SCOPE_RELEASE_MISMATCH, ARTIFACT_...

Decide(v) ==
  LET shows == ~Blocked(v) /\ (viewer[v].hidden \/ viewer[v].row.mode = "VISIBLE_REVIEWER_ONLY")
  IN  /\ viewer[v].pc = "read"
      /\ viewer' = [viewer EXCEPT ![v] = IF shows THEN [@ EXCEPT !.pc = "shown"]
                                         ELSE [pc |-> "idle"]]
      /\ UNCHANGED <<release, scope, rowsMade, incident, signedOff, admin, results, granted, calm>>

Answered(v) ==
  /\ viewer[v].pc = "shown"
  /\ viewer' = [viewer EXCEPT ![v] = [pc |-> "idle"]]
  /\ UNCHANGED <<release, scope, rowsMade, incident, signedOff, admin, results, granted, calm>>

-------------------------------------------------------------------------------
AdminReads(a) ==
  \/ \E r \in Releases : ReadActivate(a, r) \/ ReadRetire(a, r)
  \/ \E k \in Scopes : \/ \E mode \in Modes : ReadSetVisibility(a, k, mode)
                       \/ ReadOpenIncident(a, k)
                       \/ \E rollback \in BOOLEAN : ReadResolveIncident(a, k, rollback)
AdminCommits(a) ==
  \/ CommitActivate(a) \/ CommitRetire(a) \/ CommitSetVisibility(a)
  \/ CommitOpenIncident(a) \/ CommitResolveIncident(a) \/ Abort(a)

Next ==
  \/ \E r \in Releases : Register(r)
  \/ \E a \in Admins : AdminReads(a) \/ AdminCommits(a)
  \/ \E k \in Borough : PacksChange(k)
  \/ \E k \in Scopes : Score(k)
  \/ \E v \in Viewers :
       \/ \E r \in Releases, hidden \in BOOLEAN : ReadScope(v, r, hidden)
       \/ Decide(v) \/ Answered(v)

Spec == Init /\ [][Next]_vars

-------------------------------------------------------------------------------
(* Properties *)

\* The kill switch: a probability is shown only if at some moment during the request no
\* incident of the scope was open, whatever modes are set and releases swapped meanwhile.  It
\* holds when admin requests do not overlap ("visible publication must be blocked if ... an
\* incident is open"); an incident opened while its scope row is being deleted escapes it.
KillSwitchEffective == \A v \in Viewers : viewer[v].pc = "shown" => v \in calm

\* A scope row is visible only if an admin made that very row visible after the sign-off check:
\* no activation, re-activation or incident rollback, and no race of them, opens it by itself.
VisibleWasGranted ==
  \A k \in Scopes : scope[k].mode = "VISIBLE_REVIEWER_ONLY" => scope[k].id \in granted[k]

\* When admin requests do not overlap, the ACTIVE releases of a scope are exactly the one its
\* row points to, so scoring and the registry agree.
OneActivePerScope ==
  \A k \in Scopes :
    {r \in Releases : ScopeKey[r] = k /\ release[r] = "ACTIVE"} =
      IF scope[k].id = 0 THEN {} ELSE {scope[k].release}

\* When admin requests do not overlap, a scope has at most one open incident and it is on the
\* live row, so that the gate and the resolve handler (scalar_one_or_none) can answer.
OpenIncidentsResolvable ==
  \A i, j \in Incidents :
    incident[i].status = "OPEN" =>
      /\ incident[i].row = scope[incident[i].key].id
      /\ incident[j].status = "OPEN" /\ incident[j].key = incident[i].key => i = j
===============================================================================
