------------------------------- MODULE Scenarios -------------------------------
(***************************************************************************)
(* The planning scenarios of one site: suggestion by rulepack heuristics,  *)
(* analyst confirmation, rejection and editing, staleness when the site's  *)
(* geometry or the borough's rulepack changes, the headline, and the       *)
(* assessments that anchor to a scenario (scenarios/suggest.py,            *)
(* scenarios/normalize.py, the scenario jobs of the worker and the         *)
(* geometry writes of sites/service.py).                                   *)
(*                                                                         *)
(* Every handler is a function from what its session loaded to what it     *)
(* leaves.  A request nothing overlaps is one step.  A request in Sessions *)
(* loads first and commits later, and its commit writes the columns it     *)
(* changed and no others.  Where the code takes the first row in an order  *)
(* of ranks and time stamps, the model takes any row.                      *)
(***************************************************************************)
EXTENDS Integers, Sequences, FiniteSets

CONSTANTS
  Templates,     \* the enabled scenario templates
  Hashes,        \* geometry hashes
  Contents,      \* units, route and form: what a suggested scenario's id is made of
  Drawn,         \* whether a saved geometry may say ANALYST_DRAWN, another source type, or both
  Eligibility,   \* what the extant-permission screening may answer
  Drafts,        \* ids (uuid4) of superseding scenarios
  Sessions,      \* requests that overlap others
  None,          \* no scenario
  MaxRevisions,  \* bound of the model: geometry revisions of the site
  MaxOverlaps    \* bound of the model: requests served while another is at work

ASSUME ScenarioAssumption ==
  /\ MaxRevisions \in Nat \ {0} /\ MaxOverlaps \in Nat /\ Hashes # {}
  /\ Drawn \subseteq BOOLEAN
  /\ Eligibility \subseteq {"PASS", "ABSTAIN", "FAIL"}

Confirmed == {"AUTO_CONFIRMED", "ANALYST_CONFIRMED"}
ScenarioStatus == Confirmed \cup {"ANALYST_REQUIRED", "OUT_OF_SCOPE", "REJECTED"}

\* A suggested scenario's id is derived from its template, revision and contents.
Suggested == Templates \X (1 .. MaxRevisions) \X Contents
Ids == Suggested \cup Drafts

ASSUME NoneAssumption == None \notin Ids

VARIABLES
  rows,          \* rows[s]: the scenario s
  site,          \* the site's geometry hash, and whether an analyst drew it
  revisions,     \* the site's geometry revisions, oldest first
  assessed,      \* the scenarios that assessments anchor to
  refreshDue,    \* a geometry refresh job is in the queue
  handler,       \* handler[x]: what the request x loaded, and what it leaves
  exposed        \* history: rows written by a request that overlapped a geometry change

vars == <<rows, site, revisions, assessed, refreshDue, handler, exposed>>

Row == [status : ScenarioStatus \cup {"ABSENT"}, source : {"AUTO", "ANALYST"},
        current : BOOLEAN, headline : BOOLEAN, review : BOOLEAN,
        stale : BOOLEAN, hash : Hashes]
Geometry == [hash : Hashes, drawn : BOOLEAN]

Effects == [rows : [Ids -> Row], site : Geometry, added : Seq(Geometry),
            assesses : SUBSET Ids, refresh : {"no", "queued", "done"}]
Requests == [pc : {"working"}, view : [rows : [Ids -> Row], site : Geometry], effect : Effects,
             crossed : BOOLEAN, overlaps : 0 .. MaxOverlaps]

\* Rows, revisions and requests are well formed, and the geometry of the site is always one
\* of its revisions, so that a scenario has one to freeze.
TypeOK ==
  /\ rows \in [Ids -> Row]
  /\ site \in Geometry
  /\ revisions \in Seq(Geometry)
  /\ Len(revisions) \in 1 .. MaxRevisions
  /\ \E i \in DOMAIN revisions : revisions[i].hash = site.hash
  /\ assessed \subseteq Ids
  /\ refreshDue \in BOOLEAN
  /\ handler \in [Sessions -> [pc : {"waiting", "over"}] \cup Requests]
  /\ exposed \subseteq Ids

Init ==
  /\ site \in [hash : Hashes, drawn : {FALSE}]
  /\ rows = [s \in Ids |-> [status |-> "ABSENT", source |-> "AUTO", current |-> FALSE,
                            headline |-> FALSE, review |-> FALSE, stale |-> FALSE,
                            hash |-> site.hash]]
  /\ revisions = <<site>>
  /\ assessed = {}
  /\ refreshDue = FALSE
  /\ handler = [x \in Sessions |-> [pc |-> "waiting"]]
  /\ exposed = {}

Present(T) == {s \in DOMAIN T : T[s].status # "ABSENT"}
Live(T) == {s \in Present(T) : T[s].current /\ T[s].status # "REJECTED"}
Settled(T) == {s \in Live(T) : T[s].status \in Confirmed /\ ~T[s].stale}

\* What a session sees of the database.
Loaded == [rows |-> rows, site |-> site, revisions |-> revisions, assessed |-> assessed]

\* A handler's effect when it leaves everything as it found it.
Nothing(v) == [rows |-> v.rows, site |-> v.site, added |-> <<>>, assesses |-> {},
               refresh |-> "no"]

CurrentRevision(v) ==
  CHOOSE i \in DOMAIN v.revisions :
    /\ v.revisions[i].hash = v.site.hash
    /\ \A j \in DOMAIN v.revisions : v.revisions[j].hash = v.site.hash => j <= i

-------------------------------------------------------------------------------
(* Headlines *)

\* The rows `among` lose the headline, and one of `choice`, if there is one, gets it.
Headlines(T, among, choice) ==
  {[s \in Ids |-> IF s \in among \cup {h} THEN [T[s] EXCEPT !.headline = (s = h)] ELSE T[s]] :
     h \in IF choice = {} THEN {None} ELSE choice}

\* _recompute_headline over the loaded collection `known`: the preferred row, else a confirmed
\* one, else an auto-confirmed one, else the best ranked.
Recomputed(T, known, preferred) ==
  LET active == Live(T) \cap known
      analyst == {s \in Settled(T) \cap known : T[s].status = "ANALYST_CONFIRMED"}
      auto == {s \in Settled(T) \cap known : T[s].status = "AUTO_CONFIRMED"}
  IN  Headlines(T, known, IF preferred \in active THEN {preferred}
                          ELSE IF analyst # {} THEN analyst
                          ELSE IF auto # {} THEN auto
                          ELSE active)

-------------------------------------------------------------------------------
(* The analyst: reject, confirm, edit *)

RejectedRow(row) == [row EXCEPT !.status = "REJECTED", !.review = FALSE, !.current = FALSE,
                                !.headline = FALSE]

Reject(v, s) ==
  LET T == [v.rows EXCEPT ![s] = RejectedRow(@)]
  IN  {[Nothing(v) EXCEPT !.rows = after] : after \in Recomputed(T, Present(v.rows), None)}

\* The status a confirmation leaves depends on the extant-permission screening.
Screened(row, extant) ==
  CASE extant = "FAIL" -> [row EXCEPT !.status = "OUT_OF_SCOPE", !.review = TRUE, !.stale = TRUE]
    [] extant = "ABSTAIN" -> [row EXCEPT !.status = "ANALYST_REQUIRED", !.review = TRUE, !.stale = TRUE]
    [] extant = "PASS" -> [row EXCEPT !.status = "ANALYST_CONFIRMED", !.review = FALSE, !.stale = FALSE]

\* A confirmed scenario is frozen on the current geometry; the headline stays.
Frozen(v, row) == [row EXCEPT !.source = "ANALYST", !.current = TRUE, !.stale = FALSE,
                              !.hash = v.revisions[CurrentRevision(v)].hash]

\* A superseded scenario; broken variant: the headline stays with it.
SupersededOnly(row) == [row EXCEPT !.current = FALSE]
Superseded(row) == [row EXCEPT !.current = FALSE, !.headline = FALSE]

\* Confirmation without edits of a scenario no assessment anchors to: in place.
ConfirmInPlace(v, s, extant) ==
  LET T == [v.rows EXCEPT ![s] = Screened(Frozen(v, @), extant)]
  IN  {[Nothing(v) EXCEPT !.rows = after] : after \in Recomputed(T, Present(v.rows), s)}

\* Confirmation with edits, or of an assessed scenario: a new row n supersedes s.  The site's
\* collection was loaded before n was added, and n is not in it.
ConfirmSuperseding(v, s, extant, n) ==
  LET T == [v.rows EXCEPT ![s] = Superseded(@),
                          ![n] = Screened([Frozen(v, v.rows[s]) EXCEPT !.headline = FALSE], extant)]
  IN  {[Nothing(v) EXCEPT !.rows = after] : after \in Recomputed(T, Present(v.rows), n)}

\* Broken variant: an assessed scenario is confirmed in place as well.
ConfirmEither(v, s, extant) ==
  ConfirmInPlace(v, s, extant)
    \cup UNION {ConfirmSuperseding(v, s, extant, n) : n \in Drafts \ Present(v.rows)}

Confirm(v, s, extant) ==
  (IF s \in v.assessed THEN {} ELSE ConfirmInPlace(v, s, extant))
    \cup UNION {ConfirmSuperseding(v, s, extant, n) : n \in Drafts \ Present(v.rows)}

-------------------------------------------------------------------------------
(* Staleness *)

\* Broken variant: an analyst's confirmation survives the change of geometry.
MarkedAutoOnly(row) ==
  [row EXCEPT !.review = TRUE, !.stale = TRUE,
              !.status = IF @ = "AUTO_CONFIRMED" THEN "ANALYST_REQUIRED" ELSE @]

MarkedRow(row) ==
  [row EXCEPT !.review = TRUE, !.stale = TRUE,
              !.status = IF @ \in Confirmed THEN "ANALYST_REQUIRED" ELSE @]

\* mark_site_scenarios_stale_for_geometry_change, after the geometry has become `hash`.
MarkedStale(T, hash) ==
  LET outdated == {s \in Live(T) : T[s].hash # hash}
      marked == [s \in Ids |-> IF s \in outdated THEN MarkedRow(T[s]) ELSE T[s]]
  IN  IF outdated = {} THEN {T} ELSE Recomputed(marked, Present(T), None)

\* The site's geometry becomes g, with a revision added or not, and a refresh queued or not.
Redrawn(v, g, added, refresh) ==
  {[Nothing(v) EXCEPT !.rows = after, !.site = g, !.added = added, !.refresh = refresh] :
     after \in IF g.hash # v.site.hash THEN MarkedStale(v.rows, g.hash) ELSE {v.rows}}

\* save_site_geometry_revision, and the job its route enqueues.
SaveGeometry(v) ==
  IF Len(v.revisions) = MaxRevisions THEN {}
  ELSE UNION {Redrawn(v, g, <<g>>, "queued") : g \in [hash : Hashes, drawn : Drawn]}

\* Broken variant of the next: the new geometry gets no revision.
RefreshUnrecorded(v) ==
  IF v.site.drawn THEN {}
  ELSE UNION {Redrawn(v, [hash |-> h, drawn |-> FALSE], <<>>, "no") : h \in Hashes}

\* build_or_refresh_site_from_cluster: the draft geometry of the listings, unless an analyst
\* drew the site; an equal revision is not added again.
RefreshFromCluster(v) ==
  LET known == {v.revisions[i] : i \in DOMAIN v.revisions}
      drafts == {[hash |-> h, drawn |-> FALSE] : h \in Hashes}
  IN  IF v.site.drawn THEN {}
      ELSE UNION {Redrawn(v, g, IF g \in known THEN <<>> ELSE <<g>>, "no") :
                    g \in {d \in drafts : d \in known \/ Len(v.revisions) < MaxRevisions}}

\* run_site_scenario_geometry_refresh_job.
RefreshGeometryJob(v) ==
  {[Nothing(v) EXCEPT !.rows = after, !.refresh = "done"] : after \in MarkedStale(v.rows, v.site.hash)}

\* refresh_site_scenarios_after_rulepack_change.
RulepackRow(row) ==
  [row EXCEPT !.review = TRUE, !.stale = TRUE,
              !.status = IF @ = "AUTO_CONFIRMED" THEN "ANALYST_REQUIRED" ELSE @]
RefreshRulepackJob(v) ==
  {[Nothing(v) EXCEPT !.rows = [s \in Ids |-> IF s \in Live(v.rows) THEN RulepackRow(v.rows[s]) ELSE v.rows[s]]]}

-------------------------------------------------------------------------------
(* Suggestion *)

\* _persist_candidate: a new row, or the row with that id overwritten, whatever became of it.
Persisted(v, row, auto) ==
  [row EXCEPT !.status = IF auto THEN "AUTO_CONFIRMED" ELSE "ANALYST_REQUIRED",
              !.source = "AUTO", !.current = TRUE, !.review = ~auto, !.stale = FALSE,
              !.hash = v.revisions[CurrentRevision(v)].hash]

\* _mark_stale_current_auto_scenarios; broken variant: only the stale ones.
OutdatedStale(row) == row.source = "AUTO" /\ row.current /\ row.stale
Outdated(row) == row.source = "AUTO" /\ row.current

\* refresh_site_scenarios, with a candidate content for each template not excluded; `auto` are
\* the templates whose candidate may be confirmed automatically.
Suggest(v, content, auto, job) ==
  LET id(t) == <<t, CurrentRevision(v), content[t]>>
      new == {id(t) : t \in DOMAIN content}
      T == [s \in Ids |-> IF s \in new THEN Persisted(v, v.rows[s], s[1] \in auto) ELSE v.rows[s]]
      contenders == Live(T) \cap Present(v.rows)
      settled == Settled(T) \cap contenders
      choice == IF settled # {} THEN settled ELSE IF contenders # {} THEN contenders ELSE new
  IN  UNION {{LET kept == [s \in Ids |-> IF s \in Present(v.rows) \ new /\ Outdated(H[s])
                                         THEN Superseded(H[s]) ELSE H[s]]
              IN  [Nothing(v) EXCEPT
                     !.rows = kept,
                     !.assesses = {s \in new : job /\ H[s].headline /\ H[s].status = "AUTO_CONFIRMED"}]}
             : H \in Headlines(T, contenders, choice)}

\* The evidence excludes any of the templates (an active permission all of them) and lets any
\* of the rest be confirmed automatically: Suggestion has the gates.  A job (not the API)
\* assesses such a headline at once.
SuggestRequests(v) ==
  UNION {UNION {Suggest(v, content, auto, job) :
                  content \in [E -> Contents], auto \in SUBSET E, job \in BOOLEAN}
         : E \in SUBSET Templates}

\* create_or_refresh_assessment_run anchors an assessment to a scenario.
Assess(v) ==
  {[Nothing(v) EXCEPT !.assesses = {s}] :
     s \in {i \in Present(v.rows) : /\ v.rows[i].status \in Confirmed /\ v.rows[i].current
                                    /\ v.rows[i].hash = v.site.hash}}

-------------------------------------------------------------------------------
(* Requests *)

\* The columns a session changed overwrite those of the row as it is now.
Merged(seen, after) ==
  [s \in Ids |-> CASE seen[s].status = "ABSENT" -> IF after[s].status = "ABSENT" THEN rows[s] ELSE after[s]
                   [] OTHER -> [c \in DOMAIN seen[s] |-> IF after[s][c] # seen[s][c] THEN after[s][c]
                                                         ELSE rows[s][c]]]

\* A row with an id the session inserts exists by now, or a revision it adds does.
Conflict(v, e) ==
  \/ \E s \in Present(e.rows) \ Present(v.rows) : s \in Present(rows)
  \/ \E i \in DOMAIN e.added, j \in DOMAIN revisions : /\ ~e.added[i].drawn
                                                       /\ revisions[j] = e.added[i]

\* The rows that slip past a geometry change: written by a request during which it happened, or
\* written since the request that makes it has loaded the rows.
Missed(v, e, crossed) ==
  (IF crossed THEN {s \in Ids : e.rows[s] # v.rows[s]} ELSE {})
    \cup (IF e.site.hash # v.site.hash THEN {s \in Ids : rows[s] # v.rows[s]} ELSE {})

Commit(v, e, crossed) ==
  /\ ~Conflict(v, e)
  /\ Len(revisions) + Len(e.added) <= MaxRevisions
  /\ rows' = Merged(v.rows, e.rows)
  /\ site' = [c \in DOMAIN site |-> IF e.site[c] # v.site[c] THEN e.site[c] ELSE site[c]]
  /\ revisions' = revisions \o e.added
  /\ assessed' = assessed \cup e.assesses
  /\ refreshDue' = (e.refresh = "queued" \/ (refreshDue /\ e.refresh # "done"))
  /\ exposed' = exposed \cup Missed(v, e, crossed)

\* What a request can do to what it has loaded.
Rejects(v) == UNION {Reject(v, s) : s \in Present(v.rows)}
Confirms(v) == UNION {Confirm(v, s, extant) : s \in Present(v.rows), extant \in Eligibility}
Requested(v) ==
  Rejects(v) \cup Confirms(v) \cup SaveGeometry(v) \cup RefreshFromCluster(v) \cup RefreshRulepackJob(v)
    \cup SuggestRequests(v) \cup Assess(v) \cup (IF refreshDue THEN RefreshGeometryJob(v) ELSE {})

Working == {x \in Sessions : handler[x].pc = "working"}

\* A request that no other overlaps; those at work note it, and whether it moves the geometry.
Serve(e) ==
  /\ \A x \in Working : handler[x].overlaps < MaxOverlaps
  /\ Commit(Loaded, e, FALSE)
  /\ handler' = [x \in Sessions |->
       IF x \in Working
       THEN [handler[x] EXCEPT !.crossed = @ \/ site'.hash # site.hash, !.overlaps = @ + 1]
       ELSE handler[x]]

\* A request that may be overlapped: it loads and decides, and commits later or fails.
Begin(x) ==
  /\ handler[x].pc = "waiting"
  /\ \E e \in Requested(Loaded) :
       handler' = [handler EXCEPT ![x] =
                     [pc |-> "working", view |-> [rows |-> rows, site |-> site], effect |-> e,
                      crossed |-> FALSE, overlaps |-> 0]]
  /\ UNCHANGED <<rows, site, revisions, assessed, refreshDue, exposed>>

Finish(x) ==
  /\ x \in Working
  /\ Commit(handler[x].view, handler[x].effect, handler[x].crossed)
  /\ handler' = [y \in Sessions |->
       CASE y = x -> [pc |-> "over"]
         [] y \in Working \ {x} -> [handler[y] EXCEPT !.crossed = @ \/ site'.hash # site.hash]
         [] OTHER -> handler[y]]

Abort(x) ==
  /\ x \in Working
  /\ \/ Conflict(handler[x].view, handler[x].effect)
     \/ Len(revisions) + Len(handler[x].effect.added) > MaxRevisions
  /\ handler' = [handler EXCEPT ![x] = [pc |-> "over"]]
  /\ UNCHANGED <<rows, site, revisions, assessed, refreshDue, exposed>>

Next ==
  \/ \E e \in Rejects(Loaded) : Serve(e)
  \/ \E e \in Confirms(Loaded) : Serve(e)
  \/ \E e \in SaveGeometry(Loaded) : Serve(e)
  \/ \E e \in RefreshFromCluster(Loaded) : Serve(e)
  \/ refreshDue /\ \E e \in RefreshGeometryJob(Loaded) : Serve(e)
  \/ \E e \in RefreshRulepackJob(Loaded) : Serve(e)
  \/ \E e \in SuggestRequests(Loaded) : Serve(e)
  \/ \E e \in Assess(Loaded) : Serve(e)
  \/ \E x \in Sessions : Begin(x) \/ Finish(x) \/ Abort(x)

Spec == Init /\ [][Next]_vars

-------------------------------------------------------------------------------
(* Properties *)

\* When requests do not overlap, a site has at most one headline, and it is a current scenario
\* the analyst has not rejected, whatever was suggested, superseded or made stale.
HeadlineSound ==
  \A s, t \in Ids : rows[s].headline =>
    /\ s \in Live(rows)
    /\ rows[t].headline => s = t

\* When requests do not overlap, at most one current scenario of a template is the machine's,
\* although each geometry revision and each change of its contents gives it a new id.
OneSuggestionPerTemplate ==
  \A s, t \in Suggested :
    /\ s \in Live(rows) /\ rows[s].source = "AUTO"
    /\ t \in Live(rows) /\ rows[t].source = "AUTO"
    /\ s[1] = t[1]
    => s = t

\* No confirmation, rejection or geometry change moves the red line of a scenario that an
\* assessment anchors to: a confirmation makes a successor instead (requires_supersede).  Only
\* the machine can, and only where a refreshed geometry is again the revision the scenario's
\* id was made from (the id _persist_candidate finds), which makes the row its own again.
OnlyTheMachineMovesAssessed ==
  [][\A s \in assessed : rows'[s].hash # rows[s].hash =>
       /\ rows'[s].source = "AUTO"
       /\ rows'[s].hash = site.hash]_vars

\* A current scenario frozen on another geometry than the site's.
CarriedForward(s) ==
  /\ s \in Live(rows) /\ rows[s].hash # site.hash
  /\ ~rows[s].stale \/ ~rows[s].review \/ rows[s].status \in Confirmed

\* Only a row written by a request that overlapped the geometry change can be carried forward
\* without a stale mark and a review.
OnlyOverlapCarriesForward == \A s \in Ids : CarriedForward(s) => s \in exposed
================================================================================
