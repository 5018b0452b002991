-------------------------------- MODULE Evidence --------------------------------
(***************************************************************************)
(* The registers, the screening of a site and the labels together: imports *)
(* fall between the reads and the commit of refreshes and rebuilds, and    *)
(* what a suggestion and an assessment then take from them                 *)
(* (scenarios/suggest.py, features/build.py, assessments/comparables.py)   *)
(* mixes rows frozen at one time with rows as they are at another.         *)
(***************************************************************************)
EXTENDS Suggestion, Labels

CONSTANTS
  Dates,       \* as-of dates of the assessments
  MaxSteps     \* bound of the model: imports, refreshes, rebuilds and reviews together

ASSUME EvidenceAssumption == Dates \subseteq Nat /\ MaxSteps \in Nat

vars == <<dataVars, screeningVars, labelsVars>>

(* What an assessment of the site takes *)

SiteCase(template) ==
  [cells |-> Cells(site.geometry), borough |-> site.borough, template |-> template,
   links |-> {[id |-> l.id, frozen |-> Row[l.frozen]] : l \in links.application},
   zones |-> {Row[z.frozen] : z \in links.zone}]

\* A mutant: cases on the site are compared with it.
LinkedNone == {}

Linked == Ids(links.application)

Comparables(template, date) ==
  {a \in DOMAIN labels \ Linked :
     /\ Counts(labels[a].class) /\ labels[a].template = template
     /\ labels[a].valid <= date /\ labels[a].decided <= date
     /\ labels[a].review # "EXCLUDED"}

(* The specification *)

Init == DataInit /\ ScreeningInit /\ LabelsInit

Ready == imports + passes + rebuilds + reviews < MaxSteps

Next ==
  \/ Ready /\ Import /\ UNCHANGED <<screeningVars, labelsVars>>
  \/ Ready /\ StartRefresh /\ UNCHANGED <<dataVars, labelsVars>>
  \/ GoOnRefreshing /\ UNCHANGED <<dataVars, labelsVars>>
  \/ Ready /\ (StartRebuild \/ ReviewCase) /\ UNCHANGED <<dataVars, screeningVars>>
  \/ GoOnRebuilding /\ UNCHANGED <<dataVars, screeningVars>>

Spec == Init /\ [][Next]_vars

-------------------------------------------------------------------------------
(* Properties *)

RowOfSite(row) ==
  /\ row.geometry \in Geometries /\ row.borough \in Boroughs \cup {NoBorough}
  /\ row.review \in BOOLEAN
  /\ row.status \in {"ACTIVE", "MANUAL_REVIEW", "INSUFFICIENT_GEOMETRY"}
  /\ row.warnings.gaps \subseteq MANDATORY
  /\ {row.warnings.crossing, row.warnings.noPack} \subseteq BOOLEAN

\* The tables keep their types, and a link or a fact has a deterministic id, so that
\* no table of the site ever holds two rows for one feature (the unique keys that the
\* overlapping deletions and insertions of planning/enrich.py run into).
TypeOK ==
  /\ DataTypeOK /\ RowOfSite(site)
  /\ DOMAIN links = Tables
  /\ \A x \in Tables : /\ \A r \in links[x] : r.on \in Geometries
                       /\ \A r, s \in links[x] : r.id = s.id => r = s
  /\ Ids(links.application) \subseteq DOMAIN db.applications
  /\ \A p \in Actors : tx[p].stage \in {"idle", "loaded", "matched"}
  /\ DOMAIN labels \subseteq DOMAIN db.applications /\ Range(labels) \subseteq LabelRow
  /\ \A p \in Rebuilders : rebuild[p].stage \in {"idle", "read", "ready"}

\* README: missing coverage never proves that there is no permission.  A site passes
\* only if the last import that spoke of each mandatory family in its borough called it
\* complete.  A file that is imported again speaks without being heard: its rows keep
\* their old time of capture (register_dataset_snapshot, list_latest_coverage_snapshots).
PassIsCovered ==
  ExtantPermission = "PASS" =>
    /\ site.borough \in Boroughs
    /\ \A m \in MANDATORY : LET n == newest[<<site.borough, m>>]
                            IN n.again \/ StatusIn(n.file, site.borough, m) = "COMPLETE"

LiveOnSite(row) ==
  /\ ActiveResidential(row) /\ row.source # "PLD"
  /\ Tenth(site.geometry, row.area) \/ SharedSqm(site.geometry, row.area) >= 100

\* A site that passes has no live permission of a borough register on a tenth or on 100
\* square metres of its present red line, except one that was imported or changed after
\* the last refresh read the register, and unless that refresh overlapped another
\* (refresh_site_planning_context, evaluate_site_extant_permission).
PassMissesOnlyNews ==
  ExtantPermission = "PASS" /\ ~screened.mixed =>
    \A a \in DOMAIN db.applications :
      LiveOnSite(Row[db.applications[a]]) =>
        a \notin DOMAIN screened.apps \/ screened.apps[a] # db.applications[a]

\* A site is ACTIVE only when its refresh found every mandatory family complete, a
\* baseline pack, one borough and a sure red line; except that the borough and title
\* jobs, which do not look at the registers, may clear the review (sites/service.py
\* refresh_site_links_and_status), and overlapping refreshes may merge their columns.
ActiveWasScreened ==
  site.status = "ACTIVE" /\ screened.writer # "links" /\ ~screened.mixed =>
    /\ site.warnings.gaps = {} /\ ~site.warnings.noPack
    /\ site.borough # NoBorough /\ ~Weak(site.geometry)
    /\ screened.torn \/ ~CrossesMaterially(site.geometry)

\* README: a scenario is confirmed automatically only when all gates hold.  The application
\* it rests on is no permission that may still be used, although it is chosen among the
\* rows as they are and the screening judges the copies that the links froze; except one
\* that was changed after the last refresh read the register (scenarios/suggest.py
\* _nearest_historical_support, _auto_confirm_allowed, evaluate_site_extant_permission).
ConfirmedOnHistory ==
  ~screened.mixed =>
    \A t \in Templates : \A a \in ConfirmedOn(t) :
      ActiveResidential(Row[db.applications[a]]) => screened.apps[a] # db.applications[a]

\* No scenario is confirmed automatically on a red line that crosses the edge of a borough
\* materially, whatever the site's status and review say, which the gates do not read:
\* such a line has no borough, hence no pack, no rulepack and no candidate.  Except
\* where overlapping refreshes have merged the borough of one line with another line.
ConfirmedInOneBorough ==
  ~screened.torn =>
    \A t \in Templates : ConfirmedOn(t) # {} => ~CrossesMaterially(site.geometry)

\* All links and facts of a site were measured on its present red line, unless the last
\* refresh of them overlapped another: a save replaces the rows of all tables in the
\* transaction that moves the line.  (Overlapped, the save of the line that was loaded
\* writes no column of it, and leaves its links beside another save's line.)
LinksOfOneGeometry ==
  \A x \in Tables : \/ IF x \in {"lpa", "title"} THEN screened.torn ELSE screened.mixed
                    \/ \A r \in links[x] : r.on = site.geometry

\* What a reviewer said of a case stands through every rebuild, unless two rebuilds
\* have overlapped: one that did not see the application deletes the row another inserted.
ReviewsStand ==
  ~labelled.ever => \A a \in DOMAIN given : a \in DOMAIN labels /\ labels[a].review = given[a]

LabelsFresh ==
  /\ ~labelled.mixed /\ labelled.apps = db.applications /\ labelled.zones = db.zones

\* A case that two registers report counts once: of two applications of different
\* priority that are the same case, one label at most is an outcome.
CountedOnce ==
  LabelsFresh =>
    \A a, b \in DOMAIN labels :
      LET r == Row[db.applications[a]]  s == Row[db.applications[b]]
      IN r.priority < s.priority /\ SameCase(r, s) =>
           ~(Counts(labels[a].class) /\ Counts(labels[b].class))

\* A training row does not know its own outcome: had the case been decided the other way,
\* its features at its date of validation would be the same, the rates of its borough
\* included.  Except a case decided on the day it was validated (build_feature_snapshot
\* counts a decision of the as-of date itself, and the leakage check of scoring/train.py
\* lets it through).
TrainingIsBlind ==
  Trainable =>
    \A a \in TrainingRows :
      LET features(table) == Features(PastCase(a), PastDate(a), Columns(db.applications), table)
      IN labels[a].decided > PastDate(a) => features(labels) = features(Reversed(a))

\* The registers as they stood at a date: later applications are not there, and later
\* decisions are not taken.
AsOf(date) ==
  LET rows == Columns(db.applications)
  IN [a \in {x \in DOMAIN rows : KnownBy(rows[x], date)} |->
        IF rows[a].decided > date THEN [rows[a] EXCEPT !.decided = NoDate, !.decision = "PENDING"]
                                  ELSE rows[a]]

LaterTwin(date) ==
  \E r, s \in Range(Columns(db.applications)) :
    /\ DecidedBy(r, date) /\ r.priority < s.priority /\ SameCase(r, s)
    /\ s.valid > date \/ s.decided > date

\* Point-in-time features use what was known at the date: they are those of the
\* registers as they stood.  Except that a stronger register's later report of a case
\* takes the earlier one out of the counts (rebuild_historical_case_labels looks at all
\* applications, whatever the date asked for).
NoHindsight ==
  LabelsFresh =>
    \A date \in Dates, t \in Templates :
      \/ LaterTwin(date)
      \/ Features(SiteCase(t), date, Columns(db.applications), labels)
           = Features(SiteCase(t), date, AsOf(date), LabelsOf(AsOf(date), db.zones))

\* A site is not compared with itself: no comparable is an application on or at the site,
\* except one that was imported or changed after the last refresh read the register, and
\* unless that refresh overlapped another (build_comparable_case_set).
ComparablesAreOthers ==
  ~screened.mixed =>
    \A t \in Templates, date \in Dates : \A a \in Comparables(t, date) :
      \/ ToApplication(site.geometry, db.applications[a]) = "NONE"
      \/ a \notin DOMAIN screened.apps
      \/ screened.apps[a] # db.applications[a]
===============================================================================
