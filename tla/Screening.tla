------------------------------- MODULE Screening -------------------------------
(***************************************************************************)
(* What the planning registers mean for one site (planning/enrich.py,      *)
(* planning/extant_permission.py, the link and status part of              *)
(* sites/service.py): the refresh of its borough, its links to             *)
(* applications and designations, its warnings and status, and the verdict *)
(* on extant permission that readers compute from those rows.              *)
(*                                                                         *)
(* A transaction loads the site (Load), deletes the rows its refresh       *)
(* replaces, reads the registers and inserts what matches (Match), and     *)
(* commits (Commit), or fails at any point and leaves nothing (Abort).     *)
(* Isolation is READ COMMITTED: the deletion removes the rows that are     *)
(* committed when it starts, waits for a transaction that is removing the  *)
(* same rows, and does not see what that one inserted; two inserts of one  *)
(* deterministic id are refused.  Three kinds of transaction do this:      *)
(*   geometry  an analyst's save, a build from a listing cluster           *)
(*   enrich    the enrichment, recheck and coverage jobs, the API's check  *)
(*   links     the borough and title jobs, which stop before the registers *)
(***************************************************************************)
EXTENDS PlanningData

CONSTANTS
  Geometries,     \* red lines of the site
  Geometry,       \* Geometry[g]: its cells, whether it is a polygon, its confidence
  FirstGeometry,  \* the one it was built with, when nothing had been imported
  NoBorough,      \* no borough controls the site
  Titles,         \* title polygons of the land registry
  TitleLand,      \* TitleLand[t]: the cells of title t
  Actors,         \* worker processes and API requests
  MaxPasses       \* bound of the model: refreshes

NearMetres == 50   \* an application's point, or a constraint's, this near is linked

Kinds == {"geometry", "enrich", "links"}
Tables == {"lpa", "title", "application", "zone"}
\* A mutant: a saved red line keeps the links of the one before.
ReplacedButKept(kind) == IF kind = "enrich" THEN {"application", "zone"} ELSE {"lpa", "title"}
Replaced(kind) == CASE kind = "geometry" -> Tables
                    [] kind = "enrich" -> {"application", "zone"}
                    [] kind = "links" -> {"lpa", "title"}

ASSUME ScreeningAssumption ==
  /\ FirstGeometry \in Geometries /\ NoBorough \notin Boroughs /\ MaxPasses \in Nat
  /\ \A g \in Geometries : /\ Geometry[g].confidence \in {"HIGH", "LOW", "INSUFFICIENT"}
                           /\ IsFiniteSet(Geometry[g].cells)

VARIABLES
  site,       \* the site's row: geometry, borough, warnings, review, status
  links,      \* links[t]: its rows in table t, each with the red line it was measured on
  tx,         \* tx[p]: the transaction of p
  passes,     \* refreshes so far
  screened    \* history: the applications the last refresh read, whether another commit
              \* fell into it (mixed) or into the last look at boroughs and titles (torn), and
              \* the kind of the last writer of the site

(* Geometry *)

Cells(g) == Geometry[g].cells
Weak(g) == Geometry[g].confidence # "HIGH"
SharedSqm(g, area) == IF Geometry[g].polygon THEN CellSqm * Cardinality(Cells(g) \cap area) ELSE 0
SiteSqm(g) == SharedSqm(g, Cells(g))
Tenth(g, area) == SiteSqm(g) > 0 /\ 10 * SharedSqm(g, area) >= SiteSqm(g)

ToApplication(g, r) == Relation(Cells(g), Row[r], NearMetres)
ToZone(g, r) == Relation(Cells(g), Row[r], IF Row[r].kind = "constraint" THEN NearMetres ELSE 0)

(* The borough that controls the site *)

Crossed(g) == {b \in Boroughs : Cells(g) \cap Bounds[b] # {}}
Primary(g) == CHOOSE b \in Crossed(g) :
                \A c \in Crossed(g) : SharedSqm(g, Bounds[b]) >= SharedSqm(g, Bounds[c])
Secondary(g) == MapThenSumSet(LAMBDA b : SharedSqm(g, Bounds[b]), Crossed(g) \ {Primary(g)})
Trivial(g) == 20 * Secondary(g) < SiteSqm(g) /\ Secondary(g) < 100
CrossesMaterially(g) == Cardinality(Crossed(g)) > 1 /\ Geometry[g].polygon /\ ~Trivial(g)
\* A mutant: the largest borough controls, although the line crosses its edge.
ControllingLargest(g) == IF Crossed(g) = {} THEN NoBorough ELSE Primary(g)

Controlling(g) == IF Crossed(g) = {} \/ CrossesMaterially(g) THEN NoBorough ELSE Primary(g)

(* The columns of the site's row that a refresh computes *)

Status(g, review) == CASE Geometry[g].confidence = "INSUFFICIENT" -> "INSUFFICIENT_GEOMETRY"
                       [] Geometry[g].confidence = "LOW" -> "MANUAL_REVIEW"
                       [] Geometry[g].confidence = "HIGH" ->
                            IF review THEN "MANUAL_REVIEW" ELSE "ACTIVE"

\* refresh_site_links_and_status: only the red line and the boroughs are looked at.
WithLinks(row, g) ==
  LET review == CrossesMaterially(g) \/ Weak(g)
  IN [geometry |-> g, borough |-> Controlling(g), review |-> review, status |-> Status(g, review),
      warnings |-> [row.warnings EXCEPT !.crossing = CrossesMaterially(g)]]

\* A mutant: gaps are written down and not acted on.
WithContextNoted(row, d) ==
  LET gaps == CoverageGaps(d.snapshots, row.borough)
      noPack == PackMissing(d, row.borough)
      review == Weak(row.geometry) \/ row.warnings.crossing \/ noPack
  IN [geometry |-> row.geometry, borough |-> row.borough,
      review |-> review, status |-> Status(row.geometry, review),
      warnings |-> [crossing |-> row.warnings.crossing, gaps |-> gaps, noPack |-> noPack]]

\* refresh_site_planning_context, with the coverage and packs there are.
WithContext(row, d) ==
  LET gaps == CoverageGaps(d.snapshots, row.borough)
      noPack == PackMissing(d, row.borough)
      review == Weak(row.geometry) \/ row.warnings.crossing \/ gaps # {} \/ noPack
  IN [geometry |-> row.geometry, borough |-> row.borough,
      review |-> review, status |-> Status(row.geometry, review),
      warnings |-> [crossing |-> row.warnings.crossing, gaps |-> gaps, noPack |-> noPack]]

(* The rows a refresh inserts *)

Overlapped(g) == {t \in Titles : Cells(g) \cap TitleLand[t] # {}}

ToBoroughs(g) == {[id |-> b, on |-> g] : b \in Crossed(g)}
ToTitles(g) == {[id |-> t, on |-> g] : t \in Overlapped(g)}
ToApplications(g, rows) ==
  {[id |-> a, on |-> g, type |-> ToApplication(g, rows[a]), frozen |-> rows[a]] :
     a \in {x \in DOMAIN rows : ToApplication(g, rows[x]) # "NONE"}}
ToZones(g, rows) ==
  {[id |-> z, on |-> g, frozen |-> rows[z]] : z \in {x \in DOMAIN rows : ToZone(g, rows[x]) # "NONE"}}

Matching(g, d) == [lpa |-> ToBoroughs(g), title |-> ToTitles(g),
                   application |-> ToApplications(g, d.applications), zone |-> ToZones(g, d.zones)]

Ids(rows) == {r.id : r \in rows}

(* Transactions *)

Idle == [stage |-> "idle"]
Holds(p) == tx[p].stage = "matched" /\ tx[p].kind = "geometry"

Load(p, kind, g) ==
  /\ tx[p].stage = "idle" /\ passes < MaxPasses
  /\ passes' = passes + 1
  /\ tx' = [tx EXCEPT ![p] = [stage |-> "loaded", kind |-> kind, g |-> g, seen |-> site,
                              old |-> links, dirty |-> FALSE]]
  /\ UNCHANGED <<site, links, screened>>

LoadForGeometry(p) == \E g \in Geometries : Load(p, "geometry", g)
LoadForEnrich(p) == Load(p, "enrich", site.geometry)
LoadForLinks(p) == Load(p, "links", site.geometry)

\* The rows the deletion removes: those there are now, or those there were when it
\* started and had to wait.
Match(p) ==
  LET t == tx[p]
      tables == Replaced(t.kind)
  IN /\ t.stage = "loaded"
     /\ t.kind = "geometry" => \A q \in Actors : ~Holds(q)
     /\ \E old \in {t.old, links} :
          /\ \A q \in Actors \ {p} : tx[q].stage = "matched" =>
               \A x \in tables \cap Replaced(tx[q].kind) : old[x] \cap tx[q].old[x] = {}
          /\ tx' = [tx EXCEPT ![p] =
                     [stage |-> "matched", kind |-> t.kind, old |-> old,
                      new |-> Matching(t.g, db), apps |-> db.applications,
                      row |-> CASE t.kind = "geometry" ->
                                     Merge(WithLinks(t.seen, t.g), t.seen, site)
                                [] t.kind = "enrich" -> site
                                [] t.kind = "links" -> t.seen,
                      dirty |-> t.dirty]]
     /\ UNCHANGED <<site, links, passes, screened>>

\* The row as the transaction leaves it.
Written(t) ==
  CASE t.kind = "geometry" -> WithContext(t.row, db)
    [] t.kind = "enrich" -> Merge(WithContext(t.row, db), t.row, site)
    [] t.kind = "links" -> Merge(WithLinks(t.row, t.row.geometry), t.row, site)

\* A mutant: no unique key.
ClashUnseen(t) == FALSE

\* A deterministic id that another transaction has inserted since the deletion.
Clash(t) == \E x \in Replaced(t.kind) : Ids(t.new[x]) \cap Ids(links[x] \ t.old[x]) # {}

Commit(p) ==
  LET t == tx[p]
      tables == Replaced(t.kind)
  IN /\ t.stage = "matched"
     /\ ~Clash(t)
     /\ Written(t) # site => \A q \in Actors \ {p} : ~Holds(q)
     /\ site' = Written(t)
     /\ links' = [x \in Tables |-> IF x \in tables THEN (links[x] \ t.old[x]) \cup t.new[x]
                                                   ELSE links[x]]
     /\ tx' = [q \in Actors |-> IF q = p THEN Idle
                                ELSE IF tx[q].stage = "idle" THEN Idle
                                ELSE [tx[q] EXCEPT !.dirty = TRUE]]
     /\ screened' = [apps |-> IF t.kind = "links" THEN screened.apps ELSE t.apps,
                      mixed |-> IF t.kind = "links" THEN screened.mixed ELSE t.dirty,
                      torn |-> IF t.kind = "enrich" THEN screened.torn ELSE t.dirty,
                      writer |-> t.kind]
     /\ UNCHANGED passes

Abort(p) ==
  /\ tx[p].stage # "idle"
  /\ tx' = [tx EXCEPT ![p] = Idle]
  /\ UNCHANGED <<site, links, passes, screened>>

StartRefresh == \E p \in Actors : LoadForGeometry(p) \/ LoadForEnrich(p) \/ LoadForLinks(p)
GoOnRefreshing == \E p \in Actors : Match(p) \/ Commit(p) \/ Abort(p)

(* The verdict on extant permission *)

Unexpired(date) == date = NoDate \/ date >= Today
ActiveResidential(row) ==
  /\ row.route \in {"FULL", "OUTLINE", "PIP", "PRIOR_APPROVAL"}
  /\ row.live /\ Unexpired(row.expiry)

\* The share is that of the link, the area is measured on the row as it is now.
Material(l) ==
  \/ l.type = "INTERSECTS" /\ Tenth(l.on, Row[l.frozen].area)
  \/ SharedSqm(site.geometry, Row[db.applications[l.id]].area) >= 100
  \/ Row[l.frozen].raises = "access"
  \/ l.type = "WITHIN" /\ Row[l.frozen].raises = "core"

Excluding(parcel) == parcel.part = 2 /\ parcel.active /\ Unexpired(parcel.to)
MaterialParcel(parcel) ==
  Tenth(site.geometry, parcel.area) \/ SharedSqm(site.geometry, parcel.area) >= 100

Permissions == {l \in links.application : ActiveResidential(Row[l.frozen])}
OnRegister == {l \in Permissions : Row[l.frozen].source # "PLD"}
Parcels == {k \in {Row[r] : r \in Range(db.parcels)} : Cells(site.geometry) \cap k.area # {} /\ Excluding(k)}

Barred == \/ \E l \in OnRegister : Material(l)
          \/ \E k \in Parcels : MaterialParcel(k)
\* A mutant: a permission that is not material raises no doubt.
DoubtfulAtGaps == Parcels # {} \/ CoverageGaps(db.snapshots, site.borough) # {}

Doubtful == Permissions # {} \/ Parcels # {} \/ CoverageGaps(db.snapshots, site.borough) # {}

ExtantPermission == CASE Barred -> "FAIL"
                      [] ~Barred /\ Doubtful -> "ABSTAIN"
                      [] OTHER -> "PASS"

(* The specification *)

BuiltRow == [geometry |-> FirstGeometry, borough |-> NoBorough, review |-> TRUE,
             status |-> "MANUAL_REVIEW",
             warnings |-> [crossing |-> FALSE, gaps |-> MANDATORY, noPack |-> FALSE]]

ScreeningInit ==
  /\ site = WithContext(WithLinks(BuiltRow, FirstGeometry), db)
  /\ links = Matching(FirstGeometry, db)
  /\ tx = [p \in Actors |-> Idle]
  /\ passes = 0
  /\ screened = [apps |-> db.applications, mixed |-> FALSE, torn |-> FALSE,
                 writer |-> "geometry"]

screeningVars == <<site, links, tx, passes, screened>>
===============================================================================
