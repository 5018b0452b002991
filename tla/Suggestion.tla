------------------------------- MODULE Suggestion -------------------------------
(***************************************************************************)
(* What the heuristics of scenarios/suggest.py make of a site and the      *)
(* registers: which templates are excluded, which past application backs   *)
(* a candidate, how many units it has, and whether it is confirmed with no *)
(* analyst in between.  Scenarios has what becomes of the candidates; here *)
(* are the gates, over the rows they are read from.  The screening judges  *)
(* an application by the copy its link froze, the support by the row of    *)
(* the register as it is now.                                              *)
(*                                                                         *)
(* The rank among candidates is left out; where the first of equal         *)
(* applications is taken, any of them is.                                  *)
(***************************************************************************)
EXTENDS Screening

CONSTANTS
  Templates,   \* enabled scenario templates
  Config,      \* Config[t]: units, site area in square metres, route, share of the
               \* land that can be built on in percent, square metres per home
  Cited,       \* the <<borough, template>> whose rulepack has complete citations
  Stale        \* the <<borough, template>> whose rulepack or pack is stale

NoUnits == 0
NoRoute == "none"
Abs(n) == IF n < 0 THEN -n ELSE n

ASSUME SuggestionAssumption ==
  /\ Cited \subseteq Boroughs \X Templates /\ Stale \subseteq Boroughs \X Templates
  /\ \A t \in Templates : /\ Config[t].units \in SUBSET (Nat \ {NoUnits}) \ {{}}
                          /\ Config[t].perHome \in Nat \ {0}
                          /\ Config[t].net \in 0 .. 100

(* Templates that get no candidate *)

\* Without a pack of its borough a site has no rulepack.  An analyst's manual seed is let
\* off the range of the site's area.
Excluded(t, seeded) ==
  \/ site.borough \notin db.packs
  \/ <<site.borough, t>> \notin Cited
  \/ ExtantPermission = "FAIL"
  \/ SiteSqm(site.geometry) = 0
  \/ ~seeded /\ SiteSqm(site.geometry) \notin Config[t].area

(* The application that backs a candidate *)

Metres(l) == IF l.type = "NEAR"
             THEN Min({CellMetres * Abs(i - j) : i \in Cells(l.on), j \in Row[l.frozen].point})
             ELSE 0

\* A linked application of a borough register that says how many homes it is for.
Precedents == {l \in links.application : LET row == Row[db.applications[l.id]]
                                         IN row.source # "PLD" /\ row.units # NoUnits}

Misfit(t, row) == (IF row.units \in Config[t].units THEN 0 ELSE 20)
                    + (IF row.route \in {Config[t].route, NoRoute} THEN 0 ELSE 10)
                    + (IF row.kind = "RESIDENTIAL" THEN 0 ELSE 50)

Earliest(row) == IF row.decided # NoDate THEN row.decided ELSE row.valid

Nearer(t, l, m) ==
  LET r == Row[db.applications[l.id]]  s == Row[db.applications[m.id]]
      cost == Metres(l) + Misfit(t, r)
      other == Metres(m) + Misfit(t, s)
  IN cost < other \/ (cost = other /\ Earliest(r) < Earliest(s))

\* The applications that may be taken as the nearest.
Supports(t) == {l.id : l \in {k \in Precedents : ~ \E m \in Precedents : Nearer(t, m, k)}}

Strong(t, a) ==
  LET row == Row[db.applications[a]]
  IN row.granted /\ row.route = Config[t].route /\ row.units \in Config[t].units

(* The candidate *)

\* The nearest of the template's numbers of units.
Within(t, n) == CHOOSE u \in Config[t].units :
                  \A v \in Config[t].units : Abs(u - n) <= Abs(v - n)

Capacity(t) == Within(t, (SiteSqm(site.geometry) * Config[t].net) \div (100 * Config[t].perHome))
Units(t) == IF Precedents = {} THEN {Capacity(t)}
            ELSE {Within(t, Row[db.applications[a]].units) : a \in Supports(t)}

\* A candidate backed by a is confirmed automatically when nothing is missing or stale.
AutoConfirmed(t, a) ==
  /\ ~Weak(site.geometry)
  /\ ExtantPermission = "PASS"
  /\ CoverageGaps(db.snapshots, site.borough) = {}
  /\ Strong(t, a)
  /\ <<site.borough, t>> \notin Stale
  /\ Config[t].route \in {"FULL", "OUTLINE"}

\* The applications on whose strength a request confirms a scenario of template t.
ConfirmedOn(t) ==
  {a \in Supports(t) : \E seeded \in BOOLEAN : ~Excluded(t, seeded) /\ AutoConfirmed(t, a)}
===============================================================================
