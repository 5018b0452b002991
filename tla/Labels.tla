--------------------------------- MODULE Labels ---------------------------------
(***************************************************************************)
(* The labels that past applications get (planning/historical_labels.py),  *)
(* the gold-set review of them, and the features a case has at a date      *)
(* (features/build.py, and the training rows of scoring/train.py).         *)
(*                                                                         *)
(* A rebuild is one transaction that reads the applications, then the      *)
(* label rows, and commits: it writes the columns that changed, inserts a  *)
(* row for an application that had none, and deletes the row of an         *)
(* application it did not see.  Two rebuilds may overlap: the label job    *)
(* and the gold-set job are deduplicated apart.  A review is one update.   *)
(* Units, form of proposal and wording of an application are what its row  *)
(* says; 18 months are WindowDays.                                         *)
(***************************************************************************)
EXTENDS PlanningData

CONSTANTS
  Rebuilders,   \* jobs, assessments and requests that rebuild the labels
  MaxRebuilds,  \* bound of the model: rebuilds
  MaxReviews    \* bound of the model: reviews

ASSUME LabelsAssumption == MaxRebuilds \in Nat /\ MaxReviews \in Nat

WindowDays == 548
CloseDays == 45
SameMetres == 30
ZoneMetres == 20
NoTemplate == "none"
Reviews == {"PENDING", "CONFIRMED", "EXCLUDED"}
Classes == {"POSITIVE", "NEGATIVE", "EXCLUDED", "CENSORED"}

VARIABLES
  labels,      \* labels[a]: the row of application a
  rebuild,     \* rebuild[p]: the transaction of p
  given,       \* history: the review last given to each application
  labelled,    \* history: what the last rebuild read, whether another rebuild's commit
               \* fell into it (mixed), and whether one ever fell into any (ever)
  rebuilds, reviews

(* The label of an application *)

Template(row) == CASE row.units \in 1 .. 4 /\ row.route = "FULL" -> "resi_1_4_full"
                   [] row.units \in 5 .. 9 /\ row.route = "FULL" -> "resi_5_9_full"
                   [] row.units \in 10 .. 49 /\ row.route = "OUTLINE" -> "resi_10_49_outline"
                   [] OTHER -> NoTemplate

Relevant(row) == row.kind = "RESIDENTIAL" /\ row.route # "PRIOR_APPROVAL"
Ground(row) == IF row.area # {} THEN row.area ELSE row.point

\* Two registers speak of one case.  Polygons that meet are at no distance, so that the
\* share they have in common decides nothing.
SameCase(c, s) ==
  /\ c.borough = s.borough /\ c.units = s.units /\ c.route = s.route
  /\ NoDate \notin {c.valid, s.valid} /\ c.valid - s.valid \in -CloseDays .. CloseDays
  /\ {} \in {c.area, s.area} \/ c.area \cap s.area # {}
  /\ \/ Near(Ground(c), Ground(s), SameMetres)
     \/ c.words = s.words

\* A mutant: the registers must agree on the date.
DuplicateSameDay(row, stronger) ==
  \E s \in stronger : s.priority > row.priority /\ SameCase(row, s) /\ s.valid = row.valid

Duplicate(row, stronger) == \E s \in stronger : s.priority > row.priority /\ SameCase(row, s)

InWindow(row) == NoDate \notin {row.valid, row.decided} /\ row.decided <= row.valid + WindowDays

Class(row, stronger) ==
  CASE \/ Duplicate(row, stronger) \/ ~Relevant(row) \/ Template(row) = NoTemplate
       \/ row.decision = "WITHDRAWN" -> "EXCLUDED"
    [] /\ ~Duplicate(row, stronger) /\ Relevant(row) /\ Template(row) # NoTemplate
       /\ row.decision \in {"APPROVED", "REFUSED"} /\ InWindow(row) ->
         IF row.decision = "APPROVED" THEN "POSITIVE" ELSE "NEGATIVE"
    [] OTHER -> "CENSORED"

Counts(class) == class \in {"POSITIVE", "NEGATIVE"}

\* The cases that count, from the stronger source down.
CountedCases(rows) ==
  LET counted(priority, cases) ==
        {r \in rows : r.priority = priority /\ Counts(Class(r, cases))}
  IN counted(100, {}) \cup counted(50, counted(100, {}))

ActiveOn(row, date) == row.from <= date /\ (row.to = NoDate \/ row.to >= date)
Designations(cells, zones) ==
  {z \in {Row[r] : r \in Range(zones)} :
     Relation(cells, z, IF z.kind = "constraint" THEN ZoneMetres ELSE 0) # "NONE"}

ProfileDate(row) == CASE row.valid # NoDate -> row.valid
                      [] row.valid = NoDate /\ row.decided # NoDate -> row.decided
                      [] OTHER -> Today

Label(row, cases, zones) ==
  [class |-> Class(row, cases), template |-> Template(row), form |-> row.form,
   borough |-> row.borough, valid |-> row.valid, decided |-> row.decided,
   zones |-> {z.family : z \in {y \in Designations(Ground(row), zones) :
                                 ActiveOn(y, ProfileDate(row))}},
   review |-> "PENDING"]

LabelRow ==
  [class : Classes, form : STRING, borough : Boroughs, valid : Nat, decided : Nat,
   template : {NoTemplate, "resi_1_4_full", "resi_5_9_full", "resi_10_49_outline"},
   zones : SUBSET STRING, review : Reviews]

LabelsOf(rows, zones) ==
  LET cases == CountedCases(Range(rows))
  IN [a \in DOMAIN rows |-> Label(rows[a], cases, zones)]

Columns(apps) == [a \in DOMAIN apps |-> Row[apps[a]]]

(* Rebuilds and reviews *)

Resting == [stage |-> "idle"]

ReadApplications(p) ==
  /\ rebuild[p].stage = "idle" /\ rebuilds < MaxRebuilds
  /\ rebuilds' = rebuilds + 1
  /\ rebuild' = [rebuild EXCEPT ![p] =
                  [stage |-> "read", apps |-> db.applications, dirty |-> FALSE]]
  /\ UNCHANGED <<labels, given, labelled, reviews>>

ReadLabels(p) ==
  /\ rebuild[p].stage = "read"
  /\ rebuild' = [rebuild EXCEPT ![p] =
                  [stage |-> "ready", apps |-> rebuild[p].apps, old |-> labels,
                   dirty |-> rebuild[p].dirty]]
  /\ UNCHANGED <<labels, given, labelled, rebuilds, reviews>>

\* A mutant: a rebuilt row is pending again.
RelabelledAfresh(old, new) == new

\* The columns of a rebuilt row: those of the review stay as they were read.
Relabelled(old, new) == [new EXCEPT !.review = old.review]

CommitLabels(p) ==
  LET b == rebuild[p]
      seen == DOMAIN b.apps
      fresh == LabelsOf(Columns(b.apps), db.zones)
      kept == seen \cap DOMAIN b.old
      changed == {a \in kept : Relabelled(b.old[a], fresh[a]) # b.old[a]}
  IN /\ b.stage = "ready"
     /\ (seen \ DOMAIN b.old) \cap DOMAIN labels = {}     \* unique (application, version)
     /\ changed \subseteq DOMAIN labels                   \* an update finds its row
     /\ labels' = [a \in (DOMAIN labels \ (DOMAIN b.old \ seen)) \cup (seen \ DOMAIN b.old) |->
                     CASE a \in changed ->
                            Merge(Relabelled(b.old[a], fresh[a]), b.old[a], labels[a])
                       [] a \in seen \ DOMAIN b.old -> fresh[a]
                       [] OTHER -> labels[a]]
     /\ labelled' = [apps |-> b.apps, zones |-> db.zones, mixed |-> b.dirty,
                      ever |-> labelled.ever \/ b.dirty]
     /\ rebuild' = [q \in Rebuilders |-> IF q = p \/ rebuild[q].stage = "idle" THEN Resting
                                         ELSE [rebuild[q] EXCEPT !.dirty = TRUE]]
     /\ UNCHANGED <<given, rebuilds, reviews>>

AbortLabels(p) ==
  /\ rebuild[p].stage # "idle"
  /\ rebuild' = [rebuild EXCEPT ![p] = Resting]
  /\ UNCHANGED <<labels, given, labelled, rebuilds, reviews>>

Review(a, status) ==
  /\ a \in DOMAIN labels /\ reviews < MaxReviews
  /\ reviews' = reviews + 1
  /\ labels' = [labels EXCEPT ![a].review = status]
  /\ given' = [x \in DOMAIN given \cup {a} |-> IF x = a THEN status ELSE given[x]]
  /\ UNCHANGED <<rebuild, labelled, rebuilds>>

StartRebuild == \E p \in Rebuilders : ReadApplications(p)
GoOnRebuilding == \E p \in Rebuilders : ReadLabels(p) \/ CommitLabels(p) \/ AbortLabels(p)
ReviewCase == \E a \in DOMAIN labels, status \in Reviews \ {"PENDING"} : Review(a, status)

LabelsInit ==
  /\ labels = [a \in {} |-> 0] /\ given = [a \in {} |-> "PENDING"]
  /\ rebuild = [p \in Rebuilders |-> Resting]
  /\ labelled = [apps |-> db.applications, zones |-> db.zones, mixed |-> FALSE, ever |-> FALSE]
  /\ rebuilds = 0 /\ reviews = 0

labelsVars == <<labels, rebuild, given, labelled, rebuilds, reviews>>

(* The features of a case at a date *)
(* A case is a place, the applications on it, its borough and template, and the         *)
(* designations recorded for it.                                                       *)

KnownBy(row, date) == row.valid <= date

\* A mutant: an outcome counts whenever it came.
DecidedEver(row, date) == row.decided # NoDate

DecidedBy(row, date) == row.decided # NoDate /\ row.decided <= date

Outcomes(apps, table, class, date) ==
  {a \in apps \cap DOMAIN table : table[a].class = class /\ DecidedBy(table[a], date)}

Windows == {<<0, 50>>, <<50, 250>>, <<250, 500>>}

Known(case, date) == {l \in case.links : KnownBy(l.frozen, date)}
Refs(links) == {l.id : l \in links}

OnSite(case, date, table) ==
  LET known == Known(case, date)
      outcome(class) == {l \in known : l.id \in Outcomes(Refs(known), table, class, date)}
      count(P(_)) == Cardinality({l \in known : P(l.frozen)})
  IN [outcomes |-> [c \in {"POSITIVE", "NEGATIVE"} |-> Cardinality(outcome(c))],
      mostUnits |-> [c \in {"POSITIVE", "NEGATIVE"} |->
                       Max({0} \cup {l.frozen.units : l \in outcome(c)})],
      withdrawn |-> count(LAMBDA r : r.decision = "WITHDRAWN" /\ DecidedBy(r, date)),
      priorApprovals |-> count(LAMBDA r : r.route = "PRIOR_APPROVAL"),
      extant |-> count(LAMBDA r : r.live /\ DecidedBy(r, date))]

Nearby(case, date, rows, table) ==
  LET around(least, most) ==
        {a \in DOMAIN rows \ Refs(case.links) :
           /\ KnownBy(rows[a], date)
           /\ Near(case.cells, Ground(rows[a]), most)
           /\ ~Near(case.cells, Ground(rows[a]), least - 1)}
  IN [window |-> [w \in Windows |-> [c \in {"POSITIVE", "NEGATIVE"} |->
                    Cardinality(Outcomes(around(w[1], w[2]), table, c, date))]],
      sameTemplate |->
        Cardinality({a \in Outcomes(around(0, 500), table, "POSITIVE", date) :
                       table[a].template = case.template})]

InBorough(case, date, table) ==
  [c \in {"POSITIVE", "NEGATIVE"} |->
     Cardinality({a \in Outcomes(DOMAIN table, table, c, date) :
                    table[a].template = case.template /\ table[a].borough = case.borough})]

ZonesOf(case, date) == {z.family : z \in {y \in case.zones : ActiveOn(y, date)}}
BrownfieldOf(case, date) ==
  {<<k.part, k.active>> : k \in {x \in {Row[r] : r \in Range(db.parcels)} :
                                  ActiveOn(x, date) /\ case.cells \cap x.area # {}}}

Features(case, date, rows, table) ==
  [onSite |-> OnSite(case, date, table), nearby |-> Nearby(case, date, rows, table),
   borough |-> InBorough(case, date, table), zones |-> ZonesOf(case, date),
   brownfield |-> BrownfieldOf(case, date)]

(* Training *)

\* A past application as the case it was when it was validated.
PastCase(a) ==
  LET row == Row[db.applications[a]]
  IN [cells |-> Ground(row), links |-> {[id |-> a, frozen |-> row]},
      borough |-> labels[a].borough, template |-> labels[a].template,
      zones |-> Designations(Ground(row), db.zones)]

PastDate(a) ==
  LET row == Row[db.applications[a]]
  IN CASE row.valid # NoDate -> row.valid
       [] row.valid = NoDate /\ labels[a].valid # NoDate -> labels[a].valid
       [] OTHER -> row.decided

TrainingRows == {a \in DOMAIN labels : Counts(labels[a].class) /\ labels[a].review # "EXCLUDED"}

\* One row without a place, and no model is trained.
Trainable == \A a \in TrainingRows : Ground(Row[db.applications[a]]) # {}

\* The labels, had a been decided the other way.
Reversed(a) == [labels EXCEPT ![a].class = IF @ = "POSITIVE" THEN "NEGATIVE" ELSE "POSITIVE"]
===============================================================================
