------------------------------ MODULE Labels_proofs ------------------------------
(***************************************************************************)
(* Proofs about the labels in Evidence: what a reviewer said of a case     *)
(* stands through imports, reviews and rebuilds, as long as no commit of   *)
(* one rebuild falls into another.                                         *)
(***************************************************************************)
EXTENDS Registers_proofs

\* A rebuild that no other has fallen into has seen every application with a label, and the
\* rows it read are the rows there are.
RebuildStands(b) ==
  b.stage # "idle" =>
    /\ DOMAIN b.apps \subseteq DOMAIN db.applications
    /\ ~b.dirty => /\ DOMAIN labels \subseteq DOMAIN b.apps
                   /\ b.stage = "ready" => DOMAIN b.old = DOMAIN labels

HasReview(row) == "review" \in DOMAIN row

LabelsStand ==
  /\ DOMAIN labels \subseteq DOMAIN db.applications
  /\ \A a \in DOMAIN labels : HasReview(labels[a])

RInv ==
  /\ LabelsStand
  /\ DOMAIN rebuild = Rebuilders
  /\ \A p \in Rebuilders : /\ rebuild[p].stage \in {"idle", "read", "ready"}
                           /\ rebuild[p].stage # "idle" => "dirty" \in DOMAIN rebuild[p]
                           /\ RebuildStands(rebuild[p])
  /\ labelled.ever \in BOOLEAN
  /\ ReviewsStand

-------------------------------------------------------------------------------
(* The registers *)

\* An import takes no application away.
LEMMA ImportKeepsRows ==
  Import => DOMAIN db.applications \subseteq DOMAIN db'.applications
<1>1. ASSUME NEW d, NEW files
      PROVE  DOMAIN d.applications \subseteq DOMAIN Imported(d, files).applications
  <2>1. DOMAIN d.applications \subseteq DOMAIN Upserted(d.applications, files, "applications")
    BY DEF Upserted
  <2> QED
    BY <2>1 DEF Imported
<1>2. Import => \E files : db' = Imported(db, files)
  BY DEF Import, ImportPld, ImportRegister, ImportLayer, ImportAll
<1> QED
  BY <1>1, <1>2

\* A label computed afresh has a review.
LEMMA LabelHasReview ==
  ASSUME NEW row, NEW cases, NEW zones
  PROVE  HasReview(Label(row, cases, zones))
BY DEF HasReview, Label

-------------------------------------------------------------------------------
(* Every step keeps the invariant *)

LEMMA LabelsInitHolds == Init => RInv
BY DEF Init, DataInit, LabelsInit, RInv, LabelsStand, RebuildStands, Resting, ReviewsStand

LEMMA ImportKeeps == RInv /\ Import /\ UNCHANGED labelsVars => RInv'
BY ImportKeepsRows DEF labelsVars, RInv, LabelsStand, RebuildStands, ReviewsStand

LEMMA ReadApplicationsKeeps ==
  ASSUME RInv, NEW p \in Rebuilders, ReadApplications(p), UNCHANGED db
  PROVE  RInv'
BY DEF ReadApplications, RInv, LabelsStand, RebuildStands, ReviewsStand

LEMMA ReadLabelsKeeps ==
  ASSUME RInv, NEW p \in Rebuilders, ReadLabels(p), UNCHANGED db
  PROVE  RInv'
BY DEF ReadLabels, RInv, LabelsStand, RebuildStands, ReviewsStand

LEMMA AbortLabelsKeeps ==
  ASSUME RInv, NEW p \in Rebuilders, AbortLabels(p), UNCHANGED db
  PROVE  RInv'
BY DEF AbortLabels, RInv, LabelsStand, RebuildStands, ReviewsStand, Resting

\* A review changes one column of one row.
LEMMA ReviewKeeps ==
  ASSUME RInv, NEW a \in DOMAIN labels, NEW status, Review(a, status), UNCHANGED db
  PROVE  RInv'
<1>1. /\ labels' = [labels EXCEPT ![a].review = status]
      /\ given' = [x \in DOMAIN given \cup {a} |-> IF x = a THEN status ELSE given[x]]
      /\ UNCHANGED <<rebuild, labelled>>
  BY DEF Review
<1>2. DOMAIN labels' = DOMAIN labels /\ \A x \in DOMAIN labels \ {a} : labels'[x] = labels[x]
  BY <1>1
<1>3. labels'[a] = [labels[a] EXCEPT !.review = status]
  BY <1>1
<1>4. HasReview(labels'[a]) /\ labels'[a].review = status
  BY <1>3 DEF RInv, LabelsStand, HasReview
<1>5. LabelsStand'
  BY <1>2, <1>4 DEF RInv, LabelsStand
<1>6. ReviewsStand'
  BY <1>1, <1>2, <1>4 DEF RInv, ReviewsStand
<1> QED
  BY <1>1, <1>2, <1>5, <1>6 DEF RInv, RebuildStands

\* A rebuild leaves the reviews as they are by now: it does not write that column of a row
\* it has read, and removes no row that it has seen.
LEMMA CommitLabelsKeeps ==
  ASSUME RInv, NEW p \in Rebuilders, CommitLabels(p), UNCHANGED db
  PROVE  RInv'
<1> DEFINE b == rebuild[p]
           seen == DOMAIN b.apps
           fresh == LabelsOf(Columns(b.apps), db.zones)
           kept == seen \cap DOMAIN b.old
           changed == {a \in kept : Relabelled(b.old[a], fresh[a]) # b.old[a]}
           merged(a) == Merge(Relabelled(b.old[a], fresh[a]), b.old[a], labels[a])
           rows == (DOMAIN labels \ (DOMAIN b.old \ seen)) \cup (seen \ DOMAIN b.old)
<1>1. /\ b.stage = "ready" /\ changed \subseteq DOMAIN labels
      /\ (seen \ DOMAIN b.old) \cap DOMAIN labels = {}
      /\ labels' = [a \in rows |-> CASE a \in changed -> merged(a)
                                     [] a \in seen \ DOMAIN b.old -> fresh[a]
                                     [] OTHER -> labels[a]]
      /\ labelled'.ever = (labelled.ever \/ b.dirty)
      /\ rebuild' = [q \in Rebuilders |-> IF q = p \/ rebuild[q].stage = "idle" THEN Resting
                                          ELSE [rebuild[q] EXCEPT !.dirty = TRUE]]
      /\ given' = given
  BY DEF CommitLabels
<1>2. DOMAIN fresh = seen /\ \A a \in seen : HasReview(fresh[a])
  BY LabelHasReview DEF LabelsOf, Columns
<1>3. seen \subseteq DOMAIN db.applications
  BY <1>1 DEF RInv, RebuildStands
<1>4. ASSUME NEW a \in changed
      PROVE  HasReview(merged(a)) /\ merged(a).review = labels[a].review
  <2>1. Relabelled(b.old[a], fresh[a]).review = b.old[a].review
    BY <1>2 DEF Relabelled, HasReview
  <2>2. HasReview(labels[a])
    BY <1>1 DEF RInv, LabelsStand
  <2> QED
    BY <2>1, <2>2 DEF Merge, HasReview
<1> HIDE DEF fresh, merged
<1>5. DOMAIN labels' = rows
  BY <1>1
<1>6. \A a \in rows : /\ a \in changed => labels'[a] = merged(a)
                      /\ a \notin changed /\ a \in seen \ DOMAIN b.old => labels'[a] = fresh[a]
                      /\ a \notin changed /\ a \notin seen \ DOMAIN b.old => labels'[a] = labels[a]
  BY <1>1
<1> HIDE DEF changed
<1>7. LabelsStand'
  BY <1>2, <1>3, <1>4, <1>5, <1>6 DEF RInv, LabelsStand
<1>8. ReviewsStand'
  <2> SUFFICES ASSUME ~labelled'.ever, NEW a \in DOMAIN given
               PROVE  a \in DOMAIN labels' /\ labels'[a].review = given[a]
    BY <1>1 DEF ReviewsStand
  <2>1. ~labelled.ever /\ ~b.dirty
    BY <1>1
  <2>2. a \in DOMAIN labels /\ labels[a].review = given[a]
    BY <2>1 DEF RInv, ReviewsStand
  <2>3. DOMAIN labels \subseteq seen /\ DOMAIN b.old = DOMAIN labels
    BY <1>1, <2>1 DEF RInv, RebuildStands
  <2>4. a \in rows /\ a \notin seen \ DOMAIN b.old
    BY <2>2, <2>3
  <2> QED
    BY <1>4, <1>5, <1>6, <2>2, <2>4
<1>9. ASSUME NEW q \in Rebuilders
      PROVE  /\ rebuild'[q].stage \in {"idle", "read", "ready"}
             /\ rebuild'[q].stage # "idle" => "dirty" \in DOMAIN rebuild'[q]
             /\ RebuildStands(rebuild[q])'
  <2>1. CASE q = p \/ rebuild[q].stage = "idle"
    BY <1>1, <2>1 DEF Resting, RebuildStands
  <2>2. CASE q # p /\ rebuild[q].stage # "idle"
    <3>1. rebuild'[q] = [rebuild[q] EXCEPT !.dirty = TRUE]
      BY <1>1, <2>2
    <3>2. /\ rebuild'[q].stage = rebuild[q].stage /\ rebuild'[q].apps = rebuild[q].apps
          /\ rebuild'[q].dirty /\ "dirty" \in DOMAIN rebuild'[q]
      BY <2>2, <3>1 DEF RInv
    <3> QED
      BY <2>2, <3>2 DEF RInv, RebuildStands
  <2> QED
    BY <2>1, <2>2
<1>10. labelled'.ever \in BOOLEAN
  BY <1>1
<1>11. DOMAIN rebuild' = Rebuilders
  BY <1>1
<1> QED
  BY <1>7, <1>8, <1>9, <1>10, <1>11 DEF RInv

LEMMA LabelsNextKeeps == RInv /\ [Next]_vars => RInv'
<1> SUFFICES ASSUME RInv, [Next]_vars
             PROVE  RInv'
  OBVIOUS
<1>1. CASE Import /\ UNCHANGED labelsVars
  BY <1>1, ImportKeeps
<1>2. CASE UNCHANGED <<dataVars, labelsVars>>
  BY <1>2 DEF dataVars, labelsVars, RInv, LabelsStand, RebuildStands, ReviewsStand
<1>3. CASE (StartRebuild \/ ReviewCase \/ GoOnRebuilding) /\ UNCHANGED dataVars
  BY <1>3, ReadApplicationsKeeps, ReadLabelsKeeps, AbortLabelsKeeps, ReviewKeeps,
     CommitLabelsKeeps
     DEF StartRebuild, ReviewCase, GoOnRebuilding, dataVars
<1> QED
  BY <1>1, <1>2, <1>3 DEF Next, vars

-------------------------------------------------------------------------------
(* What follows from it *)

\* No import, review or rebuild loses what a reviewer said of a case, for any number of
\* rebuilders, unless two rebuilds overlap (rebuild_historical_case_labels).
THEOREM ReviewsAlwaysStand == Spec => []ReviewsStand
<1>1. RInv => ReviewsStand
  BY DEF RInv
<1> QED
  BY <1>1, LabelsInitHolds, LabelsNextKeeps, PTL DEF Spec

-------------------------------------------------------------------------------
(* What the label rows say *)

ComputedColumns == {"class", "template", "form", "borough", "valid", "decided", "zones"}
SameButReview(x, y) == \A c \in ComputedColumns : x[c] = y[c]

AreApplications(apps) == \A a \in DOMAIN apps : Row[apps[a]] \in Application
AreLabels(rows) == \A a \in DOMAIN rows : rows[a] \in LabelRow

\* After a rebuild that no other fell into, the rows are those computed from what it read,
\* apart from their reviews.
LabelsComputed ==
  ~labelled.mixed =>
    /\ DOMAIN labels = DOMAIN labelled.apps
    /\ \A a \in DOMAIN labels :
         SameButReview(labels[a], LabelsOf(Columns(labelled.apps), labelled.zones)[a])

LInv ==
  /\ AreLabels(labels) /\ LabelsComputed
  /\ labelled.mixed \in BOOLEAN
  /\ \A p \in Rebuilders :
       /\ rebuild[p].stage # "idle" =>
            AreApplications(rebuild[p].apps) /\ rebuild[p].dirty \in BOOLEAN
       /\ rebuild[p].stage = "ready" => AreLabels(rebuild[p].old)
       /\ rebuild[p].stage = "ready" /\ ~rebuild[p].dirty =>
            \A a \in DOMAIN labels : SameButReview(rebuild[p].old[a], labels[a])

\* The rows of the register are applications, and those of the layers are zones.
LEMMA RegisterRows ==
  ASSUME DInv
  PROVE  /\ AreApplications(db.applications)
         /\ \A r \in Range(db.zones) : Row[r] \in Zone
<1>1. ASSUME NEW a \in DOMAIN db.applications PROVE Row[db.applications[a]] \in Application
  <2>1. PICK f \in DOMAIN db.snapshots : /\ a \in DOMAIN File[f].applications
                                         /\ db.applications[a] = File[f].applications[a]
    BY DEF DInv, Kept
  <2>2. f \in Files
    BY DEF DInv, DataTypeOK
  <2> QED
    BY <2>1, <2>2, PlanningAssumption DEF RowsIn
<1>2. ASSUME NEW z \in DOMAIN db.zones PROVE Row[db.zones[z]] \in Zone
  <2>1. PICK f \in DOMAIN db.snapshots : /\ z \in DOMAIN File[f].zones
                                         /\ db.zones[z] = File[f].zones[z]
    BY DEF DInv, Kept
  <2>2. f \in Files
    BY DEF DInv, DataTypeOK
  <2> QED
    BY <2>1, <2>2, PlanningAssumption DEF RowsIn
<1> QED
  BY <1>1, <1>2 DEF AreApplications, Range

\* A label computed afresh has the type of a label.
LEMMA LabelTyped ==
  ASSUME NEW row \in Application, NEW cases, NEW zones, \A r \in Range(zones) : Row[r] \in Zone
  PROVE  Label(row, cases, zones) \in LabelRow
<1>1. Class(row, cases) \in Classes
  <2> DEFINE one == \/ Duplicate(row, cases) \/ ~Relevant(row) \/ Template(row) = NoTemplate
                    \/ row.decision = "WITHDRAWN"
             two == /\ ~Duplicate(row, cases) /\ Relevant(row) /\ Template(row) # NoTemplate
                    /\ row.decision \in {"APPROVED", "REFUSED"} /\ InWindow(row)
  <2>1. Class(row, cases) = CASE one -> "EXCLUDED"
                              [] two -> IF row.decision = "APPROVED" THEN "POSITIVE" ELSE "NEGATIVE"
                              [] OTHER -> "CENSORED"
    BY DEF Class
  <2> HIDE DEF one, two
  <2>2. one => ~two
    BY DEF one, two
  <2> QED
    BY <2>1, <2>2 DEF Classes
<1>2. Template(row) \in {NoTemplate, "resi_1_4_full", "resi_5_9_full", "resi_10_49_outline"}
  <2> DEFINE small == row.units \in 1 .. 4 /\ row.route = "FULL"
             middle == row.units \in 5 .. 9 /\ row.route = "FULL"
             large == row.units \in 10 .. 49 /\ row.route = "OUTLINE"
  <2>1. Template(row) = CASE small -> "resi_1_4_full"
                          [] middle -> "resi_5_9_full"
                          [] large -> "resi_10_49_outline"
                          [] OTHER -> "none"
    BY DEF Template, NoTemplate
  <2>2. ~(small /\ middle) /\ ~(small /\ large) /\ ~(middle /\ large)
    OBVIOUS
  <2> HIDE DEF small, middle, large
  <2> QED
    BY <2>1, <2>2 DEF NoTemplate
<1>3. /\ row.form \in STRING /\ row.borough \in Boroughs /\ row.valid \in Nat
      /\ row.decided \in Nat
  BY DEF Application
<1>4. {z.family : z \in {y \in Designations(Ground(row), zones) :
                           ActiveOn(y, ProfileDate(row))}} \in SUBSET STRING
  <2>1. \A y \in Designations(Ground(row), zones) : y.family \in STRING
    BY DEF Designations, Zone
  <2> QED
    BY <2>1
<1> QED
  BY <1>1, <1>2, <1>3, <1>4 DEF Label, LabelRow, Reviews

LEMMA FreshTyped ==
  ASSUME NEW apps, AreApplications(apps), NEW zones, \A r \in Range(zones) : Row[r] \in Zone
  PROVE  /\ DOMAIN LabelsOf(Columns(apps), zones) = DOMAIN apps
         /\ AreLabels(LabelsOf(Columns(apps), zones))
<1> DEFINE cases == CountedCases(Range(Columns(apps)))
           fresh == LabelsOf(Columns(apps), zones)
<1>1. /\ DOMAIN fresh = DOMAIN apps
      /\ \A a \in DOMAIN apps : fresh[a] = Label(Row[apps[a]], cases, zones)
  BY DEF LabelsOf, Columns
<1>2. \A a \in DOMAIN apps : Row[apps[a]] \in Application
  BY DEF AreApplications
<1> HIDE DEF cases, fresh
<1>3. \A a \in DOMAIN apps : fresh[a] \in LabelRow
  BY <1>1, <1>2, LabelTyped
<1> QED
  BY <1>1, <1>3 DEF AreLabels, fresh

\* A computed row and a merged one have the types of their columns.
LEMMA RelabelledIs ==
  ASSUME NEW old \in LabelRow, NEW new \in LabelRow
  PROVE  /\ Relabelled(old, new) \in LabelRow
         /\ SameButReview(Relabelled(old, new), new)
BY DEF LabelRow, Relabelled, SameButReview, ComputedColumns

LEMMA MergedIs ==
  ASSUME NEW want \in LabelRow, NEW seen \in LabelRow, NEW now \in LabelRow
  PROVE  /\ Merge(want, seen, now) \in LabelRow
         /\ SameButReview(seen, now) => SameButReview(Merge(want, seen, now), want)
<1> DEFINE m == Merge(want, seen, now)
           columns == ComputedColumns \cup {"review"}
<1>1. m = [c \in columns |-> IF want[c] # seen[c] THEN want[c] ELSE now[c]]
  <2>1. DOMAIN now = columns
    BY DEF LabelRow, ComputedColumns
  <2> QED
    BY <2>1 DEF Merge
<1>2. \A c \in columns : m[c] = IF want[c] # seen[c] THEN want[c] ELSE now[c]
  BY <1>1
<1>3. m = [class |-> m.class, template |-> m.template, form |-> m.form, borough |-> m.borough,
           valid |-> m.valid, decided |-> m.decided, zones |-> m.zones, review |-> m.review]
  BY <1>1 DEF ComputedColumns
<1>4. /\ m.class \in Classes /\ m.form \in STRING
      /\ m.borough \in Boroughs /\ m.valid \in Nat /\ m.decided \in Nat
      /\ m.zones \in SUBSET STRING /\ m.review \in Reviews
      /\ m.template \in {NoTemplate, "resi_1_4_full", "resi_5_9_full", "resi_10_49_outline"}
  <2> HIDE DEF m
  <2>1. /\ m.class \in {want.class, now.class} /\ m.template \in {want.template, now.template}
        /\ m.form \in {want.form, now.form} /\ m.borough \in {want.borough, now.borough}
        /\ m.valid \in {want.valid, now.valid} /\ m.decided \in {want.decided, now.decided}
        /\ m.zones \in {want.zones, now.zones} /\ m.review \in {want.review, now.review}
    BY <1>2 DEF ComputedColumns
  <2> QED
    BY <2>1 DEF LabelRow
<1>5. m \in LabelRow
  <2> HIDE DEF m
  <2> QED
    BY <1>3, <1>4 DEF LabelRow
<1>6. SameButReview(seen, now) => SameButReview(m, want)
  <2> HIDE DEF m
  <2> QED
    BY <1>2 DEF SameButReview
<1> QED
  BY <1>5, <1>6

\* What the commit of a rebuild does to the rows: each is merged, inserted or left alone.
LEMMA CommitLabelsDoes ==
  ASSUME NEW p \in Rebuilders, CommitLabels(p)
  PROVE  LET b == rebuild[p]
             fresh == LabelsOf(Columns(b.apps), db.zones)
             read == DOMAIN b.old
             seen == DOMAIN b.apps
         IN /\ b.stage = "ready"
            /\ DOMAIN labels' = (DOMAIN labels \ (read \ seen)) \cup (seen \ read)
            /\ \A a \in DOMAIN labels' :
                 \/ /\ a \in seen \cap read \cap DOMAIN labels
                    /\ labels'[a] = Merge(Relabelled(b.old[a], fresh[a]), b.old[a], labels[a])
                 \/ a \in seen \ read /\ labels'[a] = fresh[a]
                 \/ /\ a \in DOMAIN labels /\ labels'[a] = labels[a]
                    /\ a \notin seen \ read
                    /\ a \in seen \cap read => Relabelled(b.old[a], fresh[a]) = b.old[a]
            /\ labelled'.apps = b.apps /\ labelled'.zones = db.zones
            /\ labelled'.mixed = b.dirty
            /\ \A q \in Rebuilders :
                 \/ rebuild'[q] = Resting
                 \/ rebuild[q].stage # "idle" /\ rebuild'[q] = [rebuild[q] EXCEPT !.dirty = TRUE]
<1> DEFINE b == rebuild[p]
           fresh == LabelsOf(Columns(b.apps), db.zones)
           read == DOMAIN b.old
           seen == DOMAIN b.apps
           changed == {a \in seen \cap read : Relabelled(b.old[a], fresh[a]) # b.old[a]}
           merged(a) == Merge(Relabelled(b.old[a], fresh[a]), b.old[a], labels[a])
           rows == (DOMAIN labels \ (read \ seen)) \cup (seen \ read)
<1>1. /\ b.stage = "ready" /\ changed \subseteq DOMAIN labels
      /\ labels' = [a \in rows |-> CASE a \in changed -> merged(a)
                                     [] a \in seen \ read -> fresh[a]
                                     [] OTHER -> labels[a]]
      /\ labelled'.apps = b.apps /\ labelled'.zones = db.zones /\ labelled'.mixed = b.dirty
      /\ rebuild' = [q \in Rebuilders |-> IF q = p \/ rebuild[q].stage = "idle" THEN Resting
                                          ELSE [rebuild[q] EXCEPT !.dirty = TRUE]]
  BY DEF CommitLabels
<1>2. \A q \in Rebuilders :
        \/ rebuild'[q] = Resting
        \/ rebuild[q].stage # "idle" /\ rebuild'[q] = [rebuild[q] EXCEPT !.dirty = TRUE]
  BY <1>1
<1> HIDE DEF merged, fresh
<1>3. DOMAIN labels' = rows
  BY <1>1
<1>4. \A a \in rows : /\ a \in changed => labels'[a] = merged(a)
                      /\ a \notin changed /\ a \in seen \ read => labels'[a] = fresh[a]
                      /\ a \notin changed /\ a \notin seen \ read => labels'[a] = labels[a]
  BY <1>1
<1>5. \A a \in rows :
         \/ a \in seen \cap read \cap DOMAIN labels /\ labels'[a] = merged(a)
         \/ a \in seen \ read /\ labels'[a] = fresh[a]
         \/ /\ a \in DOMAIN labels /\ labels'[a] = labels[a] /\ a \notin seen \ read
            /\ a \in seen \cap read => Relabelled(b.old[a], fresh[a]) = b.old[a]
  BY <1>1, <1>4
<1> QED
  BY <1>1, <1>2, <1>3, <1>5 DEF merged, fresh

\* A rebuild leaves rows of their types, and alone it leaves those it computed.
LEMMA CommitLabelsComputes ==
  ASSUME DInv, RInv, LInv, NEW p \in Rebuilders, CommitLabels(p), UNCHANGED db
  PROVE  LInv'
<1> DEFINE b == rebuild[p]
           fresh == LabelsOf(Columns(b.apps), db.zones)
           read == DOMAIN b.old
           seen == DOMAIN b.apps
           want(a) == Relabelled(b.old[a], fresh[a])
<1>1. /\ b.stage = "ready"
      /\ DOMAIN labels' = (DOMAIN labels \ (read \ seen)) \cup (seen \ read)
      /\ \A a \in DOMAIN labels' :
           \/ /\ a \in seen \cap read \cap DOMAIN labels
              /\ labels'[a] = Merge(want(a), b.old[a], labels[a])
           \/ a \in seen \ read /\ labels'[a] = fresh[a]
           \/ /\ a \in DOMAIN labels /\ labels'[a] = labels[a] /\ a \notin seen \ read
              /\ a \in seen \cap read => want(a) = b.old[a]
      /\ labelled'.apps = b.apps /\ labelled'.zones = db.zones /\ labelled'.mixed = b.dirty
      /\ \A q \in Rebuilders :
           \/ rebuild'[q] = Resting
           \/ rebuild[q].stage # "idle" /\ rebuild'[q] = [rebuild[q] EXCEPT !.dirty = TRUE]
  BY CommitLabelsDoes
<1>2. DOMAIN fresh = seen /\ \A a \in seen : fresh[a] \in LabelRow
  BY <1>1, FreshTyped, RegisterRows DEF LInv, AreLabels
<1>3. /\ \A a \in read : b.old[a] \in LabelRow
      /\ \A a \in DOMAIN labels : labels[a] \in LabelRow
  BY <1>1 DEF LInv, AreLabels
<1> HIDE DEF fresh
<1>4. \A a \in seen \cap read : want(a) \in LabelRow /\ SameButReview(want(a), fresh[a])
  BY <1>2, <1>3, RelabelledIs
<1>5. \A a \in seen \cap read \cap DOMAIN labels :
        /\ Merge(want(a), b.old[a], labels[a]) \in LabelRow
        /\ SameButReview(b.old[a], labels[a]) =>
             SameButReview(Merge(want(a), b.old[a], labels[a]), want(a))
  BY <1>3, <1>4, MergedIs
<1> HIDE DEF want
<1>6. AreLabels(labels)'
  <2>1. \A a \in DOMAIN labels' : labels'[a] \in LabelRow
    BY <1>1, <1>2, <1>3, <1>5
  <2> QED
    BY <2>1 DEF AreLabels
<1>7. LabelsComputed'
  <2> SUFFICES ASSUME ~b.dirty
               PROVE  /\ DOMAIN labels' = seen
                      /\ \A a \in DOMAIN labels' : SameButReview(labels'[a], fresh[a])
    <3> HIDE DEF b, read, seen
    <3> QED
      BY <1>1 DEF LabelsComputed, fresh, seen
  <2>1. DOMAIN labels \subseteq seen /\ read = DOMAIN labels
    BY <1>1 DEF RInv, RebuildStands
  <2>2. DOMAIN labels' = seen
    BY <1>1, <2>1
  <2>3. \A a \in read : SameButReview(b.old[a], labels[a])
    BY <1>1, <2>1 DEF LInv
  <2>4. ASSUME NEW a \in DOMAIN labels'
        PROVE  SameButReview(labels'[a], fresh[a])
    <3>1. CASE a \in seen \cap read \cap DOMAIN labels /\ labels'[a] = Merge(want(a), b.old[a], labels[a])
      <4>1. /\ SameButReview(labels'[a], want(a))
            /\ SameButReview(want(a), fresh[a])
        BY <1>4, <1>5, <2>3, <3>1
      <4> QED
        BY <4>1 DEF SameButReview
    <3>2. CASE a \in seen \ read /\ labels'[a] = fresh[a]
      BY <3>2 DEF SameButReview
    <3>3. CASE /\ a \in DOMAIN labels /\ labels'[a] = labels[a] /\ a \notin seen \ read
               /\ a \in seen \cap read => want(a) = b.old[a]
      <4>1. /\ a \in seen \cap read /\ SameButReview(b.old[a], labels'[a])
            /\ SameButReview(want(a), fresh[a]) /\ want(a) = b.old[a]
        BY <1>4, <2>1, <2>3, <3>3
      <4> QED
        BY <4>1 DEF SameButReview
    <3> QED
      BY <1>1, <3>1, <3>2, <3>3
  <2> QED
    BY <2>2, <2>4
<1>8. labelled'.mixed \in BOOLEAN
  <2>1. b.dirty \in BOOLEAN
    BY <1>1 DEF LInv
  <2> QED
    BY <1>1, <2>1
<1>9. ASSUME NEW q \in Rebuilders
      PROVE  /\ rebuild'[q].stage # "idle" =>
                  AreApplications(rebuild'[q].apps) /\ rebuild'[q].dirty \in BOOLEAN
             /\ rebuild'[q].stage = "ready" => AreLabels(rebuild'[q].old)
             /\ rebuild'[q].stage = "ready" => rebuild'[q].dirty
  <2>1. CASE rebuild'[q] = Resting
    BY <2>1 DEF Resting
  <2>2. CASE rebuild[q].stage # "idle" /\ rebuild'[q] = [rebuild[q] EXCEPT !.dirty = TRUE]
    <3>1. "dirty" \in DOMAIN rebuild[q]
      BY <2>2 DEF RInv
    <3>2. /\ rebuild'[q].stage = rebuild[q].stage /\ rebuild'[q].apps = rebuild[q].apps
          /\ rebuild'[q].old = rebuild[q].old /\ rebuild'[q].dirty = TRUE
      BY <2>2, <3>1
    <3> QED
      BY <2>2, <3>2 DEF LInv
  <2> QED
    BY <1>1, <2>1, <2>2
<1> QED
  BY <1>6, <1>7, <1>8, <1>9 DEF LInv, AreApplications, AreLabels

LEMMA ReviewComputes ==
  ASSUME RInv, LInv, NEW a \in DOMAIN labels, NEW status \in Reviews, Review(a, status)
  PROVE  LInv'
<1>1. /\ labels' = [labels EXCEPT ![a].review = status]
      /\ UNCHANGED <<rebuild, labelled>>
  BY DEF Review
<1>2. DOMAIN labels' = DOMAIN labels /\ \A x \in DOMAIN labels \ {a} : labels'[x] = labels[x]
  BY <1>1
<1>3. labels[a] \in LabelRow
  BY DEF LInv, AreLabels
<1>4. labels'[a] = [labels[a] EXCEPT !.review = status]
  BY <1>1
<1>5. labels'[a] \in LabelRow /\ SameButReview(labels[a], labels'[a])
  BY <1>3, <1>4 DEF LabelRow, SameButReview, ComputedColumns
<1>6. \A x \in DOMAIN labels : labels'[x] \in LabelRow /\ SameButReview(labels[x], labels'[x])
  BY <1>2, <1>5 DEF LInv, AreLabels, SameButReview
<1>7. AreLabels(labels)'
  BY <1>2, <1>6 DEF AreLabels
<1>8. LabelsComputed'
  <2> SUFFICES ASSUME ~labelled.mixed
               PROVE  /\ DOMAIN labels' = DOMAIN labelled.apps
                      /\ \A x \in DOMAIN labels' :
                           SameButReview(labels'[x], LabelsOf(Columns(labelled.apps), labelled.zones)[x])
    BY <1>1 DEF LabelsComputed
  <2>1. /\ DOMAIN labels = DOMAIN labelled.apps
        /\ \A x \in DOMAIN labels :
             SameButReview(labels[x], LabelsOf(Columns(labelled.apps), labelled.zones)[x])
    BY DEF LInv, LabelsComputed
  <2> QED
    BY <1>2, <1>6, <2>1 DEF SameButReview
<1>9. \A q \in Rebuilders :
        rebuild[q].stage = "ready" /\ ~rebuild[q].dirty =>
          \A x \in DOMAIN labels' : SameButReview(rebuild[q].old[x], labels'[x])
  BY <1>2, <1>6 DEF LInv, SameButReview
<1> QED
  BY <1>1, <1>7, <1>8, <1>9 DEF LInv

LEMMA RebuildStepComputes ==
  ASSUME DInv, RInv, LInv, NEW p \in Rebuilders, UNCHANGED db,
         ReadApplications(p) \/ ReadLabels(p) \/ AbortLabels(p)
  PROVE  LInv'
<1>1. /\ labels' = labels /\ labelled' = labelled
      /\ \/ rebuild' = [rebuild EXCEPT ![p] = Resting]
         \/ rebuild' = [rebuild EXCEPT ![p] =
                         [stage |-> "read", apps |-> db.applications, dirty |-> FALSE]]
         \/ /\ rebuild[p].stage = "read"
            /\ rebuild' = [rebuild EXCEPT ![p] =
                            [stage |-> "ready", apps |-> rebuild[p].apps, old |-> labels,
                             dirty |-> rebuild[p].dirty]]
  BY DEF ReadApplications, ReadLabels, AbortLabels
<1>2. AreApplications(db.applications)
  BY RegisterRows
<1>3. \A a \in DOMAIN labels : SameButReview(labels[a], labels[a])
  BY DEF SameButReview
<1>4. \A q \in Rebuilders \ {p} : rebuild'[q] = rebuild[q]
  BY <1>1 DEF RInv
<1>5. \/ rebuild'[p] = Resting
      \/ rebuild'[p] = [stage |-> "read", apps |-> db.applications, dirty |-> FALSE]
      \/ /\ rebuild[p].stage = "read"
         /\ rebuild'[p] = [stage |-> "ready", apps |-> rebuild[p].apps, old |-> labels,
                           dirty |-> rebuild[p].dirty]
  BY <1>1 DEF RInv
<1>6. /\ rebuild'[p].stage # "idle" =>
           AreApplications(rebuild'[p].apps) /\ rebuild'[p].dirty \in BOOLEAN
      /\ rebuild'[p].stage = "ready" => rebuild'[p].old = labels
  <2>1. CASE rebuild'[p] = Resting
    BY <2>1 DEF Resting
  <2>2. CASE rebuild'[p] = [stage |-> "read", apps |-> db.applications, dirty |-> FALSE]
    BY <1>2, <2>2
  <2>3. CASE /\ rebuild[p].stage = "read"
             /\ rebuild'[p] = [stage |-> "ready", apps |-> rebuild[p].apps, old |-> labels,
                               dirty |-> rebuild[p].dirty]
    <3>1. AreApplications(rebuild[p].apps) /\ rebuild[p].dirty \in BOOLEAN
      BY <2>3 DEF LInv
    <3> QED
      BY <2>3, <3>1
  <2> QED
    BY <1>5, <2>1, <2>2, <2>3
<1>7. AreLabels(labels) /\ LabelsComputed'
  BY <1>1 DEF LInv, LabelsComputed
<1> QED
  BY <1>1, <1>3, <1>4, <1>6, <1>7 DEF LInv, AreApplications, AreLabels

LEMMA LabelsInitComputed == Init => LInv
BY DEF Init, DataInit, LabelsInit, LInv, AreLabels, LabelsComputed, Resting

LEMMA OthersCompute == LInv /\ UNCHANGED labelsVars => LInv'
BY DEF labelsVars, LInv, AreLabels, LabelsComputed, AreApplications

LEMMA LabelsNextComputes == DInv /\ RInv /\ LInv /\ [Next]_vars => LInv'
<1> SUFFICES ASSUME DInv, RInv, LInv, [Next]_vars
             PROVE  LInv'
  OBVIOUS
<1>1. CASE UNCHANGED labelsVars
  BY <1>1, OthersCompute
<1>2. CASE (StartRebuild \/ ReviewCase \/ GoOnRebuilding) /\ UNCHANGED dataVars
  <2>1. db' = db
    BY <1>2 DEF dataVars
  <2> QED
    BY <1>2, <2>1, RebuildStepComputes, ReviewComputes, CommitLabelsComputes
       DEF StartRebuild, ReviewCase, GoOnRebuilding
<1> QED
  BY <1>1, <1>2 DEF Next, vars

\* The registers keep their rows, the reviews stand, and the label rows are those computed from
\* what the last rebuild read, whatever imports, reviews and rebuilds there are
\* (rebuild_historical_case_labels).
THEOREM LabelsInvariant == Spec => [](DInv /\ RInv /\ LInv)
<1>1. Init => DInv /\ RInv /\ LInv
  BY DataInitHolds, LabelsInitHolds, LabelsInitComputed
<1>2. DInv /\ RInv /\ LInv /\ [Next]_vars => (DInv /\ RInv /\ LInv)'
  BY DataNextKeeps, LabelsNextKeeps, LabelsNextComputes
<1> QED
  BY <1>1, <1>2, PTL DEF Spec

-------------------------------------------------------------------------------
(* What the features of a case depend on *)

Sides == {"POSITIVE", "NEGATIVE"}

\* Two tables of labels give the same outcomes by a date.
SameOutcomes(one, two, date) ==
  \A c \in Sides :
    /\ \A apps : Outcomes(apps, one, c, date) = Outcomes(apps, two, c, date)
    /\ Outcomes(DOMAIN one, one, c, date) = Outcomes(DOMAIN two, two, c, date)
    /\ \A a \in Outcomes(DOMAIN one, one, c, date) : /\ one[a].template = two[a].template
                                                     /\ one[a].borough = two[a].borough

\* Two registers know of the same applications by a date, in the same places.
SameGround(one, two, date) ==
  /\ \A a \in DOMAIN one : KnownBy(one[a], date) =>
       a \in DOMAIN two /\ KnownBy(two[a], date) /\ Ground(two[a]) = Ground(one[a])
  /\ \A a \in DOMAIN two : KnownBy(two[a], date) =>
       a \in DOMAIN one /\ KnownBy(one[a], date) /\ Ground(two[a]) = Ground(one[a])

LEMMA OnSiteAgrees ==
  ASSUME NEW case, NEW date, NEW one, NEW two, SameOutcomes(one, two, date)
  PROVE  OnSite(case, date, one) = OnSite(case, date, two)
<1> DEFINE known == Known(case, date)
           outcome(table, c) == {l \in known : l.id \in Outcomes(Refs(known), table, c, date)}
<1>1. \A c \in Sides : outcome(one, c) = outcome(two, c)
  BY DEF SameOutcomes
<1>2. [c \in {"POSITIVE", "NEGATIVE"} |-> Cardinality(outcome(one, c))]
        = [c \in {"POSITIVE", "NEGATIVE"} |-> Cardinality(outcome(two, c))]
  <2> HIDE DEF outcome
  <2> QED
    BY <1>1 DEF Sides
<1>3. [c \in {"POSITIVE", "NEGATIVE"} |-> Max({0} \cup {l.frozen.units : l \in outcome(one, c)})]
        = [c \in {"POSITIVE", "NEGATIVE"} |-> Max({0} \cup {l.frozen.units : l \in outcome(two, c)})]
  <2> DEFINE most(S) == Max({0} \cup {l.frozen.units : l \in S})
  <2> HIDE DEF outcome, most
  <2>1. [c \in {"POSITIVE", "NEGATIVE"} |-> most(outcome(one, c))]
          = [c \in {"POSITIVE", "NEGATIVE"} |-> most(outcome(two, c))]
    BY <1>1 DEF Sides
  <2> QED
    BY <2>1 DEF most
<1> QED
  BY <1>2, <1>3, Zenon DEF OnSite

LEMMA NearbyAgrees ==
  ASSUME NEW case, NEW date, NEW rows, NEW past, NEW one, NEW two,
         SameOutcomes(one, two, date), SameGround(rows, past, date)
  PROVE  Nearby(case, date, rows, one) = Nearby(case, date, past, two)
<1> DEFINE around(table, least, most) ==
             {a \in DOMAIN table \ Refs(case.links) :
                /\ KnownBy(table[a], date)
                /\ Near(case.cells, Ground(table[a]), most)
                /\ ~Near(case.cells, Ground(table[a]), least - 1)}
           same(table, apps) == {a \in Outcomes(apps, table, "POSITIVE", date) :
                                   table[a].template = case.template}
<1>1. ASSUME NEW least, NEW most
      PROVE  around(rows, least, most) = around(past, least, most)
  BY DEF SameGround
<1>2. \A apps : \A c \in Sides : Outcomes(apps, one, c, date) = Outcomes(apps, two, c, date)
  BY DEF SameOutcomes
<1>3. ASSUME NEW apps
      PROVE  same(one, apps) = same(two, apps)
  <2>1. Outcomes(apps, one, "POSITIVE", date) = Outcomes(apps, two, "POSITIVE", date)
    BY <1>2 DEF Sides
  <2>2. \A a \in Outcomes(apps, one, "POSITIVE", date) : one[a].template = two[a].template
    <3>1. \A a \in Outcomes(apps, one, "POSITIVE", date) :
             a \in Outcomes(DOMAIN one, one, "POSITIVE", date)
      BY DEF Outcomes
    <3> QED
      BY <3>1 DEF SameOutcomes, Sides
  <2> QED
    BY <2>1, <2>2
<1> HIDE DEF around, same
<1> DEFINE counts(table, register, w) ==
             [c \in {"POSITIVE", "NEGATIVE"} |->
                Cardinality(Outcomes(around(register, w[1], w[2]), table, c, date))]
<1>4. [w \in Windows |-> counts(one, rows, w)] = [w \in Windows |-> counts(two, past, w)]
  <2>1. ASSUME NEW w \in Windows PROVE counts(one, rows, w) = counts(two, past, w)
    <3>1. \A c \in {"POSITIVE", "NEGATIVE"} :
            Outcomes(around(rows, w[1], w[2]), one, c, date)
              = Outcomes(around(past, w[1], w[2]), two, c, date)
      BY <1>1, <1>2 DEF Sides
    <3> QED
      BY <3>1
  <2> HIDE DEF counts
  <2> QED
    BY <2>1
<1>5. same(one, around(rows, 0, 500)) = same(two, around(past, 0, 500))
  BY <1>1, <1>3
<1> QED
  BY <1>4, <1>5, Zenon DEF Nearby, around, same

LEMMA InBoroughAgrees ==
  ASSUME NEW case, NEW date, NEW one, NEW two, SameOutcomes(one, two, date)
  PROVE  InBorough(case, date, one) = InBorough(case, date, two)
<1> DEFINE here(table, c) == {a \in Outcomes(DOMAIN table, table, c, date) :
                                table[a].template = case.template /\ table[a].borough = case.borough}
<1>1. \A c \in Sides : here(one, c) = here(two, c)
  BY DEF SameOutcomes
<1>2. [c \in {"POSITIVE", "NEGATIVE"} |-> Cardinality(here(one, c))]
        = [c \in {"POSITIVE", "NEGATIVE"} |-> Cardinality(here(two, c))]
  <2> HIDE DEF here
  <2> QED
    BY <1>1 DEF Sides
<1> QED
  BY <1>2 DEF InBorough

LEMMA FeaturesAgree ==
  ASSUME NEW case, NEW date, NEW rows, NEW past, NEW one, NEW two,
         SameOutcomes(one, two, date), SameGround(rows, past, date)
  PROVE  Features(case, date, rows, one) = Features(case, date, past, two)
BY OnSiteAgrees, NearbyAgrees, InBoroughAgrees DEF Features

-------------------------------------------------------------------------------
(* The classes of the cases *)

\* A class depends on the cases that count only through whether there is a stronger one
\* that is the same case.
LEMMA ClassByDuplicate ==
  ASSUME NEW row, NEW one, NEW two, Duplicate(row, one) <=> Duplicate(row, two)
  PROVE  Class(row, one) = Class(row, two)
<1>1. CASE Duplicate(row, one)
  BY <1>1 DEF Class
<1>2. CASE ~Duplicate(row, one)
  BY <1>2 DEF Class
<1> QED
  BY <1>1, <1>2

\* A case that counts is decided, and no twin of a case that counts.
LEMMA CountsIs ==
  ASSUME NEW row, NEW cases, Counts(Class(row, cases))
  PROVE  /\ ~Duplicate(row, cases)
         /\ row.decision \in {"APPROVED", "REFUSED"}
         /\ row.decided # NoDate
BY DEF Counts, Class, InWindow

\* The stronger of the two sources counts for what it says itself.
LEMMA StrongerCounts ==
  ASSUME NEW rows, NEW s, s.priority = 100
  PROVE  s \in CountedCases(rows) <=> s \in rows /\ Counts(Class(s, {}))
BY DEF CountedCases

LEMMA NoneAboveStrongest ==
  ASSUME NEW row, NEW cases, row.priority = 100, \A s \in cases : s.priority \in {50, 100}
  PROVE  ~Duplicate(row, cases)
BY DEF Duplicate

LEMMA LabelColumns ==
  ASSUME NEW row, NEW cases, NEW zones
  PROVE  LET label == Label(row, cases, zones)
         IN /\ label.class = Class(row, cases) /\ label.template = Template(row)
            /\ label.borough = row.borough /\ label.decided = row.decided
BY DEF Label

\* The labels that are fresh are those of the register as it is.
LEMMA FreshIs ==
  ASSUME RInv, LInv, LabelsFresh
  PROVE  LET rows == Columns(db.applications)
             cases == CountedCases(Range(rows))
         IN /\ DOMAIN labels = DOMAIN rows
            /\ \A a \in DOMAIN labels :
                 /\ rows[a] = Row[db.applications[a]] /\ rows[a] \in Range(rows)
                 /\ labels[a].class = Class(rows[a], cases)
                 /\ labels[a].template = Template(rows[a])
                 /\ labels[a].borough = rows[a].borough
                 /\ labels[a].decided = rows[a].decided
<1> DEFINE rows == Columns(db.applications)
           cases == CountedCases(Range(rows))
           fresh == LabelsOf(rows, db.zones)
<1>1. DOMAIN rows = DOMAIN db.applications /\ \A a \in DOMAIN rows : rows[a] = Row[db.applications[a]]
  BY DEF Columns
<1>2. DOMAIN labels = DOMAIN rows /\ \A a \in DOMAIN labels : SameButReview(labels[a], fresh[a])
  BY <1>1 DEF LInv, LabelsComputed, LabelsFresh
<1>3. \A a \in DOMAIN rows : rows[a] \in Range(rows)
  BY DEF Range
<1>4. \A a \in DOMAIN rows : fresh[a] = Label(rows[a], cases, db.zones)
  BY DEF LabelsOf
<1> HIDE DEF rows, cases, fresh
<1>5. \A a \in DOMAIN rows : /\ fresh[a].class = Class(rows[a], cases)
                             /\ fresh[a].template = Template(rows[a])
                             /\ fresh[a].borough = rows[a].borough
                             /\ fresh[a].decided = rows[a].decided
  BY <1>4, LabelColumns
<1>6. \A a \in DOMAIN labels : /\ labels[a].class = fresh[a].class
                               /\ labels[a].template = fresh[a].template
                               /\ labels[a].borough = fresh[a].borough
                               /\ labels[a].decided = fresh[a].decided
  BY <1>2 DEF SameButReview, ComputedColumns
<1> QED
  BY <1>1, <1>2, <1>3, <1>5, <1>6 DEF rows, cases

\* A case that two registers report counts once, for any registers and however imports,
\* rebuilds and reviews interleave, as soon as a rebuild has read the register as it is
\* (rebuild_historical_case_labels).
THEOREM CasesCountOnce == Spec => []CountedOnce
<1>1. DInv /\ RInv /\ LInv => CountedOnce
  <2> DEFINE rows == Columns(db.applications)
             cases == CountedCases(Range(rows))
  <2> SUFFICES ASSUME DInv, RInv, LInv, LabelsFresh, NEW a \in DOMAIN labels, NEW b \in DOMAIN labels,
                      Row[db.applications[a]].priority < Row[db.applications[b]].priority,
                      SameCase(Row[db.applications[a]], Row[db.applications[b]]),
                      Counts(labels[a].class), Counts(labels[b].class)
               PROVE  FALSE
    BY DEF CountedOnce
  <2>1. /\ DOMAIN labels = DOMAIN rows
        /\ \A x \in DOMAIN labels : /\ rows[x] = Row[db.applications[x]] /\ rows[x] \in Range(rows)
                                    /\ labels[x].class = Class(rows[x], cases)
    BY FreshIs
  <2>2. \A s \in Range(rows) : s.priority \in {50, 100}
    <3>1. \A x \in DOMAIN db.applications : Row[db.applications[x]] \in Application
      BY RegisterRows DEF AreApplications
    <3>2. \A s \in Range(rows) : s \in Application
      BY <3>1 DEF Range, Columns
    <3> QED
      BY <3>2 DEF Application
  <2>3. cases \subseteq Range(rows)
    BY DEF CountedCases
  <2> HIDE DEF rows, cases
  <2>4. rows[a].priority < rows[b].priority /\ SameCase(rows[a], rows[b])
    BY <2>1
  <2>5. rows[b].priority = 100
    BY <2>1, <2>2, <2>4
  <2>6. Class(rows[b], cases) = Class(rows[b], {})
    <3>1. ~Duplicate(rows[b], cases) /\ ~Duplicate(rows[b], {})
      BY <2>2, <2>3, <2>5, NoneAboveStrongest
    <3> QED
      BY <3>1, ClassByDuplicate
  <2>7. rows[b] \in cases
    BY <2>1, <2>5, <2>6, StrongerCounts DEF cases
  <2>8. Duplicate(rows[a], cases)
    BY <2>4, <2>7 DEF Duplicate
  <2> QED
    BY <2>1, <2>8, CountsIs
<1> QED
  BY <1>1, LabelsInvariant, PTL

\* A training row does not know its own outcome, whatever the registers hold and whenever
\* imports and rebuilds happen, unless it was decided on the day it was validated
\* (build_feature_snapshot, build_historical_feature_snapshot of features/build.py).
THEOREM TrainingNeverLooks == Spec => []TrainingIsBlind
<1>1. DInv /\ RInv /\ LInv => TrainingIsBlind
  <2> SUFFICES ASSUME DInv, RInv, LInv, NEW a \in TrainingRows, labels[a].decided > PastDate(a)
               PROVE  Features(PastCase(a), PastDate(a), Columns(db.applications), labels)
                        = Features(PastCase(a), PastDate(a), Columns(db.applications), Reversed(a))
    BY DEF TrainingIsBlind
  <2> DEFINE date == PastDate(a)
             turned == Reversed(a)
             rows == Columns(db.applications)
  <2>1. a \in DOMAIN labels /\ \A x \in DOMAIN labels : labels[x] \in LabelRow
    BY DEF LInv, AreLabels, TrainingRows
  <2>2. /\ DOMAIN turned = DOMAIN labels
        /\ \A x \in DOMAIN labels \ {a} : turned[x] = labels[x]
        /\ turned[a].decided = labels[a].decided
    BY <2>1 DEF Reversed, LabelRow
  <2> HIDE DEF date, turned
  <2>3. ~DecidedBy(labels[a], date) /\ ~DecidedBy(turned[a], date)
    <3>1. labels[a].decided \in Nat /\ labels[a].valid \in Nat
      BY <2>1 DEF LabelRow
    <3>2. Row[db.applications[a]] \in Application
      BY <2>1, RegisterRows DEF RInv, LabelsStand, AreApplications
    <3>3. date \in Nat
      <4>1. Row[db.applications[a]].valid \in Nat /\ Row[db.applications[a]].decided \in Nat
        BY <3>2 DEF Application
      <4> QED
        BY <3>1, <4>1 DEF PastDate, date
    <3>4. labels[a].decided > date
      BY DEF date
    <3>5. ~(labels[a].decided <= date)
      BY <3>1, <3>3, <3>4
    <3> QED
      BY <2>2, <3>5 DEF DecidedBy
  <2>4. \A apps, c : Outcomes(apps, labels, c, date) = Outcomes(apps, turned, c, date)
    BY <2>2, <2>3 DEF Outcomes
  <2>5. \A c : \A x \in Outcomes(DOMAIN labels, labels, c, date) : turned[x] = labels[x]
    BY <2>2, <2>3 DEF Outcomes
  <2>6. SameOutcomes(labels, turned, date)
    BY <2>2, <2>4, <2>5 DEF SameOutcomes
  <2>7. SameGround(rows, rows, date)
    BY DEF SameGround
  <2> QED
    BY <2>6, <2>7, FeaturesAgree DEF date, turned
<1> QED
  BY <1>1, LabelsInvariant, PTL

-------------------------------------------------------------------------------
(* Features without hindsight *)

\* No register dates a decision before the case was validated.  The code does not check it.
DecidedOnceValid ==
  \A f \in Files : \A a \in DOMAIN File[f].applications :
    LET row == Row[File[f].applications[a]]
    IN row.decided # NoDate => row.valid <= row.decided

\* The registers as they stood: the later cases are gone, the later decisions are open, and
\* the rest is as it is.
LEMMA PastIs ==
  ASSUME NEW date
  PROVE  LET rows == Columns(db.applications)
             past == AsOf(date)
         IN /\ DOMAIN past = {a \in DOMAIN rows : KnownBy(rows[a], date)}
            /\ \A a \in DOMAIN past :
                 \/ ~(rows[a].decided > date) /\ past[a] = rows[a]
                 \/ /\ rows[a].decided > date
                    /\ past[a] = [rows[a] EXCEPT !.decided = NoDate, !.decision = "PENDING"]
BY DEF AsOf

LEMMA PastColumns ==
  ASSUME DInv, NEW date
  PROVE  LET rows == Columns(db.applications)
             past == AsOf(date)
         IN \A a \in DOMAIN past :
              /\ past[a].valid = rows[a].valid /\ Ground(past[a]) = Ground(rows[a])
              /\ past[a].decision \in {"APPROVED", "REFUSED"} => past[a] = rows[a]
<1> DEFINE rows == Columns(db.applications)
           past == AsOf(date)
<1>1. \A a \in DOMAIN rows : rows[a] \in Application
  BY RegisterRows DEF AreApplications, Columns
<1>2. /\ DOMAIN past = {a \in DOMAIN rows : KnownBy(rows[a], date)}
      /\ \A a \in DOMAIN past :
           \/ past[a] = rows[a]
           \/ past[a] = [rows[a] EXCEPT !.decided = NoDate, !.decision = "PENDING"]
  BY PastIs
<1> HIDE DEF rows, past
<1>3. ASSUME NEW row \in Application
      PROVE  LET open == [row EXCEPT !.decided = NoDate, !.decision = "PENDING"]
             IN /\ open.valid = row.valid /\ open.area = row.area /\ open.point = row.point
                /\ open.decision = "PENDING"
  BY DEF Application
<1>4. \A a \in DOMAIN past :
        /\ past[a].valid = rows[a].valid /\ past[a].area = rows[a].area
        /\ past[a].point = rows[a].point
        /\ past[a] = rows[a] \/ past[a].decision = "PENDING"
  <2> TAKE a \in DOMAIN past
  <2>1. rows[a] \in Application
    BY <1>1, <1>2
  <2>2. CASE past[a] = rows[a]
    BY <2>2
  <2>3. CASE past[a] = [rows[a] EXCEPT !.decided = NoDate, !.decision = "PENDING"]
    BY <1>3, <2>1, <2>3
  <2> QED
    BY <1>2, <2>2, <2>3
<1>5. \A a \in DOMAIN past : Ground(past[a]) = Ground(rows[a])
  BY <1>4 DEF Ground
<1> QED
  BY <1>4, <1>5 DEF rows, past

\* A case decided by the date has a stronger twin that counts as the registers are exactly
\* when it had one as they stood, unless a twin came or was decided later.
LEMMA SameTwins ==
  ASSUME DInv, NEW date \in Nat, ~LaterTwin(date),
         NEW a \in DOMAIN db.applications, DecidedBy(Row[db.applications[a]], date)
  PROVE  LET row == Row[db.applications[a]]
         IN Duplicate(row, CountedCases(Range(Columns(db.applications))))
              <=> Duplicate(row, CountedCases(Range(AsOf(date))))
<1> DEFINE rows == Columns(db.applications)
           past == AsOf(date)
           now == CountedCases(Range(rows))
           then == CountedCases(Range(past))
           row == Row[db.applications[a]]
<1>1. \A x \in DOMAIN rows : rows[x] \in Application
  BY RegisterRows DEF AreApplications, Columns
<1>2. a \in DOMAIN rows /\ rows[a] = row
  BY DEF Columns
<1>3. /\ DOMAIN past = {x \in DOMAIN rows : KnownBy(rows[x], date)}
      /\ \A x \in DOMAIN past : ~(rows[x].decided > date) => past[x] = rows[x]
  BY PastIs
<1>4. \A x \in DOMAIN past : past[x].decision \in {"APPROVED", "REFUSED"} => past[x] = rows[x]
  BY PastColumns
<1>5. \A s \in Range(rows) :
        row.priority < s.priority /\ SameCase(row, s) => ~(s.valid > date) /\ ~(s.decided > date)
  BY <1>2 DEF LaterTwin, Range
<1>6. /\ now \subseteq Range(rows) /\ then \subseteq Range(past)
      /\ \A s \in now \cup then : Counts(Class(s, {})) \/ s.priority = 50
  BY DEF CountedCases
<1>7. \A s : s.priority = 100 => /\ s \in now <=> s \in Range(rows) /\ Counts(Class(s, {}))
                                 /\ s \in then <=> s \in Range(past) /\ Counts(Class(s, {}))
  BY StrongerCounts
<1> HIDE DEF rows, past, now, then
<1>8. ASSUME NEW s \in now, s.priority > row.priority, SameCase(row, s)
      PROVE  s \in then
  <2>1. PICK x \in DOMAIN rows : s = rows[x]
    BY <1>6, <1>8 DEF Range
  <2>2. s.priority = 100 /\ s.valid \in Nat /\ s.decided \in Nat
    <3>1. s \in Application /\ row \in Application
      BY <1>1, <1>2, <2>1
    <3>2. /\ s.priority \in {50, 100} /\ row.priority \in {50, 100}
          /\ s.valid \in Nat /\ s.decided \in Nat
      BY <3>1 DEF Application
    <3> QED
      BY <1>8, <3>2
  <2>3. s \in Range(rows) /\ row.priority < s.priority
    BY <1>1, <1>2, <1>6, <1>8, <2>1 DEF Application
  <2>4. s.valid <= date /\ ~(s.decided > date)
    BY <1>5, <1>8, <2>2, <2>3
  <2>5. x \in DOMAIN past /\ past[x] = s
    BY <1>3, <2>1, <2>4 DEF KnownBy
  <2>6. s \in Range(past)
    BY <2>5 DEF Range
  <2> QED
    BY <1>7, <1>8, <2>2, <2>6
<1>9. ASSUME NEW s \in then, s.priority > row.priority
      PROVE  s \in now
  <2>1. PICK x \in DOMAIN past : s = past[x]
    BY <1>6, <1>9 DEF Range
  <2>2. x \in DOMAIN rows /\ rows[x] \in Application /\ row \in Application
    BY <1>1, <1>2, <1>3
  <2>3. row.priority \in {50, 100} /\ rows[x].priority \in {50, 100}
    BY <2>2 DEF Application
  <2>4. s.priority = rows[x].priority
    <3>1. \/ past[x] = rows[x]
          \/ past[x] = [rows[x] EXCEPT !.decided = NoDate, !.decision = "PENDING"]
      BY PastIs DEF rows, past
    <3> QED
      BY <2>1, <2>2, <3>1 DEF Application
  <2>5. s.priority = 100
    BY <1>9, <2>3, <2>4
  <2>6. Counts(Class(s, {}))
    BY <1>7, <1>9, <2>5
  <2>7. s = rows[x]
    BY <1>4, <2>1, <2>6, CountsIs
  <2>8. s \in Range(rows)
    BY <2>2, <2>7 DEF Range
  <2> QED
    BY <1>7, <2>5, <2>6, <2>8
<1>10. Duplicate(row, now) <=> Duplicate(row, then)
  BY <1>8, <1>9 DEF Duplicate
<1> QED
  BY <1>10 DEF rows, past, now, then

\* The labels give the outcomes by a date that they would have given on it.
LEMMA OutcomesWithoutHindsight ==
  ASSUME DInv, RInv, LInv, DecidedOnceValid, LabelsFresh, NEW date \in Nat, ~LaterTwin(date)
  PROVE  SameOutcomes(labels, LabelsOf(AsOf(date), db.zones), date)
<1> DEFINE rows == Columns(db.applications)
           past == AsOf(date)
           now == CountedCases(Range(rows))
           then == CountedCases(Range(past))
           table == LabelsOf(past, db.zones)
<1>1. /\ DOMAIN labels = DOMAIN rows
      /\ \A a \in DOMAIN labels :
           /\ rows[a] = Row[db.applications[a]]
           /\ labels[a].class = Class(rows[a], now) /\ labels[a].template = Template(rows[a])
           /\ labels[a].borough = rows[a].borough /\ labels[a].decided = rows[a].decided
  BY FreshIs
<1>2. /\ DOMAIN table = DOMAIN past
      /\ \A a \in DOMAIN past : table[a] = Label(past[a], then, db.zones)
  BY DEF LabelsOf
<1>3. /\ DOMAIN past = {a \in DOMAIN rows : KnownBy(rows[a], date)}
      /\ \A a \in DOMAIN past : ~(rows[a].decided > date) => past[a] = rows[a]
  BY PastIs
<1>4. \A a \in DOMAIN past : past[a].decision \in {"APPROVED", "REFUSED"} => past[a] = rows[a]
  BY PastColumns
<1>5. DOMAIN rows = DOMAIN db.applications
  BY DEF Columns
<1>6. \A a \in DOMAIN rows : DecidedBy(rows[a], date) => (Duplicate(rows[a], now) <=> Duplicate(rows[a], then))
  BY <1>1, <1>5, SameTwins
<1>7. \A a \in DOMAIN rows : /\ rows[a].decided \in Nat /\ rows[a].valid \in Nat
                             /\ rows[a].decided # NoDate => rows[a].valid <= rows[a].decided
  <2> TAKE a \in DOMAIN rows
  <2>1. rows[a] = Row[db.applications[a]] /\ rows[a] \in Application
    BY <1>5, RegisterRows DEF AreApplications, Columns
  <2>2. PICK f \in DOMAIN db.snapshots : /\ a \in DOMAIN File[f].applications
                                         /\ db.applications[a] = File[f].applications[a]
    BY <1>5 DEF DInv, Kept
  <2>3. f \in Files
    BY DEF DInv, DataTypeOK
  <2>4. Row[File[f].applications[a]].decided # NoDate =>
          Row[File[f].applications[a]].valid <= Row[File[f].applications[a]].decided
    BY <2>2, <2>3 DEF DecidedOnceValid
  <2> HIDE DEF rows
  <2>5. rows[a].decided \in Nat /\ rows[a].valid \in Nat
    BY <2>1 DEF Application
  <2> QED
    BY <2>1, <2>2, <2>4, <2>5
<1> HIDE DEF rows, past, now, then, table
<1>8. \A a \in DOMAIN past :
        /\ table[a].class = Class(past[a], then) /\ table[a].template = Template(past[a])
        /\ table[a].borough = past[a].borough /\ table[a].decided = past[a].decided
  BY <1>2, LabelColumns
\* What was decided by the date is in both, and of one class.
<1>9. ASSUME NEW a \in DOMAIN rows, DecidedBy(rows[a], date)
      PROVE  /\ a \in DOMAIN past /\ past[a] = rows[a]
             /\ Class(rows[a], now) = Class(rows[a], then)
  <2>1. rows[a].decided # NoDate /\ rows[a].decided <= date
    BY <1>9 DEF DecidedBy
  <2>2. KnownBy(rows[a], date) /\ ~(rows[a].decided > date)
    BY <1>7, <2>1 DEF KnownBy
  <2> QED
    BY <1>3, <1>6, <1>9, <2>2, ClassByDuplicate
<1>10. ASSUME NEW c \in Sides, NEW a
       PROVE  /\ a \in DOMAIN labels /\ labels[a].class = c /\ DecidedBy(labels[a], date)
                <=> a \in DOMAIN table /\ table[a].class = c /\ DecidedBy(table[a], date)
              /\ a \in DOMAIN labels /\ labels[a].class = c /\ DecidedBy(labels[a], date) =>
                   labels[a].template = table[a].template /\ labels[a].borough = table[a].borough
  <2>1. ASSUME a \in DOMAIN labels, labels[a].class = c, DecidedBy(labels[a], date)
        PROVE  /\ a \in DOMAIN table /\ table[a].class = c /\ DecidedBy(table[a], date)
               /\ labels[a].template = table[a].template /\ labels[a].borough = table[a].borough
    <3>1. a \in DOMAIN rows /\ DecidedBy(rows[a], date)
      BY <1>1, <2>1 DEF DecidedBy
    <3>2. /\ a \in DOMAIN past /\ past[a] = rows[a]
          /\ Class(rows[a], now) = Class(rows[a], then)
      BY <1>9, <3>1
    <3> QED
      BY <1>1, <1>2, <1>8, <2>1, <3>1, <3>2 DEF DecidedBy
  <2>2. ASSUME a \in DOMAIN table, table[a].class = c, DecidedBy(table[a], date)
        PROVE  a \in DOMAIN labels /\ labels[a].class = c /\ DecidedBy(labels[a], date)
    <3>1. a \in DOMAIN past /\ Class(past[a], then) = c /\ DecidedBy(past[a], date)
      BY <1>2, <1>8, <2>2 DEF DecidedBy
    <3>2. Counts(Class(past[a], then))
      BY <3>1 DEF Counts, Sides
    <3>3. a \in DOMAIN rows /\ past[a] = rows[a]
      BY <1>3, <1>4, <3>1, <3>2, CountsIs
    <3>4. Class(rows[a], now) = Class(rows[a], then)
      BY <1>9, <3>1, <3>3
    <3> QED
      BY <1>1, <3>1, <3>3, <3>4 DEF DecidedBy
  <2> QED
    BY <2>1, <2>2
<1>11. ASSUME NEW c \in Sides
       PROVE  /\ \A apps : Outcomes(apps, labels, c, date) = Outcomes(apps, table, c, date)
              /\ Outcomes(DOMAIN labels, labels, c, date) = Outcomes(DOMAIN table, table, c, date)
              /\ \A a \in Outcomes(DOMAIN labels, labels, c, date) :
                   labels[a].template = table[a].template /\ labels[a].borough = table[a].borough
  BY <1>10 DEF Outcomes
<1> QED
  BY <1>11 DEF SameOutcomes, table, past

\* Point-in-time features use what was known at the date, for any registers whose decisions
\* come no earlier than the cases, and any site and template: they are those of the
\* registers as they stood, unless a stronger register reported a case again, or its
\* outcome, after the date (build_feature_snapshot, rebuild_historical_case_labels).
THEOREM FeaturesWithoutHindsight ==
  ASSUME DecidedOnceValid
  PROVE  Spec => []NoHindsight
<1>1. DInv /\ RInv /\ LInv => NoHindsight
  <2> SUFFICES ASSUME DInv, RInv, LInv, LabelsFresh, NEW date \in Dates, NEW t \in Templates,
                      ~LaterTwin(date)
               PROVE  Features(SiteCase(t), date, Columns(db.applications), labels)
                        = Features(SiteCase(t), date, AsOf(date), LabelsOf(AsOf(date), db.zones))
    BY DEF NoHindsight
  <2>1. date \in Nat
    BY EvidenceAssumption
  <2>2. SameOutcomes(labels, LabelsOf(AsOf(date), db.zones), date)
    BY <2>1, OutcomesWithoutHindsight
  <2>3. SameGround(Columns(db.applications), AsOf(date), date)
    <3> DEFINE rows == Columns(db.applications)
               past == AsOf(date)
    <3>1. DOMAIN past = {a \in DOMAIN rows : KnownBy(rows[a], date)}
      BY PastIs
    <3>2. \A a \in DOMAIN past : past[a].valid = rows[a].valid /\ Ground(past[a]) = Ground(rows[a])
      BY PastColumns
    <3> HIDE DEF rows, past
    <3> QED
      BY <3>1, <3>2 DEF SameGround, KnownBy, rows, past
  <2> QED
    BY <2>2, <2>3, FeaturesAgree
<1> QED
  BY <1>1, LabelsInvariant, PTL
===============================================================================
