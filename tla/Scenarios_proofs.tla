---------------------------- MODULE Scenarios_proofs ----------------------------
(***************************************************************************)
(* Proofs about Scenarios, for every set of templates, contents, drafts    *)
(* and geometry hashes.                                                    *)
(*                                                                         *)
(* Each request is looked at on its own first: what it leaves of the rows  *)
(* it loaded (EffectOK, Moved) and, if what it loaded was in order         *)
(* (Found), that what it leaves is (Left).  CommittedRows then says what   *)
(* becomes of that when the columns it changed are merged into the rows as *)
(* they are by then.                                                       *)
(*                                                                         *)
(* Forward alone is not inductive: a request at work holds rows that it    *)
(* read earlier.  SessionOK adds what makes its commit safe: it has noticed*)
(* every change of geometry since (crossed), and in between no row outside *)
(* exposed has come to life on another geometry, or gone over to one       *)
(* (Held), so a column left alone and a column overwritten cannot together *)
(* make a row that nobody marked.                                          *)
(***************************************************************************)
EXTENDS Scenarios, SequenceTheorems, WellFoundedInduction, TLAPS
USE ScenarioAssumption, NoneAssumption

\* A row the site still counts on.
LiveRow(r) == r.status \notin {"ABSENT", "REJECTED"} /\ r.current

\* The live rows, row by row.
LEMMA LiveIs ==
  ASSUME NEW T \in [Ids -> Row]
  PROVE  /\ Present(T) \subseteq Ids /\ Live(T) \subseteq Present(T)
         /\ \A s \in Ids : s \in Present(T) <=> T[s].status # "ABSENT"
         /\ \A s \in Ids : s \in Live(T) <=> LiveRow(T[s])
BY DEF Present, Live, LiveRow

\* One column of a merged row.
Column(seen, after, now) == IF after # seen THEN after ELSE now

\* Merged, column by column.
LEMMA MergedColumns ==
  ASSUME NEW seen \in [Ids -> Row], NEW after \in [Ids -> Row], rows \in [Ids -> Row],
         NEW s \in Ids, seen[s].status # "ABSENT"
  PROVE  LET m == Merged(seen, after)[s] IN
         /\ m \in Row
         /\ m.status = Column(seen[s].status, after[s].status, rows[s].status)
         /\ m.source = Column(seen[s].source, after[s].source, rows[s].source)
         /\ m.current = Column(seen[s].current, after[s].current, rows[s].current)
         /\ m.headline = Column(seen[s].headline, after[s].headline, rows[s].headline)
         /\ m.review = Column(seen[s].review, after[s].review, rows[s].review)
         /\ m.stale = Column(seen[s].stale, after[s].stale, rows[s].stale)
         /\ m.hash = Column(seen[s].hash, after[s].hash, rows[s].hash)
<1> DEFINE m == [c \in DOMAIN seen[s] |-> IF after[s][c] # seen[s][c] THEN after[s][c] ELSE rows[s][c]]
<1>1. Merged(seen, after)[s] = m
  BY DEF Merged
<1>2. DOMAIN seen[s] = {"status", "source", "current", "headline", "review", "stale", "hash"}
  BY DEF Row
<1>3. /\ m.status = Column(seen[s].status, after[s].status, rows[s].status)
      /\ m.source = Column(seen[s].source, after[s].source, rows[s].source)
      /\ m.current = Column(seen[s].current, after[s].current, rows[s].current)
      /\ m.headline = Column(seen[s].headline, after[s].headline, rows[s].headline)
      /\ m.review = Column(seen[s].review, after[s].review, rows[s].review)
      /\ m.stale = Column(seen[s].stale, after[s].stale, rows[s].stale)
      /\ m.hash = Column(seen[s].hash, after[s].hash, rows[s].hash)
  BY <1>2 DEF Column
<1>4. m = [status |-> m.status, source |-> m.source, current |-> m.current,
           headline |-> m.headline, review |-> m.review, stale |-> m.stale, hash |-> m.hash]
  BY <1>2
<1>5. /\ m.status \in ScenarioStatus \cup {"ABSENT"} /\ m.source \in {"AUTO", "ANALYST"}
      /\ m.current \in BOOLEAN /\ m.headline \in BOOLEAN /\ m.review \in BOOLEAN
      /\ m.stale \in BOOLEAN /\ m.hash \in Hashes
  <2> seen[s] \in Row /\ after[s] \in Row /\ rows[s] \in Row
    OBVIOUS
  <2> HIDE DEF m
  <2> QED
    BY <1>3 DEF Column, Row
<1>6. m \in Row
  <2> HIDE DEF m
  <2> QED
    BY <1>4, <1>5 DEF Row
<1> QED
  BY <1>1, <1>3, <1>6

-------------------------------------------------------------------------------
(* What a request loads, and what one may do to a row *)

Viewed(v) ==
  /\ v.rows \in [Ids -> Row] /\ v.site \in Geometry
  /\ v.revisions \in Seq(Geometry) /\ Len(v.revisions) \in 1 .. MaxRevisions
  /\ \E i \in DOMAIN v.revisions : v.revisions[i].hash = v.site.hash
  /\ v.assessed \subseteq Ids

\* The row q is r but for its headline.
Beside(r, q) ==
  /\ q.status = r.status /\ q.source = r.source /\ q.current = r.current
  /\ q.review = r.review /\ q.stale = r.stale /\ q.hash = r.hash

\* A live row frozen on another geometry than g, without all the marks of staleness.
Loose(r, g) == /\ LiveRow(r) /\ r.hash # g
               /\ ~r.stale \/ ~r.review \/ r.status \in Confirmed

\* What a request that leaves the geometry g alone may make of row r: a row frozen on g, one
\* retired, one with another headline; or anything of a row that was loose already.
Moved(g, r, q) ==
  \/ q.hash = g
  \/ /\ q.hash = r.hash
     /\ \/ ~q.current /\ r.status # "ABSENT" /\ q.status \in {"REJECTED", r.status}
        \/ Beside(r, q)
        \/ Loose(r, g)

EffectOK(v, e) ==
  /\ e \in Effects
  /\ e.site.hash = v.site.hash => \A s \in Ids : Moved(v.site.hash, v.rows[s], e.rows[s])
  /\ e.site.hash # v.site.hash => \A s \in Ids : ~Loose(e.rows[s], e.site.hash)

\* A geometry that the request gives the site is one of the revisions, or is added to them.
Anchored(v, e, revs) ==
  e.site.hash # v.site.hash =>
    \/ \E i \in DOMAIN revs : revs[i].hash = e.site.hash
    \/ \E i \in DOMAIN e.added : e.added[i].hash = e.site.hash

\* The revision that a new scenario is frozen on exists, and has the geometry of the site.
LEMMA CurrentRevisionIs ==
  ASSUME NEW v, Viewed(v)
  PROVE  /\ CurrentRevision(v) \in 1 .. MaxRevisions
         /\ CurrentRevision(v) \in DOMAIN v.revisions
         /\ v.revisions[CurrentRevision(v)].hash = v.site.hash
<1> DEFINE n == Len(v.revisions)
           found == {i \in 1 .. n : v.revisions[i].hash = v.site.hash}
           T == {n - i : i \in found}
           Less == OpToRel(<, Nat)
<1>1. n \in Nat /\ n <= MaxRevisions /\ MaxRevisions \in Nat /\ DOMAIN v.revisions = 1 .. n
  BY DEF Viewed
<1>2. found # {}
  BY <1>1 DEF Viewed
<1>3. T \subseteq Nat /\ T # {}
  <2>1. \A i \in found : n - i \in Nat
    BY <1>1
  <2> QED
    <3>1. T \subseteq Nat
      BY <2>1
    <3> HIDE DEF found
    <3>2. PICK i \in found : TRUE
      BY <1>2
    <3>3. n - i \in T
      BY <3>2
    <3> QED
      BY <3>1, <3>3
<1>4. \E x \in T : \A y \in T : <<y, x>> \notin Less
  <2> HIDE DEF T, Less
  <2>1. IsWellFoundedOn(Less, Nat)
    BY NatLessThanWellFounded DEF Less
  <2> QED
    BY <1>3, <2>1, WFMin
<1>5. PICK i \in found : \A y \in T : <<y, n - i>> \notin Less
  BY <1>4
<1>6. ASSUME NEW k \in found PROVE k <= i
  <2>1. <<n - k, n - i>> \notin Less /\ n - k \in Nat /\ n - i \in Nat
    BY <1>3, <1>5
  <2>2. ~(n - k < n - i)
    BY <2>1 DEF OpToRel
  <2> QED
    BY <1>1, <2>2
<1>7. \E j \in DOMAIN v.revisions :
        /\ v.revisions[j].hash = v.site.hash
        /\ \A k \in DOMAIN v.revisions : v.revisions[k].hash = v.site.hash => k <= j
  BY <1>1, <1>5, <1>6
<1>8. /\ CurrentRevision(v) \in DOMAIN v.revisions
      /\ v.revisions[CurrentRevision(v)].hash = v.site.hash
  <2> HIDE DEF found, n
  <2> QED
    BY <1>7 DEF CurrentRevision
<1> QED
  BY <1>1, <1>8

\* An effect that changes nothing is one.
LEMMA NothingTyped ==
  ASSUME NEW v, Viewed(v)
  PROVE  /\ Nothing(v) \in Effects
         /\ Nothing(v).rows = v.rows /\ Nothing(v).site = v.site /\ Nothing(v).added = <<>>
<1>1. <<>> \in Seq(Geometry)
  BY EmptySeq
<1> QED
  BY <1>1 DEF Nothing, Effects, Viewed

\* Requests that write rows and nothing else.
LEMMA OnlyRows ==
  ASSUME NEW v, Viewed(v), NEW after \in [Ids -> Row],
         \A s \in Ids : Moved(v.site.hash, v.rows[s], after[s]),
         NEW e, e = [Nothing(v) EXCEPT !.rows = after]
  PROVE  EffectOK(v, e) /\ e.site = v.site /\ e.rows = after /\ e.assesses = {}
<1>1. /\ e \in Effects /\ e.site = v.site /\ e.rows = after /\ e.assesses = {}
  BY NothingTyped DEF Effects, Nothing
<1> QED
  BY <1>1 DEF EffectOK

\* Where the headline goes does not matter to how a row has moved.
LEMMA MovedOn ==
  ASSUME NEW g, NEW r, NEW q, NEW p, Moved(g, r, q), Beside(q, p)
  PROVE  Moved(g, r, p)
BY DEF Moved, Beside

\* The headline goes to one row at most, and among the rows it is taken from to no other.
LEMMA HeadlineForm ==
  ASSUME NEW T \in [Ids -> Row], NEW among, NEW choice, NEW H \in Headlines(T, among, choice)
  PROVE  /\ H \in [Ids -> Row] /\ \A s \in Ids : Beside(T[s], H[s])
         /\ \E h \in choice \cup {None} : \A s \in Ids :
              H[s].headline <=> s = h \/ (s \notin among /\ T[s].headline)
<1>1. PICK h \in choice \cup {None} :
        H = [s \in Ids |-> IF s \in among \cup {h} THEN [T[s] EXCEPT !.headline = (s = h)] ELSE T[s]]
  BY DEF Headlines
<1>2. ASSUME NEW s \in Ids
      PROVE  /\ H[s] \in Row /\ Beside(T[s], H[s])
             /\ H[s].headline <=> s = h \/ (s \notin among /\ T[s].headline)
  <2> DEFINE b == s = h
  <2>1. /\ H[s] = IF s \in among \cup {h} THEN [T[s] EXCEPT !.headline = b] ELSE T[s]
        /\ b \in BOOLEAN /\ (b <=> s = h)
    BY <1>1
  <2> HIDE DEF b
  <2>2. T[s] \in Row
    OBVIOUS
  <2>3. CASE s \in among \cup {h}
    BY <2>1, <2>2, <2>3 DEF Row, Beside
  <2>4. CASE s \notin among \cup {h}
    BY <2>1, <2>2, <2>4 DEF Beside
  <2> QED
    BY <2>3, <2>4
<1>3. H \in [Ids -> Row]
  BY <1>1, <1>2
<1> QED
  BY <1>2, <1>3

\* _recompute_headline finds a live row, or none.
LEMMA RecomputedForm ==
  ASSUME NEW T \in [Ids -> Row], NEW known, NEW preferred, NEW H \in Recomputed(T, known, preferred)
  PROVE  /\ H \in [Ids -> Row] /\ \A s \in Ids : Beside(T[s], H[s])
         /\ \E h \in (Live(T) \cap known) \cup {None} : \A s \in Ids :
              H[s].headline <=> s = h \/ (s \notin known /\ T[s].headline)
<1> DEFINE active == Live(T) \cap known
           analyst == {s \in Settled(T) \cap known : T[s].status = "ANALYST_CONFIRMED"}
           auto == {s \in Settled(T) \cap known : T[s].status = "AUTO_CONFIRMED"}
           choice == IF preferred \in active THEN {preferred}
                     ELSE IF analyst # {} THEN analyst
                     ELSE IF auto # {} THEN auto
                     ELSE active
<1>1. choice \subseteq active
  BY DEF Settled
<1>2. H \in Headlines(T, known, choice)
  BY DEF Recomputed
<1> HIDE DEF choice
<1>3. /\ H \in [Ids -> Row] /\ \A s \in Ids : Beside(T[s], H[s])
      /\ \E h \in choice \cup {None} : \A s \in Ids :
           H[s].headline <=> s = h \/ (s \notin known /\ T[s].headline)
  BY <1>2, HeadlineForm
<1> QED
  BY <1>1, <1>3

-------------------------------------------------------------------------------
(* What the requests do, one after another *)

HeadlineOK(T) == \A s, t \in Ids : T[s].headline => LiveRow(T[s]) /\ (T[t].headline => s = t)

Automatic(r) == LiveRow(r) /\ r.source = "AUTO"
TwinsOK(T) == \A s, t \in Suggested :
                Automatic(T[s]) /\ Automatic(T[t]) /\ s[1] = t[1] => s = t

\* What requests that do not overlap find, and what they leave.
Found(v) == /\ HeadlineOK(v.rows) /\ TwinsOK(v.rows)
            /\ \A s \in v.assessed : v.rows[s].status # "ABSENT"
Left(v, e) ==
  /\ HeadlineOK(e.rows) /\ TwinsOK(e.rows)
  /\ \A s \in Ids : v.rows[s].status # "ABSENT" => e.rows[s].status # "ABSENT"
  /\ \A s \in e.assesses : e.rows[s].status # "ABSENT"
  /\ \A s \in v.assessed : e.rows[s].hash # v.rows[s].hash =>
       e.rows[s].source = "AUTO" /\ e.rows[s].hash = v.site.hash

\* A request that rewrites rows to T and settles the headline among the rows it loaded.
LEMMA Rewritten ==
  ASSUME NEW v, Viewed(v), NEW T \in [Ids -> Row],
         \A s \in Ids : Moved(v.site.hash, v.rows[s], T[s]),
         \A s \in Ids : v.rows[s].status = "ABSENT" /\ T[s].headline => v.rows[s].headline,
         \A s \in Ids : v.rows[s].status # "ABSENT" => T[s].status # "ABSENT",
         \A s \in Suggested : Automatic(T[s]) => Automatic(v.rows[s]),
         \A s \in v.assessed : v.rows[s].status # "ABSENT" => T[s].hash = v.rows[s].hash,
         NEW p, NEW after \in Recomputed(T, Present(v.rows), p),
         NEW e, e = [Nothing(v) EXCEPT !.rows = after]
  PROVE  EffectOK(v, e) /\ (Found(v) => Left(v, e))
<1>1. /\ after \in [Ids -> Row] /\ \A s \in Ids : Beside(T[s], after[s])
      /\ \E h \in (Live(T) \cap Present(v.rows)) \cup {None} : \A s \in Ids :
           after[s].headline <=> s = h \/ (s \notin Present(v.rows) /\ T[s].headline)
  BY RecomputedForm
<1>2. \A s \in Ids : Moved(v.site.hash, v.rows[s], after[s])
  BY <1>1, MovedOn
<1>3. EffectOK(v, e) /\ e.rows = after /\ e.assesses = {} /\ e.site = v.site
  <2>1. after \in [Ids -> Row]
    BY <1>1
  <2>2. e.rows = after /\ e.assesses = {} /\ e.site = v.site
    BY <2>1, NothingTyped DEF Effects, Nothing
  <2>3. EffectOK(v, e)
    BY <1>2, <2>1, OnlyRows
  <2> QED
    BY <2>2, <2>3
<1>4. ASSUME Found(v) PROVE Left(v, e)
  <2>1. PICK h \in (Live(T) \cap Present(v.rows)) \cup {None} : \A s \in Ids :
          after[s].headline <=> s = h \/ (s \notin Present(v.rows) /\ T[s].headline)
    BY <1>1
  <2>2. \A s \in Ids : s \notin Present(v.rows) <=> v.rows[s].status = "ABSENT"
    BY LiveIs DEF Viewed
  <2>3. \A s \in Ids : after[s].headline => s = h
    BY <1>4, <2>1, <2>2 DEF Found, HeadlineOK, LiveRow
  <2>4. ASSUME NEW s \in Ids, after[s].headline PROVE LiveRow(after[s])
    <3>1. s = h /\ s # None
      BY <2>3, <2>4
    <3>2. LiveRow(T[s])
      BY <3>1, LiveIs
    <3> QED
      BY <1>1, <3>2 DEF Beside, LiveRow
  <2>5. HeadlineOK(after)
    BY <2>3, <2>4 DEF HeadlineOK
  <2>6. \A s \in Ids : Automatic(after[s]) <=> Automatic(T[s])
    BY <1>1 DEF Automatic, Beside, LiveRow
  <2>7. TwinsOK(after)
    <3>1. \A s \in Suggested : s \in Ids
      BY DEF Ids
    <3>2. \A s \in Suggested : Automatic(after[s]) => Automatic(v.rows[s])
      BY <2>6, <3>1
    <3> QED
      BY <1>4, <3>2 DEF Found, TwinsOK
  <2>8. \A s \in v.assessed : s \in Ids /\ v.rows[s].status # "ABSENT"
    BY <1>4 DEF Found, Viewed
  <2>9. \A s \in Ids : after[s].status = T[s].status /\ after[s].hash = T[s].hash
    BY <1>1 DEF Beside
  <2> QED
    BY <1>3, <2>5, <2>7, <2>8, <2>9 DEF Left
<1> QED
  BY <1>3, <1>4

\* A rejection.
LEMMA RejectEffect ==
  ASSUME NEW v, Viewed(v), NEW e \in Rejects(v)
  PROVE  EffectOK(v, e) /\ (Found(v) => Left(v, e)) /\ e.site = v.site
<1>1. PICK s \in Present(v.rows) : e \in Reject(v, s)
  BY DEF Rejects
<1> DEFINE T == [v.rows EXCEPT ![s] = RejectedRow(@)]
<1>2. v.rows \in [Ids -> Row] /\ s \in Ids /\ v.rows[s].status # "ABSENT"
  BY LiveIs DEF Viewed
<1>3. PICK after \in Recomputed(T, Present(v.rows), None) : e = [Nothing(v) EXCEPT !.rows = after]
  BY <1>1 DEF Reject
<1>4. /\ RejectedRow(v.rows[s]) \in Row
      /\ RejectedRow(v.rows[s]).status = "REJECTED" /\ ~RejectedRow(v.rows[s]).current
      /\ RejectedRow(v.rows[s]).hash = v.rows[s].hash
  <2>1. v.rows[s] \in Row
    BY <1>2
  <2> QED
    BY <2>1 DEF RejectedRow, Row, ScenarioStatus
<1>5. /\ T \in [Ids -> Row] /\ T[s] = RejectedRow(v.rows[s])
      /\ \A x \in Ids : x # s => T[x] = v.rows[x]
  BY <1>2, <1>4
<1> HIDE DEF T
<1>6. \A x \in Ids : Moved(v.site.hash, v.rows[x], T[x])
  BY <1>2, <1>4, <1>5 DEF Moved, Beside
<1>7. \A x \in Ids : /\ v.rows[x].status = "ABSENT" /\ T[x].headline => v.rows[x].headline
                     /\ v.rows[x].status # "ABSENT" => T[x].status # "ABSENT"
                     /\ Automatic(T[x]) => Automatic(v.rows[x])
                     /\ T[x].hash = v.rows[x].hash
  BY <1>2, <1>4, <1>5 DEF Automatic, LiveRow
<1>8. Suggested \subseteq Ids /\ v.assessed \subseteq Ids
  BY DEF Ids, Viewed
<1>12. EffectOK(v, e) /\ (Found(v) => Left(v, e))
  BY <1>3, <1>5, <1>6, <1>7, <1>8, Rewritten
<1>13. e.site = v.site
  BY <1>3 DEF Nothing
<1> QED
  BY <1>12, <1>13

\* A confirmed row: on the geometry of the site, the analyst's, and present.
LEMMA ConfirmedRow ==
  ASSUME NEW v, Viewed(v), NEW row \in Row, NEW extant \in Eligibility
  PROVE  LET q == Screened(Frozen(v, row), extant) IN
         /\ q \in Row /\ q.hash = v.site.hash /\ q.source = "ANALYST"
         /\ q.status # "ABSENT" /\ q.headline = row.headline
<1> DEFINE f == Frozen(v, row)
<1>1. v.revisions[CurrentRevision(v)].hash = v.site.hash /\ v.site.hash \in Hashes
  BY CurrentRevisionIs DEF Viewed, Geometry
<1>2. f \in Row /\ f.hash = v.site.hash /\ f.source = "ANALYST" /\ f.headline = row.headline
  BY <1>1 DEF Frozen, Row
<1> HIDE DEF f
<1>3. extant \in {"PASS", "ABSTAIN", "FAIL"}
  OBVIOUS
<1>4. LET q == Screened(f, extant) IN
         /\ q \in Row /\ q.hash = f.hash /\ q.source = f.source
         /\ q.status # "ABSENT" /\ q.headline = f.headline
  BY <1>2, <1>3 DEF Screened, Row, ScenarioStatus, Confirmed
<1> QED
  BY <1>2, <1>4 DEF f

\* A confirmation in place, of a scenario that is not assessed.
LEMMA InPlaceEffect ==
  ASSUME NEW v, Viewed(v), NEW s \in Present(v.rows), NEW extant \in Eligibility,
         s \notin v.assessed, NEW e \in ConfirmInPlace(v, s, extant)
  PROVE  EffectOK(v, e) /\ (Found(v) => Left(v, e)) /\ e.site = v.site
<1> DEFINE q == Screened(Frozen(v, v.rows[s]), extant)
           T == [v.rows EXCEPT ![s] = Screened(Frozen(v, @), extant)]
<1>1. v.rows \in [Ids -> Row] /\ s \in Ids /\ v.rows[s].status # "ABSENT"
  BY LiveIs DEF Viewed
<1>2. PICK after \in Recomputed(T, Present(v.rows), s) : e = [Nothing(v) EXCEPT !.rows = after]
  BY DEF ConfirmInPlace
<1>3. v.rows[s] \in Row
  BY <1>1
<1>4. q \in Row /\ q.hash = v.site.hash /\ q.source = "ANALYST" /\ q.status # "ABSENT"
  BY <1>3, ConfirmedRow
<1>5. T \in [Ids -> Row] /\ T[s] = q /\ \A x \in Ids : x # s => T[x] = v.rows[x]
  <2> HIDE DEF q
  <2>1. T = [v.rows EXCEPT ![s] = q]
    BY <1>1 DEF q
  <2> HIDE DEF T
  <2> QED
    BY <1>1, <1>4, <2>1
<1> HIDE DEF T, q
<1>6. \A x \in Ids : Moved(v.site.hash, v.rows[x], T[x])
  BY <1>4, <1>5 DEF Moved, Beside
<1>7. \A x \in Ids : /\ v.rows[x].status = "ABSENT" /\ T[x].headline => v.rows[x].headline
                     /\ v.rows[x].status # "ABSENT" => T[x].status # "ABSENT"
                     /\ Automatic(T[x]) => Automatic(v.rows[x])
                     /\ x # s => T[x].hash = v.rows[x].hash
  BY <1>1, <1>4, <1>5 DEF Automatic, LiveRow
<1>8. Suggested \subseteq Ids /\ v.assessed \subseteq Ids
  BY DEF Ids, Viewed
<1>9. \A x \in v.assessed : T[x].hash = v.rows[x].hash
  BY <1>7, <1>8
<1>12. EffectOK(v, e) /\ (Found(v) => Left(v, e))
  BY <1>2, <1>5, <1>6, <1>7, <1>8, <1>9, Rewritten
<1>13. e.site = v.site
  BY <1>2 DEF Nothing
<1> QED
  BY <1>12, <1>13

\* A confirmation by a successor.
LEMMA SupersedingEffect ==
  ASSUME NEW v, Viewed(v), NEW s \in Present(v.rows), NEW extant \in Eligibility,
         NEW n \in Drafts \ Present(v.rows), NEW e \in ConfirmSuperseding(v, s, extant, n)
  PROVE  EffectOK(v, e) /\ (Found(v) => Left(v, e)) /\ e.site = v.site
<1> DEFINE row == [Frozen(v, v.rows[s]) EXCEPT !.headline = FALSE]
           q == Screened(row, extant)
           T == [v.rows EXCEPT ![s] = Superseded(@), ![n] = q]
<1>1. /\ v.rows \in [Ids -> Row] /\ s \in Ids /\ v.rows[s].status # "ABSENT" /\ n \in Ids
      /\ v.rows[n].status = "ABSENT" /\ s # n
  BY LiveIs DEF Viewed, Ids
<1>2. PICK after \in Recomputed(T, Present(v.rows), n) : e = [Nothing(v) EXCEPT !.rows = after]
  BY DEF ConfirmSuperseding
<1>3. v.rows[s] \in Row /\ [v.rows[s] EXCEPT !.headline = FALSE] \in Row
  <2>1. v.rows[s] \in Row
    BY <1>1
  <2> QED
    BY <2>1 DEF Row
<1>4. /\ q \in Row /\ q.hash = v.site.hash /\ q.source = "ANALYST" /\ q.status # "ABSENT"
      /\ q.headline = FALSE
  <2>1. row = Frozen(v, [v.rows[s] EXCEPT !.headline = FALSE])
    BY <1>3 DEF Frozen, Row
  <2> HIDE DEF row
  <2> QED
    BY <1>3, <2>1, ConfirmedRow DEF Row
<1>5. LET w == Superseded(v.rows[s]) IN
      /\ w \in Row /\ ~w.current /\ w.status = v.rows[s].status /\ w.hash = v.rows[s].hash
  BY <1>3 DEF Superseded, Row
<1>6. /\ T \in [Ids -> Row] /\ T[s] = Superseded(v.rows[s]) /\ T[n] = q
      /\ \A x \in Ids : x # s /\ x # n => T[x] = v.rows[x]
  <2> HIDE DEF q
  <2> QED
    BY <1>1, <1>4, <1>5
<1> HIDE DEF T, q
<1>7. \A x \in Ids : Moved(v.site.hash, v.rows[x], T[x])
  BY <1>1, <1>4, <1>5, <1>6 DEF Moved, Beside
<1>8. \A x \in Ids : /\ v.rows[x].status = "ABSENT" /\ T[x].headline => v.rows[x].headline
                     /\ v.rows[x].status # "ABSENT" => T[x].status # "ABSENT"
                     /\ Automatic(T[x]) => Automatic(v.rows[x])
                     /\ v.rows[x].status # "ABSENT" => T[x].hash = v.rows[x].hash
  BY <1>1, <1>4, <1>5, <1>6 DEF Automatic, LiveRow
<1>9. Suggested \subseteq Ids /\ v.assessed \subseteq Ids
  BY DEF Ids, Viewed
<1>12. EffectOK(v, e) /\ (Found(v) => Left(v, e))
  BY <1>2, <1>6, <1>7, <1>8, <1>9, Rewritten
<1>13. e.site = v.site
  BY <1>2 DEF Nothing
<1> QED
  BY <1>12, <1>13

\* Any confirmation.
LEMMA ConfirmEffect ==
  ASSUME NEW v, Viewed(v), NEW e \in Confirms(v)
  PROVE  EffectOK(v, e) /\ (Found(v) => Left(v, e)) /\ e.site = v.site
<1>1. PICK s \in Present(v.rows), extant \in Eligibility : e \in Confirm(v, s, extant)
  BY DEF Confirms
<1>2. \/ s \notin v.assessed /\ e \in ConfirmInPlace(v, s, extant)
      \/ \E n \in Drafts \ Present(v.rows) : e \in ConfirmSuperseding(v, s, extant, n)
  BY <1>1 DEF Confirm
<1> QED
  BY <1>2, InPlaceEffect, SupersedingEffect

\* The rows marked as stale before their headline is settled, and after.
LEMMA Resettled ==
  ASSUME NEW T \in [Ids -> Row], NEW M \in [Ids -> Row], NEW H \in Recomputed(M, Present(T), None),
         \A s \in Ids : /\ M[s].headline = T[s].headline
                        /\ M[s].status = "ABSENT" <=> T[s].status = "ABSENT"
  PROVE  /\ H \in [Ids -> Row] /\ \A s \in Ids : Beside(M[s], H[s])
         /\ HeadlineOK(T) => HeadlineOK(H)
<1>1. /\ H \in [Ids -> Row] /\ \A s \in Ids : Beside(M[s], H[s])
      /\ \E h \in (Live(M) \cap Present(T)) \cup {None} : \A s \in Ids :
           H[s].headline <=> s = h \/ (s \notin Present(T) /\ M[s].headline)
  BY RecomputedForm
<1>2. PICK h \in (Live(M) \cap Present(T)) \cup {None} : \A s \in Ids :
           H[s].headline <=> s = h \/ (s \notin Present(T) /\ M[s].headline)
  BY <1>1
<1>3. ASSUME HeadlineOK(T) PROVE HeadlineOK(H)
  <2>1. \A s \in Ids : s \notin Present(T) <=> T[s].status = "ABSENT"
    BY LiveIs
  <2>2. \A s \in Ids : H[s].headline => s = h
    BY <1>2, <1>3, <2>1 DEF HeadlineOK, LiveRow
  <2>3. ASSUME NEW s \in Ids, H[s].headline PROVE LiveRow(H[s])
    <3>1. s \in Live(M)
      BY <1>2, <2>2, <2>3
    <3>2. LiveRow(M[s])
      BY <3>1, LiveIs
    <3> QED
      BY <1>1, <3>2 DEF Beside, LiveRow
  <2> QED
    BY <2>2, <2>3 DEF HeadlineOK
<1> QED
  BY <1>1, <1>3

\* What a change of geometry, or its refresh job, leaves of the rows T.
LEMMA MarkedForm ==
  ASSUME NEW T \in [Ids -> Row], NEW hash, NEW H \in MarkedStale(T, hash)
  PROVE  /\ H \in [Ids -> Row]
         /\ \A s \in Ids : /\ H[s].hash = T[s].hash /\ H[s].source = T[s].source
                           /\ LiveRow(H[s]) <=> LiveRow(T[s])
                           /\ H[s].status = "ABSENT" <=> T[s].status = "ABSENT"
                           /\ ~Loose(H[s], hash)
                           /\ ~Loose(T[s], hash) => Beside(T[s], H[s])
         /\ HeadlineOK(T) => HeadlineOK(H)
<1> DEFINE outdated == {s \in Live(T) : T[s].hash # hash}
           M == [s \in Ids |-> IF s \in outdated THEN MarkedRow(T[s]) ELSE T[s]]
<1>1. \A s \in Ids : s \in outdated <=> LiveRow(T[s]) /\ T[s].hash # hash
  BY LiveIs
<1>2. CASE outdated = {}
  <2>1. H = T
    BY <1>2 DEF MarkedStale
  <2>2. \A s \in Ids : ~Loose(T[s], hash)
    BY <1>1, <1>2 DEF Loose
  <2> QED
    BY <2>1, <2>2 DEF Beside
<1>3. CASE outdated # {}
  <2>1. H \in Recomputed(M, Present(T), None)
    BY <1>3 DEF MarkedStale
  <2>2. ASSUME NEW s \in Ids
        PROVE  /\ M[s] \in Row /\ M[s].hash = T[s].hash /\ M[s].source = T[s].source
               /\ M[s].current = T[s].current
               /\ LiveRow(M[s]) <=> LiveRow(T[s])
               /\ M[s].status = "ABSENT" <=> T[s].status = "ABSENT"
               /\ ~Loose(M[s], hash)
               /\ ~Loose(T[s], hash) => Beside(T[s], M[s])
               /\ M[s].headline = T[s].headline
    <3>1. T[s] \in Row /\ M[s] = IF s \in outdated THEN MarkedRow(T[s]) ELSE T[s]
      OBVIOUS
    <3> HIDE DEF M, outdated
    <3>2. CASE s \in outdated
      <4> DEFINE r == T[s]
                 q == MarkedRow(r)
      <4>1. /\ q \in Row /\ q.hash = r.hash /\ q.source = r.source /\ q.current = r.current
            /\ q.review = TRUE /\ q.stale = TRUE /\ q.headline = r.headline
            /\ q.status = IF r.status \in Confirmed THEN "ANALYST_REQUIRED" ELSE r.status
        BY <3>1 DEF MarkedRow, Row, ScenarioStatus, Confirmed
      <4>2. M[s] = q /\ LiveRow(r) /\ r.hash # hash /\ r \in Row
        BY <1>1, <3>1, <3>2
      <4> HIDE DEF q, r
      <4>3. q.status \notin Confirmed /\ LiveRow(q) /\ q.status # "ABSENT" /\ r.status # "ABSENT"
        BY <4>1, <4>2 DEF LiveRow, Confirmed
      <4>4. ~Loose(q, hash)
        BY <4>1, <4>3 DEF Loose
      <4>5. ~Loose(r, hash) => Beside(r, q)
        BY <4>1, <4>2 DEF Loose, Beside, Row
      <4> QED
        BY <4>1, <4>2, <4>3, <4>4, <4>5 DEF r
    <3>3. CASE s \notin outdated
      BY <1>1, <3>1, <3>3 DEF Loose, Beside
    <3> QED
      BY <3>2, <3>3
  <2>3. M \in [Ids -> Row]
    BY <2>2
  <2> HIDE DEF M
  <2>4. H \in [Ids -> Row] /\ \A s \in Ids : Beside(M[s], H[s])
    BY <2>1, <2>2, <2>3, Resettled
  <2>6. HeadlineOK(T) => HeadlineOK(H)
    BY <2>1, <2>2, <2>3, Resettled
  <2>7. ASSUME NEW s \in Ids
        PROVE  /\ H[s].hash = T[s].hash /\ H[s].source = T[s].source
               /\ LiveRow(H[s]) <=> LiveRow(T[s])
               /\ H[s].status = "ABSENT" <=> T[s].status = "ABSENT"
               /\ ~Loose(H[s], hash)
               /\ ~Loose(T[s], hash) => Beside(T[s], H[s])
    <3>1. Beside(M[s], H[s])
      BY <2>4
    <3> QED
      BY <2>2, <3>1 DEF Beside, LiveRow, Loose
  <2> QED
    BY <2>4, <2>6, <2>7
<1> QED
  BY <1>2, <1>3

\* Requests that change the rows as a change of geometry does.
LEMMA MarkedLeft ==
  ASSUME NEW v, Viewed(v), NEW hash, NEW after \in MarkedStale(v.rows, hash),
         NEW e, e.rows = after, e.assesses = {}, Found(v)
  PROVE  Left(v, e)
<1>1. v.rows \in [Ids -> Row] /\ v.assessed \subseteq Ids /\ Suggested \subseteq Ids
  BY DEF Viewed, Ids
<1>2. /\ \A s \in Ids : /\ after[s].hash = v.rows[s].hash /\ after[s].source = v.rows[s].source
                        /\ LiveRow(after[s]) <=> LiveRow(v.rows[s])
                        /\ after[s].status = "ABSENT" <=> v.rows[s].status = "ABSENT"
      /\ HeadlineOK(v.rows) => HeadlineOK(after)
  BY <1>1, MarkedForm
<1>3. TwinsOK(after)
  BY <1>1, <1>2 DEF Found, TwinsOK, Automatic
<1> QED
  BY <1>1, <1>2, <1>3 DEF Found, Left

LEMMA RedrawnEffect ==
  ASSUME NEW v, Viewed(v), NEW g \in Geometry, NEW added \in {<<>>, <<g>>},
         NEW refresh \in {"no", "queued"}, NEW e \in Redrawn(v, g, added, refresh)
  PROVE  /\ EffectOK(v, e) /\ (Found(v) => Left(v, e))
         /\ e.site = g /\ e.added = added
<1>1. PICK after \in IF g.hash # v.site.hash THEN MarkedStale(v.rows, g.hash) ELSE {v.rows} :
        e = [Nothing(v) EXCEPT !.rows = after, !.site = g, !.added = added, !.refresh = refresh]
  BY DEF Redrawn
<1>2. v.rows \in [Ids -> Row] /\ v.site \in Geometry
  BY DEF Viewed
<1>3. after \in [Ids -> Row]
  BY <1>1, <1>2, MarkedForm
<1>4. added \in Seq(Geometry)
  <2>1. <<>> \in Seq(Geometry) /\ <<g>> \in Seq(Geometry)
    OBVIOUS
  <2> QED
    BY <2>1
<1>5. /\ e \in Effects /\ e.site = g /\ e.rows = after /\ e.assesses = {} /\ e.added = added
  BY <1>1, <1>3, <1>4, NothingTyped DEF Effects, Nothing
<1>6. CASE g.hash # v.site.hash
  <2>1. after \in MarkedStale(v.rows, g.hash)
    BY <1>1, <1>6
  <2>2. \A s \in Ids : ~Loose(after[s], g.hash)
    BY <1>2, <2>1, MarkedForm
  <2>3. EffectOK(v, e)
    BY <1>5, <1>6, <2>2 DEF EffectOK
  <2>4. Found(v) => Left(v, e)
    BY <1>5, <2>1, MarkedLeft
  <2> QED
    BY <1>5, <2>3, <2>4
<1>7. CASE g.hash = v.site.hash
  <2>1. after = v.rows
    BY <1>1, <1>7
  <2>2. \A s \in Ids : Moved(v.site.hash, v.rows[s], after[s])
    BY <2>1 DEF Moved, Beside
  <2>3. EffectOK(v, e)
    BY <1>5, <1>7, <2>2 DEF EffectOK
  <2>4. Found(v) => Left(v, e)
    BY <1>5, <2>1 DEF Found, Left, Viewed
  <2> QED
    BY <1>5, <2>3, <2>4
<1> QED
  BY <1>6, <1>7

\* A saved or refreshed geometry has its revision.
LEMMA SaveEffect ==
  ASSUME NEW v, Viewed(v), NEW e \in SaveGeometry(v)
  PROVE  EffectOK(v, e) /\ (Found(v) => Left(v, e)) /\ Anchored(v, e, v.revisions)
<1>1. PICK g \in [hash : Hashes, drawn : Drawn] : e \in Redrawn(v, g, <<g>>, "queued")
  BY DEF SaveGeometry
<1>2. g \in Geometry
  BY DEF Geometry
<1>3. EffectOK(v, e) /\ (Found(v) => Left(v, e)) /\ e.site = g /\ e.added = <<g>>
  BY <1>1, <1>2, RedrawnEffect
<1>4. 1 \in DOMAIN e.added /\ e.added[1] = e.site
  BY <1>3
<1> QED
  BY <1>3, <1>4 DEF Anchored

\* A refreshed geometry is a revision already, or is added.
LEMMA RefreshEffect ==
  ASSUME NEW v, Viewed(v), NEW e \in RefreshFromCluster(v)
  PROVE  EffectOK(v, e) /\ (Found(v) => Left(v, e)) /\ Anchored(v, e, v.revisions)
<1> DEFINE known == {v.revisions[i] : i \in DOMAIN v.revisions}
           drafts == {[hash |-> h, drawn |-> FALSE] : h \in Hashes}
<1>1. PICK g \in {d \in drafts : d \in known \/ Len(v.revisions) < MaxRevisions} :
        e \in Redrawn(v, g, IF g \in known THEN <<>> ELSE <<g>>, "no")
  BY DEF RefreshFromCluster
<1>2. g \in Geometry
  <2>1. PICK h \in Hashes : g = [hash |-> h, drawn |-> FALSE]
    BY <1>1
  <2> QED
    BY <2>1 DEF Geometry
<1>3. /\ EffectOK(v, e) /\ (Found(v) => Left(v, e)) /\ e.site = g
      /\ e.added = IF g \in known THEN <<>> ELSE <<g>>
  <2>1. (IF g \in known THEN <<>> ELSE <<g>>) \in {<<>>, <<g>>}
    OBVIOUS
  <2> HIDE DEF known
  <2> QED
    BY <1>1, <1>2, <2>1, RedrawnEffect
<1>4. CASE g \in known
  BY <1>3, <1>4 DEF Anchored
<1>5. CASE g \notin known
  <2>1. 1 \in DOMAIN e.added /\ e.added[1] = e.site
    BY <1>3, <1>5
  <2> QED
    BY <1>3, <2>1 DEF Anchored
<1> QED
  BY <1>3, <1>4, <1>5

\* The refresh job after a geometry was saved.
LEMMA RefreshJobEffect ==
  ASSUME NEW v, Viewed(v), NEW e \in RefreshGeometryJob(v)
  PROVE  EffectOK(v, e) /\ (Found(v) => Left(v, e)) /\ e.site = v.site
<1>1. PICK after \in MarkedStale(v.rows, v.site.hash) :
        e = [Nothing(v) EXCEPT !.rows = after, !.refresh = "done"]
  BY DEF RefreshGeometryJob
<1>2. v.rows \in [Ids -> Row] /\ v.site \in Geometry
  BY DEF Viewed
<1>3. /\ after \in [Ids -> Row]
      /\ \A s \in Ids : /\ after[s].hash = v.rows[s].hash
                        /\ ~Loose(v.rows[s], v.site.hash) => Beside(v.rows[s], after[s])
  BY <1>2, MarkedForm
<1>4. e \in Effects /\ e.site = v.site /\ e.rows = after /\ e.assesses = {}
  BY <1>1, <1>3, NothingTyped DEF Effects, Nothing
<1>5. \A s \in Ids : Moved(v.site.hash, v.rows[s], after[s])
  BY <1>3 DEF Moved
<1>6. EffectOK(v, e)
  BY <1>4, <1>5 DEF EffectOK
<1>7. Found(v) => Left(v, e)
  BY <1>4, MarkedLeft
<1> QED
  BY <1>4, <1>6, <1>7

\* The refresh after a rulepack change.
LEMMA RulepackEffect ==
  ASSUME NEW v, Viewed(v), NEW e \in RefreshRulepackJob(v)
  PROVE  EffectOK(v, e) /\ (Found(v) => Left(v, e)) /\ e.site = v.site
<1> DEFINE after == [s \in Ids |-> IF s \in Live(v.rows) THEN RulepackRow(v.rows[s]) ELSE v.rows[s]]
<1>1. e = [Nothing(v) EXCEPT !.rows = after]
  BY DEF RefreshRulepackJob
<1>2. v.rows \in [Ids -> Row] /\ v.assessed \subseteq Ids /\ Suggested \subseteq Ids
  BY DEF Viewed, Ids
<1>3. ASSUME NEW s \in Ids
      PROVE  /\ after[s] \in Row /\ after[s].hash = v.rows[s].hash
             /\ after[s].source = v.rows[s].source /\ after[s].headline = v.rows[s].headline
             /\ LiveRow(after[s]) <=> LiveRow(v.rows[s])
             /\ after[s].status = "ABSENT" <=> v.rows[s].status = "ABSENT"
             /\ Moved(v.site.hash, v.rows[s], after[s])
  <2> DEFINE r == v.rows[s]
             q == RulepackRow(r)
  <2>1. r \in Row /\ after[s] = IF s \in Live(v.rows) THEN q ELSE r
    BY <1>2
  <2>2. s \in Live(v.rows) <=> LiveRow(r)
    BY <1>2, LiveIs
  <2> HIDE DEF r, after
  <2>3. /\ q \in Row /\ q.hash = r.hash /\ q.source = r.source /\ q.current = r.current
        /\ q.review = TRUE /\ q.stale = TRUE /\ q.headline = r.headline
        /\ q.status = IF r.status = "AUTO_CONFIRMED" THEN "ANALYST_REQUIRED" ELSE r.status
    BY <2>1 DEF RulepackRow, Row, ScenarioStatus, Confirmed
  <2> HIDE DEF q
  <2>4. CASE LiveRow(r)
    <3>1. after[s] = q
      BY <2>1, <2>2, <2>4
    <3>2. Loose(r, v.site.hash) \/ r.hash = v.site.hash \/ Beside(r, q)
      BY <2>1, <2>3, <2>4 DEF Loose, Beside, Row, Confirmed
    <3> QED
      BY <2>3, <2>4, <3>1, <3>2 DEF Moved, LiveRow, r
  <2>5. CASE ~LiveRow(r)
    BY <2>1, <2>2, <2>5 DEF Moved, Beside, r
  <2> QED
    BY <2>4, <2>5
<1>4. after \in [Ids -> Row]
  BY <1>3
<1> HIDE DEF after
<1>5. EffectOK(v, e) /\ e.site = v.site /\ e.rows = after /\ e.assesses = {}
  <2>1. e.site = v.site /\ e.rows = after /\ e.assesses = {}
    BY <1>1, <1>4, NothingTyped DEF Effects, Nothing
  <2>2. \A s \in Ids : Moved(v.site.hash, v.rows[s], after[s])
    BY <1>3
  <2>3. EffectOK(v, e)
    BY <1>1, <1>4, <2>2, OnlyRows
  <2> QED
    BY <2>1, <2>3
<1>6. ASSUME Found(v) PROVE Left(v, e)
  <2>1. HeadlineOK(after)
    BY <1>3, <1>6 DEF Found, HeadlineOK
  <2>2. TwinsOK(after)
    BY <1>2, <1>3, <1>6 DEF Found, TwinsOK, Automatic
  <2> QED
    BY <1>2, <1>3, <1>5, <2>1, <2>2 DEF Left
<1> QED
  BY <1>5, <1>6

\* A new assessment.
LEMMA AssessEffect ==
  ASSUME NEW v, Viewed(v), NEW e \in Assess(v)
  PROVE  EffectOK(v, e) /\ (Found(v) => Left(v, e)) /\ e.site = v.site
<1>1. PICK s \in Present(v.rows) : e = [Nothing(v) EXCEPT !.assesses = {s}]
  BY DEF Assess
<1>2. v.rows \in [Ids -> Row] /\ s \in Ids /\ v.rows[s].status # "ABSENT" /\ v.assessed \subseteq Ids
  BY LiveIs DEF Viewed
<1>3. e \in Effects /\ e.site = v.site /\ e.rows = v.rows /\ e.assesses = {s}
  BY <1>1, <1>2, NothingTyped DEF Effects, Nothing
<1>4. EffectOK(v, e)
  BY <1>3 DEF EffectOK, Moved, Beside
<1>5. Found(v) => Left(v, e)
  BY <1>2, <1>3 DEF Found, Left
<1> QED
  BY <1>3, <1>4, <1>5

\* A template the machine suggests is written as its row on the current line.
LEMMA PersistedRow ==
  ASSUME NEW v, NEW r \in Row, NEW a \in BOOLEAN, NEW h \in Hashes,
         v.revisions[CurrentRevision(v)].hash = h
  PROVE  LET p == Persisted(v, r, a)
         IN  /\ p \in Row /\ p.hash = h /\ p.source = "AUTO" /\ LiveRow(p)
             /\ p.headline = r.headline
<1> DEFINE st == IF a THEN "AUTO_CONFIRMED" ELSE "ANALYST_REQUIRED"
           p == Persisted(v, r, a)
<1>1. st \in ScenarioStatus /\ st \notin {"ABSENT", "REJECTED"} /\ (~a) \in BOOLEAN
  BY DEF ScenarioStatus, Confirmed
<1>2. p = [r EXCEPT !.status = st, !.source = "AUTO", !.current = TRUE, !.review = ~a,
                    !.stale = FALSE, !.hash = h]
  BY DEF Persisted
<1> HIDE DEF st, p
<1>3. p \in Row /\ p.status = st /\ p.current /\ p.hash = h /\ p.source = "AUTO" /\ p.headline = r.headline
  BY <1>1, <1>2 DEF Row
<1> QED
  BY <1>1, <1>3 DEF LiveRow, p

\* Suggestions `new`, one per template, are written over what was there, the headline is settled
\* among the live rows and the machine's other current rows are superseded.
Refreshes(v, new, T, choice, H, kept, assesses, e) ==
  /\ Viewed(v) /\ new \in SUBSET Suggested
  /\ \A s, t \in new : s[1] = t[1] => s = t
  /\ T \in [Ids -> Row]
  /\ \A s \in Ids \ new : T[s] = v.rows[s]
  /\ \A s \in new : /\ T[s].hash = v.site.hash /\ T[s].source = "AUTO" /\ LiveRow(T[s])
                    /\ T[s].headline = v.rows[s].headline
  /\ choice \subseteq Live(T)
  /\ H \in Headlines(T, Live(T) \cap Present(v.rows), choice)
  /\ kept = [s \in Ids |-> IF s \in Present(v.rows) \ new /\ Outdated(H[s])
                           THEN Superseded(H[s]) ELSE H[s]]
  /\ assesses \in SUBSET new
  /\ e = [Nothing(v) EXCEPT !.rows = kept, !.assesses = assesses]

LEMMA Refreshed ==
  ASSUME NEW v, NEW new, NEW T, NEW choice, NEW H, NEW kept, NEW assesses, NEW e,
         Refreshes(v, new, T, choice, H, kept, assesses, e)
  PROVE  EffectOK(v, e) /\ (Found(v) => Left(v, e))
<1> USE DEF Refreshes
<1>1. /\ H \in [Ids -> Row] /\ \A s \in Ids : Beside(T[s], H[s])
      /\ \E h \in choice \cup {None} : \A s \in Ids :
           H[s].headline <=> s = h \/ (s \notin Live(T) \cap Present(v.rows) /\ T[s].headline)
  BY HeadlineForm
<1>2. PICK h \in choice \cup {None} : \A s \in Ids :
        H[s].headline <=> s = h \/ (s \notin Live(T) \cap Present(v.rows) /\ T[s].headline)
  BY <1>1
<1>3. /\ v.rows \in [Ids -> Row] /\ v.assessed \subseteq Ids /\ Suggested \subseteq Ids
      /\ new \subseteq Ids
  BY DEF Viewed, Ids
<1>4. /\ \A s \in Ids : s \in Present(v.rows) <=> v.rows[s].status # "ABSENT"
      /\ \A s \in Ids : s \in Live(T) <=> LiveRow(T[s])
  BY <1>3, LiveIs
<1>5. ASSUME NEW s \in Ids
      PROVE  /\ kept[s] \in Row /\ kept[s].status = T[s].status
             /\ kept[s].source = T[s].source /\ kept[s].hash = T[s].hash
             /\ kept[s].headline => H[s].headline
             /\ s \in new => Beside(T[s], kept[s])
             /\ \/ Beside(T[s], kept[s])
                \/ ~kept[s].current /\ v.rows[s].status # "ABSENT"
             /\ /\ s \notin new
                /\ v.rows[s].status # "ABSENT" /\ kept[s].source = "AUTO"
                => ~kept[s].current
  <2>1. /\ H[s] \in Row /\ Beside(T[s], H[s])
        /\ kept[s] = IF s \in Present(v.rows) \ new /\ Outdated(H[s])
                     THEN Superseded(H[s]) ELSE H[s]
    BY <1>1
  <2>2. CASE s \in Present(v.rows) \ new /\ Outdated(H[s])
    <3>1. kept[s] = [H[s] EXCEPT !.current = FALSE, !.headline = FALSE]
      BY <2>1, <2>2 DEF Superseded
    <3>2. /\ kept[s] \in Row /\ kept[s].status = H[s].status /\ kept[s].source = H[s].source
          /\ kept[s].hash = H[s].hash /\ ~kept[s].headline /\ ~kept[s].current
      BY <2>1, <3>1 DEF Row
    <3> QED
      BY <1>4, <2>1, <2>2, <3>2 DEF Beside
  <2>3. CASE ~(s \in Present(v.rows) \ new /\ Outdated(H[s]))
    BY <1>4, <2>1, <2>3 DEF Beside, Outdated
  <2> QED
    BY <2>2, <2>3
<1>6. kept \in [Ids -> Row]
  BY <1>5
<1>7. \A s \in Ids : Moved(v.site.hash, v.rows[s], kept[s])
  <2> SUFFICES ASSUME NEW s \in Ids PROVE Moved(v.site.hash, v.rows[s], kept[s])
    OBVIOUS
  <2>1. CASE s \in new
    BY <1>5, <2>1 DEF Moved
  <2>2. CASE s \notin new
    <3>1. T[s] = v.rows[s]
      BY <2>2
    <3> QED
      BY <1>5, <3>1 DEF Moved
  <2> QED
    BY <2>1, <2>2
<1>8. e \in Effects /\ e.site = v.site /\ e.rows = kept /\ e.assesses = assesses
  BY <1>3, <1>6, NothingTyped DEF Effects, Nothing
<1>9. EffectOK(v, e)
  BY <1>7, <1>8 DEF EffectOK
<1>10. ASSUME Found(v) PROVE Left(v, e)
  <2>1. ASSUME NEW s \in Ids, H[s].headline PROVE s = h
    <3>1. CASE s \in new
      BY <1>2, <1>4, <1>10, <2>1, <3>1 DEF Found, HeadlineOK, LiveRow
    <3>2. CASE s \notin new
      BY <1>2, <1>4, <1>10, <2>1, <3>2 DEF Found, HeadlineOK, LiveRow
    <3> QED
      BY <3>1, <3>2
  <2>2. ASSUME NEW s \in Ids, kept[s].headline PROVE LiveRow(kept[s])
    <3>1. H[s].headline /\ s = h /\ h \in choice
      BY <1>5, <2>1, <2>2
    <3>2. LiveRow(T[s])
      BY <1>4, <3>1
    <3>3. Beside(T[s], H[s])
      BY <1>1
    <3>4. CASE s \in Present(v.rows) \ new /\ Outdated(H[s])
      <4>1. kept[s] = [H[s] EXCEPT !.current = FALSE, !.headline = FALSE] /\ H[s] \in Row
        BY <1>1, <3>4 DEF Superseded
      <4> QED
        BY <2>2, <4>1 DEF Row
    <3>5. CASE ~(s \in Present(v.rows) \ new /\ Outdated(H[s]))
      <4>1. kept[s] = H[s]
        BY <3>5
      <4> QED
        BY <3>2, <3>3, <4>1 DEF LiveRow, Beside
    <3> QED
      BY <3>4, <3>5
  <2>3. HeadlineOK(kept)
    <3>1. \A s, t \in Ids : kept[s].headline /\ kept[t].headline => s = t
      BY <1>5, <2>1
    <3> QED
      BY <2>2, <3>1 DEF HeadlineOK
  <2>4. ASSUME NEW s \in Suggested, Automatic(kept[s]) PROVE s \in new
    <3>1. s \in Ids /\ kept[s].current /\ kept[s].source = "AUTO" /\ kept[s].status # "ABSENT"
      BY <1>3, <2>4 DEF Automatic, LiveRow
    <3>2. SUFFICES ASSUME s \notin new PROVE FALSE
      OBVIOUS
    <3>3. v.rows[s].status # "ABSENT"
      BY <1>5, <3>1, <3>2
    <3> QED
      BY <1>5, <3>1, <3>2, <3>3
  <2>5. TwinsOK(kept)
    BY <2>4 DEF TwinsOK
  <2>6. \A s \in Ids : v.rows[s].status # "ABSENT" => kept[s].status # "ABSENT"
    BY <1>5 DEF LiveRow
  <2>7. \A s \in assesses : kept[s].status # "ABSENT"
    BY <1>3, <1>5 DEF LiveRow
  <2>8. \A s \in v.assessed : kept[s].hash # v.rows[s].hash =>
           kept[s].source = "AUTO" /\ kept[s].hash = v.site.hash
    BY <1>3, <1>5
  <2>9. e.rows = kept /\ e.assesses = assesses
    BY <1>8
  <2> HIDE DEF Refreshes
  <2> QED
    BY <2>3, <2>5, <2>6, <2>7, <2>8, <2>9 DEF Left
<1> QED
  BY <1>8, <1>9, <1>10

\* Any suggestion is such a refresh of the rows.
LEMMA SuggestEffect ==
  ASSUME NEW v, Viewed(v), NEW e \in SuggestRequests(v)
  PROVE  EffectOK(v, e) /\ (Found(v) => Left(v, e)) /\ e.site = v.site
<1>0. PICK E \in SUBSET Templates :
        e \in UNION {Suggest(v, content, auto, job) :
                       content \in [E -> Contents], auto \in SUBSET E, job \in BOOLEAN}
  BY DEF SuggestRequests
<1>1. PICK content \in [E -> Contents], auto \in SUBSET E, job \in BOOLEAN :
        e \in Suggest(v, content, auto, job)
  BY <1>0
<1> DEFINE c == CurrentRevision(v)
           new == {<<t, c, content[t]>> : t \in DOMAIN content}
           T == [s \in Ids |-> IF s \in new THEN Persisted(v, v.rows[s], s[1] \in auto) ELSE v.rows[s]]
           contenders == Live(T) \cap Present(v.rows)
           settled == Settled(T) \cap contenders
           choice == IF settled # {} THEN settled ELSE IF contenders # {} THEN contenders ELSE new
<1>2. PICK H \in Headlines(T, contenders, choice) :
        e = [Nothing(v) EXCEPT
               !.rows = [s \in Ids |-> IF s \in Present(v.rows) \ new /\ Outdated(H[s])
                                       THEN Superseded(H[s]) ELSE H[s]],
               !.assesses = {s \in new : job /\ H[s].headline /\ H[s].status = "AUTO_CONFIRMED"}]
  BY <1>1 DEF Suggest
<1>3. v.rows \in [Ids -> Row] /\ v.site \in Geometry /\ c \in 1 .. MaxRevisions
      /\ v.revisions[c].hash = v.site.hash
  BY CurrentRevisionIs DEF Viewed
<1>4. new \subseteq Suggested
  <2> HIDE DEF c
  <2> QED
    BY <1>3 DEF Suggested
<1>5. \A s, t \in new : s[1] = t[1] => s = t
  OBVIOUS
<1>6. ASSUME NEW s \in Ids, s \in new
      PROVE  /\ T[s] \in Row
             /\ T[s].hash = v.site.hash /\ T[s].source = "AUTO" /\ LiveRow(T[s])
             /\ T[s].headline = v.rows[s].headline
  <2> DEFINE a == s[1] \in auto
  <2>1. T[s] = Persisted(v, v.rows[s], a) /\ v.rows[s] \in Row /\ v.site.hash \in Hashes /\ a \in BOOLEAN
    BY <1>3, <1>6 DEF Geometry
  <2>2. v.revisions[CurrentRevision(v)].hash = v.site.hash
    BY <1>3
  <2> HIDE DEF T, a
  <2> QED
    BY <2>1, <2>2, PersistedRow
<1>7. \A s \in Ids \ new : T[s] = v.rows[s]
  OBVIOUS
<1>8. T \in [Ids -> Row]
  BY <1>3, <1>6, <1>7
<1>9. new \subseteq Ids
  BY <1>4 DEF Ids
<1> HIDE DEF T, new
<1>10. choice \subseteq Live(T)
  BY <1>6, <1>8, <1>9, LiveIs
<1> HIDE DEF choice
<1> DEFINE kept == [s \in Ids |-> IF s \in Present(v.rows) \ new /\ Outdated(H[s])
                                  THEN Superseded(H[s]) ELSE H[s]]
           assesses == {s \in new : job /\ H[s].headline /\ H[s].status = "AUTO_CONFIRMED"}
<1>11. /\ kept = [s \in Ids |-> IF s \in Present(v.rows) \ new /\ Outdated(H[s])
                               THEN Superseded(H[s]) ELSE H[s]]
       /\ assesses \in SUBSET new /\ new \in SUBSET Suggested
       /\ e = [Nothing(v) EXCEPT !.rows = kept, !.assesses = assesses]
       /\ H \in Headlines(T, Live(T) \cap Present(v.rows), choice)
  BY <1>2, <1>4
<1> HIDE DEF kept, assesses
<1>12. EffectOK(v, e) /\ (Found(v) => Left(v, e))
  <2>1. Refreshes(v, new, T, choice, H, kept, assesses, e)
    BY <1>5, <1>6, <1>7, <1>8, <1>9, <1>10, <1>11 DEF Refreshes
  <2> QED
    BY <2>1, Refreshed
<1>13. e.site = v.site
  BY <1>2 DEF Nothing
<1> QED
  BY <1>12, <1>13

\* What any request leaves; and a geometry it sets is one of the site's revisions.
LEMMA RequestedEffect ==
  ASSUME NEW v, Viewed(v), NEW e \in Requested(v)
  PROVE  EffectOK(v, e) /\ (Found(v) => Left(v, e)) /\ Anchored(v, e, v.revisions)
<1>1. \/ e \in SaveGeometry(v) \cup RefreshFromCluster(v)
      \/ e \in Rejects(v) \cup Confirms(v)
      \/ e \in RefreshRulepackJob(v) \cup SuggestRequests(v) \cup Assess(v) \cup RefreshGeometryJob(v)
  BY DEF Requested
<1>2. CASE e \in SaveGeometry(v) \cup RefreshFromCluster(v)
  BY <1>2, SaveEffect, RefreshEffect
<1>3. ASSUME e.site = v.site PROVE Anchored(v, e, v.revisions)
  BY <1>3 DEF Anchored
<1>4. CASE e \in Rejects(v) \cup Confirms(v)
  BY <1>3, <1>4, RejectEffect, ConfirmEffect
<1>5. CASE e \in RefreshRulepackJob(v) \cup SuggestRequests(v) \cup Assess(v) \cup RefreshGeometryJob(v)
  BY <1>3, <1>5, RulepackEffect, SuggestEffect, AssessEffect, RefreshJobEffect
<1> QED
  BY <1>1, <1>2, <1>4, <1>5

-------------------------------------------------------------------------------
(* A commit, after whatever overlapped the request *)

\* Row r has become q while the geometry stayed g: q is not frozen on another geometry, or r was
\* already, and alive if q is.
Held(g, r, q) == q.hash # g => r.hash # g /\ (LiveRow(q) => LiveRow(r))

Forward == \A s \in Ids \ exposed : ~Loose(rows[s], site.hash)

\* What a request at work has loaded and decided, and what it may still find.
SessionOK(v, e, crossed) ==
  /\ v.rows \in [Ids -> Row] /\ v.site \in Geometry /\ crossed \in BOOLEAN
  /\ EffectOK(v, e) /\ Anchored(v, e, revisions)
  /\ \A s \in Ids \ exposed : ~Loose(v.rows[s], v.site.hash)
  /\ ~crossed => /\ v.site.hash = site.hash
                 /\ \A s \in Ids \ exposed : Held(site.hash, v.rows[s], rows[s])

\* Forward is the property, on the rows themselves.
LEMMA ForwardIs ==
  ASSUME TypeOK
  PROVE  Forward <=> OnlyOverlapCarriesForward
<1>1. \A s \in Ids : s \in Live(rows) <=> LiveRow(rows[s])
  BY LiveIs DEF TypeOK
<1>2. \A s \in Ids : CarriedForward(s) <=> Loose(rows[s], site.hash)
  BY <1>1 DEF CarriedForward, Loose
<1> QED
  BY <1>2 DEF Forward, OnlyOverlapCarriesForward

\* A column that the request leaves alone is as it is now; the others as the request leaves them.
LEMMA MergedRow ==
  ASSUME NEW seen \in [Ids -> Row], NEW after \in [Ids -> Row], rows \in [Ids -> Row],
         NEW s \in Ids
  PROVE  LET m == Merged(seen, after)[s] IN
         /\ m \in Row
         /\ after[s] = seen[s] => m = rows[s]
         /\ rows[s] = seen[s] /\ after[s].status # "ABSENT" => m = after[s]
         /\ rows[s] = seen[s] /\ after[s].status = "ABSENT" => m.status = "ABSENT"
         /\ seen[s].status = "ABSENT" => m = IF after[s].status = "ABSENT" THEN rows[s] ELSE after[s]
<1> DEFINE m == Merged(seen, after)[s]
<1>0. seen[s] \in Row /\ after[s] \in Row /\ rows[s] \in Row
  OBVIOUS
<1>1. CASE seen[s].status = "ABSENT"
  <2>1. m = IF after[s].status = "ABSENT" THEN rows[s] ELSE after[s]
    BY <1>1 DEF Merged
  <2> HIDE DEF m
  <2> QED
    BY <1>0, <1>1, <2>1 DEF m
<1>2. CASE seen[s].status # "ABSENT"
  <2>1. /\ m \in Row
        /\ m.status = Column(seen[s].status, after[s].status, rows[s].status)
        /\ m.source = Column(seen[s].source, after[s].source, rows[s].source)
        /\ m.current = Column(seen[s].current, after[s].current, rows[s].current)
        /\ m.headline = Column(seen[s].headline, after[s].headline, rows[s].headline)
        /\ m.review = Column(seen[s].review, after[s].review, rows[s].review)
        /\ m.stale = Column(seen[s].stale, after[s].stale, rows[s].stale)
        /\ m.hash = Column(seen[s].hash, after[s].hash, rows[s].hash)
    BY <1>2, MergedColumns
  <2> HIDE DEF m
  <2>2. ASSUME NEW p \in Row, /\ m.status = p.status /\ m.source = p.source
                              /\ m.current = p.current /\ m.headline = p.headline
                              /\ m.review = p.review /\ m.stale = p.stale /\ m.hash = p.hash
        PROVE  m = p
    BY <2>1, <2>2 DEF Row
  <2>3. after[s] = seen[s] => m = rows[s]
    BY <1>0, <2>1, <2>2 DEF Column
  <2>4. rows[s] = seen[s] => m = after[s]
    BY <1>0, <2>1, <2>2 DEF Column
  <2> QED
    BY <1>2, <2>1, <2>3, <2>4 DEF m
<1> QED
  BY <1>1, <1>2

\* A row moved by a request that no geometry change has overtaken.
LEMMA MergedMoved ==
  ASSUME NEW seen \in [Ids -> Row], NEW after \in [Ids -> Row], rows \in [Ids -> Row],
         NEW s \in Ids, NEW g, Moved(g, seen[s], after[s]), ~Loose(seen[s], g),
         Held(g, seen[s], rows[s]), ~Loose(rows[s], g)
  PROVE  LET m == Merged(seen, after)[s] IN ~Loose(m, g) /\ Held(g, rows[s], m)
<1> DEFINE m == Merged(seen, after)[s]
<1>1. CASE seen[s].status = "ABSENT"
  <2>1. m = IF after[s].status = "ABSENT" THEN rows[s] ELSE after[s]
    BY <1>1, MergedRow
  <2> HIDE DEF m
  <2>2. CASE after[s].status = "ABSENT"
    BY <2>1, <2>2 DEF Held, m
  <2>3. CASE after[s].status # "ABSENT"
    <3>1. after[s].hash = g
      BY <1>1, <2>3 DEF Moved, Beside, Loose, LiveRow
    <3> QED
      BY <2>1, <2>3, <3>1 DEF Held, Loose, m
  <2> QED
    BY <2>2, <2>3 DEF m
<1>2. CASE seen[s].status # "ABSENT"
  <2>1. /\ m \in Row
        /\ m.status = Column(seen[s].status, after[s].status, rows[s].status)
        /\ m.current = Column(seen[s].current, after[s].current, rows[s].current)
        /\ m.review = Column(seen[s].review, after[s].review, rows[s].review)
        /\ m.stale = Column(seen[s].stale, after[s].stale, rows[s].stale)
        /\ m.hash = Column(seen[s].hash, after[s].hash, rows[s].hash)
    BY <1>2, MergedColumns
  <2>2. seen[s] \in Row /\ after[s] \in Row /\ rows[s] \in Row
    OBVIOUS
  <2> HIDE DEF m
  <2>3. CASE after[s].hash = g
    BY <2>1, <2>3 DEF Column, Held, Loose, m
  <2>4. CASE /\ after[s].hash = seen[s].hash
             /\ ~after[s].current /\ after[s].status \in {"REJECTED", seen[s].status}
    <3>1. m.hash = rows[s].hash
      BY <2>1, <2>4 DEF Column
    <3>2. LiveRow(m) => LiveRow(rows[s])
      BY <2>1, <2>2, <2>4 DEF Column, LiveRow, Row
    <3>3. ~LiveRow(m) \/ m.hash = g
      BY <2>1, <2>2, <2>4, <3>1 DEF Column, LiveRow, Row, Held
    <3> QED
      BY <3>1, <3>2, <3>3 DEF Held, Loose, m
  <2>5. CASE Beside(seen[s], after[s])
    <3>1. /\ m.status = rows[s].status /\ m.current = rows[s].current /\ m.review = rows[s].review
          /\ m.stale = rows[s].stale /\ m.hash = rows[s].hash
      BY <2>1, <2>5 DEF Column, Beside
    <3> QED
      BY <3>1 DEF Held, Loose, LiveRow, m
  <2> QED
    BY <2>3, <2>4, <2>5 DEF Moved, m
<1> QED
  BY <1>1, <1>2

\* A row that is not exposed is in order after a commit too, whatever overlapped the request.
LEMMA CommittedRows ==
  ASSUME TypeOK, Forward, NEW v, NEW e, NEW crossed, SessionOK(v, e, crossed), Commit(v, e, crossed),
         NEW s \in Ids, s \notin exposed'
  PROVE  ~Loose(rows'[s], site'.hash) /\ (site'.hash = site.hash => Held(site.hash, rows[s], rows'[s]))
<1>1. /\ v.rows \in [Ids -> Row] /\ v.site \in Geometry /\ e.rows \in [Ids -> Row]
      /\ e.site \in Geometry /\ rows \in [Ids -> Row] /\ site \in Geometry
  BY DEF SessionOK, EffectOK, Effects, TypeOK
<1>2. rows' = Merged(v.rows, e.rows)
  BY DEF Commit
<1>3. site'.hash = IF e.site.hash # v.site.hash THEN e.site.hash ELSE site.hash
  <2>1. DOMAIN site = {"hash", "drawn"}
    BY <1>1 DEF Geometry
  <2> QED
    BY <2>1 DEF Commit
<1>4. /\ s \notin exposed
      /\ crossed => e.rows[s] = v.rows[s]
      /\ e.site.hash # v.site.hash => rows[s] = v.rows[s]
  BY DEF Commit, Missed
<1>5. ~Loose(rows[s], site.hash) /\ Held(site.hash, rows[s], rows[s])
  BY <1>4 DEF Forward, Held
<1>6. crossed => rows'[s] = rows[s]
  BY <1>1, <1>2, <1>4, MergedRow
<1>7. CASE e.site.hash # v.site.hash
  <2>1. ~Loose(e.rows[s], e.site.hash)
    BY <1>7 DEF SessionOK, EffectOK
  <2>2. rows'[s] = e.rows[s] \/ rows'[s].status = "ABSENT"
    BY <1>1, <1>2, <1>4, <1>7, MergedRow
  <2>3. ~Loose(rows'[s], site'.hash)
    BY <1>3, <1>7, <2>1, <2>2 DEF Loose, LiveRow
  <2>4. site'.hash = site.hash => crossed
    BY <1>3, <1>7 DEF SessionOK
  <2> QED
    BY <1>5, <1>6, <2>3, <2>4
<1>8. CASE e.site.hash = v.site.hash /\ crossed
  BY <1>3, <1>5, <1>6, <1>8
<1>9. CASE e.site.hash = v.site.hash /\ ~crossed
  <2>1. /\ v.site.hash = site.hash /\ site'.hash = site.hash
        /\ Held(site.hash, v.rows[s], rows[s]) /\ ~Loose(v.rows[s], site.hash)
        /\ Moved(site.hash, v.rows[s], e.rows[s])
    BY <1>3, <1>4, <1>9 DEF SessionOK, EffectOK
  <2> QED
    BY <1>1, <1>2, <1>5, <2>1, MergedMoved
<1> QED
  BY <1>7, <1>8, <1>9 DEF SessionOK

\* Everything else a commit writes.
LEMMA CommittedRest ==
  ASSUME TypeOK, NEW v, NEW e, NEW crossed, SessionOK(v, e, crossed), Commit(v, e, crossed)
  PROVE  /\ rows' \in [Ids -> Row] /\ site' \in Geometry /\ revisions' \in Seq(Geometry)
         /\ Len(revisions') \in 1 .. MaxRevisions
         /\ \E i \in DOMAIN revisions' : revisions'[i].hash = site'.hash
         /\ assessed' \subseteq Ids /\ refreshDue' \in BOOLEAN /\ exposed' \subseteq Ids
         /\ exposed \subseteq exposed'
         /\ \A i \in DOMAIN revisions : i \in DOMAIN revisions' /\ revisions'[i] = revisions[i]
<1>1. /\ v.rows \in [Ids -> Row] /\ v.site \in Geometry /\ e.rows \in [Ids -> Row]
      /\ e.site \in Geometry /\ rows \in [Ids -> Row] /\ site \in Geometry
      /\ e.added \in Seq(Geometry) /\ e.assesses \subseteq Ids
      /\ revisions \in Seq(Geometry) /\ Len(revisions) \in 1 .. MaxRevisions
      /\ MaxRevisions \in Nat
  BY DEF SessionOK, EffectOK, Effects, TypeOK
<1>2. rows' \in [Ids -> Row]
  <2>1. rows' = Merged(v.rows, e.rows)
    BY DEF Commit
  <2>2. \A s \in Ids : Merged(v.rows, e.rows)[s] \in Row
    BY <1>1, MergedRow
  <2>3. Merged(v.rows, e.rows) = [s \in Ids |-> Merged(v.rows, e.rows)[s]]
    BY DEF Merged
  <2> QED
    BY <2>1, <2>2, <2>3
<1>3. /\ site' \in Geometry
      /\ site'.hash = IF e.site.hash # v.site.hash THEN e.site.hash ELSE site.hash
  <2>1. /\ DOMAIN site = {"hash", "drawn"}
        /\ site' = [c \in {"hash", "drawn"} |-> IF e.site[c] # v.site[c] THEN e.site[c] ELSE site[c]]
    BY <1>1 DEF Commit, Geometry
  <2>2. /\ site'.hash = IF e.site.hash # v.site.hash THEN e.site.hash ELSE site.hash
        /\ site'.drawn = IF e.site.drawn # v.site.drawn THEN e.site.drawn ELSE site.drawn
        /\ site' = [hash |-> site'.hash, drawn |-> site'.drawn]
    BY <2>1
  <2>3. /\ e.site.hash \in Hashes /\ e.site.drawn \in BOOLEAN
        /\ site.hash \in Hashes /\ site.drawn \in BOOLEAN
    BY <1>1 DEF Geometry
  <2> QED
    BY <2>2, <2>3 DEF Geometry
<1>4. /\ revisions' = revisions \o e.added /\ Len(revisions) + Len(e.added) <= MaxRevisions
  BY DEF Commit
<1>5. /\ revisions' \in Seq(Geometry) /\ Len(revisions') = Len(revisions) + Len(e.added)
      /\ Len(revisions') \in 1 .. MaxRevisions
      /\ \A i \in DOMAIN revisions : i \in DOMAIN revisions' /\ revisions'[i] = revisions[i]
      /\ \A i \in DOMAIN e.added : /\ Len(revisions) + i \in DOMAIN revisions'
                                   /\ revisions'[Len(revisions) + i] = e.added[i]
  <2> DEFINE new == e.added
  <2>1. revisions \in Seq(Geometry) /\ new \in Seq(Geometry) /\ Len(revisions) \in 1 .. MaxRevisions
    BY <1>1
  <2>2. revisions' = revisions \o new /\ Len(revisions) + Len(new) <= MaxRevisions
    BY <1>4
  <2> HIDE DEF new
  <2>3. revisions' \in Seq(Geometry) /\ Len(revisions') = Len(revisions) + Len(new)
    BY <2>1, <2>2
  <2>4. Len(revisions') \in 1 .. MaxRevisions
    BY <2>1, <2>2, <2>3
  <2>5. \A i \in DOMAIN revisions : i \in DOMAIN revisions' /\ revisions'[i] = revisions[i]
    BY <2>1, <2>2
  <2>6. \A i \in DOMAIN new : /\ Len(revisions) + i \in DOMAIN revisions'
                            /\ revisions'[Len(revisions) + i] = new[i]
    BY <2>1, <2>2, <2>3
  <2> QED
    BY <2>3, <2>4, <2>5, <2>6 DEF new
<1>6. \E i \in DOMAIN revisions' : revisions'[i].hash = site'.hash
  <2>1. CASE e.site.hash = v.site.hash
    <3>1. PICK i \in DOMAIN revisions : revisions[i].hash = site.hash
      BY DEF TypeOK
    <3> QED
      BY <1>3, <1>5, <2>1, <3>1
  <2>2. CASE \E i \in DOMAIN revisions : e.site.hash # v.site.hash /\ revisions[i].hash = e.site.hash
    BY <1>3, <1>5, <2>2
  <2>3. CASE \E i \in DOMAIN e.added : e.site.hash # v.site.hash /\ e.added[i].hash = e.site.hash
    BY <1>3, <1>5, <2>3
  <2> QED
    BY <2>1, <2>2, <2>3 DEF SessionOK, Anchored
<1>7. exposed' \subseteq Ids /\ exposed \subseteq exposed'
  BY DEF Commit, Missed, TypeOK
<1>8. assessed' \subseteq Ids /\ refreshDue' \in BOOLEAN
  BY <1>1 DEF Commit, TypeOK
<1> QED
  BY <1>2, <1>3, <1>5, <1>6, <1>7, <1>8

\* What is held over two steps is held over both.
LEMMA HeldOn ==
  ASSUME NEW g, NEW p, NEW q, NEW r, Held(g, p, q), Held(g, q, r)
  PROVE  Held(g, p, r)
BY DEF Held

\* A request at work is still what it was after another one has committed, and has noticed if
\* that moved the geometry.
LEMMA SessionKept ==
  ASSUME TypeOK, Forward, NEW v, NEW e, NEW crossed, SessionOK(v, e, crossed), Commit(v, e, crossed),
         NEW w, NEW f, NEW c, SessionOK(w, f, c), NEW d, d = (c \/ site'.hash # site.hash)
  PROVE  SessionOK(w, f, d)'
<1>1. /\ exposed \subseteq exposed'
      /\ \A i \in DOMAIN revisions : i \in DOMAIN revisions' /\ revisions'[i] = revisions[i]
  BY CommittedRest
<1>2. Anchored(w, f, revisions')
  BY <1>1 DEF SessionOK, Anchored
<1>3. d \in BOOLEAN
  BY DEF SessionOK
<1>4. ASSUME ~d
      PROVE  /\ w.site.hash = site'.hash
             /\ \A s \in Ids \ exposed' : Held(site'.hash, w.rows[s], rows'[s])
  <2>1. ~c /\ site'.hash = site.hash
    BY <1>4
  <2>2. \A s \in Ids \ exposed' : Held(site.hash, rows[s], rows'[s])
    BY <2>1, CommittedRows
  <2>3. \A s \in Ids \ exposed' : Held(site.hash, w.rows[s], rows[s])
    BY <1>1, <2>1 DEF SessionOK
  <2> QED
    BY <2>1, <2>2, <2>3, HeldOn DEF SessionOK
<1> QED
  BY <1>1, <1>2, <1>3, <1>4 DEF SessionOK

-------------------------------------------------------------------------------
(* The rows under overlapping requests *)

\* The inductive invariant.
IInv ==
  /\ TypeOK /\ Forward
  /\ \A x \in Working : SessionOK(handler[x].view, handler[x].effect, handler[x].crossed)

\* A session loads the rows as they are.
LEMMA LoadedViewed ==
  ASSUME TypeOK
  PROVE  Viewed(Loaded) /\ Loaded.rows = rows /\ Loaded.site = site
         /\ Loaded.revisions = revisions /\ Loaded.assessed = assessed
BY DEF TypeOK, Viewed, Loaded

\* A request at work has loaded and decided.
LEMMA AtWork ==
  ASSUME TypeOK, NEW x \in Sessions
  PROVE  x \in Working => handler[x] \in Requests
BY DEF TypeOK, Working

\* What a request decides on what it has just loaded is in order.
LEMMA Decided ==
  ASSUME IInv, NEW e \in Requested(Loaded), NEW v, v.rows = rows, v.site = site
  PROVE  SessionOK(v, e, FALSE)
<1>1. EffectOK(Loaded, e) /\ Anchored(Loaded, e, Loaded.revisions)
  BY LoadedViewed, RequestedEffect DEF IInv
<1>2. EffectOK(v, e) /\ Anchored(v, e, revisions)
  BY <1>1, LoadedViewed DEF IInv, EffectOK, Anchored
<1> QED
  BY <1>2 DEF IInv, TypeOK, SessionOK, Forward, Held

\* An empty site is in order.
LEMMA Initially == Init => IInv
<1> SUFFICES ASSUME Init PROVE IInv
  OBVIOUS
<1>1. site \in Geometry /\ site.hash \in Hashes
  BY DEF Init, Geometry
<1>2. rows \in [Ids -> Row] /\ \A s \in Ids : rows[s].status = "ABSENT"
  BY <1>1 DEF Init, Row, ScenarioStatus, Confirmed
<1>3. /\ revisions \in Seq(Geometry) /\ Len(revisions) = 1 /\ 1 \in DOMAIN revisions
      /\ revisions[1] = site
  BY <1>1 DEF Init
<1>4. 1 \in 1 .. MaxRevisions
  OBVIOUS
<1>5. handler \in [Sessions -> [pc : {"waiting", "over"}] \cup Requests] /\ Working = {}
  BY DEF Init, Working
<1>6. assessed \subseteq Ids /\ refreshDue \in BOOLEAN /\ exposed \subseteq Ids
  BY DEF Init
<1>7. TypeOK
  BY <1>1, <1>2, <1>3, <1>4, <1>5, <1>6 DEF TypeOK
<1>8. Forward
  BY <1>2 DEF Forward, Loose, LiveRow
<1> QED
  BY <1>5, <1>7, <1>8 DEF IInv

\* A request that loads and decides now.
LEMMA BeginKeeps ==
  ASSUME IInv, NEW x \in Sessions, Begin(x)
  PROVE  IInv'
<1>1. PICK e \in Requested(Loaded) :
        handler' = [handler EXCEPT ![x] =
                      [pc |-> "working", view |-> [rows |-> rows, site |-> site], effect |-> e,
                       crossed |-> FALSE, overlaps |-> 0]]
  BY DEF Begin
<1> DEFINE w == [rows |-> rows, site |-> site]
           h == [pc |-> "working", view |-> w, effect |-> e, crossed |-> FALSE, overlaps |-> 0]
<1>2. SessionOK(w, e, FALSE)
  BY Decided
<1>3. w \in [rows : [Ids -> Row], site : Geometry]
  BY DEF IInv, TypeOK
<1>4. h \in Requests /\ h.view = w /\ h.effect = e /\ h.crossed = FALSE /\ h.pc = "working"
  <2>1. e \in Effects /\ 0 \in 0 .. MaxOverlaps
    BY <1>2 DEF SessionOK, EffectOK
  <2> HIDE DEF w
  <2> QED
    BY <1>3, <2>1 DEF Requests
<1>5. UNCHANGED <<rows, site, revisions, assessed, refreshDue, exposed>>
  BY DEF Begin
<1>6. handler' = [handler EXCEPT ![x] = h] /\ handler \in [Sessions -> [pc : {"waiting", "over"}] \cup Requests]
  BY <1>1 DEF IInv, TypeOK
<1> HIDE DEF h, w
<1>7. TypeOK' /\ Forward'
  BY <1>4, <1>5, <1>6 DEF IInv, TypeOK, Forward
<1>8. ASSUME NEW y \in Sessions, handler'[y].pc = "working"
      PROVE  SessionOK(handler'[y].view, handler'[y].effect, handler'[y].crossed)
  <2>1. CASE y = x
    BY <1>2, <1>4, <1>6, <2>1
  <2>2. CASE y # x
    <3>1. handler'[y] = handler[y] /\ y \in Working
      BY <1>6, <1>8, <2>2 DEF Working
    <3> QED
      BY <3>1 DEF IInv
  <2> QED
    BY <2>1, <2>2
<1>9. \A y \in Working' : SessionOK(handler[y].view, handler[y].effect, handler[y].crossed)'
  BY <1>5, <1>8 DEF Working, SessionOK
<1> QED
  BY <1>7, <1>9 DEF IInv

\* A request that fails on a conflict.
LEMMA AbortKeeps ==
  ASSUME IInv, NEW x \in Sessions, Abort(x)
  PROVE  IInv'
<1>1. /\ UNCHANGED <<rows, site, revisions, assessed, refreshDue, exposed>>
      /\ handler' = [handler EXCEPT ![x] = [pc |-> "over"]]
  BY DEF Abort
<1>2. TypeOK' /\ Forward'
  BY <1>1 DEF IInv, TypeOK, Forward
<1>3. \A y \in Working' : y \in Working /\ handler'[y] = handler[y]
  BY <1>1 DEF IInv, TypeOK, Working
<1>4. \A y \in Working' : SessionOK(handler[y].view, handler[y].effect, handler[y].crossed)'
  BY <1>1, <1>3 DEF IInv, SessionOK
<1> QED
  BY <1>2, <1>4 DEF IInv

\* The requests at work, after another one has committed: each is what it was before, and those
\* the commit leaves at work have noticed whether it moved the geometry.
LEMMA CommitKeeps ==
  ASSUME IInv, NEW v, NEW e, NEW crossed, SessionOK(v, e, crossed), Commit(v, e, crossed),
         handler' \in [Sessions -> [pc : {"waiting", "over"}] \cup Requests],
         \A y \in Working' : /\ y \in Working
                             /\ handler'[y].view = handler[y].view
                             /\ handler'[y].effect = handler[y].effect
                             /\ handler'[y].crossed = (handler[y].crossed \/ site'.hash # site.hash)
  PROVE  IInv'
<1>1. TypeOK'
  BY CommittedRest DEF IInv, TypeOK
<1>2. Forward'
  <2>1. \A s \in Ids : s \notin exposed' => ~Loose(rows'[s], site'.hash)
    BY CommittedRows DEF IInv
  <2> QED
    BY <2>1 DEF Forward
<1>3. ASSUME NEW y \in Working'
      PROVE  SessionOK(handler[y].view, handler[y].effect, handler[y].crossed)'
  <2>1. PICK w, f, c, d : /\ w = handler[y].view /\ f = handler[y].effect /\ c = handler[y].crossed
                          /\ d = (c \/ site'.hash # site.hash)
    OBVIOUS
  <2>2. SessionOK(w, f, c)
    BY <2>1 DEF IInv
  <2>3. SessionOK(w, f, d)'
    BY <2>1, <2>2, SessionKept DEF IInv
  <2>4. handler'[y].view = w /\ handler'[y].effect = f /\ handler'[y].crossed = d
    BY <2>1
  <2> QED
    BY <2>3, <2>4
<1> QED
  BY <1>1, <1>2, <1>3 DEF IInv

\* A request that nothing overlaps; those at work notice it.
LEMMA ServeKeeps ==
  ASSUME IInv, NEW e \in Requested(Loaded), Serve(e)
  PROVE  IInv'
<1>1. SessionOK(Loaded, e, FALSE) /\ Commit(Loaded, e, FALSE)
  BY Decided, LoadedViewed DEF IInv, Serve
<1> DEFINE moved == site'.hash # site.hash
<1>2. ASSUME NEW y \in Sessions
      PROVE  handler'[y] = IF y \in Working
                           THEN [handler[y] EXCEPT !.crossed = @ \/ moved, !.overlaps = @ + 1]
                           ELSE handler[y]
  BY DEF Serve
<1>3. moved \in BOOLEAN
  OBVIOUS
<1> HIDE DEF moved
<1>4. ASSUME NEW y \in Working
      PROVE  /\ handler'[y] \in Requests
             /\ handler'[y].view = handler[y].view /\ handler'[y].effect = handler[y].effect
             /\ handler'[y].crossed = (handler[y].crossed \/ moved)
  <2>1. y \in Sessions /\ handler[y] \in Requests /\ handler[y].overlaps < MaxOverlaps
    BY AtWork DEF IInv, Serve, Working
  <2> DEFINE c == handler[y].crossed \/ moved
             n == handler[y].overlaps + 1
  <2>2. handler'[y] = [handler[y] EXCEPT !.crossed = c, !.overlaps = n]
    BY <1>2, <2>1
  <2>3. c \in BOOLEAN /\ n \in 0 .. MaxOverlaps
    BY <1>3, <2>1 DEF Requests
  <2> HIDE DEF n
  <2>4. handler'[y].crossed = c
    BY <2>1, <2>2 DEF Requests
  <2> HIDE DEF c
  <2>5. /\ handler'[y] \in Requests
        /\ handler'[y].view = handler[y].view /\ handler'[y].effect = handler[y].effect
    BY <2>1, <2>2, <2>3 DEF Requests
  <2> QED
    BY <2>4, <2>5 DEF c
<1>5. handler' \in [Sessions -> [pc : {"waiting", "over"}] \cup Requests]
  <2>1. \A y \in Sessions : y \notin Working => handler'[y] = handler[y]
    BY <1>2
  <2>2. DOMAIN handler' = Sessions /\ handler' = [y \in Sessions |-> handler'[y]]
    BY DEF Serve
  <2>3. \A y \in Sessions : handler'[y] \in [pc : {"waiting", "over"}] \cup Requests
    BY <1>4, <2>1 DEF IInv, TypeOK
  <2> QED
    BY <2>2, <2>3
<1>6. Working' = Working
  <2>1. \A y \in Sessions : y \in Working => handler'[y].pc = "working"
    BY <1>4 DEF Requests
  <2>2. \A y \in Sessions : y \notin Working => handler'[y] = handler[y]
    BY <1>2
  <2> QED
    BY <2>1, <2>2 DEF Working
<1> QED
  BY <1>1, <1>4, <1>5, <1>6, CommitKeeps DEF moved

\* A request that was overlapped commits.
LEMMA FinishKeeps ==
  ASSUME IInv, NEW x \in Sessions, Finish(x)
  PROVE  IInv'
<1>1. PICK v, e, c : /\ v = handler[x].view /\ e = handler[x].effect /\ c = handler[x].crossed
                     /\ SessionOK(v, e, c) /\ Commit(v, e, c)
  BY DEF Finish, IInv
<1> DEFINE moved == site'.hash # site.hash
<1>2. ASSUME NEW y \in Sessions
      PROVE  /\ y = x => handler'[y] = [pc |-> "over"]
             /\ y \in Working /\ y # x => handler'[y] = [handler[y] EXCEPT !.crossed = @ \/ moved]
             /\ y \notin Working /\ y # x => handler'[y] = handler[y]
  BY DEF Finish
<1>3. moved \in BOOLEAN
  OBVIOUS
<1> HIDE DEF moved
<1>4. ASSUME NEW y \in Working, y # x
      PROVE  /\ handler'[y] \in Requests
             /\ handler'[y].view = handler[y].view /\ handler'[y].effect = handler[y].effect
             /\ handler'[y].crossed = (handler[y].crossed \/ moved)
  <2>1. y \in Sessions /\ handler[y] \in Requests
    BY AtWork DEF IInv, Working
  <2> DEFINE d == handler[y].crossed \/ moved
  <2>2. handler'[y] = [handler[y] EXCEPT !.crossed = d]
    BY <1>2, <1>4, <2>1
  <2>3. d \in BOOLEAN
    BY <1>3, <2>1 DEF Requests
  <2>4. handler'[y].crossed = d
    BY <2>1, <2>2 DEF Requests
  <2> HIDE DEF d
  <2>5. /\ handler'[y] \in Requests
        /\ handler'[y].view = handler[y].view /\ handler'[y].effect = handler[y].effect
    BY <2>1, <2>2, <2>3 DEF Requests
  <2> QED
    BY <2>4, <2>5 DEF d
<1>5. handler' \in [Sessions -> [pc : {"waiting", "over"}] \cup Requests]
  <2>1. handler' = [y \in Sessions |-> handler'[y]]
    BY DEF Finish
  <2>2. ASSUME NEW y \in Sessions PROVE handler'[y] \in [pc : {"waiting", "over"}] \cup Requests
    <3>1. CASE y = x
      <4>1. handler'[y] = [pc |-> "over"]
        BY <1>2, <3>1
      <4>2. [pc |-> "over"] \in [pc : {"waiting", "over"}]
        OBVIOUS
      <4> QED
        BY <4>1, <4>2
    <3>2. CASE y \in Working /\ y # x
      BY <1>4, <3>2
    <3>3. CASE y \notin Working /\ y # x
      BY <1>2, <3>3 DEF IInv, TypeOK
    <3> QED
      BY <3>1, <3>2, <3>3
  <2> QED
    BY <2>1, <2>2
<1>6. ASSUME NEW y \in Working' PROVE y \in Working /\ y # x
  <2>1. y \in Sessions /\ handler'[y].pc = "working"
    BY DEF Working
  <2>2. y # x
    <3>1. SUFFICES ASSUME y = x PROVE FALSE
      OBVIOUS
    <3>2. handler'[y] = [pc |-> "over"]
      BY <1>2, <2>1, <3>1
    <3> QED
      BY <2>1, <3>2
  <2>3. y \notin Working => handler[y].pc = "working"
    BY <1>2, <2>1, <2>2
  <2> QED
    BY <2>1, <2>2, <2>3 DEF Working
<1> QED
  BY <1>1, <1>4, <1>5, <1>6, CommitKeeps DEF moved

\* Every step serves a request, or is one of an overlapped request.
LEMMA NextIs ==
  ASSUME Next
  PROVE  \/ \E e \in Requested(Loaded) : Serve(e)
         \/ \E x \in Sessions : Begin(x) \/ Finish(x) \/ Abort(x)
BY DEF Next, Requested

\* Every step keeps the invariant.
LEMMA Step == IInv /\ [Next]_vars => IInv'
<1> SUFFICES ASSUME IInv, [Next]_vars PROVE IInv'
  OBVIOUS
<1>1. CASE Next
  BY <1>1, NextIs, ServeKeeps, BeginKeeps, FinishKeeps, AbortKeeps
<1>2. CASE UNCHANGED vars
  BY <1>2 DEF vars, IInv, TypeOK, Forward, Working, SessionOK
<1> QED
  BY <1>1, <1>2

\* The inductive invariant holds in every reachable state, overlapping requests included.
THEOREM ScenarioInvariant == Spec => []IInv
BY Initially, Step, PTL DEF Spec

\* Rows, revisions and requests are well formed, and the geometry of the site is always one of
\* its revisions, so that persisting a scenario never fails to find one to freeze.
THEOREM RowsTyped == Spec => []TypeOK
<1>1. IInv => TypeOK
  BY DEF IInv
<1> QED
  BY <1>1, ScenarioInvariant, PTL

\* However requests interleave, a live scenario frozen on another geometry than the site's is
\* marked stale, under review and unconfirmed, unless a request that overlapped the geometry
\* change wrote it: each handler on its own does its marking.
THEOREM CarriedForwardOnlyByOverlap == Spec => []OnlyOverlapCarriesForward
<1>1. IInv => OnlyOverlapCarriesForward
  BY ForwardIs DEF IInv
<1> QED
  BY <1>1, ScenarioInvariant, PTL

-------------------------------------------------------------------------------
(* The rows under requests that do not overlap *)

\* Requests do not overlap.
Sequential == Sessions = {}

\* A served request, merged into the rows it has loaded, leaves what it decided.
LEMMA ServedRows ==
  ASSUME IInv, NEW e \in Requested(Loaded), Serve(e),
         \A s \in Ids : rows[s].status # "ABSENT" => e.rows[s].status # "ABSENT"
  PROVE  /\ \A s \in Ids : \/ rows'[s] = e.rows[s]
                           \/ /\ rows'[s].status = "ABSENT" /\ e.rows[s].status = "ABSENT"
                              /\ rows'[s] = rows[s]
         /\ assessed' = assessed \cup e.assesses
<1>1. EffectOK(Loaded, e) /\ Loaded.rows = rows
  BY LoadedViewed, RequestedEffect DEF IInv
<1>2. /\ rows' = Merged(rows, e.rows) /\ assessed' = assessed \cup e.assesses
      /\ e.rows \in [Ids -> Row] /\ rows \in [Ids -> Row]
  BY <1>1 DEF Serve, Commit, IInv, TypeOK, EffectOK, Effects
<1>3. ASSUME NEW s \in Ids
      PROVE  \/ rows'[s] = e.rows[s]
             \/ /\ rows'[s].status = "ABSENT" /\ e.rows[s].status = "ABSENT"
                /\ rows'[s] = rows[s]
  <2> DEFINE m == Merged(rows, e.rows)[s]
  <2>1. /\ e.rows[s].status # "ABSENT" => m = e.rows[s]
        /\ rows[s].status = "ABSENT" => m = IF e.rows[s].status = "ABSENT" THEN rows[s] ELSE e.rows[s]
    BY <1>2, MergedRow
  <2>2. m = rows'[s]
    BY <1>2
  <2> HIDE DEF m
  <2> QED
    BY <2>1, <2>2
<1> QED
  BY <1>2, <1>3

\* The invariant when requests do not overlap.
SInv == IInv /\ Found(Loaded)

\* Without overlaps each request finds the rows as the one before has left them.
LEMMA SequentialStep == Sequential /\ SInv /\ [Next]_vars => SInv'
<1> SUFFICES ASSUME Sequential, SInv, [Next]_vars PROVE SInv'
  OBVIOUS
<1>1. IInv'
  BY Step DEF SInv
<1>2. CASE UNCHANGED vars
  BY <1>1, <1>2 DEF vars, SInv, Loaded
<1>3. ASSUME NEW e \in Requested(Loaded), Serve(e) PROVE Found(Loaded)'
  <2>1. Left(Loaded, e) /\ Found(Loaded) /\ rows \in [Ids -> Row] /\ assessed \subseteq Ids
    BY LoadedViewed, RequestedEffect DEF SInv, IInv, TypeOK
  <2>2. /\ HeadlineOK(rows) /\ TwinsOK(rows) /\ \A s \in assessed : rows[s].status # "ABSENT"
        /\ HeadlineOK(e.rows) /\ TwinsOK(e.rows)
        /\ \A s \in Ids : rows[s].status # "ABSENT" => e.rows[s].status # "ABSENT"
        /\ \A s \in e.assesses : e.rows[s].status # "ABSENT"
    BY <2>1, LoadedViewed DEF SInv, IInv, Found, Left
  <2>3. /\ \A s \in Ids : \/ rows'[s] = e.rows[s]
                          \/ /\ rows'[s].status = "ABSENT" /\ e.rows[s].status = "ABSENT"
                             /\ rows'[s] = rows[s]
        /\ assessed' = assessed \cup e.assesses
    BY <1>3, <2>2, ServedRows DEF SInv
  <2>4. \A s \in Ids : rows'[s].headline => rows'[s] = e.rows[s]
    BY <2>2, <2>3 DEF HeadlineOK, LiveRow
  <2>5. HeadlineOK(rows')
    BY <2>2, <2>4 DEF HeadlineOK
  <2>6. TwinsOK(rows')
    <3>1. \A s \in Suggested : s \in Ids
      BY DEF Ids
    <3> QED
      BY <2>2, <2>3, <3>1 DEF TwinsOK, Automatic, LiveRow
  <2>7. e.assesses \subseteq Ids
    <3>1. EffectOK(Loaded, e)
      BY LoadedViewed, RequestedEffect DEF SInv, IInv
    <3> QED
      BY <3>1 DEF EffectOK, Effects
  <2>8. \A s \in assessed' : rows'[s].status # "ABSENT"
    BY <2>1, <2>2, <2>3, <2>7
  <2> QED
    BY <2>5, <2>6, <2>8 DEF Found, Loaded
<1>4. CASE Next
  BY <1>1, <1>3, <1>4, NextIs DEF SInv, Sequential
<1> QED
  BY <1>2, <1>4

\* Without overlaps one row at most has the headline and no template has two suggestions, in
\* every state that a request loads.
THEOREM SequentialInvariant ==
  ASSUME Sequential
  PROVE  Spec => []SInv
<1>1. Init => SInv
  <2> SUFFICES ASSUME Init PROVE SInv
    OBVIOUS
  <2>1. IInv /\ \A s \in Ids : rows[s].status = "ABSENT" /\ ~rows[s].headline
    BY Initially DEF Init
  <2>2. HeadlineOK(rows) /\ TwinsOK(rows)
    <3>1. \A s \in Suggested : s \in Ids
      BY DEF Ids
    <3> QED
      BY <2>1, <3>1 DEF HeadlineOK, TwinsOK, Automatic, LiveRow
  <2>3. assessed = {}
    BY DEF Init
  <2> QED
    BY <2>1, <2>2, <2>3 DEF SInv, Found, Loaded
<1> QED
  BY <1>1, SequentialStep, PTL DEF Spec

\* Without overlaps the headline is unique and on a live scenario, through suggestion,
\* confirmation, supersession, rejection and every kind of staleness.
THEOREM OneHeadline ==
  ASSUME Sequential
  PROVE  Spec => []HeadlineSound
<1>1. SInv => HeadlineSound
  <2> SUFFICES ASSUME SInv PROVE HeadlineSound
    OBVIOUS
  <2>1. HeadlineOK(rows) /\ \A s \in Ids : s \in Live(rows) <=> LiveRow(rows[s])
    BY LiveIs DEF SInv, IInv, TypeOK, Found, Loaded
  <2> QED
    BY <2>1 DEF HeadlineOK, HeadlineSound
<1> QED
  BY <1>1, SequentialInvariant, PTL

\* Without overlaps refresh_site_scenarios leaves one current suggestion per template, although
\* the ids it derives change with the geometry revision and the contents.
THEOREM NoTwinSuggestions ==
  ASSUME Sequential
  PROVE  Spec => []OneSuggestionPerTemplate
<1>1. SInv => OneSuggestionPerTemplate
  <2> SUFFICES ASSUME SInv PROVE OneSuggestionPerTemplate
    OBVIOUS
  <2>1. TwinsOK(rows) /\ \A s \in Ids : s \in Live(rows) <=> LiveRow(rows[s])
    BY LiveIs DEF SInv, IInv, TypeOK, Found, Loaded
  <2>2. \A s \in Suggested : s \in Ids
    BY DEF Ids
  <2> QED
    BY <2>1, <2>2 DEF TwinsOK, Automatic, OneSuggestionPerTemplate
<1> QED
  BY <1>1, SequentialInvariant, PTL

\* Without overlaps no step moves the geometry that an assessed scenario is frozen on, but for
\* a suggestion that finds its own id again.
THEOREM AssessedStay ==
  ASSUME Sequential
  PROVE  Spec => OnlyTheMachineMovesAssessed
<1> DEFINE A == \A s \in assessed : rows'[s].hash # rows[s].hash =>
                  rows'[s].source = "AUTO" /\ rows'[s].hash = site.hash
<1>1. SInv /\ [Next]_vars => [A]_vars
  <2> SUFFICES ASSUME SInv, [Next]_vars PROVE A \/ UNCHANGED vars
    OBVIOUS
  <2>1. ASSUME NEW e \in Requested(Loaded), Serve(e) PROVE A
    <3>1. Left(Loaded, e) /\ Found(Loaded) /\ assessed \subseteq Ids
      BY LoadedViewed, RequestedEffect DEF SInv, IInv, TypeOK
    <3>2. /\ \A s \in assessed : rows[s].status # "ABSENT"
          /\ \A s \in Ids : rows[s].status # "ABSENT" => e.rows[s].status # "ABSENT"
          /\ \A s \in assessed : e.rows[s].hash # rows[s].hash =>
               e.rows[s].source = "AUTO" /\ e.rows[s].hash = site.hash
      BY <3>1, LoadedViewed DEF SInv, IInv, Found, Left
    <3>3. \A s \in Ids : \/ rows'[s] = e.rows[s]
                         \/ rows'[s] = rows[s]
      BY <2>1, <3>2, ServedRows DEF SInv
    <3> QED
      BY <3>1, <3>2, <3>3
  <2> QED
    BY <2>1, NextIs DEF Sequential
<1>2. SInv /\ [Next]_vars =>
        [\A s \in assessed : rows'[s].hash # rows[s].hash =>
           /\ rows'[s].source = "AUTO"
           /\ rows'[s].hash = site.hash]_vars
  BY <1>1
<1> QED
  BY <1>2, SequentialInvariant, PTL DEF Spec, OnlyTheMachineMovesAssessed
====
