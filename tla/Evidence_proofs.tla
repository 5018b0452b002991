----------------------------- MODULE Evidence_proofs -----------------------------
(***************************************************************************)
(* Proofs about the site in Evidence: what a refresh that no other commit  *)
(* fell into leaves behind, whatever the registers hold and however many   *)
(* transactions are under way, what a verdict, a confirmation or a set of  *)
(* comparables then takes from it, and the types of all the tables.        *)
(***************************************************************************)
EXTENDS Labels_proofs, FiniteSetTheorems

SiteRow(r) ==
  /\ r = [geometry |-> r.geometry, borough |-> r.borough, warnings |-> r.warnings,
          review |-> r.review, status |-> r.status]
  /\ r.warnings = [crossing |-> r.warnings.crossing, gaps |-> r.warnings.gaps,
                   noPack |-> r.warnings.noPack]
  /\ r.geometry \in Geometries

Loaded(t) ==
  /\ t = [stage |-> "loaded", kind |-> t.kind, g |-> t.g, seen |-> t.seen, old |-> t.old,
          dirty |-> t.dirty]
  /\ t.kind \in Kinds /\ t.g \in Geometries /\ SiteRow(t.seen) /\ t.dirty \in BOOLEAN

Matched(t) ==
  /\ t = [stage |-> "matched", kind |-> t.kind, old |-> t.old, new |-> t.new, apps |-> t.apps,
          row |-> t.row, dirty |-> t.dirty]
  /\ t.kind \in Kinds /\ SiteRow(t.row) /\ t.dirty \in BOOLEAN

\* A transaction that no commit has fallen into still has the site as it is before it, and
\* the rows it is about to insert are measured on the red line it is about to write.
LoadedStands(t) ==
  t.dirty \/ (t.seen = site /\ t.old = links /\ (t.kind # "geometry" => t.g = site.geometry))
MatchedStands(t) ==
  t.dirty \/ /\ t.old = links
             /\ \A x \in Tables : \A r \in t.new[x] : r.on = t.row.geometry
             /\ t.new.application = ToApplications(t.row.geometry, t.apps)
             /\ IF t.kind = "geometry" THEN t.row.borough = Controlling(t.row.geometry)
                                       ELSE t.row = site

TxInv(t) == \/ t = Idle
            \/ Loaded(t) /\ LoadedStands(t)
            \/ Matched(t) /\ MatchedStands(t)

\* The borough is that of the red line.
BoroughStands == ~screened.torn => site.borough = Controlling(site.geometry)

\* The warnings, the review and the status are those of one look at the registers.
ContextStands ==
  screened.writer # "links" /\ ~screened.mixed =>
    /\ site.warnings.gaps = {} => site.borough \in Boroughs
    /\ site.status = Status(site.geometry, site.review)
    /\ site.review = (\/ Weak(site.geometry) \/ site.warnings.crossing
                      \/ site.warnings.gaps # {} \/ site.warnings.noPack)

\* The links to applications are those that the register as it was read gives the red line.
LinksAsRead ==
  ~screened.mixed => links.application = ToApplications(site.geometry, screened.apps)

Screens == screened.mixed \in BOOLEAN /\ screened.torn \in BOOLEAN

IInv == /\ SiteRow(site) /\ Screens
        /\ tx = [p \in Actors |-> tx[p]]
        /\ \A p \in Actors : TxInv(tx[p])
        /\ BoroughStands /\ ContextStands /\ LinksOfOneGeometry /\ LinksAsRead

-------------------------------------------------------------------------------
(* What a refresh computes *)

\* Looking at the borough and the titles sets the red line and its borough.
LEMMA WithLinksRow ==
  ASSUME NEW row, SiteRow(row), NEW g \in Geometries
  PROVE  /\ SiteRow(WithLinks(row, g))
         /\ WithLinks(row, g).geometry = g /\ WithLinks(row, g).borough = Controlling(g)
<1> DEFINE crossing == CrossesMaterially(g)
           review == crossing \/ Weak(g)
           w == [row.warnings EXCEPT !.crossing = crossing]
<1>1. WithLinks(row, g) = [geometry |-> g, borough |-> Controlling(g), review |-> review,
                           status |-> Status(g, review), warnings |-> w]
  BY DEF WithLinks
<1>2. w = [crossing |-> w.crossing, gaps |-> w.gaps, noPack |-> w.noPack]
  <2> HIDE DEF crossing
  <2> QED
    BY DEF SiteRow
<1> HIDE DEF review, w
<1> QED
  BY <1>1, <1>2 DEF SiteRow

\* Looking at the registers leaves both alone, and sets warnings, review and status together.
LEMMA WithContextRow ==
  ASSUME NEW row, SiteRow(row), NEW d
  PROVE  LET r == WithContext(row, d)
         IN  /\ SiteRow(r) /\ r.geometry = row.geometry /\ r.borough = row.borough
             /\ r.warnings.gaps = {} => r.borough \in Boroughs
             /\ r.status = Status(r.geometry, r.review)
             /\ r.review = (\/ Weak(r.geometry) \/ r.warnings.crossing
                            \/ r.warnings.gaps # {} \/ r.warnings.noPack)
<1> DEFINE gaps == CoverageGaps(d.snapshots, row.borough)
           noPack == PackMissing(d, row.borough)
           review == Weak(row.geometry) \/ row.warnings.crossing \/ gaps # {} \/ noPack
           w == [crossing |-> row.warnings.crossing, gaps |-> gaps, noPack |-> noPack]
           r == WithContext(row, d)
<1>1. r = [geometry |-> row.geometry, borough |-> row.borough, review |-> review,
           status |-> Status(row.geometry, review), warnings |-> w]
  BY DEF WithContext
<1>2. /\ w = [crossing |-> w.crossing, gaps |-> w.gaps, noPack |-> w.noPack]
      /\ w.gaps = gaps /\ w.noPack = noPack /\ w.crossing = row.warnings.crossing
  OBVIOUS
<1>3. gaps = {} => row.borough \in Boroughs
  BY DEF CoverageGaps, MANDATORY
<1>4. /\ r.geometry = row.geometry /\ r.borough = row.borough /\ r.review = review
      /\ r.status = Status(row.geometry, review) /\ r.warnings = w
  <2> HIDE DEF r, review, w
  <2> QED
    BY <1>1
<1>5. SiteRow(r)
  <2> HIDE DEF r, review, w
  <2> QED
    BY <1>1, <1>2 DEF SiteRow
<1>6. review = (\/ Weak(r.geometry) \/ w.crossing \/ w.gaps # {} \/ w.noPack)
  <2> HIDE DEF r, gaps, noPack, w
  <2> QED
    BY <1>2, <1>4, Zenon DEF review
<1> HIDE DEF review, w, gaps
<1> QED
  BY <1>2, <1>3, <1>4, <1>5, <1>6, Zenon

\* A session that changes a row nobody else has changed writes what it wanted.
LEMMA MergeAlone ==
  ASSUME NEW want, NEW seen, SiteRow(want), SiteRow(seen)
  PROVE  Merge(want, seen, seen) = want
BY DEF Merge, SiteRow

\* A column the session did not change stays as it is by now.
LEMMA MergeKeeps ==
  ASSUME NEW want, NEW seen, NEW now, SiteRow(want), SiteRow(seen), SiteRow(now),
         want.geometry = seen.geometry
  PROVE  /\ SiteRow(Merge(want, seen, now))
         /\ Merge(want, seen, now).geometry = now.geometry
         /\ want.borough = seen.borough => Merge(want, seen, now).borough = now.borough
BY DEF Merge, SiteRow

\* What a session writes is a row, whatever the row has become.
LEMMA MergeRow ==
  ASSUME NEW want, NEW seen, NEW now, SiteRow(want), SiteRow(seen), SiteRow(now)
  PROVE  SiteRow(Merge(want, seen, now))
<1> DEFINE r == Merge(want, seen, now)
<1>1. r = [geometry |-> r.geometry, borough |-> r.borough, warnings |-> r.warnings,
           review |-> r.review, status |-> r.status]
  BY DEF Merge, SiteRow
<1>2. /\ DOMAIN now = {"geometry", "borough", "warnings", "review", "status"}
      /\ r.geometry = IF want.geometry # seen.geometry THEN want.geometry ELSE now.geometry
      /\ r.warnings = IF want.warnings # seen.warnings THEN want.warnings ELSE now.warnings
  BY DEF Merge, SiteRow
<1> HIDE DEF r
<1>3. r.geometry \in Geometries
  BY <1>2 DEF SiteRow
<1>4. r.warnings = [crossing |-> r.warnings.crossing, gaps |-> r.warnings.gaps,
                    noPack |-> r.warnings.noPack]
  <2>1. r.warnings = want.warnings \/ r.warnings = now.warnings
    BY <1>2
  <2> QED
    BY <2>1, Zenon DEF SiteRow
<1>5. SiteRow(r)
  BY <1>1, <1>3, <1>4 DEF SiteRow
<1> QED
  BY <1>5 DEF r

\* Every row a refresh inserts is measured on its red line.
LEMMA MatchingOn ==
  ASSUME NEW g, NEW d, NEW x \in Tables, NEW r \in Matching(g, d)[x]
  PROVE  r.on = g
BY DEF Matching, Tables, ToBoroughs, ToTitles, ToApplications, ToZones

-------------------------------------------------------------------------------
(* Every step keeps the invariant *)

LEMMA InitHolds == Init => IInv
<1> SUFFICES ASSUME Init
             PROVE  IInv
  OBVIOUS
<1> USE DEF Init, ScreeningInit
<1> DEFINE row == WithLinks(BuiltRow, FirstGeometry)
<1>1. SiteRow(BuiltRow) /\ FirstGeometry \in Geometries
  BY ScreeningAssumption DEF BuiltRow, SiteRow
<1>2. SiteRow(row) /\ row.geometry = FirstGeometry /\ row.borough = Controlling(FirstGeometry)
  BY <1>1, WithLinksRow
<1>3. /\ SiteRow(site) /\ site.geometry = FirstGeometry
      /\ site.borough = Controlling(FirstGeometry)
      /\ site.warnings.gaps = {} => site.borough \in Boroughs
      /\ site.status = Status(site.geometry, site.review)
      /\ site.review = (\/ Weak(site.geometry) \/ site.warnings.crossing
                        \/ site.warnings.gaps # {} \/ site.warnings.noPack)
  <2> HIDE DEF row
  <2>1. site = WithContext(row, db)
    BY DEF row
  <2> DEFINE r == WithContext(row, db)
  <2>2. /\ SiteRow(r) /\ r.geometry = row.geometry /\ r.borough = row.borough
        /\ r.warnings.gaps = {} => r.borough \in Boroughs
        /\ r.status = Status(r.geometry, r.review)
        /\ r.review = (\/ Weak(r.geometry) \/ r.warnings.crossing
                       \/ r.warnings.gaps # {} \/ r.warnings.noPack)
    BY <1>2, WithContextRow, Zenon
  <2> HIDE DEF r
  <2>3. site = r
    BY <2>1 DEF r
  <2> QED
    BY <1>2, <2>2, <2>3, Zenon
<1>4. LinksOfOneGeometry
  BY <1>3, MatchingOn DEF LinksOfOneGeometry
<1>l. LinksAsRead
  BY <1>3 DEF LinksAsRead, Matching
<1>5. screened.mixed = FALSE /\ screened.torn = FALSE
  OBVIOUS
<1>6. \A p \in Actors : TxInv(tx[p])
  BY DEF TxInv
<1> QED
  BY <1>3, <1>4, <1>l, <1>5, <1>6, Zenon DEF IInv, Screens, BoroughStands, ContextStands

LEMMA LoadKeeps ==
  ASSUME IInv, NEW p \in Actors, NEW kind \in Kinds, NEW g \in Geometries,
         kind # "geometry" => g = site.geometry, Load(p, kind, g)
  PROVE  IInv'
<1> DEFINE t == [stage |-> "loaded", kind |-> kind, g |-> g, seen |-> site, old |-> links,
                 dirty |-> FALSE]
<1>1. tx' = [tx EXCEPT ![p] = t] /\ UNCHANGED <<site, links, screened>>
  BY DEF Load
<1>2. tx' = [q \in Actors |-> tx'[q]] /\ tx'[p] = t
      /\ \A q \in Actors \ {p} : tx'[q] = tx[q]
  BY <1>1 DEF IInv
<1>3. Loaded(t)
  BY DEF Loaded, IInv
<1>4. LoadedStands(t)
  BY DEF LoadedStands
<1>5. ASSUME NEW q \in Actors
      PROVE  TxInv(tx[q])'
  <2>1. CASE q = p
    BY <1>1, <1>2, <1>3, <1>4, <2>1 DEF TxInv, LoadedStands, MatchedStands
  <2>2. CASE q # p
    BY <1>1, <1>2, <2>2 DEF IInv, TxInv, LoadedStands, MatchedStands
  <2> QED
    BY <2>1, <2>2
<1> QED
  BY <1>1, <1>2, <1>5 DEF IInv, Screens, BoroughStands, ContextStands, LinksOfOneGeometry,
                                LinksAsRead

LEMMA AbortKeeps ==
  ASSUME IInv, NEW p \in Actors, Abort(p)
  PROVE  IInv'
<1>1. tx' = [tx EXCEPT ![p] = Idle] /\ UNCHANGED <<site, links, screened>>
  BY DEF Abort
<1>2. tx' = [q \in Actors |-> tx'[q]] /\ tx'[p] = Idle
      /\ \A q \in Actors \ {p} : tx'[q] = tx[q]
  BY <1>1 DEF IInv
<1>3. \A q \in Actors : TxInv(tx[q])'
  BY <1>1, <1>2 DEF IInv, TxInv, LoadedStands, MatchedStands
<1> QED
  BY <1>1, <1>2, <1>3 DEF IInv, Screens, BoroughStands, ContextStands, LinksOfOneGeometry,
                                LinksAsRead

LEMMA MatchKeeps ==
  ASSUME IInv, NEW p \in Actors, Match(p)
  PROVE  IInv'
<1> DEFINE t == tx[p]
           wanted == CASE t.kind = "geometry" -> Merge(WithLinks(t.seen, t.g), t.seen, site)
                       [] t.kind = "enrich" -> site
                       [] t.kind = "links" -> t.seen
<1>1. PICK old \in {t.old, links} :
        tx' = [tx EXCEPT ![p] = [stage |-> "matched", kind |-> t.kind, old |-> old,
                                 new |-> Matching(t.g, db), apps |-> db.applications,
                                 row |-> wanted, dirty |-> t.dirty]]
  BY DEF Match
<1>2. UNCHANGED <<site, links, screened>> /\ t.stage = "loaded"
  BY DEF Match
<1>3. Loaded(t) /\ LoadedStands(t)
  BY <1>2 DEF IInv, TxInv, Idle, Matched
<1> DEFINE m == [stage |-> "matched", kind |-> t.kind, old |-> old, new |-> Matching(t.g, db),
                 apps |-> db.applications, row |-> wanted, dirty |-> t.dirty]
<1> HIDE DEF t
<1>4. /\ t.kind \in Kinds /\ t.g \in Geometries /\ t.dirty \in BOOLEAN
      /\ SiteRow(t.seen) /\ SiteRow(site)
  BY <1>3 DEF Loaded, IInv
<1>5. /\ SiteRow(WithLinks(t.seen, t.g)) /\ WithLinks(t.seen, t.g).geometry = t.g
      /\ WithLinks(t.seen, t.g).borough = Controlling(t.g)
  BY <1>4, WithLinksRow
<1>6. SiteRow(wanted)
  BY <1>4, <1>5, MergeRow DEF Kinds
<1>7. ASSUME ~t.dirty
      PROVE  /\ wanted.geometry = t.g
             /\ IF t.kind = "geometry" THEN wanted.borough = Controlling(wanted.geometry)
                                       ELSE wanted = site
  <2>1. t.seen = site /\ (t.kind # "geometry" => t.g = site.geometry)
    BY <1>3, <1>7 DEF LoadedStands
  <2>2. t.kind = "geometry" => wanted = WithLinks(t.seen, t.g)
    BY <1>4, <1>5, <2>1, MergeAlone
  <2>3. t.kind # "geometry" => wanted = site
    BY <1>4, <2>1 DEF Kinds
  <2> HIDE DEF wanted
  <2> QED
    BY <1>5, <2>1, <2>2, <2>3
<1>8. Matched(m)
  <2> HIDE DEF wanted
  <2> QED
    BY <1>4, <1>6 DEF Matched
<1>9. MatchedStands(m)
  <2>1. t.dirty \/ old = links
    BY <1>3 DEF LoadedStands
  <2>2. \A x \in Tables : \A r \in Matching(t.g, db)[x] : r.on = t.g
    BY MatchingOn
  <2>3. Matching(t.g, db).application = ToApplications(t.g, db.applications)
    BY DEF Matching
  <2> HIDE DEF wanted
  <2> QED
    BY <1>7, <2>1, <2>2, <2>3 DEF MatchedStands
<1> HIDE DEF wanted, m
<1>10. tx' = [q \in Actors |-> tx'[q]] /\ tx'[p] = m
      /\ \A q \in Actors \ {p} : tx'[q] = tx[q]
  BY <1>1 DEF IInv, m, t
<1>11. \A q \in Actors : TxInv(tx[q])'
  BY <1>2, <1>8, <1>9, <1>10 DEF IInv, TxInv, LoadedStands, MatchedStands
<1> QED
  BY <1>2, <1>10, <1>11 DEF IInv, Screens, BoroughStands, ContextStands, LinksOfOneGeometry,
                                LinksAsRead

\* The row that a commit writes: the red line and the borough are those of the last geometry
\* transaction, unless a session that had loaded an earlier row changed them back.
LEMMA WrittenRow ==
  ASSUME IInv, NEW t, Matched(t), MatchedStands(t)
  PROVE  LET r == Written(t)
         IN  /\ SiteRow(r)
             /\ t.kind = "geometry" => r.geometry = t.row.geometry /\ r.borough = t.row.borough
             /\ t.kind # "geometry" => r.geometry = site.geometry
             /\ t.kind = "enrich" => r.borough = site.borough
             /\ t.kind = "links" /\ ~t.dirty => r.borough = Controlling(r.geometry)
             /\ t.kind # "links" /\ (t.kind = "geometry" \/ ~t.dirty) =>
                  /\ r.warnings.gaps = {} => r.borough \in Boroughs
                  /\ r.status = Status(r.geometry, r.review)
                  /\ r.review = (\/ Weak(r.geometry) \/ r.warnings.crossing
                                 \/ r.warnings.gaps # {} \/ r.warnings.noPack)
<1> DEFINE r == Written(t)
           c == WithContext(t.row, db)
           l == WithLinks(t.row, t.row.geometry)
           Context(x) == /\ x.warnings.gaps = {} => x.borough \in Boroughs
                         /\ x.status = Status(x.geometry, x.review)
                         /\ x.review = (\/ Weak(x.geometry) \/ x.warnings.crossing
                                        \/ x.warnings.gaps # {} \/ x.warnings.noPack)
<1>1. t.kind \in Kinds /\ SiteRow(t.row) /\ SiteRow(site) /\ t.row.geometry \in Geometries
  BY DEF Matched, IInv, SiteRow
<1>2. /\ SiteRow(c) /\ c.geometry = t.row.geometry /\ c.borough = t.row.borough
      /\ Context(c)
  BY <1>1, WithContextRow, ZenonT(60)
<1>3. SiteRow(l) /\ l.geometry = t.row.geometry /\ l.borough = Controlling(t.row.geometry)
  BY <1>1, WithLinksRow
<1>4. CASE t.kind = "geometry"
  <2>1. r = c
    BY <1>4 DEF Written
  <2> HIDE DEF r, c, Context
  <2>2. SiteRow(r) /\ r.geometry = t.row.geometry /\ r.borough = t.row.borough /\ Context(r)
    BY <1>2, <2>1
  <2> QED
    BY <1>4, <2>2, Zenon DEF r, Context
<1>5. CASE t.kind = "enrich"
  <2>1. r = Merge(c, t.row, site)
    BY <1>5 DEF Written
  <2>2. SiteRow(r) /\ r.geometry = site.geometry /\ r.borough = site.borough
    BY <1>1, <1>2, <2>1, MergeRow, MergeKeeps
  <2>3. ~t.dirty => r = c
    <3>1. ~t.dirty => t.row = site
      BY <1>5 DEF MatchedStands
    <3> QED
      BY <1>1, <1>2, <2>1, <3>1, MergeAlone
  <2> HIDE DEF r, c, Context
  <2>4. ~t.dirty => Context(r)
    BY <1>2, <2>3
  <2> QED
    BY <1>5, <2>2, <2>4, Zenon DEF r, Context
<1>6. CASE t.kind = "links"
  <2>1. r = Merge(l, t.row, site)
    BY <1>6 DEF Written
  <2>2. SiteRow(r) /\ r.geometry = site.geometry
    BY <1>1, <1>3, <2>1, MergeRow, MergeKeeps
  <2>3. ~t.dirty => r = l
    <3>1. ~t.dirty => t.row = site
      BY <1>6 DEF MatchedStands
    <3> QED
      BY <1>1, <1>3, <2>1, <3>1, MergeAlone
  <2> HIDE DEF r, l
  <2>4. ~t.dirty => r.borough = Controlling(r.geometry)
    BY <1>3, <2>3
  <2> QED
    BY <1>6, <2>2, <2>4, Zenon DEF r
<1> QED
  BY <1>1, <1>4, <1>5, <1>6 DEF Kinds

\* Marking a transaction changes nothing else of it.
LEMMA MarkedLoaded ==
  ASSUME NEW u, Loaded(u)
  PROVE  Loaded([u EXCEPT !.dirty = TRUE]) /\ [u EXCEPT !.dirty = TRUE].dirty
<1> DEFINE v == [u EXCEPT !.dirty = TRUE]
<1>1. DOMAIN u = {"stage", "kind", "g", "seen", "old", "dirty"}
  BY DEF Loaded
<1>2. v = [stage |-> v.stage, kind |-> v.kind, g |-> v.g, seen |-> v.seen, old |-> v.old,
           dirty |-> v.dirty]
  <2>1. v = [x \in DOMAIN u |-> IF x = "dirty" THEN TRUE ELSE u[x]]
    OBVIOUS
  <2>2. DOMAIN v = DOMAIN u /\ v = [x \in DOMAIN u |-> v[x]]
    BY <2>1
  <2> HIDE DEF v
  <2> QED
    BY <1>1, <2>2
<1>3. /\ v.stage = "loaded" /\ v.kind = u.kind /\ v.g = u.g /\ v.seen = u.seen
      /\ v.dirty = TRUE
  BY <1>1 DEF Loaded
<1> HIDE DEF v
<1>4. u.kind \in Kinds /\ u.g \in Geometries /\ SiteRow(u.seen)
  BY DEF Loaded
<1>5. Loaded(v) /\ v.dirty
  BY <1>2, <1>3, <1>4 DEF Loaded
<1> QED
  BY <1>5 DEF v

LEMMA MarkedMatched ==
  ASSUME NEW u, Matched(u)
  PROVE  Matched([u EXCEPT !.dirty = TRUE]) /\ [u EXCEPT !.dirty = TRUE].dirty
<1> DEFINE v == [u EXCEPT !.dirty = TRUE]
<1>1. DOMAIN u = {"stage", "kind", "old", "new", "apps", "row", "dirty"}
  BY DEF Matched
<1>2. v = [stage |-> v.stage, kind |-> v.kind, old |-> v.old, new |-> v.new, apps |-> v.apps,
           row |-> v.row, dirty |-> v.dirty]
  <2>1. v = [x \in DOMAIN u |-> IF x = "dirty" THEN TRUE ELSE u[x]]
    OBVIOUS
  <2>2. DOMAIN v = DOMAIN u /\ v = [x \in DOMAIN u |-> v[x]]
    BY <2>1
  <2> HIDE DEF v
  <2> QED
    BY <1>1, <2>2
<1>3. v.stage = "matched" /\ v.kind = u.kind /\ v.row = u.row /\ v.dirty = TRUE
  BY <1>1 DEF Matched
<1> HIDE DEF v
<1>4. u.kind \in Kinds /\ SiteRow(u.row)
  BY DEF Matched
<1>5. Matched(v) /\ v.dirty
  BY <1>2, <1>3, <1>4 DEF Matched
<1> QED
  BY <1>5 DEF v

\* A commit writes rows of one red line, or one that others fell into owns up to it.
LEMMA CommitKeeps ==
  ASSUME IInv, NEW p \in Actors, Commit(p)
  PROVE  IInv'
<1> DEFINE t == tx[p]
           tables == Replaced(t.kind)
<1>1. Matched(t) /\ MatchedStands(t)
  BY DEF Commit, IInv, TxInv, Idle, Loaded
<1>2. /\ site' = Written(t)
      /\ links' = [x \in Tables |-> IF x \in tables THEN (links[x] \ t.old[x]) \cup t.new[x]
                                                    ELSE links[x]]
      /\ tx' = [q \in Actors |-> IF q = p THEN Idle
                                 ELSE IF tx[q].stage = "idle" THEN Idle
                                 ELSE [tx[q] EXCEPT !.dirty = TRUE]]
      /\ screened' = [apps |-> IF t.kind = "links" THEN screened.apps ELSE t.apps,
                      mixed |-> IF t.kind = "links" THEN screened.mixed ELSE t.dirty,
                      torn |-> IF t.kind = "enrich" THEN screened.torn ELSE t.dirty,
                      writer |-> t.kind]
  BY DEF Commit
<1>3. \A q \in Actors : TxInv(tx[q])'
  <2> SUFFICES ASSUME NEW q \in Actors
               PROVE  TxInv(tx[q])'
    OBVIOUS
  <2>1. CASE q = p \/ tx[q].stage = "idle"
    BY <1>2, <2>1 DEF TxInv
  <2>2. CASE q # p /\ tx[q].stage # "idle"
    <3> DEFINE u == tx[q]
    <3>1. tx'[q] = [u EXCEPT !.dirty = TRUE]
      BY <1>2, <2>2
    <3>2. Loaded(u) \/ Matched(u)
      BY <2>2 DEF IInv, TxInv, Idle
    <3>3. \/ Loaded(tx'[q]) /\ tx'[q].dirty
          \/ Matched(tx'[q]) /\ tx'[q].dirty
      BY <3>1, <3>2, MarkedLoaded, MarkedMatched
    <3> QED
      BY <3>3 DEF TxInv, LoadedStands, MatchedStands
  <2> QED
    BY <2>1, <2>2
<1>4. tx' = [q \in Actors |-> tx'[q]]
  BY <1>2
<1> HIDE DEF t
<1>5. t.kind \in Kinds
  BY <1>1 DEF Matched
<1>6. /\ screened'.mixed = IF t.kind = "links" THEN screened.mixed ELSE t.dirty
      /\ screened'.torn = IF t.kind = "enrich" THEN screened.torn ELSE t.dirty
      /\ screened'.writer = t.kind
  BY <1>2
<1>7. Screens'
  BY <1>1, <1>6 DEF Screens, IInv, Matched
<1> DEFINE r == Written(t)
           Context(x) == /\ x.warnings.gaps = {} => x.borough \in Boroughs
                         /\ x.status = Status(x.geometry, x.review)
                         /\ x.review = (\/ Weak(x.geometry) \/ x.warnings.crossing
                                        \/ x.warnings.gaps # {} \/ x.warnings.noPack)
<1>8. /\ SiteRow(r)
      /\ t.kind = "geometry" => r.geometry = t.row.geometry /\ r.borough = t.row.borough
      /\ t.kind # "geometry" => r.geometry = site.geometry
      /\ t.kind = "enrich" => r.borough = site.borough
      /\ t.kind = "links" /\ ~t.dirty => r.borough = Controlling(r.geometry)
      /\ t.kind # "links" /\ (t.kind = "geometry" \/ ~t.dirty) => Context(r)
  BY <1>1, WrittenRow, Zenon
<1>9. site' = r
  BY <1>2
<1> HIDE DEF r, Context
<1>10. BoroughStands'
  <2> SUFFICES ASSUME ~screened'.torn
               PROVE  r.borough = Controlling(r.geometry)
    BY <1>9 DEF BoroughStands
  <2>1. CASE t.kind = "enrich"
    BY <1>6, <1>8, <2>1 DEF IInv, BoroughStands
  <2>2. CASE t.kind = "geometry"
    BY <1>1, <1>6, <1>8, <2>2 DEF MatchedStands
  <2>3. CASE t.kind = "links"
    BY <1>6, <1>8, <2>3
  <2> QED
    BY <1>5, <2>1, <2>2, <2>3 DEF Kinds
<1>11. ContextStands'
  <2>1. screened'.writer # "links" /\ ~screened'.mixed => Context(r)
    BY <1>6, <1>8
  <2> QED
    BY <1>9, <2>1, Zenon DEF ContextStands, Context
<1>12. LinksOfOneGeometry'
  <2> SUFFICES ASSUME NEW x \in Tables,
                      ~(IF x \in {"lpa", "title"} THEN screened'.torn ELSE screened'.mixed)
               PROVE  \A s \in links'[x] : s.on = r.geometry
    BY <1>9 DEF LinksOfOneGeometry
  <2>1. CASE x \in tables
    <3>1. ~t.dirty
      BY <1>5, <1>6, <2>1 DEF Replaced, Kinds, Tables
    <3>2. links'[x] = t.new[x]
      BY <1>1, <1>2, <2>1, <3>1 DEF MatchedStands
    <3>3. t.row.geometry = r.geometry
      BY <1>1, <1>8, <3>1 DEF MatchedStands
    <3> QED
      BY <1>1, <3>1, <3>2, <3>3 DEF MatchedStands
  <2>2. CASE x \notin tables
    <3>1. links'[x] = links[x] /\ r.geometry = site.geometry
      BY <1>2, <1>5, <1>8, <2>2 DEF Replaced, Kinds
    <3>2. ~(IF x \in {"lpa", "title"} THEN screened.torn ELSE screened.mixed)
      BY <1>5, <1>6, <2>2 DEF Replaced, Kinds, Tables
    <3> QED
      BY <3>1, <3>2 DEF IInv, LinksOfOneGeometry
  <2> QED
    BY <2>1, <2>2
<1>13. LinksAsRead'
  <2> SUFFICES ASSUME ~screened'.mixed
               PROVE  links'.application = ToApplications(r.geometry, screened'.apps)
    BY <1>9 DEF LinksAsRead
  <2>1. links'.application = IF "application" \in tables
                             THEN (links.application \ t.old.application) \cup t.new.application
                             ELSE links.application
    BY <1>2 DEF Tables
  <2>2. screened'.apps = IF t.kind = "links" THEN screened.apps ELSE t.apps
    BY <1>2
  <2>3. CASE t.kind = "links"
    <3>1. links'.application = links.application /\ ~screened.mixed
      BY <1>6, <2>1, <2>3 DEF Replaced
    <3> QED
      BY <1>8, <2>2, <2>3, <3>1 DEF IInv, LinksAsRead
  <2>4. CASE t.kind # "links"
    <3>1. ~t.dirty /\ "application" \in tables
      BY <1>5, <1>6, <2>4 DEF Replaced, Kinds, Tables
    <3>2. links'.application = t.new.application
      BY <1>1, <2>1, <3>1 DEF MatchedStands
    <3>3. t.row.geometry = r.geometry
      BY <1>1, <1>8, <3>1 DEF MatchedStands
    <3> QED
      BY <1>1, <2>2, <2>4, <3>1, <3>2, <3>3 DEF MatchedStands
  <2> QED
    BY <2>3, <2>4
<1> QED
  BY <1>3, <1>4, <1>7, <1>8, <1>9, <1>10, <1>11, <1>12, <1>13 DEF IInv

LEMMA NextKeeps == IInv /\ [Next]_vars => IInv'
<1> SUFFICES ASSUME IInv, [Next]_vars
             PROVE  IInv'
  OBVIOUS
<1>1. CASE UNCHANGED screeningVars
  BY <1>1 DEF screeningVars, IInv, Screens, TxInv, LoadedStands, MatchedStands, BoroughStands,
              ContextStands, LinksOfOneGeometry, LinksAsRead
<1>2. CASE StartRefresh
  <2>1. PICK p \in Actors : LoadForGeometry(p) \/ LoadForEnrich(p) \/ LoadForLinks(p)
    BY <1>2 DEF StartRefresh
  <2>2. site.geometry \in Geometries
    BY DEF IInv, SiteRow
  <2>3. CASE LoadForGeometry(p)
    BY <2>3, LoadKeeps DEF LoadForGeometry, Kinds
  <2>4. CASE LoadForEnrich(p)
    BY <2>2, <2>4, LoadKeeps DEF LoadForEnrich, Kinds
  <2>5. CASE LoadForLinks(p)
    BY <2>2, <2>5, LoadKeeps DEF LoadForLinks, Kinds
  <2> QED
    BY <2>1, <2>3, <2>4, <2>5
<1>3. CASE GoOnRefreshing
  BY <1>3, MatchKeeps, CommitKeeps, AbortKeeps DEF GoOnRefreshing
<1>4. UNCHANGED screeningVars \/ StartRefresh \/ GoOnRefreshing
  BY DEF Next, vars
<1> QED
  BY <1>1, <1>2, <1>3, <1>4

\* The strengthening holds in every state.
THEOREM EvidenceInvariant == Spec => []IInv
BY InitHolds, NextKeeps, PTL DEF Spec

-------------------------------------------------------------------------------
(* What follows from it *)

\* The links and facts of a site are those of its present red line, however many
\* refreshes overlap, unless one fell into the last that replaced them
\* (sites/service.py refresh_site_links_and_status, planning/enrich.py).
THEOREM LinksAreOfOneGeometry == Spec => []LinksOfOneGeometry
<1>1. IInv => LinksOfOneGeometry
  BY DEF IInv
<1> QED
  BY <1>1, EvidenceInvariant, PTL

\* A site becomes ACTIVE only where the registers cover it, a pack is there, and its sure
\* red line lies in one borough (refresh_site_planning_context).
THEOREM ActiveSitesWereScreened == Spec => []ActiveWasScreened
<1>1. ASSUME IInv
      PROVE  ActiveWasScreened
  <2> SUFFICES ASSUME site.status = "ACTIVE", screened.writer # "links", ~screened.mixed
               PROVE  /\ site.warnings.gaps = {} /\ ~site.warnings.noPack
                      /\ site.borough # NoBorough /\ ~Weak(site.geometry)
                      /\ screened.torn \/ ~CrossesMaterially(site.geometry)
    BY DEF ActiveWasScreened
  <2>1. /\ site.warnings.gaps = {} => site.borough \in Boroughs
        /\ site.status = Status(site.geometry, site.review)
        /\ site.review = (\/ Weak(site.geometry) \/ site.warnings.crossing
                          \/ site.warnings.gaps # {} \/ site.warnings.noPack)
    BY <1>1, Zenon DEF IInv, ContextStands
  <2>2. Geometry[site.geometry].confidence \in {"HIGH", "LOW", "INSUFFICIENT"}
    BY <1>1, ScreeningAssumption DEF IInv, SiteRow
  <2>3. ~site.review
    BY <2>1, <2>2 DEF Status
  <2>4. ~Weak(site.geometry) /\ site.warnings.gaps = {} /\ ~site.warnings.noPack
    BY <2>1, <2>3, Zenon
  <2>5. site.borough \in Boroughs /\ site.borough # NoBorough
    BY <2>1, <2>4, ScreeningAssumption
  <2>6. screened.torn \/ ~CrossesMaterially(site.geometry)
    BY <1>1, <2>5 DEF IInv, BoroughStands, Controlling
  <2> QED
    BY <2>4, <2>5, <2>6
<1> QED
  BY <1>1, EvidenceInvariant, PTL

\* A candidate is confirmed automatically only on a red line within one borough: a line
\* across an edge has no borough, hence no rulepack (_rulepack_for_template).
THEOREM ConfirmationsAreInOneBorough == Spec => []ConfirmedInOneBorough
<1>1. ASSUME IInv
      PROVE  ConfirmedInOneBorough
  <2> SUFFICES ASSUME ~screened.torn, NEW t \in Templates, ConfirmedOn(t) # {}
               PROVE  ~CrossesMaterially(site.geometry)
    BY DEF ConfirmedInOneBorough
  <2>1. <<site.borough, t>> \in Cited
    BY DEF ConfirmedOn, Excluded
  <2>2. site.borough # NoBorough
    BY <2>1, SuggestionAssumption, ScreeningAssumption
  <2> QED
    BY <1>1, <2>2 DEF IInv, BoroughStands, Controlling
<1> QED
  BY <1>1, EvidenceInvariant, PTL

\* The links freeze the rows that the refresh read, and every row read that is near the red
\* line is linked.
LEMMA LinkedAsRead ==
  ASSUME IInv, ~screened.mixed, NEW a
  PROVE  LET g == site.geometry
             l == [id |-> a, on |-> g, type |-> ToApplication(g, screened.apps[a]),
                   frozen |-> screened.apps[a]]
         IN  /\ a \in DOMAIN screened.apps /\ ToApplication(g, screened.apps[a]) # "NONE" =>
                  l \in links.application
             /\ \A k \in links.application : k.id = a =>
                  k.frozen = screened.apps[a] /\ a \in DOMAIN screened.apps
BY DEF IInv, LinksAsRead, ToApplications

\* Land that does not meet the red line shares nothing with it.
LEMMA ApartShares ==
  ASSUME NEW g \in Geometries, NEW area, Cells(g) \cap area = {}
  PROVE  SharedSqm(g, area) = 0 /\ ~Tenth(g, area)
<1>1. SharedSqm(g, area) = 0
  BY FS_EmptySet DEF SharedSqm, CellSqm
<1>2. SiteSqm(g) \in Nat
  <2>1. IsFiniteSet(Cells(g) \cap Cells(g))
    BY ScreeningAssumption, Cells(g) \cap Cells(g) = Cells(g) DEF Cells
  <2>2. Cardinality(Cells(g) \cap Cells(g)) \in Nat
    BY <2>1, FS_CardinalityType
  <2> QED
    BY <2>2 DEF SiteSqm, SharedSqm, CellSqm
<1> QED
  BY <1>1, <1>2 DEF Tenth

\* A pass overlooks no live permission of a borough register on a tenth or on 100 square
\* metres of the red line that stood in the register when the refresh read it and has not
\* changed since, unless that refresh overlapped another (evaluate_site_extant_permission,
\* refresh_site_planning_context).
THEOREM PassesMissOnlyNews == Spec => []PassMissesOnlyNews
<1>1. ASSUME IInv
      PROVE  PassMissesOnlyNews
  <2> SUFFICES ASSUME ExtantPermission = "PASS", ~screened.mixed,
                      NEW a \in DOMAIN db.applications, LiveOnSite(Row[db.applications[a]]),
                      a \in DOMAIN screened.apps, screened.apps[a] = db.applications[a]
               PROVE  FALSE
    BY DEF PassMissesOnlyNews
  <2> DEFINE g == site.geometry
             r == db.applications[a]
             l == [id |-> a, on |-> g, type |-> ToApplication(g, r), frozen |-> r]
  <2>1. g \in Geometries
    BY <1>1 DEF IInv, SiteRow
  <2>2. /\ ActiveResidential(Row[r]) /\ Row[r].source # "PLD"
        /\ Tenth(g, Row[r].area) \/ SharedSqm(g, Row[r].area) >= 100
    BY DEF LiveOnSite
  <2>3. Cells(g) \cap Row[r].area # {}
    BY <2>1, <2>2, ApartShares
  <2>4. ToApplication(g, r) = "INTERSECTS"
    BY <2>3 DEF ToApplication, Relation
  <2>5. l \in links.application
    BY <1>1, <2>4, LinkedAsRead
  <2>6. l \in OnRegister
    BY <2>2, <2>5 DEF OnRegister, Permissions
  <2>7. Material(l)
    BY <2>2, <2>4 DEF Material
  <2> QED
    BY <2>6, <2>7 DEF ExtantPermission, Barred
<1> QED
  BY <1>1, EvidenceInvariant, PTL

\* No scenario is confirmed automatically on the strength of a permission that may still be
\* used, although the support is chosen among the rows as they are and the screening judges
\* the copies its links froze, unless the row has changed since or the refresh overlapped
\* another (_nearest_historical_support, _auto_confirm_allowed).
THEOREM ConfirmationsAreOnHistory == Spec => []ConfirmedOnHistory
<1>1. ASSUME IInv
      PROVE  ConfirmedOnHistory
  <2> SUFFICES ASSUME ~screened.mixed, NEW t \in Templates, NEW a \in ConfirmedOn(t),
                      ActiveResidential(Row[db.applications[a]]),
                      screened.apps[a] = db.applications[a]
               PROVE  FALSE
    BY DEF ConfirmedOnHistory
  <2>1. a \in Supports(t) /\ ExtantPermission = "PASS"
    BY DEF ConfirmedOn, AutoConfirmed
  <2>2. PICK l \in links.application : l.id = a
    BY <2>1 DEF Supports, Precedents
  <2>3. l.frozen = db.applications[a]
    BY <1>1, <2>2, LinkedAsRead
  <2>4. l \in Permissions
    BY <2>2, <2>3 DEF Permissions
  <2> QED
    BY <2>1, <2>4 DEF ExtantPermission, Doubtful
<1> QED
  BY <1>1, EvidenceInvariant, PTL

\* An assessment compares a site with no application on or at it that the last refresh read
\* as it is, unless that refresh overlapped another (build_comparable_case_set).
THEOREM ComparedWithOthers == Spec => []ComparablesAreOthers
<1>1. ASSUME IInv
      PROVE  ComparablesAreOthers
  <2> SUFFICES ASSUME ~screened.mixed, NEW t \in Templates, NEW date \in Dates,
                      NEW a \in Comparables(t, date),
                      ToApplication(site.geometry, db.applications[a]) # "NONE",
                      a \in DOMAIN screened.apps, screened.apps[a] = db.applications[a]
               PROVE  FALSE
    BY DEF ComparablesAreOthers
  <2>1. \E l \in links.application : l.id = a
    BY <1>1, LinkedAsRead
  <2> QED
    BY <2>1 DEF Comparables, Linked, Ids
<1> QED
  BY <1>1, EvidenceInvariant, PTL

-------------------------------------------------------------------------------
(* The types of the site's tables *)

\* A table of the site has rows for its red lines, one for each feature.
TableTyped(rows) == /\ \A r \in rows : r.on \in Geometries
                    /\ \A r, s \in rows : r.id = s.id => r = s

OfRegister(rows) == Ids(rows) \subseteq DOMAIN db.applications

TablesInv ==
  /\ RowOfSite(site)
  /\ DOMAIN links = Tables
  /\ \A x \in Tables : TableTyped(links[x])
  /\ OfRegister(links.application)
  /\ \A p \in Actors :
       /\ tx[p].stage = "loaded" => RowOfSite(tx[p].seen)
       /\ tx[p].stage = "matched" => /\ RowOfSite(tx[p].row)
                                     /\ \A x \in Tables : TableTyped(tx[p].new[x])
                                     /\ OfRegister(tx[p].new.application)

\* A red line has finitely many cells, so one of the boroughs it crosses has most of it.
LEMMA PrimaryCrossed ==
  ASSUME NEW g \in Geometries, Crossed(g) # {}
  PROVE  Primary(g) \in Crossed(g)
<1> DEFINE in(b) == Cardinality(Cells(g) \cap Bounds[b])
           P == {in(b) : b \in Crossed(g)}
           n == Cardinality(Cells(g))
<1>1. IsFiniteSet(Cells(g)) /\ n \in Nat
  BY ScreeningAssumption, FS_CardinalityType DEF Cells
<1>2. \A b \in Crossed(g) : in(b) \in 1 .. n
  <2> TAKE b \in Crossed(g)
  <2>1. Cells(g) \cap Bounds[b] \subseteq Cells(g) /\ Cells(g) \cap Bounds[b] # {}
    BY DEF Crossed
  <2>2. IsFiniteSet(Cells(g) \cap Bounds[b]) /\ in(b) <= n
    BY <1>1, <2>1, FS_Subset
  <2>3. in(b) \in Nat /\ in(b) # 0
    BY <2>1, <2>2, FS_CardinalityType, FS_EmptySet
  <2> QED
    BY <1>1, <2>2, <2>3
<1> HIDE DEF n
<1>3. PICK b \in Crossed(g) : \A c \in Crossed(g) : in(c) <= in(b)
  <2>1. P \subseteq 1 .. n /\ P # {}
    BY <1>2
  <2>2. Max(P) \in P /\ \A k \in P : k <= Max(P)
    <3> HIDE DEF P
    <3> QED
      BY <1>1, <2>1, GreatestUpTo
  <2>3. PICK b \in Crossed(g) : Max(P) = in(b)
    BY <2>2
  <2>4. \A c \in Crossed(g) : in(c) \in P
    OBVIOUS
  <2>5. \A c \in Crossed(g) : in(c) <= in(b)
    <3> HIDE DEF P, in
    <3> QED
      BY <2>2, <2>3, <2>4
  <2> QED
    BY <2>5
<1>4. \A c \in Crossed(g) : SharedSqm(g, Bounds[b]) >= SharedSqm(g, Bounds[c])
  <2> TAKE c \in Crossed(g)
  <2>1. in(b) \in Nat /\ in(c) \in Nat /\ in(c) <= in(b)
    BY <1>1, <1>2, <1>3
  <2> QED
    BY <2>1 DEF SharedSqm, CellSqm
<1> QED
  BY <1>4 DEF Primary

LEMMA ControllingTyped ==
  ASSUME NEW g \in Geometries
  PROVE  Controlling(g) \in Boroughs \cup {NoBorough}
<1>1. CASE Crossed(g) = {}
  BY <1>1 DEF Controlling
<1>2. CASE Crossed(g) # {}
  BY <1>2, PrimaryCrossed DEF Controlling, Crossed
<1> QED
  BY <1>1, <1>2

LEMMA StatusTyped ==
  ASSUME NEW g \in Geometries, NEW review
  PROVE  Status(g, review) \in {"ACTIVE", "MANUAL_REVIEW", "INSUFFICIENT_GEOMETRY"}
<1>1. Geometry[g].confidence \in {"HIGH", "LOW", "INSUFFICIENT"}
  BY ScreeningAssumption
<1> QED
  BY <1>1 DEF Status

LEMMA WithLinksTyped ==
  ASSUME NEW row, SiteRow(row), RowOfSite(row), NEW g \in Geometries
  PROVE  RowOfSite(WithLinks(row, g))
<1> DEFINE crossing == CrossesMaterially(g)
           review == crossing \/ Weak(g)
           w == [row.warnings EXCEPT !.crossing = crossing]
           r == WithLinks(row, g)
<1>1. r = [geometry |-> g, borough |-> Controlling(g), review |-> review,
           status |-> Status(g, review), warnings |-> w]
  BY DEF WithLinks
<1>2. crossing \in BOOLEAN /\ review \in BOOLEAN
  BY DEF CrossesMaterially
<1>3. w.crossing = crossing /\ w.gaps = row.warnings.gaps /\ w.noPack = row.warnings.noPack
  <2> HIDE DEF crossing
  <2>1. "crossing" \in DOMAIN row.warnings
    BY DEF SiteRow
  <2> QED
    BY <2>1
<1> HIDE DEF crossing, review, w, r
<1>4. /\ r.geometry = g /\ r.borough = Controlling(g) /\ r.review = review
      /\ r.status = Status(g, review) /\ r.warnings = w
  BY <1>1
<1>5. r.geometry \in Geometries /\ r.borough \in Boroughs \cup {NoBorough}
      /\ r.status \in {"ACTIVE", "MANUAL_REVIEW", "INSUFFICIENT_GEOMETRY"}
  BY <1>4, ControllingTyped, StatusTyped
<1>6. RowOfSite(r)
  BY <1>2, <1>3, <1>4, <1>5 DEF RowOfSite
<1> QED
  BY <1>6 DEF r

LEMMA WithContextTyped ==
  ASSUME NEW row, SiteRow(row), RowOfSite(row), NEW d
  PROVE  RowOfSite(WithContext(row, d))
<1> DEFINE gaps == CoverageGaps(d.snapshots, row.borough)
           noPack == PackMissing(d, row.borough)
           review == Weak(row.geometry) \/ row.warnings.crossing \/ gaps # {} \/ noPack
           w == [crossing |-> row.warnings.crossing, gaps |-> gaps, noPack |-> noPack]
           r == WithContext(row, d)
<1>1. r = [geometry |-> row.geometry, borough |-> row.borough, review |-> review,
           status |-> Status(row.geometry, review), warnings |-> w]
  BY DEF WithContext
<1>2. w.gaps = gaps /\ w.noPack = noPack /\ w.crossing = row.warnings.crossing
  OBVIOUS
<1>3. gaps \subseteq MANDATORY /\ noPack \in BOOLEAN
  BY DEF CoverageGaps, PackMissing
<1>4. review \in BOOLEAN
  OBVIOUS
<1> HIDE DEF gaps, noPack, review, w, r
<1>5. /\ r.geometry = row.geometry /\ r.borough = row.borough /\ r.review = review
      /\ r.status = Status(row.geometry, review) /\ r.warnings = w
  BY <1>1
<1>6. /\ row.geometry \in Geometries /\ row.borough \in Boroughs \cup {NoBorough}
      /\ row.warnings.crossing \in BOOLEAN
  BY DEF RowOfSite
<1>7. r.status \in {"ACTIVE", "MANUAL_REVIEW", "INSUFFICIENT_GEOMETRY"}
  BY <1>5, <1>6, StatusTyped
<1>8. RowOfSite(r)
  BY <1>2, <1>3, <1>4, <1>5, <1>6, <1>7 DEF RowOfSite
<1> QED
  BY <1>8 DEF r

LEMMA MergeTyped ==
  ASSUME NEW want, NEW seen, NEW now, SiteRow(want), SiteRow(seen), SiteRow(now),
         RowOfSite(want), RowOfSite(now)
  PROVE  RowOfSite(Merge(want, seen, now))
<1> DEFINE r == Merge(want, seen, now)
<1>1. /\ r.geometry \in {want.geometry, now.geometry}
      /\ r.borough \in {want.borough, now.borough}
      /\ r.warnings \in {want.warnings, now.warnings}
      /\ r.review \in {want.review, now.review}
      /\ r.status \in {want.status, now.status}
  BY DEF Merge, SiteRow
<1> HIDE DEF r
<1>2. \/ r.warnings = want.warnings
      \/ r.warnings = now.warnings
  BY <1>1
<1>3. r.warnings.gaps \subseteq MANDATORY /\ {r.warnings.crossing, r.warnings.noPack} \subseteq BOOLEAN
  BY <1>2, Zenon DEF RowOfSite
<1>4. RowOfSite(r)
  BY <1>1, <1>3 DEF RowOfSite
<1> QED
  BY <1>4 DEF r

LEMMA MatchingTyped ==
  ASSUME NEW g \in Geometries, NEW d
  PROVE  /\ DOMAIN Matching(g, d) = Tables
         /\ \A x \in Tables : TableTyped(Matching(g, d)[x])
         /\ Ids(Matching(g, d).application) \subseteq DOMAIN d.applications
<1>1. /\ TableTyped(ToBoroughs(g)) /\ TableTyped(ToTitles(g))
      /\ TableTyped(ToApplications(g, d.applications)) /\ TableTyped(ToZones(g, d.zones))
  BY DEF TableTyped, ToBoroughs, ToTitles, ToApplications, ToZones
<1>2. Ids(ToApplications(g, d.applications)) \subseteq DOMAIN d.applications
  BY DEF Ids, ToApplications
<1> QED
  BY <1>1, <1>2 DEF Matching, Tables

\* What a transaction leaves in the site's row has the types of a row.
LEMMA WrittenTyped ==
  ASSUME IInv, TablesInv, NEW t, Matched(t), RowOfSite(t.row)
  PROVE  RowOfSite(Written(t))
<1>1. /\ t.kind \in Kinds /\ SiteRow(t.row) /\ SiteRow(site) /\ t.row.geometry \in Geometries
      /\ RowOfSite(site)
  BY DEF Matched, IInv, SiteRow, TablesInv
<1>2. /\ SiteRow(WithContext(t.row, db)) /\ RowOfSite(WithContext(t.row, db))
  <2> DEFINE r == WithContext(t.row, db)
  <2>1. SiteRow(r)
    BY <1>1, WithContextRow
  <2> QED
    BY <1>1, <2>1, WithContextTyped
<1>3. SiteRow(WithLinks(t.row, t.row.geometry)) /\ RowOfSite(WithLinks(t.row, t.row.geometry))
  BY <1>1, WithLinksRow, WithLinksTyped
<1>4. CASE t.kind = "geometry"
  <2>1. Written(t) = WithContext(t.row, db)
    BY <1>4 DEF Written
  <2> QED
    BY <1>2, <2>1
<1>5. CASE t.kind = "enrich"
  <2>1. Written(t) = Merge(WithContext(t.row, db), t.row, site)
    BY <1>5 DEF Written
  <2> QED
    BY <1>1, <1>2, <2>1, MergeTyped
<1>6. CASE t.kind = "links"
  <2>1. Written(t) = Merge(WithLinks(t.row, t.row.geometry), t.row, site)
    BY <1>6 DEF Written
  <2> QED
    BY <1>1, <1>3, <2>1, MergeTyped
<1> QED
  BY <1>1, <1>4, <1>5, <1>6 DEF Kinds

LEMMA TablesInit == Init => TablesInv
<1> SUFFICES ASSUME Init PROVE TablesInv
  OBVIOUS
<1> DEFINE row == WithLinks(BuiltRow, FirstGeometry)
<1>1. SiteRow(BuiltRow) /\ RowOfSite(BuiltRow) /\ FirstGeometry \in Geometries
  BY ScreeningAssumption DEF BuiltRow, SiteRow, RowOfSite
<1>2. SiteRow(row) /\ RowOfSite(row)
  BY <1>1, WithLinksRow, WithLinksTyped
<1>3. /\ site = WithContext(row, db) /\ links = Matching(FirstGeometry, db)
      /\ tx = [p \in Actors |-> Idle]
  BY DEF Init, ScreeningInit
<1> HIDE DEF row
<1>4. RowOfSite(site)
  BY <1>2, <1>3, WithContextTyped
<1>5. /\ DOMAIN links = Tables /\ \A x \in Tables : TableTyped(links[x])
      /\ OfRegister(links.application)
  BY <1>1, <1>3, MatchingTyped DEF OfRegister
<1>6. \A p \in Actors : tx[p].stage = "idle"
  BY <1>3 DEF Idle
<1> QED
  BY <1>4, <1>5, <1>6 DEF TablesInv

LEMMA TablesLoad ==
  ASSUME IInv, TablesInv, NEW p \in Actors, NEW kind, NEW g, Load(p, kind, g), UNCHANGED db
  PROVE  TablesInv'
<1> DEFINE t == [stage |-> "loaded", kind |-> kind, g |-> g, seen |-> site, old |-> links,
                 dirty |-> FALSE]
<1>1. tx' = [tx EXCEPT ![p] = t] /\ UNCHANGED <<site, links>>
  BY DEF Load
<1>2. tx'[p] = t /\ \A q \in Actors \ {p} : tx'[q] = tx[q]
  BY <1>1 DEF IInv
<1>3. t.stage = "loaded" /\ t.seen = site
  OBVIOUS
<1> HIDE DEF t
<1> QED
  BY <1>1, <1>2, <1>3 DEF TablesInv, OfRegister

LEMMA TablesAbort ==
  ASSUME IInv, TablesInv, NEW p \in Actors, Abort(p), UNCHANGED db
  PROVE  TablesInv'
<1>1. tx' = [tx EXCEPT ![p] = Idle] /\ UNCHANGED <<site, links>>
  BY DEF Abort
<1>2. tx'[p].stage = "idle" /\ \A q \in Actors \ {p} : tx'[q] = tx[q]
  BY <1>1 DEF IInv, Idle
<1> QED
  BY <1>1, <1>2 DEF TablesInv, OfRegister

LEMMA TablesMatch ==
  ASSUME IInv, TablesInv, NEW p \in Actors, Match(p), UNCHANGED db
  PROVE  TablesInv'
<1> DEFINE t == tx[p]
           wanted == CASE t.kind = "geometry" -> Merge(WithLinks(t.seen, t.g), t.seen, site)
                       [] t.kind = "enrich" -> site
                       [] t.kind = "links" -> t.seen
<1>1. PICK old \in {t.old, links} :
        tx' = [tx EXCEPT ![p] = [stage |-> "matched", kind |-> t.kind, old |-> old,
                                 new |-> Matching(t.g, db), apps |-> db.applications,
                                 row |-> wanted, dirty |-> t.dirty]]
  BY DEF Match
<1>2. UNCHANGED <<site, links>> /\ t.stage = "loaded"
  BY DEF Match
<1>3. Loaded(t) /\ RowOfSite(t.seen) /\ RowOfSite(site)
  BY <1>2 DEF IInv, TablesInv, TxInv, Idle, Matched
<1> DEFINE m == [stage |-> "matched", kind |-> t.kind, old |-> old, new |-> Matching(t.g, db),
                 apps |-> db.applications, row |-> wanted, dirty |-> t.dirty]
<1> HIDE DEF t
<1>4. t.kind \in Kinds /\ t.g \in Geometries /\ SiteRow(t.seen) /\ SiteRow(site)
  BY <1>3 DEF Loaded, IInv
<1>5. SiteRow(WithLinks(t.seen, t.g)) /\ RowOfSite(WithLinks(t.seen, t.g))
  BY <1>3, <1>4, WithLinksRow, WithLinksTyped
<1>6. RowOfSite(Merge(WithLinks(t.seen, t.g), t.seen, site))
  BY <1>3, <1>4, <1>5, MergeTyped
<1>7. RowOfSite(wanted)
  BY <1>3, <1>4, <1>6 DEF Kinds
<1>8. /\ \A x \in Tables : TableTyped(Matching(t.g, db)[x])
      /\ OfRegister(Matching(t.g, db).application)
  BY <1>4, MatchingTyped DEF OfRegister
<1>9. m.stage = "matched" /\ m.row = wanted /\ m.new = Matching(t.g, db)
  <2> HIDE DEF wanted
  <2> QED
    OBVIOUS
<1> HIDE DEF wanted
<1>10. tx'[p] = m /\ \A q \in Actors \ {p} : tx'[q] = tx[q]
  BY <1>1 DEF IInv, t
<1> HIDE DEF m
<1> QED
  BY <1>2, <1>7, <1>8, <1>9, <1>10 DEF TablesInv, OfRegister

\* A commit that meets no unique key adds rows for features that have none.
LEMMA TablesCommit ==
  ASSUME IInv, TablesInv, NEW p \in Actors, Commit(p), UNCHANGED db
  PROVE  TablesInv'
<1> DEFINE t == tx[p]
           tables == Replaced(t.kind)
<1>1. Matched(t) /\ t.stage = "matched" /\ ~Clash(t)
  BY DEF Commit, IInv, TxInv, Idle, Loaded
<1>2. /\ site' = Written(t)
      /\ links' = [x \in Tables |-> IF x \in tables THEN (links[x] \ t.old[x]) \cup t.new[x]
                                                    ELSE links[x]]
      /\ tx' = [q \in Actors |-> IF q = p THEN Idle
                                 ELSE IF tx[q].stage = "idle" THEN Idle
                                 ELSE [tx[q] EXCEPT !.dirty = TRUE]]
  BY DEF Commit
<1>3. /\ RowOfSite(t.row) /\ \A x \in Tables : TableTyped(t.new[x])
      /\ OfRegister(t.new.application)
  BY <1>1 DEF TablesInv
<1>4. RowOfSite(site')
  BY <1>1, <1>2, <1>3, WrittenTyped
<1>5. ASSUME NEW q \in Actors
      PROVE  /\ tx'[q].stage = "loaded" => RowOfSite(tx'[q].seen)
             /\ tx'[q].stage = "matched" => /\ RowOfSite(tx'[q].row)
                                            /\ \A x \in Tables : TableTyped(tx'[q].new[x])
                                            /\ OfRegister(tx'[q].new.application)
  <2>1. CASE q = p \/ tx[q].stage = "idle"
    BY <1>2, <2>1 DEF Idle
  <2>2. CASE q # p /\ tx[q].stage # "idle"
    <3> DEFINE u == tx[q]
               v == [u EXCEPT !.dirty = TRUE]
    <3>1. tx'[q] = v
      BY <1>2, <2>2
    <3>2. Loaded(u) \/ Matched(u)
      BY <2>2 DEF IInv, TxInv, Idle
    <3>3. /\ v.stage = u.stage
          /\ u.stage = "loaded" => v.seen = u.seen
          /\ u.stage = "matched" => v.row = u.row /\ v.new = u.new
      BY <3>2 DEF Loaded, Matched
    <3> QED
      BY <3>1, <3>3 DEF TablesInv
  <2> QED
    BY <2>1, <2>2
<1> HIDE DEF t
<1>6. ASSUME NEW x \in Tables
      PROVE  TableTyped(links'[x])
  <2>1. TableTyped(links[x]) /\ TableTyped(t.new[x])
    BY <1>3 DEF TablesInv
  <2>2. CASE x \notin tables
    BY <1>2, <2>1, <2>2
  <2>3. CASE x \in tables
    <3>1. links'[x] = (links[x] \ t.old[x]) \cup t.new[x]
      BY <1>2, <2>3
    <3>2. \A r \in t.new[x], s \in links[x] \ t.old[x] : r.id # s.id
      BY <1>1, <2>3 DEF Clash, Ids
    <3>3. /\ \A r \in links'[x] : r.on \in Geometries
          /\ \A r, s \in links'[x] : r.id = s.id => r = s
      BY <2>1, <3>1, <3>2 DEF TableTyped
    <3> QED
      BY <3>3 DEF TableTyped
  <2> QED
    BY <2>2, <2>3
<1>7. DOMAIN links' = Tables /\ OfRegister(links'.application)
  <2>1. \/ links'.application = links.application
        \/ links'.application = (links.application \ t.old.application) \cup t.new.application
    BY <1>2 DEF Tables
  <2>2. OfRegister(links'.application)
    BY <1>3, <2>1 DEF TablesInv, OfRegister, Ids
  <2> QED
    BY <1>2, <2>2
<1> QED
  BY <1>4, <1>5, <1>6, <1>7 DEF TablesInv, OfRegister

\* An import takes no application away, and leaves the site alone.
LEMMA TablesImport == TablesInv /\ Import /\ UNCHANGED screeningVars => TablesInv'
BY ImportKeepsRows DEF screeningVars, TablesInv, OfRegister

LEMMA TablesNext == IInv /\ TablesInv /\ [Next]_vars => TablesInv'
<1> SUFFICES ASSUME IInv, TablesInv, [Next]_vars
             PROVE  TablesInv'
  OBVIOUS
<1>1. CASE UNCHANGED screeningVars /\ UNCHANGED dataVars
  BY <1>1 DEF screeningVars, dataVars, TablesInv, OfRegister
<1>2. CASE Import /\ UNCHANGED screeningVars
  BY <1>2, TablesImport
<1>3. CASE (StartRefresh \/ GoOnRefreshing) /\ UNCHANGED dataVars
  <2>1. db' = db
    BY <1>3 DEF dataVars
  <2> QED
    BY <1>3, <2>1, TablesLoad, TablesMatch, TablesCommit, TablesAbort
       DEF StartRefresh, GoOnRefreshing, LoadForGeometry, LoadForEnrich, LoadForLinks
<1> QED
  BY <1>1, <1>2, <1>3 DEF Next, vars

\* Every table keeps its type, for any registers and however refreshes, imports and rebuilds
\* interleave; in particular no table of the site holds two rows for one feature, although
\* two refreshes may each delete and insert them (replace_site_planning_links,
\* rebuild_historical_case_labels, register_dataset_snapshot).
THEOREM TablesTyped == Spec => []TypeOK
<1>1. Spec => []TablesInv
  <2>1. Init => IInv /\ TablesInv
    BY InitHolds, TablesInit
  <2>2. IInv /\ TablesInv /\ [Next]_vars => (IInv /\ TablesInv)'
    BY NextKeeps, TablesNext
  <2> QED
    BY <2>1, <2>2, PTL DEF Spec
<1>2. DInv /\ RInv /\ LInv /\ IInv /\ TablesInv => TypeOK
  <2> SUFFICES ASSUME DInv, RInv, LInv, IInv, TablesInv
               PROVE  TypeOK
    OBVIOUS
  <2>1. DataTypeOK
    BY DEF DInv
  <2>2. \A p \in Actors : tx[p].stage \in {"idle", "loaded", "matched"}
    BY DEF IInv, TxInv, Idle, Loaded, Matched
  <2>3. DOMAIN labels \subseteq DOMAIN db.applications
    BY DEF RInv, LabelsStand
  <2>4. Range(labels) \subseteq LabelRow
    BY DEF LInv, AreLabels, Range
  <2>5. \A p \in Rebuilders : rebuild[p].stage \in {"idle", "read", "ready"}
    BY DEF RInv
  <2> QED
    BY <2>1, <2>2, <2>3, <2>4, <2>5 DEF TypeOK, TablesInv, TableTyped, OfRegister
<1> QED
  BY <1>1, <1>2, EvidenceInvariant, LabelsInvariant, PTL
================================================================================
