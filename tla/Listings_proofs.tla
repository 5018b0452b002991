---------------------------- MODULE Listings_proofs ----------------------------
(***************************************************************************)
(* Proofs about Listings: the snapshots agree with what is stored, a site  *)
(* follows the listing it was built from, the clusters are those of the    *)
(* listings as soon as no rebuild is due, and every cluster open for a     *)
(* site then has one or a build to come, whatever fetches, rebuilds and    *)
(* site builds overlap.                                                    *)
(***************************************************************************)
EXTENDS Listings, WellFoundedInduction, TLAPS
USE ListingsAssumption, NoneAssumption

-----------------------------------------------------------------------------
(* The inductive invariant *)

\* A run that has stored its page finds it there, and the snapshots committed are stored.
StoredKept ==
  /\ SnapshotsMatchStorage
  /\ \A x \in Sessions : At(x, "stored") => storage[session[x].job] = session[x].page

\* Every site's cluster has its row.
SitesPlaced == \A s \in Built : sites[s].cluster \in clusters

\* A build that has looked a site of its cluster up finds it there, for sites are never deleted.
OfItsCluster(r) == \A s \in Clusters : r.found[s] # None => s \in Built /\ r.found[s].cluster = r.cluster
FoundBuilt == \A x \in Sessions : At(x, "placing") => OfItsCluster(session[x])

\* Together they are inductive: a commit is right because of what its session has read.
IInv == /\ TypeOK /\ StoredKept /\ FoundBuilt
        /\ SitesFollowTheirListing /\ SitesPlaced /\ ClustersCurrent

-----------------------------------------------------------------------------
(* The data the handlers work on *)

\* The numbers of the model.
LEMMA NumberTypes ==
  /\ MaxAttempts \in Nat /\ MaxAttempts >= 1 /\ MaxEvents \in Nat /\ MaxTwins \in Nat /\ MaxTwins >= 1
  /\ Workers \subseteq Sessions /\ Clerks \subseteq Sessions
  /\ Twins \subseteq Nat /\ Numbers \subseteq Nat
BY DEF Sessions, Twins, Numbers

\* A job row stays one, and a claimed row has not ended.
LEMMA RowTypes ==
  /\ Ended \in Row /\ Queued \in Row /\ Queued # Ended
  /\ \A r \in Row : /\ Claimed(r) \in Row /\ Claimed(r) # Ended
                    /\ Failed(r) \in Row /\ (Failed(r) = Ended => Exhausted(r))
<1>1. Ended \in Row /\ Queued \in Row /\ Queued # Ended
  BY NumberTypes DEF Ended, Queued, Row, Waiting
<1>2. ASSUME NEW r \in Row PROVE Claimed(r) \in Row /\ Claimed(r) # Ended
  BY NumberTypes DEF Claimed, Ended, Row
<1>3. ASSUME NEW r \in Row PROVE Failed(r) \in Row /\ (Failed(r) = Ended => Exhausted(r))
  <2>1. CASE Exhausted(r)
    BY <1>1, <2>1 DEF Failed
  <2>2. CASE ~Exhausted(r)
    BY <2>2 DEF Failed, Row, Waiting, Ended
  <2> QED
    BY <2>1, <2>2
<1> QED
  BY <1>1, <1>2, <1>3

\* What a session has read, by its stage.
LEMMA StageIs ==
  ASSUME NEW r \in Stages
  PROVE  /\ r.stage \in {"fetched", "stored", "replayed"} =>
              /\ r.job \in Numbers /\ r.page \in Page /\ r.at \in Nat
              /\ r \in [stage : {"fetched", "stored", "replayed"}, job : Numbers, page : Page, at : Nat]
         /\ r.stage = "rebuilding" =>
              /\ r.twin \in Twins /\ r.view \in [Items -> Item \cup {None}]
              /\ r.known \in SUBSET Clusters
              /\ r \in [stage : {"rebuilding"}, twin : Twins, view : [Items -> Item \cup {None}],
                        known : SUBSET Clusters, alone : BOOLEAN]
         /\ r.stage = "surveying" =>
              r.cluster \in Clusters /\ r.twin \in Twins \cup {0} /\ r.listing \in Items
         /\ r.stage = "placing" =>
              /\ r.cluster \in Clusters /\ r.twin \in Twins \cup {0} /\ r.listing \in Items
              /\ r.found \in [Clusters -> [cluster : Clusters, listing : Items] \cup {None}]
BY DEF Stages

\* A session at rest.
LEMMA IdleTyped == Idle \in Stages /\ Idle.stage = "idle"
BY DEF Idle, Stages

\* The listings alike in what a rebuild has read.
LEMMA ClusterTyped ==
  ASSUME NEW view, NEW i \in Items, view[i] # None
  PROVE  Cluster(view, i) \in Clusters /\ i \in Cluster(view, i)
<1>1. i \in Cluster(view, i)
  BY DEF Cluster, Alike
<1>2. Cluster(view, i) \subseteq Items
  BY DEF Cluster
<1> HIDE DEF Cluster
<1>3. Cluster(view, i) # {} /\ Cluster(view, i) \in SUBSET Items
  BY <1>1, <1>2
<1> QED
  BY <1>1, <1>3 DEF Clusters

\* Rebuilding partitions the listings it has read into clusters.
LEMMA PartsTyped ==
  ASSUME NEW view
  PROVE  /\ Parts(view) \subseteq Clusters
         /\ \A i \in Items : view[i] # None => Cluster(view, i) \in Parts(view)
BY ClusterTyped DEF Parts

\* The cluster a site is moved to.
LEMMA HomeTyped ==
  ASSUME TypeOK, NEW view, NEW s \in Built
  PROVE  /\ s \in Clusters /\ sites[s] \in [cluster : Clusters, listing : Items]
         /\ Home(view, s) \in Clusters
         /\ view[sites[s].listing] # None => Home(view, s) = Cluster(view, sites[s].listing)
         /\ view[sites[s].listing] = None => Home(view, s) = sites[s].cluster
<1>1. s \in Clusters /\ sites[s] \in [cluster : Clusters, listing : Items]
  BY DEF Built, TypeOK
<1> QED
  BY <1>1, ClusterTyped DEF Home

\* The first free row of several.
LEMMA FirstFree ==
  ASSUME NEW P, P \subseteq Nat, P # {}
  PROVE  \E t \in P : \A u \in P : t <= u
<1> DEFINE Less == OpToRel(<, Nat)
<1>1. \E t \in P : \A u \in P : <<u, t>> \notin Less
  <2>1. IsWellFoundedOn(Less, Nat)
    BY NatLessThanWellFounded
  <2> HIDE DEF Less
  <2> QED
    BY <2>1, WFMin
<1>2. PICK t \in P : \A u \in P : <<u, t>> \notin Less
  BY <1>1
<1>3. \A u \in P : ~(u < t) /\ u \in Nat /\ t \in Nat
  BY <1>2 DEF OpToRel
<1> QED
  BY <1>3

\* Enqueueing a rebuild where there is room leaves one in the queue.
LEMMA RebuildWanted ==
  ASSUME TypeOK, RoomForRebuild
  PROVE  WithRebuild \in [Twins -> Row] /\ \E t \in Twins : WithRebuild[t] # Ended
<1>1. WithRebuild \in [Twins -> Row]
  BY RowTypes DEF WithRebuild, TypeOK
<1>2. CASE \E t \in Twins : Active(rebuilds[t])
  <2>1. PICK t \in Twins : Active(rebuilds[t])
    BY <1>2
  <2>2. WithRebuild[t] = rebuilds[t]
    BY <1>2 DEF WithRebuild
  <2> QED
    BY <1>1, <2>1, <2>2 DEF Active, Ended
<1>3. CASE ~ \E t \in Twins : Active(rebuilds[t])
  <2> DEFINE P == {t \in Twins : rebuilds[t] = Ended}
  <2>1. P # {} /\ P \subseteq Nat
    BY <1>3, NumberTypes DEF RoomForRebuild
  <2>2. PICK t \in P : \A u \in P : t <= u
    BY <2>1, FirstFree
  <2>3. \A u \in 1 .. (t - 1) : rebuilds[u] # Ended
    <3>1. SUFFICES ASSUME NEW u \in 1 .. (t - 1), rebuilds[u] = Ended PROVE FALSE
      OBVIOUS
    <3>2. t \in Nat /\ t \in 1 .. MaxTwins /\ MaxTwins \in Nat
      BY <2>2, NumberTypes DEF Twins
    <3>3. u \in Twins /\ u < t /\ u \in Nat
      BY <3>2 DEF Twins
    <3> QED
      BY <2>2, <3>1, <3>2, <3>3
  <2>4. WithRebuild[t] = Queued
    BY <1>3, <2>2, <2>3 DEF WithRebuild
  <2> QED
    BY <1>1, <2>2, <2>4, RowTypes
<1> QED
  BY <1>2, <1>3

LEMMA BuildsTyped ==
  ASSUME TypeOK, NEW cs
  PROVE  WithBuilds(cs) \in [Clusters \X Twins -> Row]
BY RowTypes DEF WithBuilds, TypeOK

-----------------------------------------------------------------------------
(* Steps that leave the tables alone *)

\* A step that writes no snapshot, listing, cluster or site, stores nothing and ends no rebuild.
Aside ==
  /\ UNCHANGED <<storage, tables, behind, crossed>> /\ given'.rebuild = given.rebuild
  /\ \A t \in Twins : rebuilds'[t] = Ended => rebuilds[t] = Ended
  /\ \A x \in Sessions :
       session'[x].stage \in {"stored", "placing"} =>
         \/ session'[x] = session[x]
         \/ session'[x].stage = "placing" /\ OfItsCluster(session'[x])

LEMMA AsideKeeps ==
  ASSUME IInv, TypeOK', Aside
  PROVE  IInv'
<1>1. StoredKept'
  BY DEF IInv, Aside, tables, StoredKept, SnapshotsMatchStorage, At
<1>2. SitesFollowTheirListing' /\ SitesPlaced'
  BY DEF IInv, Aside, tables, SitesFollowTheirListing, SitesPlaced, Built
<1>3. ClustersCurrent'
  BY DEF IInv, Aside, tables, ClustersCurrent, NoRebuildToCome, Cluster, Parts, Built
<1>4. FoundBuilt'
  <2>1. Built' = Built
    BY DEF Aside, tables, Built
  <2> QED
    BY <2>1 DEF IInv, Aside, FoundBuilt, OfItsCluster, At
<1> QED
  BY <1>1, <1>2, <1>3, <1>4 DEF IInv

-----------------------------------------------------------------------------
(* Enqueueing *)

LEMMA CreateTyped ==
  ASSUME TypeOK, NEW s \in Sources, NEW type \in Listing, Create(s, type)
  PROVE  TypeOK'
<1>1. PICK n \in Numbers : /\ jobs' = [jobs EXCEPT ![n] = [source |-> s, type |-> type]]
                           /\ fetches' = [fetches EXCEPT ![n] = Queued]
  BY DEF Create
<1>2. [source |-> s, type |-> type] \in Job
  BY DEF Job
<1>3. jobs' \in [Numbers -> Job \cup {None}] /\ fetches' \in [Numbers -> Row]
  BY <1>1, <1>2, RowTypes DEF TypeOK
<1>4. events' \in 0 .. MaxEvents /\ fresh' \subseteq Sources
  BY NumberTypes DEF TypeOK, Create, Happens
<1>5. UNCHANGED <<rebuilds, builds, storage, tables, session, clock, history>>
  BY DEF Create
<1> QED
  BY <1>3, <1>4, <1>5 DEF TypeOK, tables, history

LEMMA CreateKeeps ==
  ASSUME IInv, NEW s \in Sources, NEW type \in Listing, Create(s, type)
  PROVE  IInv'
<1>1. TypeOK'
  BY CreateTyped DEF IInv
<1>2. Aside
  BY DEF Create, Aside, history
<1> QED
  BY <1>1, <1>2, AsideKeeps

LEMMA IntervalKeeps ==
  ASSUME IInv, NEW s \in Sources, IntervalPasses(s)
  PROVE  IInv'
<1>1. TypeOK'
  BY DEF IInv, IntervalPasses, TypeOK, queue, tables, history
<1>2. Aside
  BY DEF IntervalPasses, Aside, queue, history
<1> QED
  BY <1>1, <1>2, AsideKeeps

-----------------------------------------------------------------------------
(* Listing jobs *)

LEMMA FetchKeeps ==
  ASSUME IInv, NEW w \in Workers, NEW n \in Numbers, Fetch(w, n)
  PROVE  IInv'
<1>1. /\ w \in Sessions /\ jobs[n] \in Job /\ jobs[n].source \in Sources
      /\ fetches' = [fetches EXCEPT ![n] = Claimed(@)] /\ clock' = clock + 1
      /\ (events' = events \/ Happens)
      /\ UNCHANGED <<jobs, rebuilds, builds, storage, tables, fresh, history>>
  BY NumberTypes DEF IInv, TypeOK, Fetch, ClaimFetch, Job
<1>2. PICK page \in Pages(jobs[n].source) :
        session' = [session EXCEPT ![w] =
                      [stage |-> "fetched", job |-> n, page |-> page, at |-> clock']]
  BY DEF Fetch
<1> DEFINE r == [stage |-> "fetched", job |-> n, page |-> page, at |-> clock']
<1>3. page \in Page /\ clock' \in Nat
  BY <1>1 DEF Page, IInv, TypeOK
<1>4. r \in Stages /\ r.stage = "fetched"
  BY <1>3 DEF Stages
<1> HIDE DEF r
<1>5. /\ fetches' \in [Numbers -> Row] /\ session' \in [Sessions -> Stages]
      /\ events' \in 0 .. MaxEvents
  <2>1. session' = [session EXCEPT ![w] = r] /\ session \in [Sessions -> Stages]
    BY <1>2 DEF r, IInv, TypeOK
  <2>2. session' \in [Sessions -> Stages]
    BY <1>4, <2>1
  <2>3. events' \in 0 .. MaxEvents
    BY <1>1, NumberTypes DEF IInv, TypeOK, Happens
  <2>4. fetches' \in [Numbers -> Row]
    BY <1>1, RowTypes DEF IInv, TypeOK
  <2> QED
    BY <2>2, <2>3, <2>4
<1>6. TypeOK'
  BY <1>1, <1>3, <1>5 DEF IInv, TypeOK, tables, history
<1>7. Aside
  BY <1>1, <1>2, <1>4 DEF Aside, history, IInv, TypeOK
<1> QED
  BY <1>6, <1>7, AsideKeeps

LEMMA FetchFailsKeeps ==
  ASSUME IInv, NEW w \in Workers, NEW n \in Numbers, FetchFails(w, n)
  PROVE  IInv'
<1> DEFINE lost == IF Exhausted(Claimed(fetches[n])) THEN given.fetch \cup {n} ELSE given.fetch
<1>1. /\ fetches' = [fetches EXCEPT ![n] = Failed(Claimed(@))]
      /\ given' = [given EXCEPT !.fetch = lost]
      /\ (events' = events \/ Happens)
      /\ UNCHANGED <<jobs, rebuilds, builds, storage, tables, fresh, session, clock,
                     behind, crossed, dated>>
  BY DEF FetchFails
<1>2. lost \subseteq Numbers /\ given \in [fetch : SUBSET Numbers, rebuild : BOOLEAN, build : SUBSET Clusters]
  BY DEF IInv, TypeOK
<1> HIDE DEF lost
<1>3. /\ given' \in [fetch : SUBSET Numbers, rebuild : BOOLEAN, build : SUBSET Clusters]
      /\ given'.rebuild = given.rebuild /\ given'.build = given.build
  BY <1>1, <1>2
<1>4. /\ fetches' \in [Numbers -> Row] /\ events' \in 0 .. MaxEvents
  BY <1>1, RowTypes, NumberTypes DEF IInv, TypeOK, Happens
<1>5. TypeOK'
  BY <1>1, <1>3, <1>4 DEF IInv, TypeOK, tables
<1>6. Aside
  BY <1>1, <1>3 DEF Aside
<1> QED
  BY <1>5, <1>6, AsideKeeps

LEMMA StoreRefusedKeeps ==
  ASSUME IInv, NEW w \in Workers, StoreRefused(w)
  PROVE  IInv'
<1> DEFINE n == session[w].job
           lost == IF Exhausted(fetches[n]) THEN given.fetch \cup {n} ELSE given.fetch
<1>1. /\ fetches' = [fetches EXCEPT ![n] = Failed(@)]
      /\ given' = [given EXCEPT !.fetch = lost]
      /\ session' = [session EXCEPT ![w] = Idle]
      /\ UNCHANGED <<jobs, rebuilds, builds, storage, tables, fresh, clock, events,
                     behind, crossed, dated>>
  BY DEF StoreRefused, Rests
<1>2. n \in Numbers /\ w \in Sessions /\ session[w] \in Stages
  BY StageIs, NumberTypes DEF IInv, TypeOK, StoreRefused, At
<1> HIDE DEF n
<1>3. lost \subseteq Numbers /\ given \in [fetch : SUBSET Numbers, rebuild : BOOLEAN, build : SUBSET Clusters]
  BY <1>2 DEF IInv, TypeOK
<1> HIDE DEF lost
<1>4. /\ given' \in [fetch : SUBSET Numbers, rebuild : BOOLEAN, build : SUBSET Clusters]
      /\ given'.rebuild = given.rebuild /\ given'.build = given.build
  BY <1>1, <1>3
<1>5. fetches' \in [Numbers -> Row] /\ session' \in [Sessions -> Stages]
  BY <1>1, <1>2, RowTypes, IdleTyped DEF IInv, TypeOK
<1>6. TypeOK'
  BY <1>1, <1>4, <1>5 DEF IInv, TypeOK, tables
<1>7. \A x \in Sessions : session'[x].stage \in {"stored", "placing"} => session'[x] = session[x]
  BY <1>1, <1>2, IdleTyped DEF IInv, TypeOK
<1>8. Aside
  BY <1>1, <1>4, <1>7 DEF Aside
<1> QED
  BY <1>6, <1>8, AsideKeeps

\* A run that looks for its object writes it only where there was none, or the same.
LEMMA StoreKeeps ==
  ASSUME IInv, NEW w \in Workers, Store(w)
  PROVE  IInv'
<1> DEFINE r == session[w]
<1>1. /\ w \in Sessions /\ r \in Stages /\ r.stage = "fetched" /\ r.job \in Numbers /\ r.page \in Page
      /\ r \in [stage : {"fetched", "stored", "replayed"}, job : Numbers, page : Page, at : Nat]
      /\ storage \in [Numbers -> Page \cup {None}] /\ session \in [Sessions -> Stages]
  BY StageIs, NumberTypes DEF IInv, TypeOK, Store, At
<1>2. UNCHANGED <<queue, tables, fresh, clock, events, history>>
  BY DEF Store
<1>3. \/ /\ session' = [session EXCEPT ![w] = [r EXCEPT !.stage = "replayed"]]
         /\ storage' = storage
      \/ /\ session' = [session EXCEPT ![w] = [r EXCEPT !.stage = "stored"]]
         /\ storage[r.job] \in {None, r.page} /\ storage' = [storage EXCEPT ![r.job] = r.page]
         /\ snapshot[r.job] = None
  BY DEF Store
<1> HIDE DEF r
<1>4. ASSUME NEW q \in {"replayed", "stored"}
      PROVE  LET p == [r EXCEPT !.stage = q] IN
             p \in Stages /\ p.stage = q /\ p.job = r.job /\ p.page = r.page
  BY <1>1 DEF Stages
<1>5. CASE /\ session' = [session EXCEPT ![w] = [r EXCEPT !.stage = "replayed"]]
           /\ storage' = storage
  <2> DEFINE p == [r EXCEPT !.stage = "replayed"]
  <2>1. p \in Stages /\ p.stage = "replayed" /\ session' = [session EXCEPT ![w] = p]
    BY <1>4, <1>5
  <2> HIDE DEF p
  <2>2. session' \in [Sessions -> Stages]
    BY <1>1, <2>1
  <2>3. TypeOK'
    BY <1>2, <1>5, <2>2 DEF IInv, TypeOK, queue, tables, history
  <2>4. \A x \in Sessions : session'[x].stage \in {"stored", "placing"} => session'[x] = session[x]
    BY <1>1, <2>1
  <2>5. Aside
    BY <1>2, <1>5, <2>4 DEF Aside, queue, history
  <2> QED
    BY <2>3, <2>5, AsideKeeps
<1>6. CASE /\ session' = [session EXCEPT ![w] = [r EXCEPT !.stage = "stored"]]
           /\ storage[r.job] \in {None, r.page} /\ storage' = [storage EXCEPT ![r.job] = r.page]
           /\ snapshot[r.job] = None
  <2> DEFINE p == [r EXCEPT !.stage = "stored"]
  <2>1. /\ p \in Stages /\ p.stage = "stored" /\ p.job = r.job /\ p.page = r.page
        /\ session' = [session EXCEPT ![w] = p]
    BY <1>4, <1>6
  <2> HIDE DEF p
  <2>2. session' \in [Sessions -> Stages] /\ storage' \in [Numbers -> Page \cup {None}]
    BY <1>1, <1>6, <2>1
  <2>3. TypeOK'
    BY <1>2, <2>2 DEF IInv, TypeOK, queue, tables, history
  <2>4. \A n \in Numbers : n # r.job => storage'[n] = storage[n]
    BY <1>1, <1>6
  <2>5. storage'[r.job] = r.page
    BY <1>1, <1>6
  <2>6. SnapshotsMatchStorage'
    <3>1. ASSUME NEW n \in Numbers PROVE snapshot'[n] \in {None, storage'[n]}
      <4>1. snapshot' = snapshot /\ snapshot[n] \in {None, storage[n]}
        BY <1>2 DEF tables, IInv, StoredKept, SnapshotsMatchStorage
      <4> QED
        BY <1>6, <2>4, <4>1
    <3> QED
      BY <3>1 DEF SnapshotsMatchStorage
  <2>7. ASSUME NEW x \in Sessions, session'[x].stage = "stored"
        PROVE  storage'[session'[x].job] = session'[x].page
    <3>1. CASE x = w
      BY <1>1, <2>1, <2>5, <3>1
    <3>2. CASE x # w
      <4>1. session'[x] = session[x] /\ session[x].stage = "stored" /\ session[x] \in Stages
        BY <1>1, <2>1, <2>7, <3>2
      <4>2. /\ storage[session[x].job] = session[x].page /\ session[x].job \in Numbers
            /\ session[x].page \in Page
        BY <4>1, StageIs DEF IInv, StoredKept, At
      <4>3. CASE session[x].job = r.job
        BY <1>6, <2>5, <4>1, <4>2, <4>3
      <4>4. CASE session[x].job # r.job
        BY <2>4, <4>1, <4>2, <4>4
      <4> QED
        BY <4>3, <4>4
    <3> QED
      BY <3>1, <3>2
  <2>8. StoredKept'
    BY <2>6, <2>7 DEF StoredKept, At
  <2>9. SitesFollowTheirListing' /\ SitesPlaced' /\ ClustersCurrent'
    BY <1>2 DEF IInv, queue, tables, history, SitesFollowTheirListing, SitesPlaced, Built,
                ClustersCurrent, NoRebuildToCome, Cluster, Parts
  <2>10. FoundBuilt'
    <3>1. Built' = Built
      BY <1>2 DEF tables, Built
    <3>2. \A x \in Sessions : session'[x].stage = "placing" => session'[x] = session[x]
      BY <1>1, <2>1
    <3> QED
      BY <3>1, <3>2 DEF IInv, FoundBuilt, OfItsCluster, At
  <2> QED
    BY <2>3, <2>8, <2>9, <2>10 DEF IInv
<1> QED
  BY <1>3, <1>5, <1>6

\* A run that commits asks for a rebuild, so the clusters need not be current.
LEMMA CommitFetchKeeps ==
  ASSUME IInv, NEW w \in Workers, CommitFetch(w)
  PROVE  IInv'
<1> DEFINE r == session[w]
           kept == Kept(jobs[r.job].source, r.page)
<1>1. /\ w \in Sessions /\ r \in Stages /\ r.stage \in {"stored", "replayed"}
      /\ r.job \in Numbers /\ r.page \in Page /\ r.at \in Nat
      /\ session \in [Sessions -> Stages]
  BY StageIs, NumberTypes DEF IInv, TypeOK, CommitFetch
<1>2. /\ fetches' = [fetches EXCEPT ![r.job] = Ended]
      /\ session' = [session EXCEPT ![w] = Idle]
      /\ RoomForRebuild /\ rebuilds' = WithRebuild
      /\ UNCHANGED <<jobs, builds, storage, member, clusters, sites, fresh, clock, events, history>>
  BY DEF CommitFetch, Rests
<1>3. \/ /\ r.stage = "stored" /\ snapshot[r.job] = None
         /\ snapshot' = [snapshot EXCEPT ![r.job] = r.page]
         /\ item' = [i \in Items |-> IF i \in kept THEN Listed(item[i], r.page[i], r.at) ELSE item[i]]
      \/ snapshot' = snapshot /\ item' = item
  BY DEF CommitFetch, At
<1>4. \A i \in kept : r.page[i] \in Shapes
  <2>1. PICK s \in Sources : r.page \in Pages(s)
    BY <1>1 DEF Page
  <2>2. PICK shown \in SUBSET Lists[s] : r.page \in [shown -> Shapes]
    BY <2>1 DEF Pages
  <2> QED
    BY <2>2 DEF Kept
<1> HIDE DEF r, kept
<1>5. item' \in [Items -> Item \cup {None}]
  <2>1. ASSUME NEW i \in Items, i \in kept PROVE Listed(item[i], r.page[i], r.at) \in Item
    <3>1. item[i] \in Item \cup {None} /\ r.page[i] \in Shapes /\ r.at \in Nat
      BY <1>1, <1>4, <2>1 DEF IInv, TypeOK
    <3>2. item[i] # None => item[i].seen \in Nat
      BY <3>1 DEF Item
    <3> QED
      BY <3>1, <3>2 DEF Listed, Item
  <2>2. \A i \in Items : item[i] \in Item \cup {None}
    BY DEF IInv, TypeOK
  <2> QED
    BY <1>3, <2>1, <2>2 DEF IInv, TypeOK
<1>6. snapshot' \in [Numbers -> Page \cup {None}]
  BY <1>1, <1>3 DEF IInv, TypeOK
<1>7. rebuilds' \in [Twins -> Row] /\ \E t \in Twins : rebuilds'[t] # Ended
  BY <1>2, RebuildWanted DEF IInv
<1>8. fetches' \in [Numbers -> Row] /\ session' \in [Sessions -> Stages]
  BY <1>1, <1>2, RowTypes, IdleTyped DEF IInv, TypeOK
<1>9. TypeOK'
  BY <1>2, <1>5, <1>6, <1>7, <1>8 DEF IInv, TypeOK, history
<1>10. SnapshotsMatchStorage'
  <2>1. ASSUME r.stage = "stored" PROVE storage[r.job] = r.page
    BY <1>1, <2>1 DEF IInv, StoredKept, At, r
  <2>2. ASSUME NEW n \in Numbers PROVE snapshot'[n] \in {None, storage'[n]}
    <3>1. storage' = storage /\ snapshot[n] \in {None, storage[n]}
      BY <1>2 DEF IInv, StoredKept, SnapshotsMatchStorage
    <3>2. snapshot'[n] = snapshot[n] \/ (r.stage = "stored" /\ n = r.job /\ snapshot'[n] = r.page)
      BY <1>1, <1>3 DEF IInv, TypeOK
    <3> QED
      BY <2>1, <3>1, <3>2
  <2> QED
    BY <2>2 DEF SnapshotsMatchStorage
<1>11. \A x \in Sessions : session'[x].stage \in {"stored", "placing"} => session'[x] = session[x]
  BY <1>1, <1>2, IdleTyped
<1>12. StoredKept'
  BY <1>2, <1>10, <1>11 DEF IInv, StoredKept, At
<1>13. SitesFollowTheirListing' /\ SitesPlaced'
  BY <1>2 DEF IInv, history, SitesFollowTheirListing, SitesPlaced, Built
<1>14. ClustersCurrent'
  BY <1>7 DEF ClustersCurrent, NoRebuildToCome
<1>15. FoundBuilt'
  BY <1>2, <1>11 DEF IInv, FoundBuilt, OfItsCluster, At, Built
<1> QED
  BY <1>9, <1>12, <1>13, <1>14, <1>15 DEF IInv

-----------------------------------------------------------------------------
(* The cluster rebuild *)

LEMMA RebuildKeeps ==
  ASSUME IInv, NEW w \in Workers, NEW t \in Twins, Rebuild(w, t)
  PROVE  IInv'
<1> DEFINE p == [stage |-> "rebuilding", twin |-> t, view |-> item, known |-> clusters, alone |-> TRUE]
<1>1. /\ w \in Sessions
      /\ rebuilds' = [rebuilds EXCEPT ![t] = Claimed(@)]
      /\ session' = [session EXCEPT ![w] = p] /\ session \in [Sessions -> Stages]
      /\ UNCHANGED <<jobs, fetches, builds, storage, tables, fresh, clock, events, history>>
  BY NumberTypes DEF IInv, TypeOK, Rebuild
<1>2. p \in Stages /\ p.stage = "rebuilding"
  BY DEF IInv, TypeOK, Stages
<1> HIDE DEF p
<1>3. /\ rebuilds' \in [Twins -> Row] /\ session' \in [Sessions -> Stages]
      /\ \A u \in Twins : rebuilds'[u] = Ended => rebuilds[u] = Ended
  BY <1>1, <1>2, RowTypes DEF IInv, TypeOK
<1>4. TypeOK'
  BY <1>1, <1>3 DEF IInv, TypeOK, tables, history
<1>5. Aside
  BY <1>1, <1>2, <1>3 DEF Aside, history
<1> QED
  BY <1>4, <1>5, AsideKeeps

\* A rebuild that fails may fail for good, which is kept in mind.
LEMMA RebuildFailsKeeps ==
  ASSUME IInv, NEW w \in Workers, NEW t \in Twins, RebuildFails(w, t)
  PROVE  IInv'
<1> DEFINE lost == given.rebuild \/ Exhausted(Claimed(rebuilds[t]))
<1>1. /\ rebuilds' = [rebuilds EXCEPT ![t] = Failed(Claimed(@))]
      /\ given' = [given EXCEPT !.rebuild = lost]
      /\ UNCHANGED <<jobs, fetches, builds, storage, tables, fresh, session, clock, events,
                     behind, crossed, dated>>
  BY DEF RebuildFails
<1>2. given \in [fetch : SUBSET Numbers, rebuild : BOOLEAN, build : SUBSET Clusters] /\ lost \in BOOLEAN
  BY DEF IInv, TypeOK, Exhausted
<1>3. rebuilds[t] \in Row /\ rebuilds' \in [Twins -> Row]
  BY <1>1, RowTypes DEF IInv, TypeOK
<1>4. /\ given' \in [fetch : SUBSET Numbers, rebuild : BOOLEAN, build : SUBSET Clusters]
      /\ given'.rebuild = lost
  <2> HIDE DEF lost
  <2> QED
    BY <1>1, <1>2
<1>5. TypeOK'
  BY <1>1, <1>3, <1>4 DEF IInv, TypeOK, tables
<1>6. ClustersCurrent'
  <2>1. CASE ~given'.rebuild
    <3>1. ~Exhausted(Claimed(rebuilds[t]))
      BY <1>4, <2>1
    <3>2. rebuilds'[t] # Ended
      BY <1>1, <1>3, <3>1, RowTypes DEF IInv, TypeOK
    <3> QED
      BY <3>2 DEF ClustersCurrent, NoRebuildToCome
  <2>2. CASE given'.rebuild
    BY <2>2 DEF ClustersCurrent
  <2> QED
    BY <2>1, <2>2
<1>7. StoredKept' /\ SitesFollowTheirListing' /\ SitesPlaced' /\ FoundBuilt'
  BY <1>1 DEF IInv, tables, StoredKept, SnapshotsMatchStorage, At, SitesFollowTheirListing,
              SitesPlaced, FoundBuilt, OfItsCluster, Built
<1> QED
  BY <1>5, <1>6, <1>7 DEF IInv

LEMMA CommitRebuildKeeps ==
  ASSUME IInv, NEW w \in Workers, CommitRebuild(w)
  PROVE  IInv'
<1> DEFINE r == session[w]
           view == r.view
           gone == Obsolete(view, r.known)
<1>1. /\ w \in Sessions /\ r \in Stages /\ r.stage = "rebuilding" /\ r.twin \in Twins
      /\ view \in [Items -> Item \cup {None}] /\ r.known \in SUBSET Clusters
      /\ session \in [Sessions -> Stages]
  BY StageIs, NumberTypes DEF IInv, TypeOK, CommitRebuild, At
<1>2. /\ member' = [i \in Items |-> IF view[i] # None THEN Cluster(view, i)
                                    ELSE IF member[i] \in gone THEN None ELSE member[i]]
      /\ clusters' = (clusters \cup Parts(view)) \ gone
      /\ sites' = [s \in Clusters |-> IF s \in Built
                     THEN [sites[s] EXCEPT !.cluster = Home(view, s)] ELSE None]
      /\ builds' = WithBuilds(OpenClusters(member', clusters'))
      /\ rebuilds' = [rebuilds EXCEPT ![r.twin] = Ended]
      /\ behind' = {i \in Items : view[i] # item[i]}
      /\ crossed' = {s \in crossed : view[sites[s].listing] = None}
      /\ given' = [given EXCEPT !.rebuild = FALSE]
      /\ UNCHANGED <<jobs, fetches, storage, snapshot, item, fresh, clock, events, dated>>
  BY DEF CommitRebuild
<1>3. session' = [x \in Sessions |->
             IF x = w THEN Idle
             ELSE IF session[x].stage = "rebuilding" THEN [session[x] EXCEPT !.alone = FALSE]
             ELSE session[x]]
  BY DEF CommitRebuild, At
<1> HIDE DEF r
<1>4. /\ Parts(view) \subseteq Clusters
      /\ \A i \in Items : view[i] # None => Cluster(view, i) \in Parts(view)
      /\ Parts(view) \cap gone = {} /\ \A s \in Built : Home(view, s) \notin gone
  BY PartsTyped DEF Obsolete
<1> HIDE DEF gone
<1>5. /\ member' \in [Items -> Clusters \cup {None}] /\ clusters' \subseteq Clusters
      /\ \A i \in Items : view[i] # None => member'[i] = Cluster(view, i)
      /\ \A i \in Items : view[i] = None /\ member[i] \notin gone => member'[i] = member[i]
  BY <1>2, <1>4 DEF IInv, TypeOK
<1>6. ASSUME NEW s \in Clusters, s \in Built
      PROVE  /\ sites'[s] \in [cluster : Clusters, listing : Items]
             /\ sites'[s].cluster = Home(view, s) /\ sites'[s].listing = sites[s].listing
  <2>1. sites[s] \in [cluster : Clusters, listing : Items] /\ Home(view, s) \in Clusters
    BY <1>6, HomeTyped DEF IInv
  <2>2. sites'[s] = [sites[s] EXCEPT !.cluster = Home(view, s)]
    BY <1>2, <1>6
  <2> QED
    BY <2>1, <2>2
<1>7. \A s \in Clusters : s \notin Built => sites'[s] = None
  BY <1>2
<1>8. sites' \in [Clusters -> [cluster : Clusters, listing : Items] \cup {None}]
  BY <1>2, <1>6, <1>7
<1>9. ASSUME NEW x \in Sessions
      PROVE  /\ session'[x] \in Stages
             /\ session'[x].stage \in {"stored", "placing"} => session'[x] = session[x]
  <2>1. CASE x = w
    BY <1>3, <2>1, IdleTyped
  <2>2. CASE x # w /\ session[x].stage = "rebuilding"
    <3>1. session[x] \in [stage : {"rebuilding"}, twin : Twins, view : [Items -> Item \cup {None}],
                          known : SUBSET Clusters, alone : BOOLEAN]
      BY <1>1, <2>2, StageIs
    <3>2. session'[x] = [session[x] EXCEPT !.alone = FALSE]
      BY <1>3, <2>2
    <3>3. /\ session'[x] \in [stage : {"rebuilding"}, twin : Twins, view : [Items -> Item \cup {None}],
                              known : SUBSET Clusters, alone : BOOLEAN]
          /\ session'[x].stage = "rebuilding"
      BY <3>1, <3>2
    <3> QED
      BY <3>3 DEF Stages
  <2>3. CASE x # w /\ session[x].stage # "rebuilding"
    BY <1>1, <1>3, <2>3
  <2> QED
    BY <2>1, <2>2, <2>3
<1>10. session' \in [Sessions -> Stages]
  BY <1>3, <1>9
<1>11. rebuilds' \in [Twins -> Row] /\ builds' \in [Clusters \X Twins -> Row]
  BY <1>1, <1>2, RowTypes, BuildsTyped DEF IInv, TypeOK
<1>12. /\ given' \in [fetch : SUBSET Numbers, rebuild : BOOLEAN, build : SUBSET Clusters]
       /\ behind' \subseteq Items /\ crossed' \subseteq Clusters
  BY <1>2 DEF IInv, TypeOK
<1>13. TypeOK'
  BY <1>2, <1>5, <1>8, <1>10, <1>11, <1>12 DEF IInv, TypeOK
<1>14. StoredKept'
  BY <1>2, <1>9 DEF IInv, StoredKept, SnapshotsMatchStorage, At
<1>15. \A s \in Built' : s \in Built /\ s \in Clusters
  BY <1>7 DEF Built
<1>16. ASSUME NEW s \in Built'
       PROVE  /\ sites'[s].cluster \in clusters'
              /\ member'[sites'[s].listing] = sites'[s].cluster \/ s \in crossed'
  <2>1. /\ s \in Built /\ s \in Clusters /\ sites'[s].listing = sites[s].listing
        /\ sites'[s].cluster = Home(view, s) /\ sites[s].listing \in Items
        /\ Home(view, s) \notin gone
    BY <1>4, <1>6, <1>15, HomeTyped DEF IInv
  <2>2. CASE view[sites[s].listing] # None
    <3>1. Home(view, s) = Cluster(view, sites[s].listing)
      BY <2>1, <2>2, HomeTyped DEF IInv
    <3> QED
      BY <1>2, <1>4, <1>5, <2>1, <2>2, <3>1
  <2>3. CASE view[sites[s].listing] = None
    <3>1. Home(view, s) = sites[s].cluster
      BY <2>1, <2>3, HomeTyped DEF IInv
    <3>2. sites[s].cluster \in clusters
      BY <2>1 DEF IInv, SitesPlaced
    <3>3. member[sites[s].listing] = sites[s].cluster \/ s \in crossed
      BY <2>1 DEF IInv, SitesFollowTheirListing
    <3> QED
      BY <1>2, <1>5, <2>1, <2>3, <3>1, <3>2, <3>3
  <2> QED
    BY <2>2, <2>3
<1>17. SitesFollowTheirListing' /\ SitesPlaced'
  BY <1>16 DEF SitesFollowTheirListing, SitesPlaced
<1>18. ClustersCurrent'
  <2> SUFFICES ASSUME behind' = {}
               PROVE  /\ \A i \in Items : item'[i] # None => member'[i] = Cluster(item', i)
                      /\ Parts(item') \cup {sites'[s].cluster : s \in Built'} \subseteq clusters'
    BY DEF ClustersCurrent
  <2>1. \A i \in Items : view[i] = item[i]
    BY <1>2
  <2>2. view = item /\ item' = item
    BY <1>1, <1>2, <2>1 DEF IInv, TypeOK
  <2>3. Parts(item) \subseteq clusters'
    BY <1>2, <1>4, <2>2
  <2> QED
    BY <1>5, <1>16, <2>2, <2>3
<1>19. FoundBuilt'
  <2>1. Built \subseteq Built'
    BY <1>6 DEF Built
  <2> QED
    BY <1>9, <2>1 DEF IInv, FoundBuilt, OfItsCluster, At
<1> QED
  BY <1>13, <1>14, <1>17, <1>18, <1>19 DEF IInv

-----------------------------------------------------------------------------
(* The site build *)

LEMMA SurveyTyped ==
  ASSUME TypeOK, NEW x \in Sessions, NEW c \in Clusters, NEW t \in Twins \cup {0}, Survey(x, c, t)
  PROVE  /\ session' \in [Sessions -> Stages]
         /\ \A y \in Sessions : session'[y].stage \in {"stored", "placing"} => session'[y] = session[y]
<1>1. PICK i \in Newest(member, c) :
        session' = [session EXCEPT ![x] =
                      [stage |-> "surveying", cluster |-> c, twin |-> t, listing |-> i]]
  BY DEF Survey
<1> DEFINE p == [stage |-> "surveying", cluster |-> c, twin |-> t, listing |-> i]
<1>2. p \in Stages /\ p.stage = "surveying"
  BY DEF Newest, Stages
<1>3. session' = [session EXCEPT ![x] = p] /\ session \in [Sessions -> Stages]
  BY <1>1 DEF TypeOK
<1> HIDE DEF p
<1> QED
  BY <1>2, <1>3

LEMMA BuildKeeps ==
  ASSUME IInv, NEW w \in Workers, NEW c \in Clusters, NEW t \in Twins, Build(w, c, t)
  PROVE  IInv'
<1>1. /\ w \in Sessions /\ Survey(w, c, t) /\ builds' = [builds EXCEPT ![<<c, t>>] = Claimed(@)]
      /\ UNCHANGED <<jobs, fetches, rebuilds, storage, tables, fresh, clock, events, history>>
  BY NumberTypes DEF Build
<1>2. builds' \in [Clusters \X Twins -> Row]
  BY <1>1, RowTypes DEF IInv, TypeOK
<1>3. TypeOK'
  BY <1>1, <1>2, SurveyTyped DEF IInv, TypeOK, tables, history
<1>4. Aside
  BY <1>1, SurveyTyped DEF IInv, Aside, history
<1> QED
  BY <1>3, <1>4, AsideKeeps

LEMMA AskKeeps ==
  ASSUME IInv, NEW x \in Clerks, NEW c \in Clusters, AskForSite(x, c)
  PROVE  IInv'
<1>1. /\ x \in Sessions /\ Survey(x, c, 0) /\ events' \in 0 .. MaxEvents
      /\ UNCHANGED <<queue, storage, tables, fresh, clock, history>>
  BY NumberTypes DEF AskForSite, Happens, IInv, TypeOK
<1>2. TypeOK'
  BY <1>1, SurveyTyped DEF IInv, TypeOK, queue, tables, history
<1>3. Aside
  BY <1>1, SurveyTyped DEF IInv, Aside, queue, history
<1> QED
  BY <1>2, <1>3, AsideKeeps

LEMMA BuildFailsKeeps ==
  ASSUME IInv, NEW w \in Workers, NEW c \in Clusters, NEW t \in Twins, BuildFails(w, c, t)
  PROVE  IInv'
<1> DEFINE lost == IF Exhausted(Claimed(builds[<<c, t>>])) THEN given.build \cup {c} ELSE given.build
<1>1. /\ builds' = [builds EXCEPT ![<<c, t>>] = Failed(Claimed(@))]
      /\ given' = [given EXCEPT !.build = lost]
      /\ events' = events \/ Happens
      /\ UNCHANGED <<jobs, fetches, rebuilds, storage, tables, fresh, session, clock,
                     behind, crossed, dated>>
  BY DEF BuildFails
<1>2. given \in [fetch : SUBSET Numbers, rebuild : BOOLEAN, build : SUBSET Clusters] /\ lost \subseteq Clusters
  BY DEF IInv, TypeOK
<1> HIDE DEF lost
<1>3. /\ given' \in [fetch : SUBSET Numbers, rebuild : BOOLEAN, build : SUBSET Clusters]
      /\ given'.rebuild = given.rebuild
  BY <1>1, <1>2
<1>4. builds' \in [Clusters \X Twins -> Row]
  BY <1>1, RowTypes DEF IInv, TypeOK
<1>5. events' \in 0 .. MaxEvents
  BY <1>1, NumberTypes DEF IInv, TypeOK, Happens
<1>6. TypeOK'
  BY <1>1, <1>3, <1>4, <1>5 DEF IInv, TypeOK, tables
<1>7. Aside
  BY <1>1, <1>3 DEF Aside
<1> QED
  BY <1>6, <1>7, AsideKeeps

LEMMA LookUpKeeps ==
  ASSUME IInv, NEW x \in Sessions, LookUp(x)
  PROVE  IInv'
<1> DEFINE r == session[x]
           p == [stage |-> "placing", cluster |-> r.cluster, twin |-> r.twin,
                 listing |-> r.listing,
                 found |-> [s \in Clusters |-> IF s \in SiteOf(r.cluster) THEN sites[s] ELSE None]]
<1>1. /\ r.cluster \in Clusters /\ r.twin \in Twins \cup {0} /\ r.listing \in Items
      /\ session \in [Sessions -> Stages]
  BY StageIs DEF IInv, TypeOK, LookUp, At
<1>2. p \in Stages /\ p.stage = "placing" /\ OfItsCluster(p)
  <2>1. ASSUME NEW s \in Clusters
        PROVE  /\ p.found[s] \in [cluster : Clusters, listing : Items] \cup {None}
               /\ p.found[s] # None => s \in Built /\ p.found[s].cluster = r.cluster
    BY DEF IInv, TypeOK, SiteOf, Built
  <2>2. p.found \in [Clusters -> [cluster : Clusters, listing : Items] \cup {None}]
    BY <2>1
  <2> QED
    BY <1>1, <2>1, <2>2 DEF Stages, OfItsCluster
<1>3. /\ session' = [session EXCEPT ![x] = p]
      /\ UNCHANGED <<queue, storage, tables, fresh, clock, events, history>>
  BY DEF LookUp
<1> HIDE DEF p, r
<1>4. session' \in [Sessions -> Stages]
  BY <1>1, <1>2, <1>3
<1>5. TypeOK'
  BY <1>3, <1>4 DEF IInv, TypeOK, queue, tables, history
<1>6. Aside
  BY <1>1, <1>2, <1>3 DEF Aside, queue, history
<1> QED
  BY <1>5, <1>6, AsideKeeps

\* What the commit of a build does to each site: it leaves it alone, writes the listing of one it
\* found, or inserts the one of its cluster.
LEMMA CommitBuildWrites ==
  ASSUME IInv, NEW x \in Sessions, CommitBuild(x)
  PROVE  LET r == session[x]
             Site == [cluster : Clusters, listing : Items]
         IN /\ r.stage = "placing" /\ r.cluster \in Clusters /\ r.twin \in Twins \cup {0} /\ r.listing \in Items
            /\ \A s \in Clusters :
                 /\ sites'[s] \in Site \cup {None}
                 /\ s \in Built => /\ sites'[s] \in Site /\ sites'[s] # None /\ sites'[s].cluster = sites[s].cluster
                                  /\ sites'[s].listing \in {sites[s].listing, r.listing}
                 /\ s \in Found(x) => s \in Built /\ r.found[s].cluster = r.cluster
                 /\ s \in Found(x) /\ sites[s] = r.found[s] => sites'[s].listing = r.listing
                 /\ Found(x) # {} /\ s \notin Found(x) => sites'[s] = sites[s]
                 /\ Found(x) = {} /\ s # r.cluster => sites'[s] = sites[s]
            /\ Found(x) = {} => /\ sites'[r.cluster] = [cluster |-> r.cluster, listing |-> r.listing]
                                /\ sites[r.cluster] = None /\ r.cluster \in clusters
            /\ sites' \in [Clusters -> Site \cup {None}]
<1> DEFINE r == session[x]
           c == r.cluster
           l == r.listing
           Site == [cluster : Clusters, listing : Items]
<1>1. /\ r.stage = "placing" /\ c \in Clusters /\ r.twin \in Twins \cup {0} /\ l \in Items
      /\ r.found \in [Clusters -> Site \cup {None}] /\ sites \in [Clusters -> Site \cup {None}]
  BY StageIs DEF IInv, TypeOK, CommitBuild, At
<1>2. sites' = [s \in Clusters |->
                  IF Found(x) = {} /\ s = c THEN [cluster |-> c, listing |-> l]
                  ELSE IF s \in Found(x) /\ r.found[s].listing # l THEN [sites[s] EXCEPT !.listing = l]
                  ELSE sites[s]]
  BY DEF CommitBuild
<1>3. Found(x) = {} => sites[c] = None /\ c \in clusters
  BY DEF CommitBuild, CanPlace
<1>4. \A s \in Found(x) : s \in Clusters /\ s \in Built /\ r.found[s].cluster = c /\ r.found[s] # None
  BY <1>1 DEF IInv, FoundBuilt, At, OfItsCluster, Found
<1>5. [cluster |-> c, listing |-> l] \in Site /\ \A q \in Site : q # None
  BY <1>1
<1>6. ASSUME NEW q \in Site
      PROVE  LET p == [q EXCEPT !.listing = l] IN p \in Site /\ p.cluster = q.cluster /\ p.listing = l
  BY <1>1
<1>7. \A s \in Built : s \in Clusters /\ sites[s] \in Site
  BY <1>1 DEF Built
<1> HIDE DEF r, Site
<1>8. ASSUME NEW s \in Clusters
      PROVE  /\ sites'[s] \in Site \cup {None}
             /\ s \in Built => /\ sites'[s] \in Site /\ sites'[s].cluster = sites[s].cluster
                              /\ sites'[s].listing \in {sites[s].listing, l}
             /\ s \in Found(x) /\ sites[s] = r.found[s] => sites'[s].listing = l
             /\ Found(x) # {} /\ s \notin Found(x) => sites'[s] = sites[s]
             /\ Found(x) = {} /\ s # c => sites'[s] = sites[s]
  <2>1. CASE Found(x) = {} /\ s = c
    <3>1. sites'[s] = [cluster |-> c, listing |-> l]
      BY <1>2, <2>1
    <3> QED
      BY <1>3, <1>5, <2>1, <3>1 DEF Built
  <2>2. CASE s \in Found(x) /\ r.found[s].listing # l
    <3>1. sites'[s] = [sites[s] EXCEPT !.listing = l] /\ sites[s] \in Site
      BY <1>2, <1>4, <1>7, <2>2
    <3> DEFINE p == [sites[s] EXCEPT !.listing = l]
    <3>2. p \in Site /\ p.cluster = sites[s].cluster /\ p.listing = l
      BY <1>6, <3>1
    <3>3. sites'[s] = p
      BY <3>1
    <3> HIDE DEF p
    <3> QED
      BY <2>2, <3>2, <3>3
  <2>3. CASE ~(Found(x) = {} /\ s = c) /\ ~(s \in Found(x) /\ r.found[s].listing # l)
    <3>1. sites'[s] = sites[s]
      BY <1>2, <2>3
    <3> QED
      BY <1>1, <1>7, <2>3, <3>1
  <2> QED
    BY <2>1, <2>2, <2>3
<1>9. Found(x) = {} => sites'[c] = [cluster |-> c, listing |-> l]
  BY <1>1, <1>2
<1>10. sites' \in [Clusters -> Site \cup {None}]
  BY <1>2, <1>8
<1> QED
  BY <1>1, <1>3, <1>4, <1>5, <1>8, <1>9, <1>10 DEF r, Site

\* A build writes one site: where its listing is another cluster's by now, that is kept in mind.
LEMMA CommitBuildKeeps ==
  ASSUME IInv, NEW x \in Sessions, CommitBuild(x)
  PROVE  IInv'
<1> DEFINE r == session[x]
           c == r.cluster
           l == r.listing
           written == IF Found(x) # {} THEN Found(x) ELSE {c}
           moved == {s \in Found(x) : sites[s] # r.found[s]}
           astray == Found(x) # {} /\ \A s \in Found(x) : sites[s].cluster # c
           lost == IF astray THEN given.build \cup {c} ELSE given.build \ {c}
<1>1. /\ c \in Clusters /\ r.twin \in Twins \cup {0} /\ l \in Items
      /\ session \in [Sessions -> Stages]
      /\ sites' \in [Clusters -> [cluster : Clusters, listing : Items] \cup {None}]
  BY CommitBuildWrites DEF IInv, TypeOK
<1>2. /\ session' = [session EXCEPT ![x] = Idle]
      /\ crossed' = (crossed \ written) \cup {s \in written : member[sites'[s].listing] # sites'[s].cluster}
      /\ dated' = (dated \ written) \cup {s \in written : s \in moved \/ Newest(member, c) # {l}}
      /\ builds' = IF r.twin = 0 THEN builds ELSE [builds EXCEPT ![<<c, r.twin>>] = Ended]
      /\ given' = [given EXCEPT !.build = lost]
      /\ UNCHANGED <<jobs, fetches, rebuilds, storage, snapshot, item, member, clusters, fresh,
                     clock, events, behind>>
  BY DEF CommitBuild, Rests
<1>3. \A s \in Built : s \in Clusters /\ s \in Built' /\ sites'[s].cluster = sites[s].cluster
  BY CommitBuildWrites DEF Built
<1>4. ASSUME NEW s \in Built', s \notin Built
      PROVE  s = c /\ sites'[s].cluster = c /\ c \in clusters /\ s \in written
  <2>1. s \in Clusters /\ sites[s] = None /\ sites'[s] # None
    BY <1>4 DEF Built
  <2>2. Found(x) = {} /\ s = c
    <3>1. s \notin Found(x)
      BY <1>4, <2>1, CommitBuildWrites
    <3>2. sites'[s] # sites[s]
      BY <2>1
    <3> QED
      BY <2>1, <3>1, <3>2, CommitBuildWrites
  <2>3. sites'[c] = [cluster |-> c, listing |-> l] /\ c \in clusters
    BY <2>2, CommitBuildWrites
  <2> QED
    BY <2>2, <2>3
<1>5. ASSUME NEW s \in Clusters, s \notin written
      PROVE  sites'[s] = sites[s]
  BY <1>5, CommitBuildWrites
<1>6. written \subseteq Clusters
  BY <1>1 DEF Found
<1>7. lost \subseteq Clusters
  BY <1>1 DEF IInv, TypeOK
<1> HIDE DEF r, written, moved, lost
<1>8. /\ session' \in [Sessions -> Stages]
      /\ \A y \in Sessions : session'[y].stage \in {"stored", "placing"} => session'[y] = session[y]
  BY <1>1, <1>2, IdleTyped
<1>9. builds' \in [Clusters \X Twins -> Row]
  BY <1>1, <1>2, RowTypes DEF IInv, TypeOK
<1>10. /\ given' \in [fetch : SUBSET Numbers, rebuild : BOOLEAN, build : SUBSET Clusters]
       /\ given'.rebuild = given.rebuild
  BY <1>2, <1>7 DEF IInv, TypeOK
<1>11. dated' \subseteq Clusters /\ crossed' \subseteq Clusters
  BY <1>2, <1>6 DEF IInv, TypeOK
<1>12. TypeOK'
  BY <1>1, <1>2, <1>8, <1>9, <1>10, <1>11 DEF IInv, TypeOK
<1>13. StoredKept'
  BY <1>2, <1>8 DEF IInv, StoredKept, SnapshotsMatchStorage, At
<1>14. FoundBuilt'
  BY <1>3, <1>8 DEF IInv, FoundBuilt, OfItsCluster, At
<1>15. \A s \in Built' : sites'[s].cluster \in clusters
  BY <1>3, <1>4 DEF IInv, SitesPlaced
<1>16. ASSUME NEW s \in Built'
       PROVE  member[sites'[s].listing] = sites'[s].cluster \/ s \in crossed'
  <2>1. CASE s \in written
    BY <1>2, <2>1
  <2>2. CASE s \notin written
    <3>1. s \in Built /\ s \in Clusters
      BY <1>3, <1>4, <2>2
    <3>2. sites'[s] = sites[s]
      BY <1>5, <2>2, <3>1
    <3>3. member[sites[s].listing] = sites[s].cluster \/ s \in crossed
      BY <3>1 DEF IInv, SitesFollowTheirListing
    <3> QED
      BY <1>2, <2>2, <3>2, <3>3
  <2> QED
    BY <2>1, <2>2
<1>17. SitesFollowTheirListing' /\ SitesPlaced'
  BY <1>2, <1>15, <1>16 DEF SitesFollowTheirListing, SitesPlaced
<1>18. ClustersCurrent'
  BY <1>2, <1>10, <1>15 DEF IInv, ClustersCurrent, NoRebuildToCome, Parts, Cluster
<1> QED
  BY <1>12, <1>13, <1>14, <1>17, <1>18 DEF IInv

-----------------------------------------------------------------------------
(* Ends of processes *)

LEMMA RestKeeps ==
  ASSUME IInv, NEW x \in Sessions, Rests(x), events' \in 0 .. MaxEvents,
         UNCHANGED <<queue, storage, tables, fresh, clock, history>>
  PROVE  IInv'
<1>1. /\ session' \in [Sessions -> Stages]
      /\ \A y \in Sessions : session'[y].stage \in {"stored", "placing"} => session'[y] = session[y]
  BY IdleTyped DEF IInv, TypeOK, Rests
<1>2. TypeOK'
  BY <1>1 DEF IInv, TypeOK, queue, tables, history
<1>3. Aside
  BY <1>1 DEF Aside, queue, history
<1> QED
  BY <1>2, <1>3, AsideKeeps

LEMMA BreakKeeps ==
  ASSUME IInv, NEW x \in Sessions, Break(x) \/ Crash(x)
  PROVE  IInv'
BY RestKeeps, NumberTypes DEF Break, Crash, Happens, IInv, TypeOK

-----------------------------------------------------------------------------
LEMMA Initially == Init => IInv
<1> SUFFICES ASSUME Init PROVE IInv
  OBVIOUS
<1>1. TypeOK
  BY RowTypes, IdleTyped, NumberTypes DEF Init, TypeOK
<1>2. StoredKept /\ FoundBuilt
  BY IdleTyped DEF Init, StoredKept, SnapshotsMatchStorage, FoundBuilt, At
<1>3. Built = {}
  BY DEF Init, Built
<1>4. SitesFollowTheirListing /\ SitesPlaced /\ ClustersCurrent
  BY <1>3 DEF Init, SitesFollowTheirListing, SitesPlaced, ClustersCurrent, Parts
<1> QED
  BY <1>1, <1>2, <1>4 DEF IInv

LEMMA Step == IInv /\ [Next]_vars => IInv'
<1> SUFFICES ASSUME IInv, [Next]_vars PROVE IInv'
  OBVIOUS
<1>1. CASE \E s \in Sources : Tick(s) \/ IntervalPasses(s)
  BY <1>1, CreateKeeps, IntervalKeeps DEF Tick, Listing
<1>2. CASE \E r \in Asked : Request(r[1], r[2])
  <2>1. PICK s \in Sources, type \in Listing : Create(s, type)
    BY <1>2 DEF Request
  <2> QED
    BY <2>1, CreateKeeps
<1>3. CASE \E w \in Workers, n \in Numbers : Fetch(w, n) \/ FetchFails(w, n)
  BY <1>3, FetchKeeps, FetchFailsKeeps
<1>4. CASE \E w \in Workers : Store(w) \/ StoreRefused(w) \/ CommitFetch(w) \/ CommitRebuild(w)
  BY <1>4, StoreKeeps, StoreRefusedKeeps, CommitFetchKeeps, CommitRebuildKeeps
<1>5. CASE \E w \in Workers, t \in Twins : Rebuild(w, t) \/ RebuildFails(w, t)
  BY <1>5, RebuildKeeps, RebuildFailsKeeps
<1>6. CASE \E w \in Workers, c \in Clusters, t \in Twins : Build(w, c, t) \/ BuildFails(w, c, t)
  BY <1>6, BuildKeeps, BuildFailsKeeps
<1>7. CASE \E x \in Clerks, c \in Clusters : AskForSite(x, c)
  BY <1>7, AskKeeps
<1>8. CASE \E x \in Sessions : LookUp(x) \/ CommitBuild(x) \/ Break(x) \/ Crash(x)
  BY <1>8, LookUpKeeps, CommitBuildKeeps, BreakKeeps
<1>9. CASE UNCHANGED vars
  <2>1. TypeOK'
    BY <1>9 DEF IInv, TypeOK, vars, queue, tables, history
  <2>2. Aside
    BY <1>9 DEF Aside, vars, queue, tables, history
  <2> QED
    BY <2>1, <2>2, AsideKeeps
<1> QED
  BY <1>1, <1>2, <1>3, <1>4, <1>5, <1>6, <1>7, <1>8, <1>9 DEF Next

\* The six parts hold in every reachable state of every instance.
THEOREM PipelineInvariant == Spec => []IInv
BY Initially, Step, PTL DEF Spec

\* The types of the model hold in every reachable state.
THEOREM TypeCorrect == Spec => []TypeOK
<1>1. IInv => TypeOK
  BY DEF IInv
<1> QED
  BY <1>1, PipelineInvariant, PTL

\* The bytes a committed snapshot records the hash of are the bytes in storage, whatever a later or
\* overlapping run of the same job has fetched: storage is written once per key.
THEOREM SnapshotsAreStored == Spec => []SnapshotsMatchStorage
<1>1. IInv => SnapshotsMatchStorage
  BY DEF IInv, StoredKept
<1> QED
  BY <1>1, PipelineInvariant, PTL

\* A site is linked to the cluster of its current listing, unless a rebuild moved the listing while
\* a build was writing it: a rebuild moves sites and clusters in one transaction.
THEOREM SitesFollow == Spec => []SitesFollowTheirListing
<1>1. IInv => SitesFollowTheirListing
  BY DEF IInv
<1> QED
  BY <1>1, PipelineInvariant, PTL

\* When no rebuild is to come, the clusters are those of the listings as they are, unless listings
\* were committed while the last rebuild was at work or rebuilds were given up: every change of a
\* listing leaves a rebuild behind in its own transaction.
THEOREM ClustersAreCurrent == Spec => []ClustersCurrent
<1>1. IInv => ClustersCurrent
  BY DEF IInv
<1> QED
  BY <1>1, PipelineInvariant, PTL

-----------------------------------------------------------------------------
(* Every open cluster is served *)

\* Enqueueing builds where there is room leaves one to come for each cluster asked for.
LEMMA BuildsWanted ==
  ASSUME TypeOK, NEW cs, cs \subseteq Clusters, RoomForBuilds(cs), NEW c \in cs
  PROVE  \E t \in Twins : WithBuilds(cs)[<<c, t>>] # Ended
<1>0. c \in Clusters
  OBVIOUS
<1>1. \A t \in Twins : WithBuilds(cs)[<<c, t>>] =
        IF /\ ~ \E u \in Twins : Active(builds[<<c, u>>])
           /\ builds[<<c, t>>] = Ended /\ \A u \in 1 .. (t - 1) : builds[<<c, u>>] # Ended
        THEN Queued ELSE builds[<<c, t>>]
  BY <1>0 DEF WithBuilds
<1>2. CASE \E t \in Twins : Active(builds[<<c, t>>])
  <2>1. PICK t \in Twins : Active(builds[<<c, t>>])
    BY <1>2
  <2>2. WithBuilds(cs)[<<c, t>>] = builds[<<c, t>>]
    BY <1>1, <1>2
  <2> QED
    BY <2>1, <2>2 DEF Active, Ended
<1>3. CASE ~ \E t \in Twins : Active(builds[<<c, t>>])
  <2> DEFINE P == {t \in Twins : builds[<<c, t>>] = Ended}
  <2>1. P # {} /\ P \subseteq Nat
    BY <1>3, NumberTypes DEF RoomForBuilds
  <2>2. PICK t \in P : \A u \in P : t <= u
    BY <2>1, FirstFree
  <2>3. \A u \in 1 .. (t - 1) : builds[<<c, u>>] # Ended
    <3>1. SUFFICES ASSUME NEW u \in 1 .. (t - 1), builds[<<c, u>>] = Ended PROVE FALSE
      OBVIOUS
    <3>2. t \in Nat /\ t \in 1 .. MaxTwins /\ MaxTwins \in Nat
      BY <2>2, NumberTypes DEF Twins
    <3>3. u \in Twins /\ u < t /\ u \in Nat
      BY <3>2 DEF Twins
    <3> QED
      BY <2>2, <3>1, <3>2, <3>3
  <2>4. WithBuilds(cs)[<<c, t>>] = Queued
    BY <1>1, <1>3, <2>2, <2>3
  <2> QED
    BY <2>2, <2>4, RowTypes
<1> QED
  BY <1>2, <1>3

\* A site of c that shows its listing seen last, or whose build was overtaken.
Shows(s, c) == s \in SiteOf(c) /\ (s \in dated \/ sites[s].listing \in Newest(member, c))
Open == OpenClusters(member, clusters)
Settled == NoRebuildToCome /\ behind = {} /\ ~given.rebuild

\* A step that leaves the tables alone and ends no work, unless it gives the work up.
Idly ==
  /\ UNCHANGED <<item, member, clusters, sites, behind, dated>>
  /\ Settled' => Settled
  /\ given.build \subseteq given'.build
  /\ \A c \in Clusters, t \in Twins :
       builds'[<<c, t>>] = Ended => builds[<<c, t>>] = Ended \/ c \in given'.build

LEMMA IdlyServed ==
  ASSUME IInv, OpenClustersServed, Idly
  PROVE  OpenClustersServed'
<1> SUFFICES ASSUME Settled', NEW c \in Open' \ given'.build
             PROVE  BuildToCome(c)' \/ \E s \in Clusters : Shows(s, c)'
  BY DEF OpenClustersServed, Settled, Open, Shows, SiteOf, Built
<1>1. UNCHANGED <<item, member, clusters, sites, dated>>
  BY DEF Idly
<1>2. c \in Open /\ c \in Clusters /\ c \notin given.build
  BY <1>1 DEF Idly, Open, OpenClusters, Newest, IInv, TypeOK
<1>3. BuildToCome(c) \/ \E s \in Clusters : Shows(s, c)
  BY <1>2 DEF OpenClustersServed, Settled, Idly, Open, Shows, SiteOf, Built
<1>4. BuildToCome(c) => BuildToCome(c)'
  BY <1>2 DEF Idly, BuildToCome
<1>5. ASSUME NEW s \in Clusters, Shows(s, c) PROVE Shows(s, c)'
  BY <1>1, <1>5 DEF Shows, SiteOf, Built, Newest
<1> QED
  BY <1>3, <1>4, <1>5

\* Steps that touch neither builds nor rebuilds nor what they work on.
LEMMA AwayServed ==
  ASSUME IInv, OpenClustersServed,
         UNCHANGED <<rebuilds, builds, item, member, clusters, sites, behind, dated>>,
         given'.rebuild = given.rebuild, given'.build = given.build
  PROVE  OpenClustersServed'
BY IdlyServed DEF Idly, Settled, NoRebuildToCome

LEMMA GivenUpFetch ==
  ASSUME TypeOK, NEW lost, given' = [given EXCEPT !.fetch = lost]
  PROVE  given'.rebuild = given.rebuild /\ given'.build = given.build
BY DEF TypeOK

LEMMA FetchServed ==
  ASSUME IInv, OpenClustersServed, NEW w \in Workers, NEW n \in Numbers,
         Fetch(w, n) \/ FetchFails(w, n) \/ Store(w) \/ StoreRefused(w)
  PROVE  OpenClustersServed'
<1>1. UNCHANGED <<rebuilds, builds, item, member, clusters, sites, behind, dated>>
  BY DEF Fetch, FetchFails, Store, StoreRefused, queue, tables, history
<1>2. given'.rebuild = given.rebuild /\ given'.build = given.build
  BY GivenUpFetch DEF IInv, Fetch, FetchFails, Store, StoreRefused, history
<1> QED
  BY <1>1, <1>2, AwayServed

\* A run that commits listings leaves a rebuild to come.
LEMMA CommitFetchServed ==
  ASSUME IInv, OpenClustersServed, NEW w \in Workers, CommitFetch(w)
  PROVE  OpenClustersServed'
<1>1. \E t \in Twins : rebuilds'[t] # Ended
  BY RebuildWanted DEF IInv, CommitFetch
<1> QED
  BY <1>1 DEF OpenClustersServed, NoRebuildToCome

LEMMA RebuildServed ==
  ASSUME IInv, OpenClustersServed, NEW w \in Workers, NEW t \in Twins,
         Rebuild(w, t) \/ RebuildFails(w, t)
  PROVE  OpenClustersServed'
<1>1. rebuilds[t] \in Row
  BY DEF IInv, TypeOK
<1>2. CASE Rebuild(w, t)
  <2>1. rebuilds'[t] # Ended
    BY <1>1, <1>2, RowTypes DEF Rebuild, IInv, TypeOK
  <2> QED
    BY <2>1 DEF OpenClustersServed, NoRebuildToCome
<1>3. CASE RebuildFails(w, t)
  <2> DEFINE lost == given.rebuild \/ Exhausted(Claimed(rebuilds[t]))
  <2>1. /\ rebuilds' = [rebuilds EXCEPT ![t] = Failed(Claimed(@))]
        /\ given' = [given EXCEPT !.rebuild = lost]
    BY <1>3 DEF RebuildFails
  <2>2. given'.rebuild = lost
    BY <2>1 DEF IInv, TypeOK
  <2>3. CASE Exhausted(Claimed(rebuilds[t]))
    BY <2>2, <2>3 DEF OpenClustersServed
  <2>4. CASE ~Exhausted(Claimed(rebuilds[t]))
    <3>1. rebuilds'[t] # Ended
      BY <1>1, <2>1, <2>4, RowTypes DEF IInv, TypeOK
    <3> QED
      BY <3>1 DEF OpenClustersServed, NoRebuildToCome
  <2> QED
    BY <2>3, <2>4
<1> QED
  BY <1>2, <1>3

\* A rebuild that commits leaves a build to come for every open cluster.
LEMMA CommitRebuildServed ==
  ASSUME IInv, IInv', NEW w \in Workers, CommitRebuild(w)
  PROVE  OpenClustersServed'
<1> DEFINE cs == OpenClusters(member', clusters')
<1>1. item' = item /\ RoomForBuilds(cs) /\ builds' = WithBuilds(cs)
  BY DEF CommitRebuild
<1>2. OpenClusters(member, clusters)' = cs
  BY <1>1 DEF OpenClusters, Newest
<1>3. cs \subseteq Clusters
  BY DEF OpenClusters, IInv, TypeOK
<1> HIDE DEF cs
<1>4. \A c \in cs : \E t \in Twins : builds'[<<c, t>>] # Ended
  BY <1>1, <1>3, BuildsWanted DEF IInv
<1> QED
  BY <1>2, <1>4 DEF OpenClustersServed, BuildToCome

LEMMA BuildServed ==
  ASSUME IInv, OpenClustersServed, NEW w \in Workers, NEW c \in Clusters, NEW t \in Twins,
         Build(w, c, t) \/ BuildFails(w, c, t)
  PROVE  OpenClustersServed'
<1> DEFINE lost == IF Exhausted(Claimed(builds[<<c, t>>])) THEN given.build \cup {c} ELSE given.build
<1>1. builds[<<c, t>>] \in Row /\ builds \in [Clusters \X Twins -> Row]
  BY DEF IInv, TypeOK
<1>2. UNCHANGED <<rebuilds, item, member, clusters, sites, behind, dated>>
  BY DEF Build, BuildFails, tables, history
<1>3. \/ /\ builds' = [builds EXCEPT ![<<c, t>>] = Claimed(@)] /\ given' = given
      \/ /\ builds' = [builds EXCEPT ![<<c, t>>] = Failed(Claimed(@))]
         /\ given' = [given EXCEPT !.build = lost]
  BY DEF Build, BuildFails, history
<1>4. lost = given.build \cup {c} \/ (lost = given.build /\ ~Exhausted(Claimed(builds[<<c, t>>])))
  OBVIOUS
<1> HIDE DEF lost
<1>5. /\ given'.rebuild = given.rebuild
      /\ \/ given'.build = given.build /\ builds'[<<c, t>>] = Claimed(builds[<<c, t>>])
         \/ given'.build = lost /\ builds'[<<c, t>>] = Failed(Claimed(builds[<<c, t>>]))
  BY <1>1, <1>3 DEF IInv, TypeOK
<1>6. builds'[<<c, t>>] = Ended => c \in given'.build
  BY <1>1, <1>4, <1>5, RowTypes
<1>7. ASSUME NEW d \in Clusters, NEW u \in Twins, builds'[<<d, u>>] = Ended
      PROVE  builds[<<d, u>>] = Ended \/ d \in given'.build
  <2>1. CASE <<d, u>> = <<c, t>>
    BY <1>6, <1>7, <2>1
  <2>2. CASE <<d, u>> # <<c, t>>
    BY <1>1, <1>3, <1>7, <2>2
  <2> QED
    BY <2>1, <2>2
<1>8. given.build \subseteq given'.build
  BY <1>4, <1>5
<1>9. Idly
  BY <1>2, <1>5, <1>7, <1>8 DEF Idly, Settled, NoRebuildToCome
<1> QED
  BY <1>9, IdlyServed

\* A build that commits serves its cluster unless its site has gone astray, and if it writes the
\* site of another cluster, a rebuild has moved that site since the build found it.
LEMMA CommitBuildServed ==
  ASSUME IInv, OpenClustersServed, NEW x \in Sessions, CommitBuild(x)
  PROVE  OpenClustersServed'
<1> DEFINE r == session[x]
           k == r.cluster
           l == r.listing
           written == IF Found(x) # {} THEN Found(x) ELSE {k}
           moved == {s \in Found(x) : sites[s] # r.found[s]}
           astray == Found(x) # {} /\ \A s \in Found(x) : sites[s].cluster # k
           lost == IF astray THEN given.build \cup {k} ELSE given.build \ {k}
<1> SUFFICES ASSUME Settled', NEW c \in Open' \ given'.build
             PROVE  BuildToCome(c)' \/ \E s \in Clusters : Shows(s, c)'
  BY DEF OpenClustersServed, Settled, Open, Shows, SiteOf, Built
<1>1. /\ dated' = (dated \ written) \cup {s \in written : s \in moved \/ Newest(member, k) # {l}}
      /\ builds' = IF r.twin = 0 THEN builds ELSE [builds EXCEPT ![<<k, r.twin>>] = Ended]
      /\ given' = [given EXCEPT !.build = lost]
      /\ UNCHANGED <<rebuilds, item, member, clusters, behind>>
  BY DEF CommitBuild
<1>2. given'.build = lost /\ given'.rebuild = given.rebuild
  BY <1>1 DEF IInv, TypeOK
<1>3. c \in Open /\ c \in Clusters /\ Settled /\ Newest(member, c)' = Newest(member, c)
  BY <1>1, <1>2 DEF Open, OpenClusters, Newest, Settled, NoRebuildToCome, IInv, TypeOK
<1>4. ASSUME NEW s \in Clusters, s \in written, sites'[s] # None, sites'[s].cluster = c,
             s \in moved \/ (sites'[s].listing = l /\ c = k)
      PROVE  Shows(s, c)'
  <2>1. s \in SiteOf(c)'
    BY <1>4 DEF SiteOf, Built
  <2>2. s \in dated' \/ sites'[s].listing \in Newest(member, c)
    BY <1>1, <1>4
  <2> QED
    BY <1>3, <2>1, <2>2 DEF Shows
<1>5. CASE c = k
  <2>1. ~astray
    BY <1>2, <1>5
  <2>2. CASE Found(x) = {}
    <3>1. sites'[k] = [cluster |-> k, listing |-> l] /\ k \in Clusters /\ l \in Items
      BY <2>2, CommitBuildWrites
    <3>2. sites'[k] # None
      BY <3>1
    <3>3. k \in written
      BY <2>2
    <3> QED
      BY <1>4, <1>5, <3>1, <3>2, <3>3
  <2>3. CASE Found(x) # {}
    <3>1. PICK s \in Found(x) : sites[s].cluster = k
      BY <2>1, <2>3
    <3>2. s \in Clusters /\ s \in written
      BY <2>3 DEF Found
    <3>3. s \in Built
      BY <3>2, CommitBuildWrites
    <3>4. sites'[s] # None /\ sites'[s].cluster = k
      BY <3>1, <3>2, <3>3, CommitBuildWrites
    <3>5. s \in moved \/ sites'[s].listing = l
      BY <3>2, CommitBuildWrites
    <3> QED
      BY <1>4, <1>5, <3>2, <3>4, <3>5
  <2> QED
    BY <2>2, <2>3
<1>6. CASE c # k
  <2>1. c \notin given.build
    BY <1>2, <1>6
  <2>2. BuildToCome(c) \/ \E s \in Clusters : Shows(s, c)
    BY <1>3, <2>1 DEF OpenClustersServed, Settled, Open, Shows, SiteOf, Built
  <2>3. ASSUME NEW t \in Twins, builds[<<c, t>>] # Ended PROVE builds'[<<c, t>>] # Ended
    <3>1. <<c, t>> # <<k, r.twin>> /\ builds \in [Clusters \X Twins -> Row]
      BY <1>6 DEF IInv, TypeOK
    <3> HIDE DEF r
    <3> QED
      BY <1>1, <1>3, <2>3, <3>1
  <2>4. ASSUME NEW s \in Clusters, Shows(s, c) PROVE Shows(s, c)'
    <3>1. s \in Built /\ sites[s].cluster = c
      BY <2>4 DEF Shows, SiteOf
    <3>2. sites'[s] # None /\ sites'[s].cluster = c
      BY <3>1, CommitBuildWrites
    <3>3. CASE s \in written
      <4>1. Found(x) # {}
        <5>1. SUFFICES ASSUME Found(x) = {} PROVE FALSE
          OBVIOUS
        <5>2. s = k /\ sites[k] = None
          BY <3>3, <5>1, CommitBuildWrites
        <5> QED
          BY <3>1, <5>2 DEF Built
      <4>2. s \in Found(x)
        BY <3>3, <4>1
      <4>3. r.found[s].cluster = k
        BY <4>2, CommitBuildWrites
      <4>4. s \in moved
        BY <1>6, <3>1, <4>2, <4>3
      <4>5. s \in moved \/ (sites'[s].listing = l /\ c = k)
        BY <4>4
      <4> HIDE DEF written, moved, r, k, l, astray, lost
      <4> QED
        BY <1>4, <2>4, <3>2, <3>3, <4>5
    <3>4. CASE s \notin written
      <4>1. sites'[s] = sites[s]
        BY <3>4, CommitBuildWrites
      <4>2. s \in dated => s \in dated'
        BY <1>1, <3>4
      <4> QED
        BY <1>3, <2>4, <3>1, <3>2, <4>1, <4>2 DEF Shows, SiteOf, Built
    <3> QED
      BY <3>3, <3>4
  <2> QED
    BY <2>2, <2>3, <2>4 DEF BuildToCome
<1> QED
  BY <1>5, <1>6

LEMMA StepServed == IInv /\ IInv' /\ OpenClustersServed /\ [Next]_vars => OpenClustersServed'
<1> SUFFICES ASSUME IInv, IInv', OpenClustersServed, [Next]_vars PROVE OpenClustersServed'
  OBVIOUS
<1>1. CASE \E s \in Sources, type \in Listing : Create(s, type)
  BY <1>1, AwayServed DEF Create, tables, history
<1>2. CASE \E s \in Sources : IntervalPasses(s)
  BY <1>2, AwayServed DEF IntervalPasses, queue, tables, history
<1>3. CASE \E w \in Workers, n \in Numbers : Fetch(w, n) \/ FetchFails(w, n)
  BY <1>3, FetchServed
<1>4. CASE \E w \in Workers : Store(w) \/ StoreRefused(w)
  <2>1. PICK w \in Workers : Store(w) \/ StoreRefused(w)
    BY <1>4
  <2>2. UNCHANGED <<rebuilds, builds, item, member, clusters, sites, behind, dated>>
    BY <2>1 DEF Store, StoreRefused, queue, tables, history
  <2>3. given'.rebuild = given.rebuild /\ given'.build = given.build
    BY <2>1, GivenUpFetch DEF IInv, Store, StoreRefused, history
  <2> QED
    BY <2>2, <2>3, AwayServed
<1>5. CASE \E w \in Workers : CommitFetch(w) \/ CommitRebuild(w)
  BY <1>5, CommitFetchServed, CommitRebuildServed
<1>6. CASE \E w \in Workers, t \in Twins : Rebuild(w, t) \/ RebuildFails(w, t)
  BY <1>6, RebuildServed
<1>7. CASE \E w \in Workers, c \in Clusters, t \in Twins : Build(w, c, t) \/ BuildFails(w, c, t)
  BY <1>7, BuildServed
<1>8. CASE \E x \in Sessions : CommitBuild(x)
  BY <1>8, CommitBuildServed
<1>9. CASE \/ \E x \in Clerks, c \in Clusters : AskForSite(x, c)
           \/ \E x \in Sessions : LookUp(x) \/ Break(x) \/ Crash(x)
           \/ UNCHANGED vars
  BY <1>9, AwayServed DEF AskForSite, LookUp, Break, Crash, vars, queue, tables, history
<1>10. ASSUME \E r \in Asked : Request(r[1], r[2])
       PROVE  \E s \in Sources, type \in Listing : Create(s, type)
  BY <1>10 DEF Request
<1>11. ASSUME NEW s \in Sources, Tick(s)
       PROVE  \E u \in Sources, type \in Listing : Create(u, type)
  BY <1>11 DEF Tick, Listing
<1> QED
  BY <1>1, <1>2, <1>3, <1>4, <1>5, <1>6, <1>7, <1>8, <1>9, <1>10, <1>11 DEF Next

\* When no rebuild is to come, every cluster open for a site build has a build to come or a site
\* that shows its listing seen last, unless the build was given up or overtaken: a rebuild asks for
\* every open cluster at once, and a build that commits was asked for its own.
THEOREM OpenAreServed == Spec => []OpenClustersServed
<1>1. Init => OpenClustersServed
  BY DEF Init, OpenClustersServed, OpenClusters
<1>2. IInv /\ IInv' /\ OpenClustersServed /\ [Next]_vars => OpenClustersServed'
  BY StepServed
<1> QED
  BY <1>1, <1>2, PipelineInvariant, PTL DEF Spec
====
