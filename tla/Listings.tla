------------------------------- MODULE Listings -------------------------------
(***************************************************************************)
(* From a listing source to a site: connector runs enqueued by requests    *)
(* and by the scheduler, the compliance check, raw assets written to       *)
(* storage and then the snapshot and listing rows, the cluster rebuild     *)
(* that each run asks for, the relinking of sites, and the site builds     *)
(* that a rebuild enqueues (listings/service.py, listings/clustering.py,   *)
(* sites/service.py, services/scheduler/app/main.py and the dispatcher).   *)
(*                                                                         *)
(* A session is a worker process, or a clerk: an API request that builds a *)
(* site.  It is split where it has read rows that others may change before *)
(* it commits.  A statement the database refuses leaves a transaction that *)
(* can only be rolled back; the worker then fails to record the failure as *)
(* well and its process ends, with the job row still RUNNING.              *)
(*                                                                         *)
(* The id of a cluster is the hash of its sorted members, so a cluster is  *)
(* the set of its members; the id of a site is the hash of the cluster it  *)
(* was first built from, so a site is named by that cluster.               *)
(***************************************************************************)
EXTENDS Naturals, FiniteSets

CONSTANTS
  Sources,      \* rows of listing_source
  Policy,       \* Policy[s]: what the row of source s says
  Lists,        \* Lists[s]: the listings that source s may show
  Asked,        \* the requests for listing jobs: a source and a job type
  Shapes,       \* what a listing may say: its place, whether it is open, whether it is free
  Workers,      \* worker processes
  Clerks,       \* API requests that build a site
  None,         \* no row
  MaxJobs,      \* bound of the model: listing jobs
  MaxTwins,     \* bound of the model: rows for one piece of work at a time
  MaxAttempts,  \* settings.worker_max_attempts
  MaxEvents     \* bound of the model: requests, leases that end under a live worker,
                \* crashes other than by a refused statement, sources that do not
                \* answer and clusters that nothing places on the map, together

Items == UNION {Lists[s] : s \in Sources}
Clusters == (SUBSET Items) \ {{}}
Numbers == 1 .. MaxJobs
Twins == 1 .. MaxTwins
Sessions == Workers \cup Clerks
Listing == {"MANUAL_URL_SNAPSHOT", "CSV_IMPORT_SNAPSHOT", "LISTING_SOURCE_RUN"}
Modes == {"COMPLIANT_AUTOMATED", "MANUAL_ONLY", "CSV_ONLY", "BLOCKED"}

ASSUME ListingsAssumption ==
  /\ MaxJobs \in Nat /\ MaxTwins \in Nat \ {0} /\ MaxAttempts \in Nat \ {0}
  /\ MaxEvents \in Nat
  /\ Asked \subseteq Sources \X Listing /\ Items \subseteq Nat /\ Workers \cap Clerks = {}
  /\ \A s \in Sources : /\ Policy[s].active \in BOOLEAN /\ Policy[s].timed \in BOOLEAN
                        /\ Policy[s].mode \in Modes
  /\ \A x \in Shapes : x.open \in BOOLEAN /\ x.free \in BOOLEAN

VARIABLES
  jobs,      \* jobs[n]: what the listing job n is for
  fetches,   \* fetches[n]: the state of the row of listing job n
  rebuilds,  \* rebuilds[t]: rows of cluster rebuilds
  builds,    \* builds[<<c, t>>]: rows of site builds
  storage,   \* storage[n]: the object under the path that job n derives
  snapshot,  \* snapshot[n]: the bytes whose hash the snapshot row of job n records
  item,      \* item[i]: the listing row and its current snapshot
  member,    \* member[i]: the cluster that listing i is a member of
  clusters,  \* the rows of listing_cluster
  sites,     \* sites[c]: the site first built from cluster c
  fresh,     \* sources whose last run was created less than an interval ago
  session,   \* session[x]: what session x has read
  clock,     \* fetches so far: the time stamp of observations
  events,    \* what has happened so far of what MaxEvents bounds
  behind,    \* history: listings that the last rebuild to commit had not read
  crossed,   \* history: sites put apart from their listing by a build that a rebuild overtook
  dated,     \* history: sites whose last build was overtaken: the cluster's rows, or the site,
             \* had changed since it read them
  given      \* history: work given up, its rows DEAD, or a build's work done on a site that a
             \* rebuild had moved to another cluster

queue == <<jobs, fetches, rebuilds, builds>>
tables == <<snapshot, item, member, clusters, sites>>
history == <<behind, crossed, dated, given>>
vars == <<queue, storage, tables, fresh, session, clock, events, history>>

-----------------------------------------------------------------------------
(* Rows of the queue. *)

Waiting == {"QUEUED", "FAILED"}
Row == [status : Waiting \cup {"NONE", "RUNNING"}, tries : 0 .. MaxAttempts]
Ended == [status |-> "NONE", tries |-> 0]
Queued == [status |-> "QUEUED", tries |-> 0]
Active(row) == row.status \in {"QUEUED", "RUNNING"}

Claimed(row) == [status |-> "RUNNING",
                 tries |-> IF row.tries < MaxAttempts THEN row.tries + 1 ELSE row.tries]
Exhausted(row) == row.tries >= MaxAttempts
Failed(row) == IF Exhausted(row) THEN Ended ELSE [row EXCEPT !.status = "FAILED"]

Idle == [stage |-> "idle"]
At(x, stage) == session[x].stage = stage
Rests(x) == session' = [session EXCEPT ![x] = Idle]

\* A row may be claimed when it waits, or when its lease has run out.
Claimable(row, held) == row.status \in Waiting \/ (row.status = "RUNNING" /\ ~held)
HeldFetch(n) == \E x \in Workers : session[x].stage \in {"fetched", "stored", "replayed"}
                                   /\ session[x].job = n
HeldRebuild(t) == \E x \in Workers : At(x, "rebuilding") /\ session[x].twin = t
HeldBuild(c, t) == \E x \in Workers : session[x].stage \in {"surveying", "placing"}
                                      /\ session[x].cluster = c /\ session[x].twin = t

\* A mutant: a rebuild is wanted only while there is no cluster yet.
WithFirstRebuild ==
  [t \in Twins |->
     IF /\ clusters = {} /\ ~ \E u \in Twins : Active(rebuilds[u])
        /\ rebuilds[t] = Ended /\ \A u \in 1 .. (t - 1) : rebuilds[u] # Ended
     THEN Queued ELSE rebuilds[t]]

\* A rebuild is enqueued unless one is queued or running.
WithRebuild ==
  [t \in Twins |->
     IF /\ ~ \E u \in Twins : Active(rebuilds[u])
        /\ rebuilds[t] = Ended /\ \A u \in 1 .. (t - 1) : rebuilds[u] # Ended
     THEN Queued ELSE rebuilds[t]]
\* A mutant: builds are wanted only for clusters without a site.
WithFirstBuilds(cs) ==
  [k \in Clusters \X Twins |->
     IF /\ k[1] \in cs /\ \A s \in Clusters : sites[s] = None \/ sites[s].cluster # k[1]
        /\ ~ \E u \in Twins : Active(builds[<<k[1], u>>])
        /\ builds[k] = Ended /\ \A u \in 1 .. (k[2] - 1) : builds[<<k[1], u>>] # Ended
     THEN Queued ELSE builds[k]]

\* A build is enqueued for each cluster of cs, unless one for it is queued or running.
WithBuilds(cs) ==
  [k \in Clusters \X Twins |->
     IF /\ k[1] \in cs /\ ~ \E u \in Twins : Active(builds[<<k[1], u>>])
        /\ builds[k] = Ended /\ \A u \in 1 .. (k[2] - 1) : builds[<<k[1], u>>] # Ended
     THEN Queued ELSE builds[k]]
RoomForRebuild == \E t \in Twins : rebuilds[t] = Ended \/ Active(rebuilds[t])
RoomForBuilds(cs) ==
  \A c \in cs : \E t \in Twins : builds[<<c, t>>] = Ended \/ Active(builds[<<c, t>>])

-----------------------------------------------------------------------------
(* Enqueueing listing jobs. *)

\* Intake by URL and CSV import enqueue without looking; connector runs are
\* deduplicated by source, whether an administrator or the scheduler asks.
Running(s) == \E n \in Numbers : /\ jobs[n] # None /\ Active(fetches[n])
                                 /\ jobs[n] = [source |-> s, type |-> "LISTING_SOURCE_RUN"]
Happens == events < MaxEvents /\ events' = events + 1
Create(s, type) ==
  /\ Happens
  /\ \E n \in Numbers :
       /\ jobs[n] = None /\ \A m \in 1 .. (n - 1) : jobs[m] # None
       /\ jobs' = [jobs EXCEPT ![n] = [source |-> s, type |-> type]]
       /\ fetches' = [fetches EXCEPT ![n] = Queued]
  /\ fresh' = IF type = "LISTING_SOURCE_RUN" THEN fresh \cup {s} ELSE fresh
  /\ UNCHANGED <<rebuilds, builds, storage, tables, session, clock, history>>
Request(s, type) == (type = "LISTING_SOURCE_RUN" => ~Running(s)) /\ Create(s, type)

\* The scheduler's tick, for one source that is due.
Tick(s) ==
  /\ Policy[s].active /\ Policy[s].mode = "COMPLIANT_AUTOMATED" /\ Policy[s].timed
  /\ ~Running(s) /\ s \notin fresh
  /\ Create(s, "LISTING_SOURCE_RUN")
IntervalPasses(s) ==
  /\ s \in fresh /\ fresh' = fresh \ {s}
  /\ UNCHANGED <<queue, storage, tables, session, clock, events, history>>

-----------------------------------------------------------------------------
(* A listing job: fetch, store the assets, commit the rows. *)

Complies(n) ==
  /\ Policy[jobs[n].source].active
  /\ Policy[jobs[n].source].mode \in
       CASE jobs[n].type = "MANUAL_URL_SNAPSHOT" -> {"MANUAL_ONLY", "COMPLIANT_AUTOMATED"}
         [] jobs[n].type = "CSV_IMPORT_SNAPSHOT" -> {"CSV_ONLY", "MANUAL_ONLY"}
         [] jobs[n].type = "LISTING_SOURCE_RUN" -> {"COMPLIANT_AUTOMATED"}

\* What a source may answer, and the listings that the runtime filter keeps:
\* those inside the required boroughs, none when a boundary is missing.
Pages(s) == UNION {[shown -> Shapes] : shown \in SUBSET Lists[s]}
Kept(s, page) == {i \in DOMAIN page : page[i].place \in Policy[s].inside}

ClaimFetch(w, n) ==
  /\ w \in Workers /\ At(w, "idle") /\ jobs[n] # None
  /\ \/ Claimable(fetches[n], HeldFetch(n)) /\ UNCHANGED events
     \/ fetches[n].status = "RUNNING" /\ HeldFetch(n) /\ Happens

Fetch(w, n) ==
  /\ ClaimFetch(w, n) /\ Complies(n)
  /\ fetches' = [fetches EXCEPT ![n] = Claimed(@)]
  /\ clock' = clock + 1
  /\ \E page \in Pages(jobs[n].source) :
       session' = [session EXCEPT ![w] =
                     [stage |-> "fetched", job |-> n, page |-> page, at |-> clock']]
  /\ UNCHANGED <<jobs, rebuilds, builds, storage, tables, fresh, history>>

\* The source does not comply, or does not answer.
FetchFails(w, n) ==
  /\ w \in Workers /\ At(w, "idle") /\ jobs[n] # None
  /\ Claimable(fetches[n], HeldFetch(n))
  /\ \/ ~Complies(n) /\ UNCHANGED events
     \/ Complies(n) /\ Happens
  /\ fetches' = [fetches EXCEPT ![n] = Failed(Claimed(@))]
  /\ given' = [given EXCEPT !.fetch = IF Exhausted(Claimed(fetches[n])) THEN @ \cup {n} ELSE @]
  /\ UNCHANGED <<jobs, rebuilds, builds, storage, tables, fresh, session, clock, behind, crossed, dated>>

\* A mutant: the object is put without looking whether one is there.
StoreOverwrites(w) ==
  /\ At(w, "fetched")
  /\ IF snapshot[session[w].job] # None
     THEN /\ session' = [session EXCEPT ![w].stage = "replayed"]
          /\ UNCHANGED storage
     ELSE /\ storage' = [storage EXCEPT ![session[w].job] = session[w].page]
          /\ session' = [session EXCEPT ![w].stage = "stored"]
  /\ UNCHANGED <<queue, tables, fresh, clock, events, history>>

\* A job whose snapshot is committed already writes nothing more.
Store(w) ==
  /\ At(w, "fetched")
  /\ LET n == session[w].job IN
       IF snapshot[n] # None
       THEN /\ session' = [session EXCEPT ![w].stage = "replayed"]
            /\ UNCHANGED storage
       ELSE /\ storage[n] \in {None, session[w].page}
            /\ storage' = [storage EXCEPT ![n] = session[w].page]
            /\ session' = [session EXCEPT ![w].stage = "stored"]
  /\ UNCHANGED <<queue, tables, fresh, clock, events, history>>

\* An object that is there already and differs is never overwritten.
StoreRefused(w) ==
  /\ At(w, "fetched")
  /\ LET n == session[w].job IN
       /\ snapshot[n] = None /\ storage[n] \notin {None, session[w].page}
       /\ fetches' = [fetches EXCEPT ![n] = Failed(@)]
       /\ given' = [given EXCEPT !.fetch = IF Exhausted(fetches[n]) THEN @ \cup {n} ELSE @]
  /\ Rests(w)
  /\ UNCHANGED <<jobs, rebuilds, builds, storage, tables, fresh, clock, events, behind, crossed, dated>>

Listed(old, shape, at) ==
  [shape |-> shape,
   seen |-> IF old # None /\ old.seen > at THEN old.seen ELSE at]

CommitFetch(w) ==
  /\ session[w].stage \in {"stored", "replayed"}
  /\ LET n == session[w].job
         kept == Kept(jobs[n].source, session[w].page)
     IN /\ IF At(w, "stored")
           THEN /\ snapshot[n] = None
                /\ snapshot' = [snapshot EXCEPT ![n] = session[w].page]
                /\ item' = [i \in Items |-> IF i \in kept
                              THEN Listed(item[i], session[w].page[i], session[w].at)
                              ELSE item[i]]
           ELSE UNCHANGED <<snapshot, item>>
        /\ fetches' = [fetches EXCEPT ![n] = Ended]
  /\ RoomForRebuild /\ rebuilds' = WithRebuild
  /\ Rests(w)
  /\ UNCHANGED <<jobs, builds, storage, member, clusters, sites, fresh, clock, events, history>>

-----------------------------------------------------------------------------
(* The cluster rebuild. *)

\* One page, a shared document, one address with a like headline or price, or a like
\* headline nearby: here, to be in one place.
Alike(a, b) == a.shape.place = b.shape.place

\* A mutant: a listing is compared with the others only.
ClusterOfOthers(view, i) == {j \in Items : j # i /\ view[j] # None /\ Alike(view[j], view[i])}

\* Listings with a current snapshot are one cluster when a chain of pairs alike links them.
Cluster(view, i) == {j \in Items : view[j] # None /\ Alike(view[j], view[i])}
Parts(view) == {Cluster(view, i) : i \in {j \in Items : view[j] # None}}

\* Every pair's prices are compared, and two prices of zero divide by zero.
Comparable(view) ==
  \A i, j \in Items : /\ i # j /\ view[i] # None /\ view[j] # None
                      => ~(view[i].shape.free /\ view[j].shape.free)

ClaimRebuild(w, t) ==
  w \in Workers /\ At(w, "idle") /\ Claimable(rebuilds[t], HeldRebuild(t))

Rebuild(w, t) ==
  /\ ClaimRebuild(w, t) /\ Comparable(item)
  /\ rebuilds' = [rebuilds EXCEPT ![t] = Claimed(@)]
  /\ session' = [session EXCEPT ![w] =
       [stage |-> "rebuilding", twin |-> t, view |-> item, known |-> clusters, alone |-> TRUE]]
  /\ UNCHANGED <<jobs, fetches, builds, storage, tables, fresh, clock, events, history>>

RebuildFails(w, t) ==
  /\ ClaimRebuild(w, t) /\ ~Comparable(item)
  /\ rebuilds' = [rebuilds EXCEPT ![t] = Failed(Claimed(@))]
  /\ given' = [given EXCEPT !.rebuild = @ \/ Exhausted(Claimed(rebuilds[t]))]
  /\ UNCHANGED <<jobs, fetches, builds, storage, tables, fresh, session, clock, events,
                 behind, crossed, dated>>

\* A mutant: a site stays where it was built.
HomeWhereBuilt(view, s) == sites[s].cluster

\* A site goes where its current listing went.
Home(view, s) ==
  IF view[sites[s].listing] # None THEN Cluster(view, sites[s].listing) ELSE sites[s].cluster
Built == {s \in Clusters : sites[s] # None}
\* listing_cluster_id is unique, and the updates are made one by one.
Apart(view) ==
  \A s, r \in Built : s # r => /\ Home(view, s) # Home(view, r)
                               /\ Home(view, s) # sites[r].cluster
Obsolete(view, known) == known \ (Parts(view) \cup {Home(view, s) : s \in Built})

\* The listing seen last speaks for a cluster; among those seen together, the id
\* decides (before it the confidence, which the members of one place share).
Newest(m, c) ==
  {i \in Items : /\ m[i] = c
                 /\ \A j \in Items : m[j] = c => \/ item[j].seen < item[i].seen
                                                 \/ item[j].seen = item[i].seen /\ j <= i}
OpenClusters(m, cs) == {c \in cs : \E i \in Newest(m, c) : item[i].shape.open}

CommitRebuild(w) ==
  /\ At(w, "rebuilding") /\ Apart(session[w].view)
  /\ LET view == session[w].view
         gone == Obsolete(view, session[w].known)
     IN /\ member' = [i \in Items |-> IF view[i] # None THEN Cluster(view, i)
                                      ELSE IF member[i] \in gone THEN None ELSE member[i]]
        /\ clusters' = (clusters \cup Parts(view)) \ gone
        /\ sites' = [s \in Clusters |-> IF s \in Built
                       THEN [sites[s] EXCEPT !.cluster = Home(view, s)] ELSE None]
        /\ RoomForBuilds(OpenClusters(member', clusters'))
        /\ builds' = WithBuilds(OpenClusters(member', clusters'))
        /\ rebuilds' = [rebuilds EXCEPT ![session[w].twin] = Ended]
        /\ session' = [x \in Sessions |->
             IF x = w THEN Idle
             ELSE IF At(x, "rebuilding") THEN [session[x] EXCEPT !.alone = FALSE]
             ELSE session[x]]
        /\ behind' = {i \in Items : view[i] # item[i]}
        /\ crossed' = {s \in crossed : view[sites[s].listing] = None}
  /\ given' = [given EXCEPT !.rebuild = FALSE]
  /\ UNCHANGED <<jobs, fetches, storage, snapshot, item, fresh, clock, events, dated>>

-----------------------------------------------------------------------------
(* The site build, as a job of a worker or as a request of a clerk. *)

HasMembers(c) == c \in clusters /\ Newest(member, c) # {}
Survey(x, c, t) ==
  \E i \in Newest(member, c) :
    session' = [session EXCEPT ![x] =
                  [stage |-> "surveying", cluster |-> c, twin |-> t, listing |-> i]]

Build(w, c, t) ==
  /\ w \in Workers /\ At(w, "idle") /\ Claimable(builds[<<c, t>>], HeldBuild(c, t))
  /\ HasMembers(c) /\ Survey(w, c, t)
  /\ builds' = [builds EXCEPT ![<<c, t>>] = Claimed(@)]
  /\ UNCHANGED <<jobs, fetches, rebuilds, storage, tables, fresh, clock, events, history>>

AskForSite(x, c) ==
  /\ x \in Clerks /\ At(x, "idle") /\ Happens /\ HasMembers(c) /\ Survey(x, c, 0)
  /\ UNCHANGED <<queue, storage, tables, fresh, clock, history>>

\* The cluster is gone, has no members, or nothing places it on the map.
BuildFails(w, c, t) ==
  /\ w \in Workers /\ At(w, "idle") /\ Claimable(builds[<<c, t>>], HeldBuild(c, t))
  /\ \/ ~HasMembers(c) /\ UNCHANGED events
     \/ HasMembers(c) /\ Happens
  /\ builds' = [builds EXCEPT ![<<c, t>>] = Failed(Claimed(@))]
  /\ given' = [given EXCEPT !.build =
                 IF Exhausted(Claimed(builds[<<c, t>>])) THEN @ \cup {c} ELSE @]
  /\ UNCHANGED <<jobs, fetches, rebuilds, storage, tables, fresh, session, clock,
                 behind, crossed, dated>>

\* The site of a cluster is looked up by the cluster; a new one gets the
\* cluster's id for its own.
SiteOf(c) == {s \in Built : sites[s].cluster = c}
LookUp(x) ==
  /\ At(x, "surveying")
  /\ LET c == session[x].cluster IN
       session' = [session EXCEPT ![x] =
         [stage |-> "placing", cluster |-> c, twin |-> session[x].twin,
          listing |-> session[x].listing,
          found |-> [s \in Clusters |-> IF s \in SiteOf(c) THEN sites[s] ELSE None]]]
  /\ UNCHANGED <<queue, storage, tables, fresh, clock, events, history>>

\* A site found is updated under its primary key; a new one needs an id and a
\* cluster that no site has, and a cluster row to refer to.
Found(x) == {s \in Clusters : session[x].found[s] # None}
CanPlace(x) ==
  \/ Found(x) # {}
  \/ /\ session[x].cluster \in clusters /\ sites[session[x].cluster] = None
     /\ SiteOf(session[x].cluster) = {}

\* The update names the columns that differ from what was found, wherever the site
\* is by now.
CommitBuild(x) ==
  /\ At(x, "placing") /\ CanPlace(x)
  /\ LET c == session[x].cluster
         l == session[x].listing
         found == session[x].found
         written == IF Found(x) # {} THEN Found(x) ELSE {c}
         moved == {s \in Found(x) : sites[s] # found[s]}
         astray == Found(x) # {} /\ \A s \in Found(x) : sites[s].cluster # c
     IN /\ sites' = [s \in Clusters |->
             IF Found(x) = {} /\ s = c THEN [cluster |-> c, listing |-> l]
             ELSE IF s \in Found(x) /\ found[s].listing # l THEN [sites[s] EXCEPT !.listing = l]
             ELSE sites[s]]
        /\ crossed' = (crossed \ written)
                         \cup {s \in written : member[sites'[s].listing] # sites'[s].cluster}
        /\ dated' = (dated \ written)
                       \cup {s \in written : s \in moved \/ Newest(member, c) # {l}}
        /\ given' = [given EXCEPT !.build = IF astray THEN @ \cup {c} ELSE @ \ {c}]
  /\ builds' = IF session[x].twin = 0 THEN builds
               ELSE [builds EXCEPT ![<<session[x].cluster, session[x].twin>>] = Ended]
  /\ Rests(x)
  /\ UNCHANGED <<jobs, fetches, rebuilds, storage, snapshot, item, member, clusters, fresh,
                 clock, events, behind>>

-----------------------------------------------------------------------------
(* Ends of processes. *)

\* The database refuses a statement: the snapshot of the job is committed, two
\* sites would share a cluster, a rebuild was committed since this one read, or
\* the new site has no cluster or an id that is taken.
Refused(x) ==
  \/ At(x, "stored") /\ snapshot[session[x].job] # None
  \/ At(x, "rebuilding") /\ (~session[x].alone \/ ~Apart(session[x].view))
  \/ At(x, "placing") /\ ~CanPlace(x)
Break(x) ==
  /\ Refused(x) /\ Rests(x)
  /\ UNCHANGED <<queue, storage, tables, fresh, clock, events, history>>

Crash(x) ==
  /\ ~At(x, "idle") /\ Happens /\ Rests(x)
  /\ UNCHANGED <<queue, storage, tables, fresh, clock, history>>

-----------------------------------------------------------------------------
Init ==
  /\ jobs = [n \in Numbers |-> None]
  /\ fetches = [n \in Numbers |-> Ended]
  /\ rebuilds = [t \in Twins |-> Ended]
  /\ builds = [k \in Clusters \X Twins |-> Ended]
  /\ storage = [n \in Numbers |-> None] /\ snapshot = [n \in Numbers |-> None]
  /\ item = [i \in Items |-> None] /\ member = [i \in Items |-> None]
  /\ clusters = {} /\ sites = [c \in Clusters |-> None]
  /\ fresh = {} /\ session = [x \in Sessions |-> Idle] /\ clock = 0
  /\ events = 0
  /\ behind = {} /\ crossed = {} /\ dated = {}
  /\ given = [fetch |-> {}, rebuild |-> FALSE, build |-> {}]

Next ==
  \/ \E s \in Sources : Tick(s) \/ IntervalPasses(s)
  \/ \E r \in Asked : Request(r[1], r[2])
  \/ \E w \in Workers, n \in Numbers : Fetch(w, n) \/ FetchFails(w, n)
  \/ \E w \in Workers : Store(w) \/ StoreRefused(w) \/ CommitFetch(w) \/ CommitRebuild(w)
  \/ \E w \in Workers, t \in Twins : Rebuild(w, t) \/ RebuildFails(w, t)
  \/ \E w \in Workers, c \in Clusters, t \in Twins : Build(w, c, t) \/ BuildFails(w, c, t)
  \/ \E x \in Clerks, c \in Clusters : AskForSite(x, c)
  \/ \E x \in Sessions : LookUp(x) \/ CommitBuild(x) \/ Break(x) \/ Crash(x)

Spec == Init /\ [][Next]_vars

-----------------------------------------------------------------------------
(* Correctness properties. *)

\* Every row, object and session holds what the handlers put there.
Job == [source : Sources, type : Listing]
Page == UNION {Pages(s) : s \in Sources}
ASSUME NoneAssumption == None \notin Page \cup [cluster : Clusters, listing : Items]
Item == [shape : Shapes, seen : Nat]
Stages ==
  [stage : {"idle"}]
    \cup [stage : {"fetched", "stored", "replayed"}, job : Numbers, page : Page, at : Nat]
    \cup [stage : {"rebuilding"}, twin : Twins, view : [Items -> Item \cup {None}],
          known : SUBSET Clusters, alone : BOOLEAN]
    \cup [stage : {"surveying"}, cluster : Clusters, twin : Twins \cup {0}, listing : Items]
    \cup [stage : {"placing"}, cluster : Clusters, twin : Twins \cup {0}, listing : Items,
          found : [Clusters -> [cluster : Clusters, listing : Items] \cup {None}]]
TypeOK ==
  /\ jobs \in [Numbers -> Job \cup {None}] /\ fetches \in [Numbers -> Row]
  /\ rebuilds \in [Twins -> Row] /\ builds \in [Clusters \X Twins -> Row]
  /\ storage \in [Numbers -> Page \cup {None}] /\ snapshot \in [Numbers -> Page \cup {None}]
  /\ item \in [Items -> Item \cup {None}] /\ member \in [Items -> Clusters \cup {None}]
  /\ clusters \subseteq Clusters
  /\ sites \in [Clusters -> [cluster : Clusters, listing : Items] \cup {None}]
  /\ fresh \subseteq Sources /\ session \in [Sessions -> Stages] /\ clock \in Nat
  /\ events \in 0 .. MaxEvents
  /\ behind \subseteq Items /\ crossed \subseteq Clusters /\ dated \subseteq Clusters
  /\ given \in [fetch : SUBSET Numbers, rebuild : BOOLEAN, build : SUBSET Clusters]

\* The bytes that a committed snapshot records the hash of are the bytes in
\* storage, whatever a later or overlapping run of the same job has fetched.
SnapshotsMatchStorage == \A n \in Numbers : snapshot[n] \in {None, storage[n]}

\* When no rebuild is to come, the clusters are those of the listings as they are,
\* unless listings were committed while the last rebuild was at work (a running
\* rebuild counts as a duplicate of theirs) or rebuilds were given up; and every
\* listing's cluster, every site's cluster, still has its row.
NoRebuildToCome == \A t \in Twins : rebuilds[t] = Ended
ClustersCurrent ==
  NoRebuildToCome /\ behind = {} /\ ~given.rebuild
    => /\ \A i \in Items : item[i] # None => member[i] = Cluster(item, i)
       /\ Parts(item) \cup {sites[s].cluster : s \in Built} \subseteq clusters

\* A site is linked to the cluster of its current listing, unless a rebuild moved
\* the listing while a build was writing it to the site; the next rebuild mends it.
SitesFollowTheirListing ==
  \A s \in Built : member[sites[s].listing] = sites[s].cluster \/ s \in crossed

\* When no rebuild is to come, none was given up and none has missed a listing, every
\* cluster whose listing seen last is open for a site build has a build to come or a site
\* that shows that listing.  Except where the build was given up, or was overtaken by a
\* rebuild: its site may be another cluster's by then, and the rebuild, to which the running
\* build was a duplicate, has asked for no other (list_auto_site_build_cluster_ids).
BuildToCome(c) == \E t \in Twins : builds[<<c, t>>] # Ended
OpenClustersServed ==
  NoRebuildToCome /\ behind = {} /\ ~given.rebuild
    => \A c \in OpenClusters(member, clusters) \ given.build :
         \/ BuildToCome(c)
         \/ \E s \in SiteOf(c) : s \in dated \/ sites[s].listing \in Newest(member, c)
=============================================================================
