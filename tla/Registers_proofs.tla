---------------------------- MODULE Registers_proofs ----------------------------
(***************************************************************************)
(* Proofs about the registers in Evidence: what imports leave in them,     *)
(* whatever the files say, however many a job brings, and however often    *)
(* one is imported again.                                                  *)
(***************************************************************************)
EXTENDS Evidence, WellFoundedInduction, TLAPS

\* The rows of a table are those of a file that has a snapshot.
Kept(table, name) ==
  \A k \in DOMAIN table : \E f \in DOMAIN db.snapshots : /\ k \in DOMAIN File[f][name]
                                                         /\ table[k] = File[f][name][k]

\* No snapshot is captured after the job that is under way.
Captured == \A f \in DOMAIN db.snapshots : /\ db.snapshots[f] \in [job : Nat, at : Nat]
                                           /\ db.snapshots[f].job < imports

\* f is the last file captured that speaks of a family in a borough.
IsLatest(f, b, m) ==
  /\ f \in Speakers(db.snapshots, b, m)
  /\ \A g \in Speakers(db.snapshots, b, m) \ {f} : Before(db.snapshots[g], db.snapshots[f])

\* The file whose import spoke last is the last one captured, unless it was there before.
Heard(n, b, m) == \/ n = NoFile /\ Speakers(db.snapshots, b, m) = {}
                  \/ n.again
                  \/ IsLatest(n.file, b, m)

DInv ==
  /\ DataTypeOK /\ Captured
  /\ Kept(db.applications, "applications") /\ Kept(db.zones, "zones")
  /\ \A b \in Boroughs, m \in MANDATORY : Heard(newest[<<b, m>>], b, m)

-------------------------------------------------------------------------------
(* Sequences of files *)

\* Numbers up to n have a greatest.
LEMMA GreatestUpTo ==
  ASSUME NEW n \in Nat, NEW P, P \subseteq 1 .. n, P # {}
  PROVE  Max(P) \in P /\ \A k \in P : k <= Max(P)
<1> DEFINE T == {n - i : i \in P}
           Less == OpToRel(<, Nat)
<1>1. T \subseteq Nat /\ T # {}
  <2>1. \A i \in P : n - i \in Nat
    OBVIOUS
  <2> QED
    BY <2>1
<1>2. \E x \in T : \A y \in T : <<y, x>> \notin Less
  <2> HIDE DEF T, Less
  <2>1. IsWellFoundedOn(Less, Nat)
    BY NatLessThanWellFounded DEF Less
  <2> QED
    BY <1>1, <2>1, WFMin
<1>3. PICK i \in P : \A y \in T : <<y, n - i>> \notin Less
  BY <1>2
<1>4. ASSUME NEW k \in P PROVE i >= k
  <2>1. <<n - k, n - i>> \notin Less /\ n - k \in Nat /\ n - i \in Nat
    BY <1>1, <1>3
  <2>2. ~(n - k < n - i)
    BY <2>1 DEF OpToRel
  <2> QED
    BY <2>2
<1>5. Max(P) \in P /\ \A k \in P : Max(P) >= k
  BY <1>3, <1>4 DEF Max
<1> QED
  BY <1>5

\* What a job imports: different files, one after another.
Batch(files) == files \in Seq(Files) /\ IsInjective(files)

\* Every import is that of a batch.
LEMMA ImportsAreBatches ==
  ASSUME Import
  PROVE  \E files : Batch(files) /\ ImportAll(files)
<1>1. ASSUME NEW f \in Files PROVE Batch(<<f>>)
  BY DEF Batch, IsInjective
<1>2. ASSUME NEW f \in Files, File[f].dataset = "borough_register"
      PROVE  Batch(<<f>> \o Supporting)
  <2> DEFINE files == <<f>> \o Supporting
  <2>1. Supporting \in Seq(Files) /\ IsInjective(Supporting)
    BY PlanningAssumption
  <2>2. \A i \in DOMAIN Supporting : Supporting[i] # f
    BY <1>2, PlanningAssumption DEF Range
  <2>3. files \in Seq(Files) /\ Len(files) = 1 + Len(Supporting)
    BY <2>1
  <2>4. \A i \in DOMAIN files : /\ i = 1 => files[i] = f
                                /\ i # 1 => /\ i - 1 \in DOMAIN Supporting
                                            /\ files[i] = Supporting[i - 1]
    BY <2>1, <2>3
  <2>5. \A i \in DOMAIN files : i \in Nat
    BY <2>3
  <2> HIDE DEF files
  <2>6. IsInjective(files)
    <3> SUFFICES ASSUME NEW i \in DOMAIN files, NEW j \in DOMAIN files, files[i] = files[j]
                 PROVE  i = j
      BY DEF IsInjective
    <3>1. CASE i = 1
      BY <2>2, <2>4, <3>1
    <3>2. CASE i # 1 /\ j # 1
      <4>1. /\ i - 1 \in DOMAIN Supporting /\ j - 1 \in DOMAIN Supporting
            /\ Supporting[i - 1] = Supporting[j - 1]
        BY <2>4, <3>2
      <4>2. i - 1 = j - 1
        BY <2>1, <4>1 DEF IsInjective
      <4> QED
        BY <2>5, <4>2
    <3>3. CASE j = 1
      BY <2>2, <2>4, <3>3
    <3> QED
      BY <3>1, <3>2, <3>3
  <2> QED
    BY <2>3, <2>6 DEF Batch, files
<1> QED
  BY <1>1, <1>2 DEF Import, ImportPld, ImportRegister, ImportLayer

-------------------------------------------------------------------------------
(* What an import of a batch does *)

\* The snapshots: those there were, and those of the new files, captured in turn.
LEMMA RegisteredIs ==
  ASSUME DInv, NEW files, Batch(files), ImportAll(files)
  PROVE  /\ DOMAIN db'.snapshots = DOMAIN db.snapshots \cup {files[i] : i \in DOMAIN files}
         /\ \A f \in DOMAIN db.snapshots : db'.snapshots[f] = db.snapshots[f]
         /\ \A i \in DOMAIN files :
              files[i] \notin DOMAIN db.snapshots =>
                db'.snapshots[files[i]] = [job |-> imports, at |-> i]
<1>1. db'.snapshots = Registered(db.snapshots, files)
  BY DEF ImportAll, Imported
<1>2. DOMAIN db'.snapshots = DOMAIN db.snapshots \cup {files[i] : i \in DOMAIN files}
  BY <1>1 DEF Registered, Range
<1>3. \A f \in DOMAIN db.snapshots : db'.snapshots[f] = db.snapshots[f]
  BY <1>1 DEF Registered
<1>4. ASSUME NEW i \in DOMAIN files, files[i] \notin DOMAIN db.snapshots
      PROVE  db'.snapshots[files[i]] = [job |-> imports, at |-> i]
  <2>1. (CHOOSE j \in DOMAIN files : files[j] = files[i]) = i
    BY DEF Batch, IsInjective
  <2>2. files[i] \in DOMAIN db.snapshots \cup Range(files)
    BY DEF Range
  <2> QED
    BY <1>1, <1>4, <2>1, <2>2 DEF Registered
<1> QED
  BY <1>2, <1>3, <1>4

\* A table: a row is that of a file of the batch, or was there.
LEMMA UpsertedIs ==
  ASSUME NEW files, Batch(files), NEW table, NEW name
  PROVE  LET now == Upserted(table, files, name)
         IN /\ DOMAIN table \subseteq DOMAIN now
            /\ \A k \in DOMAIN now :
                 \/ k \in DOMAIN table /\ now[k] = table[k]
                 \/ \E i \in DOMAIN files : /\ k \in DOMAIN File[files[i]][name]
                                            /\ now[k] = File[files[i]][name][k]
<1> DEFINE now == Upserted(table, files, name)
<1>1. DOMAIN now = DOMAIN table \cup UNION {DOMAIN File[files[i]][name] : i \in DOMAIN files}
  BY DEF Upserted
<1>2. ASSUME NEW k \in DOMAIN now
      PROVE  \/ k \in DOMAIN table /\ now[k] = table[k]
             \/ \E i \in DOMAIN files : /\ k \in DOMAIN File[files[i]][name]
                                        /\ now[k] = File[files[i]][name][k]
  <2> DEFINE givers == Givers(files, name, k)
  <2>1. now[k] = IF givers = {} THEN table[k] ELSE File[files[Max(givers)]][name][k]
    BY <1>1 DEF Upserted
  <2>2. CASE givers = {}
    <3>1. \A i \in DOMAIN files : k \notin DOMAIN File[files[i]][name]
      BY <2>2 DEF Givers
    <3> QED
      BY <1>1, <2>1, <2>2, <3>1
  <2>3. CASE givers # {}
    <3>1. PICK n \in Nat : DOMAIN files = 1 .. n
      BY DEF Batch
    <3>2. givers \subseteq 1 .. n
      BY <3>1 DEF Givers
    <3>3. Max(givers) \in givers
      <4> HIDE DEF givers
      <4> QED
        BY <2>3, <3>2, GreatestUpTo
    <3>4. Max(givers) \in DOMAIN files /\ k \in DOMAIN File[files[Max(givers)]][name]
      BY <3>3 DEF Givers
    <3> QED
      BY <2>1, <2>3, <3>4
  <2> QED
    BY <2>2, <2>3
<1> QED
  BY <1>1, <1>2

LEMMA KeptAfter ==
  ASSUME DInv, NEW files, Batch(files), ImportAll(files), NEW table, NEW name,
         Kept(table, name)
  PROVE  LET now == Upserted(table, files, name)
         IN \A k \in DOMAIN now : \E f \in DOMAIN db'.snapshots : /\ k \in DOMAIN File[f][name]
                                                                  /\ now[k] = File[f][name][k]
<1> DEFINE now == Upserted(table, files, name)
<1> SUFFICES ASSUME NEW k \in DOMAIN now
             PROVE  \E f \in DOMAIN db'.snapshots : /\ k \in DOMAIN File[f][name]
                                                    /\ now[k] = File[f][name][k]
  OBVIOUS
<1>1. \/ k \in DOMAIN table /\ now[k] = table[k]
      \/ \E i \in DOMAIN files : /\ k \in DOMAIN File[files[i]][name]
                                 /\ now[k] = File[files[i]][name][k]
  BY UpsertedIs
<1>2. DOMAIN db'.snapshots = DOMAIN db.snapshots \cup {files[i] : i \in DOMAIN files}
  BY RegisteredIs
<1> HIDE DEF now
<1> QED
  BY <1>1, <1>2 DEF Kept

\* Who spoke last.
LEMMA SpokenIs ==
  ASSUME NEW files, Batch(files), ImportAll(files), NEW b \in Boroughs, NEW m \in MANDATORY
  PROVE  \/ /\ \A i \in DOMAIN files : ~Speaks(files[i], b, m)
            /\ newest'[<<b, m>>] = newest[<<b, m>>]
         \/ \E i \in DOMAIN files :
              /\ Speaks(files[i], b, m)
              /\ \A j \in DOMAIN files : Speaks(files[j], b, m) => j <= i
              /\ newest'[<<b, m>>] = [file |-> files[i], again |-> files[i] \in DOMAIN db.snapshots]
<1> DEFINE speakers == {i \in DOMAIN files : Speaks(files[i], b, m)}
           last == files[Max(speakers)]
<1>1. newest'[<<b, m>>] = IF speakers = {} THEN newest[<<b, m>>]
                          ELSE [file |-> last, again |-> last \in DOMAIN db.snapshots]
  BY DEF ImportAll, Spoken
<1>2. CASE speakers = {}
  BY <1>1, <1>2
<1>3. CASE speakers # {}
  <2>1. PICK n \in Nat : DOMAIN files = 1 .. n
    BY DEF Batch
  <2>2. speakers \subseteq 1 .. n
    BY <2>1
  <2>3. Max(speakers) \in speakers /\ \A k \in speakers : k <= Max(speakers)
    <3> HIDE DEF speakers
    <3> QED
      BY <1>3, <2>2, GreatestUpTo
  <2> QED
    BY <1>1, <1>3, <2>3
<1> QED
  BY <1>2, <1>3

-------------------------------------------------------------------------------
(* Every step keeps the invariant *)

LEMMA DataInitHolds == Init => DInv
<1> SUFFICES ASSUME DataInit PROVE DInv
  BY DEF Init
<1>1. /\ DOMAIN db.snapshots = {} /\ DOMAIN db.applications = {} /\ DOMAIN db.zones = {}
      /\ db.packs = {} /\ imports = 0 /\ newest = [k \in Boroughs \X MANDATORY |-> NoFile]
  BY DEF DataInit
<1>2. NoFile \in [file : Files \cup {"none"}, again : BOOLEAN]
  BY DEF NoFile
<1>3. \A b \in Boroughs, m \in MANDATORY : newest[<<b, m>>] = NoFile
  BY <1>1
<1>4. \A b \in Boroughs, m \in MANDATORY : Speakers(db.snapshots, b, m) = {}
  BY <1>1 DEF Speakers
<1>5. \A b \in Boroughs, m \in MANDATORY : Heard(newest[<<b, m>>], b, m)
  BY <1>3, <1>4 DEF Heard
<1>6. DataTypeOK
  <2>1. newest \in [Boroughs \X MANDATORY -> [file : Files \cup {"none"}, again : BOOLEAN]]
    BY <1>1, <1>2
  <2>2. imports \in 0 .. MaxImports
    BY <1>1, PlanningAssumption
  <2> QED
    BY <1>1, <2>1, <2>2 DEF DataTypeOK
<1> QED
  BY <1>1, <1>5, <1>6 DEF DInv, Captured, Kept

\* A file that spoke last is the last one captured after the import as before it.
LEMMA HeardAfter ==
  ASSUME DInv, NEW files, Batch(files), ImportAll(files), NEW b \in Boroughs, NEW m \in MANDATORY
  PROVE  Heard(newest[<<b, m>>], b, m)'
<1> DEFINE old == db.snapshots
           now == db'.snapshots
<1>1. /\ DOMAIN now = DOMAIN old \cup {files[i] : i \in DOMAIN files}
      /\ \A f \in DOMAIN old : now[f] = old[f]
      /\ \A i \in DOMAIN files : files[i] \notin DOMAIN old => now[files[i]] = [job |-> imports, at |-> i]
  BY RegisteredIs
<1>2. \A f \in DOMAIN old : /\ old[f] \in [job : Nat, at : Nat]
                            /\ old[f].job < imports
  BY DEF DInv, Captured
<1>3. imports \in Nat
  BY PlanningAssumption DEF DInv, DataTypeOK
<1>4. Heard(newest[<<b, m>>], b, m)
  BY DEF DInv
<1> HIDE DEF old, now
<1>5. CASE /\ \A i \in DOMAIN files : ~Speaks(files[i], b, m)
           /\ newest'[<<b, m>>] = newest[<<b, m>>]
  <2>1. Speakers(now, b, m) = Speakers(old, b, m)
    BY <1>1, <1>5 DEF Speakers
  <2>2. \A f \in Speakers(old, b, m) : now[f] = old[f]
    BY <1>1 DEF Speakers
  <2>3. CASE newest[<<b, m>>] = NoFile /\ Speakers(old, b, m) = {}
    BY <1>5, <2>1, <2>3 DEF Heard, NoFile, old, now
  <2>4. CASE newest[<<b, m>>].again
    BY <1>5, <2>4 DEF Heard
  <2>5. CASE IsLatest(newest[<<b, m>>].file, b, m)
    <3> DEFINE f == newest[<<b, m>>].file
    <3>1. f \in Speakers(old, b, m) /\ \A g \in Speakers(old, b, m) \ {f} : Before(old[g], old[f])
      BY <2>5 DEF IsLatest, old
    <3>2. f \in Speakers(now, b, m) /\ \A g \in Speakers(now, b, m) \ {f} : Before(now[g], now[f])
      BY <2>1, <2>2, <3>1
    <3>3. IsLatest(newest[<<b, m>>].file, b, m)'
      BY <1>5, <3>2 DEF IsLatest, now
    <3> QED
      BY <3>3 DEF Heard
  <2> QED
    BY <1>4, <2>3, <2>4, <2>5 DEF Heard, old
<1>6. ASSUME NEW i \in DOMAIN files, Speaks(files[i], b, m),
             \A j \in DOMAIN files : Speaks(files[j], b, m) => j <= i,
             newest'[<<b, m>>] = [file |-> files[i], again |-> files[i] \in DOMAIN old]
      PROVE  Heard(newest[<<b, m>>], b, m)'
  <2>1. CASE files[i] \in DOMAIN old
    <3>1. newest'[<<b, m>>].again
      <4>1. (files[i] \in DOMAIN old) = TRUE
        BY <2>1
      <4>2. newest'[<<b, m>>] = [file |-> files[i], again |-> TRUE]
        BY <1>6, <4>1, Zenon
      <4> QED
        BY <4>2
    <3> QED
      BY <3>1 DEF Heard
  <2>2. CASE files[i] \notin DOMAIN old
    <3>1. now[files[i]] = [job |-> imports, at |-> i] /\ files[i] \in Speakers(now, b, m)
      BY <1>1, <1>6, <2>2 DEF Speakers
    <3>2. \A j \in DOMAIN files : j \in Nat
      BY DEF Batch
    <3>3. ASSUME NEW g \in Speakers(now, b, m), g # files[i]
          PROVE  Before(now[g], now[files[i]])
      <4>1. CASE g \in DOMAIN old
        <5>1. now[g] = old[g] /\ old[g].job < imports
          BY <1>1, <1>2, <4>1
        <5> QED
          BY <3>1, <5>1 DEF Before
      <4>2. CASE g \notin DOMAIN old
        <5>1. PICK j \in DOMAIN files : g = files[j]
          BY <1>1, <4>2 DEF Speakers
        <5>2. now[g] = [job |-> imports, at |-> j] /\ Speaks(files[j], b, m)
          BY <1>1, <4>2, <5>1 DEF Speakers
        <5>3. j < i
          BY <1>6, <3>2, <3>3, <5>1, <5>2
        <5> QED
          BY <3>1, <5>2, <5>3 DEF Before
      <4> QED
        BY <4>1, <4>2
    <3>4. newest'[<<b, m>>].file = files[i]
      BY <1>6
    <3>5. IsLatest(newest[<<b, m>>].file, b, m)'
      BY <3>1, <3>3, <3>4 DEF IsLatest, now
    <3> QED
      BY <3>5 DEF Heard
  <2> QED
    BY <2>1, <2>2
<1> QED
  BY <1>5, <1>6, SpokenIs DEF old

LEMMA ImportKeepsData == DInv /\ Import => DInv'
<1> SUFFICES ASSUME DInv, Import PROVE DInv'
  OBVIOUS
<1>1. PICK files : Batch(files) /\ ImportAll(files)
  BY ImportsAreBatches
<1> DEFINE old == db.snapshots
           now == db'.snapshots
<1>2. /\ DOMAIN now = DOMAIN old \cup {files[i] : i \in DOMAIN files}
      /\ \A f \in DOMAIN old : now[f] = old[f]
      /\ \A i \in DOMAIN files : files[i] \notin DOMAIN old => now[files[i]] = [job |-> imports, at |-> i]
  BY <1>1, RegisteredIs
<1>3. imports \in 0 .. MaxImports /\ imports < MaxImports /\ imports' = imports + 1 /\ MaxImports \in Nat
  BY <1>1, PlanningAssumption DEF DInv, DataTypeOK, ImportAll
<1>4. \A i \in DOMAIN files : files[i] \in Files /\ i \in Nat
  BY <1>1 DEF Batch
<1>5. /\ db'.applications = Upserted(db.applications, files, "applications")
      /\ db'.zones = Upserted(db.zones, files, "zones")
      /\ db'.packs = Packed(db.packs, files)
  BY <1>1 DEF ImportAll, Imported
<1>6. \A f \in DOMAIN old : old[f] \in [job : Nat, at : Nat] /\ old[f].job < imports
  BY DEF DInv, Captured
<1>7. Kept(db.applications, "applications")'
  BY <1>1, <1>5, KeptAfter DEF DInv, Kept
<1>8. Kept(db.zones, "zones")'
  BY <1>1, <1>5, KeptAfter DEF DInv, Kept
<1>9. \A b \in Boroughs, m \in MANDATORY : Heard(newest[<<b, m>>], b, m)'
  BY <1>1, HeardAfter
<1>10. DOMAIN now \subseteq Files
  BY <1>2, <1>4 DEF DInv, DataTypeOK
<1>11. db'.packs \subseteq Boroughs
  BY <1>4, <1>5, PlanningAssumption DEF Packed, DInv, DataTypeOK
<1>12. \A f, g \in DOMAIN old : old[f] = old[g] => f = g
  BY DEF DInv, DataTypeOK
<1> HIDE DEF old, now
<1>13. \A f \in DOMAIN now : now[f] \in [job : Nat, at : Nat] /\ now[f].job < imports'
  <2> TAKE f \in DOMAIN now
  <2>1. CASE f \in DOMAIN old
    <3>1. now[f] = old[f] /\ old[f] \in [job : Nat, at : Nat] /\ old[f].job < imports
      BY <1>2, <1>6, <2>1
    <3>2. now[f].job \in Nat
      BY <3>1
    <3> QED
      BY <1>3, <3>1, <3>2
  <2>2. CASE f \notin DOMAIN old
    <3>1. PICK i \in DOMAIN files : now[f] = [job |-> imports, at |-> i]
      BY <1>2, <2>2
    <3> QED
      BY <1>3, <1>4, <3>1
  <2> QED
    BY <2>1, <2>2
<1>14. ASSUME NEW f \in DOMAIN now, NEW g \in DOMAIN now, now[f] = now[g]
       PROVE  f = g
  <2>1. \A h \in DOMAIN now : \/ h \in DOMAIN old /\ now[h] = old[h] /\ now[h].job # imports
                              \/ \E i \in DOMAIN files : h = files[i] /\ now[h].job = imports
                                                         /\ now[h].at = i
    <3> TAKE h \in DOMAIN now
    <3>1. CASE h \in DOMAIN old
      <4>1. now[h] = old[h] /\ old[h].job < imports /\ old[h].job \in Nat
        BY <1>2, <1>6, <3>1
      <4> QED
        BY <1>3, <3>1, <4>1
    <3>2. CASE h \notin DOMAIN old
      <4>1. PICK i \in DOMAIN files : h = files[i]
        BY <1>2, <3>2
      <4>2. now[h] = [job |-> imports, at |-> i]
        BY <1>2, <3>2, <4>1
      <4> QED
        BY <4>1, <4>2
    <3> QED
      BY <3>1, <3>2
  <2> QED
    BY <1>12, <1>14, <2>1
<1>15. newest' \in [Boroughs \X MANDATORY -> [file : Files \cup {"none"}, again : BOOLEAN]]
  <2>1. /\ newest' = Spoken(newest, db, files)
        /\ newest \in [Boroughs \X MANDATORY -> [file : Files \cup {"none"}, again : BOOLEAN]]
    BY <1>1 DEF ImportAll, DInv, DataTypeOK
  <2>2. ASSUME NEW b \in Boroughs, NEW m \in MANDATORY
        PROVE  newest'[<<b, m>>] \in [file : Files \cup {"none"}, again : BOOLEAN]
    <3>1. CASE newest'[<<b, m>>] = newest[<<b, m>>]
      BY <2>1, <3>1
    <3>2. CASE newest'[<<b, m>>] # newest[<<b, m>>]
      <4>1. PICK i \in DOMAIN files :
              newest'[<<b, m>>] = [file |-> files[i], again |-> files[i] \in DOMAIN db.snapshots]
        BY <1>1, <3>2, SpokenIs
      <4> QED
        BY <1>4, <4>1
    <3> QED
      BY <3>1, <3>2
  <2>3. newest' = [k \in Boroughs \X MANDATORY |-> newest'[k]]
    BY <2>1 DEF Spoken
  <2>4. \A k \in Boroughs \X MANDATORY : newest'[k] \in [file : Files \cup {"none"}, again : BOOLEAN]
    BY <2>2
  <2> HIDE DEF Spoken
  <2> QED
    BY <2>3, <2>4
<1>16. Captured'
  BY <1>13 DEF Captured, now
<1>17. DataTypeOK'
  <2>1. imports' \in 0 .. MaxImports
    BY <1>3
  <2>2. \A f, g \in DOMAIN now : now[f] = now[g] => f = g
    BY <1>14
  <2> QED
    BY <1>7, <1>10, <1>11, <1>15, <2>1, <2>2 DEF DataTypeOK, Kept, now
<1> QED
  BY <1>7, <1>8, <1>9, <1>16, <1>17 DEF DInv

LEMMA DataKept == DInv /\ UNCHANGED dataVars => DInv'
BY DEF dataVars, DInv, DataTypeOK, Captured, Kept, Heard, IsLatest, Speakers, Before

LEMMA DataNextKeeps == DInv /\ [Next]_vars => DInv'
BY ImportKeepsData, DataKept DEF Next, vars

\* In every reachable state the registers hold rows of files that have a snapshot, and the file
\* that spoke last of a family is the last captured, unless it was there before.
THEOREM RegistersInvariant == Spec => []DInv
<1> QED
  BY DataInitHolds, DataNextKeeps, PTL DEF Spec

\* Whoever speaks last without having been imported before is heard.
LEMMA LatestHeard ==
  ASSUME DInv, NEW b \in Boroughs, NEW m \in MANDATORY, ~newest[<<b, m>>].again,
         LatestStatus(db.snapshots, b, m) # "MISSING"
  PROVE  LatestStatus(db.snapshots, b, m) = StatusIn(newest[<<b, m>>].file, b, m)
<1> DEFINE f == newest[<<b, m>>].file
           speakers == Speakers(db.snapshots, b, m)
           latest == CHOOSE h \in speakers :
                       \A g \in speakers \ {h} : Before(db.snapshots[g], db.snapshots[h])
<1>1. LatestStatus(db.snapshots, b, m) = IF speakers = {} THEN "MISSING" ELSE StatusIn(latest, b, m)
  BY DEF LatestStatus
<1>2. IsLatest(f, b, m)
  BY <1>1 DEF DInv, Heard
<1>3. f \in speakers /\ \A g \in speakers \ {f} : Before(db.snapshots[g], db.snapshots[f])
  BY <1>2 DEF IsLatest
<1>4. \A g \in speakers : db.snapshots[g] \in [job : Nat, at : Nat]
  BY DEF DInv, Captured, Speakers
<1>5. \A g \in speakers : db.snapshots[g].job \in Nat /\ db.snapshots[g].at \in Nat
  BY <1>4
<1> HIDE DEF f, speakers
<1>6. ASSUME NEW h \in speakers, \A g \in speakers \ {h} : Before(db.snapshots[g], db.snapshots[h])
      PROVE  h = f
  <2> SUFFICES ASSUME h # f PROVE FALSE
    OBVIOUS
  <2>1. Before(db.snapshots[h], db.snapshots[f]) /\ Before(db.snapshots[f], db.snapshots[h])
    BY <1>3, <1>6
  <2> QED
    BY <1>3, <1>5, <2>1 DEF Before
<1>7. latest = f
  BY <1>3, <1>6
<1> QED
  BY <1>1, <1>3, <1>7 DEF f

\* README: missing coverage never proves that there is no permission.  Whatever the files
\* say and in whatever order and batches they are imported, a site passes only if the last
\* import that spoke of each mandatory family called it complete, or brought a file that
\* was there already (register_dataset_snapshot, list_latest_coverage_snapshots).
THEOREM PassesAreCovered == Spec => []PassIsCovered
<1>1. DInv => PassIsCovered
  <2> SUFFICES ASSUME DInv, ExtantPermission = "PASS"
               PROVE  /\ site.borough \in Boroughs
                      /\ \A m \in MANDATORY :
                           LET n == newest[<<site.borough, m>>]
                           IN n.again \/ StatusIn(n.file, site.borough, m) = "COMPLETE"
    BY DEF PassIsCovered
  <2>1. ~Doubtful
    BY DEF ExtantPermission
  <2>2. CoverageGaps(db.snapshots, site.borough) = {}
    BY <2>1 DEF Doubtful
  <2>3. site.borough \in Boroughs
    BY <2>2 DEF CoverageGaps, MANDATORY
  <2>4. \A m \in MANDATORY : LatestStatus(db.snapshots, site.borough, m) = "COMPLETE"
    BY <2>2, <2>3 DEF CoverageGaps
  <2> QED
    BY <2>3, <2>4, LatestHeard
<1> QED
  BY <1>1, RegistersInvariant, PTL
===============================================================================
