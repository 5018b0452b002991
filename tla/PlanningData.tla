----------------------------- MODULE PlanningData -----------------------------
(***************************************************************************)
(* The planning registers and layers that screening and labelling read:    *)
(* what an import of a file does to the source snapshots, the coverage     *)
(* rows, the applications, the brownfield parcels, the designations and    *)
(* the baseline packs (planning/import_common.py and the importers on top  *)
(* of it, services/worker/app/jobs/planning_enrich.py).                    *)
(*                                                                         *)
(* An import is one transaction.  The id of a snapshot is the hash of its  *)
(* dataset and content, that of a coverage row the hash of its snapshot,   *)
(* borough and family: a file imported again finds its rows, writes the    *)
(* same values over them, and leaves their captured_at alone.  Rows of the *)
(* registers are upserted by their reference and never deleted.  A remote  *)
(* file that cannot be fetched or imported is replaced by the fixture, so  *)
(* what a job imports is any file of its dataset.                          *)
(*                                                                         *)
(* Land is a line of cells, CellMetres apart and CellSqm large; a date is  *)
(* a number of days, and NoDate is none.  A row is named by the file that  *)
(* gave it its columns.                                                    *)
(***************************************************************************)
EXTENDS Integers, Sequences, FiniteSets, FiniteSetsExt, Functions

CONSTANTS
  Boroughs,     \* rows of lpa_boundary
  Bounds,       \* Bounds[b]: the cells of borough b
  Files,        \* contents of register and layer files
  File,         \* File[f]: its dataset, coverage rows, and rows by reference
  Row,          \* Row[r]: the columns of row r of an application, parcel or zone
  Supporting,   \* the layers a register import brings along, in order
  Today,        \* the date on which the services run
  MaxImports    \* bound of the model: import jobs

NoDate == 0
CellMetres == 10
CellSqm == 20

\* The families a clean screening needs, and the two that one register covers.
BOROUGH_REGISTER == "BOROUGH_REGISTER"
PRIOR_APPROVAL == "PRIOR_APPROVAL"
BROWNFIELD == "BROWNFIELD"
MANDATORY == {BOROUGH_REGISTER, PRIOR_APPROVAL, BROWNFIELD}

Datasets == {"pld", "borough_register", "brownfield", "layer", "baseline_pack"}
Statuses == {"COMPLETE", "PARTIAL", "MISSING", "UNKNOWN"}
Told == [borough : Boroughs, family : STRING, status : Statuses]

\* The columns of the rows that decide something.
Application ==
  [source : {"PLD", "REGISTER"}, priority : {50, 100}, borough : Boroughs,
   kind : {"RESIDENTIAL", "OTHER"}, route : STRING, live : BOOLEAN, granted : BOOLEAN,
   expiry : Nat,
   raises : {"none", "access", "core"}, units : Nat, valid : Nat, decided : Nat,
   decision : {"APPROVED", "REFUSED", "WITHDRAWN", "PENDING"}, form : STRING,
   area : SUBSET Nat, point : SUBSET Nat, words : STRING]
Parcel == [part : {1, 2}, active : BOOLEAN, from : Nat, to : Nat, area : SUBSET Nat]
Zone == [kind : {"policy", "constraint"}, family : STRING, from : Nat, to : Nat,
         area : SUBSET Nat, point : SUBSET Nat]

RowsIn(table, type) == \A k \in DOMAIN table : Row[table[k]] \in type

ASSUME PlanningAssumption ==
  /\ MaxImports \in Nat /\ Today \in Nat /\ Supporting \in Seq(Files)
  /\ IsInjective(Supporting)
  /\ \A f \in Range(Supporting) : File[f].dataset \notin {"pld", "borough_register"}
  /\ \A f \in Files : /\ File[f].dataset \in Datasets /\ File[f].packs \subseteq Boroughs
                      /\ \A t \in File[f].coverage : t \in Told
                      /\ RowsIn(File[f].applications, Application)
                      /\ RowsIn(File[f].parcels, Parcel) /\ RowsIn(File[f].zones, Zone)

VARIABLES
  db,         \* the rows of the registers: snapshots, each with its time of capture, and
              \* tables
  newest,     \* newest[b, f]: the file whose import spoke last of family f in borough b
              \* and whether it had been imported before: history, for properties
  imports     \* import jobs so far

(* Reading and writing the tables *)

Near(a, b, metres) == \E i \in a, j \in b : CellMetres * (i - j) \in -metres .. metres

\* How a feature relates to a place: as its polygon, else its point, within metres of it.
Relation(cells, feature, metres) ==
  CASE cells \cap feature.area # {} -> "INTERSECTS"
    [] cells \cap feature.area = {} /\ cells \cap feature.point # {} -> "WITHIN"
    [] /\ cells \cap (feature.area \cup feature.point) = {}
       /\ Near(cells, feature.point, metres) -> "NEAR"
    [] OTHER -> "NONE"

\* A session writes back the columns it changed, over whatever the row has become.
Merge(want, seen, now) == [c \in DOMAIN now |-> IF want[c] # seen[c] THEN want[c] ELSE now[c]]

\* The rows the files give one table are written over those with the same reference, one
\* file after another.
Givers(files, name, k) == {i \in DOMAIN files : k \in DOMAIN File[files[i]][name]}
Upserted(table, files, name) ==
  [k \in DOMAIN table \cup UNION {DOMAIN File[files[i]][name] : i \in DOMAIN files} |->
     LET givers == Givers(files, name, k)
     IN IF givers = {} THEN table[k] ELSE File[files[Max(givers)]][name][k]]

\* The coverage rows an import of f writes: a register that does not speak of prior
\* approvals is taken to cover them as it covers applications.
Coverage(f) ==
  LET rows == File[f].coverage
      register == {t \in rows : t.family = BOROUGH_REGISTER}
  IN IF File[f].dataset = "borough_register" /\ \A t \in rows : t.family # PRIOR_APPROVAL
     THEN rows \cup {[t EXCEPT !.family = PRIOR_APPROVAL] : t \in register}
     ELSE rows

Speaks(f, b, family) == \E t \in Coverage(f) : t.borough = b /\ t.family = family
StatusIn(f, b, family) ==
  (CHOOSE t \in Coverage(f) : t.borough = b /\ t.family = family).status

\* A snapshot was captured before another: by an earlier job, or earlier in the same job.
Before(s, t) == s.job < t.job \/ (s.job = t.job /\ s.at < t.at)

\* The coverage that screening goes by: of the rows of a family, the one captured last.
Speakers(snapshots, b, family) == {f \in DOMAIN snapshots : Speaks(f, b, family)}
\* A mutant: the first row captured decides.
OldestStatus(snapshots, b, family) ==
  LET speakers == Speakers(snapshots, b, family)
      oldest == CHOOSE f \in speakers : \A g \in speakers \ {f} : Before(snapshots[f], snapshots[g])
  IN IF speakers = {} THEN "MISSING" ELSE StatusIn(oldest, b, family)

LatestStatus(snapshots, b, family) ==
  LET speakers == Speakers(snapshots, b, family)
      latest == CHOOSE f \in speakers : \A g \in speakers \ {f} : Before(snapshots[g], snapshots[f])
  IN IF speakers = {} THEN "MISSING" ELSE StatusIn(latest, b, family)

CoverageGaps(snapshots, b) ==
  IF b \in Boroughs THEN {m \in MANDATORY : LatestStatus(snapshots, b, m) # "COMPLETE"}
                    ELSE MANDATORY

PackMissing(d, b) == b \in Boroughs /\ b \notin d.packs

(* Imports *)

Packed(packs, files) == packs \cup UNION {File[files[i]].packs : i \in DOMAIN files}

\* A file that has a snapshot keeps its time of capture; the others get one in turn.
Registered(snapshots, files) ==
  [f \in DOMAIN snapshots \cup Range(files) |->
     IF f \in DOMAIN snapshots THEN snapshots[f]
     ELSE [job |-> imports, at |-> CHOOSE i \in DOMAIN files : files[i] = f]]

Imported(d, files) ==
  [snapshots |-> Registered(d.snapshots, files),
   applications |-> Upserted(d.applications, files, "applications"),
   parcels |-> Upserted(d.parcels, files, "parcels"),
   zones |-> Upserted(d.zones, files, "zones"),
   packs |-> Packed(d.packs, files)]

Spoken(n, d, files) ==
  [k \in Boroughs \X MANDATORY |->
     LET speakers == {i \in DOMAIN files : Speaks(files[i], k[1], k[2])}
         last == files[Max(speakers)]
     IN IF speakers = {} THEN n[k] ELSE [file |-> last, again |-> last \in DOMAIN d.snapshots]]

\* One import after another of different files, as one job does them before it commits.
ImportAll(files) ==
  /\ imports < MaxImports
  /\ imports' = imports + 1
  /\ db' = Imported(db, files) /\ newest' = Spoken(newest, db, files)

ImportPld == \E f \in Files : File[f].dataset = "pld" /\ ImportAll(<<f>>)

ImportRegister ==
  \E f \in Files : /\ File[f].dataset = "borough_register"
                   /\ ImportAll(<<f>>) \/ ImportAll(<<f>> \o Supporting)

\* The bootstrap command loads one dataset alone.
ImportLayer ==
  \E f \in Files : /\ File[f].dataset \in {"brownfield", "layer", "baseline_pack"}
                   /\ ImportAll(<<f>>)

Import == ImportPld \/ ImportRegister \/ ImportLayer

NoFile == [file |-> "none", again |-> FALSE]

DataInit ==
  /\ db = [snapshots |-> [f \in {} |-> 0], applications |-> [a \in {} |-> 0], parcels |-> [p \in {} |-> 0],
           zones |-> [z \in {} |-> 0], packs |-> {}]
  /\ newest = [k \in Boroughs \X MANDATORY |-> NoFile]
  /\ imports = 0

dataVars == <<db, newest, imports>>

DataTypeOK ==
  /\ DOMAIN db.snapshots \subseteq Files
  /\ \A f, g \in DOMAIN db.snapshots : db.snapshots[f] = db.snapshots[g] => f = g
  /\ db.packs \subseteq Boroughs
  /\ \A a \in DOMAIN db.applications :
       \E f \in DOMAIN db.snapshots : /\ a \in DOMAIN File[f].applications
                                      /\ db.applications[a] = File[f].applications[a]
  /\ newest \in [Boroughs \X MANDATORY -> [file : Files \cup {"none"}, again : BOOLEAN]]
  /\ imports \in 0 .. MaxImports
===============================================================================
