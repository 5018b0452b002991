------------------------------ MODULE Assessments ------------------------------
(***************************************************************************)
(* One assessment: the rows that belong to one idempotency key, the        *)
(* sessions that build them (the API request and the worker jobs), the     *)
(* valuation overrides analysts make, and replay verification              *)
(* (assessments/service.py, assessments/comparables.py,                    *)
(* valuation/service.py, review/overrides.py and their callers).           *)
(*                                                                         *)
(* A builder reads the rows when it looks the key up, and works on what it *)
(* read from then on.  Its first flush takes the lock of the run row; what *)
(* it writes is seen by others when it commits.  What it computes is       *)
(* abstracted to the version of the planning data, the release and the     *)
(* rows it was computed from.                                              *)
(***************************************************************************)
EXTENDS Integers, Sequences, FiniteSets

CONSTANTS
  Builders,      \* sessions that build the assessment
  Workers,       \* the builders that are worker jobs: they commit a failure
  Analysts,      \* sessions that override the valuation assumptions
  MaxFacts,      \* bound of the model: versions of the imported data
  Passing,       \* versions under which the extant-permission screen says PASS
  Release,       \* a model release with its artifacts
  MaxSets,       \* bound of the model: valuation assumption sets
  MaxFailures,   \* bound of the model: builds that raise
  MaxOverrides   \* bound of the model: override rows

Facts == 1 .. MaxFacts
Sets == 1 .. MaxSets
None == "none"

ASSUME ParameterAssumption ==
  /\ MaxFacts \in Nat \ {0} /\ MaxSets \in Nat \ {0}
  /\ MaxFailures \in Nat /\ MaxOverrides \in Nat
  /\ IsFiniteSet(Builders) /\ Workers \subseteq Builders
  /\ Passing \subseteq Facts /\ Release # None

VARIABLES
  facts,         \* the version of the planning data that is now in the tables
  active,        \* the release active for the template and borough, or None
  latest,        \* the newest effective valuation assumption set
  anchored,      \* the scenario is confirmed, current and on the site's geometry
  row,           \* the committed rows of the assessment
  builder,       \* builder[b]: a session, with what it has read and written
  analyst,       \* analyst[o]: the rows an override request has loaded, if any
  verifier,      \* the rows the replay batch has loaded, if any
  overrides,     \* the override rows in the order they were created
  failures,      \* history: builds that raised
  clobbered,     \* history: a failed build was committed over a finished one
  mixed,         \* history: a build kept rows that a failed build had added unseen
  early          \* history: sets that were valued by an override before READY

vars == <<facts, active, latest, anchored, row, builder, analyst, verifier, overrides,
          failures, clobbered, mixed, early>>
world == <<facts, active, latest, anchored>>

NoRows == [f \in Facts |-> 0]
NoResult == [features |-> 0, evidence |-> NoRows, passed |-> FALSE, release |-> None]
NoValue == [state |-> "ABSENT", features |-> 0, result |-> NoResult]
NoPayload == [features |-> 0, evidence |-> NoRows, comparables |-> NoRows, result |-> NoResult,
              scored |-> FALSE, value |-> NoValue]
NoLedger == [payload |-> NoPayload, valued |-> 0, status |-> None]

\* Evidence items and comparable members are rows of many: each is told apart by the session
\* that wrote it and the data it was written from.
Items == Builders \X Facts

AbsentRow == [state |-> "ABSENT", features |-> 0, evidence |-> {}, comparables |-> {},
              result |-> NoResult, scored |-> FALSE, values |-> [s \in Sets |-> NoValue],
              ledger |-> NoLedger]

IdleBuilder == [pc |-> "idle", view |-> AbsentRow, draft |-> AbsentRow, set |-> 0,
                made |-> [evidence |-> 0, comparables |-> 0]]

IdleAnalyst == [view |-> AbsentRow, seen |-> 0]

\* From its first flush on, a builder holds the lock of the run row.
Locked == {"started", "featured", "evidenced", "compared", "scored", "valued"}

Init ==
  /\ facts = 1 /\ active = None /\ latest = 1 /\ anchored = TRUE
  /\ row = AbsentRow
  /\ builder = [b \in Builders |-> IdleBuilder]
  /\ analyst = [o \in Analysts |-> IdleAnalyst]
  /\ verifier = AbsentRow
  /\ overrides = <<>>
  /\ failures = 0 /\ clobbered = FALSE /\ mixed = FALSE /\ early = {}

-------------------------------------------------------------------------------
(* What is frozen, and what a replay recomputes from the rows. *)

\* The number of rows of each version, which is all that a hash of the rows tells apart.
Contents(items) == [f \in Facts |-> Cardinality({i \in items : i[2] = f})]

\* What a session that wrote its rows from version v holds in memory.
Own(v) == [f \in Facts |-> IF f = v THEN 1 ELSE 0]

\* The stable payload: the rows of r with the valuation of set s, over evidence and comparables
\* that the caller has in memory or has loaded.
Payload(r, evidence, comparables, s) ==
  [features |-> r.features, evidence |-> evidence, comparables |-> comparables,
   result |-> r.result, scored |-> r.scored, value |-> IF s = 0 THEN NoValue ELSE r.values[s]]

\* What scoring, or the pre-score result, is computed from.
ResultOf(r, evidence, passed, release) ==
  [features |-> r.features, evidence |-> evidence, passed |-> passed, release |-> release]

ScoredFieldsMatch(r) ==
  r.result.release # None
    => r.result = ResultOf(r, Contents(r.evidence), r.result.passed, r.result.release)

ReplayPasses(r) ==
  /\ r.ledger.payload = Payload(r, Contents(r.evidence), Contents(r.comparables), r.ledger.valued)
  /\ ScoredFieldsMatch(r)

-------------------------------------------------------------------------------
(* The data and the registers move under the builders. *)

DataImported == facts < MaxFacts /\ facts' = facts + 1 /\ UNCHANGED <<active, latest, anchored>>
ReleaseSwitched ==
  /\ active' = IF active = None THEN Release ELSE None
  /\ UNCHANGED <<facts, latest, anchored>>
SetRegistered == latest < MaxSets /\ latest' = latest + 1 /\ UNCHANGED <<facts, active, anchored>>
ScenarioSuperseded == anchored /\ anchored' = FALSE /\ UNCHANGED <<facts, active, latest>>

WorldMoves ==
  /\ DataImported \/ ReleaseSwitched \/ SetRegistered \/ ScenarioSuperseded
  /\ UNCHANGED <<row, builder, analyst, verifier, overrides, failures, clobbered, mixed, early>>

-------------------------------------------------------------------------------
(* Building *)

Step(b, pc, draft, made) ==
  builder' = [builder EXCEPT ![b].pc = pc, ![b].draft = draft, ![b].made = made]
Others == <<analyst, verifier, overrides, early>>

\* Broken variant: a finished run is built again.
NeedsBuildAlways(r) == TRUE
NeedsBuild(r) == r.state # "READY"

\* The guards on the scenario, then the lookup of the key with every row that hangs on it.
Lookup(b) ==
  /\ builder[b].pc = "idle"
  /\ anchored
  /\ NeedsBuild(row)
  /\ builder' = [builder EXCEPT ![b] = [IdleBuilder EXCEPT !.pc = "found", !.view = row]]
  /\ UNCHANGED <<world, row, Others, failures, clobbered, mixed>>

\* A unique key is violated: the session is left in an error state, so nothing is recorded and
\* the transaction rolls back, in the API as in the worker.
Abort(b) ==
  /\ builder' = [builder EXCEPT ![b] = IdleBuilder]
  /\ UNCHANGED <<world, row, Others, failures, clobbered, mixed>>

\* The labels are rebuilt, then the first flush inserts or updates the run row and waits for
\* whoever holds its lock.
Begin(b) ==
  /\ builder[b].pc = "found"
  /\ \A c \in Builders : builder[c].pc \notin Locked
  /\ IF builder[b].view.state = "ABSENT" /\ row.state # "ABSENT"
       THEN Abort(b)
       ELSE /\ Step(b, "started", [row EXCEPT !.state = "PENDING"], builder[b].made)
            /\ mixed' = (mixed \/ ~(/\ row.evidence \subseteq builder[b].view.evidence
                                   /\ row.comparables \subseteq builder[b].view.comparables))
            /\ UNCHANGED <<world, row, Others, failures, clobbered>>

\* build_feature_snapshot and its upsert.
BuildFeatures(b) ==
  /\ builder[b].pc = "started"
  /\ IF builder[b].view.features = 0 /\ row.features # 0
       THEN Abort(b)
       ELSE /\ Step(b, "featured", [builder[b].draft EXCEPT !.features = facts], builder[b].made)
            /\ UNCHANGED <<world, row, Others, failures, clobbered, mixed>>

\* What is left of the rows another session may have added, with the rows of this one; broken
\* variant: the rows of an earlier attempt are kept.
Appended(rows, read, b) == rows \cup {<<b, facts>>}
Replaced(rows, read, b) == (rows \ read) \cup {<<b, facts>>}

\* The extant-permission screen, the assembled evidence, and its rows.
PersistEvidence(b) ==
  /\ builder[b].pc = "featured"
  /\ LET d == builder[b].draft
     IN  Step(b, "evidenced",
              [d EXCEPT !.evidence = Replaced(d.evidence, builder[b].view.evidence, b),
                        !.result = [NoResult EXCEPT !.passed = facts \in Passing]],
              [builder[b].made EXCEPT !.evidence = facts])
  /\ UNCHANGED <<world, row, Others, failures, clobbered, mixed>>

\* build_comparable_case_set: the set's row is updated or inserted, its members replaced.
BuildComparables(b) ==
  /\ builder[b].pc = "evidenced"
  /\ IF builder[b].view.comparables = {} /\ row.comparables # {}
       THEN Abort(b)
       ELSE /\ LET d == builder[b].draft
               IN  Step(b, "compared",
                        [d EXCEPT !.comparables =
                            Replaced(d.comparables, builder[b].view.comparables, b)],
                        [builder[b].made EXCEPT !.comparables = facts])
            /\ UNCHANGED <<world, row, Others, failures, clobbered, mixed>>

\* The result row, scored or not.
Scored(d, evidence, release) ==
  [d EXCEPT !.result = ResultOf(d, evidence, d.result.passed, release), !.scored = TRUE]

\* resolve_active_release, scoring when the screen passed, and the result.
Score(b) ==
  /\ builder[b].pc = "compared"
  /\ IF ~builder[b].view.scored /\ row.scored
       THEN Abort(b)
       ELSE /\ LET d == builder[b].draft
                   release == IF d.result.passed THEN active ELSE None
               IN  Step(b, "scored", Scored(d, Own(builder[b].made.evidence), release),
                        builder[b].made)
            /\ UNCHANGED <<world, row, Others, failures, clobbered, mixed>>

\* Broken variant: a valuation run that exists is returned in whatever state it is.
KeptInAnyState(v) == v.state # "ABSENT"
Kept(v) == v.state = "READY"

\* A session that read v inserts or rewrites the valuation run that is now w: the run and its
\* result are unique.  Broken variant: the result's key does not stop it.
CollidesOnRun(v, w) == v.state = "ABSENT" /\ w.state # "ABSENT"
Collides(v, w) ==
  \/ v.state = "ABSENT" /\ w.state # "ABSENT"
  \/ v.state = "FAILED" /\ w.state = "READY"

\* A finished valuation run: the inputs are those the run has frozen.
Valued(features, result) == [state |-> "READY", features |-> features, result |-> result]

\* The valuation run of the active assumption set, from the frozen features and the result.
Value(b) ==
  /\ builder[b].pc = "scored"
  /\ LET d == builder[b].draft
         read == builder[b].view.values[latest]
         fresh == Valued(d.features, d.result)
     IN  \/ /\ ~d.result.passed
            /\ builder' = [builder EXCEPT ![b].pc = "valued", ![b].set = 0]
            /\ UNCHANGED <<world, row, Others, failures, clobbered, mixed>>
         \/ /\ d.result.passed
            /\ IF ~Kept(read) /\ Collides(read, row.values[latest])
                 THEN Abort(b)
                 ELSE /\ builder' = [builder EXCEPT
                           ![b].pc = "valued", ![b].set = latest,
                           ![b].draft.values[latest] = IF Kept(read) THEN read ELSE fresh]
                      /\ UNCHANGED <<world, row, Others, failures, clobbered, mixed>>

\* The rows another session committed meanwhile stay; only valuations are not under the lock.
Merged(draft, s) ==
  [draft EXCEPT !.values = [t \in Sets |-> IF t = s THEN draft.values[t] ELSE row.values[t]]]

Captured(d, made, s) ==
  [payload |-> Payload(d, Own(made.evidence), Own(made.comparables), s), valued |-> s,
   status |-> "HASH_CAPTURED"]

\* The ledger upsert with the payload of everything frozen, READY, and the commit.
Capture(b) ==
  /\ builder[b].pc = "valued"
  /\ LET s == builder[b].set
         d == Merged(builder[b].draft, s)
     IN  IF builder[b].view.ledger = NoLedger /\ row.ledger # NoLedger
           THEN Abort(b)
           ELSE /\ row' = [d EXCEPT !.state = "READY", !.ledger = Captured(d, builder[b].made, s)]
                /\ builder' = [builder EXCEPT ![b] = IdleBuilder]
                /\ UNCHANGED <<world, Others, failures, clobbered, mixed>>

\* The except handler marks the run; broken variant: it only records the error.
MarkedNothing(r) == r
Marked(r) == [r EXCEPT !.state = "FAILED"]

\* The build raises.  A valuation that raises leaves its own run FAILED.  The worker commits the
\* failure with everything flushed so far; the API rolls all of it back.
Fail(b) ==
  /\ builder[b].pc \in Locked \ {"valued"}
  /\ failures < MaxFailures
  /\ failures' = failures + 1
  /\ \/ /\ b \notin Workers
        /\ UNCHANGED <<row, clobbered>>
     \/ /\ b \in Workers
        /\ builder[b].pc # "scored"
        /\ row' = Marked(Merged(builder[b].draft, 0))
        /\ clobbered' = (clobbered \/ row.state = "READY")
     \/ /\ b \in Workers
        /\ builder[b].pc = "scored"
        /\ LET read == builder[b].view.values[latest]
           IN  /\ builder[b].draft.result.passed
               /\ ~Kept(read) /\ ~Collides(read, row.values[latest])
        /\ row' = Marked([Merged(builder[b].draft, 0) EXCEPT
                             !.values[latest] = [NoValue EXCEPT !.state = "FAILED"]])
        /\ clobbered' = (clobbered \/ row.state = "READY")
  /\ builder' = [builder EXCEPT ![b] = IdleBuilder]
  /\ UNCHANGED <<world, Others, mixed>>

\* The process dies, or the database does not answer: the transaction rolls back.
Crash(b) == builder[b].pc # "idle" /\ Abort(b)

Build(b) ==
  \/ Lookup(b) \/ Begin(b) \/ BuildFeatures(b) \/ PersistEvidence(b) \/ BuildComparables(b)
  \/ Score(b) \/ Value(b) \/ Capture(b)

-------------------------------------------------------------------------------
(* Overrides *)

Types == {"VALUATION_ASSUMPTION_SET", "OTHER"}

\* The newest of the first n override rows of a type, 0 when there is none.
NewestAmong(type, n) ==
  LET found == {i \in 1 .. n : overrides[i].type = type}
  IN  IF found = {} THEN 0 ELSE CHOOSE i \in found : \A k \in found : k <= i

\* The request loads the run with its valuations and overrides.
OverrideLoads(o) ==
  /\ analyst[o] = IdleAnalyst
  /\ row.state # "ABSENT"
  /\ Len(overrides) < MaxOverrides
  /\ analyst' = [analyst EXCEPT ![o] = [view |-> row, seen |-> Len(overrides)]]
  /\ UNCHANGED <<world, row, builder, verifier, overrides, failures, clobbered, mixed, early>>

OverrideGivesUp(o) ==
  /\ analyst' = [analyst EXCEPT ![o] = IdleAnalyst]
  /\ UNCHANGED <<world, row, builder, verifier, overrides, failures, clobbered, mixed, early>>

NewOverride(o, type, s) ==
  /\ overrides' = Append(overrides, [type |-> type, set |-> s,
                                     supersedes |-> NewestAmong(type, analyst[o].seen)])
  /\ analyst' = [analyst EXCEPT ![o] = IdleAnalyst]
  /\ UNCHANGED <<world, builder, verifier, failures, clobbered, mixed>>

\* A basis, a disposition or a suppression: nothing but the override row is written.
OverrideOther(o) ==
  /\ analyst[o] # IdleAnalyst
  /\ NewOverride(o, "OTHER", 0)
  /\ UNCHANGED <<row, early>>

\* Another assumption set s: the run is valued with it, from the result that was loaded and the
\* features that are read now, unless that was done before.  A valuation run someone has flushed and not committed is waited for.
OverrideValuation(o, s) ==
  LET view == analyst[o].view
      read == view.values[s]
  IN  /\ analyst[o] # IdleAnalyst
      /\ \A b \in Builders : ~(builder[b].pc = "valued" /\ builder[b].set = s)
      /\ IF row.features = 0 \/ ~view.scored \/ (~Kept(read) /\ Collides(read, row.values[s]))
           THEN OverrideGivesUp(o)
           ELSE /\ NewOverride(o, "VALUATION_ASSUMPTION_SET", s)
                /\ row' = IF Kept(read) THEN row
                          ELSE [row EXCEPT !.values[s] = Valued(row.features, view.result)]
                /\ early' = IF Kept(read) \/ view.state = "READY" THEN early
                            ELSE early \cup {s}

\* build_override_summary: per type, the newest row that is not resolved; nothing resolves one.
EffectiveOldest(type) ==
  LET found == {i \in 1 .. Len(overrides) : overrides[i].type = type}
  IN  IF found = {} THEN 0 ELSE CHOOSE i \in found : \A k \in found : k >= i
Effective(type) == NewestAmong(type, Len(overrides))

Override(o) ==
  OverrideLoads(o) \/ OverrideOther(o) \/ \E s \in 1 .. latest : OverrideValuation(o, s)

-------------------------------------------------------------------------------
(* The replay batch: it loads the finished runs, recomputes, and records the outcome. *)

VerifierLoads ==
  /\ verifier = AbsentRow
  /\ row.state = "READY"
  /\ verifier' = row
  /\ UNCHANGED <<world, row, builder, analyst, overrides, failures, clobbered, mixed, early>>

VerifierRecords ==
  /\ verifier # AbsentRow
  /\ row' = [row EXCEPT !.ledger.status =
               IF ReplayPasses(verifier) THEN "VERIFIED" ELSE "FAILED"]
  /\ verifier' = AbsentRow
  /\ UNCHANGED <<world, builder, analyst, overrides, failures, clobbered, mixed, early>>

-------------------------------------------------------------------------------
Next ==
  \/ WorldMoves
  \/ \E b \in Builders : Build(b) \/ Fail(b) \/ Crash(b)
  \/ \E o \in Analysts : Override(o)
  \/ VerifierLoads \/ VerifierRecords

Spec == Init /\ [][Next]_vars

-------------------------------------------------------------------------------
(* Properties *)

ResultRows == [features : Facts \cup {0}, evidence : [Facts -> Nat], passed : BOOLEAN,
               release : {None, Release}]
ValueRows == [state : {"ABSENT", "READY", "FAILED"}, features : Facts \cup {0},
              result : ResultRows]
Payloads == [features : Facts \cup {0}, evidence : [Facts -> Nat], comparables : [Facts -> Nat],
             result : ResultRows, scored : BOOLEAN, value : ValueRows]
LedgerRows == [payload : Payloads, valued : Sets \cup {0},
               status : {None, "HASH_CAPTURED", "VERIFIED", "FAILED"}]
Rows == [state : {"ABSENT", "PENDING", "READY", "FAILED"}, features : Facts \cup {0},
         evidence : SUBSET Items, comparables : SUBSET Items, result : ResultRows,
         scored : BOOLEAN, values : [Sets -> ValueRows], ledger : LedgerRows]
Made == [evidence : Facts \cup {0}, comparables : Facts \cup {0}]
OverrideRows == [type : Types, set : Sets \cup {0}, supersedes : Nat]

\* The registers, the committed rows and the sessions are well formed; no reader ever sees a run
\* in the state between the first flush and the end of a build.
TypeOK ==
  /\ facts \in Facts /\ active \in {None, Release} /\ latest \in Sets /\ anchored \in BOOLEAN
  /\ row \in Rows /\ row.state # "PENDING"
  /\ builder \in [Builders -> [pc : Locked \cup {"idle", "found"}, view : Rows, draft : Rows,
                               set : Sets \cup {0}, made : Made]]
  /\ analyst \in [Analysts -> [view : Rows, seen : Nat]]
  /\ verifier \in Rows
  /\ overrides \in Seq(OverrideRows)
  /\ failures \in Nat /\ clobbered \in BOOLEAN /\ mixed \in BOOLEAN /\ early \subseteq Sets

\* Builders retry partial failures and overtake each other, data and releases move on, yet a
\* finished assessment always replays to the payload its ledger captured, and the replay batch
\* never marks one failed.  The exceptions: a failed build went over a finished one, or the build
\* had looked the key up before a failed build added evidence or comparables to it.
ReadyReplays ==
  ~clobbered /\ ~mixed /\ row.state = "READY" => ReplayPasses(row) /\ row.ledger.status # "FAILED"

\* Once the ledger has captured a payload, no later build or retry rewrites it or takes the
\* assessment out of READY.
CaptureIsFinal ==
  [][row.ledger # NoLedger /\ ~clobbered'
       => row'.state = "READY" /\ row'.ledger.payload = row.ledger.payload]_vars

\* The finished valuation run of each assumption set is written once and never changes, whoever
\* builds or overrides at the same time: the table implements a write-once register per set.
Finished(v) == IF v.state = "READY" THEN v ELSE NoValue
ValuationTable == INSTANCE WriteOnce
  WITH Cells <- Sets, Empty <- NoValue, cell <- [s \in Sets |-> Finished(row.values[s])]
ValuationsWrittenOnce == ValuationTable!Spec

\* The valuation bound to the ledger was computed from the features the ledger froze, unless an
\* override valued the run before it was finished.
LedgerValuedFromItsFeatures ==
  row.state = "READY" /\ ~clobbered /\ row.ledger.valued \notin early \cup {0}
    => /\ row.values[row.ledger.valued].state = "READY"
       /\ row.values[row.ledger.valued].features = row.features
       /\ row.values[row.ledger.valued].result = row.result

\* Override requests that overlap may supersede the same row, but never the one in effect; and
\* the valuation in effect has been computed.
EffectiveOverrideStands ==
  \A type \in Types :
    LET e == Effective(type)
    IN  e # 0 => /\ \A i \in 1 .. Len(overrides) : overrides[i].supersedes # e
                 /\ type = "VALUATION_ASSUMPTION_SET"
                      => row.values[overrides[e].set].state = "READY"

\* What the plans promise of a frozen assessment: a rerun makes a new lineage and never rewrites
\* the original.
ReadyStaysReady == [][row.state = "READY" => row'.state = "READY"]_vars
===============================================================================
