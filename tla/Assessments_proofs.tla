-------------------------- MODULE Assessments_proofs --------------------------
(***************************************************************************)
(* Proofs about Assessments: its types; that the valuation table is a      *)
(* write-once register per assumption set whoever builds or overrides;     *)
(* that the override in effect stands; and that what the ledger captured   *)
(* is final, replays, and is bound to a valuation of what it froze.        *)
(***************************************************************************)
EXTENDS Assessments, FiniteSetTheorems, WellFoundedInduction, TLAPS

USE DEF world, Others, Scored, Valued, Captured

\* What a session read as finished is still what the table holds.
ReadStands(view) ==
  \A s \in Sets : view.values[s].state = "READY" => row.values[s] = view.values[s]

\* At most one session holds the lock of the run row.
LockHeldOnce == \A b, c \in Builders : builder[b].pc \in Locked /\ builder[c].pc \in Locked => b = c

\* A valuation about to be committed does not replace another.
DraftStands ==
  \A b \in Builders :
    builder[b].pc = "valued" /\ builder[b].set # 0 =>
      LET s == builder[b].set
      IN  /\ builder[b].draft.values[s].state = "READY"
          /\ row.values[s].state = "READY" => row.values[s] = builder[b].draft.values[s]

Readers ==
  /\ \A b \in Builders : ReadStands(builder[b].view)
  /\ \A o \in Analysts : ReadStands(analyst[o].view)

IInv == TypeOK /\ LockHeldOnce /\ DraftStands /\ Readers

\* Counting the rows of a version gives a number.
LEMMA ContentsType ==
  ASSUME NEW items \in SUBSET Items
  PROVE  Contents(items) \in [Facts -> Nat]
<1>1. IsFiniteSet(Facts)
  BY FS_Interval, ParameterAssumption DEF Facts
<1>2. IsFiniteSet(Items)
  BY <1>1, FS_Product, ParameterAssumption DEF Items
<1>3. ASSUME NEW f \in Facts
      PROVE  Cardinality({i \in items : i[2] = f}) \in Nat
  BY <1>2, FS_Subset, FS_CardinalityType
<1> QED
  BY <1>3 DEF Contents

\* What a result is computed from is well formed.
LEMMA ResultOfType ==
  ASSUME NEW r \in Rows, NEW evidence \in [Facts -> Nat], NEW passed \in BOOLEAN,
         NEW release \in {None, Release}
  PROVE  ResultOf(r, evidence, passed, release) \in ResultRows
BY DEF ResultOf, ResultRows, Rows

LEMMA OwnType == \A v : Own(v) \in [Facts -> Nat]
BY DEF Own

\* So is a payload.
LEMMA PayloadType ==
  ASSUME NEW r \in Rows, NEW s \in Sets \cup {0}, NoValue \in ValueRows,
         NEW evidence \in [Facts -> Nat], NEW comparables \in [Facts -> Nat]
  PROVE  Payload(r, evidence, comparables, s) \in Payloads
<1>2. (IF s = 0 THEN NoValue ELSE r.values[s]) \in ValueRows
  BY DEF Rows
<1> QED
  BY <1>2 DEF Payload, Payloads, Rows

\* The rows of an assessment nobody has built are well formed.
LEMMA AbsentType ==
  /\ NoValue \in ValueRows
  /\ AbsentRow \in Rows
  /\ \A s \in Sets : AbsentRow.values[s].state = "ABSENT"
<1>1. NoRows \in [Facts -> Nat]
  BY DEF NoRows
<1>2. NoResult \in ResultRows
  BY <1>1 DEF NoResult, ResultRows
<1>3. NoValue \in ValueRows /\ NoValue.state = "ABSENT"
  BY <1>2 DEF NoValue, ValueRows
<1>4. NoPayload \in Payloads
  BY <1>1, <1>2, <1>3 DEF NoPayload, Payloads
<1>5. NoLedger \in LedgerRows
  BY <1>4 DEF NoLedger, LedgerRows
<1>6. AbsentRow \in Rows
  BY <1>2, <1>3, <1>5 DEF AbsentRow, Rows
<1>7. \A s \in Sets : AbsentRow.values[s].state = "ABSENT"
  BY <1>3 DEF AbsentRow
<1> QED
  BY <1>3, <1>6, <1>7

\* Building sets of items keeps them items.
LEMMA ReplacedType ==
  ASSUME TypeOK, NEW rows \in SUBSET Items, NEW read, NEW b \in Builders
  PROVE  Replaced(rows, read, b) \in SUBSET Items
BY DEF Replaced, Items, TypeOK

\* Other sessions' valuations are kept by the commit.
LEMMA MergedType ==
  ASSUME TypeOK, NEW d \in Rows, NEW s \in Sets \cup {0}
  PROVE  /\ Merged(d, s) \in Rows
         /\ \A t \in Sets : Merged(d, s).values[t] = IF t = s THEN d.values[t] ELSE row.values[t]
BY DEF Merged, Rows, TypeOK

-------------------------------------------------------------------------------
(* Every action keeps the types. *)

Typed(b) == builder'[b] \in [pc : Locked \cup {"idle", "found"}, view : Rows, draft : Rows,
                             set : Sets \cup {0}, made : Made]

LEMMA AbortTyped ==
  ASSUME TypeOK, NEW b \in Builders, Abort(b)
  PROVE  TypeOK'
BY AbsentType DEF TypeOK, Abort, IdleBuilder, Made

LEMMA BuildTyped ==
  ASSUME TypeOK, NEW b \in Builders, Build(b)
  PROVE  TypeOK'
<1> DEFINE Sessions == [pc : Locked \cup {"idle", "found"}, view : Rows, draft : Rows,
                        set : Sets \cup {0}, made : Made]
<1>1. /\ builder \in [Builders -> Sessions] /\ builder[b] \in Sessions
      /\ builder[b].made \in Made /\ facts \in Facts /\ mixed \in BOOLEAN
  BY DEF TypeOK
<1>2. ASSUME NEW pc \in Locked, NEW d \in Rows, NEW made \in Made, Step(b, pc, d, made),
             UNCHANGED <<world, row, Others, failures, clobbered>>, mixed' \in BOOLEAN
      PROVE  TypeOK'
  <2>1. builder' \in [Builders -> Sessions]
    BY <1>1, <1>2 DEF Step
  <2> QED
    BY <2>1, <1>2 DEF TypeOK
<1>3. CASE Lookup(b)
  <2>1. builder' \in [Builders -> Sessions]
    BY <1>1, <1>3, AbsentType DEF Lookup, IdleBuilder, TypeOK, Made
  <2> QED
    BY <2>1, <1>3 DEF Lookup, TypeOK
<1>4. CASE Begin(b)
  <2>1. [row EXCEPT !.state = "PENDING"] \in Rows
    BY DEF TypeOK, Rows
  <2> DEFINE m == (mixed \/ ~(/\ row.evidence \subseteq builder[b].view.evidence
                              /\ row.comparables \subseteq builder[b].view.comparables))
  <2>2. m \in BOOLEAN
    OBVIOUS
  <2>3. \/ Abort(b)
        \/ /\ Step(b, "started", [row EXCEPT !.state = "PENDING"], builder[b].made)
           /\ mixed' = m
           /\ UNCHANGED <<world, row, Others, failures, clobbered>>
    BY <1>4 DEF Begin
  <2> HIDE DEF m
  <2> QED
    BY <2>1, <2>2, <2>3, <1>1, <1>2, AbortTyped DEF Locked
<1>5. CASE BuildFeatures(b)
  <2>1. [builder[b].draft EXCEPT !.features = facts] \in Rows
    BY <1>1 DEF TypeOK, Rows
  <2> QED
    BY <2>1, <1>1, <1>2, <1>5, AbortTyped DEF BuildFeatures, Locked
<1>6. CASE PersistEvidence(b)
  <2> DEFINE d == builder[b].draft
             e == Replaced(d.evidence, builder[b].view.evidence, b)
             p == facts \in Passing
             r == [NoResult EXCEPT !.passed = p]
             m == [builder[b].made EXCEPT !.evidence = facts]
  <2>1. d \in Rows /\ d.evidence \in SUBSET Items
    BY <1>1 DEF Rows
  <2>2. e \in SUBSET Items
    BY <2>1, ReplacedType
  <2>3. r \in ResultRows
    <3>1. p \in BOOLEAN
      OBVIOUS
    <3> HIDE DEF p
    <3> QED
      BY <3>1 DEF NoResult, NoRows, ResultRows
  <2>0. m \in Made
    BY <1>1 DEF Made
  <2> HIDE DEF d, e, r, m
  <2>4. [d EXCEPT !.evidence = e, !.result = r] \in Rows
    BY <2>1, <2>2, <2>3 DEF Rows
  <2>5. Step(b, "evidenced", [d EXCEPT !.evidence = e, !.result = r], m)
        /\ UNCHANGED <<world, row, Others, failures, clobbered, mixed>>
    BY <1>6 DEF PersistEvidence, d, e, r, m
  <2> QED
    BY <2>0, <2>4, <2>5, <1>1, <1>2 DEF Locked
<1>7. CASE BuildComparables(b)
  <2> DEFINE d == builder[b].draft
             e == Replaced(d.comparables, builder[b].view.comparables, b)
             m == [builder[b].made EXCEPT !.comparables = facts]
  <2>1. d \in Rows /\ d.comparables \in SUBSET Items
    BY <1>1 DEF Rows
  <2>2. e \in SUBSET Items
    BY <2>1, ReplacedType
  <2>0. m \in Made
    BY <1>1 DEF Made
  <2> HIDE DEF d, e, m
  <2>3. [d EXCEPT !.comparables = e] \in Rows
    BY <2>1, <2>2 DEF Rows
  <2>4. \/ Abort(b)
        \/ /\ Step(b, "compared", [d EXCEPT !.comparables = e], m)
           /\ UNCHANGED <<world, row, Others, failures, clobbered, mixed>>
    BY <1>7 DEF BuildComparables, d, e, m
  <2> QED
    BY <2>0, <2>3, <2>4, <1>1, <1>2, AbortTyped DEF Locked
<1>8. CASE Score(b)
  <2> DEFINE d == builder[b].draft
             r == ResultOf(d, Own(builder[b].made.evidence), d.result.passed,
                           IF d.result.passed THEN active ELSE None)
  <2>1. d \in Rows /\ d.result.passed \in BOOLEAN
    BY <1>1 DEF Rows, ResultRows
  <2>2. r \in ResultRows
    BY <2>1, ResultOfType, OwnType DEF TypeOK
  <2> HIDE DEF d, r
  <2>3. [d EXCEPT !.result = r, !.scored = TRUE] \in Rows
    BY <2>1, <2>2 DEF Rows
  <2>4. \/ Abort(b)
        \/ /\ Step(b, "scored", [d EXCEPT !.result = r, !.scored = TRUE], builder[b].made)
           /\ UNCHANGED <<world, row, Others, failures, clobbered, mixed>>
    BY <1>8 DEF Score, d, r
  <2> QED
    BY <2>3, <2>4, <1>1, <1>2, AbortTyped DEF Locked
<1>9. CASE Value(b)
  <2> DEFINE d == builder[b].draft
             read == builder[b].view.values[latest]
             fresh == [state |-> "READY", features |-> d.features, result |-> d.result]
             v == IF Kept(read) THEN read ELSE fresh
  <2>1. d \in Rows /\ builder[b].view \in Rows /\ latest \in Sets
    BY <1>1 DEF TypeOK
  <2>2. v \in ValueRows
    BY <2>1 DEF Rows, ValueRows
  <2>3. [d EXCEPT !.values[latest] = v] \in Rows
    BY <2>1, <2>2 DEF Rows
  <2> HIDE DEF v
  <2>4. \/ Abort(b)
        \/ /\ \/ builder' = [builder EXCEPT ![b].pc = "valued", ![b].set = 0]
              \/ builder' = [builder EXCEPT ![b].pc = "valued", ![b].set = latest,
                                            ![b].draft.values[latest] = v]
           /\ UNCHANGED <<world, row, Others, failures, clobbered, mixed>>
    BY <1>9 DEF Value, v
  <2>6. CASE /\ builder' = [builder EXCEPT ![b].pc = "valued", ![b].set = latest,
                                           ![b].draft.values[latest] = v]
             /\ UNCHANGED <<world, row, Others, failures, clobbered, mixed>>
    <3>1. builder'[b] = [pc |-> "valued", view |-> builder[b].view,
                         draft |-> [d EXCEPT !.values[latest] = v], set |-> latest,
                         made |-> builder[b].made]
      BY <1>1, <2>6
    <3>2. builder'[b] \in Sessions
      BY <1>1, <3>1, <2>1, <2>3 DEF Locked
    <3>3. builder' \in [Builders -> Sessions]
      BY <1>1, <2>6, <3>2
    <3> QED
      BY <3>3, <2>6 DEF TypeOK
  <2>7. CASE /\ builder' = [builder EXCEPT ![b].pc = "valued", ![b].set = 0]
             /\ UNCHANGED <<world, row, Others, failures, clobbered, mixed>>
    <3>1. builder' \in [Builders -> Sessions]
      BY <1>1, <2>7 DEF Locked
    <3> QED
      BY <3>1, <2>7 DEF TypeOK
  <2> QED
    BY <2>4, <2>6, <2>7, AbortTyped
<1>10. CASE Capture(b)
  <2> DEFINE s == builder[b].set
             d == Merged(builder[b].draft, s)
             l == Captured(d, builder[b].made, s)
  <2>1. d \in Rows /\ s \in Sets \cup {0}
    BY <1>1, MergedType
  <2>2. l \in LedgerRows
    BY <2>1, PayloadType, OwnType, AbsentType DEF LedgerRows
  <2> HIDE DEF d, l
  <2>3. [d EXCEPT !.state = "READY", !.ledger = l] \in Rows
    BY <2>1, <2>2 DEF Rows
  <2>4. [d EXCEPT !.state = "READY", !.ledger = l].state # "PENDING"
    BY <2>1, Zenon DEF Rows
  <2>5. \/ Abort(b)
        \/ /\ row' = [d EXCEPT !.state = "READY", !.ledger = l]
           /\ builder' = [builder EXCEPT ![b] = IdleBuilder]
           /\ UNCHANGED <<world, Others, failures, clobbered, mixed>>
    BY <1>10 DEF Capture, d, l
  <2>6. IdleBuilder \in Sessions
    BY AbsentType DEF IdleBuilder, Made
  <2>7. CASE /\ row' = [d EXCEPT !.state = "READY", !.ledger = l]
             /\ builder' = [builder EXCEPT ![b] = IdleBuilder]
             /\ UNCHANGED <<world, Others, failures, clobbered, mixed>>
    <3>1. builder' \in [Builders -> Sessions]
      BY <1>1, <2>6, <2>7
    <3> QED
      BY <3>1, <2>3, <2>4, <2>7 DEF TypeOK
  <2> QED
    BY <2>5, <2>7, AbortTyped
<1> QED
  BY <1>3, <1>4, <1>5, <1>6, <1>7, <1>8, <1>9, <1>10 DEF Build

\* A build that raises leaves the marked row, or nothing.
LEMMA FailTyped ==
  ASSUME TypeOK, NEW b \in Builders, Fail(b)
  PROVE  TypeOK'
<1> DEFINE Sessions == [pc : Locked \cup {"idle", "found"}, view : Rows, draft : Rows,
                        set : Sets \cup {0}, made : Made]
           d == Merged(builder[b].draft, 0)
           v == [NoValue EXCEPT !.state = "FAILED"]
<1>1. builder \in [Builders -> Sessions] /\ IdleBuilder \in Sessions
  BY AbsentType DEF TypeOK, IdleBuilder, Made
<1>2. builder' \in [Builders -> Sessions]
  BY <1>1 DEF Fail
<1>3. d \in Rows
  BY <1>1, MergedType
<1>4. v \in ValueRows
  BY AbsentType DEF ValueRows
<1> HIDE DEF d, v
<1>5. Marked(d) \in Rows /\ Marked(d).state = "FAILED"
  BY <1>3 DEF Marked, Rows
<1>6. [d EXCEPT !.values[latest] = v] \in Rows
  BY <1>3, <1>4 DEF Rows
<1>7. /\ Marked([d EXCEPT !.values[latest] = v]) \in Rows
      /\ Marked([d EXCEPT !.values[latest] = v]).state = "FAILED"
  <2> DEFINE e == [d EXCEPT !.values[latest] = v]
  <2> HIDE DEF e
  <2>1. e \in Rows => Marked(e) \in Rows /\ Marked(e).state = "FAILED"
    BY DEF Marked, Rows
  <2> QED
    BY <2>1, <1>6 DEF e
<1>8. \/ row' = row
      \/ row' = Marked(d)
      \/ row' = Marked([d EXCEPT !.values[latest] = v])
  BY DEF Fail, d, v
<1>9. row' \in Rows /\ row'.state # "PENDING"
  BY <1>5, <1>7, <1>8 DEF TypeOK
<1>10. clobbered' \in BOOLEAN
  <2>1. clobbered' = clobbered \/ clobbered' = (clobbered \/ row.state = "READY")
    BY DEF Fail
  <2> QED
    BY <2>1 DEF TypeOK
<1>11. failures' \in Nat /\ UNCHANGED <<world, Others, mixed>>
  BY DEF Fail, TypeOK
<1> QED
  BY <1>2, <1>9, <1>10, <1>11 DEF TypeOK

\* Of the first n rows, NewestAmong is 0 or the last of the type.
LEMMA NewestIs ==
  ASSUME NEW type, NEW n \in Nat, NewestAmong(type, n) # 0
  PROVE  /\ NewestAmong(type, n) \in 1 .. n
         /\ overrides[NewestAmong(type, n)].type = type
         /\ \A k \in 1 .. n : overrides[k].type = type => k <= NewestAmong(type, n)
<1> DEFINE found == {i \in 1 .. n : overrides[i].type = type}
<1>1. found # {}
  BY DEF NewestAmong
<1>2. \E i \in found : \A k \in found : k <= i
  <2> DEFINE T == {n - i : i \in found}
             Less == OpToRel(<, Nat)
  <2>1. T \subseteq Nat /\ T # {}
    BY <1>1
  <2>2. \E x \in T : \A y \in T : <<y, x>> \notin Less
    <3> HIDE DEF T, Less
    <3>1. IsWellFoundedOn(Less, Nat)
      BY NatLessThanWellFounded DEF Less
    <3> QED
      BY <2>1, <3>1, WFMin
  <2>3. PICK i \in found : \A y \in T : <<y, n - i>> \notin Less
    BY <2>2
  <2>4. ASSUME NEW k \in found PROVE k <= i
    <3>1. <<n - k, n - i>> \notin Less /\ n - k \in Nat /\ n - i \in Nat
      BY <2>1, <2>3
    <3>2. ~(n - k < n - i)
      BY <3>1 DEF OpToRel
    <3> QED
      BY <3>2
  <2> QED
    BY <2>4
<1>3. NewestAmong(type, n) = CHOOSE i \in found : \A k \in found : k <= i
  BY <1>1 DEF NewestAmong
<1>4. NewestAmong(type, n) \in found /\ \A k \in found : k <= NewestAmong(type, n)
  BY <1>2, <1>3
<1> QED
  BY <1>4

LEMMA NewestType ==
  ASSUME NEW type, NEW n \in Nat
  PROVE  NewestAmong(type, n) \in Nat
<1>1. CASE NewestAmong(type, n) = 0
  BY <1>1
<1>2. CASE NewestAmong(type, n) # 0
  BY <1>2, NewestIs
<1> QED
  BY <1>1, <1>2

LEMMA OverrideTyped ==
  ASSUME TypeOK, NEW o \in Analysts, Override(o)
  PROVE  TypeOK'
<1> DEFINE Requests == [view : Rows, seen : Nat]
<1>1. analyst \in [Analysts -> Requests] /\ IdleAnalyst \in Requests
  BY AbsentType DEF TypeOK, IdleAnalyst
<1>2. ASSUME NEW type \in Types, NEW s \in Sets \cup {0}, NewOverride(o, type, s)
      PROVE  overrides' \in Seq(OverrideRows) /\ analyst' \in [Analysts -> Requests]
  <2>1. NewestAmong(type, analyst[o].seen) \in Nat
    BY <1>1, NewestType
  <2>2. [type |-> type, set |-> s, supersedes |-> NewestAmong(type, analyst[o].seen)]
          \in OverrideRows
    BY <2>1 DEF OverrideRows
  <2> QED
    BY <1>1, <1>2, <2>2 DEF NewOverride, TypeOK
<1>3. CASE OverrideLoads(o)
  <2>1. Len(overrides) \in Nat
    BY DEF TypeOK
  <2>2. analyst' \in [Analysts -> Requests]
    BY <1>1, <1>3, <2>1 DEF OverrideLoads, TypeOK
  <2> QED
    BY <1>3, <2>2 DEF OverrideLoads, TypeOK
<1>4. CASE OverrideOther(o)
  <2>1. NewOverride(o, "OTHER", 0) /\ UNCHANGED <<row, early>>
    BY <1>4 DEF OverrideOther
  <2>2. overrides' \in Seq(OverrideRows) /\ analyst' \in [Analysts -> Requests]
    BY <2>1, <1>2 DEF Types
  <2> QED
    BY <2>1, <2>2 DEF NewOverride, TypeOK
<1>5. ASSUME NEW s \in 1 .. latest, OverrideValuation(o, s)
      PROVE  TypeOK'
  <2> DEFINE view == analyst[o].view
             v == [state |-> "READY", features |-> row.features, result |-> view.result]
  <2>1. s \in Sets /\ view \in Rows
    BY <1>1, ParameterAssumption DEF TypeOK, Sets
  <2>2. CASE OverrideGivesUp(o)
    BY <1>1, <2>2 DEF OverrideGivesUp, TypeOK
  <2>3. CASE /\ NewOverride(o, "VALUATION_ASSUMPTION_SET", s)
             /\ row' = IF Kept(view.values[s]) THEN row ELSE [row EXCEPT !.values[s] = v]
             /\ early' \in {early, early \cup {s}}
    <3>1. v \in ValueRows
      BY <2>1 DEF ValueRows, Rows, TypeOK
    <3> HIDE DEF v
    <3>2. [row EXCEPT !.values[s] = v] \in Rows /\ [row EXCEPT !.values[s] = v].state = row.state
      BY <2>1, <3>1 DEF TypeOK, Rows
    <3>3. row' \in Rows /\ row'.state # "PENDING"
      BY <3>2, <2>3 DEF TypeOK
    <3>4. overrides' \in Seq(OverrideRows) /\ analyst' \in [Analysts -> Requests]
      BY <2>1, <2>3, <1>2 DEF Types
    <3> QED
      BY <2>1, <2>3, <3>3, <3>4 DEF NewOverride, TypeOK
  <2> QED
    BY <1>5, <2>2, <2>3 DEF OverrideValuation
<1> QED
  BY <1>3, <1>4, <1>5 DEF Override

LEMMA VerifierTyped ==
  ASSUME TypeOK, VerifierLoads \/ VerifierRecords
  PROVE  TypeOK'
<1>1. CASE VerifierLoads
  BY <1>1 DEF VerifierLoads, TypeOK
<1>2. CASE VerifierRecords
  <2> DEFINE st == IF ReplayPasses(verifier) THEN "VERIFIED" ELSE "FAILED"
  <2>1. st \in {None, "HASH_CAPTURED", "VERIFIED", "FAILED"}
    OBVIOUS
  <2> HIDE DEF st
  <2>2. [row EXCEPT !.ledger.status = st] \in Rows
        /\ [row EXCEPT !.ledger.status = st].state = row.state
    BY <2>1 DEF TypeOK, Rows, LedgerRows
  <2>3. row' = [row EXCEPT !.ledger.status = st]
    BY <1>2 DEF VerifierRecords, st
  <2> QED
    BY <1>2, <2>2, <2>3, AbsentType DEF VerifierRecords, TypeOK
<1> QED
  BY <1>1, <1>2

LEMMA NextTyped == TypeOK /\ [Next]_vars => TypeOK'
<1> SUFFICES ASSUME TypeOK, [Next]_vars PROVE TypeOK'
  OBVIOUS
<1>1. CASE WorldMoves
  <2>1. facts' \in Facts /\ latest' \in Sets
    BY <1>1, ParameterAssumption
       DEF WorldMoves, DataImported, ReleaseSwitched, SetRegistered, ScenarioSuperseded,
           TypeOK, Facts, Sets
  <2>2. active' \in {None, Release} /\ anchored' \in BOOLEAN
    BY <1>1
       DEF WorldMoves, DataImported, ReleaseSwitched, SetRegistered, ScenarioSuperseded, TypeOK
  <2> QED
    BY <1>1, <2>1, <2>2 DEF WorldMoves, TypeOK
<1>2. CASE \E b \in Builders : Crash(b)
  BY <1>2, AbortTyped DEF Crash
<1>3. CASE UNCHANGED vars
  BY <1>3 DEF vars, TypeOK
<1> QED
  BY <1>1, <1>2, <1>3, BuildTyped, FailTyped, OverrideTyped, VerifierTyped DEF Next

LEMMA InitTyped == Init => TypeOK
<1> SUFFICES ASSUME Init PROVE TypeOK
  OBVIOUS
<1>1. facts \in Facts /\ latest \in Sets /\ row \in Rows /\ verifier \in Rows
  BY AbsentType, ParameterAssumption DEF Init, Facts, Sets
<1>2. row.state # "PENDING"
  BY DEF Init, AbsentRow
<1>3. builder \in [Builders -> [pc : Locked \cup {"idle", "found"}, view : Rows, draft : Rows,
                                set : Sets \cup {0}, made : Made]]
  BY AbsentType DEF Init, IdleBuilder, Made
<1>4. analyst \in [Analysts -> [view : Rows, seen : Nat]]
  BY AbsentType DEF Init, IdleAnalyst
<1>5. overrides \in Seq(OverrideRows)
  BY DEF Init
<1>6. /\ active \in {None, Release} /\ anchored \in BOOLEAN /\ failures \in Nat
      /\ clobbered \in BOOLEAN /\ mixed \in BOOLEAN /\ early \subseteq Sets
  BY DEF Init
<1> QED
  BY <1>1, <1>2, <1>3, <1>4, <1>5, <1>6 DEF TypeOK

\* The types of the model hold in every reachable state.
THEOREM TypeCorrect == Spec => []TypeOK
BY InitTyped, NextTyped, PTL DEF Spec

-------------------------------------------------------------------------------
(* A finished valuation is never replaced. *)

\* What a step may do to the valuation table: nothing to a finished run, and at most one change.
OneValuation ==
  \E s \in Sets :
    /\ \A t \in Sets \ {s} : row'.values[t] = row.values[t]
    /\ row.values[s].state = "READY" => row'.values[s] = row.values[s]

Keeps == \A s \in Sets : row.values[s].state = "READY" => row'.values[s] = row.values[s]

LEMMA OneValuationKeeps == OneValuation => Keeps
BY DEF OneValuation, Keeps

\* A valuation the builder may write is not finished in the table either.
LEMMA Unfinished ==
  ASSUME TypeOK, NEW view \in Rows, NEW s \in Sets, ~Kept(view.values[s]),
         ~Collides(view.values[s], row.values[s])
  PROVE  row.values[s].state # "READY"
<1>1. view.values[s].state \in {"ABSENT", "READY", "FAILED"}
  BY DEF Rows, ValueRows
<1> QED
  BY <1>1 DEF Kept, Collides

LEMMA NextOneValuation ==
  ASSUME IInv, [Next]_vars
  PROVE  row' = row \/ OneValuation
<1> SUFFICES ASSUME row' # row PROVE OneValuation
  OBVIOUS
<1>0. TypeOK /\ DraftStands /\ Readers /\ latest \in Sets
  BY DEF IInv, TypeOK
<1>1. ASSUME NEW b \in Builders, Capture(b)
      PROVE  OneValuation
  <2> DEFINE s == builder[b].set
             d == Merged(builder[b].draft, s)
             l == Captured(d, builder[b].made, s)
  <2>1. s \in Sets \cup {0} /\ builder[b].draft \in Rows
    BY <1>0 DEF TypeOK
  <2>2. d \in Rows /\ \A t \in Sets : d.values[t] = IF t = s THEN builder[b].draft.values[t]
                                                   ELSE row.values[t]
    BY <1>0, <2>1, MergedType
  <2>3. row' = [d EXCEPT !.state = "READY", !.ledger = l]
    BY <1>1 DEF Capture, Abort
  <2>4. s # 0 /\ row.values[s].state = "READY" => row.values[s] = builder[b].draft.values[s]
    BY <1>0, <1>1 DEF DraftStands, Capture
  <2> HIDE DEF d, l
  <2>5. row'.values = d.values
    BY <2>2, <2>3 DEF Rows
  <2>6. CASE s = 0
    BY <1>0, <2>2, <2>5, <2>6, 0 \notin Sets DEF OneValuation, Sets
  <2>7. CASE s \in Sets
    <3>1. \A t \in Sets \ {s} : row'.values[t] = row.values[t]
      BY <2>2, <2>5
    <3>2. row'.values[s] = builder[b].draft.values[s] /\ s # 0
      BY <2>2, <2>5, <2>7 DEF Sets
    <3> QED
      BY <2>4, <2>7, <3>1, <3>2 DEF OneValuation
  <2> QED
    BY <2>1, <2>6, <2>7
<1>2. ASSUME NEW b \in Builders, Fail(b)
      PROVE  OneValuation
  <2> DEFINE d == Merged(builder[b].draft, 0)
             v == [NoValue EXCEPT !.state = "FAILED"]
  <2>0. builder[b].draft \in Rows /\ 0 \in Sets \cup {0} /\ 0 \notin Sets
    BY <1>0 DEF TypeOK, Sets
  <2>1. d \in Rows /\ \A t \in Sets : d.values[t] = row.values[t]
    BY <1>0, <2>0, MergedType
  <2> HIDE DEF d, v
  <2>2. CASE row' = Marked(d)
    <3>1. row'.values = d.values
      BY <2>1, <2>2 DEF Marked, Rows
    <3> QED
      BY <1>0, <2>1, <3>1 DEF OneValuation
  <2>3. CASE /\ row' = Marked([d EXCEPT !.values[latest] = v])
             /\ ~Kept(builder[b].view.values[latest])
             /\ ~Collides(builder[b].view.values[latest], row.values[latest])
    <3>1. row'.values = [d.values EXCEPT ![latest] = v]
      BY <2>1, <2>3 DEF Marked, Rows
    <3>2. row.values[latest].state # "READY"
      BY <1>0, <2>3, Unfinished DEF TypeOK
    <3>3. \A t \in Sets \ {latest} : row'.values[t] = row.values[t]
      BY <2>1, <3>1 DEF Rows
    <3> QED
      BY <1>0, <3>2, <3>3 DEF OneValuation
  <2> QED
    BY <1>2, <2>2, <2>3 DEF Fail, d, v
<1>3. ASSUME NEW o \in Analysts, NEW s \in 1 .. latest, OverrideValuation(o, s)
      PROVE  OneValuation
  <2> DEFINE view == analyst[o].view
             v == [state |-> "READY", features |-> row.features, result |-> view.result]
  <2>1. s \in Sets /\ view \in Rows /\ row \in Rows
    BY <1>0, ParameterAssumption DEF TypeOK, Sets
  <2> HIDE DEF v
  <2>2. /\ row' = [row EXCEPT !.values[s] = v]
        /\ ~Kept(view.values[s]) /\ ~Collides(view.values[s], row.values[s])
    BY <1>3 DEF OverrideValuation, OverrideGivesUp, v
  <2>3. row.values[s].state # "READY"
    BY <1>0, <2>1, <2>2, Unfinished
  <2>4. \A t \in Sets \ {s} : row'.values[t] = row.values[t]
    BY <2>1, <2>2 DEF Rows
  <2> QED
    BY <2>1, <2>3, <2>4 DEF OneValuation
<1>4. CASE VerifierRecords
  <2>1. row'.values = row.values
    BY <1>0, <1>4 DEF VerifierRecords, TypeOK, Rows
  <2> QED
    BY <1>0, <2>1 DEF OneValuation
<1>5. ASSUME NEW b \in Builders, Build(b) \/ Crash(b), ~Capture(b)
      PROVE  FALSE
  BY <1>5 DEF Build, Crash, Abort, Lookup, Begin, BuildFeatures, PersistEvidence,
              BuildComparables, Score, Value
<1>6. CASE WorldMoves \/ VerifierLoads \/ UNCHANGED vars
  BY <1>6 DEF WorldMoves, VerifierLoads, vars
<1>7. ASSUME NEW o \in Analysts, Override(o)
      PROVE  OneValuation
  BY <1>3, <1>7 DEF Override, OverrideLoads, OverrideOther
<1> QED
  BY <1>1, <1>2, <1>4, <1>5, <1>6, <1>7 DEF Next

-------------------------------------------------------------------------------
(* The parts of the invariant. *)

LEMMA NextLock ==
  ASSUME IInv, [Next]_vars
  PROVE  LockHeldOnce'
<1>0. /\ LockHeldOnce
      /\ builder \in [Builders -> [pc : Locked \cup {"idle", "found"}, view : Rows, draft : Rows,
                                   set : Sets \cup {0}, made : Made]]
  BY DEF IInv, TypeOK
<1>1. ASSUME NEW b \in Builders, Begin(b)
      PROVE  LockHeldOnce'
  <2>1. \A c \in Builders : c # b => builder'[c].pc \notin Locked
    BY <1>0, <1>1 DEF Begin, Abort, Step
  <2> QED
    BY <2>1 DEF LockHeldOnce
<1>2. ASSUME NEW b \in Builders,
             \A c \in Builders : builder'[c].pc \in Locked => builder[c].pc \in Locked
      PROVE  LockHeldOnce'
  BY <1>0, <1>2 DEF LockHeldOnce
<1>3. ASSUME NEW b \in Builders, Build(b) \/ Fail(b) \/ Crash(b), ~Begin(b)
      PROVE  \A c \in Builders : builder'[c].pc \in Locked => builder[c].pc \in Locked
  <2>1. CASE Abort(b) \/ Capture(b) \/ Fail(b)
    BY <1>0, <2>1 DEF Abort, Capture, Fail, IdleBuilder, Locked
  <2>2. CASE Lookup(b)
    BY <1>0, <2>2 DEF Lookup, IdleBuilder, Locked
  <2>3. CASE builder[b].pc \in Locked /\ \A c \in Builders \ {b} : builder'[c] = builder[c]
    BY <2>3
  <2>4. CASE BuildFeatures(b) \/ PersistEvidence(b) \/ BuildComparables(b) \/ Score(b)
    BY <1>0, <2>1, <2>3, <2>4
       DEF BuildFeatures, PersistEvidence, BuildComparables, Score, Step, Locked
  <2>5. CASE Value(b)
    BY <1>0, <2>1, <2>3, <2>5 DEF Value, Locked
  <2> QED
    BY <1>3, <2>1, <2>2, <2>4, <2>5 DEF Build, Crash
<1>4. CASE UNCHANGED builder
  BY <1>0, <1>4 DEF LockHeldOnce
<1>5. CASE WorldMoves \/ VerifierLoads \/ VerifierRecords \/ UNCHANGED vars
  BY <1>4, <1>5 DEF WorldMoves, VerifierLoads, VerifierRecords, vars
<1>6. ASSUME NEW o \in Analysts, Override(o)
      PROVE  UNCHANGED builder
  BY <1>6 DEF Override, OverrideLoads, OverrideOther, OverrideValuation, OverrideGivesUp, NewOverride
<1>7. CASE \E b \in Builders : Build(b) \/ Fail(b) \/ Crash(b)
  BY <1>1, <1>2, <1>3, <1>7
<1> QED
  BY <1>4, <1>5, <1>6, <1>7 DEF Next

\* What was read before the step still stands after it.
LEMMA ReadKept ==
  ASSUME TypeOK, Keeps, NEW view \in Rows, ReadStands(view)
  PROVE  \A s \in Sets : view.values[s].state = "READY" => row'.values[s] = view.values[s]
BY DEF ReadStands, Keeps

LEMMA NextReaders ==
  ASSUME IInv, [Next]_vars
  PROVE  Readers'
<1>0. TypeOK /\ Readers
  BY DEF IInv
<1>1. Keeps
  BY NextOneValuation, OneValuationKeeps DEF Keeps
<1>2. ASSUME NEW b \in Builders
      PROVE  \/ builder'[b].view = builder[b].view
             \/ builder'[b].view = AbsentRow
             \/ builder'[b].view = row /\ row' = row
  <2>0. builder \in [Builders -> [pc : Locked \cup {"idle", "found"}, view : Rows, draft : Rows,
                                  set : Sets \cup {0}, made : Made]]
    BY <1>0 DEF TypeOK
  <2>1. CASE UNCHANGED builder
    BY <2>1
  <2>2. ASSUME NEW c \in Builders, Abort(c) \/ Capture(c) \/ Fail(c)
        PROVE  builder'[b].view = builder[b].view \/ builder'[b].view = AbsentRow
    BY <2>0, <2>2 DEF Abort, Capture, Fail, IdleBuilder
  <2>3. ASSUME NEW c \in Builders, Lookup(c)
        PROVE  builder'[b].view = builder[b].view \/ (builder'[b].view = row /\ row' = row)
    BY <2>0, <2>3 DEF Lookup, IdleBuilder
  <2>4. ASSUME NEW c \in Builders, NEW pc, NEW d, NEW m, Step(c, pc, d, m)
        PROVE  builder'[b].view = builder[b].view
    BY <2>0, <2>4 DEF Step
  <2>5. ASSUME NEW c \in Builders, Value(c), ~Abort(c)
        PROVE  builder'[b].view = builder[b].view
    BY <2>0, <2>5 DEF Value
  <2>6. ASSUME NEW c \in Builders, Begin(c) \/ BuildFeatures(c) \/ PersistEvidence(c)
                                     \/ BuildComparables(c) \/ Score(c), ~Abort(c)
        PROVE  builder'[b].view = builder[b].view
    BY <2>4, <2>6 DEF Begin, BuildFeatures, PersistEvidence, BuildComparables, Score
  <2>7. CASE WorldMoves \/ VerifierLoads \/ VerifierRecords \/ UNCHANGED vars
    BY <2>1, <2>7 DEF WorldMoves, VerifierLoads, VerifierRecords, vars
  <2>8. ASSUME NEW o \in Analysts, Override(o)
        PROVE  UNCHANGED builder
    BY <2>8 DEF Override, OverrideLoads, OverrideOther, OverrideValuation, OverrideGivesUp,
                NewOverride
  <2> QED
    BY <2>1, <2>2, <2>3, <2>5, <2>6, <2>7, <2>8 DEF Next, Build, Crash
<1>3. ASSUME NEW o \in Analysts
      PROVE  \/ analyst'[o].view = analyst[o].view
             \/ analyst'[o].view = AbsentRow
             \/ analyst'[o].view = row /\ row' = row
  <2>0. analyst \in [Analysts -> [view : Rows, seen : Nat]]
    BY <1>0 DEF TypeOK
  <2>1. CASE UNCHANGED analyst
    BY <2>1
  <2>2. ASSUME NEW a \in Analysts, OverrideLoads(a)
        PROVE  analyst'[o].view = analyst[o].view \/ (analyst'[o].view = row /\ row' = row)
    BY <2>0, <2>2 DEF OverrideLoads
  <2>3. ASSUME NEW a \in Analysts, analyst' = [analyst EXCEPT ![a] = IdleAnalyst]
        PROVE  analyst'[o].view = analyst[o].view \/ analyst'[o].view = AbsentRow
    BY <2>0, <2>3 DEF IdleAnalyst
  <2>4. ASSUME NEW a \in Analysts, OverrideOther(a) \/ \E s \in 1 .. latest : OverrideValuation(a, s)
        PROVE  analyst' = [analyst EXCEPT ![a] = IdleAnalyst]
    BY <2>4 DEF OverrideOther, OverrideValuation, OverrideGivesUp, NewOverride
  <2>5. ASSUME NEW b \in Builders, Build(b) \/ Fail(b) \/ Crash(b)
        PROVE  UNCHANGED analyst
    BY <2>5 DEF Build, Fail, Crash, Abort, Lookup, Begin, BuildFeatures, PersistEvidence,
                BuildComparables, Score, Value, Capture
  <2>6. CASE WorldMoves \/ VerifierLoads \/ VerifierRecords \/ UNCHANGED vars
    BY <2>1, <2>6 DEF WorldMoves, VerifierLoads, VerifierRecords, vars
  <2> QED
    BY <2>1, <2>2, <2>3, <2>4, <2>5, <2>6 DEF Next, Override
<1>4. ASSUME NEW view, NEW old \in Rows, ReadStands(old),
             view = old \/ view = AbsentRow \/ (view = row /\ row' = row)
      PROVE  \A s \in Sets : view.values[s].state = "READY" => row'.values[s] = view.values[s]
  BY <1>0, <1>1, <1>4, ReadKept, AbsentType
<1>5. ASSUME NEW b \in Builders
      PROVE  \A s \in Sets : builder'[b].view.values[s].state = "READY"
                               => row'.values[s] = builder'[b].view.values[s]
  <2>1. builder[b].view \in Rows /\ ReadStands(builder[b].view)
    BY <1>0 DEF TypeOK, Readers
  <2> QED
    BY <2>1, <1>2, <1>4
<1>6. ASSUME NEW o \in Analysts
      PROVE  \A s \in Sets : analyst'[o].view.values[s].state = "READY"
                               => row'.values[s] = analyst'[o].view.values[s]
  <2>1. analyst[o].view \in Rows /\ ReadStands(analyst[o].view)
    BY <1>0 DEF TypeOK, Readers
  <2> QED
    BY <2>1, <1>3, <1>4
<1> QED
  BY <1>5, <1>6 DEF Readers, ReadStands

\* The draft of a builder that holds its valuation is ready, and the table does not contradict it.
DraftOf(b) ==
  builder[b].pc = "valued" /\ builder[b].set # 0 =>
    LET s == builder[b].set
    IN  /\ builder[b].draft.values[s].state = "READY"
        /\ row.values[s].state = "READY" => row.values[s] = builder[b].draft.values[s]

LEMMA NextDraft ==
  ASSUME IInv, [Next]_vars
  PROVE  DraftStands'
<1>0. /\ TypeOK /\ LockHeldOnce /\ Readers /\ latest \in Sets
      /\ \A b \in Builders : DraftOf(b)
      /\ builder \in [Builders -> [pc : Locked \cup {"idle", "found"}, view : Rows, draft : Rows,
                                   set : Sets \cup {0}, made : Made]]
  BY DEF IInv, TypeOK, DraftStands, DraftOf
<1>1. ASSUME NEW b \in Builders, builder'[b].pc # "valued"
      PROVE  DraftOf(b)'
  BY <1>1 DEF DraftOf
<1>2. ASSUME NEW b \in Builders, builder'[b] = builder[b], row' = row
      PROVE  DraftOf(b)'
  BY <1>0, <1>2 DEF DraftOf
<1>3. ASSUME NEW c \in Builders, Capture(c) \/ Fail(c), NEW b \in Builders
      PROVE  DraftOf(b)'
  <2>1. builder' = [builder EXCEPT ![c] = IdleBuilder] /\ builder[c].pc \in Locked
    BY <1>3 DEF Capture, Fail, Abort, Locked
  <2>2. CASE b = c
    BY <1>0, <1>1, <2>1, <2>2 DEF IdleBuilder
  <2>3. CASE b # c
    <3>1. builder'[b] = builder[b] /\ builder[b].pc # "valued"
      BY <1>0, <2>1, <2>3 DEF LockHeldOnce, Locked
    <3> QED
      BY <1>1, <3>1
  <2> QED
    BY <2>2, <2>3
<1>4. ASSUME NEW c \in Builders, Abort(c), NEW b \in Builders
      PROVE  DraftOf(b)'
  BY <1>0, <1>1, <1>2, <1>4 DEF Abort, IdleBuilder
<1>5. ASSUME NEW c \in Builders, NEW pc, pc # "valued", NEW d, NEW m, Step(c, pc, d, m), row' = row,
             NEW b \in Builders
      PROVE  DraftOf(b)'
  BY <1>0, <1>1, <1>2, <1>5 DEF Step
<1>6. ASSUME NEW c \in Builders, Lookup(c), NEW b \in Builders
      PROVE  DraftOf(b)'
  BY <1>0, <1>1, <1>2, <1>6 DEF Lookup, IdleBuilder
<1>7. ASSUME NEW c \in Builders, Value(c), ~Abort(c), NEW b \in Builders
      PROVE  DraftOf(b)'
  <2> DEFINE d == builder[c].draft
             read == builder[c].view.values[latest]
             fresh == [state |-> "READY", features |-> d.features, result |-> d.result]
             v == IF Kept(read) THEN read ELSE fresh
  <2>1. CASE b # c
    <3>1. builder'[b] = builder[b] /\ row' = row
      BY <1>0, <1>7, <2>1 DEF Value
    <3> QED
      BY <1>2, <3>1
  <2>2. CASE b = c /\ builder'[c].set = 0
    BY <2>2 DEF DraftOf
  <2>3. CASE b = c /\ builder'[c].set # 0
    <3>0. d \in Rows /\ read.state = "READY" => row.values[latest] = read
      BY <1>0 DEF Readers, ReadStands
    <3>1. v.state = "READY"
      BY DEF Kept
    <3>2. row.values[latest].state = "READY" => row.values[latest] = v
      <4>1. CASE Kept(read)
        BY <3>0, <4>1, <1>0 DEF Kept, Readers, ReadStands
      <4>2. CASE ~Kept(read)
        <5>1. ~Collides(read, row.values[latest])
          BY <1>7, <2>3, <4>2, <1>0 DEF Value
        <5>2. builder[c].view \in Rows
          BY <1>0
        <5> QED
          BY <5>1, <5>2, <4>2, <1>0, Unfinished
      <4> QED
        BY <4>1, <4>2
    <3> HIDE DEF v
    <3>3. /\ builder' = [builder EXCEPT ![c].pc = "valued", ![c].set = latest,
                                       ![c].draft.values[latest] = v]
          /\ row' = row
      BY <1>7, <1>0, <2>3 DEF Value, v
    <3>4. builder'[c] = [builder[c] EXCEPT !.pc = "valued", !.set = latest,
                                         !.draft.values[latest] = v]
      BY <3>3, <1>0, Zenon
    <3>5. builder[c] \in [pc : Locked \cup {"idle", "found"}, view : Rows, draft : Rows,
                          set : Sets \cup {0}, made : Made]
      BY <1>0
    <3>6. builder'[c].set = latest /\ builder'[c].draft = [d EXCEPT !.values[latest] = v]
      BY <3>4, <3>5
    <3>7. builder'[c].draft.values[latest] = v
      BY <3>5, <3>6, <1>0 DEF Rows
    <3> QED
      BY <2>3, <3>1, <3>2, <3>3, <3>6, <3>7 DEF DraftOf
  <2> QED
    BY <2>1, <2>2, <2>3
<1>8. ASSUME NEW o \in Analysts, NEW s \in 1 .. latest, OverrideValuation(o, s),
             NEW b \in Builders
      PROVE  DraftOf(b)'
  <2>0. builder' = builder /\ s \in Sets /\ row \in Rows
    BY <1>0, <1>8, ParameterAssumption
       DEF OverrideValuation, OverrideGivesUp, NewOverride, Sets, TypeOK
  <2>1. CASE row' = row
    BY <1>2, <2>0, <2>1
  <2>2. CASE row' # row
    <3> DEFINE v == [state |-> "READY", features |-> row.features,
                     result |-> analyst[o].view.result]
    <3>1. row' = [row EXCEPT !.values[s] = v]
      BY <1>8, <2>2 DEF OverrideValuation, OverrideGivesUp
    <3> HIDE DEF v
    <3>2. \A t \in Sets \ {s} : row'.values[t] = row.values[t]
      BY <2>0, <3>1 DEF Rows
    <3>3. ~(builder[b].pc = "valued" /\ builder[b].set = s)
      BY <1>8 DEF OverrideValuation
    <3>4. builder[b].set \in Sets \cup {0}
      BY <1>0
    <3> QED
      BY <1>0, <2>0, <3>2, <3>3, <3>4 DEF DraftOf
  <2> QED
    BY <2>1, <2>2
<1>9. CASE VerifierRecords
  <2>1. row'.values = row.values /\ builder' = builder
    BY <1>0, <1>9 DEF VerifierRecords, TypeOK, Rows
  <2>2. \A b \in Builders : DraftOf(b)'
    BY <1>0, <2>1 DEF DraftOf
  <2> QED
    BY <2>2 DEF DraftStands, DraftOf
<1>10. CASE WorldMoves \/ VerifierLoads \/ UNCHANGED vars
  <2>1. builder' = builder /\ row' = row
    BY <1>10 DEF WorldMoves, VerifierLoads, vars
  <2> QED
    BY <1>2, <2>1 DEF DraftStands, DraftOf
<1>11. ASSUME NEW o \in Analysts, Override(o), NEW b \in Builders
       PROVE  DraftOf(b)'
  <2>1. CASE OverrideLoads(o) \/ OverrideOther(o)
    BY <1>2, <2>1 DEF OverrideLoads, OverrideOther, NewOverride
  <2> QED
    BY <1>8, <1>11, <2>1 DEF Override
<1>12. ASSUME NEW c \in Builders, Build(c) \/ Fail(c) \/ Crash(c), NEW b \in Builders
       PROVE  DraftOf(b)'
  <2>1. CASE ~Abort(c) /\ (Begin(c) \/ BuildFeatures(c) \/ PersistEvidence(c)
                            \/ BuildComparables(c) \/ Score(c))
    BY <1>5, <2>1 DEF Begin, BuildFeatures, PersistEvidence, BuildComparables, Score
  <2> QED
    BY <1>3, <1>4, <1>6, <1>7, <1>12, <2>1 DEF Build, Crash
<1>13. ASSUME \A b \in Builders : DraftOf(b)'
       PROVE  DraftStands'
  BY <1>13 DEF DraftStands, DraftOf
<1> QED
  BY <1>9, <1>10, <1>11, <1>12, <1>13 DEF Next

-------------------------------------------------------------------------------
(* The invariant, and what it implies. *)

LEMMA InitInv == Init => IInv
<1> SUFFICES ASSUME Init PROVE IInv
  OBVIOUS
<1>1. TypeOK
  BY InitTyped
<1>2. \A b \in Builders : builder[b].pc = "idle" /\ builder[b].view = AbsentRow
  BY DEF Init, IdleBuilder
<1>3. \A o \in Analysts : analyst[o].view = AbsentRow
  BY DEF Init, IdleAnalyst
<1>4. ReadStands(AbsentRow)
  BY DEF ReadStands, AbsentRow, NoValue
<1> QED
  BY <1>1, <1>2, <1>3, <1>4 DEF IInv, LockHeldOnce, DraftStands, Readers, Locked

LEMMA NextInv == IInv /\ [Next]_vars => IInv'
<1> SUFFICES ASSUME IInv, [Next]_vars PROVE IInv'
  OBVIOUS
<1>1. TypeOK
  BY DEF IInv
<1> QED
  BY <1>1, NextTyped, NextLock, NextDraft, NextReaders DEF IInv

\* A builder never commits a valuation that contradicts one the table holds, and whatever a
\* session has read as finished is still there: the lock of the run row, the two unique keys
\* and the waiting of an insert for another are together enough.
THEOREM DraftsStand == Spec => [](LockHeldOnce /\ DraftStands /\ Readers)
<1>1. IInv => LockHeldOnce /\ DraftStands /\ Readers
  BY DEF IInv
<1> QED
  BY <1>1, InitInv, NextInv, PTL DEF Spec

\* Whoever builds, fails, crashes or overrides at the same time, the finished valuation of an
\* assumption set is written once: Assessments implements WriteOnce under the mapping.
THEOREM ValuationsImplementWriteOnce == Spec => ValuationsWrittenOnce
<1>1. Init => ValuationTable!Init
  <2> SUFFICES ASSUME Init PROVE ValuationTable!Init
    OBVIOUS
  <2>1. \A s \in Sets : row.values[s] = NoValue
    BY DEF Init, AbsentRow
  <2> QED
    BY <2>1 DEF ValuationTable!Init, Finished
<1>2. IInv /\ [Next]_vars => [ValuationTable!Next]_([s \in Sets |-> Finished(row.values[s])])
  <2> SUFFICES ASSUME IInv, [Next]_vars
               PROVE  [ValuationTable!Next]_([s \in Sets |-> Finished(row.values[s])])
    OBVIOUS
  <2> DEFINE cell == [s \in Sets |-> Finished(row.values[s])]
             after == [s \in Sets |-> Finished(row'.values[s])]
  <2>1. CASE row' = row
    BY <2>1
  <2>2. CASE OneValuation
    <3>1. PICK s \in Sets : /\ \A t \in Sets \ {s} : row'.values[t] = row.values[t]
                            /\ row.values[s].state = "READY" => row'.values[s] = row.values[s]
      BY <2>2 DEF OneValuation
    <3>0. /\ \A t \in Sets : cell[t] = Finished(row.values[t])
          /\ \A t \in Sets : after[t] = Finished(row'.values[t])
          /\ DOMAIN cell = Sets /\ DOMAIN after = Sets
          /\ after = [t \in Sets |-> after[t]] /\ cell = [t \in Sets |-> cell[t]]
      OBVIOUS
    <3> HIDE DEF cell, after
    <3>2. \A t \in Sets \ {s} : after[t] = cell[t]
      BY <3>0, <3>1
    <3>3. CASE after[s] = cell[s]
      <4>1. after = cell
        BY <3>0, <3>2, <3>3
      <4> QED
        BY <4>1 DEF after, cell
    <3>4. CASE after[s] # cell[s]
      <4>1. cell[s] = NoValue
        <5>1. row.values[s].state # "READY"
          BY <3>0, <3>1, <3>4
        <5> QED
          BY <3>0, <5>1 DEF Finished
      <4>2. after = [cell EXCEPT ![s] = after[s]]
        BY <3>0, <3>2
      <4>3. ValuationTable!Write(s)
        BY <3>4, <4>1, <4>2 DEF ValuationTable!Write, cell, after
      <4> QED
        BY <4>3 DEF ValuationTable!Next
    <3> QED
      BY <3>3, <3>4
  <2> QED
    BY <2>1, <2>2, NextOneValuation
<1> QED
  BY <1>1, <1>2, InitInv, NextInv, PTL DEF Spec, ValuationsWrittenOnce, ValuationTable!Spec

-------------------------------------------------------------------------------
(* The override in effect. *)

\* Every override row supersedes an earlier one of its type, or none, and a valuation override
\* names a set that has been valued.
Chained ==
  /\ \A o \in Analysts : analyst[o].seen <= Len(overrides)
  /\ \A i \in 1 .. Len(overrides) :
       LET r == overrides[i]
       IN  /\ r.supersedes # 0 => r.supersedes < i /\ overrides[r.supersedes].type = r.type
           /\ r.type = "VALUATION_ASSUMPTION_SET" =>
                r.set \in Sets /\ row.values[r.set].state = "READY"

\* Of a list that is chained, no row supersedes the newest of its type.
LEMMA ChainedStands == TypeOK /\ Chained => EffectiveOverrideStands
<1> SUFFICES ASSUME TypeOK, Chained, NEW type \in Types, Effective(type) # 0
             PROVE  /\ \A i \in 1 .. Len(overrides) : overrides[i].supersedes # Effective(type)
                    /\ type = "VALUATION_ASSUMPTION_SET" =>
                         row.values[overrides[Effective(type)].set].state = "READY"
  BY DEF EffectiveOverrideStands
<1> DEFINE e == Effective(type)
<1>1. Len(overrides) \in Nat
  BY DEF TypeOK
<1>2. /\ e \in 1 .. Len(overrides) /\ overrides[e].type = type
      /\ \A k \in 1 .. Len(overrides) : overrides[k].type = type => k <= e
  BY <1>1, NewestIs DEF Effective
<1> HIDE DEF e
<1>3. ASSUME NEW i \in 1 .. Len(overrides), overrides[i].supersedes = e
      PROVE  FALSE
  <2>1. e < i /\ overrides[e].type = overrides[i].type
    BY <1>2, <1>3 DEF Chained
  <2> QED
    BY <1>2, <2>1
<1> QED
  BY <1>2, <1>3 DEF Chained, e

\* A valuation that is finished stays finished, and the rows and the requests are as they were.
LEMMA ChainedAside ==
  ASSUME IInv, Chained, [Next]_vars, overrides' = overrides,
         \A o \in Analysts : analyst'[o].seen <= Len(overrides)
  PROVE  Chained'
<1>1. Keeps
  BY NextOneValuation, OneValuationKeeps DEF Keeps
<1>2. ASSUME NEW i \in 1 .. Len(overrides),
             overrides[i].type = "VALUATION_ASSUMPTION_SET"
      PROVE  overrides[i].set \in Sets /\ row'.values[overrides[i].set].state = "READY"
  BY <1>1, <1>2 DEF Chained, Keeps
<1> QED
  BY <1>2 DEF Chained

\* A request that appends its row.
LEMMA ChainedAppend ==
  ASSUME IInv, Chained, [Next]_vars, NEW o \in Analysts, NEW type \in Types,
         NEW s \in Sets \cup {0}, NewOverride(o, type, s),
         type = "VALUATION_ASSUMPTION_SET" => s \in Sets /\ row'.values[s].state = "READY"
  PROVE  Chained'
<1>0. /\ overrides \in Seq(OverrideRows) /\ Len(overrides) \in Nat
      /\ analyst \in [Analysts -> [view : Rows, seen : Nat]]
      /\ analyst[o].seen \in Nat /\ analyst[o].seen <= Len(overrides)
  BY DEF IInv, TypeOK, Chained
<1>1. Keeps
  BY NextOneValuation, OneValuationKeeps DEF Keeps
<1> DEFINE x == NewestAmong(type, analyst[o].seen)
           r == [type |-> type, set |-> s, supersedes |-> x]
           n == Len(overrides)
<1>2. /\ x \in Nat
      /\ x # 0 => x \in 1 .. n /\ overrides[x].type = type
  BY <1>0, NewestIs, NewestType
<1> HIDE DEF x
<1>3. overrides' = Append(overrides, r)
  BY DEF NewOverride, x
<1>r. r \in OverrideRows
  BY <1>2 DEF OverrideRows
<1> HIDE DEF r
<1>4. /\ Len(overrides') = n + 1
      /\ \A i \in 1 .. n : overrides'[i] = overrides[i]
      /\ overrides'[n + 1] = r
  BY <1>0, <1>3, <1>r
<1>5. \A a \in Analysts : analyst'[a].seen <= Len(overrides')
  <2>1. analyst' = [analyst EXCEPT ![o] = IdleAnalyst]
    BY DEF NewOverride
  <2>2. \A a \in Analysts : analyst'[a].seen \in {0, analyst[a].seen} /\ analyst[a].seen \in Nat
    BY <1>0, <2>1 DEF IdleAnalyst
  <2>3. \A a \in Analysts : analyst[a].seen <= n
    BY DEF Chained
  <2> QED
    BY <1>0, <1>4, <2>2, <2>3
<1>6. ASSUME NEW i \in 1 .. n
      PROVE  /\ overrides'[i].supersedes # 0 =>
                  /\ overrides'[i].supersedes < i
                  /\ overrides'[overrides'[i].supersedes].type = overrides'[i].type
             /\ overrides'[i].type = "VALUATION_ASSUMPTION_SET" =>
                  overrides'[i].set \in Sets /\ row'.values[overrides'[i].set].state = "READY"
  <2>1. overrides'[i] = overrides[i] /\ overrides[i] \in OverrideRows
    BY <1>0, <1>4
  <2>2. ASSUME overrides[i].supersedes # 0
        PROVE  /\ overrides[i].supersedes < i
               /\ overrides'[overrides[i].supersedes].type = overrides[i].type
    <3>1. overrides[i].supersedes \in Nat
      BY <2>1 DEF OverrideRows
    <3>2. overrides[i].supersedes < i /\ overrides[overrides[i].supersedes].type = overrides[i].type
      BY <2>2 DEF Chained
    <3>3. overrides[i].supersedes \in 1 .. n
      BY <1>0, <2>2, <3>1, <3>2
    <3> QED
      BY <1>4, <3>2, <3>3
  <2>3. ASSUME overrides[i].type = "VALUATION_ASSUMPTION_SET"
        PROVE  overrides[i].set \in Sets /\ row'.values[overrides[i].set].state = "READY"
    BY <1>1, <2>3 DEF Chained, Keeps
  <2> QED
    BY <2>1, <2>2, <2>3
<1>7. /\ r.supersedes # 0 => r.supersedes < n + 1 /\ overrides'[r.supersedes].type = r.type
      /\ r.type = "VALUATION_ASSUMPTION_SET" => r.set \in Sets /\ row'.values[r.set].state = "READY"
  BY <1>0, <1>2, <1>4 DEF r
<1>8. \A i \in 1 .. Len(overrides') : i \in 1 .. n \/ i = n + 1
  BY <1>0, <1>4
<1> QED
  BY <1>4, <1>5, <1>6, <1>7, <1>8 DEF Chained

LEMMA NextChained == ASSUME IInv, Chained, [Next]_vars PROVE Chained'
<1>0. /\ TypeOK /\ Readers /\ latest \in Sets
      /\ analyst \in [Analysts -> [view : Rows, seen : Nat]] /\ Len(overrides) \in Nat
      /\ \A o \in Analysts : analyst[o].seen <= Len(overrides)
  BY DEF IInv, TypeOK, Chained
<1>1. CASE UNCHANGED <<analyst, overrides>>
  BY <1>0, <1>1, ChainedAside
<1>2. ASSUME NEW b \in Builders, Build(b) \/ Fail(b) \/ Crash(b)
      PROVE  UNCHANGED <<analyst, overrides>>
  BY <1>2 DEF Build, Fail, Crash, Abort, Lookup, Begin, BuildFeatures, PersistEvidence,
              BuildComparables, Score, Value, Capture
<1>3. CASE WorldMoves \/ VerifierLoads \/ VerifierRecords \/ UNCHANGED vars
  BY <1>1, <1>3 DEF WorldMoves, VerifierLoads, VerifierRecords, vars
<1>4. ASSUME NEW o \in Analysts, OverrideLoads(o)
      PROVE  Chained'
  <2>1. \A a \in Analysts : analyst'[a].seen \in {Len(overrides), analyst[a].seen}
    BY <1>0, <1>4 DEF OverrideLoads
  <2>2. overrides' = overrides
    BY <1>4 DEF OverrideLoads
  <2> QED
    BY <1>0, <2>1, <2>2, ChainedAside
<1>5. ASSUME NEW o \in Analysts, OverrideGivesUp(o)
      PROVE  Chained'
  <2>1. \A a \in Analysts : analyst'[a].seen \in {0, analyst[a].seen}
    BY <1>0, <1>5 DEF OverrideGivesUp, IdleAnalyst
  <2>2. overrides' = overrides
    BY <1>5 DEF OverrideGivesUp
  <2> QED
    BY <1>0, <2>1, <2>2, ChainedAside
<1>6. ASSUME NEW o \in Analysts, OverrideOther(o)
      PROVE  Chained'
  <2>1. NewOverride(o, "OTHER", 0)
    BY <1>6 DEF OverrideOther
  <2> QED
    BY <2>1, ChainedAppend DEF Types
<1>7. ASSUME NEW o \in Analysts, NEW s \in 1 .. latest, OverrideValuation(o, s),
             ~OverrideGivesUp(o)
      PROVE  Chained'
  <2> DEFINE view == analyst[o].view
             v == Valued(row.features, view.result)
  <2>1. s \in Sets /\ view \in Rows /\ row \in Rows /\ ReadStands(view)
    BY <1>0, ParameterAssumption DEF TypeOK, Sets, Readers
  <2>2. NewOverride(o, "VALUATION_ASSUMPTION_SET", s)
    BY <1>7 DEF OverrideValuation
  <2>3. row'.values[s].state = "READY"
    <3>1. CASE Kept(view.values[s])
      <4>1. row' = row
        BY <1>7, <3>1 DEF OverrideValuation
      <4> QED
        BY <2>1, <3>1, <4>1 DEF Kept, ReadStands
    <3>2. CASE ~Kept(view.values[s])
      <4>1. v.state = "READY"
        OBVIOUS
      <4>2. row' = [row EXCEPT !.values[s] = v]
        BY <1>7, <3>2 DEF OverrideValuation
      <4> HIDE DEF v
      <4>3. row'.values[s] = v
        BY <2>1, <4>2 DEF Rows
      <4> QED
        BY <4>1, <4>3
    <3> QED
      BY <3>1, <3>2
  <2> QED
    BY <2>1, <2>2, <2>3, ChainedAppend DEF Types
<1>8. ASSUME NEW o \in Analysts, Override(o) PROVE Chained'
  BY <1>4, <1>5, <1>6, <1>7, <1>8 DEF Override
<1> QED
  BY <1>1, <1>2, <1>3, <1>8 DEF Next

\* Requests may overlap and supersede the same row, yet nothing supersedes the override in
\* effect, and the set it names has a finished valuation: each request looks at the rows it has
\* seen, and what it writes comes after them.
THEOREM EffectiveStands == Spec => []EffectiveOverrideStands
<1>1. Init => Chained
  BY DEF Init, Chained, IdleAnalyst
<1>2. IInv => TypeOK
  BY DEF IInv
<1>3. IInv /\ Chained /\ [Next]_vars => Chained'
  BY NextChained
<1> QED
  BY <1>1, <1>2, <1>3, InitInv, NextInv, ChainedStands, PTL DEF Spec

-------------------------------------------------------------------------------
(* What a step does to the rows: nothing, or it captures, fails, values or verifies. *)

Sessions == [pc : Locked \cup {"idle", "found"}, view : Rows, draft : Rows,
             set : Sets \cup {0}, made : Made]

\* b commits the ledger.
Captures(b) ==
  LET d == builder[b].draft
      s == builder[b].set
      m == builder[b].made
  IN  /\ builder[b].pc = "valued"
      /\ builder[b].view.ledger # NoLedger \/ row.ledger = NoLedger
      /\ builder' = [builder EXCEPT ![b] = IdleBuilder]
      /\ row'.state = "READY"
      /\ row'.features = d.features /\ row'.result = d.result /\ row'.scored = d.scored
      /\ row'.evidence = d.evidence /\ row'.comparables = d.comparables
      /\ \A t \in Sets : row'.values[t] = IF t = s THEN d.values[t] ELSE row.values[t]
      /\ row'.ledger.valued = s /\ row'.ledger.status = "HASH_CAPTURED"
      /\ row'.ledger.payload = Payload(row', Own(m.evidence), Own(m.comparables), s)
      /\ UNCHANGED <<analyst, verifier, early, clobbered, mixed>>

\* The failure of b is committed.
Fails(b) ==
  /\ builder[b].pc \in Locked
  /\ builder' = [builder EXCEPT ![b] = IdleBuilder]
  /\ row'.state = "FAILED" /\ row'.ledger = builder[b].draft.ledger
  /\ \A t \in Sets : row'.values[t].state = "READY" => row'.values[t] = row.values[t]
  /\ clobbered' = (clobbered \/ row.state = "READY")
  /\ UNCHANGED <<analyst, verifier, early, mixed>>

\* The same rows, but for the valuations and the ledger.
SameRows ==
  /\ row'.state = row.state /\ row'.features = row.features /\ row'.result = row.result
  /\ row'.scored = row.scored /\ row'.evidence = row.evidence
  /\ row'.comparables = row.comparables

\* o commits the valuation of set s.
Values(o, s) ==
  /\ SameRows /\ row'.ledger = row.ledger
  /\ row.values[s].state # "READY"
  /\ \A t \in Sets \ {s} : row'.values[t] = row.values[t]
  /\ early' = IF analyst[o].view.state = "READY" THEN early ELSE early \cup {s}
  /\ analyst' = [analyst EXCEPT ![o] = IdleAnalyst]
  /\ UNCHANGED <<builder, verifier, clobbered, mixed>>

\* The replay batch records an outcome.
Verifies ==
  /\ verifier # AbsentRow /\ verifier' = AbsentRow
  /\ SameRows /\ row'.values = row.values
  /\ row'.ledger.payload = row.ledger.payload /\ row'.ledger.valued = row.ledger.valued
  /\ row'.ledger.status = IF ReplayPasses(verifier) THEN "VERIFIED" ELSE "FAILED"
  /\ UNCHANGED <<builder, analyst, early, clobbered, mixed>>

\* The rows are left alone.
RowsStand ==
  /\ row' = row /\ UNCHANGED <<clobbered, early>> /\ (mixed => mixed')

\* Two rows that agree on what a replay reads replay alike.
LEMMA SameReplay ==
  ASSUME NEW r, NEW q, r.features = q.features, r.evidence = q.evidence,
         r.comparables = q.comparables, r.result = q.result, r.scored = q.scored,
         r.ledger.payload = q.ledger.payload, r.ledger.valued = q.ledger.valued,
         q.ledger.valued # 0 => r.values[q.ledger.valued] = q.values[q.ledger.valued],
         ReplayPasses(q)
  PROVE  ReplayPasses(r)
<1>1. \A x, y, s : ResultOf(r, x, y, s) = ResultOf(q, x, y, s)
  BY DEF ResultOf
<1>2. ScoredFieldsMatch(r)
  BY <1>1 DEF ReplayPasses, ScoredFieldsMatch
<1>3. \A x, y : Payload(r, x, y, q.ledger.valued) = Payload(q, x, y, q.ledger.valued)
  BY DEF Payload
<1> QED
  BY <1>2, <1>3 DEF ReplayPasses

LEMMA CaptureDoes ==
  ASSUME TypeOK, NEW b \in Builders, Capture(b), ~Abort(b)
  PROVE  Captures(b)
<1> DEFINE s == builder[b].set
           d == Merged(builder[b].draft, s)
           l == Captured(d, builder[b].made, s)
           x == builder[b].draft
           m == builder[b].made
<1>0. /\ s \in Sets \cup {0} /\ x \in Rows
      /\ builder[b].pc = "valued"
      /\ builder[b].view.ledger # NoLedger \/ row.ledger = NoLedger
      /\ row' = [d EXCEPT !.state = "READY", !.ledger = l]
      /\ builder' = [builder EXCEPT ![b] = IdleBuilder]
      /\ UNCHANGED <<analyst, verifier, early, clobbered, mixed>>
  BY DEF Capture, TypeOK
<1>1. /\ d \in Rows
      /\ \A t \in Sets : d.values[t] = IF t = s THEN x.values[t] ELSE row.values[t]
  BY <1>0, MergedType
<1>2. /\ d.features = x.features /\ d.result = x.result /\ d.scored = x.scored
      /\ d.evidence = x.evidence /\ d.comparables = x.comparables
  BY <1>0 DEF Merged, Rows
<1>3. /\ l.valued = s /\ l.status = "HASH_CAPTURED"
      /\ l.payload = Payload(d, Own(m.evidence), Own(m.comparables), s)
  OBVIOUS
<1> HIDE DEF d, l
<1>4. /\ row'.state = "READY" /\ row'.ledger = l
      /\ row'.features = d.features /\ row'.result = d.result /\ row'.scored = d.scored
      /\ row'.evidence = d.evidence /\ row'.comparables = d.comparables
      /\ row'.values = d.values
  BY <1>0, <1>1 DEF Rows
<1>5. Payload(row', Own(m.evidence), Own(m.comparables), s)
        = Payload(d, Own(m.evidence), Own(m.comparables), s)
  BY <1>4 DEF Payload
<1>6. row'.ledger.valued = s /\ row'.ledger.status = "HASH_CAPTURED"
      /\ row'.ledger.payload = Payload(row', Own(m.evidence), Own(m.comparables), s)
  BY <1>3, <1>4, <1>5
<1> QED
  BY <1>0, <1>1, <1>2, <1>4, <1>6 DEF Captures

LEMMA FailDoes ==
  ASSUME TypeOK, NEW b \in Builders, Fail(b)
  PROVE  RowsStand \/ Fails(b)
<1> SUFFICES ASSUME ~(b \notin Workers /\ UNCHANGED <<row, clobbered>>)
             PROVE  Fails(b)
  BY DEF Fail, RowsStand
<1> DEFINE d == Merged(builder[b].draft, 0)
           v == [NoValue EXCEPT !.state = "FAILED"]
<1>0. /\ builder[b].draft \in Rows /\ 0 \notin Sets /\ latest \in Sets
      /\ builder[b].pc \in Locked
      /\ builder' = [builder EXCEPT ![b] = IdleBuilder]
      /\ clobbered' = (clobbered \/ row.state = "READY")
      /\ UNCHANGED <<analyst, verifier, early, mixed>>
  BY DEF Fail, TypeOK, Sets
<1>1. /\ d \in Rows /\ \A t \in Sets : d.values[t] = row.values[t]
      /\ d.ledger = builder[b].draft.ledger
  <2>1. d \in Rows /\ \A t \in Sets : t # 0 => d.values[t] = row.values[t]
    BY <1>0, MergedType
  <2>2. d.ledger = builder[b].draft.ledger
    BY <1>0 DEF Merged, Rows
  <2> HIDE DEF d
  <2> QED
    BY <1>0, <2>1, <2>2
<1>2. v.state = "FAILED"
  BY DEF NoValue
<1> HIDE DEF d, v
<1>3. row' = Marked(d) \/ row' = Marked([d EXCEPT !.values[latest] = v])
  BY DEF Fail, d, v
<1>4. /\ row'.state = "FAILED" /\ row'.ledger = d.ledger
      /\ row'.values = d.values \/ row'.values = [d.values EXCEPT ![latest] = v]
  <2>1. CASE row' = Marked(d)
    BY <1>1, <2>1 DEF Marked, Rows
  <2>2. CASE row' = Marked([d EXCEPT !.values[latest] = v])
    <3> DEFINE e == [d EXCEPT !.values[latest] = v]
    <3>1. e.values = [d.values EXCEPT ![latest] = v] /\ e.ledger = d.ledger
      BY <1>1 DEF Rows
    <3>2. DOMAIN e = DOMAIN d /\ "state" \in DOMAIN d /\ "ledger" \in DOMAIN d /\ "values" \in DOMAIN d
      BY <1>1 DEF Rows
    <3> HIDE DEF e
    <3>3. row' = [e EXCEPT !.state = "FAILED"]
      BY <2>2 DEF Marked, e
    <3>4. row'.state = "FAILED" /\ row'.ledger = e.ledger /\ row'.values = e.values
      BY <3>2, <3>3
    <3> QED
      BY <3>1, <3>4
  <2> QED
    BY <1>3, <2>1, <2>2
<1>5. ASSUME NEW t \in Sets, row'.values[t].state = "READY"
      PROVE  row'.values[t] = row.values[t]
  <2>1. CASE row'.values = d.values
    BY <1>1, <2>1
  <2>2. CASE row'.values = [d.values EXCEPT ![latest] = v]
    <3>1. DOMAIN d.values = Sets
      BY <1>1 DEF Rows
    <3>2. t # latest
      BY <1>0, <1>2, <1>5, <2>2, <3>1
    <3> QED
      BY <1>1, <2>2, <3>1, <3>2
  <2> QED
    BY <1>4, <2>1, <2>2
<1> QED
  BY <1>0, <1>1, <1>4, <1>5 DEF Fails

LEMMA OverrideDoes ==
  ASSUME TypeOK, NEW o \in Analysts, NEW s \in 1 .. latest, OverrideValuation(o, s)
  PROVE  RowsStand \/ (s \in Sets /\ Values(o, s))
<1> SUFFICES ASSUME ~OverrideGivesUp(o), ~Kept(analyst[o].view.values[s])
             PROVE  s \in Sets /\ Values(o, s)
  BY DEF OverrideValuation, OverrideGivesUp, NewOverride, RowsStand
<1> DEFINE view == analyst[o].view
           v == Valued(row.features, view.result)
<1>0. s \in Sets /\ view \in Rows /\ row \in Rows
  BY ParameterAssumption DEF TypeOK, Sets
<1>1. /\ ~Kept(view.values[s]) /\ ~Collides(view.values[s], row.values[s])
      /\ row' = [row EXCEPT !.values[s] = v]
      /\ early' = IF Kept(view.values[s]) \/ view.state = "READY" THEN early ELSE early \cup {s}
      /\ NewOverride(o, "VALUATION_ASSUMPTION_SET", s)
  BY DEF OverrideValuation, OverrideGivesUp
<1>2. /\ early' = IF view.state = "READY" THEN early ELSE early \cup {s}
      /\ analyst' = [analyst EXCEPT ![o] = IdleAnalyst]
      /\ UNCHANGED <<builder, verifier, clobbered, mixed>>
  BY <1>1 DEF NewOverride
<1>3. row.values[s].state # "READY"
  BY <1>0, <1>1, Unfinished
<1> HIDE DEF v
<1>4. SameRows /\ row'.ledger = row.ledger
      /\ \A t \in Sets \ {s} : row'.values[t] = row.values[t]
  BY <1>0, <1>1 DEF Rows, SameRows
<1> QED
  BY <1>0, <1>2, <1>3, <1>4 DEF Values

LEMMA VerifierDoes ==
  ASSUME TypeOK, VerifierRecords
  PROVE  Verifies
<1> DEFINE st == IF ReplayPasses(verifier) THEN "VERIFIED" ELSE "FAILED"
<1>1. /\ row' = [row EXCEPT !.ledger.status = st] /\ verifier # AbsentRow
      /\ verifier' = AbsentRow /\ UNCHANGED <<builder, analyst, early, clobbered, mixed>>
  BY DEF VerifierRecords
<1> HIDE DEF st
<1>2. /\ SameRows /\ row'.values = row.values
      /\ row'.ledger = [row.ledger EXCEPT !.status = st]
  BY <1>1 DEF TypeOK, Rows, SameRows
<1>3. /\ row'.ledger.payload = row.ledger.payload /\ row'.ledger.valued = row.ledger.valued
      /\ row'.ledger.status = st
  BY <1>2 DEF TypeOK, Rows, LedgerRows
<1> QED
  BY <1>1, <1>2, <1>3 DEF Verifies, st

LEMMA StepDoes ==
  ASSUME TypeOK, [Next]_vars
  PROVE  \/ RowsStand
         \/ \E b \in Builders : Captures(b) \/ Fails(b)
         \/ \E o \in Analysts, s \in Sets : Values(o, s)
         \/ Verifies
<1>1. ASSUME NEW b \in Builders, Build(b) \/ Crash(b), ~Capture(b) \/ Abort(b)
      PROVE  RowsStand
  <2>1. CASE Abort(b)
    BY <2>1 DEF Abort, RowsStand
  <2>2. CASE Lookup(b) \/ BuildFeatures(b) \/ PersistEvidence(b) \/ BuildComparables(b) \/ Score(b)
    BY <2>1, <2>2 DEF Lookup, BuildFeatures, PersistEvidence, BuildComparables, Score, RowsStand
  <2>3. CASE Value(b)
    BY <2>1, <2>3 DEF Value, RowsStand
  <2>4. CASE Begin(b) /\ ~Abort(b)
    <3> DEFINE m == ~(/\ row.evidence \subseteq builder[b].view.evidence
                     /\ row.comparables \subseteq builder[b].view.comparables)
    <3> HIDE DEF m
    <3>1. mixed' = (mixed \/ m) /\ UNCHANGED <<row, Others, clobbered>>
      BY <2>4 DEF Begin, m
    <3> QED
      BY <3>1 DEF RowsStand
  <2> QED
    BY <1>1, <2>1, <2>2, <2>3, <2>4 DEF Build, Crash
<1>2. CASE WorldMoves \/ VerifierLoads \/ UNCHANGED vars
  BY <1>2 DEF WorldMoves, VerifierLoads, vars, RowsStand
<1>3. ASSUME NEW o \in Analysts, OverrideLoads(o) \/ OverrideOther(o)
      PROVE  RowsStand
  BY <1>3 DEF OverrideLoads, OverrideOther, NewOverride, RowsStand
<1> QED
  BY <1>1, <1>2, <1>3, CaptureDoes, FailDoes, OverrideDoes, VerifierDoes DEF Next, Build, Override

-------------------------------------------------------------------------------
(* What a step does to a session: nothing, it ends, or it moves on. *)

\* What does not change from the first flush on.
Goes(b, from, to) ==
  /\ builder[b].pc = from /\ builder'[b].pc = to
  /\ builder'[b].view = builder[b].view
  /\ builder'[b].draft.ledger = builder[b].draft.ledger

Looks(b) == builder'[b].pc = "found" /\ builder'[b].view = row /\ row.state # "READY"

Begins(b) ==
  LET v == builder[b].view
      d == builder'[b].draft
  IN  /\ builder'[b].pc = "started" /\ builder'[b].view = v
      /\ d.ledger = row.ledger /\ d.evidence = row.evidence /\ d.comparables = row.comparables
      /\ ~mixed' => row.evidence \subseteq v.evidence /\ row.comparables \subseteq v.comparables

Features(b) ==
  LET c == builder[b]
      d == builder'[b].draft
  IN  /\ Goes(b, "started", "featured")
      /\ d.evidence = c.draft.evidence /\ d.comparables = c.draft.comparables

Evidences(b) ==
  LET c == builder[b]
      d == builder'[b].draft
  IN  /\ Goes(b, "featured", "evidenced")
      /\ d.evidence = Replaced(c.draft.evidence, c.view.evidence, b)
      /\ d.comparables = c.draft.comparables
      /\ builder'[b].made.evidence = facts

Compares(b) ==
  LET c == builder[b]
      d == builder'[b].draft
  IN  /\ Goes(b, "evidenced", "compared")
      /\ d.comparables = Replaced(c.draft.comparables, c.view.comparables, b)
      /\ d.evidence = c.draft.evidence
      /\ builder'[b].made.evidence = c.made.evidence
      /\ builder'[b].made.comparables = facts

Scores(b) ==
  LET c == builder[b]
      d == builder'[b].draft
  IN  /\ Goes(b, "compared", "scored")
      /\ builder'[b].made = c.made
      /\ d.evidence = c.draft.evidence /\ d.comparables = c.draft.comparables
      /\ d.result = ResultOf(d, Own(c.made.evidence), d.result.passed, d.result.release)

Appraises(b) ==
  LET c == builder[b]
      d == builder'[b].draft
      t == builder'[b].set
  IN  /\ Goes(b, "scored", "valued")
      /\ builder'[b].made = c.made
      /\ d.evidence = c.draft.evidence /\ d.comparables = c.draft.comparables
      /\ d.features = c.draft.features /\ d.result = c.draft.result
      /\ t # 0 => \/ t \in Sets /\ c.view.values[t].state = "READY"
                  \/ d.values[t] = Valued(d.features, d.result)

Moves(b) ==
  Looks(b) \/ Begins(b) \/ Features(b) \/ Evidences(b) \/ Compares(b) \/ Scores(b) \/ Appraises(b)

LEMMA StepMoves ==
  ASSUME TypeOK, NEW b \in Builders, NEW pc, NEW d, NEW m, Step(b, pc, d, m)
  PROVE  /\ builder'[b].pc = pc /\ builder'[b].draft = d /\ builder'[b].made = m
         /\ builder'[b].view = builder[b].view
BY DEF TypeOK, Step

LEMMA MoveDoes ==
  ASSUME TypeOK, NEW b \in Builders, Build(b), ~Abort(b), ~Capture(b)
  PROVE  Moves(b) /\ row' = row
<1> DEFINE c == builder[b]
           d == c.draft
<1>0. /\ c \in Sessions /\ d \in Rows /\ row \in Rows
      /\ builder \in [Builders -> Sessions]
      /\ latest \in Sets
  BY DEF TypeOK, Sessions
<1>1. row' = row
  BY DEF Build, Lookup, Begin, BuildFeatures, PersistEvidence, BuildComparables, Score, Value
<1>2. CASE Lookup(b)
  <2>1. builder'[b] = [IdleBuilder EXCEPT !.pc = "found", !.view = row] /\ row.state # "READY"
    BY <1>0, <1>2 DEF Lookup, NeedsBuild
  <2> QED
    BY <1>1, <2>1 DEF IdleBuilder, Looks, Moves
<1>3. CASE Begin(b)
  <2> DEFINE x == [row EXCEPT !.state = "PENDING"]
             m == (/\ row.evidence \subseteq builder[b].view.evidence
                   /\ row.comparables \subseteq builder[b].view.comparables)
  <2>1. Step(b, "started", x, c.made) /\ mixed' = (mixed \/ ~m)
    BY <1>3 DEF Begin
  <2>2. x.ledger = row.ledger /\ x.evidence = row.evidence /\ x.comparables = row.comparables
    BY <1>0 DEF Rows
  <2> HIDE DEF x, m
  <2>3. ~mixed' => m
    BY <2>1
  <2>4. builder'[b].pc = "started" /\ builder'[b].draft = x /\ builder'[b].view = c.view
    BY <2>1, StepMoves
  <2> QED
    BY <1>1, <2>2, <2>3, <2>4 DEF Begins, Moves, m
<1>4. CASE BuildFeatures(b)
  <2> DEFINE x == [d EXCEPT !.features = facts]
  <2>1. Step(b, "featured", x, c.made) /\ c.pc = "started"
    BY <1>4 DEF BuildFeatures
  <2>2. x.ledger = d.ledger /\ x.evidence = d.evidence /\ x.comparables = d.comparables
    BY <1>0 DEF Rows
  <2> HIDE DEF x
  <2>3. builder'[b].pc = "featured" /\ builder'[b].draft = x /\ builder'[b].view = c.view
    BY <2>1, StepMoves
  <2> QED
    BY <1>1, <2>1, <2>2, <2>3 DEF Features, Goes, Moves
<1>5. CASE PersistEvidence(b)
  <2> DEFINE e == Replaced(d.evidence, c.view.evidence, b)
             r == [NoResult EXCEPT !.passed = facts \in Passing]
             x == [d EXCEPT !.evidence = e, !.result = r]
             m == [c.made EXCEPT !.evidence = facts]
  <2>1. Step(b, "evidenced", x, m) /\ c.pc = "featured"
    BY <1>5 DEF PersistEvidence
  <2> HIDE DEF e, r
  <2>2. x.ledger = d.ledger /\ x.evidence = e /\ x.comparables = d.comparables
    BY <1>0 DEF Rows
  <2>3. m.evidence = facts
    BY <1>0 DEF Sessions, Made
  <2> HIDE DEF x, m
  <2>4. /\ builder'[b].pc = "evidenced" /\ builder'[b].draft = x /\ builder'[b].view = c.view
        /\ builder'[b].made = m
    BY <2>1, StepMoves
  <2> QED
    BY <1>1, <2>1, <2>2, <2>3, <2>4 DEF Evidences, Goes, Moves, e
<1>6. CASE BuildComparables(b)
  <2> DEFINE e == Replaced(d.comparables, c.view.comparables, b)
             x == [d EXCEPT !.comparables = e]
             m == [c.made EXCEPT !.comparables = facts]
  <2>1. Step(b, "compared", x, m) /\ c.pc = "evidenced"
    BY <1>6 DEF BuildComparables
  <2> HIDE DEF e
  <2>2. x.ledger = d.ledger /\ x.comparables = e /\ x.evidence = d.evidence
    BY <1>0 DEF Rows
  <2>3. m.comparables = facts /\ m.evidence = c.made.evidence
    BY <1>0 DEF Sessions, Made
  <2> HIDE DEF x, m
  <2>4. /\ builder'[b].pc = "compared" /\ builder'[b].draft = x /\ builder'[b].view = c.view
        /\ builder'[b].made = m
    BY <2>1, StepMoves
  <2> QED
    BY <1>1, <2>1, <2>2, <2>3, <2>4 DEF Compares, Goes, Moves, e
<1>7. CASE Score(b)
  <2> DEFINE p == d.result.passed
             a == IF p THEN active ELSE None
             r == ResultOf(d, Own(c.made.evidence), p, a)
             x == [d EXCEPT !.result = r, !.scored = TRUE]
  <2>1. Step(b, "scored", x, c.made) /\ c.pc = "compared"
    BY <1>7 DEF Score
  <2>2. r.passed = p /\ r.release = a
    BY DEF ResultOf
  <2>r. \A q : q.features = d.features => ResultOf(q, Own(c.made.evidence), p, a) = r
    BY DEF ResultOf
  <2> HIDE DEF p, a, r
  <2>3. /\ x.ledger = d.ledger /\ x.evidence = d.evidence /\ x.comparables = d.comparables
        /\ x.features = d.features /\ x.result = r
    BY <1>0 DEF Rows
  <2> HIDE DEF x
  <2>4. x.result = ResultOf(x, Own(c.made.evidence), x.result.passed, x.result.release)
    BY <2>2, <2>3, <2>r
  <2>5. /\ builder'[b].pc = "scored" /\ builder'[b].draft = x /\ builder'[b].view = c.view
        /\ builder'[b].made = c.made
    BY <2>1, StepMoves
  <2> QED
    BY <1>1, <2>1, <2>3, <2>4, <2>5 DEF Scores, Goes, Moves
<1>8. CASE Value(b)
  <2> DEFINE read == c.view.values[latest]
             fresh == Valued(d.features, d.result)
             v == IF Kept(read) THEN read ELSE fresh
             x == [d EXCEPT !.values[latest] = v]
  <2>1. CASE builder' = [builder EXCEPT ![b].pc = "valued", ![b].set = 0]
    <3>1. builder'[b] = [c EXCEPT !.pc = "valued", !.set = 0] /\ c.pc = "scored"
      BY <1>0, <1>8, <2>1 DEF Value
    <3>2. /\ builder'[b].pc = "valued" /\ builder'[b].set = 0 /\ builder'[b].view = c.view
          /\ builder'[b].draft = d /\ builder'[b].made = c.made
      BY <1>0, <3>1 DEF Sessions
    <3> QED
      BY <1>1, <3>1, <3>2 DEF Appraises, Goes, Moves
  <2>2. CASE builder' = [builder EXCEPT ![b].pc = "valued", ![b].set = latest,
                                        ![b].draft.values[latest] = v]
    <3>0. (v = read /\ read.state = "READY") \/ v = Valued(d.features, d.result)
      BY DEF Kept
    <3> HIDE DEF v
    <3>1. builder'[b] = [c EXCEPT !.pc = "valued", !.set = latest, !.draft.values[latest] = v]
      BY <1>0, <2>2, Zenon
    <3>2. /\ builder'[b].pc = "valued" /\ builder'[b].set = latest /\ builder'[b].view = c.view
          /\ builder'[b].draft = x /\ builder'[b].made = c.made
      BY <1>0, <3>1 DEF Sessions
    <3>3. /\ x.ledger = d.ledger /\ x.evidence = d.evidence /\ x.comparables = d.comparables
          /\ x.features = d.features /\ x.result = d.result /\ x.values[latest] = v
      BY <1>0 DEF Rows
    <3> HIDE DEF x
    <3>4. c.pc = "scored"
      BY <1>8 DEF Value
    <3>5. \/ latest \in Sets /\ c.view.values[latest].state = "READY"
          \/ x.values[latest] = Valued(x.features, x.result)
      BY <1>0, <3>0, <3>3
    <3>6. Goes(b, "scored", "valued")
      BY <3>2, <3>3, <3>4 DEF Goes
    <3>7. Appraises(b)
      BY <3>2, <3>3, <3>5, <3>6 DEF Appraises
    <3> QED
      BY <1>1, <3>7 DEF Moves
  <2> QED
    BY <1>8, <2>1, <2>2 DEF Value
<1> QED
  BY <1>2, <1>3, <1>4, <1>5, <1>6, <1>7, <1>8 DEF Build

LEMMA SessionDoes ==
  ASSUME TypeOK, [Next]_vars, NEW b \in Builders
  PROVE  \/ builder'[b] = builder[b]
         \/ builder'[b] = IdleBuilder
         \/ Moves(b) /\ row' = row
<1>0. builder \in [Builders -> Sessions]
  BY DEF TypeOK, Sessions
<1>1. ASSUME NEW c \in Builders, Abort(c) \/ Capture(c) \/ Fail(c)
      PROVE  builder'[b] = builder[b] \/ builder'[b] = IdleBuilder
  BY <1>0, <1>1 DEF Abort, Capture, Fail
<1>2. ASSUME NEW c \in Builders, c # b, Build(c), ~Abort(c), ~Capture(c)
      PROVE  builder'[b] = builder[b]
  <2>1. CASE Lookup(c) \/ Value(c)
    BY <1>0, <1>2, <2>1 DEF Lookup, Value
  <2>2. CASE \E pc, d, m : Step(c, pc, d, m)
    BY <1>0, <1>2, <2>2 DEF Step
  <2> QED
    BY <1>2, <2>1, <2>2 DEF Build, Begin, BuildFeatures, PersistEvidence, BuildComparables, Score
<1>3. CASE WorldMoves \/ VerifierLoads \/ VerifierRecords \/ UNCHANGED vars
  BY <1>3 DEF WorldMoves, VerifierLoads, VerifierRecords, vars
<1>4. ASSUME NEW o \in Analysts, Override(o)
      PROVE  builder' = builder
  BY <1>4 DEF Override, OverrideLoads, OverrideOther, OverrideValuation, OverrideGivesUp,
              NewOverride
<1> QED
  BY <1>1, <1>2, <1>3, <1>4, MoveDoes DEF Next, Crash

LEMMA ReadersDo ==
  ASSUME TypeOK, [Next]_vars
  PROVE  /\ \A o \in Analysts : \/ analyst'[o].view = analyst[o].view
                                \/ analyst'[o].view = AbsentRow
                                \/ analyst'[o].view = row /\ row' = row
         /\ \/ verifier' = verifier \/ verifier' = AbsentRow
            \/ verifier' = row /\ row' = row /\ row.state = "READY"
<1>0. analyst \in [Analysts -> [view : Rows, seen : Nat]]
  BY DEF TypeOK
<1>1. ASSUME NEW b \in Builders, Build(b) \/ Fail(b) \/ Crash(b)
      PROVE  UNCHANGED <<analyst, verifier>>
  BY <1>1 DEF Build, Fail, Crash, Abort, Lookup, Begin, BuildFeatures, PersistEvidence,
              BuildComparables, Score, Value, Capture
<1>2. CASE WorldMoves \/ UNCHANGED vars
  BY <1>2 DEF WorldMoves, vars
<1>3. CASE VerifierLoads \/ VerifierRecords
  BY <1>3 DEF VerifierLoads, VerifierRecords
<1>4. ASSUME NEW o \in Analysts, Override(o)
      PROVE  /\ verifier' = verifier
             /\ \/ analyst' = [analyst EXCEPT ![o] = IdleAnalyst]
                \/ /\ row' = row
                   /\ analyst' = [analyst EXCEPT ![o] = [view |-> row, seen |-> Len(overrides)]]
  BY <1>4 DEF Override, OverrideLoads, OverrideOther, OverrideValuation, OverrideGivesUp,
              NewOverride
<1>5. ASSUME NEW o \in Analysts, NEW a \in Analysts, Override(o)
      PROVE  \/ analyst'[a].view = analyst[a].view
             \/ analyst'[a].view = AbsentRow
             \/ analyst'[a].view = row /\ row' = row
  BY <1>0, <1>4, <1>5 DEF IdleAnalyst
<1> QED
  BY <1>1, <1>2, <1>3, <1>4, <1>5 DEF Next

-------------------------------------------------------------------------------
(* The freeze. *)

\* Nothing has been frozen, and no set was valued but by an override.
Unfrozen(r) ==
  r.ledger = NoLedger /\ \A s \in Sets : r.values[s].state = "READY" => s \in early

\* A finished run has its ledger.  Until a failure goes over a finished run, one that is not
\* finished has none, and nobody works on rows that have one and can still commit them.
Freezing ==
  /\ row.state = "READY" => row.ledger # NoLedger
  /\ \A b \in Builders : builder[b].view.state # "READY"
  /\ ~clobbered =>
       /\ row.state # "READY" => Unfrozen(row)
       /\ \A b \in Builders : Unfrozen(builder[b].view)
       /\ \A b \in Builders :
            builder[b].pc \in Locked /\ row.state # "READY" => builder[b].draft.ledger = NoLedger
       /\ \A o \in Analysts : analyst[o].view.state = "READY" => row.state = "READY"
       /\ verifier # AbsentRow => row.state = "READY"

\* The rows b has flushed so far are its own, and its result was computed from them; a valuation
\* it has bound is its own too, unless an override made it before.
Drafted(b) ==
  LET k == builder[b].pc
      v == builder[b].view
      d == builder[b].draft
      m == builder[b].made
  IN  /\ ~mixed =>
           /\ k \in {"started", "featured"} => d.evidence \subseteq v.evidence
           /\ k \in {"started", "featured", "evidenced"} => d.comparables \subseteq v.comparables
           /\ k \in {"evidenced", "compared", "scored", "valued"} =>
                m.evidence \in Facts /\ d.evidence = {<<b, m.evidence>>}
           /\ k \in {"compared", "scored", "valued"} =>
                m.comparables \in Facts /\ d.comparables = {<<b, m.comparables>>}
      /\ k \in {"scored", "valued"} =>
           d.result = ResultOf(d, Own(m.evidence), d.result.passed, d.result.release)
      /\ k = "valued" /\ ~clobbered /\ builder[b].set \notin early \cup {0} =>
           d.values[builder[b].set] = Valued(d.features, d.result)
Drafting == \A b \in Builders : Drafted(b)

\* The valuation the ledger names is finished, and was computed from what the ledger froze.
Frozen ==
  row.state = "READY" /\ ~clobbered =>
    /\ row.ledger.valued # 0 => row.values[row.ledger.valued].state = "READY"
    /\ row.ledger.valued \notin early \cup {0} =>
         row.values[row.ledger.valued] = Valued(row.features, row.result)

\* The finished run replays, and so does the one the replay batch has loaded.
Replays ==
  ~clobbered /\ ~mixed =>
    /\ row.state = "READY" => ReplayPasses(row) /\ row.ledger.status # "FAILED"
    /\ verifier # AbsentRow => ReplayPasses(verifier)

FInv == IInv /\ Freezing /\ Drafting /\ Frozen /\ Replays

\* Histories only grow.
LEMMA HistoriesGrow ==
  ASSUME TypeOK, [Next]_vars
  PROVE  (clobbered => clobbered') /\ (mixed => mixed') /\ early \subseteq early'
<1>1. ASSUME NEW b \in Builders, Captures(b) \/ Fails(b)
      PROVE  (clobbered => clobbered') /\ mixed' = mixed /\ early' = early
  <2>1. CASE Captures(b)
    BY <2>1 DEF Captures
  <2>2. CASE Fails(b)
    <3>1. clobbered' = (clobbered \/ row.state = "READY") /\ mixed' = mixed /\ early' = early
      BY <2>2 DEF Fails
    <3> QED
      BY <3>1
  <2> QED
    BY <1>1, <2>1, <2>2
<1>2. \A o \in Analysts, s \in Sets : Values(o, s) => /\ clobbered' = clobbered /\ mixed' = mixed
                                                       /\ early \subseteq early'
  BY DEF Values
<1> QED
  BY <1>1, <1>2, StepDoes DEF Verifies, RowsStand

\* A finished run stays finished until a failure goes over it.
LEMMA ReadyPersists ==
  ASSUME TypeOK, [Next]_vars, ~clobbered', row.state = "READY"
  PROVE  row'.state = "READY"
<1>1. \A b \in Builders : ~Fails(b)
  BY DEF Fails
<1> QED
  BY <1>1, StepDoes DEF RowsStand, Captures, Values, Verifies, SameRows

LEMMA LedgerOf ==
  NoLedger.status = None /\ None # "HASH_CAPTURED" /\ None # "VERIFIED" /\ None # "FAILED"
BY DEF NoLedger, None

LEMMA NextFreezing == ASSUME IInv, Freezing, [Next]_vars PROVE Freezing'
<1>0. TypeOK
  BY DEF IInv
<1>a. AbsentRow.state = "ABSENT" /\ AbsentRow.ledger = NoLedger
      /\ \A s \in Sets : AbsentRow.values[s].state = "ABSENT"
  BY AbsentType DEF AbsentRow
<1>h. (clobbered => clobbered') /\ early \subseteq early'
  BY <1>0, HistoriesGrow
<1>1. row'.state = "READY" => row'.ledger # NoLedger
  <2>1. ASSUME NEW b \in Builders, Captures(b) PROVE row'.ledger # NoLedger
    BY <2>1, LedgerOf DEF Captures
  <2>2. ASSUME NEW b \in Builders, Fails(b) PROVE row'.state # "READY"
    BY <2>2 DEF Fails
  <2>3. CASE Verifies
    BY <2>3, LedgerOf DEF Verifies
  <2>4. CASE RowsStand \/ \E o \in Analysts, s \in Sets : Values(o, s)
    BY <2>4 DEF Freezing, RowsStand, Values, SameRows
  <2> QED
    BY <1>0, <2>1, <2>2, <2>3, <2>4, StepDoes
<1>2. ASSUME NEW b \in Builders
      PROVE  \/ builder'[b].view = builder[b].view
             \/ builder'[b].view = AbsentRow
             \/ builder'[b].view = row /\ row' = row /\ row.state # "READY"
  <2>1. CASE Moves(b) /\ row' = row
    BY <2>1 DEF Moves, Looks, Begins, Features, Evidences, Compares, Scores, Appraises, Goes
  <2>2. CASE builder'[b] = IdleBuilder
    BY <2>2 DEF IdleBuilder
  <2> QED
    BY <1>0, <2>1, <2>2, SessionDoes
<1>3. ASSUME NEW b \in Builders
      PROVE  builder'[b].view.state # "READY"
  BY <1>2, <1>3, <1>a DEF Freezing
<1>4. ASSUME ~clobbered', row'.state # "READY"
      PROVE  Unfrozen(row)' /\ row.state # "READY" /\ Unfrozen(row)
  <2>0. row.state # "READY" /\ ~clobbered
    BY <1>0, <1>4, <1>h, ReadyPersists
  <2>1. Unfrozen(row)
    BY <2>0 DEF Freezing
  <2>2. CASE RowsStand
    <3>1. row' = row /\ early' = early
      BY <2>2 DEF RowsStand
    <3> QED
      BY <2>0, <2>1, <3>1 DEF Unfrozen
  <2>3. ASSUME NEW b \in Builders, Fails(b) PROVE Unfrozen(row)'
    <3>1. builder[b].draft.ledger = NoLedger
      BY <2>0, <2>3 DEF Freezing, Fails
    <3> QED
      BY <2>1, <2>3, <3>1 DEF Unfrozen, Fails
  <2>4. ASSUME NEW o \in Analysts, NEW s \in Sets, Values(o, s) PROVE Unfrozen(row)'
    <3>1. analyst[o].view.state # "READY"
      BY <2>0 DEF Freezing
    <3>2. early' = early \cup {s} /\ row'.ledger = row.ledger
          /\ \A t \in Sets \ {s} : row'.values[t] = row.values[t]
      BY <2>4, <3>1 DEF Values
    <3> QED
      BY <2>1, <3>2 DEF Unfrozen
  <2>5. CASE Verifies
    BY <2>0, <2>5 DEF Verifies, Freezing
  <2>6. ASSUME NEW b \in Builders, Captures(b) PROVE FALSE
    BY <1>4, <2>6 DEF Captures
  <2> QED
    BY <1>0, <2>0, <2>1, <2>2, <2>3, <2>4, <2>5, <2>6, StepDoes
<1>5. ASSUME ~clobbered', NEW b \in Builders
      PROVE  Unfrozen(builder[b].view)'
  <2>1. CASE builder'[b].view = builder[b].view
    BY <1>5, <1>h, <2>1 DEF Freezing, Unfrozen
  <2>2. CASE builder'[b].view = AbsentRow
    BY <1>a, <2>2 DEF Unfrozen
  <2>3. CASE builder'[b].view = row /\ row' = row /\ row.state # "READY"
    BY <1>5, <1>4, <2>3 DEF Unfrozen
  <2> QED
    BY <1>2, <2>1, <2>2, <2>3
<1>6. ASSUME ~clobbered', NEW b \in Builders, builder'[b].pc \in Locked, row'.state # "READY"
      PROVE  builder'[b].draft.ledger = NoLedger
  <2>0. row.state # "READY" /\ row.ledger = NoLedger /\ ~clobbered
    BY <1>4, <1>6, <1>h DEF Unfrozen
  <2>1. CASE builder'[b] = builder[b]
    BY <1>6, <2>0, <2>1 DEF Freezing
  <2>2. CASE Moves(b)
    <3>1. CASE Looks(b)
      BY <1>6, <3>1 DEF Looks, Locked
    <3>2. CASE Begins(b)
      BY <2>0, <3>2 DEF Begins
    <3>3. CASE \E from \in Locked : \E to : Goes(b, from, to)
      BY <2>0, <3>3 DEF Goes, Freezing
    <3> QED
      BY <2>2, <3>1, <3>2, <3>3
         DEF Moves, Features, Evidences, Compares, Scores, Appraises, Locked
  <2>3. CASE builder'[b] = IdleBuilder
    BY <1>6, <2>3 DEF IdleBuilder, Locked
  <2> QED
    BY <1>0, <2>1, <2>2, <2>3, SessionDoes
<1>7. ASSUME ~clobbered', NEW o \in Analysts, analyst'[o].view.state = "READY"
      PROVE  row'.state = "READY"
  <2>1. CASE analyst'[o].view = analyst[o].view
    BY <1>0, <1>7, <1>h, <2>1, ReadyPersists DEF Freezing
  <2> QED
    BY <1>0, <1>7, <1>a, <2>1, ReadersDo
<1>8. ASSUME ~clobbered', verifier' # AbsentRow
      PROVE  row'.state = "READY"
  <2>1. CASE verifier' = verifier
    BY <1>0, <1>8, <1>h, <2>1, ReadyPersists DEF Freezing
  <2> QED
    BY <1>0, <1>8, <2>1, ReadersDo
<1> QED
  BY <1>1, <1>3, <1>4, <1>5, <1>6, <1>7, <1>8 DEF Freezing

\* One builder's step on its own draft.
LEMMA NextDrafting == ASSUME IInv, Freezing, Drafting, [Next]_vars PROVE Drafting'
<1>0. TypeOK /\ facts \in Facts
  BY DEF IInv, TypeOK
<1>h. (clobbered => clobbered') /\ (mixed => mixed') /\ early \subseteq early'
  BY <1>0, HistoriesGrow
<1>1. ASSUME NEW b \in Builders
      PROVE  Drafted(b)'
  <2>0. Drafted(b)
    BY DEF Drafting
  <2>1. CASE builder'[b] = builder[b]
    <3>1. ~clobbered' /\ builder[b].set \notin early' \cup {0} =>
            ~clobbered /\ builder[b].set \notin early \cup {0}
      BY <1>h
    <3> QED
      BY <1>h, <2>0, <2>1, <3>1 DEF Drafted
  <2>2. CASE builder'[b] = IdleBuilder
    BY <2>2 DEF Drafted, IdleBuilder
  <2>3. CASE Looks(b)
    BY <2>3 DEF Drafted, Looks
  <2>4. CASE Begins(b)
    BY <2>4 DEF Drafted, Begins
  <2>5. CASE Features(b)
    BY <1>h, <2>0, <2>5 DEF Drafted, Features, Goes
  <2>6. CASE Evidences(b)
    BY <1>0, <1>h, <2>0, <2>6 DEF Drafted, Evidences, Goes, Replaced
  <2>7. CASE Compares(b)
    BY <1>0, <1>h, <2>0, <2>7 DEF Drafted, Compares, Goes, Replaced
  <2>8. CASE Scores(b)
    BY <1>h, <2>0, <2>8 DEF Drafted, Scores, Goes
  <2>9. CASE Appraises(b)
    <3> DEFINE t == builder'[b].set
               c == builder[b]
               d == builder'[b].draft
    <3>1. ASSUME ~clobbered', t \notin early' \cup {0}
          PROVE  d.values[t] = Valued(d.features, d.result)
      <4>1. Unfrozen(c.view) /\ t \notin early
        BY <1>h, <3>1 DEF Freezing
      <4>2. ~(t \in Sets /\ c.view.values[t].state = "READY")
        BY <4>1 DEF Unfrozen
      <4> QED
        BY <2>9, <3>1, <4>2 DEF Appraises
    <3>2. /\ builder'[b].pc = "valued" /\ c.pc = "scored" /\ builder'[b].made = c.made
          /\ d.evidence = c.draft.evidence /\ d.comparables = c.draft.comparables
          /\ d.features = c.draft.features /\ d.result = c.draft.result
      BY <2>9 DEF Appraises, Goes
    <3>3. d.result = ResultOf(d, Own(c.made.evidence), d.result.passed, d.result.release)
      BY <2>0, <3>2 DEF Drafted, ResultOf
    <3>4. ~mixed' => /\ c.made.evidence \in Facts /\ d.evidence = {<<b, c.made.evidence>>}
                     /\ c.made.comparables \in Facts /\ d.comparables = {<<b, c.made.comparables>>}
      BY <1>h, <2>0, <3>2 DEF Drafted
    <3> QED
      BY <3>1, <3>2, <3>3, <3>4 DEF Drafted
  <2> QED
    BY <1>0, <2>1, <2>2, <2>3, <2>4, <2>5, <2>6, <2>7, <2>8, <2>9, SessionDoes DEF Moves
<1> QED
  BY <1>1 DEF Drafting

\* A single row written from version f is counted as its writer counts it.
LEMMA ContentsOfOwn ==
  ASSUME NEW b, NEW f \in Facts
  PROVE  Contents({<<b, f>>}) = Own(f)
<1>1. ASSUME NEW g \in Facts
      PROVE  Cardinality({i \in {<<b, f>>} : i[2] = g}) = IF g = f THEN 1 ELSE 0
  <2>1. CASE g = f
    <3>1. {i \in {<<b, f>>} : i[2] = g} = {<<b, f>>}
      BY <2>1
    <3> QED
      BY <2>1, <3>1, FS_Singleton
  <2>2. CASE g # f
    <3>1. {i \in {<<b, f>>} : i[2] = g} = {}
      BY <2>2
    <3> QED
      BY <2>2, <3>1, FS_EmptySet
  <2> QED
    BY <2>1, <2>2
<1> QED
  BY <1>1 DEF Contents, Own

LEMMA NextFrozen == ASSUME IInv, Freezing, Drafting, Frozen, [Next]_vars PROVE Frozen'
<1> SUFFICES ASSUME row'.state = "READY", ~clobbered'
             PROVE  /\ row'.ledger.valued # 0 => row'.values[row'.ledger.valued].state = "READY"
                    /\ row'.ledger.valued \notin early' \cup {0} =>
                         row'.values[row'.ledger.valued] = Valued(row'.features, row'.result)
  BY DEF Frozen
<1>0. TypeOK /\ DraftStands /\ row \in Rows
  BY DEF IInv, TypeOK
<1>h. ~clobbered /\ early \subseteq early'
  BY <1>0, HistoriesGrow
<1> DEFINE n == row.ledger.valued
<1>v. n \in Sets \cup {0}
  BY <1>0 DEF Rows, LedgerRows
<1>1. CASE RowsStand
  BY <1>1, <1>h DEF RowsStand, Frozen
<1>2. ASSUME NEW b \in Builders, Captures(b)
      PROVE  /\ row'.ledger.valued # 0 => row'.values[row'.ledger.valued].state = "READY"
             /\ row'.ledger.valued \notin early' \cup {0} =>
                  row'.values[row'.ledger.valued] = Valued(row'.features, row'.result)
  <2> DEFINE s == builder[b].set
             d == builder[b].draft
  <2>1. s \in Sets \cup {0} /\ builder[b].pc = "valued"
    BY <1>0, <1>2 DEF TypeOK, Captures
  <2>2. /\ row'.ledger.valued = s /\ row'.features = d.features /\ row'.result = d.result
        /\ s \in Sets => row'.values[s] = d.values[s]
    BY <1>2 DEF Captures
  <2>3. s # 0 => d.values[s].state = "READY"
    BY <1>0, <2>1 DEF DraftStands
  <2>4. s \notin early \cup {0} => d.values[s] = Valued(d.features, d.result)
    BY <1>h, <2>1 DEF Drafting, Drafted
  <2> QED
    BY <1>h, <2>1, <2>2, <2>3, <2>4
<1>3. ASSUME row.state = "READY", row'.features = row.features, row'.result = row.result,
             row'.ledger.valued = n
      PROVE  /\ row'.ledger.valued # 0 => row'.values[row'.ledger.valued].state = "READY"
             /\ row'.ledger.valued \notin early' \cup {0} =>
                  row'.values[row'.ledger.valued] = Valued(row'.features, row'.result)
  <2>1. n # 0 => row.values[n].state = "READY"
    BY <1>h, <1>3 DEF Frozen
  <2>2. n # 0 => row'.values[n] = row.values[n]
    BY <1>v, <2>1, NextOneValuation, OneValuationKeeps DEF Keeps
  <2>3. n \notin early \cup {0} => row.values[n] = Valued(row.features, row.result)
    BY <1>h, <1>3 DEF Frozen
  <2> QED
    BY <1>h, <1>3, <2>1, <2>2, <2>3
<1>4. ASSUME NEW o \in Analysts, NEW s \in Sets, Values(o, s)
      PROVE  row.state = "READY" /\ row'.features = row.features /\ row'.result = row.result
             /\ row'.ledger.valued = n
  BY <1>4 DEF Values, SameRows
<1>5. CASE Verifies
  BY <1>3, <1>5 DEF Verifies, SameRows
<1>6. ASSUME NEW b \in Builders, Fails(b)
      PROVE  FALSE
  BY <1>6 DEF Fails
<1> QED
  BY <1>0, <1>1, <1>2, <1>3, <1>4, <1>5, <1>6, StepDoes

LEMMA NextReplays == ASSUME IInv, Freezing, Drafting, Frozen, Replays, [Next]_vars PROVE Replays'
<1> SUFFICES ASSUME ~clobbered', ~mixed'
             PROVE  /\ row'.state = "READY" => ReplayPasses(row') /\ row'.ledger.status # "FAILED"
                    /\ verifier' # AbsentRow => ReplayPasses(verifier')
  BY DEF Replays, ReplayPasses, ScoredFieldsMatch, Payload, ResultOf, Contents
<1>0. TypeOK /\ row \in Rows
  BY DEF IInv, TypeOK
<1>h. ~clobbered /\ ~mixed /\ early \subseteq early'
  BY <1>0, HistoriesGrow
<1>1. verifier' # AbsentRow => ReplayPasses(verifier')
  <2>1. \/ verifier' = verifier \/ verifier' = AbsentRow
        \/ verifier' = row /\ row.state = "READY"
    BY <1>0, ReadersDo
  <2> QED
    BY <1>h, <2>1 DEF Replays
<1>2. ASSUME NEW b \in Builders, Captures(b)
      PROVE  ReplayPasses(row') /\ row'.ledger.status # "FAILED"
  <2> DEFINE s == builder[b].set
             d == builder[b].draft
             m == builder[b].made
  <2>1. /\ m.evidence \in Facts /\ d.evidence = {<<b, m.evidence>>}
        /\ m.comparables \in Facts /\ d.comparables = {<<b, m.comparables>>}
        /\ d.result = ResultOf(d, Own(m.evidence), d.result.passed, d.result.release)
    BY <1>h, <1>2 DEF Captures, Drafting, Drafted
  <2>2. Contents(d.evidence) = Own(m.evidence) /\ Contents(d.comparables) = Own(m.comparables)
    BY <2>1, ContentsOfOwn
  <2>3. /\ row'.ledger.valued = s /\ row'.ledger.status = "HASH_CAPTURED"
        /\ row'.ledger.payload = Payload(row', Own(m.evidence), Own(m.comparables), s)
        /\ row'.evidence = d.evidence /\ row'.comparables = d.comparables
        /\ row'.features = d.features /\ row'.result = d.result
    BY <1>2 DEF Captures
  <2>4. \A x, p, q : ResultOf(row', x, p, q) = ResultOf(d, x, p, q)
    BY <2>3 DEF ResultOf
  <2>5. row'.result = ResultOf(row', Contents(row'.evidence), row'.result.passed,
                               row'.result.release)
    BY <2>1, <2>2, <2>3, <2>4
  <2>6. ScoredFieldsMatch(row')
    BY <2>5 DEF ScoredFieldsMatch
  <2> QED
    BY <2>2, <2>3, <2>6 DEF ReplayPasses
<1>3. CASE RowsStand
  BY <1>1, <1>h, <1>3 DEF RowsStand, Replays
<1>4. ASSUME NEW o \in Analysts, NEW s \in Sets, Values(o, s), row'.state = "READY"
      PROVE  ReplayPasses(row') /\ row'.ledger.status # "FAILED"
  <2>1. row.state = "READY" /\ row'.ledger = row.ledger
    BY <1>4 DEF Values, SameRows
  <2>2. ReplayPasses(row) /\ row.ledger.status # "FAILED"
    BY <1>h, <2>1 DEF Replays
  <2>3. row.ledger.valued \in Sets \cup {0}
    BY <1>0 DEF Rows, LedgerRows
  <2>4. row.ledger.valued # 0 => row'.values[row.ledger.valued] = row.values[row.ledger.valued]
    BY <1>h, <2>1, <2>3, NextOneValuation, OneValuationKeeps DEF Frozen, Keeps
  <2>5. ReplayPasses(row')
    BY <1>4, <2>1, <2>2, <2>4, SameReplay DEF Values, SameRows
  <2> QED
    BY <2>1, <2>2, <2>5
<1>5. ASSUME Verifies, row'.state = "READY"
      PROVE  ReplayPasses(row') /\ row'.ledger.status # "FAILED"
  <2>1. row.state = "READY" /\ ReplayPasses(verifier)
    BY <1>h, <1>5 DEF Verifies, SameRows, Replays
  <2>2. row'.ledger.status = "VERIFIED"
    BY <1>5, <2>1 DEF Verifies
  <2>3. ReplayPasses(row)
    BY <1>h, <2>1 DEF Replays
  <2>4. ReplayPasses(row')
    BY <1>5, <2>3, SameReplay DEF Verifies, SameRows
  <2> QED
    BY <2>2, <2>4
<1>6. ASSUME NEW b \in Builders, Fails(b)
      PROVE  row'.state # "READY"
  BY <1>6 DEF Fails
<1> QED
  BY <1>0, <1>1, <1>2, <1>3, <1>4, <1>5, <1>6, StepDoes

LEMMA InitFreeze == Init => Freezing /\ Drafting /\ Frozen /\ Replays
<1> SUFFICES ASSUME Init PROVE Freezing /\ Drafting /\ Frozen /\ Replays
  OBVIOUS
<1>1. /\ row = AbsentRow /\ verifier = AbsentRow
      /\ \A b \in Builders : builder[b] = IdleBuilder
      /\ \A o \in Analysts : analyst[o].view = AbsentRow
  BY DEF Init, IdleAnalyst
<1>2. AbsentRow.state = "ABSENT" /\ AbsentRow.ledger = NoLedger
      /\ \A s \in Sets : AbsentRow.values[s].state = "ABSENT"
  BY AbsentType DEF AbsentRow
<1>3. Unfrozen(AbsentRow)
  BY <1>2 DEF Unfrozen
<1>4. IdleBuilder.pc = "idle" /\ IdleBuilder.view = AbsentRow
  BY DEF IdleBuilder
<1>5. Freezing
  BY <1>1, <1>2, <1>3, <1>4 DEF Freezing, Locked
<1>6. Drafting
  BY <1>1, <1>4 DEF Drafting, Drafted
<1> QED
  BY <1>1, <1>2, <1>5, <1>6 DEF Frozen, Replays

LEMMA NextFreeze == FInv /\ [Next]_vars => FInv'
BY NextInv, NextFreezing, NextDrafting, NextFrozen, NextReplays DEF FInv

\* The four parts hold together: a capture is right because of what was drafted, a draft because
\* of what was read before anything was frozen, and nothing is frozen twice because a finished
\* run is never read as unfinished again.
THEOREM FreezeInvariant == Spec => []FInv
<1>1. Init => FInv
  BY InitInv, InitFreeze DEF FInv
<1> QED
  BY <1>1, NextFreeze, PTL DEF Spec

\* However builders retry and overtake each other, a finished assessment replays to the payload
\* its ledger captured, and the replay batch never marks it failed, unless a failure went over a
\* finished run or a build had not seen the rows of a failed one.
THEOREM FinishedReplay == Spec => []ReadyReplays
<1>1. FInv => ReadyReplays
  BY DEF FInv, Replays, ReadyReplays
<1> QED
  BY <1>1, FreezeInvariant, PTL

\* The valuation bound to the ledger was computed from the features and the result the ledger
\* froze, unless an override valued the set before the run was finished.
THEOREM LedgerBinds == Spec => []LedgerValuedFromItsFeatures
<1>1. FInv => LedgerValuedFromItsFeatures
  <2> SUFFICES ASSUME FInv, row.state = "READY", ~clobbered,
                      row.ledger.valued \notin early \cup {0}
               PROVE  /\ row.values[row.ledger.valued].state = "READY"
                      /\ row.values[row.ledger.valued].features = row.features
                      /\ row.values[row.ledger.valued].result = row.result
    BY DEF LedgerValuedFromItsFeatures
  <2>1. row.values[row.ledger.valued] = Valued(row.features, row.result)
    BY DEF FInv, Frozen
  <2> QED
    BY <2>1
<1> QED
  BY <1>1, FreezeInvariant, PTL

\* Once a ledger has captured a payload, no build, retry, override or replay rewrites it or takes
\* the assessment out of READY, unless a failure is committed over it.
THEOREM CapturesAreFinal == Spec => CaptureIsFinal
<1>1. ASSUME FInv, [Next]_vars, row.ledger # NoLedger, ~clobbered'
      PROVE  row'.state = "READY" /\ row'.ledger.payload = row.ledger.payload
  <2>0. TypeOK /\ Freezing
    BY <1>1 DEF FInv, IInv
  <2>1. ~clobbered
    BY <1>1, <2>0, HistoriesGrow
  <2>2. row.state = "READY"
    BY <1>1, <2>0, <2>1 DEF Freezing, Unfrozen
  <2>3. ASSUME NEW b \in Builders, Captures(b)
        PROVE  FALSE
    BY <1>1, <2>0, <2>1, <2>3 DEF Captures, Freezing, Unfrozen
  <2>4. ASSUME NEW b \in Builders, Fails(b)
        PROVE  FALSE
    BY <1>1, <2>2, <2>4 DEF Fails
  <2>5. row'.ledger.payload = row.ledger.payload
    BY <1>1, <2>0, <2>3, <2>4, StepDoes DEF RowsStand, Values, Verifies
  <2>6. row'.state = "READY"
    BY <1>1, <2>0, <2>2, ReadyPersists
  <2> QED
    BY <2>5, <2>6
<1>2. FInv /\ [Next]_vars
        => [row.ledger # NoLedger /\ ~clobbered'
              => row'.state = "READY" /\ row'.ledger.payload = row.ledger.payload]_vars
  BY <1>1
<1> QED
  BY <1>2, FreezeInvariant, PTL DEF Spec, CaptureIsFinal
===============================================================================
