------------------------------- MODULE MCEvidence -------------------------------
(***************************************************************************)
(* A site in borough b1 and the red lines it may get: one on a permission  *)
(* that is live in the register's first file and lapsed in its second, one *)
(* across the borough's edge, a point.  A case next door that the PLD      *)
(* reports before the borough does, and a case far away.  The second file  *)
(* takes coverage back, and the first may be imported again.               *)
(***************************************************************************)
EXTENDS Evidence, TLC

Nothing == [x \in {} |-> 0]

BoundsDef == "b1" :> 1 .. 40 @@ "b2" :> 41 .. 90

Line(cells) == [cells |-> cells, polygon |-> TRUE, confidence |-> "HIGH"]
GeometryDef ==
  "first" :> Line(10 .. 27) @@ "moved" :> Line(20 .. 37) @@ "edge" :> Line(30 .. 43) @@
  "point" :> [cells |-> {30}, polygon |-> FALSE, confidence |-> "INSUFFICIENT"]

TitleLandDef == "t1" :> 15 .. 22 @@ "t2" :> 50 .. 60

ConfigDef == "resi_1_4_full" :> [units |-> 1 .. 4, area |-> 140 .. 1600, route |-> "FULL",
                                 net |-> 68, perHome |-> 240]

CitedDef == {"b1", "b2"} \X {"resi_1_4_full"}

App == [source |-> "REGISTER", priority |-> 100, borough |-> "b1", kind |-> "RESIDENTIAL",
        route |-> "FULL", live |-> FALSE, granted |-> FALSE, expiry |-> NoDate,
        raises |-> "none", units |-> 3, valid |-> 100, decided |-> 200, decision |-> "APPROVED", form |-> "INFILL",
        area |-> {}, point |-> {}, words |-> "houses"]

RowDef ==
  "live" :> [App EXCEPT !.live = TRUE, !.granted = TRUE, !.area = 33 .. 37, !.point = {29},
                        !.valid = 300, !.decided = 300, !.words = "flats"] @@
  "lapsed" :> [App EXCEPT !.live = TRUE, !.granted = TRUE, !.expiry = 350,
                          !.area = 33 .. 37, !.point = {29},
                          !.valid = 300, !.decided = 310, !.words = "flats"] @@
  "next" :> [App EXCEPT !.point = {30}] @@
  "twin" :> [App EXCEPT !.source = "PLD", !.priority = 50, !.valid = 90, !.decided = 150,
                        !.point = {31}] @@
  "far" :> [App EXCEPT !.area = 60 .. 64, !.decision = "REFUSED", !.borough = "b2"] @@
  "parcel" :> [part |-> 2, active |-> TRUE, from |-> NoDate, to |-> 350, area |-> 8 .. 12] @@
  "zone" :> [kind |-> "policy", family |-> "ALLOCATION", from |-> 120, to |-> NoDate,
             area |-> 25 .. 50, point |-> {}]

Covered(f, s) == [borough |-> "b1", family |-> f, status |-> s]
Content(dataset, coverage, applications) ==
  [dataset |-> dataset, coverage |-> coverage, applications |-> applications,
   parcels |-> Nothing, zones |-> Nothing, packs |-> {}]

FileDef ==
  "pld" :> Content("pld", {}, "twin" :> "twin") @@
  "reg1" :> Content("borough_register", {Covered(BOROUGH_REGISTER, "COMPLETE")},
                    "a1" :> "live" @@ "next" :> "next") @@
  "reg2" :> Content("borough_register", {Covered(BOROUGH_REGISTER, "PARTIAL"),
                                         Covered(PRIOR_APPROVAL, "COMPLETE")},
                    "a1" :> "lapsed" @@ "far" :> "far") @@
  "layers" :> [Content("layer", {Covered(BROWNFIELD, "COMPLETE")}, Nothing) EXCEPT
                 !.parcels = "k" :> "parcel", !.zones = "z" :> "zone", !.packs = {"b1"}]
SupportingDef == <<"layers">>

Symmetry == Permutations(Actors) \cup Permutations(Rebuilders)
===============================================================================
