CONSTANTS
  Boroughs = {"b1", "b2"}
  Bounds <- BoundsDef
  Files = {"pld", "reg1", "reg2", "layers"}
  File <- FileDef
  Row <- RowDef
  Supporting <- SupportingDef
  Geometries = {"first", "moved", "edge", "point"}
  Geometry <- GeometryDef
  FirstGeometry = "first"
  NoBorough = NoBorough
  Titles = {"t1", "t2"}
  TitleLand <- TitleLandDef
  Actors = {p1, p2}
  Today = 400
  Rebuilders = {w1, w2}
  Templates = {"resi_1_4_full"}
  Config <- ConfigDef
  Cited <- CitedDef
  Stale = {}
  Dates = {150, 250}
  MaxImports = 3
  MaxPasses = 3
  MaxRebuilds = 2
  MaxReviews = 1
  MaxSteps = 4
SPECIFICATION Spec
INVARIANTS
  TypeOK
  PassIsCovered
  PassMissesOnlyNews
  ActiveWasScreened
  ConfirmedOnHistory
  ConfirmedInOneBorough
  LinksOfOneGeometry
  
  CountedOnce
  TrainingIsBlind
  NoHindsight
  ComparablesAreOthers
SYMMETRY Symmetry
CHECK_DEADLOCK FALSE
