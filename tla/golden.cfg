CONSTANTS
  Alerts <- MCAlerts
  Stratum <- MCStratum
  Categories = {"scanning", "brute_force"}
  Group <- MCGroup
  Sizes = {1, 3, 4}
  MinFloor = 1
  FloorShare = 8
  CapShare = 4
  Labelers = {l1, l2}
  MaxRows = 2
  GoldenFaults = {"kill"}
SYMMETRY LabelerSymmetry
SPECIFICATION Spec
INVARIANTS
  TypeOK
  SampleIsFair
  GoldenLoads
PROPERTIES
  LabelsStand
