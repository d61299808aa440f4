\* Two plants that may change their category: deletes, crashes, lost acknowledgements.
SPECIFICATION StoreSpec
CONSTANTS
  p1 = p1
  p2 = p2
  grid = grid
  storage = storage
  power = power
  setting = setting
  charge = charge
  PlantNos = {p1, p2}
  Fields = {power, setting, charge}
  Categories = {grid, storage}
  Regular <- MCRegular
  Batches <- GridBatches
  MaxSent = 3
  MaxDrops = 1
  MaxFailures = 0
  MaxCrashes = 1
INVARIANTS TypeOK OneDeadband LastRecordShown
PROPERTIES LogSpecHolds HeldUntilShown CompleteRecordsKept
SYMMETRY Symmetry
CHECK_DEADLOCK FALSE
