\* Deletes, failed statements and crashes: what becomes of every message.
SPECIFICATION FairStoreSpec
CONSTANTS
  p1 = p1
  p2 = p2
  grid = grid
  storage = storage
  power = power
  setting = setting
  charge = charge
  PlantNos = {p1}
  Fields = {power, setting, charge}
  Categories = {grid, storage}
  Regular <- MCRegular
  Batches <- GridBatches
  MaxSent = 2
  MaxDrops = 1
  MaxFailures = 1
  MaxCrashes = 1
PROPERTIES QueueDrains QueuedIsShown
CHECK_DEADLOCK FALSE
