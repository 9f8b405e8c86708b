\* Two writers that may die and are never lapped mid-record, one reader, resets.
SPECIFICATION Spec
CONSTANTS
  w1 = w1
  w2 = w2
  Writers <- TwoWriters
  Slots = 3
  Sizes = {1, 2}
  MaxSlots = 6
  ShortTails = FALSE
  MayLap = FALSE
  MayReset = TRUE
\* the writers have reached the bound of the model
CHECK_DEADLOCK FALSE
SYMMETRY WriterSymmetry
INVARIANTS
  NeverMisread
  QuietScanIsComplete
