\* Stalled writers, short last chunks and another process, all at once.
SPECIFICATION Spec
CONSTANTS
  w1 = w1
  w2 = w2
  Writers <- TwoWriters
  Slots = 2
  Sizes = {1, 2}
  MaxSlots = 4
  ShortTails = TRUE
  MayLap = TRUE
  MayReset = TRUE
\* the writers have reached the bound of the model
CHECK_DEADLOCK FALSE
SYMMETRY WriterSymmetry
INVARIANT NoTornText
