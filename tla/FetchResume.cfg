\* One puller, either mode, seven cells in chunks of two, with crashes and reruns.
SPECIFICATION Spec
CONSTANTS
  p1 = p1
  p2 = p2
  k1 = k1
  k2 = k2
  Pullers <- OnePuller
  Workers <- TwoWorkers
  Size = 7
  Geometries = {2}
  Modes = {"parallel", "single"}
  MaxAttempts = 3
  ErrorBodies = {"parallel"}
  BodyCells = {1}
  DiskMayFill = FALSE
  Removals <- WholeDirectory
  Undone <- OnceUnlinked
  DeletesRace = FALSE
SYMMETRY WorkerSymmetry
INVARIANTS
  PublishedIsWhole
  SidecarNeverLeads
  OneWriterPerChunk
