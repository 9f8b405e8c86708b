\* Four kinds of model, a neighbour that comes and goes.
SPECIFICATION Spec
CONSTANTS
  dense = dense
  packed = packed
  sighted = sighted
  halves = halves
  mute = mute
  Nobody = Nobody
  Models = {dense, packed, sighted, halves, mute}
  Card <- Shop
  Vram = 180000
  Rivals <- Neighbours
  Headroom = 12000
  Q8Floor = 48
  CHUNK = 4
  DQ_SCRATCH = 2048
  ATT_CSZ = 4
  SAMPLE_TOPK = 4
  G4_MAX_PATCHES = 16
  FORECAST_FRAMES = 12
  AUDIO_MAX_TOKENS = 6
INVARIANTS
  AdmittedLoadsFit
  HeldIsTheModel
  FitToRun
  GraphPointsToScratch
PROPERTIES
  TextOutlivesTowers
