\* Two requests to a model of each kind, two steps each.
SPECIFICATION Spec
CONSTANTS
  dense16 = dense16
  slabs = slabs
  nibbles = nibbles
  packed4 = packed4
  Models = {dense16, slabs, nibbles, packed4}
  Card <- Shop
  Turns <- Asked1
  MAX_TURNS = 2
  MAX_STEPS = 2
  CHUNK = 3
  DQ_SCRATCH = 40
  ATT_CSZ = 2
  SAMPLE_TOPK = 2
  G4_MAX_PATCHES = 8
  FORECAST_FRAMES = 4
  AUDIO_MAX_TOKENS = 4
  BLOCK = 4
  TILE = 2
  LANES = 2
  WARPS = 2
  SHARED_ELEMS = 4
  TILE_MIN = 1
  TILE_MAX = 2
INVARIANTS
  LaunchesInBounds
  ReadsAreWritten
  CacheIsTheSequence
  AnswersAreTheNetworks
  SoftTokensAreTheTowers
\* The run ends after the last request.
CHECK_DEADLOCK FALSE
