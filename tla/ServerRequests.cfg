\* Two connections, two models of which one generates, every kind of request.
SPECIFICATION FairSpec
CONSTANTS
  t1 = t1
  t2 = t2
  m1 = m1
  m2 = m2
  NoModel = NoModel
  NoOne = NoOne
  Threads <- TwoThreads
  Models <- TwoModels
  Generators <- OnlyM1
  Requests <- MixedRequests
  DefaultKeep = "seconds"
  Cap = 1
  MaxRequests = 3
INVARIANTS
  ModelPinned
  ForwardOnSoundContext
  GpuWorkUnderPermit
  NoOneLeftHanging
PROPERTIES
  EveryRequestEnds
  WindowEndsInUnload
