\* Single files and sets of two, lying headers, files missing or one byte short.
SPECIFICATION Spec
CONSTANTS
  Repos <- AllRepos
  Layers <- TwoLayers
  Top = Top
  Window = 2
  Cap = 8
INVARIANTS
  OpenIsSound
  PreflightIsExact
  NamesMeet
CHECK_DEADLOCK FALSE
