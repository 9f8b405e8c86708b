\* Both kinds of repository, one user beside the startup pull, one crash.
SPECIFICATION Spec
CONSTANTS
  NoTag = NoTag
  AnyGguf = AnyGguf
  Boot = Boot
  u1 = u1
  Hubs <- AllKinds
  Tags <- QuantTags
  Users = {u1}
  Required <- OneModel
  Commands <- PullCommands
  MaxAttempts = 2
  MaxCrashes = 1
INVARIANTS
  PullLeavesAllWanted
  PulledIsLoaded
  ReadyFormsAgree
PROPERTY
  StartupSettles
