\* Three requests to a model of either family, in every mode, with failures and reloads.
SPECIFICATION Spec
CONSTANTS
  Tokens = {1, 2}
  Families = {"std", "gemma4"}
  Modes = {"pipeline", "argmax", "sample", "logits"}
  StopsIn = {"pipeline"}
  MayEmbed = FALSE
  MaxSeq = 4
  Reserve = 1
  Chunk = 2
  Window = 2
  MaxTokens = 2
  Prompts <- MixedPrompts
  MaxRequests = 3
INVARIANTS
  ContextIsHistory
  HeadIsNewestElsewhere
  WindowIsHosts
  CapacityNeverRefuses
