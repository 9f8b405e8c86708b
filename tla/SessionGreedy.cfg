\* The first greedy token after a reused prefix.
SPECIFICATION Spec
CONSTANTS
  Tokens = {1, 2}
  Families = {"std"}
  Modes = {"pipeline", "argmax", "sample", "logits"}
  StopsIn = {"pipeline"}
  MayEmbed = FALSE
  MaxSeq = 5
  Reserve = 1
  Chunk = 2
  Window = 2
  MaxTokens = 2
  Prompts <- ShortPrompts
  MaxRequests = 2
INVARIANT HeadIsNewest
