SPECIFICATION FairSpec
CONSTANTS
  NumSlots = 2
  NumCtx = 3
  NumLayers = 2
  SessionIds <- Sids
  TokenIds = {"a", "b"}
  NoOwner = NoOwner
  LayerKinds <- Kinds
  k_prefill_batch = 2
  max_tokens = 3
  ProbeEvery = 2
  Prompts <- Dialogues
  MaxRequests = 3
INVARIANTS
  AttentionSeesDialogue
  RecurrentAgrees
  StartsCold
  SlotsComeBack
  StopsWhenClientLeaves
PROPERTY GenerationEnds
