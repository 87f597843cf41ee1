SPECIFICATION Spec
SYMMETRY Symmetry
CONSTANTS
  NumSlots = 2
  NumCtx = 2
  NumLayers = 2
  SessionIds = {s1, s2, s3}
  TokenIds = {a, b}
  NoOwner = NoOwner
  MaxDialogue = 3
  MaxRequests = 3
INVARIANTS
  VectorsMatchTokens
  RequestReadsItsDialogue
  OneSlotPerSession
  PosCountsTokens
