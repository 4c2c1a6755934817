SPECIFICATION Spec
CONSTANTS
  d1 = d1  d2 = d2
  Requests = {q1}
  Docs = {d1, d2}
  Revisions = {1, 2, 3, 4}
  Chunks = {1, 2, 3, 4, 5}
  Configs <- MCConfigs
  RevisionDoc <- MCRevisionDoc
  RevisionIdentity <- MCRevisionIdentity
  ChunkRevision <- MCChunkRevision
  Size <- MCSize
  Distance <- MCDistance
  Nearness <- MCNearness
  Matches <- MCMatches
  Usage <- MCUsage
  Budget = 3
  MaxCites = 2
INVARIANTS ReplyIsTraced CitationsGrounded ContextIsRanked OneRevisionPerDocument
PROPERTIES FusionKeepsOrder
CHECK_DEADLOCK FALSE
