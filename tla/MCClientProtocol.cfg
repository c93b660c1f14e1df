SPECIFICATION Spec
CONSTANTS
  Hash <- MCHash
  Roots <- Known
  Combine <- MCCombine
  Direction <- MCDirection
  Path <- MCPath
  Sizes <- MCSizes
  Indices <- MCIndices
  MAX_PROOF <- MaxProof
  Byte <- MCByte
  Stale <- Stray
  Sha <- MCSha
  Digest <- MCHash
  U32 = 8
  LONG = 5
  Less <- compare_less
  Commitment <- read_commitment
  NoMap = NoMap
  ElementHash <- MCElementHash
  Depth <- MCDepth
  Keys <- MCKeys
  Commitments <- MCCommitments
  MapTrees <- MCMapTrees
  Piece <- MCPiece
  Lengths <- MCLengths
  Answers <- MCAnswers
  MAX_LOOKUPS = 2
  RoomOf <- MCRoom
CHECK_DEADLOCK FALSE
INVARIANTS
  AcceptedIsLeaf
  
  LookupIsBound
  
