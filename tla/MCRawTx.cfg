SPECIFICATION FairSpec
CONSTANTS
  Base = 8
  UintMod = 4096
  Chunk = 9
  Width <- Widths
  MAX_PREVOUT_SCRIPTPUBKEY_LEN = 11
  Junk = Junk
  Streams <- SomeStreams
  Indices = {0, 1}
  MaxPiece = 12
INVARIANTS StoreSuffices AcceptedIsPrevout 
PROPERTIES RefinesWhole Ends
