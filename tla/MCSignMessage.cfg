SPECIFICATION FairSpec
CONSTANTS
  Messages <- MCMessages
  MAX_DISPLAYS = 3
  MaxPages = 2
INVARIANTS  OnlyTextIsShown
PROPERTY ReviewEnds
