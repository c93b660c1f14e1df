SPECIFICATION FairSpec
CONSTANTS
  Builds = {"BAGL", "NBGL"}
  TickMod = 8
  PROCESSING_TIMEOUT_TICKS = 2
  INTERRUPTION_TIMEOUT_TICKS = 4
INVARIANT FlowIsShown
PROPERTIES AnswerIsFresh CommandAnswered MenuAfterCommand InterruptionEnds
