SPECIFICATION FairSpec
CONSTANTS
  A = A
  B = B
  p = p
  Root = Root
  None = None
  Leaves = {A, B}
  Paths = {Root, p}
  Builds = {"BAGL", "NBGL"}
  Requests <- AllRequests
  MAX_N_INPUTS_CAN_SIGN = 2
  MAX_INTERNAL_KEY_EXPRESSIONS = 2
  N_CACHED_EXTERNAL_OUTPUTS = 2
  MaxChange = 3
  AmountMod = 1024
  HighFeeFloor = 15
INVARIANTS WarningsApproved FeeIsSane  SignedIsReviewed CheckedBeforeSigned LeafCommitted AllSigned
PROPERTY Responds
