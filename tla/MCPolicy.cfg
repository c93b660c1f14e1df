SPECIFICATION Spec
CONSTANTS
  FIRST_HARDENED = 4
  MAX_TAPTREE_POLICY_DEPTH = 3
  MAX_POLICY_DEPTH = 6
  MAX_CACHED_KEY_EXPRESSIONS = 2
  Requests <- MCRequests
  Keys <- MCKeys
INVARIANTS KeyByIndex KeysAreDerived   
  SizeIsEmitted
CHECK_DEADLOCK FALSE
