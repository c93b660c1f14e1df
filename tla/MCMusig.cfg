CONSTANTS
  Ids = {a, b, c}
  NoId = none
  MAX_N_MUSIG_SESSIONS = 2
  NPairs = 2
  MaxRoots = 3
SPECIFICATION Spec
INVARIANTS  StoredIsUnused
 
