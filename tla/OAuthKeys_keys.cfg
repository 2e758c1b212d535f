SPECIFICATION Spec
CONSTANTS
  AccessTTL = 2
  Grace = 3
  MaxAge = 2
  MaxKeys = 3
  MaxTime = 7
INVARIANTS
  ActiveKeyRemains
  SigningMovesOn
  KeyOutlivesToken
