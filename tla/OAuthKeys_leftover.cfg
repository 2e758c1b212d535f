SPECIFICATION Spec
CONSTANTS
  AccessTTL = 1
  Grace = 2
  MaxAge = 1
  MaxKeys = 4
  MaxTime = 2
INVARIANT
  LeftOverIsPickedUp
