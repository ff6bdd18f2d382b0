\* Two requests at once, again and again; two rotations, and one of
\* a failed call, a lost answer or a restart, and a preference written back.
SPECIFICATION Spec
CONSTANTS
  Requests = {r1, r2}
  MaxRotations = 3
  MaxTroubles = 1
INVARIANT TypeOK
 
PROPERTY TokenNeverGoesBack
PROPERTY DueIsRefreshed
CHECK_DEADLOCK FALSE
