\* A content preference is changed while the session is refreshed.
SPECIFICATION Spec
CONSTANTS
  Requests = {r1, r2}
  MaxRotations = 3
  MaxTroubles = 1
INVARIANT PreferencesAreHarmless
CHECK_DEADLOCK FALSE
