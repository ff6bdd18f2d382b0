\* Two readers, two votes at once, of one reader or of both; one edit, one lost connection.
SPECIFICATION Spec
SYMMETRY Symmetry
CONSTANTS
  Users = {u1, u2}
  Options = {o1, o2}
  NoOption = none
  Requests = {r1, r2}
  Tabs = 2
  MaxEdits = 1
  MaxFailures = 1
INVARIANT TypeOK
INVARIANT CountsMatchVotes
PROPERTY AloneIsExact
CHECK_DEADLOCK FALSE
