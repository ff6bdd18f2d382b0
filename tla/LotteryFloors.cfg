\* Two readers and the author; an edit may be saved while another is planned.
SPECIFICATION FloorsSpec
CONSTANTS
  Readers = {r1, r2}
  Author = author
  None = None
  Editors = {e1, e2}
  Rules <- MCRules
  SlotCounts = {1, 2}
  MaxFloor = 2
  MaxEdits = 2
SYMMETRY Symmetry
INVARIANT WinnersByCounting
INVARIANT CountingVerifies
CHECK_DEADLOCK FALSE
