\* Two processes, two notices in two versions, pages of one or two, two
\* failed calls, lost cursors or restarts.
SPECIFICATION InboxSpec
CONSTANTS
  Notes = {n1, n2}
  Folding = {n1}
  Walls = {n2}
  Pollers = {p1, p2}
  PageSize = 2
  MaxSeq = 2
  MaxFaults = 2
INVARIANT InboxTypeOK
INVARIANT NothingIsSkipped
PROPERTY ReadStaysRead
 
CHECK_DEADLOCK FALSE
