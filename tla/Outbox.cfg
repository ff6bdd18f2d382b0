\* One row that comes, changes and goes while both loops run.  As an activity v2
\* cannot be sent, as a presentation community rejects it.
SPECIFICATION Spec
CONSTANTS
  Keys = {k1}
  Values = {v1, v2}
  Unsendable = {v2}
  Rejected = {v2}
  Gone = Gone
  Nothing = Nothing
  Outboxes = {"activity", "presentation"}
  MaxChanges = 2
  MaxOverlaps = 1
  MaxFailures = 1
INVARIANT TypeOK
INVARIANT SettledIsMirrored
INVARIANT ShownIsWithdrawable
CHECK_DEADLOCK FALSE
PROPERTY Converges
