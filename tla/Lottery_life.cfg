\* Two readers through the whole life of a lottery: edits, a failure, both drawers,
\* under the fairness of the sweep.
SPECIFICATION FairSpec
CONSTANTS
  u1 = u1
  u2 = u2
  u3 = u3
  Nobody = Nobody
  Users = {u1, u2}
  Rank <- MCRank
  Bannable = {u1}
  Drawers = {"manual", "sweep"}
  Modes = {"signup", "floor"}
  DrawModes = {"deadline", "threshold"}
  Threshold = 2
  Plans = {"single", "codes", "mixed"}
  MaxSlots = 2
  Slots <- MCSlots
  Delivery <- MCDelivery
  Budget <- MCBudget
  Paid <- MCPaid
  Overlap = FALSE
  MaxEdits = 1
  MaxFailures = 1
INVARIANT TypeOK
 
INVARIANT CodeGoesOneWay
 
 
 
 
CHECK_DEADLOCK FALSE
