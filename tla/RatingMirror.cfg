\* One rating of each of two works, four changes in NextMoe (a merge of both
\* and its undo), pages of two, an edit, one failed call or lost cursor.
SPECIFICATION Spec
CONSTANTS
  Ratings = {"r1", "r2"}
  From = "w1"
  Into = "w2"
  Home <- MCHome
  PageSize = 2
  MaxChanges = 4
  MaxEdits = 1
  MayOvertake = FALSE
  MaxFailures = 1
INVARIANT TypeOK
 
 
CHECK_DEADLOCK FALSE
