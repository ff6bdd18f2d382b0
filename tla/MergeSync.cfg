\* Two changes of catalog, a row made meanwhile and one failure, anywhere in
\* the runs; each work has at most one row, so that none is folded twice.
SPECIFICATION SyncSpec
CONSTANTS
  Works = {1, 2, 3}
  Users = {u1}
  PageLimit = 1
  MaxChanges = 2
  MaxMade = 2
  MaxRows = 1
  MaxFailures = 1
INVARIANT TypeOK
 
 
