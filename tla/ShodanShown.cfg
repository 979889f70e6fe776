SPECIFICATION Spec
CONSTANTS
  p1 = p1
  p2 = p2
  w1 = w1
  w2 = w2
  nokey = nokey
  key = key
  Profile = {p1, p2}
  Default = p1
  Web = {w1}
  Setting = {nokey, key}
  NoKey = nokey
  None = None
  MaxRequests = 3
INVARIANTS RunningIsFetching
\* A file that cannot be read stops the manager for good.
CHECK_DEADLOCK FALSE
