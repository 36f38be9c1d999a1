\* One remote node that comes, keys and goes; one lost session, one digit.
SPECIFICATION FairSpec
CONSTANTS
  Remotes = {r1}
  NoData = NoData
  Digit = Digit
  EventCap = 1
  ChanCap = 1
  MaxInputs = 2
  JobBound = 1
CHECK_DEADLOCK FALSE
INVARIANTS
  TypeOK
  ShownAgrees
  ConnectedAtKept
PROPERTIES
  CacheConverges
