\* Two remote nodes, one of them linked before the poll that would show it.
SPECIFICATION Spec
CONSTANTS
  Remotes = {r1, r2}
  NoData = NoData
  Digit = Digit
  EventCap = 1
  ChanCap = 1
  MaxInputs = 2
  JobBound = 2
CHECK_DEADLOCK FALSE
INVARIANTS
  ExclusiveAlone
