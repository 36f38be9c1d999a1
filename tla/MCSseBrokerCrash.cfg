\* One publisher and one browser that leaves.
SPECIFICATION Spec
CONSTANTS
  Topics = {t1}
  Subs = {s1}
  Publishers = {p1}
  BufCap = 1
  MaxPublish = 1
CHECK_DEADLOCK FALSE
INVARIANTS
  SendsReachOpenChannels
