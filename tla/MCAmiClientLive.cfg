\* One caller with one action, unsolicited events, two connections; the delay
\* doubles twice before it stays.
SPECIFICATION Spec
CONSTANTS
  Callers = {c1}
  MaxCalls = 1
  MaxDials = 2
  NetCap = 1
  EventCap = 1
  BackoffCap = 3
PROPERTIES
  ReaderNotHeldUp
  StopTerminates
  AlwaysRetries
  CallsReturn
