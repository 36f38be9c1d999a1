\* The shortest life in which an answer can come too late.
SPECIFICATION Spec
CONSTANTS
  Callers = {c1}
  MaxCalls = 1
  MaxDials = 1
  NetCap = 1
  EventCap = 1
  BackoffCap = 1
PROPERTIES
  LateAnswersForwarded
