\* Two callers, one action each, across two connections.
SPECIFICATION Spec
CONSTANTS
  Callers = {c1, c2}
  MaxCalls = 2
  MaxDials = 2
  NetCap = 0
  EventCap = 1
  BackoffCap = 1
SYMMETRY CallerSymmetry
INVARIANTS
  TypeOK
  PendingExact
  AnswerReachesWaiter
  ConnectedIsAuthed
  MissedByStop
PROPERTIES
  KeepsPromise
