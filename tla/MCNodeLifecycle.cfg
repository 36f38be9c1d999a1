\* Two handlers and a command, three requests, failures, and a restart.
SPECIFICATION Spec
CONSTANTS
  Handlers = {h1, h2}
  Admins = {a1}
  Confs = {c1, c2}
  MayFail = TRUE
  MaxNode = 2
  MaxStored = 1
  MaxOps = 3
  MaxClients = 3
  MaxBoots = 2
SYMMETRY HandlerSymmetry
CHECK_DEADLOCK FALSE
INVARIANTS
  TypeOK
  OnlyMappedRun
  SettledAgrees
  ShutdownIsFinal
PROPERTIES
  DeletedStaysDeleted
