\* An update and a deletion of one node, with nothing failing.
SPECIFICATION Spec
CONSTANTS
  Handlers = {h1, h2}
  Admins = {}
  Confs = {c1}
  MayFail = FALSE
  MaxNode = 1
  MaxStored = 1
  MaxOps = 2
  MaxClients = 3
  MaxBoots = 1
CHECK_DEADLOCK FALSE
INVARIANTS
  OneClientPerEnabledNode
