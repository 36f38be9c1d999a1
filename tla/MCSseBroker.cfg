\* Two publishers, two messages, two subscriptions, one-slot channels.
SPECIFICATION Spec
CONSTANTS
  Topics = {t1, t2}
  Subs = {s1, s2}
  Publishers = {p1, p2}
  BufCap = 1
  MaxPublish = 2
CHECK_DEADLOCK FALSE
INVARIANTS
  TypeOK
  RegistrationExact
  StreamInOrder
PROPERTIES
  KeepsFanout
  PublishReturns
