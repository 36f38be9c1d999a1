\* A favorite and a link, the poller and one dashboard.
SPECIFICATION FairSpec
CONSTANTS
  Nums = {n1, n2}
  Known = {n1}
  Visits = {v1}
  NoData = NoData
  StaleAfter = 0
  HighMark = 1
  LowMark = 1
  BulkMin = 1
  PerMinute = 1
  Concurrency = 1
INVARIANTS
  TypeOK
  TableFollows
PROPERTIES
  LastKnownKept
  BulkSpaced
  FetchesEnd
