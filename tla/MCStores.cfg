\* The bounded numbers of rows, updates, starts and reports come to an end.
CHECK_DEADLOCK FALSE
SPECIFICATION MCSpec
CONSTANTS
  Receivers = {"p", "q"}
  Apps = {"a"}
  Requests = {1}
  MaxRows = 2
  MaxMutations = 2
  Files <- MCFiles
  WithoutTTL <- MCWithoutTTL
  Migrations <- MCMigrations
  Configs <- MCConfigs
  MaxStarts = 3
  Callers = {1, 2}
  Labels = {1, 2, 3}
  CacheSize = 2
  MaxMetricUpdates = 5
  Buckets = 2
  Bounds <- MCBounds
  Histograms = {1, 2}
  MaxValues = 2
  ExpireTime = 1
  MaxItems = 3
  MaxTime = 4
  MaxSignals = 4
  Ids = {"i", "j"}
  Abnormal = {"j"}
  Agents = {"a"}
  Home <- MCHome
  MaxReports = 3
  MaxIndex = 2
  Tuples = {1, 2}
  PidUrl <- MCPidUrl
  MaxAdds = 3
  MaxCollections = 1
INVARIANTS
  AppsTracked
  TablesReady
  RecentKept
  CountedInRange
  SpansKept
  SignalsGiven
  IdsOffered
  SwitchesPaired
  CountsReported
