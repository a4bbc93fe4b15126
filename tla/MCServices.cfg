SPECIFICATION MCSpec
CONSTANTS
  Uris <- MCUris
  Handlers <- MCHandlers
  Configs <- MCConfigs
  Defaults <- MCDefaults
  Agents = {"a"}
  MaxTotal = 3
  Width = 16
  Period = 5
  Contents = {"url"}
  Services = {"svc", ""}
  LastType = 2
  MaxValue = 2
  Results <- MCResults
  Requests = {1, 2, 3}
  Trees <- MCTrees
  Spans <- MCSpans
INVARIANTS
  ConfigurationHonoured
  CountedOnce
  BlamedAgainstCalmest
  TreesPlaced
PROPERTIES
  KeptForTheDay
  WholeUnlessWriting
  CallsDescribed
