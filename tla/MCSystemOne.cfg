CONSTANTS
  Unit = 100
  Eps = 1
  NoEnergy <- MCNoEnergy
  VarianceLimit = 35
  BimodalCeiling = 20
  EarlyExitBelow = 25
  DefaultHigh = 70
  DefaultLow = 35
  Label <- MCLabel
  EmptyLabel = ""
  NoLabel = NoLabel
  NoGating = NoGating
  NoSummary = NoSummary
  IndexLabel <- MCIndexLabel
  CleanChoice <- MCCleanChoice
  CleanScore <- MCCleanScore
  Request <- MCRequest
  ServerGating <- Off
  FineKeys = {"x", "y"}
  FirstFineKey = "x"
  AutoAbove = 1
  RouteAbove = 2
  ScreenAbove = 2
  CatchAll = {"b"}
  TopM = 2
  ChunkSize = 2
  MaxQuestions = 3
  MaxCandidates = 255
  MaxLevels = 3
  BimodalLevels = 3
  Readings <- MCReadings
SPECIFICATION Spec
INVARIANTS ReplyIsRight AnswersInClientTerms
PROPERTY NeverPromoted
