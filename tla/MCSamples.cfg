CONSTANTS
  Hub <- MCHub
  Lines <- MCLines
  IntentLabels <- MCIntents
  PoolKeys = {"none", "other"}
  SuffixedKeys = {"none_1"}
  Setups <- MCSetups
  MaxNegative = 1
  MaxPerDataset = 2
  RatioNum = 1
  RatioDen = 2
  InDomainNum = 7
  InDomainDen = 10
  TextLength <- MCLength
  MarkerAt <- MCMarker
  Overhead = 3
  OptionLength = 1
  MaxLength = 12
  BatchSize = 2
  Epochs = 1
  MaxBias = 2
  Shuffle <- MCShuffle
SPECIFICATION Spec
INVARIANTS TypeOK HeldOut LabelFollowsTarget EvaluationIsSound
PROPERTIES InjectionIsExact
