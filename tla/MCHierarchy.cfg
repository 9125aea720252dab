CONSTANTS
  Key <- MCKey
  Text <- MCText
  Setups <- MCSetups
  Lower <- MCLower
  Unfit <- MCUnfit
  SplitNum = 2
  SplitDen = 3
  MaxFine = 3
  BatchSize = 2
  Epochs = 2
  Shuffle <- MCShuffle
SPECIFICATION Spec
INVARIANTS OntologyIsAPartition PairsAreRight ItemsAreRight RightWithinBeam
