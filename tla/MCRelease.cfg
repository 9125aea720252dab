CONSTANTS
  Unit = 100
  Eps = 1
  NoEnergy <- MCNoEnergy
  VarianceLimit = 35
  BimodalCeiling = 20
  EarlyExitBelow = 25
  DefaultHigh = 70
  DefaultLow = 35
  MaxValSamples = 8
  MinSamples = 2
  GateNum = 115
  GateDen = 100
  Parts = 27720
  Sources = {"sft", "rlcd"}
  Samples <- MCSamples
  Nets <- MCNets
  Scenarios <- MCScenarios
  MaxJobs = 3
  MaxTrained = 2
SPECIFICATION Spec
INVARIANTS TypeOK CalibrationServed OneJobsBundle HeadStaysFp32 FixturesMatchServer
