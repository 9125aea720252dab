CONSTANTS
  Text <- MCText
  StateLength <- MCLength
  Similar <- MCSimilar
  Key <- MCKey
  Lower <- MCLower
  OptionCount <- MCOptionCount
  Answers <- MCAnswers
  SpecTypes = {"choice", "noul"}
  MinState = 2
  MaxState = 4
  RequireHardNegative = TRUE
  MaxConcurrency = 2
  Targets = {1, 3}
  MaxAttempts = 2
  MaxRuns = 2
  MaxFaults = 1
SPECIFICATION Spec
INVARIANTS TypeOK Accounting TypeFilesAgree KnowsTheFile
PROPERTIES ImplementsStore EventuallyReturns
