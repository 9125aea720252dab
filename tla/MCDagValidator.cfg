CONSTANTS
  NodeId <- Ids
  NoNode = NoNode
  Condition <- MCCondition
  Dags <- MCDags
SPECIFICATION ValidatorSpec
INVARIANTS VerdictIsRight
PROPERTIES ValidationReturns
