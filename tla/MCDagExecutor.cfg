CONSTANTS
  Half = 2
  NodeId <- Ids
  NoNode = NoNode
  NoText = NoText
  NoNumber = NoNumber
  NoAnswer = NoAnswer
  Condition <- MCCondition
  Reply <- MCReply
  Dags <- MCDags
  MaxSteps = 4
SPECIFICATION Spec
INVARIANTS RunIsAccountedFor
PROPERTIES EventuallyReturns ImplementsWalk
