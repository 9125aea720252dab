CONSTANTS
  Half = 4
  MaxNumber = 7
  NoNumber = NoNumber
  NoText = NoText
  NoAnswer = NoAnswer
  NoNode = NoNode
  NodeId = {AskedNode, Yes, No}
  Condition <- Rules
  Answers <- MCAnswers
  AskedNode = AskedNode
  Yes = Yes
  No = No
SPECIFICATION RulesSpec
INVARIANTS RulesDecideAlike
