SPECIFICATION Spec
CHECK_DEADLOCK FALSE
CONSTANTS
  ValidNames <- MCNames
  StringKeys = {"s"}
  NumChoices = 1
  Scripts <- MCScripts
  Settings <- MCSettings
  MaxBatch = 20
INVARIANT ReplyAddsUp
INVARIANT CallsAddUp
INVARIANT ArgumentsParse
INVARIANT FinishReasonsAgree
