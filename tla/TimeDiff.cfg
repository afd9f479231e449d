CONSTANTS
  Node <- MCNode
  Comms <- MCComms
  Offset <- MCOffset
  Slack = 1
  MaxCalls = 2
SPECIFICATION Spec
INVARIANTS ErrorsDoNotAddUp StartsTogether
