SPECIFICATION LineSpec
CONSTANTS
  SB_MAX_SIO_PORT = 2
  DataChoices <- MCData
  StopChoices <- MCStop
  ParityChoices <- MCParity
INVARIANTS
  LineTypeOK
  ShownAsAsked
  PageUntouched
  DataServed
