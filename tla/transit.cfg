SPECIFICATION TransitSpec
CONSTANTS
  Client <- MCClient
  Server <- MCServer
  Remote <- MCRemote
  Ports <- MCPorts
  Messages <- MCMessages
  Junk = {0, 255}
  None = None
INVARIANTS RequestTravels AnswerReturns
CHECK_DEADLOCK FALSE
