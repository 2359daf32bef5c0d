CONSTANTS
  r1 = r1
  r2 = r2
  Readers = {r1, r2}
  Scenarios <- MCScenarios
  Words <- MCWords
  Nodes <- MCNodes
  height <- MCHeight
  Printed <- MCPrinted
  Closing <- MCClosing
  SelfClosing <- MCSelfClosing
  Malformed <- MCMalformed
SPECIFICATION MessagesSpec
INVARIANTS RoundTripAlone NothingLost
PROPERTIES ReadersEnd
CHECK_DEADLOCK FALSE
