CONSTANTS
  r1 = r1
  r2 = r2
  Readers = {r1, r2}
  Scenarios <- MCTogether
  Words <- MCWords
  Nodes <- MCNodes
  height <- MCHeight
  Printed <- MCPrinted
  Closing <- MCClosing
  SelfClosing <- MCSelfClosing
  Malformed <- MCMalformed
SPECIFICATION MessagesSpec
INVARIANTS RoundTrip
CHECK_DEADLOCK FALSE
