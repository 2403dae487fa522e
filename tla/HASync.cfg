SPECIFICATION FairSpec
CONSTANTS
  a = a
  b = b
  None = None
  Nodes <- MCNodes
  Peer <- MCPeer
  Editors <- MCEditors
  Faults <- AllFaults
  MaxRevs = 1
  MaxFaults = 1
CHECK_DEADLOCK FALSE
INVARIANTS HonestStatus OnePrimary
PROPERTIES PendingIsSent RolesSettle
