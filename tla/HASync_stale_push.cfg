SPECIFICATION Spec
CONSTANTS
  a = a
  b = b
  None = None
  Nodes <- MCNodes
  Peer <- MCPeer
  Editors <- MCEditors
  Faults <- ManualOnly
  MaxRevs = 2
  MaxFaults = 0
CHECK_DEADLOCK FALSE
INVARIANT PeerConverges
