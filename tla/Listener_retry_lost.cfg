SPECIFICATION Spec
CONSTANTS
  pub = pub
  alt = alt
  sockPub = sockPub
  sockAlt = sockAlt
  l1 = l1
  l2 = l2
  l3 = l3
  None = None
  Tcp <- MCTcp
  Internal <- MCInternal
  Listeners <- MCListeners
  Configs <- MCConfigs
  MaxFaults = 0
  MaxApplies = 3
CHECK_DEADLOCK FALSE
INVARIANT RetriedWhileDesired
