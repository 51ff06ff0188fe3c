SPECIFICATION MCSpec
CONSTANTS
  h1 = h1
  t1 = t1
  u1 = u1
  vm = vm
  n1 = n1
  s1 = s1
  Contracts <- MCContracts
  Harness = h1
  Vm = vm
  Users <- MCUsers
  Created = n1
  Sender = s1
  Pcs <- MCPcs
  BlockFields <- MCBlockFields
  BlockValues <- MCBlockValues
  FfiEnabled = TRUE
  Order = 2
  MaxFrames = 3
  MaxOps = 6
  MaxTxs = 2
  c1 = c1
  c2 = c2
  c3 = c3
  w1 = w1
  w2 = w2
  Workers <- MCWorkers
  Runtime <- MCRuntime
  Initcode <- MCInitcode
  Runs <- MCRuns
  MaxHits = 2
  WordSize = 2
  DepthTracked = 2
INVARIANTS
  PranksEnd
  LayersAgree
  ClaimedOnce
  CoverageKept
PROPERTY PointsAtTheirInstruction
CHECK_DEADLOCK FALSE
