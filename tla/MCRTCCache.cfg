SPECIFICATION MCSpec
CONSTANTS
  p1 = p1
  p2 = p2
  t1 = t1
  t2 = t2
  t3 = t3
  k1 = k1
  k2 = k2
  v1 = v1
  v2 = v2
  None = None
  Failed = Failed
  Procs <- MCProcs
  Threads <- MCThreads
  ProcOf <- MCProcOf
  VersionOf <- MCVersionOf
  Uses <- MCUses
  Buffers <- MCBuffers
  Kernels <- MCKernels
  SysRows <- MCSysRows
  MaxRequests <- MCMaxRequests
  MaxEvents = 1
INVARIANTS
  RightCode
  PendingIsWaitedFor
PROPERTY
  EveryoneAnswered
