\* No fault at all, two requests hold at once after a third was refused.
SPECIFICATION Spec
CONSTANTS
  r1 = r1
  r2 = r2
  r3 = r3
  NoRequest = NoRequest
  Requests <- ThreeRequests
  Faults <- NoFaults
INVARIANT MutualExclusion
CHECK_DEADLOCK FALSE
