SPECIFICATION Spec
CONSTANTS
  pod = pod
  rs = rs
  svc = svc
  node = node
  owns = owns
  selects = selects
  None = None
  Keys = {pod, rs, svc}
  Relations = {owns, selects}
  MaxEdges = 3
SYMMETRY Symmetric
INVARIANTS
  Mirrored
  NoDanglingEdge
  WalkReachesDepth
