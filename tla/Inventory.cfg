SPECIFICATION FairSpec
CONSTANTS
  p1 = p1
  p2 = p2
  s1 = s1
  Pod = Pod
  Service = Service
  Objects = {p1, p2, s1}
  Kinds = {Pod, Service}
  KindOf <- MCKind
  NameOf <- MCName
  Permissions <- MCPermissions
  ChanCap = 1
  MaxGrants = 1
  MaxVersion = 2
  LastVersion <- MCLast
  NoChange = NoChange
INVARIANTS
  QuietIsCurrent
  UnfollowedIsTold
PROPERTIES
  OnlyForward
  EventuallyCurrent
CHECK_DEADLOCK FALSE
