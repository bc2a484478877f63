SPECIFICATION Spec
CONSTANTS
  a = a  b = b  m = m  n = n  job = job   late = late  step1 = step1  step2 = step2
  None = None
  Users <- MCUsers
  FirstRoles <- MCFirstRoles
  Sessions = {1, 2}
  Links = {1, 2}
  Items <- MCItems
  KindOf <- MCKindOf
  OwnerOf <- MCOwnerOf
  Submitter = b
  Creator = m
  Roles = {"recruiting_admin"}
  MaxCommands = 3
INVARIANTS AccessSafety HandoverSafety
PROPERTIES NothingRevives LateWorkHasOwner
CHECK_DEADLOCK FALSE
