SPECIFICATION Spec
CONSTANTS
  f1 = f1
  f2 = f2
  manager = manager
  developer = developer
  None = None
  Finding = {f1, f2}
  User = {manager, developer}
  Request = {r1, r2}
  RoleOf <- MCRoleOf
  Calls <- MCCalls
INVARIANT AnsweredIsStored
CHECK_DEADLOCK FALSE
