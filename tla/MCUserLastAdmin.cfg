SPECIFICATION Spec
CONSTANTS
  alice = alice
  bob = bob
  k1 = k1
  r1 = r1
  r2 = r2
  Users = {alice, bob}
  Keys = {k1}
  Requests = {r1, r2}
  Roles = {"org_admin", "guest"}
  Admin = "org_admin"
  Creators = {"org_admin"}
  Inviters = {"org_admin"}
  Scopes = {"scan:read", "scan:write"}
  Cap <- MCCap
  Admissions = {"any"}
  MaxClock = 2
  None = None
INVARIANT SomeAdminRemains
SYMMETRY Symmetry
