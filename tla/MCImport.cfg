SPECIFICATION Spec
CHECK_DEADLOCK FALSE
CONSTANTS
  s1 = s1
  s2 = s2
  tenant = tenant
  f = f
  g = g
  here = here
  Servers = {here}
  Sessions = {s1, s2}
  Tenants = {tenant}
  Names = {f, g}
  Globals = {f, g}
  GlobalOf <- OwnGlobals
  TenantOf <- OneTenant
  ServerOf <- OneServer
  MaxVersions = 2
SYMMETRY SessionSymmetry
INVARIANTS
  TypeOK
  FunctionFound
  CallsOwnFunction
  CallsInitialised
