SPECIFICATION Spec
CONSTANTS
  Schema = {acme, globex}
  Public = public
  Session = {s1, s2}
  Conn = {c1, c2}
  Keep = 1
  NoSchema = NoSchema
  NoConn = NoConn
INVARIANT LockedToTenant
