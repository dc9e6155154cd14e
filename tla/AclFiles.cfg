\* A directory and a file in it, made, changed and removed by two users and root.
CONSTANTS
  u1 = u1
  u2 = u2
  Users = {u1, u2}
  SidSystem = root
  SidAdmins = admins
  SidUsers = users
  SidAuthenticated = authed
  NoSid = nosid
  Top = top
  d = d
  f = f
  Objects = {d, f}
  Dirs = {d}
  Up <- McUp
  Given <- McGiven
  Modes <- McModes
  Grants <- McGrants
  Serial = TRUE
  MaxCalls = 2
  None = none
SPECIFICATION Spec
INVARIANTS TypeOK KeepsOut
PROPERTIES ImplementsInodes
