CONSTANTS
  a = a
  b = b
  old = old
  new = new
  Users = {a, b}
  Sids = {s1, s2}
  Passwords = {old, new}
  MaxFailures = 1
  LockTime = 1
  Ttl = 2
  MaxTime = 2
  Imports <- MCImports
  BootUsers <- MCBootUsers
SYMMETRY MCSymmetry
SPECIFICATION Spec
INVARIANT ImportLeavesAdmin
