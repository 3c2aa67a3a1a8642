CONSTANTS
  u1 = u1
  m1 = m1
  f1 = f1
  c1 = c1
  c2 = c2
  w1 = w1
  w2 = w2
  Uploads = {u1}
  Manifests = {m1, f1}
  Foreign = {f1}
  Cleaners = {c1, c2}
  Clients = {w1}
  Retention = 1
  LastDay = 2
  MaxStops = 1
SPECIFICATION FairSpec
INVARIANTS
  TypeOK
  DeletedUploadsAreGone
PROPERTIES
  ExpiredFilesGo
