CONSTANTS
  b1 = b1
  b2 = b2
  m1 = m1
  Runs = {b1, b2}
  KindOf <- MCTwoBookRag
  Profiles = {p1}
  Targets = {t1}
  Parts = {1}
  Upload = upload
  UploadKinds = {"bookrag", "multi_format"}
SPECIFICATION Spec
INVARIANTS
  CleanupSparesLoadedRuns
