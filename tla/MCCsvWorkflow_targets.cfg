CONSTANTS
  b1 = b1
  b2 = b2
  m1 = m1
  Runs = {m1}
  KindOf <- MCOneMultiFormat
  Profiles = {p1, p2}
  Targets = {t1, t2}
  Parts = {1}
  Upload = upload
  UploadKinds = {"multi_format"}
SPECIFICATION Spec
PROPERTIES
  BindingIsFinal
