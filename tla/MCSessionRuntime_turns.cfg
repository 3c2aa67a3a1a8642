CONSTANTS
  Sessions = {s1, s2}
  Profiles <- MCProfiles
  Hosts = {h1, h2}
  Job = Job
  Api = Api
  None = None
SPECIFICATION Spec
SYMMETRY MCSymmetry
INVARIANTS
  TypeOK
  OperatesOnOwnContext
  SingleDefault
PROPERTIES
  ConnectedByOwnOperation
  ConnectsToStoredProfile
