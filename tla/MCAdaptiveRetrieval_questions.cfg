CONSTANTS
  april = april
  may = may
  june = june
  spot = spot
  gone = gone
  a1 = a1
  m1 = m1
  j1 = j1
  j2 = j2
  s1 = s1
  j0 = j0
  z0 = z0
  f1 = f1
  x1 = x1
  t1 = t1
  Docs <- MCDocs
  Derived <- MCDerived
  Statuses = {"confirmed"}
  Keys <- MCKeys
  Values <- MCValues
  MaxEdits = 2
  Nodes <- MCNodes
  Strays <- MCStrays
  DocOf <- MCDocOf
  SameText <- MCSameText
  Date <- MCDate
  Name <- MCName
  Series <- MCSeries
  Role <- MCRole
  EligibleSeries = {"monthly"}
  EligibleRoles = {"brief"}
  Bonus <- MCBonus
  Required <- MCRequired
  Terms <- MCTerms
  Size <- MCSize
  Facets <- MCFacets
  Discovered <- MCDiscovered
  Windows <- MCWindows
  Requests = {0, 2, 9}
  Policy <- MCPolicy
SPECIFICATION Spec
VIEW MCView
INVARIANTS
  TypeOK
  EvidenceInScope
  BackgroundSupplements
  SelectionIsComplete
PROPERTIES
  RelationsAreNotLost
CHECK_DEADLOCK FALSE
