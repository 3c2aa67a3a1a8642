CONSTANTS
  Major = {chapter}
  Group = {bracket}
  Enum = {enum}
  Generic = generic
  Ids = {a, b}
  NoId = NoId
  Elements <- MCElements
  MaxElements = 4
  GraphEnabled = TRUE
  TokenLimit = 3
  OverlapTokens = 1
  Names <- MCNames
  NoName = NoName
  Types <- MCTypes
  Dated <- MCDated
  Normal <- MCNormal
  Compact <- MCCompact
  Labels <- MCLabels
  Guess <- MCGuess
SPECIFICATION Spec
INVARIANTS
  TypeOK
  RowsMirrorDocument
PROPERTIES
  NamesKeepTheirEntity
  BuildSucceeds
CHECK_DEADLOCK FALSE
