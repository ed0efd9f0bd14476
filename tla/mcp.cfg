SPECIFICATION FairSpec
CONSTANTS
  Servers <- TwoServers
  Configured <- Configurations
  Names <- TwoNames
  Alias <- Sanitized
  Pages <- ShortPages
  Cursors = {"k1"}
  MaxPages = 2
  MaxWork = 3
  MaxIds = 7
  MaxLate = 2
  MaxQueue = 1
INVARIANTS
  TypeOK
  NoOrphans
  AliasesAreDistinct
  RecordsMatch
PROPERTIES
  ResultsBelong
  RequestsEnd
