SPECIFICATION Spec
CONSTANTS
  MaxSchemas = 2
  MaxEvents = 16
  MayRunOut = FALSE
  MaxOps = 5
  KidSets = {{}, {1, 3}}
  Consumers = {"null", "refval", "arrow_cpp", "duckdb"}
INVARIANTS
  TypeOK
  InnocentNotBlamed
  SweepIsComplete
  BuffersOutliveArray
  CrashExplained
PROPERTIES
  FollowsProtocol
