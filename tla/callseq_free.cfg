SPECIFICATION Spec
CONSTANTS
  MaxSchemas = 2
  MaxEvents = 16
  MayRunOut = TRUE
  MaxOps = 4
  KidSets = {{}, {1, 3}}
  Consumers = {"null", "refval", "arrow_cpp", "duckdb", "keeper", "mover"}
INVARIANTS
  VerdictExact
