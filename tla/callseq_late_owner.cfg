SPECIFICATION Spec
CONSTANTS
  MaxSchemas = 1
  MaxEvents = 64
  MayRunOut = FALSE
  MaxOps = 3
  KidSets = {{}, {1, 3}}
  Consumers = {"arrow_cpp"}
INVARIANTS
  JudgedAfterOwners
