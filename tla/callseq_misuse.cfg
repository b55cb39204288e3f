SPECIFICATION Spec
CONSTANTS
  MaxSchemas = 1
  MaxEvents = 64
  MayRunOut = FALSE
  MaxOps = 4
  KidSets = {{}, {1, 3}}
  Consumers = {"null"}
INVARIANTS
  MisuseIsSafe
