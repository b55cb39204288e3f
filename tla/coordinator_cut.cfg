SPECIFICATION Spec
CONSTANTS
  Cases = {"a", "b", "c"}
  Setups <- MCSetups
  Leftovers <- MCLeftovers
  AlienLines <- MCAlienLines
  MaxLines = 4
  Corpora <- MCCorpora
INVARIANTS
  DeathIsAttributed
