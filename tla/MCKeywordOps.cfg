\* Multi-keyword operators next to the operators they compete with, the
\* parse forking wherever a declared conflict is left unresolved.
CONSTANTS
  Inputs <- MCInputs
  MaxOperands = 4
  MCOps = {"NOT IN", "NOT LIKE", "NOT BETWEEN", "IS NOT", "AND", "=", "+"}
SPECIFICATION Spec
INVARIANTS
  NoUndeclaredConflict
PROPERTIES
  ImplementsGrammar
