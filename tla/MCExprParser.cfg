\* The grammar's expression parser against the abstract specification
\* instantiated with the grammar's own precedence table.
CONSTANTS
  Inputs <- MCInputs
  MaxOperands = 4
  MCOps = {"OR", "AND", "BETWEEN", "LIKE", "||", "=", "IN", "+", "*", "^", "IS", "IS NOT DISTINCT FROM"}
SPECIFICATION Spec
INVARIANTS
  TypeOK
  NoUndeclaredConflict
PROPERTIES
  ImplementsCodeTable
