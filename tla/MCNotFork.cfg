\* A comparison followed by a NOT-prefixed operator.
CONSTANTS
  Inputs <- MCInputs
  MaxOperands = 3
  MCOps = {"=", "NOT LIKE"}
SPECIFICATION Spec
INVARIANTS
  PrecedenceDecides
