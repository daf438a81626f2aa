\* Every select list of up to three name tokens, and the written inputs.
CONSTANTS
  Inputs <- MCInputs
  MaxList = 3
  MaxArgs = 4
SPECIFICATION Spec
INVARIANTS
  NoUndeclaredConflict
PROPERTIES
  ImplementsReferenceSpec
