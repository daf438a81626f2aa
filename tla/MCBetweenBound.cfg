\* Inputs mixing BETWEEN with the logical connectives: is every input that
\* has an admissible tree accepted?
CONSTANTS
  Inputs <- MCInputs
  MaxOperands = 4
  MCOps = {"OR", "AND", "BETWEEN", "="}
SPECIFICATION Spec
INVARIANTS
  NoInputWronglyRejected
