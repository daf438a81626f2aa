\* The grammar's expression parser against the abstract specification
\* instantiated with the table spec.md section 4.3 states: exponentiation
\* chains, and BETWEEN chained with NOT BETWEEN.
CONSTANTS
  Inputs <- MCInputs
  MaxOperands = 5
  MCOps = {"^", "BETWEEN", "NOT BETWEEN", "AND"}
SPECIFICATION Spec
PROPERTIES
  ImplementsSpecTable
