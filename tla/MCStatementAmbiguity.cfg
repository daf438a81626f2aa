CONSTANT Programs <- ParenthesisedShapes
SPECIFICATION Spec
INVARIANT UnitsUnambiguous
