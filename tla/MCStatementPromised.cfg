CONSTANT Programs <- UnreachedShapes
SPECIFICATION Spec
INVARIANT PromisedAccepted
