CONSTANT Programs <- CreateFindingShapes
SPECIFICATION Spec
INVARIANT CreateRulesDerive
