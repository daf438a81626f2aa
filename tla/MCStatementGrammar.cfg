CONSTANT Programs <- PassPrograms
SPECIFICATION Spec
INVARIANTS TypeOK PromisedAccepted MalformedRejected UnitsUnambiguous CreateRulesDerive ExpressionFormsDerive
