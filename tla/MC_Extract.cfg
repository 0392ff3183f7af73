CONSTANT MaxRecursion = 1
SPECIFICATION Spec
INVARIANTS ExtractAgreesWithSchema RebuildRoundTrip RebuildChecksBounds
