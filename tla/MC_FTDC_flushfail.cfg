CONSTANTS
    a = a  b = b  z = z  d0 = d0  d1 = d1  e = e
    Schemas = {a, b}
    EmptySchema = e
    NumMetrics <- MCNumMetrics
    DeepSchemas = {}
    MaxSamplesPerChunk = 3
    Mod = 4
    Values <- MCValues
    CompressMayFail = TRUE
    ResetAfterError = FALSE
    MaxCalls = 5
SPECIFICATION Spec
INVARIANTS CountsConsistent
