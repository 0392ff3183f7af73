CONSTANTS
    a = a  b = b  z = z  d0 = d0  d1 = d1  e = e
    Schemas = {a, d1}
    EmptySchema = e
    NumMetrics <- MCNumMetrics
    DeepSchemas = {d1}
    MaxSamplesPerChunk = 3
    Mod = 4
    Values <- MCValues
    CompressMayFail = FALSE
    ResetAfterError = FALSE
    MaxCalls = 4
SPECIFICATION Spec
INVARIANTS ChunksWellFormed
