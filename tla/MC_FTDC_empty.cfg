CONSTANTS
    a = a  b = b  z = z  d0 = d0  d1 = d1  e = e
    Schemas = {a, e}
    EmptySchema = e
    NumMetrics <- MCNumMetrics
    DeepSchemas = {}
    MaxSamplesPerChunk = 3
    Mod = 4
    Values <- MCValues
    CompressMayFail = FALSE
    ResetAfterError = TRUE
    MaxCalls = 4
SPECIFICATION Spec
INVARIANTS Lossless
