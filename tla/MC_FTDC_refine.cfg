CONSTANTS
    a = a  b = b  z = z  d0 = d0  d1 = d1  e = e
    Schemas = {a, b, z, d0}
    EmptySchema = e
    NumMetrics <- MCNumMetrics
    DeepSchemas = {d0}
    MaxSamplesPerChunk = 3
    Mod = 4
    Values <- MCValues
    CompressMayFail = FALSE
    ResetAfterError = TRUE
    MaxCalls = 4
SPECIFICATION Spec
PROPERTY ImplementsBatches
