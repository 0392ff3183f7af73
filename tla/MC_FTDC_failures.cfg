CONSTANTS
    a = a  b = b  z = z  d0 = d0  d1 = d1  e = e
    Schemas = {a, b, z, d0, d1}
    EmptySchema = e
    NumMetrics <- MCNumMetrics
    DeepSchemas = {d0, d1}
    MaxSamplesPerChunk = 3
    Mod = 4
    Values <- MCValues
    CompressMayFail = TRUE
    ResetAfterError = TRUE
    MaxCalls = 4
SPECIFICATION Spec
INVARIANTS CountsConsistent ChunksWellFormed
PROPERTY ReferenceFlushedBeforeReplaced
