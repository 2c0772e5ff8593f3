SPECIFICATION PoolLiveSpec
CONSTANTS
    s1 = s1
    s2 = s2
    s3 = s3
    r1 = r1
    r2 = r2
    r3 = r3
    NoRecorder = NoRecorder
    NoStream = NoStream
    Streams = {s1, s2, s3}
    Recorders = {r1, r2, r3}
    MaxConcurrent = 2
INVARIANTS
    RegistryExact
    OneWriterPerStream
PROPERTIES
    ImplementsSlots
    StopHonoured
