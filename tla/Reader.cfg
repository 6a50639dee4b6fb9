SPECIFICATION Spec
CONSTANTS
    Lens <- SomeLens
    MaxSize = 4
    ReadAheads <- SomeReadAheads
    Faults = {"db"}
INVARIANT TypeOK
INVARIANT BufferInStep
PROPERTY IsByteReader
