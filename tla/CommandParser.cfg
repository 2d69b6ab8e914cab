CONSTANTS
    Bytes <- MCBytes
    BufferSize = 3
    Junk <- MCJunk
    IO_FREQ = 2
    Reads <- MCReads
    MaxBytes = 9
SPECIFICATION Spec
INVARIANTS TypeOK StreamMatches
PROPERTY ImplementsGrammar
