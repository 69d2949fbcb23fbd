SPECIFICATION Spec
CONSTANTS
    ByteMod = 4
    Flag = 3
    Escape = 2
    EscapeBit = 2
    CrcDefault = FALSE
    PhysMtu = 3
    Crc <- Complement
    Payloads <- AllPayloads
    MaxFailures = 1
    MaxStale = 2
INVARIANT TypeOK
PROPERTIES Resync NothingInvented OkMeansWritten DecoderReads
