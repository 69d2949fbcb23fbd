SPECIFICATION Spec
CONSTANTS
    ByteMod = 4
    Flag = 3
    Escape = 2
    EscapeBit = 2
    CrcDefault = FALSE
    PhysMtu = 1
    Crc <- NoCrc
    Payloads <- AllPayloads
    MaxFailures = 2
PROPERTY DrivenMeansSent
