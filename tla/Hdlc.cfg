SPECIFICATION FairSpec
CONSTANTS
    ByteMod = 4
    Flag = 3
    Escape = 2
    EscapeBit = 2
    CrcDefault = FALSE
    PhysMtu = 1
    Crc <- NoCrc
    Payloads <- AllPayloads
    MaxFailures = 2
INVARIANTS TypeOK AcceptMeansIdle
PROPERTIES DrivenMeansSentUnlessStale KeepsAccepting
