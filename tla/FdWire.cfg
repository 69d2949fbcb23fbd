SPECIFICATION Spec
CONSTANTS
    SeqMod = 8
    Window = 7
    SQueueSize = 4
    Retries = 2
    PeersCount = 63
    Mode = "Nrm"
    Payload <- Payloads
    NoData <- NoBytes
    NoFrame = NoFrame
    Mtu = 4
    Journeys <- JourneySet
INVARIANTS WireTypeOK NothingForged Faithful OneTaker StandardCrc
CHECK_DEADLOCK FALSE
