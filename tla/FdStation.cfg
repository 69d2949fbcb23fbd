SPECIFICATION Spec
CONSTANTS
    SeqMod = 2
    Window = 1
    SQueueSize = 2
    Retries = 1
    PeersCount = 1
    Mode = "Abm"
    Payload = {d1}
    NoData = NoData
    NoFrame = NoFrame
    LocalAddr = 1
    SmallBuffer = TRUE
    Line <- LineFrames
INVARIANTS TypeOK FreeSlotEvent ColdControl
PROPERTIES NoOverwrite SessionEndPurges
