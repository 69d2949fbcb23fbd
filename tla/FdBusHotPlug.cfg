SPECIFICATION FairBusSpec
CONSTANTS
    SeqMod = 3
    Window = 2
    SQueueSize = 4
    Retries = 1
    PeersCount = 2
    Mode = "Abm"
    Payload <- Packets
    NoData = NoData
    NoFrame = NoFrame
    LocalAddr = 0
    SmallBuffer = FALSE
    Line <- BusFrames
    ChanCap = 6
    MaxSend <- TwoToFirst
    MaxUnplug = 1
PROPERTIES HotPlug
