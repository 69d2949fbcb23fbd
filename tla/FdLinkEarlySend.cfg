SPECIFICATION FairSpec
CONSTANTS
    SeqMod = 8
    Window = 2
    SQueueSize = 4
    Retries = 2
    PeersCount = 1
    Mode = "Abm"
    Payload = {1, 2, 3, 4}
    NoData = NoData
    NoFrame = NoFrame
    ChanCap = 6
    MaxSend <- OneWay2
    MaxLoss = 0
    MaxSetupLoss = 0
    MaxDisconnect = 0
    SendsWhenConnected = FALSE
    Alternates = TRUE
    SlowTimer = TRUE
PROPERTIES EventualDelivery
