SPECIFICATION FairSpec
CONSTANTS
    SeqMod = 8
    Window = 1
    SQueueSize = 4
    Retries = 1
    PeersCount = 1
    Mode = "Abm"
    Payload = {1, 2, 3, 4}
    NoData = NoData
    NoFrame = NoFrame
    ChanCap = 6
    MaxSend <- OneWay2
    MaxLoss = 2
    MaxSetupLoss = 0
    MaxDisconnect = 0
    SendsWhenConnected = TRUE
    Alternates = TRUE
    SlowTimer = TRUE
PROPERTIES SenderGetsIn
