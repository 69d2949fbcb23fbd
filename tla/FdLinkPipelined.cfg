SPECIFICATION Spec
CONSTANTS
    SeqMod = 8
    Window = 4
    SQueueSize = 4
    Retries = 2
    PeersCount = 1
    Mode = "Abm"
    Payload = {1, 2, 3, 4}
    NoData = NoData
    NoFrame = NoFrame
    ChanCap = 6
    MaxSend <- OneWay4
    MaxLoss = 0
    MaxSetupLoss = 0
    MaxDisconnect = 0
    SendsWhenConnected = TRUE
    Alternates = FALSE
    SlowTimer = TRUE
INVARIANTS NothingLost
