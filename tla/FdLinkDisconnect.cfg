SPECIFICATION FairSpec
CONSTANTS
    SeqMod = 4
    Window = 2
    SQueueSize = 4
    Retries = 1
    PeersCount = 1
    Mode = "Abm"
    Payload = {1, 2, 3, 4}
    NoData = NoData
    NoFrame = NoFrame
    ChanCap = 6
    MaxSend <- ThreeAndTwo
    MaxLoss = 0
    MaxSetupLoss = 0
    MaxDisconnect = 1
    SendsWhenConnected = TRUE
    Alternates = TRUE
    SlowTimer = TRUE
INVARIANTS NrInWindow QueueIsWindow
PROPERTIES PrimaryStream SecondaryStream SenderGetsIn EventuallyConnected
