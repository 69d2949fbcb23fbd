SPECIFICATION FairSpec
CONSTANTS
    SeqMod = 3
    Window = 2
    SQueueSize = 4
    Retries = 1
    PeersCount = 1
    Mode = "Abm"
    Payload = {1, 2, 3, 4}
    NoData = NoData
    NoFrame = NoFrame
    ChanCap = 6
    MaxSend <- FourAndOne
    MaxLoss = 2
    MaxSetupLoss = 1
    MaxDisconnect = 0
    SendsWhenConnected = TRUE
    Alternates = TRUE
    SlowTimer = TRUE
INVARIANTS TypeOK NrInWindow QueueIsWindow
PROPERTIES PrimaryStream SecondaryStream EventualDelivery EventuallyConnected
