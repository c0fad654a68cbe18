CONSTANTS
    MaxContextItems = 2
    MaxTransferSyntaxes = 2
    HeaderLen = 1
    MaxPduLen = 4
    EventCap = 2
    MaxContexts = 2
    Available = 70
    Port = 1688
    Ndr64Enabled = TRUE
    MaxRead = 4
    Clients <- MCClients
    MaxSent = 4
SPECIFICATION Spec
INVARIANTS
    InFrame
    EveryPduAnswered
    ServedOnAcknowledged
    Accounted
PROPERTIES
    HandleEnds
CHECK_DEADLOCK FALSE
