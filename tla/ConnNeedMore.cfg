CONSTANTS
    MaxContextItems = 2
    MaxTransferSyntaxes = 2
    HeaderLen = 1
    MaxPduLen = 4
    EventCap = 2
    MaxContexts = 2
    Available = 70
    Port = 1688
    Ndr64Enabled = TRUE
    MaxRead = 4
    Clients <- Pipelining
    MaxSent = 4
SPECIFICATION Spec
PROPERTIES
    NeedMoreMeansIncomplete
CHECK_DEADLOCK FALSE
