CONSTANTS
    Hosts <- MCHosts
    MaxCapacity = 3
    MaxDays = 3
    Defaults <- MCDefaults
    MaxInFlight = 1
    Opens <- MCOpens
    Asked = {"guest-exec", "guest-shutdown"}
    Chunk = 2
    MaxLine = 3
    MaxClients = 2
    MaxCommands = 2
    Nodes = {n1}
    Consoles = {tty0}
    PipeRoom = 1
    MaxPresses = 1
    Faults = TRUE
SPECIFICATION Spec
INVARIANTS
    CleanStop
    
    OwnReply
PROPERTIES
    NothingNeededGivenUp
    StopHonoured
CHECK_DEADLOCK FALSE
