CONSTANTS
    Listeners = {kms, web}
    WebListeners = {web}
    Conns = {c1, c2}
    Limit = 2
    ReadTimeout = 1
    TotalDeadline = 2
    Applications = {windows, office}
SPECIFICATION DriverSpec
INVARIANTS
    KeyIsOwn
CHECK_DEADLOCK FALSE
