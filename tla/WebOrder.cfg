CONSTANTS
    Requests <- MCRequests
    Capacity = 3
    Retention = 2
    MaxRecorded = 4
    MaxTime = 2
    MAX_REQUEST = 14
    MAX_REQUEST_LINE = 3
    MAX_HEADER_LINE = 2
    MAX_HEADERS = 2
    EVENTS_PER_PAGE = 2
    MACHINES_PER_PAGE = 2
    ReadSize = 14
    HttpRequests <- MCHttpRequests
    Networks <- MCNetworks
    Sources = {"good", "unavailable", "repeating", "second zero"}
    KmsPorts <- MCKmsPorts
    Answering <- MCAnswering
    Listeners = {kms, web}
    WebListeners = {web}
    Conns = {c1, c2}
    Limit = 2
    ReadTimeout = 1
    TotalDeadline = 2
    Applications = {}
SPECIFICATION MCSpec
PROPERTY NewestFirst
CHECK_DEADLOCK FALSE
