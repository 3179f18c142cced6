CONSTANTS
    Protocols = {"v13"}
    Remembers = 2
    MaxRequests = 2
SPECIFICATION TurnsSpec
PROPERTIES
    NoStaleSelection
CHECK_DEADLOCK FALSE
