SPECIFICATION FairSpec
CONSTANTS
    old = old
    new = new
    running = running
    Process <- MCProcess
    Check <- MCCheck
    Owner <- MCOwner
    Timeout <- MCTimeout
    MinOrphanAge = 3
    MaxFaults = 3
INVARIANTS
    TypeOK
    NoFalseSuccess
    RunningKeepsSecrets
PROPERTIES
    NoLeftovers
