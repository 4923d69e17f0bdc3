CONSTANTS
    Gateway = gate
    near = near
    far = far
    known = known
    unknown = unknown
    alias = alias
    Nobody = nobody
    Elsewhere = elsewhere
    Hosts <- MCHosts
    Local <- MCLocal
    Names <- MCNames
    Address <- MCAddress
    Pings = 2
    MaxRequests = 6
    MaxQueue = 1
SPECIFICATION Spec
INVARIANTS
    RightNextHop
    OwnAnswer
PROPERTIES
    CommandsReturn
CHECK_DEADLOCK FALSE
