CONSTANTS
    o1 = o1
    o2 = o2
    host = host
    peer = peer
    MaxAddresses = 2
    Objects = {o1, o2}
    Ports = {999, 1000, 1001, 1002}
    Peers = {host, peer}
    Host = host
    Nobody = Nobody
SPECIFICATION Spec
INVARIANTS TypeOK SuccessUsable OnlyKnownLeaks PortsOnce 
PROPERTY PortLost
CHECK_DEADLOCK FALSE
