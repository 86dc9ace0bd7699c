CONSTANTS
    RX_SIZE = 24
    CAPR_MOD = 48
    NoFrame = NoFrame
    Junk = Junk
    gateway = gateway
    far = far
    nobody = nobody
    lost = lost
    Up <- MCUp
    Down <- MCDown
    OnLink <- MCOnLink
    GATEWAY = gateway
    NoHost = NoHost
    SHORT = 3
    LONG = 7
    ARP_POLLS = 1
    PING_POLLS = 2
    YIELD_EVERY = 1
    MAX_PINGS = 2
SPECIFICATION FairSpec
INVARIANTS
    PingTellsTheTruth
    EchoesGoTheRightWay
PROPERTIES
    ImplementsFrameQueue
    PingEnds
CHECK_DEADLOCK FALSE
