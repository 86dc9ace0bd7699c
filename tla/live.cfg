CONSTANTS
    MAX_PROCESSES = 4
    MAX_ADDR_SPACES = 1
    RING_SIZE = 2
    GOPHERD_TICKS = 1
    Commands = {"exec", "ring3demo", "gopherpy", "gopherserve"}
SPECIFICATION FairSpec
PROPERTIES
    KeyTaken
    ShellGetsKey
    ReadyRuns
