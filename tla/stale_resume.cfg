CONSTANTS
    MAX_PROCESSES = 2
    MAX_ADDR_SPACES = 2
    RING_SIZE = 2
    GOPHERD_TICKS = 1
    Commands = {"demo"}
SPECIFICATION FairSpec
PROPERTIES
    ResumesWhereItStopped
