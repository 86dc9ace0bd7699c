CONSTANTS
    MAX_PROCESSES = 3
    MAX_ADDR_SPACES = 3
    RING_SIZE = 3
    GOPHERD_TICKS = 1
    Commands = {"exec", "ring3demo", "gopherserve", "gopherpy", "kill", "demo", "ping", "exit"}
SPECIFICATION Spec
INVARIANTS
    TypeOK
    CurrentIsRunning
    SpaceOwnership
    LiveStacks
    ProtectedContext
    SavedIsWhereItStopped
    NoLostWakeup
PROPERTIES
    LoadedSpaceIsNotReused
CHECK_DEADLOCK FALSE
