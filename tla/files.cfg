CONSTANTS
    MAX_FILES = 4
    MAX_FILE_SIZE = 2
    REGION_SIZE = 2
    a = a
    b = b
    x = x
    y = y
    Names <- MCNames
    Root = Root
    Bytes <- MCBytes
    NULL = NULL
    SECTOR_ITEMS = 2
    SECTORS = 1
    Garbled <- MCGarbled
    Junk = x
    BootPrograms <- MCBootPrograms
    BootDir = a
    BootIndex <- MCBootText
    Args <- MCArgs
    Commands = {"mkdir", "rmdir", "rm", "mv", "cp", "cd"}
    LS_MAX = 2
    MAX_SAVES = 0
    Directory = Directory
    Damaged = Damaged
    Blank = Blank
    Broken = Broken
SPECIFICATION Spec
INVARIANTS
    ListedEntriesOpen
PROPERTIES
    OnlyRenameIntoItselfDetaches
    ImplementsStore
CHECK_DEADLOCK FALSE
