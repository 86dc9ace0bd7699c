CONSTANTS
    MAX_FILES = 5
    MAX_FILE_SIZE = 2
    REGION_SIZE = 3
    a = a
    b = b
    x = x
    y = y
    Names <- MCNames
    Root = Root
    Bytes = {x}
    NULL = NULL
    SECTOR_ITEMS = 2
    SECTORS = 4
    Garbled <- MCGarbled
    Junk = x
    BootPrograms <- MCBootPrograms
    BootDir = a
    BootIndex <- MCBootText
    Args <- MCFewArgs
    Commands = {"rm", "cp", "save", "load", "crash"}
    LS_MAX = 2
    MAX_SAVES = 2
    Directory = Directory
    Damaged = Damaged
    Blank = Blank
    Broken = Broken
SPECIFICATION Spec
PROPERTIES
    FailedLoadLeavesAPart
    ImplementsStore
