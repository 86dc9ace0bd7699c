CONSTANTS
    MAX_FILES = 2
    MAX_FILE_SIZE = 5
    REGION_SIZE = 14
    a = a
    x = x
    y = y
    NewLine = NewLine
    Names = {a}
    Root = Root
    Bytes <- MCBytes
    NULL = NULL
    EDIT_MAX_LINES = 3
    EDIT_LINE_LEN = 2
    EditPath <- MCPath
    BootTrees <- MCBootTrees
    Texts <- MCTexts
    Beyond <- MCBeyond
SPECIFICATION Spec
PROPERTIES
    SavedIsMeant
CHECK_DEADLOCK FALSE
