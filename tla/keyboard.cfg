CONSTANTS
    Letters = {"c", "v"}
    Upper <- MCUpper
    RING_SIZE = 3
    LINE_MAX = 3
    CLIPBOARD_MAX = 3
    Unset = Unset
    VGA_COLS = 2
    VGA_TEXT_ROWS = 2
    Blank = Blank
    NewLine = NewLine
    Prompt <- MCPrompt
    Outputs <- MCOutputs
    Other = Other
    Bar = Bar
    Copied = Copied
SPECIFICATION Spec
INVARIANTS
    ScreenShowsLine
    StatusRowIsKept
PROPERTIES
    ImplementsTerminal
