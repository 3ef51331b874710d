SPECIFICATION Spec
CONSTANTS
    Width = 1
    Pages = 3
    Ssd1306Init <- MCSsd1306Init
    Sh1106Init <- MCSh1106Init
    Sh1106On <- MCSh1106On
    Records <- MCRecords
    Timeout = 2
    WindowWidth = 3
INVARIANTS
    NothingLeftUnshown
    RenderedInTime
    NothingHeld
PROPERTIES
    LinesFollowMouse
    CloseEnds
CHECK_DEADLOCK FALSE
