SPECIFICATION Spec
CONSTANTS
    Width = 2
    Pages = 3
    Ssd1306Init <- MCSsd1306Init
    Sh1106Init <- MCSh1106Init
    Sh1106On <- MCSh1106On
    Ssd1306Updates <- MCSsd1306Updates
    Sh1106Updates <- MCSh1106Updates
    Cuts = {3, 8}
    LegacyPages = {2}
    FragmentSizes = {1, 4, 9}
    Noise <- MCNoise
    MaxMessages = 4
    MaxDamaged = 1
INVARIANTS
    TypeOK
    FragmentsSameAsWhole
    CleanStreamDecoded
PROPERTIES
    CompleteMeansOnePass
    CallsProgress
    PushReturns
CHECK_DEADLOCK FALSE
