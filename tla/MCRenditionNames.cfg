SPECIFICATION Spec
CHECK_DEADLOCK FALSE
CONSTANTS
    Values <- PaletteValues
    MaxLength = 3
    DefaultForeground = 7
    DefaultBackground = 0
INVARIANTS
    NamedColoursShown
