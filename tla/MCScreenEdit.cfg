\* Two rows of three columns: both screens, clearing, colours and editing a line.
CONSTANTS
    Rows = 2
    Columns = 3
    Chars = {"a"}
    Attributes = {"plain", "red"}
    DefaultAttribute = "plain"
    Operations = {"Put", "Cursor", "EraseAll", "Erase", "Rendition", "Characters",
                  "InsertMode", "Screens", "Saved", "Reset", "Control",
                  "Other"}
    MaxCount = 2
    MaxOps = 6
SPECIFICATION Spec
INVARIANTS CleanCellsShown
PROPERTIES PrimaryKept WrapAtEdge
