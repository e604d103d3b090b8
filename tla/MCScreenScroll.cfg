\* Three rows of two columns: text, line feeds and everything that scrolls.
CONSTANTS
    Rows = 3
    Columns = 2
    Chars = {"a", "b"}
    Attributes = {"plain"}
    DefaultAttribute = "plain"
    Operations = {"Put", "IndexDown", "IndexUp", "Region", "Scroll", "Lines"}
    MaxCount = 2
    MaxOps = 6
SPECIFICATION Spec
INVARIANTS TypeOK CleanCellsShown
PROPERTIES ScrollStaysInRegion
