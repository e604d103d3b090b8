\* Parser, renditions, life and replies, keys and loops.
SPECIFICATION Spec
CHECK_DEADLOCK FALSE
CONSTANTS
    Inputs <- ParserInputs
    MaxParams = 2
    ValueLimit = 10
    Values <- RenditionValues
    MaxLength = 5
    ShellForeground = 7
    ShellBackground = 0
    Sizes <- ConsoleSizes
    Max16 = 4
    Max32 = 9
    ConsoleAttributes = {7, 143}
    ReplySize = 5
    ReplyLengths = {1, 3}
    Capacities = {2, 5}
    MaxReplies = 3
    Chars <- TypedChars
    KeyCapacities = {0, 1, 2, 3, 4, 5, 16}
    Length = 5
    CellAttributes = {0, 1, 2}
INVARIANTS TypeOK FeedAsSpelled LastGroupDecides RepliesKept LifeInOrder KeysArrive LoopsAsSpecified
