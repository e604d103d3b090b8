-------------------------------- MODULE Screen --------------------------------
(***************************************************************************)
(* The terminal's screen (Terminal.c): two cell buffers, the cursor, the   *)
(* scrolling region, and the range of columns of every row that the next   *)
(* flush will write to the UEFI console.                                   *)
(*                                                                         *)
(* An operation is one control sequence with its parameters, or a byte of  *)
(* text, after parsing.  A run names the operations the server sends and   *)
(* how many; Flush comes at any time between them.  The console is         *)
(* external: ClearScreen fills it with its current attribute, OutputString *)
(* writes cells.  A character in the last cell of the last row makes a     *)
(* console that follows UEFI scroll by one row; not all consoles do.       *)
(***************************************************************************)
EXTENDS Integers, Sequences

CONSTANTS
    Rows, Columns,
    Chars,          \* printable characters
    Attributes, DefaultAttribute,
    Operations,     \* operations the server sends in this run
    MaxCount,       \* largest repeat count of an operation
    MaxOps          \* number of operations

Space == " "
\* What the console shows where nothing was drawn since the terminal was made.
Shell == "shell"

ASSUME ScreenAssumption ==
    /\ Rows \in Nat \ {0} /\ Columns \in Nat \ {0}
    /\ DefaultAttribute \in Attributes
    /\ Space \notin Chars /\ Shell \notin Chars
    /\ MaxCount \in Nat \ {0} /\ MaxOps \in Nat

VARIABLES
    Primary, Alternate, AlternateActive,
    DirtyStart, DirtyEnd,
    Row, Column, WrapPending,
    SavedRow, SavedColumn, PrimaryRow, PrimaryColumn,
    ScrollTop, ScrollBottom,
    Attribute,      \* what TerminalAttribute returns
    InsertMode,
    console,        \* cells the console shows
    consoleAttribute,
    displaced,      \* the console has scrolled since it was last cleared
    ops             \* operations so far

buffers == <<Primary, Alternate>>
dirty   == <<DirtyStart, DirtyEnd>>
cursor  == <<Row, Column>>
saved   == <<SavedRow, SavedColumn>>
kept    == <<PrimaryRow, PrimaryColumn>>
region  == <<ScrollTop, ScrollBottom>>
shown   == <<console, consoleAttribute, displaced>>
vars == <<buffers, AlternateActive, dirty, cursor, WrapPending, saved, kept, region,
          Attribute, InsertMode, shown, ops>>

RowSet == 0 .. Rows - 1
ColSet == 0 .. Columns - 1
Lesser(a, b)  == IF a < b THEN a ELSE b
Greater(a, b) == IF a > b THEN a ELSE b

Cell == [ch : Chars \cup {Space}, at : Attributes]
Grid == [RowSet -> [ColSet -> Cell]]
Blank(a)    == [ch |-> Space, at |-> a]
BlankRow(a) == [c \in ColSet |-> Blank(a)]
ClearBuffer == [r \in RowSet |-> BlankRow(DefaultAttribute)]

Cells == IF AlternateActive THEN Alternate ELSE Primary

Op(name) == name \in Operations /\ ops < MaxOps /\ ops' = ops + 1

-----------------------------------------------------------------------------
(***************************************************************************)
(* Drawing.                                                                *)
(***************************************************************************)

\* MarkDirty for every row r in the domain of marks, columns marks[r].
Whole(R) == [r \in R |-> <<0, Columns - 1>>]
Span(s, e) == [r \in {Row} |-> <<s, e>>]

MarkReplaces(marks) ==
    /\ DirtyStart' = [r \in RowSet |-> IF r \in DOMAIN marks
                         THEN marks[r][1] ELSE DirtyStart[r]]
    /\ DirtyEnd' = [r \in RowSet |-> IF r \in DOMAIN marks
                       THEN marks[r][2] ELSE DirtyEnd[r]]
MarkDirty(marks) ==
    /\ DirtyStart' = [r \in RowSet |-> IF r \in DOMAIN marks
                         THEN Lesser(DirtyStart[r], marks[r][1]) ELSE DirtyStart[r]]
    /\ DirtyEnd' = [r \in RowSet |-> IF r \in DOMAIN marks
                       THEN Greater(DirtyEnd[r], marks[r][2]) ELSE DirtyEnd[r]]

SetCells(g) ==
    IF AlternateActive THEN Alternate' = g /\ UNCHANGED Primary
                       ELSE Primary' = g /\ UNCHANGED Alternate

Draw(g, marks) == SetCells(g) /\ MarkDirty(marks)

\* FillCells of columns s to e of every row r in R.
FillCells(g, marks) ==
    [r \in RowSet |->
       IF r \in DOMAIN marks
       THEN [c \in ColSet |-> IF c \in marks[r][1] .. marks[r][2]
                              THEN Blank(Attribute) ELSE g[r][c]]
       ELSE g[r]]

\* Rows from top to ScrollBottom move up or down by n; blank rows come in.
MovedUpToTheEnd(g, top, n) ==
    [r \in RowSet |->
       IF r < top THEN g[r]
       ELSE IF r + n < Rows THEN g[r + n] ELSE BlankRow(Attribute)]
MovedUp(g, top, n) ==
    [r \in RowSet |->
       IF r \notin top .. ScrollBottom THEN g[r]
       ELSE IF r + n =< ScrollBottom THEN g[r + n] ELSE BlankRow(Attribute)]
\* Copying the rows from the top on smears the first of them over the others.
MovedDownFromTop(g, top, n) ==
    [r \in RowSet |->
       IF r \notin top .. ScrollBottom THEN g[r]
       ELSE IF r - n >= top THEN g[top + ((r - top) % n)] ELSE BlankRow(Attribute)]
MovedDown(g, top, n) ==
    [r \in RowSet |->
       IF r \notin top .. ScrollBottom THEN g[r]
       ELSE IF r - n >= top THEN g[r - n] ELSE BlankRow(Attribute)]

Region == ScrollTop .. ScrollBottom

\* The console's own operations.
ClearScreen ==
    /\ console' = [r \in RowSet |-> BlankRow(consoleAttribute)]
    /\ displaced' = FALSE
    /\ UNCHANGED consoleAttribute
ScrolledUp(g, a) == [r \in RowSet |-> IF r + 1 < Rows THEN g[r + 1] ELSE BlankRow(a)]

-----------------------------------------------------------------------------
(***************************************************************************)
(* Text and control characters.                                            *)
(***************************************************************************)

RowBelow == IF Row = ScrollBottom \/ Row + 1 >= Rows THEN Row ELSE Row + 1
RowAbove == IF Row = ScrollTop \/ Row = 0 THEN Row ELSE Row - 1

\* A pending wrap first moves to the next row, which may scroll the region.
PutCharacter ==
    /\ Op("Put")
    /\ \E x \in Chars :
         LET scrolls == WrapPending /\ Row = ScrollBottom
             row     == IF WrapPending THEN RowBelow ELSE Row
             col     == IF WrapPending THEN 0 ELSE Column
             inserts == InsertMode /\ col + 1 < Columns
             g       == IF scrolls THEN MovedUp(Cells, ScrollTop, 1) ELSE Cells
             line    == [c \in ColSet |->
                           IF c = col THEN [ch |-> x, at |-> Attribute]
                           ELSE IF inserts /\ c > col THEN g[row][c - 1]
                           ELSE g[row][c]]
             marked  == IF scrolls THEN Region ELSE {}
         IN /\ Draw([g EXCEPT ![row] = line],
                    [r \in marked \cup {row} |->
                       IF r \in marked THEN <<0, Columns - 1>>
                       ELSE <<col, IF inserts THEN Columns - 1 ELSE col>>])
            /\ Row' = row
            /\ Column' = IF col + 1 = Columns THEN col ELSE col + 1
            /\ WrapPending' = (col + 1 = Columns)
    /\ UNCHANGED <<AlternateActive, saved, kept, region, Attribute, InsertMode, shown>>

\* Line feed and ESC D; ESC E also returns the carriage.
IndexDown ==
    /\ Op("IndexDown")
    /\ IF Row = ScrollBottom
       THEN Draw(MovedUp(Cells, ScrollTop, 1), Whole(Region))
       ELSE UNCHANGED <<buffers, dirty>>
    /\ Row' = RowBelow
    /\ Column' \in {Column, 0}
    /\ WrapPending' = FALSE
    /\ UNCHANGED <<AlternateActive, saved, kept, region, Attribute, InsertMode, shown>>

IndexUp ==
    /\ Op("IndexUp")
    /\ IF Row = ScrollTop
       THEN Draw(MovedDown(Cells, ScrollTop, 1), Whole(Region))
       ELSE UNCHANGED <<buffers, dirty>>
    /\ Row' = RowAbove
    /\ WrapPending' = FALSE
    /\ UNCHANGED <<AlternateActive, Column, saved, kept, region, Attribute, InsertMode,
                   shown>>

KeepsWrap  == UNCHANGED WrapPending
ClearsWrap == WrapPending' = FALSE

\* Carriage return, backspace and tab.
Control ==
    /\ Op("Control")
    /\ Column' \in {0, Greater(Column - 1, 0),
                    Lesser(Columns - 1, ((Column + 8) \div 8) * 8)}
    /\ ClearsWrap
    /\ UNCHANGED <<buffers, AlternateActive, dirty, Row, saved, kept, region, Attribute,
                   InsertMode, shown>>

-----------------------------------------------------------------------------
(***************************************************************************)
(* CSI sequences: every one of them clears WrapPending.                    *)
(***************************************************************************)

\* Where each cursor sequence goes, n being its count.
Unclamped(n) ==
    [A |-> <<Greater(Row - n, 0), Column>>, B |-> <<Row + n, Column>>,
     C |-> <<Row, Column + n>>,             D |-> <<Row, Greater(Column - n, 0)>>,
     E |-> <<Row + n, 0>>,                  F |-> <<Greater(Row - n, 0), 0>>,
     G |-> <<Row, n - 1>>,                  d |-> <<n - 1, Column>>]
Target(n) ==
    [f \in DOMAIN Unclamped(n) |->
       <<Lesser(Rows - 1, Unclamped(n)[f][1]), Lesser(Columns - 1, Unclamped(n)[f][2])>>]

CursorMove ==
    /\ Op("Cursor")
    /\ \/ \E n \in 1 .. MaxCount : \E f \in DOMAIN Target(n) :
             Row' = Target(n)[f][1] /\ Column' = Target(n)[f][2]
       \/ \E n, k \in 1 .. MaxCount :     \* H and f
             Row' = Lesser(Rows - 1, n - 1) /\ Column' = Lesser(Columns - 1, k - 1)
    /\ ClearsWrap
    /\ UNCHANGED <<buffers, AlternateActive, dirty, saved, kept, region, Attribute,
                   InsertMode, shown>>

\* J in mode 2 or 3 clears the console itself, with nothing left to flush.
EraseAll ==
    /\ Op("EraseAll")
    /\ SetCells(ClearBuffer)
    /\ ClearScreen
    /\ DirtyStart' = [r \in RowSet |-> Columns]
    /\ DirtyEnd' = [r \in RowSet |-> 0]
    /\ WrapPending' = FALSE
    /\ UNCHANGED <<AlternateActive, cursor, saved, kept, region, Attribute, InsertMode>>

\* J in modes 1 and 0, K, X: the columns of the rows that each of them fills.
EraseBefore == [r \in 0 .. Row |-> <<0, IF r = Row THEN Column ELSE Columns - 1>>]
EraseAfter  == [r \in Row .. Rows - 1 |-> <<IF r = Row THEN Column ELSE 0, Columns - 1>>]
EraseLine   == {Span(0, Column), Span(0, Columns - 1), Span(Column, Columns - 1)}
EraseCount  == {Span(Column, Lesser(Columns - 1, Column + n - 1)) : n \in 1 .. MaxCount}

Erase ==
    /\ Op("Erase")
    /\ \E marks \in {EraseBefore, EraseAfter} \cup EraseLine \cup EraseCount :
          Draw(FillCells(Cells, marks), marks)
    /\ WrapPending' = FALSE
    /\ UNCHANGED <<AlternateActive, cursor, saved, kept, region, Attribute, InsertMode,
                   shown>>

SelectGraphicRendition ==
    /\ Op("Rendition")
    /\ Attribute' \in Attributes
    /\ WrapPending' = FALSE
    /\ UNCHANGED <<buffers, AlternateActive, dirty, cursor, saved, kept, region,
                   InsertMode, shown>>

\* r is ignored unless it names at least two rows of the screen.
BottomPastTheEnd(t, b) == t < b /\ b - 1 =< Rows
ValidRegion(t, b)      == t < b /\ b - 1 < Rows

SetRegion ==
    /\ Op("Region")
    /\ \E t \in 1 .. Rows + 1, b \in 0 .. Rows + 1 :
          IF ValidRegion(t, b)
          THEN /\ ScrollTop' = t - 1 /\ ScrollBottom' = b - 1
               /\ Row' = 0 /\ Column' = 0
          ELSE UNCHANGED <<region, cursor>>
    /\ WrapPending' = FALSE
    /\ UNCHANGED <<buffers, AlternateActive, dirty, saved, kept, Attribute, InsertMode,
                   shown>>

\* S and T.
ScrollBy(n, up) ==
    /\ Op("Scroll")
    /\ LET m == Lesser(n, ScrollBottom - ScrollTop + 1)
       IN Draw(IF up THEN MovedUp(Cells, ScrollTop, m) ELSE MovedDown(Cells, ScrollTop, m),
               Whole(Region))
    /\ WrapPending' = FALSE
    /\ UNCHANGED <<AlternateActive, cursor, saved, kept, region, Attribute, InsertMode,
                   shown>>

\* M and L.
LinesBy(n, delete) ==
    /\ Op("Lines")
    /\ IF Row \in Region
       THEN LET m == Lesser(n, ScrollBottom - Row + 1)
            IN Draw(IF delete THEN MovedUp(Cells, Row, m) ELSE MovedDown(Cells, Row, m),
                    Whole(Row .. ScrollBottom))
       ELSE UNCHANGED <<buffers, dirty>>
    /\ WrapPending' = FALSE
    /\ UNCHANGED <<AlternateActive, cursor, saved, kept, region, Attribute, InsertMode,
                   shown>>

Scroll == \E n \in 1 .. MaxCount, up \in BOOLEAN : ScrollBy(n, up)
Lines  == \E n \in 1 .. MaxCount, delete \in BOOLEAN : LinesBy(n, delete)

InsertedIn(line, n) ==
    [c \in ColSet |-> IF c < Column THEN line[c]
                      ELSE IF c - n >= Column THEN line[c - n] ELSE Blank(Attribute)]
DeletedIn(line, n) ==
    [c \in ColSet |-> IF c < Column THEN line[c]
                      ELSE IF c + n < Columns THEN line[c + n] ELSE Blank(Attribute)]

\* @ and P.
Characters ==
    /\ Op("Characters")
    /\ \E n \in 1 .. MaxCount, delete \in BOOLEAN :
         LET m == Lesser(n, Columns - Column)
         IN Draw([Cells EXCEPT ![Row] = IF delete THEN DeletedIn(@, m)
                                                  ELSE InsertedIn(@, m)],
                 Span(Column, Columns - 1))
    /\ WrapPending' = FALSE
    /\ UNCHANGED <<AlternateActive, cursor, saved, kept, region, Attribute, InsertMode,
                   shown>>

\* n, c, the modes that change no cell, and all unknown sequences.
OtherCsi ==
    /\ Op("Other")
    /\ WrapPending' = FALSE
    /\ UNCHANGED <<buffers, AlternateActive, dirty, cursor, saved, kept, region,
                   Attribute, InsertMode, shown>>

SetInsertMode ==
    /\ Op("InsertMode")
    /\ InsertMode' \in BOOLEAN
    /\ WrapPending' = FALSE
    /\ UNCHANGED <<buffers, AlternateActive, dirty, cursor, saved, kept, region,
                   Attribute, shown>>

\* Modes 47, 1047 and 1049 alike; the scrolling region is lost both ways.
EnterAlternate ==
    /\ Op("Screens") /\ ~AlternateActive
    /\ PrimaryRow' = Row /\ PrimaryColumn' = Column
    /\ AlternateActive' = TRUE
    /\ Alternate' = ClearBuffer
    /\ ClearScreen
    /\ Row' = 0 /\ Column' = 0
    /\ ScrollTop' = 0 /\ ScrollBottom' = Rows - 1
    /\ WrapPending' = FALSE
    /\ UNCHANGED <<Primary, dirty, saved, Attribute, InsertMode>>

DirtyAsBefore    == UNCHANGED dirty
RepaintOnLeaving == MarkDirty(Whole(RowSet))

LeaveAlternate ==
    /\ Op("Screens") /\ AlternateActive
    /\ AlternateActive' = FALSE
    /\ Row' = Lesser(PrimaryRow, Rows - 1)
    /\ Column' = Lesser(PrimaryColumn, Columns - 1)
    /\ ScrollTop' = 0 /\ ScrollBottom' = Rows - 1
    /\ RepaintOnLeaving
    /\ WrapPending' = FALSE
    /\ UNCHANGED <<buffers, saved, kept, Attribute, InsertMode, shown>>

\* s and u clear WrapPending, ESC 7 and ESC 8 keep it.
SaveCursor ==
    /\ Op("Saved")
    /\ SavedRow' = Row /\ SavedColumn' = Column
    /\ WrapPending' \in {WrapPending, FALSE}
    /\ UNCHANGED <<buffers, AlternateActive, dirty, cursor, kept, region, Attribute,
                   InsertMode, shown>>

RestoreCursor ==
    /\ Op("Saved")
    /\ Row' = Lesser(SavedRow, Rows - 1) /\ Column' = Lesser(SavedColumn, Columns - 1)
    /\ WrapPending' \in {WrapPending, FALSE}
    /\ UNCHANGED <<buffers, AlternateActive, dirty, saved, kept, region, Attribute,
                   InsertMode, shown>>

\* ESC c: it keeps the screen selected, WrapPending and the dirty ranges.
BothBuffers ==
    Primary' = ClearBuffer /\ Alternate' = ClearBuffer
BufferInUse == SetCells(ClearBuffer)

FullReset ==
    /\ Op("Reset")
    /\ Attribute' = DefaultAttribute
    /\ Row' = 0 /\ Column' = 0
    /\ ScrollTop' = 0 /\ ScrollBottom' = Rows - 1
    /\ BufferInUse
    /\ ClearScreen
    /\ UNCHANGED <<AlternateActive, dirty, WrapPending, saved, kept, InsertMode>>

-----------------------------------------------------------------------------
\* Clean rows are skipped; a dirty one is written run by run of one attribute.
Written ==
    [r \in RowSet |-> [c \in ColSet |->
       IF c \in DirtyStart[r] .. DirtyEnd[r] THEN Cells[r][c] ELSE console[r][c]]]
LastCell        == Cells[Rows - 1][Columns - 1]
LastCellWritten == Columns - 1 \in DirtyStart[Rows - 1] .. DirtyEnd[Rows - 1]

\* The last cell is the last one written, so that a scroll moves all the others; the
\* row that comes in is blank in the attribute that is set for that cell.
Flush ==
    /\ \/ console' = Written /\ UNCHANGED displaced
       \/ /\ LastCellWritten
          /\ console' = ScrolledUp(Written, LastCell.at)
          /\ displaced' = TRUE
    /\ consoleAttribute' = Attribute
    /\ DirtyStart' = [r \in RowSet |-> Columns]
    /\ DirtyEnd' = [r \in RowSet |-> 0]
    /\ UNCHANGED <<buffers, AlternateActive, cursor, WrapPending, saved, kept, region,
                   Attribute, InsertMode, ops>>

\* WolfSshTerminalCreate: the cells are blank, the console is left as it is.
Init ==
    /\ Primary = ClearBuffer /\ Alternate = ClearBuffer /\ AlternateActive = FALSE
    /\ DirtyStart = [r \in RowSet |-> Columns] /\ DirtyEnd = [r \in RowSet |-> 0]
    /\ Row = 0 /\ Column = 0 /\ WrapPending = FALSE
    /\ SavedRow = 0 /\ SavedColumn = 0 /\ PrimaryRow = 0 /\ PrimaryColumn = 0
    /\ ScrollTop = 0 /\ ScrollBottom = Rows - 1
    /\ Attribute = DefaultAttribute /\ InsertMode = FALSE
    /\ console = [r \in RowSet |-> [c \in ColSet |->
                    [ch |-> Shell, at |-> DefaultAttribute]]]
    /\ consoleAttribute = DefaultAttribute /\ displaced = FALSE
    /\ ops = 0

HandleCsi  == CursorMove \/ EraseAll \/ Erase \/ SelectGraphicRendition \/ SetRegion
                \/ Scroll \/ Lines \/ Characters \/ SetInsertMode \/ EnterAlternate
                \/ LeaveAlternate \/ OtherCsi
HandleText == PutCharacter \/ IndexDown \/ IndexUp \/ Control \/ SaveCursor
                \/ RestoreCursor \/ FullReset

Next == HandleCsi \/ HandleText \/ Flush
Spec == Init /\ [][Next]_vars
-----------------------------------------------------------------------------
(***************************************************************************)
(* Properties.                                                             *)
(***************************************************************************)

\* Every variable has its type.  Cursor, saved cursors and scrolling region stay
\* on the screen, which every index into Cells relies on.
TypeOK ==
    /\ Primary \in Grid /\ Alternate \in Grid /\ AlternateActive \in BOOLEAN
    /\ DirtyStart \in [RowSet -> 0 .. Columns] /\ DirtyEnd \in [RowSet -> ColSet]
    /\ Row \in RowSet /\ Column \in ColSet /\ WrapPending \in BOOLEAN
    /\ SavedRow \in RowSet /\ SavedColumn \in ColSet
    /\ PrimaryRow \in RowSet /\ PrimaryColumn \in ColSet
    /\ ScrollTop \in RowSet /\ ScrollBottom \in ScrollTop .. Rows - 1
    /\ Attribute \in Attributes /\ InsertMode \in BOOLEAN
    /\ console \in [RowSet -> [ColSet -> [ch : Chars \cup {Space, Shell}, at : Attributes]]]
    /\ consoleAttribute \in Attributes /\ displaced \in BOOLEAN
    /\ ops \in 0 .. MaxOps

Clean(r, c) == c \notin DirtyStart[r] .. DirtyEnd[r]

\* A blank may have the attribute with which the console was cleared, and what the
\* shell had printed stays until something is drawn over it.
Shown(r, c) ==
    \/ console[r][c] = Cells[r][c]
    \/ Cells[r][c].ch = Space /\ console[r][c].ch \in {Space, Shell}

\* A cell outside the dirty range of its row is on the console as it is in the
\* buffer, whatever scrolled, switched buffers or cleared the console in between:
\* the next WolfSshTerminalFlush repairs all differences.  That goes for a console
\* that never scrolls by itself.  One that follows UEFI scrolls when a flush writes
\* the last cell of the last row; then all cells are a row too high, the code does not
\* know, and nothing is said until ClearScreen is called again.
CleanCellsShown ==
    ~displaced => \A r \in RowSet, c \in ColSet : Clean(r, c) => Shown(r, c)

\* While the alternate screen is up nothing touches the primary buffer, so a
\* full-screen program gives the shell's text back; a full reset clears only
\* the screen in use.
PrimaryKept == [][AlternateActive => Primary' = Primary]_vars

\* A wrap is pending only at the right edge, and a cursor that moves away takes it
\* back, so that no character lands a row too low.  ESC 8 and ESC c are the
\* exceptions: they move the cursor and keep the wrap, until something clears it.
WrapAtEdge ==
    [][WrapPending' => \/ Column' = Columns - 1
                       \/ RestoreCursor \/ FullReset
                       \/ WrapPending /\ UNCHANGED cursor]_vars

\* The rows from top to the end of the region move down by d (up for d < 0) together
\* and in their order; what leaves is lost, what comes in is blank, and all else
\* stays.  The rows in own are left out: the step draws on them as well.
RowsMove(top, d, own) ==
    LET moving == top .. ScrollBottom
    IN /\ \A r \in RowSet \ (moving \cup own) : Cells'[r] = Cells[r]
       /\ \A r \in moving : r + d \in moving \ own => Cells'[r + d] = Cells[r]
       /\ \A r \in moving \ own : r - d \notin moving => Cells'[r] = BlankRow(Attribute)

\* The cursor is one row of text further down (step = 1) or up (step = -1) than it
\* was, with the text moved by d; or it is at the screen's edge, outside the region.
CursorFollows(step, d) ==
    \/ Row' = Row + d + step
    \/ /\ d = 0 /\ Row' = Row /\ Row \notin Region
       /\ Row = IF step = 1 THEN Rows - 1 ELSE 0

TextMoves ==
    /\ IndexDown => \E d \in {-1, 0} : RowsMove(ScrollTop, d, {}) /\ CursorFollows(1, d)
    /\ IndexUp   => \E d \in {0, 1} : RowsMove(ScrollTop, d, {}) /\ CursorFollows(-1, d)
    /\ PutCharacter =>
         \E d \in {-1, 0} :
            /\ RowsMove(ScrollTop, d, {Row'})
            /\ IF WrapPending THEN CursorFollows(1, d) ELSE d = 0 /\ Row' = Row
    /\ \A n \in 1 .. MaxCount, up \in BOOLEAN :
         LET d == IF up THEN -n ELSE n
         IN /\ ScrollBy(n, up) => RowsMove(ScrollTop, d, {})
            /\ LinesBy(n, up) => IF Row \in Region THEN RowsMove(Row, d, {})
                                                   ELSE RowsMove(ScrollTop, 0, {})

\* Whatever scrolls moves the text of the region as one piece: a line feed, reverse
\* index or wrapped character by at most one row, so that the cursor comes to the
\* next row of text; S and T the region, L and M its rows from the cursor on, by
\* their count.  No row outside changes, none inside is lost but at the edge
\* (ScrollUp, ScrollDown, IndexDown, IndexUp, InsertLines, DeleteLines).
ScrollStaysInRegion == [][TextMoves]_vars
=============================================================================
