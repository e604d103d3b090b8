------------------------------ MODULE ScreenProof ------------------------------
(***************************************************************************)
(* Proofs about Screen, for every size of the screen, every set of         *)
(* operations and any number of them.                                      *)
(***************************************************************************)
EXTENDS Screen, TLAPS

-----------------------------------------------------------------------------
(***************************************************************************)
(* TypeOK in parts.                                                        *)
(***************************************************************************)
FlagsOK ==
    /\ AlternateActive \in BOOLEAN /\ WrapPending \in BOOLEAN
    /\ InsertMode \in BOOLEAN /\ displaced \in BOOLEAN
CellsOK == Primary \in Grid /\ Alternate \in Grid
DirtyOK == DirtyStart \in [RowSet -> 0 .. Columns] /\ DirtyEnd \in [RowSet -> ColSet]
CursorOK ==
    /\ Row \in RowSet /\ Column \in ColSet
    /\ SavedRow \in RowSet /\ SavedColumn \in ColSet
    /\ PrimaryRow \in RowSet /\ PrimaryColumn \in ColSet
    /\ ScrollTop \in RowSet /\ ScrollBottom \in ScrollTop .. Rows - 1
ConsoleGrid == [RowSet -> [ColSet -> [ch : Chars \cup {Space, Shell}, at : Attributes]]]
ShownOK ==
    /\ Attribute \in Attributes /\ consoleAttribute \in Attributes
    /\ console \in ConsoleGrid
    /\ ops \in 0 .. MaxOps

\* The parts are all of TypeOK.
LEMMA TypeParts ==
    /\ TypeOK <=> FlagsOK /\ CellsOK /\ DirtyOK /\ CursorOK /\ ShownOK
    /\ TypeOK' <=> FlagsOK' /\ CellsOK' /\ DirtyOK' /\ CursorOK' /\ ShownOK'
BY DEF TypeOK, FlagsOK, CellsOK, DirtyOK, CursorOK, ShownOK, ConsoleGrid

-----------------------------------------------------------------------------
(***************************************************************************)
(* The operators on cells.                                                 *)
(***************************************************************************)

\* Blank cells, rows and screens are well formed.
LEMMA Blanks ==
    /\ \A a \in Attributes : Blank(a) \in Cell /\ BlankRow(a) \in [ColSet -> Cell]
    /\ ClearBuffer \in Grid
<1>1. \A a \in Attributes : Blank(a) \in Cell
  BY DEF Blank, Cell
<1>2. \A a \in Attributes : BlankRow(a) \in [ColSet -> Cell]
  BY <1>1 DEF BlankRow
<1>3. ClearBuffer \in Grid
  BY <1>2, ScreenAssumption DEF ClearBuffer, Grid
<1> QED
  BY <1>1, <1>2, <1>3

\* The cells in use are one of the two buffers.
LEMMA CellsInUse == CellsOK => Cells \in Grid
BY DEF CellsOK, Cells

\* Scrolling keeps the grid a grid.
LEMMA MovedGrid ==
    ASSUME CursorOK, Attribute \in Attributes,
           NEW g \in Grid, NEW top \in RowSet, NEW n \in Nat
    PROVE  MovedUp(g, top, n) \in Grid /\ MovedDown(g, top, n) \in Grid
<1> USE ScreenAssumption DEF CursorOK, RowSet
<1>1. BlankRow(Attribute) \in [ColSet -> Cell]
  BY Blanks
<1>2. \A r \in RowSet : g[r] \in [ColSet -> Cell]
  BY DEF Grid
<1>3. ASSUME NEW r \in RowSet
      PROVE  (IF r \notin top .. ScrollBottom THEN g[r]
              ELSE IF r + n =< ScrollBottom THEN g[r + n] ELSE BlankRow(Attribute))
               \in [ColSet -> Cell]
  <2>1. r \in top .. ScrollBottom /\ r + n =< ScrollBottom => r + n \in RowSet
    OBVIOUS
  <2> QED
    BY <1>1, <1>2, <2>1
<1>4. ASSUME NEW r \in RowSet
      PROVE  (IF r \notin top .. ScrollBottom THEN g[r]
              ELSE IF r - n >= top THEN g[r - n] ELSE BlankRow(Attribute))
               \in [ColSet -> Cell]
  <2>1. r \in top .. ScrollBottom /\ r - n >= top => r - n \in RowSet
    OBVIOUS
  <2> QED
    BY <1>1, <1>2, <2>1
<1> QED
  BY <1>3, <1>4 DEF MovedUp, MovedDown, Grid

\* What MarkDirty may be given: for some rows a first and a last column.
Marks(m) ==
    DOMAIN m \subseteq RowSet /\ \A r \in DOMAIN m : m[r][1] \in ColSet /\ m[r][2] \in ColSet

\* Outside the marks, g is what the screen shows.
Agrees(g, m) ==
    \A r \in RowSet, c \in ColSet :
      (r \in DOMAIN m => c \notin m[r][1] .. m[r][2]) => g[r][c] = Cells[r][c]

\* FillCells changes what is marked, and only that.
LEMMA FillGrid ==
    ASSUME CellsOK, Attribute \in Attributes, NEW m, Marks(m)
    PROVE  FillCells(Cells, m) \in Grid /\ Agrees(FillCells(Cells, m), m)
<1>1. Blank(Attribute) \in Cell
  BY Blanks
<1>2. \A r \in RowSet : Cells[r] \in [ColSet -> Cell] /\ \A c \in ColSet : Cells[r][c] \in Cell
  BY CellsInUse DEF Grid
<1>3. ASSUME NEW r \in RowSet
      PROVE  /\ FillCells(Cells, m)[r] \in [ColSet -> Cell]
             /\ \A c \in ColSet :
                  (r \in DOMAIN m => c \notin m[r][1] .. m[r][2]) =>
                     FillCells(Cells, m)[r][c] = Cells[r][c]
  <2>1. CASE r \in DOMAIN m
    <3>1. FillCells(Cells, m)[r] = [c \in ColSet |-> IF c \in m[r][1] .. m[r][2]
                              THEN Blank(Attribute) ELSE Cells[r][c]]
      BY <2>1 DEF FillCells
    <3> QED
      BY <1>1, <1>2, <2>1, <3>1
  <2>2. CASE r \notin DOMAIN m
    <3>1. FillCells(Cells, m)[r] = Cells[r]
      BY <2>2 DEF FillCells
    <3> QED
      BY <1>2, <2>2, <3>1
  <2> QED
    BY <2>1, <2>2
<1>4. FillCells(Cells, m) = [r \in RowSet |-> FillCells(Cells, m)[r]]
  BY DEF FillCells
<1> QED
  BY <1>3, <1>4 DEF Grid, Agrees

\* MarkDirty only widens the dirty ranges, and covers the marks.
LEMMA MarkWidens ==
    ASSUME DirtyOK, NEW m, Marks(m), MarkDirty(m)
    PROVE  /\ DirtyOK'
           /\ \A r \in RowSet, c \in ColSet : Clean(r, c)' =>
                Clean(r, c) /\ (r \in DOMAIN m => c \notin m[r][1] .. m[r][2])
<1> USE ScreenAssumption DEF DirtyOK, RowSet, ColSet
<1>1. ASSUME NEW r \in RowSet, r \in DOMAIN m
      PROVE  /\ DirtyStart'[r] = Lesser(DirtyStart[r], m[r][1])
             /\ DirtyEnd'[r] = Greater(DirtyEnd[r], m[r][2])
             /\ DirtyStart'[r] \in 0 .. Columns /\ DirtyEnd'[r] \in ColSet
             /\ DirtyStart'[r] =< DirtyStart[r] /\ DirtyEnd'[r] >= DirtyEnd[r]
             /\ DirtyStart'[r] =< m[r][1] /\ DirtyEnd'[r] >= m[r][2]
  <2>1. /\ DirtyStart'[r] = Lesser(DirtyStart[r], m[r][1])
        /\ DirtyEnd'[r] = Greater(DirtyEnd[r], m[r][2])
    BY <1>1 DEF MarkDirty
  <2>2. m[r][1] \in ColSet /\ m[r][2] \in ColSet
    BY <1>1 DEF Marks
  <2>3. DirtyStart[r] \in 0 .. Columns /\ DirtyEnd[r] \in ColSet
    OBVIOUS
  <2> HIDE DEF DirtyOK, RowSet
  <2> QED
    BY <2>1, <2>2, <2>3 DEF Lesser, Greater
<1>2. ASSUME NEW r \in RowSet, r \notin DOMAIN m
      PROVE  DirtyStart'[r] = DirtyStart[r] /\ DirtyEnd'[r] = DirtyEnd[r]
  BY <1>2 DEF MarkDirty
<1>3. DirtyOK'
  <2>1. DirtyStart' = [r \in RowSet |-> DirtyStart'[r]] /\ DirtyEnd' = [r \in RowSet |-> DirtyEnd'[r]]
    BY DEF MarkDirty
  <2> QED
    BY <1>1, <1>2, <2>1
<1>4. ASSUME NEW r \in RowSet, NEW c \in ColSet, Clean(r, c)'
      PROVE  Clean(r, c) /\ (r \in DOMAIN m => c \notin m[r][1] .. m[r][2])
  <2>1. CASE r \in DOMAIN m
    <3>1. m[r][1] \in ColSet /\ m[r][2] \in ColSet
      BY <2>1 DEF Marks
    <3>2. DirtyStart[r] \in 0 .. Columns /\ DirtyEnd[r] \in ColSet
      OBVIOUS
    <3> HIDE DEF DirtyOK, RowSet
    <3> QED
      BY <1>1, <1>4, <2>1, <3>1, <3>2 DEF Clean
  <2>2. CASE r \notin DOMAIN m
    BY <1>2, <1>4, <2>2 DEF Clean
  <2> QED
    BY <2>1, <2>2
<1> QED
  BY <1>3, <1>4

\* An operation that changes only cells it marks keeps the console repairable.
LEMMA Drawing ==
    ASSUME FlagsOK, CellsOK, DirtyOK, NEW g \in Grid, NEW m, Marks(m), Agrees(g, m), Draw(g, m),
           UNCHANGED <<AlternateActive, console, displaced>>
    PROVE  CellsOK' /\ DirtyOK' /\ (CleanCellsShown => CleanCellsShown')
<1>1. DirtyOK' /\ \A r \in RowSet, c \in ColSet : Clean(r, c)' =>
        Clean(r, c) /\ (r \in DOMAIN m => c \notin m[r][1] .. m[r][2])
  BY MarkWidens DEF Draw
<1>2. Cells' = g
  BY DEF Draw, SetCells, Cells
<1>3. CellsOK'
  BY DEF CellsOK, Draw, SetCells
<1>4. ASSUME CleanCellsShown, ~displaced', NEW r \in RowSet, NEW c \in ColSet, Clean(r, c)'
      PROVE  Shown(r, c)'
  <2>1. Clean(r, c) /\ Cells'[r][c] = Cells[r][c]
    BY <1>1, <1>2, <1>4 DEF Agrees
  <2>2. Shown(r, c)
    BY <1>4, <2>1 DEF CleanCellsShown
  <2> QED
    BY <2>1, <2>2 DEF Shown
<1> QED
  BY <1>1, <1>3, <1>4 DEF CleanCellsShown

-----------------------------------------------------------------------------
(***************************************************************************)
(* Each operation keeps the types.                                         *)
(***************************************************************************)

\* The Boolean variables stay Boolean.
LEMMA FlagsStep == FlagsOK /\ [Next]_vars => FlagsOK'
<1> SUFFICES ASSUME FlagsOK, [Next]_vars PROVE FlagsOK'
  OBVIOUS
<1> USE DEF FlagsOK, buffers, dirty, cursor, saved, kept, region, shown
<1>1. CASE CursorMove
  BY <1>1, Zenon DEF CursorMove, ClearsWrap
<1>2. CASE EraseAll
  BY <1>2, Zenon DEF EraseAll, ClearScreen
<1>3. CASE Erase
  BY <1>3, Zenon DEF Erase
<1>4. CASE SelectGraphicRendition
  BY <1>4, Zenon DEF SelectGraphicRendition
<1>5. CASE SetRegion
  BY <1>5, Zenon DEF SetRegion
<1>6. CASE Scroll
  BY <1>6, Zenon DEF Scroll, ScrollBy
<1>7. CASE Lines
  BY <1>7, Zenon DEF Lines, LinesBy
<1>8. CASE Characters
  BY <1>8, Zenon DEF Characters
<1>9. CASE SetInsertMode
  BY <1>9, Zenon DEF SetInsertMode
<1>10. CASE EnterAlternate
  BY <1>10, Zenon DEF EnterAlternate, ClearScreen
<1>11. CASE LeaveAlternate
  BY <1>11, Zenon DEF LeaveAlternate
<1>12. CASE OtherCsi
  BY <1>12, Zenon DEF OtherCsi
<1>13. CASE PutCharacter
  BY <1>13, Zenon DEF PutCharacter
<1>14. CASE IndexDown
  BY <1>14, Zenon DEF IndexDown
<1>15. CASE IndexUp
  BY <1>15, Zenon DEF IndexUp
<1>16. CASE Control
  BY <1>16, Zenon DEF Control, ClearsWrap
<1>17. CASE SaveCursor
  BY <1>17, Zenon DEF SaveCursor
<1>18. CASE RestoreCursor
  BY <1>18, Zenon DEF RestoreCursor
<1>19. CASE FullReset
  BY <1>19, Zenon DEF FullReset, ClearScreen
<1>20. CASE Flush
  BY <1>20 DEF Flush
<1>21. CASE UNCHANGED vars
  BY <1>21, Zenon DEF vars
<1> QED
  BY <1>1, <1>2, <1>3, <1>4, <1>5, <1>6, <1>7, <1>8, <1>9, <1>10, <1>11, <1>12,
     <1>13, <1>14, <1>15, <1>16, <1>17, <1>18, <1>19, <1>20, <1>21
  DEF Next, HandleCsi, HandleText

\* Every cursor sequence ends on the screen.
LEMMA TargetOnScreen ==
    ASSUME CursorOK, NEW n \in 1 .. MaxCount, NEW f \in DOMAIN Target(n)
    PROVE  Target(n)[f][1] \in RowSet /\ Target(n)[f][2] \in ColSet
<1> USE ScreenAssumption
<1>1. DOMAIN Unclamped(n) = {"A", "B", "C", "D", "E", "F", "G", "d"}
  BY DEF Unclamped
<1>2. DOMAIN Target(n) = DOMAIN Unclamped(n)
  BY DEF Target
<1>3. Unclamped(n)[f][1] \in Nat /\ Unclamped(n)[f][2] \in Nat
  BY <1>1, <1>2 DEF Unclamped, Greater, CursorOK, RowSet, ColSet
<1>4. /\ Target(n)[f][1] = Lesser(Rows - 1, Unclamped(n)[f][1])
      /\ Target(n)[f][2] = Lesser(Columns - 1, Unclamped(n)[f][2])
  BY <1>2 DEF Target
<1> QED
  BY <1>3, <1>4 DEF Lesser, RowSet, ColSet

\* Cursor and region stay on the screen.
LEMMA CursorStep == CursorOK /\ [Next]_vars => CursorOK'
<1> SUFFICES ASSUME CursorOK, [Next]_vars PROVE CursorOK'
  OBVIOUS
<1> USE ScreenAssumption DEF CursorOK, RowSet, ColSet, buffers, dirty, cursor, saved, kept,
        region, shown
<1>1. CASE CursorMove
  <2>1. Row' \in RowSet /\ Column' \in ColSet
    <3>1. CASE \E n \in 1 .. MaxCount : \E f \in DOMAIN Target(n) :
                 Row' = Target(n)[f][1] /\ Column' = Target(n)[f][2]
      BY <3>1, TargetOnScreen
    <3>2. CASE \E n, k \in 1 .. MaxCount :
                 Row' = Lesser(Rows - 1, n - 1) /\ Column' = Lesser(Columns - 1, k - 1)
      BY <3>2 DEF Lesser
    <3> QED
      BY <1>1, <3>1, <3>2 DEF CursorMove
  <2> QED
    BY <1>1, <2>1 DEF CursorMove
<1>2. CASE EraseAll
  BY <1>2 DEF EraseAll
<1>3. CASE Erase
  BY <1>3 DEF Erase
<1>4. CASE SelectGraphicRendition
  BY <1>4 DEF SelectGraphicRendition
<1>5. CASE SetRegion
  BY <1>5 DEF SetRegion, ValidRegion
<1>6. CASE Scroll
  BY <1>6 DEF Scroll, ScrollBy
<1>7. CASE Lines
  BY <1>7 DEF Lines, LinesBy
<1>8. CASE Characters
  BY <1>8 DEF Characters
<1>9. CASE SetInsertMode
  BY <1>9 DEF SetInsertMode
<1>10. CASE EnterAlternate
  BY <1>10 DEF EnterAlternate
<1>11. CASE LeaveAlternate
  BY <1>11 DEF LeaveAlternate, Lesser
<1>12. CASE OtherCsi
  BY <1>12 DEF OtherCsi
<1>13. CASE PutCharacter
  BY <1>13 DEF PutCharacter, RowBelow
<1>14. CASE IndexDown
  BY <1>14 DEF IndexDown, RowBelow
<1>15. CASE IndexUp
  BY <1>15 DEF IndexUp, RowAbove
<1>16. CASE Control
  BY <1>16 DEF Control, Lesser, Greater
<1>17. CASE SaveCursor
  BY <1>17 DEF SaveCursor
<1>18. CASE RestoreCursor
  BY <1>18 DEF RestoreCursor, Lesser
<1>19. CASE FullReset
  BY <1>19 DEF FullReset
<1>20. CASE Flush
  BY <1>20 DEF Flush
<1>21. CASE UNCHANGED vars
  BY <1>21 DEF vars
<1> QED
  BY <1>1, <1>2, <1>3, <1>4, <1>5, <1>6, <1>7, <1>8, <1>9, <1>10, <1>11, <1>12,
     <1>13, <1>14, <1>15, <1>16, <1>17, <1>18, <1>19, <1>20, <1>21
  DEF Next, HandleCsi, HandleText

\* The attributes and the console stay well formed.
LEMMA ShownStep ==
    ASSUME CellsOK, ShownOK, [Next]_vars
    PROVE  ShownOK'
<1> USE ScreenAssumption DEF ShownOK, Op, buffers, dirty, cursor, saved, kept, region, shown
<1>0. [r \in RowSet |-> BlankRow(consoleAttribute)] \in ConsoleGrid
  BY DEF ConsoleGrid, BlankRow, Blank
<1>1. CASE CursorMove
  BY <1>1 DEF CursorMove
<1>2. CASE EraseAll
  BY <1>2, <1>0 DEF EraseAll, ClearScreen
<1>3. CASE Erase
  BY <1>3 DEF Erase
<1>4. CASE SelectGraphicRendition
  BY <1>4 DEF SelectGraphicRendition
<1>5. CASE SetRegion
  BY <1>5 DEF SetRegion
<1>6. CASE Scroll
  BY <1>6 DEF Scroll, ScrollBy
<1>7. CASE Lines
  BY <1>7 DEF Lines, LinesBy
<1>8. CASE Characters
  BY <1>8 DEF Characters
<1>9. CASE SetInsertMode
  BY <1>9 DEF SetInsertMode
<1>10. CASE EnterAlternate
  BY <1>10, <1>0 DEF EnterAlternate, ClearScreen
<1>11. CASE LeaveAlternate
  BY <1>11 DEF LeaveAlternate
<1>12. CASE OtherCsi
  BY <1>12 DEF OtherCsi
<1>13. CASE PutCharacter
  BY <1>13 DEF PutCharacter
<1>14. CASE IndexDown
  BY <1>14 DEF IndexDown
<1>15. CASE IndexUp
  BY <1>15 DEF IndexUp
<1>16. CASE Control
  BY <1>16 DEF Control
<1>17. CASE SaveCursor
  BY <1>17 DEF SaveCursor
<1>18. CASE RestoreCursor
  BY <1>18 DEF RestoreCursor
<1>19. CASE FullReset
  BY <1>19, <1>0 DEF FullReset, ClearScreen
<1>20. CASE Flush
  <2>1. \A r \in RowSet, c \in ColSet :
          /\ Cells[r][c] \in [ch : Chars \cup {Space, Shell}, at : Attributes]
          /\ console[r][c] \in [ch : Chars \cup {Space, Shell}, at : Attributes]
    BY CellsInUse DEF Grid, Cell, ConsoleGrid
  <2>2. Written \in ConsoleGrid
    BY <2>1 DEF Written, ConsoleGrid
  <2>3. LastCell.at \in Attributes
    BY CellsInUse DEF LastCell, Grid, Cell, RowSet, ColSet
  <2>4. BlankRow(LastCell.at) \in [ColSet -> [ch : Chars \cup {Space, Shell}, at : Attributes]]
    BY <2>3 DEF BlankRow, Blank
  <2>5. ScrolledUp(Written, LastCell.at) \in ConsoleGrid
    <3>1. \A r \in RowSet : r + 1 < Rows => r + 1 \in RowSet
      BY DEF RowSet
    <3> QED
      BY <2>2, <2>4, <3>1 DEF ScrolledUp, ConsoleGrid
  <2>6. console' \in ConsoleGrid
    BY <1>20, <2>2, <2>5 DEF Flush
  <2> QED
    BY <1>20, <2>6 DEF Flush
<1>21. CASE UNCHANGED vars
  BY <1>21 DEF vars
<1> QED
  BY <1>1, <1>2, <1>3, <1>4, <1>5, <1>6, <1>7, <1>8, <1>9, <1>10, <1>11, <1>12,
     <1>13, <1>14, <1>15, <1>16, <1>17, <1>18, <1>19, <1>20, <1>21
  DEF Next, HandleCsi, HandleText

-----------------------------------------------------------------------------
(***************************************************************************)
(* Each operation keeps the console repairable.                            *)
(***************************************************************************)

\* What every operation has to keep about the cells.
CellsKept == CellsOK' /\ DirtyOK' /\ (CleanCellsShown => CleanCellsShown')

\* Operations that touch no cell.
LEMMA Untouched ==
    ASSUME CellsOK, DirtyOK,
           UNCHANGED <<buffers, dirty, AlternateActive, console, displaced>>
    PROVE  CellsKept
<1>1. Cells' = Cells
  BY DEF Cells, buffers
<1> QED
  BY <1>1 DEF CellsKept, CellsOK, DirtyOK, CleanCellsShown, Shown, Clean, buffers, dirty

\* A console that was cleared agrees with a buffer that was cleared, dirty or not.
LEMMA Cleared ==
    ASSUME Cells' = ClearBuffer, ClearScreen
    PROVE  CleanCellsShown'
<1>1. \A r \in RowSet, c \in ColSet : Cells'[r][c].ch = Space /\ console'[r][c].ch = Space
  BY DEF ClearBuffer, ClearScreen, BlankRow, Blank
<1> QED
  BY <1>1 DEF CleanCellsShown, Shown

\* After a flush, or after the console was cleared, no range is dirty.
LEMMA NothingDirty ==
    ASSUME DirtyStart' = [r \in RowSet |-> Columns], DirtyEnd' = [r \in RowSet |-> 0]
    PROVE  DirtyOK'
BY ScreenAssumption DEF DirtyOK, ColSet

\* Whole rows may be marked.
LEMMA WholeMarks ==
    ASSUME NEW R \in SUBSET RowSet
    PROVE  /\ Marks(Whole(R)) /\ DOMAIN Whole(R) = R
           /\ \A r \in R : Whole(R)[r][1] .. Whole(R)[r][2] = ColSet
BY ScreenAssumption DEF Whole, Marks, ColSet

\* Columns of the cursor's row may be marked.
LEMMA SpanMarks ==
    ASSUME CursorOK, NEW s \in ColSet, NEW e \in ColSet
    PROVE  /\ Marks(Span(s, e)) /\ DOMAIN Span(s, e) = {Row}
           /\ Span(s, e)[Row][1] = s /\ Span(s, e)[Row][2] = e
BY DEF Span, Marks, CursorOK

\* Scrolling changes nothing outside the rows it marks.
LEMMA MovedAgrees ==
    ASSUME CursorOK, NEW top \in RowSet, NEW n \in Nat
    PROVE  /\ Marks(Whole(top .. ScrollBottom))
           /\ Agrees(MovedUp(Cells, top, n), Whole(top .. ScrollBottom))
           /\ Agrees(MovedDown(Cells, top, n), Whole(top .. ScrollBottom))
<1>1. top .. ScrollBottom \in SUBSET RowSet
  BY ScreenAssumption DEF CursorOK, RowSet
<1>2. \A r \in RowSet : r \notin top .. ScrollBottom =>
        MovedUp(Cells, top, n)[r] = Cells[r] /\ MovedDown(Cells, top, n)[r] = Cells[r]
  BY DEF MovedUp, MovedDown
<1> QED
  BY <1>1, <1>2, WholeMarks DEF Agrees

\* ... and so it can be drawn.
LEMMA Scrolling ==
    ASSUME FlagsOK, CellsOK, DirtyOK, CursorOK, Attribute \in Attributes,
           NEW top \in RowSet, NEW n \in Nat,
           \/ Draw(MovedUp(Cells, top, n), Whole(top .. ScrollBottom))
           \/ Draw(MovedDown(Cells, top, n), Whole(top .. ScrollBottom)),
           UNCHANGED <<AlternateActive, console, displaced>>
    PROVE  CellsKept
<1>1. MovedUp(Cells, top, n) \in Grid /\ MovedDown(Cells, top, n) \in Grid
  BY MovedGrid, CellsInUse
<1>2. CASE Draw(MovedUp(Cells, top, n), Whole(top .. ScrollBottom))
  BY <1>1, <1>2, MovedAgrees, Drawing DEF CellsKept
<1>3. CASE Draw(MovedDown(Cells, top, n), Whole(top .. ScrollBottom))
  BY <1>1, <1>3, MovedAgrees, Drawing DEF CellsKept
<1> QED
  BY <1>2, <1>3

\* J, K and X mark what they erase.
LEMMA EraseMarks ==
    ASSUME CursorOK,
           NEW m \in {EraseBefore, EraseAfter} \cup EraseLine \cup EraseCount
    PROVE  Marks(m)
<1> USE ScreenAssumption
<1>1. CASE m \in {EraseBefore, EraseAfter}
  BY <1>1 DEF EraseBefore, EraseAfter, Marks, CursorOK, RowSet, ColSet
<1>2. CASE m \in EraseLine
  <2>1. Column \in ColSet /\ 0 \in ColSet /\ Columns - 1 \in ColSet
    BY DEF CursorOK, ColSet
  <2> QED
    BY <1>2, <2>1, SpanMarks DEF EraseLine
<1>3. CASE m \in EraseCount
  <2>1. PICK n \in 1 .. MaxCount : m = Span(Column, Lesser(Columns - 1, Column + n - 1))
    BY <1>3 DEF EraseCount
  <2>2. Column \in ColSet /\ Lesser(Columns - 1, Column + n - 1) \in ColSet
    BY DEF CursorOK, ColSet, Lesser
  <2> QED
    BY <2>1, <2>2, SpanMarks
<1> QED
  BY <1>1, <1>2, <1>3

\* @ and P move cells to the right of the cursor only.
LEMMA ShiftedLine ==
    ASSUME CursorOK, Attribute \in Attributes, NEW line \in [ColSet -> Cell], NEW n \in Nat
    PROVE  /\ InsertedIn(line, n) \in [ColSet -> Cell] /\ DeletedIn(line, n) \in [ColSet -> Cell]
           /\ \A c \in ColSet : c < Column =>
                InsertedIn(line, n)[c] = line[c] /\ DeletedIn(line, n)[c] = line[c]
<1> USE ScreenAssumption DEF CursorOK, ColSet
<1>1. Blank(Attribute) \in Cell
  BY Blanks
<1>2. \A c \in ColSet : c >= Column /\ c - n >= Column => c - n \in ColSet
  OBVIOUS
<1>3. \A c \in ColSet : c >= Column /\ c + n < Columns => c + n \in ColSet
  OBVIOUS
<1>4. \A c \in ColSet : line[c] \in Cell
  OBVIOUS
<1>5. InsertedIn(line, n) \in [ColSet -> Cell]
  BY <1>1, <1>2, <1>4 DEF InsertedIn
<1>6. DeletedIn(line, n) \in [ColSet -> Cell]
  BY <1>1, <1>3, <1>4 DEF DeletedIn
<1> QED
  BY <1>5, <1>6 DEF InsertedIn, DeletedIn

\* ... so that the rest of the row is all they have to mark.
LEMMA CharactersKeep ==
    ASSUME FlagsOK, CellsOK, DirtyOK, CursorOK, Attribute \in Attributes, Characters
    PROVE  CellsKept
<1> USE ScreenAssumption
<1>1. PICK n \in 1 .. MaxCount, delete \in BOOLEAN :
        Draw([Cells EXCEPT ![Row] = IF delete THEN DeletedIn(@, Lesser(n, Columns - Column))
                                              ELSE InsertedIn(@, Lesser(n, Columns - Column))],
             Span(Column, Columns - 1))
  BY DEF Characters
<1> DEFINE m    == Lesser(n, Columns - Column)
           line == IF delete THEN DeletedIn(Cells[Row], m) ELSE InsertedIn(Cells[Row], m)
           g    == [Cells EXCEPT ![Row] = line]
<1>2. m \in Nat /\ Column \in ColSet /\ Columns - 1 \in ColSet /\ Row \in RowSet
  BY DEF Lesser, CursorOK, ColSet
<1>3. Cells \in Grid /\ Cells[Row] \in [ColSet -> Cell]
  BY <1>2, CellsInUse DEF Grid
<1> HIDE DEF m
<1>4. line \in [ColSet -> Cell] /\ \A c \in ColSet : c < Column => line[c] = Cells[Row][c]
  BY <1>2, <1>3, ShiftedLine
<1>5. Draw(g, Span(Column, Columns - 1))
  BY <1>1 DEF m
<1> HIDE DEF line
<1>6. g \in Grid
  BY <1>3, <1>4 DEF Grid
<1>7. Marks(Span(Column, Columns - 1)) /\ Agrees(g, Span(Column, Columns - 1))
  <2>1. /\ Marks(Span(Column, Columns - 1)) /\ DOMAIN Span(Column, Columns - 1) = {Row}
        /\ Span(Column, Columns - 1)[Row][1] = Column
        /\ Span(Column, Columns - 1)[Row][2] = Columns - 1
    BY <1>2, SpanMarks
  <2>2. ASSUME NEW r \in RowSet, NEW c \in ColSet, r = Row => c \notin Column .. Columns - 1
        PROVE  g[r][c] = Cells[r][c]
    <3>1. CASE r = Row
      <4>1. c < Column
        BY <2>2, <3>1, <1>2 DEF ColSet
      <4> QED
        BY <3>1, <4>1, <1>2, <1>3, <1>4 DEF Grid
    <3>2. CASE r # Row
      BY <3>2, <1>3 DEF Grid
    <3> QED
      BY <3>1, <3>2
  <2> QED
    BY <2>1, <2>2 DEF Agrees
<1> HIDE DEF g
<1> QED
  BY <1>5, <1>6, <1>7, Drawing DEF Characters, shown, CellsKept


\* A character changes its cell, in insert mode the cells after it, and after a
\* pending wrap the region: all of that is marked.
LEMMA PutKeeps ==
    ASSUME FlagsOK, CellsOK, DirtyOK, CursorOK, Attribute \in Attributes, PutCharacter
    PROVE  CellsKept
<1> USE ScreenAssumption
<1> DEFINE scrolls == WrapPending /\ Row = ScrollBottom
           row     == IF WrapPending THEN RowBelow ELSE Row
           col     == IF WrapPending THEN 0 ELSE Column
           inserts == InsertMode /\ col + 1 < Columns
           g       == IF scrolls THEN MovedUp(Cells, ScrollTop, 1) ELSE Cells
           marked  == IF scrolls THEN Region ELSE {}
           marks   == [r \in marked \cup {row} |->
                         IF r \in marked THEN <<0, Columns - 1>>
                         ELSE <<col, IF inserts THEN Columns - 1 ELSE col>>]
<1>1. PICK x \in Chars :
        Draw([g EXCEPT ![row] = [c \in ColSet |->
                                   IF c = col THEN [ch |-> x, at |-> Attribute]
                                   ELSE IF inserts /\ c > col THEN g[row][c - 1]
                                   ELSE g[row][c]]],
             marks)
  BY DEF PutCharacter
<1> DEFINE line == [c \in ColSet |-> IF c = col THEN [ch |-> x, at |-> Attribute]
                                     ELSE IF inserts /\ c > col THEN g[row][c - 1]
                                     ELSE g[row][c]]
           h    == [g EXCEPT ![row] = line]
<1>2. Draw(h, marks)
  BY <1>1
<1>3. row \in RowSet /\ col \in ColSet
  BY DEF CursorOK, RowBelow, RowSet, ColSet
<1>4. Region \subseteq RowSet /\ ScrollTop \in RowSet /\ (scrolls => row \in Region)
  BY DEF CursorOK, Region, RowBelow, RowSet
<1>5. g \in Grid /\ Cells \in Grid
  BY <1>4, MovedGrid, CellsInUse
<1>6. \A r \in RowSet : r \notin marked => g[r] = Cells[r]
  BY DEF MovedUp, Region
<1>7. Marks(marks)
  <2>1. DOMAIN marks = marked \cup {row} /\ marked \subseteq RowSet
    BY <1>4
  <2>2. 0 \in ColSet /\ Columns - 1 \in ColSet
    BY DEF ColSet
  <2> HIDE DEF row, col, inserts, marked
  <2>3. ASSUME NEW r \in marked \cup {row}
        PROVE  marks[r][1] \in ColSet /\ marks[r][2] \in ColSet
    BY <1>3, <2>2
  <2> HIDE DEF marks
  <2> QED
    BY <1>3, <2>1, <2>3 DEF Marks
<1> HIDE DEF g
<1>8. line \in [ColSet -> Cell]
  <2>1. [ch |-> x, at |-> Attribute] \in Cell
    BY DEF Cell
  <2>2. \A c \in ColSet : g[row][c] \in Cell
    BY <1>3, <1>5 DEF Grid
  <2>3. \A c \in ColSet : c > col => c - 1 \in ColSet
    BY <1>3 DEF ColSet
  <2> HIDE DEF row, col, inserts
  <2> QED
    BY <2>1, <2>2, <2>3
<1>9. h \in Grid
  <2> HIDE DEF line, row
  <2> QED
    BY <1>3, <1>5, <1>8 DEF Grid
<1>10. Agrees(h, marks)
  <2> SUFFICES ASSUME NEW r \in RowSet, NEW c \in ColSet,
                      r \in DOMAIN marks => c \notin marks[r][1] .. marks[r][2]
               PROVE  h[r][c] = Cells[r][c]
    BY DEF Agrees
  <2>0. \A q \in RowSet : h[q] = IF q = row THEN line ELSE g[q]
    <3> HIDE DEF line, row
    <3> QED
      BY <1>5 DEF Grid
  <2>1. CASE r \in marked
    <3>1. marks[r] = <<0, Columns - 1>> /\ r \in DOMAIN marks
      BY <2>1
    <3> QED
      BY <3>1 DEF ColSet
  <2>2. CASE r \notin marked /\ r # row
    <3> HIDE DEF row, line, marked, h
    <3> QED
      BY <2>0, <2>2, <1>6
  <2>3. CASE r \notin marked /\ r = row
    <3>1. marks[r] = <<col, IF inserts THEN Columns - 1 ELSE col>> /\ r \in DOMAIN marks
      BY <2>3
    <3>2. c # col /\ (inserts => c < col)
      <4> HIDE DEF marks, inserts, col
      <4> QED
        BY <3>1, <1>3 DEF ColSet
    <3>3. line[c] = g[row][c]
      <4> HIDE DEF row, col, inserts
      <4> QED
        BY <3>2, <1>3 DEF ColSet
    <3>4. g[row] = Cells[row]
      BY <2>3, <1>3, <1>6
    <3> HIDE DEF row, line, marked, h
    <3> QED
      BY <2>0, <2>3, <3>3, <3>4
  <2> QED
    BY <2>1, <2>2, <2>3
<1> HIDE DEF h, marks
<1> QED
  BY <1>2, <1>7, <1>9, <1>10, Drawing DEF PutCharacter, shown, CellsKept

\* What a flush leaves clean is on the console, unless that scrolled.
LEMMA FlushKeeps ==
    ASSUME CellsOK, DirtyOK, Flush
    PROVE  CellsKept
<1>1. Cells' = Cells
  BY DEF Flush, Cells, buffers
<1>2. ASSUME CleanCellsShown, ~displaced', NEW r \in RowSet, NEW c \in ColSet
      PROVE  Shown(r, c)'
  <2>1. ~displaced /\ console' = Written
    BY <1>2 DEF Flush
  <2>2. console'[r][c] = IF Clean(r, c) THEN console[r][c] ELSE Cells[r][c]
    BY <2>1 DEF Written, Clean
  <2>3. Clean(r, c) => Shown(r, c)
    BY <1>2, <2>1 DEF CleanCellsShown
  <2> QED
    BY <1>1, <2>2, <2>3 DEF Shown
<1> QED
  BY <1>2, NothingDirty DEF CellsKept, CellsOK, CleanCellsShown, Flush, buffers

\* Every step keeps the cells well formed and the console repairable.
LEMMA CellsStep ==
    ASSUME FlagsOK, CellsOK, DirtyOK, CursorOK, ShownOK, [Next]_vars
    PROVE  CellsKept
<1> USE DEF buffers, dirty, cursor, saved, kept, region, shown
<1>0. Attribute \in Attributes /\ ClearBuffer \in Grid
  BY Blanks DEF ShownOK
<1>1. CASE CursorMove
  BY <1>1, Untouched DEF CursorMove
<1>2. CASE EraseAll
  <2>1. CellsOK' /\ Cells' = ClearBuffer
    BY <1>2, <1>0 DEF EraseAll, SetCells, CellsOK, Cells
  <2> QED
    BY <1>2, <2>1, Cleared, NothingDirty DEF EraseAll, CellsKept
<1>3. CASE Erase
  <2>1. PICK m \in {EraseBefore, EraseAfter} \cup EraseLine \cup EraseCount :
          Draw(FillCells(Cells, m), m)
    BY <1>3 DEF Erase
  <2>2. Marks(m)
    BY EraseMarks
  <2>3. FillCells(Cells, m) \in Grid /\ Agrees(FillCells(Cells, m), m)
    BY <1>0, <2>2, FillGrid
  <2> QED
    BY <1>3, <2>1, <2>2, <2>3, Drawing DEF Erase, CellsKept
<1>4. CASE SelectGraphicRendition
  BY <1>4, Untouched DEF SelectGraphicRendition
<1>5. CASE SetRegion
  BY <1>5, Untouched DEF SetRegion
<1>6. CASE Scroll
  <2>1. PICK n \in 1 .. MaxCount, up \in BOOLEAN :
          Draw(IF up THEN MovedUp(Cells, ScrollTop, Lesser(n, ScrollBottom - ScrollTop + 1))
                     ELSE MovedDown(Cells, ScrollTop, Lesser(n, ScrollBottom - ScrollTop + 1)),
               Whole(Region))
    BY <1>6 DEF Scroll, ScrollBy
  <2>2. Lesser(n, ScrollBottom - ScrollTop + 1) \in Nat /\ ScrollTop \in RowSet
    BY ScreenAssumption DEF Lesser, CursorOK, RowSet
  <2> QED
    BY <1>6, <1>0, <2>1, <2>2, Scrolling DEF Scroll, ScrollBy, Region
<1>7. CASE Lines
  <2>1. CASE Row \in Region
    <3>1. PICK n \in 1 .. MaxCount, delete \in BOOLEAN :
            Draw(IF delete THEN MovedUp(Cells, Row, Lesser(n, ScrollBottom - Row + 1))
                           ELSE MovedDown(Cells, Row, Lesser(n, ScrollBottom - Row + 1)),
                 Whole(Row .. ScrollBottom))
      BY <1>7, <2>1 DEF Lines, LinesBy
    <3>2. Lesser(n, ScrollBottom - Row + 1) \in Nat /\ Row \in RowSet
      BY <2>1, ScreenAssumption DEF Lesser, CursorOK, RowSet, Region
    <3> QED
      BY <1>7, <1>0, <3>1, <3>2, Scrolling DEF Lines, LinesBy
  <2>2. CASE Row \notin Region
    BY <1>7, <2>2, Untouched DEF Lines, LinesBy
  <2> QED
    BY <2>1, <2>2
<1>8. CASE Characters
  BY <1>8, <1>0, CharactersKeep
<1>9. CASE SetInsertMode
  BY <1>9, Untouched DEF SetInsertMode
<1>10. CASE EnterAlternate
  <2>1. CellsOK' /\ Cells' = ClearBuffer /\ DirtyOK'
    BY <1>10, <1>0 DEF EnterAlternate, CellsOK, DirtyOK, Cells
  <2> QED
    BY <1>10, <2>1, Cleared DEF EnterAlternate, CellsKept
<1>11. CASE LeaveAlternate
  <2>1. CellsOK'
    BY <1>11 DEF LeaveAlternate, CellsOK
  <2>2. Marks(Whole(RowSet)) /\ MarkDirty(Whole(RowSet))
    BY <1>11, WholeMarks DEF LeaveAlternate, RepaintOnLeaving
  <2>3. DirtyOK' /\ \A r \in RowSet, c \in ColSet : ~Clean(r, c)'
    <3>1. /\ DOMAIN Whole(RowSet) = RowSet
          /\ \A r \in RowSet : Whole(RowSet)[r][1] .. Whole(RowSet)[r][2] = ColSet
      BY WholeMarks
    <3>2. DirtyOK' /\ \A r \in RowSet, c \in ColSet : Clean(r, c)' =>
            (r \in DOMAIN Whole(RowSet) => c \notin Whole(RowSet)[r][1] .. Whole(RowSet)[r][2])
      BY <2>2, MarkWidens
    <3> QED
      BY <3>1, <3>2
  <2> QED
    BY <2>1, <2>3 DEF CellsKept, CleanCellsShown
<1>12. CASE OtherCsi
  BY <1>12, Untouched DEF OtherCsi
<1>13. CASE PutCharacter
  BY <1>13, <1>0, PutKeeps
<1>14. CASE IndexDown
  <2>1. CASE Row = ScrollBottom
    <3>1. Draw(MovedUp(Cells, ScrollTop, 1), Whole(ScrollTop .. ScrollBottom))
      BY <1>14, <2>1 DEF IndexDown, Region
    <3>2. ScrollTop \in RowSet
      BY DEF CursorOK
    <3> QED
      BY <1>14, <1>0, <3>1, <3>2, Scrolling DEF IndexDown
  <2>2. CASE Row # ScrollBottom
    BY <1>14, <2>2, Untouched DEF IndexDown
  <2> QED
    BY <2>1, <2>2
<1>15. CASE IndexUp
  <2>1. CASE Row = ScrollTop
    <3>1. Draw(MovedDown(Cells, ScrollTop, 1), Whole(ScrollTop .. ScrollBottom))
      BY <1>15, <2>1 DEF IndexUp, Region
    <3>2. ScrollTop \in RowSet
      BY DEF CursorOK
    <3> QED
      BY <1>15, <1>0, <3>1, <3>2, Scrolling DEF IndexUp
  <2>2. CASE Row # ScrollTop
    BY <1>15, <2>2, Untouched DEF IndexUp
  <2> QED
    BY <2>1, <2>2
<1>16. CASE Control
  BY <1>16, Untouched DEF Control
<1>17. CASE SaveCursor
  BY <1>17, Untouched DEF SaveCursor
<1>18. CASE RestoreCursor
  BY <1>18, Untouched DEF RestoreCursor
<1>19. CASE FullReset
  <2>1. CellsOK' /\ Cells' = ClearBuffer /\ DirtyOK'
    BY <1>19, <1>0 DEF FullReset, BufferInUse, SetCells, CellsOK, DirtyOK, Cells
  <2> QED
    BY <1>19, <2>1, Cleared DEF FullReset, CellsKept
<1>20. CASE Flush
  BY <1>20, FlushKeeps
<1>21. CASE UNCHANGED vars
  BY <1>21, Untouched DEF vars
<1> QED
  BY <1>1, <1>2, <1>3, <1>4, <1>5, <1>6, <1>7, <1>8, <1>9, <1>10, <1>11, <1>12,
     <1>13, <1>14, <1>15, <1>16, <1>17, <1>18, <1>19, <1>20, <1>21
  DEF Next, HandleCsi, HandleText

-----------------------------------------------------------------------------
(***************************************************************************)
(* Results.                                                                *)
(***************************************************************************)

\* Each step keeps TypeOK and, with it, CleanCellsShown.
LEMMA StepKeeps ==
    TypeOK /\ [Next]_vars => TypeOK' /\ (CleanCellsShown => CleanCellsShown')
<1> SUFFICES ASSUME FlagsOK, CellsOK, DirtyOK, CursorOK, ShownOK, [Next]_vars
             PROVE  /\ FlagsOK' /\ CellsOK' /\ DirtyOK' /\ CursorOK' /\ ShownOK'
                    /\ CleanCellsShown => CleanCellsShown'
  BY TypeParts
<1> QED
  BY FlagsStep, CursorStep, ShownStep, CellsStep DEF CellsKept

\* The state WolfSshTerminalCreate leaves.
LEMMA InitKeeps == Init => TypeOK /\ CleanCellsShown
<1> SUFFICES ASSUME Init PROVE TypeOK /\ CleanCellsShown
  OBVIOUS
<1> USE ScreenAssumption DEF Init
<1>1. FlagsOK
  BY Zenon DEF FlagsOK
<1>2. CellsOK
  BY Blanks DEF CellsOK
<1>3. DirtyOK
  BY DEF DirtyOK, ColSet
<1>4. CursorOK
  BY DEF CursorOK, RowSet, ColSet
<1>5. ShownOK
  BY DEF ShownOK, ConsoleGrid
<1>6. CleanCellsShown
  <2>1. Cells = ClearBuffer
    BY DEF Cells
  <2>2. \A r \in RowSet, c \in ColSet : Cells[r][c].ch = Space /\ console[r][c].ch = Shell
    BY <2>1 DEF ClearBuffer, BlankRow, Blank
  <2> QED
    BY <2>2 DEF CleanCellsShown, Shown
<1> QED
  BY <1>1, <1>2, <1>3, <1>4, <1>5, <1>6, TypeParts

\* TypeOK is an invariant: cursor, saved cursors, region and dirty ranges stay on the
\* screen, whatever its size, so that Terminal.c indexes no cell outside its buffers.
THEOREM TypeCorrect == Spec => []TypeOK
BY InitKeeps, StepKeeps, PTL DEF Spec

\* However the server mixes text, scrolling, erasing, screen switches and resets, the
\* next WolfSshTerminalFlush makes the console show the buffer, as long as the console
\* has not scrolled by itself since ClearScreen was last called.
THEOREM ConsoleRepaired == Spec => []CleanCellsShown
BY InitKeeps, StepKeeps, TypeCorrect, PTL DEF Spec

\* No step writes to the primary buffer while the alternate one is in use.
LEMMA PrimaryStep == [Next]_vars => [AlternateActive => Primary' = Primary]_vars
<1> SUFFICES ASSUME [Next]_vars, AlternateActive PROVE Primary' = Primary
  OBVIOUS
<1> USE DEF buffers, Draw, SetCells
<1>1. CASE CursorMove
  BY <1>1 DEF CursorMove
<1>2. CASE EraseAll
  BY <1>2 DEF EraseAll
<1>3. CASE Erase
  BY <1>3 DEF Erase
<1>4. CASE SelectGraphicRendition
  BY <1>4 DEF SelectGraphicRendition
<1>5. CASE SetRegion
  BY <1>5 DEF SetRegion
<1>6. CASE Scroll
  BY <1>6 DEF Scroll, ScrollBy
<1>7. CASE Lines
  BY <1>7 DEF Lines, LinesBy
<1>8. CASE Characters
  BY <1>8 DEF Characters
<1>9. CASE SetInsertMode
  BY <1>9 DEF SetInsertMode
<1>10. CASE EnterAlternate
  BY <1>10 DEF EnterAlternate
<1>11. CASE LeaveAlternate
  BY <1>11 DEF LeaveAlternate
<1>12. CASE OtherCsi
  BY <1>12 DEF OtherCsi
<1>13. CASE PutCharacter
  BY <1>13 DEF PutCharacter
<1>14. CASE IndexDown
  BY <1>14 DEF IndexDown
<1>15. CASE IndexUp
  BY <1>15 DEF IndexUp
<1>16. CASE Control
  BY <1>16 DEF Control
<1>17. CASE SaveCursor
  BY <1>17 DEF SaveCursor
<1>18. CASE RestoreCursor
  BY <1>18 DEF RestoreCursor
<1>19. CASE FullReset
  BY <1>19 DEF FullReset, BufferInUse
<1>20. CASE Flush
  BY <1>20 DEF Flush
<1>21. CASE UNCHANGED vars
  BY <1>21 DEF vars
<1> QED
  BY <1>1, <1>2, <1>3, <1>4, <1>5, <1>6, <1>7, <1>8, <1>9, <1>10, <1>11, <1>12,
     <1>13, <1>14, <1>15, <1>16, <1>17, <1>18, <1>19, <1>20, <1>21
  DEF Next, HandleCsi, HandleText

\* A full-screen program gives the shell's text back: nothing that happens on the
\* alternate screen, ESC c included, touches the primary buffer.
THEOREM PrimaryPreserved == Spec => PrimaryKept
BY PrimaryStep, PTL DEF Spec, PrimaryKept

\* How a step may leave a wrap pending.
WrapStep == WrapPending' => \/ Column' = Columns - 1
                            \/ RestoreCursor \/ FullReset
                            \/ WrapPending /\ UNCHANGED cursor

\* Every step leaves it so.
LEMMA WrapKept == TypeOK /\ [Next]_vars => [WrapStep]_vars
<1> SUFFICES ASSUME TypeOK, [Next]_vars PROVE WrapStep \/ UNCHANGED vars
  OBVIOUS
<1> USE DEF WrapStep, cursor
<1>1. CASE CursorMove
  BY <1>1 DEF CursorMove, ClearsWrap
<1>2. CASE EraseAll
  BY <1>2 DEF EraseAll
<1>3. CASE Erase
  BY <1>3 DEF Erase
<1>4. CASE SelectGraphicRendition
  BY <1>4 DEF SelectGraphicRendition
<1>5. CASE SetRegion
  BY <1>5 DEF SetRegion
<1>6. CASE Scroll
  BY <1>6 DEF Scroll, ScrollBy
<1>7. CASE Lines
  BY <1>7 DEF Lines, LinesBy
<1>8. CASE Characters
  BY <1>8 DEF Characters
<1>9. CASE SetInsertMode
  BY <1>9 DEF SetInsertMode
<1>10. CASE EnterAlternate
  BY <1>10 DEF EnterAlternate
<1>11. CASE LeaveAlternate
  BY <1>11 DEF LeaveAlternate
<1>12. CASE OtherCsi
  BY <1>12 DEF OtherCsi
<1>13. CASE PutCharacter
  <2> DEFINE col == IF WrapPending THEN 0 ELSE Column
  <2>1. /\ Column' = IF col + 1 = Columns THEN col ELSE col + 1
        /\ WrapPending' = (col + 1 = Columns)
    BY <1>13 DEF PutCharacter
  <2>2. col \in Int /\ Columns \in Int
    BY ScreenAssumption DEF TypeOK, ColSet
  <2> HIDE DEF col
  <2>3. col + 1 = Columns => Column' = Columns - 1
    BY <2>1, <2>2
  <2> QED
    BY <2>1, <2>3
<1>14. CASE IndexDown
  BY <1>14 DEF IndexDown
<1>15. CASE IndexUp
  BY <1>15 DEF IndexUp
<1>16. CASE Control
  BY <1>16 DEF Control, ClearsWrap
<1>17. CASE SaveCursor
  BY <1>17 DEF SaveCursor
<1>18. CASE RestoreCursor
  BY <1>18
<1>19. CASE FullReset
  BY <1>19
<1>20. CASE Flush
  BY <1>20 DEF Flush
<1>21. CASE UNCHANGED vars
  BY <1>21 DEF vars
<1> QED
  BY <1>1, <1>2, <1>3, <1>4, <1>5, <1>6, <1>7, <1>8, <1>9, <1>10, <1>11, <1>12,
     <1>13, <1>14, <1>15, <1>16, <1>17, <1>18, <1>19, <1>20, <1>21
  DEF Next, HandleCsi, HandleText

\* No character lands a row too low: a wrap is pending only at the right edge, but
\* for the two sequences that move the cursor and forget it.
THEOREM WrapOnlyAtEdge == Spec => WrapAtEdge
<1>1. TypeOK /\ [Next]_vars => [WrapStep]_vars
  BY WrapKept
<1> QED
  BY <1>1, TypeCorrect, PTL DEF Spec, WrapAtEdge, WrapStep

\* MovedUp moves the rows from top on as one piece, clamped or not, whatever the step
\* does to its own rows.
LEMMA UpMoves ==
    ASSUME CursorOK, NEW top \in Region, NEW n \in Nat, NEW own,
           \A r \in RowSet \ own :
              Cells'[r] = MovedUp(Cells, top, Lesser(n, ScrollBottom - top + 1))[r]
    PROVE  RowsMove(top, -n, own)
<1> USE ScreenAssumption DEF CursorOK, RowSet, Region
<1> DEFINE m == Lesser(n, ScrollBottom - top + 1)
<1>1. ASSUME NEW r \in RowSet \ own
      PROVE  Cells'[r] = IF r \notin top .. ScrollBottom THEN Cells[r]
                         ELSE IF r + m =< ScrollBottom THEN Cells[r + m]
                         ELSE BlankRow(Attribute)
  BY DEF MovedUp
<1>2. m \in Nat /\ (m = n \/ (m < n /\ m = ScrollBottom - top + 1))
  BY DEF Lesser
<1> HIDE DEF m
<1>3. \A r \in RowSet \ ((top .. ScrollBottom) \cup own) : Cells'[r] = Cells[r]
  BY <1>1
<1>4. ASSUME NEW r \in top .. ScrollBottom, r + (-n) \in (top .. ScrollBottom) \ own
      PROVE  Cells'[r + (-n)] = Cells[r]
  <2>1. m = n /\ r + (-n) \in RowSet /\ (r + (-n)) + m = r
    BY <1>2, <1>4
  <2> QED
    BY <1>1, <1>4, <2>1
<1>5. ASSUME NEW r \in (top .. ScrollBottom) \ own, r - (-n) \notin top .. ScrollBottom
      PROVE  Cells'[r] = BlankRow(Attribute)
  <2>1. ~(r + m =< ScrollBottom) /\ r \in RowSet
    BY <1>2, <1>5
  <2> QED
    BY <1>1, <2>1
<1> QED
  BY <1>3, <1>4, <1>5 DEF RowsMove

\* So does MovedDown.
LEMMA DownMoves ==
    ASSUME CursorOK, NEW top \in Region, NEW n \in Nat, NEW own,
           \A r \in RowSet \ own :
              Cells'[r] = MovedDown(Cells, top, Lesser(n, ScrollBottom - top + 1))[r]
    PROVE  RowsMove(top, n, own)
<1> USE ScreenAssumption DEF CursorOK, RowSet, Region
<1> DEFINE m == Lesser(n, ScrollBottom - top + 1)
<1>1. ASSUME NEW r \in RowSet \ own
      PROVE  Cells'[r] = IF r \notin top .. ScrollBottom THEN Cells[r]
                         ELSE IF r - m >= top THEN Cells[r - m]
                         ELSE BlankRow(Attribute)
  BY DEF MovedDown
<1>2. m \in Nat /\ (m = n \/ (m < n /\ m = ScrollBottom - top + 1))
  BY DEF Lesser
<1> HIDE DEF m
<1>3. \A r \in RowSet \ ((top .. ScrollBottom) \cup own) : Cells'[r] = Cells[r]
  BY <1>1
<1>4. ASSUME NEW r \in top .. ScrollBottom, r + n \in (top .. ScrollBottom) \ own
      PROVE  Cells'[r + n] = Cells[r]
  <2>1. m = n /\ r + n \in RowSet /\ (r + n) - m = r /\ r >= top
    BY <1>2, <1>4
  <2> QED
    BY <1>1, <1>4, <2>1
<1>5. ASSUME NEW r \in (top .. ScrollBottom) \ own, r - n \notin top .. ScrollBottom
      PROVE  Cells'[r] = BlankRow(Attribute)
  <2>1. ~(r - m >= top) /\ r \in RowSet
    BY <1>2, <1>5
  <2> QED
    BY <1>1, <2>1
<1> QED
  BY <1>3, <1>4, <1>5 DEF RowsMove

\* A step that draws on its own rows only moves nothing.
LEMMA NothingMoves ==
    ASSUME CursorOK, NEW own, \A r \in RowSet \ own : Cells'[r] = Cells[r]
    PROVE  RowsMove(ScrollTop, 0, own)
<1> USE ScreenAssumption DEF CursorOK, RowSet
<1>1. \A r \in ScrollTop .. ScrollBottom : r + 0 = r /\ r - 0 = r /\ r \in RowSet
  OBVIOUS
<1> QED
  BY <1>1 DEF RowsMove

\* The cursor of a line feed, scroll or no scroll.
LEMMA BelowFollows ==
    ASSUME CursorOK, Row' = RowBelow
    PROVE  CursorFollows(1, IF Row = ScrollBottom THEN -1 ELSE 0)
BY ScreenAssumption DEF CursorOK, RowSet, Region, RowBelow, CursorFollows

\* The cursor of a reverse index.
LEMMA AboveFollows ==
    ASSUME CursorOK, Row' = RowAbove
    PROVE  CursorFollows(-1, IF Row = ScrollTop THEN 1 ELSE 0)
BY ScreenAssumption DEF CursorOK, RowSet, Region, RowAbove, CursorFollows

\* One row is what Lesser leaves of one row.
LEMMA OneRow ==
    ASSUME CursorOK, NEW top \in Region
    PROVE  Lesser(1, ScrollBottom - top + 1) = 1
BY ScreenAssumption DEF CursorOK, RowSet, Region, Lesser

\* A character moves text only when a pending wrap scrolls.
LEMMA PutMoves ==
    ASSUME CursorOK, CellsOK, PutCharacter
    PROVE  \E d \in {-1, 0} :
             /\ RowsMove(ScrollTop, d, {Row'})
             /\ IF WrapPending THEN CursorFollows(1, d) ELSE d = 0 /\ Row' = Row
<1> USE ScreenAssumption
<1> DEFINE scrolls == WrapPending /\ Row = ScrollBottom
           row     == IF WrapPending THEN RowBelow ELSE Row
           g       == IF scrolls THEN MovedUp(Cells, ScrollTop, 1) ELSE Cells
<1>1. PICK line, marks : Draw([g EXCEPT ![row] = line], marks) /\ Row' = row
  BY DEF PutCharacter
<1>2. Cells' = [g EXCEPT ![row] = line]
  BY <1>1 DEF PutCharacter, Draw, SetCells, Cells
<1>3. ScrollTop \in Region
  BY DEF CursorOK, Region, RowSet
<1>4. \A r \in RowSet \ {Row'} : Cells'[r] = g[r]
  <2>1. DOMAIN g = RowSet
    BY CellsInUse DEF Grid, MovedUp
  <2> HIDE DEF g, row
  <2> QED
    BY <1>1, <1>2, <2>1
<1>5. CASE scrolls
  <2>1. RowsMove(ScrollTop, -1, {Row'})
    BY <1>3, <1>4, <1>5, OneRow, UpMoves
  <2>2. CursorFollows(1, -1)
    BY <1>1, <1>5, BelowFollows
  <2> QED
    BY <1>5, <2>1, <2>2
<1>6. CASE ~scrolls
  <2>1. RowsMove(ScrollTop, 0, {Row'})
    BY <1>4, <1>6, NothingMoves
  <2>2. WrapPending => CursorFollows(1, 0)
    BY <1>1, <1>6, BelowFollows
  <2>3. ~WrapPending => Row' = Row
    BY <1>1
  <2> QED
    BY <2>1, <2>2, <2>3
<1> QED
  BY <1>5, <1>6

\* Every operation that scrolls moves the text of the region as one piece.
LEMMA TextStep == TypeOK => TextMoves
<1> SUFFICES ASSUME CursorOK, CellsOK PROVE TextMoves
  BY TypeParts
<1> USE ScreenAssumption
<1>0. ScrollTop \in Region /\ ScrollBottom \in Region /\ Region = ScrollTop .. ScrollBottom
  BY DEF CursorOK, Region, RowSet
<1>1. ASSUME IndexDown
      PROVE  \E d \in {-1, 0} : RowsMove(ScrollTop, d, {}) /\ CursorFollows(1, d)
  <2>1. CASE Row = ScrollBottom
    <3>1. Cells' = MovedUp(Cells, ScrollTop, 1)
      BY <1>1, <2>1 DEF IndexDown, Draw, SetCells, Cells
    <3>2. RowsMove(ScrollTop, -1, {})
      BY <1>0, <3>1, OneRow, UpMoves
    <3>3. CursorFollows(1, -1)
      BY <1>1, <2>1, BelowFollows DEF IndexDown
    <3> QED
      BY <3>2, <3>3
  <2>2. CASE Row # ScrollBottom
    <3>1. Cells' = Cells
      BY <1>1, <2>2 DEF IndexDown, Cells, buffers
    <3>2. RowsMove(ScrollTop, 0, {})
      BY <3>1, NothingMoves
    <3>3. CursorFollows(1, 0)
      BY <1>1, <2>2, BelowFollows DEF IndexDown
    <3> QED
      BY <3>2, <3>3
  <2> QED
    BY <2>1, <2>2
<1>2. ASSUME IndexUp
      PROVE  \E d \in {0, 1} : RowsMove(ScrollTop, d, {}) /\ CursorFollows(-1, d)
  <2>1. CASE Row = ScrollTop
    <3>1. Cells' = MovedDown(Cells, ScrollTop, 1)
      BY <1>2, <2>1 DEF IndexUp, Draw, SetCells, Cells
    <3>2. RowsMove(ScrollTop, 1, {})
      BY <1>0, <3>1, OneRow, DownMoves
    <3>3. CursorFollows(-1, 1)
      BY <1>2, <2>1, AboveFollows DEF IndexUp
    <3> QED
      BY <3>2, <3>3
  <2>2. CASE Row # ScrollTop
    <3>1. Cells' = Cells
      BY <1>2, <2>2 DEF IndexUp, Cells, buffers
    <3>2. RowsMove(ScrollTop, 0, {})
      BY <3>1, NothingMoves
    <3>3. CursorFollows(-1, 0)
      BY <1>2, <2>2, AboveFollows DEF IndexUp
    <3> QED
      BY <3>2, <3>3
  <2> QED
    BY <2>1, <2>2
<1>3. ASSUME NEW n \in 1 .. MaxCount, NEW up \in BOOLEAN, ScrollBy(n, up)
      PROVE  RowsMove(ScrollTop, IF up THEN -n ELSE n, {})
  <2> DEFINE m == Lesser(n, ScrollBottom - ScrollTop + 1)
  <2>1. Cells' = IF up THEN MovedUp(Cells, ScrollTop, m) ELSE MovedDown(Cells, ScrollTop, m)
    BY <1>3 DEF ScrollBy, Draw, SetCells, Cells
  <2>2. CASE up
    BY <1>0, <2>1, <2>2, UpMoves
  <2>3. CASE ~up
    BY <1>0, <2>1, <2>3, DownMoves
  <2> QED
    BY <2>2, <2>3
<1>4. ASSUME NEW n \in 1 .. MaxCount, NEW up \in BOOLEAN, LinesBy(n, up)
      PROVE  IF Row \in Region THEN RowsMove(Row, IF up THEN -n ELSE n, {})
                               ELSE RowsMove(ScrollTop, 0, {})
  <2> DEFINE m == Lesser(n, ScrollBottom - Row + 1)
  <2>1. CASE Row \in Region
    <3>1. Cells' = IF up THEN MovedUp(Cells, Row, m) ELSE MovedDown(Cells, Row, m)
      BY <1>4, <2>1 DEF LinesBy, Draw, SetCells, Cells
    <3>2. CASE up
      BY <2>1, <3>1, <3>2, UpMoves
    <3>3. CASE ~up
      BY <2>1, <3>1, <3>3, DownMoves
    <3> QED
      BY <2>1, <3>2, <3>3
  <2>2. CASE Row \notin Region
    <3>1. Cells' = Cells
      BY <1>4, <2>2 DEF LinesBy, Cells, buffers
    <3> QED
      BY <2>2, <3>1, NothingMoves
  <2> QED
    BY <2>1, <2>2
<1> QED
  BY <1>1, <1>2, <1>3, <1>4, PutMoves DEF TextMoves

\* Whatever scrolls moves the text of the region as one piece and by its count, loses
\* rows only at the edge, touches none outside, and a line feed takes the cursor to
\* the next row of text: for every region of every screen.
THEOREM ScrollingConfined == Spec => ScrollStaysInRegion
<1>1. TypeOK /\ [Next]_vars => [TextMoves]_vars
  BY TextStep
<1> QED
  BY <1>1, TypeCorrect, PTL DEF Spec, ScrollStaysInRegion
=============================================================================
