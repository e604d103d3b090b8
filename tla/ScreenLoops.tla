----------------------------- MODULE ScreenLoops -----------------------------
(***************************************************************************)
(* The loops behind the operations of Screen (Terminal.c), turn by turn:   *)
(* rows or cells that are moved in place, and the flush of one row in runs *)
(* of one attribute.  Screen states their effect in closed form; here the  *)
(* loops are shown to have it.  One behaviour is one call.                 *)
(*                                                                         *)
(* An array has places 0 .. Length - 1.  For a move it holds rows (ScrollUp*)
(* and ScrollDown, InsertLines and DeleteLines) or the cells of a row      *)
(* (InsertCharacters, DeleteCharacters, PutCharacter in insert mode), each *)
(* known by the place where it was; for a flush it holds cells.            *)
(***************************************************************************)
EXTENDS Integers, Sequences

CONSTANTS
    Length,         \* Rows or Columns
    Attributes      \* of the cells that are flushed

ScreenLoopsAssumption == Length \in Nat \ {0} /\ Attributes # {}

VARIABLES
    loop,           \* "up", "down", "insert" or "flush"
    step,           \* "move", "fill", "run", "write" or "done"
    Top, Bottom,    \* first and last place of the range
    Count,
    Position, RunEnd,
    array,
    attribute,      \* [place -> attribute of the cell there]
    console,        \* what is shown: <<place, attribute>>, or Old
    RenderBuffer,
    overrun         \* a write went past the end of RenderBuffer

call == <<loop, Top, Bottom, Count, attribute>>
vars == <<call, step, Position, RunEnd, array, console, RenderBuffer, overrun>>
show == <<RunEnd, console, RenderBuffer, overrun>>

Places == 0 .. Length - 1
Blank == -1
Old   == <<-1, -1>>

-----------------------------------------------------------------------------
(***************************************************************************)
(* Moves.                                                                  *)
(***************************************************************************)
Copy(to, from) == array' = [array EXCEPT ![to] = array[from]]
Goes(s, p) == step' = s /\ Position' = p

\* for (Row = Top; Row + Count <= Bottom; Row++), then the rest is filled.
MoreToMoveUp == Position + Count =< Bottom
MoveUp ==
    /\ loop = "up" /\ step = "move"
    /\ IF MoreToMoveUp
       THEN Copy(Position, Position + Count) /\ Goes("move", Position + 1)
       ELSE Goes("fill", Position) /\ UNCHANGED array
    /\ UNCHANGED <<call, show>>

\* Row = Bottom + 1; while (Row-- > Top + Count): the last place comes first.
FromTheTop == Top + Count + Bottom + 1 - Position
Downwards  == Position - 1
MoveDown ==
    /\ loop = "down" /\ step = "move"
    /\ IF Position > Top + Count
       THEN Copy(Downwards, Downwards - Count) /\ Goes("move", Position - 1)
       ELSE Goes("fill", Top) /\ UNCHANGED array
    /\ UNCHANGED <<call, show>>

\* PutCharacter in insert mode: for (Column = Columns - 1; Column > Top; Column--);
\* the new character is the blank here.
MoveForInsert ==
    /\ loop = "insert" /\ step = "move"
    /\ IF Position > Top
       THEN Copy(Position, Position - 1) /\ Goes("move", Position - 1)
       ELSE array' = [array EXCEPT ![Top] = Blank] /\ Goes("done", Position)
    /\ UNCHANGED <<call, show>>

FillEnd == IF loop = "up" THEN Bottom ELSE Top + Count - 1
Fill ==
    /\ step = "fill"
    /\ IF Position =< FillEnd
       THEN array' = [array EXCEPT ![Position] = Blank] /\ Goes("fill", Position + 1)
       ELSE Goes("done", Position) /\ UNCHANGED array
    /\ UNCHANGED <<call, show>>

-----------------------------------------------------------------------------
(***************************************************************************)
(* WolfSshTerminalFlush of the dirty range Top .. Bottom of a row.         *)
(***************************************************************************)
IgnoresAttribute == RunEnd < Bottom
RunGoesOn == RunEnd < Bottom /\ attribute[RunEnd + 1] = attribute[Position]

\* RunEnd grows to the last cell with the attribute of the first.
FindRun ==
    /\ loop = "flush" /\ step = "run"
    /\ IF Position > Bottom THEN step' = "done" /\ UNCHANGED RunEnd
       ELSE IF RunGoesOn THEN RunEnd' = RunEnd + 1 /\ UNCHANGED step
       ELSE step' = "write" /\ UNCHANGED RunEnd
    /\ UNCHANGED <<call, Position, array, console, RenderBuffer, overrun>>

\* The run and its NUL go into RenderBuffer, which has Columns + 1 places, and from
\* there to the console in the attribute of the run.
NoRoomForNul == Length
BufferSize == Length + 1
NextRun == RunEnd + 1

WriteRun ==
    /\ loop = "flush" /\ step = "write"
    /\ RenderBuffer' = [k \in 1 .. RunEnd - Position + 1 |-> array[Position + k - 1]]
    /\ overrun' = (overrun \/ Len(RenderBuffer') + 1 > BufferSize)
    /\ console' = [p \in Places |-> IF p \in Position .. RunEnd
                                    THEN <<RenderBuffer'[p - Position + 1], attribute[Position]>>
                                    ELSE console[p]]
    /\ Position' = NextRun /\ RunEnd' = NextRun /\ step' = "run"
    /\ UNCHANGED <<call, array>>

Next == MoveUp \/ MoveDown \/ MoveForInsert \/ Fill \/ FindRun \/ WriteRun

\* The first place that each loop looks at.
Start == [up |-> Top, down |-> Bottom + 1, insert |-> Bottom, flush |-> Top][loop]

Init ==
    /\ loop \in {"up", "down", "insert", "flush"}
    /\ Top \in Places /\ Bottom \in Top .. Length - 1
    /\ loop = "insert" => Top < Bottom /\ Bottom = Length - 1
    /\ Count \in IF loop \in {"up", "down"} THEN 1 .. Bottom - Top + 1 ELSE {1}
    /\ attribute \in IF loop = "flush" THEN [Places -> Attributes]
                     ELSE {[p \in Places |-> CHOOSE a \in Attributes : TRUE]}
    /\ step = IF loop = "flush" THEN "run" ELSE "move"
    /\ Position = Start /\ RunEnd = Position
    /\ array = [p \in Places |-> p]
    /\ console = [p \in Places |-> Old]
    /\ RenderBuffer = << >> /\ overrun = FALSE

Spec == Init /\ [][Next]_vars

-----------------------------------------------------------------------------
(***************************************************************************)
(* Properties.                                                             *)
(***************************************************************************)
\* Every variable has its type: no counter leaves the array by more than the one
\* place that ends its loop, and nothing is written past RenderBuffer.
TypeOK ==
    /\ step \in {"move", "fill", "run", "write", "done"}
    /\ Position \in 0 .. Length /\ RunEnd \in 0 .. Length
    /\ array \in [Places -> Places \cup {Blank}]
    /\ ~overrun

\* What Screen says of a move: a place takes what was Count further on, or is
\* blank when that lies outside the range; places outside the range keep theirs.
Moved(p) ==
    LET from == IF loop = "up" THEN p + Count ELSE p - Count
    IN IF p \notin Top .. Bottom THEN p
       ELSE IF from \in Top .. Bottom THEN from ELSE Blank

\* Moving in place overwrites nothing that is still to be moved: each loop goes in
\* the direction in which its source is ahead of it.
MovesAsSpecified ==
    step = "done" /\ loop # "flush" => \A p \in Places : array[p] = Moved(p)

\* A flush shows every cell of the dirty range in its own attribute and touches no
\* other place of the row, however the attributes alternate.
FlushShowsRange ==
    step = "done" /\ loop = "flush" =>
      \A p \in Places :
        console[p] = IF p \in Top .. Bottom THEN <<p, attribute[p]>> ELSE Old
=============================================================================
