----------------------------- MODULE TerminalParts -----------------------------
(***************************************************************************)
(* The parts of Terminal.c beside the screen, explored in one run: the     *)
(* byte parser, the loop over rendition parameters, the life of the        *)
(* terminal with its replies, the key translation, and the loops behind    *)
(* the screen.  They share no state, so a behaviour is one of a single     *)
(* part, `active', while the variables of the others are Off.              *)
(***************************************************************************)
EXTENDS Integers, Sequences

CONSTANTS
    Inputs, MaxParams, ValueLimit,                              \* Parser
    Values, MaxLength, ShellForeground, ShellBackground,        \* Rendition
    Sizes, Max16, Max32, ConsoleAttributes,                     \* Terminal
    ReplySize, ReplyLengths, Capacities, MaxReplies,
    Chars, KeyCapacities,                                       \* Keys
    Length, CellAttributes                                      \* ScreenLoops

VARIABLES
    active,
    ParserState, ParameterCount, PrivateCsi, Utf8Remaining, Utf8CodePoint, issued, fed,
    Parameters,                             \* Parser and Rendition
    Index, Foreground, Background, Bold, Reverse,
    phase, mode, pty, size, refused, pools, DefaultForeground, DefaultBackground,
    CursorVisible, cursorOn, found, Replies, sent, asked, demand, overflowed, queries,
    attribute,                              \* Terminal and ScreenLoops
    key, capacity, ApplicationCursor, result,
    loop, step, Top, Bottom, Count, Position, RunEnd, array, console, RenderBuffer, overrun

parserVars    == <<ParserState, ParameterCount, PrivateCsi, Utf8Remaining, Utf8CodePoint,
                   issued, fed>>
renditionVars == <<Index, Foreground, Background, Bold, Reverse>>
terminalVars  == <<phase, mode, pty, size, refused, pools, DefaultForeground,
                   DefaultBackground, CursorVisible, cursorOn, found, Replies, sent, asked,
                   demand, overflowed, queries>>
keyVars       == <<key, capacity, ApplicationCursor, result>>
loopVars      == <<loop, step, Top, Bottom, Count, Position, RunEnd, array, console,
                   RenderBuffer, overrun>>
vars == <<active, Parameters, attribute, parserVars, renditionVars, terminalVars, keyVars,
          loopVars>>

-----------------------------------------------------------------------------
(***************************************************************************)
(* The parts.                                                              *)
(***************************************************************************)
Parser == INSTANCE Parser
Rendition == INSTANCE Rendition WITH
    DefaultForeground <- ShellForeground, DefaultBackground <- ShellBackground
Terminal == INSTANCE Terminal WITH Attributes <- ConsoleAttributes
Keys == INSTANCE Keys WITH Capacities <- KeyCapacities
Loops == INSTANCE ScreenLoops WITH Attributes <- CellAttributes

ASSUME PartsAssumption ==
    /\ Parser!ParserAssumption /\ Rendition!RenditionAssumption
    /\ Terminal!TerminalAssumption /\ Keys!KeysAssumption /\ Loops!ScreenLoopsAssumption

-----------------------------------------------------------------------------
(***************************************************************************)
(* The run.                                                                *)
(***************************************************************************)
Off == "off"

ParserOff ==
    /\ ParserState = Off /\ ParameterCount = Off /\ PrivateCsi = Off /\ Utf8Remaining = Off
    /\ Utf8CodePoint = Off /\ issued = Off /\ fed = Off
RenditionOff ==
    Index = Off /\ Foreground = Off /\ Background = Off /\ Bold = Off /\ Reverse = Off
TerminalOff ==
    /\ phase = Off /\ mode = Off /\ pty = Off /\ size = Off /\ refused = Off /\ pools = Off
    /\ DefaultForeground = Off /\ DefaultBackground = Off /\ CursorVisible = Off
    /\ cursorOn = Off /\ found = Off /\ Replies = Off /\ sent = Off /\ asked = Off
    /\ demand = Off /\ overflowed = Off /\ queries = Off
KeysOff == key = Off /\ capacity = Off /\ ApplicationCursor = Off /\ result = Off
LoopsOff ==
    /\ loop = Off /\ step = Off /\ Top = Off /\ Bottom = Off /\ Count = Off /\ Position = Off
    /\ RunEnd = Off /\ array = Off /\ console = Off /\ RenderBuffer = Off /\ overrun = Off

Init ==
    \/ /\ active = "parser" /\ Parser!Init /\ attribute = Off
       /\ RenditionOff /\ TerminalOff /\ KeysOff /\ LoopsOff
    \/ /\ active = "rendition" /\ Rendition!Init /\ attribute = Off
       /\ ParserOff /\ TerminalOff /\ KeysOff /\ LoopsOff
    \/ /\ active = "terminal" /\ Terminal!Init /\ Parameters = Off
       /\ ParserOff /\ RenditionOff /\ KeysOff /\ LoopsOff
    \/ /\ active = "keys" /\ Keys!Init /\ Parameters = Off /\ attribute = Off
       /\ ParserOff /\ RenditionOff /\ TerminalOff /\ LoopsOff
    \/ /\ active = "loops" /\ Loops!Init /\ Parameters = Off
       /\ ParserOff /\ RenditionOff /\ TerminalOff /\ KeysOff

ParserStep ==
    /\ active = "parser" /\ Parser!Next
    /\ UNCHANGED <<active, attribute, renditionVars, terminalVars, keyVars, loopVars>>
RenditionStep ==
    /\ active = "rendition" /\ Rendition!SelectGraphicRendition
    /\ UNCHANGED <<active, attribute, parserVars, terminalVars, keyVars, loopVars>>
TerminalStep ==
    /\ active = "terminal" /\ Terminal!Next
    /\ UNCHANGED <<active, Parameters, parserVars, renditionVars, keyVars, loopVars>>
KeyStep ==
    /\ active = "keys" /\ Keys!ReadKey
    /\ UNCHANGED <<active, Parameters, attribute, parserVars, renditionVars, terminalVars,
                   loopVars>>
LoopStep ==
    /\ active = "loops" /\ Loops!Next
    /\ UNCHANGED <<active, Parameters, parserVars, renditionVars, terminalVars, keyVars>>

Next == ParserStep \/ RenditionStep \/ TerminalStep \/ KeyStep \/ LoopStep
Spec == Init /\ [][Next]_vars

-----------------------------------------------------------------------------
(***************************************************************************)
(* Properties, each stated in full by the module of its part.              *)
(***************************************************************************)
\* Every variable of the active part has its type: no index, count or number of
\* Terminal.c leaves its array or its word, and nothing is written past
\* RenderBuffer.
TypeOK ==
    /\ active = "parser" => Parser!TypeOK
    /\ active = "rendition" => Rendition!TypeOK
    /\ active = "terminal" => Terminal!TypeOK
    /\ active = "loops" => Loops!TypeOK

\* Every byte the server sends is drawn, obeyed or passed over as the stream around
\* it says: the payload of an operating-system command does nothing, a control
\* sequence is carried out with the parameters it spells, text is decoded by the
\* rules of UTF-8, and no cell receives a character the console would obey, overlong
\* forms and C1 controls excepted (WolfSshTerminalFeed, HandleGroundByte).
FeedAsSpelled ==
    active = "parser" =>
      Parser!PayloadHidden /\ Parser!SequenceSpelled /\ Parser!TextDecoded /\ Parser!CellsShowable

\* The last group of parameters that speaks of a part of the style decides it
\* (SelectGraphicRendition).
LastGroupDecides == active = "rendition" => Rendition!LastGroupDecides

\* Replies leave in the order of the queries; only tails are lost, and none while
\* the demand fits in the array (QueueReply, WolfSshTerminalTakeResponse).
RepliesKept == active = "terminal" => Terminal!RepliesInOrder /\ Terminal!RepliesWhole

\* From creation to destruction, through any failure: the server is told the size
\* the terminal has, an open terminal has all its memory and any other none, and
\* the shell gets its colours and cursor back (WolfSshTerminalCreate,
\* WolfSshTerminalDestroy, wolfSSH_UEFI_GetTerminalInfo).
LifeInOrder ==
    active = "terminal" =>
      Terminal!SizesAgree /\ Terminal!MemoryComplete /\ Terminal!ConsoleRestored

\* What the server decodes is what was typed, whole or not at all, and no two keys
\* are the same to it (WolfSshTerminalReadKey, CopyKeySequence).
KeysArrive ==
    active = "keys" => Keys!TypedIsReceived /\ Keys!NothingCut /\ Keys!KeysDistinct

\* The loops that move rows and cells in place have the effect that Screen gives
\* their operations, and a flush shows every cell of the dirty range with its
\* attribute and touches nothing else (ScrollUp, ScrollDown, InsertCharacters,
\* DeleteCharacters, WolfSshTerminalFlush).
LoopsAsSpecified == active = "loops" => Loops!MovesAsSpecified /\ Loops!FlushShowsRange
=============================================================================
