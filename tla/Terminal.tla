------------------------------- MODULE Terminal -------------------------------
(***************************************************************************)
(* The terminal as an object (Terminal.c): how it comes into being and     *)
(* goes, what size it takes and what size the server was told              *)
(* (wolfSSH_UEFI_GetTerminalInfo, UefiCompat.c), what it leaves of the     *)
(* console's state, and the queue of replies to the server's queries.      *)
(*                                                                         *)
(* The memory allocator and the console are external: each allocation and  *)
(* each QueryMode may fail.  A byte of a reply is the number of the reply  *)
(* and its place in it.                                                    *)
(***************************************************************************)
EXTENDS Integers, Sequences, FiniteSets

CONSTANTS
    Sizes,          \* what QueryMode may report: <<columns, rows>>
    Max16, Max32,   \* MAX_UINT16, MAX_UINT32
    Attributes,     \* console attributes the shell or the server may use
    ReplySize,      \* TERMINAL_REPLY_SIZE
    ReplyLengths,   \* lengths of the replies to n and c
    Capacities,     \* sizes of the caller's reply buffer
    MaxReplies      \* queries the server sends

TerminalAssumption ==
    /\ Sizes \subseteq Nat \X Nat /\ Attributes \subseteq 0 .. 255
    /\ Max16 \in Nat /\ Max32 \in Nat /\ Max16 =< Max32
    /\ ReplySize \in Nat /\ ReplyLengths \subseteq Nat \ {0}
    /\ Capacities \subseteq Nat /\ MaxReplies \in Nat

Unknown == << >>
Absent  == <<0>>                \* no console at all
Default == <<80, 25>>
Pools   == {"Terminal", "Primary", "Alternate", "DirtyStart", "DirtyEnd", "RenderBuffer"}

VARIABLES
    phase,          \* "start", "connected", "open", "closed" or "failed"
    mode,           \* the console's size or Absent
    pty,            \* the size the server was told
    size,           \* Columns and Rows
    refused,        \* QueryMode has failed
    pools,          \* memory held
    DefaultForeground, DefaultBackground,
    CursorVisible,
    attribute,      \* attribute of the console
    cursorOn,       \* the console shows its cursor
    found,          \* the attribute before the terminal was made
    Replies,
    sent,           \* bytes handed to the session
    asked, demand,  \* bytes of all replies, and since the queue was empty
    overflowed,     \* demand has exceeded ReplySize
    queries         \* number of replies

screen  == <<phase, mode, pty, size, refused, pools>>
console == <<DefaultForeground, DefaultBackground, CursorVisible, attribute, cursorOn, found>>
answers == <<Replies, sent, asked, demand, overflowed, queries>>
vars    == <<screen, console, answers>>

Lesser(a, b) == IF a < b THEN a ELSE b
EFI_TEXT_ATTR(f, b) == f + 16 * b

-----------------------------------------------------------------------------
(***************************************************************************)
(* Size.  `answer' is what QueryMode reports, or Unknown when it fails.    *)
(***************************************************************************)
ZeroIsASize(answer, limit) ==
    IF Len(answer) = 2 /\ answer[1] =< limit /\ answer[2] =< limit
    THEN answer ELSE Default
Usable(answer, limit) ==
    IF Len(answer) = 2 /\ answer[1] \in 1 .. limit /\ answer[2] \in 1 .. limit
    THEN answer ELSE Default

PtyZeroToo(answer) == ZeroIsASize(answer, Max32)
PtySize(answer) == Usable(answer, Max32)

Answers == IF mode = Absent THEN {Absent} ELSE {mode, Unknown}

\* wolfSSH asks when it requests the channel.
GetTerminalInfo ==
    /\ phase = "start"
    /\ \E answer \in Answers :
         /\ pty' = PtySize(answer)
         /\ refused' = (refused \/ answer = Unknown)
    /\ phase' = "connected"
    /\ UNCHANGED <<mode, size, pools, console, answers>>

\* The defaults are known only after the allocations, so that the Destroy of the
\* error path sets an attribute of zeroes.
ColoursOnly(f, b) ==
    /\ attribute' = EFI_TEXT_ATTR(f, b)
    /\ UNCHANGED cursorOn
DestroyConsole(f, b) ==
    /\ attribute' = EFI_TEXT_ATTR(f, b)
    /\ cursorOn' = TRUE

NoConsole ==
    /\ phase \in {"start", "connected"} /\ mode = Absent
    /\ phase' = "failed"
    /\ UNCHANGED <<mode, pty, size, refused, pools, console, answers>>

CheckAllButLast(got) == Pools \ {"RenderBuffer"} \subseteq got
AllAllocated(got) == got = Pools

\* WolfSshTerminalCreate, from the session or (straight from "start") the self-test.
Create ==
    /\ phase \in {"start", "connected"} /\ mode # Absent
    /\ \E answer \in Answers, got \in SUBSET Pools :
         /\ "Terminal" \notin got => got = {}
         /\ refused' = (refused \/ answer = Unknown)
         /\ size' = Usable(answer, Max16)
         /\ IF AllAllocated(got)
            THEN /\ phase' = "open" /\ pools' = got
                 /\ DefaultForeground' = attribute % 16
                 /\ DefaultBackground' = (attribute \div 16) % 8
                 /\ CursorVisible' = TRUE
                 /\ UNCHANGED <<attribute, cursorOn>>
            ELSE /\ phase' = "failed" /\ pools' = {}
                 /\ IF got = {} THEN UNCHANGED <<attribute, cursorOn>>
                                ELSE DestroyConsole(DefaultForeground, DefaultBackground)
                 /\ UNCHANGED <<DefaultForeground, DefaultBackground, CursorVisible>>
    /\ UNCHANGED <<mode, pty, found, answers>>

\* WolfSshTerminalFlush leaves the console with the colours in use.
Flush ==
    /\ phase = "open"
    /\ attribute' \in Attributes
    /\ cursorOn' = CursorVisible
    /\ UNCHANGED <<screen, DefaultForeground, DefaultBackground, CursorVisible, found,
                   answers>>

\* SetModes, private mode 25.
SetCursorMode ==
    /\ phase = "open"
    /\ CursorVisible' \in BOOLEAN
    /\ UNCHANGED <<screen, DefaultForeground, DefaultBackground, attribute, cursorOn, found,
                   answers>>

Destroy ==
    /\ phase = "open"
    /\ phase' = "closed"
    /\ pools' = pools \ Pools
    /\ DestroyConsole(DefaultForeground, DefaultBackground)
    /\ UNCHANGED <<mode, pty, size, refused, DefaultForeground, DefaultBackground,
                   CursorVisible, found, answers>>

-----------------------------------------------------------------------------
(***************************************************************************)
(* Replies.                                                                *)
(***************************************************************************)
Everything(length) == length
LeavesRoomForNul(length) == Lesser(length, ReplySize - Len(Replies) - 1)
Fitting(length) == Lesser(length, ReplySize - Len(Replies))

\* HandleCsi for n (5: status, 6: cursor position) and c, with QueueReply.
QueueReply ==
    /\ phase = "open" /\ queries < MaxReplies
    /\ \E length \in ReplyLengths :
         /\ Replies' = Replies \o [k \in 1 .. Fitting(length) |-> <<queries + 1, k>>]
         /\ asked' = asked + length
         /\ demand' = (IF Replies = << >> THEN 0 ELSE demand) + length
         /\ overflowed' = (overflowed \/ demand' > ReplySize)
    /\ queries' = queries + 1
    /\ UNCHANGED <<screen, console, sent>>

\* What stays is moved to the front.
KeepFront(n) == SubSeq(Replies, 1, Len(Replies) - n)
Rest(n)      == SubSeq(Replies, n + 1, Len(Replies))

TakeResponse ==
    /\ phase = "open"
    /\ \E capacity \in Capacities :
         LET n == Lesser(capacity, Len(Replies))
         IN /\ sent' = sent \o SubSeq(Replies, 1, n)
            /\ Replies' = Rest(n)
    /\ UNCHANGED <<screen, console, asked, demand, overflowed, queries>>

Init ==
    /\ phase = "start" /\ mode \in Sizes \cup {Absent}
    /\ pty = Unknown /\ size = Unknown /\ refused = FALSE /\ pools = {}
    /\ DefaultForeground = 0 /\ DefaultBackground = 0 /\ CursorVisible = FALSE
    /\ attribute \in Attributes /\ cursorOn = TRUE /\ found = attribute
    /\ Replies = << >> /\ sent = << >> /\ asked = 0 /\ demand = 0 /\ overflowed = FALSE
    /\ queries = 0

Lifecycle == GetTerminalInfo \/ NoConsole \/ Create \/ Destroy
Next == Lifecycle \/ Flush \/ SetCursorMode \/ QueueReply \/ TakeResponse
Spec == Init /\ [][Next]_vars

-----------------------------------------------------------------------------
(***************************************************************************)
(* Properties.                                                             *)
(***************************************************************************)
Stream == sent \o Replies

\* Every variable has its type; the reply queue never exceeds its array.
TypeOK ==
    /\ phase \in {"start", "connected", "open", "closed", "failed"}
    /\ mode \in Sizes \cup {Absent}
    /\ pty \in Sizes \cup {Default, Unknown} /\ size \in Sizes \cup {Default, Unknown}
    /\ refused \in BOOLEAN /\ pools \subseteq Pools
    /\ DefaultForeground \in 0 .. 15 /\ DefaultBackground \in 0 .. 7
    /\ CursorVisible \in BOOLEAN /\ cursorOn \in BOOLEAN
    /\ attribute \in 0 .. 255 /\ found \in Attributes
    /\ Replies \in Seq((1 .. MaxReplies) \X Nat) /\ Len(Replies) =< ReplySize
    /\ sent \in Seq((1 .. MaxReplies) \X Nat)
    /\ asked \in Nat /\ demand \in Nat /\ overflowed \in BOOLEAN /\ queries \in 0 .. MaxReplies

\* The server sees the replies in the order of its queries, each from its first
\* byte on and without a gap: one that did not fit loses its tail only, through any
\* number of partial TakeResponse calls.
RepliesInOrder ==
    \A p \in DOMAIN Stream :
      LET id == Stream[p][1]
          k  == Stream[p][2]
      IN IF k = 1 THEN p = 1 \/ Stream[p - 1][1] < id
                  ELSE p > 1 /\ Stream[p - 1] = <<id, k - 1>>

\* No byte of a reply is lost while the session keeps the demand between two
\* empty queues within TERMINAL_REPLY_SIZE.
RepliesWhole == ~overflowed => Len(Stream) = asked

\* The server is told the size the terminal has, so that what it draws fits, for
\* every console whose size QueryMode reports both times.  A console wider or
\* higher than UINT16 counts is the exception: it is told, but not used.
SizesAgree ==
    phase = "open" /\ pty # Unknown /\ ~refused =>
      size = pty \/ mode[1] > Max16 \/ mode[2] > Max16

\* A terminal that is open has all its memory, so that no operation meets a NULL
\* buffer; one that could not be made or was destroyed keeps none of it.
MemoryComplete ==
    /\ phase = "open" => pools = Pools
    /\ phase # "open" => pools = {}

\* The shell gets its colours (without the blink bit, which the terminal drops)
\* and a visible cursor back from a terminal that was open.  One that could not be
\* made is the exception: its error path leaves attribute 0, black on black.
ConsoleRestored ==
    /\ phase = "closed" => attribute = found % 128 /\ cursorOn
    /\ phase = "failed" => attribute \in {found, 0} /\ cursorOn
=============================================================================
