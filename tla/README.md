# TLA+ specifications of wolfssh-uefi

wolfssh-uefi is an interactive SSH client that runs in the UEFI shell. It has
one thread of control. What makes it hard is everything around that thread: the
firmware completes network requests from a timer interrupt, the server sends
whatever it likes whenever it likes, the SSH library answers every call with one
of a dozen errors, and any of the start-up steps may fail.

All paths below are relative to `src/WolfSshPkg/Application/WolfSsh/` unless
they begin with `src/`.

## Inventory

| Component | State | Operations | Talks to |
|---|---|---|---|
| TCP4 transport (`Tcp4.c`) | socket structure, three event flags, receive buffer | connect, poll, receive and send callbacks, close | firmware (tokens and events), wolfSSH (callbacks) |
| Program and session loop (`Main.c`) | resources held, status, retry counters, `Finished` | start, handshake, rounds of read / reply / keys, cleanup | wolfSSH, transport, terminal, keyboard |
| Authentication (`Auth.c`) | host-key decision, password, prompt flags | host-key callback, password callback | wolfSSH, keyboard |
| Terminal (`Terminal.c`) | two cell buffers, cursor, region, dirty ranges, parser, reply queue | feed, flush, take response, read key | session loop, UEFI console |
| Command line (`Arguments.c`) | the options | parse | program |
| Compatibility library (`src/WolfSshPkg/Library/UefiCompatLib/UefiCompat.c`) | allocation headers, cached RNG | allocate, free, random, C strings | wolfSSH, wolfCrypt |
| Network proxy (`src/tests/qemu_net_proxy.py`) | one TCP connection, two buffers | frames from the guest, data from the host | QEMU, test server |
| Test server, scripts, link markers | none worth modelling | | |

What is hard in each of them, at the line where it bites, is the list `hazards`
of `PROJECT.json`. The main ones:

- **Transport.** Completions arrive between any two statements. Bytes must be
  neither lost, repeated nor overtaken by the end of the stream; a token or event
  must not be reused or freed while the firmware has it; every wait must end.
- **Session.** Partial sends and retries must keep the bytes in order; the user's
  Ctrl+] must work under any flood of output; cleanup must release exactly what
  exists in an order that no callback notices; an error must be reported.
- **Authentication.** The password leaves only after the host key was accepted;
  decisions are final; prompts do not repeat; nothing half-typed is sent.
- **Terminal.** The console shows what the buffer holds, although only dirty
  ranges are written; scrolling stays in its region; the primary screen survives
  the alternate one; the cursor never leaves the buffer. Sequences and characters
  may be cut anywhere, and what is to be ignored must not show; parameters and
  replies have fixed arrays; the shell must get its console back.
- **Keys and command line.** What is typed must arrive, whole and decodable; a
  command line must mean what it says whatever the order of its options, and no
  text may fill a field to the last byte.
- **Compatibility library.** Sizes near the end of the word, a reallocation that
  fails, a block freed twice, a random source that is missing.
- **Network proxy.** Two tasks send on one flow that nothing repeats, against a
  TCP that does repeat, with sequence numbers that wrap.

## Modules

| Module | Models | Kind |
|---|---|---|
| `Tcp4` | `Tcp4.c`, all of it | specification and properties |
| `ByteStream` | what the transport promises to its reader | abstract specification |
| `Tcp4Proof` | | proofs about `Tcp4` |
| `Session` | `Main.c`, all of it | specification and properties |
| `SessionProof` | | proofs about `Session` |
| `Auth` | `Auth.c`, all of it, with the options `Arguments.c` lets through | specification and properties |
| `AuthProof` | | proofs about `Auth` |
| `Screen` | the operations of `Terminal.c` on cells, cursor and console | specification and properties |
| `ScreenProof` | | proofs about `Screen` |
| `ScreenLoops` | the loops behind those operations, turn by turn | algorithm and reference |
| `Parser` | `WolfSshTerminalFeed` and UTF-8 decoding, byte by byte | specification and properties |
| `Rendition` | `SelectGraphicRendition` and the colour approximations | algorithm and reference |
| `Terminal` | creation, size, reply queue and destruction of the terminal | specification and properties |
| `Keys` | `WolfSshTerminalReadKey` | algorithm and reference |
| `Texts` | what the conversions of `Arguments.c` compute | closed forms |
| `Conversions` | the loops of those conversions, turn by turn | algorithm, against `Texts` |
| `Arguments` | `WolfSshParseArguments` | algorithm and reference |
| `Compat` | allocator and random source of `UefiCompat.c` | specification and properties |
| `CStrings` | the C functions of `UefiCompat.c` that have a loop | algorithm and reference |
| `NetProxy` | the TCP flow of `src/tests/qemu_net_proxy.py` | specification and properties |
| `NetProxyProof` | | proofs about `NetProxy` |
| `TerminalParts` | `Parser`, `Rendition`, `Terminal`, `Keys`, `ScreenLoops` | all five in one specification |
| `ParserProof` | | proofs about `Parser` |
| `TerminalPartsProof` | | proofs about `Keys`, `Rendition`, `Terminal` and `ScreenLoops`, and the theorems about `TerminalParts` |
| `LibraryParts` | `Compat`, `CStrings`, `Arguments`, `Conversions` | all four in one specification |
| `LibraryPartsProof` | | proofs about all four, and the theorems about `LibraryParts` |
| `MCTcp4`, `MCSession`, `MCAuth`, `MCScreen`, `MCRendition`, `MCNetProxy`, `MCTerminal`, `MCLibrary` | | instances for TLC |

The parts that `TerminalParts` and `LibraryParts` bring together share no state. A
behaviour there is one of a single part, named by `active`, while the variables of
the others are off; so the states of the parts add up and do not multiply. Each
property of these two specifications is the conjunction of what the part's module
says of it, and the assumptions on the parts' constants are assumed, and evaluated,
there. `MCTerminal` and `MCLibrary` give them their small sets of inputs.

How they fit together: `Parser` issues the operations that are the actions of
`Screen`, with their parameters; `Rendition` computes the attribute that `Screen`
takes as given; `ScreenLoops` shows that the closed forms in `Screen` are what the
code's loops compute; `Conversions` does the same for `Texts`, which `Arguments`
uses; `Auth` starts from the option combinations that `ReadyToConnect` of
`Arguments` allows; `Session` treats a key as the bytes `Keys` produces and a reply
as what `Terminal` hands out; `Terminal` compares its size with the one
`UefiCompat.c` tells the server.

Each operator that stands beside a mapped definition and is not used by it (such
as `LeastUnclamped` next to `Least`) is a plausible mistake in that definition;
the list `mutants` says which property it breaks.

### Tcp4

`pc` is the control point of the program. A function that waits is split at every
point where the firmware may act in between and the difference is visible; a
helper with several callers (`WaitForCompletion`, `CancelToken`, `PostReceive`,
`WolfSshTcp4Close`) returns through `tok`, the token it is about, or `from`.
The fields of the socket keep their names; the event flags `RxDone`, `TxDone` and
the local `ConnectDone` are the set `Done`, and the pointers that are not NULL the
set `ptr`. `live`, `owned`, `link`, `arrived`, `taken` and `fin` belong to the
firmware and the peer. A byte is its position in the peer's stream, so a lost,
repeated or reordered byte shows in `delivered`.

The firmware is external. It completes the tokens it owns at any moment and in
any order with success or an error, may complete one before the call that queued
it has returned, and may report data and the end of stream in any combination TCP
allows. `Cancel` completes the token at once, later, or (`CancelHonoured = FALSE`)
never. A second request on an event already queued is refused, as
`EFI_ACCESS_DENIED` is by the protocol.

### Session

One action per way a call can go. wolfSSH is external: each call succeeds,
returns zero or fails with one of the errors the code tells apart, in any order.
`err` is what `wolfSSH_get_error` returns; it is not reset by calls that do not
fail, so a stale error can decide, as in the code. A byte for the server is its
number in the order in which replies and keys were taken, and `accepted` is what
the library took. `Flush` and `Stall` change nothing this module speaks of.
`failure` is a history variable: what failed in the session, and how many bytes of
replies were queued then. A connection that wolfSSH reports as lost is a failure too
(`transport`), although the code treats it like the server's end of file; a failed drain
of extended data becomes `redrained` when a later drain of the same burst succeeds.

### Auth

The library may exchange keys at any time and as often as it likes, and asks for
a password only after an exchange whose callback returned 0. SHA-256 is taken as
injective, so a key stands for its fingerprint. Polling the socket while a prompt
waits is a step of the transport and a stuttering step here; keys that a prompt
ignores are stuttering steps too. `RunAgain` ends the program and starts it with
new arguments in the same boot. `judged`, `confirmed`, `asked`, `complete` and
`released` are history variables.

### Screen

One action per control sequence with its parameters parsed. `Attribute` stands for
what `TerminalAttribute` computes from colours, bold and reverse. The loops that
copy rows and cells are written as the functions they compute. The console is
external: `ClearScreen` fills it with its current attribute, and `OutputString`
writes the cells it is given. When a flush writes the last cell of the last row, which
is the last it writes, the console may scroll by one row, as UEFI has it, or stay;
`displaced` says that it has scrolled since it was last cleared. The initial console
shows the shell's text, because `WolfSshTerminalCreate` clears the buffers only.

### ScreenLoops

One behaviour is one call of a function with a loop. A row or cell is known by the
place where it was, so that a wrong direction, a wrong end or an overlap shows. The
flush goes run by run through a dirty range, with every pattern of attributes;
writing past `RenderBuffer` sets `overrun`.

### Parser

A byte is its value and one step feeds one byte: all that outlives a byte is in the
structure, so the division into network buffers makes no difference. `issued` holds
the operations of the last byte. The properties read `fed`, the history of bytes,
and find the sequences and characters in it by their definitions, without the
parser's states: every definition by position (`Payload`, `CsiFrom`, `Awaits`,
`Spelled`, `Decoded`, ...) takes the input it reads as an argument.

### Rendition

One step per turn of the loop over the parameters. `LastGroupDecides` splits the
same list into groups by a definition of its own and says which group decides each
part of the style.

### Terminal

The life of the structure: the size the server is told before the terminal exists,
the size it takes, its six pieces of memory, each of which may be refused, the
console's attribute and cursor before and after, and the queue of replies. A byte
of a reply is the number of the reply and its place in it.

### Keys

One behaviour is one call with one key and one size of the caller's buffer. The
tables are those of the code, the property decodes what they yield.

### Texts, Conversions, Arguments

A text is the sequence of its code units. `Conversions` takes one code unit per step
and keeps the destination as a function, so that a write outside the array adds to
its domain. `Arguments` takes one turn of the loop per step; the reference finds the
values of the options in the whole line at once. `NetLibAsciiStrToIp4` is external:
a set of texts is what it accepts.

### Compat

The pool is external: `AllocatePool` takes any free slot or fails, and what is in a
free slot is up to the firmware. Other users of the pool allocate and free
too. Callers follow the rules of C, except that they may free or reallocate a block
once more, as long as this library has not allocated its place again.

### CStrings

One behaviour is one call that the C standard allows, one step one turn of the loop;
reading or writing outside an array sets `astray`.

### NetProxy

The two asyncio tasks run from one `await` to the next; `handler` says at which one
the frame task is. The link to QEMU is a stream socket, so that frames are neither
lost nor reordered, but the guest's TCP (external) repeats segments and its SYN,
closes with or without data, and resets. Writing to a host that is gone may raise, which
ends the link in the middle of a frame (`DrainFails`), and what the `StreamReader` has
when the proxy closes the connection may still be read. Numbers count modulo a small `Modulus`, and
start next to the wrap.

## Runs

| Run | Instance | Question and result |
|---|---|---|
| `tcp4_stream` | 2 handles, 3 bytes through a buffer of 2, any firmware | Bytes arrive in order and once, the end is final, nothing leaks on any error path, the transport implements `ByteStream`. Holds. |
| `tcp4_tokens` | the same with 2 bytes, `Cancel` honoured | No token is reused and no event closed while the firmware has it. Holds; it would not for a firmware that ignores `Cancel`. |
| `tcp4_progress` | 1 handle, 2 bytes, any firmware, fair program | Every call returns; a reader that keeps reading gets all that arrived. Holds. |
| `session` | buffers of 2 bytes, 2 tries of each loop, bursts of 2, 2 keys, fair program | Output in order (`OutputInOrder`), lifetimes that nest and a complete cleanup (`ResourcesKept`), reported failures (`FailureReported`), and a way back to the shell by Ctrl+] or `Finished` (`ReturnsToShell`). Holds, with the exceptions the properties name. |
| `auth_safety` | 2 host keys, passwords up to 2 characters, 2 runs | Trust before password, final decisions, one prompt, nothing partial. Holds. |
| `auth_boot` | the same, smaller | The prompt's "for this boot". **Violated**: see below. |
| `screen_scroll` | 3x2 cells, 6 operations that scroll | The text of the region moves as one piece and nothing outside it moves (`ScrollStaysInRegion`); clean cells are on the console (`CleanCellsShown`). Holds, with the exceptions named. |
| `screen_edit` | 2x3 cells, 6 other operations, 2 attributes | The console keeps up; the primary screen is kept; a wrap is pending only at the edge. Holds, with the exceptions named. |
| `terminal` | see below | Bytes mean what they spell (`FeedAsSpelled`), the last rendition decides (`LastGroupDecides`), replies keep their order (`RepliesKept`), the terminal's life leaves nothing behind (`LifeInOrder`), keys arrive (`KeysArrive`), the loops compute what `Screen` says (`LoopsAsSpecified`). Holds, with the exceptions named. |
| `library` | see below | Memory and random bytes are what the callers were told (`ServicesKept`), the C functions are the standard's (`AsStandardSays`), the command line is read as it is meant (`ReadAsMeant`), the conversions are exact (`LoopsCompute`). Holds, with the exceptions named. |
| `proxy` | 3 and 2 bytes, segments of 2, 1 repeat, 2 SYNs, modulus 10, fair tasks | Both streams in order with the end last (`StreamsInOrder`), one segment under way (`OneInFlight`), everything arrives (`EverythingArrives`). Holds, with the exceptions named. |
| `rendition_names` | 3 parameters of the palette | The named colours of the palette. **Violated**: see below. |

The instance of `terminal`: inputs of six bytes from 7 for strings, of eight bytes
from 5 for numbers (2 parameters, limit 10), of five bytes from 11 for UTF-8; lists of
five rendition parameters from 9 values; console sizes around both limits with every
failing query and allocation; a queue of five with three replies of 1 or 3 bytes, read
2 or 5 at a time; all scan codes, 13 characters at the limits of the encodings and 7
capacities; arrays of five with all ranges, counts and three attributes.

The instance of `library`: 3 slots, sizes 0, 1, 6 and 7 where 6 is the largest that
leaves room for a header, 2 writes; arrays of four bytes over 0, 1 and 200; command
lines of up to five of 13 words; ports of up to six characters around 65535; names and
digests of up to four characters with fields of four and digests of two.

**Why the bounds are enough.** The transport's buffer of two with three bytes has
a full buffer, a partial read, a second receive behind unread data and an end
after both; two handles let the first fail at each step and the second be tried
with what it left. A poll delay of 2 against timeouts of 3 and 1 makes the last
stall shorter than the delay, which is where `Remaining` could wrap. Two tries
reach both sides of every retry limit. Two keys put the exit key behind a key that
cannot be sent. Three rows are the smallest screen with a region that has rows
outside it, three columns the smallest row with an inside; six operations suffice
to draw, flush, change colour, switch or clear, draw and leave again. The parser
forgets everything but one sequence or character, so that inputs of six bytes hold a
sequence, what cuts it short, and text after it; two parameters with a limit of 10
reach both ends of the array and of a number with eight bytes. A queue of five is
overrun by two replies of three. Three slots let a reallocation succeed next to a
block of someone else. Five words hold two options with values and a target, in
every order. A modulus of 10 with numbers that start at 8 wraps in both directions of
the flow within its first bytes, and is still more than twice a segment, as 2^32 is.
The theorems below do away with the bounds of every safety property.

`CHECK_DEADLOCK FALSE` stands where the program returns (`Tcp4`, `Session`,
`Terminal`), where a behaviour is one call (`ScreenLoops`, `Rendition`, `Keys`,
`Conversions`, `Arguments`, `CStrings`) and where the supply of inputs ends
(`Parser`, `Compat`, `NetProxy`). `Auth` and `Screen` can always take a step.

**Fairness.** `WF_vars(Program)` says that the processor goes on; nothing is
assumed of firmware, server, library or user, except in `ReadingSpec`, where the
reader keeps calling and the firmware hands over data it has, as a session that
runs does. In `LiveSpec` of `NetProxy` asyncio runs each task that is ready, the
test server sends its output and closes, and the guest's TCP takes what arrives; the
guest need not send, close or repeat.

**The findings.**

- The host-key question reads "Accept this host key for this boot? [y/N]"
  (`Auth.c:140`), and `src/README.md` says that one must confirm again after a
  reboot. The decision lives in `WOLFSSH_UEFI_AUTH`, which `UefiMain` zeroes on every
  start (`Main.c:303`): `auth_boot` shows a user who accepts a key, starts the
  program again in the same boot and is asked again.
- `src/README.md:219` promises an approximation of 256-colour values. `Map256Color`
  returns the first sixteen palette numbers as they are (`Terminal.c:372`), although
  UEFI counts blue as 1 and red as 4: `rendition_names` shows palette entry 1, red,
  displayed as blue. `ESC [ 31 m` and `ESC [ 38;5;1 m` go the same way.

**Exceptions the properties state.** They are what the code does, and a reader of
the code should know them.

- A lost connection ends the session without an error; an error of receiving or draining
  is overwritten by the status of replies sent after it, and that of a drain also by a
  later drain (`FailureReported`).
- The returns before `wolfSSH_Init` succeeded leave a password given with `-P` in memory
  (`LeavesNothing`).
- Ownership of tokens depends on `Cancel` (`TokensQuiescent`, `NoDanglingEvent`).
- Blanks may show the colour with which the console was cleared, and the shell's text
  stays where nothing was drawn (`CleanCellsShown`).
- The terminal uses all rows and columns of the console (`Terminal.c:1083`) and writes
  the last cell of the last row like any other (`Terminal.c:1175`). By UEFI's rules that
  scrolls the display. Scrolling the whole screen, leaving the alternate screen and
  erasing to the end of the screen all mark the whole last row, so that the next flush
  moves everything up by a row; the terminal takes its rows for clean and later
  writes only what changes, a row too low. Only `ClearScreen` puts it right. Of such a
  console `CleanCellsShown` says nothing between the scroll and the next `ClearScreen`; it
  speaks of consoles that keep the cursor in the last cell.
- `ESC 8` and `ESC c` keep a pending wrap (`WrapAtEdge`).
- Of the control strings the parser knows operating-system commands only, although
  `src/README.md:221` speaks of titles "and similar sequences": the payload of DCS, SOS,
  PM and APC strings is drawn as text (`PayloadHidden`, `Terminal.c:1024`).
- The digits of a seventeenth parameter go to the sixteenth (`SequenceSpelled`).
  Overlong forms and C1 controls reach cells (`CellsShowable`).
- A console of more than 65535 columns or rows is told to the server but not used
  (`SizesAgree`). The blink bit of the shell's attribute is dropped, and a terminal
  that could not be made leaves attribute 0, black on black (`ConsoleRestored`).
- A caller with no room at all is told that 1 would do for any character
  (`NothingCut`).
- A header cannot tell a freed block from one allocated at its place since
  (`PoolIntact`).
- A second SYN gets a new sequence number (`OneInFlight`, `StreamComplete`), and a
  FIN that carries data is acknowledged only once it is repeated (`FinAcknowledged`).

## Proofs

A theorem holds for every value of the constants that the named assumptions allow.
Where a run checks the property on an instance, `theorems` of `PROJECT.json` names it.

### Transport (`Tcp4Proof`)

From `SizeAssumption`, `TimeAssumption` and `CancelAssumption` (sizes and delays are
naturals, buffers and the poll delay not zero), for any number of handles and any
firmware:

- `TypeCorrect`: `Spec => []TypeOK`. No wait underflows and no copy leaves `RxBuffer`.
- `StreamCorrect`, `EofCorrect`: `StreamIntegrity` and `EofIsFinal`.
- `Refinement`: `Spec => ImplementsByteStream`.
- `LeakFree`: `NothingLeaks`.
- `TokensReturned`, `EventsOutliveTokens`: `TokensQuiescent` and `NoDanglingEvent`, which
  are theorems about a firmware with `CancelHonoured`; the property says so itself.

`StreamIntegrity` is not inductive: it says nothing of where the bytes in flight
are, nor of when the firmware may write into `RxBuffer`. The invariant `IInv` adds

- `Ownership`: which tokens the firmware can have at each control point, and that
  a connection attempt starts with nothing of the last one;
- `RxState`: while streaming the receive token is at the firmware, completed with
  its flag set, or not posted, and it is posted only with `RxBuffer` drained. This
  is the fact that makes sharing one buffer safe;
- `Contents` and `Conserved`: the unread part of `RxBuffer` is the next piece of
  the stream, and delivered, unread and unharvested bytes add up to `taken`;
- `EndSeen`: an end that was seen means that everything sent was taken.

Each part is a lemma of its own, with a step per action (`TypeCorrect`,
`OwnershipStep`, `RxStateStep`, `ConservedStep`, `ContentsStep`, `InOrderStep`,
`EndSeenStep`, `EofStep`), `Invariance` puts them together, and `StreamStep` maps
every step to one of `ByteStream` or to a stutter. `NothingLeaks` needs to know what is
held at every control point of `WolfSshTcp4Connect` and of the close, and
which of its pointers are set; the two properties of the tokens need to know which
control points a token still at the firmware can reach, and that is none once
`Cancel` has been waited for.

### Session (`SessionProof`)

From `LimitAssumption` (the limits and lengths are naturals, most of them not zero):
`TypeCorrect` (`TypeOK`), `SendsInOrder` (`OutputInOrder`), `CleanupComplete`
(`ResourcesKept`) and `FailuresReported` (`FailureReported`). Around them `IInv` has

- `Possession`: what `UefiMain` holds before each of its steps. It also says that the
  cleanup starts its retries at zero when there is no session to close, without which
  `TypeOK` is not inductive;
- `Output`: at most what was issued is on its way, and a `SendAll` that failed is the
  last of its session, so that nothing can follow the gap it leaves;
- `Reported`: a failure stands in `Status` until it is returned, unless it is a lost
  connection, was followed by a drain that succeeded, or left a reply to send.

### Authentication (`AuthProof`)

From `AuthAssumption`, for any set of keys, password capacity and number of runs, all
that `auth_safety` checks: `TypeCorrect`, `TrustCorrect` (`TrustBeforePassword`),
`DecisionCorrect` (`DecisionFinal`), `NoPartialCorrect` (`NoPartialPassword`) and
`AskedOnceCorrect` (`AskedOnce`). `KeyInv` adds to them that an exchange was agreed
only with an accepted key, that a key is judged at most once and satisfies the mode of
the run when accepted, and what holds while a question is open: `HostKeyChecked` is
already set then, and only `HostKeyAccepted` keeps the password back. `PasswordInv`
says that a password marked as present is complete.

### Screen (`ScreenProof`)

From `ScreenAssumption`, for every screen size and any cells and attributes:
`TypeCorrect` (`TypeOK`), `ConsoleRepaired` (`CleanCellsShown`), `PrimaryPreserved`
(`PrimaryKept`), `WrapOnlyAtEdge` (`WrapAtEdge`) and `ScrollingConfined`
(`ScrollStaysInRegion`). The argument for `CleanCellsShown`, which with the types is
inductive, is that every operation marks what it writes: an operation is a new grid and
a set of marks (`Marks`), the lemmas on filling and moving cells say that outside the
marks the new grid shows what the old one did (`Agrees`), and then whatever is not dirty
after the step was shown already. A flush either shows everything or lets the console
scroll, and then the property is silent until `ClearScreen`, after which the console and
the buffer in use are both blank.

`ScrollStaysInRegion` says where the old rows go, and the model, like the code, where the
new ones come from; `UpMoves` and `DownMoves` turn one into the other for any count, the
whole region included. `BelowFollows` and `AboveFollows` compare the cursor with the text
that moved under it, `PutMoves` joins the two for a character that wraps first, and
`TextStep` goes through the operations.

### Parts of the terminal (`ParserProof`, `TerminalPartsProof`)

From `PartsAssumption` of `TerminalParts`, which is the assumptions of the five parts:
inputs, parameter lists, rows, screens, replies, consoles and buffers of any length.
`Inv` says that the active part keeps the invariant of its own module; `InvStep` takes
each part's step apart, and each theorem reads its property off that invariant.

- `KeyboardFaithful` (`KeysArrive`). The result of a call is `Answer` of the key
  (`KeysInv`), so the rest is about the tables and the encoding. `MappedMarks` says by
  which byte two special keys differ, `EncodedDecodes` that a server that decodes UTF-8
  gets the character back (from `Arithmetic`: shifts and masks are division and
  remainder), and `SuccessForms` keeps a typed character apart from a special key.
- `RenditionLastGroup` (`LastGroupDecides`). The groups of a parameter list are
  chosen by an equation: a place is one exactly when it is the first or the next after
  a group. `GroupsFollow` shows that such a set exists (the least one closed under
  that rule), so that the choice has the equation's properties; that no group begins
  inside another is not a matter of one step: `NoGroupInside` takes a least
  counterexample. `RenditionInv` then says that each part of the style is what
  the last group behind the loop that speaks of it says.
- `FeedSpelled` (`FeedAsSpelled`). The parser keeps one state and a few numbers, the
  property speaks of all bytes so far, by position; `ParserInv` relates the two. Its
  `PlacesKnown` says that the state tells what the next byte belongs to: the last byte
  is ESC exactly in the states that wait for what follows one (`EscapeSeen`), a string
  is open exactly in the states of a string (`StringSeen`, `StringKept`), a control
  sequence exactly in `Csi` (`SequenceSeen`). `CharacterSeen` says how many bytes the
  character begun last still misses and that `Utf8CodePoint` is what `Decoded` makes of
  those that came; `ParametersSeen` that the parameters, their count and the private
  mark are what the bytes since the bracket spell (`Holds`). What a byte is depends on
  the bytes before it alone, so what was said of `fed` can be said of the longer input
  (`PlacesAgree`, `SpelledAgrees`, `BlankAgrees`), and one more byte extends each
  definition by one case: `CsiGrows`, `AwaitsGrows`, `SlotGrows`, `SpelledGrows`,
  `DecodedGrows`. `ByteMoves` gives what each byte does to the state, the character and
  the parameters; the steps of the invariant compare the two (`HoldsMore`,
  `CharacterGoesOn`). `PointFits` bounds the code point by the bytes it still misses.
- `RepliesOrdered` (`RepliesKept`) and `LifeOrdered` (`LifeInOrder`). `Numbered` and
  `Counted` relate what was taken, what is queued and the numbers of the queries; `Told`
  relates the size told to the console's; `Console` says that until the terminal is open
  the shell's console is untouched, and what it saves then.
- `LoopsCorrect` (`LoopsAsSpecified`). `Settled` names the places that already are as
  the move is to leave them, on the side of `Position` that the loop comes from; `Moving`
  says that these hold what they are to hold and every other place still holds its own,
  so that the source of the next copy is intact. `Flushing` says that the range is shown
  up to `Position` and that the run from there to `RunEnd` has one attribute.
- `TypeCorrect` (`TypeOK`).

### Library and command line (`LibraryPartsProof`)

From `PartsAssumption` of `LibraryParts`: any word, header and finite pool as long as
the header fits in a word and no block is at the null pointer; arrays, texts and command
lines of any length.

- `StringsFollowTheStandard` (`AsStandardSays`). One invariant for each function,
  for the bytes the loop has passed: they are `Alike` (comparisons), not zero
  (`Scanned`), copied (`CopiedSoFar`) or appended (`AppendedSoFar`).
- `ConversionsCompute` (`LoopsCompute`). Number and digits of a text are recursive
  functions over its prefixes (`Spelled`, `Kept`). `SpelledIs` and `KeptIs` show that
  they exist and satisfy their equations; the loop's variables are then their values
  at `Index` (`CopyTurns`, `PortTurns`, `FingerprintTurns`). What a loop that stops early
  has not read cannot make the text acceptable: `SpelledGrows` and `KeptGrows`.
- `CommandLineIsUnderstood` (`ReadAsMeant`). The reference looks at the whole line, the
  loop has seen the words before `Index`. `ReadBefore` restricts every definition of the
  reference to those words: the values of each option so far, the switches, the target
  and the well-formedness. `NextIsValue` gives `IsValue`, which looks back over a run of
  option words, a step: a word is a value exactly when the one before it is an option
  word and no value. After the last word the restriction says nothing less
  than the reference (`AllRead`), and `FinishDecides` compares the checks at the end of
  `WolfSshParseArguments` with `Connects`.
- `CallersKeepTheirBlocks` (`ServicesKept`). `Pool`, which is `TypeOK` with
  `HeldIsAllocated` and `PoolIntact`, is inductive. `Contents` adds to `ContentKept` that
  an owner counts on no more than the block holds, which is what lets
  `UefiCompatReallocate` stop its copy at the smaller of the two sizes.
- `TypeCorrect` (`TypeOK`).

### Proxy (`NetProxyProof`)

From `NetProxyAssumption` (an even word that holds two chunks, twice the number of SYNs,
and the guest's stream, which is what makes a sequence number name one byte; the host's
stream may be of any length and go round the word as often as it likes):
`StreamsCorrect` (`StreamsInOrder`) and `SingleFlight` (`OneInFlight`).

Neither is inductive: both depend on every acknowledgement that is under way. The
invariant `IInv` follows the connection.

- `Opening`: before the guest has its connection there are only SYNs and answers to
  them, one for each SYN sent, and their sequence numbers count up.
- `Upward`: every segment of the guest carries nothing, its FIN, or a byte with the
  number of that byte (`Said`), the one in the hands of the frame task too (`Handling`),
  and the host has got exactly the bytes below `guest_next` (`Passed`).
- `SynsFirst`: repeated SYNs come before anything else the guest sends, so `guest_next`
  is not set back under data.
- `Flow`, as long as there was one SYN: either all has `Arrived`, or one segment is
  `Flying` and every acknowledgement under way is from before it. `Acks` bounds how old
  those can be: by a chunk. `AckDecides` shows that the comparison of `handle_tcp`, a
  signed distance in the word, accepts exactly the current one of them, and `AckArrived`
  that nothing is on the way then.
- `Stuck`, after a second SYN: the guest expects a number that `server_next` has passed,
  `AckDecides` refuses every acknowledgement, and nothing more is sent.

Every part has a lemma for the steps of the frame task, of the reader and of the guest
(`UpwardFrame`, `UpwardRead`, `UpwardGuest`, ..., `FlowFrame`, `FlowRead`, `FlowGuest`).
Once the link is down, because QEMU has gone or the frame task has raised (`LinkEnds`),
only the two properties are kept (`DownStep`).

### Induction without an induction theorem

The theorems of the library for induction take the property as an operator, which the
provers cannot instantiate. `LeastNat` is what the proofs use in its place: a set of
naturals that is not empty has a least member (from `WFMin` and the order on the
naturals). A property that holds up to some number and fails at a later one fails first
somewhere, and one step before that it held. `UpTo` states it for the prefixes of a
text and `UpFrom` for an interval; `SpelledIs` and `KeptIs`, `NumberIs`, `NumberAgrees`
and `NumberStays`, and `NoGroupInside` rest on it. It takes a proof by hand for every
recursive definition.

### Only model-checked

- Liveness under fairness: `CallsReturn`, `ReadsEveryByte`, `ReturnsToShell` and
  `EverythingArrives`. It is outside the prover's reach.

## Not modelled

- The SSH protocol and its cryptography are wolfSSH's and wolfCrypt's.
- `memcpy`, `memmove` and `memset` are single calls of `BaseMemoryLib`; the usage text
  and all other wording have no property.
- The proxy's answers to ARP and DHCP are functions of one frame. A second QEMU that
  connects to the same proxy, which the test never starts, is left out.
- The test server is a script on top of asyncssh; the shell scripts run external tools
  one after the other; the link markers, the build description, the binaries and the
  validation logs have no state.
- A server whose standard error cuts into a sequence of its standard output is outside
  the modules: for the parser the two are one stream.
- Two things are left to the other side's choice, and no property speaks of them:
  whether wolfSSH can take in a window adjustment while `SendAll` retries without
  reading (`Main.c:57`), and whether the firmware answers `Receive` on a closed stream
  with `EFI_CONNECTION_FIN`, which the callback reports as a general error
  (`Tcp4.c:361`).

## Plan

1. `Tcp4`, `ByteStream`, `Tcp4Proof`; `Session`; `Auth`, `AuthProof`; `Screen`,
   `ScreenLoops`, `Parser`, `Rendition`, `Terminal`, `Keys`; `Arguments`, `Texts`,
   `Conversions`; `Compat`, `CStrings`; `NetProxy`: done.
2. Proofs of every safety property that a run checks: done.
3. A composition of `Session`, `Auth` and the abstract stream would show the order of
   their callbacks in one behaviour; each of them already takes the others as able to
   do anything.
