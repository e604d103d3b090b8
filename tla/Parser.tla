-------------------------------- MODULE Parser --------------------------------
(***************************************************************************)
(* From bytes to operations: WolfSshTerminalFeed with the states of its    *)
(* escape-sequence parser, the parameters of a control sequence and the    *)
(* decoding of UTF-8 (Terminal.c).                                         *)
(*                                                                         *)
(* A byte is its value.  One step feeds one byte: everything that outlives *)
(* a byte is in the terminal structure, so how the bytes are divided among *)
(* calls makes no difference.  `issued' holds the operations that the last *)
(* byte caused; what each of them does to the screen is module Screen.     *)
(***************************************************************************)
EXTENDS Integers, Sequences, FiniteSets, FiniteSetsExt

CONSTANTS
    Inputs,         \* kinds of input: the bytes each consists of and its length
    MaxParams,      \* TERMINAL_MAX_PARAMS
    ValueLimit      \* a parameter that has reached it takes no more digits

ParserAssumption ==
    /\ \A input \in Inputs : input.bytes \subseteq 0 .. 255 /\ input.length \in Nat
    /\ MaxParams \in Nat \ {0, 1} /\ ValueLimit \in Nat \ {0}

VARIABLES
    ParserState,
    Parameters, ParameterCount, PrivateCsi,
    Utf8Remaining, Utf8CodePoint,
    issued,         \* operations caused by the last byte
    fed             \* every byte so far

numbers == <<Parameters, ParameterCount, PrivateCsi>>
utf8    == <<Utf8Remaining, Utf8CodePoint>>
vars    == <<ParserState, numbers, utf8, issued, fed>>

ESC == 27
BEL == 7
Controls  == {8, 9, 10, 13}     \* BS TAB LF CR
Printable == 32 .. 126
Digits    == 48 .. 57           \* 0 .. 9
Semicolon == 59
Question  == 63
Finals    == 64 .. 126          \* @ .. ~
LeftBracket  == 91
Backslash    == 92
RightBracket == 93
Escapes == {55, 56, 68, 69, 77, 99}     \* 7 8 D E M c

Replacement == 65533

-----------------------------------------------------------------------------
(***************************************************************************)
(* UTF-8.                                                                  *)
(***************************************************************************)
IsContinuation(b) == b \in 128 .. 191

\* How many bytes follow this one, and the bits it contributes.
Following(b) ==
    CASE b \in 192 .. 223 -> 1 [] b \in 224 .. 239 -> 2 [] b \in 240 .. 247 -> 3
      [] OTHER -> 0
LeadBits(b) ==
    CASE b \in 192 .. 223 -> b % 32 [] b \in 224 .. 239 -> b % 16 [] OTHER -> b % 8

\* Cells hold UCS-2.
EmitCodePoint(cp) ==
    <<"Put", IF cp = 0 \/ cp > 65535 \/ cp \in 55296 .. 57343 THEN Question ELSE cp>>

\* A byte of text outside any multibyte character.
DrawsDelete(b) ==
    IF b \in Controls THEN << <<"Control", b>> >>
    ELSE IF b \in Printable \cup {127} THEN << <<"Put", b>> >> ELSE << >>
TextByte(b) ==
    CASE b \in Controls  -> << <<"Control", b>> >>
      [] b \in Printable -> << <<"Put", b>> >>
      [] OTHER           -> << >>

-----------------------------------------------------------------------------
(***************************************************************************)
(* WolfSshTerminalFeed, one action per case.                               *)
(***************************************************************************)
Bytes == UNION {input.bytes : input \in Inputs}
Feed(b) ==
    /\ fed' = Append(fed, b)
    /\ \E input \in Inputs :
         Len(fed') =< input.length /\ \A n \in DOMAIN fed' : fed'[n] \in input.bytes

\* ESC is looked at before the state; it drops an unfinished character.
FeedEscByte ==
    /\ Feed(ESC) /\ ESC \in Bytes
    /\ issued' = << >>
    /\ IF ParserState \in {"Osc", "OscEscape"}
       THEN ParserState' = "OscEscape" /\ UNCHANGED Utf8Remaining
       ELSE ParserState' = "Escape" /\ Utf8Remaining' = 0
    /\ UNCHANGED <<numbers, Utf8CodePoint>>

\* HandleGroundByte.  A byte that cannot continue the character before it
\* replaces that character and is then read as if it came first.
SwallowInterrupting(b) ==
    IF Utf8Remaining = 0 THEN TextByte(b) ELSE << <<"Put", Replacement>> >>
GroundByte(b) ==
    (IF Utf8Remaining = 0 THEN << >> ELSE << EmitCodePoint(Replacement) >>) \o TextByte(b)

FeedText ==
    /\ ParserState = "Ground"
    /\ \E b \in Bytes \ {ESC} :
         /\ Feed(b)
         /\ Utf8Remaining = 0 \/ ~IsContinuation(b)
         /\ issued' = GroundByte(b)
         /\ Utf8Remaining' = Following(b)
         /\ Utf8CodePoint' = IF Following(b) = 0 THEN Utf8CodePoint ELSE LeadBits(b)
    /\ UNCHANGED <<ParserState, numbers>>

FeedContinuation ==
    /\ ParserState = "Ground" /\ Utf8Remaining # 0
    /\ \E b \in Bytes :
         /\ Feed(b)
         /\ IsContinuation(b)
         /\ Utf8CodePoint' = Utf8CodePoint * 64 + (b % 64)
         /\ Utf8Remaining' = Utf8Remaining - 1
         /\ issued' = IF Utf8Remaining = 1 THEN << EmitCodePoint(Utf8CodePoint') >>
                                           ELSE << >>
    /\ UNCHANGED <<ParserState, numbers>>

\* The byte after ESC; ResetParser forgets the last sequence's parameters.
KeepPrivate ==
    /\ Parameters' = [i \in 1 .. MaxParams |-> -1]
    /\ ParameterCount' = 1 /\ UNCHANGED PrivateCsi
ResetParser ==
    /\ Parameters' = [i \in 1 .. MaxParams |-> -1]
    /\ ParameterCount' = 1 /\ PrivateCsi' = FALSE

UnknownKeepsState(b) ==
    CASE b = LeftBracket -> "Csi" [] b = RightBracket -> "Osc"
      [] b \in Escapes -> "Ground" [] OTHER -> "Escape"
AfterEscape(b) ==
    CASE b = LeftBracket -> "Csi" [] b = RightBracket -> "Osc" [] OTHER -> "Ground"

FeedEscape ==
    /\ ParserState = "Escape"
    /\ \E b \in Bytes \ {ESC} :
         /\ Feed(b)
         /\ ParserState' = AfterEscape(b)
         /\ issued' = IF b \in Escapes THEN << <<"Esc", b>> >> ELSE << >>
         /\ IF b = LeftBracket THEN ResetParser ELSE UNCHANGED numbers
    /\ UNCHANGED utf8

\* A digit goes to the parameter begun last.
AddDigit(b) ==
    LET v == Max({Parameters[ParameterCount], 0})
    IN Parameters' = [Parameters EXCEPT ![ParameterCount] =
                        IF v < ValueLimit THEN v * 10 + (b - 48) ELSE v]

CsiDigit ==
    /\ ParserState = "Csi"
    /\ \E b \in Bytes \cap Digits : Feed(b) /\ AddDigit(b)
    /\ issued' = << >>
    /\ UNCHANGED <<ParserState, ParameterCount, PrivateCsi, utf8>>

\* Once the array is full a separator starts no parameter.
StartPastTheEnd == ParameterCount' = ParameterCount + 1
StartParameter ==
    ParameterCount' = IF ParameterCount < MaxParams THEN ParameterCount + 1
                                                    ELSE ParameterCount

CsiSemicolon ==
    /\ ParserState = "Csi"
    /\ Semicolon \in Bytes /\ Feed(Semicolon)
    /\ StartParameter
    /\ Parameters' = IF ParameterCount < MaxParams
                     THEN [Parameters EXCEPT ![ParameterCount + 1] = -1] ELSE Parameters
    /\ issued' = << >>
    /\ UNCHANGED <<ParserState, PrivateCsi, utf8>>

\* HandleCsi gets the final byte and the parameters.
CsiFinal ==
    /\ ParserState = "Csi"
    /\ \E b \in Bytes \cap Finals :
         /\ Feed(b)
         /\ issued' = << <<"Csi", b, PrivateCsi, SubSeq(Parameters, 1, ParameterCount)>> >>
    /\ ParserState' = "Ground"
    /\ UNCHANGED <<numbers, utf8>>

\* A question mark counts only before all else; other bytes are ignored.
CsiOther ==
    /\ ParserState = "Csi"
    /\ \E b \in Bytes \ (Digits \cup Finals \cup {ESC, Semicolon}) :
         /\ Feed(b)
         /\ PrivateCsi' = (PrivateCsi \/ (b = Question /\ ParameterCount = 1
                                                       /\ Parameters[1] < 0))
    /\ issued' = << >>
    /\ UNCHANGED <<ParserState, Parameters, ParameterCount, utf8>>

\* An operating-system command ends with BEL, or ESC and a backslash.
EndsAfterEscape(b) == "Ground"
AfterOscEscape(b) == IF b = Backslash THEN "Ground" ELSE "Osc"

FeedOsc ==
    /\ ParserState \in {"Osc", "OscEscape"}
    /\ \E b \in Bytes \ {ESC} :
         /\ Feed(b)
         /\ ParserState' = IF ParserState = "OscEscape" THEN AfterOscEscape(b)
                           ELSE IF b = BEL THEN "Ground" ELSE "Osc"
    /\ issued' = << >>
    /\ UNCHANGED <<numbers, utf8>>

\* WolfSshTerminalCreate zeroes the structure and resets the parser.
Init ==
    /\ ParserState = "Ground"
    /\ Parameters = [i \in 1 .. MaxParams |-> -1]
    /\ ParameterCount = 1 /\ PrivateCsi = FALSE
    /\ Utf8Remaining = 0 /\ Utf8CodePoint = 0
    /\ issued = << >> /\ fed = << >>

FeedCsi == CsiDigit \/ CsiSemicolon \/ CsiFinal \/ CsiOther
Next == FeedEscByte \/ FeedText \/ FeedContinuation \/ FeedEscape \/ FeedCsi \/ FeedOsc
Spec == Init /\ [][Next]_vars

-----------------------------------------------------------------------------
(***************************************************************************)
(* The same language described by position, without states: what byte j    *)
(* of the input s is follows from the bytes before it.                     *)
(***************************************************************************)
IsPair(s, i, b) == s[i] = ESC /\ s[i + 1] = b

\* Byte k closes the string that began at i: a BEL or, after ESC, a backslash.
\* A BEL straight after ESC does not.
Closes(s, i, k) ==
    IF k > i + 2 /\ s[k - 1] = ESC THEN s[k] = Backslash ELSE s[k] = BEL

\* j belongs to an operating-system command.
Payload(s, j) ==
    \E i \in 1 .. j - 2 :
      IsPair(s, i, RightBracket) /\ \A k \in i + 2 .. j - 1 : ~Closes(s, i, k)
AfterEsc(s, j) == j > 1 /\ s[j - 1] = ESC /\ ~Payload(s, j)

\* j belongs to the control sequence whose bracket is byte i.
CsiFrom(s, i, j) ==
    /\ i \in 2 .. j - 1 /\ AfterEsc(s, i) /\ s[i] = LeftBracket
    /\ \A k \in i + 1 .. j - 1 : s[k] # ESC /\ s[k] \notin Finals
InCsi(s, j) == \E i \in 2 .. j - 1 : CsiFrom(s, i, j)

Text(s, j) == ~Payload(s, j) /\ ~AfterEsc(s, j) /\ ~InCsi(s, j) /\ s[j] # ESC

\* The character that byte i of the text begins still misses byte j.
Awaits(s, i, j) ==
    /\ i < j /\ Text(s, i) /\ Following(s[i]) >= j - i
    /\ \A k \in i + 1 .. j - 1 : IsContinuation(s[k])

\* Separators and digits of the sequence from bracket i to final byte j; the slot
\* of the array into which byte k goes, and the number its digits up to k make.
Slot(s, i, k) == Min({1 + Cardinality({m \in i + 1 .. k - 1 : s[m] = Semicolon}), MaxParams})
DigitsOf(s, i, j, n) == {k \in i + 1 .. j - 1 : s[k] \in Digits /\ Slot(s, i, k) = n}
Number(s, i, j, n) ==
    LET value[k \in i .. j - 1] ==
          IF k = i THEN 0
          ELSE IF s[k] \in Digits /\ Slot(s, i, k) = n THEN value[k - 1] * 10 + (s[k] - 48)
          ELSE value[k - 1]
    IN value
Spelled(s, i, j, n) ==
    LET D    == DigitsOf(s, i, j, n)
        full == {k \in D : Number(s, i, j, n)[k] >= ValueLimit}
    IN IF D = {} THEN -1
       ELSE Number(s, i, j, n)[IF full = {} THEN j - 1 ELSE Min(full)]
Blank(s, i, j) == \A k \in i + 1 .. j - 1 : s[k] \notin Digits \cup {Semicolon}
SpelledPrivate(s, i, j) == \E k \in i + 1 .. j - 1 : s[k] = Question /\ Blank(s, i, k)

\* The value of the character whose bytes are i to j, and what stands for it.
Bits(s, k) == s[k] - 128
Decoded(s, i, j) ==
    CASE j = i     -> LeadBits(s[i])
      [] j = i + 1 -> LeadBits(s[i]) * 64 + Bits(s, j)
      [] j = i + 2 -> LeadBits(s[i]) * 64 * 64 + Bits(s, i + 1) * 64 + Bits(s, j)
      [] j = i + 3 -> LeadBits(s[i]) * 64 * 64 * 64 + Bits(s, i + 1) * 64 * 64
                        + Bits(s, i + 2) * 64 + Bits(s, j)
Shown(cp) == IF cp \in (1 .. 65535) \ (55296 .. 57343) THEN cp ELSE Question

-----------------------------------------------------------------------------
(***************************************************************************)
(* Properties.                                                             *)
(***************************************************************************)
last == Len(fed)

\* Every variable has its type: ParameterCount indexes Parameters, a parameter
\* stays far below the range of INT32, and a character awaits at most three bytes.
TypeOK ==
    /\ ParserState \in {"Ground", "Escape", "Csi", "Osc", "OscEscape"}
    /\ ParameterCount \in 1 .. MaxParams
    /\ Parameters \in [1 .. MaxParams -> -1 .. 10 * ValueLimit - 1]
    /\ PrivateCsi \in BOOLEAN
    /\ Utf8Remaining \in 0 .. 3 /\ Utf8CodePoint \in 0 .. 8 * 64 * 64 * 64 - 1
    /\ fed \in Seq(Bytes)

\* No byte of an operating-system command such as a window title is drawn or
\* obeyed, wherever its terminator comes and whatever sequences it imitates
\* (WolfSshTerminalFeed, ParserOsc and ParserOscEscape).  The other control strings
\* (DCS, SOS, PM, APC) are the exception: the parser does not know them, and what
\* they hold is drawn.
PayloadHidden == last > 0 /\ Payload(fed, last) => issued = << >>

\* A control sequence is carried out with the parameters it spells: parameter n
\* is the number between separators n - 1 and n, unset when there is no digit,
\* and the sequence is private when a question mark comes before everything that
\* counts.  A number stops at the digit that takes it to ValueLimit, and the last
\* parameter the array has room for collects the digits of all further ones
\* (WolfSshTerminalFeed, ParserCsi).
SequenceSpelled ==
    \A i \in 1 .. last : CsiFrom(fed, i, last) /\ fed[last] \in Finals =>
      issued = << <<"Csi", fed[last], SpelledPrivate(fed, i, last),
                    [n \in 1 .. Slot(fed, i, last) |-> Spelled(fed, i, last, n)]>> >>

\* Text is decoded by the rules of UTF-8: a complete character shows once, as its
\* last byte arrives; one that another byte cuts short shows as U+FFFD before that
\* byte; one that ESC cuts short, like a stray continuation, does not show.  What
\* UCS-2 cannot hold shows as a question mark (HandleGroundByte, EmitCodePoint).
TextDecoded ==
    last > 0 /\ Text(fed, last) =>
      LET b      == fed[last]
          begins == {i \in 1 .. last : Awaits(fed, i, last)}
      IN issued =
           IF begins = {} THEN TextByte(b)
           ELSE LET i == CHOOSE i \in begins : TRUE
                IN IF ~IsContinuation(b) THEN << <<"Put", Replacement>> >> \o TextByte(b)
                   ELSE IF Following(fed[i]) > last - i THEN << >>
                   ELSE << <<"Put", Shown(Decoded(fed, i, last))>> >>

\* A cell never receives a character that the console would obey instead of
\* showing it, unless the server encoded it as more bytes than it needs or sent a
\* C1 control: OutputString is given only what PutCharacter stored.
CellsShowable ==
    \A n \in DOMAIN issued : issued[n][1] = "Put" =>
      \/ issued[n][2] \in Printable \/ issued[n][2] > 159
      \/ IsContinuation(fed[last])
=============================================================================
