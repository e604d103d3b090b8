--------------------------------- MODULE Keys ---------------------------------
(***************************************************************************)
(* WolfSshTerminalReadKey (Terminal.c): a key of the UEFI console becomes  *)
(* bytes for the server.                                                   *)
(*                                                                         *)
(* A key is the pair <<ScanCode, UnicodeChar>>; a sequence of bytes is     *)
(* given by its values.  One behaviour is one call with one key.           *)
(***************************************************************************)
EXTENDS Integers, Sequences, FiniteSetsExt

CONSTANTS
    Chars,          \* UCS-2 characters that are typed; 0 is none
    Capacities      \* sizes of the caller's buffer

LastUnit == 65535       \* the largest UCS-2 code unit

KeysAssumption ==
    /\ \A c \in Chars : c \in Nat /\ c =< LastUnit
    /\ Capacities \subseteq Nat

\* SCAN_UP is 1, ... SCAN_F12 is 22, SCAN_ESC is 23.
ScanCodes == 0 .. 23
Keyboard  == (ScanCodes \X {0}) \cup ({0} \X Chars)

VARIABLES key, capacity, ApplicationCursor, result
vars == <<key, capacity, ApplicationCursor, result>>

Backspace == 8
Exit == 29                      \* Ctrl+]

-----------------------------------------------------------------------------
\* Up, down, right, left, home, end; insert, delete, page up, page down; F5 to F10.
CursorFinals == <<65, 66, 67, 68, 72, 70>>
EditDigits   == <<50, 51, 53, 54>>
FunctionDigits == <<53, 55, 56, 57, 48, 49>>
FunctionTens == <<49, 49, 49, 49, 50, 50>>

AlwaysNormal(scan, application) ==
    IF scan \in 1 .. 6 THEN <<27, 91, CursorFinals[scan]>> ELSE << >>
Mapped(scan, application) ==
    CASE scan \in 1 .. 6   -> <<27, IF application THEN 79 ELSE 91, CursorFinals[scan]>>
      [] scan \in 7 .. 10  -> <<27, 91, EditDigits[scan - 6], 126>>
      [] scan \in 11 .. 14 -> <<27, 79, 80 + scan - 11>>
      [] scan \in 15 .. 20 -> <<27, 91, FunctionTens[scan - 14], FunctionDigits[scan - 14], 126>>
      [] OTHER             -> << >>

LowBits(c) == 128 + (c % 64)
TwoByteLimit4096(c) ==
    CASE c = Backspace -> <<127>>
      [] c # Backspace /\ c < 128 -> <<c>>
      [] c \in 128 .. 4095 -> <<(192 + c \div 64) % 256, LowBits(c)>>
      [] OTHER     -> <<224 + c \div 4096, LowBits(c \div 64), LowBits(c)>>
Encoded(c) ==
    CASE c = Backspace -> <<127>>
      [] c # Backspace /\ c < 128 -> <<c>>
      [] c \in 128 .. 2047 -> <<192 + c \div 64, LowBits(c)>>
      [] OTHER     -> <<224 + c \div 4096, LowBits(c \div 64), LowBits(c)>>

\* CopyKeySequence and its equivalents for characters: all of it or nothing.
Truncated(bytes, room) ==
    [status |-> "SUCCESS", bytes |-> SubSeq(bytes, 1, Min({room, Len(bytes)})),
     length |-> Min({room, Len(bytes)})]
CopyKeySequence(bytes, room) ==
    IF room < Len(bytes)
    THEN [status |-> "BUFFER_TOO_SMALL", bytes |-> << >>, length |-> Len(bytes)]
    ELSE [status |-> "SUCCESS", bytes |-> bytes, length |-> Len(bytes)]

Answer(k, room, application) ==
    LET mapped == Mapped(k[1], application)
    IN IF k[2] = Exit THEN [status |-> "EXIT", bytes |-> << >>, length |-> 0]
       ELSE IF mapped # << >> THEN CopyKeySequence(mapped, room)
       ELSE IF k[2] = 0 THEN [status |-> "NOT_READY", bytes |-> << >>, length |-> 0]
       ELSE IF room < 1 THEN [status |-> "BUFFER_TOO_SMALL", bytes |-> << >>, length |-> 1]
       ELSE CopyKeySequence(Encoded(k[2]), room)

Idle == [status |-> "IDLE", bytes |-> << >>, length |-> 0]

ReadKey ==
    /\ result = Idle
    /\ result' = Answer(key, capacity, ApplicationCursor)
    /\ UNCHANGED <<key, capacity, ApplicationCursor>>

Init ==
    /\ key \in Keyboard /\ capacity \in Capacities /\ ApplicationCursor \in BOOLEAN
    /\ result = Idle

Spec == Init /\ [][ReadKey]_vars

-----------------------------------------------------------------------------
(***************************************************************************)
(* Properties.                                                             *)
(***************************************************************************)
Success == result.status = "SUCCESS"

\* The character a well-formed sequence stands for, by the definition of UTF-8.
Decoded(bytes) ==
    CASE Len(bytes) = 1 -> bytes[1]
      [] Len(bytes) = 2 -> (bytes[1] - 192) * 64 + (bytes[2] - 128)
      [] OTHER -> (bytes[1] - 224) * 4096 + (bytes[2] - 128) * 64 + (bytes[3] - 128)

\* What the server decodes is what was typed, at every boundary between encodings,
\* and no byte is out of range for its place; backspace is sent as DEL.
TypedIsReceived ==
    Success /\ key[2] # 0 =>
      /\ Decoded(result.bytes) = IF key[2] = Backspace THEN 127 ELSE key[2]
      /\ \A n \in 2 .. Len(result.bytes) : result.bytes[n] \in 128 .. 191
      /\ Len(result.bytes) = 2 => result.bytes[1] \in 194 .. 223
      /\ Len(result.bytes) = 3 => result.bytes[1] \in 224 .. 239

\* A key arrives whole or not at all; a call that had too little room reports the
\* room that would have done, except that no room at all is answered with 1 for
\* every character.  With the session's buffer (16 bytes, Main.c) that never
\* happens, as it would end the session and lose the key.
NothingCut ==
    /\ Success => result = Answer(key, 16, ApplicationCursor)
    /\ result.status = "BUFFER_TOO_SMALL" =>
         /\ result.length > capacity
         /\ \/ Answer(key, result.length, ApplicationCursor).status = "SUCCESS"
            \/ capacity = 0 /\ key[2] >= 128
         /\ capacity < 16

\* The server can tell the keys apart: no two send the same bytes in the same
\* mode, except backspace and DEL, and the cursor keys differ between the modes.
KeysDistinct ==
    Success =>
      /\ \A k \in Keyboard \ {key} :
           Answer(k, capacity, ApplicationCursor).bytes # result.bytes
             \/ {k[2], key[2]} = {Backspace, 127}
      /\ key[1] \in 1 .. 6 =>
           Answer(key, capacity, ~ApplicationCursor).bytes # result.bytes
=============================================================================
