-------------------------------- MODULE Texts --------------------------------
(***************************************************************************)
(* What the conversions of Arguments.c compute, in closed form.  A text is *)
(* the sequence of its code units without the terminating NUL.             *)
(* Conversions.tla shows that the loops of the code compute this.          *)
(***************************************************************************)
EXTENDS Integers, Sequences

CONSTANTS
    MAX_UINT16,         \* the largest port
    FingerprintLength   \* digits of a SHA-256 digest: 64

TextsAssumption == MAX_UINT16 \in Nat /\ MAX_UINT16 >= 22 /\ FingerprintLength \in Nat \ {0}

\* UCS-2 code units other than the NUL.
LastUnit == 65535
CodeUnits == 1 .. LastUnit

\* CopyUnicodeAsAscii accepts the text: 7 bits each, and room for the NUL.
Fits(text, capacity) ==
    /\ Len(text) < capacity
    /\ \A k \in DOMAIN text : text[k] =< 127

IsDigit(c) == c \in 48 .. 57
\* The number that the first k digits spell.
Spelled(text) ==
    LET value[k \in 0 .. Len(text)] ==
          IF k = 0 THEN 0 ELSE value[k - 1] * 10 + (text[k] - 48)
    IN value
Number(text) == Spelled(text)[Len(text)]

\* The port a text spells, or 0.
ParsedPort(text) ==
    IF text # << >> /\ (\A k \in DOMAIN text : IsDigit(text[k])) /\ Number(text) =< MAX_UINT16
    THEN Number(text) ELSE 0

HexValue(c) ==
    CASE IsDigit(c)      -> c - 48
      [] c \in 97 .. 102 -> c - 97 + 10
      [] c \in 65 .. 70  -> c - 65 + 10
      [] OTHER           -> -1
HexDigit(v) == IF v < 10 THEN 48 + v ELSE 97 + v - 10

Separators == {58, 45}
\* What is left of the first k code units without the separators.
Kept(text) ==
    LET kept[k \in 0 .. Len(text)] ==
          IF k = 0 THEN << >>
          ELSE IF text[k] \in Separators THEN kept[k - 1]
          ELSE Append(kept[k - 1], text[k])
    IN kept
Digits(text) == Kept(text)[Len(text)]

IsFingerprint(text) ==
    /\ Len(Digits(text)) = FingerprintLength
    /\ \A k \in DOMAIN Digits(text) : HexValue(Digits(text)[k]) >= 0

\* The digest in the form Auth.c compares it with: lower case, no separators.
Normalized(text) == [k \in DOMAIN Digits(text) |-> HexDigit(HexValue(Digits(text)[k]))]
=============================================================================
