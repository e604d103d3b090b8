------------------------------- MODULE Rendition -------------------------------
(***************************************************************************)
(* SelectGraphicRendition (Terminal.c): one step per turn of its loop over *)
(* the parameters of an `m' sequence, with the colour approximations.      *)
(*                                                                         *)
(* A colour is a number 0 .. 15 in UEFI's order: 1 is blue, 2 green and 4  *)
(* red (their sums mix), 8 makes it bright.                                *)
(***************************************************************************)
EXTENDS Integers, Sequences, FiniteSetsExt

CONSTANTS
    Values,         \* parameters of the sequences in this run; -1 is unset
    MaxLength,      \* number of parameters
    DefaultForeground, DefaultBackground

RenditionAssumption ==
    /\ Values \subseteq Nat \cup {-1} /\ MaxLength \in Nat \ {0}
    /\ DefaultForeground \in 0 .. 15 /\ DefaultBackground \in 0 .. 7

VARIABLES
    Parameters,
    Index,          \* of the parameter to look at next
    Foreground, Background, Bold, Reverse

style == <<Foreground, Background, Bold, Reverse>>
vars  == <<Parameters, Index, style>>

Colours == 0 .. 15

-----------------------------------------------------------------------------
Mix(red, green, blue, bright) ==
    (IF blue THEN 1 ELSE 0) + (IF green THEN 2 ELSE 0) + (IF red THEN 4 ELSE 0)
      + (IF bright THEN 8 ELSE 0)

\* A 6x6x6 cube of colours lies between the named ones and the shades of grey.
SixteenNamed(c) ==
    IF c =< 16 THEN c ELSE IF c >= 232 THEN (IF c >= 244 THEN 15 ELSE 8) ELSE 0
Map256Color(c) ==
    LET r == (c - 16) \div 36
        g == ((c - 16) \div 6) % 6
        b == (c - 16) % 6
    IN IF c < 16 THEN c
       ELSE IF c >= 232 THEN IF c >= 244 THEN 15 ELSE 8
       ELSE Mix(r >= 3, g >= 3, b >= 3, Max({r, g, b}) >= 5)

MapRgbColor(r, g, b) == Mix(r >= 128, g >= 128, b >= 128, Max({r, g, b}) >= 192)

\* What the console is set to: 0 .. 127.
TerminalAttribute ==
    LET f == IF Bold /\ Foreground < 8 THEN Foreground + 8 ELSE Foreground
    IN IF Reverse THEN Background + 16 * (f % 8) ELSE f + 16 * (Background % 8)

-----------------------------------------------------------------------------
Parameter(i, default) == IF Parameters[i] < 0 THEN default ELSE Parameters[i]
Value(i) == Parameter(i, 0)

\* The kinds of group a parameter can begin, and how many parameters each takes.
Is256(i) == Value(i) \in {38, 48} /\ i + 2 =< Len(Parameters) /\ Parameter(i + 1, -1) = 5
IsRgb(i) == Value(i) \in {38, 48} /\ i + 4 =< Len(Parameters) /\ Parameter(i + 1, -1) = 2

Extended(i) ==
    IF Is256(i) THEN Map256Color(Value(i + 2))
                ELSE MapRgbColor(Value(i + 2), Value(i + 3), Value(i + 4))

\* The effect of the group that begins at i on each part of the style.
NewForeground(i, old) ==
    LET v == Value(i)
    IN CASE v \in {0, 39}    -> DefaultForeground
         [] v \in 30 .. 37   -> v - 30
         [] v \in 90 .. 97   -> v - 90 + 8
         [] v = 38 /\ (Is256(i) \/ IsRgb(i)) -> Extended(i)
         [] OTHER            -> old
NewBackground(i, old) ==
    LET v == Value(i)
    IN CASE v \in {0, 49}    -> DefaultBackground
         [] v \in 40 .. 47   -> v - 40
         [] v \in 100 .. 107 -> v - 100 + 8
         [] v = 48 /\ (Is256(i) \/ IsRgb(i)) -> Extended(i)
         [] OTHER            -> old
Switched(i, old, on, off) ==
    IF Value(i) = on THEN TRUE ELSE IF Value(i) \in {0, off} THEN FALSE ELSE old

StepOnly(i) == 1
Width(i) == IF Is256(i) THEN 3 ELSE IF IsRgb(i) THEN 5 ELSE 1

SelectGraphicRendition ==
    /\ Index =< Len(Parameters)
    /\ Foreground' = NewForeground(Index, Foreground)
    /\ Background' = NewBackground(Index, Background)
    /\ Bold' = Switched(Index, Bold, 1, 22)
    /\ Reverse' = Switched(Index, Reverse, 7, 27)
    /\ Index' = Index + Width(Index)
    /\ UNCHANGED Parameters

\* A style may be left over from earlier sequences.
Init ==
    /\ Parameters \in UNION {[1 .. n -> Values] : n \in 1 .. MaxLength}
    /\ Index = 1
    /\ Bold \in BOOLEAN /\ Reverse = Bold
    /\ Foreground = IF Bold THEN 15 ELSE DefaultForeground
    /\ Background = IF Bold THEN 12 ELSE DefaultBackground

Spec == Init /\ [][SelectGraphicRendition]_vars

-----------------------------------------------------------------------------
(***************************************************************************)
(* Properties.                                                             *)
(***************************************************************************)
Done == Index > Len(Parameters)

\* Every variable has its type; no parameter, however large, makes a colour or an
\* attribute that UEFI does not have.
TypeOK ==
    /\ Index \in 1 .. MaxLength + 1
    /\ Foreground \in Colours /\ Background \in Colours
    /\ Bold \in BOOLEAN /\ Reverse \in BOOLEAN
    /\ TerminalAttribute \in 0 .. 127

\* How the sequence is meant to be read: 38 and 48 followed by 5 take one argument
\* more, followed by 2 three; the first group begins at 1, each other where the one
\* before it ends.  A colour that is cut short is no group.
Positions == DOMAIN Parameters
End(p) ==
    LET arguments == IF Parameters[p] \in {38, 48} /\ p < Len(Parameters)
                     THEN CASE Parameters[p + 1] = 5 -> 2
                            [] Parameters[p + 1] = 2 -> 4
                            [] OTHER -> 0
                     ELSE 0
    IN IF p + arguments \in Positions THEN p + arguments ELSE p
Groups == CHOOSE S \in SUBSET Positions : \A p \in Positions :
            p \in S <=> p = 1 \/ \E q \in S : q < p /\ End(q) = p - 1

\* Each part of the style is what the last group that speaks of it says, and the
\* numbers inside a colour group are never taken for attributes
\* (SelectGraphicRendition skips them with Index += 2 and Index += 4).
LastGroupDecides ==
    Done =>
      LET fgs   == {p \in Groups : \E c \in Colours : NewForeground(p, c) # c}
          bgs   == {p \in Groups : \E c \in Colours : NewBackground(p, c) # c}
          bolds == {p \in Groups : Value(p) \in {0, 1, 22}}
          revs  == {p \in Groups : Value(p) \in {0, 7, 27}}
      IN /\ fgs # {} => Foreground = NewForeground(Max(fgs), 0)
         /\ bgs # {} => Background = NewBackground(Max(bgs), 0)
         /\ bolds # {} => Bold = (Value(Max(bolds)) = 1)
         /\ revs # {} => Reverse = (Value(Max(revs)) = 7)

\* The eight ANSI colours count red as 1, green as 2 and blue as 4.
InUefiOrder(ansi) == 4 * (ansi % 2) + 2 * ((ansi \div 2) % 2) + (ansi \div 4)

\* A colour shows as UEFI's colour of that name, by number as well as in 24 bits:
\* "24-bit and 256-color values are approximated to UEFI's 16 colors" (README.md).
NamedColoursShown ==
    Done /\ Parameters[1] = 38 /\ Is256(1) /\ Len(Parameters) = 3 /\ Value(3) \in 0 .. 7 =>
      Foreground = InUefiOrder(Value(3))
=============================================================================
