------------------------------- MODULE CStrings -------------------------------
(***************************************************************************)
(* The C library functions with loops of their own in UefiCompat.c, one    *)
(* step per turn of the loop, against what the C standard says they do.    *)
(* One behaviour is one call, with arguments the standard allows.          *)
(*                                                                         *)
(* An array is the sequence of its bytes, 0 .. 255; Index counts the turns *)
(* and so is the offset of the pointers that the loops advance together.   *)
(***************************************************************************)
EXTENDS Integers, Sequences, FiniteSetsExt

CONSTANTS
    Bytes,          \* bytes of the arrays; 0 is the NUL
    ArrayLength     \* of both arrays

CStringsAssumption ==
    Bytes \subseteq 0 .. 255 /\ 0 \in Bytes /\ ArrayLength \in Nat \ {0}

Arrays == [1 .. ArrayLength -> Bytes]
Comparisons == {"memcmp", "strcmp", "strncmp"}
Functions == Comparisons \cup {"strlen", "strncpy", "strncat"}

VARIABLES
    function, First, Second, Length,    \* the call; Second is also the source
    Index,
    Destination,
    result,         \* an int, or << >> while the call runs
    astray          \* a byte outside an array was read or written

vars == <<function, First, Second, Length, Index, Destination, result, astray>>
args == <<function, First, Second, Length>>

Running == result = << >>
Terminated(a) == \E k \in DOMAIN a : a[k] = 0
StringLength(a) == Min({k \in DOMAIN a : a[k] = 0}) - 1

Inside(offset) == offset < ArrayLength
At(a, offset) == IF Inside(offset) THEN a[offset + 1] ELSE 1
Put(offset, byte) ==
    IF Inside(offset) THEN [Destination EXCEPT ![offset + 1] = byte] ELSE Destination
Left  == At(First, Index)
Right == At(Second, Index)
LengthLeft == Length - Index

-----------------------------------------------------------------------------
\* The condition for one more turn; it reads bytes only once the length allows it.
ReadsFirst == TRUE
MayRead == function = "strcmp" \/ LengthLeft # 0
Goes == /\ MayRead
        /\ function # "memcmp" => Left # 0
        /\ Left = Right

Signed(byte) == IF byte > 127 THEN byte - 256 ELSE byte
Unsigned(byte) == byte

\* memcmp, strcmp and strncmp.
Compare ==
    /\ function \in Comparisons /\ Running
    /\ astray' = (astray \/ (MayRead /\ ~Inside(Index)))
    /\ IF Goes THEN Index' = Index + 1 /\ UNCHANGED result
       ELSE /\ result' = <<IF MayRead THEN Unsigned(Left) - Unsigned(Right) ELSE 0>>
            /\ UNCHANGED Index
    /\ UNCHANGED <<args, Destination>>

Strlen ==
    /\ function = "strlen" /\ Running
    /\ astray' = (astray \/ ~Inside(Index))
    /\ IF Left # 0 THEN Index' = Index + 1 /\ UNCHANGED result
                   ELSE result' = <<Index>> /\ UNCHANGED Index
    /\ UNCHANGED <<args, Destination>>

\* Once the source has ended, the rest is filled with NULs; the source pointer
\* then stays where it is.
SourceEnded == \E k \in 1 .. Index : k \in DOMAIN Second /\ Second[k] = 0
Pads == SourceEnded \/ Right = 0

Strncpy ==
    /\ function = "strncpy" /\ Running
    /\ IF LengthLeft = 0 THEN result' = <<0>> /\ UNCHANGED <<Index, Destination, astray>>
       ELSE /\ astray' = (astray \/ ~Inside(Index))
            /\ Destination' = Put(Index, IF Pads THEN 0 ELSE Right)
            /\ Index' = Index + 1 /\ UNCHANGED result
    /\ UNCHANGED args

\* The first string ends at StringLength(First), which strlen has computed.
AppendsEnd == LengthLeft = 0 \/ Right = 0

Strncat ==
    /\ function = "strncat" /\ Running
    /\ LET end == StringLength(First) + Index
       IN /\ astray' = (astray \/ (LengthLeft # 0 /\ ~Inside(Index)) \/ ~Inside(end))
          /\ IF AppendsEnd
             THEN Destination' = Put(end, 0) /\ result' = <<0>> /\ UNCHANGED Index
             ELSE Destination' = Put(end, Right) /\ Index' = Index + 1 /\ UNCHANGED result
    /\ UNCHANGED args

Next == Compare \/ Strlen \/ Strncpy \/ Strncat

\* What the standard allows: strings are terminated, or the length keeps the
\* function inside the array; what is written fits.
SourceFits == Terminated(Second) \/ Length =< ArrayLength
Appended == IF Terminated(Second) THEN Min({Length, StringLength(Second)}) ELSE Length
Allowed ==
    CASE function = "memcmp"  -> Length =< ArrayLength
      [] function = "strcmp"  -> Terminated(First) /\ Terminated(Second)
      [] function = "strncmp" -> SourceFits /\ (Terminated(First) \/ Length =< ArrayLength)
      [] function = "strlen"  -> Terminated(First)
      [] function = "strncpy" -> Length =< ArrayLength
      [] function = "strncat" -> /\ SourceFits /\ Terminated(First)
                                 /\ StringLength(First) + Appended < ArrayLength

Init ==
    /\ function \in Functions /\ First \in Arrays /\ Second \in Arrays
    /\ Length \in 0 .. ArrayLength + 1
    /\ Allowed
    /\ Index = 0 /\ Destination = First /\ result = << >> /\ astray = FALSE

Spec == Init /\ [][Next]_vars

-----------------------------------------------------------------------------
(***************************************************************************)
(* Properties.                                                             *)
(***************************************************************************)
\* No byte outside the arrays is read or written: each loop looks at the length
\* before the byte and stops at the NUL.
StaysInside == ~astray

\* The bytes a comparison is about: up to the length, and up to the first NUL of a
\* string; the first place where they differ decides, as unsigned numbers.
Compared ==
    {k \in 1 .. ArrayLength :
       /\ function # "strcmp" => k =< Length
       /\ function # "memcmp" => \A j \in 1 .. k - 1 : First[j] # 0 /\ Second[j] # 0}
Differing == {k \in Compared : First[k] # Second[k]}
AsStandardSays ==
    ~Running =>
      CASE function \in Comparisons ->
             result = <<IF Differing = {} THEN 0
                        ELSE First[Min(Differing)] - Second[Min(Differing)]>>
        [] function = "strlen" ->
             First[result[1] + 1] = 0 /\ \A k \in 1 .. result[1] : First[k] # 0
        [] function = "strncpy" ->
             \A k \in 1 .. ArrayLength :
               Destination[k] = IF k > Length THEN First[k]
                                ELSE IF \E j \in 1 .. k : Second[j] = 0 THEN 0
                                ELSE Second[k]
        [] function = "strncat" ->
             /\ Terminated(Destination)
             /\ StringLength(Destination) = StringLength(First) + Appended
             /\ \A k \in 1 .. ArrayLength :
                  Destination[k] = IF k =< StringLength(First) THEN First[k]
                                   ELSE IF k =< StringLength(Destination)
                                   THEN Second[k - StringLength(First)]
                                   ELSE IF k = StringLength(Destination) + 1 THEN 0
                                   ELSE First[k]
=============================================================================
