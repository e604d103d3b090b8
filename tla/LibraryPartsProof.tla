-------------------------- MODULE LibraryPartsProof --------------------------
(***************************************************************************)
(* Proofs about LibraryParts for any pool, any arrays, any command line    *)
(* and any texts: an inductive invariant per part, and what follows from   *)
(* their conjunction.                                                      *)
(***************************************************************************)
EXTENDS LibraryParts, SequenceTheorems, WellFoundedInduction, TLAPS

\* A set of natural numbers has a least member.
LEMMA LeastNat ==
    ASSUME NEW S \in SUBSET Nat, S # {}
    PROVE  \E m \in S : \A k \in S : m =< k
<1> DEFINE R == {ss \in Nat \X Nat : ss[1] < ss[2]}
<1>1. IsWellFoundedOn(R, Nat)
  BY NatLessThanWellFounded, Zenon DEF OpToRel
<1>3. \A k, m \in Nat : k < m => <<k, m>> \in R
  OBVIOUS
<1> HIDE DEF R
<1>2. PICK m \in S : \A k \in S : ~(<<k, m>> \in R)
  BY <1>1, WFMin, Zenon
<1>4. \A k \in S : ~(k < m)
  BY <1>2, <1>3, Zenon
<1> QED
  BY <1>4

-----------------------------------------------------------------------------
(***************************************************************************)
(* The C functions (UefiCompat.c).                                         *)
(***************************************************************************)
LEMMA StringsConstants ==
    /\ ArrayLength \in Nat /\ 1 =< ArrayLength /\ 0 \in Bytes
    /\ \A b \in Bytes : b \in Int
<1>1. /\ ArrayLength \in Nat /\ 1 =< ArrayLength /\ 0 \in Bytes /\ Bytes \subseteq 0 .. 255
  BY PartsAssumption DEF Strings!CStringsAssumption
<1>2. \A b \in 0 .. 255 : b \in Int
  OBVIOUS
<1> QED
  BY <1>1, <1>2, Zenon

\* The first place where a string has a NUL is where strlen stops.
LEMMA Lengths ==
    ASSUME NEW a \in Strings!Arrays, NEW n \in Nat, n < ArrayLength,
           a[n + 1] = 0, \A k \in 1 .. n : a[k] # 0
    PROVE  Strings!Terminated(a) /\ Strings!StringLength(a) = n
<1> DEFINE Z == {k \in DOMAIN a : a[k] = 0}
<1>1. n + 1 \in Z /\ Z \subseteq Int
  BY StringsConstants DEF Strings!Arrays
<1>2. \A k \in Z : n + 1 =< k
  BY StringsConstants DEF Strings!Arrays
<1>3. \A x \in Z : (\A y \in Z : x =< y) => x = n + 1
  BY <1>1, <1>2
<1>4. Strings!Min(Z) = n + 1
  <2> HIDE DEF Z
  <2> QED
    BY <1>1, <1>2, <1>3, Zenon DEF Strings!Min
<1>5. Strings!StringLength(a) = Strings!Min(Z) - 1
  BY Zenon DEF Strings!StringLength
<1>6. Strings!Terminated(a)
  BY <1>1 DEF Strings!Terminated
<1> QED
  BY <1>4, <1>5, <1>6

\* The length of a terminated string.
LEMMA LengthOf ==
    ASSUME NEW a \in Strings!Arrays, Strings!Terminated(a)
    PROVE  /\ Strings!StringLength(a) \in Nat /\ Strings!StringLength(a) < ArrayLength
           /\ a[Strings!StringLength(a) + 1] = 0
           /\ \A k \in 1 .. Strings!StringLength(a) : a[k] # 0
<1> DEFINE Z == {k \in DOMAIN a : a[k] = 0}
<1>1. Z \in SUBSET Nat /\ Z # {} /\ Z \subseteq 1 .. ArrayLength
  BY StringsConstants DEF Strings!Arrays, Strings!Terminated
<1>2. PICK m \in Z : \A k \in Z : m =< k
  <2> HIDE DEF Z
  <2> QED
    BY <1>1, LeastNat
<1>3. PICK n \in Nat : m = n + 1
  BY <1>1
<1>4. n < ArrayLength /\ a[n + 1] = 0 /\ DOMAIN a = 1 .. ArrayLength
  BY <1>1, <1>3, StringsConstants DEF Strings!Arrays
<1>5. \A k \in 1 .. n : a[k] # 0
  <2> SUFFICES ASSUME NEW k \in 1 .. n, a[k] = 0 PROVE FALSE
    OBVIOUS
  <2>1. k \in Z
    BY <1>4, StringsConstants
  <2> QED
    BY <1>2, <1>3, <2>1
<1>6. Strings!StringLength(a) = n
  BY <1>4, <1>5, Lengths
<1> QED
  BY <1>4, <1>5, <1>6

-----------------------------------------------------------------------------
\* The call, and what it has not done.
StringsTypes ==
    /\ function \in Strings!Functions /\ First \in Strings!Arrays /\ Second \in Strings!Arrays
    /\ Length \in Nat /\ Strings!Allowed
    /\ Index \in Nat /\ Destination \in Strings!Arrays /\ ~astray

\* What the turns so far have found equal, or not to be the end.
Alike ==
    /\ Index =< ArrayLength
    /\ function # "strcmp" => Index =< Length
    /\ \A k \in 1 .. Index : First[k] = Second[k] /\ (function # "memcmp" => First[k] # 0)
Scanned == Index =< ArrayLength /\ \A k \in 1 .. Index : First[k] # 0

\* What they have copied, and what they have appended.
CopiedSoFar ==
    /\ Index =< Length
    /\ \A k \in 1 .. ArrayLength :
         Destination[k] = IF k > Index THEN First[k]
                          ELSE IF \E j \in 1 .. k : Second[j] = 0 THEN 0
                          ELSE Second[k]
AppendedSoFar ==
    /\ Index =< Length /\ Index =< ArrayLength
    /\ \A k \in 1 .. Index : Second[k] # 0
    /\ \A k \in 1 .. ArrayLength :
         Destination[k] = IF k =< Strings!StringLength(First) THEN First[k]
                          ELSE IF k =< Strings!StringLength(First) + Index
                          THEN Second[k - Strings!StringLength(First)]
                          ELSE First[k]

StringsInv ==
    /\ StringsTypes /\ Strings!AsStandardSays
    /\ Strings!Running =>
         /\ function \in Strings!Comparisons => Alike
         /\ function = "strlen" => Scanned
         /\ function = "strncpy" => CopiedSoFar
         /\ function = "strncat" => AppendedSoFar

\* What a caller of each function has to pass.
LEMMA AllowedMeans ==
    ASSUME StringsTypes
    PROVE  /\ function = "memcmp" => Length =< ArrayLength
           /\ function = "strcmp" => Strings!Terminated(First)
           /\ function = "strncmp" => Strings!Terminated(First) \/ Length =< ArrayLength
           /\ function = "strlen" => Strings!Terminated(First)
           /\ function = "strncpy" => Length =< ArrayLength
           /\ function = "strncat" =>
                /\ Strings!SourceFits /\ Strings!Terminated(First)
                /\ Strings!StringLength(First) + Strings!Appended < ArrayLength
BY DEF StringsTypes, Strings!Allowed, Strings!SourceFits

\* The call stays as it was made.
LEMMA CallKept ==
    ASSUME StringsTypes, UNCHANGED Strings!args, Index' \in Nat,
           Destination' \in Strings!Arrays, ~astray'
    PROVE  StringsTypes'
BY DEF StringsTypes, Strings!args, Strings!Allowed, Strings!SourceFits, Strings!Terminated,
       Strings!StringLength, Strings!Appended, Strings!Arrays, Strings!Functions

\* A result is there once the function has returned.
LEMMA Answered == \A x : <<x>> # << >> /\ <<x>>[1] = x
OBVIOUS

\* A comparison reads a byte only inside the arrays.
LEMMA ReadsInside ==
    ASSUME StringsTypes, function \in Strings!Comparisons, Alike, Strings!MayRead
    PROVE  Index < ArrayLength
<1>1. CASE Strings!Terminated(First)
  <2>1. PICK p \in 1 .. ArrayLength : First[p] = 0
    BY <1>1 DEF Strings!Terminated, StringsTypes, Strings!Arrays
  <2>2. CASE function # "memcmp"
    <3>1. ~(p =< Index)
      BY <2>1, <2>2 DEF Alike, StringsTypes
    <3> QED
      BY <2>1, <3>1, StringsConstants DEF StringsTypes
  <2>3. CASE function = "memcmp"
    <3>1. Length =< ArrayLength /\ Index # Length
      BY <2>3, AllowedMeans DEF Strings!MayRead, Strings!LengthLeft, StringsTypes
    <3> QED
      BY <2>3, <3>1, StringsConstants DEF Alike, StringsTypes
  <2> QED
    BY <2>2, <2>3
<1>2. CASE ~Strings!Terminated(First)
  <2>1. Length =< ArrayLength /\ function # "strcmp"
    BY <1>2, AllowedMeans DEF Strings!Comparisons
  <2>2. Index # Length
    BY <2>1 DEF Strings!MayRead, Strings!LengthLeft, StringsTypes
  <2> QED
    BY <2>1, <2>2, StringsConstants DEF Alike, StringsTypes
<1> QED
  BY <1>1, <1>2

\* The least member of a set, once it is known.
LEMMA MinIs ==
    ASSUME NEW S, NEW m \in S, m \in Int, \A k \in S : k \in Int /\ m =< k
    PROVE  Strings!Min(S) = m
<1>1. \A x \in S : (\A y \in S : x =< y) => x = m
  OBVIOUS
<1> QED
  BY <1>1, Zenon DEF Strings!Min

\* A turn of the loop of memcmp, strcmp or strncmp.
LEMMA CompareStep ==
    ASSUME StringsInv, Strings!Compare
    PROVE  StringsInv'
<1>1. /\ function \in Strings!Comparisons /\ Strings!Running /\ UNCHANGED Strings!args
      /\ UNCHANGED Destination /\ UNCHANGED <<function, First, Second, Length>>
  BY DEF Strings!Compare, Strings!args
<1>2. StringsTypes /\ Alike
  BY <1>1 DEF StringsInv
<1>3. Strings!MayRead => Index < ArrayLength
  BY <1>1, <1>2, ReadsInside
<1>4. ~astray'
  BY <1>2, <1>3 DEF Strings!Compare, Strings!Inside, StringsTypes
<1>5. Index < ArrayLength => Strings!Left = First[Index + 1] /\ Strings!Right = Second[Index + 1]
  BY DEF Strings!Left, Strings!Right, Strings!At, Strings!Inside
<1>6. ~(function = "strlen") /\ ~(function = "strncpy") /\ ~(function = "strncat")
  BY <1>1 DEF Strings!Comparisons
<1>7. CASE Strings!Goes
  <2>1. Index' = Index + 1 /\ result' = result
    BY <1>7 DEF Strings!Compare
  <2>2. StringsTypes'
    BY <1>1, <1>2, <1>4, <2>1, CallKept DEF StringsTypes
  <2>3. /\ Index < ArrayLength /\ First[Index + 1] = Second[Index + 1]
        /\ function # "memcmp" => First[Index + 1] # 0
    BY <1>3, <1>5, <1>7 DEF Strings!Goes
  <2>4. function # "strcmp" => Index + 1 =< Length
    BY <1>2, <1>7 DEF Strings!Goes, Strings!MayRead, Strings!LengthLeft, Alike, StringsTypes
  <2>5. \A k \in 1 .. Index + 1 : k \in 1 .. Index \/ k = Index + 1
    BY <1>2 DEF StringsTypes
  <2>6. Alike'
    BY <1>1, <1>2, <2>1, <2>3, <2>4, <2>5, StringsConstants DEF Alike, StringsTypes
  <2>7. Strings!AsStandardSays'
    BY <1>1, <2>1 DEF Strings!AsStandardSays, Strings!Running
  <2> QED
    BY <1>1, <1>6, <2>2, <2>6, <2>7 DEF StringsInv
<1>8. CASE ~Strings!Goes
  <2>1. Index' = Index /\ result' = <<IF Strings!MayRead THEN Strings!Left - Strings!Right ELSE 0>>
    BY <1>8 DEF Strings!Compare, Strings!Unsigned
  <2>2. StringsTypes'
    BY <1>1, <1>2, <1>4, <2>1, CallKept DEF StringsTypes
  <2>3. ~Strings!Running'
    BY <2>1, Answered DEF Strings!Running
  <2>4. Strings!Differing \subseteq 1 .. ArrayLength
    BY DEF Strings!Differing, Strings!Compared
  <2>5. \A k \in Strings!Differing : k > Index
    BY <1>2, <2>4, StringsConstants DEF Strings!Differing, Alike, StringsTypes
  <2>6. result' = <<IF Strings!Differing = {} THEN 0
                    ELSE First[Strings!Min(Strings!Differing)] - Second[Strings!Min(Strings!Differing)]>>
    <3>1. CASE ~Strings!MayRead
      <4>1. function # "strcmp" /\ Index = Length
        BY <3>1, <1>2 DEF Strings!MayRead, Strings!LengthLeft, StringsTypes
      <4>2. \A k \in Strings!Differing : k =< Length
        BY <4>1 DEF Strings!Differing, Strings!Compared
      <4>3. Strings!Differing = {}
        BY <1>2, <2>4, <2>5, <4>1, <4>2, StringsConstants DEF StringsTypes
      <4> QED
        BY <2>1, <3>1, <4>3
    <3>2. CASE Strings!MayRead /\ Strings!Left # Strings!Right
      <4>1. /\ Index + 1 \in 1 .. ArrayLength /\ First[Index + 1] # Second[Index + 1]
            /\ Index \in Nat
        BY <1>2, <1>3, <1>5, <3>2, StringsConstants DEF StringsTypes
      <4>2. function # "strcmp" => Index + 1 =< Length
        BY <1>2, <3>2 DEF Strings!MayRead, Strings!LengthLeft, Alike, StringsTypes
      <4>3. function # "memcmp" => \A j \in 1 .. Index + 1 - 1 : First[j] # 0 /\ Second[j] # 0
        BY <1>2 DEF Alike, StringsTypes
      <4>4. Index + 1 \in Strings!Differing
        BY <4>1, <4>2, <4>3 DEF Strings!Differing, Strings!Compared
      <4>5. \A k \in Strings!Differing : k \in Int /\ Index + 1 =< k
        BY <2>4, <2>5, <4>1, StringsConstants
      <4>6. Strings!Min(Strings!Differing) = Index + 1
        <5>1. Index + 1 \in Int
          BY <4>1
        <5> QED
          BY <4>4, <4>5, <5>1, MinIs, Zenon
      <4>7. Strings!Left = First[Index + 1] /\ Strings!Right = Second[Index + 1]
        BY <1>3, <1>5, <3>2
      <4>8. result' = <<First[Index + 1] - Second[Index + 1]>>
        BY <2>1, <3>2, <4>7, Zenon
      <4> QED
        BY <4>4, <4>6, <4>8, Zenon
    <3>3. CASE Strings!MayRead /\ Strings!Left = Strings!Right
      <4>1. /\ function # "memcmp" /\ First[Index + 1] = 0 /\ Second[Index + 1] = 0
            /\ Index < ArrayLength
        BY <1>3, <1>5, <1>8, <3>3 DEF Strings!Goes
      <4>2. \A k \in Strings!Differing : k - 1 < Index + 1
        <5> SUFFICES ASSUME NEW k \in Strings!Differing, k - 1 >= Index + 1 PROVE FALSE
          BY <2>4, <1>2, StringsConstants DEF StringsTypes
        <5>1. Index + 1 \in 1 .. k - 1
          BY <2>4, <1>2, StringsConstants DEF StringsTypes
        <5> QED
          BY <4>1, <5>1 DEF Strings!Differing, Strings!Compared
      <4>3. \A k \in Strings!Differing : k = Index + 1
        BY <2>4, <2>5, <4>2, <1>2, StringsConstants DEF StringsTypes
      <4>4. Strings!Differing = {}
        BY <4>1, <4>3 DEF Strings!Differing
      <4>5. Strings!Left - Strings!Right = 0
        BY <1>5, <3>3, <4>1
      <4> QED
        BY <2>1, <3>3, <4>4, <4>5, Zenon
    <3> QED
      BY <3>1, <3>2, <3>3
  <2>7. Strings!Differing' = Strings!Differing
    BY <1>1 DEF Strings!Differing, Strings!Compared
  <2>8. Strings!AsStandardSays'
    BY <1>1, <2>6, <2>7, <1>6 DEF Strings!AsStandardSays
  <2> QED
    BY <2>2, <2>3, <2>8, Zenon DEF StringsInv
<1> QED
  BY <1>7, <1>8

\* A turn of the loop of strlen.
LEMMA StrlenStep ==
    ASSUME StringsInv, Strings!Strlen
    PROVE  StringsInv'
<1>1. /\ function = "strlen" /\ Strings!Running /\ UNCHANGED Strings!args
      /\ UNCHANGED Destination /\ UNCHANGED <<function, First, Second, Length>>
  BY DEF Strings!Strlen, Strings!args
<1>2. StringsTypes /\ Scanned
  BY <1>1 DEF StringsInv
<1>3. Index < ArrayLength
  <2>1. PICK p \in 1 .. ArrayLength : First[p] = 0
    BY <1>1, <1>2, AllowedMeans DEF Strings!Terminated, StringsTypes, Strings!Arrays
  <2>2. ~(p =< Index)
    BY <1>2, <2>1 DEF Scanned, StringsTypes
  <2> QED
    BY <1>2, <2>1, <2>2, StringsConstants DEF StringsTypes
<1>4. ~astray'
  BY <1>2, <1>3 DEF Strings!Strlen, Strings!Inside, StringsTypes
<1>5. Strings!Left = First[Index + 1]
  BY <1>3 DEF Strings!Left, Strings!At, Strings!Inside
<1>6. ~(function \in Strings!Comparisons) /\ ~(function = "strncpy") /\ ~(function = "strncat")
  BY <1>1 DEF Strings!Comparisons
<1>7. CASE Strings!Left # 0
  <2>1. Index' = Index + 1 /\ result' = result
    BY <1>7 DEF Strings!Strlen
  <2>2. StringsTypes'
    BY <1>1, <1>2, <1>4, <2>1, CallKept DEF StringsTypes
  <2>3. \A k \in 1 .. Index + 1 : k \in 1 .. Index \/ k = Index + 1
    BY <1>2 DEF StringsTypes
  <2>4. Scanned'
    BY <1>1, <1>2, <1>3, <1>5, <1>7, <2>1, <2>3, StringsConstants DEF Scanned, StringsTypes
  <2>5. Strings!AsStandardSays'
    BY <1>1, <2>1 DEF Strings!AsStandardSays, Strings!Running
  <2> QED
    BY <1>1, <1>6, <2>2, <2>4, <2>5 DEF StringsInv
<1>8. CASE Strings!Left = 0
  <2>1. Index' = Index /\ result' = <<Index>>
    BY <1>8 DEF Strings!Strlen
  <2>2. StringsTypes'
    BY <1>1, <1>2, <1>4, <2>1, CallKept DEF StringsTypes
  <2>3. ~Strings!Running'
    BY <2>1, Answered DEF Strings!Running
  <2>4. result'[1] = Index
    BY <2>1
  <2>5. First[result'[1] + 1] = 0 /\ \A k \in 1 .. result'[1] : First[k] # 0
    BY <1>2, <1>5, <1>8, <2>4 DEF Scanned
  <2>6. Strings!AsStandardSays'
    BY <1>1, <1>6, <2>5 DEF Strings!AsStandardSays
  <2> QED
    BY <2>2, <2>3, <2>6, Zenon DEF StringsInv
<1> QED
  BY <1>7, <1>8

\* What Put leaves, inside the array.
LEMMA PutOne ==
    ASSUME StringsTypes, NEW o \in Nat, o < ArrayLength, NEW b \in Bytes
    PROVE  /\ Strings!Put(o, b) \in Strings!Arrays
           /\ \A k \in 1 .. ArrayLength :
                Strings!Put(o, b)[k] = IF k = o + 1 THEN b ELSE Destination[k]
<1>1. Strings!Put(o, b) = [Destination EXCEPT ![o + 1] = b]
  BY DEF Strings!Put, Strings!Inside
<1>2. o + 1 \in 1 .. ArrayLength /\ Destination \in [1 .. ArrayLength -> Bytes]
  BY StringsConstants DEF StringsTypes, Strings!Arrays
<1> QED
  BY <1>1, <1>2 DEF Strings!Arrays

\* A turn of the loops of strncpy.
LEMMA StrncpyStep ==
    ASSUME StringsInv, Strings!Strncpy
    PROVE  StringsInv'
<1>1. /\ function = "strncpy" /\ Strings!Running /\ UNCHANGED Strings!args
      /\ UNCHANGED <<function, First, Second, Length>>
  BY DEF Strings!Strncpy, Strings!args
<1>2. StringsTypes /\ CopiedSoFar
  BY <1>1 DEF StringsInv
<1>3. Length =< ArrayLength /\ Index \in Nat /\ Length \in Nat
  BY <1>1, <1>2, AllowedMeans DEF StringsTypes
<1>6. ~(function \in Strings!Comparisons) /\ ~(function = "strlen") /\ ~(function = "strncat")
  BY <1>1 DEF Strings!Comparisons
<1>7. CASE Strings!LengthLeft = 0
  <2>1. /\ UNCHANGED <<Index, Destination, astray>> /\ result' = <<0>>
    BY <1>7 DEF Strings!Strncpy
  <2>2. StringsTypes'
    BY <1>1, <1>2, <2>1, CallKept DEF StringsTypes
  <2>3. ~Strings!Running'
    BY <2>1, Answered DEF Strings!Running
  <2>4. Index = Length
    BY <1>3, <1>7 DEF Strings!LengthLeft
  <2>5. Strings!AsStandardSays'
    BY <1>1, <1>2, <1>6, <2>1, <2>4 DEF Strings!AsStandardSays, CopiedSoFar
  <2> QED
    BY <2>2, <2>3, <2>5, Zenon DEF StringsInv
<1>8. CASE Strings!LengthLeft # 0
  <2>1. /\ Index' = Index + 1 /\ result' = result
        /\ Destination' = Strings!Put(Index, IF Strings!Pads THEN 0 ELSE Strings!Right)
        /\ astray' = (astray \/ ~Strings!Inside(Index))
    BY <1>8 DEF Strings!Strncpy
  <2>2. Index < Length /\ Index < ArrayLength
    BY <1>2, <1>3, <1>8, StringsConstants DEF Strings!LengthLeft, CopiedSoFar
  <2>3. Strings!Right = Second[Index + 1] /\ Index + 1 \in 1 .. ArrayLength
    BY <1>3, <2>2, StringsConstants DEF Strings!Right, Strings!At, Strings!Inside
  <2>4. ~astray'
    BY <1>2, <2>1, <2>2 DEF Strings!Inside, StringsTypes
  <2>5. Strings!Pads <=> \E j \in 1 .. Index + 1 : Second[j] = 0
    <3>1. DOMAIN Second = 1 .. ArrayLength
      BY <1>2 DEF StringsTypes, Strings!Arrays
    <3> QED
      BY <1>3, <2>2, <2>3, <3>1, StringsConstants DEF Strings!Pads, Strings!SourceEnded
  <2>6. PICK b : b = IF \E j \in 1 .. Index + 1 : Second[j] = 0 THEN 0 ELSE Second[Index + 1]
    OBVIOUS
  <2>7. b \in Bytes /\ Destination' = Strings!Put(Index, b)
    <3>1. Second[Index + 1] \in Bytes
      BY <1>2, <2>3 DEF StringsTypes, Strings!Arrays
    <3>2. b \in Bytes
      BY <2>6, <3>1, StringsConstants
    <3> QED
      BY <2>1, <2>3, <2>5, <2>6, <3>2, Zenon
  <2>8. /\ Destination' \in Strings!Arrays
        /\ \A k \in 1 .. ArrayLength :
             Destination'[k] = IF k = Index + 1 THEN b ELSE Destination[k]
    BY <1>2, <1>3, <2>2, <2>7, PutOne
  <2>9. StringsTypes'
    BY <1>1, <1>2, <2>1, <2>4, <2>8, CallKept DEF StringsTypes
  <2>10. ASSUME NEW k \in 1 .. ArrayLength
         PROVE  Destination'[k] = IF k > Index + 1 THEN First[k]
                                  ELSE IF \E j \in 1 .. k : Second[j] = 0 THEN 0
                                  ELSE Second[k]
    <3>1. CASE k = Index + 1
      BY <1>3, <2>6, <2>8, <3>1
    <3>2. CASE k # Index + 1
      <4>1. Destination'[k] = Destination[k]
        BY <2>8, <3>2
      <4>2. (k > Index) <=> (k > Index + 1)
        BY <1>3, <3>2, StringsConstants
      <4> QED
        BY <1>2, <4>1, <4>2, Zenon DEF CopiedSoFar
    <3> QED
      BY <3>1, <3>2
  <2>11. CopiedSoFar'
    BY <1>1, <1>3, <2>1, <2>2, <2>10 DEF CopiedSoFar
  <2>12. Strings!AsStandardSays'
    BY <1>1, <2>1 DEF Strings!AsStandardSays, Strings!Running
  <2> QED
    BY <1>1, <1>6, <2>9, <2>11, <2>12 DEF StringsInv
<1> QED
  BY <1>7, <1>8

\* How far strncat goes in its source.
LEMMA AppendsMost ==
    ASSUME StringsTypes, function = "strncat", AppendedSoFar
    PROVE  /\ Strings!Appended \in Nat /\ Index =< Strings!Appended
           /\ Strings!AppendsEnd => Index = Strings!Appended
           /\ Length # Index => Index < ArrayLength /\ Strings!Right = Second[Index + 1]
           /\ ~Strings!AppendsEnd => Index < Strings!Appended /\ Length # Index
<1> DEFINE a == Strings!Appended
<1>1. /\ Index \in Nat /\ Length \in Nat /\ Index =< Length /\ Index =< ArrayLength
      /\ Second \in Strings!Arrays
  BY DEF StringsTypes, AppendedSoFar
<1>2. Length # Index => Index < ArrayLength
  <2>1. CASE Strings!Terminated(Second)
    <3>1. PICK p \in 1 .. ArrayLength : Second[p] = 0
      BY <1>1, <2>1 DEF Strings!Terminated, Strings!Arrays
    <3>2. ~(p =< Index)
      BY <1>1, <3>1 DEF AppendedSoFar
    <3> QED
      BY <1>1, <3>1, <3>2, StringsConstants
  <2>2. CASE Length =< ArrayLength
    BY <1>1, <2>2, StringsConstants
  <2> QED
    BY <2>1, <2>2, AllowedMeans DEF Strings!SourceFits
<1>3. Index < ArrayLength => Strings!Right = Second[Index + 1]
  BY DEF Strings!Right, Strings!At, Strings!Inside
<1>4. Strings!AppendsEnd <=> Index = Length \/ Strings!Right = 0
  BY <1>1 DEF Strings!AppendsEnd, Strings!LengthLeft
<1>5. CASE Strings!Terminated(Second)
  <2> DEFINE n == Strings!StringLength(Second)
  <2>1. n \in Nat /\ n < ArrayLength /\ Second[n + 1] = 0 /\ \A k \in 1 .. n : Second[k] # 0
    BY <1>1, <1>5, LengthOf
  <2>2. a = IF Length =< n THEN Length ELSE n
    <3>1. a = Strings!Min({Length, n})
      BY <1>5, Zenon DEF Strings!Appended
    <3> HIDE DEF n, a
    <3>2. CASE Length =< n
      <4>1. Strings!Min({Length, n}) = Length
        BY <1>1, <2>1, <3>2, MinIs
      <4> QED
        BY <3>1, <3>2, <4>1
    <3>3. CASE ~(Length =< n)
      <4>1. Strings!Min({Length, n}) = n
        BY <1>1, <2>1, <3>3, MinIs
      <4> QED
        BY <3>1, <3>3, <4>1
    <3> QED
      BY <3>2, <3>3
  <2> HIDE DEF n, a
  <2>3. Index =< n
    <3>1. ~(n + 1 =< Index)
      BY <1>1, <2>1 DEF AppendedSoFar
    <3> QED
      BY <1>1, <2>1, <3>1
  <2>4. Strings!Right = 0 /\ Index < ArrayLength => Index = n
    <3> SUFFICES ASSUME Strings!Right = 0, Index < ArrayLength, Index < n PROVE FALSE
      BY <1>1, <2>1, <2>3
    <3>1. Index + 1 \in 1 .. n
      BY <1>1, <2>1
    <3> QED
      BY <1>3, <2>1, <3>1
  <2>5. Strings!Right # 0 /\ Index < ArrayLength => Index # n
    BY <1>3, <2>1
  <2>6. Index < ArrayLength
    BY <1>1, <2>1, <2>3, StringsConstants
  <2>7. a \in Nat /\ Index =< a
    BY <1>1, <2>1, <2>2, <2>3
  <2>8. Strings!AppendsEnd => Index = a
    BY <1>1, <1>4, <2>1, <2>2, <2>3, <2>4, <2>6
  <2>9. ~Strings!AppendsEnd => Index < a /\ Length # Index
    BY <1>1, <1>4, <2>1, <2>2, <2>3, <2>5, <2>6
  <2> QED
    BY <1>2, <1>3, <2>7, <2>8, <2>9 DEF a
<1>6. CASE ~Strings!Terminated(Second)
  <2>1. a = Length
    BY <1>6 DEF Strings!Appended
  <2>2. Index < ArrayLength => Second[Index + 1] # 0
    BY <1>1, <1>6, StringsConstants DEF Strings!Terminated, Strings!Arrays
  <2>3. Strings!AppendsEnd => Index = Length
    BY <1>1, <1>2, <1>3, <1>4, <2>2
  <2> HIDE DEF a
  <2> QED
    BY <1>1, <1>2, <1>3, <1>4, <2>1, <2>3 DEF a
<1> QED
  BY <1>5, <1>6

\* A turn of the loops of strncat.
LEMMA StrncatStep ==
    ASSUME StringsInv, Strings!Strncat
    PROVE  StringsInv'
<1> DEFINE n == Strings!StringLength(First)
<1>1. /\ function = "strncat" /\ Strings!Running /\ UNCHANGED Strings!args
      /\ UNCHANGED <<function, First, Second, Length>>
  BY DEF Strings!Strncat, Strings!args
<1>2. StringsTypes /\ AppendedSoFar
  BY <1>1 DEF StringsInv
<1>3. /\ Index \in Nat /\ Length \in Nat /\ First \in Strings!Arrays
      /\ Second \in Strings!Arrays /\ Destination \in Strings!Arrays
  BY <1>2 DEF StringsTypes
<1>4. /\ Strings!Terminated(First) /\ n + Strings!Appended < ArrayLength
  BY <1>1, <1>2, AllowedMeans
<1>5. /\ n \in Nat /\ First[n + 1] = 0 /\ \A k \in 1 .. n : First[k] # 0
  BY <1>3, <1>4, LengthOf
<1>6. ~(function \in Strings!Comparisons) /\ ~(function = "strlen") /\ ~(function = "strncpy")
  BY <1>1 DEF Strings!Comparisons
<1>7. /\ Strings!Appended \in Nat /\ Index =< Strings!Appended
      /\ Strings!AppendsEnd => Index = Strings!Appended
      /\ Length # Index => Index < ArrayLength /\ Strings!Right = Second[Index + 1]
      /\ ~Strings!AppendsEnd => Index < Strings!Appended /\ Length # Index
  BY <1>1, <1>2, AppendsMost
<1>8. /\ astray' = (astray \/ (Strings!LengthLeft # 0 /\ ~Strings!Inside(Index))
                           \/ ~Strings!Inside(n + Index))
      /\ IF Strings!AppendsEnd
         THEN Destination' = Strings!Put(n + Index, 0) /\ result' = <<0>> /\ UNCHANGED Index
         ELSE /\ Destination' = Strings!Put(n + Index, Strings!Right) /\ Index' = Index + 1
              /\ UNCHANGED result
  BY Zenon DEF Strings!Strncat
<1> HIDE DEF n
<1>9. n + Index \in Nat /\ n + Index < ArrayLength
  BY <1>3, <1>4, <1>5, <1>7, StringsConstants
<1>10. ~astray'
  <2>1. Strings!Inside(n + Index)
    BY <1>9 DEF Strings!Inside
  <2>2. Strings!LengthLeft # 0 => Strings!Inside(Index)
    BY <1>3, <1>7 DEF Strings!LengthLeft, Strings!Inside
  <2>3. ~astray
    BY <1>2 DEF StringsTypes
  <2> QED
    BY <1>8, <2>1, <2>2, <2>3, Zenon
<1>11. \A k \in 1 .. ArrayLength :
         Destination[k] = IF k =< n THEN First[k] ELSE IF k =< n + Index THEN Second[k - n]
                          ELSE First[k]
  BY <1>2 DEF AppendedSoFar, n
<1>12. CASE Strings!AppendsEnd
  <2>1. Destination' = Strings!Put(n + Index, 0) /\ result' = <<0>> /\ Index' = Index
    BY <1>8, <1>12
  <2>2. /\ Destination' \in Strings!Arrays
        /\ \A k \in 1 .. ArrayLength :
             Destination'[k] = IF k = n + Index + 1 THEN 0 ELSE Destination[k]
    BY <1>2, <1>9, <2>1, PutOne, StringsConstants
  <2>3. StringsTypes'
    BY <1>1, <1>2, <1>3, <1>10, <2>1, <2>2, CallKept
  <2>4. ~Strings!Running'
    BY <2>1, Answered DEF Strings!Running
  <2>5. Index = Strings!Appended
    BY <1>7, <1>12
  <2>6. \A k \in 1 .. n + Index : Destination'[k] # 0
    <3> SUFFICES ASSUME NEW k \in 1 .. n + Index PROVE Destination'[k] # 0
      OBVIOUS
    <3>1. k \in 1 .. ArrayLength /\ k # n + Index + 1
      BY <1>3, <1>5, <1>9, StringsConstants
    <3>2. Destination'[k] = IF k =< n THEN First[k] ELSE Second[k - n]
      BY <1>3, <1>5, <1>11, <2>2, <3>1
    <3>3. CASE k =< n
      BY <1>5, <3>2, <3>3
    <3>4. CASE ~(k =< n)
      <4>1. k - n \in 1 .. Index
        BY <1>3, <1>5, <3>4
      <4> QED
        BY <1>2, <3>2, <3>4, <4>1 DEF AppendedSoFar
    <3> QED
      BY <3>3, <3>4
  <2>7. Destination'[n + Index + 1] = 0
    BY <1>9, <2>2, StringsConstants
  <2>8. Strings!Terminated(Destination') /\ Strings!StringLength(Destination') = n + Index
    BY <1>9, <2>2, <2>6, <2>7, Lengths
  <2>9. ASSUME NEW k \in 1 .. ArrayLength
        PROVE  Destination'[k] = IF k =< n THEN First[k]
                                 ELSE IF k =< n + Index THEN Second[k - n]
                                 ELSE IF k = n + Index + 1 THEN 0 ELSE First[k]
    BY <1>3, <1>5, <1>11, <2>2, StringsConstants
  <2>10. /\ Strings!Terminated(Destination')
         /\ Strings!StringLength(Destination') = Strings!StringLength(First) + Strings!Appended
         /\ \A k \in 1 .. ArrayLength :
              Destination'[k] = IF k =< Strings!StringLength(First) THEN First[k]
                                ELSE IF k =< Strings!StringLength(Destination')
                                THEN Second[k - Strings!StringLength(First)]
                                ELSE IF k = Strings!StringLength(Destination') + 1 THEN 0
                                ELSE First[k]
    BY <2>5, <2>8, <2>9, Zenon DEF n
  <2>11. /\ First' = First /\ Second' = Second /\ function' = function
         /\ Strings!Appended' = Strings!Appended
    BY <1>1 DEF Strings!Appended, Strings!Terminated, Strings!StringLength
  <2>12. Strings!AsStandardSays'
    <3>1. Strings!Terminated(Destination)' = Strings!Terminated(Destination')
      BY DEF Strings!Terminated
    <3>2. Strings!StringLength(Destination)' = Strings!StringLength(Destination')
      BY DEF Strings!StringLength
    <3>3. Strings!StringLength(First)' = Strings!StringLength(First)
      BY <1>1 DEF Strings!StringLength
    <3> QED
      BY <1>1, <1>6, <2>10, <2>11, <3>1, <3>2, <3>3, Zenon DEF Strings!AsStandardSays
  <2> QED
    BY <2>3, <2>4, <2>12, Zenon DEF StringsInv
<1>13. CASE ~Strings!AppendsEnd
  <2>1. Destination' = Strings!Put(n + Index, Strings!Right) /\ Index' = Index + 1 /\ result' = result
    BY <1>8, <1>13
  <2>2. /\ Index < Length /\ Index < ArrayLength /\ Strings!Right = Second[Index + 1]
        /\ Strings!Right # 0
    BY <1>2, <1>3, <1>7, <1>13 DEF Strings!AppendsEnd, AppendedSoFar
  <2>3. Second[Index + 1] \in Bytes
    BY <1>3, <2>2, StringsConstants DEF Strings!Arrays
  <2>4. /\ Destination' \in Strings!Arrays
        /\ \A k \in 1 .. ArrayLength :
             Destination'[k] = IF k = n + Index + 1 THEN Second[Index + 1] ELSE Destination[k]
    BY <1>2, <1>9, <2>1, <2>2, <2>3, PutOne
  <2>5. StringsTypes'
    BY <1>1, <1>2, <1>3, <1>10, <2>1, <2>4, CallKept
  <2>6. ASSUME NEW k \in 1 .. ArrayLength
        PROVE  Destination'[k] = IF k =< n THEN First[k]
                                 ELSE IF k =< n + (Index + 1) THEN Second[k - n]
                                 ELSE First[k]
    <3>1. CASE k = n + Index + 1
      <4>1. k - n = Index + 1 /\ ~(k =< n) /\ k =< n + (Index + 1)
        BY <1>3, <1>5, <3>1
      <4> QED
        BY <2>4, <3>1, <4>1
    <3>2. CASE k # n + Index + 1
      <4>1. (k =< n + Index) <=> (k =< n + (Index + 1))
        BY <1>3, <1>5, <3>2
      <4> QED
        BY <1>11, <2>4, <3>2, <4>1, Zenon
    <3> QED
      BY <3>1, <3>2
  <2>7. \A k \in 1 .. Index + 1 : Second[k] # 0
    BY <1>2, <1>3, <2>2 DEF AppendedSoFar
  <2>8. Strings!StringLength(First)' = n
    BY <1>1 DEF Strings!StringLength, n
  <2>9. AppendedSoFar'
    <3>1. (Index =< Length)' /\ (Index =< ArrayLength)'
      BY <1>1, <1>3, <2>1, <2>2, StringsConstants
    <3>2. (\A k \in 1 .. Index : Second[k] # 0)'
      BY <1>1, <2>1, <2>7
    <3> QED
      BY <1>1, <2>1, <2>6, <2>8, <3>1, <3>2, Zenon DEF AppendedSoFar
  <2>10. Strings!AsStandardSays'
    BY <1>1, <2>1 DEF Strings!AsStandardSays, Strings!Running
  <2> QED
    BY <1>1, <1>6, <2>5, <2>9, <2>10 DEF StringsInv
<1> QED
  BY <1>12, <1>13

\* A call begins before its first byte.
LEMMA StringsInvInit == Strings!Init => StringsInv
<1> SUFFICES ASSUME Strings!Init PROVE StringsInv
  OBVIOUS
<1>1. /\ function \in Strings!Functions /\ First \in Strings!Arrays /\ Second \in Strings!Arrays
      /\ Length \in Nat /\ Strings!Allowed
      /\ Index = 0 /\ Destination = First /\ result = << >> /\ ~astray
  BY StringsConstants DEF Strings!Init
<1>2. StringsTypes
  BY <1>1 DEF StringsTypes
<1>3. Strings!AsStandardSays
  BY <1>1 DEF Strings!AsStandardSays, Strings!Running
<1>4. Alike /\ Scanned
  BY <1>1, StringsConstants DEF Alike, Scanned
<1>5. CopiedSoFar
  BY <1>1, StringsConstants DEF CopiedSoFar
<1>6. function = "strncat" => AppendedSoFar
  <2> SUFFICES ASSUME function = "strncat" PROVE AppendedSoFar
    OBVIOUS
  <2>1. Strings!StringLength(First) \in Nat
    BY <1>1, <1>2, AllowedMeans, LengthOf
  <2> QED
    BY <1>1, <2>1, StringsConstants DEF AppendedSoFar
<1> QED
  BY <1>2, <1>3, <1>4, <1>5, <1>6 DEF StringsInv

\* A turn of a loop keeps the invariant.
LEMMA StringsInvStep ==
    ASSUME StringsInv, Strings!Next
    PROVE  StringsInv'
BY CompareStep, StrlenStep, StrncpyStep, StrncatStep DEF Strings!Next

\* A step of another part changes nothing.
LEMMA StringsInvStutter ==
    ASSUME StringsInv, UNCHANGED Strings!vars
    PROVE  StringsInv'
<1>1. UNCHANGED <<function, First, Second, Length, Index, Destination, result, astray>>
  BY DEF Strings!vars
<1>2. StringsTypes'
  BY <1>1, CallKept DEF StringsInv, StringsTypes, Strings!args
<1>3. /\ Alike' = Alike /\ Scanned' = Scanned /\ CopiedSoFar' = CopiedSoFar
      /\ AppendedSoFar' = AppendedSoFar /\ Strings!Running' = Strings!Running
  BY <1>1 DEF Alike, Scanned, CopiedSoFar, AppendedSoFar, Strings!Running, Strings!StringLength
<1>4. Strings!AsStandardSays' = Strings!AsStandardSays
  BY <1>1 DEF Strings!AsStandardSays, Strings!Running, Strings!Differing, Strings!Compared,
     Strings!Terminated, Strings!StringLength, Strings!Appended
<1> QED
  BY <1>1, <1>2, <1>3, <1>4 DEF StringsInv

\* What the run checks of the C functions.
LEMMA StringsShow == StringsInv => Strings!StaysInside /\ Strings!AsStandardSays
BY DEF StringsInv, StringsTypes, Strings!StaysInside

-----------------------------------------------------------------------------
(***************************************************************************)
(* The conversions of option values (Arguments.c).                         *)
(***************************************************************************)
\* A set that has zero, and with a number the next, has all of them up to n.
LEMMA UpTo ==
    ASSUME NEW n \in Nat, NEW S, 0 \in S, \A k \in 0 .. n - 1 : k \in S => k + 1 \in S
    PROVE  \A k \in 0 .. n : k \in S
<1> SUFFICES ASSUME NEW c \in 0 .. n, c \notin S PROVE FALSE
  OBVIOUS
<1> DEFINE Missing == {k \in 0 .. n : k \notin S}
<1>1. Missing \in SUBSET Nat /\ Missing # {}
  OBVIOUS
<1>2. PICK m \in Missing : \A k \in Missing : m =< k
  <2> HIDE DEF Missing
  <2> QED
    BY <1>1, LeastNat
<1>3. m \in 1 .. n /\ m \notin S
  BY <1>2
<1>4. m - 1 \in 0 .. n - 1 /\ m - 1 \in 0 .. n
  BY <1>3
<1>5. m - 1 \in S
  <2> SUFFICES ASSUME m - 1 \notin S PROVE FALSE
    OBVIOUS
  <2>1. m - 1 \in Missing
    BY <1>4
  <2> QED
    BY <1>2, <1>3, <2>1
<1>6. m - 1 + 1 \in S
  BY <1>4, <1>5
<1> QED
  BY <1>3, <1>6

\* The number that the first digits spell, digit by digit.
LEMMA SpelledIs ==
    ASSUME NEW text \in Seq(Nat)
    PROVE  /\ \A k \in 0 .. Len(text) : Conversions!Spelled(text)[k] \in Int
           /\ Conversions!Spelled(text)[0] = 0
           /\ \A k \in 1 .. Len(text) :
                Conversions!Spelled(text)[k] = Conversions!Spelled(text)[k - 1] * 10 + (text[k] - 48)
<1> DEFINE Good(n, f) ==
             f = [k \in 0 .. n |-> IF k = 0 THEN 0 ELSE f[k - 1] * 10 + (text[k] - 48)]
           n == Len(text)
           S == {m \in 0 .. n : \E f : Good(m, f)}
<1>0. n \in Nat
  OBVIOUS
<1>1. 0 \in S
  <2> DEFINE g == [k \in 0 .. 0 |-> 0]
  <2>1. Good(0, g)
    OBVIOUS
  <2> HIDE DEF g, Good
  <2>2. \E f : Good(0, f)
    BY <2>1
  <2> QED
    BY <1>0, <2>2
<1>2. ASSUME NEW m \in 0 .. n - 1, m \in S
      PROVE  m + 1 \in S
  <2>1. PICK g : Good(m, g)
    BY <1>2
  <2> DEFINE f == [k \in 0 .. m + 1 |->
                     IF k = m + 1 THEN g[m] * 10 + (text[m + 1] - 48) ELSE g[k]]
  <2>2. \A k \in 0 .. m : f[k] = g[k]
    OBVIOUS
  <2>3. \A k \in 0 .. m : g[k] = IF k = 0 THEN 0 ELSE g[k - 1] * 10 + (text[k] - 48)
    BY <2>1, Zenon
  <2>4. \A k \in 0 .. m + 1 : f[k] = IF k = 0 THEN 0 ELSE f[k - 1] * 10 + (text[k] - 48)
    <3> SUFFICES ASSUME NEW k \in 0 .. m + 1
                 PROVE  f[k] = IF k = 0 THEN 0 ELSE f[k - 1] * 10 + (text[k] - 48)
      OBVIOUS
    <3>1. CASE k = m + 1
      <4>1. f[k] = g[m] * 10 + (text[m + 1] - 48) /\ k # 0 /\ k - 1 = m /\ m \in 0 .. m
        BY <3>1
      <4> HIDE DEF f
      <4> QED
        BY <2>2, <3>1, <4>1
    <3>2. CASE k = 0
      <4>1. k \in 0 .. m /\ f[k] = g[k]
        BY <3>2
      <4> HIDE DEF f
      <4> QED
        BY <2>3, <3>2, <4>1
    <3>3. CASE k # 0 /\ k # m + 1
      <4>1. k \in 0 .. m /\ k - 1 \in 0 .. m
        BY <3>3
      <4> HIDE DEF f
      <4>2. f[k] = g[k] /\ f[k - 1] = g[k - 1]
        BY <2>2, <4>1, Zenon
      <4> QED
        BY <2>3, <3>3, <4>1, <4>2
    <3> QED
      BY <3>1, <3>2, <3>3
  <2>5. f = [k \in 0 .. m + 1 |-> f[k]]
    OBVIOUS
  <2>6. Good(m + 1, f)
    <3> HIDE DEF f
    <3> QED
      BY <2>4, <2>5
  <2> HIDE DEF f, Good
  <2>7. \E h : Good(m + 1, h)
    BY <2>6
  <2> QED
    BY <1>0, <2>7
<1>3. n \in S
  <2> HIDE DEF S, n
  <2>1. \A k \in 0 .. n : k \in S
    BY <1>0, <1>1, <1>2, UpTo
  <2> QED
    BY <1>0, <2>1
<1>4. PICK f : Good(n, f)
  BY <1>3
<1>5. Good(n, Conversions!Spelled(text))
  <2>1. Conversions!Spelled(text) = CHOOSE g : Good(n, g)
    BY DEF Conversions!Spelled
  <2> QED
    BY <1>4, <2>1, Zenon
<1> DEFINE v == Conversions!Spelled(text)
<1>6. \A k \in 0 .. n : v[k] = IF k = 0 THEN 0 ELSE v[k - 1] * 10 + (text[k] - 48)
  BY <1>5, Zenon
<1> HIDE DEF v, Good, S
<1>7. v[0] = 0
  BY <1>0, <1>6
<1>8. \A k \in 1 .. n : v[k] = v[k - 1] * 10 + (text[k] - 48) /\ text[k] \in Nat
  BY <1>0, <1>6
<1>9. \A k \in 0 .. n : v[k] \in Int
  <2> DEFINE D == {k \in 0 .. n : v[k] \in Int}
  <2>1. 0 \in D
    BY <1>0, <1>7
  <2>2. \A k \in 0 .. n - 1 : k \in D => k + 1 \in D
    <3> SUFFICES ASSUME NEW k \in 0 .. n - 1, k \in D PROVE k + 1 \in D
      OBVIOUS
    <3>1. k + 1 \in 1 .. n /\ k + 1 - 1 = k /\ v[k] \in Int
      BY <1>0
    <3>2. PICK j \in 1 .. n : j = k + 1 /\ j - 1 = k
      BY <3>1
    <3>4. v[j] = v[j - 1] * 10 + (text[j] - 48) /\ text[j] \in Nat
      BY <1>8
    <3>3. v[k + 1] \in Int
      BY <3>1, <3>2, <3>4
    <3> QED
      BY <3>1, <3>3
  <2>3. \A k \in 0 .. n : k \in D
    <3> HIDE DEF D, n
    <3> QED
      BY <1>0, <2>1, <2>2, UpTo
  <2> QED
    BY <2>3
<1> QED
  BY <1>7, <1>8, <1>9 DEF v

\* More digits never spell less.
LEMMA SpelledGrows ==
    ASSUME NEW text \in Seq(Nat), NEW i \in 0 .. Len(text),
           \A k \in DOMAIN text : Conversions!IsDigit(text[k])
    PROVE  /\ \A k \in 0 .. Len(text) : Conversions!Spelled(text)[k] \in Nat
           /\ Conversions!Spelled(text)[i] =< Conversions!Spelled(text)[Len(text)]
<1> DEFINE v == Conversions!Spelled(text)
           n == Len(text)
           N == {k \in 0 .. n : v[k] \in Nat}
           D == {d \in 0 .. n - i : v[i] =< v[i + d]}
<1>0. n \in Nat /\ i \in Nat /\ i =< n /\ n - i \in Nat
  OBVIOUS
<1>1. v[0] = 0 /\ \A k \in 1 .. n : v[k] = v[k - 1] * 10 + (text[k] - 48)
  BY SpelledIs
<1>2. \A k \in 1 .. n : text[k] \in Nat /\ text[k] >= 48
  BY DEF Conversions!IsDigit
<1> HIDE DEF v, n
<1>3. \A k \in 0 .. n : v[k] \in Nat
  <2>1. 0 \in N
    BY <1>0, <1>1
  <2>2. \A k \in 0 .. n - 1 : k \in N => k + 1 \in N
    <3> SUFFICES ASSUME NEW k \in 0 .. n - 1, k \in N PROVE k + 1 \in N
      OBVIOUS
    <3>1. k + 1 \in 1 .. n /\ k + 1 - 1 = k /\ v[k] \in Nat /\ k + 1 \in 0 .. n
      BY <1>0
    <3>2. PICK j \in 1 .. n : j = k + 1 /\ j - 1 = k
      BY <3>1
    <3>3. v[j] = v[j - 1] * 10 + (text[j] - 48) /\ text[j] \in Nat /\ text[j] >= 48
      BY <1>1, <1>2
    <3>4. v[k + 1] \in Nat
      BY <3>1, <3>2, <3>3
    <3> QED
      BY <3>1, <3>4
  <2>3. \A k \in 0 .. n : k \in N
    <3> HIDE DEF N
    <3> QED
      BY <1>0, <2>1, <2>2, UpTo
  <2> QED
    BY <2>3
<1>4. 0 \in D
  BY <1>0, <1>3
<1>5. \A d \in 0 .. n - i - 1 : d \in D => d + 1 \in D
  <2> SUFFICES ASSUME NEW d \in 0 .. n - i - 1, d \in D PROVE d + 1 \in D
    OBVIOUS
  <2>1. /\ i + d + 1 \in 1 .. n /\ i + d + 1 - 1 = i + d /\ i + d \in 0 .. n
        /\ v[i] =< v[i + d] /\ d + 1 \in 0 .. n - i /\ i + (d + 1) = i + d + 1
    BY <1>0
  <2>2. v[i + d + 1] = v[i + d] * 10 + (text[i + d + 1] - 48)
    BY <1>1, <2>1
  <2>3. PICK j \in 1 .. n : j = i + d + 1
    BY <2>1
  <2>4. v[i] \in Nat /\ v[i + d] \in Nat /\ text[j] \in Nat /\ text[j] >= 48
    BY <1>0, <1>2, <1>3, <2>1
  <2>5. v[j] = v[i + d] * 10 + (text[j] - 48)
    BY <2>2, <2>3
  <2>6. v[i] =< v[i + d + 1]
    <3>1. v[i] =< v[j]
      <4>1. ASSUME NEW a \in Nat, NEW b \in Nat, NEW c \in Nat, c >= 48, a =< b
            PROVE  a =< b * 10 + (c - 48)
        BY <4>1
      <4>2. v[i] =< v[i + d]
        BY <2>1
      <4>3. v[i] =< v[i + d] * 10 + (text[j] - 48)
        BY <2>4, <4>1, <4>2, Zenon
      <4> QED
        BY <2>5, <4>3, Zenon
    <3> QED
      BY <2>3, <3>1
  <2> QED
    BY <2>1, <2>6
<1>6. n - i \in D
  <2> HIDE DEF D
  <2>1. \A d \in 0 .. n - i : d \in D
    BY <1>0, <1>4, <1>5, UpTo
  <2> QED
    BY <1>0, <2>1
<1>7. v[i] =< v[n]
  BY <1>0, <1>6
<1> QED
  BY <1>3, <1>7 DEF v, n

\* What is left without the separators, code unit by code unit.
LEMMA KeptIs ==
    ASSUME NEW text \in Seq(Nat)
    PROVE  /\ \A k \in 0 .. Len(text) : Conversions!Kept(text)[k] \in Seq(Nat)
           /\ Conversions!Kept(text)[0] = << >>
           /\ \A k \in 1 .. Len(text) :
                Conversions!Kept(text)[k] =
                  IF text[k] \in Conversions!Separators THEN Conversions!Kept(text)[k - 1]
                  ELSE Append(Conversions!Kept(text)[k - 1], text[k])
<1> DEFINE Good(n, f) ==
             f = [k \in 0 .. n |-> IF k = 0 THEN << >>
                                   ELSE IF text[k] \in Conversions!Separators THEN f[k - 1]
                                   ELSE Append(f[k - 1], text[k])]
           n == Len(text)
           S == {m \in 0 .. n : \E f : Good(m, f)}
<1>0. n \in Nat
  OBVIOUS
<1>1. 0 \in S
  <2> DEFINE g == [k \in 0 .. 0 |-> << >>]
  <2>1. Good(0, g)
    OBVIOUS
  <2> HIDE DEF g, Good
  <2>2. \E f : Good(0, f)
    BY <2>1
  <2> QED
    BY <1>0, <2>2
<1>2. ASSUME NEW m \in 0 .. n - 1, m \in S
      PROVE  m + 1 \in S
  <2>1. PICK g : Good(m, g)
    BY <1>2
  <2> DEFINE last == IF text[m + 1] \in Conversions!Separators THEN g[m]
                     ELSE Append(g[m], text[m + 1])
             f == [k \in 0 .. m + 1 |-> IF k = m + 1 THEN last ELSE g[k]]
  <2>2. \A k \in 0 .. m : f[k] = g[k]
    OBVIOUS
  <2>3. \A k \in 0 .. m : g[k] = IF k = 0 THEN << >>
                                  ELSE IF text[k] \in Conversions!Separators THEN g[k - 1]
                                  ELSE Append(g[k - 1], text[k])
    BY <2>1, Zenon
  <2>4. \A k \in 0 .. m + 1 : f[k] = IF k = 0 THEN << >>
                                      ELSE IF text[k] \in Conversions!Separators THEN f[k - 1]
                                      ELSE Append(f[k - 1], text[k])
    <3> SUFFICES ASSUME NEW k \in 0 .. m + 1
                 PROVE  f[k] = IF k = 0 THEN << >>
                               ELSE IF text[k] \in Conversions!Separators THEN f[k - 1]
                               ELSE Append(f[k - 1], text[k])
      OBVIOUS
    <3>1. CASE k = m + 1
      <4>1. f[k] = last /\ k # 0 /\ k - 1 = m /\ m \in 0 .. m
        BY <3>1
      <4> HIDE DEF f, last
      <4>2. f[m] = g[m]
        BY <2>2, <4>1
      <4> QED
        BY <3>1, <4>1, <4>2, Zenon DEF last
    <3>2. CASE k = 0
      <4>1. k \in 0 .. m /\ f[k] = g[k]
        BY <3>2
      <4> HIDE DEF f
      <4> QED
        BY <2>3, <3>2, <4>1
    <3>3. CASE k # 0 /\ k # m + 1
      <4>1. k \in 0 .. m /\ k - 1 \in 0 .. m
        BY <3>3
      <4> HIDE DEF f
      <4>2. f[k] = g[k] /\ f[k - 1] = g[k - 1]
        BY <2>2, <4>1, Zenon
      <4> QED
        BY <2>3, <3>3, <4>1, <4>2, Zenon
    <3> QED
      BY <3>1, <3>2, <3>3
  <2>5. f = [k \in 0 .. m + 1 |-> f[k]]
    OBVIOUS
  <2>6. Good(m + 1, f)
    <3> HIDE DEF f
    <3> QED
      BY <2>4, <2>5
  <2> HIDE DEF f, Good
  <2>7. \E h : Good(m + 1, h)
    BY <2>6
  <2> QED
    BY <1>0, <2>7
<1>3. n \in S
  <2> HIDE DEF S, n
  <2>1. \A k \in 0 .. n : k \in S
    BY <1>0, <1>1, <1>2, UpTo
  <2> QED
    BY <1>0, <2>1
<1>4. PICK f : Good(n, f)
  BY <1>3
<1>5. Good(n, Conversions!Kept(text))
  <2>1. Conversions!Kept(text) = CHOOSE g : Good(n, g)
    BY DEF Conversions!Kept
  <2> QED
    BY <1>4, <2>1, Zenon
<1> DEFINE v == Conversions!Kept(text)
<1>6. \A k \in 0 .. n : v[k] = IF k = 0 THEN << >>
                                ELSE IF text[k] \in Conversions!Separators THEN v[k - 1]
                                ELSE Append(v[k - 1], text[k])
  BY <1>5, Zenon
<1> HIDE DEF v, Good, S
<1>7. v[0] = << >>
  BY <1>0, <1>6
<1>8. \A k \in 1 .. n : /\ v[k] = IF text[k] \in Conversions!Separators THEN v[k - 1]
                                   ELSE Append(v[k - 1], text[k])
                        /\ text[k] \in Nat
  <2> SUFFICES ASSUME NEW k \in 1 .. n
               PROVE  /\ v[k] = IF text[k] \in Conversions!Separators THEN v[k - 1]
                                ELSE Append(v[k - 1], text[k])
                      /\ text[k] \in Nat
    OBVIOUS
  <2>1. k \in 0 .. n /\ k # 0 /\ text[k] \in Nat
    OBVIOUS
  <2> QED
    BY <1>6, <2>1, Zenon
<1>9. \A k \in 0 .. n : v[k] \in Seq(Nat)
  <2> DEFINE D == {k \in 0 .. n : v[k] \in Seq(Nat)}
  <2>1. 0 \in D
    <3>1. << >> \in Seq(Nat)
      OBVIOUS
    <3>2. v[0] \in Seq(Nat) /\ 0 \in 0 .. n
      BY <1>0, <1>7, <3>1
    <3> QED
      BY <3>2, Zenon
  <2>2. \A k \in 0 .. n - 1 : k \in D => k + 1 \in D
    <3> SUFFICES ASSUME NEW k \in 0 .. n - 1, k \in D PROVE k + 1 \in D
      OBVIOUS
    <3>1. k + 1 \in 1 .. n /\ k + 1 - 1 = k /\ v[k] \in Seq(Nat) /\ k + 1 \in 0 .. n
      BY <1>0
    <3>2. PICK j \in 1 .. n : j = k + 1 /\ j - 1 = k
      BY <3>1
    <3>4. /\ v[j] = IF text[j] \in Conversions!Separators THEN v[j - 1]
                    ELSE Append(v[j - 1], text[j])
          /\ text[j] \in Nat
      BY <1>8, Zenon
    <3>5. v[j - 1] = v[k] /\ v[j] = v[k + 1]
      BY <3>2
    <3>6. \A s \in Seq(Nat), c \in Nat : Append(s, c) \in Seq(Nat)
      OBVIOUS
    <3>7. Append(v[j - 1], text[j]) \in Seq(Nat) /\ v[j - 1] \in Seq(Nat)
      BY <3>1, <3>4, <3>5, <3>6, Zenon
    <3>3. v[k + 1] \in Seq(Nat)
      BY <3>4, <3>5, <3>7, Zenon
    <3> QED
      BY <3>1, <3>3
  <2>3. \A k \in 0 .. n : k \in D
    <3> HIDE DEF D, n
    <3> QED
      BY <1>0, <2>1, <2>2, UpTo
  <2> QED
    BY <2>3
<1>10. \A k \in 1 .. n : v[k] = IF text[k] \in Conversions!Separators THEN v[k - 1]
                                 ELSE Append(v[k - 1], text[k])
  BY <1>8, Zenon
<1> QED
  BY <1>7, <1>9, <1>10, Zenon DEF v

\* What is left of a part of the text begins what is left of the whole.
LEMMA KeptGrows ==
    ASSUME NEW text \in Seq(Nat), NEW i \in 0 .. Len(text)
    PROVE  /\ Len(Conversions!Kept(text)[i]) =< Len(Conversions!Digits(text))
           /\ \A m \in 1 .. Len(Conversions!Kept(text)[i]) :
                Conversions!Digits(text)[m] = Conversions!Kept(text)[i][m]
<1> DEFINE v == Conversions!Kept(text)
           n == Len(text)
           Begins(s, t) == Len(s) =< Len(t) /\ \A m \in 1 .. Len(s) : t[m] = s[m]
           D == {d \in 0 .. n - i : Begins(v[i], v[i + d])}
<1>0. n \in Nat /\ i \in Nat /\ i =< n /\ n - i \in Nat
  OBVIOUS
<1>1. /\ \A k \in 0 .. n : v[k] \in Seq(Nat)
      /\ \A k \in 1 .. n : v[k] = IF text[k] \in Conversions!Separators THEN v[k - 1]
                                   ELSE Append(v[k - 1], text[k])
  BY KeptIs, Zenon
<1>2. \A k \in 1 .. n : text[k] \in Nat
  OBVIOUS
<1>3. \A s, t \in Seq(Nat), c \in Nat : Begins(s, t) => Begins(s, Append(t, c))
  <2> SUFFICES ASSUME NEW s \in Seq(Nat), NEW t \in Seq(Nat), NEW c \in Nat, Begins(s, t)
               PROVE  Begins(s, Append(t, c))
    OBVIOUS
  <2>1. Len(Append(t, c)) = Len(t) + 1 /\ \A m \in 1 .. Len(t) : Append(t, c)[m] = t[m]
    OBVIOUS
  <2> QED
    BY <2>1
<1>4. \A s \in Seq(Nat) : Begins(s, s)
  OBVIOUS
<1> HIDE DEF v, n, Begins
<1>5. 0 \in D
  <2>1. v[i] \in Seq(Nat) /\ i + 0 = i /\ 0 \in 0 .. n - i
    BY <1>0, <1>1
  <2> QED
    BY <1>4, <2>1
<1>6. \A d \in 0 .. n - i - 1 : d \in D => d + 1 \in D
  <2> SUFFICES ASSUME NEW d \in 0 .. n - i - 1, d \in D PROVE d + 1 \in D
    OBVIOUS
  <2>1. PICK j \in 1 .. n : j = i + (d + 1) /\ j - 1 = i + d /\ j - 1 \in 0 .. n
    BY <1>0
  <2>2. Begins(v[i], v[j - 1]) /\ v[i] \in Seq(Nat) /\ v[j - 1] \in Seq(Nat)
    BY <1>0, <1>1, <2>1
  <2>3. v[j] = v[j - 1] \/ v[j] = Append(v[j - 1], text[j])
    BY <1>1, Zenon
  <2>4. Begins(v[i], v[j])
    BY <1>2, <1>3, <2>2, <2>3, Zenon
  <2> QED
    BY <1>0, <2>1, <2>4
<1>7. n - i \in D
  <2> HIDE DEF D
  <2>1. \A d \in 0 .. n - i : d \in D
    BY <1>0, <1>5, <1>6, UpTo
  <2> QED
    BY <1>0, <2>1
<1>8. Begins(v[i], v[n])
  BY <1>0, <1>7
<1>9. v[n] = Conversions!Digits(text)
  BY DEF v, n, Conversions!Digits
<1> QED
  BY <1>8, <1>9, Zenon DEF Begins, v

-----------------------------------------------------------------------------
\* The value of a hexadecimal digit and the digit of a value.
LEMMA HexValues ==
    ASSUME NEW c \in Nat
    PROVE  /\ Conversions!HexValue(c) \in -1 .. 15
           /\ Conversions!HexValue(c) >= 0 =>
                Conversions!HexDigit(Conversions!HexValue(c)) \in 1 .. 127
<1>1. CASE c \in 48 .. 57
  <2>1. Conversions!HexValue(c) = c - 48
    BY <1>1 DEF Conversions!HexValue, Conversions!IsDigit
  <2> QED
    BY <1>1, <2>1 DEF Conversions!HexDigit
<1>2. CASE c \in 97 .. 102
  <2>1. Conversions!HexValue(c) = c - 97 + 10
    BY <1>2 DEF Conversions!HexValue, Conversions!IsDigit
  <2> QED
    BY <1>2, <2>1 DEF Conversions!HexDigit
<1>3. CASE c \in 65 .. 70
  <2>1. Conversions!HexValue(c) = c - 65 + 10
    BY <1>3 DEF Conversions!HexValue, Conversions!IsDigit
  <2> QED
    BY <1>3, <2>1 DEF Conversions!HexDigit
<1>4. CASE c \notin 48 .. 57 /\ c \notin 97 .. 102 /\ c \notin 65 .. 70
  <2>1. Conversions!HexValue(c) = -1
    BY <1>4 DEF Conversions!HexValue, Conversions!IsDigit
  <2> QED
    BY <2>1
<1> QED
  BY <1>1, <1>2, <1>3, <1>4

\* What the constants of the conversions are.
LEMMA ConversionsConstants ==
    /\ MAX_UINT16 \in Nat /\ MAX_UINT16 >= 22
    /\ DigestLength \in Nat /\ 1 =< DigestLength /\ Capacity \in Nat /\ 1 =< Capacity
    /\ \A u \in Conversions!CodeUnits : u \in Nat /\ u =< Conversions!LastUnit
    /\ Conversions!LastUnit \in Nat /\ Conversions!LastUnit >= 127
    /\ \A call \in Calls : /\ call.kind \in Conversions!Kinds /\ call.length \in Nat
                            /\ call.units \subseteq Conversions!CodeUnits
<1>1. /\ MAX_UINT16 \in Nat /\ MAX_UINT16 >= 22 /\ DigestLength \in Nat \ {0}
  BY PartsAssumption, Zenon DEF Conversions!TextsAssumption
<1>2. /\ Capacity \in Nat \ {0}
      /\ \A call \in Calls : /\ call.kind \in Conversions!Kinds /\ call.length \in Nat
                              /\ call.units \subseteq Conversions!CodeUnits
  BY PartsAssumption, Zenon DEF Conversions!ConversionsAssumption
<1>3. Conversions!LastUnit \in Nat /\ Conversions!LastUnit >= 127
  BY DEF Conversions!LastUnit
<1>4. \A u \in Conversions!CodeUnits : u \in Nat /\ u =< Conversions!LastUnit
  BY DEF Conversions!CodeUnits
<1> QED
  BY <1>1, <1>2, <1>3, <1>4

ConversionTypes ==
    /\ kind \in Conversions!Kinds /\ status \in {"RUNNING", "SUCCESS", "INVALID_PARAMETER"}
    /\ Text \in Seq(Nat) /\ Index \in Nat /\ Index =< Len(Text)
    /\ OutputIndex \in Nat /\ OutputIndex =< DigestLength
    /\ Value \in Nat /\ Value =< MAX_UINT16 * 10 + 9 /\ Port \in 1 .. MAX_UINT16
    /\ Destination \in [0 .. Conversions!Room - 1 -> 0 .. Conversions!Junk]

\* What each loop has done so far, and what it has done in the end.
CopyTurns ==
    /\ Index < Capacity
    /\ \A k \in 1 .. Index : Text[k] =< 127 /\ Destination[k - 1] = Text[k]
CopyDone ==
    /\ Conversions!Accepted => Conversions!Fits(Text, Capacity) /\ Conversions!Holds(Text)
    /\ Conversions!Rejected => ~Conversions!Fits(Text, Capacity) /\ Conversions!Holds(<< >>)

PortTurns ==
    /\ Value =< MAX_UINT16 /\ Value = Conversions!Spelled(Text)[Index]
    /\ \A k \in 1 .. Index : Conversions!IsDigit(Text[k])
    /\ Port = Conversions!DefaultPort
PortDone ==
    /\ Conversions!Accepted => Port = Conversions!ParsedPort(Text) /\ Port # 0
    /\ Conversions!Rejected => Conversions!ParsedPort(Text) = 0 /\ Port = Conversions!DefaultPort

FingerprintTurns ==
    /\ OutputIndex = Len(Conversions!Kept(Text)[Index])
    /\ \A k \in 1 .. OutputIndex :
         LET v == Conversions!HexValue(Conversions!Kept(Text)[Index][k])
         IN v >= 0 /\ Destination[k - 1] = Conversions!HexDigit(v)
FingerprintDone ==
    /\ Conversions!Accepted =>
         Conversions!IsFingerprint(Text) /\ Conversions!Holds(Conversions!Normalized(Text))
    /\ Conversions!Rejected => ~Conversions!IsFingerprint(Text)

ConversionsInv ==
    /\ ConversionTypes
    /\ kind = "copy" => CopyDone /\ (Conversions!Running => CopyTurns)
    /\ kind = "port" => PortDone /\ (Conversions!Running => PortTurns)
    /\ kind = "fingerprint" => FingerprintDone /\ (Conversions!Running => FingerprintTurns)

\* A write inside the buffer changes one place of it.
LEMMA StoredOne ==
    ASSUME ConversionTypes, NEW i \in 0 .. Conversions!Room - 1, NEW u \in 0 .. Conversions!Junk
    PROVE  /\ Conversions!Stored(i, u) \in [0 .. Conversions!Room - 1 -> 0 .. Conversions!Junk]
           /\ Conversions!Stored(i, u)[i] = u
           /\ \A k \in 0 .. Conversions!Room - 1 :
                k # i => Conversions!Stored(i, u)[k] = Destination[k]
<1>1. DOMAIN Destination \cup {i} = 0 .. Conversions!Room - 1
  BY DEF ConversionTypes
<1>2. Conversions!Stored(i, u) =
        [k \in 0 .. Conversions!Room - 1 |-> IF k = i THEN u ELSE Destination[k]]
  BY <1>1, Zenon DEF Conversions!Stored
<1> QED
  BY <1>2 DEF ConversionTypes

\* What was in the buffer is no byte.
LEMMA Junks == Conversions!Junk \in Nat /\ Conversions!Junk >= 128
BY ConversionsConstants DEF Conversions!Junk

\* A turn of the loop of CopyUnicodeAsAscii.
LEMMA CopyStep ==
    ASSUME ConversionsInv, Conversions!CopyUnicodeAsAscii
    PROVE  ConversionsInv'
<1>1. /\ kind = "copy" /\ Conversions!Running /\ status = "RUNNING"
      /\ UNCHANGED <<kind, Text, Value, OutputIndex, Port>>
  BY DEF Conversions!CopyUnicodeAsAscii, Conversions!Running
<1>2. ConversionTypes /\ CopyTurns
  BY <1>1 DEF ConversionsInv
<1>3. /\ Text \in Seq(Nat) /\ Index \in Nat /\ Index =< Len(Text) /\ Index < Capacity
      /\ Conversions!Room = Capacity /\ Len(Text) \in Nat
  BY <1>1, <1>2 DEF ConversionTypes, CopyTurns, Conversions!Room
<1>4. Conversions!Room' = Capacity
  BY <1>1 DEF Conversions!Room
<1>5. 0 \in 0 .. Conversions!Room - 1 /\ Index \in 0 .. Conversions!Room - 1
  BY <1>3, ConversionsConstants
<1>6. Conversions!Nul \in 0 .. Conversions!Junk /\ Conversions!Nul = 0
  BY Junks DEF Conversions!Nul
<1>7. Conversions!AtEnd => Index = Len(Text)
  BY <1>3 DEF Conversions!AtEnd
<1>8. ~Conversions!AtEnd => /\ Index + 1 \in 1 .. Len(Text) /\ Conversions!Unit = Text[Index + 1]
                           /\ Text[Index + 1] \in Nat
  BY <1>3 DEF Conversions!AtEnd, Conversions!Unit
<1>9. CASE Conversions!AtEnd
  <2>1. /\ Destination' = Conversions!Stored(Index, 0) /\ status' = "SUCCESS" /\ Index' = Index
    BY <1>6, <1>9 DEF Conversions!CopyUnicodeAsAscii, Conversions!Ends
  <2>2. /\ Destination' \in [0 .. Conversions!Room - 1 -> 0 .. Conversions!Junk]
        /\ Destination'[Index] = 0
        /\ \A k \in 0 .. Conversions!Room - 1 : k # Index => Destination'[k] = Destination[k]
    BY <1>2, <1>5, <1>6, <2>1, StoredOne, Zenon
  <2>3. ConversionTypes'
    BY <1>1, <1>2, <1>3, <1>4, <2>1, <2>2 DEF ConversionTypes, Conversions!Junk
  <2>4. \A k \in 1 .. Index : k - 1 \in 0 .. Conversions!Room - 1 /\ k - 1 # Index
    BY <1>3, ConversionsConstants
  <2>5. \A k \in 1 .. Index : Destination'[k - 1] = Text[k] /\ Text[k] =< 127
    BY <1>2, <2>2, <2>4, Zenon DEF CopyTurns
  <2>6. Conversions!Fits(Text, Capacity)
    BY <1>3, <1>7, <1>9, <2>5 DEF Conversions!Fits
  <2>7. Destination'[Len(Text)] = 0 /\ \A k \in DOMAIN Text : Destination'[k - 1] = Text[k]
    BY <1>3, <1>7, <1>9, <2>2, <2>5
  <2>8. CopyDone'
    BY <1>1, <1>6, <2>1, <2>6, <2>7
       DEF CopyDone, Conversions!Accepted, Conversions!Rejected, Conversions!Holds,
           Conversions!Fits, Conversions!Nul
  <2> QED
    BY <1>1, <2>1, <2>3, <2>8 DEF ConversionsInv, Conversions!Running
<1>10. CASE ~Conversions!AtEnd /\ (Conversions!TooLong \/ Conversions!Unit > 127)
  <2>1. Destination' = Conversions!Stored(0, 0) /\ status' = "INVALID_PARAMETER" /\ Index' = Index
    BY <1>6, <1>10 DEF Conversions!CopyUnicodeAsAscii, Conversions!Ends
  <2>2. /\ Destination' \in [0 .. Conversions!Room - 1 -> 0 .. Conversions!Junk]
        /\ Destination'[0] = 0
    BY <1>2, <1>5, <1>6, <2>1, StoredOne, Zenon
  <2>3. ConversionTypes'
    BY <1>1, <1>2, <1>3, <1>4, <2>1, <2>2 DEF ConversionTypes, Conversions!Junk
  <2>4. ~Conversions!Fits(Text, Capacity)
    <3>1. CASE Conversions!TooLong
      BY <1>3, <1>8, <1>10, <3>1, ConversionsConstants DEF Conversions!TooLong, Conversions!Fits
    <3>2. CASE Conversions!Unit > 127
      BY <1>3, <1>8, <1>10, <3>2 DEF Conversions!Fits
    <3> QED
      BY <1>10, <3>1, <3>2
  <2>5. Destination'[Len(<< >>)] = 0 /\ \A k \in DOMAIN << >> : Destination'[k - 1] = << >>[k]
    BY <2>2
  <2>6. CopyDone'
    BY <1>1, <1>6, <2>1, <2>4, <2>5
       DEF CopyDone, Conversions!Accepted, Conversions!Rejected, Conversions!Holds,
           Conversions!Fits, Conversions!Nul
  <2> QED
    BY <1>1, <2>1, <2>3, <2>6 DEF ConversionsInv, Conversions!Running
<1>11. CASE ~Conversions!AtEnd /\ ~(Conversions!TooLong \/ Conversions!Unit > 127)
  <2>1. /\ Destination' = Conversions!Stored(Index, Text[Index + 1]) /\ status' = "RUNNING"
        /\ Index' = Index + 1
    BY <1>1, <1>8, <1>11 DEF Conversions!CopyUnicodeAsAscii, Conversions!Advances
  <2>2. /\ Text[Index + 1] =< 127 /\ Text[Index + 1] \in 0 .. Conversions!Junk
        /\ Index + 1 < Capacity
    BY <1>3, <1>8, <1>11, Junks, ConversionsConstants DEF Conversions!TooLong
  <2>3. /\ Destination' \in [0 .. Conversions!Room - 1 -> 0 .. Conversions!Junk]
        /\ Destination'[Index] = Text[Index + 1]
        /\ \A k \in 0 .. Conversions!Room - 1 : k # Index => Destination'[k] = Destination[k]
    BY <1>2, <1>5, <2>1, <2>2, StoredOne, Zenon
  <2>4. ConversionTypes'
    BY <1>1, <1>2, <1>3, <1>4, <1>8, <1>11, <2>1, <2>3 DEF ConversionTypes, Conversions!Junk
  <2>5. ASSUME NEW k \in 1 .. Index + 1
        PROVE  Text[k] =< 127 /\ Destination'[k - 1] = Text[k]
    <3>1. CASE k = Index + 1
      BY <1>3, <2>2, <2>3, <3>1
    <3>2. CASE k # Index + 1
      <4>1. k \in 1 .. Index /\ k - 1 \in 0 .. Conversions!Room - 1 /\ k - 1 # Index
        BY <1>3, <3>2, ConversionsConstants
      <4> QED
        BY <1>2, <2>3, <4>1, Zenon DEF CopyTurns
    <3> QED
      BY <3>1, <3>2
  <2>6. CopyTurns'
    BY <1>1, <2>1, <2>2, <2>5 DEF CopyTurns
  <2>7. CopyDone'
    BY <2>1 DEF CopyDone, Conversions!Accepted, Conversions!Rejected
  <2> QED
    BY <1>1, <2>4, <2>6, <2>7 DEF ConversionsInv
<1> QED
  BY <1>9, <1>10, <1>11

\* A text with something that is no digit spells no port, nor does one whose first
\* digits spell too much.
LEMMA NoPort ==
    ASSUME NEW text \in Seq(Nat), NEW i \in 0 .. Len(text) - 1,
           ~Conversions!IsDigit(text[i + 1]) \/ Conversions!Spelled(text)[i + 1] > MAX_UINT16
    PROVE  Conversions!ParsedPort(text) = 0
<1>0. i + 1 \in 0 .. Len(text) /\ i + 1 \in DOMAIN text /\ Len(text) \in Nat
  OBVIOUS
<1>1. CASE ~Conversions!IsDigit(text[i + 1])
  BY <1>0, <1>1, Zenon DEF Conversions!ParsedPort
<1>2. CASE /\ Conversions!Spelled(text)[i + 1] > MAX_UINT16
           /\ \A k \in DOMAIN text : Conversions!IsDigit(text[k])
  <2>1. /\ \A k \in 0 .. Len(text) : Conversions!Spelled(text)[k] \in Nat
        /\ Conversions!Spelled(text)[i + 1] =< Conversions!Spelled(text)[Len(text)]
    BY <1>0, <1>2, SpelledGrows, Zenon
  <2>2. PICK a : a = Conversions!Spelled(text)[i + 1]
    OBVIOUS
  <2>3. PICK b : b = Conversions!Spelled(text)[Len(text)]
    OBVIOUS
  <2>4. a \in Nat /\ b \in Nat /\ a =< b /\ a > MAX_UINT16
    <3>1. Len(text) \in 0 .. Len(text)
      BY <1>0
    <3> QED
      BY <1>0, <1>2, <2>1, <2>2, <2>3, <3>1, Zenon
  <2>5. ~(b =< MAX_UINT16)
    BY <2>4, ConversionsConstants
  <2>6. Conversions!Number(text) = b
    BY <2>3 DEF Conversions!Number
  <2> QED
    BY <2>5, <2>6, Zenon DEF Conversions!ParsedPort
<1>3. CASE ~\A k \in DOMAIN text : Conversions!IsDigit(text[k])
  BY <1>3, Zenon DEF Conversions!ParsedPort
<1> QED
  BY <1>1, <1>2, <1>3

\* A turn of the loop of ParsePort.
LEMMA PortStep ==
    ASSUME ConversionsInv, Conversions!ParsePort
    PROVE  ConversionsInv'
<1>1. /\ kind = "port" /\ Conversions!Running /\ status = "RUNNING"
      /\ UNCHANGED <<kind, Text, Destination, OutputIndex>>
  BY DEF Conversions!ParsePort, Conversions!Running
<1>2. ConversionTypes /\ PortTurns
  BY <1>1 DEF ConversionsInv
<1>3. /\ Text \in Seq(Nat) /\ Index \in Nat /\ Index =< Len(Text) /\ Len(Text) \in Nat
      /\ Value \in Nat /\ Value =< MAX_UINT16 /\ Port = Conversions!DefaultPort
      /\ Value = Conversions!Spelled(Text)[Index]
      /\ \A k \in 1 .. Index : Conversions!IsDigit(Text[k])
  BY <1>1, <1>2 DEF ConversionTypes, PortTurns
<1>4. Conversions!Room' = Conversions!Room
  BY <1>1 DEF Conversions!Room
<1>5. MAX_UINT16 \in Nat
  BY ConversionsConstants
<1>7. Conversions!AtEnd => Index = Len(Text)
  BY <1>3 DEF Conversions!AtEnd
<1>8. ~Conversions!AtEnd => /\ Index + 1 \in 1 .. Len(Text) /\ Conversions!Unit = Text[Index + 1]
                           /\ Text[Index + 1] \in Nat /\ Index \in 0 .. Len(Text) - 1
  BY <1>3 DEF Conversions!AtEnd, Conversions!Unit
<1> DEFINE Types == /\ Index' \in Nat /\ Index' =< Len(Text) /\ Value' \in Nat
                    /\ Value' =< MAX_UINT16 * 10 + 9 /\ Port' \in 1 .. MAX_UINT16
                    /\ status' \in {"RUNNING", "SUCCESS", "INVALID_PARAMETER"}
<1>9. Types => ConversionTypes'
  BY <1>1, <1>2, <1>4 DEF ConversionTypes, Conversions!Junk
<1>10. Port \in 1 .. MAX_UINT16
  BY <1>2 DEF ConversionTypes
<1>11. CASE Conversions!AtEnd /\ (Text = << >> \/ Value = 0)
  <2>1. status' = "INVALID_PARAMETER" /\ Index' = Index /\ Value' = Value /\ Port' = Port
    BY <1>11 DEF Conversions!ParsePort, Conversions!Ends
  <2>2. ConversionTypes'
    BY <1>3, <1>5, <1>9, <1>10, <2>1
  <2>3. Conversions!ParsedPort(Text) = 0
    <3>1. Conversions!Number(Text) = Value
      BY <1>3, <1>7, <1>11 DEF Conversions!Number
    <3> QED
      BY <1>11, <3>1, Zenon DEF Conversions!ParsedPort
  <2>4. PortDone'
    BY <1>1, <1>3, <2>1, <2>3 DEF PortDone, Conversions!Accepted, Conversions!Rejected,
       Conversions!DefaultPort
  <2> QED
    BY <1>1, <2>1, <2>2, <2>4 DEF ConversionsInv, Conversions!Running
<1>12. CASE Conversions!AtEnd /\ ~(Text = << >> \/ Value = 0)
  <2>1. /\ status' = "SUCCESS" /\ Index' = Index /\ Value' = Value
        /\ Port' = Value % (MAX_UINT16 + 1)
    BY <1>12 DEF Conversions!ParsePort, Conversions!Ends
  <2>2. Value % (MAX_UINT16 + 1) = Value
    <3>1. \A a, m \in Nat : a =< m => a % (m + 1) = a
      OBVIOUS
    <3> QED
      BY <1>3, <1>5, <3>1, Zenon
  <2>3. Port' = Value /\ Value # 0
    BY <1>12, <2>1, <2>2
  <2>4. ConversionTypes'
    BY <1>3, <1>5, <1>9, <2>1, <2>3
  <2>5. Conversions!ParsedPort(Text) = Value
    <3>1. Conversions!Number(Text) = Value
      BY <1>3, <1>7, <1>12 DEF Conversions!Number
    <3>2. \A k \in DOMAIN Text : Conversions!IsDigit(Text[k])
      BY <1>3, <1>7, <1>12
    <3> QED
      BY <1>3, <1>12, <3>1, <3>2, Zenon DEF Conversions!ParsedPort
  <2>6. PortDone'
    BY <1>1, <2>1, <2>3, <2>5 DEF PortDone, Conversions!Accepted, Conversions!Rejected
  <2> QED
    BY <1>1, <2>1, <2>4, <2>6 DEF ConversionsInv, Conversions!Running
<1>13. CASE ~Conversions!AtEnd /\ ~Conversions!IsDigit(Conversions!Unit)
  <2>1. status' = "INVALID_PARAMETER" /\ Index' = Index /\ Value' = Value /\ Port' = Port
    BY <1>13 DEF Conversions!ParsePort, Conversions!Ends
  <2>2. ConversionTypes'
    BY <1>3, <1>5, <1>9, <1>10, <2>1
  <2>3. Conversions!ParsedPort(Text) = 0
    BY <1>3, <1>8, <1>13, NoPort
  <2>4. PortDone'
    BY <1>1, <1>3, <2>1, <2>3 DEF PortDone, Conversions!Accepted, Conversions!Rejected,
       Conversions!DefaultPort
  <2> QED
    BY <1>1, <2>1, <2>2, <2>4 DEF ConversionsInv, Conversions!Running
<1>14. CASE ~Conversions!AtEnd /\ Conversions!IsDigit(Conversions!Unit)
  <2> DEFINE w == Value * 10 + (Text[Index + 1] - 48)
  <2>1. /\ Value' = w /\ Port' = Port
        /\ IF w > MAX_UINT16 THEN status' = "INVALID_PARAMETER" /\ Index' = Index
           ELSE status' = "RUNNING" /\ Index' = Index + 1
    BY <1>1, <1>8, <1>14 DEF Conversions!ParsePort, Conversions!Ends, Conversions!Advances,
       Conversions!TooLarge
  <2>2. 48 =< Text[Index + 1] /\ Text[Index + 1] =< 57
    BY <1>8, <1>14 DEF Conversions!IsDigit
  <2>3. w \in Nat /\ w =< MAX_UINT16 * 10 + 9
    <3>1. \A a, m, c \in Nat :
            a =< m /\ 48 =< c /\ c =< 57 =>
              a * 10 + (c - 48) \in Nat /\ a * 10 + (c - 48) =< m * 10 + 9
      OBVIOUS
    <3>2. Text[Index + 1] \in Nat
      BY <1>8, <1>14
    <3> QED
      BY <1>3, <1>5, <2>2, <3>1, <3>2, Zenon
  <2>4. w = Conversions!Spelled(Text)[Index + 1]
    <3>1. PICK j \in 1 .. Len(Text) : j = Index + 1 /\ j - 1 = Index
      BY <1>3, <1>8, <1>14
    <3>2. Conversions!Spelled(Text)[j] = Conversions!Spelled(Text)[j - 1] * 10 + (Text[j] - 48)
      BY <1>3, SpelledIs, Zenon
    <3> QED
      BY <1>3, <3>1, <3>2
  <2> HIDE DEF w
  <2>5. CASE w > MAX_UINT16
    <3>1. ConversionTypes'
      BY <1>3, <1>9, <1>10, <2>1, <2>3, <2>5
    <3>2. Conversions!ParsedPort(Text) = 0
      BY <1>3, <1>8, <1>14, <2>4, <2>5, NoPort
    <3>3. PortDone'
      BY <1>1, <1>3, <2>1, <2>5, <3>2 DEF PortDone, Conversions!Accepted, Conversions!Rejected,
         Conversions!DefaultPort
    <3> QED
      BY <1>1, <2>1, <2>5, <3>1, <3>3 DEF ConversionsInv, Conversions!Running
  <2>6. CASE ~(w > MAX_UINT16)
    <3>1. ConversionTypes'
      BY <1>3, <1>8, <1>9, <1>10, <1>14, <2>1, <2>3, <2>6
    <3>2. \A k \in 1 .. Index + 1 : Conversions!IsDigit(Text[k])
      <4>1. \A k \in 1 .. Index + 1 : k \in 1 .. Index \/ k = Index + 1
        BY <1>3
      <4> QED
        BY <1>3, <1>8, <1>14, <4>1, Zenon
    <3>3. w =< MAX_UINT16
      BY <1>5, <2>3, <2>6
    <3>4. PortTurns'
      BY <1>1, <1>3, <2>1, <2>4, <2>6, <3>2, <3>3
         DEF PortTurns, Conversions!IsDigit, Conversions!Spelled, Conversions!DefaultPort
    <3>5. PortDone'
      BY <2>1, <2>6 DEF PortDone, Conversions!Accepted, Conversions!Rejected
    <3> QED
      BY <1>1, <3>1, <3>4, <3>5 DEF ConversionsInv
  <2> QED
    BY <2>5, <2>6
<1> QED
  BY <1>11, <1>12, <1>13, <1>14

\* A turn of the loop of ParseFingerprint.
LEMMA FingerprintStep ==
    ASSUME ConversionsInv, Conversions!ParseFingerprint
    PROVE  ConversionsInv'
<1> DEFINE v == Conversions!Kept(Text)
           s == v[Index]
           unit == Text[Index + 1]
<1>1. /\ kind = "fingerprint" /\ Conversions!Running /\ status = "RUNNING"
      /\ UNCHANGED <<kind, Text, Value, Port>>
  BY DEF Conversions!ParseFingerprint, Conversions!Running
<1>2. ConversionTypes /\ FingerprintTurns
  BY <1>1 DEF ConversionsInv
<1>3. /\ Text \in Seq(Nat) /\ Index \in Nat /\ Index =< Len(Text) /\ Len(Text) \in Nat
      /\ OutputIndex \in Nat /\ OutputIndex =< DigestLength
      /\ Conversions!Room = DigestLength + 1
  BY <1>1, <1>2 DEF ConversionTypes, Conversions!Room
<1>4. Conversions!Room' = Conversions!Room
  BY <1>1 DEF Conversions!Room
<1>5. /\ OutputIndex \in 0 .. Conversions!Room - 1 /\ DigestLength \in Nat
  BY <1>3, ConversionsConstants
<1>6. Conversions!Nul \in 0 .. Conversions!Junk /\ Conversions!Nul = 0
  BY Junks DEF Conversions!Nul
<1>7. Conversions!AtEnd => Index = Len(Text)
  BY <1>3 DEF Conversions!AtEnd
<1>8. ~Conversions!AtEnd => /\ Index + 1 \in 1 .. Len(Text) /\ Conversions!Unit = unit
                           /\ unit \in Nat
  BY <1>3 DEF Conversions!AtEnd, Conversions!Unit
<1>9. /\ s \in Seq(Nat) /\ Len(s) = OutputIndex
      /\ \A k \in 1 .. OutputIndex :
           /\ Conversions!HexValue(s[k]) >= 0
           /\ Destination[k - 1] = Conversions!HexDigit(Conversions!HexValue(s[k]))
  <2>1. Index \in 0 .. Len(Text)
    BY <1>3
  <2>2. s \in Seq(Nat)
    BY <1>3, <2>1, KeptIs, Zenon
  <2> QED
    BY <1>2, <2>2, Zenon DEF FingerprintTurns
<1>10. ~Conversions!AtEnd => v[Index + 1] = IF unit \in Conversions!Separators THEN s
                                            ELSE Append(s, unit)
  <2> SUFFICES ASSUME ~Conversions!AtEnd
               PROVE  v[Index + 1] = IF unit \in Conversions!Separators THEN s ELSE Append(s, unit)
    OBVIOUS
  <2>1. PICK j \in 1 .. Len(Text) : j = Index + 1 /\ j - 1 = Index
    BY <1>3, <1>8
  <2>2. v[j] = IF Text[j] \in Conversions!Separators THEN v[j - 1] ELSE Append(v[j - 1], Text[j])
    BY <1>3, KeptIs, Zenon
  <2> QED
    BY <2>1, <2>2, Zenon
<1> DEFINE Types == /\ Index' \in Nat /\ Index' =< Len(Text)
                    /\ OutputIndex' \in Nat /\ OutputIndex' =< DigestLength
                    /\ status' \in {"RUNNING", "SUCCESS", "INVALID_PARAMETER"}
                    /\ Destination' \in [0 .. Conversions!Room - 1 -> 0 .. Conversions!Junk]
<1>11. Types => ConversionTypes'
  BY <1>1, <1>2, <1>4 DEF ConversionTypes, Conversions!Junk
<1>12. Destination \in [0 .. Conversions!Room - 1 -> 0 .. Conversions!Junk]
  BY <1>2 DEF ConversionTypes
<1>13. Conversions!Digits(Text) = v[Len(Text)]
  BY DEF Conversions!Digits
<1> HIDE DEF s, v, unit
<1>14. CASE Conversions!AtEnd /\ ~Conversions!Complete
  <2>1. status' = "INVALID_PARAMETER" /\ UNCHANGED <<Index, Destination, OutputIndex>>
    BY <1>14 DEF Conversions!ParseFingerprint, Conversions!Ends
  <2>2. ConversionTypes'
    BY <1>3, <1>11, <1>12, <2>1
  <2>3. ~Conversions!IsFingerprint(Text)
    BY <1>7, <1>9, <1>13, <1>14 DEF Conversions!IsFingerprint, Conversions!Complete, s
  <2>4. FingerprintDone'
    <3>1. Conversions!IsFingerprint(Text)' = Conversions!IsFingerprint(Text)
      BY <1>1 DEF Conversions!IsFingerprint, Conversions!Digits, Conversions!Kept,
         Conversions!HexValue, Conversions!IsDigit
    <3>2. status' # "SUCCESS"
      BY <2>1
    <3> QED
      BY <2>3, <3>1, <3>2, Zenon DEF FingerprintDone, Conversions!Accepted
  <2> QED
    BY <1>1, <2>1, <2>2, <2>4 DEF ConversionsInv, Conversions!Running
<1>15. CASE Conversions!AtEnd /\ Conversions!Complete
  <2>1. /\ status' = "SUCCESS" /\ UNCHANGED <<Index, OutputIndex>>
        /\ Destination' = Conversions!Stored(OutputIndex, 0) /\ OutputIndex = DigestLength
    BY <1>6, <1>15 DEF Conversions!ParseFingerprint, Conversions!Ends, Conversions!Complete
  <2>2. /\ Destination' \in [0 .. Conversions!Room - 1 -> 0 .. Conversions!Junk]
        /\ Destination'[OutputIndex] = 0
        /\ \A k \in 0 .. Conversions!Room - 1 :
             k # OutputIndex => Destination'[k] = Destination[k]
    BY <1>2, <1>5, <1>6, <2>1, StoredOne, Zenon
  <2>3. ConversionTypes'
    BY <1>3, <1>11, <2>1, <2>2
  <2>4. Conversions!Digits(Text) = s
    BY <1>7, <1>13, <1>15 DEF s
  <2>5. DOMAIN s = 1 .. OutputIndex
    BY <1>9
  <2>6. Conversions!IsFingerprint(Text)
    BY <1>9, <2>1, <2>4, <2>5, Zenon DEF Conversions!IsFingerprint
  <2> DEFINE r == Conversions!Normalized(Text)
  <2>7. r = [k \in 1 .. OutputIndex |-> Conversions!HexDigit(Conversions!HexValue(s[k]))]
    BY <2>4, <2>5, Zenon DEF Conversions!Normalized
  <2>8. Len(r) = OutputIndex /\ DOMAIN r = 1 .. OutputIndex
    BY <1>3, <2>7
  <2>9. \A k \in 1 .. OutputIndex : r[k] = Conversions!HexDigit(Conversions!HexValue(s[k]))
    BY <2>7, Zenon
  <2> HIDE DEF r
  <2>10. \A k \in 1 .. OutputIndex : Destination'[k - 1] = r[k]
    <3> SUFFICES ASSUME NEW k \in 1 .. OutputIndex PROVE Destination'[k - 1] = r[k]
      OBVIOUS
    <3>1. k - 1 \in 0 .. Conversions!Room - 1 /\ k - 1 # OutputIndex
      BY <1>3, <1>5
    <3> QED
      BY <1>9, <2>2, <2>9, <3>1, Zenon
  <2>11. Destination'[Len(r)] = Conversions!Nul /\ \A k \in DOMAIN r : Destination'[k - 1] = r[k]
    BY <1>6, <2>2, <2>8, <2>10, Zenon
  <2>12. Text' = Text /\ status' # "INVALID_PARAMETER"
    BY <1>1, <2>1
  <2>13. FingerprintDone'
    <3>1. Conversions!IsFingerprint(Text)' = Conversions!IsFingerprint(Text)
          /\ Conversions!Normalized(Text)' = Conversions!Normalized(Text)
      BY <2>12 DEF Conversions!IsFingerprint, Conversions!Normalized, Conversions!Digits,
         Conversions!Kept, Conversions!HexValue, Conversions!IsDigit, Conversions!HexDigit
    <3>2. Conversions!Holds(Conversions!Normalized(Text))'
      BY <2>11, <3>1, Zenon DEF Conversions!Holds, Conversions!Nul, r
    <3> QED
      BY <2>6, <2>12, <3>1, <3>2, Zenon DEF FingerprintDone, Conversions!Rejected
  <2> QED
    BY <1>1, <2>1, <2>3, <2>13 DEF ConversionsInv, Conversions!Running
<1>16. CASE ~Conversions!AtEnd /\ unit \in Conversions!Separators
  <2>1. /\ status' = "RUNNING" /\ Index' = Index + 1 /\ UNCHANGED <<Destination, OutputIndex>>
    BY <1>1, <1>8, <1>16 DEF Conversions!ParseFingerprint, Conversions!Advances
  <2>2. ConversionTypes'
    BY <1>3, <1>8, <1>11, <1>12, <1>16, <2>1
  <2>3. Conversions!Kept(Text)'[Index'] = s
    BY <1>1, <1>10, <1>16, <2>1 DEF v, Conversions!Kept
  <2>4. FingerprintTurns'
    <3>1. /\ OutputIndex' = Len(Conversions!Kept(Text)'[Index'])
          /\ \A k \in 1 .. OutputIndex' :
               /\ Conversions!HexValue(Conversions!Kept(Text)'[Index'][k]) >= 0
               /\ Destination'[k - 1] =
                    Conversions!HexDigit(Conversions!HexValue(Conversions!Kept(Text)'[Index'][k]))
      BY <1>9, <2>1, <2>3
    <3> QED
      BY <3>1, Zenon DEF FingerprintTurns
  <2>5. FingerprintDone'
    BY <2>1 DEF FingerprintDone, Conversions!Accepted, Conversions!Rejected
  <2> QED
    BY <1>1, <2>2, <2>4, <2>5 DEF ConversionsInv
<1>17. CASE /\ ~Conversions!AtEnd /\ unit \notin Conversions!Separators
            /\ Conversions!HexValue(unit) < 0 \/ OutputIndex >= DigestLength
  <2>1. status' = "INVALID_PARAMETER" /\ UNCHANGED <<Index, Destination, OutputIndex>>
    BY <1>8, <1>17 DEF Conversions!ParseFingerprint, Conversions!Ends
  <2>2. ConversionTypes'
    BY <1>3, <1>11, <1>12, <2>1
  <2>3. v[Index + 1] = Append(s, unit) /\ unit \in Nat /\ Index + 1 \in 0 .. Len(Text)
    BY <1>3, <1>8, <1>10, <1>17
  <2>4. PICK a : a = Append(s, unit)
    OBVIOUS
  <2>5. Len(a) = OutputIndex + 1 /\ a[OutputIndex + 1] = unit
    BY <1>9, <2>3, <2>4
  <2>6. /\ Len(a) =< Len(Conversions!Digits(Text))
        /\ \A m \in 1 .. Len(a) : Conversions!Digits(Text)[m] = a[m]
    BY <1>3, <2>3, <2>4, KeptGrows, Zenon DEF v
  <2>7. Conversions!Digits(Text) \in Seq(Nat)
    <3>1. Len(Text) \in 0 .. Len(Text)
      BY <1>3
    <3> QED
      BY <1>3, <1>13, <3>1, KeptIs, Zenon DEF v
  <2>8. /\ OutputIndex + 1 =< Len(Conversions!Digits(Text))
        /\ Conversions!Digits(Text)[OutputIndex + 1] = unit
        /\ OutputIndex + 1 \in DOMAIN Conversions!Digits(Text)
    <3>1. OutputIndex + 1 \in 1 .. OutputIndex + 1
      BY <1>3
    <3>2. /\ OutputIndex + 1 =< Len(Conversions!Digits(Text))
          /\ Conversions!Digits(Text)[OutputIndex + 1] = unit
      BY <2>5, <2>6, <3>1, Zenon
    <3> QED
      BY <1>3, <2>7, <3>2
  <2>9. ~Conversions!IsFingerprint(Text)
    <3>1. CASE Conversions!HexValue(unit) < 0
      <4>1. Conversions!HexValue(unit) \in -1 .. 15
        BY <2>3, HexValues, Zenon
      <4>2. ~(Conversions!HexValue(unit) >= 0)
        BY <3>1, <4>1
      <4> QED
        BY <2>8, <4>2, Zenon DEF Conversions!IsFingerprint
    <3>2. CASE OutputIndex >= DigestLength
      <4>1. Len(Conversions!Digits(Text)) # DigestLength
        BY <1>3, <1>5, <2>7, <2>8, <3>2
      <4> QED
        BY <4>1, Zenon DEF Conversions!IsFingerprint
    <3> QED
      BY <1>17, <3>1, <3>2
  <2>10. FingerprintDone'
    <3>1. Conversions!IsFingerprint(Text)' = Conversions!IsFingerprint(Text)
      BY <1>1 DEF Conversions!IsFingerprint, Conversions!Digits, Conversions!Kept,
         Conversions!HexValue, Conversions!IsDigit
    <3>2. status' # "SUCCESS"
      BY <2>1
    <3> QED
      BY <2>9, <3>1, <3>2, Zenon DEF FingerprintDone, Conversions!Accepted
  <2> QED
    BY <1>1, <2>1, <2>2, <2>10 DEF ConversionsInv, Conversions!Running
<1>18. CASE /\ ~Conversions!AtEnd /\ unit \notin Conversions!Separators
            /\ ~(Conversions!HexValue(unit) < 0 \/ OutputIndex >= DigestLength)
  <2> DEFINE d == Conversions!HexDigit(Conversions!HexValue(unit))
  <2>1. /\ status' = "RUNNING" /\ Index' = Index + 1 /\ OutputIndex' = OutputIndex + 1
        /\ Destination' = Conversions!Stored(OutputIndex, d)
    BY <1>1, <1>8, <1>18 DEF Conversions!ParseFingerprint, Conversions!Advances
  <2>2. unit \in Nat /\ Conversions!HexValue(unit) >= 0 /\ OutputIndex + 1 =< DigestLength
    <3>1. unit \in Nat
      BY <1>8, <1>18
    <3>2. Conversions!HexValue(unit) \in -1 .. 15
      BY <3>1, HexValues, Zenon
    <3>3. Conversions!HexValue(unit) >= 0
      BY <1>18, <3>2
    <3>4. OutputIndex + 1 =< DigestLength
      BY <1>3, <1>5, <1>18
    <3> QED
      BY <3>1, <3>3, <3>4
  <2>3. d \in 0 .. Conversions!Junk
    BY <2>2, HexValues, Junks
  <2> HIDE DEF d
  <2>4. /\ Destination' \in [0 .. Conversions!Room - 1 -> 0 .. Conversions!Junk]
        /\ Destination'[OutputIndex] = d
        /\ \A k \in 0 .. Conversions!Room - 1 :
             k # OutputIndex => Destination'[k] = Destination[k]
    BY <1>2, <1>5, <2>1, <2>3, StoredOne, Zenon
  <2>5. ConversionTypes'
    BY <1>3, <1>8, <1>11, <1>18, <2>1, <2>2, <2>4
  <2>6. PICK a : a = Append(s, unit)
    OBVIOUS
  <2>7. Conversions!Kept(Text)'[Index'] = a
    BY <1>1, <1>10, <1>18, <2>1, <2>6 DEF v, Conversions!Kept
  <2>8. /\ Len(a) = OutputIndex + 1 /\ a[OutputIndex + 1] = unit
        /\ \A k \in 1 .. OutputIndex : a[k] = s[k]
    BY <1>9, <2>2, <2>6
  <2>9. ASSUME NEW k \in 1 .. OutputIndex + 1
        PROVE  /\ Conversions!HexValue(a[k]) >= 0
               /\ Destination'[k - 1] = Conversions!HexDigit(Conversions!HexValue(a[k]))
    <3>1. CASE k = OutputIndex + 1
      <4>1. k - 1 = OutputIndex /\ a[k] = unit
        BY <1>3, <2>8, <3>1
      <4> QED
        BY <2>2, <2>4, <4>1, Zenon DEF d
    <3>2. CASE k # OutputIndex + 1
      <4>1. k \in 1 .. OutputIndex /\ k - 1 \in 0 .. Conversions!Room - 1 /\ k - 1 # OutputIndex
        BY <1>3, <1>5, <3>2
      <4> QED
        BY <1>9, <2>4, <2>8, <4>1, Zenon
    <3> QED
      BY <3>1, <3>2
  <2>10. FingerprintTurns'
    <3>1. /\ OutputIndex' = Len(Conversions!Kept(Text)'[Index'])
          /\ \A k \in 1 .. OutputIndex' :
               /\ Conversions!HexValue(Conversions!Kept(Text)'[Index'][k]) >= 0
               /\ Destination'[k - 1] =
                    Conversions!HexDigit(Conversions!HexValue(Conversions!Kept(Text)'[Index'][k]))
      BY <2>1, <2>7, <2>8, <2>9, Zenon
    <3> QED
      BY <3>1, Zenon DEF FingerprintTurns
  <2>11. FingerprintDone'
    BY <2>1 DEF FingerprintDone, Conversions!Accepted, Conversions!Rejected
  <2> QED
    BY <1>1, <2>5, <2>10, <2>11 DEF ConversionsInv
<1> QED
  BY <1>14, <1>15, <1>16, <1>17, <1>18

\* A call begins before the first code unit.
LEMMA ConversionsInvInit == Conversions!Init => ConversionsInv
<1> SUFFICES ASSUME Conversions!Init PROVE ConversionsInv
  OBVIOUS
<1>1. /\ Index = 0 /\ Value = 0 /\ OutputIndex = 0 /\ Port = 22 /\ Conversions!DefaultPort = 22
      /\ Destination = [k \in 0 .. Conversions!Room - 1 |-> Conversions!Junk]
      /\ status = "RUNNING"
  BY DEF Conversions!Init, Conversions!DefaultPort
<1>2. PICK call \in Calls :
        /\ kind = call.kind
        /\ Text \in UNION {[1 .. n -> call.units] : n \in 0 .. call.length}
  BY DEF Conversions!Init
<1>3. /\ kind \in Conversions!Kinds /\ call.length \in Nat
      /\ call.units \subseteq Conversions!CodeUnits
  BY <1>2, ConversionsConstants
<1>4. PICK n \in 0 .. call.length : Text \in [1 .. n -> call.units]
  BY <1>2
<1>5. \A k \in 1 .. n : Text[k] \in Nat
  <2>1. \A k \in 1 .. n : Text[k] \in call.units
    BY <1>4
  <2> QED
    BY <1>3, <2>1, ConversionsConstants, Zenon
<1>6. Text \in Seq(Nat)
  BY <1>3, <1>4, <1>5
<1>7. ConversionTypes
  BY <1>1, <1>3, <1>6, ConversionsConstants, Junks DEF ConversionTypes
<1>8. CopyDone /\ PortDone /\ FingerprintDone
  BY <1>1 DEF CopyDone, PortDone, FingerprintDone, Conversions!Accepted, Conversions!Rejected
<1>9. CopyTurns
  BY <1>1, ConversionsConstants DEF CopyTurns
<1>10. PortTurns
  <2>1. Conversions!Spelled(Text)[0] = 0
    BY <1>6, SpelledIs, Zenon
  <2> QED
    BY <1>1, <2>1, ConversionsConstants DEF PortTurns
<1>11. FingerprintTurns
  <2>1. Conversions!Kept(Text)[0] = << >>
    BY <1>6, KeptIs, Zenon
  <2> QED
    BY <1>1, <2>1 DEF FingerprintTurns
<1> QED
  BY <1>7, <1>8, <1>9, <1>10, <1>11 DEF ConversionsInv

\* A turn of a loop keeps the invariant.
LEMMA ConversionsInvStep ==
    ASSUME ConversionsInv, Conversions!Next
    PROVE  ConversionsInv'
BY CopyStep, PortStep, FingerprintStep DEF Conversions!Next

\* A step of another part changes nothing.
LEMMA ConversionsInvStutter ==
    ASSUME ConversionsInv, UNCHANGED Conversions!vars
    PROVE  ConversionsInv'
<1>1. UNCHANGED <<kind, Text, Index, Value, Destination, OutputIndex, Port, status>>
  BY DEF Conversions!vars
<1>2. ConversionTypes'
  BY <1>1 DEF ConversionsInv, ConversionTypes, Conversions!Room, Conversions!Junk
<1>3. CopyDone' = CopyDone /\ CopyTurns' = CopyTurns
  BY <1>1 DEF CopyDone, CopyTurns, Conversions!Accepted, Conversions!Rejected,
     Conversions!Fits, Conversions!Holds, Conversions!Nul
<1>4. PortDone' = PortDone /\ PortTurns' = PortTurns
  BY <1>1 DEF PortDone, PortTurns, Conversions!Accepted, Conversions!Rejected,
     Conversions!ParsedPort, Conversions!Number, Conversions!Spelled, Conversions!IsDigit,
     Conversions!DefaultPort
<1>5. FingerprintDone' = FingerprintDone
  BY <1>1 DEF FingerprintDone, Conversions!Accepted, Conversions!Rejected,
     Conversions!IsFingerprint, Conversions!Normalized, Conversions!Digits, Conversions!Kept,
     Conversions!HexValue, Conversions!HexDigit, Conversions!IsDigit, Conversions!Holds,
     Conversions!Nul
<1>6. FingerprintTurns' = FingerprintTurns
  BY <1>1 DEF FingerprintTurns, Conversions!Kept, Conversions!HexValue, Conversions!HexDigit,
     Conversions!IsDigit
<1> QED
  BY <1>1, <1>2, <1>3, <1>4, <1>5, <1>6 DEF ConversionsInv, Conversions!Running

\* What the run checks of the conversions.
LEMMA ConversionsShow ==
    ASSUME ConversionsInv
    PROVE  Conversions!TypeOK /\ Conversions!LoopsCompute
<1>1. Conversions!TypeOK
  BY ConversionsConstants DEF ConversionsInv, ConversionTypes, Conversions!TypeOK
<1>2. Conversions!LoopsCompute
  BY Zenon DEF ConversionsInv, CopyDone, PortDone, FingerprintDone, Conversions!LoopsCompute
<1> QED
  BY <1>1, <1>2

-----------------------------------------------------------------------------
(***************************************************************************)
(* The command line (WolfSshParseArguments).                               *)
(***************************************************************************)
\* Both parts take the port and the digest from Texts.
LEMMA SameTexts ==
    /\ \A text : Arguments!ParsedPort(text) = Conversions!ParsedPort(text)
    /\ \A text : Arguments!Digits(text) = Conversions!Digits(text)
<1>1. \A c : Arguments!IsDigit(c) = Conversions!IsDigit(c)
  BY DEF Arguments!IsDigit, Conversions!IsDigit
<1>2. \A text : Arguments!Number(text) = Conversions!Number(text)
  BY Zenon DEF Arguments!Number, Conversions!Number, Arguments!Spelled, Conversions!Spelled
<1>3. \A text : Arguments!Kept(text) = Conversions!Kept(text)
  BY Zenon DEF Arguments!Kept, Conversions!Kept, Arguments!Separators, Conversions!Separators
<1>4. \A text : Arguments!Digits(text) = Conversions!Digits(text)
  BY <1>3, Zenon DEF Arguments!Digits, Conversions!Digits
<1> QED
  BY <1>1, <1>2, <1>4, Zenon DEF Arguments!ParsedPort, Conversions!ParsedPort

\* What the constants of the command line are.
LEMMA ArgumentsConstants ==
    /\ MAX_UINT16 \in Nat /\ MAX_UINT16 >= 22
    /\ FingerprintLength \in Nat /\ FingerprintLength # 0
    /\ UsernameCapacity \in Nat /\ UsernameCapacity # 0
    /\ PasswordCapacity \in Nat /\ PasswordCapacity # 0
    /\ MaxWords \in Nat
    /\ \A word \in Words : word \in Seq(Nat)
<1>1. \A u \in Arguments!CodeUnits : u \in Nat
  BY DEF Arguments!CodeUnits
<1>2. /\ MAX_UINT16 \in Nat /\ MAX_UINT16 >= 22
      /\ FingerprintLength \in Nat /\ FingerprintLength # 0
      /\ UsernameCapacity \in Nat /\ UsernameCapacity # 0
      /\ PasswordCapacity \in Nat /\ PasswordCapacity # 0
      /\ MaxWords \in Nat /\ Words \subseteq Seq(Arguments!CodeUnits)
  BY PartsAssumption DEF Arguments!TextsAssumption, Arguments!ArgumentsAssumption
<1>3. ASSUME NEW C, \A u \in C : u \in Nat, NEW word \in Seq(C) PROVE word \in Seq(Nat)
  BY <1>3
<1>4. \A word \in Words : word \in Seq(Nat)
  BY <1>1, <1>2, <1>3, Zenon
<1> QED
  BY <1>2, <1>4

\* A port is in its word, and what is not given stays the default.
LEMMA PortsAre ==
    /\ \A word \in Words : Arguments!ParsedPort(word) \in 0 .. MAX_UINT16
    /\ Arguments!ParsedPort(<<50, 50>>) = 22
<1>1. ASSUME NEW word \in Words PROVE Arguments!ParsedPort(word) \in 0 .. MAX_UINT16
  <2> DEFINE Reads == /\ \A k \in DOMAIN word : Conversions!IsDigit(word[k])
                      /\ Conversions!Number(word) =< MAX_UINT16
  <2>1. word \in Seq(Nat) /\ 0 \in 0 .. Len(word) /\ Len(word) \in 0 .. Len(word)
    BY ArgumentsConstants
  <2>2. CASE Reads
    <3>1. Conversions!Number(word) \in Nat
      BY <2>1, <2>2, SpelledGrows, Zenon DEF Conversions!Number
    <3>2. Conversions!Number(word) \in 0 .. MAX_UINT16 /\ 0 \in 0 .. MAX_UINT16
      BY <2>2, <3>1, ArgumentsConstants
    <3> QED
      BY <3>2, SameTexts, Zenon DEF Conversions!ParsedPort
  <2>3. CASE ~Reads
    <3>1. Conversions!ParsedPort(word) = 0
      BY <2>3, Zenon DEF Conversions!ParsedPort
    <3> QED
      BY <3>1, SameTexts, ArgumentsConstants
  <2> QED
    BY <2>2, <2>3
<1>2. Arguments!ParsedPort(<<50, 50>>) = 22
  <2>1. PICK t : t = <<50, 50>>
    OBVIOUS
  <2>2. t \in Seq(Nat) /\ Len(t) = 2 /\ t # << >> /\ t[1] = 50 /\ t[2] = 50
    BY <2>1
  <2>3. \A k \in DOMAIN t : Conversions!IsDigit(t[k])
    BY <2>2 DEF Conversions!IsDigit
  <2> DEFINE v == Conversions!Spelled(t)
  <2>4. v[0] = 0 /\ \A k \in 1 .. Len(t) : v[k] = v[k - 1] * 10 + (t[k] - 48)
    BY <2>2, SpelledIs, Zenon
  <2>5. Conversions!Number(t) = v[Len(t)]
    BY DEF Conversions!Number
  <2> HIDE DEF v
  <2>6. v[2] = 22
    BY <2>2, <2>4
  <2>7. Conversions!Number(t) = 22 /\ 22 =< MAX_UINT16
    BY <2>2, <2>5, <2>6, ArgumentsConstants
  <2>8. Conversions!ParsedPort(t) = 22
    BY <2>2, <2>3, <2>7, Zenon DEF Conversions!ParsedPort
  <2> QED
    BY <2>1, <2>8, SameTexts, Zenon
<1> QED
  BY <1>1, <1>2

\* An accepted digest has its full length; without one the field is empty.
LEMMA DigestsAre ==
    /\ \A word \in Words :
         Arguments!IsFingerprint(word) => Len(Arguments!Normalized(word)) = FingerprintLength
    /\ Arguments!Normalized(<< >>) = << >>
<1>1. ASSUME NEW word \in Words, Arguments!IsFingerprint(word)
      PROVE  Len(Arguments!Normalized(word)) = FingerprintLength
  <2>1. word \in Seq(Nat) /\ Len(word) \in 0 .. Len(word)
    BY ArgumentsConstants
  <2>2. Arguments!Digits(word) \in Seq(Nat)
    BY <2>1, KeptIs, SameTexts, Zenon DEF Conversions!Digits
  <2>3. Len(Arguments!Digits(word)) = FingerprintLength
    BY <1>1, Zenon DEF Arguments!IsFingerprint
  <2>4. DOMAIN Arguments!Digits(word) = 1 .. FingerprintLength
    BY <2>2, <2>3
  <2>5. PICK f : f = Arguments!Normalized(word)
    OBVIOUS
  <2>6. f = [k \in 1 .. FingerprintLength |-> f[k]]
    BY <2>4, <2>5, Zenon DEF Arguments!Normalized
  <2>7. Len(f) = FingerprintLength
    BY <2>6, ArgumentsConstants
  <2> QED
    BY <2>5, <2>7
<1>2. Arguments!Normalized(<< >>) = << >>
  <2>1. << >> \in Seq(Nat) /\ Len(<< >>) = 0 /\ DOMAIN << >> = {}
    OBVIOUS
  <2>2. Conversions!Kept(<< >>)[0] = << >>
    BY <2>1, KeptIs, Zenon
  <2>3. Arguments!Digits(<< >>) = << >>
    BY <2>1, <2>2, SameTexts, Zenon DEF Conversions!Digits
  <2>4. PICK f : f = Arguments!Normalized(<< >>)
    OBVIOUS
  <2>5. f = [k \in {} |-> f[k]]
    BY <2>1, <2>3, <2>4 DEF Arguments!Normalized
  <2>6. f = << >>
    BY <2>5
  <2> QED
    BY <2>4, <2>6
<1> QED
  BY <1>1, <1>2

\* A set of numbers up to n that has one has a largest, which is what Max gives.
LEMMA MaxIs ==
    ASSUME NEW n \in Nat, NEW S \in SUBSET (0 .. n), S # {}
    PROVE  Arguments!Max(S) \in S /\ \A k \in S : k =< Arguments!Max(S)
<1> DEFINE D == {d \in 0 .. n : n - d \in S}
<1>1. D \in SUBSET Nat /\ D # {}
  <2>1. PICK s \in S : TRUE
    OBVIOUS
  <2>2. n - s \in 0 .. n /\ n - (n - s) = s
    BY <2>1
  <2> QED
    BY <2>1, <2>2
<1>2. PICK d \in D : \A k \in D : d =< k
  <2> HIDE DEF D
  <2> QED
    BY <1>1, LeastNat
<1>3. n - d \in S
  BY <1>2
<1>4. ASSUME NEW k \in S PROVE n - d >= k
  <2>1. n - k \in D
    BY <1>4
  <2>2. d =< n - k
    BY <1>2, <2>1
  <2> QED
    BY <1>2, <2>2
<1>5. /\ Arguments!Max(S) \in S
      /\ \A k \in S : Arguments!Max(S) >= k
  BY <1>3, <1>4, Zenon DEF Arguments!Max
<1> QED
  BY <1>5

\* The largest number of a set with a new largest one is that one.
LEMMA MaxNew ==
    ASSUME NEW n \in Nat, NEW S \in SUBSET (0 .. n), n \in S
    PROVE  Arguments!Max(S) = n
<1>1. S # {}
  OBVIOUS
<1>2. PICK m : m = Arguments!Max(S)
  OBVIOUS
<1>3. m \in S /\ \A k \in S : k =< m
  BY <1>1, <1>2, MaxIs, Zenon
<1>4. m = n
  BY <1>3
<1> QED
  BY <1>2, <1>4

ArgvIsRead == Argv \in Seq(Words)

\* The words right before the first are none.
LEMMA FirstIsNoValue == ~Arguments!IsValue(1)
<1> DEFINE O == {k \in 0 .. 1 - 1 : k = 0 \/ Argv[k] \notin Arguments!ValueFlags}
<1>1. O = {0}
  OBVIOUS
<1>2. Arguments!Max(O) = 0
  BY <1>1, MaxNew
<1>3. Arguments!Before(1) = 1 - 1 - Arguments!Max(O)
  BY Zenon DEF Arguments!Before
<1> HIDE DEF O
<1> QED
  BY <1>2, <1>3 DEF Arguments!IsValue

\* A word is a value exactly if the word before it is an option that takes one and is
\* not itself a value.
LEMMA NextIsValue ==
    ASSUME NEW i \in Nat, i # 0
    PROVE  Arguments!IsValue(i + 1)
             <=> Argv[i] \in Arguments!ValueFlags /\ ~Arguments!IsValue(i)
<1> DEFINE O(n) == {k \in 0 .. n - 1 : k = 0 \/ Argv[k] \notin Arguments!ValueFlags}
<1>1. PICK S : S = O(i)
  OBVIOUS
<1>2. PICK j : j = i + 1
  OBVIOUS
<1>3. PICK T : T = O(j)
  OBVIOUS
<1>4. /\ Arguments!Before(i) = i - 1 - Arguments!Max(S)
      /\ Arguments!Before(j) = j - 1 - Arguments!Max(T)
  BY <1>1, <1>3, Zenon DEF Arguments!Before
<1>5. /\ S \in SUBSET (0 .. i - 1) /\ 0 \in S
      /\ T \in SUBSET (0 .. i)
  BY <1>1, <1>2, <1>3
<1>6. Arguments!Max(S) \in 0 .. i - 1
  <2>1. i - 1 \in Nat /\ S # {}
    BY <1>5
  <2> QED
    BY <1>5, <2>1, MaxIs, Zenon
<1>7. CASE Argv[i] \in Arguments!ValueFlags
  <2>1. T = S
    BY <1>1, <1>2, <1>3, <1>7
  <2> QED
    BY <1>2, <1>4, <1>6, <1>7, <2>1 DEF Arguments!IsValue
<1>8. CASE Argv[i] \notin Arguments!ValueFlags
  <2>1. i \in T
    BY <1>2, <1>3, <1>8
  <2>2. Arguments!Max(T) = i
    BY <1>5, <2>1, MaxNew, Zenon
  <2> QED
    BY <1>2, <1>4, <1>8, <2>2 DEF Arguments!IsValue
<1> QED
  BY <1>7, <1>8

\* The options differ, and a switch takes no value.
LEMMA FlagsDiffer ==
    /\ Arguments!PortFlag # Arguments!PasswordFlag
    /\ Arguments!PortFlag # Arguments!FingerprintFlag
    /\ Arguments!PortFlag # Arguments!UserFlag
    /\ Arguments!PasswordFlag # Arguments!FingerprintFlag
    /\ Arguments!PasswordFlag # Arguments!UserFlag
    /\ Arguments!FingerprintFlag # Arguments!UserFlag
    /\ \A flag \in Arguments!Switches : flag \notin Arguments!ValueFlags
<1>1. /\ Arguments!PortFlag # Arguments!PasswordFlag
      /\ Arguments!PortFlag # Arguments!FingerprintFlag
      /\ Arguments!PortFlag # Arguments!UserFlag
      /\ Arguments!PasswordFlag # Arguments!FingerprintFlag
      /\ Arguments!PasswordFlag # Arguments!UserFlag
      /\ Arguments!FingerprintFlag # Arguments!UserFlag
  BY DEF Arguments!PortFlag, Arguments!PasswordFlag, Arguments!FingerprintFlag,
     Arguments!UserFlag
<1>2. ASSUME NEW flag \in Arguments!ValueFlags
      PROVE  Len(flag) = 2 /\ flag[2] \in {112, 80, 102, 108}
  BY DEF Arguments!ValueFlags, Arguments!PortFlag, Arguments!PasswordFlag,
     Arguments!FingerprintFlag, Arguments!UserFlag
<1>3. ASSUME NEW flag \in Arguments!Switches
      PROVE  Len(flag) # 2 \/ flag[2] \in {104, 63, 121}
  BY DEF Arguments!Switches, Arguments!HelpFlags, Arguments!SelfTestFlag, Arguments!YesFlag
<1> QED
  BY <1>1, <1>2, <1>3

\* What the value of each option has to be.
LEMMA AcceptableIs ==
    ASSUME NEW value
    PROVE  /\ Arguments!Acceptable(Arguments!PortFlag, value)
                <=> Arguments!ParsedPort(value) # 0
           /\ Arguments!Acceptable(Arguments!PasswordFlag, value)
                <=> Arguments!Fits(value, PasswordCapacity)
           /\ Arguments!Acceptable(Arguments!FingerprintFlag, value)
                <=> Arguments!IsFingerprint(value)
           /\ Arguments!Acceptable(Arguments!UserFlag, value)
                <=> Arguments!Fits(value, UsernameCapacity)
BY FlagsDiffer DEF Arguments!Acceptable

-----------------------------------------------------------------------------
(* The line as far as it has been read: the words before the n-th. *)

\* The values an option has had, and the last of them.
Seen(flag, n) == {i \in Arguments!ValuesOf(flag) : i < n}
LastIn(set, default) == IF set = {} THEN default ELSE Argv[Arguments!Max(set)]
Latest(flag, default, n) == LastIn(Seen(flag, n), default)

GivenBefore(set, n) == \E i \in Arguments!Given(set) : i < n

TargetBefore(n) ==
    \/ Target = Arguments!None /\ \A i \in Arguments!Targets : i >= n
    \/ \E i \in Arguments!Targets :
         i < n /\ Target = Argv[i] /\ \A j \in Arguments!Targets : j < n => j = i

WordsBefore(n) ==
    /\ ~Arguments!IsValue(n)
    /\ \A i \in Arguments!Places :
         i < n /\ Arguments!IsValue(i) => Arguments!Acceptable(Argv[i - 1], Argv[i])
    /\ \A i \in Arguments!Targets : i < n => ~Arguments!IsOption(Argv[i])

SwitchesBefore(n) ==
    /\ Help = GivenBefore(Arguments!HelpFlags, n)
    /\ SelfTest = GivenBefore({Arguments!SelfTestFlag}, n)
    /\ AcceptAnyHostKey = GivenBefore({Arguments!YesFlag}, n)

ValuesBefore(n) ==
    /\ Port = Arguments!ParsedPort(Latest(Arguments!PortFlag, <<50, 50>>, n))
    /\ Password = Latest(Arguments!PasswordFlag, << >>, n)
    /\ HavePassword = (Seen(Arguments!PasswordFlag, n) # {})
    /\ Fingerprint = Arguments!Normalized(Latest(Arguments!FingerprintFlag, << >>, n))
    /\ HaveFingerprint = (Seen(Arguments!FingerprintFlag, n) # {})
    /\ Username = Latest(Arguments!UserFlag, << >>, n)
    /\ HaveUsername = (Seen(Arguments!UserFlag, n) # {})

ReadBefore(n) ==
    WordsBefore(n) /\ TargetBefore(n) /\ SwitchesBefore(n) /\ ValuesBefore(n)

\* The command line itself does not change.
LEMMA SameLine ==
    ASSUME Argv' = Argv
    PROVE  /\ \A flag : Arguments!ValuesOf(flag)' = Arguments!ValuesOf(flag)
           /\ \A set : Arguments!Given(set)' = Arguments!Given(set)
           /\ \A i : Arguments!IsValue(i)' = Arguments!IsValue(i)
           /\ Arguments!Targets' = Arguments!Targets /\ Arguments!Places' = Arguments!Places
           /\ \A flag, n : Seen(flag, n)' = Seen(flag, n)
           /\ \A flag, default, n : Latest(flag, default, n)' = Latest(flag, default, n)
           /\ \A set, n : GivenBefore(set, n)' = GivenBefore(set, n)
           /\ \A n : WordsBefore(n)' = WordsBefore(n)
<1>1. \A i : Arguments!IsValue(i)' = Arguments!IsValue(i)
  BY DEF Arguments!IsValue, Arguments!Before, Arguments!Max
<1>2. Arguments!Places' = Arguments!Places
  BY DEF Arguments!Places
<1>3. /\ \A flag : Arguments!ValuesOf(flag)' = Arguments!ValuesOf(flag)
      /\ \A set : Arguments!Given(set)' = Arguments!Given(set)
      /\ Arguments!Targets' = Arguments!Targets
  BY <1>1, <1>2 DEF Arguments!ValuesOf, Arguments!Given, Arguments!Targets
<1>4. \A flag, n : Seen(flag, n)' = Seen(flag, n)
  BY <1>3 DEF Seen
<1>5. \A flag, default, n : Latest(flag, default, n)' = Latest(flag, default, n)
  <2>1. \A set, default : LastIn(set, default)' = LastIn(set, default)
    BY DEF LastIn, Arguments!Max
  <2> QED
    BY <1>4, <2>1 DEF Latest
<1>6. \A set, n : GivenBefore(set, n)' = GivenBefore(set, n)
  BY <1>3 DEF GivenBefore
<1>7. \A n : WordsBefore(n)' = WordsBefore(n)
  BY <1>1, <1>2, <1>3 DEF WordsBefore
<1> QED
  BY <1>1, <1>2, <1>3, <1>4, <1>5, <1>6, <1>7

\* Nor does the last value of an option, nor what makes a line well formed.
LEMMA SameLast ==
    ASSUME Argv' = Argv
    PROVE  \A flag, default : Arguments!LastOf(flag, default)' = Arguments!LastOf(flag, default)
<1>1. \A set, default : LastIn(set, default)' = LastIn(set, default)
  BY DEF LastIn, Arguments!Max
<1>2. \A flag, default :
        Arguments!LastOf(flag, default) = LastIn(Arguments!ValuesOf(flag), default)
  BY Zenon DEF Arguments!LastOf, LastIn
<1>3. \A flag, default :
        Arguments!LastOf(flag, default)' = LastIn(Arguments!ValuesOf(flag), default)'
  BY DEF Arguments!LastOf, LastIn
<1> QED
  BY <1>1, <1>2, <1>3, SameLine

\* Nor does what makes the line well formed.
LEMMA SameWellFormed ==
    ASSUME Argv' = Argv
    PROVE  Arguments!WellFormed' = Arguments!WellFormed
<1>1. \A flag, value : Arguments!Acceptable(flag, value)' = Arguments!Acceptable(flag, value)
  OBVIOUS
<1> QED
  BY <1>1, SameLine DEF Arguments!WellFormed

\* A word that is no value adds at most a switch or a target.
LEMMA PlainWord ==
    ASSUME ArgvIsRead, NEW n \in Arguments!Places, ~Arguments!IsValue(n)
    PROVE  /\ \A set : GivenBefore(set, n + 1) <=> GivenBefore(set, n) \/ Argv[n] \in set
           /\ \A flag : Seen(flag, n + 1) = Seen(flag, n)
           /\ \A flag, default : Latest(flag, default, n + 1) = Latest(flag, default, n)
           /\ n \in Arguments!Targets
                <=> Argv[n] \notin Arguments!Switches \cup Arguments!ValueFlags
           /\ \A i \in Arguments!Places : i < n + 1 /\ Arguments!IsValue(i) => i < n
<1>1. \A i \in Arguments!Places : i \in Nat /\ (i < n + 1 <=> i < n \/ i = n)
  BY DEF Arguments!Places, ArgvIsRead
<1>2. \A set : GivenBefore(set, n + 1) <=> GivenBefore(set, n) \/ Argv[n] \in set
  BY <1>1 DEF GivenBefore, Arguments!Given
<1>3. \A flag : Seen(flag, n + 1) = Seen(flag, n)
  BY <1>1 DEF Seen, Arguments!ValuesOf
<1>4. \A flag, default : Latest(flag, default, n + 1) = Latest(flag, default, n)
  BY <1>3, Zenon DEF Latest
<1>5. n \in Arguments!Targets <=> Argv[n] \notin Arguments!Switches \cup Arguments!ValueFlags
  BY DEF Arguments!Targets
<1>6. \A i \in Arguments!Places : i < n + 1 /\ Arguments!IsValue(i) => i < n
  BY <1>1
<1> QED
  BY <1>2, <1>3, <1>4, <1>5, <1>6

\* A value becomes the latest of its option and changes nothing else.
LEMMA ValueWord ==
    ASSUME ArgvIsRead, NEW n \in Arguments!Places, Arguments!IsValue(n)
    PROVE  /\ \A set : GivenBefore(set, n + 1) <=> GivenBefore(set, n)
           /\ n \notin Arguments!Targets
           /\ \A flag : Argv[n - 1] # flag => Seen(flag, n + 1) = Seen(flag, n)
           /\ \A flag, default :
                Argv[n - 1] # flag => Latest(flag, default, n + 1) = Latest(flag, default, n)
           /\ \A flag : Argv[n - 1] = flag => Seen(flag, n + 1) # {}
           /\ \A flag, default :
                Argv[n - 1] = flag => Latest(flag, default, n + 1) = Argv[n]
<1>1. \A i \in Arguments!Places : i \in Nat /\ (i < n + 1 <=> i < n \/ i = n)
  BY DEF Arguments!Places, ArgvIsRead
<1>2. \A set : GivenBefore(set, n + 1) <=> GivenBefore(set, n)
  BY <1>1 DEF GivenBefore, Arguments!Given
<1>3. n \notin Arguments!Targets
  BY DEF Arguments!Targets
<1>4. ASSUME NEW flag, Argv[n - 1] # flag PROVE Seen(flag, n + 1) = Seen(flag, n)
  BY <1>1, <1>4 DEF Seen, Arguments!ValuesOf
<1>5. ASSUME NEW flag, NEW default, Argv[n - 1] # flag
      PROVE  Latest(flag, default, n + 1) = Latest(flag, default, n)
  BY <1>4, <1>5, Zenon DEF Latest
<1>6. ASSUME NEW flag, Argv[n - 1] = flag
      PROVE  n \in Seen(flag, n + 1) /\ Arguments!Max(Seen(flag, n + 1)) = n
  <2>1. PICK S : S = Seen(flag, n + 1)
    OBVIOUS
  <2>2. n \in S /\ S \in SUBSET (0 .. n) /\ n \in Nat
    BY <1>1, <1>6, <2>1 DEF Seen, Arguments!ValuesOf
  <2> QED
    BY <2>1, <2>2, MaxNew, Zenon
<1>7. ASSUME NEW flag, NEW default, Argv[n - 1] = flag
      PROVE  Latest(flag, default, n + 1) = Argv[n]
  <2>1. Seen(flag, n + 1) # {}
    BY <1>6, <1>7, Zenon
  <2> QED
    BY <1>6, <1>7, <2>1, Zenon DEF Latest, LastIn
<1> QED
  BY <1>2, <1>3, <1>4, <1>5, <1>6, <1>7, Zenon

\* A switch or a target has been read.
LEMMA WordsPlain ==
    ASSUME ArgvIsRead, NEW n \in Arguments!Places, WordsBefore(n),
           Argv[n] \notin Arguments!ValueFlags,
           Argv[n] \in Arguments!Switches \/ ~Arguments!IsOption(Argv[n])
    PROVE  WordsBefore(n + 1)
<1>1. n \in Nat /\ n # 0 /\ \A i \in Arguments!Places : i \in Nat /\ (i < n + 1 <=> i < n \/ i = n)
  BY DEF Arguments!Places, ArgvIsRead
<1>2. ~Arguments!IsValue(n)
  BY DEF WordsBefore
<1>3. ~Arguments!IsValue(n + 1)
  BY <1>1, NextIsValue, Zenon
<1>4. n \in Arguments!Targets => ~Arguments!IsOption(Argv[n])
  BY DEF Arguments!Targets
<1>5. Arguments!Targets \subseteq Arguments!Places
  BY DEF Arguments!Targets
<1> QED
  BY <1>1, <1>2, <1>3, <1>4, <1>5 DEF WordsBefore

\* An option has been read with its value.
LEMMA WordsValue ==
    ASSUME ArgvIsRead, NEW n \in Arguments!Places, n + 1 \in Arguments!Places, WordsBefore(n),
           Argv[n] \in Arguments!ValueFlags, Arguments!Acceptable(Argv[n], Argv[n + 1])
    PROVE  WordsBefore(n + 2) /\ Arguments!IsValue(n + 1) /\ n \notin Arguments!Targets
<1>1. /\ n \in Nat /\ n # 0 /\ n + 1 \in Nat /\ n + 1 # 0 /\ n + 1 + 1 = n + 2 /\ n + 1 - 1 = n
      /\ \A i \in Arguments!Places : i \in Nat /\ (i < n + 2 <=> i < n \/ i = n \/ i = n + 1)
  BY DEF Arguments!Places, ArgvIsRead
<1>2. ~Arguments!IsValue(n)
  BY DEF WordsBefore
<1>3. Arguments!IsValue(n + 1)
  BY <1>1, <1>2, NextIsValue, Zenon
<1>4. ~Arguments!IsValue(n + 2)
  BY <1>1, <1>3, NextIsValue, Zenon
<1>5. n \notin Arguments!Targets /\ n + 1 \notin Arguments!Targets
  BY <1>3 DEF Arguments!Targets
<1>6. Arguments!Targets \subseteq Arguments!Places
  BY DEF Arguments!Targets
<1>7. ASSUME NEW i \in Arguments!Places, i < n + 2, Arguments!IsValue(i)
      PROVE  Arguments!Acceptable(Argv[i - 1], Argv[i])
  <2>1. CASE i < n
    BY <1>7, <2>1 DEF WordsBefore
  <2>2. CASE i = n + 1
    BY <1>1, <2>2
  <2>3. i < n \/ i = n + 1
    BY <1>1, <1>2, <1>7
  <2> QED
    BY <2>1, <2>2, <2>3
<1>8. \A i \in Arguments!Targets : i < n + 2 => i < n
  BY <1>1, <1>5, <1>6
<1>9. WordsBefore(n + 2)
  BY <1>4, <1>7, <1>8 DEF WordsBefore
<1> QED
  BY <1>3, <1>5, <1>9

\* A word that is no target leaves the target as it is.
LEMMA TargetStays ==
    ASSUME ArgvIsRead, NEW n \in Arguments!Places, n \notin Arguments!Targets, TargetBefore(n)
    PROVE  TargetBefore(n + 1)
<1>1. \A i \in Arguments!Targets : i \in Nat /\ (i < n + 1 <=> i < n) /\ (i >= n => i >= n + 1)
  BY DEF Arguments!Targets, Arguments!Places, ArgvIsRead
<1> QED
  BY <1>1 DEF TargetBefore

\* No word is NULL.
LEMMA NoneIsNoWord == Arguments!None \notin Words
<1>1. Words \subseteq Seq(Arguments!CodeUnits)
  BY PartsAssumption DEF Arguments!ArgumentsAssumption
<1>2. 0 \notin Arguments!CodeUnits
  BY DEF Arguments!CodeUnits
<1>3. ASSUME NEW C, << 0 >> \in Seq(C) PROVE 0 \in C
  <2>1. PICK s \in Seq(C) : s = <<0>>
    BY <1>3
  <2>2. Len(s) = 1 /\ s[1] = 0
    BY <2>1
  <2>3. 1 \in 1 .. Len(s)
    BY <2>2
  <2>4. s[1] \in C
    BY <2>3, ElementOfSeq, Zenon
  <2> QED
    BY <2>2, <2>4
<1> QED
  BY <1>1, <1>2, <1>3, Zenon DEF Arguments!None

\* The first target has been read.
LEMMA TargetFound ==
    ASSUME ArgvIsRead, NEW n \in Arguments!Places, n \in Arguments!Targets, TargetBefore(n),
           Target = Arguments!None
    PROVE  \A j \in Arguments!Targets : j >= n
<1>1. ASSUME NEW i \in Arguments!Targets, Target = Argv[i] PROVE FALSE
  <2>1. Argv[i] \in Words
    BY DEF Arguments!Targets, Arguments!Places, ArgvIsRead
  <2>2. Arguments!None \notin Words
    BY NoneIsNoWord
  <2> QED
    BY <1>1, <2>1, <2>2
<1> QED
  BY <1>1 DEF TargetBefore

ArgumentTypes ==
    /\ Index \in 1 .. Len(Argv) + 1
    /\ status \in {"RUNNING", "SUCCESS", "INVALID_PARAMETER", "ERROR"}
    /\ Port \in 1 .. MAX_UINT16
    /\ Arguments!Fits(Username, UsernameCapacity) /\ Arguments!Fits(Password, PasswordCapacity)
    /\ Len(Fingerprint) \in {0, FingerprintLength}
    /\ HaveFingerprint => Len(Fingerprint) = FingerprintLength
    /\ HavePassword \in BOOLEAN /\ HaveFingerprint \in BOOLEAN /\ HaveUsername \in BOOLEAN
    /\ AcceptAnyHostKey \in BOOLEAN /\ Help \in BOOLEAN /\ SelfTest \in BOOLEAN
    /\ Target = Arguments!None \/ Target \in Words

\* While the loop runs, what it holds is what the words before Index say.
ArgumentsInv ==
    /\ ArgvIsRead /\ ArgumentTypes
    /\ Arguments!Running => ReadBefore(Index)
    /\ Arguments!ReadAsMeant /\ Arguments!ReadyToConnect

\* A switch is read.
LEMMA SwitchStep ==
    ASSUME ArgumentsInv, Arguments!Switch
    PROVE  ArgumentsInv'
<1> DEFINE n == Index
<1>1. /\ status = "RUNNING" /\ n =< Len(Argv) /\ Argv[n] \in Arguments!Switches
      /\ Help' = (Help \/ Argv[n] \in Arguments!HelpFlags)
      /\ SelfTest' = (SelfTest \/ Argv[n] = Arguments!SelfTestFlag)
      /\ AcceptAnyHostKey' = (AcceptAnyHostKey \/ Argv[n] = Arguments!YesFlag)
      /\ Index' = n + 1
      /\ UNCHANGED <<Argv, Port, Username, Password, HavePassword, Fingerprint,
                     HaveFingerprint, HaveUsername, Address, Target, status>>
  BY DEF Arguments!Switch, Arguments!Running, Arguments!More, Arguments!Arg, Arguments!values
<1>2. ArgvIsRead /\ ArgumentTypes /\ ReadBefore(n)
  BY <1>1 DEF ArgumentsInv, Arguments!Running
<1>3. n \in Arguments!Places
  BY <1>1, <1>2 DEF Arguments!Places, ArgvIsRead, ArgumentTypes
<1>4. Argv[n] \notin Arguments!ValueFlags /\ ~Arguments!IsValue(n)
  BY <1>1, <1>2, FlagsDiffer DEF ReadBefore, WordsBefore
<1>5. n \notin Arguments!Targets
  BY <1>1 DEF Arguments!Targets
<1> HIDE DEF n
<1>6. ArgvIsRead'
  BY <1>1, <1>2 DEF ArgvIsRead
<1>7. ArgumentTypes'
  <2>1. Index' \in 1 .. Len(Argv) + 1
    BY <1>1, <1>2 DEF ArgumentTypes, ArgvIsRead, n
  <2>2. Help' \in BOOLEAN /\ SelfTest' \in BOOLEAN /\ AcceptAnyHostKey' \in BOOLEAN
    BY <1>1, <1>2, Zenon DEF ArgumentTypes
  <2> QED
    BY <1>1, <1>2, <2>1, <2>2 DEF ArgumentTypes
<1>8. WordsBefore(n + 1)
  BY <1>1, <1>2, <1>3, <1>4, WordsPlain, Zenon DEF ReadBefore
<1>9. TargetBefore(n + 1)
  BY <1>2, <1>3, <1>5, TargetStays, Zenon DEF ReadBefore
<1>10. SwitchesBefore(Index)'
  <2>1. \A set : GivenBefore(set, n + 1) <=> GivenBefore(set, n) \/ Argv[n] \in set
    BY <1>2, <1>3, <1>4, PlainWord, Zenon
  <2>2. \A set : GivenBefore(set, n + 1) \in BOOLEAN
    BY DEF GivenBefore
  <2>3. \A set : GivenBefore(set, Index)' = GivenBefore(set, n + 1)
    BY <1>1, SameLine
  <2>4. /\ Help' = GivenBefore(Arguments!HelpFlags, n + 1)
        /\ SelfTest' = GivenBefore({Arguments!SelfTestFlag}, n + 1)
        /\ AcceptAnyHostKey' = GivenBefore({Arguments!YesFlag}, n + 1)
    BY <1>1, <1>2, <2>1, <2>2 DEF ReadBefore, SwitchesBefore, ArgumentTypes
  <2> QED
    BY <2>3, <2>4, Zenon DEF SwitchesBefore
<1>11. ValuesBefore(Index)'
  <2>1. /\ \A flag : Seen(flag, n + 1) = Seen(flag, n)
        /\ \A flag, default : Latest(flag, default, n + 1) = Latest(flag, default, n)
    BY <1>2, <1>3, <1>4, PlainWord, Zenon
  <2>2. ValuesBefore(n + 1)
    BY <1>2, <2>1, Zenon DEF ReadBefore, ValuesBefore
  <2> QED
    BY <1>1, <2>2, SameLine DEF ValuesBefore
<1>12. WordsBefore(Index)' /\ TargetBefore(Index)'
  BY <1>1, <1>8, <1>9, SameLine DEF TargetBefore
<1>13. ReadBefore(Index)'
  BY <1>10, <1>11, <1>12, Zenon DEF ReadBefore
<1> QED
  BY <1>1, <1>6, <1>7, <1>13 DEF ArgumentsInv, Arguments!ReadAsMeant, Arguments!ReadyToConnect

\* A line that is not well formed is refused, as it should be.
LEMMA Refused ==
    ASSUME Argv' = Argv, ~Arguments!WellFormed, status' = "INVALID_PARAMETER"
    PROVE  Arguments!ReadAsMeant' /\ Arguments!ReadyToConnect'
<1>1. ~(Arguments!WellFormed') /\ status' # "SUCCESS"
  BY SameWellFormed
<1>2. Arguments!ReadAsMeant'
  BY <1>1, Zenon DEF Arguments!ReadAsMeant
<1>3. Arguments!ReadyToConnect'
  BY <1>1, Zenon DEF Arguments!ReadyToConnect
<1> QED
  BY <1>2, <1>3

\* An emptied field fits its array.
LEMMA EmptyFits == Arguments!Fits(<< >>, UsernameCapacity) /\ Arguments!Fits(<< >>, PasswordCapacity)
BY ArgumentsConstants DEF Arguments!Fits

\* The target is read, or a word that cannot be one is refused.
LEMMA PositionalStep ==
    ASSUME ArgumentsInv, Arguments!Positional
    PROVE  ArgumentsInv'
<1> DEFINE n == Index
<1>1. /\ status = "RUNNING" /\ n =< Len(Argv)
      /\ Argv[n] \notin Arguments!Switches \cup Arguments!ValueFlags
      /\ UNCHANGED <<Argv, Port, Username, Password, HavePassword, Fingerprint,
                     HaveFingerprint, HaveUsername, AcceptAnyHostKey, Help, SelfTest, Address>>
  BY DEF Arguments!Positional, Arguments!Running, Arguments!More, Arguments!Arg,
     Arguments!values, Arguments!flags
<1>2. ArgvIsRead /\ ArgumentTypes /\ ReadBefore(n)
  BY <1>1 DEF ArgumentsInv, Arguments!Running
<1>3. n \in Arguments!Places /\ Arguments!Places = 1 .. Len(Argv) /\ n \in Nat
  BY <1>1, <1>2 DEF Arguments!Places, ArgvIsRead, ArgumentTypes
<1>4. Argv[n] \notin Arguments!ValueFlags /\ ~Arguments!IsValue(n)
  BY <1>1, <1>2, Zenon DEF ReadBefore, WordsBefore
<1>5. n \in Arguments!Targets
  BY <1>1, <1>3, <1>4 DEF Arguments!Targets
<1>6. ArgvIsRead'
  BY <1>1, <1>2 DEF ArgvIsRead
<1> HIDE DEF n
<1>7. CASE Arguments!IsOption(Argv[n]) \/ Target # Arguments!None
  <2>1. status' = "INVALID_PARAMETER" /\ Index' = Index /\ Target' = Target
    BY <1>7 DEF Arguments!Positional, Arguments!Arg, Arguments!Fails, n
  <2>2. ArgumentTypes'
    BY <1>1, <1>2, <2>1 DEF ArgumentTypes
  <2>3. ~Arguments!WellFormed
    <3>1. CASE Arguments!IsOption(Argv[n])
      BY <1>5, <3>1, Zenon DEF Arguments!WellFormed
    <3>2. CASE Target # Arguments!None
      <4>1. PICK i \in Arguments!Targets : i < n
        BY <1>2, <3>2, Zenon DEF ReadBefore, TargetBefore
      <4>2. i # n
        BY <1>3, <4>1
      <4> QED
        BY <1>5, <4>1, <4>2, Zenon DEF Arguments!WellFormed
    <3> QED
      BY <1>7, <3>1, <3>2
  <2>4. Arguments!ReadAsMeant' /\ Arguments!ReadyToConnect'
    BY <1>1, <2>1, <2>3, Refused
  <2> QED
    BY <1>6, <2>1, <2>2, <2>4 DEF ArgumentsInv, Arguments!Running
<1>8. CASE ~(Arguments!IsOption(Argv[n]) \/ Target # Arguments!None)
  <2>1. status' = "RUNNING" /\ Index' = n + 1 /\ Target' = Argv[n]
    BY <1>1, <1>8 DEF Arguments!Positional, Arguments!Arg, n
  <2>2. ArgumentTypes'
    <3>1. Index' \in 1 .. Len(Argv) + 1
      BY <1>1, <1>2, <2>1 DEF ArgumentTypes, ArgvIsRead, n
    <3>2. Target' \in Words
      BY <1>2, <1>3, <2>1 DEF ArgvIsRead, Arguments!Places
    <3> QED
      BY <1>1, <1>2, <2>1, <3>1, <3>2 DEF ArgumentTypes
  <2>3. WordsBefore(n + 1)
    BY <1>2, <1>3, <1>4, <1>8, WordsPlain, Zenon DEF ReadBefore
  <2>4. TargetBefore(Index)'
    <3>1. \A j \in Arguments!Targets : j >= n
      BY <1>2, <1>3, <1>5, <1>8, TargetFound, Zenon DEF ReadBefore
    <3>2. \A j \in Arguments!Targets : j < n + 1 => j = n
      <4>1. \A j \in Arguments!Targets : j \in 1 .. Len(Argv)
        BY <1>3, Zenon DEF Arguments!Targets
      <4>2. Len(Argv) \in Nat
        BY <1>2 DEF ArgvIsRead
      <4> QED
        BY <1>3, <3>1, <4>1, <4>2
    <3>3. n < n + 1
      BY <1>2 DEF ArgumentTypes, n
    <3> QED
      BY <1>1, <1>5, <2>1, <3>2, <3>3, SameLine DEF TargetBefore
  <2>5. SwitchesBefore(Index)'
    <3>1. \A set : GivenBefore(set, n + 1) <=> GivenBefore(set, n) \/ Argv[n] \in set
      BY <1>2, <1>3, <1>4, PlainWord, Zenon
    <3>2. \A set : GivenBefore(set, n + 1) \in BOOLEAN /\ GivenBefore(set, n) \in BOOLEAN
      BY DEF GivenBefore
    <3>3. \A set : GivenBefore(set, Index)' = GivenBefore(set, n + 1)
      BY <1>1, <2>1, SameLine
    <3>4. /\ Argv[n] \notin Arguments!HelpFlags /\ Argv[n] \notin {Arguments!SelfTestFlag}
          /\ Argv[n] \notin {Arguments!YesFlag}
      BY <1>1, Zenon DEF Arguments!Switches
    <3>5. /\ Help' = GivenBefore(Arguments!HelpFlags, n + 1)
          /\ SelfTest' = GivenBefore({Arguments!SelfTestFlag}, n + 1)
          /\ AcceptAnyHostKey' = GivenBefore({Arguments!YesFlag}, n + 1)
      BY <1>1, <1>2, <3>1, <3>2, <3>4 DEF ReadBefore, SwitchesBefore, ArgumentTypes
    <3> QED
      BY <3>3, <3>5, Zenon DEF SwitchesBefore
  <2>6. ValuesBefore(Index)'
    <3>1. /\ \A flag : Seen(flag, n + 1) = Seen(flag, n)
          /\ \A flag, default : Latest(flag, default, n + 1) = Latest(flag, default, n)
      BY <1>2, <1>3, <1>4, PlainWord, Zenon
    <3>2. ValuesBefore(n + 1)
      BY <1>2, <3>1, Zenon DEF ReadBefore, ValuesBefore
    <3> QED
      BY <1>1, <2>1, <3>2, SameLine DEF ValuesBefore
  <2>7. WordsBefore(Index)'
    BY <1>1, <2>1, <2>3, SameLine
  <2>8. ReadBefore(Index)'
    BY <2>4, <2>5, <2>6, <2>7, Zenon DEF ReadBefore
  <2> QED
    BY <1>6, <2>1, <2>2, <2>8 DEF ArgumentsInv, Arguments!ReadAsMeant, Arguments!ReadyToConnect
<1> QED
  BY <1>7, <1>8

\* An option is read with its value, or refused.
LEMMA ValueFlagStep ==
    ASSUME ArgumentsInv, Arguments!ValueFlag
    PROVE  ArgumentsInv'
<1> DEFINE n == Index
<1>1. /\ status = "RUNNING" /\ n =< Len(Argv) /\ Argv[n] \in Arguments!ValueFlags
      /\ UNCHANGED <<Argv, AcceptAnyHostKey, Help, SelfTest, Address, Target>>
  BY DEF Arguments!ValueFlag, Arguments!Running, Arguments!More, Arguments!Arg, Arguments!flags
<1>2. ArgvIsRead /\ ArgumentTypes /\ ReadBefore(n)
  BY <1>1 DEF ArgumentsInv, Arguments!Running
<1>3. n \in Arguments!Places /\ Arguments!Places = 1 .. Len(Argv) /\ n \in Nat
  BY <1>1, <1>2 DEF Arguments!Places, ArgvIsRead, ArgumentTypes
<1>4. ~Arguments!IsValue(n)
  BY <1>2 DEF ReadBefore, WordsBefore
<1>5. ArgvIsRead'
  BY <1>1, <1>2 DEF ArgvIsRead
<1>6. Arguments!IsValue(n + 1)
  <2>1. n # 0
    BY <1>3
  <2> QED
    BY <1>1, <1>3, <1>4, <2>1, NextIsValue, Zenon
<1> HIDE DEF n
<1>7. CASE n = Len(Argv) \/ ~Arguments!Acceptable(Argv[n], Argv[n + 1])
  <2>1. /\ status' = "INVALID_PARAMETER" /\ Index' = Index
        /\ Password' = << >> \/ Password' = Password
        /\ Username' = << >> \/ Username' = Username
        /\ UNCHANGED <<Port, HavePassword, Fingerprint, HaveFingerprint, HaveUsername>>
    BY <1>7 DEF Arguments!ValueFlag, Arguments!Arg, Arguments!Fails, Arguments!Cleared, n
  <2>2. ArgumentTypes'
    <3>1. Arguments!Fits(Username, UsernameCapacity)' /\ Arguments!Fits(Password, PasswordCapacity)'
      BY <1>2, <2>1, EmptyFits DEF ArgumentTypes
    <3> QED
      BY <1>1, <1>2, <2>1, <3>1 DEF ArgumentTypes
  <2>3. ~Arguments!WellFormed
    <3>1. CASE n = Len(Argv)
      <4>1. Len(Argv) # 0
        BY <1>3, <3>1
      <4> QED
        BY <1>1, <1>4, <3>1, <4>1, Zenon DEF Arguments!WellFormed
    <3>2. CASE n # Len(Argv)
      <4>1. PICK m \in Arguments!Places : m = n + 1 /\ m - 1 = n
        BY <1>3, <3>2
      <4>2. Arguments!IsValue(m) /\ ~Arguments!Acceptable(Argv[m - 1], Argv[m])
        BY <1>6, <1>7, <3>2, <4>1
      <4> QED
        BY <4>2, Zenon DEF Arguments!WellFormed
    <3> QED
      BY <3>1, <3>2
  <2>4. Arguments!ReadAsMeant' /\ Arguments!ReadyToConnect'
    BY <1>1, <2>1, <2>3, Refused
  <2> QED
    BY <1>5, <2>1, <2>2, <2>4 DEF ArgumentsInv, Arguments!Running
<1>8. CASE ~(n = Len(Argv) \/ ~Arguments!Acceptable(Argv[n], Argv[n + 1]))
  <2> DEFINE value == Argv[n + 1]
  <2>1. /\ Index' = n + 2 /\ status' = status
        /\ Port' = IF Argv[n] = Arguments!PortFlag THEN Arguments!ParsedPort(value) ELSE Port
        /\ Password' = IF Argv[n] = Arguments!PasswordFlag THEN value ELSE Password
        /\ HavePassword' = (HavePassword \/ Argv[n] = Arguments!PasswordFlag)
        /\ Fingerprint' = IF Argv[n] = Arguments!FingerprintFlag
                          THEN Arguments!Normalized(value) ELSE Fingerprint
        /\ HaveFingerprint' = (HaveFingerprint \/ Argv[n] = Arguments!FingerprintFlag)
        /\ Username' = IF Argv[n] = Arguments!UserFlag THEN value ELSE Username
        /\ HaveUsername' = (HaveUsername \/ Argv[n] = Arguments!UserFlag)
    BY <1>8, Zenon DEF Arguments!ValueFlag, Arguments!Arg, Arguments!AfterValue, n
  <2>2. n + 1 \in Arguments!Places /\ Arguments!Acceptable(Argv[n], value)
    BY <1>3, <1>8
  <2>3. value \in Words
    BY <1>2, <1>3, <2>2 DEF ArgvIsRead
  <2> HIDE DEF value
  <2>4. ArgumentTypes'
    <3>1. Index' \in 1 .. Len(Argv) + 1
      BY <1>3, <2>1, <2>2
    <3>2. Port' \in 1 .. MAX_UINT16
      <4>1. CASE Argv[n] = Arguments!PortFlag
        <5>1. PICK p : p = Arguments!ParsedPort(value)
          OBVIOUS
        <5>2. p # 0 /\ p \in 0 .. MAX_UINT16
          BY <2>2, <2>3, <4>1, <5>1, AcceptableIs, PortsAre, Zenon
        <5>3. Port' = p /\ p \in 1 .. MAX_UINT16
          BY <2>1, <4>1, <5>1, <5>2, ArgumentsConstants
        <5> QED
          BY <5>3
      <4>2. CASE Argv[n] # Arguments!PortFlag
        BY <1>2, <2>1, <4>2 DEF ArgumentTypes
      <4> QED
        BY <4>1, <4>2
    <3>3. Arguments!Fits(Password, PasswordCapacity)'
      <4>1. CASE Argv[n] = Arguments!PasswordFlag
        BY <2>1, <2>2, <4>1, AcceptableIs
      <4>2. CASE Argv[n] # Arguments!PasswordFlag
        BY <1>2, <2>1, <4>2 DEF ArgumentTypes
      <4> QED
        BY <4>1, <4>2
    <3>4. Arguments!Fits(Username, UsernameCapacity)'
      <4>1. CASE Argv[n] = Arguments!UserFlag
        BY <2>1, <2>2, <4>1, AcceptableIs
      <4>2. CASE Argv[n] # Arguments!UserFlag
        BY <1>2, <2>1, <4>2 DEF ArgumentTypes
      <4> QED
        BY <4>1, <4>2
    <3>5. /\ Len(Fingerprint') \in {0, FingerprintLength}
          /\ HaveFingerprint' => Len(Fingerprint') = FingerprintLength
      <4>1. CASE Argv[n] = Arguments!FingerprintFlag
        <5>1. PICK f : f = Arguments!Normalized(value)
          OBVIOUS
        <5>2. Len(f) = FingerprintLength
          BY <2>2, <2>3, <4>1, <5>1, AcceptableIs, DigestsAre, Zenon
        <5>3. Fingerprint' = f
          BY <2>1, <4>1, <5>1
        <5> QED
          BY <5>2, <5>3
      <4>2. CASE Argv[n] # Arguments!FingerprintFlag
        <5>1. Fingerprint' = Fingerprint /\ HaveFingerprint' = (HaveFingerprint \/ FALSE)
          BY <2>1, <4>2, Zenon
        <5> QED
          BY <1>2, <5>1 DEF ArgumentTypes
      <4> QED
        BY <4>1, <4>2
    <3>6. HavePassword' \in BOOLEAN /\ HaveFingerprint' \in BOOLEAN /\ HaveUsername' \in BOOLEAN
      BY <1>2, <2>1, Zenon DEF ArgumentTypes
    <3> QED
      BY <1>1, <1>2, <2>1, <3>1, <3>2, <3>3, <3>4, <3>5, <3>6 DEF ArgumentTypes
  <2>5. WordsBefore(n + 2) /\ n \notin Arguments!Targets
    BY <1>1, <1>2, <1>3, <2>2, WordsValue, Zenon DEF ReadBefore, value
  <2>6. PICK m \in Arguments!Places : m = n + 1 /\ m + 1 = n + 2 /\ m - 1 = n
    BY <1>3, <2>2
  <2>7. Arguments!IsValue(m)
    BY <1>6, <2>6
  <2>8. m \notin Arguments!Targets
    BY <2>7 DEF Arguments!Targets
  <2>9. TargetBefore(n + 2)
    <3>1. TargetBefore(m)
      BY <1>2, <1>3, <2>5, <2>6, TargetStays, Zenon DEF ReadBefore
    <3>2. TargetBefore(m + 1)
      BY <1>2, <2>8, <3>1, TargetStays, Zenon
    <3> QED
      BY <2>6, <3>2
  <2>10. SwitchesBefore(n + 2)
    <3>1. \A set : GivenBefore(set, m) <=> GivenBefore(set, n) \/ Argv[n] \in set
      BY <1>2, <1>3, <1>4, <2>6, PlainWord, Zenon
    <3>2. \A set : GivenBefore(set, n + 2) <=> GivenBefore(set, m)
      BY <1>2, <2>6, <2>7, ValueWord, Zenon
    <3>3. \A set : GivenBefore(set, n + 2) \in BOOLEAN /\ GivenBefore(set, n) \in BOOLEAN
      BY DEF GivenBefore
    <3>4. /\ Argv[n] \notin Arguments!HelpFlags /\ Argv[n] \notin {Arguments!SelfTestFlag}
          /\ Argv[n] \notin {Arguments!YesFlag}
      BY <1>1, FlagsDiffer, Zenon DEF Arguments!Switches
    <3>5. /\ GivenBefore(Arguments!HelpFlags, n + 2) = GivenBefore(Arguments!HelpFlags, n)
          /\ GivenBefore({Arguments!SelfTestFlag}, n + 2) = GivenBefore({Arguments!SelfTestFlag}, n)
          /\ GivenBefore({Arguments!YesFlag}, n + 2) = GivenBefore({Arguments!YesFlag}, n)
      BY <3>1, <3>2, <3>3, <3>4
    <3> QED
      BY <1>2, <3>5, Zenon DEF ReadBefore, SwitchesBefore
  <2>11. ASSUME NEW flag
         PROVE  /\ Seen(flag, n + 2) # {} <=> Seen(flag, n) # {} \/ Argv[n] = flag
                /\ \A default : Latest(flag, default, n + 2) =
                     IF Argv[n] = flag THEN value ELSE Latest(flag, default, n)
    <3>1. /\ Seen(flag, m) = Seen(flag, n)
          /\ \A default : Latest(flag, default, m) = Latest(flag, default, n)
      BY <1>2, <1>3, <1>4, <2>6, PlainWord, Zenon
    <3>2. CASE Argv[n] = flag
      <4>1. /\ Seen(flag, m + 1) # {}
            /\ \A default : Latest(flag, default, m + 1) = Argv[m]
        BY <1>2, <2>6, <2>7, <3>2, ValueWord, Zenon
      <4>2. Argv[m] = value
        BY <2>6 DEF value
      <4> QED
        BY <2>6, <3>2, <4>1, <4>2, Zenon
    <3>3. CASE Argv[n] # flag
      <4>1. /\ Seen(flag, m + 1) = Seen(flag, m)
            /\ \A default : Latest(flag, default, m + 1) = Latest(flag, default, m)
        BY <1>2, <2>6, <2>7, <3>3, ValueWord, Zenon
      <4> QED
        BY <2>6, <3>1, <3>3, <4>1, Zenon
    <3> QED
      BY <3>2, <3>3
  <2>12. /\ Port' = Arguments!ParsedPort(Latest(Arguments!PortFlag, <<50, 50>>, n + 2))
         /\ Password' = Latest(Arguments!PasswordFlag, << >>, n + 2)
         /\ Fingerprint' = Arguments!Normalized(Latest(Arguments!FingerprintFlag, << >>, n + 2))
         /\ Username' = Latest(Arguments!UserFlag, << >>, n + 2)
    <3>1. ValuesBefore(n)
      BY <1>2 DEF ReadBefore
    <3> QED
      BY <2>1, <2>11, <3>1, Zenon DEF ValuesBefore
  <2>13. /\ HavePassword' = (Seen(Arguments!PasswordFlag, n + 2) # {})
         /\ HaveFingerprint' = (Seen(Arguments!FingerprintFlag, n + 2) # {})
         /\ HaveUsername' = (Seen(Arguments!UserFlag, n + 2) # {})
    <3>1. ValuesBefore(n)
      BY <1>2 DEF ReadBefore
    <3>2. \A flag : Seen(flag, n + 2) # {} <=> Seen(flag, n) # {} \/ Argv[n] = flag
      BY <2>11, Zenon
    <3> QED
      BY <2>1, <3>1, <3>2 DEF ValuesBefore
  <2>14. ValuesBefore(Index)'
    BY <1>1, <2>1, <2>12, <2>13, SameLine DEF ValuesBefore
  <2>15. SwitchesBefore(Index)'
    BY <1>1, <2>1, <2>10, SameLine DEF SwitchesBefore
  <2>16. WordsBefore(Index)' /\ TargetBefore(Index)'
    BY <1>1, <2>1, <2>5, <2>9, SameLine DEF TargetBefore
  <2>17. ReadBefore(Index)'
    BY <2>14, <2>15, <2>16, Zenon DEF ReadBefore
  <2> QED
    BY <1>1, <1>5, <2>1, <2>4, <2>17 DEF ArgumentsInv, Arguments!ReadAsMeant,
       Arguments!ReadyToConnect
<1> QED
  BY <1>7, <1>8

-----------------------------------------------------------------------------
(* After the loop. *)

\* A name taken from before the first @ fits its array.
LEMMA UserFits ==
    ASSUME NEW text \in Words, Arguments!NamesUser(text)
    PROVE  Arguments!Fits(Arguments!User(text), UsernameCapacity)
<1> DEFINE S == {k \in DOMAIN text : text[k] = Arguments!At}
           p == Arguments!Place(text)
           u == Arguments!User(text)
<1>1. text \in Seq(Nat) /\ DOMAIN text = 1 .. Len(text) /\ Len(text) \in Nat
  BY ArgumentsConstants
<1>2. S \in SUBSET Nat /\ S # {}
  BY <1>1 DEF Arguments!NamesUser, Arguments!HasAt
<1>3. p \in S
  <2> HIDE DEF S
  <2>1. PICK m \in S : \A k \in S : m =< k
    BY <1>2, LeastNat, Zenon
  <2>2. Arguments!Min(S) \in S
    BY <2>1, Zenon DEF Arguments!Min
  <2> QED
    BY <2>2, Zenon DEF Arguments!Place, S
<1>4. p \in 1 .. Len(text)
  BY <1>1, <1>3
<1>5. u = SubSeq(text, 1, p - 1)
  BY DEF Arguments!User
<1> HIDE DEF p, u
<1>6. 1 \in 1 .. Len(text) + 1 /\ p - 1 \in 1 - 1 .. Len(text)
  BY <1>1, <1>4
<1>7. /\ u \in Seq(Nat) /\ Len(u) = p - 1
      /\ \A k \in 1 .. p - 1 : u[k] = text[k]
  <2>1. \A k \in 1 .. p - 1 : 1 + k - 1 = k
    BY <1>4
  <2> QED
    BY <1>1, <1>4, <1>5, <1>6, <2>1, SubSeqProperties
<1>8. \A k \in DOMAIN text : text[k] =< 127
  BY DEF Arguments!NamesUser, Arguments!Fits
<1>9. \A k \in DOMAIN u : u[k] =< 127
  <2>1. DOMAIN u = 1 .. p - 1 /\ \A k \in 1 .. p - 1 : k \in DOMAIN text
    BY <1>1, <1>4, <1>7
  <2> QED
    BY <1>7, <1>8, <2>1, Zenon
<1>10. Len(u) < UsernameCapacity
  BY DEF Arguments!NamesUser, u
<1> QED
  BY <1>9, <1>10 DEF Arguments!Fits, u

\* What the whole line says is what has been read when the loop ends.
LEMMA AllRead ==
    ASSUME ArgvIsRead, NEW n, n = Len(Argv) + 1
    PROVE  /\ \A flag : Seen(flag, n) = Arguments!ValuesOf(flag)
           /\ \A flag, default : Latest(flag, default, n) = Arguments!LastOf(flag, default)
           /\ \A set : GivenBefore(set, n) <=> Arguments!Given(set) # {}
           /\ \A i \in Arguments!Places : i < n /\ ~(i >= n)
<1>1. \A i \in Arguments!Places : i < n /\ ~(i >= n)
  BY DEF Arguments!Places, ArgvIsRead
<1>2. \A flag : Seen(flag, n) = Arguments!ValuesOf(flag)
  BY <1>1 DEF Seen, Arguments!ValuesOf
<1>3. \A flag, default : Latest(flag, default, n) = Arguments!LastOf(flag, default)
  BY <1>2, Zenon DEF Latest, LastIn, Arguments!LastOf
<1>4. \A set : GivenBefore(set, n) <=> Arguments!Given(set) # {}
  BY <1>1 DEF GivenBefore, Arguments!Given
<1> QED
  BY <1>1, <1>2, <1>3, <1>4

\* A line that has been read to its end is well formed.
LEMMA ReadIsWellFormed ==
    ASSUME ArgvIsRead, NEW n, n = Len(Argv) + 1, ReadBefore(n)
    PROVE  Arguments!WellFormed
<1>1. Arguments!Targets \subseteq Arguments!Places
  BY DEF Arguments!Targets
<1>2. \A i \in Arguments!Places : i < n /\ ~(i >= n)
  BY AllRead, Zenon
<1>3. Len(Argv) # 0 /\ Argv[Len(Argv)] \in Arguments!ValueFlags => Arguments!IsValue(Len(Argv))
  <2>1. Len(Argv) \in Nat
    BY DEF ArgvIsRead
  <2>2. ~Arguments!IsValue(n)
    BY DEF ReadBefore, WordsBefore
  <2> QED
    BY <2>1, <2>2, NextIsValue, Zenon
<1>4. \A i, j \in Arguments!Targets : i = j
  BY <1>1, <1>2, Zenon DEF ReadBefore, TargetBefore
<1> QED
  BY <1>1, <1>2, <1>3, <1>4, Zenon DEF ReadBefore, WordsBefore, Arguments!WellFormed

\* The target of a line that has been read: none, or the only word that is one.
LEMMA TargetRead ==
    ASSUME ArgvIsRead, NEW n, n = Len(Argv) + 1, ReadBefore(n)
    PROVE  \/ Target = Arguments!None /\ Arguments!Targets = {}
           \/ \E i \in Arguments!Targets :
                Target = Argv[i] /\ Target \in Words /\ \A j \in Arguments!Targets : j = i
<1>1. Arguments!Targets \subseteq Arguments!Places
  BY DEF Arguments!Targets
<1>2. \A i \in Arguments!Places : i < n /\ ~(i >= n) /\ Argv[i] \in Words
  <2>1. \A i \in Arguments!Places : Argv[i] \in Words
    BY DEF Arguments!Places, ArgvIsRead
  <2> QED
    BY <2>1, AllRead, Zenon
<1>3. TargetBefore(n)
  BY DEF ReadBefore
<1>4. (\A i \in Arguments!Targets : i >= n) => Arguments!Targets = {}
  BY <1>1, <1>2
<1>5. ASSUME NEW i \in Arguments!Targets, Target = Argv[i],
             \A j \in Arguments!Targets : j < n => j = i
      PROVE  Target \in Words /\ \A j \in Arguments!Targets : j = i
  BY <1>1, <1>2, <1>5, Zenon
<1> QED
  BY <1>3, <1>4, <1>5, Zenon DEF TargetBefore

\* What is left to decide when no help and no self-test is asked for: the target, the
\* user's name and the way to trust the host.
Named == IF Arguments!HasAt(Target) THEN Arguments!User(Target)
         ELSE Arguments!LastOf(Arguments!UserFlag, << >>)
Complete ==
    /\ Target # Arguments!None
    /\ Arguments!Fits(Target, TargetCapacity)
    /\ Arguments!Host(Target) # << >> /\ Arguments!Host(Target) \in Addresses
    /\ Named # << >> /\ Len(Named) < UsernameCapacity
    /\ \/ Arguments!ValuesOf(Arguments!FingerprintFlag) = {}
       \/ Arguments!Given({Arguments!YesFlag}) = {}

\* What follows the loop accepts exactly the complete lines.
LEMMA FinishDecides ==
    ASSUME ArgvIsRead, ArgumentTypes, NEW n, n = Len(Argv) + 1, ReadBefore(n)
    PROVE  /\ (/\ Arguments!Found /\ Arguments!UsernameAfter # << >>
               /\ Arguments!TrustIsClear) <=> Complete
           /\ Complete => Arguments!Found /\ Arguments!UsernameAfter = Named
<1>1. /\ HaveUsername <=> Arguments!ValuesOf(Arguments!UserFlag) # {}
      /\ Username = Arguments!LastOf(Arguments!UserFlag, << >>)
      /\ HaveFingerprint <=> Arguments!ValuesOf(Arguments!FingerprintFlag) # {}
  BY AllRead DEF ReadBefore, ValuesBefore
<1>2. AcceptAnyHostKey <=> Arguments!Given({Arguments!YesFlag}) # {}
  <2>1. GivenBefore({Arguments!YesFlag}, n) <=> Arguments!Given({Arguments!YesFlag}) # {}
    BY AllRead, Zenon
  <2> QED
    BY <2>1, Zenon DEF ReadBefore, SwitchesBefore
<1>3. ~HaveUsername => Username = << >>
  BY <1>1, Zenon DEF Arguments!LastOf
<1>4. Len(Username) < UsernameCapacity
  BY DEF ArgumentTypes, Arguments!Fits
<1>5. Arguments!TrustIsClear
        <=> \/ Arguments!ValuesOf(Arguments!FingerprintFlag) = {}
            \/ Arguments!Given({Arguments!YesFlag}) = {}
  BY <1>1, <1>2, Zenon DEF Arguments!TrustIsClear
<1>6. CASE Target = Arguments!None
  BY <1>6, Zenon DEF Complete, Arguments!Found
<1>7. CASE Target # Arguments!None /\ Arguments!HasAt(Target)
  <2>1. Named = Arguments!User(Target)
    BY <1>7, Zenon DEF Named
  <2>2. Arguments!Found <=> /\ Arguments!NamesUser(Target)
                            /\ Arguments!Host(Target) # << >>
                            /\ Arguments!Host(Target) \in Addresses
    BY <1>7, Zenon DEF Arguments!Found, Arguments!ParseTarget
  <2>3. Arguments!NamesUser(Target) <=> /\ Arguments!Fits(Target, TargetCapacity)
                                        /\ Named # << >> /\ Len(Named) < UsernameCapacity
    BY <1>7, <2>1, Zenon DEF Arguments!NamesUser
  <2>4. Arguments!NamesUser(Target) => Arguments!UsernameAfter = Named
    BY <1>7, <2>1, Zenon DEF Arguments!UsernameAfter
  <2> QED
    BY <1>5, <1>7, <2>2, <2>3, <2>4, Zenon DEF Complete
<1>8. CASE Target # Arguments!None /\ ~Arguments!HasAt(Target)
  <2>1. Named = Username
    BY <1>1, <1>8, Zenon DEF Named
  <2>2. Arguments!Found <=> /\ Arguments!Fits(Target, TargetCapacity) /\ HaveUsername
                            /\ Arguments!Host(Target) # << >>
                            /\ Arguments!Host(Target) \in Addresses
    BY <1>8, Zenon DEF Arguments!Found, Arguments!ParseTarget, Arguments!NamesUser
  <2>3. Arguments!UsernameAfter = Named
    BY <1>8, <2>1, Zenon DEF Arguments!UsernameAfter, Arguments!NamesUser
  <2> QED
    BY <1>3, <1>4, <1>5, <1>8, <2>1, <2>2, <2>3, Zenon DEF Complete
<1> QED
  BY <1>6, <1>7, <1>8

\* The line has been read to its end.
LEMMA FinishStep ==
    ASSUME ArgumentsInv, Arguments!Finish
    PROVE  ArgumentsInv'
<1> DEFINE n == Len(Argv) + 1
<1>1. /\ status = "RUNNING" /\ ~(Index =< Len(Argv))
      /\ UNCHANGED <<Argv, Index, Port, Password, HavePassword, Fingerprint, HaveFingerprint,
                     HaveUsername, AcceptAnyHostKey, Help, SelfTest, Target>>
  BY DEF Arguments!Finish, Arguments!Running, Arguments!More, Arguments!flags
<1>2. ArgvIsRead /\ ArgumentTypes /\ ReadBefore(Index)
  BY <1>1 DEF ArgumentsInv, Arguments!Running
<1>3. Index = n
  BY <1>1, <1>2 DEF ArgumentTypes, ArgvIsRead
<1>4. ReadBefore(n)
  BY <1>2, <1>3
<1> HIDE DEF n
<1>5. n = Len(Argv) + 1
  BY DEF n
<1>6. Arguments!WellFormed'
  <2>1. Arguments!WellFormed
    BY <1>2, <1>4, <1>5, ReadIsWellFormed, Zenon
  <2> QED
    BY <1>1, <2>1, SameWellFormed
<1>7. \A flag, default : Arguments!LastOf(flag, default)' = Arguments!LastOf(flag, default)
  BY <1>1, SameLast
<1>8. /\ Help' = (Arguments!Given(Arguments!HelpFlags)' # {})
      /\ SelfTest' = (Arguments!Given({Arguments!SelfTestFlag})' # {})
      /\ AcceptAnyHostKey' = (Arguments!Given({Arguments!YesFlag})' # {})
  <2>1. \A set : GivenBefore(set, n) <=> Arguments!Given(set) # {}
    BY <1>2, <1>5, AllRead, Zenon
  <2>2. \A set : GivenBefore(set, n) \in BOOLEAN
    BY DEF GivenBefore
  <2> QED
    BY <1>1, <1>4, <2>1, <2>2, SameLine DEF ReadBefore, SwitchesBefore
<1>9. /\ Port' = Arguments!ParsedPort(Arguments!LastOf(Arguments!PortFlag, <<50, 50>>))'
      /\ Password' = Arguments!LastOf(Arguments!PasswordFlag, << >>)'
      /\ HavePassword' = (Arguments!ValuesOf(Arguments!PasswordFlag)' # {})
      /\ Fingerprint' =
           Arguments!Normalized(Arguments!LastOf(Arguments!FingerprintFlag, << >>))'
      /\ HaveFingerprint' = (Arguments!ValuesOf(Arguments!FingerprintFlag)' # {})
  <2>1. /\ \A flag : Seen(flag, n) = Arguments!ValuesOf(flag)
        /\ \A flag, default : Latest(flag, default, n) = Arguments!LastOf(flag, default)
    BY <1>2, <1>5, AllRead, Zenon
  <2>2. ValuesBefore(n)
    BY <1>4 DEF ReadBefore
  <2>3. /\ Port = Arguments!ParsedPort(Arguments!LastOf(Arguments!PortFlag, <<50, 50>>))
        /\ Password = Arguments!LastOf(Arguments!PasswordFlag, << >>)
        /\ HavePassword = (Arguments!ValuesOf(Arguments!PasswordFlag) # {})
        /\ Fingerprint =
             Arguments!Normalized(Arguments!LastOf(Arguments!FingerprintFlag, << >>))
        /\ HaveFingerprint = (Arguments!ValuesOf(Arguments!FingerprintFlag) # {})
    BY <2>1, <2>2, Zenon DEF ValuesBefore
  <2> QED
    BY <1>1, <1>7, <2>3, SameLine
<1>10. Help' \/ SelfTest'
         <=> Arguments!Given(Arguments!HelpFlags \cup {Arguments!SelfTestFlag})' # {}
  BY <1>8 DEF Arguments!Given
<1>11. Arguments!Fits(Arguments!UsernameAfter, UsernameCapacity)
  <2>1. CASE Target # Arguments!None /\ Arguments!NamesUser(Target)
    BY <1>2, <2>1, UserFits, Zenon DEF ArgumentTypes, Arguments!UsernameAfter
  <2>2. CASE ~(Target # Arguments!None /\ Arguments!NamesUser(Target))
    BY <1>2, <2>2, Zenon DEF ArgumentTypes, Arguments!UsernameAfter
  <2> QED
    BY <2>1, <2>2
<1>12. ArgvIsRead'
  BY <1>1, <1>2 DEF ArgvIsRead
<1>13. ASSUME Arguments!Fits(Username', UsernameCapacity),
              status' \in {"SUCCESS", "INVALID_PARAMETER"}
       PROVE  ArgumentTypes'
  BY <1>1, <1>2, <1>13 DEF ArgumentTypes
<1>14. CASE Help \/ SelfTest
  <2>1. status' = "SUCCESS" /\ Username' = Username
    BY <1>14 DEF Arguments!Finish
  <2>2. ArgumentTypes'
    BY <1>2, <1>13, <2>1 DEF ArgumentTypes
  <2>3. Help' \/ SelfTest'
    BY <1>1, <1>14
  <2>4. Arguments!ReadAsMeant'
    BY <1>6, <1>8, <1>9, <1>10, <2>1, <2>3, Zenon DEF Arguments!ReadAsMeant
  <2>5. Arguments!ReadyToConnect'
    BY <2>3, Zenon DEF Arguments!ReadyToConnect
  <2>6. ~(Arguments!Running')
    BY <2>1 DEF Arguments!Running
  <2> QED
    BY <1>12, <2>2, <2>4, <2>5, <2>6, Zenon DEF ArgumentsInv
<1>15. CASE ~(Help \/ SelfTest)
  <2>1. /\ Username' = Arguments!UsernameAfter
        /\ Address' = IF Arguments!Found THEN Arguments!Host(Target) ELSE Address
        /\ status' = IF /\ Arguments!Found /\ Arguments!UsernameAfter # << >>
                        /\ Arguments!TrustIsClear
                     THEN "SUCCESS" ELSE "INVALID_PARAMETER"
    BY <1>15, Zenon DEF Arguments!Finish
  <2>2. /\ (/\ Arguments!Found /\ Arguments!UsernameAfter # << >>
            /\ Arguments!TrustIsClear) <=> Complete
        /\ Complete => Arguments!Found /\ Arguments!UsernameAfter = Named
    BY <1>2, <1>4, <1>5, FinishDecides, Zenon
  <2>3. status' = IF Complete THEN "SUCCESS" ELSE "INVALID_PARAMETER"
    BY <2>1, <2>2, Zenon
  <2>4. ArgumentTypes'
    BY <1>11, <1>13, <2>1, <2>3
  <2>5. Complete => Username' = Named /\ Address' = Arguments!Host(Target)
    BY <2>1, <2>2, Zenon
  <2>6. ~Help' /\ ~SelfTest'
    BY <1>1, <1>15
  <2>7. Arguments!Connects' <=> Complete
    <3>1. \/ Target = Arguments!None /\ Arguments!Targets = {}
          \/ \E i \in Arguments!Targets :
               Target = Argv[i] /\ Target \in Words /\ \A j \in Arguments!Targets : j = i
      BY <1>2, <1>4, <1>5, TargetRead, Zenon
    <3>2. /\ Arguments!Targets' = Arguments!Targets
          /\ Arguments!ValuesOf(Arguments!FingerprintFlag)'
               = Arguments!ValuesOf(Arguments!FingerprintFlag)
          /\ Arguments!Given({Arguments!YesFlag})' = Arguments!Given({Arguments!YesFlag})
          /\ Arguments!LastOf(Arguments!UserFlag, << >>)'
               = Arguments!LastOf(Arguments!UserFlag, << >>)
          /\ Argv' = Argv
      BY <1>1, <1>7, SameLine
    <3>3. CASE Target = Arguments!None /\ Arguments!Targets = {}
      BY <3>2, <3>3, Zenon DEF Arguments!Connects, Complete
    <3>4. ASSUME NEW i \in Arguments!Targets, Target = Argv[i], Target \in Words,
                 \A j \in Arguments!Targets : j = i
          PROVE  Arguments!Connects' <=> Complete
      <4>1. Arguments!Targets' = {i}
        BY <3>2, <3>4
      <4>2. Target # Arguments!None
        BY <3>4, NoneIsNoWord
      <4>3. status' = "SUCCESS" => Username' = Named /\ Address' = Arguments!Host(Target)
        BY <2>3, <2>5
      <4> DEFINE Fine ==
            /\ Arguments!Fits(Target, TargetCapacity)
            /\ Arguments!Host(Target) # << >> /\ Arguments!Host(Target) \in Addresses
            /\ Named # << >> /\ Len(Named) < UsernameCapacity
            /\ status' = "SUCCESS" => Username' = Named /\ Address' = Arguments!Host(Target)
      <4>4. Arguments!Connects' <=> /\ Fine
                                    /\ \/ Arguments!ValuesOf(Arguments!FingerprintFlag) = {}
                                       \/ Arguments!Given({Arguments!YesFlag}) = {}
        BY <2>6, <3>2, <3>4, <4>1 DEF Arguments!Connects, Named
      <4> QED
        BY <4>2, <4>3, <4>4, Zenon DEF Complete
    <3> QED
      BY <3>1, <3>3, <3>4, Zenon
  <2>8. Arguments!ReadAsMeant'
    <3>1. Arguments!Given(Arguments!HelpFlags \cup {Arguments!SelfTestFlag})' = {}
      BY <1>10, <2>6
    <3>2. (status' = "SUCCESS") <=> Complete
      BY <2>3
    <3> QED
      BY <1>6, <1>8, <1>9, <2>7, <3>1, <3>2, Zenon DEF Arguments!ReadAsMeant
  <2>9. Arguments!ReadyToConnect'
    <3>1. CASE Complete
      <4>1. /\ Username' # << >> /\ Address' \in Addresses
        BY <2>5, <3>1, Zenon DEF Complete
      <4>2. HaveFingerprint' => ~AcceptAnyHostKey' /\ Len(Fingerprint') = FingerprintLength
        <5>1. Arguments!TrustIsClear
          BY <2>2, <3>1
        <5> QED
          BY <1>1, <1>2, <5>1 DEF Arguments!TrustIsClear, ArgumentTypes
      <4> QED
        BY <4>1, <4>2, Zenon DEF Arguments!ReadyToConnect
    <3>2. CASE ~Complete
      BY <2>3, <3>2 DEF Arguments!ReadyToConnect
    <3> QED
      BY <3>1, <3>2
  <2>10. ~(Arguments!Running')
    BY <2>3 DEF Arguments!Running
  <2> QED
    BY <1>12, <2>4, <2>8, <2>9, <2>10, Zenon DEF ArgumentsInv
<1> QED
  BY <1>14, <1>15

\* The shell did not start the program.
LEMMA NoParametersStep ==
    ASSUME ArgumentsInv, Arguments!NoParameters
    PROVE  ArgumentsInv'
<1>1. /\ status' = "ERROR"
      /\ UNCHANGED <<Argv, Index, Port, Username, Password, HavePassword, Fingerprint,
                     HaveFingerprint, HaveUsername, AcceptAnyHostKey, Help, SelfTest, Address,
                     Target>>
  BY DEF Arguments!NoParameters, Arguments!values, Arguments!flags
<1>2. ArgvIsRead' /\ ArgumentTypes'
  BY <1>1 DEF ArgumentsInv, ArgvIsRead, ArgumentTypes
<1>3. status' # "SUCCESS" /\ status' # "INVALID_PARAMETER" /\ status' # "RUNNING"
  BY <1>1
<1>4. Arguments!ReadAsMeant' /\ Arguments!ReadyToConnect' /\ ~(Arguments!Running')
  BY <1>3 DEF Arguments!ReadAsMeant, Arguments!ReadyToConnect, Arguments!Running
<1> QED
  BY <1>2, <1>4, Zenon DEF ArgumentsInv

\* No word has been read.
LEMMA ArgumentsInvInit == Arguments!Init => ArgumentsInv
<1> SUFFICES ASSUME Arguments!Init PROVE ArgumentsInv
  OBVIOUS
<1>1. /\ Index = 1 /\ Port = 22 /\ status = "RUNNING" /\ Target = Arguments!None
      /\ Username = << >> /\ Password = << >> /\ Fingerprint = << >>
      /\ HavePassword = FALSE /\ HaveFingerprint = FALSE /\ HaveUsername = FALSE
      /\ AcceptAnyHostKey = FALSE /\ Help = FALSE /\ SelfTest = FALSE
  BY Zenon DEF Arguments!Init
<1>2. ArgvIsRead
  <2>1. PICK n \in 0 .. MaxWords : Argv \in [1 .. n -> Words]
    BY DEF Arguments!Init
  <2> QED
    BY <2>1, ArgumentsConstants DEF ArgvIsRead
<1>3. Len(Argv) \in Nat /\ Arguments!Places = 1 .. Len(Argv)
  BY <1>2 DEF ArgvIsRead, Arguments!Places
<1>4. ArgumentTypes
  <2>1. Len(<< >>) = 0
    OBVIOUS
  <2>2. Index \in 1 .. Len(Argv) + 1
    BY <1>1, <1>3
  <2>3. Port \in 1 .. MAX_UINT16
    BY <1>1, ArgumentsConstants
  <2>4. Len(Fingerprint) \in {0, FingerprintLength}
    BY <1>1, <2>1
  <2> QED
    BY <1>1, <2>2, <2>3, <2>4, EmptyFits DEF ArgumentTypes
<1>5. \A i \in Arguments!Places : ~(i < 1) /\ i >= 1
  BY <1>3
<1>6. WordsBefore(1)
  BY <1>5, FirstIsNoValue, Zenon DEF WordsBefore, Arguments!Targets
<1>7. TargetBefore(1)
  BY <1>1, <1>5, Zenon DEF TargetBefore, Arguments!Targets
<1>8. SwitchesBefore(1)
  <2>1. \A set : GivenBefore(set, 1) = FALSE
    BY <1>5 DEF GivenBefore, Arguments!Given
  <2> QED
    BY <1>1, <2>1 DEF SwitchesBefore
<1>9. ValuesBefore(1)
  <2>1. \A flag : Seen(flag, 1) = {}
    BY <1>5 DEF Seen, Arguments!ValuesOf
  <2>2. \A flag, default : Latest(flag, default, 1) = default
    BY <2>1, Zenon DEF Latest, LastIn
  <2> QED
    BY <1>1, <2>1, <2>2, PortsAre, DigestsAre, Zenon DEF ValuesBefore
<1>10. ReadBefore(Index)
  BY <1>1, <1>6, <1>7, <1>8, <1>9 DEF ReadBefore
<1>11. Arguments!ReadAsMeant /\ Arguments!ReadyToConnect
  BY <1>1 DEF Arguments!ReadAsMeant, Arguments!ReadyToConnect
<1> QED
  BY <1>2, <1>4, <1>10, <1>11 DEF ArgumentsInv

\* A turn of the loop keeps the invariant.
LEMMA ArgumentsInvStep ==
    ASSUME ArgumentsInv, Arguments!Next
    PROVE  ArgumentsInv'
BY SwitchStep, ValueFlagStep, PositionalStep, FinishStep, NoParametersStep DEF Arguments!Next

\* What the run checks of the command line.
LEMMA ArgumentsShow ==
    ASSUME ArgumentsInv
    PROVE  Arguments!TypeOK /\ Arguments!ReadAsMeant /\ Arguments!ReadyToConnect
<1>1. ArgumentTypes
  BY DEF ArgumentsInv
<1>2. Arguments!TypeOK
  BY <1>1 DEF ArgumentTypes, Arguments!TypeOK
<1> QED
  BY <1>2 DEF ArgumentsInv

\* A step of another part changes nothing.
LEMMA ArgumentsInvStutter ==
    ASSUME ArgumentsInv, UNCHANGED Arguments!vars
    PROVE  ArgumentsInv'
<1>1. UNCHANGED <<Argv, Index, Port, Username, Password, HavePassword, Fingerprint,
                  HaveFingerprint, HaveUsername, AcceptAnyHostKey, Help, SelfTest, Address,
                  Target, status>>
  BY DEF Arguments!vars, Arguments!values, Arguments!flags
<1>2. ArgvIsRead' /\ ArgumentTypes'
  BY <1>1 DEF ArgumentsInv, ArgvIsRead, ArgumentTypes
<1>3. Arguments!Running => ReadBefore(Index)'
  <2> SUFFICES ASSUME Arguments!Running PROVE ReadBefore(Index)'
    OBVIOUS
  <2>1. WordsBefore(Index) /\ TargetBefore(Index) /\ SwitchesBefore(Index) /\ ValuesBefore(Index)
    BY DEF ArgumentsInv, ReadBefore
  <2>2. WordsBefore(Index)' /\ TargetBefore(Index)'
    BY <1>1, <2>1, SameLine DEF TargetBefore
  <2>3. SwitchesBefore(Index)' /\ ValuesBefore(Index)'
    BY <1>1, <2>1, SameLine DEF SwitchesBefore, ValuesBefore
  <2> QED
    BY <2>2, <2>3, Zenon DEF ReadBefore
<1>4. Arguments!Running' = Arguments!Running
  BY <1>1 DEF Arguments!Running
<1>5. Arguments!ReadyToConnect'
  BY <1>1 DEF ArgumentsInv, Arguments!ReadyToConnect
<1>6. Arguments!ReadAsMeant'
  <2>1. \A flag, default : Arguments!LastOf(flag, default)' = Arguments!LastOf(flag, default)
    BY <1>1, SameLast
  <2>2. Arguments!WellFormed' = Arguments!WellFormed
    BY <1>1, SameWellFormed
  <2>3. Arguments!Connects' = Arguments!Connects
    BY <1>1, <2>1, SameLine DEF Arguments!Connects
  <2>4. /\ \A set : Arguments!Given(set)' = Arguments!Given(set)
        /\ \A flag : Arguments!ValuesOf(flag)' = Arguments!ValuesOf(flag)
    BY <1>1, SameLine
  <2>5. /\ Arguments!ParsedPort(Arguments!LastOf(Arguments!PortFlag, <<50, 50>>))'
             = Arguments!ParsedPort(Arguments!LastOf(Arguments!PortFlag, <<50, 50>>))
        /\ Arguments!Normalized(Arguments!LastOf(Arguments!FingerprintFlag, << >>))'
             = Arguments!Normalized(Arguments!LastOf(Arguments!FingerprintFlag, << >>))
        /\ Arguments!LastOf(Arguments!PasswordFlag, << >>)'
             = Arguments!LastOf(Arguments!PasswordFlag, << >>)
    BY <2>1
  <2>6. /\ status' = status /\ Help' = Help /\ SelfTest' = SelfTest /\ Port' = Port
        /\ AcceptAnyHostKey' = AcceptAnyHostKey /\ Password' = Password
        /\ HavePassword' = HavePassword /\ Fingerprint' = Fingerprint
        /\ HaveFingerprint' = HaveFingerprint
    BY <1>1
  <2> QED
    BY <2>2, <2>3, <2>4, <2>5, <2>6, Zenon DEF ArgumentsInv, Arguments!ReadAsMeant
<1> QED
  BY <1>2, <1>3, <1>4, <1>5, <1>6 DEF ArgumentsInv

-----------------------------------------------------------------------------
(***************************************************************************)
(* The allocator and the random source (UefiCompat.c).                     *)
(***************************************************************************)
\* Blocks and what their owners count on are sequences of bytes.
BlocksStored == bytes \in [Slots -> Seq(Int)] /\ expected \in [Slots -> Seq(Int)]

\* ContentKept, byte by byte; an owner never counts on more than the block holds,
\* which is what lets UefiCompatReallocate stop its copy at the smaller size.
Intact(s) ==
    /\ Len(bytes[s]) = Size[s] /\ Len(expected[s]) =< Size[s]
    /\ \A k \in 1 .. Len(bytes[s]) : bytes[s][k] # -1
    /\ \A k \in 1 .. Len(expected[s]) : expected[s][k] = bytes[s][k]

Pool == Compat!TypeOK /\ Compat!HeldIsAllocated /\ Compat!PoolIntact
Contents == BlocksStored /\ \A s \in owned : Intact(s)

-----------------------------------------------------------------------------
(***************************************************************************)
(* The steps on the heap.                                                  *)
(***************************************************************************)

\* A number that fits in a word is not changed by the word's modulus.
LEMMA InWord ==
    ASSUME NEW a \in Nat, NEW m \in Nat, a =< m
    PROVE  a % (m + 1) = a
OBVIOUS

\* An allocation that succeeds takes a free slot for a size whose sum with the
\* header fits in a word.
LEMMA PlacesFit ==
    ASSUME Compat!CompatAssumption, Compat!NullAssumption, NEW n \in Sizes, NEW s \in Compat!Places(n), s # Compat!Null
    PROVE  s \in Compat!Free /\ n \in Nat /\ HeaderSize + n \in 0 .. MAX_UINTN
BY DEF Compat!Places, Compat!TooLarge, Compat!CompatAssumption, Compat!NullAssumption, Compat!Null

\* What AllocatePool and the new header leave of the heap.
LEMMA AllocatedHeap ==
    ASSUME Compat!CompatAssumption, Compat!NullAssumption, Compat!TypeOK, BlocksStored,
           NEW n \in Sizes, NEW s \in Compat!Places(n), s # Compat!Null
    PROVE  LET h == Compat!Allocated(Compat!Heap, s, n) IN
           /\ h.room = [room EXCEPT ![s] = HeaderSize + n]
           /\ h.header = [header EXCEPT ![s] = Compat!Signature]
           /\ h.Size = [Size EXCEPT ![s] = n]
           /\ h.bytes = [bytes EXCEPT ![s] = Compat!Unset(n)]
           /\ h.bad = corrupted
           /\ DOMAIN h = {"room", "header", "Size", "bytes", "bad"}
<1>1. HeaderSize + n \in 0 .. MAX_UINTN /\ MAX_UINTN \in Nat
  BY PlacesFit DEF Compat!CompatAssumption
<1>2. (HeaderSize + n) % (MAX_UINTN + 1) = HeaderSize + n
  BY <1>1, InWord
<1> QED
  BY <1>2 DEF Compat!Allocated, Compat!Heap

\* A caller that passes a pointer once more after freeing it is refused by the
\* header: only a block that somebody holds carries the signature.
LEMMA SignatureMeansHeld ==
    ASSUME Pool, NEW s \in owned \cup stale
    PROVE  s \in Slots /\ (header[s] = Compat!Signature <=> s \in owned)
           /\ (s \in owned => room[s] # -1)
BY DEF Pool, Compat!TypeOK, Compat!HeldIsAllocated, Compat!PoolIntact, Compat!Free

\* What UefiCompatFree leaves of the heap.
LEMMA FreedHeap ==
    ASSUME Pool, NEW s \in owned \cup stale, NEW after \in {Compat!Erased, Compat!Other},
           Compat!HeapIs(Compat!Freed(Compat!Heap, s, after))
    PROVE  /\ s \in owned => /\ room' = [room EXCEPT ![s] = -1]
                             /\ header' = [header EXCEPT ![s] = after]
           /\ s \notin owned => room' = room /\ header' = header
           /\ Size' = Size /\ bytes' = bytes /\ corrupted' = FALSE
<1>1. s \in Slots /\ (header[s] = Compat!Signature <=> s \in owned) /\ (s \in owned => room[s] # -1)
  BY SignatureMeansHeld
<1>2. room \in [Slots -> -1 .. MAX_UINTN] /\ corrupted = FALSE
  BY DEF Pool, Compat!TypeOK, Compat!PoolIntact
<1>3. CASE s \in owned
  <2>1. Compat!HeapIs([Compat!Heap EXCEPT !.header[s] = after, !.bad = Compat!Heap.bad \/ Compat!Heap.room[s] = -1,
                            !.room[s] = -1])
    BY <1>1, <1>3 DEF Compat!Freed, Compat!Heap, Compat!AfterErasing
  <2>2. Compat!Heap.room[s] # -1 /\ Compat!Heap.bad = FALSE
    BY <1>1, <1>2, <1>3 DEF Compat!Heap
  <2> QED
    BY <1>3, <2>1, <2>2 DEF Compat!HeapIs, Compat!Heap
<1>4. CASE s \notin owned
  BY <1>1, <1>2, <1>4 DEF Compat!Freed, Compat!Heap, Compat!HeapIs
<1> QED
  BY <1>3, <1>4

\* The step of a reallocation that finds room: the new block, filled from the old
\* one, and the old one given back.
Moved(s, t, n, after) ==
    /\ room' = [room EXCEPT ![t] = HeaderSize + n, ![s] = -1]
    /\ header' = [header EXCEPT ![t] = Compat!Signature, ![s] = after]
    /\ Size' = [Size EXCEPT ![t] = n]
    /\ bytes' = [bytes EXCEPT ![t] = Compat!Copied(s, Compat!CopySize(Size[s], n))
                                        \o Compat!Unset(n - Compat!CopySize(Size[s], n))]
    /\ corrupted' = FALSE
    /\ owned' = (owned \ {s}) \cup {t}
    /\ stale' = (stale \cup {s}) \ {t}
    /\ expected' = [expected EXCEPT
                      ![t] = SubSeq(expected[s], 1, Compat!Lesser(Len(expected[s]), n))]

\* A reallocation changes nothing or moves the block to a free slot.
LEMMA ReallocateMoves ==
    ASSUME Compat!CompatAssumption, Compat!NullAssumption, Pool, BlocksStored, Compat!UefiCompatReallocate
    PROVE  \/ UNCHANGED Compat!heap
           \/ \E s \in owned, n \in Sizes \ {0}, after \in {Compat!Erased, Compat!Other}, t \in Slots :
                /\ Moved(s, t, n, after)
                /\ s # t /\ t \in Compat!Free /\ t \notin owned /\ n \in Nat
                /\ HeaderSize + n \in 0 .. MAX_UINTN
                /\ UNCHANGED <<writes, Compat!rng>>
<1>1. PICK s \in owned \cup stale, n \in Sizes \ {0}, after \in {Compat!Erased, Compat!Other} :
        \E t \in Compat!Places(n) :
        /\ IF header[s] # Compat!Signature \/ t = Compat!Null
           THEN Compat!KeepsOld(s) /\ UNCHANGED <<owned, stale, expected>>
           ELSE LET m     == Compat!CopySize(Size[s], n)
                    moved == [Compat!Allocated(Compat!Heap, t, n) EXCEPT
                                !.bytes[t] = Compat!Copied(s, m) \o Compat!Unset(n - m)]
                IN /\ Compat!HeapIs(Compat!Freed(moved, s, after))
                   /\ owned' = (owned \ {s}) \cup {t}
                   /\ stale' = (stale \cup {s}) \ {t}
                   /\ expected' = [expected EXCEPT
                        ![t] = SubSeq(expected[s], 1, Compat!Lesser(Len(expected[s]), n))]
        /\ UNCHANGED <<writes, Compat!rng>>
  BY DEF Compat!UefiCompatReallocate
<1>2. PICK t \in Compat!Places(n) :
        /\ IF header[s] # Compat!Signature \/ t = Compat!Null
           THEN Compat!KeepsOld(s) /\ UNCHANGED <<owned, stale, expected>>
           ELSE LET m     == Compat!CopySize(Size[s], n)
                    moved == [Compat!Allocated(Compat!Heap, t, n) EXCEPT
                                !.bytes[t] = Compat!Copied(s, m) \o Compat!Unset(n - m)]
                IN /\ Compat!HeapIs(Compat!Freed(moved, s, after))
                   /\ owned' = (owned \ {s}) \cup {t}
                   /\ stale' = (stale \cup {s}) \ {t}
                   /\ expected' = [expected EXCEPT
                        ![t] = SubSeq(expected[s], 1, Compat!Lesser(Len(expected[s]), n))]
        /\ UNCHANGED <<writes, Compat!rng>>
  BY <1>1
<1>3. s \in Slots /\ (header[s] = Compat!Signature <=> s \in owned) /\ (s \in owned => room[s] # -1)
  BY SignatureMeansHeld
<1>4. CASE header[s] # Compat!Signature \/ t = Compat!Null
  BY <1>2, <1>4 DEF Compat!KeepsOld, Compat!HeapIs, Compat!Heap, Compat!heap
<1>5. CASE header[s] = Compat!Signature /\ t # Compat!Null
  <2>1. s \in owned /\ t \in Compat!Free /\ n \in Nat /\ HeaderSize + n \in 0 .. MAX_UINTN
    BY <1>3, <1>5, PlacesFit
  <2>2. t \in Slots /\ s # t /\ t \notin owned
    BY <1>3, <2>1 DEF Compat!Free, Pool, Compat!HeldIsAllocated
  <2> DEFINE m     == Compat!CopySize(Size[s], n)
             h     == Compat!Allocated(Compat!Heap, t, n)
             block == Compat!Copied(s, m) \o Compat!Unset(n - m)
             moved == [h EXCEPT !.bytes[t] = block]
  <2>3. /\ Compat!HeapIs(Compat!Freed(moved, s, after))
        /\ owned' = (owned \ {s}) \cup {t}
        /\ stale' = (stale \cup {s}) \ {t}
        /\ expected' = [expected EXCEPT
             ![t] = SubSeq(expected[s], 1, Compat!Lesser(Len(expected[s]), n))]
        /\ UNCHANGED <<writes, Compat!rng>>
    BY <1>2, <1>5
  <2>4. /\ h.room = [room EXCEPT ![t] = HeaderSize + n]
        /\ h.header = [header EXCEPT ![t] = Compat!Signature]
        /\ h.Size = [Size EXCEPT ![t] = n]
        /\ h.bytes = [bytes EXCEPT ![t] = Compat!Unset(n)]
        /\ h.bad = corrupted
        /\ DOMAIN h = {"room", "header", "Size", "bytes", "bad"}
    BY AllocatedHeap, <1>5 DEF Pool
  <2>5. corrupted = FALSE /\ bytes \in [Slots -> Seq(Int)]
    BY DEF Pool, Compat!PoolIntact, BlocksStored
  <2>6. /\ moved.room = [room EXCEPT ![t] = HeaderSize + n]
        /\ moved.header = [header EXCEPT ![t] = Compat!Signature]
        /\ moved.Size = [Size EXCEPT ![t] = n]
        /\ moved.bytes = [bytes EXCEPT ![t] = block]
        /\ moved.bad = FALSE
        /\ DOMAIN moved = {"room", "header", "Size", "bytes", "bad"}
    <3> HIDE DEF h, block
    <3> QED
      BY <2>2, <2>4, <2>5
  <2>7. moved.header[s] = Compat!Signature /\ moved.room[s] # -1
    <3> HIDE DEF moved
    <3> QED
      BY <1>3, <1>5, <2>1, <2>2, <2>6 DEF Pool, Compat!TypeOK
  <2>8. Compat!HeapIs([moved EXCEPT !.header[s] = after, !.bad = moved.bad \/ moved.room[s] = -1,
                             !.room[s] = -1])
    <3> HIDE DEF moved
    <3> QED
      BY <2>3, <2>7 DEF Compat!Freed, Compat!AfterErasing
  <2>9. /\ room' = [moved.room EXCEPT ![s] = -1] /\ header' = [moved.header EXCEPT ![s] = after]
        /\ Size' = moved.Size /\ bytes' = moved.bytes /\ corrupted' = FALSE
    <3> HIDE DEF moved
    <3> QED
      BY <2>6, <2>7, <2>8 DEF Compat!HeapIs
  <2>10. Moved(s, t, n, after)
    <3> HIDE DEF moved
    <3> QED
      BY <2>3, <2>6, <2>9 DEF Moved, block, m
  <2> QED
    BY <2>1, <2>2, <2>3, <2>10
<1> QED
  BY <1>4, <1>5

\* The step of an allocation that finds room.
LEMMA AllocateTakes ==
    ASSUME Compat!CompatAssumption, Compat!NullAssumption, Pool, BlocksStored, Compat!UefiCompatAllocate
    PROVE  \/ UNCHANGED Compat!vars
           \/ \E n \in Sizes, s \in Slots :
                /\ s \in Compat!Free /\ s \notin owned /\ n \in Nat
                /\ HeaderSize + n \in 0 .. MAX_UINTN
                /\ room' = [room EXCEPT ![s] = HeaderSize + n]
                /\ header' = [header EXCEPT ![s] = Compat!Signature]
                /\ Size' = [Size EXCEPT ![s] = n]
                /\ bytes' = [bytes EXCEPT ![s] = Compat!Unset(n)]
                /\ corrupted' = FALSE
                /\ owned' = owned \cup {s} /\ stale' = stale \ {s}
                /\ expected' = [expected EXCEPT ![s] = << >>]
                /\ UNCHANGED <<writes, Compat!rng>>
<1>1. PICK n \in Sizes : \E s \in Compat!Places(n) :
        /\ IF s = Compat!Null
           THEN UNCHANGED Compat!heap
           ELSE /\ Compat!HeapIs(Compat!Allocated(Compat!Heap, s, n))
                /\ owned' = owned \cup {s} /\ stale' = stale \ {s}
                /\ expected' = [expected EXCEPT ![s] = << >>]
                /\ UNCHANGED writes
        /\ UNCHANGED Compat!rng
  BY DEF Compat!UefiCompatAllocate
<1>2. PICK s \in Compat!Places(n) :
        /\ IF s = Compat!Null
           THEN UNCHANGED Compat!heap
           ELSE /\ Compat!HeapIs(Compat!Allocated(Compat!Heap, s, n))
                /\ owned' = owned \cup {s} /\ stale' = stale \ {s}
                /\ expected' = [expected EXCEPT ![s] = << >>]
                /\ UNCHANGED writes
        /\ UNCHANGED Compat!rng
  BY <1>1
<1>3. CASE s = Compat!Null
  BY <1>2, <1>3 DEF Compat!vars
<1>4. CASE s # Compat!Null
  <2>1. s \in Compat!Free /\ n \in Nat /\ HeaderSize + n \in 0 .. MAX_UINTN
    BY <1>4, PlacesFit
  <2>2. s \in Slots /\ s \notin owned
    BY <2>1 DEF Compat!Free, Pool, Compat!HeldIsAllocated
  <2> DEFINE h == Compat!Allocated(Compat!Heap, s, n)
  <2>3. /\ h.room = [room EXCEPT ![s] = HeaderSize + n]
        /\ h.header = [header EXCEPT ![s] = Compat!Signature]
        /\ h.Size = [Size EXCEPT ![s] = n]
        /\ h.bytes = [bytes EXCEPT ![s] = Compat!Unset(n)]
        /\ h.bad = corrupted
    BY <1>4, AllocatedHeap DEF Pool
  <2>4. Compat!HeapIs(h)
    BY <1>2, <1>4
  <2>5. corrupted = FALSE
    BY DEF Pool, Compat!PoolIntact
  <2> HIDE DEF h
  <2> QED
    BY <1>2, <1>4, <2>1, <2>2, <2>3, <2>4, <2>5 DEF Compat!HeapIs
<1> QED
  BY <1>3, <1>4

-----------------------------------------------------------------------------
(***************************************************************************)
(* The pool.                                                               *)
(***************************************************************************)

\* The random source changes nothing of the heap.
LEMMA RandomStep ==
    ASSUME Compat!TypeOK, Compat!UefiRandomGenerateBlock \/ Compat!InstallRng
    PROVE  UNCHANGED Compat!heap /\ mRng' \in BOOLEAN /\ installed' \in BOOLEAN
<1>1. mRng \in BOOLEAN /\ installed \in BOOLEAN
  BY DEF Compat!TypeOK
<1>2. CASE Compat!UefiRandomGenerateBlock
  BY <1>1, <1>2, Zenon DEF Compat!UefiRandomGenerateBlock
<1>3. CASE Compat!InstallRng
  BY <1>1, <1>3, Zenon DEF Compat!InstallRng
<1> QED
  BY <1>2, <1>3

\* A step keeps the types of the contents.
LEMMA StoredStep ==
    ASSUME Compat!CompatAssumption, Compat!NullAssumption, Pool, Contents, Compat!Next \/ UNCHANGED Compat!vars
    PROVE  BlocksStored'
<1>0. BlocksStored /\ Compat!TypeOK
  BY DEF Contents, Pool
<1>1. CASE Compat!UefiCompatAllocate
  <2>1. ASSUME NEW n \in Nat PROVE Compat!Unset(n) \in Seq(Int)
    BY DEF Compat!Unset, Compat!Fresh
  <2>2. CASE UNCHANGED Compat!vars
    BY <1>0, <2>2 DEF BlocksStored, Compat!vars, Compat!heap
  <2>3. ASSUME NEW n \in Nat, NEW s \in Slots,
               bytes' = [bytes EXCEPT ![s] = Compat!Unset(n)],
               expected' = [expected EXCEPT ![s] = << >>]
        PROVE  BlocksStored'
    BY <1>0, <2>1, <2>3 DEF BlocksStored
  <2> QED
    BY <1>0, <1>1, <2>2, <2>3, AllocateTakes
<1>2. CASE Compat!UefiCompatFree
  BY <1>0, <1>2, FreedHeap DEF Compat!UefiCompatFree, BlocksStored
<1>3. CASE Compat!UefiCompatReallocate
  <2>1. CASE UNCHANGED Compat!heap
    BY <1>0, <2>1 DEF BlocksStored, Compat!heap
  <2>2. ASSUME NEW s \in owned, NEW n \in Sizes \ {0}, NEW after \in {Compat!Erased, Compat!Other},
               NEW t \in Slots, Moved(s, t, n, after), n \in Nat
        PROVE  BlocksStored'
    <3> DEFINE m == Compat!CopySize(Size[s], n)
    <3>1. s \in Slots /\ Size[s] \in Nat /\ m \in 0 .. n
      BY <1>0, <2>2 DEF Compat!CopySize, Compat!Lesser, Compat!TypeOK, Compat!CompatAssumption
    <3>2. bytes[s] \in Seq(Int) /\ expected[s] \in Seq(Int) /\ Len(expected[s]) \in Nat
      BY <1>0, <3>1 DEF BlocksStored
    <3>3. Compat!Copied(s, m) \in Seq(Int)
      <4> HIDE DEF m
      <4>1. \A k \in 1 .. m : (IF k =< Len(bytes[s]) THEN bytes[s][k] ELSE -1) \in Int
        BY <3>1, <3>2, ElementOfSeq
      <4> QED
        BY <3>1, <4>1 DEF Compat!Copied
    <3>4. Compat!Unset(n - m) \in Seq(Int)
      BY <2>2, <3>1 DEF Compat!Unset, Compat!Fresh
    <3>5. Compat!Copied(s, m) \o Compat!Unset(n - m) \in Seq(Int)
      BY <3>3, <3>4, ConcatProperties
    <3>6. SubSeq(expected[s], 1, Compat!Lesser(Len(expected[s]), n)) \in Seq(Int)
      <4>1. Compat!Lesser(Len(expected[s]), n) \in 0 .. Len(expected[s])
        BY <2>2, <3>2 DEF Compat!Lesser
      <4> QED
        BY <3>2, <4>1, SubSeqProperties
    <3> QED
      BY <1>0, <2>2, <3>5, <3>6 DEF Moved, BlocksStored
  <2> QED
    BY <1>0, <1>3, <2>1, <2>2, ReallocateMoves
<1>4. CASE Compat!Write
  <2>1. PICK s \in owned :
          /\ expected' = [expected EXCEPT ![s] = [k \in 1 .. Size[s] |-> writes + 1]]
          /\ bytes' = [bytes EXCEPT ![s] = expected'[s]]
    BY <1>4 DEF Compat!Write
  <2>2. s \in Slots /\ Size[s] \in Nat /\ writes + 1 \in Int
    BY <1>0, <2>1 DEF Compat!TypeOK, Compat!CompatAssumption
  <2>3. [k \in 1 .. Size[s] |-> writes + 1] \in Seq(Int)
    BY <2>2
  <2>4. expected'[s] = [k \in 1 .. Size[s] |-> writes + 1]
    BY <1>0, <2>1, <2>2 DEF BlocksStored
  <2> QED
    BY <1>0, <2>1, <2>3, <2>4 DEF BlocksStored
<1>5. CASE Compat!OthersAllocate
  BY <1>0, <1>5 DEF Compat!OthersAllocate, BlocksStored
<1>6. CASE Compat!OthersFree
  BY <1>0, <1>6 DEF Compat!OthersFree, BlocksStored
<1>7. CASE Compat!UefiRandomGenerateBlock \/ Compat!InstallRng
  BY <1>0, <1>7, RandomStep DEF BlocksStored, Compat!heap
<1>8. CASE UNCHANGED Compat!vars
  BY <1>0, <1>8 DEF BlocksStored, Compat!vars, Compat!heap
<1> QED
  BY <1>1, <1>2, <1>3, <1>4, <1>5, <1>6, <1>7, <1>8 DEF Compat!Next

\* The part of TypeOK that is about the blocks.
Blocks ==
    /\ room \in [Slots -> -1 .. MAX_UINTN] /\ header \in [Slots -> {Compat!Signature, Compat!Erased, Compat!Other}]
    /\ Size \in [Slots -> 0 .. MAX_UINTN]
    /\ owned \subseteq Slots /\ stale \subseteq Slots \ owned
    /\ \A s \in owned : room[s] = HeaderSize + Size[s]

\* The blocks are the only part of TypeOK that a step on the heap disturbs.
LEMMA BlocksSuffice ==
    ASSUME Compat!TypeOK, Blocks', corrupted' = FALSE, UNCHANGED <<writes, Compat!rng>>
    PROVE  Compat!TypeOK'
<1>1. mRng' \in BOOLEAN /\ installed' \in BOOLEAN /\ corrupted' \in BOOLEAN
  BY Zenon DEF Compat!TypeOK, Compat!rng
<1>2. writes' \in 0 .. MaxWrites
  BY DEF Compat!TypeOK
<1> QED
  BY <1>1, <1>2, Zenon DEF Compat!TypeOK, Blocks

\* The pool stays intact: every operation keeps a block exactly as long as somebody
\* holds it, and gives back only blocks that carry the signature.
LEMMA PoolStep ==
    ASSUME Compat!CompatAssumption, Compat!NullAssumption, Pool, BlocksStored, Compat!Next \/ UNCHANGED Compat!vars
    PROVE  Pool'
<1> USE DEF Compat!Signature, Compat!Erased, Compat!Other
<1>0. /\ Compat!TypeOK /\ Compat!HeldIsAllocated /\ Compat!PoolIntact
      /\ HeaderSize \in 1 .. MAX_UINTN /\ MAX_UINTN \in Nat /\ MaxWrites \in Nat
      /\ Sizes \subseteq 0 .. MAX_UINTN
  BY DEF Pool, Compat!CompatAssumption
<1>1. ASSUME UNCHANGED Compat!heap, mRng' \in BOOLEAN, installed' \in BOOLEAN
      PROVE  Pool'
  BY <1>0, <1>1 DEF Compat!heap, Pool, Compat!TypeOK, Compat!HeldIsAllocated, Compat!PoolIntact, Compat!Free
<1>2. CASE Compat!UefiCompatAllocate
  <2>1. CASE UNCHANGED Compat!vars
    BY <1>0, <1>1, <2>1 DEF Compat!vars, Compat!rng, Compat!TypeOK
  <2>2. ASSUME NEW n \in Sizes, NEW s \in Slots,
               s \in Compat!Free, s \notin owned, n \in Nat, HeaderSize + n \in 0 .. MAX_UINTN,
               room' = [room EXCEPT ![s] = HeaderSize + n],
               header' = [header EXCEPT ![s] = Compat!Signature],
               Size' = [Size EXCEPT ![s] = n], corrupted' = FALSE,
               owned' = owned \cup {s}, stale' = stale \ {s},
               UNCHANGED <<writes, Compat!rng>>
        PROVE  Pool'
    <3>1. Blocks'
      BY <1>0, <2>2 DEF Compat!TypeOK, Blocks
    <3>2. Compat!HeldIsAllocated' /\ Compat!PoolIntact'
      BY <1>0, <2>2 DEF Compat!HeldIsAllocated, Compat!PoolIntact, Compat!Free, Compat!TypeOK
    <3> QED
      BY <1>0, <2>2, <3>1, <3>2, BlocksSuffice DEF Pool
  <2> QED
    BY <1>2, <2>1, <2>2, AllocateTakes
<1>3. CASE Compat!UefiCompatFree
  <2>1. PICK s \in owned \cup stale, after \in {Compat!Erased, Compat!Other} :
          /\ Compat!HeapIs(Compat!Freed(Compat!Heap, s, after))
          /\ owned' = owned \ {s} /\ stale' = stale \cup {s}
          /\ UNCHANGED <<expected, writes, Compat!rng>>
    BY <1>3 DEF Compat!UefiCompatFree
  <2>2. /\ s \in owned => /\ room' = [room EXCEPT ![s] = -1]
                          /\ header' = [header EXCEPT ![s] = after]
        /\ s \notin owned => room' = room /\ header' = header
        /\ Size' = Size /\ corrupted' = FALSE
    BY <2>1, FreedHeap
  <2>3. s \in Slots
    BY SignatureMeansHeld
  <2>4. Blocks'
    BY <1>0, <2>1, <2>2, <2>3 DEF Compat!TypeOK, Blocks
  <2>5. Compat!HeldIsAllocated' /\ Compat!PoolIntact'
    BY <1>0, <2>1, <2>2, <2>3 DEF Compat!HeldIsAllocated, Compat!PoolIntact, Compat!Free, Compat!TypeOK
  <2> QED
    BY <1>0, <2>1, <2>2, <2>4, <2>5, BlocksSuffice DEF Pool
<1>4. CASE Compat!UefiCompatReallocate
  <2>1. CASE UNCHANGED Compat!heap
    BY <1>0, <1>1, <1>4, <2>1 DEF Compat!UefiCompatReallocate, Compat!rng, Compat!TypeOK
  <2>2. ASSUME NEW s \in owned, NEW n \in Sizes \ {0}, NEW after \in {Compat!Erased, Compat!Other},
               NEW t \in Slots, Moved(s, t, n, after),
               s # t, t \in Compat!Free, t \notin owned, n \in Nat,
               HeaderSize + n \in 0 .. MAX_UINTN, UNCHANGED <<writes, Compat!rng>>
        PROVE  Pool'
    <3>1. s \in Slots
      BY <1>0 DEF Compat!TypeOK
    <3>2. Blocks'
      <4>1. room' \in [Slots -> -1 .. MAX_UINTN] /\ Size' \in [Slots -> 0 .. MAX_UINTN]
        BY <1>0, <2>2, <3>1 DEF Moved, Compat!TypeOK
      <4>2. header' \in [Slots -> {Compat!Signature, Compat!Erased, Compat!Other}]
        BY <1>0, <2>2, <3>1 DEF Moved, Compat!TypeOK
      <4>3. owned' \subseteq Slots /\ stale' \subseteq Slots \ owned'
        BY <1>0, <2>2, <3>1 DEF Moved, Compat!TypeOK
      <4>4. \A r \in owned' : room'[r] = HeaderSize + Size'[r]
        BY <1>0, <2>2, <3>1 DEF Moved, Compat!TypeOK
      <4> QED
        BY <4>1, <4>2, <4>3, <4>4 DEF Blocks
    <3>3. Compat!HeldIsAllocated'
      BY <1>0, <2>2, <3>1 DEF Moved, Compat!HeldIsAllocated, Compat!Free, Compat!TypeOK
    <3>4. Compat!PoolIntact'
      <4>1. \A r \in Slots : room'[r] = -1 => header'[r] # Compat!Signature
        BY <1>0, <2>2, <3>1 DEF Moved, Compat!PoolIntact, Compat!Free, Compat!TypeOK
      <4> QED
        BY <2>2, <4>1 DEF Moved, Compat!PoolIntact, Compat!Free
    <3> QED
      BY <1>0, <2>2, <3>2, <3>3, <3>4, BlocksSuffice DEF Pool, Moved
  <2> QED
    BY <1>4, <2>1, <2>2, ReallocateMoves
<1>5. CASE Compat!Write
  BY <1>0, <1>5 DEF Compat!Write, Pool, Compat!TypeOK, Compat!HeldIsAllocated, Compat!PoolIntact, Compat!Free, Compat!rng
<1>6. CASE Compat!OthersAllocate
  <2>1. PICK s \in Compat!Free :
          /\ room' = [room EXCEPT ![s] = HeaderSize]
          /\ header' = [header EXCEPT ![s] = Compat!Other]
          /\ UNCHANGED <<Size, bytes, owned, stale, expected, writes, corrupted, Compat!rng>>
    BY <1>6 DEF Compat!OthersAllocate
  <2>2. s \in Slots /\ s \notin owned
    BY <1>0 DEF Compat!Free, Compat!HeldIsAllocated
  <2>3. Compat!TypeOK'
    BY <1>0, <2>1, <2>2 DEF Compat!TypeOK, Compat!rng
  <2>4. Compat!HeldIsAllocated' /\ Compat!PoolIntact'
    BY <1>0, <2>1, <2>2 DEF Compat!HeldIsAllocated, Compat!PoolIntact, Compat!Free, Compat!TypeOK
  <2> QED
    BY <2>3, <2>4 DEF Pool
<1>7. CASE Compat!OthersFree
  <2>1. PICK s \in Slots \ Compat!Free :
          /\ header[s] = Compat!Other
          /\ room' = [room EXCEPT ![s] = -1]
          /\ UNCHANGED <<header, Size, bytes, owned, stale, expected, writes, corrupted, Compat!rng>>
    BY <1>7 DEF Compat!OthersFree
  <2>2. s \notin owned
    BY <1>0, <2>1 DEF Compat!HeldIsAllocated
  <2>3. Compat!TypeOK'
    BY <1>0, <2>1, <2>2 DEF Compat!TypeOK, Compat!rng
  <2>4. Compat!HeldIsAllocated' /\ Compat!PoolIntact'
    BY <1>0, <2>1, <2>2 DEF Compat!HeldIsAllocated, Compat!PoolIntact, Compat!Free, Compat!TypeOK
  <2> QED
    BY <2>3, <2>4 DEF Pool
<1>8. CASE Compat!UefiRandomGenerateBlock \/ Compat!InstallRng
  BY <1>0, <1>1, <1>8, RandomStep
<1>9. CASE UNCHANGED Compat!vars
  BY <1>0, <1>1, <1>9 DEF Compat!vars, Compat!rng, Compat!TypeOK
<1> QED
  BY <1>2, <1>3, <1>4, <1>5, <1>6, <1>7, <1>8, <1>9 DEF Compat!Next

-----------------------------------------------------------------------------
(***************************************************************************)
(* The contents.                                                           *)
(***************************************************************************)

\* A block that a step leaves alone keeps what it holds.
LEMMA IntactUntouched ==
    ASSUME NEW s, Intact(s), bytes'[s] = bytes[s], Size'[s] = Size[s],
           expected'[s] = expected[s]
    PROVE  Intact(s)'
BY DEF Intact

\* The copy of a reallocation: the new block holds what its owner counts on.
LEMMA IntactMoved ==
    ASSUME Compat!CompatAssumption, Pool, BlocksStored, NEW s \in owned, Intact(s),
           NEW n \in Sizes, NEW t \in Slots, NEW after, n \in Nat, Moved(s, t, n, after)
    PROVE  Intact(t)'
<1> DEFINE m == Compat!CopySize(Size[s], n)
           l == Compat!Lesser(Len(expected[s]), n)
           a == Compat!Copied(s, m)
           b == Compat!Unset(n - m)
<1>1. s \in Slots /\ Size[s] \in Nat /\ bytes[s] \in Seq(Int) /\ expected[s] \in Seq(Int)
  BY DEF Pool, Compat!TypeOK, BlocksStored, Compat!CompatAssumption
<1>2. Len(bytes[s]) = Size[s] /\ Len(expected[s]) \in 0 .. Size[s]
  BY <1>1 DEF Intact
<1>3. m \in 0 .. n /\ m =< Size[s] /\ (m = n \/ m = Size[s])
  BY <1>1 DEF Compat!CopySize, Compat!Lesser
<1>4. l \in 0 .. m /\ l =< Len(expected[s])
  BY <1>2, <1>3 DEF Compat!CopySize, Compat!Lesser
<1>5. \A k \in 1 .. m : k =< Len(bytes[s]) /\ bytes[s][k] \in Int
  <2> HIDE DEF m
  <2> QED
    BY <1>1, <1>2, <1>3, ElementOfSeq
<1>6. a \in Seq(Int) /\ Len(a) = m /\ \A k \in 1 .. m : a[k] = bytes[s][k]
  <2> HIDE DEF m
  <2>1. a = [k \in 1 .. m |-> IF k =< Len(bytes[s]) THEN bytes[s][k] ELSE -1]
    BY DEF Compat!Copied
  <2>2. \A k \in 1 .. m : (IF k =< Len(bytes[s]) THEN bytes[s][k] ELSE -1) \in Int
    BY <1>5
  <2> HIDE DEF a
  <2> QED
    BY <1>3, <1>5, <2>1, <2>2
<1>7. b \in Seq(Int) /\ Len(b) = n - m /\ \A k \in 1 .. n - m : b[k] = 0
  <2> HIDE DEF m
  <2> QED
    BY <1>3 DEF Compat!Unset, Compat!Fresh
<1>8. /\ bytes'[t] = a \o b /\ Size'[t] = n
      /\ expected'[t] = SubSeq(expected[s], 1, l)
  BY DEF Moved, BlocksStored, Pool, Compat!TypeOK
<1> HIDE DEF m, l, a, b
<1>9. /\ a \o b \in Seq(Int) /\ Len(a \o b) = n
      /\ \A k \in 1 .. m : (a \o b)[k] = a[k]
      /\ \A k \in 1 .. n : k > m => (a \o b)[k] = b[k - m]
  <2>1. /\ a \o b \in Seq(Int) /\ Len(a \o b) = Len(a) + Len(b)
        /\ \A k \in 1 .. Len(a) + Len(b) :
             (a \o b)[k] = IF k =< Len(a) THEN a[k] ELSE b[k - Len(a)]
    BY <1>6, <1>7, ConcatProperties
  <2> DEFINE c == a \o b
  <2> HIDE DEF c
  <2>2. /\ c \in Seq(Int) /\ Len(c) = n
        /\ \A k \in 1 .. n : c[k] = IF k =< m THEN a[k] ELSE b[k - m]
    <3>1. Len(a) + Len(b) = n
      BY <1>3, <1>6, <1>7
    <3>2. /\ c \in Seq(Int) /\ Len(c) = Len(a) + Len(b)
          /\ \A k \in 1 .. Len(a) + Len(b) : c[k] = IF k =< Len(a) THEN a[k] ELSE b[k - Len(a)]
      BY <2>1, Zenon DEF c
    <3> QED
      BY <1>6, <3>1, <3>2
  <2>3. /\ \A k \in 1 .. m : c[k] = a[k]
        /\ \A k \in 1 .. n : k > m => c[k] = b[k - m]
    BY <1>3, <2>2
  <2> QED
    BY <2>2, <2>3, Zenon DEF c
<1>10. /\ Len(SubSeq(expected[s], 1, l)) = l
       /\ \A k \in 1 .. l : SubSeq(expected[s], 1, l)[k] = expected[s][k]
  <2>1. /\ 1 \in 1 .. Len(expected[s]) + 1 /\ l \in 1 - 1 .. Len(expected[s])
    BY <1>1, <1>2, <1>4
  <2>2. \A k \in 1 .. l : 1 + k - 1 = k
    OBVIOUS
  <2> QED
    BY <1>1, <1>4, <2>1, <2>2, SubSeqProperties
<1>11. \A k \in 1 .. n : (a \o b)[k] # -1
  <2>1. \A k \in 1 .. m : bytes[s][k] # -1
    BY <1>2, <1>3 DEF Intact
  <2>2. \A k \in 1 .. n : k > m => k - m \in 1 .. n - m
    BY <1>3
  <2>3. ASSUME NEW k \in 1 .. n, k =< m PROVE (a \o b)[k] # -1
    <3>1. k \in 1 .. m
      BY <1>3, <2>3
    <3>2. (a \o b)[k] = a[k] /\ a[k] = bytes[s][k] /\ bytes[s][k] # -1
      BY <1>6, <1>9, <2>1, <3>1, Zenon
    <3> QED
      BY <3>2, Zenon
  <2>4. ASSUME NEW k \in 1 .. n, k > m PROVE (a \o b)[k] # -1
    <3>1. (a \o b)[k] = b[k - m] /\ b[k - m] = 0
      BY <1>7, <1>9, <2>2, <2>4, Zenon
    <3>2. 0 # -1
      OBVIOUS
    <3> QED
      BY <3>1, <3>2, Zenon
  <2>5. \A k \in 1 .. n : k =< m \/ k > m
    BY <1>3
  <2> QED
    BY <2>3, <2>4, <2>5, Zenon
<1>12. \A k \in 1 .. l : SubSeq(expected[s], 1, l)[k] = (a \o b)[k]
  <2>1. \A k \in 1 .. l : expected[s][k] = bytes[s][k]
    BY <1>2, <1>4 DEF Intact
  <2>2. \A k \in 1 .. l : k \in 1 .. m /\ k \in 1 .. n
    BY <1>3, <1>4
  <2> QED
    BY <1>6, <1>9, <1>10, <2>1, <2>2
<1> QED
  BY <1>3, <1>4, <1>8, <1>9, <1>10, <1>11, <1>12 DEF Intact

\* A step keeps what the owners count on.
LEMMA ContentsStep ==
    ASSUME Compat!CompatAssumption, Compat!NullAssumption, Pool, Contents, Compat!Next \/ UNCHANGED Compat!vars
    PROVE  Contents'
<1>0. BlocksStored /\ Compat!TypeOK /\ \A s \in owned : s \in Slots /\ Intact(s)
  BY DEF Contents, Pool, Compat!TypeOK
<1>1. BlocksStored'
  BY StoredStep
<1> SUFFICES \A s \in owned' : Intact(s)'
  BY <1>1 DEF Contents
<1>2. ASSUME UNCHANGED Compat!heap PROVE \A s \in owned' : Intact(s)'
  BY <1>0, <1>2, IntactUntouched DEF Compat!heap
<1>3. CASE Compat!UefiCompatAllocate
  <2>1. CASE UNCHANGED Compat!vars
    BY <1>2, <2>1 DEF Compat!vars
  <2>2. ASSUME NEW n \in Sizes, NEW s \in Slots, n \in Nat,
               Size' = [Size EXCEPT ![s] = n],
               bytes' = [bytes EXCEPT ![s] = Compat!Unset(n)],
               owned' = owned \cup {s}, s \notin owned,
               expected' = [expected EXCEPT ![s] = << >>]
        PROVE  \A r \in owned' : Intact(r)'
    <3>1. ASSUME NEW r \in owned PROVE Intact(r)'
      BY <1>0, <2>2, <3>1, IntactUntouched DEF BlocksStored, Compat!TypeOK
    <3>2. bytes'[s] = Compat!Unset(n) /\ Size'[s] = n /\ expected'[s] = << >>
      BY <1>0, <2>2 DEF BlocksStored, Compat!TypeOK
    <3>3. Len(Compat!Unset(n)) = n /\ \A k \in 1 .. n : Compat!Unset(n)[k] = 0
      BY <2>2 DEF Compat!Unset, Compat!Fresh
    <3>4. Intact(s)'
      BY <2>2, <3>2, <3>3 DEF Intact
    <3> QED
      BY <2>2, <3>1, <3>4
  <2> QED
    BY <1>0, <1>3, <2>1, <2>2, AllocateTakes
<1>4. CASE Compat!UefiCompatFree
  <2>1. PICK s \in owned \cup stale, after \in {Compat!Erased, Compat!Other} :
          /\ Compat!HeapIs(Compat!Freed(Compat!Heap, s, after)) /\ owned' = owned \ {s} /\ expected' = expected
    BY <1>4 DEF Compat!UefiCompatFree
  <2>2. Size' = Size /\ bytes' = bytes
    BY <2>1, FreedHeap
  <2> QED
    BY <1>0, <2>1, <2>2, IntactUntouched
<1>5. CASE Compat!UefiCompatReallocate
  <2>1. CASE UNCHANGED Compat!heap
    BY <1>2, <2>1
  <2>2. ASSUME NEW s \in owned, NEW n \in Sizes \ {0}, NEW after \in {Compat!Erased, Compat!Other},
               NEW t \in Slots, Moved(s, t, n, after), s # t, t \notin owned, n \in Nat
        PROVE  \A r \in owned' : Intact(r)'
    <3>1. Intact(t)'
      BY <1>0, <2>2, IntactMoved
    <3>2. ASSUME NEW r \in owned PROVE Intact(r)'
      <4>1. r # t /\ r \in Slots /\ Intact(r)
        BY <1>0, <2>2, <3>2
      <4>2. bytes'[r] = bytes[r] /\ Size'[r] = Size[r] /\ expected'[r] = expected[r]
        BY <1>0, <2>2, <4>1 DEF Moved, BlocksStored, Compat!TypeOK
      <4> QED
        BY <4>1, <4>2, IntactUntouched
    <3>3. owned' = (owned \ {s}) \cup {t}
      BY <2>2 DEF Moved
    <3> QED
      BY <3>1, <3>2, <3>3
  <2> QED
    BY <1>0, <1>5, <2>1, <2>2, ReallocateMoves
<1>6. CASE Compat!Write
  <2>1. PICK s \in owned :
          /\ expected' = [expected EXCEPT ![s] = [k \in 1 .. Size[s] |-> writes + 1]]
          /\ bytes' = [bytes EXCEPT ![s] = expected'[s]]
          /\ UNCHANGED <<Size, owned>>
    BY <1>6 DEF Compat!Write
  <2> DEFINE w == [k \in 1 .. Size[s] |-> writes + 1]
  <2>2. s \in Slots /\ Size[s] \in Nat /\ writes \in Nat
    BY <1>0, <2>1 DEF Compat!TypeOK, Compat!CompatAssumption
  <2>3. expected'[s] = w /\ bytes'[s] = w /\ Size'[s] = Size[s]
    <3> HIDE DEF w
    <3>1. expected' = [expected EXCEPT ![s] = w]
      BY <2>1 DEF w
    <3> QED
      BY <1>0, <2>1, <2>2, <3>1 DEF BlocksStored
  <2>4. Len(w) = Size[s] /\ \A k \in 1 .. Len(w) : w[k] # -1
    BY <2>2
  <2>5. Intact(s)'
    <3> HIDE DEF w
    <3> QED
      BY <2>2, <2>3, <2>4 DEF Intact
  <2>6. ASSUME NEW r \in owned, r # s PROVE Intact(r)'
    BY <1>0, <2>1, <2>2, <2>6, IntactUntouched DEF BlocksStored
  <2> QED
    BY <2>1, <2>5, <2>6
<1>7. CASE Compat!OthersAllocate
  BY <1>0, <1>7, IntactUntouched DEF Compat!OthersAllocate
<1>8. CASE Compat!OthersFree
  BY <1>0, <1>8, IntactUntouched DEF Compat!OthersFree
<1>9. CASE Compat!UefiRandomGenerateBlock \/ Compat!InstallRng
  BY <1>0, <1>2, <1>9, RandomStep
<1>10. CASE UNCHANGED Compat!vars
  BY <1>2, <1>10 DEF Compat!vars
<1> QED
  BY <1>3, <1>4, <1>5, <1>6, <1>7, <1>8, <1>9, <1>10 DEF Compat!Next

\* The heap and the random source are as the callers were told.
CompatInv == Pool /\ Contents /\ Compat!RandomOrFailure

\* The pool is empty and nothing has been asked for.
LEMMA CompatInvInit ==
    ASSUME Compat!CompatAssumption, Compat!NullAssumption, Compat!Init
    PROVE  CompatInv
<1>1. mRng \in BOOLEAN /\ installed \in BOOLEAN /\ corrupted \in BOOLEAN
  BY Zenon DEF Compat!Init
<1>2. /\ room \in [Slots -> -1 .. MAX_UINTN]
      /\ header \in [Slots -> {Compat!Signature, Compat!Erased, Compat!Other}]
      /\ Size \in [Slots -> 0 .. MAX_UINTN] /\ owned = {} /\ stale = {}
      /\ writes \in 0 .. MaxWrites
  <2>1. /\ room = [s \in Slots |-> -1] /\ header = [s \in Slots |-> Compat!Other]
        /\ Size = [s \in Slots |-> 0] /\ owned = {} /\ stale = {} /\ writes = 0
    BY Zenon DEF Compat!Init
  <2>2. MAX_UINTN \in Nat /\ MaxWrites \in Nat
    BY DEF Compat!CompatAssumption
  <2> QED
    BY <2>1, <2>2
<1>3. Compat!TypeOK
  BY <1>1, <1>2 DEF Compat!TypeOK
<1>4. Compat!HeldIsAllocated /\ Compat!PoolIntact
  BY DEF Compat!Init, Compat!HeldIsAllocated, Compat!PoolIntact, Compat!Free, Compat!Other,
     Compat!Signature
<1>5. Contents
  <2>1. /\ bytes = [s \in Slots |-> << >>] /\ expected = [s \in Slots |-> << >>]
        /\ owned = {}
    BY Zenon DEF Compat!Init
  <2> QED
    BY <2>1 DEF Contents, BlocksStored
<1>6. Compat!RandomOrFailure
  <2>0. -1 # 0
    OBVIOUS
  <2>1. random = <<-1, "as before">>
    BY Zenon DEF Compat!Init
  <2>2. <<-1, "as before">>[1] = -1
    OBVIOUS
  <2> QED
    BY <2>0, <2>1, <2>2, Zenon DEF Compat!RandomOrFailure
<1> QED
  BY <1>3, <1>4, <1>5, <1>6 DEF CompatInv, Pool

\* A caller of UefiRandomGenerateBlock that is told it got random bytes did get them.
LEMMA RandomKept ==
    ASSUME Compat!RandomOrFailure, Compat!Next \/ UNCHANGED Compat!vars
    PROVE  Compat!RandomOrFailure'
<1>0. -1 # 0
  OBVIOUS
<1>1. CASE UNCHANGED <<mRng, random>>
  BY <1>1 DEF Compat!RandomOrFailure
<1>2. CASE Compat!UefiRandomGenerateBlock
  <2>1. PICK fails \in BOOLEAN :
          /\ mRng' = (mRng \/ installed)
          /\ random' = <<IF mRng \/ installed
                           THEN Compat!ResultOf((mRng \/ installed) /\ ~fails) ELSE -1,
                         IF (mRng \/ installed) /\ ~fails THEN "random" ELSE "as before">>
    BY <1>2, Zenon DEF Compat!UefiRandomGenerateBlock
  <2>2. CASE mRng \/ installed
    <3>1. mRng'
      BY <2>1, <2>2, Zenon
    <3>2. CASE fails
      <4>1. random' = <<-1, "as before">>
        BY <2>1, <2>2, <3>2 DEF Compat!ResultOf
      <4>2. random'[1] = -1
        BY <4>1
      <4> QED
        BY <1>0, <4>2, Zenon DEF Compat!RandomOrFailure
    <3>3. CASE ~fails
      BY <2>1, <2>2, <3>1, <3>3 DEF Compat!RandomOrFailure, Compat!ResultOf
    <3> QED
      BY <3>2, <3>3
  <2>3. CASE ~(mRng \/ installed)
    <3>1. random'[1] = -1
      BY <2>1, <2>3
    <3> QED
      BY <1>0, <3>1, Zenon DEF Compat!RandomOrFailure
  <2> QED
    BY <2>2, <2>3
<1> QED
  BY <1>1, <1>2 DEF Compat!Next, Compat!vars, Compat!rng, Compat!UefiCompatAllocate,
     Compat!UefiCompatFree, Compat!UefiCompatReallocate, Compat!Write, Compat!OthersAllocate,
     Compat!OthersFree, Compat!InstallRng

\* A step keeps the invariant.
LEMMA CompatInvStep ==
    ASSUME Compat!CompatAssumption, Compat!NullAssumption, CompatInv,
           Compat!Next \/ UNCHANGED Compat!vars
    PROVE  CompatInv'
BY PoolStep, ContentsStep, RandomKept DEF CompatInv, Contents

\* What the runs check of the allocator and of the random source.
LEMMA CompatShows ==
    ASSUME CompatInv
    PROVE  /\ Compat!TypeOK /\ Compat!HeldIsAllocated /\ Compat!PoolIntact
           /\ Compat!ContentKept /\ Compat!RandomOrFailure
<1>1. Compat!ContentKept
  <2> SUFFICES ASSUME NEW s \in owned
               PROVE  /\ expected[s] = SubSeq(bytes[s], 1, Len(expected[s]))
                      /\ Len(bytes[s]) = Size[s]
                      /\ -1 \notin {bytes[s][k] : k \in DOMAIN bytes[s]}
    BY DEF Compat!ContentKept
  <2>1. s \in Slots /\ Intact(s) /\ bytes[s] \in Seq(Int) /\ expected[s] \in Seq(Int)
    BY DEF CompatInv, Pool, Compat!TypeOK, Contents, BlocksStored
  <2>2. Len(expected[s]) \in 0 .. Len(bytes[s]) /\ DOMAIN bytes[s] = 1 .. Len(bytes[s])
    BY <2>1 DEF Intact
  <2> DEFINE p == SubSeq(bytes[s], 1, Len(expected[s]))
  <2>3. p \in Seq(Int) /\ Len(p) = Len(expected[s])
        /\ \A k \in 1 .. Len(expected[s]) : p[k] = bytes[s][k]
    <3>1. 1 \in 1 .. Len(bytes[s]) + 1 /\ Len(expected[s]) \in 1 - 1 .. Len(bytes[s])
      BY <2>1, <2>2
    <3>2. \A k \in 1 .. Len(expected[s]) : 1 + k - 1 = k
      OBVIOUS
    <3> QED
      BY <2>1, <2>2, <3>1, <3>2, SubSeqProperties
  <2>4. expected[s] = p
    <3> HIDE DEF p
    <3>1. \A k \in 1 .. Len(expected[s]) : expected[s][k] = p[k]
      BY <2>1, <2>3 DEF Intact
    <3> QED
      BY <2>1, <2>3, <3>1, SeqEqual
  <2> QED
    BY <2>1, <2>2, <2>4 DEF Intact
<1> QED
  BY <1>1 DEF CompatInv, Pool

-----------------------------------------------------------------------------
(***************************************************************************)
(* The parts together.  A behaviour is one of a single part, so the        *)
(* invariant is that of the active part.                                   *)
(***************************************************************************)
Inv ==
    /\ active \in {"compat", "strings", "arguments", "conversions"}
    /\ active = "compat" => CompatInv
    /\ active = "strings" => StringsInv
    /\ active = "arguments" => ArgumentsInv
    /\ active = "conversions" => ConversionsInv

\* What the constants of the allocator satisfy.
LEMMA CompatAssumed == Compat!CompatAssumption /\ Compat!NullAssumption
BY PartsAssumption

\* Each part starts in its invariant,
LEMMA InvInit == Init => Inv
<1> SUFFICES ASSUME Init PROVE Inv
  OBVIOUS
<1>1. CASE active = "compat" /\ Compat!Init
  BY <1>1, CompatAssumed, CompatInvInit, Zenon DEF Inv
<1>2. CASE active = "strings" /\ Strings!Init
  BY <1>2, StringsInvInit, Zenon DEF Inv
<1>3. CASE active = "arguments" /\ Arguments!Init
  BY <1>3, ArgumentsInvInit, Zenon DEF Inv
<1>4. CASE active = "conversions" /\ Conversions!Init
  BY <1>4, ConversionsInvInit, Zenon DEF Inv
<1> QED
  BY <1>1, <1>2, <1>3, <1>4, Zenon DEF Init

\* keeps it when nothing happens,
LEMMA InvStutter == Inv /\ UNCHANGED vars => Inv'
<1> SUFFICES ASSUME Inv, UNCHANGED vars PROVE Inv'
  OBVIOUS
<1>1. /\ UNCHANGED <<active, Port, status, Destination, Index>>
      /\ UNCHANGED compatVars /\ UNCHANGED stringVars /\ UNCHANGED argumentVars
      /\ UNCHANGED conversionVars
  BY DEF vars
<1>2. UNCHANGED Compat!vars
  BY <1>1 DEF compatVars, Compat!vars, Compat!heap, Compat!rng
<1>3. UNCHANGED Strings!vars
  BY <1>1 DEF stringVars, Strings!vars, Strings!args
<1>4. UNCHANGED Arguments!vars
  BY <1>1 DEF argumentVars, Arguments!vars, Arguments!values, Arguments!flags
<1>5. UNCHANGED Conversions!vars
  BY <1>1 DEF conversionVars, Conversions!vars
<1>6. active = "compat" => CompatInv'
  BY <1>2, CompatAssumed, CompatInvStep, Zenon DEF Inv
<1>7. active = "strings" => StringsInv'
  BY <1>3, StringsInvStutter, Zenon DEF Inv
<1>8. active = "arguments" => ArgumentsInv'
  BY <1>4, ArgumentsInvStutter, Zenon DEF Inv
<1>9. active = "conversions" => ConversionsInv'
  BY <1>5, ConversionsInvStutter, Zenon DEF Inv
<1>10. active' = active
  BY <1>1
<1> QED
  BY <1>6, <1>7, <1>8, <1>9, <1>10, Zenon DEF Inv

\* and in its own steps.
LEMMA InvStep == Inv /\ [Next]_vars => Inv'
<1> SUFFICES ASSUME Inv, [Next]_vars PROVE Inv'
  OBVIOUS
<1>1. CASE CompatStep
  <2>1. active = "compat" /\ active' = active /\ Compat!Next
    BY <1>1 DEF CompatStep
  <2>2. CompatInv'
    BY <2>1, CompatAssumed, CompatInvStep, Zenon DEF Inv
  <2> QED
    BY <2>1, <2>2, Zenon DEF Inv
<1>2. CASE StringStep
  <2>1. active = "strings" /\ active' = active /\ Strings!Next
    BY <1>2 DEF StringStep
  <2>2. StringsInv'
    BY <2>1, StringsInvStep, Zenon DEF Inv
  <2> QED
    BY <2>1, <2>2, Zenon DEF Inv
<1>3. CASE ArgumentStep
  <2>1. active = "arguments" /\ active' = active /\ Arguments!Next
    BY <1>3 DEF ArgumentStep
  <2>2. ArgumentsInv'
    BY <2>1, ArgumentsInvStep, Zenon DEF Inv
  <2> QED
    BY <2>1, <2>2, Zenon DEF Inv
<1>4. CASE ConversionStep
  <2>1. active = "conversions" /\ active' = active /\ Conversions!Next
    BY <1>4 DEF ConversionStep
  <2>2. ConversionsInv'
    BY <2>1, ConversionsInvStep, Zenon DEF Inv
  <2> QED
    BY <2>1, <2>2, Zenon DEF Inv
<1>5. CASE UNCHANGED vars
  BY <1>5, InvStutter
<1> QED
  BY <1>1, <1>2, <1>3, <1>4, <1>5, Zenon DEF Next

\* The invariant of the active part holds at all times.
LEMMA Invariance == Spec => []Inv
BY InvInit, InvStep, PTL DEF Spec

-----------------------------------------------------------------------------
\* TypeOK is an invariant: the sum of a block's size and its header's never wraps in
\* UefiCompatAllocate, no text or digest of Arguments.c is written past its field, and
\* a port that is being read stays in its word however many digits it has.
THEOREM TypeCorrect == Spec => []TypeOK
<1>1. Inv => TypeOK
  BY CompatShows, ArgumentsShow, ConversionsShow, Zenon DEF Inv, TypeOK
<1> QED
  BY <1>1, Invariance, PTL

\* A block is in the pool exactly as long as somebody holds it, whichever call of
\* UefiCompatReallocate fails; FreePool is never given a block twice, nor one of the
\* pool's other users, although callers may pass a pointer they have freed; an owner
\* finds what it wrote across any number of reallocations; and a caller of
\* UefiRandomGenerateBlock that is told it got random bytes did get them.
THEOREM CallersKeepTheirBlocks == Spec => []ServicesKept
<1>1. Inv => ServicesKept
  BY CompatShows, Zenon DEF Inv, ServicesKept
<1> QED
  BY <1>1, Invariance, PTL

\* memcmp, strlen, strcmp, strncmp, strncpy and strncat of UefiCompat.c return and
\* write what the C standard says, for arrays of any length and any bytes, and touch
\* nothing outside them.
THEOREM StringsFollowTheStandard == Spec => []AsStandardSays
<1>1. Inv => AsStandardSays
  BY StringsShow, Zenon DEF Inv, AsStandardSays
<1> QED
  BY <1>1, Invariance, PTL

\* However many words a command line has, and whatever they are, WolfSshParseArguments
\* accepts exactly the lines that are well formed and complete and takes from them
\* what they say: an option's value is never read as an option, the last of several
\* values counts, and a connection has a name, an address and one way to judge the
\* host key.
THEOREM CommandLineIsUnderstood == Spec => []ReadAsMeant
<1>1. Inv => ReadAsMeant
  BY ArgumentsShow, Zenon DEF Inv, ReadAsMeant
<1> QED
  BY <1>1, Invariance, PTL

\* The loops of CopyUnicodeAsAscii, ParsePort and ParseFingerprint accept exactly the
\* texts they should and leave the text, the port or the digest that Texts defines in
\* closed form, for texts of any length.
THEOREM ConversionsCompute == Spec => []LoopsCompute
<1>1. Inv => LoopsCompute
  BY ConversionsShow, Zenon DEF Inv, LoopsCompute
<1> QED
  BY <1>1, Invariance, PTL

=============================================================================
